-------------------------- MODULE MCAdminAccounts --------------------------
(***************************************************************************)
(* Instances of AdminAccounts for TLC.                                     *)
(***************************************************************************)
EXTENDS AdminAccounts, TLC

\* To promote, to demote, or to disable; an account is not enabled again.
OneColumn ==
  {f \in Fields : (f.role = Keep \/ f.disabled = Keep) /\ f.disabled # "no"}

\* Handlers are alike, and so are the accounts other than the seed.
Symmetry == Permutations(Handlers) \cup Permutations(Ids \ {Seed})
=============================================================================
