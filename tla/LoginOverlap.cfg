\* Two login requests at a time, from two addresses of one network, while the
\* settings change and the database may fail.
SPECIFICATION Spec
CONSTANTS
  Users = {"admin"}
  Ips = {a, b}
  Subnet <- OneNet
  Policies <- Both
  Challenges = {"k"}
  TTL = 1
  MaxRequests = 4
  MaxOpen = 2
  MaxTime = 2
SYMMETRY Addresses
CHECK_DEADLOCK FALSE
INVARIANTS GuessesAreBounded ChallengeTriedOnce
