\* Two web requests, of any admins, and a CLI command.
SPECIFICATION Spec
CONSTANTS
  Ids = {u1, u2, u3}
  Seed = u1
  Actors = {u1, u2, u3}
  Patches <- OneColumn
  Handlers = {h1, h2}
  Shells = {cli}
SYMMETRY Symmetry
INVARIANTS KeepsAnAdmin ActorsStay
