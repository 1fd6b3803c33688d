\* Three logins and any commands in two processes, one of them killed.
SPECIFICATION Spec
CONSTANTS
  alice = alice
  bob = bob
  NoUser = NoUser
  Process = {p1, p2}
  User <- MCUser
  width <- MCWidth
  MaxTokens = 3
  MaxCrashes = 1
SYMMETRY ProcessSymmetry
INVARIANTS TypeOK TokenAndUserAgree FileIsLastLogin
