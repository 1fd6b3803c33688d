\* Two permission requests over the tables of two services.
SPECIFICATION Spec
CONSTANTS
  npm = npm
  team = team
  two = two
  NoName = NoName
  NoUser = NoUser
  Repository = {npm}
  Group = {team, two}
  Numeral <- MCNumeral
  Seeds <- MCSeeds
  Clerk = {c1, c2}
  User = {u1, u2}
  MaxRepository = 1
  MaxGroup = 2
  MaxAccess = 2
  MaxUserChanges = 1
SYMMETRY ClerkUserSymmetry
INVARIANTS TypeOK UnissuedHaveNoAccess
PROPERTIES ImplementsAuthority
\* Where the only user is deleted the bounds leave nothing to do.
CHECK_DEADLOCK FALSE
