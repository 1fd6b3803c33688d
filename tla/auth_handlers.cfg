\* Two goroutines over one database, both revoking.
SPECIFICATION Spec
CONSTANTS
  r1 = r1
  r2 = r2
  admin = admin
  bob = bob
  root_mail = root_mail
  bob_mail = bob_mail
  Keep = Keep
  Username <- MCUsername
  Email <- MCEmail
  SeedName <- admin
  SeedEmail <- root_mail
  Token = {t1, t2}
  Request = {r1, r2}
  Ops <- Handlers
  MaxUsers = 3
  MaxCreated = 2
  MaxCrashes = 0
SYMMETRY TokenSymmetry
INVARIANTS UnissuedIdsBare CredentialsOwned
PROPERTIES GuardHolds ImplementsRegistry
\* With Token exhausted nobody can log in any more.
CHECK_DEADLOCK FALSE
