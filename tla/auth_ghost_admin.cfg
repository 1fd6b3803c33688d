\* One request at a time: a deleted administrator still counts.
SPECIFICATION Spec
CONSTANTS
  r1 = r1
  r2 = r2
  admin = admin
  bob = bob
  root_mail = root_mail
  bob_mail = bob_mail
  Keep = Keep
  Username <- MCUsername
  Email <- MCEmail
  SeedName <- admin
  SeedEmail <- root_mail
  Token = {t1, t2}
  Request = {r1}
  Ops <- Accounts
  MaxUsers = 2
  MaxCreated = 2
  MaxCrashes = 0
PROPERTIES RevokeLeavesAdmin
\* With Token exhausted nobody can log in any more.
CHECK_DEADLOCK FALSE
