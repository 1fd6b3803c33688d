\* Restarts after renames, deletions and revokes of the seed account.
SPECIFICATION FairSpec
CONSTANTS
  r1 = r1
  r2 = r2
  admin = admin
  bob = bob
  root_mail = root_mail
  bob_mail = bob_mail
  Keep = Keep
  Username <- MCUsername
  Email <- MCEmail
  SeedName <- admin
  SeedEmail <- root_mail
  Token = {t1}
  Request = {r1}
  Ops <- Accounts
  MaxUsers = 3
  MaxCreated = 2
  MaxCrashes = 1
INVARIANTS TypeOK
PROPERTIES BootRestoresAdmin BootCompletes
\* With Token exhausted nobody can log in any more.
CHECK_DEADLOCK FALSE
