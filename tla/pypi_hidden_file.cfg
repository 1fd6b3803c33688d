\* The files of one PyPI release, uploaded one after the other.
SPECIFICATION Spec
CONSTANTS
  Publisher = {p1, p2}
  Reader = {}
  Project <- MCProject
  projects <- OnlyPypi
  Version <- MCVersion
  Group <- MCGroup
  None = None
  PublicGroup = "aa"
  vendorOf <- MCVendorOf
  sanitized <- MCSanitized
  normalized <- MCNormalized
  encoded <- MCEncoded
  decoded <- NoPaths
  JsonKey = {}
  Distribution = {"sdist", "wheel"}
  Build = {one}
  Nothing = Nothing
  MaxPublishes = 2
  MaxFailures = 0
  MaxDeletes = 0
  Lower = {"a"}
  Upper = {"A"}
  lowerOf <- MCLowerOf
  Digit = {"0"}
  Other = {"/"}
  MaxNumber = 1
  MaxPre = 2
  MaxBuild = 1
INVARIANTS EveryFileListed
\* The publishes run out.
CHECK_DEADLOCK FALSE
