\* All names up to five characters, all lists of up to three versions.
SPECIFICATION Spelling
CONSTANTS
  Lower = {"a"}
  Upper = {"A"}
  lowerOf <- MCLowerOf
  Digit = {"0"}
  Other = {"/"}
  MaxNumber = 1
  MaxPre = 2
  MaxBuild = 1
  MaxLength = 5
  MaxVersions = 3
INVARIANTS NamesNormalise NamesAreComponents PathsRoundTrip LatestIsHighest
\* Names and lists end at their bounds.
CHECK_DEADLOCK FALSE
