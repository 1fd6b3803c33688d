\* Two publishes over the three facades, a download, one failed call.
SPECIFICATION Spec
CONSTANTS
  Publisher = {p1, p2}
  Reader = {c1}
  Project <- MCProject
  projects <- MCProjects
  Version <- MCVersion
  Group <- MCGroup
  None = None
  PublicGroup = "aa"
  vendorOf <- MCVendorOf
  sanitized <- MCSanitized
  normalized <- MCNormalized
  encoded <- MCEncoded
  decoded <- MCDecoded
  JsonKey <- MCJsonKey
  Distribution = {"sdist", "wheel"}
  Build = {one, two}
  Nothing = Nothing
  MaxPublishes = 2
  MaxFailures = 1
  MaxDeletes = 1
  Lower = {"a"}
  Upper = {"A"}
  lowerOf <- MCLowerOf
  Digit = {"0"}
  Other = {"/"}
  MaxNumber = 1
  MaxPre = 2
  MaxBuild = 1
SYMMETRY Clients
INVARIANTS TypeOK ListedIsStored ListedIsGenuine
PROPERTIES RecordsOwnUploads DownloadVerifies ImplementsListing
\* The publishes run out.
CHECK_DEADLOCK FALSE
