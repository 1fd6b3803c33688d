\* Publishes that disagree, retries, late calls, two groups, names that clash.
SPECIFICATION Spec
CONSTANTS
  acme_foo = acme_foo
  at_acme_foo = at_acme_foo
  acme = acme
  v1 = v1
  v2 = v2
  one = one
  two = two
  three = three
  NoHeader = NoHeader
  PublicGroup = public
  NoScope = NoScope
  Absent = Absent
  Tarball = {one, two, three}
  Publisher = {p1, p2}
  Reader = {c1}
  Name <- Clashing
  scopeOf <- ClashingScope
  safeName <- ClashingSafe
  Build <- Builds
  Version = {v1, v2}
  Header = {acme, beta}
  MaxPublishes = 2
  MaxFailures = 2
SYMMETRY Clients
INVARIANTS TypeOK RecordHasBlob
PROPERTIES RecordsOwnUpload DownloadVerifies ImplementsListing
\* Everything stops once the bounds are used up and no package is left to read.
CHECK_DEADLOCK FALSE
