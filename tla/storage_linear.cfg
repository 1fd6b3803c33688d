\* Two handlers, every kind of body, a crash.
SPECIFICATION Spec
CONSTANTS
  a = a
  ab = ab
  one = one
  two = two
  empty = empty
  Absent = Absent
  Worker = {w1, w2}
  Temp = {t1, t2, t3, t4}
  Key <- NestedKey
  Above <- NestedAbove
  Blob <- MCBlob
  Size <- MCSize
  MaxCrashes = 1
SYMMETRY Names
INVARIANTS TypeOK  WholeBlobs
PROPERTIES NoLeakedTemps ImplementsBlobStore
