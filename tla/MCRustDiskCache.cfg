CONSTANTS
  Writers = {"w1", "w2"}
  Readers = {"r"}
  Data = {"v1", "v2"}
  Miss = "miss"
  Inodes = {n1, n2, n3, n4, n5}
  None = None
  MayFail = TRUE
SPECIFICATION Spec
INVARIANT AtomicWrite
