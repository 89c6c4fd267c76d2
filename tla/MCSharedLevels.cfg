SPECIFICATION Spec
CONSTANTS
  Requests = {a1, b1, b2}
  Bidders = {b1, b2}
  Slices = {s1, s2, s3, s4, s5}
  NoSlice = NoSlice
  Books <- SmallBooks
  CopyLength = 3
SYMMETRY Symmetric
VIEW Live
INVARIANTS TypeOK Exclusive ReadInOrder
PROPERTY CacheUntouched
