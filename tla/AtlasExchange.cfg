\* Three vaults and one record: edits, counts and removals race bundles that arrive in
\* any order.
SPECIFICATION ExchangeSpec
CONSTANTS
  Peers = {p1, p2, p3}
  SharedIds = {r}
  Texts = {1, 2}
  MaxSequence = 2
  MaxUsage = 1
  Absent = absent
  MaxBundles = 2
SYMMETRY AnyPeer
CHECK_DEADLOCK FALSE
INVARIANTS SameNewsSameShelf NothingForgotten
PROPERTY EditPrevails
