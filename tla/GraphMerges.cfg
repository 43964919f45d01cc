\* Three merges that write two keys in opposite orders and retire one of them, and a
\* workflow bound to it.
SPECIFICATION Spec
CONSTANTS
  NoMerge = NoMerge
  m1 = m1  m2 = m2  m3 = m3  k1 = k1  k2 = k2
  Merges = {m1, m2, m3}  Keys = {k1, k2}  Workflows = {w1}
  Items <- Crossing  Binds <- BoundToFirst
  MaxStarts = 4
INVARIANTS OneLiveVersion
PROPERTIES HistoryStands MergeLands SnapshotFinal KeepsHistory
CHECK_DEADLOCK FALSE
