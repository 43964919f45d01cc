\* A workflow published behind the head of the graph.
SPECIFICATION Spec
CONSTANTS
  NoMerge = NoMerge
  m1 = m1  m2 = m2  m3 = m3  k1 = k1  k2 = k2
  Merges = {m1, m2, m3}  Keys = {k1, k2}  Workflows = {w1}
  Items <- Apart  Binds <- BoundToFirst
  MaxStarts = 3
INVARIANTS StaleIsFlagged
CHECK_DEADLOCK FALSE
