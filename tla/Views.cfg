SPECIFICATION Spec
CONSTANTS
  l1 = l1
  l2 = l2
  d1 = d1
  d2 = d2
  b1 = b1
  b2 = b2
  b3 = b3
  b4 = b4
  Labels = {l1, l2}
  DepLabels = {}
  Drivers = {d1, d2}
  Bases = {b1, b2, b3, b4}
  Null = Null
  NumThreads = 2
  Indices = {0, 1}
SYMMETRY Symm
INVARIANTS BasesTrimmed ContainsSound OwnedByOneThread
PROPERTIES ImplementsContract
