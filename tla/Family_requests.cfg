\* Two users, two families, and two requests in flight.
CONSTANTS
  User = {u1, u2}
  Family = {f1, f2}
  Name = {n1, n2}
  Worker = {w1, w2}
  MaxRequests = 4
  None = None
SPECIFICATION Spec
SYMMETRY Symmetry
INVARIANTS TypeOK FamiliesKept
PROPERTY IndependenceKept
CHECK_DEADLOCK FALSE
