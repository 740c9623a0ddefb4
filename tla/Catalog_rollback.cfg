\* The same instance; the rollback that is announced for a refused creation.
CONSTANTS
  Category = {c1, c2}
  Subcategory = {s1}
  Program = {p1}
  Profile = {u1}
  Worker = {w1, w2}
  MaxRequests = 3
  None = None
SPECIFICATION Spec
SYMMETRY Symmetry
INVARIANT NoImageWithoutRow
CHECK_DEADLOCK FALSE
