\* Two categories, a subcategory, a program and a profile; two requests in flight.
CONSTANTS
  Category = {c1, c2}
  Subcategory = {s1}
  Program = {p1}
  Profile = {u1}
  Worker = {w1, w2}
  MaxRequests = 3
  None = None
SPECIFICATION Spec
SYMMETRY Symmetry
INVARIANTS  RelationsAgree
CHECK_DEADLOCK FALSE
