\* Two requests that may overlap, all orders of their database calls.
CONSTANTS
  User = {u1, u2, u3}
  Row = {r1, r2}
  Worker = {w1, w2}
  None = None
SPECIFICATION Spec
SYMMETRY Symmetry
INVARIANTS TypeOK Consent OneRowUntilOverlap
PROPERTIES OnlyParticipantsChange ImplementsLifecycle
CHECK_DEADLOCK FALSE
