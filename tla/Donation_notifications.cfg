\* One payment from the POST to the donor's device: the job worker, the donor's
\* app, expiring tokens, failing calls and restarts.
CONSTANTS
  User = {d1, admin}
  Reader = {d1}
  Donor = {d1}
  Admin = admin
  Token = {t1, t2}
  Runner = {r1}
  Worker = {w1}
  Attempts = 2
  MaxNotes = 2
  MaxFaults = 1
  MaxEvents = 1
  MaxCreates = 1
  MaxDuplicates = 0
  None = None
SPECIFICATION Spec
SYMMETRY Symmetry
INVARIANTS PushedOnce BadgeIsCurrent
PROPERTY TokenKept
CHECK_DEADLOCK FALSE
