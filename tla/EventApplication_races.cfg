\* Three overlapping requests of two users about one event, and one restart.
CONSTANTS
  User = {u1, u2}
  Event = {e1}
  Worker = {w1, w2, w3}
  MaxCrashes = 1
  None = None
SPECIFICATION Spec
SYMMETRY Symmetry
INVARIANTS ScoreCountsApplications OneNoticePerApplication AppliedWasOpen
CHECK_DEADLOCK FALSE
