\* The account of one email address with two requests in flight and one mishap.
CONSTANTS
  RegSession = {r1}
  ResetSession = {f1}
  Worker = {w1, w2}
  MaxAttempts = 2
  MaxCodes = 2
  MaxRequests = 4
  MaxFaults = 1
  None = None
SPECIFICATION Spec
SYMMETRY Symmetry
INVARIANTS TypeOK EndedSessionsStayEnded CountersSound CodesSpentOnce
CHECK_DEADLOCK FALSE
