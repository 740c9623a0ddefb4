\* One payment that two users claim: overlapping requests, duplicated and late
\* webhooks, one failing call or restart.  The jobs stay in the queue.
CONSTANTS
  User = {d1, d2}
  Reader = {}
  Donor = {d1, d2}
  Admin = None
  Token = {t1}
  Runner = {}
  Worker = {w1, w2}
  Attempts = 3
  MaxNotes = 3
  MaxFaults = 1
  MaxEvents = 2
  MaxCreates = 2
  MaxDuplicates = 1
  None = None
SPECIFICATION Spec
SYMMETRY Symmetry
INVARIANTS LedgerConsistent AckedSuccessIsAnnounced
CHECK_DEADLOCK FALSE
