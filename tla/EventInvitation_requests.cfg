\* Two overlapping requests about the invitations of one event; events and
\* connections change at any moment.
CONSTANTS
  User = {u1, u2}
  Event = {e1}
  Worker = {w1, w2}
  MaxRequests = 3
  None = None
SPECIFICATION Spec
SYMMETRY Symmetry
INVARIANTS TypeOK InvitedWasConnected AcceptedWasLive NotifiedOncePerOpening
PROPERTY Lifecycle
CHECK_DEADLOCK FALSE
