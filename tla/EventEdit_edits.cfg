\* Two requests that may overlap, one failing call.
CONSTANTS
  User = {author, admin}
  Creator = author
  Admin = {admin}
  Worker = {w1, w2}
  Content = {"x", "y"}
  Frequency = {"Weekly"}
  Window = {"s1"}
  Patch <- MCPatch
  MaxRequests = 3
  MaxFaults = 1
  Outside = Outside
  None = None
SPECIFICATION Spec
SYMMETRY Symmetry
INVARIANTS TypeOK OneLogAndRewardPerWrite NoDanglingCover NoOrphanCover LogsTellHistory
CHECK_DEADLOCK FALSE
