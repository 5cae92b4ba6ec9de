CONSTANTS
  Events = {e1, e2}
  Fds = {f1, f2}
  PollEvents = {p1, p2, p3, p4}
  MaxChanges = 2
  MaxBatch = 3
  None = None
SPECIFICATION Spec
SYMMETRY Symmetry
INVARIANTS
  PollInv
  KernelAgrees
  ChangesSucceed
  UdataLive
  CallsOpenEvents
