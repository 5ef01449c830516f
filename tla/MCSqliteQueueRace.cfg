\* Two processes enqueue one episode at the same time.
CONSTANTS
  Process = {p1, p2}
  Key = {g1}
  NoProcess = NoProcess
  NoKey = NoKey
  LeaseSeconds = 1
  MaxClock = 2
  MaxAttempts = 1
SPECIFICATION Spec
INVARIANTS EnqueueCollapses
