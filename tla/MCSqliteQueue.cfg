\* Two processes share the table; two episodes; a lease lasts one tick.
CONSTANTS
  Process = {p1, p2}
  Key = {g1, g2}
  NoProcess = NoProcess
  NoKey = NoKey
  LeaseSeconds = 1
  MaxClock = 3
  MaxAttempts = 2
SPECIFICATION Spec
SYMMETRY Symmetry
INVARIANTS TypeOK OneRowPerKey LeaseRespected
PROPERTIES ServesInOrder KeepsContract
