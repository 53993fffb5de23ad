\* The decision a closure cites.
SPECIFICATION Spec
CONSTANTS
  t1 = t1  t2 = t2
  r1 = r1  rb = rb  rx = rx
  k0 = k0  k1 = k1  k2 = k2
  Threads = {t1, t2}
  Requests <- MCRequests
  Resolutions <- MCResolutions
  Source <- MCSource
  BlankKey = k0
  Evidence <- MCEvidence
  NoThread = NoThread
  NotLoaded = NotLoaded
  Calls <- ClosingCalls
  NoCall = NoCall
  MaxDecisions = 2
  MaxEvidence = 1
INVARIANTS CitesTerminalDecision
