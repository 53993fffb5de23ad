\* Evidence, readiness and closing in two threads, a crashing server.
SPECIFICATION Spec
CONSTANTS
  t1 = t1  t2 = t2
  r1 = r1  rb = rb  rx = rx
  k0 = k0  k1 = k1  k2 = k2
  Threads = {t1, t2}
  Requests <- TerminalRequests
  Resolutions <- MCResolutions
  Source <- MCSource
  BlankKey = k0
  Evidence <- MCEvidence
  NoThread = NoThread
  NotLoaded = NotLoaded
  Calls <- AllCalls
  NoCall = NoCall
  MaxDecisions = 1
  MaxEvidence = 2
INVARIANTS TypeOK OneClosure CachesArePrefixes AnswersJustified
PROPERTIES ImplementsLedger
SYMMETRY ThreadSymmetry
