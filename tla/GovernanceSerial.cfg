\* One request at a time, with crashes and retries: the atomic ledger.
SPECIFICATION FairSpec
CONSTANTS
  t1 = t1  t2 = t2
  k0 = k0  k1 = k1  k2 = k2  k3 = k3
  d1 = d1  d2 = d2  d3 = d3
  a1 = a1
  Threads = {t1}
  BlankKey = k0
  NoThread = NoThread
  NoCommand = NoCommand
  MaxEvents = 3
  Commands <- MoveCommands
INVARIANTS UniqueDecisions UniqueKeys
PROPERTIES ImplementsLedger
