\* One request thread and the tool, both projecting, with crashes.
SPECIFICATION FairSpec
CONSTANTS
  t1 = t1  tool = tool
  r1 = r1
  k0 = k0  k1 = k1  k2 = k2  k3 = k3
  Threads = {t1}
  Tool = tool
  Requests <- MCRequests
  Resolutions <- MCResolutions
  Source <- MCSource
  BlankKey = k0
  OtherCommands <- MCOthers
  MaxDecisions = 2
  MaxOthers = 1
INVARIANTS TypeOK EventsMirrorDecisions MirroredOnce OutcomesTrue
PROPERTIES DecisionsSurface
