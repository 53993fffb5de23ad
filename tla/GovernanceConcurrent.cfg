\* Two request threads, a crashing server, colliding commands.
SPECIFICATION FairSpec
CONSTANTS
  t1 = t1  t2 = t2
  k0 = k0  k1 = k1  k2 = k2  k3 = k3
  d1 = d1  d2 = d2  d3 = d3
  a1 = a1
  Threads = {t1, t2}
  BlankKey = k0
  NoThread = NoThread
  NoCommand = NoCommand
  MaxEvents = 3
  Commands <- RacingCommands
INVARIANTS TypeOK ThreadKnowledge DuplicatesOverlap HonestPrevious AnswersJustified
PROPERTIES AppendOnly EveryRequestEnds
