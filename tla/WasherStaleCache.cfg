\* A reader fills the cache across a writer's reload.
SPECIFICATION Spec
CONSTANTS
  t1 = t1  t2 = t2
  r1 = r1  rb = rb  rx = rx
  k0 = k0  k1 = k1  k2 = k2  k3 = k3
  Threads = {t1, t2}
  Requests <- RivalRequests
  Resolutions <- MCResolutions
  Source <- MCSource
  BlankKey = k0
  NoThread = NoThread
  NoRequest = NoRequest
  View = View
  NotLoaded = NotLoaded
  MaxDecisions = 2
INVARIANTS QuietCacheIsCurrent
