\* Cancel, disconnect and an iterating walker, with a cancel
\* hook installed; one incarnation per token, no symmetry.  The handle may
\* be unregistered once the other threads are idle; after that no operation
\* can enter the catalog, so the run ends when the remaining references
\* are dropped.
CONSTANTS
  t1 = t1  t2 = t2  k1 = k1  k2 = k2  c1 = c1  c2 = c2
  d1 = d1  d2 = d2  w1 = w1  f1 = f1  f2 = f2
  None = None
  Tokens <- MCTokens
  Keys <- MCKeys
  Senders <- MCSenders
  SenderOf <- MCSenderOf
  KindOf <- MCKindOf
  Prefix <- MCPrefix
  Dispatchers = {d1}
  Walkers = {w1}
  Ops = {"cancel", "disconnect", "iterate", "teardown"}
  CancelFns = {f1}
  InitCancelFn = f1
  MaxGen = 1
SPECIFICATION Spec
INVARIANT NoLeakAfterTeardown
INVARIANT NoUseAfterFree
PROPERTY RemovedIsFreed
PROPERTY DisconnectCleansUp
CHECK_DEADLOCK FALSE
