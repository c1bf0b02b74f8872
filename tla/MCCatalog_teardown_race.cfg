\* The handle is unregistered while a walker is inside LSSubscriptionNext.
CONSTANTS
  t1 = t1  t2 = t2  k1 = k1  k2 = k2  c1 = c1  c2 = c2
  d1 = d1  d2 = d2  w1 = w1  f1 = f1  f2 = f2
  None = None
  Tokens <- MCTokens
  Keys <- MCKeys
  Senders <- MCSenders
  SenderOf <- MCSenderOf
  KindOf <- MCKindOf
  Prefix <- MCPrefix
  Dispatchers = {d1}
  Walkers = {w1}
  Ops = {"iterate", "teardown_race"}
  CancelFns = {f1}
  InitCancelFn = None
  MaxGen = 1
SPECIFICATION Spec
PROPERTY NoFreeAfterTeardown
CHECK_DEADLOCK FALSE
