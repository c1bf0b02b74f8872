\* The service reinstalls the cancel hook while a client cancel is handled.
CONSTANTS
  t1 = t1  t2 = t2  k1 = k1  k2 = k2  c1 = c1  c2 = c2
  d1 = d1  d2 = d2  w1 = w1  f1 = f1  f2 = f2
  None = None
  Tokens <- MCTokens
  Keys <- MCKeys
  Senders <- MCSenders
  SenderOf <- MCSenderOf
  KindOf <- MCKindOf
  Prefix <- MCPrefix
  Dispatchers = {d1}
  Walkers = {w1}
  Ops = {"cancel", "setcancel"}
  CancelFns = {f1, f2}
  InitCancelFn = f1
  MaxGen = 1
SPECIFICATION Spec
PROPERTY CancelHookSafe
