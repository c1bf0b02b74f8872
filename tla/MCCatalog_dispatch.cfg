\* One dispatcher thread runs every handler (Add, cancel, disconnect); one
\* walker iterates without removing.  Tokens may be subscribed twice.  No
\* cancel hook is installed.
CONSTANTS
  t1 = t1  t2 = t2  k1 = k1  k2 = k2  c1 = c1  c2 = c2
  d1 = d1  d2 = d2  w1 = w1  f1 = f1  f2 = f2
  None = None
  Tokens <- MCTokens
  Keys <- MCKeys
  Senders <- MCSenders
  SenderOf <- MCSenderOf
  KindOf <- MCKindOf
  Prefix <- MCPrefix
  Dispatchers = {d1}
  Walkers = {w1}
  Ops = {"cancel", "disconnect", "iterate"}
  CancelFns = {f1}
  InitCancelFn = None
  MaxGen = 2
SPECIFICATION Spec
INVARIANT TypeOK
INVARIANT RefCountExact
INVARIANT NoUseAfterFree
INVARIANT IndexConsistency
SYMMETRY MCSymmetry
