\* One connection issuing serials past the largest int, with
\* removals by client cancel and by disconnect.
CONSTANTS
  Sender = s1
  IntBits = 3
  LongBits = 5
  MaxSerial = 6
  Ops = {"cancel", "disconnect"}
SPECIFICATION Spec
\* The connection stops calling after MaxSerial and may have every
\* request removed: nothing is left to do, a state the service can be in.
CHECK_DEADLOCK FALSE
INVARIANT RemovesExactlyRequested
