----------------------------- MODULE TokenWidth -----------------------------
(***************************************************************************)
(* The identifier of a subscription is the string "<sender>.<serial>"      *)
(* (LSMessageGetUniqueToken), where the serial is the LSMessageToken of     *)
(* the request, an unsigned long.  Two handlers rebuild that string to      *)
(* find the subscription again:                                             *)
(*   _CatalogHandleCancel  from the cancel payload {"token": N}, read with  *)
(*                         json_object_get_int into an int, printed "%d";   *)
(*   _subscriber_down      from the watch context, which holds the          *)
(*                         LSMessageToken as a pointer, printed "%ld".      *)
(* A string is kept as the pair of the sender and the integer its digits   *)
(* spell: printing an integer in decimal is injective, so two identifiers  *)
(* are equal exactly when these pairs are.  Widths are constants: int is   *)
(* IntBits wide, long and the LSMessageToken LongBits wide; the checks use *)
(* small widths, the crossing happens at 2^(IntBits-1) whatever they are.  *)
(* The model follows one connection Sender whose calls are subscriptions.  *)
(***************************************************************************)
EXTENDS Naturals, Integers

CONSTANTS
  Sender,     \* the unique name of the calling connection
  IntBits,    \* width of int
  LongBits,   \* width of long and of LSMessageToken
  MaxSerial,  \* the last serial the connection issues
  Ops         \* subset of {"cancel", "disconnect"}: removals the run makes

ASSUME
  /\ IntBits \in Nat \ {0, 1}
  /\ LongBits \in Nat /\ LongBits >= IntBits
  /\ MaxSerial \in 1 .. 2^LongBits - 1
  /\ Ops \subseteq {"cancel", "disconnect"}

\* A value reinterpreted as a signed integer of w bits, two's complement.
Signed(v, w) == LET m == v % 2^w IN IF m >= 2^(w-1) THEN m - 2^w ELSE m

\* json_object_get_int on an integer value: clamped to the range of int.
json_object_get_int(v) ==
  IF v > 2^(IntBits-1) - 1 THEN 2^(IntBits-1) - 1
  ELSE IF v < -2^(IntBits-1) THEN -2^(IntBits-1) ELSE v

\* LSMessageGetUniqueToken: "%s.%ld" of the sender and the request's token.
UniqueToken(n) == <<Sender, Signed(n, LongBits)>>

\* _CatalogHandleCancel: token = json_object_get_int(tokenObj) and
\* g_strdup_printf("%s.%d", sender, token); the payload holds serial n.
CancelToken(n) == <<Sender, Signed(json_object_get_int(n), IntBits)>>

\* _subscriber_down: the LSMessageToken passed as ctx, printed "%s.%ld"
\* with the service name the presence signal reports (the sender).
DownToken(n) == <<Sender, Signed(n, LongBits)>>

VARIABLES
  serial,     \* the LSMessageToken of the connection's latest request
  live,       \* identifiers in the catalog's token map
  cancelled,  \* serials whose requests the client cancelled
  down        \* serials whose disconnect watch fired

vars == <<serial, live, cancelled, down>>

TypeOK ==
  /\ serial \in 0 .. MaxSerial
  /\ live \subseteq {UniqueToken(n) : n \in 1 .. MaxSerial}
  /\ cancelled \subseteq 1 .. serial
  /\ down \subseteq 1 .. serial

Init ==
  /\ serial = 0
  /\ live = {}
  /\ cancelled = {}
  /\ down = {}

\* Mutant of Subscribe: the identifier taken from the previous request.
SubscribeStale ==
  /\ serial < MaxSerial
  /\ serial' = serial + 1
  /\ live' = live \cup {UniqueToken(serial)}
  /\ UNCHANGED <<cancelled, down>>

\* A subscribing request: _CatalogAdd indexes it under its unique token,
\* and _SubscriptionNew keeps LSMessageGetToken as the watch context.
Subscribe ==
  /\ serial < MaxSerial
  /\ serial' = serial + 1
  /\ live' = live \cup {UniqueToken(serial + 1)}
  /\ UNCHANGED <<cancelled, down>>

\* The client cancels request n: _CatalogHandleCancel rebuilds the
\* identifier and _CatalogRemoveToken removes it if it is present.
HandleCancel(n) ==
  /\ "cancel" \in Ops
  /\ n \notin cancelled
  /\ cancelled' = cancelled \cup {n}
  /\ live' = live \ {CancelToken(n)}
  /\ UNCHANGED <<serial, down>>

\* The watch registered for request n reports the sender gone:
\* _subscriber_down removes the identifier it rebuilds if present.
SubscriberDown(n) ==
  /\ "disconnect" \in Ops
  /\ n \notin down
  /\ down' = down \cup {n}
  /\ live' = live \ {DownToken(n)}
  /\ UNCHANGED <<serial, cancelled>>

Next ==
  \/ Subscribe
  \/ \E n \in 1 .. serial : HandleCancel(n)
  \/ \E n \in 1 .. serial : SubscriberDown(n)

Spec == Init /\ [][Next]_vars

-----------------------------------------------------------------------------
(* Properties                                                              *)
(***************************************************************************)

\* Removal by identifier removes exactly what was asked: the catalog holds
\* the subscription of every request that was neither cancelled nor had
\* its watch fire, and of no other.  Breaks if the rebuilt identifier of
\* a cancel or a disconnect names another request, or none.
RemovesExactlyRequested ==
  live = {UniqueToken(n) : n \in (1 .. serial) \ (cancelled \cup down)}

=============================================================================
