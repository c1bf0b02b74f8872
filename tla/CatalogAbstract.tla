--------------------------- MODULE CatalogAbstract ---------------------------
(***************************************************************************)
(* What the subscription catalog promises its users, without locks,        *)
(* records or reference counts: each request token is subscribed to a set  *)
(* of keys.  Subscribing adds one key; a removal (cancel, disconnect or    *)
(* LSSubscriptionRemove) takes the token off every key at once; a reply to *)
(* a key reaches only tokens subscribed to that key at the time it is      *)
(* delivered (a failing reply may stop short, so any subset).              *)
(***************************************************************************)
CONSTANTS Tokens, Keys, None

VARIABLES
  subscribed,  \* subscribed[t]: the keys token t is subscribed to
  published    \* the latest reply: [key, to], or None before any

absVars == <<subscribed, published>>

AbsTypeOK ==
  /\ subscribed \in [Tokens -> SUBSET Keys]
  /\ published \in {None} \cup [key : Keys, to : SUBSET Tokens]

AbsInit ==
  /\ subscribed = [t \in Tokens |-> {}]
  /\ published = None

Subscribe(k, t) ==
  /\ subscribed' = [subscribed EXCEPT ![t] = @ \cup {k}]
  /\ UNCHANGED published

Unsubscribe(t) ==
  /\ subscribed[t] # {}
  /\ subscribed' = [subscribed EXCEPT ![t] = {}]
  /\ UNCHANGED published

\* A reply to k, delivered so far to the tokens in to.
Publish(k) ==
  /\ \E to \in SUBSET {t \in Tokens : k \in subscribed[t]} :
        published' = [key |-> k, to |-> to]
  /\ UNCHANGED subscribed

AbsNext ==
  \/ \E k \in Keys, t \in Tokens : Subscribe(k, t)
  \/ \E t \in Tokens : Unsubscribe(t)
  \/ \E k \in Keys : Publish(k)

AbsSpec == AbsInit /\ [][AbsNext]_absVars

=============================================================================
