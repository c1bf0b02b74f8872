------------------------------- MODULE Catalog -------------------------------
(***************************************************************************)
(* The subscription catalog of luna-service2 (src/subscription.c).         *)
(*                                                                         *)
(* Shared state: the token map (token -> _Subscription), the subscription  *)
(* lists (key -> list of tokens), and the reference-counted _Subscription  *)
(* records.  A section of the code that runs under the catalog mutex and   *)
(* calls nothing outside the catalog is one atomic action here: two such   *)
(* sections can never overlap.  The mutex is state (lock) only because     *)
(* LSSubscriptionReply keeps it across calls out to LSMessageReply; every  *)
(* locked action waits for it.  Steps taken outside the mutex (the atomic  *)
(* reference counts, the cancel callback, the window between two locked    *)
(* sections, the unlocked stores of the cancel hook) are separate actions, *)
(* so other threads interleave exactly where the code lets them.           *)
(*                                                                         *)
(* Threads: Dispatchers run the bus handlers (method handlers that Add,    *)
(* cancel messages, server-status watch callbacks); Walkers are service    *)
(* threads that iterate, remove, reply or install the cancel hook.  A      *)
(* _Subscription is identified by <<token, incarnation>> because a token   *)
(* can be subscribed again after its record was freed.                     *)
(***************************************************************************)
EXTENDS Integers, Sequences, FiniteSets, SequencesExt

CONSTANTS
  Tokens,       \* unique tokens, one per request message
  Keys,         \* subscription keys
  Senders,      \* bus connections that send the requests
  SenderOf,     \* SenderOf[t]: the connection that sent request t
  Prefix,       \* Prefix[t]: the first 50 characters of token t (strncmp)
  KindOf,       \* KindOf[t]: LSMessageGetKind of request t, "/category/method"
  Dispatchers,  \* threads dispatching bus traffic for the handle
  Walkers,      \* service threads using the iterator, reply and hook API
  Ops,          \* which operations occur (see OpNames)
  CancelFns,    \* cancel functions the service may install
  InitCancelFn, \* the cancel function installed before traffic starts
  MaxGen,       \* bound: incarnations of a _Subscription per token
  None          \* sentinel: no token / no subscription / NULL

\* "cancel", "disconnect", "introspect", "process": handled by dispatchers;
\* "teardown", "teardown_race": a dispatcher unregisters the handle;
\* "iterate", "remove", "reply", "setcancel": calls made by walkers;
OpNames == {"cancel", "disconnect", "introspect", "process", "teardown", "teardown_race",
            "iterate", "remove", "reply", "setcancel"}

ASSUME
  /\ SenderOf \in [Tokens -> Senders]
  /\ DOMAIN Prefix = Tokens
  /\ KindOf \in [Tokens -> Keys]
  /\ Dispatchers \cap Walkers = {}
  /\ Ops \subseteq OpNames
  /\ InitCancelFn \in CancelFns \cup {None}
  /\ MaxGen \in Nat \ {0}

Threads == Dispatchers \cup Walkers
SubIds  == Tokens \X (1..MaxGen)
TokenOf(s) == s[1]

VARIABLES
  tokenMap,    \* catalog->token_map: token -> _Subscription or None
  lists,       \* catalog->subscription_lists: key -> sequence of tokens
  subState,    \* "unborn", "live" or "freed" for each _Subscription
  ref,         \* subs->ref
  keys,        \* subs->keys, as a set (insertion is duplicate-guarded)
  watch,       \* subs->serverStatusWatch: "none", "armed", "fired", "cancelled"
  gen,         \* incarnations of each token's _Subscription created so far
  msgState,    \* each request message: "unsent", "live", "freed"
  msgRef,      \* LSMessage reference count
  appHolds,    \* messages the service handler still holds a reference to
  cancelSent,  \* tokens whose client has sent a cancel
  gone,        \* senders that dropped off the bus
  lock,        \* catalog->lock: the thread holding it across calls out, or None
  cancelFn,    \* catalog->cancel_function (a cancel function, or None)
  cancelCtx,   \* catalog->cancel_function_ctx (the function it was set with)
  lastReply,   \* the latest LSSubscriptionReply: its key and the records replied to
  freedCat,    \* _CatalogFree has run (LSUnregister)
  pc,          \* each thread's position in a multi-step operation
  tok,         \* token operand of the thread's _CatalogRemoveToken
  ret,         \* where the thread resumes when _CatalogRemoveToken returns
  hold,        \* _Subscription acquired by _CatalogRemoveToken
  outer,       \* _Subscription acquired by _subscriber_down around it
  nextSub,     \* _Subscription acquired by LSSubscriptionNext
  iter,        \* the walker's LSSubscriptionIter
  hookArg,     \* LSSubscriptionSetCancelFunction: <<function, field stored first>>
  replyTo      \* LSSubscriptionReply: the records still to reply to

catalogVars == <<tokenMap, lists, subState, ref, keys, watch, gen>>
msgVars     == <<msgState, msgRef, appHolds, cancelSent, gone>>
sharedVars  == <<lock, cancelFn, cancelCtx, lastReply, freedCat>>
threadVars  == <<pc, tok, ret, hold, outer, nextSub, iter, hookArg, replyTo>>
vars        == <<catalogVars, msgVars, sharedVars, threadVars>>

\* An LSSubscriptionIter; null: iter->tokens is NULL (no list for the key).
ClosedIter == [open |-> FALSE, null |-> FALSE, toks |-> <<>>, index |-> -1, seen |-> {}]

\* _CatalogLock can be taken: no thread keeps the mutex across a call out.
LockFree == lock = None

-----------------------------------------------------------------------------
(* _SubList operations.  List membership compares the first 50 characters *)
(* of tokens (strncmp(tok, data, 50)); the token map compares whole ones.  *)

SameToken(a, b) == Prefix[a] = Prefix[b]

SubListContains(l, t) == \E i \in 1..Len(l) : SameToken(l[i], t)

SubListRemove(l, t) == RemoveFirstMatch(l, LAMBDA u : SameToken(u, t))

\* _CatalogAdd: insert the token unless an equal one is already listed.
SubListAddUnique(l, t) == IF SubListContains(l, t) THEN l ELSE Append(l, t)

\* _CatalogGetSubList_unlocked: the list of k, or the empty one if absent.
ListOf(k) == IF k \in DOMAIN lists THEN lists[k] ELSE <<>>

\* _SubListDup of the list of k: a copy of its tokens, or NULL (null) when
\* the key has no list.
SubListDup(k) == [null |-> k \notin DOMAIN lists, toks |-> ListOf(k)]

\* _SubListLen of an iterator's copy: a NULL copy has length 0.
SubListLen(it) == IF it.null THEN 0 ELSE Len(it.toks)

\* _SubListGet: the token at index i of a list, or NULL (None) with a
\* g_critical when i is out of range.
SubListGet(l, i) == IF 0 <= i /\ i < Len(l) THEN l[i + 1] ELSE None

\* _CatalogAdd inserts a key into the record's key array unless
\* g_char_ptr_array_contains finds it (strcmp): the array is a set.
KeysAdd(ks, k) == ks \cup {k}

-----------------------------------------------------------------------------
(* Reference counts.                                                        *)

\* LSMessageUnref on each message of T.
UnrefMsgs(T) ==
  /\ msgRef'   = [t \in Tokens |-> IF t \in T THEN msgRef[t] - 1 ELSE msgRef[t]]
  /\ msgState' = [t \in Tokens |->
                    IF t \in T /\ msgRef[t] = 1 THEN "freed" ELSE msgState[t]]

\* _SubscriptionFree: unref the message and cancel the server-status watch
\* (a failed LSCallCancel is only logged).
SubscriptionFree(s) ==
  /\ subState' = [subState EXCEPT ![s] = "freed"]
  /\ watch' = [watch EXCEPT ![s] = IF @ = "none" THEN @ ELSE "cancelled"]
  /\ UnrefMsgs({TokenOf(s)})

\* _SubscriptionRelease: atomic decrement; the thread that brings the count
\* to zero frees the record.
Release(s) ==
  /\ ref' = [ref EXCEPT ![s] = @ - 1]
  /\ IF ref[s] = 1
       THEN SubscriptionFree(s)
       ELSE UNCHANGED <<subState, watch, msgState, msgRef>>

\* _SubscriptionAcquire on a record found under the lock: g_atomic_int_inc.
AcquireRef(s) == ref' = [ref EXCEPT ![s] = @ + 1]

Goto(p, l) == pc' = [pc EXCEPT ![p] = l]

\* Thread p is between operations and may start one.
Idle(p) == pc[p] = "idle"

\* ... one that enters the catalog, which needs the handle still registered.
Enter(p) == Idle(p) /\ ~freedCat

-----------------------------------------------------------------------------
(* _CatalogRemoveToken(token, notify).  First step: _SubscriptionAcquire,  *)
(* a locked lookup that increments the count of a found record; it returns *)
(* false when the token is absent.  The test of catalog->cancel_function   *)
(* that follows outside the lock reads nothing another step of this thread *)
(* could change in between, so it is taken with the lookup; the call of    *)
(* the cancel function, which reads the field again, is a step of its own. *)
\* Mutant: _SubscriptionAcquire without g_atomic_int_inc.
RemoveTokenBeginNoInc(p, t, notify, r) ==
  LET s == tokenMap[t] IN
  /\ LockFree
  /\ tok' = [tok EXCEPT ![p] = t]
  /\ ret' = [ret EXCEPT ![p] = r]
  /\ UNCHANGED ref
  /\ IF s = None
       THEN Goto(p, r) /\ UNCHANGED hold
       ELSE /\ hold' = [hold EXCEPT ![p] = s]
            /\ Goto(p, IF notify /\ cancelFn # None THEN "rm_notify" ELSE "rm_unlist")

RemoveTokenBegin(p, t, notify, r) ==
  LET s == tokenMap[t] IN
  /\ LockFree
  /\ tok' = [tok EXCEPT ![p] = t]
  /\ ret' = [ret EXCEPT ![p] = r]
  /\ IF s = None
       THEN Goto(p, r) /\ UNCHANGED <<ref, hold>>
       ELSE /\ AcquireRef(s)
            /\ hold' = [hold EXCEPT ![p] = s]
            /\ Goto(p, IF notify /\ cancelFn # None THEN "rm_notify" ELSE "rm_unlist")

\* catalog->cancel_function(sh, subs->message, catalog->cancel_function_ctx):
\* both fields are read again, without the lock; the callback only reads.
RmNotify(p) ==
  /\ pc[p] = "rm_notify"
  /\ Goto(p, "rm_unlist")
  /\ UNCHANGED <<catalogVars, msgVars, sharedVars,
                 tok, ret, hold, outer, nextSub, iter, hookArg, replyTo>>

\* Mutant: the loop over subs->keys stops after the first key.
RmUnlistFirstKey(p) ==
  LET s     == hold[p]
      first == {CHOOSE k \in keys[s] : TRUE}
      cleaned == [k \in DOMAIN lists |->
                    IF k \in first THEN SubListRemove(lists[k], tok[p])
                                  ELSE lists[k]]
  IN
  /\ pc[p] = "rm_unlist"
  /\ LockFree
  /\ lists' = [k \in {k \in DOMAIN cleaned :
                        k \notin first \/ Len(cleaned[k]) > 0} |-> cleaned[k]]
  /\ Goto(p, "rm_unmap")
  /\ UNCHANGED <<tokenMap, subState, ref, keys, watch, gen, msgVars, sharedVars,
                 tok, ret, hold, outer, nextSub, iter, hookArg, replyTo>>

\* Mutant of RmUnlist: the list cleanup runs without taking the lock.
RmUnlistNoLock(p) ==
  LET s       == hold[p]
      cleaned == [k \in DOMAIN lists |->
                    IF k \in keys[s] THEN SubListRemove(lists[k], tok[p])
                                     ELSE lists[k]]
  IN
  /\ pc[p] = "rm_unlist"
  /\ lists' = [k \in {k \in DOMAIN cleaned :
                        k \notin keys[s] \/ Len(cleaned[k]) > 0} |-> cleaned[k]]
  /\ Goto(p, "rm_unmap")
  /\ UNCHANGED <<tokenMap, subState, ref, keys, watch, gen, msgVars, sharedVars,
                 tok, ret, hold, outer, nextSub, iter, hookArg, replyTo>>

\* Under the lock: drop the token from the list of every key of the record,
\* and delete a list of one of those keys that is then empty.
RmUnlist(p) ==
  LET s       == hold[p]
      cleaned == [k \in DOMAIN lists |->
                    IF k \in keys[s] THEN SubListRemove(lists[k], tok[p])
                                     ELSE lists[k]]
  IN
  /\ pc[p] = "rm_unlist"
  /\ LockFree
  /\ lists' = [k \in {k \in DOMAIN cleaned :
                        k \notin keys[s] \/ Len(cleaned[k]) > 0} |-> cleaned[k]]
  /\ Goto(p, "rm_unmap")
  /\ UNCHANGED <<tokenMap, subState, ref, keys, watch, gen, msgVars, sharedVars,
                 tok, ret, hold, outer, nextSub, iter, hookArg, replyTo>>

\* _SubscriptionRemove: under a second lock, remove the token from the
\* token map; then release the reference the map owned.
RmUnmap(p) ==
  /\ pc[p] = "rm_unmap"
  /\ LockFree
  /\ tokenMap' = [tokenMap EXCEPT ![tok[p]] = None]
  /\ Release(hold[p])
  /\ Goto(p, "rm_release")
  /\ UNCHANGED <<lists, keys, gen, appHolds, cancelSent, gone, sharedVars,
                 tok, ret, hold, outer, nextSub, iter, hookArg, replyTo>>

\* Mutant: the final _SubscriptionRelease of _CatalogRemoveToken is missing.
RmReleaseSkip(p) ==
  /\ pc[p] = "rm_release"
  /\ hold' = [hold EXCEPT ![p] = None]
  /\ Goto(p, ret[p])
  /\ UNCHANGED <<catalogVars, msgVars, sharedVars,
                 tok, ret, outer, nextSub, iter, hookArg, replyTo>>

\* Release the temporary reference taken by _SubscriptionAcquire; return.
RmRelease(p) ==
  /\ pc[p] = "rm_release"
  /\ Release(hold[p])
  /\ hold' = [hold EXCEPT ![p] = None]
  /\ Goto(p, ret[p])
  /\ UNCHANGED <<tokenMap, lists, keys, gen, appHolds, cancelSent, gone, sharedVars,
                 tok, ret, outer, nextSub, iter, hookArg, replyTo>>

-----------------------------------------------------------------------------
(* Service handlers on a dispatcher thread.                                 *)

\* The bus hands a request to its method handler, which holds a reference.
Receive(p, t) ==
  /\ Idle(p)
  /\ msgState[t] = "unsent"
  /\ msgState' = [msgState EXCEPT ![t] = "live"]
  /\ msgRef'   = [msgRef EXCEPT ![t] = 1]
  /\ appHolds' = appHolds \cup {t}
  /\ UNCHANGED <<catalogVars, cancelSent, gone, sharedVars, threadVars>>

\* The service drops its reference to the request.
Drop(p, t) ==
  /\ Idle(p)
  /\ t \in appHolds
  /\ appHolds' = appHolds \ {t}
  /\ UnrefMsgs({t})
  /\ UNCHANGED <<catalogVars, cancelSent, gone, sharedVars, threadVars>>

\* Mutant: _SubscriptionNew without the registerServerStatus watch.
AddNoWatch(p, k, t) ==
  LET new == tokenMap[t] = None
      s   == IF new THEN <<t, gen[t] + 1>> ELSE tokenMap[t]
  IN
  /\ Enter(p)
  /\ LockFree
  /\ t \in appHolds
  /\ new => gen[t] < MaxGen
  /\ lists' = (k :> SubListAddUnique(ListOf(k), t)) @@ lists
  /\ keys'  = [keys EXCEPT ![s] = KeysAdd(@, k)]
  /\ IF new
       THEN /\ tokenMap' = [tokenMap EXCEPT ![t] = s]
            /\ gen'      = [gen EXCEPT ![t] = @ + 1]
            /\ subState' = [subState EXCEPT ![s] = "live"]
            /\ ref'      = [ref EXCEPT ![s] = 1]
            /\ msgRef'   = [msgRef EXCEPT ![t] = @ + 1]
            /\ UNCHANGED watch
       ELSE UNCHANGED <<tokenMap, gen, subState, ref, watch, msgRef>>
  /\ UNCHANGED <<msgState, appHolds, cancelSent, gone, sharedVars, threadVars>>

\* LSSubscriptionAdd -> _CatalogAdd, all under the lock.  A token without a
\* record gets a new one from _SubscriptionNew: count 1, a message
\* reference, and a registerServerStatus watch on the sender.
Add(p, k, t) ==
  LET new == tokenMap[t] = None
      s   == IF new THEN <<t, gen[t] + 1>> ELSE tokenMap[t]
  IN
  /\ Enter(p)
  /\ LockFree
  /\ t \in appHolds
  /\ new => gen[t] < MaxGen
  /\ lists' = (k :> SubListAddUnique(ListOf(k), t)) @@ lists
  /\ keys'  = [keys EXCEPT ![s] = KeysAdd(@, k)]
  /\ IF new
       THEN /\ tokenMap' = [tokenMap EXCEPT ![t] = s]
            /\ gen'      = [gen EXCEPT ![t] = @ + 1]
            /\ subState' = [subState EXCEPT ![s] = "live"]
            /\ ref'      = [ref EXCEPT ![s] = 1]
            /\ watch'    = [watch EXCEPT ![s] = "armed"]
            /\ msgRef'   = [msgRef EXCEPT ![t] = @ + 1]
       ELSE UNCHANGED <<tokenMap, gen, subState, ref, watch, msgRef>>
  /\ UNCHANGED <<msgState, appHolds, cancelSent, gone, sharedVars, threadVars>>

\* _CatalogAdd when the LSCall that registers the watch fails: the list of
\* the key was already created under the lock and stays; _SubscriptionNew
\* frees its half-built record (message ref and unref cancel out).
AddRegistrationFails(p, k, t) ==
  /\ Enter(p)
  /\ LockFree
  /\ t \in appHolds
  /\ tokenMap[t] = None
  /\ lists' = (k :> ListOf(k)) @@ lists
  /\ UNCHANGED <<tokenMap, subState, ref, keys, watch, gen, msgVars,
                 sharedVars, threadVars>>

\* LSSubscriptionProcess: a request whose payload holds "subscribe": true is
\* added under its kind; an unparsable payload, one without the field and
\* "subscribe": false change nothing (only the reports to the caller differ).
Process(p, t) ==
  /\ "process" \in Ops
  /\ Add(p, KindOf[t], t) \/ AddRegistrationFails(p, KindOf[t], t)

\* _CatalogHandleCancel: the client cancels call t; the token rebuilt from
\* sender and serial is removed with notify = true.
Cancel(p, t) ==
  /\ Enter(p)
  /\ "cancel" \in Ops
  /\ msgState[t] # "unsent"
  /\ t \notin cancelSent
  /\ cancelSent' = cancelSent \cup {t}
  /\ RemoveTokenBegin(p, t, TRUE, "idle")
  /\ UNCHANGED <<tokenMap, lists, subState, keys, watch, gen,
                 msgState, msgRef, appHolds, gone, sharedVars,
                 outer, nextSub, iter, hookArg, replyTo>>

\* A sender drops off the bus (the hub then reports connected: false).
SenderDrops(c) ==
  /\ "disconnect" \in Ops
  /\ c \notin gone
  /\ gone' = gone \cup {c}
  /\ UNCHANGED <<catalogVars, msgState, msgRef, appHolds, cancelSent,
                 sharedVars, threadVars>>

\* _subscriber_down for the watch of s: rebuild the token, acquire its
\* current record and, if there is one, remove the token with notify.
WatchFires(p, s) ==
  LET t == TokenOf(s)
      o == tokenMap[t]
  IN
  /\ Enter(p)
  /\ LockFree
  /\ watch[s] = "armed"
  /\ SenderOf[t] \in gone
  /\ watch' = [watch EXCEPT ![s] = "fired"]
  /\ IF o = None
       THEN UNCHANGED <<ref, outer, pc>>
       ELSE /\ AcquireRef(o)
            /\ outer' = [outer EXCEPT ![p] = o]
            /\ Goto(p, "down_remove")
  /\ UNCHANGED <<tokenMap, lists, subState, keys, gen, msgVars, sharedVars,
                 tok, ret, hold, nextSub, iter, hookArg, replyTo>>

DownRemove(p) ==
  /\ pc[p] = "down_remove"
  /\ RemoveTokenBegin(p, TokenOf(outer[p]), TRUE, "down_release")
  /\ UNCHANGED <<tokenMap, lists, subState, keys, watch, gen, msgVars, sharedVars,
                 outer, nextSub, iter, hookArg, replyTo>>

\* Mutant: _subscriber_down never releases the record it acquired.
DownReleaseLeak(p) ==
  /\ pc[p] = "down_release"
  /\ outer' = [outer EXCEPT ![p] = None]
  /\ Goto(p, "idle")
  /\ UNCHANGED <<catalogVars, msgVars, sharedVars,
                 tok, ret, hold, nextSub, iter, hookArg, replyTo>>

DownRelease(p) ==
  /\ pc[p] = "down_release"
  /\ Release(outer[p])
  /\ outer' = [outer EXCEPT ![p] = None]
  /\ Goto(p, "idle")
  /\ UNCHANGED <<tokenMap, lists, keys, gen, appHolds, cancelSent, gone, sharedVars,
                 tok, ret, hold, nextSub, iter, hookArg, replyTo>>


-----------------------------------------------------------------------------
(* The iterator API on a walker thread.                                     *)

\* LSSubscriptionAcquire: copy the list of k under the lock; _SubListDup of
\* an absent list leaves iter->tokens NULL.
IterAcquire(p, k) ==
  /\ Enter(p)
  /\ "iterate" \in Ops
  /\ LockFree
  /\ ~iter[p].open
  /\ iter' = [iter EXCEPT ![p] =
                [open  |-> TRUE,
                 null  |-> SubListDup(k).null,
                 toks  |-> SubListDup(k).toks,
                 index |-> -1,
                 seen  |-> {}]]
  /\ UNCHANGED <<catalogVars, msgVars, sharedVars,
                 pc, tok, ret, hold, outer, nextSub, hookArg, replyTo>>

\* LSSubscriptionHasNext.
HasNext(it) == it.index + 1 < SubListLen(it)

\* LSSubscriptionNext, called as the API asks, after HasNext: advance,
\* _SubListGet the token under the cursor and acquire its record; a removed
\* token yields NULL.
IterNext(p) ==
  LET it == iter[p]
      i  == it.index + 1
      s  == tokenMap[SubListGet(it.toks, i)]
  IN
  /\ Enter(p)
  /\ it.open
  /\ HasNext(it)
  /\ LockFree
  /\ iter' = [iter EXCEPT ![p].index = i]
  /\ IF s = None
       THEN UNCHANGED <<ref, nextSub, pc>>
       ELSE /\ AcquireRef(s)
            /\ nextSub' = [nextSub EXCEPT ![p] = s]
            /\ Goto(p, "next_ref")
  /\ UNCHANGED <<tokenMap, lists, subState, keys, watch, gen, msgVars,
                 lock, cancelFn, cancelCtx, lastReply, freedCat,
                 tok, ret, hold, outer, hookArg, replyTo>>

\* Mutant: LSSubscriptionNext keeps the message without LSMessageRef.
NextRefNoRef(p) ==
  LET t == TokenOf(nextSub[p]) IN
  /\ pc[p] = "next_ref"
  /\ iter' = [iter EXCEPT ![p].seen = @ \cup {t}]
  /\ Goto(p, "next_release")
  /\ UNCHANGED <<catalogVars, msgVars, sharedVars,
                 tok, ret, hold, outer, nextSub, hookArg, replyTo>>

\* LSMessageRef on the record's message, kept in seen_messages.
NextRef(p) ==
  LET t == TokenOf(nextSub[p]) IN
  /\ pc[p] = "next_ref"
  /\ msgRef' = [msgRef EXCEPT ![t] = @ + 1]
  /\ iter' = [iter EXCEPT ![p].seen = @ \cup {t}]
  /\ Goto(p, "next_release")
  /\ UNCHANGED <<catalogVars, msgState, appHolds, cancelSent, gone, sharedVars,
                 tok, ret, hold, outer, nextSub, hookArg, replyTo>>

\* Mutant: LSSubscriptionNext never releases the record it acquired.
NextReleaseLeak(p) ==
  /\ pc[p] = "next_release"
  /\ nextSub' = [nextSub EXCEPT ![p] = None]
  /\ Goto(p, "idle")
  /\ UNCHANGED <<catalogVars, msgVars, sharedVars,
                 tok, ret, hold, outer, iter, hookArg, replyTo>>

NextRelease(p) ==
  /\ pc[p] = "next_release"
  /\ Release(nextSub[p])
  /\ nextSub' = [nextSub EXCEPT ![p] = None]
  /\ Goto(p, "idle")
  /\ UNCHANGED <<tokenMap, lists, keys, gen, appHolds, cancelSent, gone, sharedVars,
                 tok, ret, hold, outer, iter, hookArg, replyTo>>

\* LSSubscriptionRemove: remove the token under the cursor, notify = false
\* (_SubListGet out of range returns NULL and nothing happens).
IterRemove(p) ==
  LET it == iter[p] IN
  /\ Enter(p)
  /\ "remove" \in Ops
  /\ it.open
  /\ SubListGet(it.toks, it.index) # None
  /\ RemoveTokenBegin(p, SubListGet(it.toks, it.index), FALSE, "idle")
  /\ UNCHANGED <<tokenMap, lists, subState, keys, watch, gen, msgVars, sharedVars,
                 outer, nextSub, iter, hookArg, replyTo>>

\* LSSubscriptionRelease: unref every message seen, free the copy.
IterRelease(p) ==
  /\ Idle(p)
  /\ iter[p].open
  /\ UnrefMsgs(iter[p].seen)
  /\ iter' = [iter EXCEPT ![p] = ClosedIter]
  /\ UNCHANGED <<catalogVars, appHolds, cancelSent, gone, sharedVars,
                 pc, tok, ret, hold, outer, nextSub, hookArg, replyTo>>

-----------------------------------------------------------------------------
(* LSSubscriptionSetCancelFunction: two plain stores, no lock.  They race  *)
(* with the reads in _CatalogRemoveToken; the compiler and the CPU may     *)
(* perform the two stores in either order, so the first step stores either *)
(* field.  The context installed with function f is represented by f.      *)

SetHookFirst(p, f, first) ==
  /\ Enter(p)
  /\ "setcancel" \in Ops
  /\ IF first = "fn" THEN cancelFn' = f /\ UNCHANGED cancelCtx
                     ELSE cancelCtx' = f /\ UNCHANGED cancelFn
  /\ hookArg' = [hookArg EXCEPT ![p] = <<f, first>>]
  /\ Goto(p, "set_hook")
  /\ UNCHANGED <<catalogVars, msgVars, lock, lastReply, freedCat,
                 tok, ret, hold, outer, nextSub, iter, replyTo>>

SetHookSecond(p) ==
  LET f == hookArg[p][1] IN
  /\ pc[p] = "set_hook"
  /\ IF hookArg[p][2] = "fn" THEN cancelCtx' = f /\ UNCHANGED cancelFn
                             ELSE cancelFn' = f /\ UNCHANGED cancelCtx
  /\ hookArg' = [hookArg EXCEPT ![p] = None]
  /\ Goto(p, "idle")
  /\ UNCHANGED <<catalogVars, msgVars, lock, lastReply, freedCat,
                 tok, ret, hold, outer, nextSub, iter, replyTo>>

-----------------------------------------------------------------------------
(* LSSubscriptionReply (also reached through LSSubscriptionPost).  The     *)
(* thread takes the lock, looks up the list of the key and, keeping the    *)
(* lock, calls LSMessageReply for each listed token that has a record,     *)
(* stopping at the first failure.  Nothing else can change the indexes     *)
(* while the lock is held, so the records are collected when it is taken.  *)

\* The records LSSubscriptionReply walks for key k: the record of each
\* listed token in list order, None where the token map has none.
ListedRecords(k) == [i \in 1..Len(ListOf(k)) |-> tokenMap[ListOf(k)[i]]]

ReplyBegin(p, k) ==
  /\ Enter(p)
  /\ "reply" \in Ops
  /\ LockFree
  /\ lock' = p
  /\ replyTo' = [replyTo EXCEPT ![p] = SelectSeq(ListedRecords(k), LAMBDA s : s # None)]
  /\ lastReply' = [key |-> k, to |-> {}]
  /\ Goto(p, "reply_send")
  /\ UNCHANGED <<catalogVars, msgVars, cancelFn, cancelCtx, freedCat,
                 tok, ret, hold, outer, nextSub, iter, hookArg>>

\* LSSubscriptionPost: the key "/category/method" is built by
\* _LSMessageGetKindHelper, the kind of the requests to that method; then
\* LSSubscriptionReply on it.  A failed allocation of the key returns false
\* before anything is locked or sent, a step that changes nothing.
Post(p, k) ==
  /\ k \in Range(KindOf)
  /\ ReplyBegin(p, k)

\* LSMessageReply(sh, subs->message, payload) succeeds.
ReplySend(p) ==
  /\ pc[p] = "reply_send"
  /\ replyTo[p] # <<>>
  /\ lastReply' = [lastReply EXCEPT !.to = @ \cup {Head(replyTo[p])}]
  /\ replyTo' = [replyTo EXCEPT ![p] = Tail(@)]
  /\ UNCHANGED <<catalogVars, msgVars, lock, cancelFn, cancelCtx, freedCat,
                 pc, tok, ret, hold, outer, nextSub, iter, hookArg>>

\* LSMessageReply fails: goto cleanup, which unlocks and returns false; the
\* remaining records get nothing.
ReplyFails(p) ==
  /\ pc[p] = "reply_send"
  /\ replyTo[p] # <<>>
  /\ replyTo' = [replyTo EXCEPT ![p] = <<>>]
  /\ lock' = None
  /\ Goto(p, "idle")
  /\ UNCHANGED <<catalogVars, msgVars, cancelFn, cancelCtx, lastReply, freedCat,
                 tok, ret, hold, outer, nextSub, iter, hookArg>>

\* cleanup: _CatalogUnlock.
ReplyEnd(p) ==
  /\ pc[p] = "reply_send"
  /\ replyTo[p] = <<>>
  /\ lock' = None
  /\ Goto(p, "idle")
  /\ UNCHANGED <<catalogVars, msgVars, cancelFn, cancelCtx, lastReply, freedCat,
                 tok, ret, hold, outer, nextSub, iter, hookArg, replyTo>>

-----------------------------------------------------------------------------
(* _LSSubscriptionGetJson, the handler of the subscriptions introspection  *)
(* method, on a dispatcher: it builds a JSON snapshot of every list and     *)
(* the records of its tokens under the lock.  The snapshot is only read,    *)
(* so the section is the lock held between two steps.                       *)

IntrospectBegin(p) ==
  /\ Enter(p)
  /\ "introspect" \in Ops
  /\ LockFree
  /\ lock' = p
  /\ Goto(p, "introspect")
  /\ UNCHANGED <<catalogVars, msgVars, cancelFn, cancelCtx, lastReply, freedCat,
                 tok, ret, hold, outer, nextSub, iter, hookArg, replyTo>>

\* _CatalogUnlock, after the snapshot is complete or an allocation in the
\* loop failed (goto error).
IntrospectEnd(p) ==
  /\ pc[p] = "introspect"
  /\ lock' = None
  /\ Goto(p, "idle")
  /\ UNCHANGED <<catalogVars, msgVars, cancelFn, cancelCtx, lastReply, freedCat,
                 tok, ret, hold, outer, nextSub, iter, hookArg, replyTo>>

\* json_object_new_boolean or json_object_new_array fails before the lock is
\* taken; the error path calls _CatalogUnlock all the same.  A default
\* (glibc normal) mutex is released whoever holds it.
IntrospectFailsEarly(p) ==
  /\ Enter(p)
  /\ "introspect" \in Ops
  /\ lock' = None
  /\ UNCHANGED <<catalogVars, msgVars, cancelFn, cancelCtx, lastReply, freedCat,
                 threadVars>>

-----------------------------------------------------------------------------
(* _CatalogFree, called when the handle is unregistered: every token-map   *)
(* entry is removed by g_hash_table_foreach_remove, whose _TokenMapFree    *)
(* releases the reference the map owned; then both tables are destroyed.   *)
(* No lock is taken.  With "teardown" the service has stopped its other    *)
(* threads first; with "teardown_race" an operation may still be running. *)

\* _SubscriptionRelease of each record in S, all in one step.
ReleaseAll(S) ==
  LET dead == {s \in S : ref[s] = 1} IN
  /\ ref' = [s \in SubIds |-> IF s \in S THEN ref[s] - 1 ELSE ref[s]]
  /\ subState' = [s \in SubIds |-> IF s \in dead THEN "freed" ELSE subState[s]]
  /\ watch' = [s \in SubIds |->
                IF s \in dead /\ watch[s] # "none" THEN "cancelled" ELSE watch[s]]
  /\ UnrefMsgs({TokenOf(s) : s \in dead})

TeardownAllowed(p) ==
  \/ "teardown_race" \in Ops
  \/ "teardown" \in Ops /\ \A q \in Threads \ {p} : Idle(q)

\* Mutant: _TokenMapFree removes the entry without releasing the record.
CatalogFreeNoRelease(p) ==
  /\ Enter(p)
  /\ TeardownAllowed(p)
  /\ tokenMap' = [t \in Tokens |-> None]
  /\ lists' = <<>>
  /\ freedCat' = TRUE
  /\ UNCHANGED <<subState, ref, keys, watch, gen, msgVars,
                 lock, cancelFn, cancelCtx, lastReply, threadVars>>

CatalogFree(p) ==
  /\ Enter(p)
  /\ TeardownAllowed(p)
  /\ ReleaseAll(Range(tokenMap) \ {None})
  /\ tokenMap' = [t \in Tokens |-> None]
  /\ lists' = <<>>
  /\ freedCat' = TRUE
  /\ UNCHANGED <<keys, gen, appHolds, cancelSent, gone,
                 lock, cancelFn, cancelCtx, lastReply, threadVars>>

-----------------------------------------------------------------------------

\* _CatalogNew: both tables empty; the service installed InitCancelFn.
Init ==
  /\ tokenMap   = [t \in Tokens |-> None]
  /\ lists      = <<>>
  /\ subState   = [s \in SubIds |-> "unborn"]
  /\ ref        = [s \in SubIds |-> 0]
  /\ keys       = [s \in SubIds |-> {}]
  /\ watch      = [s \in SubIds |-> "none"]
  /\ gen        = [t \in Tokens |-> 0]
  /\ msgState   = [t \in Tokens |-> "unsent"]
  /\ msgRef     = [t \in Tokens |-> 0]
  /\ appHolds   = {}
  /\ cancelSent = {}
  /\ gone       = {}
  /\ lock       = None
  /\ cancelFn   = InitCancelFn
  /\ cancelCtx  = InitCancelFn
  /\ lastReply  = None
  /\ freedCat   = FALSE
  /\ pc         = [p \in Threads |-> "idle"]
  /\ tok        = [p \in Threads |-> None]
  /\ ret        = [p \in Threads |-> "idle"]
  /\ hold       = [p \in Threads |-> None]
  /\ outer      = [p \in Threads |-> None]
  /\ nextSub    = [p \in Threads |-> None]
  /\ iter       = [p \in Threads |-> ClosedIter]
  /\ hookArg    = [p \in Threads |-> None]
  /\ replyTo    = [p \in Threads |-> <<>>]

\* Steps that continue an operation already under way.
Continue(p) ==
  \/ RmNotify(p) \/ RmUnlist(p) \/ RmUnmap(p) \/ RmRelease(p)
  \/ DownRemove(p) \/ DownRelease(p)
  \/ NextRef(p) \/ NextRelease(p)
  \/ SetHookSecond(p)
  \/ ReplySend(p) \/ ReplyEnd(p)
  \/ IntrospectEnd(p)

\* Every operation is a disjunct of its own.
Next ==
  \/ \E p \in Dispatchers, t \in Tokens : Receive(p, t) \/ Drop(p, t) \/ Cancel(p, t)
  \/ \E p \in Dispatchers, k \in Keys, t \in Tokens :
        Add(p, k, t) \/ AddRegistrationFails(p, k, t)
  \/ \E p \in Dispatchers, t \in Tokens : Process(p, t)
  \/ \E p \in Dispatchers, s \in SubIds : WatchFires(p, s)
  \/ \E p \in Dispatchers : IntrospectBegin(p) \/ IntrospectFailsEarly(p)
  \/ \E p \in Dispatchers : CatalogFree(p)
  \/ \E c \in Senders : SenderDrops(c)
  \/ \E p \in Walkers, k \in Keys : IterAcquire(p, k) \/ ReplyBegin(p, k) \/ Post(p, k)
  \/ \E p \in Walkers : IterNext(p) \/ IterRemove(p) \/ IterRelease(p)
  \/ \E p \in Walkers, f \in CancelFns \cup {None}, first \in {"fn", "ctx"} :
        SetHookFirst(p, f, first)
  \/ \E p \in Threads : Continue(p) \/ ReplyFails(p)

\* A thread that has started an operation is scheduled until it finishes.
\* None of these steps blocks for long: the only wait is for the mutex,
\* whose holder is itself finishing a reply or a snapshot.  A failing
\* LSMessageReply is not assumed: a reply may also go through.
\* The hub's answer to registerServerStatus for a sender that has left is
\* a message queued for the dispatcher, and the main loop dispatches its
\* queue in order: a watch that can fire again and again is handled,
\* however busy the dispatcher is in between (strong fairness).  Requests,
\* cancels and the service's own calls are not fair: they may never come.
Fairness ==
  /\ \A p \in Threads : WF_vars(Continue(p))
  /\ \A p \in Dispatchers, s \in SubIds : SF_vars(WatchFires(p, s))

Spec == Init /\ [][Next]_vars /\ Fairness

-----------------------------------------------------------------------------
(* Properties.                                                              *)

TypeOK ==
  /\ tokenMap \in [Tokens -> SubIds \cup {None}]
  /\ DOMAIN lists \subseteq Keys
  /\ \A k \in DOMAIN lists : lists[k] \in Seq(Tokens)
  /\ subState \in [SubIds -> {"unborn", "live", "freed"}]
  /\ ref \in [SubIds -> Nat]
  /\ keys \in [SubIds -> SUBSET Keys]
  /\ watch \in [SubIds -> {"none", "armed", "fired", "cancelled"}]
  /\ gen \in [Tokens -> 0..MaxGen]
  /\ msgState \in [Tokens -> {"unsent", "live", "freed"}]
  /\ msgRef \in [Tokens -> Nat]
  /\ appHolds \subseteq Tokens /\ cancelSent \subseteq Tokens /\ gone \subseteq Senders
  /\ lock \in Threads \cup {None}
  /\ cancelFn \in CancelFns \cup {None} /\ cancelCtx \in CancelFns \cup {None}
  /\ lastReply \in {None} \cup [key : Keys, to : SUBSET SubIds]
  /\ freedCat \in BOOLEAN
  /\ pc \in [Threads -> {"idle", "rm_notify", "rm_unlist", "rm_unmap", "rm_release",
                         "down_remove", "down_release", "next_ref", "next_release",
                         "set_hook", "reply_send", "introspect"}]
  /\ tok \in [Threads -> Tokens \cup {None}]
  /\ hold \in [Threads -> SubIds \cup {None}]
  /\ outer \in [Threads -> SubIds \cup {None}]
  /\ nextSub \in [Threads -> SubIds \cup {None}]
  /\ replyTo \in [Threads -> Seq(SubIds)]

\* The references a record should have: one owned by the token map while
\* the map points at it, plus one per thread that acquired it.
IndexRef(s) == IF s \in Range(tokenMap) THEN 1 ELSE 0
Holders(s)  ==
  Cardinality({p \in Threads : hold[p] = s}) +
  Cardinality({p \in Threads : outer[p] = s}) +
  Cardinality({p \in Threads : nextSub[p] = s})

(* I4: the count of every live _Subscription equals the references that   *)
(* exist: the token map's own plus one per thread between its              *)
(* _SubscriptionAcquire and its _SubscriptionRelease.  A remover that       *)
(* releases the map's reference without having removed the map entry, or  *)
(* a path that forgets a release, breaks it.                               *)
RefCountExact ==
  \A s \in SubIds : subState[s] = "live" => ref[s] = IndexRef(s) + Holders(s)

(* I5: nothing reachable is freed: the token map points only at live       *)
(* records, every record a thread holds (in _CatalogRemoveToken,            *)
(* _subscriber_down or LSSubscriptionNext) is live, and every message held *)
(* by a live record or an iterator's seen_messages is not yet freed.       *)
NoUseAfterFree ==
  /\ \A t \in Tokens : tokenMap[t] # None => subState[tokenMap[t]] = "live"
  /\ \A p \in Threads : \A s \in {hold[p], outer[p], nextSub[p]} \ {None} :
        subState[s] = "live"
  /\ \A s \in SubIds : subState[s] = "live" => msgState[TokenOf(s)] = "live"
  /\ \A p \in Threads : \A t \in iter[p].seen : msgState[t] = "live"

\* Thread p of _CatalogRemoveToken has unlisted token t, not yet unmapped.
Unlisted(t) == \E p \in Threads : pc[p] = "rm_unmap" /\ tok[p] = t

(* I2: the two indexes agree.  Every token in the list of k has a record   *)
(* in the token map whose keys contain k; every key of a mapped record has *)
(* a list holding the token (except between the two locked sections of a   *)
(* removal of that token); and no list holds a token twice.                *)
IndexConsistency ==
  /\ \A k \in DOMAIN lists : \A i \in 1..Len(lists[k]) :
        LET t == lists[k][i] IN tokenMap[t] # None /\ k \in keys[tokenMap[t]]
  /\ \A t \in Tokens : tokenMap[t] # None /\ ~Unlisted(t) =>
        \A k \in keys[tokenMap[t]] : k \in DOMAIN lists /\ Contains(lists[k], t)
  /\ \A k \in DOMAIN lists : IsInjective(lists[k])

(* I3: no key is left with an empty subscription list.                     *)
NoEmptyList == \A k \in DOMAIN lists : Len(lists[k]) > 0

(* Once a record has left the token map, every thread that still holds it *)
(* releases it, so it is eventually freed (its message reference dropped  *)
(* and its server-status watch cancelled): removal never leaks a record.  *)
RemovedIsFreed ==
  \A s \in SubIds :
    (subState[s] = "live" /\ s \notin Range(tokenMap)) ~> subState[s] = "freed"

(* A client that leaves the bus leaves no subscription behind: once its   *)
(* sender is gone, each of its tokens that has a record is eventually      *)
(* taken out of the token map.  The record's registerServerStatus watch    *)
(* fires in _subscriber_down, which removes whatever record the token has  *)
(* then; a record added later has a watch of its own.                      *)
DisconnectCleansUp ==
  \A t \in Tokens :
    (SenderOf[t] \in gone /\ tokenMap[t] # None) ~> tokenMap[t] = None

(* Every call of the cancel hook in _CatalogRemoveToken calls a function   *)
(* the service installed, with the context installed together with it:     *)
(* the step out of rm_notify reads catalog->cancel_function and            *)
(* catalog->cancel_function_ctx, which LSSubscriptionSetCancelFunction     *)
(* stores without the lock.                                                *)
CancelHookSafe ==
  [][\A p \in Threads :
       pc[p] = "rm_notify" /\ pc'[p] = "rm_unlist" =>
         cancelFn \in CancelFns /\ cancelCtx = cancelFn]_vars

(* A thread between the _CatalogLock and the _CatalogUnlock of            *)
(* LSSubscriptionReply or _LSSubscriptionGetJson owns catalog->lock: no    *)
(* other thread can release it and enter a locked section while the lists  *)
(* are being walked.                                                        *)
LockOwned == \A p \in Threads : pc[p] \in {"reply_send", "introspect"} => lock = p

(* A reply reaches every subscriber of its key: once LSSubscriptionReply  *)
(* has called LSMessageReply for every listed record without a failure,   *)
(* and still holds the lock, the records it replied to are exactly those  *)
(* the key's list names in the token map now.  Breaks if the walk skips   *)
(* or stops short, or if another thread's section changes the list or the *)
(* map while the lock is kept across the calls out.                        *)
ReplyReachesSubscribers ==
  \A p \in Threads :
    pc[p] = "reply_send" /\ replyTo[p] = <<>> =>
      lastReply.to = Range(ListedRecords(lastReply.key)) \ {None}

(* Teardown leaks nothing: once the catalog is freed and the service and  *)
(* every iterator have dropped their references, every request message is *)
(* freed.  The records' references to their messages go through           *)
(* _TokenMapFree, the iterators' through LSSubscriptionRelease.             *)
NoLeakAfterTeardown ==
  freedCat /\ appHolds = {} /\ (\A p \in Threads : ~iter[p].open) =>
    \A t \in Tokens : msgState[t] # "live"

(* The spec's teardown: a reference a caller still holds stays valid until *)
(* the caller releases it.  Releasing the last one runs _SubscriptionFree,  *)
(* which reads catalog->sh for LSCallCancel; no _SubscriptionFree may then  *)
(* run after _CatalogFree.                                                  *)
NoFreeAfterTeardown ==
  [][freedCat => \A s \in SubIds : subState'[s] = "freed" => subState[s] = "freed"]_vars

-----------------------------------------------------------------------------
(* Refinement: the catalog implements CatalogAbstract.  A token is         *)
(* subscribed to the keys of the record the token map gives it; the        *)
(* latest reply went to the tokens of the records it reached.              *)

Subscribed == [t \in Tokens |-> IF tokenMap[t] = None THEN {} ELSE keys[tokenMap[t]]]

Published ==
  IF lastReply = None THEN None
  ELSE [key |-> lastReply.key, to |-> {TokenOf(s) : s \in lastReply.to}]

Abstract == INSTANCE CatalogAbstract WITH subscribed <- Subscribed, published <- Published

(* Every step of the catalog is a step of the abstract service or leaves   *)
(* it unchanged: subscriptions grow one key at a time, a removal takes a    *)
(* token off all its keys at once, and a reply reaches only subscribers.   *)
RefinesAbstract == Abstract!AbsSpec

=============================================================================
