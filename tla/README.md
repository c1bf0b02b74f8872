# TLA+ models of the luna-service2 subscription catalog

This directory holds TLA+ models of `src/src/subscription.c`. That file is the
subscription catalog of the luna-service2 bus client library. It records which
in-flight requests (identified by a *token*, `sender.serial`) are subscribed
under which *keys*. It lets services walk and reply to those subscribers. It
drops a subscription when its client cancels the call, drops off the bus, or
when the service removes it through an iterator. Every file here is a TLA+
module, a TLC configuration, this README, or `PROJECT.json`. `PROJECT.json`
is the machine-readable index: components, runs, mutants, the source map,
findings and hazards.

## 1. Inventory

### Components and their state

| Component | Code | State |
|---|---|---|
| SubscriberList | `_SubList*` (l. 232-364) | a `GPtrArray` of token strings per key; no duplicates thanks to the caller's guard |
| Subscription | `_Subscription`, `_SubscriptionNew/Acquire/Release/Free/Remove` (l. 43-230) | `message` (a reference), `keys` (array of keys, no duplicates), `serverStatusWatch` (an LSCall token), `ref` (atomic count) |
| Catalog | `_Catalog`, `_CatalogNew/Free/Add/RemoveToken/HandleCancel` (l. 57-72, 366-568) | `lock`, `token_map` (token -> Subscription), `subscription_lists` (key -> SubList), `cancel_function` + ctx |
| Iterator | `LSSubscriptionAcquire/HasNext/Next/Remove/Release` (l. 77-84, 805-933) | a private copy of one key's list, a cursor, `seen_messages` (message references) |
| Disconnect monitor | `_subscriber_down` (l. 579-625), registration in `_SubscriptionNew` | one `registerServerStatus` call per Subscription; its callback gets the message serial as ctx |
| Delivery | `LSSubscriptionReply/Respond/Post` (l. 935-1113) | none: it reads the catalog under the lock and calls `LSMessageReply` |
| Process | `LSSubscriptionProcess` (l. 1013-1077) | none: parses `subscribe` and calls Add |
| Introspection | `_LSSubscriptionGetJson` (l. 627-752) | none: renders both indexes under the lock |
| External | LSMessage, LSCall/LSCallCancel, json-c, the hub's presence signal | message reference counts; watch registration and cancel |

### How the components interact

A method handler calls `LSSubscriptionAdd(key, msg)`. Under the lock this
fetches or creates the key's list. On the token's first Add it creates a
Subscription: count 1, a reference to the message, and a server-status watch
on the sender. Then it adds the token to the list and the key to the
Subscription. Every removal goes through `_CatalogRemoveToken`:

1. acquire the record (a locked lookup plus an atomic increment);
2. call the cancel callback, outside the lock;
3. under the lock, drop the token from the list of each of its keys and delete
   lists that become empty;
4. under a second lock, drop the token from the token map, then release the
   reference the map owned;
5. release the temporary reference.

There are three callers of the removal:
- `_CatalogHandleCancel`, when a client cancels its call;
- `_subscriber_down`, when the hub reports the sender gone; it wraps the
  removal in its own acquire and release;
- `LSSubscriptionRemove`, from an iterator.

An iterator copies one key's list under the lock. Each `Next` re-resolves a
token: it acquires the record, takes a message reference, and releases the
record. `LSSubscriptionRelease` drops those message references. A record is
freed by whichever thread drops its count to zero. Freeing unrefs the message
and cancels the watch (`LSCallCancel`).

### What is hard

- **Concurrency.** Any thread that handles bus traffic may call in. Locked
  sections are short. The two locked sections of a removal have a window
  between them, and the cancel callback runs outside the lock. Atomic
  reference counts let a holder keep a record alive after the lock is
  dropped. So correctness rests on the counts matching the holders exactly.
- **Three independent removal triggers** for the same token: cancel,
  disconnect, and iterator removal. They can race each other and race Add.
- **Partial failure.** Registering the watch can fail after the list was
  created. `LSMessageReply` can fail in the middle of the reply loop.
- **Stale state.** An iterator's copy outlives the lock. The disconnect
  handler rebuilds a token that may now name a newer Subscription.

### Properties that make each component correct

- **Catalog (the spec's I2 and I3).** The indexes agree both ways. A list
  never holds a token twice. No empty list is left behind.
- **Subscription (I4 and I5).** The count equals the number of references
  that exist. Nothing reachable is freed. A removed record is eventually
  freed.
- **Iterator.** A returned message stays valid until the iterator is
  released, even if the record is removed concurrently.
- **Disconnect.** It ends in the same state as a cancel, and its extra
  acquire and release balance. A client that leaves the bus eventually has
  no subscription left.
- **Delivery.** A reply reaches only subscribers of its key and, unless an
  `LSMessageReply` fails, every one of them. A failure stops the loop at a
  known point. (The spec has the reply made outside the lock; the code keeps
  the lock, which is what holds the list still during the walk.)
- **Identifiers.** A cancel or a disconnect rebuilds exactly the identifier of
  the request it is about.

## 2. Modules

| Module | Models |
|---|---|
| `Catalog.tla` | the catalog, its records, lists and lock, every API entry point that changes or reads them, and the threads that call them |
| `CatalogAbstract.tla` | what the catalog promises: a set of keys per token, removal of all of them at once, and replies only to subscribers |
| `MCCatalog.tla` | model values and definitions (`MCTokens`, `MCKindOf`, `MCPrefixShared`, symmetry) for the `MCCatalog_*.cfg` runs |
| `TokenWidth.tla` | the identifier `sender.serial` and how the cancel and disconnect handlers rebuild it, with integer widths |

## 3. Module `Catalog`

### State

| Variable | Code |
|---|---|
| `tokenMap` | `catalog->token_map` |
| `lists` | `catalog->subscription_lists`: a function whose domain is the keys present; lists keep their order |
| `subState`, `ref`, `keys`, `watch` | a `_Subscription`'s existence, `ref`, `keys` (a set: insertion is guarded by `g_char_ptr_array_contains`) and `serverStatusWatch` |
| `gen` | how many incarnations of a token's record exist |
| `msgState`, `msgRef`, `appHolds` | LSMessage lifetime and its reference count; the service's own reference |
| `cancelSent`, `gone` | clients that cancelled; senders that dropped off the bus |
| `lock` | `catalog->lock`: the thread holding it across a call out, or `None` |
| `cancelFn`, `cancelCtx` | `cancel_function` and `cancel_function_ctx`; a context is named by the function installed with it |
| `lastReply` | the latest `LSSubscriptionReply`: its key and the records it reached |
| `freedCat` | `_CatalogFree` has run |
| `pc`, `tok`, `ret`, `hold`, `outer`, `nextSub`, `iter`, `hookArg`, `replyTo` | thread-local: position in a multi-step operation, the removal's token and return point, the records acquired by the removal, by `_subscriber_down` and by `Next`, the walker's iterator, the hook being installed, the records a reply still has to reach |

A record is identified by `<<token, n>>`. After a removal frees it, the
service may still hold the message and Add it again, which creates incarnation
`n+1`.

### Atomicity

A section of the code that runs under `catalog->lock` and calls nothing out is
one action, guarded by `LockFree`. Two operations keep the mutex across calls
out, so the lock is a variable:
- `LSSubscriptionReply` holds it while it calls `LSMessageReply` for each
  subscriber (`ReplyBegin`, `ReplySend`, then `ReplyEnd`, or `ReplyFails`,
  which is the `goto cleanup` that unlocks at once);
- `_LSSubscriptionGetJson` holds it while it builds the snapshot
  (`IntrospectBegin`, `IntrospectEnd`).

Steps outside the lock are separate actions:
- `RmUnlist` and `RmUnmap` are the two locked sections of a removal;
- `RmNotify` is the call of the cancel hook, which reads both fields;
- `RmRelease`, `NextRelease` and `DownRelease` are atomic decrements;
- `NextRef` is the message reference;
- the two plain stores of `LSSubscriptionSetCancelFunction` (`SetHookFirst`,
  `SetHookSecond`). This is a data race, so the compiler may emit the stores in
  either order, and the first step stores either field.

Merging a lookup with its increment is exact: `_SubscriptionAcquire` does both
under the lock. `RmUnmap` merges the unlock with the decrement after it. That
is sound because the decrement commutes with the other threads' decrements; it
only changes which thread frees the record, and no property depends on that.
The test of `cancel_function` at l. 494 is taken with the acquire: between the
two, the thread reads nothing another thread writes except that field, and the
call at l. 496 reads it again in `RmNotify`.

### Actions

| Action | Code |
|---|---|
| `Add` / `AddRegistrationFails` | `_CatalogAdd` with `_SubscriptionNew` succeeding or with its `LSCall` failing |
| `Process` | `LSSubscriptionProcess`: `subscribe: true` is an Add under `KindOf[t]` (`/category/method`); other payloads change nothing |
| `Cancel` | `_CatalogHandleCancel` (a malformed payload changes nothing, so it is a stutter) |
| `RemoveTokenBegin`, `RmNotify`, `RmUnlist`, `RmUnmap`, `RmRelease` | the steps of `_CatalogRemoveToken` |
| `WatchFires`, `DownRemove`, `DownRelease` | `_subscriber_down` with `connected: false` |
| `IterAcquire`, `IterNext`, `NextRef`, `NextRelease`, `IterRemove`, `IterRelease` | the iterator API. `IterNext` is `HasNext` and the index step of `Next`; both it and `IterRemove` read the copy through `SubListGet` (`_SubListGet`, NULL out of range) |
| `SetHookFirst`, `SetHookSecond` | `LSSubscriptionSetCancelFunction` |
| `ReplyBegin`, `ReplySend`, `ReplyFails`, `ReplyEnd` | `LSSubscriptionReply`; `ListedRecords(k)` is its loop's lookup of each listed token, `None` where the `continue` skips one |
| `Post` | `LSSubscriptionPost`: Reply on the kind `/category/method` of the requests to that method (a failed allocation of the key changes nothing) |
| `IntrospectBegin`, `IntrospectEnd`, `IntrospectFailsEarly` | `_LSSubscriptionGetJson`: the walk under the lock, and an allocation failure before the lock whose error path unlocks anyway |
| `CatalogFree` | `_CatalogFree` with `_TokenMapFree` |
| `Receive`, `Drop`, `SenderDrops` | environment: the bus delivers a request, the service drops its reference, a client leaves the bus |

### Refinement

`Catalog` maps onto `CatalogAbstract` as follows:
- `subscribed[t]` is the key set of the record the token map holds for `t`
  (empty if there is none);
- `published` is the latest reply, with its records mapped to their tokens.

An Add is `Subscribe`. The unmap step of a removal is `Unsubscribe`. Every
`ReplySend` is a `Publish` to a larger set. All other steps are stutters.
`RefinesAbstract` (the abstract `AbsSpec` as a PROPERTY) is checked in the
`refines` run, with Add, Process, cancel, disconnect, re-subscription, and
replies that fail. There every removal runs on the dispatcher, the thread
that also adds, so no Add falls between the two locked sections of a
removal. With `LSSubscriptionRemove` on a walker the refinement does not
hold: the `add_during_remove` run shows an Add in that window leaving a
dangling list entry, and after a re-subscription under another key a reply
to the first key reaches the token (finding 2). The passing run therefore
states the refinement for services that remove only through cancels and
disconnects.

### Constants and bounds

Two tokens and two keys are the smallest sets in which the interesting cases
happen:
- a record under two keys, which a buggy unlist loop gets half wrong;
- an iterator's copy that holds another token;
- re-subscription after removal (`MaxGen = 2` in the safety runs).

`Prefix` is the identity: unique names are far shorter than 50 characters.
Both requests come from one sender, so one
disconnect fires two watches. Tokens and keys are then interchangeable, and
the safety runs `dispatch` and `iter_remove` use symmetry.

The cfgs choose the threads and the operations:
- `Dispatchers` and `Walkers` choose which threads exist.
- `Ops` chooses which operations the threads make.
- `CancelFns` and `InitCancelFn` set the cancel hooks, and the hook installed
  at start.

One dispatcher and one walker are enough to reach every race found. The
dispatcher runs the bus handlers: Add, cancel, disconnect, introspection and
teardown. The walker is the service's own thread: iterate, remove, reply and
set the hook. A second walker or dispatcher makes the passing runs too large
to finish in a few minutes.

### Fairness

`WF_vars(Continue(p))` for each thread, so a thread that has started an
operation finishes it. None of those steps blocks for long: they are atomic
increments and decrements, locked sections, or the steps of a reply or
snapshot, whose holder is itself finishing. Starting an operation (Add,
Cancel, iterating) is not fair: a service or a client may simply never do it.
`ReplyFails` is not fair either: a reply may also go through.

`SF_vars(WatchFires(p, s))` for each dispatcher and each record. When a sender
leaves the bus, the hub's answer to the record's `registerServerStatus` call
is queued for the dispatcher. The GLib main loop dispatches its queue in
order, so a pending answer is handled, however many other requests the
dispatcher takes first. In between, the step is disabled whenever the
dispatcher is busy or the lock is held. That is why the fairness is strong,
not weak.

## 4. Module `TokenWidth`

A subscription's identifier is the string `"%s.%ld"` of the sender and the
request's `LSMessageToken`, an `unsigned long` (`LSMessageGetUniqueToken`).
It is rebuilt in two places:
- `_CatalogHandleCancel` rebuilds it from the cancel payload's `token`, read
  with `json_object_get_int` into an `int` and printed with `%d`;
- `_subscriber_down` rebuilds it from the watch context, which holds the
  token, printed with `%ld`.

In the model, a string is the pair of the sender and the integer its digits
spell. Decimal printing is injective, so these pairs are equal exactly when
the strings are. Formatting is modelled by the reinterpretation it does
(`Signed(v, w)`), and `json_object_get_int` by its clamping to `int` (json-c
0.10 and later). The widths are constants. The runs use `IntBits = 3` and
`LongBits = 5`: serials up to 8 cross the range of the small `int` at 4,
exactly as 64-bit serials cross `INT_MAX`.

## 5. Runs

| Run | Config | Result | What it shows |
|---|---|---|---|
| `dispatch` | `MCCatalog_dispatch.cfg` | pass, 2.8M states | All handlers run on one dispatcher, with a walker iterating concurrently, including a token subscribed twice and a disconnect after a cancel. Counts stay exact (`RefCountExact`), nothing reachable is freed (`NoUseAfterFree`), and the indexes agree (`IndexConsistency`). |
| `dispatch_live` | `MCCatalog_live.cfg` | pass, 400k states | Every record taken out of the token map is eventually freed (`RemovedIsFreed`), with the cancel hook installed. Every record of a client that has left the bus is eventually taken out of the token map (`DisconnectCleansUp`): each record's own watch does it, even when a cancel or an iterator got there first. Unregistering the handle once the other threads are idle releases every record and message (`NoLeakAfterTeardown`) and frees nothing in use (`NoUseAfterFree`). After teardown nothing can enter the catalog, so the run may stop (`CHECK_DEADLOCK FALSE`). |
| `iter_remove` | `MCCatalog_iterremove.cfg` | pass, 3.4M states | `LSSubscriptionRemove` on a walker is the only remover, while the dispatcher adds and drops messages and answers introspection, and the walker resets the hook. Counts and lifetimes stay safe. |
| `refines` | `MCCatalog_refines.cfg` | pass, 2.7M states | The catalog implements `CatalogAbstract` (`RefinesAbstract`). A reply that meets no failure has, when its walk ends, replied to exactly the records its key lists then (`ReplyReachesSubscribers`): with cancels and disconnects on the dispatcher during the walk, the lock kept across the `LSMessageReply` calls holds the list and the token map still. |
| `token_width_disconnect` | `MCTokenWidth_disconnect.cfg` | pass, 87k states | Cancels and disconnects over serials past the range of `int` fire every action of `TokenWidth` and keep its state within what the connection issued (`TypeOK`). That the disconnect path rebuilds the right identifier is not a separate property: `_subscriber_down` prints the token with the same `%ld` as the identifier, so it would hold by construction. |
| `cancel_vs_remove` | `MCCatalog_cancel_vs_remove.cfg` | violation of `NoUseAfterFree` | finding 1 |
| `add_during_remove` | `MCCatalog_add_during_remove.cfg` | violation of `RefinesAbstract` | finding 2 |
| `regfail_empty_list` | `MCCatalog_regfail.cfg` | violation of `NoEmptyList` | finding 3 |
| `hook_race` | `MCCatalog_hook_race.cfg` | violation of `CancelHookSafe` | finding 4 |
| `introspect_unlock` | `MCCatalog_introspect_unlock.cfg` | violation of `LockOwned` | finding 5 |
| `teardown_race` | `MCCatalog_teardown_race.cfg` | violation of `NoFreeAfterTeardown` | finding 6 |
| `token_width_cancel` | `MCTokenWidth_cancel.cfg` | violation of `RemovesExactlyRequested` | finding 7 |

Each property of a passing run is also checked against a mutant: a plausible
bug in the code, which TLC must catch. The mutants are:
- the increment dropped from `_SubscriptionAcquire`;
- a missing release in `_subscriber_down`, in `LSSubscriptionNext`, and at the
  end of `_CatalogRemoveToken`;
- `LSSubscriptionNext` keeping a message without `LSMessageRef`;
- the unlist loop stopping after the first key;
- `_TokenMapFree` removing an entry without releasing its record;
- an identifier built from the previous request's token;
- `_SubscriptionNew` creating a record without registering its watch;
- the unlist section of `_CatalogRemoveToken` run without taking the lock.

### Findings

1. **Double release when two removals of one token overlap** (l. 518, code
   bug). Each `_CatalogRemoveToken` releases the reference the token map
   owns, whether or not it was the one that removed the map entry. A cancel
   and an `LSSubscriptionRemove` both acquire the record (count 3). The first
   finishes (count 1). The second unmaps nothing but still releases (count 0,
   freed) while it holds the record, and its last release works on freed
   memory.
2. **Add during a removal leaves a dangling list entry** (l. 516, code bug).
   Between the unlist section and the unmap section, `_CatalogAdd` still finds
   the record in the token map. It adds the new key to the record and the
   token to that key's list. The unmap then drops the record, and the list
   keeps a token that no removal will ever visit. If the same message is then
   added under another key, a reply to the first key finds the new record
   through the dangling entry. It replies to a request that is not subscribed
   to that key.
3. **A failed registration leaves an empty list** (l. 445, the spec says
   otherwise). The list is inserted before `_SubscriptionNew` runs, and the
   error path does not remove it.
4. **Cancel hook torn between two settings** (l. 496, code bug).
   `LSSubscriptionSetCancelFunction` stores the function and the context
   without the lock. A cancel on the dispatcher between the two stores calls
   the new function with the old context.
5. **Introspection can unlock a mutex it never locked** (l. 733, code bug).
   An allocation failure before `_CatalogLock` jumps to the error label,
   which unlocks. A default glibc mutex is then released under a concurrent
   `LSSubscriptionReply`, and other threads enter locked sections while the
   reply walks the list.
6. **Teardown while a record is held** (l. 410 and 129). `_CatalogFree`
   releases the map's references and frees the catalog. An iterator that
   still holds a record then frees it, and `_SubscriptionFree` reads
   `catalog->sh` from freed memory. The spec says such a reference stays
   valid until it is released.
7. **A cancel past `INT_MAX` removes the wrong request** (l. 552, code bug).
   `json_object_get_int` clamps the token, and `%d` prints it, so cancelling
   request `INT_MAX + 1` removes request `INT_MAX`. The cancelled request
   stays. (With `IntBits = 3`, cancelling request 4 removes request 3.)

Disagreements seen in the code that no run covers, each listed as a hazard in
`PROJECT.json`:
- `_SubListGet` reads `tokens->len` before its NULL check (l. 353).
  `LSSubscriptionNext` without `HasNext`, on an iterator of an absent key,
  therefore crashes, while the spec says "returns none".
- The list functions compare only the first 50 characters (l. 307, 342).
- `LSSubscriptionReply` calls `LSMessageReply` under the lock (l. 974),
  against the spec's scheduling model.
- A cancel handled before the service's Add of the same call is lost
  (l. 559).

## 6. Not modelled and why

- **Misuse of the iterator API** (`Next` without `HasNext`) is not modelled.
  The walker follows the protocol the API documents.

- **`LSSubscriptionRespond`** replies on the public handle, then on the
  private one, and each handle has its own catalog. The model has one catalog.
  Respond's only extra behaviour is that a public failure skips the private
  bus, which is a plain early return. The two catalogs share no state, so
  a model of Respond is the product of two copies of `Catalog`; one copy
  already takes about two minutes per run, and the product is out of TLC's
  reach at any bound that lets a reply meet a concurrent removal.
- **The `subscribed` out-parameter of `LSSubscriptionProcess`** is left
  unwritten when the payload does not parse. It is the caller's memory, and
  the model contains no caller.
- **Whether `LSCall` can run `_subscriber_down` synchronously** while
  `_CatalogAdd` holds the lock (l. 213) depends on transport code outside this
  repository. Registration is an atomic step that succeeds or fails.
- **JSON rendering of the snapshot** is not modelled. The snapshot changes
  nothing, so only its lock handling is kept.
- **Token strings** are model values. The two properties of a token's text
  that matter are kept: its first 50 characters (the `Prefix` constant), and
  the integer of its serial (`TokenWidth`).
- **GLib out-of-memory paths** (`g_new0` and similar returning NULL) are left
  out. GLib aborts on allocation failure, so those branches are dead. json-c
  allocations can fail, and they are kept where they change control flow
  (`IntrospectFailsEarly`).
- **The SubscriberList operators** are not checked against a separate set
  reference. They are short enough to read against the code, and
  `IndexConsistency` and `NoEmptyList` check them in use.
