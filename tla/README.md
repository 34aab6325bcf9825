# Verification of JIT-Pack's synchronisation core

JIT-Pack is an offline-first packing list: a Go server over one SQLite file, and
a TypeScript single-page client that paints every edit at once, queues it on the
device, pushes it when it can, and pulls what others wrote. Everything that makes
it hard lives between those two: clocks minted on devices nobody trusts to agree,
field-level merging, deletes that race edits, replies that are lost, tabs that are
closed in the middle of a drain, goroutines that overtake each other on the way to
a socket, two devices that answer the same question differently.

This directory holds TLA+ modules of that core, TLC configurations that check
them on small instances, and TLAPS proofs of the properties that matter most.
Paths below are relative to the repository root; `internal/` is the server and
`client/src/` the client.

To run: `tlc -config ServerRow.cfg MCSyncServer`, `tlapm SyncServer_proofs.tla`,
and so on for the rows of the tables below.

## 1. Inventory

| Component | State it keeps | Operations | Modelled in |
|---|---|---|---|
| Hybrid logical clock (`internal/sync/hlc.go`, `client/src/sync/hlc.ts`) | last millisecond, counter | `Next`, `Observe`, start | `HLC` |
| Merge rules (`internal/sync/merge.go`) | none | `Merge` | `Merge` |
| Server write pipeline (`internal/store/partition.go`, `pipeline.go`, `stamp.go`, `guard.go`) | tables, `change_log`, `mutations`, `conflict_log` | `applyMutation` | `SyncServer` |
| Claims (`locks.go`, `api/takeover.go`) | `packing_now_by`, `lock_events` | take over | `SyncServer` |
| Conflict log and revert (`conflicts.go`) | `conflict_log` | list, revert | `SyncServer` |
| Push and pull endpoints (`api/server.go`, `api/master.go`, `store/pull.go`) | none | push a batch, pull a page | `SyncServer`, `Sync` |
| Client outbox (`sync/outbox.ts`, `outboxStore.ts`) | queue, storage chain, drain, IndexedDB `pending` and `parked` | `enqueue`, `drain`, `restore` | `Outbox` |
| Optimistic painting (`writeFunnel.ts`, `optimistic.ts`, `cascade.ts`, `sinks.ts`) | row stores | paint, apply a page | `Sync` |
| Session boot and reconnect (`composables/backend/server.ts`, `App.vue`) | which partitions are open, the jobs under way | connect, resume, catch up, drain master before trip | `Backend` |
| Web socket client (`webSocket.ts`, `wsRouting.ts`) | socket, back-off, channels | dial, open, close, redial, subscribe, route | `Backend`; what it shows in `Hub` |
| Hub, presence, roster, live location (`api/hub.go`, `ws.go`, `livelocation.go`) | connections, subscriptions, generations, bounded send queues | every client frame, broadcast, close | `Hub` |
| Master row deletion, pruning (`master_delete_row.go`, `master_prune_item.go`) | the tables | REST delete, prune | `MasterDelete` |
| Authentication and sessions (`auth/refresh.ts`, `api/auth.go`, `store/sessions.go`) | stored tokens, session rows | refresh, rotate, end, log out, log in | `Session` |
| Groups a trip follows (`domain/refresh.ts`, `domain/instantiate.ts`, `app/actions/groupRefresh.ts`) | rows, the ledger `trip_generated_positions` | generate, propose, accept, decline, roster change | `Refresh` |
| Packing domain (`domain/packState.ts`, `app/actions/packing.ts`) | rows | pack, amount, skip, assign, add, remove | `Refresh`, as the hand's writes |
| Membership and access | `trip_members` | revoke; the hub's gate | `Hub`, in part |
| Notifications and due tasks | notices, timers | find due, send | no |
| Local mode persistence | IndexedDB mirror | save, load | no |
| Activity log, images, backup, admin, UI, CLI, code generation | — | — | no (section 8) |

**How they interact.** A view calls the write funnel, which stamps the edit with
the device's clock, paints it into the row stores and hands it to the outbox. The
outbox writes it to IndexedDB, and drains: it pushes the queue in batches and
then pulls pages from its cursor until the feed ends. On the server each pushed
mutation is one transaction: look the id up in the memo, strip and re-stamp the
server-owned columns, ask scope and guard, compare against tombstones, merge,
check references, persist, log on the feed, log what lost. Takeover and revert
write through the same merge with clocks the server mints. The hub then tells the
other subscribers, whose backends drain; a device that missed a notice catches up
when its socket opens again or its user comes back. All of this runs on an access
token that expires, which the tabs of a browser renew through one rotating chain.
Above it, a trip follows the groups it was generated from: each device compares
its copies of both, asks its user, and writes the answer through the same funnel.

**What is hard here.**

- *Order.* Clocks arrive in any order, so every rule must be one about clocks.
- *Coupled columns.* `state` and `packed_count` are one fact in two columns; the
  columns that name who packed or claimed describe a third.
- *Deletes.* A delete cascades inside SQLite and on the device separately, may be
  refused, or becomes a retirement; an older write must not undo it.
- *Unreliable delivery.* A reply can be lost, a request can be applied after its
  sender gave up, a batch can stop in the middle.
- *Interleaving.* JavaScript interleaves at each `await`; a revert reads its
  group before its transaction, a REST delete its row's clock; a pull loads rows
  after it read the page; the hub takes its lock several times in one call.
- *Slow and stale peers.* A socket that nobody reads, a membership that has ended
  under an open socket, a token another tab has spent, a device whose groups are
  older than the answer it gives.
- *Restarts.* The tab may go between any two storage writes.

`PROJECT.json` lists these as hazards, each at its line and with the properties
that would catch it.

**What makes each part correct.**

- *Clock*: a stamp exceeds everything its generator produced or saw, and fits its
  text width.
- *Merge and pipeline*: last writer wins per column; the coupled columns stay
  coupled; packed outranks a claim; nothing stale comes back; a replay is inert;
  the feed says what the tables hold.
- *Revert*: spends a group once, wholly, or not at all.
- *Outbox*: nothing captured is lost; memory and disk agree; a drain answers the
  callers that asked for it; the queue empties.
- *Devices with the server*: a device that is up to date shows the server's rows.
- *Backend*: a trip's push waits for the master writes it may name; a quiet device
  has all it was told of; coming back heals whatever failed.
- *Hub*: what clients show settles on the truth however broadcasts overtake each
  other; a revoked member hears nothing; a stuck peer delays nobody.
- *Server-made deletes*: nothing newer is deleted, nothing dangles.
- *Session*: a chain never forks, a provider's outage is no logout, deactivation bites.
- *Refresh*: one position is one row, a row and its ledger entry stay together, a
  hand's edit wins, an answer ends the question.

## 2. Modules

```
HLC ── HLC_proofs
Merge ── SyncServer ─┬─ MCSyncServer ─┐
                     ├─ MasterDelete ─┼─ MCMasterDelete
                     │                └─ SyncServer_proofs ─┐
                     └─ Sync ─┬─ MCSync                     │
                              └─ Sync_proofs ───────────────┘
Courier ··(INSTANCE)·· Outbox ── Outbox_proofs
Backend ── Backend_proofs
Hub ─┬─ MCHub
     └─ Hub_proofs
Session ── Session_proofs
Refresh ─┬─ MCRefresh
         └─ Refresh_proofs
```

A `_proofs` module extends the module it is about. `SyncServer_proofs` is about
`SyncServer` and about `MasterDelete`; that of `Sync` builds on it.

**HLC.** `last[d]` is the generator's millisecond and counter, `Next(d)` is
the code's `Next` (with any reading of the wall clock: it may stall, jump or run backwards),
`Observe` folds in a stamp, `Restart` starts over. `Less` is the order of the
fixed-width text; it is an order of that text only while the counter fits its
digits, which `TypeOK` states.

**Merge.** Pure operators: `Wins` decides one column, `GroupDecision` the
`state`/`packed_count` pair, `Applied`, `Conflicts`, `Deleted` and `Outcome` are
what `Merge` returns. A row that never synced has clock 0.

**SyncServer.** One action per transaction. SQLite is opened with a single
connection (`store.go:82`), so transactions are serial and one action is exactly
what other requests can see. `Push` is a mutation's first arrival, `Replay` the
same one again; both are `ApplyMutation`, whose steps are operators in the code's
order (`StampServerOwned`, `ScopeRefusal`, `TombstoneBeats`, merge,
`StillReferenced`/`RetireInstead`, `Violates`, `Persisted`, `LogAccepted` or
`RelogRefused`). `RevertRead` and `RevertCommit`/`RevertAbort` are separate
because the code reads the group outside the transaction. `merged` is a history
variable: the mutations merged into a row since it came into being.

**Outbox.** One partition of one device. An action is the code between two
awaits. `work`, `aliased` and `offset` are `runDrain`'s local view of the queue,
which *is* the live array until the first answer replaces it; `chain` is the
promise chain of storage writes. `restore` may read the store, late, or fail for the
session (`restored`). `ask` says whether somebody calls for a drain: an edit does, and
the boot for what `restore` reports; a call that fails is not repeated by itself. The
server is reduced to the memo it relies on. A request the device gave up on stays in
`strays` and may still be applied.

**Sync.** Devices and `SyncServer` over one trip. `Edit` paints and queues, a drain
goes `StartDrain`, `ServerTakes` once per mutation, `PushAnswered`, then
`PullRead`, `PullLoad`, `PullApply` per page. It assumes a durable queue, which
`Outbox` shows, and leaves the storage to that module.

**MasterDelete.** `SyncServer` with the two deletes the server composes itself.
`ReadRowClock` folds the row's clock into the generator; `DeleteCommit`, later and
after whatever others did meanwhile, mints above it and deletes through the
pipeline (`Decide`), or prunes: refuses an item in use, deletes otherwise.

**Courier.** The abstract promise of the outbox: the device keeps an item until
there is a verdict or turns it into evidence of a refusal, evidence stays, a verdict
is given once. `Outbox` implements it with `place` read off the device's two stores
(`Place`) and `verdict` the server's memo; `IsCourier` is the refinement.

**Backend.** One device with its master partition and one trip. An async function
is a *job*: the steps it has yet to take and the promise it awaits. JavaScript
finishes every job that can go on before the next event is handled, which `Settled`
says: events (answers, frames, clicks, timers) need it, micro-steps do not.
`drainTrip` goes through `whenSent`, which waits for the master drain that runs,
whatever becomes of it, and then drains what is left. The hub here is whether the server knows the socket
and its subscription; a change is a notice only then.

**Hub.** One trip. A call of the hub is a list of *tasks*, one per critical section
of `Hub.mu` or question to the store, in the `todo` of the goroutine that makes the
call; tasks of different goroutines interleave. A connection's queue is first in,
first out and only its pump writes, so it is kept as a length and a queued frame is
applied at once to what the client will have made of all its frames.

**Session.** Tabs of one browser over one `localStorage`, the handler in its steps
(peek, ask the provider, rotate, answer), rows that are single-use and expire, and a
provider that may give no token of its own, rotate its grant, be out, or revoke. A
request is in a slot of its tab, the second only while the server is still at the
first. It can be lost, be given up while the handler goes on, or be answered by
something in between; the store can fail at each step of the handler.
A rotation that fails is answered as the code answers it, like a consumed token.

**Refresh.** Groups on the master side; rows, ledger and roster of the trip on the
server and on each device. Answers and hand edits are painted on the device and put
in its queue `out`, one batch of mutations each. A device sends its own mutations in
their order (those of one kind in a batch in any), and the devices' interleave freely:
the server takes each by itself, merges it by its clock with the operators of `Merge`,
compares it with the tombstones and refuses what the schema refuses (`Take`). Group and
item edits are queued like the others and merged register by register. `PlanOf` is the
diff: it generates, compares with the ledger, protects what a hand touched, and derives
the ids two devices must agree on. A plan edits the fields of a row that moved and
writes its ledger entry whole, as the code does.

The `MC` modules hold only the instances: which tables the ids belong to, who hangs
off whom, which writes the clients make, which kinds of events a hub behaviour has.

### Abstractions

- A server-side stamp is a positive number. `HLC` shows that stamps are totally
  ordered and that a generator's own increase; `SyncServer` uses nothing else.
  A mutation's id is its clock, since both are minted once per mutation.
- All tables share one set of columns. `ref` stands for the columns that
  reference a row without a cascade, `name` for any plain column; `state` has the
  values open, packing_now and packed (partial and skipped follow the rules of
  open). The timestamp columns beside the who-columns are left out: they are
  stamped and cleared with them.
- Feeds share one sequence; a transaction takes a block of numbers, so numbers
  have gaps, as another feed's writes leave them in the code.
- A device pushes only a row it creates or one some feed has named to it
  (`Holdable`), because the write funnel drops an edit of a row not held.
- The rows of one page are loaded at one moment after the page was read. The code
  loads them one after another, each after the page.
- The comparison of a number with its text form (`sameValue`) is equality.
- Cascades are two hops deep, the depth of the schema's chains that are modelled.
- `Backend` keeps of a drain its stages and its snapshot; what a drain does to the
  stored queue is `Outbox`'s. Delays (back-off, watchdog) are nondeterministic.
- `Hub`: rate limits and coordinate checks only refuse frames and are guards; the
  pump of a connection that reads keeps its queue short.
- `Session`: a token is its number; the client's and the server's clocks agree.
- `Hub`: `presenceEvent` reads the feed's head and sends in two steps, and a head that
  cannot be read drops the notice (`hub.go:373-408`); the model has one step that does
  not fail. A presence that is dropped leaves an older one on screen.
- `Refresh`: quantity and weight stand for the seven fields a group may overwrite, one
  that every group counts into and one of the item itself. Clocks agree with the order
  in which the writes are made, not with that of their arrival (what skewed clocks do
  is `SyncServer`'s subject). Groups are registers on the server, one for what a group
  holds of an item and one for an item's weight, and a device pulls only with nothing
  left to send. Conditions, companions, tasks and default assignees are left out.

## 3. Runs that pass

State counts are of distinct states. Type invariants are definitions of every
module; the runs check the one of `HLC`, which bounds a width, and the proofs
establish those of `HLC`, `SyncServer` (and so `MasterDelete`), `Sync`, `Outbox` and
`Session` for every instance. Added to its configuration, the type invariant of any
other module passes too.

| Run | Instance | What it shows |
|---|---|---|
| `hlc` | 2 generators, counter limit 1, wall clock 0..1; 361 000 | Every new stamp exceeds all its generator issued or saw, across rollovers, backward clocks and reloads. |
| `server_row` | 1 packing row, 2 people, 4 clocks, 10 kinds of write; 233 000 | All row rules at once: row clock, last writer, who-columns, coupled pair, packed over claim, no stale resurrection, atomic revert. |
| `server_trip_tree` | suitcase, row, comment, tick; 2 trips, 5 clocks; 1 148 000 | Cascades over two hops, a reference that blocks a delete, pushes through the wrong trip: the feeds tell the truth and stay apart. |
| `server_master` | item, companion rule, trip row made from the item, owned series; 2 people, 4 clocks; 798 000 | Deletes by push, by REST and by prune, retirement, the owner's guard and refusals: nothing dangles, nothing newer is deleted, a prune takes only the unused, a replay changes nothing. |
| `outbox` | 2 mutations, batch 2, 2 faults; 1 507 000 | The outbox is a courier; disk and memory agree; a drain answers its callers; everything captured is decided and the queue empties, or the last call for a drain failed and one more call is enough. |
| `sync` | 2 devices, suitcase and row, 3 clocks, 1 entry per page, 1 fault; 249 000 | An up-to-date device shows exactly the server's rows and mints above them; once edits stop, both come to be up to date for good. |
| `hub` | 3 connections of 2 people, one slow, queue of 2, 1 change, 1 revocation, 9 scenes; 617 000 | Presence, rosters and positions settle on the truth; nothing reaches a revoked member; every reader is told. |
| `session` | 2 tabs, 1 expiry, 1 login, 1 fault; 296 000 | One live token per login; no refusal without a verdict or a cause the documents or the handler name; an expired token is renewed, or its tokens go; deactivation reaches a browser in use. |
| `backend` | 1 write, 1 fault, 3 jobs; 280 000 | `whenSent` keeps its word; a quiet device has all it was told of or asked for; whatever fails, a device whose user keeps coming back ends with empty queues and current partitions. |
| `refresh` | 1 item, 1 traveler, 1 group, 2 devices, 1 group edit, 1 hand act or roster change, 2 answers; 432 000 | An answer ends the question, a refusal for good; a hand's edit wins. |
| `refresh_ledger` | 1 item of 2 weights, 2 groups, 2 devices, 2 edits, 3 answers; 633 000 | A row and its ledger entry agree once everything has arrived, unless a device wrote about a position it knew otherwise; no twin rows but a hand's or a late removal's. |

**Why these bounds.** Clocks are the resource a server behaviour is made of: each
write spends one. Four let a row be created, written twice and deleted with the
stamps in any order of arrival, enough for a stale write between two deletes, for a
claim against a pack against a release, and for a lost pair to be reverted by a
stamp the server mints. The tree needs five: four rows and the delete. In
`server_master` the item, the row made from it and the delete take three, the
fourth is the write that comes between the read and the transaction. A replay costs
no clock and is unbounded. Two people are what a claim, a takeover and a double
revert need. `CounterLimit = 1` makes the rollover happen at every other stamp. In
the outbox two mutations are one full batch or two partial ones, depending on when
the second is queued; two faults are a lost answer and a reload. One entry per page
in `Sync` makes every entry a page; one fault is one lost request *or* reload at any
point. In `Hub` presence, rosters and positions share the connections and their
queues and nothing else, so a behaviour is about one of them (a `Scene`), with up to
five frames; a queue of two is filled by three. In `Session` an expiry is one of the
access token or of the row, and one fault of any kind is enough for its liveness, since
those properties ask what comes after the last. In `Backend` one write is a master
write, a trip write, both of them (a trip row with the master row it names) or a commit
of another device; three jobs are two callers of one drain and the resume between
them. The safety properties of both are proved for every bound, and TLC passes them,
without the liveness, with two faults that let a lost answer be followed by a refresh
that fails (`Session`; 1 648 000 states) and with two writes, an own one
and a foreign one (`Backend`; 5 489 000).
In `refresh` a group's position is one for the trip or one per person, so that one edit
adds, changes or removes rows and so does a traveler; two answers are one of each
device, or both of one. In `refresh_ledger` two groups overlap, so that an edit of one
changes an amount and one of the item a weight, and a row and its entry can be written
field by field from both; three answers let a device answer before and after it heard
of the other's. The two findings about `Refresh` below are behaviours of the same instance.

**Deadlock.** `hlc`, the server runs, `outbox` and `sync` check for it (a replay, a
reload or the next reading of the clock is always possible). `Hub`, `Session`,
`Backend` and `Refresh` switch it off: connections close, users log out or stop
editing, and a bounded behaviour really ends there.

**Symmetry.** Users are interchangeable in `server_row` and `server_master`, devices
and groups in the runs of `Refresh`: no definition names one. These runs check safety
only; no run with a liveness property uses symmetry.

**Fairness.** Edits, faults, reloads and stray requests never have any. The number of
faults is bounded, which is the assumption "the network is eventually good enough".

- `Outbox`: weak fairness of each step of a drain, of the promised follow-up, of the
  storage chain, of `restore`, and of a drain that an edit or the boot has called for
  (`ask`). These are the event loop, IndexedDB and a server that answers. That anybody
  calls *again* after a failed drain is not assumed: while the connection lasts, nothing
  in the code does. `EverythingSettles` therefore excepts a queue whose last call failed,
  and a stored queue that could not be read.
- `Sync`: weak fairness of each device's drain steps, and of asking for one: a change
  notice, an edit, a reconnect and a return to the app do.
- `Hub`: some goroutine that can run does, and the read of a connection the server
  dropped fails. A slow peer need never read again.
- `Session`: a tab in use makes requests, its timers fire, the handler goes on and its
  answer arrives unless a fault takes it.
- `Backend`: the event loop, the server and the redial timer go on (weak); the trip
  is opened and the user keeps coming back. Notices, an opening socket, the boot and
  the opening of the trip need room among the bounded jobs, which the code does not
  bound; what only waits for room is strongly fair.

Each property has a mutant beside the definition it changes (`\* Mutant:`), a
plausible slip in the code that breaks it under the same configuration.

## 4. Findings

The run `finding_thread` is expected to find a violation. Beside it stand six
configurations, each named with its formula, that show another in the same way:
`tlc -config <name>.cfg <module>` prints the trace.

- `finding_thread`: a delete that loses to a newer edit logs nothing. The device
  that made it gets the row back through that edit, and never the comments it
  removed with it, against "clients converge via pull" (`api/server.go:506`). This
  is why `sync` uses a suitcase and a row, which do not cascade.
- `FindingClaim.cfg` (`Converged` again, of `MCSync`): the menu of a packed row offers
  to claim it (`client/src/domain/rowMenu.ts:140`, and `rowMenu.spec.ts:68` tests for
  it). The claim is painted; the server drops it whatever its clock (`merge.go:291`), so
  nothing changed and nothing is logged (`partition.go:226`), and the answer
  "merged" repairs nothing (`outbox.ts:425`). The device goes on showing the row as
  being packed, with an empty queue and nothing left to pull, until somebody writes
  the row again or the tab is reloaded, against the same sentence, which is about
  these very states. This is why no write of `sync` claims a row.

- `FindingRestore.cfg` (`RestoredWorkIsReported` of `Outbox`): an edit made before
  `restore` has read the store makes a queue of its own for the partition, and a
  partition with a queue is not reported (`outbox.ts:292`). If that queue has been
  settled, or its drain has failed, when the stored mutations are appended, nobody
  drains them until the next edit, reconnect or return to the app, against "reports
  which partitions have work waiting, so the caller can drain them on boot"
  (`outbox.ts:271`).
- `FindingTabs.cfg` (`TabsAreTold` of `Session`): the end of a session is an event of the
  window it happens in (`refresh.ts:76`). The other tab has lost its tokens, is given
  none by `freshToken` and stays on its page, its requests answered 401, until it is
  reloaded, against "tell the app to go back to the login page" (`refresh.ts:65`).
- `FindingRotation.cfg` (`RotationRefusesTheConsumed` of `Session`): whatever goes wrong in
  `RotateSession` is answered 401 (`auth.go:148`), so a store that fails for a moment
  logs the tab out with its row in place; the comment there says "Consumed by a
  concurrent rotation between peek and here".
- `FindingFollow.cfg` (`FollowsUntilTouched` of `MCRefresh`): a device that was behind opens
  the trip with the rows and without the ledger, adopts without asking, and sends its
  entries after another device has accepted a change. The row keeps the new values, the
  whole entry goes back to the old ones, and the row counts as edited by hand from then
  on (`refresh.ts:419`) though no hand, refusal or odd adoption was involved. Restating
  the entry whole, which is meant to prevent just this (`templates.ts:191`), is what
  does it.
- `FindingTwins.cfg` (`NoTwinsAtAll` of `MCRefresh`): one device, offline, accepts a removal
  and then the addition that takes it back; another has accepted a change of the same
  row later than the removal. The removal arrives older than the row and loses, the
  addition has an id of its own, because the wizard's row had a drawn one, and the
  position has two rows, against "re-running the refresh cannot double anything"
  (`dev-docs/adr/ADR-016_Group_Refresh_Ledger.md:85`).

Other sentences of the code's comments and docs that the code does not keep. Each is
a definition at the end of its module or beside the weaker property that does hold;
added to a configuration of that module, TLC prints the trace.

*Server.*

- `FeedbackNeverLost` (`SyncServer`): a yes always applies, and stamps its flag with
  its own, older clock (`merge.go:171`). Trace: a yes at clock 3, then a late
  yes at 1 lowers the flag's clock to 1, then a late no at 2 wins over the yes at 3,
  against "trip feedback must never be lost to a concurrent write" (`merge.go:135`).
- `RevertRestoresPair` (`SyncServer`): a dropped column whose value equals the
  winner's is not logged (`merge.go:204`). A later revert restores the state without
  the count it was written with, against "the coupled pair moves together or not at
  all" (`conflicts.go:260`).
- `PrunedIsGone` (`MasterDelete`): an edit with a clock ahead of the server's, pushed
  between a prune's read and its transaction, wins the merge; the item stays and the
  answer says it was pruned, against "Pruned is true when the item was deleted"
  (`master_prune_item.go:13`).
- Presence: `broadcastPresence` reads its subscribers before it counts its generation
  (`hub.go:344`), so a later generation can carry the older list of receivers and a
  subscriber in between is left out, where the comment (`hub.go:335-340`) speaks of
  the generation as taken when the read is triggered. `targetsFresh` is the proviso of
  `PresenceSettles`.
- Live location: `sendToOthers` asks the store for the receivers and queues
  afterwards; a position can be queued after the word that it is gone. And a connection
  that unsubscribes and comes back is told where people are, but of nobody who stopped
  in between (`livelocation.go:125`). `outdated` is the proviso of `LocationsSettle`;
  the next fix or stop repairs it. The shipped client never sends `unsubscribe`, and
  forgets the positions with its socket (`useSyncOrchestrator.ts:277`).

*Client.*

- `EvidenceKept` (`Outbox`): a device that goes between a refusal's answer and its
  storage write pushes the mutation again, is told "duplicate" (`pipeline.go:82`), and
  drops it unparked, against the comment at `outbox.ts:372`.
- A trip screen drains its partition on mount (`useTripScreen.ts:68`) while
  `App.vue:297` may still be waiting to connect, so that drain pulls before the
  earlier session's queue is restored, where `composables/backend/server.ts:184` says
  it is replayed "before the first pull". `Outbox` has the behaviour (`Drain` before
  `Restore`); `DiskMirrorsQueue` and `IsCourier` show that it loses nothing.
- `MasterGoesFirst` (`Backend`): a follow-up drain of the trip that was promised
  before the write (the trip was opened while an earlier drain ran) takes the new trip
  row along without waiting for the master write. The row is then refused, where
  `server.ts:110-116` says the master write goes first. `WhenSentIsSent` is what does
  hold.
- `BootPullCovers` (`Backend`): a commit between the boot's pull and the hub's
  registration of the socket is neither pulled nor told, where `server.ts:76` says the
  first open "is covered by the boot pull". The next notice, reconnect or resume
  brings it (`ResumeHeals`).
- `EndedForGood` (`Session`): an answer that arrives after the tab logged out stores
  its tokens (`refresh.ts:188`), against "end the session for good: drop the tokens"
  (`refresh.ts:65`).
- Two tabs that refresh one token at once, or an answer that is lost after the
  rotation, end in a logout although the provider rejected nothing, where
  `docs/authentication.md:186` says that only a rejection ends the session; so do 90
  days without a refresh, and a 4xx from whatever stands in front, which the same page
  concedes (line 199). `disturbed` is the proviso of `RefusedForCause` and lists them.

*Groups a trip follows.*

- `RefusedIsNeverAskedAgain` (`Refresh`): a device whose groups are older drops,
  without asking, the ledger entry that carries another device's refusal, and the
  question comes back, against `domain/refresh.ts:151`.
- Opening the trip on a device that is behind adopts a row under what its older groups
  say, so that the row counts as edited by hand and no longer follows;
  `groupRefresh.ts:60-63` has group changes reach a trip by being asked about. A roster
  change applies pending group changes unasked as well.
- "Manual edits on the trip always win" (`refresh.ts:15`) is kept by the device that
  answers, of what it shows (`ManualEditsWin`). An edit that device has not pulled yet
  is no edit to it: its answer carries the later clock and overwrites the field.
- `ManualEditsAlwaysWin` (`Refresh`, with one device, three edits, two hand acts and
  three answers): a refused removal leaves the
  row without an entry; when a hand moves it off its position, an accepted addition
  derives the id of that row and overwrites it.
- `AnswerSettles` without its second proviso fails after a long series of edits and
  hand acts: a refused removal leaves the row a device had derived without an entry, a hand
  moves the row, another position adopts it, it is deleted, and its first position is
  added again under the same id. Both positions then have an entry about that row, and
  one of them still has a question. The proof asked for this case; no run reaches it.
- "Every device computes the same one" (`groupRefresh.ts:44-49`) holds for devices with
  the same groups. A master commit is told to the actor's own devices only, so others
  may hold older ones for as long as they do not pull; `stale` and `OneEntryPerRow` are
  the provisos this costs.

## 5. Proofs

All theorems hold for every value of the constants that satisfies the named
assumptions, which TLC evaluates on the instances of section 3.

| Theorem | States | About |
|---|---|---|
| `HLCTypeOK`, `HLCStrictlyIncreasing` | `TypeOK`, `StrictlyIncreasing` | any set of generators, any counter width |
| `ServerTypeOK` | `TypeOK` | any rows, tables, cascades, trips, users, writes and clocks |
| `ServerRowClockBounds`, `ServerLastWriterWins` | the properties of these names | a row's clocks and columns |
| `ServerRecordDescribesState`, `ServerPackedOutranksClaim`, `ServerPairMovesTogether` | | the coupled columns |
| `ServerNoStaleResurrection`, `ServerReplayIsIdle` | | late and repeated mutations |
| `ServerRevertIsAtomic` | `RevertIsAtomic` | a conflict group is spent once and wholly |
| `ServerFeedTellsTruth`, `ServerFeedsStayApart` | | the change feeds against the tables |
| `SyncTypeOK`, `SyncFeedTellsTruth` | the store's and the devices' `TypeOK`; `FeedTellsTruth` | any number of devices, rows and faults, any page size |
| `SyncEditsWhatItSees` | `EditsWhatItSees` | a device's next stamp against what it shows |
| `SyncRootsConverge` | `Converged`, of the rows that hang under no other | if no write claims a row |
| `SyncConverged` | `Converged` | if, moreover, no row hangs under another |
| `DeleteNothingDangles`, `DeleteFeedTellsTruth` | `NothingDangles`, `FeedTellsTruth` | with deletes and prunes interleaved |
| `DeleteTakesOnlyTheOlder`, `DeletePrunesOnlyTheUnused` | `DeleteIsNewest`, `PruneTakesOnlyTheUnused` | an edit between the read and the transaction |
| `OutboxTypeOK`, `OutboxDiskMirrorsQueue`, `OutboxDrainAnswersItsCallers` | `TypeOK`, `DiskMirrorsQueue`, `DrainAnswersItsCallers` | any number of mutations, batch size and faults |
| `OutboxIsCourier` | `IsCourier`: the outbox refines `Courier` | |
| `BackendWhenSentIsSent`, `BackendQuietIsCurrent` | `WhenSentIsSent`, `QuietIsCurrent` | any number of writes, faults and jobs |
| `HubRosterSettles`, `HubPresenceSettles`, `HubLocationsSettle`, `HubNothingAfterRevocation` | the properties of these names | any number of connections and people, queues of any length, any interleaving of calls |
| `SessionTypeOK`, `SessionOneTokenPerChain`, `SessionRefusedForCause` | `TypeOK`, `OneTokenPerChain`, `RefusedForCause` | any set of tabs, any number of logins, expiries and faults |
| `RefreshNoTwins`, `RefreshManualEditsWin`, `RefreshAnswerSettles` | `NoTwins`, `ManualEditsWin`, `AnswerSettles` | any items, travelers, groups and devices, any number of edits and answers, any order of arrival |

**Assumptions.** Of `SyncServer`: rows are numbers up to some bound; clocks are
positive; the null value is no user, row or trip; a write has a known operation and
well-typed columns. A plain reference names a row that hangs off nothing (`Root`): in
the schema such references point at items and suitcases, which are nobody's child.
`HomeAssumption`: a cascade stays within a partition, and the writes of one id, or of a
parent and its child, name one trip; the write funnel mints a row's id together with
its trip, and a child is created in the trip of its parent. Of `MasterDelete`: an
item hangs off nothing, and a rule off items (`ItemAssumption`, from `schema.sql`).
Of `Sync`: the rows are of tables of a trip, a write that names a trip names the
devices' own, and none consists of columns only the server fills (`PartitionAssumption`;
a partition's queue holds the mutations of that trip's tables, and no mutation builder
sends those columns alone). Of `Hub`: connections and people are finitely many, and the goroutine of a push is
none of the connections. Of `Refresh`: a trip follows finitely many groups. The other
modules assume only that their bounds are natural
numbers, a batch not empty, and some tab open.

**HLC.** `StrictlyIncreasing` does not follow from types alone: the generator
remembers two numbers, not the stamps. The strengthening `SeenBelowLast` says that
every stamp it has produced or observed is at or below those two numbers; `Next`
leaves them strictly above, `Observe` at or above.

**SyncServer.** `TypeOK` is not inductive. A replay would decide a mutation a
second time if its memo could be missing, and a write would be compared with a
row's clock that nobody minted. The inductive invariant is `TypeOK /\ StampsKnown`:
row and column clocks are among the minted ones, every push has a memo, and a row
that is gone has no history. `RowStep` then reads off the actions what one step
can do to one row: nothing, remove it, merge into it a mutation with a fresh
stamp, or merge one that changes nothing. Each property of rows is proved from
these four cases and the lemmas about `Merge`, without looking at the actions
again. `NoStaleResurrection` uses that a row comes back only through a push the
tombstone check let pass; `ReplayIsIdle` that every push left a memo.
`RevertIsAtomic` needs `GroupsKnown`: a logged loss belongs to a minted mutation, two
losses with the same mutation, row and column are the same, and what a revert has read
is one group of one row.

**Sync.** The two hypotheses of `SyncConverged` are what the findings leave of
`Converged`. `NoClaims`, that no write claims a row, is needed for `FindingClaim.cfg`; that
no row hangs under another, for `finding_thread`. The instance of the run `sync`
satisfies both. `SyncRootsConverge` needs only the first and speaks of the rows under no
other in a trip that has any tree of them. `Converged` speaks of a device at rest and
says nothing on the way there. `SyncInv` adds to the store's invariants, of each device:
its page is a stretch of the feed without a gap from its cursor on, and a row it loaded
is the row as it is, unless an entry about it lies beyond the page (`PageInv`); what
its open request has had decided has a memo, and a row to be dropped is gone or spoken
of beyond (`PushInv`); its clock is past every row that neither its page nor the feed
beyond speaks of (`ClockInv`, from which `EditsWhatItSees` follows). No two mutations
share a stamp (`OneStamp`), so a memo belongs to one. `Settling` then says of a device
and a row: the device shows the truth, or an entry it has yet to read speaks of the row,
or a mutation of its own queue will leave one (`Lands`). The fact that closes the
argument is `Told`: the server changes no row, and turns down no mutation of which
`Lands` holds, without an entry past every cursor. A page that speaks of a row brings
it to the truth or leaves an entry beyond; `ApplyPage` is written as what the last entry
that bears on a row says, which is what applying the entries in order comes to, and the
last of a finite set exists by well-founded induction over a set (`GreatestOf`).

**Feeds.** `FeedTellsTruth` relates the newest entry of every row to the row. It is
inductive with `FeedInv`: each id has one home, and no entry of it is in another feed.
`LogStep` is what every transaction does to the log (nothing, or one block of entries
with fresh numbers that say what became of the rows it names); `EveryStepLogs` shows
it of each action, `LogStepKeeps` that it keeps the feeds true. A foreign row's entry
in a feed is then impossible, which is `FeedsStayApart`.

**MasterDelete.** `DeleteInv` carries the store's invariants over to the actions that
delete, and adds that a request in flight names an item. `RowWrites` is what a step
may do to the references between rows: write one that exists, or remove rows nothing
names but what goes with them. `DeleteIsNewest` speaks of writes of a plain column:
a claim that lost to packed leaves no clock on the row, so a delete may be older
than it, and nothing of it is lost.

**Outbox.** `DiskMirrorsQueue` speaks of a chain that has settled, so the invariant
(`Mirrors`) must say what the store *will* hold: pending, plus the appends, minus the
removals and parks still in the chain. It holds because a mutation's append precedes
every other write that names it (`AppendFirst`), and only answered mutations are
removed (`RemovalsDecided`, `RequestAnswered`). `Owes` is the drain's debt: while it
pushes, what it owes its callers is answered, in the open request, or in the part of
its array it has yet to reach; what the follow-up owes is answered or queued. The
lemmas before them say what `Ascending`, `Only`, `Without`, a slice and the parking
of a chunk return. `OutboxIsCourier` maps each step to a step of `Courier` or a stutter,
from the same invariant.

**Backend.** The jobs are a bag; the proofs use which jobs are in it, never how many.
`WordInv` says of each job: its plan is made of whole steps (`Linked`: `whenSent`,
its rest and the trip's drain come in this order and not apart), what it owes while it
waits for the rest of `whenSent` is in the batch of the running drain, and nothing of
it is queued when the trip's drain is next. `CurrentInv` says of each partition that a
commit was missed, is being told, was pulled, or is *due*: a drain that has not read
the feed yet runs or is promised, or some job has the partition among its steps
and does not await it already. The proof is that no step takes the last reason away.

**Session.** `ChainInv` adds to the types that a hash names one row and that a request
which has read a row has the login of whatever its token names now; the rotation
then replaces a chain's only row. `Undisturbed` is the strengthening of
`RefusedForCause`: while no verdict fell and nothing disturbed the chain, one tab at a
time refreshes, and every token a browser may still present is backed by a row whose
grant the provider honours.

**Hub.** A broadcast is numbered with its snapshot in one task and sent in a later
one, so broadcasts overtake each other and `RosterSettles` is far from inductive.
`RosterInv` says of a live client: unless a task that will take a snapshot is waiting,
the newest of the snapshots it is still due is the truth, and when it is due none, it
shows the truth already. `PresenceInv` says the same of presence, of the newest
generation, up to the head that is read at the send. A snapshot is due when its
generation is above the last one the client was sent; it is that comparison, and not
the order of the sends, that keeps the truth. `Did` describes every task in the same
terms: a goroutine has replaced the first of its tasks by some others, whatever the
rest of its list is. `Unmade`: a connection that has not been made has no task and
shows nothing. Positions carry no generation, so `LocInv` has no newest frame to speak
of. It says instead that what a subscriber shows of a person is where they are, or a
task that will read their position or bears their newest one is still to reach the
subscriber, or what it was sent last was outdated (`Positions`); and that a connection
which has not subscribed shows nobody and has no position on its way to it, or shows
what `outdated` names (`Strangers`). `LocTasks` is what each kind of task presupposes: one
that greets, a subscription; one that leaves, a position taken back; one that reaches
the others, that it passes over the person it speaks of. `NothingAfterRevocation` follows from what the gate lets into a task's
receivers: a person who is no member is in none that is formed after the revocation
(`TaskSilent`, `HandlerSilent`), and only receivers are sent anything.

**Refresh.** Two rows of one position would have to be the wizard's and the one a
device derives, or one of them is *marked*: a hand's, or a row whose removal lost.
`TwinInv` says why unmarked ones never meet: an unmarked row stands at the position its
id was made for (`Placed`), so a device that holds the wizard's row derives none; and of
a device that does not hold it, either the server has lost or marked it (`Gone`), or the
device's own queue has a drop of it (`CopyInv`). A queue adds a row only after such a
drop (`BatchInv`), a device's mutations arrive in their order, and a drop that arrives
takes the row or marks it (`TakeKeeps`); what other devices send in between can do
neither harm nor good. `MutationsAre` and `MutationsKeep` say what a batch is sent as,
`QueuedIs` and `PushedIs` what a queue is after a write and after an arrival.
`ApplyRow`, `ApplyLedger` and `PlanParts` say what a batch does to each row and entry on
the device and what a plan contains; the two action properties follow from them alone.
`QuestionLeaves` lists the steps that take a question away. `SettledBy` is the core of
`AnswerSettles`: once a plan's entries are written, nothing is left to ask, unless the
row of an entry the plan left alone has become free, which takes a second entry about
that row.

**Only model-checked.** Liveness (`EverythingSettles`, `EventuallyConverged`,
`ReadersAreTold`, `ExpiredIsRenewedOrDropped`, `DeactivationBites`, `ResumeHeals`) is
out of the proof system's reach. `RefusedIsNotAskedAgain` and `RowsFollowTheLedger` of
`Refresh` are safety and have no proof: they relate what several queues will come to
once merged, column by column, to the groups and to each other. `Converged` of a trip whose rows hang under others is
checked by no passing run and proved of the roots only: it is false (`finding_thread`).
The cardinality of a bag is a recursive sum, so `TypeOK` of `Backend`, which bounds it, is
model-checked only; the parts of it the proofs use are in `Shape` and `JobsOK`.

## 6. Correspondence

`PROJECT.json` maps every definition that models code to its file and lines. The
variables of `SyncServer` are the tables of `schema.sql` by their names, apart
from `pushed`, `used` and `merged`, which record what has happened. The variables
of `Outbox` are the fields of the `Outbox` class and the locals of `runDrain`,
apart from `captured`, `refused`, `dropped` and `owed`, which are history. In `Hub`
they are the fields of `Hub` and `conn`, what the store answers, and what each client
shows; `todo` is the goroutines' program counters, `targetsFresh` and `outdated` are
history. In `Backend`, `run`, `follow` and `queue` are the outbox's maps per
partition, `sock`, `wanted` and `everOpened` the socket's fields, `jobs` the promises
under way; `missed` is history. In `Session`, `rows` is the `sessions` table, `store`
the stored tokens; `disturbed` is history. In `Refresh`, `base` is the tables of one trip
on the server with their clocks, `tombs` the tombstones on its feed, `copy` a device's
rows of it, `out` and `groupOut` its outbox per partition; `hand`, `apart`, `refused`,
`stale`, `lost`, `ideal` and `crossed` are history.

## 7. Plan

Done: `HLC`, `Merge`, `SyncServer`, `MasterDelete`, `Outbox` with `Courier`, `Sync`,
`Backend`, `Hub`, `Session`, `Refresh`, and the theorems of section 5.

Next, in this order:

1. More of `SyncServer`: the guards on membership, trip administration and template
   includes, the hook that re-logs memberships, the master feed's visibility filter, a
   row whose parent is in another trip.
2. Notifications and due tasks; local persistence.
3. `Refresh` with conditions, companions and default assignees.

## 8. Not modelled

The repository has far more lines than this project speaks of. Most of them are Vue
views and components, texts in several languages, styles, and feature tables that
go through the modelled pipeline like every other; there is no state there that
the modelled parts do not hold, and what they do is layout.

- Parsing, formatting, envelope validation and size limits, apart from the width
  of a clock: their failures are the refusals that are modelled.
- The activity log: written with every change, read by no rule.
- Images, tracks, link previews, backups, exports: transfer of bytes. Their wait for
  the row to be sent is `whenSent`, which `Backend` has.
- The identity provider's protocol and cryptography, API tokens, single-user mode.
- Migrations: one-way scripts run once at start.
- Suggestions, dependencies, reviews, planner, meals and shopping: pure functions over
  rows for display, or plain columns under the modelled rules.
- Views, texts, themes, the command line and the wire type generator.
- Crashes of the server: SQLite's transactions make one invisible except as a
  request that failed, which is modelled, or sockets that close, which are too.
