-------------------------------- MODULE Sync --------------------------------
(***************************************************************************)
(* Devices and the server together, over one trip's partition: what a      *)
(* device paints before the server has answered (client/src/sync/          *)
(* writeFunnel.ts, cascade.ts, sinks.ts), the push and the paged pull of   *)
(* its drain (outbox.ts runDrain, internal/store/pull.go), and SyncServer  *)
(* deciding the mutations in between. The queue survives a reload, as      *)
(* Outbox shows; rows, cursor and clock do not.                            *)
(***************************************************************************)
EXTENDS SyncServer, Sequences, FiniteSets, FiniteSetsExt

CONSTANTS
    Device,
    UserOf,      \* UserOf[d]: who is signed in on d
    Author,      \* Author[e]: the device that mints e's id and may put it back
    Home,        \* the trip whose partition the devices sync
    PageSize,    \* PULL_PAGE_SIZE
    MaxFaults    \* lost replies and reloads in a behaviour

ASSUME SyncAssumption ==
    /\ UserOf \in [Device -> User]
    /\ Author \in [Entity -> Device]
    /\ Home \in Trip
    /\ PageSize \in Nat \ {0}
    /\ MaxFaults \in Nat

\* The rows are the trip's. A device names this trip where it names one, and
\* never sends only columns the server fills in itself.
ASSUME PartitionAssumption ==
    /\ \A e \in Entity : Table[e] \in TripTables
    /\ \A w \in Write :
         /\ "trip_id" \in DOMAIN w.fields => w.fields["trip_id"] = Home
         /\ w.op = "upsert" => DOMAIN w.fields \ ServerOwned # {}

VARIABLES
    local,     \* the device's stores: a row's columns, or Null
    queue,     \* its unsent mutations
    due,       \* how many of them the open request carries
    sent,      \* how many of those the server has decided
    repairs,   \* the rows its answers call out of scope
    phase,     \* where its drain stands: idle, push, pull, load or page
    cursor,    \* the last next_cursor a pull returned
    page,      \* the page on its way: [entries, rows, more]
    clock,     \* the device generator's last stamp
    faults

device == <<local, queue, due, sent, repairs, phase, cursor, page, clock, faults>>
syncVars == <<vars, device>>

NoPage == [entries |-> {}, rows |-> Null, more |-> FALSE]

SyncInit ==
    /\ Init
    /\ local = [d \in Device |-> [e \in Entity |-> Null]]
    /\ queue = [d \in Device |-> <<>>]
    /\ due = [d \in Device |-> 0]
    /\ sent = [d \in Device |-> 0]
    /\ repairs = [d \in Device |-> {}]
    /\ phase = [d \in Device |-> "idle"]
    /\ cursor = [d \in Device |-> 0]
    /\ page = [d \in Device |-> NoPage]
    /\ clock = [d \in Device |-> 0]
    /\ faults = 0

-----------------------------------------------------------------------------
(* The device's rows. *)

\* cascadeOf: what hangs off e on this device, as far as it reaches.
CascadeOf(held, e) ==
    {c \in Entity : /\ held[c] # Null
                    /\ \/ Parent[c] = e
                       \/ Parent[c] # NoParent /\ Parent[Parent[c]] = e}

RemoveCascading(held, gone) ==
    [e \in Entity |->
        IF e \in gone \/ \E g \in gone : e \in CascadeOf(held, g) THEN Null ELSE held[e]]

\* paintOf: an insert shows its columns, an upsert is laid over the row as the
\* store holds it now, a delete takes its children along.
Painted(held, m) ==
    IF m.op = "delete" THEN RemoveCascading(held, {m.ent})
    ELSE [held EXCEPT ![m.ent] =
            LET base == IF @ = Null THEN Default ELSE @
            IN  [f \in Field |-> IF f \in DOMAIN m.fields THEN m.fields[f] ELSE base[f]]]

\* The funnel drops a write to a row the device does not hold; an id is new, or
\* its author puts the row back after a delete.
Edit(d, w, h) ==
    LET m == [op |-> w.op, ent |-> w.ent, fields |-> w.fields, hlc |-> h]
    IN  /\ h \in Clock \ used /\ h > clock[d]
        /\ IF Creates(w) THEN d = Author[w.ent] /\ local[d][w.ent] = Null
           ELSE local[d][w.ent] # Null
        /\ local' = [local EXCEPT ![d] = Painted(@, m)]
        /\ queue' = [queue EXCEPT ![d] = Append(@, m)]
        /\ clock' = [clock EXCEPT ![d] = h]
        /\ used' = used \cup {h}
        /\ UNCHANGED <<rows, changeLog, head, memo, pushed, conflictLog, lockEvents,
                       reverting, srvHLC, merged, due, sent, repairs, phase, cursor, page, faults>>

-----------------------------------------------------------------------------
(* The drain: push, then pull to the feed's end. *)

StartDrain(d) ==
    /\ phase[d] = "idle"
    /\ phase' = [phase EXCEPT ![d] = IF queue[d] # <<>> THEN "push" ELSE "pull"]
    /\ due' = [due EXCEPT ![d] = Len(queue[d])]
    /\ UNCHANGED <<vars, local, queue, sent, repairs, cursor, page, clock, faults>>

\* The server decides the request's next mutation, in a transaction of its own.
\* A replay is answered as a duplicate, without the reason it was refused for.
ServerTakes(d) ==
    /\ phase[d] = "push" /\ sent[d] < due[d]
    /\ LET m == queue[d][sent[d] + 1]
           s == StampServerOwned(m, rows[m.ent], UserOf[d])
       IN  /\ ApplyMutation(UserOf[d], Home, m)
           /\ repairs' = IF /\ memo[m.hlc] = "none"
                            /\ Reason(UserOf[d], Home, s, rows[m.ent]) = "out_of_scope"
                         THEN [repairs EXCEPT ![d] = @ \cup {m.ent}]
                         ELSE repairs
    /\ sent' = [sent EXCEPT ![d] = @ + 1]
    /\ UNCHANGED <<used, pushed, local, queue, due, phase, cursor, page, clock, faults>>

\* Mutant: the cursor follows the position the push reports.
PushAnsweredFromHint(d) ==
    /\ phase[d] = "push" /\ sent[d] = due[d]
    /\ local' = [local EXCEPT ![d] = RemoveCascading(@, repairs[d])]
    /\ queue' = [queue EXCEPT ![d] = SubSeq(@, due[d] + 1, Len(@))]
    /\ due' = [due EXCEPT ![d] = 0]
    /\ sent' = [sent EXCEPT ![d] = 0]
    /\ repairs' = [repairs EXCEPT ![d] = {}]
    /\ phase' = [phase EXCEPT ![d] = "pull"]
    /\ cursor' = [cursor EXCEPT ![d] = head]
    /\ UNCHANGED <<vars, page, clock, faults>>

\* The answer: rows out of scope are dropped here, what was answered leaves the
\* queue, and what was queued meanwhile waits for the next drain.
PushAnswered(d) ==
    /\ phase[d] = "push" /\ sent[d] = due[d]
    /\ local' = [local EXCEPT ![d] = RemoveCascading(@, repairs[d])]
    /\ queue' = [queue EXCEPT ![d] = SubSeq(@, due[d] + 1, Len(@))]
    /\ due' = [due EXCEPT ![d] = 0]
    /\ sent' = [sent EXCEPT ![d] = 0]
    /\ repairs' = [repairs EXCEPT ![d] = {}]
    /\ phase' = [phase EXCEPT ![d] = "pull"]
    /\ UNCHANGED <<vars, cursor, page, clock, faults>>

Behind(d) == {x \in changeLog : x.feed = Home /\ x.seq > cursor[d]}

\* pullPage: the first PageSize entries past the cursor, in seq order.
FirstOf(es) == {x \in es : Cardinality({y \in es : y.seq < x.seq}) < PageSize}

PullRead(d) ==
    /\ phase[d] = "pull"
    /\ page' = [page EXCEPT ![d] =
                  [entries |-> FirstOf(Behind(d)), rows |-> Null,
                   more |-> Cardinality(Behind(d)) > PageSize]]
    /\ phase' = [phase EXCEPT ![d] = "load"]
    /\ UNCHANGED <<vars, local, queue, due, sent, repairs, cursor, clock, faults>>

\* compact: the page's last entry about each row.
Compacted(es) == {x \in es : \A y \in es : y.ent = x.ent => y.seq <= x.seq}
Alive(es) == {x \in Compacted(es) : ~x.deleted}

\* loadSnapshot: the page's rows as they are by now, which may be after it.
PullLoad(d) ==
    /\ phase[d] = "load"
    /\ page' = [page EXCEPT ![d] =
                  [@ EXCEPT !.rows =
                     [e \in {x.ent : x \in Alive(page[d].entries)} |-> rows[e]]]]
    /\ phase' = [phase EXCEPT ![d] = "page"]
    /\ UNCHANGED <<vars, local, queue, due, sent, repairs, cursor, clock, faults>>

\* What of a page bears on row e: its own row, unless that is gone by now, and
\* every tombstone that takes e along.
Bearing(es, snap, e) ==
    {x \in Compacted(es) : IF x.deleted THEN e = x.ent \/ e \in FkCascade(x.ent)
                           ELSE e = x.ent /\ snap[e].exists}

\* applyChangesToSinks over the page, in seq order: the last entry that bears on
\* a row says what becomes of it.
ApplyPage(held, es, snap) ==
    [e \in Entity |->
        LET last == CHOOSE x \in Bearing(es, snap, e) :
                      \A y \in Bearing(es, snap, e) : y.seq <= x.seq
        IN  IF Bearing(es, snap, e) = {} THEN held[e]
            ELSE IF last.deleted THEN Null
            ELSE snap[e].fields]

\* Mutant: a pulled row's clock is not looked at.
ObservedNothing(c, es, snap) == c

\* observePulledClocks: every live row's clock is folded into the generator.
Observed(c, es, snap) ==
    Max({c} \cup {snap[x.ent].hlc : x \in Alive(es)})

PullApply(d) ==
    LET es == page[d].entries IN
    /\ phase[d] = "page"
    /\ local' = [local EXCEPT ![d] = ApplyPage(@, es, page[d].rows)]
    /\ clock' = [clock EXCEPT ![d] = Observed(@, es, page[d].rows)]
    /\ cursor' = [cursor EXCEPT ![d] = Max({@} \cup {x.seq : x \in es})]
    /\ phase' = [phase EXCEPT ![d] = IF page[d].more THEN "pull" ELSE "idle"]
    /\ page' = [page EXCEPT ![d] = NoPage]
    /\ UNCHANGED <<vars, queue, due, sent, repairs, faults>>

\* A request fails anywhere on its way: the drain ends, the queue stays.
RequestLost(d) ==
    /\ phase[d] # "idle" /\ faults < MaxFaults
    /\ faults' = faults + 1
    /\ phase' = [phase EXCEPT ![d] = "idle"]
    /\ due' = [due EXCEPT ![d] = 0]
    /\ sent' = [sent EXCEPT ![d] = 0]
    /\ repairs' = [repairs EXCEPT ![d] = {}]
    /\ page' = [page EXCEPT ![d] = NoPage]
    /\ UNCHANGED <<vars, local, queue, cursor, clock>>

\* The tab goes, with everything but the durable queue.
Reload(d) ==
    /\ faults < MaxFaults
    /\ faults' = faults + 1
    /\ local' = [local EXCEPT ![d] = [e \in Entity |-> Null]]
    /\ cursor' = [cursor EXCEPT ![d] = 0]
    /\ clock' = [clock EXCEPT ![d] = 0]
    /\ phase' = [phase EXCEPT ![d] = "idle"]
    /\ due' = [due EXCEPT ![d] = 0]
    /\ sent' = [sent EXCEPT ![d] = 0]
    /\ repairs' = [repairs EXCEPT ![d] = {}]
    /\ page' = [page EXCEPT ![d] = NoPage]
    /\ UNCHANGED <<vars, queue>>

DrainStep(d) ==
    \/ StartDrain(d) \/ ServerTakes(d) \/ PushAnswered(d)
    \/ PullRead(d) \/ PullLoad(d) \/ PullApply(d)

SyncNext ==
    \E d \in Device :
        \/ \E w \in Write, h \in Clock : Edit(d, w, h)
        \/ DrainStep(d)
        \/ RequestLost(d)
        \/ Reload(d)

\* A drain that began goes on, and the change notice, an edit or the reconnect
\* starts another.
SyncFairness == \A d \in Device : WF_syncVars(DrainStep(d))

SyncSpec == SyncInit /\ [][SyncNext]_syncVars
FairSyncSpec == SyncSpec /\ SyncFairness

-----------------------------------------------------------------------------
\* Type correctness of the devices.
DeviceTypeOK ==
    /\ \A d \in Device, e \in Entity : local[d][e] # Null => DOMAIN local[d][e] = Field
    /\ \A d \in Device : sent[d] \in 0 .. due[d] /\ due[d] \in 0 .. Len(queue[d])
    /\ phase \in [Device -> {"idle", "push", "pull", "load", "page"}]
    /\ cursor \in [Device -> 0 .. head]
    /\ clock \in [Device -> Clock \cup {0}]
    /\ faults \in 0 .. MaxFaults

\* What a device shows of one row is what the server holds of it.
Agrees(d, e) ==
    local[d][e] = IF rows[e].exists /\ HomeOf(rows[e], e) = Home THEN rows[e].fields ELSE Null

UpToDate(d) == phase[d] = "idle" /\ queue[d] = <<>> /\ Behind(d) = {}

\* A device with nothing left to send and nothing left to read shows exactly
\* the server's rows, whatever it painted, lost, had refused or merged away,
\* and whoever else wrote meanwhile ("clients converge via pull",
\* internal/api/server.go:506).
Converged == \A d \in Device : UpToDate(d) => \A e \in Entity : Agrees(d, e)

\* A device that is up to date mints its next stamp above every row it shows,
\* so its edit is not lost to one it was looking at (pullProtocol.ts:36-45).
EditsWhatItSees ==
    \A d \in Device, e \in Entity :
        UpToDate(d) /\ local[d][e] # Null => clock[d] >= rows[e].hlc

\* Once the edits stop, every device comes to show the server's rows for good.
EventuallyConverged == <>[](\A d \in Device : queue[d] = <<>> /\ \A e \in Entity : Agrees(d, e))

=============================================================================
