----------------------------- MODULE SyncServer -----------------------------
(***************************************************************************)
(* The server's write pipeline: internal/store/partition.go applyMutation  *)
(* with pipeline.go, stamp.go and guard.go, the claim takeover of locks.go *)
(* and the conflict revert of conflicts.go.                                *)
(*                                                                         *)
(* One transaction is one action: SQLite is opened with a single           *)
(* connection, so transactions are serial; a revert's read of its conflict *)
(* group happens before its transaction and is an action of its own.       *)
(*                                                                         *)
(* A table is modelled by its rules (columns, cascades, references,        *)
(* retirable, guard), and its rows share one set of columns. A mutation's  *)
(* id is its clock: both are minted once per mutation.                     *)
(***************************************************************************)
EXTENDS Merge

CONSTANTS
    Entity,   \* row ids, positive numbers: a cascade logs them in this order
    Table,    \* Table[e]: the table the id belongs to
    Parent,   \* Parent[e]: the row e hangs off (ON DELETE CASCADE), or 0
    Trip,     \* the trip feeds
    Master,   \* the instance-wide feed
    User,
    Null,
    Clock,    \* the stamps devices and server may mint: positive numbers
    Write,    \* what the devices write: [op, ent, fields]
    MaxEntity \* the largest id

ServerOwned == {"packing_now_by", "packed_by_user_id", "owner_id"}

\* "ref" stands for the columns declared REFERENCES without ON DELETE
\* (container_id, source_item_id ...), which name rows that hang off no other;
\* "name" for any plain column.
Field == {"state", "packed_count", "quantity", "packing_now_by", "packed_by_user_id",
          "flag_unused", "ref", "name", "trip_id", "owner_id", "retired_at"}

TripTables == {"trip_items", "comments", "note_acks", "containers"}
MasterTables == {"items", "item_tags", "item_dependencies", "trip_series"}
LifecycleTables == {"items"}
OwnedTables == {"trip_series"}

ItemState == {"open", "packing_now", "packed"}
NoParent == 0
Root == {e \in Entity : Parent[e] = NoParent}
Feed == Trip \cup {Master}

\* What SQLite fills in for a column the insert does not name.
Default ==
    [f \in Field |->
        CASE f = "state" -> "open"
          [] f = "quantity" -> 1
          [] f \in {"packed_count", "flag_unused"} -> 0
          [] OTHER -> Null]

NoRow == [exists |-> FALSE, fields |-> Default, hlc |-> 0, clocks |-> [f \in {} |-> 0]]

ASSUME EntityAssumption ==
    /\ MaxEntity \in Nat
    /\ Entity \subseteq 1 .. MaxEntity
    /\ Table \in [Entity -> TripTables \cup MasterTables]
    /\ Parent \in [Entity -> Entity \cup {NoParent}]
    /\ \A e \in Entity : Parent[e] # e
ASSUME ClockAssumption == Clock \subseteq Nat \ {0}
ASSUME NullAssumption ==
    /\ Null \notin User \cup Entity \cup Trip
    /\ Master \notin Trip

ValueOK(f, v) ==
    CASE f = "state" -> v \in ItemState
      [] f \in {"packed_count", "quantity"} -> v \in Nat
      [] f = "ref" -> v \in Root \cup {Null}
      [] f = "trip_id" -> v \in Trip \cup {Null}
      [] OTHER -> TRUE

FieldsOK(g) ==
    /\ g = [f \in DOMAIN g |-> g[f]]
    /\ DOMAIN g \subseteq Field
    /\ \A f \in DOMAIN g : ValueOK(f, g[f])

ASSUME WriteAssumption ==
    \A w \in Write :
        /\ w.op \in {"upsert", "delete"}
        /\ w.ent \in Entity
        /\ FieldsOK(w.fields)
        /\ w.op = "delete" => DOMAIN w.fields = {}

VARIABLES
    rows,         \* the tables, by id
    changeLog,    \* change_log: a set of [seq, feed, ent, deleted, hlc]
    head,         \* the sequence's high-water mark
    memo,         \* mutations: the recorded outcome of each mutation id
    pushed,       \* every push a device has made: what it may send again
    conflictLog,  \* conflict_log: [mut, feed, ent, field, losing, reverted]
    lockEvents,   \* lock_events: [ent, from, to]
    reverting,    \* reverting[u]: the group u's revert has read, not yet claimed
    srvHLC,       \* the server generator's last stamp
    used,         \* the stamps minted so far
    merged        \* history: the mutations merged into each row since it exists

vars == <<rows, changeLog, head, memo, pushed, conflictLog, lockEvents, reverting,
          srvHLC, used, merged>>

Init ==
    /\ rows = [e \in Entity |-> NoRow]
    /\ changeLog = {}
    /\ head = 0
    /\ memo = [c \in Clock |-> "none"]
    /\ pushed = {}
    /\ conflictLog = {}
    /\ lockEvents = {}
    /\ reverting = [u \in User |-> {}]
    /\ srvHLC = 0
    /\ used = {}
    /\ merged = [e \in Entity |-> {}]

-----------------------------------------------------------------------------
(* The steps of applyMutation. *)

\* Invariant 3 of the code base: server-owned columns are stripped and written
\* back from the actor. The claim and packing records follow the state the same
\* mutation carries; a mutation without one carries neither.
StampServerOwned(m, row, u) ==
    LET creates == ~row.exists /\ m.op # "delete" /\ Table[m.ent] \in OwnedTables
        stated  == "state" \in DOMAIN m.fields
        cols    == (DOMAIN m.fields \ ServerOwned)
                     \cup (IF stated THEN StateRecord ELSE {})
                     \cup (IF creates THEN {"owner_id"} ELSE {})
    IN  [m EXCEPT !.fields =
            [f \in cols |->
                CASE f = "owner_id" -> u
                  [] f = "packing_now_by" -> IF m.fields["state"] = "packing_now" THEN u ELSE Null
                  [] f = "packed_by_user_id" -> IF m.fields["state"] = "packed" THEN u ELSE Null
                  [] OTHER -> m.fields[f]]]

\* Mutant: only the row that exists is asked which trip it is in.
BelongsToTripRowOnly(t, m, row) == row.exists => row.fields["trip_id"] = t

BelongsToTrip(t, m, row) ==
    /\ row.exists => row.fields["trip_id"] = t
    /\ "trip_id" \in DOMAIN m.fields => m.fields["trip_id"] = t
    /\ ~row.exists /\ m.op # "delete" => "trip_id" \in DOMAIN m.fields

\* The partition's scope rule and then the table's guard (seriesOwner).
ScopeRefusal(u, t, m, row) ==
    IF t # Master /\ ~BelongsToTrip(t, m, row) THEN "out_of_scope"
    ELSE IF Table[m.ent] \in OwnedTables /\ row.exists /\ row.fields["owner_id"] # u
         THEN "not_authorized"
         ELSE "none"

\* Mutant: the oldest tombstone is compared, not the newest.
TombstoneBeatsOldest(t, m, row) ==
    LET tombs == {x \in changeLog : x.feed = t /\ x.ent = m.ent /\ x.deleted}
    IN  m.op # "delete" /\ ~row.exists /\ tombs # {} /\ \A x \in tombs : m.hlc <= x.hlc

\* A write that finds no row, no newer than a delete this feed recorded for it.
TombstoneBeats(t, m, row) ==
    /\ m.op # "delete" /\ ~row.exists
    /\ \E x \in changeLog : /\ x.feed = t /\ x.ent = m.ent /\ x.deleted
                            /\ m.hlc <= x.hlc

\* The feed a live row's entries belong to.
HomeOf(row, e) == IF Table[e] \in MasterTables THEN Master ELSE row.fields["trip_id"]

\* Mutant: the references of another feed's rows are not looked up.
StillReferencedSameFeed(m, row) ==
    /\ Deleted(row, m) /\ row.exists
    /\ \E r \in Entity \ {m.ent} : /\ rows[r].exists /\ rows[r].fields["ref"] = m.ent
                                   /\ HomeOf(rows[r], r) = HomeOf(row, m.ent)

\* A row elsewhere still points at the one to be deleted.
StillReferenced(m, row) ==
    /\ Deleted(row, m) /\ row.exists
    /\ \E r \in Entity \ {m.ent} : rows[r].exists /\ rows[r].fields["ref"] = m.ent

RetireInstead(m) ==
    [op |-> "upsert", ent |-> m.ent, hlc |-> m.hlc, fields |-> [f \in {"retired_at"} |-> m.hlc]]

Retires(m, row) == StillReferenced(m, row) /\ Table[m.ent] \in LifecycleTables

\* Mutant: a table reached in two hops is missing from the cascade list.
CascadesOneHop(e) == {c \in Entity : rows[c].exists /\ Parent[c] = e}

\* The cascade list of the row's table: every table its delete reaches.
Cascades(e) ==
    {c \in Entity : /\ rows[c].exists
                    /\ \/ Parent[c] = e
                       \/ Parent[c] # NoParent /\ Parent[Parent[c]] = e}

\* What ON DELETE CASCADE removes: the rows under the row and under those
\* (comments and note_acks, schema.sql:423, 547).
FkCascade(e) ==
    {c \in Entity : Parent[c] = e \/ (Parent[c] # NoParent /\ Parent[Parent[c]] = e)}

\* The schema cascades within a partition. A client mints a row's id with the
\* row, so an id has one trip, and gives a child the trip of its parent.
ASSUME HomeAssumption ==
    /\ \A e \in Entity : \A c \in FkCascade(e) :
         Table[c] \in MasterTables <=> Table[e] \in MasterTables
    /\ \A v, w \in Write :
         /\ w.ent \in {v.ent} \cup FkCascade(v.ent)
         /\ "trip_id" \in DOMAIN v.fields \cap DOMAIN w.fields
         => w.fields["trip_id"] = v.fields["trip_id"]

\* The schema's constraints on the row a write would leave: packed_count within
\* quantity (schema.sql:359-361), and its foreign keys (schema.sql:349-353).
Violates(e, fields) ==
    \/ fields["packed_count"] > fields["quantity"]
    \/ Parent[e] # NoParent /\ ~rows[Parent[e]].exists
    \/ fields["ref"] # Null /\ ~rows[fields["ref"]].exists

\* Whether persist writes anything, and the row it leaves. An insert stamps
\* every column, the defaulted ones too.
Changes(m, row) ==
    IF m.op = "delete" THEN Deleted(row, m) /\ row.exists
    ELSE ~row.exists \/ Applied(row, m) # {}

\* Mutant: the row's own clock follows the latest arrival.
PersistedLatestArrival(m, row) ==
    [exists |-> TRUE, fields |-> MergedFields(row, m), hlc |-> m.hlc,
     clocks |-> IF row.exists THEN MergedClocks(row, m) ELSE [f \in Field |-> m.hlc]]

Persisted(m, row) ==
    [exists |-> TRUE, fields |-> MergedFields(row, m),
     hlc |-> MaxHLC(row.hlc, m.hlc),
     clocks |-> IF row.exists THEN MergedClocks(row, m) ELSE [f \in Field |-> m.hlc]]

\* The reason the mutation is refused, in the pipeline's order, or "none".
Reason(u, t, m, row) ==
    IF ScopeRefusal(u, t, m, row) # "none" THEN ScopeRefusal(u, t, m, row)
    ELSE IF TombstoneBeats(t, m, row) THEN "row_deleted"
    ELSE IF StillReferenced(m, row) /\ ~Retires(m, row) THEN "still_referenced"
    ELSE IF /\ ~Retires(m, row) /\ m.op # "delete" /\ Changes(m, row)
            /\ Violates(m.ent, MergedFields(row, m))
         THEN "constraint_violated"
         ELSE "none"

-----------------------------------------------------------------------------
(* change_log. All feeds share one sequence, so a feed's numbers have gaps; *)
(* one transaction takes the numbers head+1 .. head+1+MaxEntity, its own    *)
(* row first, then the cascaded ones.                                       *)

Entry(t, e, i, del, h) == [seq |-> head + 1 + i, feed |-> t, ent |-> e, deleted |-> del, hlc |-> h]

LogChildren(t, m, del) == {Entry(t, c, c, del, m.hlc) : c \in Cascades(m.ent)}

\* Mutant: the refused insert is re-delivered alive.
RelogRefusedAlive(t, m, row) ==
    {Entry(t, m.ent, 0, FALSE, IF row.exists THEN row.hlc ELSE m.hlc)}

\* What a refusal re-delivers: the row it did not change, or a tombstone where
\* there is none, and the children a refused delete would have taken.
RelogRefused(t, m, row) ==
    {Entry(t, m.ent, 0, ~row.exists, IF row.exists THEN row.hlc ELSE m.hlc)}
      \cup (IF m.op = "delete" /\ row.exists THEN LogChildren(t, m, FALSE) ELSE {})

\* A scope refusal is re-delivered on the master partition alone.
Relogs(t, why) == t = Master \/ why \notin {"out_of_scope", "not_authorized"}

\* What an accepted write logs: itself, its cascade's tombstones, and after a
\* retirement the children the pusher already took off its screen.
LogAccepted(t, m, row, retired) ==
    IF ~Changes(m, row) THEN {}
    ELSE {Entry(t, m.ent, 0, Deleted(row, m), m.hlc)}
           \cup (IF Deleted(row, m) THEN LogChildren(t, m, TRUE) ELSE {})
           \cup (IF retired THEN LogChildren(t, m, FALSE) ELSE {})

AppendChangeLog(entries) ==
    /\ changeLog' = changeLog \cup entries
    /\ head' = IF entries = {} THEN head ELSE head + 1 + MaxEntity

-----------------------------------------------------------------------------
(* The push endpoint, one mutation at a time. *)

Reject(t, m, row, why) ==
    /\ AppendChangeLog(IF Relogs(t, why) THEN RelogRefused(t, m, row) ELSE {})
    /\ memo' = [memo EXCEPT ![m.hlc] = "rejected"]
    /\ UNCHANGED <<rows, conflictLog, merged>>

Accept(t, m, row, retired) ==
    /\ rows' = [e \in Entity |->
                  IF Deleted(row, m) /\ row.exists /\ (e = m.ent \/ e \in FkCascade(m.ent))
                  THEN NoRow
                  ELSE IF e = m.ent /\ m.op # "delete" /\ Changes(m, row)
                  THEN Persisted(m, row)
                  ELSE rows[e]]
    /\ AppendChangeLog(LogAccepted(t, m, row, retired))
    /\ conflictLog' = conflictLog \cup
         {[mut |-> m.hlc, feed |-> t, ent |-> m.ent, field |-> f,
           losing |-> m.fields[f], reverted |-> FALSE] : f \in Conflicts(row, m)}
    /\ memo' = [memo EXCEPT ![m.hlc] = Outcome(row, m)]
    /\ merged' = [e \in Entity |->
                    IF ~rows'[e].exists THEN {}
                    ELSE IF e = m.ent THEN merged[e] \cup {m}
                    ELSE merged[e]]

Decide(u, t, m) ==
    LET row == rows[m.ent]
        s   == StampServerOwned(m, row, u)
        why == Reason(u, t, s, row)
    IN  IF why # "none" THEN Reject(t, s, row, why)
        ELSE IF Retires(s, row) THEN Accept(t, RetireInstead(s), row, TRUE)
        ELSE Accept(t, s, row, FALSE)

\* Mutant: the memo is consulted by a different key, so never found.
ApplyMutationUnmemoized(u, t, m) ==
    /\ Decide(u, t, m)
    /\ UNCHANGED <<lockEvents, reverting, srvHLC>>

\* The memo answers a replay without touching anything.
ApplyMutation(u, t, m) ==
    /\ IF memo[m.hlc] # "none"
       THEN UNCHANGED <<rows, changeLog, head, memo, conflictLog, merged>>
       ELSE Decide(u, t, m)
    /\ UNCHANGED <<lockEvents, reverting, srvHLC>>

\* A device's endpoint is one its table is served on; nothing else validates.
Endpoint(e) == IF Table[e] \in MasterTables THEN {Master} ELSE Trip

\* A device writes a row it creates or one a feed has named to it: the client's
\* write funnel drops an edit or a delete of a row the device does not hold.
Creates(w) == w.op # "delete" /\ ("trip_id" \in DOMAIN w.fields \/ Table[w.ent] \in MasterTables)
Holdable(w) == Creates(w) \/ \E x \in changeLog : x.ent = w.ent

\* A mutation reaches the server for the first time. Clocks arrive in any
\* order: a device may have been offline since it minted its own.
Push(u, t, w, h) ==
    LET m == [op |-> w.op, ent |-> w.ent, fields |-> w.fields, hlc |-> h]
    IN  /\ h \notin used
        /\ Holdable(w)
        /\ used' = used \cup {h}
        /\ pushed' = pushed \cup {[user |-> u, feed |-> t, m |-> m]}
        /\ ApplyMutation(u, t, m)

\* A device whose reply was lost sends the same mutation again.
Replay(p) ==
    /\ ApplyMutation(p.user, p.feed, p.m)
    /\ UNCHANGED <<used, pushed>>

-----------------------------------------------------------------------------
(* Writes the server mints itself. *)

\* Observe(row.HLC), then Next: newer than the row and than its own last one.
Mints(h, row) == h \in Clock \ used /\ h > srvHLC /\ h > row.hlc

ServerWrite(t, m, row) ==
    /\ rows' = [rows EXCEPT ![m.ent] = Persisted(m, row)]
    /\ AppendChangeLog({Entry(t, m.ent, 0, FALSE, m.hlc)})
    /\ merged' = [merged EXCEPT ![m.ent] = @ \cup {m}]
    /\ used' = used \cup {m.hlc}
    /\ srvHLC' = m.hlc

TakeOverClaim(u, e) ==
    LET row == rows[e] IN
    /\ row.exists /\ Table[e] = "trip_items"
    /\ row.fields["state"] = "packing_now"
    /\ row.fields["packing_now_by"] \notin {Null, u}
    /\ \E h \in Clock :
         LET m == [op |-> "upsert", ent |-> e, hlc |-> h,
                   fields |-> [f \in {"state", "packing_now_by"} |->
                                 IF f = "state" THEN "packing_now" ELSE u]]
         IN  Mints(h, row) /\ ServerWrite(row.fields["trip_id"], m, row)
    /\ lockEvents' = lockEvents \cup
         {[ent |-> e, from |-> row.fields["packing_now_by"], to |-> u]}
    /\ UNCHANGED <<memo, pushed, conflictLog, reverting>>

\* revertGroup: the tapped entry and what the same push lost with it. An empty
\* group is answered with an error and starts nothing.
RevertGroup(c) ==
    {x \in conflictLog : /\ x.mut = c.mut /\ x.ent = c.ent
                         /\ x.field \in GroupedWith(c.field) /\ ~x.reverted}

RevertRead(u, c) ==
    /\ reverting[u] = {}
    /\ RevertGroup(c) # {}
    /\ reverting' = [reverting EXCEPT ![u] = RevertGroup(c)]
    /\ UNCHANGED <<rows, changeLog, head, memo, pushed, conflictLog, lockEvents,
                   srvHLC, used, merged>>

\* The restore a group asks for, stamped for the user who tapped it.
RevertMutation(u, g, h) ==
    LET c == CHOOSE x \in g : TRUE
        m == [op |-> "upsert", ent |-> c.ent, hlc |-> h,
              fields |-> [f \in {x.field : x \in g} |-> (CHOOSE x \in g : x.field = f).losing]]
    IN  StampServerOwned(m, rows[c.ent], u)

RevertGoesThrough(u, t, m, row) ==
    /\ row.exists
    /\ ScopeRefusal(u, t, m, row) = "none"
    /\ Applied(row, m) # {}
    /\ ~Violates(m.ent, MergedFields(row, m))

\* Mutant: the claim does not ask whether the entries are still unclaimed.
StillClaimableAlways(g) == TRUE

\* The claim must hit every entry of the group read before the transaction.
StillClaimable(g) == g \subseteq conflictLog

\* The transaction of applyRevert: claim the group, write, log, commit.
RevertCommit(u) ==
    LET g == reverting[u] IN
    /\ g # {}
    /\ StillClaimable(g)
    /\ \E h \in Clock :
         LET c   == CHOOSE x \in g : TRUE
             row == rows[c.ent]
             m   == RevertMutation(u, g, h)
         IN  /\ Mints(h, row)
             /\ RevertGoesThrough(u, c.feed, m, row)
             /\ ServerWrite(c.feed, m, row)
    /\ conflictLog' = {IF x \in g THEN [x EXCEPT !.reverted = TRUE] ELSE x : x \in conflictLog}
    /\ reverting' = [reverting EXCEPT ![u] = {}]
    /\ UNCHANGED <<memo, pushed, lockEvents>>

\* Any refusal rolls the claim back with it: the claim itself, a row that is
\* gone, the scope, the merge or a constraint. The stamp it minted is never seen
\* again, so leaving srvHLC where it was only allows more.
RevertAbort(u) ==
    LET g   == reverting[u]
        c   == CHOOSE x \in g : TRUE
        row == rows[c.ent]
    IN  /\ g # {}
        /\ \/ ~StillClaimable(g)
           \/ ~row.exists
           \/ \E h \in Clock :
                /\ Mints(h, row)
                /\ ~RevertGoesThrough(u, c.feed, RevertMutation(u, g, h), row)
        /\ reverting' = [reverting EXCEPT ![u] = {}]
        /\ UNCHANGED <<rows, changeLog, head, memo, pushed, conflictLog, lockEvents,
                       srvHLC, used, merged>>

Next ==
    \/ \E u \in User, w \in Write, h \in Clock : \E t \in Endpoint(w.ent) : Push(u, t, w, h)
    \/ \E p \in pushed : Replay(p)
    \/ \E u \in User, e \in Entity : TakeOverClaim(u, e)
    \/ \E u \in User, c \in conflictLog : RevertRead(u, c)
    \/ \E u \in User : RevertCommit(u) \/ RevertAbort(u)

Spec == Init /\ [][Next]_vars

-----------------------------------------------------------------------------
RowOK(r) ==
    /\ r = [exists |-> r.exists, fields |-> r.fields, hlc |-> r.hlc, clocks |-> r.clocks]
    /\ r.exists \in BOOLEAN
    /\ FieldsOK(r.fields) /\ DOMAIN r.fields = Field
    /\ IF r.exists THEN r.hlc \in Clock /\ r.clocks \in [Field -> Clock] ELSE r = NoRow

MutationOK(m) ==
    /\ m = [op |-> m.op, ent |-> m.ent, fields |-> m.fields, hlc |-> m.hlc]
    /\ m.op \in {"upsert", "delete"}
    /\ m.ent \in Entity
    /\ m.hlc \in Clock
    /\ FieldsOK(m.fields)
    /\ m.op = "delete" => DOMAIN m.fields = {}

ConflictOK(x) ==
    /\ DOMAIN x = {"mut", "feed", "ent", "field", "losing", "reverted"}
    /\ x.ent \in Entity
    /\ x.feed \in Endpoint(x.ent)
    /\ x.field \in Field
    /\ ValueOK(x.field, x.losing)

\* Type correctness of the store.
TypeOK ==
    /\ rows = [e \in Entity |-> rows[e]] /\ \A e \in Entity : RowOK(rows[e])
    /\ \A e \in Entity : rows[e].exists /\ Table[e] \in TripTables
                           => rows[e].fields["trip_id"] \in Trip
    /\ head \in Nat
    /\ changeLog \subseteq
         [seq : 1 .. head, feed : Feed, ent : Entity, deleted : BOOLEAN, hlc : Clock]
    /\ memo \in [Clock -> {"none", "applied", "merged", "rejected"}]
    /\ \A p \in pushed : MutationOK(p.m) /\ p.user \in User /\ p.feed \in Endpoint(p.m.ent)
    /\ \A x \in conflictLog : ConflictOK(x)
    /\ \A u \in User : \A x \in reverting[u] : ConflictOK(x)
    /\ reverting = [u \in User |-> reverting[u]]
    /\ srvHLC \in Clock \cup {0}
    /\ used \subseteq Clock
    /\ merged = [e \in Entity |-> merged[e]]
    /\ \A e \in Entity : \A m \in merged[e] : MutationOK(m) /\ m.hlc \in used

\* The feed tells the truth: the newest entry a feed holds about a row says
\* "deleted" exactly when the row is not there, and every row that is there has
\* an entry. A device that applies the feed to its end therefore holds exactly
\* the rows the server holds, whatever was refused, cascaded, retired or
\* re-delivered on the way (partition.go:226-241, pipeline.go:307-355).
FeedTellsTruth ==
    /\ \A x \in changeLog :
         (\A y \in changeLog : y.feed = x.feed /\ y.ent = x.ent => y.seq <= x.seq)
           => (x.deleted <=> ~rows[x.ent].exists)
    /\ \A e \in Entity : rows[e].exists =>
         \E x \in changeLog : x.ent = e /\ x.feed = HomeOf(rows[e], e)

\* No feed names a row of another trip alive, so no pull of one trip ever
\* hands out another's snapshot (pipeline.go:37-67).
FeedsStayApart ==
    \A x \in changeLog : rows[x.ent].exists /\ ~x.deleted => x.feed = HomeOf(rows[x.ent], x.ent)

\* A row's own clock is never behind a field's, which is what lets a delete
\* and a server-minted write compare against it alone (merge.go:73-76).
RowClockBounds ==
    \A e \in Entity : rows[e].exists => \A f \in Field : rows[e].clocks[f] <= rows[e].hlc

\* Field-level last writer wins: in whatever order the writes arrived, a plain
\* column holds the value of the newest write that carried it since the row
\* came into being (merge.go:143-145, 181).
PlainField == Field \ (StateGroup \cup StateRecord \cup AdditiveFields)
LastWriterWins ==
    \A e \in Entity : \A m \in merged[e] : \A f \in DOMAIN m.fields \cap PlainField :
        /\ m.hlc <= rows[e].clocks[f]
        /\ m.hlc = rows[e].clocks[f] => rows[e].fields[f] = m.fields[f]

\* The who-columns describe the state and never outlive it: a row names a
\* packer exactly when it is packed and a claim holder exactly when it is being
\* packed, through pushes, takeovers and reverts (merge.go:105-112).
RecordDescribesState ==
    \A e \in Entity : rows[e].exists =>
        /\ rows[e].fields["packed_by_user_id"] # Null <=> rows[e].fields["state"] = "packed"
        /\ rows[e].fields["packing_now_by"] # Null <=> rows[e].fields["state"] = "packing_now"

\* state and packed_count are one fact: a write that carries both leaves both
\* as it says, or both as they were (merge.go:99-103, 275-281).
PairMovesTogether ==
    [][\A e \in Entity : rows[e].exists =>
         \A m \in merged'[e] \ merged[e] : StateGroup \subseteq DOMAIN m.fields =>
            \/ \A f \in StateGroup : rows'[e].fields[f] = m.fields[f]
            \/ \A f \in StateGroup : rows'[e].fields[f] = rows[e].fields[f]]_vars

\* packing_now never displaces packed, by no route (merge.go:275-281).
PackedOutranksClaim ==
    [][\A e \in Entity :
         rows[e].exists /\ rows[e].fields["state"] = "packed"
           => rows'[e].fields["state"] # "packing_now"]_vars

\* A write no newer than a delete does not bring the row back; only a write
\* made after it does (partition.go:163-178).
NoStaleResurrection ==
    [][\A e \in Entity : ~rows[e].exists /\ rows'[e].exists =>
         \A x \in changeLog : x.ent = e /\ x.deleted /\ x.feed = HomeOf(rows'[e], e)
           => rows'[e].hlc > x.hlc]_vars

\* Sending a push again is as if it had not been sent, whatever others have
\* written since: every push was decided, and its answer kept, in the step that
\* brought it, so not even the sequence moves (partition.go:143-147).
ReplayIsIdle == [][\A p \in pushed : Replay(p) => UNCHANGED vars]_vars

\* A revert is all or nothing and happens once: it either leaves row and log as
\* they were, or spends entries nobody had spent before and leaves the row
\* holding every value they name (conflicts.go:311-318, 340-342).
RevertIsAtomic ==
    [][\A u \in User : reverting[u] # {} /\ reverting'[u] = {} =>
         LET spent == {[x EXCEPT !.reverted = TRUE] : x \in reverting[u]} IN
         \/ rows' = rows /\ conflictLog' = conflictLog
         \/ /\ spent \cap conflictLog = {} /\ spent \subseteq conflictLog'
            /\ \A x \in spent : rows'[x.ent].fields[x.field] = x.losing]_vars

-----------------------------------------------------------------------------
(* What the code's comments promise and the code does not keep. *)

\* "trip feedback must never be lost to a concurrent write (FR-9.1)"
\* (merge.go:135): a "yes" newer than every "no" stands.
FeedbackNeverLost ==
    \A e \in Entity : \A m \in merged[e] :
        /\ "flag_unused" \in DOMAIN m.fields /\ IsTruthy(m.fields["flag_unused"])
        /\ \A n \in merged[e] : "flag_unused" \in DOMAIN n.fields /\ n.hlc > m.hlc
                                  => IsTruthy(n.fields["flag_unused"])
        => IsTruthy(rows[e].fields["flag_unused"])

\* "the coupled pair moves together or not at all" (conflicts.go:260): a revert
\* that restores half of a lost state pair restores the other half as well.
RevertRestoresPair ==
    [][\A u \in User : RevertCommit(u) =>
         \A x \in reverting[u], p \in pushed :
            p.m.hlc = x.mut /\ x.field \in StateGroup /\ StateGroup \subseteq DOMAIN p.m.fields
              => \A f \in StateGroup : rows'[x.ent].fields[f] = p.m.fields[f]]_vars

=============================================================================
