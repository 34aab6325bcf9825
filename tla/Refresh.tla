------------------------------ MODULE Refresh ------------------------------
(***************************************************************************)
(* The group refresh (FR-27.4): a trip follows the groups it was generated *)
(* from, and its members are asked about what moved in them.               *)
(*   domain/refresh.ts          the diff, the protection, the refusal      *)
(*   domain/instantiate.ts      what the groups generate                   *)
(*   app/actions/groupRefresh   ask, yes, no                               *)
(*   app/actions/tripLifecycle  a roster change answers yes by itself      *)
(*                                                                         *)
(* Two devices hold copies of one trip and of the groups, paint their own  *)
(* writes at once and send them when they can: one mutation after another  *)
(* of one device, in any order among devices. The server merges each by    *)
(* its clock (Merge), so a late one loses column by column. The trip's     *)
(* ledger, trip_generated_positions, says what generation last produced    *)
(* for a position.                                                         *)
(*                                                                         *)
(* quantity and weight stand for the seven fields a group may overwrite:   *)
(* one that every group counts into and one of the item itself. Clocks     *)
(* agree with the order the writes were made in. Of the groups the server  *)
(* holds registers, not rows. Tasks, the log, conditions and claims are    *)
(* left out, and the trip is one that still follows its groups.            *)
(***************************************************************************)
EXTENDS Merge, Integers, Sequences, FiniteSets, Functions

CONSTANTS
    Item, Traveler, Group, Device,
    Position,   \* the positions a group may hold: [quantity, dedup, per_person]
    Weight,     \* what an item may weigh
    Absent,     \* the group does not hold the item
    NoOne,      \* the trip-global assignment
    MaxEdits, MaxActs, MaxAnswers

ASSUME RefreshBounds ==
    /\ MaxEdits \in Nat /\ MaxActs \in Nat /\ MaxAnswers \in Nat
    /\ NoOne \notin Traveler /\ Absent \notin Position /\ IsFiniteSet(Group)
    /\ \A p \in Position : /\ p.quantity \in Nat /\ p.dedup \in {"max", "sum"}
                           /\ p.per_person \in BOOLEAN

VARIABLES
    groups,     \* what the groups hold and the items weigh, on the server
    groupClock, \* the clock of each of those registers
    seen,       \* per device: the groups as it pulled or painted them
    groupOut,   \* per device: its edits of them on their way to the server
    base,       \* the server's rows of the trip: items, ledger and travelers
    tombs,      \* the clocks of their tombstones
    copy,       \* per device: its items, ledger and roster
    out,        \* per device: its batches of mutations on their way, oldest first
    offer,      \* per device: whether a proposal is on its screen
    now,        \* the last clock minted
    edits, acts, answers,   \* how often each has happened, for the bounds
    \* history: rows a hand touched; positions refused, or adopted apart from what
    \* the group said; per device the positions it refused since the groups or the
    \* roster last moved; whether a device has written from groups or a roster that
    \* were not the current ones; rows whose removal lost to a newer write; the
    \* ledger as it would be had every device heard of every write at once, and the
    \* positions a device wrote about whose entry it held otherwise
    hand, apart, refused, stale, lost, ideal, crossed

server == <<base, tombs>>
master == <<groups, groupClock, seen, groupOut>>
follow == <<hand, apart, refused, stale, ideal, crossed>>
vars == <<master, server, copy, out, offer, now, edits, acts, answers, lost, follow>>

-----------------------------------------------------------------------------
(* Rows, the ledger and what a device writes. *)

\* positionKey: the identity of a position, and of the ledger entry about it.
Key == Item \X (Traveler \cup {NoOne})

\* A row's id is derived from its position by the refresh, drawn afresh by the
\* wizard, or drawn afresh by a hand; an entry's is derived from its position.
RefreshId(k) == <<"refresh", k>>
WizardId(k) == <<"wizard", k>>
HandId == <<"hand", acts>>
EntryId(k) == <<"entry", k>>
TravelerId(t) == <<"traveler", t>>

\* stateFor: a row's state is read off its count and its amount.
StateFor(packed, q) ==
    IF q = 0 THEN "skipped" ELSE IF packed = 0 THEN "open"
    ELSE IF packed = q THEN "packed" ELSE "partial"

\* addGeneratedTripItem: an amount of zero is a row considered and skipped.
NewRow(k, g) ==
    [item |-> k[1], traveler |-> k[2], quantity |-> g.quantity, weight |-> g.weight,
     packed_count |-> 0, state |-> StateFor(0, g.quantity)]

KeyOf(row) == <<row.item, row.traveler>>

EmptyFn == <<>>

Nothing ==
    [join |-> {}, put |-> EmptyFn, edit |-> EmptyFn, drop |-> {}, leave |-> {},
     enter |-> EmptyFn, forget |-> {}]

Without(f, S) == Restrict(f, DOMAIN f \ S)

\* A function of one argument, and one laid over another.
Only(x, v) == [y \in {x} |-> v]
Over(f, g) == [x \in DOMAIN f \cup DOMAIN g |-> IF x \in DOMAIN f THEN f[x] ELSE g[x]]

\* One batch painted over a device's copy. The funnel drops an edit of a row
\* that is gone.
Apply(t, b) ==
    LET added  == Over(b.put, t.rows)
        edited == [r \in DOMAIN added |->
                     IF r \in DOMAIN b.edit THEN Over(b.edit[r], added[r]) ELSE added[r]]
    IN  [rows   |-> Without(edited, b.drop),
         roster |-> (t.roster \cup b.join) \ b.leave,
         ledger |-> Without(Over(b.enter, t.ledger), b.forget)]

\* What is sent of a batch at clock n: an insert or an upsert that names its trip
\* can make a row, an edit cannot.
Sent(stage, op, id, fields, makes, n) ==
    [stage |-> stage, op |-> op, id |-> id, fields |-> fields, makes |-> makes, hlc |-> n]

\* In their dependency order.
Mutations(b, n) ==
    UNION {{Sent(1, "upsert", TravelerId(t), EmptyFn, TRUE, n) : t \in b.join},
           {Sent(2, "upsert", r, b.put[r], TRUE, n) : r \in DOMAIN b.put},
           {Sent(3, "upsert", r, b.edit[r], FALSE, n) : r \in DOMAIN b.edit},
           {Sent(4, "delete", r, EmptyFn, FALSE, n) : r \in b.drop},
           {Sent(5, "delete", TravelerId(t), EmptyFn, FALSE, n) : t \in b.leave},
           {Sent(6, "upsert", EntryId(k), b.enter[k], TRUE, n) : k \in DOMAIN b.enter},
           {Sent(7, "delete", EntryId(k), EmptyFn, FALSE, n) : k \in b.forget}}

Queued(q, b, n) == IF Mutations(b, n) = {} THEN q ELSE Append(q, Mutations(b, n))

\* The mutations of a batch that may be sent next.
Due(batch) == {m \in batch : \A o \in batch : m.stage <= o.stage}

-----------------------------------------------------------------------------
(* The server: each mutation merged by its clock. *)

IsRow(id) == id[1] \in {"refresh", "wizard", "hand"}

\* The trip as a pull delivers it.
Trip ==
    [rows   |-> [r \in {x \in DOMAIN base : IsRow(x)} |-> base[r].fields],
     ledger |-> [k \in {x \in Key : EntryId(x) \in DOMAIN base} |-> base[EntryId(k)].fields],
     roster |-> {t \in Traveler : TravelerId(t) \in DOMAIN base}]

\* What the database refuses of a row: a count above the amount, and a traveler
\* who is not on the trip.
Holds(row) == row.packed_count <= row.quantity /\ row.traveler \in Trip.roster \cup {NoOne}

Row(id) ==
    IF id \in DOMAIN base THEN base[id]
    ELSE [exists |-> FALSE, fields |-> EmptyFn, hlc |-> 0, clocks |-> EmptyFn]

Tombstone(id) == IF id \in DOMAIN tombs THEN tombs[id] ELSE 0

Bury(id, n) == Over(Only(id, MaxHLC(Tombstone(id), n)), tombs)

\* A row a new mutation makes, or merges into.
Written(row, m) ==
    [exists |-> TRUE,
     fields |-> IF row.exists THEN MergedFields(row, m) ELSE m.fields,
     hlc    |-> MaxHLC(row.hlc, m.hlc),
     clocks |-> IF row.exists THEN MergedClocks(row, m) ELSE [f \in DOMAIN m.fields |-> m.hlc]]

\* A traveler a row still names cannot be deleted.
StillNamed(id) == \E r \in DOMAIN base : IsRow(r) /\ TravelerId(base[r].fields.traveler) = id

\* applyMutation for a delete: one that is no newer than the row does nothing.
TakeDelete(m) ==
    /\ IF Row(m.id).exists /\ Deleted(Row(m.id), m) /\ ~StillNamed(m.id)
       THEN base' = Without(base, {m.id}) /\ tombs' = Bury(m.id, m.hlc)
       ELSE UNCHANGED server
    /\ lost' = IF Row(m.id).exists /\ ~Deleted(Row(m.id), m) THEN lost \cup {m.id} ELSE lost

\* For an upsert: no row, and none to be made, or one deleted since; a row the
\* database refuses, which leaves a tombstone where there was none; or a merge.
TakeUpsert(m) ==
    LET row == Row(m.id)
        new == Written(row, m)
        bad == IsRow(m.id) /\ ~Holds(new.fields)
    IN  /\ IF row.exists
           THEN /\ base' = IF Applied(row, m) = {} \/ bad THEN base ELSE Over(Only(m.id, new), base)
                /\ tombs' = tombs
           ELSE IF ~m.makes \/ m.hlc <= Tombstone(m.id) THEN UNCHANGED server
           ELSE IF bad THEN tombs' = Bury(m.id, m.hlc) /\ base' = base
           ELSE base' = Over(Only(m.id, new), base) /\ tombs' = tombs
        /\ lost' = lost

Take(m) == IF m.op = "delete" THEN TakeDelete(m) ELSE TakeUpsert(m)

-----------------------------------------------------------------------------
(* generateTripItems: what the groups come to for a roster. *)

\* The registers an edit writes: what a group holds of an item, and its weight.
Register == (Group \X Item) \cup Item

Targets(p, roster) == IF p.per_person THEN roster ELSE {NoOne}

\* The groups that bring a position: a per-person one fans out to the roster,
\* and to nothing where the roster is empty.
Contributors(m, roster, k) ==
    {g \in Group : /\ m[<<g, k[1]>>] # Absent
                   /\ k[2] \in Targets(m[<<g, k[1]>>], roster)}

\* FR-2.3a: an overlap is the largest amount, or the sum where one asks for it.
\* Counted piece by piece: the groups share their pieces, or each brings its own.
Merged(m, gs, i) ==
    LET pos == [g \in gs |-> m[<<g, i>>]]
    IN  IF \E g \in gs : pos[g].dedup = "sum"
        THEN Cardinality(UNION {{g} \X (1 .. pos[g].quantity) : g \in gs})
        ELSE Cardinality(UNION {1 .. pos[g].quantity : g \in gs})

Generated(m, roster) ==
    [k \in {k \in Key : Contributors(m, roster, k) # {}} |->
        [quantity |-> Merged(m, Contributors(m, roster, k), k[1]), weight |-> m[k[1]]]]

-----------------------------------------------------------------------------
(* planRefresh: the diff between what the groups generate and the trip. *)

\* The fields a group may overwrite, of a row or an entry, and those of them
\* that two of these disagree about.
Propagated == {"quantity", "weight"}
Snapshot(x) == [f \in Propagated |-> x[f]]
ChangedFields(before, after) == Restrict(after, {f \in Propagated : before[f] # after[f]})

\* Mutant: packing a row does not take it out of the group's hands.
IsProtectedUnlessPacked(row, entry) == row.state = "skipped" \/ Snapshot(row) # Snapshot(entry)

\* isProtected: skipped, begun, or no longer what generation last produced.
IsProtected(row, entry) ==
    row.state = "skipped" \/ row.packed_count > 0 \/ Snapshot(row) # Snapshot(entry)

RowsAt(t, k) == {r \in DOMAIN t.rows : KeyOf(t.rows[r]) = k}

\* Mutant: the row of an addition gets an id of the device's own.
PropagatedIdDrawn(d, k) == <<"refresh", d, k>>

\* propagatedItemId: every device derives the same id for a position.
PropagatedId(d, k) == RefreshId(k)

\* The diff of device d, for the groups m and its copy t.
\*   add     generated, unknown to the ledger, no row of it on the trip
\*   adopt   generated, unknown to the ledger, a row of it is there
\*   update  generated otherwise than the ledger says, row there and unprotected
\*   remove  no longer generated, row there and unprotected
\*   gone    no longer generated, and its row is gone too
PlanRefresh(d, m, t) ==
    LET gen    == Generated(m, t.roster)
        known  == DOMAIN t.ledger
        new    == DOMAIN gen \ known
        free   == {k \in known : /\ t.ledger[k].row \in DOMAIN t.rows
                                 /\ ~IsProtected(t.rows[t.ledger[k].row], t.ledger[k])}
        adopt  == {k \in new : RowsAt(t, k) # {}}
        add    == new \ adopt
        update == {k \in DOMAIN gen \cap free : gen[k] # Snapshot(t.ledger[k])}
        remove == free \ DOMAIN gen
        gone   == {k \in known \ DOMAIN gen : t.ledger[k].row \notin DOMAIN t.rows}
        rowOf  == [k \in adopt \cup add \cup update |->
                     IF k \in add THEN PropagatedId(d, k)
                     ELSE IF k \in adopt THEN CHOOSE r \in RowsAt(t, k) : TRUE
                     ELSE t.ledger[k].row]
    IN  [add |-> add, adopt |-> adopt, update |-> update, remove |-> remove,
         batch |->
           [join   |-> {},
            put    |-> [r \in {rowOf[k] : k \in add} |->
                          LET k == CHOOSE x \in add : rowOf[x] = r IN NewRow(k, gen[k])],
            edit   |-> [r \in {rowOf[k] : k \in update} |->
                          LET k == CHOOSE x \in update : rowOf[x] = r
                          IN  ChangedFields(t.ledger[k], gen[k])],
            drop   |-> {t.ledger[k].row : k \in remove},
            leave  |-> {},
            enter  |-> [k \in adopt \cup add \cup update |-> Over(Only("row", rowOf[k]), gen[k])],
            forget |-> remove \cup gone]]

\* proposedChangeCount: what the user is asked about; the bookkeeping is not.
Asked(plan) == plan.add \cup plan.update \cup plan.remove

PlanOf(d) == PlanRefresh(d, seen[d], copy[d])

\* Mutant: a refused removal leaves the entry where it was.
DeclinePlanKeeps(plan) == [Nothing EXCEPT !.enter = plan.batch.enter]

\* declinePlan: the ledger advances, the rows do not.
DeclinePlan(plan) ==
    [[Nothing EXCEPT !.enter = plan.batch.enter] EXCEPT !.forget = plan.batch.forget]

\* Positions adopted by a row that is not what the groups say.
AdoptedApart(t, plan) ==
    {k \in plan.adopt : Snapshot(t.rows[plan.batch.enter[k].row]) # Snapshot(plan.batch.enter[k])}
       \X {"adopted"}

-----------------------------------------------------------------------------
\* The server's rows of a new trip, at clock 0.
FirstWrite(fields) ==
    [exists |-> TRUE, fields |-> fields, hlc |-> 0, clocks |-> [f \in DOMAIN fields |-> 0]]

Init ==
    \* The wizard has generated the trip from the groups; the packing page has
    \* been opened since, which adopts the rows, or it has not.
    /\ \E holds \in [Group \X Item -> Position \cup {Absent}], weighs \in [Item -> Weight] :
         /\ \E x \in Group \X Item : holds[x] # Absent
         /\ groups = Over(holds, weighs)
    /\ groupClock = [x \in Register |-> 0]
    /\ seen = [d \in Device |-> groups]
    /\ groupOut = [d \in Device |-> <<>>]
    /\ \E roster \in SUBSET Traveler, opened \in BOOLEAN :
         LET gen  == Generated(groups, roster)
             rows == [r \in {WizardId(k) : k \in DOMAIN gen} |-> NewRow(r[2], gen[r[2]])]
             led  == [e \in {EntryId(k) : k \in IF opened THEN DOMAIN gen ELSE {}} |->
                        Over(Only("row", WizardId(e[2])), gen[e[2]])]
             who  == [x \in {TravelerId(t) : t \in roster} |-> EmptyFn]
         IN  base = [x \in DOMAIN rows \cup DOMAIN led \cup DOMAIN who |->
                       FirstWrite(Over(rows, Over(led, who))[x])]
    /\ tombs = EmptyFn
    /\ copy = [d \in Device |-> Trip]
    /\ out = [d \in Device |-> <<>>]
    /\ offer = [d \in Device |-> FALSE]
    /\ now = 0 /\ edits = 0 /\ acts = 0 /\ answers = 0
    /\ hand = {} /\ apart = {} /\ refused = [d \in Device |-> {}] /\ stale = FALSE
    /\ lost = {} /\ ideal = Trip.ledger /\ crossed = {}

Idle == \A d \in Device : out[d] = <<>>

\* The groups m are the current ones, and every device has the trip's roster.
UpToDate(m) ==
    /\ m = groups /\ \A x \in Device : groupOut[x] = <<>>
    /\ \A x \in Device : copy[x].roster = Trip.roster

\* What a device holding t writes of the ledger, told to all at once.
Enters(t, b) ==
    LET about == DOMAIN b.enter \cup b.forget
    IN  /\ ideal' = Without(Over(b.enter, ideal), b.forget)
        /\ crossed' = crossed \cup
             {k \in about : \/ (k \in DOMAIN t.ledger) # (k \in DOMAIN ideal)
                            \/ k \in DOMAIN t.ledger /\ t.ledger[k] # ideal[k]}

\* A device writes one batch, derived from the groups m.
Write(d, b, m) ==
    /\ answers' = IF b = Nothing THEN answers ELSE answers + 1
    /\ answers' <= MaxAnswers
    /\ now' = IF b = Nothing THEN now ELSE now + 1
    /\ copy' = [copy EXCEPT ![d] = Apply(@, b)]
    /\ out' = [out EXCEPT ![d] = Queued(@, b, now')]
    /\ stale' = (stale \/ (b # Nothing /\ ~UpToDate(m)))
    /\ Enters(copy[d], b)

\* Mutant: the bookkeeping of a plan is written before the answer.
ProposeEager(d, m) ==
    LET plan == PlanRefresh(d, m, copy[d])
        late == AdoptedApart(copy[d], plan)
    IN  /\ offer' = [offer EXCEPT ![d] = Asked(plan) # {}]
        /\ Write(d, [DeclinePlan(plan) EXCEPT !.forget = {}], m)
        /\ apart' = apart \cup late

\* proposeTripRefresh: offer what moved; write only a plan that asks nothing.
Propose(d, m) ==
    LET plan == PlanRefresh(d, m, copy[d])
    IN  IF Asked(plan) = {}
        THEN /\ offer' = [offer EXCEPT ![d] = FALSE]
             /\ Write(d, plan.batch, m)
             /\ apart' = apart \cup AdoptedApart(copy[d], plan)
        ELSE /\ offer' = [offer EXCEPT ![d] = TRUE]
             /\ UNCHANGED <<copy, out, now, answers, stale, apart, ideal, crossed>>

\* The packing page is opened.
OpenTrip(d) ==
    /\ Propose(d, seen[d])
    /\ UNCHANGED <<master, server, edits, acts, lost, hand, refused>>

\* onMasterPulled: the groups arrive, and every trip held is worked out again.
PullMaster(d) ==
    /\ groupOut[d] = <<>> /\ seen[d] # groups
    /\ seen' = [seen EXCEPT ![d] = groups]
    /\ Propose(d, groups)
    /\ UNCHANGED <<groups, groupClock, groupOut, server, edits, acts, lost, hand, refused>>

\* acceptTripRefresh: re-derived, not the plan that was shown.
Accept(d) ==
    LET plan == PlanOf(d)
    IN  /\ offer[d]
        /\ Write(d, plan.batch, seen[d])
        /\ offer' = [offer EXCEPT ![d] = FALSE]
        /\ apart' = apart \cup AdoptedApart(copy[d], plan)
        /\ UNCHANGED <<master, server, edits, acts, lost, hand, refused>>

\* declineTripRefresh.
Decline(d) ==
    LET plan == PlanOf(d)
    IN  /\ offer[d]
        /\ Write(d, DeclinePlan(plan), seen[d])
        /\ offer' = [offer EXCEPT ![d] = FALSE]
        /\ apart' = apart \cup Asked(plan) \X {"refused"} \cup AdoptedApart(copy[d], plan)
        /\ refused' = [refused EXCEPT ![d] = @ \cup Asked(plan)]
        /\ UNCHANGED <<master, server, edits, acts, lost, hand>>

-----------------------------------------------------------------------------
(* Everything else that happens to the groups, the roster and the rows. *)

\* An edit of a group or of an item, on that device's screen at once and queued.
EditRegister(d, x, v) ==
    /\ edits < MaxEdits /\ v # seen[d][x]
    /\ edits' = edits + 1
    /\ now' = now + 1
    /\ seen' = [seen EXCEPT ![d][x] = v]
    /\ groupOut' = [groupOut EXCEPT ![d] = Append(@, [reg |-> x, value |-> v, hlc |-> now'])]
    /\ refused' = [e \in Device |-> {}]
    /\ stale' = (stale \/ ~Idle)
    /\ UNCHANGED <<groups, groupClock, server, copy, out, offer, acts, answers, lost, hand, apart,
                   ideal, crossed>>

EditGroup(d, g, i, p) == EditRegister(d, <<g, i>>, p)

EditItem(d, i, w) == EditRegister(d, i, w)

\* It reaches the server, and loses to a later one.
PushEdit(d) ==
    LET e == Head(groupOut[d])
    IN  /\ groupOut[d] # <<>>
        /\ groupOut' = [groupOut EXCEPT ![d] = Tail(@)]
        /\ IF e.hlc > groupClock[e.reg]
           THEN /\ groups' = [groups EXCEPT ![e.reg] = e.value]
                /\ groupClock' = [groupClock EXCEPT ![e.reg] = e.hlc]
           ELSE UNCHANGED <<groups, groupClock>>
        /\ UNCHANGED <<seen, server, copy, out, offer, now, edits, acts, answers, lost, follow>>

\* A roster change: the first batch, then applyTravelerConsequences' yes.
ChangeRoster(d, b, touched) ==
    LET t    == Apply(copy[d], b)
        plan == PlanRefresh(d, seen[d], t)
    IN  /\ acts < MaxActs
        /\ acts' = acts + 1
        /\ now' = now + 2
        /\ copy' = [copy EXCEPT ![d] = Apply(t, plan.batch)]
        /\ out' = [out EXCEPT ![d] = Queued(Queued(@, b, now + 1), plan.batch, now + 2)]
        /\ stale' = (stale \/ ~Idle \/ ~UpToDate(seen[d]))
        /\ refused' = [x \in Device |-> {}]
        /\ offer' = [offer EXCEPT ![d] = FALSE]
        /\ hand' = hand \cup touched
        /\ apart' = apart \cup AdoptedApart(t, plan)
        /\ Enters(t, plan.batch)
        /\ UNCHANGED <<master, server, edits, answers, lost>>

\* An id no row has had.
Unused(id) ==
    /\ id \notin DOMAIN base \cup DOMAIN tombs
    /\ \A x \in Device : \A i \in 1 .. Len(out[x]) : \A m \in out[x][i] : m.id # id

\* addTravelerToTrip: a traveler's id is drawn afresh.
AddTraveler(d, t) ==
    /\ Unused(TravelerId(t))
    /\ ChangeRoster(d, [Nothing EXCEPT !.join = {t}], {})

\* removeTraveler: their rows are detached, or deleted where packing has begun
\* and the user said so; then the traveler's own row is deleted.
RemoveTraveler(d, t, includePacked) ==
    LET theirs == {r \in DOMAIN copy[d].rows : copy[d].rows[r].traveler = t}
        taken  == {r \in theirs : includePacked /\ copy[d].rows[r].packed_count > 0}
    IN  /\ t \in copy[d].roster
        /\ ChangeRoster(d,
             [[[Nothing EXCEPT !.drop  = taken]
                        EXCEPT !.edit  = [r \in theirs \ taken |-> Only("traveler", NoOne)]]
                        EXCEPT !.leave = {t}], theirs)

\* A hand's write on one row.
HandWrites(d, b, r) ==
    /\ acts < MaxActs
    /\ acts' = acts + 1
    /\ now' = now + 1
    /\ copy' = [copy EXCEPT ![d] = Apply(@, b)]
    /\ out' = [out EXCEPT ![d] = Queued(@, b, now')]
    /\ hand' = hand \cup {r}
    /\ UNCHANGED <<master, server, offer, edits, answers, lost, apart, refused, stale, ideal, crossed>>

EditRow(d, r, fields) == HandWrites(d, [Nothing EXCEPT !.edit = Only(r, fields)], r)

\* packComplete and packZero.
TogglePacked(d, r) ==
    LET row    == copy[d].rows[r]
        packed == IF row.packed_count > 0 THEN 0 ELSE row.quantity
    IN  /\ row.state # "skipped" /\ row.quantity > 0
        /\ EditRow(d, r, [packed_count |-> packed, state |-> StateFor(packed, row.quantity)])

\* setQuantity clamps the count and reads the state off the two.
SetQuantity(d, r, q) ==
    LET row    == copy[d].rows[r]
        packed == IF row.packed_count > q THEN q ELSE row.packed_count
    IN  /\ q # row.quantity
        /\ EditRow(d, r, [quantity |-> q, packed_count |-> packed, state |-> StateFor(packed, q)])

\* skipItem and unskipItem.
ToggleSkipped(d, r) ==
    LET q == IF copy[d].rows[r].state = "skipped" THEN 1 ELSE 0
    IN  EditRow(d, r, [quantity |-> q, packed_count |-> 0, state |-> StateFor(0, q)])

AssignTraveler(d, r, t) ==
    t # copy[d].rows[r].traveler /\ EditRow(d, r, Only("traveler", t))

DeleteTripItem(d, r) == HandWrites(d, [Nothing EXCEPT !.drop = {r}], r)

\* addTripItem from the inventory: a row of the item, nobody's.
AddTripItem(d, i) ==
    LET one == [quantity |-> 1, weight |-> seen[d][i]]
    IN  HandWrites(d, [Nothing EXCEPT !.put = Only(HandId, NewRow(<<i, NoOne>>, one))], HandId)

\* The next mutation of a device reaches the server.
Push(d) ==
    /\ out[d] # <<>>
    /\ \E m \in Due(Head(out[d])) :
         /\ Take(m)
         /\ out' = [out EXCEPT ![d] =
                      (IF Head(@) = {m} THEN <<>> ELSE <<Head(@) \ {m}>>) \o Tail(@)]
    /\ UNCHANGED <<master, copy, offer, now, edits, acts, answers, follow>>

\* A device with nothing left to send pulls the trip.
PullTrip(d) ==
    /\ out[d] = <<>> /\ copy[d] # Trip
    /\ copy' = [copy EXCEPT ![d] = Trip]
    /\ UNCHANGED <<master, server, out, offer, now, edits, acts, answers, lost, follow>>

HandAct(d) ==
    \/ \E i \in Item : AddTripItem(d, i)
    \/ \E r \in DOMAIN copy[d].rows :
         \/ TogglePacked(d, r) \/ ToggleSkipped(d, r) \/ DeleteTripItem(d, r)
         \/ \E q \in {p.quantity : p \in Position} : SetQuantity(d, r, q)
         \/ \E t \in copy[d].roster \cup {NoOne} : AssignTraveler(d, r, t)

Next ==
    \E d \in Device :
      \/ OpenTrip(d) \/ PullMaster(d) \/ Accept(d) \/ Decline(d)
      \/ Push(d) \/ PushEdit(d) \/ PullTrip(d) \/ HandAct(d)
      \/ \E i \in Item : \/ \E w \in Weight : EditItem(d, i, w)
                         \/ \E g \in Group, p \in Position \cup {Absent} : EditGroup(d, g, i, p)
      \/ \E t \in Traveler : AddTraveler(d, t) \/ RemoveTraveler(d, t, TRUE)
                               \/ RemoveTraveler(d, t, FALSE)

Spec == Init /\ [][Next]_vars

-----------------------------------------------------------------------------
(* Properties. *)

Ids == {RefreshId(k) : k \in Key} \cup {WizardId(k) : k \in Key}
         \cup {<<"hand", n>> : n \in 0..MaxActs}

TripOK(t) ==
    /\ DOMAIN t.rows \subseteq Ids
    /\ \A r \in DOMAIN t.rows : KeyOf(t.rows[r]) \in Key
    /\ DOMAIN t.ledger \subseteq Key
    /\ \A k \in DOMAIN t.ledger : t.ledger[k].row \in Ids
    /\ t.roster \subseteq Traveler

\* Types, and what the schema asks of the server's copy: no row has more packed
\* than it wants, and none names a traveler who is not on the trip.
TypeOK ==
    /\ TripOK(Trip) /\ \A d \in Device : TripOK(copy[d])
    /\ \A r \in DOMAIN Trip.rows : Holds(Trip.rows[r])
    /\ edits \in 0..MaxEdits /\ acts \in 0..MaxActs /\ answers \in 0..MaxAnswers
    /\ hand \subseteq Ids /\ crossed \subseteq Key /\ apart \subseteq Key \X {"refused", "adopted"}

\* No row stands for two positions. A device that was behind can make one so: it
\* adopts a detached row under a position another device has adopted before. So
\* can an addition, where a hand has moved the row it derives the id of, another
\* position has adopted it there, and it has been deleted since.
OneEntryPerRow(t) ==
    \A k, l \in DOMAIN t.ledger : k # l => t.ledger[k].row # t.ledger[l].row

\* A question leaves the screen only when nothing is left to ask: whatever
\* happened on the trip between question and answer, both answers and a roster
\* change settle every position, and so does an open or a pull that takes the
\* question back (clearProposal; declinePlan: "the refusal is expressed in the
\* same row the acceptance would have been"). Two entries about one row, before
\* the step or after it, are the exception: the row can agree with one of them only.
AnswerSettles ==
    [][\A d \in Device :
         offer[d] /\ ~offer'[d] /\ OneEntryPerRow(copy[d]) /\ OneEntryPerRow(copy[d])'
           => Asked(PlanOf(d))' = {}]_vars

\* "A refused addition is not offered again, a refused removal stays, and a
\* refused change keeps the value the trip already had" (declinePlan): until the
\* groups or the roster move again, nobody's later act, answer, pull or open brings
\* the question back, as long as every device answered from the current ones.
RefusedIsNotAskedAgain ==
    ~stale => \A d \in Device :
        refused[d] # {} /\ seen[d] = groups => Asked(PlanOf(d)) \cap refused[d] = {}

\* The same without the proviso. It does not hold: a device whose groups are
\* older drops, unasked, the entry that carries another device's refusal.
RefusedIsNeverAskedAgain ==
    \A d \in Device : seen[d] = groups => Asked(PlanOf(d)) \cap refused[d] = {}

\* On the server a row is not what the ledger says of it, and so is protected for
\* good, and no hand has touched it, nobody refused it and nobody adopted it as it was.
Parted(k) ==
    LET r == Trip.ledger[k].row
    IN  /\ k \in DOMAIN Trip.ledger /\ r \in DOMAIN Trip.rows /\ r \notin hand
        /\ Snapshot(Trip.rows[r]) # Snapshot(Trip.ledger[k])
        /\ <<k, "refused">> \notin apart /\ <<k, "adopted">> \notin apart

AtRest == Idle /\ \A d \in Device : groupOut[d] = <<>>

\* What an answer writes of a row is the fields that moved, what it writes of the
\* ledger is the whole entry, and the server merges the two apart. Once everything
\* sent has arrived they still agree, and the position still follows its groups,
\* unless a device wrote about it from an entry another device had already moved on.
RowsFollowTheLedger ==
    AtRest => \A k \in Key \ crossed : ~Parted(k)

\* "A half-updated one would read as a manual edit" (writeGeneratedPosition, which
\* restates the whole entry so that none is): so a row reads as edited by hand only
\* where a hand has edited it. It does not hold.
FollowsUntilTouched ==
    AtRest => \A k \in Key : ~Parted(k)

\* ADR-016: two devices that take over the same addition write one row. Two rows
\* of one position on the server are a hand's doing, or one of them is a row whose
\* removal came after a newer write of it.
NoTwins ==
    \A r \in DOMAIN Trip.rows, s \in DOMAIN Trip.rows :
        r # s /\ KeyOf(Trip.rows[r]) = KeyOf(Trip.rows[s]) => {r, s} \cap (hand \cup lost) # {}

\* The same without the late removal. It does not hold.
NoTwinsAtAll ==
    \A r \in DOMAIN Trip.rows, s \in DOMAIN Trip.rows :
        r # s /\ KeyOf(Trip.rows[r]) = KeyOf(Trip.rows[s]) => {r, s} \cap hand # {}

\* A row packing has begun on, or a skipped one.
Decided(row) == row.packed_count > 0 \/ row.state = "skipped"

Untouched(d, r) == r \in DOMAIN copy'[d].rows /\ copy'[d].rows[r] = copy[d].rows[r]

\* "Manual edits on the trip always win": an answer leaves every row packing has
\* begun on, and every skipped one, as it was on that device. The one exception
\* is an addition that derives the id of a row still there: a refused removal
\* leaves the row without an entry, and a hand then moves it off its position.
ManualEditsWin ==
    [][\A d \in Device : offer[d] /\ ~offer'[d] /\ acts' = acts =>
         \A r \in DOMAIN copy[d].rows :
            Decided(copy[d].rows[r]) /\ r \notin DOMAIN PlanOf(d).batch.put
              => Untouched(d, r)]_vars

\* The same without the exception. It does not hold.
ManualEditsAlwaysWin ==
    [][\A d \in Device : offer[d] /\ ~offer'[d] /\ acts' = acts =>
         \A r \in DOMAIN copy[d].rows : Decided(copy[d].rows[r]) => Untouched(d, r)]_vars

=============================================================================
