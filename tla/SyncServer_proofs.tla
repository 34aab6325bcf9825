------------------------- MODULE SyncServer_proofs --------------------------
(***************************************************************************)
(* Theorems about SyncServer, and about MasterDelete, which runs beside    *)
(* it, for every set of rows, tables, users, writes and clocks.            *)
(*                                                                         *)
(* The argument is in two layers. RowStep reads off the actions what one   *)
(* step can do to one row: nothing, remove it, merge a fresh mutation into *)
(* it, or merge one that changes nothing. The invariants about rows follow *)
(* from those four cases and the rules of Merge alone. The next part does  *)
(* the same for the change feeds, a transaction at a time.                 *)
(*                                                                         *)
(* In the last part a server-made delete's transaction is one more         *)
(* decision of the pipeline, or an accepted mutation, so the row, stamp    *)
(* and feed invariants carry over. RowWrites reads off the actions what    *)
(* they may do to the references between rows; the two action properties   *)
(* of MasterDelete follow from it and from the merge's own guarantees.     *)
(***************************************************************************)
EXTENDS MasterDelete, TLAPS

\* What makes the mutations comparable: a row carries only stamps that were
\* minted, every push was decided in the step that brought it (so a replay
\* decides nothing), and a row that is gone has no history.
StampsKnown ==
    /\ \A e \in Entity : rows[e].exists => /\ rows[e].hlc \in used
                                           /\ \A f \in Field : rows[e].clocks[f] \in used
    /\ \A p \in pushed : memo[p.m.hlc] # "none"
    /\ \A e \in Entity : ~rows[e].exists => merged[e] = {}

-----------------------------------------------------------------------------
(* The operators of Merge and of the pipeline. *)

\* No stamp is the empty clock of a row that never synced.
LEMMA ClockPositive == \A c \in Clock : c \in Nat /\ c > 0
<1>1. \A c \in Clock : c \in Nat /\ c # 0
  BY ClockAssumption
<1>. QED  BY <1>1

\* The row without data is well-formed.
LEMMA NoRowOK == RowOK(NoRow)
  BY NullAssumption DEF RowOK, NoRow, Default, Field, FieldsOK, ValueOK, ItemState

\* A merge keeps every column and its type.
LEMMA MergedFieldsOK ==
  ASSUME NEW row, RowOK(row), NEW m, MutationOK(m)
  PROVE  /\ FieldsOK(MergedFields(row, m))
         /\ DOMAIN MergedFields(row, m) = Field
         /\ \A f \in Field : MergedFields(row, m)[f] =
              IF f \in Applied(row, m) THEN m.fields[f] ELSE row.fields[f]
<1>1. Applied(row, m) \subseteq DOMAIN m.fields
  BY DEF Applied
<1>2. DOMAIN row.fields = Field /\ \A f \in Field : ValueOK(f, row.fields[f])
  BY DEF RowOK, FieldsOK
<1>3. \A f \in DOMAIN m.fields : f \in Field /\ ValueOK(f, m.fields[f])
  BY DEF MutationOK, FieldsOK
<1>4. \A f \in Field : ValueOK(f, IF f \in Applied(row, m) THEN m.fields[f] ELSE row.fields[f])
  BY <1>1, <1>2, <1>3
<1>. QED  BY <1>2, <1>4 DEF MergedFields, FieldsOK

\* What persist leaves: a live row whose clock is the larger of the two, and
\* whose columns are stamped where the mutation was applied.
LEMMA PersistedOK ==
  ASSUME NEW row, RowOK(row), NEW m, MutationOK(m)
  PROVE  /\ RowOK(Persisted(m, row))
         /\ Persisted(m, row).exists
         /\ Persisted(m, row).hlc = MaxHLC(row.hlc, m.hlc)
         /\ \A f \in Field : Persisted(m, row).fields[f] =
              IF f \in Applied(row, m) THEN m.fields[f] ELSE row.fields[f]
         /\ \A f \in Field : Persisted(m, row).clocks[f] =
              IF ~row.exists \/ f \in Applied(row, m) THEN m.hlc ELSE row.clocks[f]
<1>. DEFINE p == Persisted(m, row)
<1>1. p = [exists |-> TRUE, fields |-> MergedFields(row, m), hlc |-> MaxHLC(row.hlc, m.hlc),
           clocks |-> IF row.exists THEN MergedClocks(row, m) ELSE [f \in Field |-> m.hlc]]
  BY DEF Persisted
<1>2. m.hlc \in Clock /\ Clock \subseteq Nat
  BY ClockAssumption DEF MutationOK
<1>3. MaxHLC(row.hlc, m.hlc) \in Clock
  <2>1. row.hlc \in Clock \/ row.hlc = 0
    BY DEF RowOK, NoRow
  <2>2. m.hlc \in Nat /\ m.hlc > 0
    BY <1>2, ClockPositive
  <2>3. row.hlc = 0 => ~(row.hlc > m.hlc)
    BY <2>2
  <2>. QED  BY <1>2, <2>1, <2>3 DEF MaxHLC
<1>4. /\ p.clocks \in [Field -> Clock]
      /\ \A f \in Field : p.clocks[f] =
           IF ~row.exists \/ f \in Applied(row, m) THEN m.hlc ELSE row.clocks[f]
  <2>1. CASE row.exists
    <3>1. row.clocks \in [Field -> Clock]
      BY <2>1 DEF RowOK
    <3>2. Applied(row, m) \subseteq Field
      BY DEF Applied, MutationOK, FieldsOK
    <3>. QED  BY <1>1, <1>2, <2>1, <3>1, <3>2 DEF MergedClocks
  <2>2. CASE ~row.exists
    BY <1>1, <1>2, <2>2
  <2>. QED  BY <2>1, <2>2 DEF RowOK
<1>5. /\ FieldsOK(p.fields) /\ DOMAIN p.fields = Field
      /\ \A f \in Field : p.fields[f] =
           IF f \in Applied(row, m) THEN m.fields[f] ELSE row.fields[f]
  BY <1>1, MergedFieldsOK
<1>6. /\ p = [exists |-> p.exists, fields |-> p.fields, hlc |-> p.hlc, clocks |-> p.clocks]
      /\ p.exists = TRUE /\ p.hlc = MaxHLC(row.hlc, m.hlc)
  BY <1>1
<1>7. RowOK(p)
  <2>. HIDE DEF p
  <2>. QED  BY <1>3, <1>4, <1>5, <1>6 DEF RowOK
<1>. QED  BY <1>4, <1>5, <1>6, <1>7

\* The who-columns as the stamp step writes them for user u: carried exactly
\* when the state is, and as the state says.
StampedFor(u, s) ==
    IF "state" \in DOMAIN s.fields
    THEN /\ StateRecord \subseteq DOMAIN s.fields
         /\ s.fields["packing_now_by"] = IF s.fields["state"] = "packing_now" THEN u ELSE Null
         /\ s.fields["packed_by_user_id"] = IF s.fields["state"] = "packed" THEN u ELSE Null
    ELSE StateRecord \cap DOMAIN s.fields = {}

\* The stamp step keeps the mutation's shape and every column a client owns.
LEMMA StampOK ==
  ASSUME NEW m, MutationOK(m), NEW row, NEW u
  PROVE  /\ MutationOK(StampServerOwned(m, row, u))
         /\ StampServerOwned(m, row, u).op = m.op
         /\ StampServerOwned(m, row, u).ent = m.ent
         /\ StampServerOwned(m, row, u).hlc = m.hlc
         /\ StampedFor(u, StampServerOwned(m, row, u))
<1>. DEFINE creates == ~row.exists /\ m.op # "delete" /\ Table[m.ent] \in OwnedTables
            stated == "state" \in DOMAIN m.fields
            cols == (DOMAIN m.fields \ ServerOwned)
                      \cup (IF stated THEN StateRecord ELSE {})
                      \cup (IF creates THEN {"owner_id"} ELSE {})
            fs == [f \in cols |->
                CASE f = "owner_id" -> u
                  [] f = "packing_now_by" -> IF m.fields["state"] = "packing_now" THEN u ELSE Null
                  [] f = "packed_by_user_id" -> IF m.fields["state"] = "packed" THEN u ELSE Null
                  [] OTHER -> m.fields[f]]
            s == StampServerOwned(m, row, u)
<1>1. s = [op |-> m.op, ent |-> m.ent, fields |-> fs, hlc |-> m.hlc]
  <2>1. s = [m EXCEPT !.fields = fs]
    BY DEF StampServerOwned
  <2>2. m = [op |-> m.op, ent |-> m.ent, fields |-> m.fields, hlc |-> m.hlc]
    BY DEF MutationOK
  <2>. HIDE DEF fs, s
  <2>. QED  BY <2>1, <2>2
<1>2. s.op = m.op /\ s.ent = m.ent /\ s.hlc = m.hlc /\ s.fields = fs
  <2>. HIDE DEF fs, s
  <2>. QED  BY <1>1
<1>3. \A f \in DOMAIN m.fields : f \in Field /\ ValueOK(f, m.fields[f])
  BY DEF MutationOK, FieldsOK
<1>4. DOMAIN fs = cols /\ cols \subseteq Field
  BY <1>3 DEF StateRecord, Field
<1>5. \A f \in cols : ValueOK(f, fs[f])
  <2>1. \A f \in cols \cap ServerOwned : ValueOK(f, fs[f])
    BY DEF ValueOK, ServerOwned
  <2>2. \A f \in cols \ ServerOwned : f \in DOMAIN m.fields /\ fs[f] = m.fields[f]
    BY DEF ServerOwned, StateRecord
  <2>. QED  BY <1>3, <2>1, <2>2
<1>6. m.op = "delete" => cols = {}
  BY DEF MutationOK
<1>7. MutationOK(s)
  <2>1. FieldsOK(fs)
    BY <1>4, <1>5 DEF FieldsOK
  <2>. HIDE DEF fs, s, cols
  <2>. QED  BY <1>1, <1>2, <1>4, <1>6, <2>1 DEF MutationOK
<1>8. StampedFor(u, s)
  <2>1. "state" \in cols <=> stated
    BY DEF ServerOwned, StateRecord
  <2>2. stated => /\ StateRecord \subseteq cols
                  /\ fs["state"] = m.fields["state"]
                  /\ fs["packing_now_by"] = IF m.fields["state"] = "packing_now" THEN u ELSE Null
                  /\ fs["packed_by_user_id"] = IF m.fields["state"] = "packed" THEN u ELSE Null
    BY <2>1 DEF StateRecord, ServerOwned
  <2>3. ~stated => StateRecord \cap cols = {}
    BY DEF ServerOwned, StateRecord
  <2>. HIDE DEF fs, s, cols
  <2>. QED  BY <1>2, <1>4, <2>1, <2>2, <2>3 DEF StampedFor
<1>. QED  BY <1>2, <1>7, <1>8

\* What the stamp step does to the columns: those the clients own pass through
\* as they are, and no others are added but the server's own.
LEMMA StampColumns ==
  ASSUME NEW m, MutationOK(m), NEW row, NEW u
  PROVE  LET s == StampServerOwned(m, row, u) IN
         /\ DOMAIN s.fields \ ServerOwned = DOMAIN m.fields \ ServerOwned
         /\ \A f \in DOMAIN m.fields \ ServerOwned : s.fields[f] = m.fields[f]
         /\ row.exists => "owner_id" \notin DOMAIN s.fields
<1>. DEFINE cols == (DOMAIN m.fields \ ServerOwned)
                      \cup (IF "state" \in DOMAIN m.fields THEN StateRecord ELSE {})
                      \cup (IF ~row.exists /\ m.op # "delete" /\ Table[m.ent] \in OwnedTables
                            THEN {"owner_id"} ELSE {})
            fs == [f \in cols |->
                     CASE f = "owner_id" -> u
                       [] f = "packing_now_by" -> IF m.fields["state"] = "packing_now" THEN u ELSE Null
                       [] f = "packed_by_user_id" -> IF m.fields["state"] = "packed" THEN u ELSE Null
                       [] OTHER -> m.fields[f]]
            s == StampServerOwned(m, row, u)
<1>1. s = [m EXCEPT !.fields = fs]
  BY DEF StampServerOwned
<1>2. s.fields = fs
  <2>. HIDE DEF fs
  <2>. QED  BY <1>1 DEF MutationOK
<1>3. DOMAIN fs \ ServerOwned = DOMAIN m.fields \ ServerOwned
  BY DEF StateRecord, ServerOwned
<1>4. \A f \in DOMAIN m.fields \ ServerOwned : fs[f] = m.fields[f]
  BY DEF ServerOwned
<1>5. row.exists => "owner_id" \notin DOMAIN fs
  BY DEF StateRecord, ServerOwned
<1>. HIDE DEF fs, s
<1>. QED  BY <1>2, <1>3, <1>4, <1>5 DEF s

\* A retirement is an upsert of one column.
LEMMA RetireOK ==
  ASSUME NEW m, MutationOK(m)
  PROVE  /\ MutationOK(RetireInstead(m))
         /\ RetireInstead(m).ent = m.ent /\ RetireInstead(m).hlc = m.hlc
         /\ DOMAIN RetireInstead(m).fields = {"retired_at"}
<1>. DEFINE r == RetireInstead(m)
<1>1. FieldsOK([f \in {"retired_at"} |-> m.hlc])
  BY DEF FieldsOK, Field, ValueOK
<1>2. r = [op |-> "upsert", ent |-> m.ent, hlc |-> m.hlc,
           fields |-> [f \in {"retired_at"} |-> m.hlc]]
  BY DEF RetireInstead
<1>3. m.ent \in Entity /\ m.hlc \in Clock
  BY DEF MutationOK
<1>. HIDE DEF r
<1>4. MutationOK(r) /\ r.ent = m.ent /\ r.hlc = m.hlc /\ DOMAIN r.fields = {"retired_at"}
  BY <1>1, <1>2, <1>3 DEF MutationOK
<1>. QED  BY <1>4 DEF r

-----------------------------------------------------------------------------
(* What one step does to one row. *)

Untouched(e) == rows'[e] = rows[e] /\ merged'[e] = merged[e]
Removed(e) == rows'[e] = NoRow /\ merged'[e] = {}
Merges(e, m) == m.ent = e /\ merged'[e] = merged[e] \cup {m}
Rewritten(e, m) == Merges(e, m) /\ m.op = "upsert" /\ rows'[e] = Persisted(m, rows[e])
Outweighed(e, m) ==
    Merges(e, m) /\ rows'[e] = rows[e] /\ rows[e].exists /\ Applied(rows[e], m) = {}

\* What an accepted mutation does to a row, seen from the row.
LEMMA AcceptStep ==
  ASSUME TypeOK, StampsKnown, NEW t, NEW m, MutationOK(m), NEW retired,
         Accept(t, m, rows[m.ent], retired), NEW e \in Entity
  PROVE  Untouched(e) \/ Removed(e) \/ Rewritten(e, m) \/ Outweighed(e, m)
<1>. DEFINE row == rows[m.ent]
            gone == Deleted(row, m) /\ row.exists /\ (e = m.ent \/ e \in FkCascade(m.ent))
            kept == e = m.ent /\ m.op # "delete" /\ Changes(m, row)
<1>1. /\ rows'[e] = IF gone THEN NoRow ELSE IF kept THEN Persisted(m, row) ELSE rows[e]
      /\ merged'[e] = IF ~rows'[e].exists THEN {}
                      ELSE IF e = m.ent THEN merged[e] \cup {m} ELSE merged[e]
  BY DEF Accept
<1>2. ~NoRow.exists
  BY DEF NoRow
<1>3. m.op \in {"upsert", "delete"} /\ RowOK(row)
  BY DEF MutationOK, TypeOK
<1>4. ~rows[e].exists => merged[e] = {}
  BY DEF StampsKnown
<1>5. CASE gone
  <2>. HIDE DEF gone, kept, row
  <2>. QED  BY <1>1, <1>2, <1>5 DEF Removed
<1>6. CASE ~gone /\ kept
  <2>1. Persisted(m, row).exists /\ e = m.ent /\ m.op = "upsert"
    BY <1>3, <1>6, PersistedOK
  <2>2. rows'[e] = Persisted(m, row) /\ row = rows[e]
    BY <1>1, <1>6
  <2>. HIDE DEF gone, kept, row
  <2>. QED  BY <1>1, <2>1, <2>2 DEF Rewritten, Merges
<1>7. CASE ~gone /\ ~kept
  <2>1. rows'[e] = rows[e]
    <3>. HIDE DEF gone, kept
    <3>. QED  BY <1>1, <1>7
  <2>2. e = m.ent /\ rows[e].exists => Applied(rows[e], m) = {}
    BY <1>3, <1>7 DEF Changes, Applied
  <2>. HIDE DEF gone, kept, row
  <2>. QED  BY <1>1, <1>4, <2>1, <2>2 DEF Untouched, Outweighed, Merges
<1>. QED  BY <1>5, <1>6, <1>7

\* The who-columns of a mutation, against the row it meets. A takeover carries
\* the claim alone: the row it meets is being packed and names no packer.
SaysWho(m, row) ==
    \/ \E u \in User : StampedFor(u, m)
    \/ /\ row.exists /\ row.fields["state"] = "packing_now"
       /\ DOMAIN m.fields = {"state", "packing_now_by"}
       /\ m.fields["state"] = "packing_now"
       /\ m.fields["packing_now_by"] \in User

\* The trip the row is in afterwards.
StaysInTrip(m, row) ==
    Table[m.ent] \in TripTables => MergedFields(row, m)["trip_id"] \in Trip

\* A mutation that creates the row is newer than every delete the row's feed
\* has recorded for it.
Outlives(m, row) ==
    ~row.exists => \A x \in changeLog :
        x.ent = m.ent /\ x.deleted /\ x.feed = HomeOf(Persisted(m, row), m.ent) => m.hlc > x.hlc

Fresh(m) == MutationOK(m) /\ m.hlc \notin used /\ m.hlc \in used'

RowSteps(e) ==
    \/ Untouched(e)
    \/ Removed(e)
    \/ \E m : /\ Fresh(m)
              /\ \/ Outweighed(e, m)
                 \/ /\ Rewritten(e, m)
                    /\ SaysWho(m, rows[e]) /\ StaysInTrip(m, rows[e]) /\ Outlives(m, rows[e])

\* A write the scope rule lets through leaves the row in the feed it came by.
LEMMA ScopeOK ==
  ASSUME TypeOK, NEW m, MutationOK(m), m.op = "upsert", NEW t \in Endpoint(m.ent), NEW u,
         ScopeRefusal(u, t, m, rows[m.ent]) = "none"
  PROVE  /\ StaysInTrip(m, rows[m.ent])
         /\ HomeOf(Persisted(m, rows[m.ent]), m.ent) = t
<1>. DEFINE row == rows[m.ent]
<1>1. RowOK(row) /\ m.ent \in Entity
  BY DEF TypeOK, MutationOK
<1>2. CASE Table[m.ent] \in MasterTables
  BY <1>2 DEF StaysInTrip, HomeOf, Endpoint, MasterTables, TripTables
<1>3. CASE Table[m.ent] \notin MasterTables
  <2>1. t \in Trip /\ t # Master
    BY <1>3, NullAssumption DEF Endpoint
  <2>2. BelongsToTrip(t, m, row)
    BY <2>1 DEF ScopeRefusal
  <2>3. MergedFields(row, m)["trip_id"] =
          IF "trip_id" \in Applied(row, m) THEN m.fields["trip_id"] ELSE row.fields["trip_id"]
    BY <1>1, MergedFieldsOK DEF Field
  <2>4. "trip_id" \in Applied(row, m) => "trip_id" \in DOMAIN m.fields
    BY DEF Applied
  <2>5. ~row.exists => "trip_id" \in Applied(row, m)
    BY <2>2 DEF BelongsToTrip, Applied
  <2>6. MergedFields(row, m)["trip_id"] = t
    BY <2>2, <2>3, <2>4, <2>5 DEF BelongsToTrip
  <2>. QED  BY <1>3, <2>1, <2>6 DEF StaysInTrip, HomeOf, Persisted
<1>. QED  BY <1>2, <1>3

\* A first arrival, decided by the pipeline.
LEMMA DecideStep ==
  ASSUME TypeOK, StampsKnown, NEW u \in User, NEW m, MutationOK(m), NEW t \in Endpoint(m.ent),
         m.hlc \notin used, m.hlc \in used', Decide(u, t, m), NEW e \in Entity
  PROVE  RowSteps(e)
<1>. DEFINE row == rows[m.ent]
            s == StampServerOwned(m, row, u)
            r == RetireInstead(s)
<1>1. /\ MutationOK(s) /\ s.op = m.op /\ s.ent = m.ent /\ s.hlc = m.hlc
      /\ StampedFor(u, s)
  BY StampOK
<1>2. CASE Reason(u, t, s, row) # "none"
  <2>1. Reject(t, s, row, Reason(u, t, s, row))
    BY <1>2 DEF Decide
  <2>. QED  BY <2>1 DEF Reject, RowSteps, Untouched
<1>3. CASE Reason(u, t, s, row) = "none" /\ Retires(s, row)
  <2>1. Accept(t, r, row, TRUE)
    BY <1>3 DEF Decide
  <2>2. row.exists /\ Table[m.ent] = "items"
    BY <1>1, <1>3 DEF Retires, StillReferenced, LifecycleTables
  <2>3. MutationOK(r) /\ r.ent = m.ent /\ r.hlc = m.hlc /\ DOMAIN r.fields = {"retired_at"}
    BY <1>1, RetireOK
  <2>4. StampedFor(u, r)
    <3>. HIDE DEF r
    <3>. QED  BY <2>3 DEF StampedFor, StateRecord
  <2>5. SaysWho(r, row)
    BY <2>4 DEF SaysWho
  <2>6. StaysInTrip(r, row) /\ Outlives(r, row)
    BY <2>2, <2>3 DEF StaysInTrip, Outlives, TripTables
  <2>7. Untouched(e) \/ Removed(e) \/ Rewritten(e, r) \/ Outweighed(e, r)
    BY <2>1, <2>3, AcceptStep
  <2>. HIDE DEF r, s
  <2>. QED  BY <2>3, <2>5, <2>6, <2>7 DEF RowSteps, Fresh, Rewritten, Merges
<1>4. CASE Reason(u, t, s, row) = "none" /\ ~Retires(s, row)
  <2>1. Accept(t, s, row, FALSE)
    BY <1>4 DEF Decide
  <2>2. Untouched(e) \/ Removed(e) \/ Rewritten(e, s) \/ Outweighed(e, s)
    BY <1>1, <2>1, AcceptStep
  <2>3. ScopeRefusal(u, t, s, row) = "none" /\ ~TombstoneBeats(t, s, row)
    BY <1>4 DEF Reason
  <2>4. ASSUME s.op = "upsert" PROVE StaysInTrip(s, row) /\ Outlives(s, row)
    <3>1. StaysInTrip(s, row) /\ HomeOf(Persisted(s, row), s.ent) = t
      BY <1>1, <2>3, <2>4, ScopeOK
    <3>2. \A x \in changeLog : x.hlc \in Nat
      BY ClockAssumption DEF TypeOK
    <3>3. s.hlc \in Nat
      BY <1>1, ClockAssumption DEF MutationOK
    <3>. HIDE DEF s
    <3>. QED  BY <2>3, <2>4, <3>1, <3>2, <3>3 DEF Outlives, TombstoneBeats
  <2>5. SaysWho(s, row)
    BY <1>1 DEF SaysWho
  <2>. HIDE DEF s
  <2>. QED  BY <1>1, <2>2, <2>4, <2>5 DEF RowSteps, Fresh, Rewritten, Merges
<1>. QED  BY <1>2, <1>3, <1>4

\* A write the server mints itself, against a row that exists.
LEMMA ServerWriteStep ==
  ASSUME TypeOK, NEW t, NEW m, MutationOK(m), m.op = "upsert", Mints(m.hlc, rows[m.ent]),
         rows[m.ent].exists, ServerWrite(t, m, rows[m.ent]),
         SaysWho(m, rows[m.ent]), StaysInTrip(m, rows[m.ent]), NEW e \in Entity
  PROVE  RowSteps(e)
<1>1. m.hlc \notin used /\ m.hlc \in used' /\ m.ent \in Entity
  BY DEF Mints, ServerWrite, MutationOK
<1>2. DOMAIN rows = Entity /\ DOMAIN merged = Entity
  BY DEF TypeOK
<1>3. /\ rows'[e] = IF e = m.ent THEN Persisted(m, rows[m.ent]) ELSE rows[e]
      /\ merged'[e] = IF e = m.ent THEN merged[e] \cup {m} ELSE merged[e]
  BY <1>1, <1>2 DEF ServerWrite
<1>4. CASE e = m.ent
  <2>1. Rewritten(e, m) /\ Outlives(m, rows[e])
    BY <1>3, <1>4 DEF Rewritten, Merges, Outlives
  <2>. QED  BY <1>1, <1>4, <2>1 DEF RowSteps, Fresh
<1>5. CASE e # m.ent
  BY <1>3, <1>5 DEF RowSteps, Untouched
<1>. QED  BY <1>4, <1>5

\* The takeover's own mutation.
LEMMA TakeOverStep ==
  ASSUME TypeOK, NEW u \in User, NEW c \in Entity, TakeOverClaim(u, c), NEW e \in Entity
  PROVE  RowSteps(e)
<1>. DEFINE row == rows[c]
            fs == [f \in {"state", "packing_now_by"} |->
                     IF f = "state" THEN "packing_now" ELSE u]
            mut(h) == [op |-> "upsert", ent |-> c, hlc |-> h, fields |-> fs]
<1>1. PICK h \in Clock : Mints(h, row) /\ ServerWrite(row.fields["trip_id"], mut(h), row)
  BY DEF TakeOverClaim
<1>2. /\ row.exists /\ Table[c] = "trip_items" /\ row.fields["state"] = "packing_now"
  BY DEF TakeOverClaim
<1>3. MutationOK(mut(h)) /\ mut(h).op = "upsert" /\ mut(h).ent = c /\ mut(h).hlc = h
      /\ mut(h).fields = fs
  <2>1. FieldsOK(fs)
    BY DEF FieldsOK, Field, ValueOK, ItemState
  <2>. HIDE DEF fs
  <2>. QED  BY <2>1 DEF MutationOK
<1>4. SaysWho(mut(h), row)
  <2>1. /\ DOMAIN fs = {"state", "packing_now_by"}
        /\ fs["state"] = "packing_now" /\ fs["packing_now_by"] \in User
    OBVIOUS
  <2>. HIDE DEF fs, mut
  <2>. QED  BY <1>2, <1>3, <2>1 DEF SaysWho
<1>5. StaysInTrip(mut(h), row)
  <2>1. "trip_id" \notin DOMAIN fs
    OBVIOUS
  <2>2. "trip_id" \notin Applied(row, mut(h))
    <3>. HIDE DEF fs, mut
    <3>. QED  BY <1>3, <2>1 DEF Applied
  <2>3. MergedFields(row, mut(h))["trip_id"] = row.fields["trip_id"]
    <3>1. RowOK(row)
      BY DEF TypeOK
    <3>. HIDE DEF fs, mut
    <3>. QED  BY <1>3, <2>2, <3>1, MergedFieldsOK DEF Field
  <2>4. row.fields["trip_id"] \in Trip
    BY <1>2 DEF TypeOK, TripTables
  <2>. HIDE DEF mut
  <2>. QED  BY <2>3, <2>4 DEF StaysInTrip
<1>. HIDE DEF mut
<1>. QED  BY <1>1, <1>2, <1>3, <1>4, <1>5, ServerWriteStep

\* The restore a revert builds from the entries it read.
LEMMA RevertMutationOK ==
  ASSUME NEW u, NEW g, g # {}, \A x \in g : ConflictOK(x), NEW h \in Clock
  PROVE  /\ MutationOK(RevertMutation(u, g, h))
         /\ RevertMutation(u, g, h).op = "upsert"
         /\ RevertMutation(u, g, h).ent = (CHOOSE x \in g : TRUE).ent
         /\ RevertMutation(u, g, h).hlc = h
         /\ StampedFor(u, RevertMutation(u, g, h))
<1>. DEFINE c == CHOOSE x \in g : TRUE
            fs == [f \in {x.field : x \in g} |-> (CHOOSE x \in g : x.field = f).losing]
            m == [op |-> "upsert", ent |-> c.ent, hlc |-> h, fields |-> fs]
<1>1. c \in g
  OBVIOUS
<1>2. \A f \in DOMAIN fs : \E x \in g : x.field = f /\ fs[f] = x.losing
  OBVIOUS
<1>3. FieldsOK(fs)
  <2>1. DOMAIN fs = {x.field : x \in g} /\ fs = [f \in DOMAIN fs |-> fs[f]]
    OBVIOUS
  <2>2. \A f \in DOMAIN fs : f \in Field /\ ValueOK(f, fs[f])
    BY <1>2 DEF ConflictOK
  <2>. HIDE DEF fs
  <2>. QED  BY <2>1, <2>2 DEF FieldsOK
<1>4. c.ent \in Entity
  BY <1>1 DEF ConflictOK
<1>5. MutationOK(m) /\ m.op = "upsert" /\ m.ent = c.ent /\ m.hlc = h
  <2>. HIDE DEF fs, c
  <2>. QED  BY <1>3, <1>4 DEF MutationOK
<1>6. RevertMutation(u, g, h) = StampServerOwned(m, rows[c.ent], u)
  BY DEF RevertMutation
<1>. HIDE DEF m, c
<1>. QED  BY <1>5, <1>6, StampOK DEF c

\* A revert (applyRevert) merges one fresh server-minted mutation into its row.
LEMMA RevertStep ==
  ASSUME TypeOK, NEW u \in User, RevertCommit(u), NEW e \in Entity
  PROVE  RowSteps(e)
<1>. DEFINE g == reverting[u]
            c == CHOOSE x \in g : TRUE
            row == rows[c.ent]
            mut(h) == RevertMutation(u, g, h)
<1>1. PICK h \in Clock : /\ Mints(h, row)
                         /\ RevertGoesThrough(u, c.feed, mut(h), row)
                         /\ ServerWrite(c.feed, mut(h), row)
  BY DEF RevertCommit
<1>2. g # {} /\ \A x \in g : ConflictOK(x)
  BY DEF RevertCommit, TypeOK
<1>3. /\ MutationOK(mut(h)) /\ mut(h).op = "upsert" /\ mut(h).ent = c.ent /\ mut(h).hlc = h
      /\ StampedFor(u, mut(h))
  BY <1>2, RevertMutationOK
<1>4. c \in g /\ c.feed \in Endpoint(c.ent)
  BY <1>2 DEF ConflictOK
<1>. HIDE DEF mut, c
<1>5. row.exists /\ StaysInTrip(mut(h), row)
  BY <1>1, <1>3, <1>4, ScopeOK DEF RevertGoesThrough
<1>6. SaysWho(mut(h), row)
  BY <1>3 DEF SaysWho
<1>. QED  BY <1>1, <1>3, <1>5, <1>6, ServerWriteStep

\* Every step, seen from one row: it is left alone, removed, or meets one
\* mutation whose stamp nobody has used before.
LEMMA RowStep ==
  ASSUME TypeOK, StampsKnown, [Next]_vars, NEW e \in Entity
  PROVE  RowSteps(e)
<1>1. ASSUME NEW u \in User, NEW w \in Write, NEW h \in Clock, NEW t \in Endpoint(w.ent),
             Push(u, t, w, h)
      PROVE  RowSteps(e)
  <2>. DEFINE m == [op |-> w.op, ent |-> w.ent, fields |-> w.fields, hlc |-> h]
  <2>1. MutationOK(m) /\ m.ent = w.ent /\ m.hlc = h
    BY WriteAssumption DEF MutationOK
  <2>2. h \notin used /\ h \in used' /\ ApplyMutation(u, t, m)
    BY <1>1 DEF Push
  <2>. HIDE DEF m
  <2>3. CASE memo[m.hlc] # "none"
    BY <2>2, <2>3 DEF ApplyMutation, RowSteps, Untouched
  <2>4. CASE memo[m.hlc] = "none"
    BY <2>1, <2>2, <2>4, DecideStep DEF ApplyMutation
  <2>. QED  BY <2>3, <2>4
<1>2. ASSUME NEW p \in pushed, Replay(p) PROVE RowSteps(e)
  BY <1>2 DEF Replay, ApplyMutation, StampsKnown, RowSteps, Untouched
<1>3. ASSUME NEW u \in User, NEW c \in conflictLog, RevertRead(u, c) PROVE RowSteps(e)
  BY <1>3 DEF RevertRead, RowSteps, Untouched
<1>4. ASSUME NEW u \in User, RevertAbort(u) PROVE RowSteps(e)
  BY <1>4 DEF RevertAbort, RowSteps, Untouched
<1>5. CASE UNCHANGED vars
  BY <1>5 DEF vars, RowSteps, Untouched
<1>. QED  BY <1>1, <1>2, <1>3, <1>4, <1>5, TakeOverStep, RevertStep DEF Next

-----------------------------------------------------------------------------
(* Type correctness. *)

Entries == [seq : 1 .. head, feed : Feed, ent : Entity, deleted : BOOLEAN, hlc : Clock]

\* An entry one transaction may write.
IsEntry(x) ==
    \E t \in Feed, e \in Entity, i \in 0 .. MaxEntity, del \in BOOLEAN, h \in Clock :
        x = Entry(t, e, i, del, h)

\* Appending to the change log keeps its shape and moves the head on.
LEMMA AppendOK ==
  ASSUME TypeOK, NEW entries, \A x \in entries : IsEntry(x), AppendChangeLog(entries)
  PROVE  head' \in Nat /\ changeLog' \subseteq Entries'
<1>1. head \in Nat /\ MaxEntity \in Nat /\ changeLog \subseteq Entries
  BY EntityAssumption DEF TypeOK, Entries
<1>2. CASE entries = {}
  BY <1>1, <1>2 DEF AppendChangeLog, Entries
<1>3. CASE entries # {}
  <2>1. head' = head + 1 + MaxEntity /\ changeLog' = changeLog \cup entries
    BY <1>3 DEF AppendChangeLog
  <2>2. 1 .. head \subseteq 1 .. head'
    BY <1>1, <2>1
  <2>3. changeLog \subseteq Entries'
    BY <1>1, <2>2 DEF Entries
  <2>4. entries \subseteq Entries'
    <3>1. SUFFICES ASSUME NEW x \in entries PROVE x \in Entries'
      OBVIOUS
    <3>2. PICK t \in Feed, e \in Entity, i \in 0 .. MaxEntity, del \in BOOLEAN, h \in Clock :
            x = Entry(t, e, i, del, h)
      BY DEF IsEntry
    <3>3. head + 1 + i \in 1 .. head'
      BY <1>1, <2>1
    <3>. QED  BY <3>2, <3>3 DEF Entry, Entries
  <2>. QED  BY <1>1, <2>1, <2>3, <2>4
<1>. QED  BY <1>2, <1>3

\* The entries about a row's children.
LEMMA ChildrenAreEntries ==
  ASSUME NEW t \in Feed, NEW m, m.hlc \in Clock, NEW del \in BOOLEAN
  PROVE  \A x \in LogChildren(t, m, del) : IsEntry(x)
<1>1. MaxEntity \in Nat /\ \A c \in Entity : c \in 0 .. MaxEntity
  BY EntityAssumption
<1>. QED  BY <1>1 DEF LogChildren, Cascades, IsEntry

\* What an accepted mutation writes beside the rows.
LEMMA AcceptTypes ==
  ASSUME TypeOK, NEW n, MutationOK(n), NEW t \in Endpoint(n.ent), NEW retired,
         Accept(t, n, rows[n.ent], retired)
  PROVE  /\ head' \in Nat /\ changeLog' \subseteq Entries'
         /\ \E o \in {"applied", "merged"} : memo' = [memo EXCEPT ![n.hlc] = o]
         /\ \A x \in conflictLog' : ConflictOK(x)
         /\ rows' = [e \in Entity |-> rows'[e]] /\ merged' = [e \in Entity |-> merged'[e]]
<1>. DEFINE row == rows[n.ent]
<1>1. n.ent \in Entity /\ n.hlc \in Clock /\ RowOK(row) /\ t \in Feed
  BY DEF MutationOK, TypeOK, Endpoint, Feed
<1>2. \A x \in LogAccepted(t, n, row, retired) : IsEntry(x)
  <2>1. Deleted(row, n) \in BOOLEAN /\ 0 \in 0 .. MaxEntity
    BY EntityAssumption DEF Deleted
  <2>2. IsEntry(Entry(t, n.ent, 0, Deleted(row, n), n.hlc))
    BY <1>1, <2>1 DEF IsEntry
  <2>. HIDE DEF row
  <2>. QED  BY <1>1, <2>2, ChildrenAreEntries DEF LogAccepted
<1>3. head' \in Nat /\ changeLog' \subseteq Entries'
  BY <1>2, AppendOK DEF Accept
<1>4. memo' = [memo EXCEPT ![n.hlc] = Outcome(row, n)] /\ Outcome(row, n) \in {"applied", "merged"}
  BY DEF Accept, Outcome
<1>5. \A x \in conflictLog' : ConflictOK(x)
  <2>1. \A f \in Conflicts(row, n) : f \in Field /\ ValueOK(f, n.fields[f])
    BY DEF Conflicts, MutationOK, FieldsOK
  <2>2. \A x \in conflictLog : ConflictOK(x)
    BY DEF TypeOK
  <2>3. conflictLog' = conflictLog \cup
          {[mut |-> n.hlc, feed |-> t, ent |-> n.ent, field |-> f,
            losing |-> n.fields[f], reverted |-> FALSE] : f \in Conflicts(row, n)}
    BY DEF Accept
  <2>. QED  BY <1>1, <2>1, <2>2, <2>3 DEF ConflictOK
<1>6. rows' = [e \in Entity |-> rows'[e]] /\ merged' = [e \in Entity |-> merged'[e]]
  <2>1. rows' = [e \in Entity |-> rows'[e]]
    BY DEF Accept
  <2>2. merged' = [e \in Entity |-> merged'[e]]
    BY DEF Accept
  <2>. QED  BY <2>1, <2>2
<1>. QED  BY <1>3, <1>4, <1>5, <1>6

\* What a decision writes beside the rows.
LEMMA DecideTypes ==
  ASSUME TypeOK, StampsKnown, NEW u \in User, NEW m, MutationOK(m), NEW t \in Endpoint(m.ent),
         Decide(u, t, m)
  PROVE  /\ head' \in Nat /\ changeLog' \subseteq Entries'
         /\ \E o \in {"applied", "merged", "rejected"} : memo' = [memo EXCEPT ![m.hlc] = o]
         /\ \A x \in conflictLog' : ConflictOK(x)
         /\ rows' = [e \in Entity |-> rows'[e]] /\ merged' = [e \in Entity |-> merged'[e]]
<1>. DEFINE row == rows[m.ent]
            s == StampServerOwned(m, row, u)
            r == RetireInstead(s)
<1>1. MutationOK(s) /\ s.ent = m.ent /\ s.hlc = m.hlc
  BY StampOK
<1>2. m.ent \in Entity /\ m.hlc \in Clock /\ RowOK(row) /\ t \in Feed
  BY DEF MutationOK, TypeOK, Endpoint, Feed
<1>3. MaxEntity \in Nat /\ 0 \in 0 .. MaxEntity /\ \A c \in Entity : c \in 0 .. MaxEntity
  BY EntityAssumption
<1>4. \A x \in LogChildren(t, s, FALSE) : IsEntry(x)
  BY <1>1, <1>2, ChildrenAreEntries
<1>5. ASSUME NEW why, Reject(t, s, row, why)
      PROVE  /\ head' \in Nat /\ changeLog' \subseteq Entries'
             /\ memo' = [memo EXCEPT ![m.hlc] = "rejected"]
             /\ \A x \in conflictLog' : ConflictOK(x)
             /\ rows' = [e \in Entity |-> rows'[e]] /\ merged' = [e \in Entity |-> merged'[e]]
  <2>1. \A x \in RelogRefused(t, s, row) : IsEntry(x)
    <3>1. (IF row.exists THEN row.hlc ELSE s.hlc) \in Clock
      BY <1>1, <1>2 DEF RowOK
    <3>2. row.exists \in BOOLEAN
      BY <1>2 DEF RowOK
    <3>3. IsEntry(Entry(t, s.ent, 0, ~row.exists, IF row.exists THEN row.hlc ELSE s.hlc))
      BY <1>1, <1>2, <1>3, <3>1, <3>2 DEF IsEntry
    <3>. HIDE DEF s, row
    <3>. QED  BY <1>1, <1>2, <1>4, <3>3 DEF RelogRefused
  <2>2. head' \in Nat /\ changeLog' \subseteq Entries'
    <3>. DEFINE es == IF Relogs(t, why) THEN RelogRefused(t, s, row) ELSE {}
    <3>1. AppendChangeLog(es)
      BY <1>5 DEF Reject
    <3>2. \A x \in es : IsEntry(x)
      BY <2>1
    <3>. HIDE DEF es
    <3>. QED  BY <3>1, <3>2, AppendOK
  <2>3. memo' = [memo EXCEPT ![m.hlc] = "rejected"] /\ UNCHANGED <<rows, conflictLog, merged>>
    BY <1>1, <1>5 DEF Reject
  <2>. QED  BY <2>2, <2>3 DEF TypeOK
<1>6. MutationOK(r) /\ r.ent = m.ent /\ r.hlc = m.hlc
  BY <1>1, RetireOK
<1>7. \/ Reject(t, s, row, Reason(u, t, s, row))
      \/ Accept(t, r, row, TRUE)
      \/ Accept(t, s, row, FALSE)
  BY DEF Decide
<1>. HIDE DEF s, r
<1>8. CASE Reject(t, s, row, Reason(u, t, s, row))
  BY <1>5, <1>8
<1>9. CASE Accept(t, r, row, TRUE)
  BY <1>6, <1>9, AcceptTypes
<1>10. CASE Accept(t, s, row, FALSE)
  BY <1>1, <1>10, AcceptTypes
<1>. QED  BY <1>7, <1>8, <1>9, <1>10

\* What a write of the server's own changes beside the rows.
LEMMA ServerWriteTypes ==
  ASSUME TypeOK, NEW t \in Feed, NEW m, MutationOK(m), ServerWrite(t, m, rows[m.ent])
  PROVE  /\ head' \in Nat /\ changeLog' \subseteq Entries'
         /\ rows' = [e \in Entity |-> rows'[e]] /\ merged' = [e \in Entity |-> merged'[e]]
         /\ used' = used \cup {m.hlc} /\ used' \subseteq Clock /\ srvHLC' \in Clock
<1>1. m.ent \in Entity /\ m.hlc \in Clock /\ 0 \in 0 .. MaxEntity
  BY EntityAssumption DEF MutationOK
<1>2. IsEntry(Entry(t, m.ent, 0, FALSE, m.hlc))
  BY <1>1 DEF IsEntry
<1>3. head' \in Nat /\ changeLog' \subseteq Entries'
  <2>. DEFINE es == {Entry(t, m.ent, 0, FALSE, m.hlc)}
  <2>1. AppendChangeLog(es) /\ \A x \in es : IsEntry(x)
    BY <1>2 DEF ServerWrite
  <2>. HIDE DEF es
  <2>. QED  BY <2>1, AppendOK
<1>4. rows' = [e \in Entity |-> rows'[e]]
  BY DEF ServerWrite, TypeOK
<1>5. merged' = [e \in Entity |-> merged'[e]]
  BY DEF ServerWrite, TypeOK
<1>6. used' = used \cup {m.hlc} /\ used' \subseteq Clock /\ srvHLC' \in Clock
  BY <1>1 DEF ServerWrite, TypeOK
<1>. QED  BY <1>3, <1>4, <1>5, <1>6

\* The part of the invariant that is not about rows.
BesideRows ==
    /\ rows = [e \in Entity |-> rows[e]]
    /\ head \in Nat
    /\ changeLog \subseteq Entries
    /\ memo \in [Clock -> {"none", "applied", "merged", "rejected"}]
    /\ \A p \in pushed : /\ MutationOK(p.m) /\ p.user \in User /\ p.feed \in Endpoint(p.m.ent)
                         /\ memo[p.m.hlc] # "none"
    /\ \A x \in conflictLog : ConflictOK(x)
    /\ \A u \in User : \A x \in reverting[u] : ConflictOK(x)
    /\ reverting = [u \in User |-> reverting[u]]
    /\ srvHLC \in Clock \cup {0}
    /\ used \subseteq Clock
    /\ merged = [e \in Entity |-> merged[e]]

\* The part of the invariant that is not about rows, by itself.
LEMMA BesideRowsNow ==
  ASSUME TypeOK, StampsKnown
  PROVE  BesideRows
  BY DEF TypeOK, StampsKnown, BesideRows, Entries

\* Every step keeps log, memo and stamps well typed, and stamps are never unminted.
LEMMA BesideRowsStep ==
  ASSUME TypeOK, StampsKnown, [Next]_vars
  PROVE  BesideRows' /\ used \subseteq used'
<1>0. BesideRows
  BY BesideRowsNow
<1>1. ASSUME NEW u \in User, NEW w \in Write, NEW h \in Clock, NEW t \in Endpoint(w.ent),
             Push(u, t, w, h)
      PROVE  BesideRows' /\ used \subseteq used'
  <2>. DEFINE m == [op |-> w.op, ent |-> w.ent, fields |-> w.fields, hlc |-> h]
  <2>1. MutationOK(m) /\ m.ent = w.ent /\ m.hlc = h
    BY WriteAssumption DEF MutationOK
  <2>2. /\ used' = used \cup {h} /\ ApplyMutation(u, t, m)
        /\ pushed' = pushed \cup {[user |-> u, feed |-> t, m |-> m]}
        /\ UNCHANGED <<reverting, srvHLC>>
    BY <1>1 DEF Push, ApplyMutation
  <2>. HIDE DEF m
  <2>3. /\ rows' = [e \in Entity |-> rows'[e]] /\ merged' = [e \in Entity |-> merged'[e]]
        /\ head' \in Nat /\ changeLog' \subseteq Entries'
        /\ memo' \in [Clock -> {"none", "applied", "merged", "rejected"}]
        /\ memo'[h] # "none" /\ \A c \in Clock : memo[c] # "none" => memo'[c] # "none"
        /\ \A x \in conflictLog' : ConflictOK(x)
    <3>1. CASE memo[m.hlc] # "none"
      BY <1>0, <2>1, <2>2, <3>1 DEF ApplyMutation, BesideRows, Entries
    <3>2. CASE memo[m.hlc] = "none"
      <4>1. Decide(u, t, m)
        BY <2>2, <3>2 DEF ApplyMutation
      <4>2. PICK o \in {"applied", "merged", "rejected"} : memo' = [memo EXCEPT ![m.hlc] = o]
        BY <2>1, <4>1, DecideTypes
      <4>3. memo \in [Clock -> {"none", "applied", "merged", "rejected"}]
        BY <1>0 DEF BesideRows
      <4>4. memo' \in [Clock -> {"none", "applied", "merged", "rejected"}]
        BY <2>1, <4>2, <4>3
      <4>5. memo'[h] # "none" /\ \A c \in Clock : memo[c] # "none" => memo'[c] # "none"
        BY <2>1, <4>2, <4>3
      <4>. QED  BY <2>1, <4>1, <4>4, <4>5, DecideTypes
    <3>. QED  BY <3>1, <3>2
  <2>4. \A p \in pushed' : /\ MutationOK(p.m) /\ p.user \in User /\ p.feed \in Endpoint(p.m.ent)
                           /\ memo'[p.m.hlc] # "none"
    <3>1. ASSUME NEW p \in pushed PROVE p.m.hlc \in Clock
      BY <1>0 DEF BesideRows, MutationOK
    <3>. QED  BY <1>0, <2>1, <2>2, <2>3, <3>1 DEF BesideRows
  <2>. QED  BY <1>0, <2>2, <2>3, <2>4 DEF BesideRows
<1>2. ASSUME NEW p \in pushed, Replay(p) PROVE BesideRows' /\ used \subseteq used'
  <2>1. memo[p.m.hlc] # "none"
    BY DEF StampsKnown
  <2>2. UNCHANGED vars
    BY <1>2, <2>1 DEF Replay, ApplyMutation, vars
  <2>. QED  BY <1>0, <2>2 DEF vars, BesideRows, Entries
<1>3. ASSUME NEW u \in User, NEW c \in Entity, TakeOverClaim(u, c)
      PROVE  BesideRows' /\ used \subseteq used'
  <2>. DEFINE fs == [f \in {"state", "packing_now_by"} |->
                       IF f = "state" THEN "packing_now" ELSE u]
              mut(h) == [op |-> "upsert", ent |-> c, hlc |-> h, fields |-> fs]
  <2>1. PICK h \in Clock : ServerWrite(rows[c].fields["trip_id"], mut(h), rows[c])
    BY <1>3 DEF TakeOverClaim
  <2>2. MutationOK(mut(h)) /\ mut(h).ent = c
    <3>1. FieldsOK(fs)
      BY DEF FieldsOK, Field, ValueOK, ItemState
    <3>. HIDE DEF fs
    <3>. QED  BY <3>1 DEF MutationOK
  <2>3. rows[c].fields["trip_id"] \in Feed
    BY <1>3 DEF TakeOverClaim, TypeOK, TripTables, Feed
  <2>4. UNCHANGED <<memo, pushed, conflictLog, reverting>>
    BY <1>3 DEF TakeOverClaim
  <2>. HIDE DEF mut
  <2>5. /\ head' \in Nat /\ changeLog' \subseteq Entries'
        /\ rows' = [e \in Entity |-> rows'[e]] /\ merged' = [e \in Entity |-> merged'[e]]
        /\ used \subseteq used' /\ used' \subseteq Clock /\ srvHLC' \in Clock
    BY <2>1, <2>2, <2>3, ServerWriteTypes
  <2>. QED  BY <1>0, <2>4, <2>5 DEF BesideRows
<1>4. ASSUME NEW u \in User, NEW c \in conflictLog, RevertRead(u, c)
      PROVE  BesideRows' /\ used \subseteq used'
  <2>1. reverting' = [reverting EXCEPT ![u] = RevertGroup(c)] /\ RevertGroup(c) \subseteq conflictLog
    BY <1>4 DEF RevertRead, RevertGroup
  <2>2. \A v \in User : \A x \in reverting'[v] : ConflictOK(x)
    BY <1>0, <2>1 DEF BesideRows
  <2>3. reverting' = [v \in User |-> reverting'[v]]
    BY <1>0, <2>1 DEF BesideRows
  <2>4. UNCHANGED <<rows, changeLog, head, memo, pushed, conflictLog, srvHLC, used, merged>>
    BY <1>4 DEF RevertRead
  <2>. QED  BY <1>0, <2>2, <2>3, <2>4 DEF BesideRows, Entries
<1>5. ASSUME NEW u \in User, RevertCommit(u) PROVE BesideRows' /\ used \subseteq used'
  <2>. DEFINE g == reverting[u]
              c == CHOOSE x \in g : TRUE
              mut(h) == RevertMutation(u, g, h)
  <2>1. PICK h \in Clock : ServerWrite(c.feed, mut(h), rows[c.ent])
    BY <1>5 DEF RevertCommit
  <2>2. g # {} /\ \A x \in g : ConflictOK(x)
    BY <1>0, <1>5 DEF RevertCommit, BesideRows
  <2>3. MutationOK(mut(h)) /\ mut(h).ent = c.ent
    BY <2>2, RevertMutationOK
  <2>4. c.feed \in Feed
    BY <2>2 DEF ConflictOK, Endpoint, Feed
  <2>5. /\ conflictLog' = {IF x \in g THEN [x EXCEPT !.reverted = TRUE] ELSE x : x \in conflictLog}
        /\ reverting' = [reverting EXCEPT ![u] = {}]
        /\ UNCHANGED <<memo, pushed>>
    BY <1>5 DEF RevertCommit
  <2>. HIDE DEF mut, c, g
  <2>6. /\ head' \in Nat /\ changeLog' \subseteq Entries'
        /\ rows' = [e \in Entity |-> rows'[e]] /\ merged' = [e \in Entity |-> merged'[e]]
        /\ used \subseteq used' /\ used' \subseteq Clock /\ srvHLC' \in Clock
    BY <2>1, <2>3, <2>4, ServerWriteTypes
  <2>7. \A x \in conflictLog' : ConflictOK(x)
    <3>1. ASSUME NEW x \in conflictLog PROVE ConflictOK([x EXCEPT !.reverted = TRUE])
      <4>1. ConflictOK(x)
        BY <1>0 DEF BesideRows
      <4>2. DOMAIN x = {"mut", "feed", "ent", "field", "losing", "reverted"}
        BY <4>1 DEF ConflictOK
      <4>3. /\ DOMAIN [x EXCEPT !.reverted = TRUE] = DOMAIN x
            /\ [x EXCEPT !.reverted = TRUE].ent = x.ent
            /\ [x EXCEPT !.reverted = TRUE].feed = x.feed
            /\ [x EXCEPT !.reverted = TRUE].field = x.field
            /\ [x EXCEPT !.reverted = TRUE].losing = x.losing
        BY <4>2
      <4>. QED  BY <4>1, <4>3 DEF ConflictOK
    <3>2. \A x \in conflictLog : ConflictOK(x)
      BY <1>0 DEF BesideRows
    <3>. QED  BY <2>5, <3>1, <3>2
  <2>8. /\ \A v \in User : \A x \in reverting'[v] : ConflictOK(x)
        /\ reverting' = [v \in User |-> reverting'[v]]
    BY <1>0, <2>5 DEF BesideRows
  <2>. QED  BY <1>0, <2>5, <2>6, <2>7, <2>8 DEF BesideRows
<1>6. ASSUME NEW u \in User, RevertAbort(u) PROVE BesideRows' /\ used \subseteq used'
  <2>1. /\ reverting' = [reverting EXCEPT ![u] = {}]
        /\ UNCHANGED <<rows, changeLog, head, memo, pushed, conflictLog, srvHLC, used, merged>>
    BY <1>6 DEF RevertAbort
  <2>2. /\ \A v \in User : \A x \in reverting'[v] : ConflictOK(x)
        /\ reverting' = [v \in User |-> reverting'[v]]
    BY <1>0, <2>1 DEF BesideRows
  <2>. QED  BY <1>0, <2>1, <2>2 DEF BesideRows, Entries
<1>7. CASE UNCHANGED vars
  BY <1>0, <1>7 DEF vars, BesideRows, Entries
<1>. QED  BY <1>1, <1>2, <1>3, <1>4, <1>5, <1>6, <1>7 DEF Next

\* What one row contributes to the invariant.
RowKnown(e, row, history, minted) ==
    /\ RowOK(row)
    /\ row.exists /\ Table[e] \in TripTables => row.fields["trip_id"] \in Trip
    /\ \A m \in history : MutationOK(m) /\ m.hlc \in minted
    /\ row.exists => row.hlc \in minted /\ \A f \in Field : row.clocks[f] \in minted
    /\ ~row.exists => history = {}

RowsKnown == \A e \in Entity : RowKnown(e, rows[e], merged[e], used)

\* The step leaves every row alone, removes it or merges into it.
EveryRowSteps == \A e \in Entity : RowSteps(e)

\* Such a step keeps each row well typed and its stamps among the minted ones.
LEMMA RowsKnownStep ==
  ASSUME TypeOK, StampsKnown, used \subseteq used', EveryRowSteps
  PROVE  RowsKnown'
<1>1. SUFFICES ASSUME NEW e \in Entity PROVE RowKnown(e, rows'[e], merged'[e], used')
  BY DEF RowsKnown, RowKnown, RowOK, MutationOK, FieldsOK, ValueOK
<1>2. RowKnown(e, rows[e], merged[e], used)
  BY DEF TypeOK, StampsKnown, RowKnown
<1>3. used \subseteq used'
  OBVIOUS
<1>4. RowSteps(e)
  BY DEF EveryRowSteps
<1>5. CASE Untouched(e)
  BY <1>2, <1>3, <1>5 DEF Untouched, RowKnown
<1>6. CASE Removed(e)
  <2>1. RowOK(rows'[e]) /\ ~rows'[e].exists /\ merged'[e] = {}
    BY <1>6, NoRowOK DEF Removed, NoRow
  <2>. QED  BY <2>1 DEF RowKnown
<1>7. ASSUME NEW m, Fresh(m), Outweighed(e, m)
      PROVE  RowKnown(e, rows'[e], merged'[e], used')
  BY <1>2, <1>3, <1>7 DEF Outweighed, Merges, Fresh, RowKnown
<1>8. ASSUME NEW m, Fresh(m), Rewritten(e, m), StaysInTrip(m, rows[e])
      PROVE  RowKnown(e, rows'[e], merged'[e], used')
  <2>. DEFINE p == Persisted(m, rows[e])
  <2>1. MutationOK(m) /\ m.ent = e /\ m.hlc \in used' /\ rows'[e] = p
        /\ merged'[e] = merged[e] \cup {m}
    BY <1>8 DEF Fresh, Rewritten, Merges
  <2>2. /\ RowOK(p) /\ p.exists /\ p.hlc = MaxHLC(rows[e].hlc, m.hlc)
        /\ \A f \in Field : p.clocks[f] =
             IF ~rows[e].exists \/ f \in Applied(rows[e], m) THEN m.hlc ELSE rows[e].clocks[f]
    BY <1>2, <2>1, PersistedOK DEF RowKnown
  <2>3. p.hlc \in used'
    <3>1. ~rows[e].exists => rows[e].hlc = 0
      BY <1>2 DEF RowKnown, RowOK, NoRow
    <3>2. m.hlc \in Nat /\ m.hlc > 0
      BY <2>1, ClockPositive DEF MutationOK
    <3>3. ~rows[e].exists => MaxHLC(rows[e].hlc, m.hlc) = m.hlc
      BY <3>1, <3>2 DEF MaxHLC
    <3>. HIDE DEF p
    <3>. QED  BY <1>2, <1>3, <2>1, <2>2, <3>3 DEF MaxHLC, RowKnown
  <2>4. Table[e] \in TripTables => p.fields["trip_id"] \in Trip
    BY <1>8, <2>1 DEF StaysInTrip, Persisted
  <2>. HIDE DEF p
  <2>. QED  BY <1>2, <1>3, <2>1, <2>2, <2>3, <2>4 DEF RowKnown
<1>. QED  BY <1>4, <1>5, <1>6, <1>7, <1>8 DEF RowSteps

\* The inductive invariant holds initially and is kept by every step.
LEMMA TypeInit == Init => TypeOK /\ StampsKnown
<1>. SUFFICES ASSUME Init PROVE TypeOK /\ StampsKnown
  OBVIOUS
<1>2. \A e \in Entity : rows[e] = NoRow /\ merged[e] = {}
  BY DEF Init
<1>3. ~NoRow.exists
  BY DEF NoRow
<1>4. \A e \in Entity : RowOK(rows[e]) /\ ~rows[e].exists
  BY <1>2, <1>3, NoRowOK
<1>. QED  BY <1>2, <1>4 DEF Init, TypeOK, StampsKnown

\* The two halves together: the inductive invariant is kept by every step.
LEMMA TypeStep == TypeOK /\ StampsKnown /\ [Next]_vars => TypeOK' /\ StampsKnown'
<1>. SUFFICES ASSUME TypeOK, StampsKnown, [Next]_vars PROVE TypeOK' /\ StampsKnown'
  OBVIOUS
<1>1. BesideRows' /\ used \subseteq used' /\ EveryRowSteps
  BY BesideRowsStep, RowStep DEF EveryRowSteps
<1>2. RowsKnown'
  BY <1>1, RowsKnownStep
<1>3. (BesideRows /\ RowsKnown => TypeOK /\ StampsKnown)'
  BY DEF BesideRows, RowsKnown, RowKnown, TypeOK, StampsKnown, Entries
<1>. QED  BY <1>1, <1>2, <1>3

\* Both together are inductive; every theorem below rests on them.
LEMMA Inductive == Spec => [](TypeOK /\ StampsKnown)
  BY TypeInit, TypeStep, PTL DEF Spec

\* Every table, feed, log and memo of the store keeps its shape through pushes,
\* replays, takeovers and reverts (partition.go:130-253).
THEOREM ServerTypeOK == Spec => []TypeOK
  BY Inductive, PTL

-----------------------------------------------------------------------------
(* What the merge rules guarantee of a row. *)

\* What a rewritten row holds, column by column.
LEMMA RewrittenRow ==
  ASSUME TypeOK, NEW e \in Entity, NEW m, Fresh(m), Rewritten(e, m)
  PROVE  /\ rows'[e].exists
         /\ rows'[e].hlc = MaxHLC(rows[e].hlc, m.hlc)
         /\ \A f \in Field : rows'[e].fields[f] =
              IF f \in Applied(rows[e], m) THEN m.fields[f] ELSE rows[e].fields[f]
         /\ \A f \in Field : rows'[e].clocks[f] =
              IF ~rows[e].exists \/ f \in Applied(rows[e], m) THEN m.hlc ELSE rows[e].clocks[f]
<1>1. RowOK(rows[e]) /\ MutationOK(m) /\ rows'[e] = Persisted(m, rows[e])
  BY DEF TypeOK, Fresh, Rewritten
<1>. QED  BY <1>1, PersistedOK

\* The clocks of the row a mutation meets.
LEMMA ClocksAreNumbers ==
  ASSUME TypeOK, NEW e \in Entity
  PROVE  /\ rows[e].hlc \in Nat
         /\ rows[e].exists => \A f \in Field : rows[e].clocks[f] \in Nat
         /\ ~rows[e].exists => rows[e] = NoRow /\ rows[e].hlc = 0
<1>1. RowOK(rows[e])
  BY DEF TypeOK
<1>2. NoRow.hlc = 0
  BY DEF NoRow
<1>3. Clock \subseteq Nat
  BY ClockAssumption
<1>4. CASE rows[e].exists
  <2>1. rows[e].hlc \in Clock /\ rows[e].clocks \in [Field -> Clock]
    BY <1>1, <1>4 DEF RowOK
  <2>. QED  BY <1>3, <1>4, <2>1
<1>5. CASE ~rows[e].exists
  <2>1. rows[e] = NoRow
    BY <1>1, <1>5 DEF RowOK
  <2>. QED  BY <1>2, <1>5, <2>1
<1>. QED  BY <1>4, <1>5

\* persist takes the larger of the two clocks, so no column overtakes its row.
LEMMA RowClockBoundsStep ==
  TypeOK /\ StampsKnown /\ RowClockBounds /\ EveryRowSteps => RowClockBounds'
<1>. SUFFICES ASSUME TypeOK, StampsKnown, RowClockBounds, EveryRowSteps, NEW e \in Entity,
                     rows'[e].exists, NEW f \in Field
              PROVE  rows'[e].clocks[f] <= rows'[e].hlc
  BY DEF RowClockBounds
<1>1. rows[e].exists => rows[e].clocks[f] <= rows[e].hlc
  BY DEF RowClockBounds
<1>2. RowSteps(e)
  BY DEF EveryRowSteps
<1>3. CASE Untouched(e)
  BY <1>1, <1>3 DEF Untouched
<1>4. CASE Removed(e)
  BY <1>4 DEF Removed, NoRow
<1>5. ASSUME NEW m, Fresh(m), Outweighed(e, m) PROVE rows'[e].clocks[f] <= rows'[e].hlc
  BY <1>1, <1>5 DEF Outweighed
<1>6. ASSUME NEW m, Fresh(m), Rewritten(e, m) PROVE rows'[e].clocks[f] <= rows'[e].hlc
  <2>1. m.hlc \in Nat
    BY <1>6, ClockPositive DEF Fresh, MutationOK
  <2>2. /\ rows'[e].hlc = MaxHLC(rows[e].hlc, m.hlc)
        /\ rows'[e].clocks[f] =
             IF ~rows[e].exists \/ f \in Applied(rows[e], m) THEN m.hlc ELSE rows[e].clocks[f]
    BY <1>6, RewrittenRow
  <2>3. rows[e].hlc \in Nat /\ (rows[e].exists => rows[e].clocks[f] \in Nat)
    BY ClocksAreNumbers
  <2>. QED  BY <1>1, <2>1, <2>2, <2>3 DEF MaxHLC
<1>. QED  BY <1>2, <1>3, <1>4, <1>5, <1>6 DEF RowSteps

\* A row's own clock bounds the clock of every column (merge.go:73-76).
THEOREM ServerRowClockBounds == Spec => []RowClockBounds
<1>1. Init => RowClockBounds
  BY DEF Init, RowClockBounds, NoRow
<1>2. TypeOK /\ StampsKnown /\ [Next]_vars => EveryRowSteps
  BY RowStep DEF EveryRowSteps
<1>. QED  BY <1>1, <1>2, Inductive, RowClockBoundsStep, PTL DEF Spec

\* A merge applies a plain column exactly when the mutation is newer than it.
LEMMA LastWriterWinsStep ==
  TypeOK /\ StampsKnown /\ LastWriterWins /\ EveryRowSteps => LastWriterWins'
<1>. DEFINE Newest(n, f, row) == /\ n.hlc <= row.clocks[f]
                                 /\ n.hlc = row.clocks[f] => row.fields[f] = n.fields[f]
<1>. SUFFICES ASSUME TypeOK, StampsKnown, LastWriterWins, EveryRowSteps, NEW e \in Entity,
                     NEW n \in merged'[e], NEW f \in DOMAIN n.fields \cap PlainField
              PROVE  Newest(n, f, rows'[e])
  BY DEF LastWriterWins
<1>1. n \in merged[e] => Newest(n, f, rows[e])
  BY DEF LastWriterWins
<1>2. f \in Field /\ f \notin StateGroup \cup StateRecord \cup AdditiveFields
  BY DEF PlainField
<1>3. n \in merged[e] => rows[e].exists /\ n.hlc \in Nat
  BY ClockPositive DEF StampsKnown, TypeOK, MutationOK
<1>4. /\ rows[e].exists => rows[e].clocks[f] \in Nat /\ rows[e].clocks[f] \in used
      /\ rows[e].exists => ClockOf(rows[e], f) = rows[e].clocks[f]
  BY <1>2, ClocksAreNumbers DEF StampsKnown, TypeOK, RowOK, ClockOf
<1>5. ASSUME NEW m, Fresh(m), f \in DOMAIN m.fields, m.op = "upsert"
      PROVE  /\ m.hlc \in Nat /\ m.hlc \notin used
             /\ rows[e].exists => (f \in Applied(rows[e], m) <=> m.hlc > rows[e].clocks[f])
             /\ ~rows[e].exists => f \in Applied(rows[e], m)
  <2>1. m.hlc \in Nat /\ m.hlc \notin used
    BY <1>5, ClockPositive DEF Fresh, MutationOK
  <2>. QED  BY <1>2, <1>4, <1>5, <2>1 DEF Applied, Wins
<1>6. RowSteps(e)
  BY DEF EveryRowSteps
<1>7. CASE Untouched(e)
  BY <1>1, <1>7 DEF Untouched
<1>8. CASE Removed(e)
  BY <1>8 DEF Removed
<1>9. ASSUME NEW m, Fresh(m), Outweighed(e, m) PROVE Newest(n, f, rows'[e])
  <2>1. /\ rows'[e] = rows[e] /\ rows[e].exists /\ merged'[e] = merged[e] \cup {m}
        /\ Applied(rows[e], m) = {}
    BY <1>9 DEF Outweighed, Merges
  <2>2. CASE n \in merged[e]
    BY <1>1, <2>1, <2>2
  <2>3. CASE n = m
    <3>1. m.op = "upsert"
      BY <1>9, <2>3 DEF Fresh, MutationOK
    <3>2. m.hlc \in Nat /\ m.hlc \notin used /\ ~(m.hlc > rows[e].clocks[f])
      BY <1>5, <1>9, <2>1, <2>3, <3>1
    <3>. QED  BY <1>4, <2>1, <2>3, <3>2
  <2>. QED  BY <2>1, <2>2, <2>3
<1>10. ASSUME NEW m, Fresh(m), Rewritten(e, m) PROVE Newest(n, f, rows'[e])
  <2>1. m.op = "upsert" /\ merged'[e] = merged[e] \cup {m}
    BY <1>10 DEF Rewritten, Merges
  <2>2. /\ rows'[e].fields[f] =
             IF f \in Applied(rows[e], m) THEN m.fields[f] ELSE rows[e].fields[f]
        /\ rows'[e].clocks[f] =
             IF ~rows[e].exists \/ f \in Applied(rows[e], m) THEN m.hlc ELSE rows[e].clocks[f]
    BY <1>2, <1>10, RewrittenRow
  <2>3. Applied(rows[e], m) \subseteq DOMAIN m.fields
    BY DEF Applied
  <2>4. CASE n \in merged[e] /\ f \in Applied(rows[e], m)
    BY <1>1, <1>3, <1>4, <1>5, <1>10, <2>1, <2>2, <2>3, <2>4
  <2>5. CASE n \in merged[e] /\ f \notin Applied(rows[e], m)
    BY <1>1, <1>3, <2>2, <2>5
  <2>6. CASE n = m
    BY <1>4, <1>5, <1>10, <2>1, <2>2, <2>6
  <2>. QED  BY <2>1, <2>4, <2>5, <2>6
<1>. QED  BY <1>6, <1>7, <1>8, <1>9, <1>10 DEF RowSteps

\* Field-level last writer wins, whatever the order of arrival (merge.go:181).
THEOREM ServerLastWriterWins == Spec => []LastWriterWins
<1>1. Init => LastWriterWins
  BY DEF Init, LastWriterWins
<1>2. TypeOK /\ StampsKnown /\ [Next]_vars => EveryRowSteps
  BY RowStep DEF EveryRowSteps
<1>. QED  BY <1>1, <1>2, Inductive, LastWriterWinsStep, PTL DEF Spec

\* The stamp step derives the who-columns from the state, and the merge takes
\* them with it or not at all.
LEMMA RecordDescribesStateStep ==
  TypeOK /\ StampsKnown /\ RecordDescribesState /\ [Next]_vars => RecordDescribesState'
<1>. DEFINE Describes(fs) ==
       /\ fs["packed_by_user_id"] # Null <=> fs["state"] = "packed"
       /\ fs["packing_now_by"] # Null <=> fs["state"] = "packing_now"
<1>. SUFFICES ASSUME TypeOK, StampsKnown, RecordDescribesState, [Next]_vars, NEW e \in Entity,
                     rows'[e].exists
              PROVE  Describes(rows'[e].fields)
  BY DEF RecordDescribesState
<1>1. Describes(rows[e].fields)
  <2>1. CASE rows[e].exists
    BY <2>1 DEF RecordDescribesState
  <2>2. CASE ~rows[e].exists
    <3>1. rows[e].fields = Default
      BY <2>2, ClocksAreNumbers DEF NoRow
    <3>. QED  BY <3>1 DEF Default, Field
  <2>. QED  BY <2>1, <2>2
<1>2. RowSteps(e)
  BY RowStep
<1>3. CASE Untouched(e)
  BY <1>1, <1>3 DEF Untouched
<1>4. CASE Removed(e)
  BY <1>4 DEF Removed, NoRow
<1>5. ASSUME NEW m, Fresh(m), Outweighed(e, m) PROVE Describes(rows'[e].fields)
  BY <1>1, <1>5 DEF Outweighed
<1>6. ASSUME NEW m, Fresh(m), Rewritten(e, m), SaysWho(m, rows[e])
      PROVE  Describes(rows'[e].fields)
  <2>. DEFINE Who == {"state"} \cup StateRecord
              wins == ~rows[e].exists \/ GroupDecision(rows[e], m)
  <2>1. \A f \in Who : rows'[e].fields[f] =
          IF f \in Applied(rows[e], m) THEN m.fields[f] ELSE rows[e].fields[f]
    BY <1>6, RewrittenRow DEF StateRecord, Field
  <2>2. \A f \in Who : f \in Applied(rows[e], m) <=> wins /\ f \in DOMAIN m.fields
    BY <1>6 DEF Applied, Wins, StateGroup, StateRecord, AdditiveFields, Rewritten
  <2>3. \A u \in User : u # Null
    BY NullAssumption
  <2>. HIDE DEF wins
  <2>4. ASSUME NEW u \in User, StampedFor(u, m) PROVE Describes(rows'[e].fields)
    <3>1. CASE "state" \in DOMAIN m.fields /\ wins
      BY <2>1, <2>2, <2>3, <2>4, <3>1 DEF StampedFor, StateRecord
    <3>2. CASE "state" \notin DOMAIN m.fields \/ ~wins
      BY <1>1, <2>1, <2>2, <2>4, <3>2 DEF StampedFor, StateRecord
    <3>. QED  BY <3>1, <3>2
  <2>5. ASSUME rows[e].fields["state"] = "packing_now",
               DOMAIN m.fields = {"state", "packing_now_by"},
               m.fields["state"] = "packing_now", m.fields["packing_now_by"] \in User
        PROVE  Describes(rows'[e].fields)
    BY <1>1, <2>1, <2>2, <2>3, <2>5 DEF StateRecord
  <2>. QED  BY <1>6, <2>4, <2>5 DEF SaysWho
<1>. QED  BY <1>2, <1>3, <1>4, <1>5, <1>6 DEF RowSteps

\* A row names a packer exactly when it is packed and a claim holder exactly
\* when it is being packed (merge.go:105-112, stamp.go:140-208).
THEOREM ServerRecordDescribesState == Spec => []RecordDescribesState
<1>1. Init => RecordDescribesState
  BY DEF Init, RecordDescribesState, NoRow
<1>. QED  BY <1>1, Inductive, RecordDescribesStateStep, PTL DEF Spec

\* packing_now never displaces packed, by no route (merge.go:282-297).
THEOREM ServerPackedOutranksClaim == Spec => PackedOutranksClaim
<1>. DEFINE Outranks(e) == rows[e].exists /\ rows[e].fields["state"] = "packed"
                             => rows'[e].fields["state"] # "packing_now"
<1>1. ASSUME TypeOK, StampsKnown, [Next]_vars, NEW e \in Entity PROVE Outranks(e)
  <2>1. RowSteps(e)
    BY <1>1, RowStep
  <2>2. CASE Untouched(e)
    BY <2>2 DEF Untouched
  <2>3. CASE Removed(e)
    BY <2>3 DEF Removed, NoRow, Default, Field
  <2>4. ASSUME NEW m, Fresh(m), Outweighed(e, m) PROVE Outranks(e)
    BY <2>4 DEF Outweighed
  <2>5. ASSUME NEW m, Fresh(m), Rewritten(e, m) PROVE Outranks(e)
    <3>1. rows'[e].fields["state"] =
            IF "state" \in Applied(rows[e], m) THEN m.fields["state"] ELSE rows[e].fields["state"]
      BY <1>1, <2>5, RewrittenRow DEF Field
    <3>2. rows[e].exists /\ "state" \in Applied(rows[e], m)
            => "state" \in DOMAIN m.fields /\ GroupDecision(rows[e], m)
      BY DEF Applied, Wins, StateGroup, AdditiveFields
    <3>. QED  BY <3>1, <3>2 DEF GroupDecision
  <2>. QED  BY <2>1, <2>2, <2>3, <2>4, <2>5 DEF RowSteps
<1>2. TypeOK /\ StampsKnown /\ [Next]_vars => [\A e \in Entity : Outranks(e)]_vars
  BY <1>1
<1>. QED  BY <1>2, Inductive, PTL DEF Spec, PackedOutranksClaim

\* A write no newer than a delete the row's feed recorded never brings the row
\* back, whoever sends it (partition.go:163-178).
THEOREM ServerNoStaleResurrection == Spec => NoStaleResurrection
<1>. DEFINE Outlived(e) ==
       ~rows[e].exists /\ rows'[e].exists =>
         \A x \in changeLog : x.ent = e /\ x.deleted /\ x.feed = HomeOf(rows'[e], e)
           => rows'[e].hlc > x.hlc
<1>1. ASSUME TypeOK, StampsKnown, [Next]_vars, NEW e \in Entity PROVE Outlived(e)
  <2>1. RowSteps(e)
    BY <1>1, RowStep
  <2>2. CASE Untouched(e)
    BY <2>2 DEF Untouched
  <2>3. CASE Removed(e)
    BY <2>3 DEF Removed, NoRow
  <2>4. ASSUME NEW m, Fresh(m), Outweighed(e, m) PROVE Outlived(e)
    BY <2>4 DEF Outweighed
  <2>5. ASSUME NEW m, Fresh(m), Rewritten(e, m), Outlives(m, rows[e]) PROVE Outlived(e)
    <3>. SUFFICES ASSUME ~rows[e].exists PROVE Outlived(e)
      OBVIOUS
    <3>1. m.ent = e /\ rows'[e] = Persisted(m, rows[e])
      BY <2>5 DEF Rewritten, Merges
    <3>2. rows'[e].hlc = m.hlc
      <4>1. rows'[e].hlc = MaxHLC(rows[e].hlc, m.hlc) /\ rows[e].hlc = 0
        BY <1>1, <2>5, RewrittenRow, ClocksAreNumbers
      <4>2. m.hlc \in Nat /\ m.hlc > 0
        BY <2>5, ClockPositive DEF Fresh, MutationOK
      <4>. QED  BY <4>1, <4>2 DEF MaxHLC
    <3>. QED  BY <2>5, <3>1, <3>2 DEF Outlives
  <2>. QED  BY <2>1, <2>2, <2>3, <2>4, <2>5 DEF RowSteps
<1>2. TypeOK /\ StampsKnown /\ [Next]_vars => [\A e \in Entity : Outlived(e)]_vars
  BY <1>1
<1>. QED  BY <1>2, Inductive, PTL DEF Spec, NoStaleResurrection

\* state and packed_count follow one decision: a write that carries both leaves
\* both as it says or both as they were (merge.go:99-103, 275-281).
THEOREM ServerPairMovesTogether == Spec => PairMovesTogether
<1>. DEFINE Paired(e) ==
       rows[e].exists =>
         \A m \in merged'[e] \ merged[e] : StateGroup \subseteq DOMAIN m.fields =>
            \/ \A f \in StateGroup : rows'[e].fields[f] = m.fields[f]
            \/ \A f \in StateGroup : rows'[e].fields[f] = rows[e].fields[f]
<1>1. ASSUME TypeOK, StampsKnown, [Next]_vars, NEW e \in Entity PROVE Paired(e)
  <2>1. RowSteps(e)
    BY <1>1, RowStep
  <2>2. CASE Untouched(e) \/ Removed(e)
    BY <2>2 DEF Untouched, Removed
  <2>3. ASSUME NEW m, Fresh(m), Outweighed(e, m) PROVE Paired(e)
    BY <2>3 DEF Outweighed, Merges
  <2>4. ASSUME NEW m, Fresh(m), Rewritten(e, m) PROVE Paired(e)
    <3>. SUFFICES ASSUME rows[e].exists, StateGroup \subseteq DOMAIN m.fields
                  PROVE  \/ \A f \in StateGroup : rows'[e].fields[f] = m.fields[f]
                         \/ \A f \in StateGroup : rows'[e].fields[f] = rows[e].fields[f]
      BY <2>4 DEF Rewritten, Merges
    <3>1. \A f \in StateGroup : rows'[e].fields[f] =
            IF f \in Applied(rows[e], m) THEN m.fields[f] ELSE rows[e].fields[f]
      BY <1>1, <2>4, RewrittenRow DEF StateGroup, Field
    <3>2. \A f \in StateGroup : f \in Applied(rows[e], m) <=> GroupDecision(rows[e], m)
      BY <2>4 DEF Applied, Wins, StateGroup, AdditiveFields, Rewritten
    <3>. QED  BY <3>1, <3>2
  <2>. QED  BY <2>1, <2>2, <2>3, <2>4 DEF RowSteps
<1>2. TypeOK /\ StampsKnown /\ [Next]_vars => [\A e \in Entity : Paired(e)]_vars
  BY <1>1
<1>. QED  BY <1>2, Inductive, PTL DEF Spec, PairMovesTogether

\* A replay finds the memo of the push it repeats and leaves the whole store as
\* it was: the answer was recorded in the step that decided it
\* (partition.go:143-147, pipeline.go:82-118).
THEOREM ServerReplayIsIdle == Spec => ReplayIsIdle
<1>1. ASSUME StampsKnown, NEW p \in pushed, Replay(p) PROVE UNCHANGED vars
  BY <1>1 DEF StampsKnown, Replay, ApplyMutation, vars
<1>2. TypeOK /\ StampsKnown => [\A p \in pushed : Replay(p) => UNCHANGED vars]_vars
  BY <1>1
<1>. QED  BY <1>2, Inductive, PTL DEF ReplayIsIdle

-----------------------------------------------------------------------------
(* The revert of a conflict. *)

\* What a revert can count on. A logged loss names a minted stamp and a column
\* the clients own, and is the only one of its push, row and column; the group a
\* revert has read is unspent, of one push and one row, and of columns that win
\* or lose together.
LossesApart(log) ==
    \A x, y \in log : x.mut = y.mut /\ x.ent = y.ent /\ x.field = y.field => x = y

OneGroup(g) ==
    \A x, y \in g : /\ ~x.reverted
                    /\ x.field \notin ServerOwned
                    /\ x.mut = y.mut /\ x.ent = y.ent
                    /\ y.field \in GroupedWith(x.field)
                    /\ x.field = y.field => x = y

GroupsKnown ==
    /\ \A x \in conflictLog : x.mut \in used /\ x.field \notin ServerOwned
    /\ LossesApart(conflictLog)
    /\ \A u \in User : OneGroup(reverting[u])

\* A logged loss with its revert marked, apart from the mark.
LEMMA Spent ==
  ASSUME NEW x, ConflictOK(x)
  PROVE  LET y == [x EXCEPT !.reverted = TRUE] IN
         /\ y.mut = x.mut /\ y.ent = x.ent /\ y.field = x.field /\ y.losing = x.losing
         /\ y.reverted = TRUE
<1>1. DOMAIN x = {"mut", "feed", "ent", "field", "losing", "reverted"}
  BY DEF ConflictOK
<1>. QED  BY <1>1

\* The losses a decision logs: all of its own mutation, one per column.
LEMMA DecideLosses ==
  ASSUME TypeOK, NEW u \in User, NEW m, MutationOK(m), NEW t, Decide(u, t, m),
         GroupsKnown, m.hlc \notin used
  PROVE  /\ \A x \in conflictLog' : (x \in conflictLog \/ x.mut = m.hlc) /\ x.field \notin ServerOwned
         /\ LossesApart(conflictLog')
<1>. DEFINE row == rows[m.ent]
            s == StampServerOwned(m, row, u)
            r == RetireInstead(s)
            Loss(n, f) == [mut |-> n.hlc, feed |-> t, ent |-> n.ent, field |-> f,
                           losing |-> n.fields[f], reverted |-> FALSE]
<1>1. MutationOK(s) /\ s.hlc = m.hlc
  BY StampOK
<1>2. MutationOK(r) /\ r.hlc = m.hlc /\ DOMAIN r.fields = {"retired_at"}
  BY <1>1, RetireOK
<1>3. \A f \in Conflicts(row, s) : f \notin ServerOwned
  <2>1. \A f \in Conflicts(row, s) : row.exists /\ f \in DOMAIN s.fields /\ f \notin StateRecord
    BY DEF Conflicts
  <2>2. row.exists => "owner_id" \notin DOMAIN s.fields
    BY StampColumns
  <2>. HIDE DEF s
  <2>. QED  BY <2>1, <2>2 DEF StateRecord, ServerOwned
<1>4. \A f \in Conflicts(row, r) : f \notin ServerOwned
  <2>1. \A f \in Conflicts(row, r) : f \in DOMAIN r.fields
    BY DEF Conflicts
  <2>. HIDE DEF r
  <2>. QED  BY <1>2, <2>1 DEF ServerOwned
<1>5. ASSUME NEW n, n.hlc = m.hlc, \A f \in Conflicts(row, n) : f \notin ServerOwned,
             conflictLog' = conflictLog \cup {Loss(n, f) : f \in Conflicts(row, n)}
      PROVE  /\ \A x \in conflictLog' : (x \in conflictLog \/ x.mut = m.hlc) /\ x.field \notin ServerOwned
             /\ LossesApart(conflictLog')
  <2>. HIDE DEF row
  <2>1. \A x \in conflictLog : x.mut # m.hlc /\ x.field \notin ServerOwned
    BY DEF GroupsKnown
  <2>2. ASSUME NEW x \in conflictLog', x \notin conflictLog
        PROVE  \E f \in Conflicts(row, n) : x = Loss(n, f)
    BY <1>5, <2>2
  <2>3. \A f \in Conflicts(row, n) : /\ Loss(n, f).mut = m.hlc /\ Loss(n, f).field = f
    BY <1>5
  <2>4. \A x \in conflictLog' : x \in conflictLog \/ x.mut = m.hlc
    BY <2>2, <2>3
  <2>5. \A x \in conflictLog' : x.field \notin ServerOwned
    BY <1>5, <2>1, <2>2, <2>3
  <2>6. ASSUME NEW x \in conflictLog', NEW y \in conflictLog',
               x.mut = y.mut, x.ent = y.ent, x.field = y.field
        PROVE  x = y
    <3>. HIDE DEF Loss
    <3>1. CASE x \in conflictLog /\ y \in conflictLog
      BY <2>6, <3>1 DEF GroupsKnown, LossesApart
    <3>2. CASE x \notin conflictLog /\ y \notin conflictLog
      BY <2>2, <2>3, <2>6, <3>2
    <3>3. CASE (x \in conflictLog) # (y \in conflictLog)
      BY <2>1, <2>4, <2>6, <3>3
    <3>. QED  BY <3>1, <3>2, <3>3
  <2>. QED  BY <2>4, <2>5, <2>6 DEF LossesApart
<1>6. \/ conflictLog' = conflictLog
      \/ conflictLog' = conflictLog \cup {Loss(s, f) : f \in Conflicts(row, s)}
      \/ conflictLog' = conflictLog \cup {Loss(r, f) : f \in Conflicts(row, r)}
  BY DEF Decide, Reject, Accept
<1>7. CASE conflictLog' = conflictLog
  BY <1>7 DEF GroupsKnown
<1>. HIDE DEF s, r, row, Loss
<1>. QED  BY <1>1, <1>2, <1>3, <1>4, <1>5, <1>6, <1>7

\* What a step may do to the log without disturbing a group: add losses under a
\* stamp of its own, or mark entries.
LEMMA GroupsKnownStep ==
  TypeOK /\ StampsKnown /\ GroupsKnown /\ [Next]_vars => GroupsKnown'
<1>. SUFFICES ASSUME TypeOK, StampsKnown, GroupsKnown, [Next]_vars PROVE GroupsKnown'
  OBVIOUS
<1>0. used \subseteq used'
  BY BesideRowsStep
<1>1. ASSUME UNCHANGED <<conflictLog, reverting>> PROVE GroupsKnown'
  BY <1>0, <1>1 DEF GroupsKnown, LossesApart, OneGroup
<1>2. ASSUME NEW u \in User, NEW w \in Write, NEW h \in Clock, NEW t \in Endpoint(w.ent),
             Push(u, t, w, h)
      PROVE  GroupsKnown'
  <2>. DEFINE m == [op |-> w.op, ent |-> w.ent, fields |-> w.fields, hlc |-> h]
  <2>1. MutationOK(m) /\ m.hlc = h
    BY WriteAssumption DEF MutationOK
  <2>2. h \notin used /\ used' = used \cup {h} /\ ApplyMutation(u, t, m)
    BY <1>2 DEF Push
  <2>. HIDE DEF m
  <2>3. reverting' = reverting
    BY <2>2 DEF ApplyMutation
  <2>4. CASE memo[m.hlc] # "none"
    BY <1>1, <2>2, <2>3, <2>4 DEF ApplyMutation
  <2>5. CASE memo[m.hlc] = "none"
    <3>1. /\ \A x \in conflictLog' : (x \in conflictLog \/ x.mut = h) /\ x.field \notin ServerOwned
          /\ LossesApart(conflictLog')
      BY <2>1, <2>2, <2>5, DecideLosses DEF ApplyMutation
    <3>2. \A x \in conflictLog' : x.mut \in used'
      BY <2>2, <3>1 DEF GroupsKnown
    <3>. QED  BY <2>3, <3>1, <3>2 DEF GroupsKnown, LossesApart, OneGroup
  <2>. QED  BY <2>4, <2>5
<1>3. ASSUME NEW p \in pushed, Replay(p) PROVE GroupsKnown'
  BY <1>1, <1>3 DEF Replay, ApplyMutation, StampsKnown
<1>4. ASSUME NEW u \in User, NEW e \in Entity, TakeOverClaim(u, e) PROVE GroupsKnown'
  BY <1>1, <1>4 DEF TakeOverClaim
<1>5. ASSUME NEW u \in User, NEW c \in conflictLog, RevertRead(u, c) PROVE GroupsKnown'
  <2>1. /\ conflictLog' = conflictLog /\ used' = used
        /\ reverting' = [reverting EXCEPT ![u] = RevertGroup(c)]
    BY <1>5 DEF RevertRead
  <2>2. OneGroup(RevertGroup(c))
    <3>1. ASSUME NEW x \in RevertGroup(c), NEW y \in RevertGroup(c)
          PROVE  /\ ~x.reverted /\ x.field \notin ServerOwned
                 /\ x.mut = y.mut /\ x.ent = y.ent /\ x.field = y.field => x = y
      BY DEF RevertGroup, GroupsKnown, LossesApart
    <3>2. ASSUME NEW x \in RevertGroup(c), NEW y \in RevertGroup(c)
          PROVE  x.mut = y.mut /\ x.ent = y.ent /\ y.field \in GroupedWith(x.field)
      BY DEF RevertGroup, GroupedWith
    <3>. QED  BY <3>1, <3>2 DEF OneGroup
  <2>3. \A v \in User : OneGroup(reverting'[v])
    BY <2>1, <2>2 DEF GroupsKnown, TypeOK
  <2>. QED  BY <2>1, <2>3 DEF GroupsKnown, LossesApart, OneGroup
<1>6. ASSUME NEW u \in User, RevertCommit(u) PROVE GroupsKnown'
  <2>. DEFINE g == reverting[u]
              mark(x) == IF x \in g THEN [x EXCEPT !.reverted = TRUE] ELSE x
  <2>1. conflictLog' = {mark(x) : x \in conflictLog} /\ reverting' = [reverting EXCEPT ![u] = {}]
    BY <1>6 DEF RevertCommit
  <2>2. \A x \in conflictLog : mark(x).mut = x.mut /\ mark(x).ent = x.ent /\ mark(x).field = x.field
    BY Spent DEF TypeOK
  <2>. HIDE DEF mark
  <2>3. \A x \in conflictLog' : x.mut \in used' /\ x.field \notin ServerOwned
    BY <1>0, <2>1, <2>2 DEF GroupsKnown
  <2>4. LossesApart(conflictLog')
    BY <2>1, <2>2 DEF GroupsKnown, LossesApart
  <2>5. \A v \in User : OneGroup(reverting'[v])
    BY <2>1 DEF GroupsKnown, TypeOK, OneGroup
  <2>. QED  BY <2>3, <2>4, <2>5 DEF GroupsKnown, LossesApart, OneGroup
<1>7. ASSUME NEW u \in User, RevertAbort(u) PROVE GroupsKnown'
  <2>1. UNCHANGED <<conflictLog, used>> /\ reverting' = [reverting EXCEPT ![u] = {}]
    BY <1>7 DEF RevertAbort
  <2>2. \A v \in User : OneGroup(reverting'[v])
    BY <2>1 DEF GroupsKnown, TypeOK, OneGroup
  <2>. QED  BY <2>1, <2>2 DEF GroupsKnown, LossesApart, OneGroup
<1>8. CASE UNCHANGED vars
  BY <1>1, <1>8 DEF vars
<1>. QED  BY <1>2, <1>3, <1>4, <1>5, <1>6, <1>7, <1>8 DEF Next

\* A server-minted restore wins every column of its group: it is newer than the
\* row and so than every column, and of the state pair at least one was applied,
\* which is the decision for both.
LEMMA RestoreWins ==
  ASSUME TypeOK, RowClockBounds, NEW u \in User, NEW g, g # {}, OneGroup(g),
         \A x \in g : ConflictOK(x), NEW h \in Clock,
         Mints(h, rows[(CHOOSE x \in g : TRUE).ent]),
         rows[(CHOOSE x \in g : TRUE).ent].exists,
         Applied(rows[(CHOOSE x \in g : TRUE).ent], RevertMutation(u, g, h)) # {},
         NEW y \in g
  PROVE  /\ y.ent = (CHOOSE x \in g : TRUE).ent
         /\ y.field \in Applied(rows[y.ent], RevertMutation(u, g, h))
         /\ RevertMutation(u, g, h).fields[y.field] = y.losing
<1>. DEFINE c == CHOOSE x \in g : TRUE
            fs == [f \in {x.field : x \in g} |-> (CHOOSE x \in g : x.field = f).losing]
            m == [op |-> "upsert", ent |-> c.ent, hlc |-> h, fields |-> fs]
            s == RevertMutation(u, g, h)
            row == rows[c.ent]
<1>1. c \in g /\ y.ent = c.ent /\ c.ent \in Entity
  BY DEF OneGroup, ConflictOK
<1>2. \A f \in DOMAIN fs : \E x \in g : x.field = f /\ fs[f] = x.losing
  OBVIOUS
<1>3. y.field \in DOMAIN fs /\ fs[y.field] = y.losing
  <2>1. y.field \in DOMAIN fs
    OBVIOUS
  <2>. HIDE DEF fs
  <2>. QED  BY <1>2, <2>1 DEF OneGroup
<1>4. MutationOK(m) /\ m.fields = fs
  <2>1. DOMAIN fs = {x.field : x \in g} /\ fs = [f \in DOMAIN fs |-> fs[f]]
    OBVIOUS
  <2>2. \A f \in DOMAIN fs : f \in Field /\ ValueOK(f, fs[f])
    BY <1>2 DEF ConflictOK
  <2>. HIDE DEF fs, c
  <2>3. FieldsOK(fs)
    BY <2>1, <2>2 DEF FieldsOK
  <2>. QED  BY <1>1, <2>3 DEF MutationOK
<1>5. /\ DOMAIN s.fields \ ServerOwned = DOMAIN fs \ ServerOwned
      /\ \A f \in DOMAIN fs \ ServerOwned : s.fields[f] = fs[f]
      /\ row.exists => "owner_id" \notin DOMAIN s.fields
  <2>1. s = StampServerOwned(m, row, u)
    BY DEF RevertMutation
  <2>. HIDE DEF m, s, fs, c, row
  <2>. QED  BY <1>4, <2>1, StampColumns
<1>6. s.hlc = h /\ s.op = "upsert"
  BY RevertMutationOK
<1>7. y.field \in DOMAIN s.fields /\ s.fields[y.field] = y.losing /\ y.field \in Field
  <2>. HIDE DEF s, fs
  <2>. QED  BY <1>3, <1>5 DEF OneGroup, ConflictOK
<1>8. CASE y.field \in StateGroup
  <2>1. DOMAIN fs \subseteq StateGroup
    <3>1. \A x \in g : x.field \in StateGroup
      BY <1>8 DEF OneGroup, GroupedWith
    <3>. HIDE DEF fs
    <3>. QED  BY <1>2, <3>1
  <2>2. DOMAIN s.fields \subseteq StateGroup \cup StateRecord
    <3>. HIDE DEF s, fs, row
    <3>. QED  BY <1>5, <2>1 DEF ServerOwned, StateRecord, row, c
  <2>3. GroupDecision(row, s)
    <3>. HIDE DEF s
    <3>. QED  BY <2>2 DEF Applied, Wins, StateGroup, StateRecord, AdditiveFields, s
  <2>4. y.field \in Applied(row, s)
    <3>. HIDE DEF s, fs
    <3>. QED  BY <1>6, <1>7, <1>8, <2>3 DEF Applied, Wins
  <2>. QED  BY <1>1, <1>7, <2>4
<1>9. CASE y.field \notin StateGroup
  <2>1. y.field \notin StateRecord
    BY DEF OneGroup, StateRecord, ServerOwned
  <2>2. row.exists /\ RowOK(row) /\ row.clocks[y.field] <= row.hlc
    BY <1>1, <1>7 DEF RowClockBounds, TypeOK
  <2>3. ClockOf(row, y.field) = row.clocks[y.field]
    BY <1>7, <2>2 DEF ClockOf, RowOK
  <2>4. h > ClockOf(row, y.field)
    <3>1. h > row.hlc
      BY DEF Mints
    <3>2. h \in Nat /\ row.hlc \in Nat /\ row.clocks[y.field] \in Nat
      BY <1>1, <1>7, <2>2, ClockPositive, ClocksAreNumbers
    <3>. QED  BY <2>2, <2>3, <3>1, <3>2
  <2>5. y.field \in Applied(row, s)
    <3>. HIDE DEF s, fs, row
    <3>. QED  BY <1>6, <1>7, <1>9, <2>1, <2>4 DEF Applied, Wins
  <2>. QED  BY <1>1, <1>7, <2>5
<1>. QED  BY <1>8, <1>9

\* A revert either leaves row and log as they were or spends entries nobody had
\* spent and leaves the row holding every value they name
\* (conflicts.go:311-318, 340-342).
THEOREM ServerRevertIsAtomic == Spec => RevertIsAtomic
<1>. DEFINE Atomic(u) ==
       reverting[u] # {} /\ reverting'[u] = {} =>
         LET spent == {[x EXCEPT !.reverted = TRUE] : x \in reverting[u]} IN
         \/ rows' = rows /\ conflictLog' = conflictLog
         \/ /\ spent \cap conflictLog = {} /\ spent \subseteq conflictLog'
            /\ \A x \in spent : rows'[x.ent].fields[x.field] = x.losing
<1>1. ASSUME TypeOK, StampsKnown, RowClockBounds, GroupsKnown, [Next]_vars, NEW u \in User
      PROVE  Atomic(u)
  <2>1. ASSUME reverting' = reverting PROVE Atomic(u)
    BY <2>1
  <2>2. ASSUME NEW v \in User, NEW c \in conflictLog, RevertRead(v, c) PROVE Atomic(u)
    BY <1>1, <2>2 DEF RevertRead, TypeOK
  <2>3. ASSUME NEW v \in User, RevertAbort(v) PROVE Atomic(u)
    BY <2>3 DEF RevertAbort
  <2>4. ASSUME NEW v \in User, v # u, RevertCommit(v) PROVE Atomic(u)
    BY <1>1, <2>4 DEF RevertCommit, TypeOK
  <2>5. ASSUME RevertCommit(u) PROVE Atomic(u)
    <3>. DEFINE g == reverting[u]
                c == CHOOSE x \in g : TRUE
                row == rows[c.ent]
                m(h) == RevertMutation(u, g, h)
                mark(x) == [x EXCEPT !.reverted = TRUE]
    <3>1. PICK h \in Clock : /\ Mints(h, row)
                             /\ RevertGoesThrough(u, c.feed, m(h), row)
                             /\ ServerWrite(c.feed, m(h), row)
      BY <2>5 DEF RevertCommit
    <3>2. /\ g # {} /\ g \subseteq conflictLog
          /\ conflictLog' = {IF x \in g THEN mark(x) ELSE x : x \in conflictLog}
      BY <2>5 DEF RevertCommit, StillClaimable
    <3>3. OneGroup(g) /\ \A x \in g : ConflictOK(x)
      BY <1>1 DEF GroupsKnown, TypeOK
    <3>4. \A x \in g : /\ mark(x).mut = x.mut /\ mark(x).ent = x.ent /\ mark(x).field = x.field
                       /\ mark(x).losing = x.losing /\ mark(x).reverted = TRUE
      BY <3>3, Spent
    <3>. HIDE DEF mark
    <3>5. \A x \in g : mark(x) \notin conflictLog
      BY <1>1, <3>2, <3>3, <3>4 DEF GroupsKnown, LossesApart, OneGroup
    <3>6. \A x \in g : mark(x) \in conflictLog'
      BY <3>2
    <3>7. ASSUME NEW y \in g PROVE rows'[y.ent].fields[y.field] = y.losing
      <4>1. row.exists /\ Applied(row, m(h)) # {}
        BY <3>1 DEF RevertGoesThrough
      <4>2. /\ y.ent = c.ent /\ y.field \in Applied(rows[y.ent], m(h))
            /\ m(h).fields[y.field] = y.losing
        BY <1>1, <3>1, <3>2, <3>3, <4>1, RestoreWins
      <4>3. MutationOK(m(h)) /\ m(h).ent = c.ent
        BY <3>2, <3>3, RevertMutationOK
      <4>4. c.ent \in Entity /\ RowOK(row) /\ y.field \in Field /\ DOMAIN rows = Entity
        BY <1>1, <3>3, <4>2 DEF TypeOK, ConflictOK
      <4>. HIDE DEF m, c, g
      <4>5. rows'[c.ent] = Persisted(m(h), row)
        BY <3>1, <4>3, <4>4 DEF ServerWrite
      <4>6. Persisted(m(h), row).fields[y.field] = m(h).fields[y.field]
        BY <4>2, <4>3, <4>4, PersistedOK
      <4>. QED  BY <4>2, <4>5, <4>6
    <3>8. LET spent == {mark(x) : x \in reverting[u]} IN
          /\ spent \cap conflictLog = {} /\ spent \subseteq conflictLog'
          /\ \A x \in spent : rows'[x.ent].fields[x.field] = x.losing
      BY <3>4, <3>5, <3>6, <3>7
    <3>. QED  BY <3>8 DEF mark
  <2>6. ASSUME NEW v \in User, NEW w \in Write, NEW h \in Clock, NEW t \in Endpoint(w.ent),
               Push(v, t, w, h)
        PROVE  Atomic(u)
    BY <2>1, <2>6 DEF Push, ApplyMutation
  <2>7. ASSUME NEW p \in pushed, Replay(p) PROVE Atomic(u)
    BY <2>1, <2>7 DEF Replay, ApplyMutation
  <2>8. ASSUME NEW v \in User, NEW e \in Entity, TakeOverClaim(v, e) PROVE Atomic(u)
    BY <2>1, <2>8 DEF TakeOverClaim
  <2>9. CASE UNCHANGED vars
    BY <2>1, <2>9 DEF vars
  <2>. HIDE DEF Atomic
  <2>. QED  BY <1>1, <2>2, <2>3, <2>4, <2>5, <2>6, <2>7, <2>8, <2>9 DEF Next
<1>2. TypeOK /\ StampsKnown /\ RowClockBounds /\ GroupsKnown /\ [Next]_vars
        => [\A u \in User : Atomic(u)]_vars
  BY <1>1
<1>3. Init => GroupsKnown
  BY DEF Init, GroupsKnown, LossesApart, OneGroup
<1>. QED
  BY <1>2, <1>3, GroupsKnownStep, Inductive, ServerRowClockBounds, PTL DEF Spec, RevertIsAtomic

-----------------------------------------------------------------------------
(* The change feeds.                                                       *)
(*                                                                         *)
(* LogStep reads off the actions what one transaction does to feeds and    *)
(* rows together: all its entries say the same, they are newer than every  *)
(* other, they go to the feed their row belongs to, and no other row comes *)
(* or goes. FeedTellsTruth and FeedsStayApart follow from that alone, with *)
(* FeedInv: an entry and a row are in the one feed their id belongs to.    *)

\* The one feed an id belongs to: the master feed, or the trip the clients
\* write it with.
HomeIs(e, t) ==
    IF Table[e] \in MasterTables THEN t = Master
    ELSE \E w \in Write : /\ w.ent = e /\ "trip_id" \in DOMAIN w.fields
                          /\ w.fields["trip_id"] = t

FeedInv ==
    /\ \A x \in changeLog : HomeIs(x.ent, x.feed)
    /\ \A e \in Entity : rows[e].exists => HomeIs(e, HomeOf(rows[e], e))

-----------------------------------------------------------------------------
(* One id, one feed. *)

\* An id belongs to one feed.
LEMMA OneHome ==
  ASSUME NEW e, NEW t1, NEW t2, HomeIs(e, t1), HomeIs(e, t2)
  PROVE  t1 = t2
  BY HomeAssumption DEF HomeIs

\* What a delete takes along belongs to its feed.
LEMMA CascadeHome ==
  ASSUME NEW e \in Entity, NEW c \in FkCascade(e), NEW t1, NEW t2, HomeIs(e, t1), HomeIs(c, t2)
  PROVE  t1 = t2
<1>1. Table[c] \in MasterTables <=> Table[e] \in MasterTables
  BY HomeAssumption
<1>2. CASE Table[e] \in MasterTables
  BY <1>1, <1>2 DEF HomeIs
<1>3. CASE Table[e] \notin MasterTables
  <2>1. PICK v \in Write : v.ent = e /\ "trip_id" \in DOMAIN v.fields /\ v.fields["trip_id"] = t1
    BY <1>3 DEF HomeIs
  <2>2. PICK w \in Write : w.ent = c /\ "trip_id" \in DOMAIN w.fields /\ w.fields["trip_id"] = t2
    BY <1>1, <1>3 DEF HomeIs
  <2>. QED  BY <2>1, <2>2, HomeAssumption
<1>. QED  BY <1>2, <1>3

\* One transaction: the entries E it appends, which all say del.
LogStep(E, del) ==
    /\ changeLog' = changeLog \cup E
    /\ \A x \in E : /\ x.seq \in Nat /\ x.seq > head /\ x.deleted = del
                    /\ x.ent \in Entity /\ HomeIs(x.ent, x.feed)
                    /\ rows'[x.ent].exists <=> ~del
    /\ \A e \in Entity : (rows'[e].exists <=> rows[e].exists) \/ \E x \in E : x.ent = e
    /\ \A e \in Entity : rows'[e].exists => HomeIs(e, HomeOf(rows'[e], e))

\* A transaction that logs what it does, to the right feed, keeps the feeds true.
LEMMA LogStepKeeps ==
  ASSUME TypeOK, FeedInv, FeedTellsTruth, NEW E, NEW del \in BOOLEAN, LogStep(E, del)
  PROVE  FeedInv' /\ FeedTellsTruth'
<1>1. FeedInv'
  BY DEF FeedInv, LogStep, HomeIs, HomeOf
<1>2. ASSUME NEW x \in changeLog', \A y \in changeLog' : y.feed = x.feed /\ y.ent = x.ent => y.seq <= x.seq
      PROVE  x.deleted <=> ~rows'[x.ent].exists
  <2>1. CASE x \in E
    BY <2>1 DEF LogStep
  <2>2. CASE x \in changeLog
    <3>1. x.seq \in Nat /\ x.seq <= head /\ head \in Nat /\ x.ent \in Entity
      BY <2>2 DEF TypeOK
    <3>2. ASSUME NEW y \in E, y.ent = x.ent PROVE FALSE
      <4>1. y.feed = x.feed
        BY <2>2, <3>2, OneHome DEF FeedInv, LogStep
      <4>2. y \in changeLog' /\ y.seq \in Nat /\ y.seq > head
        BY DEF LogStep
      <4>. QED  BY <1>2, <3>1, <3>2, <4>1, <4>2
    <3>3. rows'[x.ent].exists <=> rows[x.ent].exists
      BY <3>1, <3>2 DEF LogStep
    <3>4. x.deleted <=> ~rows[x.ent].exists
      BY <1>2, <2>2 DEF FeedTellsTruth, LogStep
    <3>. QED  BY <3>3, <3>4
  <2>. QED  BY <2>1, <2>2 DEF LogStep
<1>3. ASSUME NEW e \in Entity, rows'[e].exists
      PROVE  \E x \in changeLog' : x.ent = e /\ x.feed = HomeOf(rows'[e], e)
  <2>1. HomeIs(e, HomeOf(rows'[e], e))
    BY <1>3 DEF LogStep
  <2>2. CASE \E x \in E : x.ent = e
    BY <2>1, <2>2, OneHome DEF LogStep
  <2>3. CASE rows[e].exists
    <3>1. PICK x \in changeLog : x.ent = e
      BY <2>3 DEF FeedTellsTruth
    <3>2. HomeIs(e, x.feed)
      BY <3>1 DEF FeedInv
    <3>. QED  BY <2>1, <3>1, <3>2, OneHome DEF LogStep
  <2>. QED  BY <1>3, <2>2, <2>3 DEF LogStep
<1>. QED  BY <1>1, <1>2, <1>3 DEF FeedTellsTruth

\* A step that leaves feeds and rows alone.
LEMMA QuietLogStep ==
  ASSUME FeedInv, rows' = rows, changeLog' = changeLog
  PROVE  LogStep({}, FALSE)
  BY DEF LogStep, FeedInv, HomeIs, HomeOf

-----------------------------------------------------------------------------
(* Every action is such a transaction. *)

\* What a device writes names the trip its row belongs to, if it names one.
NamesItsHome(m) ==
    "trip_id" \in DOMAIN m.fields /\ Table[m.ent] \notin MasterTables
      => HomeIs(m.ent, m.fields["trip_id"])

\* The stamping of server-owned columns leaves the trip alone.
LEMMA StampKeepsTrip ==
  ASSUME NEW m, MutationOK(m), NamesItsHome(m), NEW row, NEW u
  PROVE  NamesItsHome(StampServerOwned(m, row, u))
<1>. DEFINE s == StampServerOwned(m, row, u)
<1>1. "trip_id" \in DOMAIN s.fields
        => "trip_id" \in DOMAIN m.fields /\ s.fields["trip_id"] = m.fields["trip_id"]
  BY StampColumns DEF ServerOwned
<1>2. s.ent = m.ent
  BY StampOK
<1>. HIDE DEF s
<1>. QED  BY <1>1, <1>2 DEF NamesItsHome, s

\* A write that passes the scope rule, and meets a row or makes one, is in the
\* row's feed.
LEMMA ScopeHome ==
  ASSUME TypeOK, FeedInv, NEW m, MutationOK(m), NamesItsHome(m), NEW t \in Endpoint(m.ent), NEW u,
         t = Master \/ ScopeRefusal(u, t, m, rows[m.ent]) = "none",
         rows[m.ent].exists \/ m.op # "delete"
  PROVE  HomeIs(m.ent, t)
<1>1. CASE Table[m.ent] \in MasterTables
  BY <1>1 DEF Endpoint, HomeIs
<1>2. CASE Table[m.ent] \notin MasterTables
  <2>1. t \in Trip /\ t # Master
    BY <1>2, NullAssumption DEF Endpoint
  <2>2. BelongsToTrip(t, m, rows[m.ent])
    BY <2>1 DEF ScopeRefusal
  <2>3. CASE rows[m.ent].exists
    <3>1. HomeIs(m.ent, HomeOf(rows[m.ent], m.ent))
      BY <2>3 DEF FeedInv, MutationOK
    <3>. QED  BY <1>2, <2>2, <2>3, <3>1 DEF BelongsToTrip, HomeOf
  <2>4. CASE ~rows[m.ent].exists /\ m.op # "delete"
    BY <1>2, <2>2, <2>4 DEF BelongsToTrip, NamesItsHome
  <2>. QED  BY <2>3, <2>4
<1>. QED  BY <1>1, <1>2

\* The entries about the rows a delete takes, or would have taken, along.
LEMMA ChildEntries ==
  ASSUME TypeOK, FeedInv, NEW m, MutationOK(m), NEW t, HomeIs(m.ent, t), NEW del \in BOOLEAN
  PROVE  \A x \in LogChildren(t, m, del) :
           /\ x.seq \in Nat /\ x.seq > head /\ x.deleted = del
           /\ x.ent \in FkCascade(m.ent) /\ x.ent \in Entity /\ HomeIs(x.ent, x.feed)
           /\ rows[x.ent].exists
<1>. SUFFICES ASSUME NEW c \in Cascades(m.ent), NEW x, x = Entry(t, c, c, del, m.hlc)
              PROVE  /\ x.seq \in Nat /\ x.seq > head /\ x.deleted = del
                     /\ x.ent \in FkCascade(m.ent) /\ x.ent \in Entity /\ HomeIs(x.ent, x.feed)
                     /\ rows[x.ent].exists
  BY DEF LogChildren
<1>1. c \in Entity /\ c \in Nat /\ c \in FkCascade(m.ent) /\ rows[c].exists /\ m.ent \in Entity
  BY EntityAssumption DEF Cascades, FkCascade, MutationOK
<1>2. x.seq = head + 1 + c /\ x.feed = t /\ x.ent = c /\ x.deleted = del /\ head \in Nat
  BY DEF Entry, TypeOK
<1>3. HomeIs(c, t)
  <2>1. HomeIs(c, HomeOf(rows[c], c))
    BY <1>1 DEF FeedInv
  <2>. QED  BY <1>1, <2>1, CascadeHome
<1>. QED  BY <1>1, <1>2, <1>3

\* A refusal logs what is, or nothing.
LEMMA RejectLogs ==
  ASSUME TypeOK, FeedInv, NEW m, MutationOK(m), NEW t, NEW why,
         Reject(t, m, rows[m.ent], why), Relogs(t, why) => HomeIs(m.ent, t)
  PROVE  \E E : \E del \in BOOLEAN : LogStep(E, del)
<1>. DEFINE row == rows[m.ent]
<1>1. rows' = rows
  BY DEF Reject
<1>2. CASE ~Relogs(t, why)
  <2>1. changeLog' = changeLog
    BY <1>2 DEF Reject, AppendChangeLog
  <2>. QED  BY <1>1, <2>1, QuietLogStep
<1>3. CASE Relogs(t, why)
  <2>. DEFINE E == RelogRefused(t, m, row)
              own == Entry(t, m.ent, 0, ~row.exists, IF row.exists THEN row.hlc ELSE m.hlc)
  <2>1. changeLog' = changeLog \cup E
    BY <1>3 DEF Reject, AppendChangeLog
  <2>2. m.ent \in Entity /\ head \in Nat /\ row.exists \in BOOLEAN
    BY DEF MutationOK, TypeOK, RowOK
  <2>3. own.seq = head + 1 /\ own.feed = t /\ own.ent = m.ent /\ own.deleted = ~row.exists
    BY <2>2 DEF Entry
  <2>4. \A x \in E : x = own \/ (row.exists /\ x \in LogChildren(t, m, FALSE))
    BY DEF RelogRefused
  <2>. HIDE DEF E, own
  <2>5. \A x \in E : /\ x.seq \in Nat /\ x.seq > head /\ x.deleted = ~row.exists
                     /\ x.ent \in Entity /\ HomeIs(x.ent, x.feed)
                     /\ rows[x.ent].exists <=> row.exists
    <3>1. ASSUME NEW x \in LogChildren(t, m, FALSE)
          PROVE  /\ x.seq \in Nat /\ x.seq > head /\ x.deleted = FALSE
                 /\ x.ent \in Entity /\ HomeIs(x.ent, x.feed) /\ rows[x.ent].exists
      BY <1>3, ChildEntries
    <3>2. /\ own.seq \in Nat /\ own.seq > head /\ own.deleted = ~row.exists
          /\ own.ent \in Entity /\ HomeIs(own.ent, own.feed)
          /\ rows[own.ent].exists <=> row.exists
      BY <1>3, <2>2, <2>3
    <3>3. ASSUME NEW x \in E, x # own
          PROVE  /\ x.seq \in Nat /\ x.seq > head /\ x.deleted = ~row.exists
                 /\ x.ent \in Entity /\ HomeIs(x.ent, x.feed)
                 /\ rows[x.ent].exists <=> row.exists
      <4>1. row.exists /\ x \in LogChildren(t, m, FALSE)
        BY <2>4, <3>3
      <4>2. row.exists = TRUE /\ (~row.exists) = FALSE
        BY <2>2, <4>1
      <4>. QED  BY <3>1, <4>1, <4>2
    <3>. QED  BY <3>2, <3>3
  <2>6. LogStep(E, ~row.exists)
    <3>1. \A e \in Entity : rows'[e].exists => HomeIs(e, HomeOf(rows'[e], e))
      BY <1>1 DEF FeedInv
    <3>. QED  BY <1>1, <2>1, <2>5, <3>1 DEF LogStep
  <2>. QED  BY <2>6
<1>. QED  BY <1>2, <1>3

\* An accepted write logs what it writes and what it takes along.
LEMMA AcceptLogs ==
  ASSUME TypeOK, FeedInv, NEW m, MutationOK(m), NEW t, NEW retired \in BOOLEAN,
         Accept(t, m, rows[m.ent], retired),
         Changes(m, rows[m.ent]) => HomeIs(m.ent, t),
         m.op = "upsert" => HomeOf(Persisted(m, rows[m.ent]), m.ent) = t,
         retired => m.op = "upsert"
  PROVE  \E E : \E del \in BOOLEAN : LogStep(E, del)
<1>. DEFINE row == rows[m.ent]
            E == LogAccepted(t, m, row, retired)
            own == Entry(t, m.ent, 0, Deleted(row, m), m.hlc)
<1>1. /\ changeLog' = changeLog \cup E
      /\ rows' = [e \in Entity |->
                    IF Deleted(row, m) /\ row.exists /\ (e = m.ent \/ e \in FkCascade(m.ent))
                    THEN NoRow
                    ELSE IF e = m.ent /\ m.op # "delete" /\ Changes(m, row)
                    THEN Persisted(m, row)
                    ELSE rows[e]]
  BY DEF Accept, AppendChangeLog
<1>2. m.ent \in Entity /\ head \in Nat /\ RowOK(row) /\ m.op \in {"upsert", "delete"}
  BY DEF MutationOK, TypeOK
<1>3. ~NoRow.exists /\ Persisted(m, row).exists
  BY DEF NoRow, Persisted
<1>4. own.seq = head + 1 /\ own.feed = t /\ own.ent = m.ent /\ own.deleted = Deleted(row, m)
  BY <1>2 DEF Entry
<1>5. CASE ~Changes(m, row)
  <2>1. E = {} /\ ~(Deleted(row, m) /\ row.exists)
    BY <1>2, <1>5 DEF LogAccepted, Changes, Deleted
  <2>2. \A e \in Entity : rows'[e] = rows[e]
    BY <1>1, <1>5, <2>1
  <2>3. LogStep({}, FALSE)
    BY <1>1, <2>1, <2>2 DEF LogStep, FeedInv
  <2>. QED  BY <2>3
<1>6. CASE Changes(m, row) /\ m.op = "delete"
  <2>1. Deleted(row, m) = TRUE /\ row.exists /\ HomeIs(m.ent, t)
    BY <1>6 DEF Changes, Deleted
  <2>2. \A x \in E : x = own \/ x \in LogChildren(t, m, TRUE)
    BY <1>6, <2>1 DEF LogAccepted
  <2>3. own \in E /\ LogChildren(t, m, TRUE) \subseteq E
    BY <1>6, <2>1 DEF LogAccepted
  <2>4. \A e \in Entity : rows'[e] = IF e = m.ent \/ e \in FkCascade(m.ent) THEN NoRow ELSE rows[e]
    BY <1>1, <1>6, <2>1
  <2>. HIDE DEF E, own
  <2>5. ASSUME NEW x \in E
        PROVE  /\ x.seq \in Nat /\ x.seq > head /\ x.deleted = TRUE
               /\ x.ent \in Entity /\ HomeIs(x.ent, x.feed)
               /\ ~rows'[x.ent].exists
    <3>1. CASE x = own
      BY <1>2, <1>3, <1>4, <2>1, <2>4, <3>1
    <3>2. CASE x \in LogChildren(t, m, TRUE)
      BY <1>3, <2>1, <2>4, <3>2, ChildEntries
    <3>. QED  BY <2>2, <3>1, <3>2
  <2>6. ASSUME NEW e \in Entity, ~(rows'[e].exists <=> rows[e].exists)
        PROVE  \E x \in E : x.ent = e
    <3>1. CASE e = m.ent
      BY <1>4, <2>3, <3>1
    <3>2. CASE e # m.ent
      <4>1. e \in FkCascade(m.ent) /\ rows[e].exists
        BY <1>3, <2>4, <2>6, <3>2
      <4>2. e \in Cascades(m.ent)
        BY <4>1 DEF FkCascade, Cascades
      <4>3. Entry(t, e, e, TRUE, m.hlc) \in E
        BY <2>3, <4>2 DEF LogChildren
      <4>4. Entry(t, e, e, TRUE, m.hlc).ent = e
        BY DEF Entry
      <4>. QED  BY <4>3, <4>4
    <3>. QED  BY <3>1, <3>2
  <2>7. \A e \in Entity : rows'[e].exists => HomeIs(e, HomeOf(rows'[e], e))
    BY <1>3, <2>4 DEF FeedInv
  <2>8. LogStep(E, TRUE)
    BY <1>1, <2>5, <2>6, <2>7 DEF LogStep
  <2>. QED  BY <2>8
<1>7. CASE Changes(m, row) /\ m.op = "upsert"
  <2>1. Deleted(row, m) = FALSE /\ HomeIs(m.ent, t) /\ HomeOf(Persisted(m, row), m.ent) = t
    BY <1>7 DEF Deleted
  <2>2. /\ \A x \in E : x = own \/ (retired /\ x \in LogChildren(t, m, FALSE))
        /\ own \in E
    BY <1>7, <2>1 DEF LogAccepted
  <2>3. \A e \in Entity : rows'[e] = IF e = m.ent THEN Persisted(m, row) ELSE rows[e]
    BY <1>1, <1>7, <2>1
  <2>. HIDE DEF E, own
  <2>4. ASSUME NEW x \in E
        PROVE  /\ x.seq \in Nat /\ x.seq > head /\ x.deleted = FALSE
               /\ x.ent \in Entity /\ HomeIs(x.ent, x.feed)
               /\ rows'[x.ent].exists
    <3>1. CASE x = own
      BY <1>2, <1>3, <1>4, <2>1, <2>3, <3>1
    <3>2. CASE x \in LogChildren(t, m, FALSE)
      BY <1>3, <2>1, <2>3, <3>2, ChildEntries
    <3>. QED  BY <2>2, <3>1, <3>2
  <2>5. \A e \in Entity : (rows'[e].exists <=> rows[e].exists) \/ \E x \in E : x.ent = e
    BY <1>4, <2>2, <2>3
  <2>6. ASSUME NEW e \in Entity, rows'[e].exists PROVE HomeIs(e, HomeOf(rows'[e], e))
    <3>1. CASE e = m.ent
      BY <2>1, <2>3, <3>1
    <3>2. CASE e # m.ent
      BY <2>3, <2>6, <3>2 DEF FeedInv
    <3>. QED  BY <3>1, <3>2
  <2>7. LogStep(E, FALSE)
    BY <1>1, <2>4, <2>5, <2>6 DEF LogStep
  <2>. QED  BY <2>7
<1>. QED  BY <1>2, <1>5, <1>6, <1>7

\* A decision on a device's mutation.
LEMMA DecideLogs ==
  ASSUME TypeOK, FeedInv, NEW u, NEW m, MutationOK(m), NamesItsHome(m),
         NEW t \in Endpoint(m.ent), Decide(u, t, m)
  PROVE  \E E : \E del \in BOOLEAN : LogStep(E, del)
<1>. DEFINE row == rows[m.ent]
            s == StampServerOwned(m, row, u)
            r == RetireInstead(s)
            why == Reason(u, t, s, row)
<1>1. MutationOK(s) /\ s.op = m.op /\ s.ent = m.ent /\ s.hlc = m.hlc /\ NamesItsHome(s)
  BY StampOK, StampKeepsTrip
<1>2. CASE why # "none"
  <2>1. Reject(t, s, row, why)
    BY <1>2 DEF Decide
  <2>2. ASSUME Relogs(t, why) PROVE HomeIs(s.ent, t)
    <3>1. t = Master \/ ScopeRefusal(u, t, s, row) = "none"
      BY <2>2 DEF Relogs, Reason, ScopeRefusal
    <3>2. CASE rows[s.ent].exists \/ s.op # "delete"
      BY <1>1, <3>1, <3>2, ScopeHome
    <3>3. CASE ~rows[s.ent].exists /\ s.op = "delete"
      <4>1. t = Master
        BY <1>1, <1>2, <3>1, <3>3 DEF Reason, TombstoneBeats, StillReferenced
      <4>. QED  BY <1>1, <4>1, NullAssumption DEF Endpoint, HomeIs
    <3>. QED  BY <3>2, <3>3
  <2>. HIDE DEF s, why
  <2>. QED  BY <1>1, <2>1, <2>2, RejectLogs
<1>3. CASE why = "none" /\ Retires(s, row)
  <2>1. Accept(t, r, row, TRUE)
    BY <1>3 DEF Decide
  <2>2. MutationOK(r) /\ r.ent = m.ent /\ r.op = "upsert"
    BY <1>1, RetireOK DEF RetireInstead
  <2>3. Table[m.ent] \in MasterTables /\ t = Master
    BY <1>1, <1>3 DEF Retires, LifecycleTables, MasterTables, Endpoint
  <2>4. HomeIs(m.ent, t) /\ HomeOf(Persisted(r, row), m.ent) = t
    BY <2>3 DEF HomeIs, HomeOf
  <2>. HIDE DEF r
  <2>. QED  BY <2>1, <2>2, <2>4, AcceptLogs
<1>4. CASE why = "none" /\ ~Retires(s, row)
  <2>1. Accept(t, s, row, FALSE)
    BY <1>4 DEF Decide
  <2>2. ScopeRefusal(u, t, s, row) = "none"
    BY <1>4 DEF Reason
  <2>3. s.op = "upsert" => HomeOf(Persisted(s, row), s.ent) = t
    BY <1>1, <2>2, ScopeOK
  <2>4. Changes(s, row) => HomeIs(s.ent, t)
    <3>1. Changes(s, row) => row.exists \/ s.op # "delete"
      BY DEF Changes
    <3>. HIDE DEF s
    <3>. QED  BY <1>1, <2>2, <3>1, ScopeHome
  <2>. HIDE DEF s
  <2>. QED  BY <1>1, <2>1, <2>3, <2>4, AcceptLogs
<1>. QED  BY <1>2, <1>3, <1>4

\* A write the server mints itself, to a row that exists.
LEMMA ServerWriteLogs ==
  ASSUME TypeOK, FeedInv, NEW m, MutationOK(m), NEW t, rows[m.ent].exists,
         ServerWrite(t, m, rows[m.ent]), HomeIs(m.ent, t),
         HomeOf(Persisted(m, rows[m.ent]), m.ent) = t
  PROVE  \E E : \E del \in BOOLEAN : LogStep(E, del)
<1>. DEFINE own == Entry(t, m.ent, 0, FALSE, m.hlc)
<1>1. m.ent \in Entity /\ head \in Nat /\ DOMAIN rows = Entity
  BY DEF MutationOK, TypeOK
<1>2. /\ changeLog' = changeLog \cup {own}
      /\ \A e \in Entity : rows'[e] = IF e = m.ent THEN Persisted(m, rows[m.ent]) ELSE rows[e]
  BY <1>1 DEF ServerWrite, AppendChangeLog
<1>3. own.seq = head + 1 /\ own.feed = t /\ own.ent = m.ent /\ own.deleted = FALSE
  BY <1>1 DEF Entry
<1>4. Persisted(m, rows[m.ent]).exists
  BY DEF Persisted
<1>. HIDE DEF own
<1>5. \A e \in Entity : rows'[e].exists => HomeIs(e, HomeOf(rows'[e], e))
  BY <1>2 DEF FeedInv
<1>6. LogStep({own}, FALSE)
  BY <1>1, <1>2, <1>3, <1>4, <1>5 DEF LogStep
<1>. QED  BY <1>6

\* The takeover writes where the row it takes over lives.
LEMMA TakeOverLogs ==
  ASSUME TypeOK, FeedInv, NEW u \in User, NEW c \in Entity, TakeOverClaim(u, c)
  PROVE  \E E : \E del \in BOOLEAN : LogStep(E, del)
<1>. DEFINE row == rows[c]
            fs == [f \in {"state", "packing_now_by"} |->
                     IF f = "state" THEN "packing_now" ELSE u]
            mut(h) == [op |-> "upsert", ent |-> c, hlc |-> h, fields |-> fs]
            t == row.fields["trip_id"]
<1>1. PICK h \in Clock : ServerWrite(t, mut(h), row)
  BY DEF TakeOverClaim
<1>2. row.exists /\ Table[c] = "trip_items" /\ RowOK(row)
  BY DEF TakeOverClaim, TypeOK
<1>3. /\ MutationOK(mut(h)) /\ mut(h).ent = c /\ mut(h).fields = fs
      /\ "trip_id" \notin DOMAIN fs
  <2>1. FieldsOK(fs) /\ "trip_id" \notin DOMAIN fs
    BY DEF FieldsOK, Field, ValueOK, ItemState
  <2>. HIDE DEF fs
  <2>. QED  BY <2>1 DEF MutationOK
<1>. HIDE DEF mut, fs
<1>4. HomeOf(row, c) = t /\ HomeIs(c, t)
  BY <1>2 DEF HomeOf, MasterTables, FeedInv
<1>5. HomeOf(Persisted(mut(h), row), c) = t
  <2>1. "trip_id" \notin Applied(row, mut(h))
    BY <1>3 DEF Applied
  <2>2. Persisted(mut(h), row).fields["trip_id"] = t
    BY <1>2, <1>3, <2>1, PersistedOK DEF Field
  <2>. QED  BY <1>2, <2>2 DEF HomeOf, MasterTables
<1>. QED  BY <1>1, <1>2, <1>3, <1>4, <1>5, ServerWriteLogs

\* A revert writes where its entry was logged, which is where the row lives.
LEMMA RevertLogs ==
  ASSUME TypeOK, FeedInv, NEW u \in User, RevertCommit(u)
  PROVE  \E E : \E del \in BOOLEAN : LogStep(E, del)
<1>. DEFINE g == reverting[u]
            c == CHOOSE x \in g : TRUE
            row == rows[c.ent]
            mut(h) == RevertMutation(u, g, h)
<1>1. PICK h \in Clock : /\ RevertGoesThrough(u, c.feed, mut(h), row)
                         /\ ServerWrite(c.feed, mut(h), row)
  BY DEF RevertCommit
<1>2. g # {} /\ \A x \in g : ConflictOK(x)
  BY DEF RevertCommit, TypeOK
<1>3. MutationOK(mut(h)) /\ mut(h).op = "upsert" /\ mut(h).ent = c.ent
  BY <1>2, RevertMutationOK
<1>4. c \in g /\ c.feed \in Endpoint(c.ent) /\ c.ent \in Entity
  BY <1>2 DEF ConflictOK
<1>. HIDE DEF mut, c
<1>5. row.exists /\ ScopeRefusal(u, c.feed, mut(h), row) = "none"
  BY <1>1 DEF RevertGoesThrough
<1>6. HomeOf(Persisted(mut(h), row), c.ent) = c.feed
  BY <1>3, <1>4, <1>5, ScopeOK
<1>7. HomeIs(c.ent, c.feed)
  <2>1. CASE Table[c.ent] \in MasterTables
    BY <1>4, <2>1 DEF Endpoint, HomeIs
  <2>2. CASE Table[c.ent] \notin MasterTables
    <3>1. c.feed # Master
      BY <1>4, <2>2, NullAssumption DEF Endpoint
    <3>2. row.fields["trip_id"] = c.feed
      BY <1>5, <3>1 DEF ScopeRefusal, BelongsToTrip
    <3>. QED  BY <1>4, <1>5, <2>2, <3>2 DEF FeedInv, HomeOf
  <2>. QED  BY <2>1, <2>2
<1>. QED  BY <1>1, <1>3, <1>5, <1>6, <1>7, ServerWriteLogs

\* Every step of the server is such a transaction.
LEMMA EveryStepLogs ==
  ASSUME TypeOK, StampsKnown, FeedInv, [Next]_vars
  PROVE  \E E : \E del \in BOOLEAN : LogStep(E, del)
<1>1. ASSUME NEW u \in User, NEW w \in Write, NEW h \in Clock, NEW t \in Endpoint(w.ent),
             Push(u, t, w, h)
      PROVE  \E E : \E del \in BOOLEAN : LogStep(E, del)
  <2>. DEFINE m == [op |-> w.op, ent |-> w.ent, fields |-> w.fields, hlc |-> h]
  <2>1. MutationOK(m) /\ m.ent = w.ent /\ m.hlc = h /\ m.fields = w.fields
    BY WriteAssumption DEF MutationOK
  <2>2. ApplyMutation(u, t, m)
    BY <1>1 DEF Push
  <2>. HIDE DEF m
  <2>3. NamesItsHome(m)
    BY <2>1 DEF NamesItsHome, HomeIs
  <2>4. CASE memo[m.hlc] # "none"
    BY <2>2, <2>4, QuietLogStep DEF ApplyMutation
  <2>5. CASE memo[m.hlc] = "none"
    BY <2>1, <2>2, <2>3, <2>5, DecideLogs DEF ApplyMutation
  <2>. QED  BY <2>4, <2>5
<1>2. ASSUME NEW p \in pushed, Replay(p) PROVE \E E : \E del \in BOOLEAN : LogStep(E, del)
  BY <1>2, QuietLogStep DEF Replay, ApplyMutation, StampsKnown
<1>3. ASSUME \/ \E u \in User, c \in conflictLog : RevertRead(u, c)
             \/ \E u \in User : RevertAbort(u)
             \/ UNCHANGED vars
      PROVE  \E E : \E del \in BOOLEAN : LogStep(E, del)
  BY <1>3, QuietLogStep DEF RevertRead, RevertAbort, vars
<1>. QED  BY <1>1, <1>2, <1>3, TakeOverLogs, RevertLogs DEF Next

\* Two empty feeds tell the truth about no rows.
LEMMA FeedInit == Init => FeedInv /\ FeedTellsTruth
<1>. SUFFICES ASSUME Init PROVE FeedInv /\ FeedTellsTruth
  OBVIOUS
<1>1. \A e \in Entity : ~rows[e].exists
  BY DEF Init, NoRow
<1>. QED  BY <1>1 DEF Init, FeedInv, FeedTellsTruth

\* Every step writes to the log what it does to the rows, so the feeds keep telling it.
LEMMA FeedStep ==
  TypeOK /\ StampsKnown /\ FeedInv /\ FeedTellsTruth /\ [Next]_vars => FeedInv' /\ FeedTellsTruth'
  BY EveryStepLogs, LogStepKeeps

\* A device that applies a feed to its end holds exactly the rows the server
\* holds, whatever was refused, cascaded, retired or re-delivered on the way
\* (partition.go:226-241, pipeline.go:307-355).
THEOREM ServerFeedTellsTruth == Spec => []FeedTellsTruth
<1>1. Init => TypeOK /\ StampsKnown /\ FeedInv /\ FeedTellsTruth
  BY TypeInit, FeedInit
<1>2. TypeOK /\ StampsKnown /\ FeedInv /\ FeedTellsTruth /\ [Next]_vars
        => (TypeOK /\ StampsKnown /\ FeedInv /\ FeedTellsTruth)'
  BY TypeStep, FeedStep
<1>. QED  BY <1>1, <1>2, PTL DEF Spec

\* No pull of one trip hands out another's snapshot: an entry that names a live
\* row is in the row's own feed (pipeline.go:37-67).
THEOREM ServerFeedsStayApart == Spec => []FeedsStayApart
<1>1. Init => TypeOK /\ StampsKnown /\ FeedInv /\ FeedTellsTruth
  BY TypeInit, FeedInit
<1>2. TypeOK /\ StampsKnown /\ FeedInv /\ FeedTellsTruth /\ [Next]_vars
        => (TypeOK /\ StampsKnown /\ FeedInv /\ FeedTellsTruth)'
  BY TypeStep, FeedStep
<1>3. TypeOK /\ FeedInv => FeedsStayApart
  <2>. SUFFICES ASSUME TypeOK, FeedInv, NEW x \in changeLog, rows[x.ent].exists
                PROVE  x.feed = HomeOf(rows[x.ent], x.ent)
    BY DEF FeedsStayApart
  <2>1. x.ent \in Entity
    BY DEF TypeOK
  <2>2. HomeIs(x.ent, x.feed) /\ HomeIs(x.ent, HomeOf(rows[x.ent], x.ent))
    BY <2>1 DEF FeedInv
  <2>. QED  BY <2>2, OneHome
<1>. QED  BY <1>1, <1>2, <1>3, PTL DEF Spec

-----------------------------------------------------------------------------
(* The server's own deletes (MasterDelete). *)

\* A request in flight has read a row of a table with a delete endpoint.
DeletingKnown ==
    /\ deleting = [u \in User |-> deleting[u]]
    /\ \A u \in User : deleting[u] # NoRequest =>
         deleting[u].ent \in Entity /\ Table[deleting[u].ent] = "items"

DeleteInv ==
    /\ TypeOK /\ StampsKnown
    /\ RowClockBounds /\ LastWriterWins
    /\ FeedInv /\ FeedTellsTruth
    /\ NothingDangles
    /\ DeletingKnown

DeleteOf(e, h) == [op |-> "delete", ent |-> e, fields |-> [f \in {} |-> Null], hlc |-> h]

\* The mutation a delete request composes is well-formed and carries no column.
LEMMA DeleteOfOK ==
  ASSUME NEW e \in Entity, NEW h \in Clock
  PROVE  /\ MutationOK(DeleteOf(e, h))
         /\ DeleteOf(e, h).op = "delete" /\ DeleteOf(e, h).ent = e /\ DeleteOf(e, h).hlc = h
         /\ DOMAIN DeleteOf(e, h).fields = {}
<1>. DEFINE fs == [f \in {} |-> Null]
            m == DeleteOf(e, h)
<1>1. FieldsOK(fs) /\ DOMAIN fs = {}
  BY DEF FieldsOK
<1>2. m = [op |-> "delete", ent |-> e, fields |-> fs, hlc |-> h]
  BY DEF DeleteOf
<1>. HIDE DEF fs, m
<1>3. MutationOK(m) /\ m.op = "delete" /\ m.ent = e /\ m.hlc = h /\ DOMAIN m.fields = {}
  BY <1>1, <1>2 DEF MutationOK
<1>. QED  BY <1>3 DEF m

\* The transaction of a delete request: its mutation decided, or pruned.
LEMMA CommitStep ==
  ASSUME TypeOK, DeletingKnown, NEW u \in User, DeleteCommit(u)
  PROVE  \E h \in Clock : LET m == DeleteOf(deleting[u].ent, h) IN
           /\ deleting[u] # NoRequest
           /\ h \notin used /\ used' = used \cup {h} /\ srvHLC' = MaxHLC(srvHLC, h)
           /\ UNCHANGED <<pushed, reverting>> /\ deleting' = [deleting EXCEPT ![u] = NoRequest]
           /\ deleting[u].ent \in Entity /\ Table[deleting[u].ent] = "items"
           /\ MutationOK(m) /\ m.op = "delete" /\ m.ent = deleting[u].ent /\ m.hlc = h
           /\ DOMAIN m.fields = {} /\ Master \in Endpoint(m.ent)
           /\ IF deleting[u].how = "prune" THEN Prune(u, m) ELSE Decide(u, Master, m)
<1>. DEFINE r == deleting[u]
<1>1. PICK h \in Clock \ used :
        /\ used' = used \cup {h} /\ srvHLC' = MaxHLC(srvHLC, h)
        /\ IF r.how = "prune" THEN Prune(u, DeleteOf(r.ent, h)) ELSE Decide(u, Master, DeleteOf(r.ent, h))
  BY DEF DeleteCommit, DeleteOf
<1>2. /\ r # NoRequest /\ UNCHANGED <<pushed, reverting>>
      /\ deleting' = [deleting EXCEPT ![u] = NoRequest]
  BY DEF DeleteCommit
<1>3. r.ent \in Entity /\ Table[r.ent] = "items"
  BY <1>2 DEF DeletingKnown
<1>4. LET m == DeleteOf(r.ent, h) IN
      MutationOK(m) /\ m.op = "delete" /\ m.ent = r.ent /\ m.hlc = h /\ DOMAIN m.fields = {}
  BY <1>3, DeleteOfOK
<1>5. Master \in Endpoint(DeleteOf(r.ent, h).ent)
  BY <1>3, <1>4 DEF Endpoint, MasterTables
<1>. QED  BY <1>1, <1>2, <1>3, <1>4, <1>5

\* A prune refuses, leaving rows and feeds alone, or accepts its mutation.
LEMMA PruneCases ==
  ASSUME NEW u, NEW m, Prune(u, m)
  PROVE  \/ /\ ItemInUse(m.ent) /\ UNCHANGED <<rows, changeLog, head, conflictLog, merged>>
            /\ memo' = [memo EXCEPT ![m.hlc] = "rejected"]
         \/ ~ItemInUse(m.ent) /\ Accept(Master, m, rows[m.ent], FALSE)
  BY DEF Prune

-----------------------------------------------------------------------------
(* The invariants of the store. *)

\* A delete's transaction keeps log, memo and stamps well typed.
LEMMA CommitBesideRows ==
  ASSUME TypeOK, StampsKnown, DeletingKnown, NEW u \in User, DeleteCommit(u)
  PROVE  BesideRows' /\ used \subseteq used'
<1>0. BesideRows
  BY BesideRowsNow
<1>1. PICK h \in Clock : LET m == DeleteOf(deleting[u].ent, h) IN
        /\ used' = used \cup {h} /\ srvHLC' = MaxHLC(srvHLC, h) /\ UNCHANGED <<pushed, reverting>>
        /\ MutationOK(m) /\ m.hlc = h /\ Master \in Endpoint(m.ent)
        /\ IF deleting[u].how = "prune" THEN Prune(u, m) ELSE Decide(u, Master, m)
  BY CommitStep
<1>. DEFINE m == DeleteOf(deleting[u].ent, h)
<1>2. /\ head' \in Nat /\ changeLog' \subseteq Entries'
      /\ \E o \in {"applied", "merged", "rejected"} : memo' = [memo EXCEPT ![h] = o]
      /\ \A x \in conflictLog' : ConflictOK(x)
      /\ rows' = [e \in Entity |-> rows'[e]] /\ merged' = [e \in Entity |-> merged'[e]]
  <2>. HIDE DEF m
  <2>1. CASE Decide(u, Master, m)
    BY <1>1, <2>1, DecideTypes DEF m
  <2>2. CASE Accept(Master, m, rows[m.ent], FALSE)
    BY <1>1, <2>2, AcceptTypes DEF m
  <2>3. CASE UNCHANGED <<rows, changeLog, head, conflictLog, merged>> /\ memo' = [memo EXCEPT ![h] = "rejected"]
    BY <1>0, <2>3 DEF BesideRows, Entries
  <2>. QED  BY <1>1, <2>1, <2>2, <2>3, PruneCases DEF m
<1>3. PICK o \in {"applied", "merged", "rejected"} : memo' = [memo EXCEPT ![h] = o]
  BY <1>2
<1>4. memo \in [Clock -> {"none", "applied", "merged", "rejected"}]
  BY <1>0 DEF BesideRows
<1>5. /\ memo' \in [Clock -> {"none", "applied", "merged", "rejected"}]
      /\ \A c \in Clock : memo[c] # "none" => memo'[c] # "none"
  BY <1>3, <1>4
<1>6. \A p \in pushed : p.m.hlc \in Clock
  BY <1>0 DEF BesideRows, MutationOK
<1>7. srvHLC' \in Clock \cup {0}
  BY <1>0, <1>1 DEF BesideRows, MaxHLC
<1>8. used' \subseteq Clock /\ used \subseteq used' /\ UNCHANGED <<pushed, reverting>>
  BY <1>0, <1>1 DEF BesideRows
<1>. QED  BY <1>0, <1>2, <1>5, <1>6, <1>7, <1>8 DEF BesideRows

\* Seen from a row it is a step like any other.
LEMMA CommitRows ==
  ASSUME TypeOK, StampsKnown, DeletingKnown, NEW u \in User, DeleteCommit(u)
  PROVE  EveryRowSteps
<1>. SUFFICES ASSUME NEW e \in Entity PROVE RowSteps(e)
  BY DEF EveryRowSteps
<1>1. PICK h \in Clock : LET m == DeleteOf(deleting[u].ent, h) IN
        /\ h \notin used /\ used' = used \cup {h}
        /\ MutationOK(m) /\ m.op = "delete" /\ m.hlc = h /\ Master \in Endpoint(m.ent)
        /\ IF deleting[u].how = "prune" THEN Prune(u, m) ELSE Decide(u, Master, m)
  BY CommitStep
<1>. DEFINE m == DeleteOf(deleting[u].ent, h)
<1>2. h \in used' /\ h \notin used /\ MutationOK(m) /\ m.op = "delete" /\ m.hlc = h /\ Master \in Endpoint(m.ent)
  BY <1>1
<1>3. \/ Decide(u, Master, m) \/ Accept(Master, m, rows[m.ent], FALSE) \/ UNCHANGED <<rows, merged>>
  BY <1>1, PruneCases
<1>. HIDE DEF m
<1>4. CASE Decide(u, Master, m)
  BY <1>2, <1>4, DecideStep
<1>5. CASE Accept(Master, m, rows[m.ent], FALSE)
  <2>1. Untouched(e) \/ Removed(e) \/ Rewritten(e, m) \/ Outweighed(e, m)
    BY <1>2, <1>5, AcceptStep
  <2>. QED  BY <1>2, <2>1 DEF RowSteps, Fresh, Rewritten
<1>6. CASE UNCHANGED <<rows, merged>>
  BY <1>6 DEF RowSteps, Untouched
<1>. QED  BY <1>3, <1>4, <1>5, <1>6

\* It logs what it does, to the master feed.
LEMMA CommitLogs ==
  ASSUME TypeOK, FeedInv, DeletingKnown, NEW u \in User, DeleteCommit(u)
  PROVE  \E E : \E del \in BOOLEAN : LogStep(E, del)
<1>1. PICK h \in Clock : LET m == DeleteOf(deleting[u].ent, h) IN
        /\ MutationOK(m) /\ m.op = "delete" /\ m.ent = deleting[u].ent
        /\ Table[deleting[u].ent] = "items"
        /\ DOMAIN m.fields = {} /\ Master \in Endpoint(m.ent)
        /\ IF deleting[u].how = "prune" THEN Prune(u, m) ELSE Decide(u, Master, m)
  BY CommitStep
<1>. DEFINE m == DeleteOf(deleting[u].ent, h)
<1>2. /\ MutationOK(m) /\ m.op = "delete" /\ Table[m.ent] = "items"
      /\ DOMAIN m.fields = {} /\ Master \in Endpoint(m.ent)
  BY <1>1
<1>3. \/ Decide(u, Master, m) \/ Accept(Master, m, rows[m.ent], FALSE)
      \/ UNCHANGED <<rows, changeLog>>
  BY <1>1, PruneCases
<1>. HIDE DEF m
<1>4. NamesItsHome(m) /\ HomeIs(m.ent, Master)
  BY <1>2 DEF NamesItsHome, HomeIs, MasterTables
<1>5. CASE Decide(u, Master, m)
  BY <1>2, <1>4, <1>5, DecideLogs
<1>6. CASE Accept(Master, m, rows[m.ent], FALSE)
  BY <1>2, <1>4, <1>6, AcceptLogs
<1>7. CASE UNCHANGED <<rows, changeLog>>
  BY <1>7, QuietLogStep
<1>. QED  BY <1>3, <1>5, <1>6, <1>7

\* The read before the transaction moves the server's clock and nothing else.
LEMMA ReadStep ==
  ASSUME TypeOK, StampsKnown, NEW u \in User, NEW e \in Entity, NEW how, ReadRowClock(u, e, how)
  PROVE  /\ BesideRows' /\ used \subseteq used' /\ EveryRowSteps
         /\ UNCHANGED <<rows, changeLog, merged>>
<1>0. BesideRows
  BY BesideRowsNow
<1>1. /\ srvHLC' = MaxHLC(srvHLC, rows[e].hlc) /\ rows[e].exists
      /\ UNCHANGED <<rows, changeLog, head, memo, pushed, conflictLog, reverting, used, merged>>
  BY DEF ReadRowClock
<1>2. rows[e].hlc \in Clock
  BY <1>1 DEF TypeOK, RowOK
<1>3. srvHLC' \in Clock \cup {0}
  BY <1>0, <1>1, <1>2 DEF BesideRows, MaxHLC
<1>. QED  BY <1>0, <1>1, <1>3 DEF BesideRows, Entries, EveryRowSteps, RowSteps, Untouched

\* Every step of the composed system is one the invariants of SyncServer allow.
LEMMA StoreStep ==
  ASSUME TypeOK, StampsKnown, FeedInv, DeletingKnown, [DeleteNext]_deleteVars
  PROVE  /\ BesideRows' /\ used \subseteq used' /\ EveryRowSteps
         /\ \E E : \E del \in BOOLEAN : LogStep(E, del)
<1>1. CASE [Next]_vars
  BY <1>1, BesideRowsStep, RowStep, EveryStepLogs DEF EveryRowSteps
<1>2. ASSUME NEW u \in User, NEW e \in Entity, NEW how, ReadRowClock(u, e, how)
      PROVE  /\ BesideRows' /\ used \subseteq used' /\ EveryRowSteps
             /\ \E E : \E del \in BOOLEAN : LogStep(E, del)
  BY <1>2, ReadStep, QuietLogStep
<1>3. ASSUME NEW u \in User, DeleteCommit(u)
      PROVE  /\ BesideRows' /\ used \subseteq used' /\ EveryRowSteps
             /\ \E E : \E del \in BOOLEAN : LogStep(E, del)
  BY <1>3, CommitBesideRows, CommitRows, CommitLogs
<1>. QED  BY <1>1, <1>2, <1>3 DEF DeleteNext, deleteVars

\* Requests in flight keep naming items.
LEMMA DeletingStep ==
  ASSUME TypeOK, DeletingKnown, [DeleteNext]_deleteVars
  PROVE  DeletingKnown'
<1>1. CASE UNCHANGED deleting
  BY <1>1 DEF DeletingKnown
<1>2. ASSUME NEW u \in User, NEW e \in Entity, NEW how, ReadRowClock(u, e, how)
      PROVE  DeletingKnown'
  <2>. DEFINE r == [ent |-> e, how |-> how, above |-> srvHLC']
  <2>1. deleting' = [deleting EXCEPT ![u] = r] /\ r.ent = e /\ Table[e] = "items"
    BY <1>2 DEF ReadRowClock, DeletableMasterTables
  <2>. HIDE DEF r
  <2>. QED  BY <2>1 DEF DeletingKnown
<1>3. ASSUME NEW u \in User, DeleteCommit(u) PROVE DeletingKnown'
  <2>1. deleting' = [deleting EXCEPT ![u] = NoRequest]
    BY <1>3 DEF DeleteCommit
  <2>. QED  BY <2>1 DEF DeletingKnown
<1>. QED  BY <1>1, <1>2, <1>3 DEF DeleteNext, deleteVars

-----------------------------------------------------------------------------
(* What a step does to the references between rows. *)

\* The merged row names what is there: its references are as they were, or the
\* schema's check passed.
KeepsRef(n) ==
    \/ rows[n.ent].exists /\ "ref" \notin DOMAIN n.fields
    \/ ~Violates(n.ent, MergedFields(rows[n.ent], n))

\* A decision that is accepted deletes nothing that is named.
AcceptsSoundly(n) ==
    /\ \E t, retired : Accept(t, n, rows[n.ent], retired)
    /\ ~StillReferenced(n, rows[n.ent])
    /\ n.op = "upsert" /\ Changes(n, rows[n.ent]) => KeepsRef(n)

WritesSoundly(n) ==
    /\ \E t : ServerWrite(t, n, rows[n.ent])
    /\ rows[n.ent].exists
    /\ KeepsRef(n)

RowWrites ==
    \/ rows' = rows
    \/ \E n : MutationOK(n) /\ (AcceptsSoundly(n) \/ WritesSoundly(n))

\* A decision looks for references before it deletes, and checks those it writes.
LEMMA DecideWrites ==
  ASSUME TypeOK, NEW u, NEW t, NEW m, MutationOK(m), Decide(u, t, m)
  PROVE  RowWrites
<1>. DEFINE row == rows[m.ent]
            s == StampServerOwned(m, row, u)
            r == RetireInstead(s)
<1>1. MutationOK(s) /\ s.ent = m.ent
  BY StampOK
<1>2. CASE Reason(u, t, s, row) # "none"
  BY <1>2 DEF Decide, Reject, RowWrites
<1>3. CASE Reason(u, t, s, row) = "none" /\ Retires(s, row)
  <2>1. Accept(t, r, row, TRUE) /\ row.exists
    BY <1>3 DEF Decide, Retires, StillReferenced
  <2>2. MutationOK(r) /\ r.ent = m.ent /\ r.op = "upsert" /\ "ref" \notin DOMAIN r.fields
    BY <1>1, RetireOK DEF RetireInstead
  <2>. HIDE DEF r
  <2>3. ~StillReferenced(r, row) /\ KeepsRef(r)
    BY <2>1, <2>2 DEF StillReferenced, Deleted, KeepsRef
  <2>. QED  BY <2>1, <2>2, <2>3 DEF RowWrites, AcceptsSoundly
<1>4. CASE Reason(u, t, s, row) = "none" /\ ~Retires(s, row)
  <2>1. Accept(t, s, row, FALSE)
    BY <1>4 DEF Decide
  <2>2. /\ ~StillReferenced(s, row)
        /\ s.op # "delete" /\ Changes(s, row) => ~Violates(s.ent, MergedFields(row, s))
    BY <1>4 DEF Reason
  <2>. HIDE DEF s
  <2>. QED  BY <1>1, <2>1, <2>2 DEF RowWrites, AcceptsSoundly, KeepsRef
<1>. QED  BY <1>2, <1>3, <1>4

\* So does every step of the composed system.
LEMMA EveryStepWrites ==
  ASSUME TypeOK, StampsKnown, DeletingKnown, [DeleteNext]_deleteVars
  PROVE  RowWrites
<1>1. ASSUME NEW u \in User, NEW w \in Write, NEW h \in Clock, NEW t \in Endpoint(w.ent),
             Push(u, t, w, h)
      PROVE  RowWrites
  <2>. DEFINE m == [op |-> w.op, ent |-> w.ent, fields |-> w.fields, hlc |-> h]
  <2>1. MutationOK(m)
    BY WriteAssumption DEF MutationOK
  <2>2. ApplyMutation(u, t, m)
    BY <1>1 DEF Push
  <2>. HIDE DEF m
  <2>. QED  BY <2>1, <2>2, DecideWrites DEF ApplyMutation, RowWrites
<1>2. ASSUME NEW p \in pushed, Replay(p) PROVE RowWrites
  BY <1>2 DEF Replay, ApplyMutation, StampsKnown, RowWrites
<1>3. ASSUME NEW u \in User, NEW c \in Entity, TakeOverClaim(u, c) PROVE RowWrites
  <2>. DEFINE fs == [f \in {"state", "packing_now_by"} |->
                       IF f = "state" THEN "packing_now" ELSE u]
              mut(h) == [op |-> "upsert", ent |-> c, hlc |-> h, fields |-> fs]
  <2>1. PICK h \in Clock : ServerWrite(rows[c].fields["trip_id"], mut(h), rows[c])
    BY <1>3 DEF TakeOverClaim
  <2>2. MutationOK(mut(h)) /\ mut(h).ent = c /\ "ref" \notin DOMAIN mut(h).fields
    <3>1. FieldsOK(fs) /\ "ref" \notin DOMAIN fs
      BY DEF FieldsOK, Field, ValueOK, ItemState
    <3>. HIDE DEF fs
    <3>. QED  BY <3>1 DEF MutationOK
  <2>3. rows[c].exists
    BY <1>3 DEF TakeOverClaim
  <2>. HIDE DEF mut
  <2>. QED  BY <2>1, <2>2, <2>3 DEF RowWrites, WritesSoundly, KeepsRef
<1>4. ASSUME NEW u \in User, RevertCommit(u) PROVE RowWrites
  <2>. DEFINE g == reverting[u]
              c == CHOOSE x \in g : TRUE
              mut(h) == RevertMutation(u, g, h)
  <2>1. PICK h \in Clock : /\ RevertGoesThrough(u, c.feed, mut(h), rows[c.ent])
                           /\ ServerWrite(c.feed, mut(h), rows[c.ent])
    BY <1>4 DEF RevertCommit
  <2>2. g # {} /\ \A x \in g : ConflictOK(x)
    BY <1>4 DEF RevertCommit, TypeOK
  <2>3. MutationOK(mut(h)) /\ mut(h).ent = c.ent
    BY <2>2, RevertMutationOK
  <2>. HIDE DEF mut, c
  <2>4. rows[c.ent].exists /\ ~Violates(mut(h).ent, MergedFields(rows[c.ent], mut(h)))
    BY <2>1 DEF RevertGoesThrough
  <2>. QED  BY <2>1, <2>3, <2>4 DEF RowWrites, WritesSoundly, KeepsRef
<1>5. ASSUME NEW u \in User, DeleteCommit(u) PROVE RowWrites
  <2>1. PICK h \in Clock : LET m == DeleteOf(deleting[u].ent, h) IN
          /\ MutationOK(m) /\ m.op = "delete"
          /\ IF deleting[u].how = "prune" THEN Prune(u, m) ELSE Decide(u, Master, m)
    BY <1>5, CommitStep
  <2>. DEFINE m == DeleteOf(deleting[u].ent, h)
  <2>2. /\ MutationOK(m) /\ m.op = "delete"
        /\ \/ Decide(u, Master, m) \/ rows' = rows
           \/ ~ItemInUse(m.ent) /\ Accept(Master, m, rows[m.ent], FALSE)
    BY <2>1, PruneCases
  <2>. HIDE DEF m
  <2>3. ~ItemInUse(m.ent) => ~StillReferenced(m, rows[m.ent])
    BY DEF ItemInUse, StillReferenced
  <2>. QED  BY <2>2, <2>3, DecideWrites DEF RowWrites, AcceptsSoundly
<1>6. ASSUME \/ \E u \in User, c \in conflictLog : RevertRead(u, c)
             \/ \E u \in User : RevertAbort(u)
             \/ \E u \in User, e \in Entity, how \in {"delete", "prune"} : ReadRowClock(u, e, how)
             \/ UNCHANGED deleteVars
      PROVE  RowWrites
  BY <1>6 DEF RevertRead, RevertAbort, ReadRowClock, deleteVars, vars, RowWrites
<1>. QED  BY <1>1, <1>2, <1>3, <1>4, <1>5, <1>6 DEF Next, DeleteNext

\* A merge that keeps the references names a row that is there, or none.
LEMMA MergedRef ==
  ASSUME TypeOK, NothingDangles, NEW n, MutationOK(n), KeepsRef(n)
  PROVE  LET v == Persisted(n, rows[n.ent]).fields["ref"] IN
         v # Null => v \in Root /\ rows[v].exists
<1>. DEFINE row == rows[n.ent]
            p == Persisted(n, row)
            v == p.fields["ref"]
<1>1. n.ent \in Entity /\ RowOK(row) /\ p.fields = MergedFields(row, n)
  BY DEF MutationOK, TypeOK, Persisted
<1>2. RowOK(p) /\ v = IF "ref" \in Applied(row, n) THEN n.fields["ref"] ELSE row.fields["ref"]
  BY <1>1, PersistedOK DEF Field
<1>3. v # Null => v \in Root
  <2>1. ValueOK("ref", v)
    BY <1>2 DEF RowOK, FieldsOK, Field
  <2>. QED  BY <2>1 DEF ValueOK
<1>4. CASE row.exists /\ "ref" \notin DOMAIN n.fields
  <2>1. v = row.fields["ref"]
    BY <1>2, <1>4 DEF Applied
  <2>. QED  BY <1>1, <1>3, <1>4, <2>1 DEF NothingDangles
<1>5. CASE ~Violates(n.ent, MergedFields(row, n))
  BY <1>1, <1>3, <1>5 DEF Violates
<1>. QED  BY <1>4, <1>5 DEF KeepsRef

\* Deleting a row nothing names leaves no reference behind: what goes with it
\* hangs off it, and a reference never names such a row.
LEMMA NothingDanglesStep ==
  ASSUME TypeOK, NothingDangles, RowWrites
  PROVE  NothingDangles'
<1>. SUFFICES ASSUME NEW e \in Entity, rows'[e].exists, rows'[e].fields["ref"] # Null
              PROVE  rows'[rows'[e].fields["ref"]].exists
  BY DEF NothingDangles
<1>. DEFINE v == rows'[e].fields["ref"]
<1>1. rows[e].exists /\ rows[e].fields["ref"] # Null
        => rows[e].fields["ref"] \in Root /\ rows[rows[e].fields["ref"]].exists
  <2>1. ValueOK("ref", rows[e].fields["ref"])
    BY DEF TypeOK, RowOK, FieldsOK, Field
  <2>. QED  BY <2>1 DEF ValueOK, NothingDangles
<1>2. \A n : Persisted(n, rows[n.ent]).exists /\ ~NoRow.exists
  BY DEF Persisted, NoRow
<1>3. CASE rows' = rows
  BY <1>1, <1>3
<1>4. ASSUME NEW n, MutationOK(n), WritesSoundly(n) PROVE rows'[v].exists
  <2>1. n.ent \in Entity /\ DOMAIN rows = Entity
    BY <1>4 DEF MutationOK, TypeOK
  <2>2. \A x \in Entity : rows'[x] = IF x = n.ent THEN Persisted(n, rows[n.ent]) ELSE rows[x]
    BY <1>4, <2>1 DEF WritesSoundly, ServerWrite
  <2>3. v \in Root /\ rows[v].exists
    BY <1>1, <1>4, <2>2, MergedRef DEF WritesSoundly
  <2>. QED  BY <1>2, <2>2, <2>3 DEF Root
<1>5. ASSUME NEW n, MutationOK(n), AcceptsSoundly(n) PROVE rows'[v].exists
  <2>. DEFINE row == rows[n.ent]
              dies == Deleted(row, n) /\ row.exists
  <2>1. \A x \in Entity : rows'[x] =
          IF dies /\ (x = n.ent \/ x \in FkCascade(n.ent)) THEN NoRow
          ELSE IF x = n.ent /\ n.op # "delete" /\ Changes(n, row) THEN Persisted(n, row)
          ELSE rows[x]
    BY <1>5 DEF AcceptsSoundly, Accept
  <2>2. n.ent \in Entity /\ n.op \in {"upsert", "delete"}
    BY <1>5 DEF MutationOK
  <2>3. dies => n.op = "delete" /\ \A x \in Entity \ {n.ent} : rows[x].exists => rows[x].fields["ref"] # n.ent
    BY <1>5 DEF AcceptsSoundly, StillReferenced, Deleted
  <2>4. \A x \in Root : x \notin FkCascade(n.ent)
    BY <2>2, EntityAssumption DEF Root, FkCascade, NoParent
  <2>5. n.op # "delete" /\ Changes(n, row) => KeepsRef(n)
    BY <1>5, <2>2 DEF AcceptsSoundly
  <2>. HIDE DEF dies, row
  <2>6. CASE dies
    <3>1. rows'[e] = rows[e] /\ rows[e].exists /\ e # n.ent
      BY <1>2, <2>1, <2>3, <2>6
    <3>2. v \in Root /\ rows[v].exists /\ v # n.ent
      BY <1>1, <2>3, <2>6, <3>1
    <3>. QED  BY <2>1, <2>3, <2>4, <2>6, <3>2 DEF Root
  <2>7. CASE ~dies
    <3>1. v \in Root /\ rows[v].exists
      BY <1>1, <1>5, <2>1, <2>5, <2>7, MergedRef DEF row
    <3>. QED  BY <1>2, <2>1, <2>7, <3>1 DEF Root, row
  <2>. QED  BY <2>6, <2>7
<1>. QED  BY <1>3, <1>4, <1>5 DEF RowWrites

\* The inductive invariant of the composed system.
LEMMA DeleteInductive == DeleteSpec => []DeleteInv
<1>1. DeleteInit => DeleteInv
  <2>. SUFFICES ASSUME DeleteInit PROVE DeleteInv
    OBVIOUS
  <2>1. Init /\ deleting = [u \in User |-> NoRequest]
    BY DEF DeleteInit
  <2>2. \A e \in Entity : ~rows[e].exists /\ merged[e] = {}
    BY <2>1 DEF Init, NoRow
  <2>3. RowClockBounds /\ LastWriterWins /\ NothingDangles /\ DeletingKnown
    BY <2>1, <2>2 DEF RowClockBounds, LastWriterWins, NothingDangles, DeletingKnown
  <2>. QED  BY <2>1, <2>3, TypeInit, FeedInit DEF DeleteInv
<1>2. DeleteInv /\ [DeleteNext]_deleteVars => DeleteInv'
  <2>. SUFFICES ASSUME DeleteInv, [DeleteNext]_deleteVars PROVE DeleteInv'
    OBVIOUS
  <2>1. /\ TypeOK /\ StampsKnown /\ RowClockBounds /\ LastWriterWins
        /\ FeedInv /\ FeedTellsTruth /\ NothingDangles /\ DeletingKnown
    BY DEF DeleteInv
  <2>2. /\ BesideRows' /\ used \subseteq used' /\ EveryRowSteps
        /\ \E E : \E del \in BOOLEAN : LogStep(E, del)
    BY <2>1, StoreStep
  <2>3. TypeOK' /\ StampsKnown'
    <3>1. RowsKnown'
      BY <2>1, <2>2, RowsKnownStep
    <3>2. (BesideRows /\ RowsKnown => TypeOK /\ StampsKnown)'
      BY DEF BesideRows, RowsKnown, RowKnown, TypeOK, StampsKnown, Entries
    <3>. QED  BY <2>2, <3>1, <3>2
  <2>4. RowClockBounds' /\ LastWriterWins'
    BY <2>1, <2>2, RowClockBoundsStep, LastWriterWinsStep
  <2>5. FeedInv' /\ FeedTellsTruth'
    BY <2>1, <2>2, LogStepKeeps
  <2>6. NothingDangles' /\ DeletingKnown'
    BY <2>1, EveryStepWrites, NothingDanglesStep, DeletingStep
  <2>. QED  BY <2>3, <2>4, <2>5, <2>6 DEF DeleteInv
<1>. QED  BY <1>1, <1>2, PTL DEF DeleteSpec

\* No row is deleted from under one that names it, by none of the three deletes,
\* whatever was written between their read and their transaction
\* (master.go:311-339, master_prune_item.go:87-113).
THEOREM DeleteNothingDangles == DeleteSpec => []NothingDangles
<1>1. DeleteInv => NothingDangles
  BY DEF DeleteInv
<1>. QED  BY <1>1, DeleteInductive, PTL

\* The server's own deletes keep the feeds true as well (master.go:311-339).
THEOREM DeleteFeedTellsTruth == DeleteSpec => []FeedTellsTruth
<1>1. DeleteInv => FeedTellsTruth
  BY DEF DeleteInv
<1>. QED  BY <1>1, DeleteInductive, PTL

-----------------------------------------------------------------------------
(* What a delete may take. *)

\* A row that goes by itself goes with a tombstone newer than the row's clock;
\* any other hangs off a row that goes in the same step.
LEMMA GoneIsLogged ==
  ASSUME TypeOK, RowWrites, NEW e \in Entity, Gone(e),
         Parent[e] = NoParent \/ rows'[Parent[e]].exists
  PROVE  \E x \in changeLog' \ changeLog :
           x.ent = e /\ x.deleted /\ x.hlc \in Clock /\ rows[e].hlc < x.hlc
<1>1. rows[e].exists /\ ~rows'[e].exists
  BY DEF Gone
<1>2. \A n : Persisted(n, rows[n.ent]).exists /\ ~NoRow.exists
  BY DEF Persisted, NoRow
<1>3. ASSUME NEW n, MutationOK(n), WritesSoundly(n) PROVE FALSE
  <2>1. n.ent \in Entity /\ DOMAIN rows = Entity
    BY <1>3 DEF MutationOK, TypeOK
  <2>2. rows'[e] = IF e = n.ent THEN Persisted(n, rows[n.ent]) ELSE rows[e]
    BY <1>3, <2>1 DEF WritesSoundly, ServerWrite
  <2>. QED  BY <1>1, <1>2, <2>2
<1>4. ASSUME NEW n, MutationOK(n), AcceptsSoundly(n)
      PROVE  \E x \in changeLog' \ changeLog :
               x.ent = e /\ x.deleted /\ x.hlc \in Clock /\ rows[e].hlc < x.hlc
  <2>. DEFINE row == rows[n.ent]
              dies == Deleted(row, n) /\ row.exists
  <2>1. PICK t, retired : Accept(t, n, row, retired)
    BY <1>4 DEF AcceptsSoundly
  <2>2. \A x \in Entity : rows'[x] =
          IF dies /\ (x = n.ent \/ x \in FkCascade(n.ent)) THEN NoRow
          ELSE IF x = n.ent /\ n.op # "delete" /\ Changes(n, row) THEN Persisted(n, row)
          ELSE rows[x]
    BY <2>1 DEF Accept
  <2>3. n.ent \in Entity /\ n.hlc \in Clock /\ n.ent # NoParent
    BY <1>4, EntityAssumption DEF MutationOK, NoParent
  <2>4. dies /\ (e = n.ent \/ e \in FkCascade(n.ent))
    <3>. HIDE DEF dies, row
    <3>. QED  BY <1>1, <1>2, <2>2 DEF row
  <2>5. e = n.ent
    <3>1. \A x \in Entity : x = n.ent \/ x \in FkCascade(n.ent) => ~rows'[x].exists
      <4>. HIDE DEF dies
      <4>. QED  BY <1>2, <2>2, <2>4
    <3>2. ASSUME e # n.ent PROVE FALSE
      <4>1. e \in FkCascade(n.ent)
        BY <2>4, <3>2
      <4>2. Parent[e] = n.ent \/ (Parent[e] # NoParent /\ Parent[Parent[e]] = n.ent)
        BY <4>1 DEF FkCascade
      <4>3. Parent[e] # NoParent /\ Parent[e] \in Entity
        BY <2>3, <4>2, EntityAssumption
      <4>4. Parent[e] = n.ent \/ Parent[e] \in FkCascade(n.ent)
        BY <4>2, <4>3 DEF FkCascade
      <4>. QED  BY <3>1, <4>3, <4>4
    <3>. QED  BY <3>2
  <2>. DEFINE x == Entry(t, n.ent, 0, Deleted(row, n), n.hlc)
  <2>6. x.seq = head + 1 /\ x.ent = e /\ x.deleted /\ x.hlc = n.hlc /\ head \in Nat
    BY <2>4, <2>5 DEF Entry, TypeOK
  <2>7. x \in changeLog'
    BY <2>1, <2>4 DEF Accept, AppendChangeLog, LogAccepted, Changes, Deleted
  <2>8. \A y \in changeLog : y.seq \in Nat /\ y.seq <= head
    BY DEF TypeOK
  <2>9. row.hlc < n.hlc
    <3>1. n.hlc > row.hlc
      BY <2>4 DEF Deleted
    <3>2. n.hlc \in Nat /\ row.hlc \in Nat
      BY <2>3, ClockPositive, ClocksAreNumbers
    <3>. QED  BY <3>1, <3>2
  <2>. HIDE DEF x
  <2>10. x \notin changeLog
    BY <2>6, <2>8
  <2>. QED  BY <2>3, <2>5, <2>6, <2>7, <2>9, <2>10
<1>. QED  BY <1>1, <1>3, <1>4 DEF RowWrites

\* A row is deleted only by a write newer than every edit merged into it, so an
\* edit that overtakes a delete between its read and its transaction survives
\* (master_delete_row.go:55-78).
THEOREM DeleteTakesOnlyTheOlder == DeleteSpec => DeleteIsNewest
<1>. DEFINE Newest(e) ==
       Gone(e) /\ (Parent[e] = NoParent \/ rows'[Parent[e]].exists) =>
         \E x \in changeLog' \ changeLog :
            /\ x.ent = e /\ x.deleted
            /\ \A m \in merged[e] : DOMAIN m.fields \cap PlainField # {} => m.hlc < x.hlc
<1>1. ASSUME DeleteInv, [DeleteNext]_deleteVars, NEW e \in Entity PROVE Newest(e)
  <2>. SUFFICES ASSUME Gone(e), Parent[e] = NoParent \/ rows'[Parent[e]].exists PROVE Newest(e)
    OBVIOUS
  <2>1. TypeOK /\ StampsKnown /\ RowClockBounds /\ LastWriterWins /\ DeletingKnown
    BY <1>1 DEF DeleteInv
  <2>2. PICK x \in changeLog' \ changeLog :
          x.ent = e /\ x.deleted /\ x.hlc \in Clock /\ rows[e].hlc < x.hlc
    BY <1>1, <2>1, EveryStepWrites, GoneIsLogged
  <2>3. ASSUME NEW m \in merged[e], NEW f \in DOMAIN m.fields \cap PlainField
        PROVE  m.hlc < x.hlc
    <3>1. f \in Field /\ m.hlc <= rows[e].clocks[f]
      BY <2>1 DEF LastWriterWins, PlainField
    <3>2. rows[e].exists /\ rows[e].clocks[f] <= rows[e].hlc
      BY <2>1, <3>1 DEF RowClockBounds, Gone
    <3>3. m.hlc \in Nat /\ x.hlc \in Nat /\ rows[e].hlc \in Nat /\ rows[e].clocks[f] \in Nat
      BY <2>1, <2>2, <3>1, <3>2, ClockPositive, ClocksAreNumbers DEF TypeOK, MutationOK
    <3>. QED  BY <2>2, <3>1, <3>2, <3>3
  <2>. QED  BY <2>2, <2>3
<1>2. DeleteInv /\ [DeleteNext]_deleteVars => [\A e \in Entity : Newest(e)]_deleteVars
  BY <1>1
<1>. QED  BY <1>2, DeleteInductive, PTL DEF DeleteSpec, DeleteIsNewest

\* A prune takes the item nothing uses, and what hangs off it, or nothing; no
\* companion rule is taken from another item (master_prune_item.go:22-37, 87-94).
THEOREM DeletePrunesOnlyTheUnused == DeleteSpec => PruneTakesOnlyTheUnused
<1>. DEFINE Spares(u) ==
       deleting[u].how = "prune" /\ deleting'[u] = NoRequest =>
         \A e \in Entity :
            \/ rows'[e] = rows[e]
            \/ Gone(e) /\ Table[e] # "item_dependencies"
<1>1. ASSUME DeleteInv, [DeleteNext]_deleteVars, NEW u \in User PROVE Spares(u)
  <2>. SUFFICES ASSUME deleting[u].how = "prune", deleting'[u] = NoRequest,
                       NEW e \in Entity, rows'[e] # rows[e]
                PROVE  Gone(e) /\ Table[e] # "item_dependencies"
    OBVIOUS
  <2>1. TypeOK /\ StampsKnown /\ DeletingKnown
    BY <1>1 DEF DeleteInv
  <2>2. deleting[u] # NoRequest
    BY DEF NoRequest
  <2>3. DeleteCommit(u)
    <3>1. ASSUME NEW v \in User, NEW c \in Entity, NEW how, ReadRowClock(v, c, how) PROVE FALSE
      BY <3>1 DEF ReadRowClock
    <3>2. ASSUME NEW v \in User, v # u, DeleteCommit(v) PROVE FALSE
      <4>1. deleting' = [deleting EXCEPT ![v] = NoRequest]
        BY <3>2 DEF DeleteCommit
      <4>. QED  BY <2>1, <2>2, <3>2, <4>1 DEF DeletingKnown
    <3>. QED  BY <1>1, <2>2, <3>1, <3>2 DEF DeleteNext, deleteVars
  <2>4. PICK h \in Clock : LET m == DeleteOf(deleting[u].ent, h) IN
          /\ MutationOK(m) /\ m.op = "delete" /\ m.ent = deleting[u].ent
          /\ Table[deleting[u].ent] = "items" /\ Prune(u, m)
    BY <2>1, <2>3, CommitStep
  <2>. DEFINE m == DeleteOf(deleting[u].ent, h)
  <2>5. /\ MutationOK(m) /\ m.op = "delete" /\ Table[m.ent] = "items"
        /\ ~ItemInUse(m.ent) /\ Accept(Master, m, rows[m.ent], FALSE)
    BY <2>4, PruneCases
  <2>. HIDE DEF m
  <2>6. rows'[e] = NoRow /\ (e = m.ent \/ e \in FkCascade(m.ent))
    BY <2>5 DEF Accept
  <2>7. Gone(e)
    <3>1. RowOK(rows[e]) /\ ~NoRow.exists
      BY <2>1 DEF TypeOK, NoRow
    <3>2. rows[e].exists
      BY <2>6, <3>1 DEF RowOK
    <3>. QED  BY <2>6, <3>1, <3>2 DEF Gone
  <2>8. ASSUME Table[e] = "item_dependencies" PROVE FALSE
    <3>1. e # m.ent /\ m.ent \in Entity
      BY <2>5, <2>8 DEF MutationOK
    <3>2. m.ent # NoParent
      BY <3>1, EntityAssumption DEF NoParent
    <3>3. Parent[e] # m.ent
      BY <2>5, <2>7, <2>8, <3>1 DEF ItemInUse, Gone
    <3>4. Parent[e] # NoParent /\ Parent[Parent[e]] = m.ent
      BY <2>6, <3>1, <3>3 DEF FkCascade
    <3>5. Parent[e] \in Entity /\ Table[Parent[e]] = "items"
      BY <2>8, <3>4, EntityAssumption, ItemAssumption
    <3>. QED  BY <3>2, <3>4, <3>5, ItemAssumption
  <2>. QED  BY <2>7, <2>8
<1>2. DeleteInv /\ [DeleteNext]_deleteVars => [\A u \in User : Spares(u)]_deleteVars
  BY <1>1
<1>. QED  BY <1>2, DeleteInductive, PTL DEF DeleteSpec, PruneTakesOnlyTheUnused

=============================================================================
