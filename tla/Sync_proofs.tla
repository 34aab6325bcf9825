---------------------------- MODULE Sync_proofs ----------------------------
(***************************************************************************)
(* Theorems about Sync, for every set of devices, users, rows, writes and  *)
(* clocks, every page size and every number of lost requests and reloads.  *)
(*                                                                         *)
(* The server's invariants carry over: a mutation a drain brings is one    *)
(* more decision of the pipeline. What a device still has to learn is then *)
(* accounted for, row by row: it shows what the server holds, or an entry  *)
(* about the row is in the page on its way, or waits past that page, or a  *)
(* mutation in its own queue will leave one. Told is the fact that closes  *)
(* the argument: the server changes no row, and turns down no mutation     *)
(* that painted one, without an entry past every cursor.                   *)
(***************************************************************************)
EXTENDS Sync, SyncServer_proofs, SequenceTheorems, FiniteSetTheorems, WellFoundedInduction

\* The claims the packing screen paints. The server may drop one without a word
\* (a row that is packed by now), and then no entry brings the device back.
NoClaims ==
    \A w \in Write : "state" \in DOMAIN w.fields => w.fields["state"] # "packing_now"

\* What a device may hold in its queue.
Mutation == {[op |-> w.op, ent |-> w.ent, fields |-> w.fields, hlc |-> h] : w \in Write, h \in Clock}

\* The server's side: its own invariants, and a decided stamp was minted.
ServerInv ==
    /\ TypeOK /\ StampsKnown
    /\ FeedInv /\ FeedTellsTruth /\ RowClockBounds
    /\ IsFiniteSet(changeLog)
    /\ \A c \in Clock : memo[c] # "none" => c \in used

\* The devices' variables have the shape the actions write.
Shape ==
    /\ DeviceTypeOK
    /\ DOMAIN local = Device /\ \A d \in Device : DOMAIN local[d] = Entity
    /\ queue \in [Device -> Seq(Mutation)]
    /\ due \in [Device -> Nat] /\ sent \in [Device -> Nat]
    /\ repairs \in [Device -> SUBSET Entity]
    /\ DOMAIN page = Device
    /\ \A d \in Device :
         page[d] = [entries |-> page[d].entries, rows |-> page[d].rows, more |-> page[d].more]

\* An entry about e is on its way to d in a page, or waits past it.
InPage(d, e) == \E x \in page[d].entries : x.ent = e
Beyond(d, e) == \E x \in Behind(d) : x \notin page[d].entries /\ x.ent = e

\* The page is the front of what the device has yet to read, its rows as they
\* are unless a later entry tells otherwise.
PageInv(d) ==
    /\ cursor[d] <= head
    /\ phase[d] \in {"idle", "push", "pull"} => page[d] = NoPage
    /\ page[d].entries \subseteq Behind(d)
    /\ \A x \in page[d].entries, y \in Behind(d) : y.seq <= x.seq => y \in page[d].entries
    /\ phase[d] = "page" =>
         \A x \in Alive(page[d].entries) :
            /\ x.ent \in DOMAIN page[d].rows
            /\ RowOK(page[d].rows[x.ent])
            /\ page[d].rows[x.ent] = rows[x.ent] \/ Beyond(d, x.ent)

\* What the request carries, what of it was decided and what the answers repair.
PushInv(d) ==
    /\ sent[d] <= due[d] /\ due[d] <= Len(queue[d])
    /\ \A i \in 1 .. sent[d] : memo[queue[d][i].hlc] # "none"
    /\ \A i \in 1 .. Len(queue[d]) : queue[d][i].hlc \in used
    /\ \A e \in repairs[d] : phase[d] = "push" /\ (Beyond(d, e) \/ ~rows[e].exists)

\* The generator is past every row the device has read.
ClockInv(d) ==
    \A e \in Entity : rows[e].exists => Beyond(d, e) \/ InPage(d, e) \/ clock[d] >= rows[e].hlc

DeviceInv(d) == PageInv(d) /\ PushInv(d) /\ ClockInv(d)

\* No two mutations share a stamp.
OneStamp ==
    \A c, d \in Device : \A i \in 1 .. Len(queue[c]), j \in 1 .. Len(queue[d]) :
        queue[c][i].hlc = queue[d][j].hlc => queue[c][i] = queue[d][j]

SyncInv ==
    /\ ServerInv /\ Shape /\ OneStamp
    /\ \A d \in Device : DeviceInv(d)

\* The server will not decide m without an entry about e.
Lands(m, e) ==
    /\ m.ent = e /\ memo[m.hlc] = "none"
    /\ IF rows[e].exists THEN m.hlc > rows[e].hlc
       ELSE m.op # "delete" /\ "trip_id" \in DOMAIN m.fields

Truth(e) == IF rows[e].exists THEN rows[e].fields ELSE Null

\* A device shows the truth of a row, or something will yet bring it there: an
\* entry it has to read, or a mutation of its own that will leave one.
Settles(d) ==
    \A e \in Root :
        \/ Beyond(d, e)
        \/ InPage(d, e)
        \/ local[d][e] = Truth(e)
        \/ \E i \in 1 .. Len(queue[d]) : Lands(queue[d][i], e)

Settling == \A d \in Device : Settles(d)

-----------------------------------------------------------------------------
(* Numbers, entries and mutations. *)

\* A finite set of numbers has a greatest: the smallest of its parts without one
\* would still lack it after losing an element.
LEMMA GreatestOf ==
  ASSUME NEW S, IsFiniteSet(S), S \subseteq Nat, S # {}
  PROVE  Max(S) \in S /\ \A s \in S : s <= Max(S)
<1>. DEFINE R == OpToRel(<, Nat)
            Lacks(T) == T # {} /\ \A m \in T : \E s \in T : s > m
            B == {n \in Nat : \E T \in SUBSET S : Lacks(T) /\ Cardinality(T) = n}
<1>1. ASSUME Lacks(S) PROVE FALSE
  <2>1. Cardinality(S) \in B /\ B \subseteq Nat
    BY <1>1, FS_CardinalityType
  <2>2. IsWellFoundedOn(R, Nat)
    BY NatLessThanWellFounded
  <2>3. \A x \in Nat, y \in Nat : y < x => <<y, x>> \in R
    BY DEF OpToRel
  <2>. HIDE DEF R
  <2>4. PICK n \in B : \A y \in B : ~(<<y, n>> \in R)
    <3>. HIDE DEF B
    <3>. QED  BY <2>1, <2>2, WFMin
  <2>5. PICK T \in SUBSET S : Lacks(T) /\ Cardinality(T) = n
    OBVIOUS
  <2>6. PICK t : t \in T
    BY <2>5
  <2>7. IsFiniteSet(T) /\ IsFiniteSet(T \ {t})
    BY <2>5, FS_Subset, FS_RemoveElement
  <2>8. Cardinality(T \ {t}) = n - 1 /\ Cardinality(T \ {t}) \in Nat
    BY <2>5, <2>6, <2>7, FS_RemoveElement, FS_CardinalityType
  <2>9. Lacks(T \ {t})
    <3>1. PICK r \in T : r > t
      BY <2>5, <2>6
    <3>2. t \in Nat /\ r \in Nat
      BY <2>5, <2>6, <3>1
    <3>3. T \ {t} # {}
      BY <3>1, <3>2
    <3>4. ASSUME NEW m \in T \ {t} PROVE \E s \in T \ {t} : s > m
      <4>1. PICK s \in T : s > m
        BY <2>5, <3>4
      <4>2. s \in Nat /\ m \in Nat
        BY <2>5, <3>4, <4>1
      <4>. QED  BY <3>1, <3>2, <4>1, <4>2
    <3>. QED  BY <3>3, <3>4
  <2>10. n - 1 \in B
    BY <2>5, <2>8, <2>9
  <2>11. n \in Nat /\ n - 1 \in Nat /\ n - 1 < n
    BY <2>4, <2>8
  <2>. HIDE DEF B
  <2>. QED  BY <2>3, <2>4, <2>10, <2>11
<1>2. \E x \in S : \A y \in S : x >= y
  <2>1. PICK m \in S : ~ \E s \in S : s > m
    BY <1>1
  <2>2. \A y \in S : y \in Nat /\ m \in Nat /\ ~ (y > m)
    BY <2>1
  <2>. QED  BY <2>2
<1>3. PICK k : k = Max(S)
  OBVIOUS
<1>4. k \in S /\ \A y \in S : k >= y
  BY <1>2, <1>3, Zenon DEF Max
<1>. QED  BY <1>3, <1>4

\* What is left of a queue when its first n are taken off.
LEMMA RestOf ==
  ASSUME NEW S, NEW q \in Seq(S), NEW n \in Nat, n <= Len(q), NEW r, r = SubSeq(q, n + 1, Len(q))
  PROVE  /\ r \in Seq(S) /\ Len(r) = Len(q) - n
         /\ \A i \in 1 .. Len(r) : i + n \in 1 .. Len(q) /\ r[i] = q[i + n]
         /\ \A k \in 1 .. Len(q) : k > n => k - n \in 1 .. Len(r) /\ r[k - n] = q[k]
<1>1. PICK a \in Nat, b \in Nat : a = n + 1 /\ b = Len(q)
  OBVIOUS
<1>2. a <= b + 1 /\ b - a + 1 = b - n /\ \A i \in a .. b : i \in 1 .. b
  BY <1>1
<1>3. /\ r \in Seq(S) /\ Len(r) = IF a <= b THEN b - a + 1 ELSE 0
      /\ \A i \in 1 .. b - a + 1 : r[i] = q[a + i - 1]
  <2>1. \A i \in a .. b : q[i] \in S
    BY <1>1, <1>2
  <2>. QED  BY <1>1, <2>1, SubSeqProperties
<1>4. Len(r) = b - n
  BY <1>1, <1>2, <1>3
<1>5. ASSUME NEW i \in Nat, 1 <= i, i <= b - n PROVE i + n \in 1 .. b /\ r[i] = q[i + n]
  <2>1. i \in 1 .. b - a + 1 /\ a + i - 1 = i + n /\ i + n \in 1 .. b
    BY <1>1, <1>2, <1>5
  <2>. QED  BY <1>3, <2>1
<1>6. ASSUME NEW i \in 1 .. Len(r) PROVE i + n \in 1 .. Len(q) /\ r[i] = q[i + n]
  <2>1. i \in Nat /\ 1 <= i /\ i <= b - n
    BY <1>1, <1>4
  <2>. QED  BY <1>1, <1>5, <2>1
<1>7. ASSUME NEW k \in 1 .. Len(q), k > n PROVE k - n \in 1 .. Len(r) /\ r[k - n] = q[k]
  <2>1. k - n \in Nat /\ 1 <= k - n /\ k - n <= b - n /\ k - n + n = k
    BY <1>1, <1>7
  <2>2. k - n \in 1 .. Len(r)
    BY <1>1, <1>4, <2>1
  <2>. QED  BY <1>5, <2>1, <2>2
<1>. QED  BY <1>1, <1>3, <1>4, <1>6, <1>7

\* What a device queues is well-formed, of this trip, and says something.
LEMMA MutationFacts ==
  ASSUME NEW m \in Mutation
  PROVE  /\ MutationOK(m) /\ NamesItsHome(m)
         /\ Table[m.ent] \in TripTables /\ Table[m.ent] \notin MasterTables
         /\ "trip_id" \in DOMAIN m.fields => m.fields["trip_id"] = Home
         /\ m.op = "upsert" => DOMAIN m.fields \ ServerOwned # {}
         /\ Home \in Endpoint(m.ent)
<1>1. PICK w \in Write, h \in Clock :
        m = [op |-> w.op, ent |-> w.ent, fields |-> w.fields, hlc |-> h]
  BY DEF Mutation
<1>2. m.op = w.op /\ m.ent = w.ent /\ m.fields = w.fields /\ m.hlc = h
  BY <1>1
<1>3. MutationOK(m)
  BY <1>1, <1>2, WriteAssumption DEF MutationOK
<1>4. NamesItsHome(m)
  BY <1>2 DEF NamesItsHome, HomeIs
<1>5. /\ Table[m.ent] \in TripTables
      /\ "trip_id" \in DOMAIN m.fields => m.fields["trip_id"] = Home
      /\ m.op = "upsert" => DOMAIN m.fields \ ServerOwned # {}
  BY <1>2, WriteAssumption, PartitionAssumption
<1>6. Table[m.ent] \notin MasterTables
  BY <1>5 DEF TripTables, MasterTables
<1>7. Home \in Endpoint(m.ent)
  BY <1>6, SyncAssumption DEF Endpoint
<1>. QED  BY <1>3, <1>4, <1>5, <1>6, <1>7

\* Every entry and every row is of the trip the devices are on.
LEMMA AllHome ==
  ASSUME NEW e \in Entity, NEW t, HomeIs(e, t)
  PROVE  t = Home
  BY PartitionAssumption DEF HomeIs, TripTables, MasterTables

\* The entries about a row's children are finitely many.
LEMMA ChildrenFinite ==
  ASSUME NEW t, NEW m, NEW del
  PROVE  IsFiniteSet(LogChildren(t, m, del))
<1>. DEFINE f == [c \in Cascades(m.ent) |-> Entry(t, c, c, del, m.hlc)]
<1>1. IsFiniteSet(1 .. MaxEntity)
  BY EntityAssumption, FS_Interval
<1>2. Cascades(m.ent) \in SUBSET (1 .. MaxEntity)
  BY EntityAssumption DEF Cascades
<1>3. IsFiniteSet(Cascades(m.ent))
  BY <1>1, <1>2, FS_Subset
<1>4. f \in Surjection(Cascades(m.ent), LogChildren(t, m, del))
  BY DEF Surjection, LogChildren
<1>. QED  BY <1>3, <1>4, FS_Surjection

\* One decision logs finitely many entries.
LEMMA DecideFinite ==
  ASSUME IsFiniteSet(changeLog), NEW u, NEW t, NEW m, Decide(u, t, m)
  PROVE  IsFiniteSet(changeLog')
<1>1. ASSUME NEW E, IsFiniteSet(E), AppendChangeLog(E) PROVE IsFiniteSet(changeLog')
  BY <1>1, FS_Union DEF AppendChangeLog
<1>2. \A x : IsFiniteSet({x}) /\ IsFiniteSet({})
  BY FS_Singleton, FS_EmptySet
<1>3. ASSUME NEW n, NEW row PROVE IsFiniteSet(RelogRefused(t, n, row))
  <2>1. IsFiniteSet(LogChildren(t, n, FALSE))
    BY ChildrenFinite
  <2>2. IsFiniteSet(IF n.op = "delete" /\ row.exists THEN LogChildren(t, n, FALSE) ELSE {})
    BY <1>2, <2>1
  <2>. QED  BY <1>2, <2>2, FS_Union DEF RelogRefused
<1>4. ASSUME NEW n, NEW row, NEW why, Reject(t, n, row, why) PROVE IsFiniteSet(changeLog')
  <2>. DEFINE E == IF Relogs(t, why) THEN RelogRefused(t, n, row) ELSE {}
  <2>1. AppendChangeLog(E) /\ IsFiniteSet(E)
    BY <1>2, <1>3, <1>4 DEF Reject
  <2>. HIDE DEF E
  <2>. QED  BY <1>1, <2>1
<1>5. ASSUME NEW n, NEW row, NEW retired, Accept(t, n, row, retired) PROVE IsFiniteSet(changeLog')
  <2>. DEFINE own == {Entry(t, n.ent, 0, Deleted(row, n), n.hlc)}
              gone == IF Deleted(row, n) THEN LogChildren(t, n, TRUE) ELSE {}
              back == IF retired THEN LogChildren(t, n, FALSE) ELSE {}
              E == LogAccepted(t, n, row, retired)
  <2>1. IsFiniteSet(own) /\ IsFiniteSet(gone) /\ IsFiniteSet(back)
    BY <1>2, ChildrenFinite
  <2>2. E = {} \/ E = (own \cup gone) \cup back
    BY DEF LogAccepted
  <2>3. AppendChangeLog(E)
    BY <1>5 DEF Accept
  <2>. HIDE DEF E, own, gone, back
  <2>4. IsFiniteSet((own \cup gone) \cup back)
    BY <2>1, FS_Union
  <2>. QED  BY <1>1, <1>2, <2>2, <2>3, <2>4
<1>. QED  BY <1>4, <1>5 DEF Decide

-----------------------------------------------------------------------------
(* What the server owes the devices. *)

\* Of what a device queues, the scope rule turns down only an edit of a row
\* that is not there.
LEMMA ScopeInHome ==
  ASSUME TypeOK, FeedInv, NEW m \in Mutation, NEW u,
         ScopeRefusal(u, Home, StampServerOwned(m, rows[m.ent], u), rows[m.ent]) # "none"
  PROVE  ~rows[m.ent].exists /\ m.op # "delete" /\ "trip_id" \notin DOMAIN m.fields
<1>. DEFINE row == rows[m.ent]
            s == StampServerOwned(m, row, u)
<1>1. /\ MutationOK(m) /\ Table[m.ent] \in TripTables /\ Table[m.ent] \notin MasterTables
      /\ "trip_id" \in DOMAIN m.fields => m.fields["trip_id"] = Home
  BY MutationFacts
<1>2. s.op = m.op /\ s.ent = m.ent
  BY <1>1, StampOK
<1>3. /\ "trip_id" \in DOMAIN s.fields <=> "trip_id" \in DOMAIN m.fields
      /\ "trip_id" \in DOMAIN m.fields => s.fields["trip_id"] = m.fields["trip_id"]
  BY <1>1, StampColumns DEF ServerOwned
<1>4. row.exists => row.fields["trip_id"] = Home
  <2>1. row.exists => HomeIs(m.ent, HomeOf(row, m.ent))
    BY <1>1 DEF FeedInv, MutationOK
  <2>. QED  BY <1>1, <2>1, AllHome DEF HomeOf, MutationOK
<1>5. Table[s.ent] \notin OwnedTables
  BY <1>1, <1>2 DEF TripTables, OwnedTables
<1>. HIDE DEF s
<1>6. ~BelongsToTrip(Home, s, row)
  BY <1>5 DEF ScopeRefusal, s
<1>. QED  BY <1>1, <1>2, <1>3, <1>4, <1>6 DEF BelongsToTrip

\* An entry about e past everything a device can have read.
Told(e) == \E x \in changeLog' : x.ent = e /\ x.feed = Home /\ x.seq > head

\* An accepted write that changes a row says so.
LEMMA AcceptTells ==
  ASSUME TypeOK, NEW m, MutationOK(m), NEW retired, Accept(Home, m, rows[m.ent], retired)
  PROVE  /\ Changes(m, rows[m.ent]) => Told(m.ent)
         /\ \A e \in Entity : rows'[e] = rows[e] \/ Told(e)
<1>. DEFINE row == rows[m.ent]
            E == LogAccepted(Home, m, row, retired)
<1>1. changeLog' = changeLog \cup E /\ head \in Nat /\ m.ent \in Entity
  BY DEF Accept, AppendChangeLog, TypeOK, MutationOK
<1>2. ASSUME Changes(m, row) PROVE Told(m.ent)
  <2>. DEFINE own == Entry(Home, m.ent, 0, Deleted(row, m), m.hlc)
  <2>1. own \in E
    BY <1>2 DEF LogAccepted
  <2>2. own.ent = m.ent /\ own.feed = Home /\ own.seq > head
    BY <1>1 DEF Entry
  <2>. HIDE DEF own, E
  <2>. QED  BY <1>1, <2>1, <2>2 DEF Told
<1>3. ASSUME NEW e \in Entity, rows'[e] # rows[e] PROVE Told(e)
  <2>1. \/ e = m.ent /\ Changes(m, row)
        \/ Deleted(row, m) /\ row.exists /\ e \in FkCascade(m.ent) /\ rows'[e] = NoRow
    <3>1. rows'[e] = IF Deleted(row, m) /\ row.exists /\ (e = m.ent \/ e \in FkCascade(m.ent))
                     THEN NoRow
                     ELSE IF e = m.ent /\ m.op # "delete" /\ Changes(m, row)
                     THEN Persisted(m, row)
                     ELSE rows[e]
      BY DEF Accept
    <3>2. Deleted(row, m) /\ row.exists => Changes(m, row)
      BY DEF Deleted, Changes
    <3>. QED  BY <1>3, <3>1, <3>2
  <2>2. CASE e = m.ent /\ Changes(m, row)
    BY <1>2, <2>2
  <2>3. CASE Deleted(row, m) /\ row.exists /\ e \in FkCascade(m.ent) /\ rows'[e] = NoRow
    <3>. DEFINE x == Entry(Home, e, e, TRUE, m.hlc)
    <3>1. rows[e].exists
      BY <1>3, <2>3, ClocksAreNumbers
    <3>2. e \in Cascades(m.ent)
      BY <2>3, <3>1 DEF Cascades, FkCascade
    <3>3. Changes(m, row)
      BY <2>3 DEF Deleted, Changes
    <3>4. x \in E
      BY <2>3, <3>2, <3>3 DEF LogAccepted, LogChildren
    <3>5. e \in Nat
      BY EntityAssumption
    <3>6. x.ent = e /\ x.feed = Home /\ x.seq > head
      BY <1>1, <3>5 DEF Entry
    <3>. HIDE DEF x, E
    <3>. QED  BY <1>1, <3>4, <3>6 DEF Told
  <2>. QED  BY <2>1, <2>2, <2>3
<1>. QED  BY <1>2, <1>3

\* A refusal that is re-delivered says so too.
LEMMA RejectTells ==
  ASSUME TypeOK, NEW m, NEW why, Relogs(Home, why), Reject(Home, m, rows[m.ent], why)
  PROVE  Told(m.ent)
<1>. DEFINE row == rows[m.ent]
            own == Entry(Home, m.ent, 0, ~row.exists, IF row.exists THEN row.hlc ELSE m.hlc)
<1>1. own \in changeLog'
  BY DEF Reject, AppendChangeLog, RelogRefused
<1>2. own.ent = m.ent /\ own.feed = Home /\ own.seq > head
  BY DEF Entry, TypeOK
<1>. HIDE DEF own
<1>. QED  BY <1>1, <1>2 DEF Told

\* An upsert newer than the row, and no claim, is applied in some column.
LEMMA NewerWins ==
  ASSUME NoClaims, TypeOK, RowClockBounds, NEW m \in Mutation, NEW u,
         m.op = "upsert", rows[m.ent].exists, m.hlc > rows[m.ent].hlc
  PROVE  Applied(rows[m.ent], StampServerOwned(m, rows[m.ent], u)) # {}
<1>. DEFINE row == rows[m.ent]
            s == StampServerOwned(m, row, u)
<1>1. MutationOK(m) /\ MutationOK(s) /\ s.op = m.op /\ s.hlc = m.hlc
  BY MutationFacts, StampOK
<1>2. PICK f \in DOMAIN m.fields \ ServerOwned : TRUE
  BY MutationFacts
<1>3. /\ \A g \in DOMAIN m.fields \ ServerOwned : g \in DOMAIN s.fields /\ s.fields[g] = m.fields[g]
      /\ DOMAIN s.fields \ ServerOwned = DOMAIN m.fields \ ServerOwned
  BY <1>1, StampColumns
<1>4. f \in DOMAIN s.fields /\ f \in Field /\ f \notin StateRecord
  BY <1>1, <1>2, <1>3 DEF MutationOK, FieldsOK, ServerOwned, StateRecord
<1>5. "state" \in DOMAIN s.fields => s.fields["state"] # "packing_now"
  <2>1. "state" \in DOMAIN s.fields
          => "state" \in DOMAIN m.fields /\ s.fields["state"] = m.fields["state"]
    BY <1>3 DEF ServerOwned
  <2>2. PICK w \in Write, h \in Clock :
          m = [op |-> w.op, ent |-> w.ent, fields |-> w.fields, hlc |-> h]
    BY DEF Mutation
  <2>3. m.fields = w.fields
    BY <2>2
  <2>. HIDE DEF s
  <2>. QED  BY <2>1, <2>3 DEF NoClaims
<1>6. /\ m.ent \in Entity /\ RowOK(row) /\ row.exists
      /\ \A g \in Field : row.clocks[g] \in Nat /\ row.clocks[g] <= row.hlc
  BY <1>1, ClocksAreNumbers DEF TypeOK, RowClockBounds, MutationOK
<1>7. row.hlc \in Nat /\ s.hlc \in Nat /\ s.hlc > row.hlc
  BY <1>1, <1>6, ClocksAreNumbers, ClockPositive DEF MutationOK
<1>8. \A g \in Field : ClockOf(row, g) \in Nat /\ s.hlc > ClockOf(row, g)
  BY <1>6, <1>7 DEF ClockOf
<1>9. s.hlc > GroupClock(row)
  BY <1>8 DEF GroupClock, MaxHLC, Field
<1>. HIDE DEF s, row
<1>10. Wins(row, s, f)
  BY <1>4, <1>5, <1>8, <1>9 DEF Wins, GroupDecision
<1>11. f \in Applied(row, s)
  BY <1>1, <1>4, <1>10 DEF Applied
<1>. QED  BY <1>11 DEF row, s

\* The server changes no row, and decides no mutation that bears on one, without
\* an entry past everything a device has read.
LEMMA DecideTells ==
  ASSUME ServerInv, NEW m \in Mutation, NEW u, Decide(u, Home, m)
  PROVE  /\ \A e \in Entity : rows'[e] = rows[e] \/ Told(e)
         /\ NoClaims /\ Lands(m, m.ent) => Told(m.ent)
<1>. DEFINE row == rows[m.ent]
            s == StampServerOwned(m, row, u)
            why == Reason(u, Home, s, row)
<1>1. /\ TypeOK /\ FeedInv /\ RowClockBounds
      /\ MutationOK(m) /\ MutationOK(s) /\ s.op = m.op /\ s.ent = m.ent /\ s.hlc = m.hlc
      /\ Table[m.ent] \in TripTables
  BY MutationFacts, StampOK DEF ServerInv
<1>2. ~Retires(s, row)
  BY <1>1 DEF Retires, LifecycleTables, TripTables
<1>3. CASE why # "none"
  <2>1. Reject(Home, s, row, why)
    BY <1>3 DEF Decide
  <2>2. rows' = rows
    BY <2>1 DEF Reject
  <2>3. ASSUME Lands(m, m.ent) PROVE Told(m.ent)
    <3>1. ScopeRefusal(u, Home, s, row) = "none"
      <4>1. ~(~row.exists /\ m.op # "delete" /\ "trip_id" \notin DOMAIN m.fields)
        BY <2>3 DEF Lands
      <4>. QED  BY <1>1, <4>1, ScopeInHome
    <3>2. why \in {"row_deleted", "still_referenced", "constraint_violated"}
      <4>. HIDE DEF s
      <4>. QED  BY <1>3, <3>1 DEF Reason
    <3>3. Relogs(Home, why)
      <4>. HIDE DEF why
      <4>. QED  BY <3>2 DEF Relogs
    <3>. HIDE DEF s, why
    <3>. QED  BY <1>1, <2>1, <3>3, RejectTells
  <2>. QED  BY <2>2, <2>3
<1>4. CASE why = "none"
  <2>1. Accept(Home, s, row, FALSE)
    BY <1>2, <1>4 DEF Decide
  <2>2. /\ Changes(s, row) => Told(m.ent)
        /\ \A e \in Entity : rows'[e] = rows[e] \/ Told(e)
    <3>. HIDE DEF s
    <3>. QED  BY <1>1, <2>1, AcceptTells
  <2>3. ASSUME NoClaims, Lands(m, m.ent) PROVE Changes(s, row)
    <3>1. CASE ~row.exists
      BY <1>1, <2>3, <3>1 DEF Lands, Changes
    <3>2. CASE row.exists /\ m.op = "delete"
      BY <1>1, <2>3, <3>2 DEF Lands, Changes, Deleted
    <3>3. CASE row.exists /\ m.op = "upsert"
      <4>1. Applied(row, s) # {}
        BY <1>1, <2>3, <3>3, NewerWins DEF Lands
      <4>. HIDE DEF s
      <4>. QED  BY <1>1, <3>3, <4>1 DEF Changes
    <3>. QED  BY <1>1, <3>1, <3>2, <3>3 DEF MutationOK, TypeOK, RowOK
  <2>. QED  BY <2>2, <2>3
<1>. QED  BY <1>3, <1>4

-----------------------------------------------------------------------------
(* The server's invariants under a drain. *)

\* A decision leaves a row alone, removes it, or merges in a stamp known before.
Taken(e) ==
    \/ rows'[e] = rows[e] /\ merged'[e] = merged[e]
    \/ rows'[e] = NoRow /\ merged'[e] = {}
    \/ \E n : /\ MutationOK(n) /\ n.ent = e /\ n.hlc \in used
              /\ merged'[e] = merged[e] \cup {n}
              /\ \/ rows'[e] = rows[e] /\ rows[e].exists
                 \/ rows'[e] = Persisted(n, rows[e]) /\ StaysInTrip(n, rows[e])

\* What a decision does, seen from one row.
LEMMA DecideTakes ==
  ASSUME TypeOK, StampsKnown, NEW m \in Mutation, m.hlc \in used, NEW u, Decide(u, Home, m),
         NEW e \in Entity
  PROVE  Taken(e)
<1>. DEFINE row == rows[m.ent]
            s == StampServerOwned(m, row, u)
<1>1. /\ MutationOK(s) /\ s.op = m.op /\ s.ent = m.ent /\ s.hlc = m.hlc
      /\ Table[m.ent] \in TripTables /\ Home \in Endpoint(s.ent)
  BY MutationFacts, StampOK
<1>2. ~Retires(s, row)
  BY <1>1 DEF Retires, LifecycleTables, TripTables
<1>3. CASE Reason(u, Home, s, row) # "none"
  BY <1>3 DEF Decide, Reject, Taken
<1>4. CASE Reason(u, Home, s, row) = "none"
  <2>1. Accept(Home, s, row, FALSE) /\ ScopeRefusal(u, Home, s, row) = "none"
    BY <1>2, <1>4 DEF Decide, Reason
  <2>. HIDE DEF s
  <2>2. Untouched(e) \/ Removed(e) \/ Rewritten(e, s) \/ Outweighed(e, s)
    BY <1>1, <2>1, AcceptStep
  <2>3. s.op = "upsert" => StaysInTrip(s, row)
    BY <1>1, <2>1, ScopeOK
  <2>. QED  BY <1>1, <2>2, <2>3 DEF Taken, Untouched, Removed, Rewritten, Outweighed, Merges
<1>. QED  BY <1>3, <1>4

\* Such a step keeps every row well typed and bounded by its own clock.
LEMMA TakenKeepsRows ==
  ASSUME TypeOK, StampsKnown, RowClockBounds, used' = used, \A e \in Entity : Taken(e)
  PROVE  RowsKnown' /\ RowClockBounds'
<1>. SUFFICES ASSUME NEW e \in Entity
              PROVE  /\ RowKnown(e, rows'[e], merged'[e], used)
                     /\ rows'[e].exists => \A f \in Field : rows'[e].clocks[f] <= rows'[e].hlc
  <2>1. ASSUME \A e \in Entity : RowKnown(e, rows'[e], merged'[e], used') PROVE RowsKnown'
    BY <2>1 DEF RowsKnown, RowKnown, RowOK, MutationOK, FieldsOK, ValueOK
  <2>. QED  BY <2>1 DEF RowClockBounds
<1>1. /\ RowKnown(e, rows[e], merged[e], used)
      /\ rows[e].exists => \A f \in Field : rows[e].clocks[f] <= rows[e].hlc
  BY DEF TypeOK, StampsKnown, RowKnown, RowClockBounds
<1>2. Taken(e)
  OBVIOUS
<1>3. CASE rows'[e] = rows[e] /\ merged'[e] = merged[e]
  BY <1>1, <1>3
<1>4. CASE rows'[e] = NoRow /\ merged'[e] = {}
  <2>1. RowOK(rows'[e]) /\ ~rows'[e].exists /\ merged'[e] = {}
    BY <1>4, NoRowOK DEF NoRow
  <2>. QED  BY <2>1 DEF RowKnown
<1>5. ASSUME NEW n, MutationOK(n), n.hlc \in used, merged'[e] = merged[e] \cup {n},
             rows'[e] = rows[e], rows[e].exists
      PROVE  /\ RowKnown(e, rows'[e], merged'[e], used)
             /\ rows'[e].exists => \A f \in Field : rows'[e].clocks[f] <= rows'[e].hlc
  BY <1>1, <1>5 DEF RowKnown
<1>6. ASSUME NEW n, MutationOK(n), n.ent = e, n.hlc \in used, merged'[e] = merged[e] \cup {n},
             rows'[e] = Persisted(n, rows[e]), StaysInTrip(n, rows[e])
      PROVE  /\ RowKnown(e, rows'[e], merged'[e], used)
             /\ rows'[e].exists => \A f \in Field : rows'[e].clocks[f] <= rows'[e].hlc
  <2>. DEFINE p == Persisted(n, rows[e])
  <2>1. /\ RowOK(p) /\ p.exists /\ p.hlc = MaxHLC(rows[e].hlc, n.hlc)
        /\ \A f \in Field : p.clocks[f] =
             IF ~rows[e].exists \/ f \in Applied(rows[e], n) THEN n.hlc ELSE rows[e].clocks[f]
    BY <1>1, <1>6, PersistedOK DEF RowKnown
  <2>2. /\ n.hlc \in Nat /\ n.hlc > 0 /\ rows[e].hlc \in Nat
        /\ rows[e].exists => \A f \in Field : rows[e].clocks[f] \in Nat
        /\ ~rows[e].exists => rows[e].hlc = 0
    BY <1>6, ClockPositive, ClocksAreNumbers DEF MutationOK
  <2>3. Table[e] \in TripTables => p.fields["trip_id"] \in Trip
    BY <1>6 DEF StaysInTrip, Persisted
  <2>. HIDE DEF p
  <2>4. p.hlc \in used /\ \A f \in Field : p.clocks[f] \in used
    BY <1>1, <1>6, <2>1, <2>2 DEF MaxHLC, RowKnown
  <2>5. \A f \in Field : p.clocks[f] <= p.hlc
    BY <1>1, <2>1, <2>2 DEF MaxHLC
  <2>. QED  BY <1>1, <1>6, <2>1, <2>3, <2>4, <2>5 DEF RowKnown, p
<1>. QED  BY <1>2, <1>3, <1>4, <1>5, <1>6 DEF Taken

\* What leaves the store alone, but for the stamps minted, keeps its invariants.
LEMMA ServerStays ==
  ASSUME ServerInv, used \subseteq used', used' \subseteq Clock,
         UNCHANGED <<rows, changeLog, head, memo, pushed, conflictLog, reverting, srvHLC, merged>>
  PROVE  ServerInv'
<1>1. BesideRows' /\ RowsKnown'
  <2>1. BesideRows /\ \A e \in Entity : RowKnown(e, rows[e], merged[e], used)
    BY BesideRowsNow DEF ServerInv, TypeOK, StampsKnown, RowKnown
  <2>2. BesideRows'
    BY <2>1 DEF BesideRows, Entries
  <2>3. \A e \in Entity : RowKnown(e, rows'[e], merged'[e], used')
    BY <2>1 DEF RowKnown
  <2>4. RowsKnown'
    BY <2>3 DEF RowsKnown, RowKnown, RowOK, MutationOK, FieldsOK, ValueOK
  <2>. QED  BY <2>2, <2>4
<1>2. (BesideRows /\ RowsKnown => TypeOK /\ StampsKnown)'
  BY DEF BesideRows, RowsKnown, RowKnown, TypeOK, StampsKnown, Entries
<1>3. FeedInv' /\ FeedTellsTruth'
  BY QuietLogStep, LogStepKeeps DEF ServerInv
<1>4. RowClockBounds' /\ IsFiniteSet(changeLog)' /\ (\A c \in Clock : memo[c] # "none" => c \in used)'
  BY DEF ServerInv, RowClockBounds
<1>. QED  BY <1>1, <1>2, <1>3, <1>4 DEF ServerInv

\* What the server may do to what the devices read.
Moves ==
    /\ changeLog \subseteq changeLog' /\ head <= head'
    /\ \A x \in changeLog' : x \in changeLog \/ x.seq > head
    /\ \A e \in Entity : rows'[e] = rows[e] \/ Told(e)
    /\ \A c \in Clock : memo[c] # "none" => memo'[c] # "none"

\* It decides m, and nothing else.
Decides(m) ==
    \A c \in Clock : memo'[c] # memo[c] =>
        /\ c = m.hlc /\ memo[c] = "none"
        /\ NoClaims /\ Lands(m, m.ent) => Told(m.ent)

\* A mutation a drain brings, replayed or not.
LEMMA ApplyKeeps ==
  ASSUME ServerInv, NEW m \in Mutation, m.hlc \in used, NEW u \in User,
         ApplyMutation(u, Home, m), UNCHANGED <<used, pushed>>
  PROVE  ServerInv' /\ Moves /\ Decides(m)
<1>0. /\ TypeOK /\ StampsKnown /\ FeedInv /\ FeedTellsTruth /\ RowClockBounds
      /\ MutationOK(m) /\ NamesItsHome(m) /\ Home \in Endpoint(m.ent)
      /\ head \in Nat /\ used \subseteq Clock /\ m.hlc \in Clock
  BY MutationFacts DEF ServerInv, TypeOK, MutationOK
<1>1. CASE memo[m.hlc] # "none"
  <2>1. UNCHANGED <<rows, changeLog, head, memo, pushed, conflictLog, reverting, srvHLC, merged>>
    BY <1>1 DEF ApplyMutation
  <2>2. ServerInv'
    BY <1>0, <2>1, ServerStays
  <2>. QED  BY <1>0, <2>1, <2>2 DEF Moves, Decides
<1>2. CASE memo[m.hlc] = "none"
  <2>1. Decide(u, Home, m) /\ UNCHANGED <<reverting, srvHLC>>
    BY <1>2 DEF ApplyMutation
  <2>2. PICK o \in {"applied", "merged", "rejected"} : memo' = [memo EXCEPT ![m.hlc] = o]
    BY <1>0, <2>1, DecideTypes
  <2>3. /\ \A c \in Clock : memo'[c] = IF c = m.hlc THEN o ELSE memo[c]
        /\ memo' \in [Clock -> {"none", "applied", "merged", "rejected"}]
    BY <1>0, <2>2 DEF TypeOK
  <2>4. TypeOK' /\ StampsKnown' /\ RowClockBounds'
    <3>1. RowsKnown' /\ RowClockBounds'
      BY <1>0, <2>1, DecideTakes, TakenKeepsRows
    <3>2. BesideRows
      BY <1>0, BesideRowsNow
    <3>3. \A p \in pushed : memo'[p.m.hlc] # "none"
      BY <2>3, <3>2 DEF BesideRows, MutationOK
    <3>4. /\ head' \in Nat /\ changeLog' \subseteq Entries' /\ \A x \in conflictLog' : ConflictOK(x)
          /\ rows' = [e \in Entity |-> rows'[e]] /\ merged' = [e \in Entity |-> merged'[e]]
      BY <1>0, <2>1, DecideTypes
    <3>5. BesideRows'
      BY <2>1, <2>3, <3>2, <3>3, <3>4 DEF BesideRows, Entries
    <3>6. (BesideRows /\ RowsKnown => TypeOK /\ StampsKnown)'
      BY DEF BesideRows, RowsKnown, RowKnown, TypeOK, StampsKnown, Entries
    <3>. QED  BY <3>1, <3>5, <3>6
  <2>5. PICK E : \E del \in BOOLEAN : LogStep(E, del)
    BY <1>0, <2>1, DecideLogs
  <2>6. FeedInv' /\ FeedTellsTruth'
    BY <1>0, <2>5, LogStepKeeps
  <2>7. changeLog' = changeLog \cup E /\ \A x \in E : x.seq > head
    BY <2>5 DEF LogStep
  <2>8. IsFiniteSet(changeLog')
    BY <2>1, DecideFinite DEF ServerInv
  <2>9. head <= head'
    <3>1. \E F : AppendChangeLog(F)
      BY <2>1 DEF Decide, Reject, Accept
    <3>. QED  BY <1>0, <3>1, EntityAssumption DEF AppendChangeLog
  <2>10. /\ \A e \in Entity : rows'[e] = rows[e] \/ Told(e)
         /\ NoClaims /\ Lands(m, m.ent) => Told(m.ent)
    BY <2>1, DecideTells
  <2>11. \A c \in Clock : memo'[c] # "none" => c \in used'
    BY <2>3 DEF ServerInv
  <2>12. ServerInv'
    BY <2>4, <2>6, <2>8, <2>11 DEF ServerInv
  <2>13. Moves
    BY <2>3, <2>7, <2>9, <2>10 DEF Moves
  <2>14. Decides(m)
    BY <1>2, <2>3, <2>10 DEF Decides
  <2>. QED  BY <2>12, <2>13, <2>14
<1>. QED  BY <1>1, <1>2

\* What a drain's transaction does to the store.
LEMMA TakesKeeps ==
  ASSUME SyncInv, NEW d \in Device, ServerTakes(d)
  PROVE  LET m == queue[d][sent[d] + 1] IN
         m \in Mutation /\ ServerInv' /\ Moves /\ Decides(m) /\ used' = used
<1>1. PICK m : m = queue[d][sent[d] + 1]
  OBVIOUS
<1>2. /\ sent[d] \in Nat /\ due[d] \in Nat /\ queue[d] \in Seq(Mutation) /\ Len(queue[d]) \in Nat
      /\ sent[d] < due[d] /\ due[d] <= Len(queue[d])
      /\ \A i \in 1 .. Len(queue[d]) : queue[d][i].hlc \in used
  BY DEF SyncInv, DeviceInv, Shape, PushInv, ServerTakes
<1>3. sent[d] + 1 \in 1 .. Len(queue[d])
  BY <1>2
<1>4. m \in Mutation /\ m.hlc \in used
  BY <1>1, <1>2, <1>3
<1>5. ApplyMutation(UserOf[d], Home, m) /\ UNCHANGED <<used, pushed>> /\ UserOf[d] \in User
  BY <1>1, SyncAssumption DEF ServerTakes
<1>6. ServerInv
  BY DEF SyncInv
<1>7. ServerInv' /\ Moves /\ Decides(m)
  BY <1>4, <1>5, <1>6, ApplyKeeps
<1>. QED  BY <1>1, <1>4, <1>5, <1>7

\* A step beside the store leaves the devices nothing new to read.
LEMMA StoreStays ==
  ASSUME SyncInv, used \subseteq used', used' \subseteq Clock,
         UNCHANGED <<rows, changeLog, head, memo, pushed, conflictLog, reverting, srvHLC, merged>>
  PROVE  ServerInv' /\ Moves
<1>1. ServerInv /\ head \in Nat
  BY DEF SyncInv, ServerInv, TypeOK
<1>. QED  BY <1>1, ServerStays DEF Moves

\* The store stays in every other step.
LEMMA OtherSteps ==
  ASSUME SyncInv, NEW d \in Device,
         \/ \E w \in Write, h \in Clock : Edit(d, w, h)
         \/ StartDrain(d) \/ PushAnswered(d) \/ PullRead(d) \/ PullLoad(d) \/ PullApply(d)
         \/ RequestLost(d) \/ Reload(d)
         \/ UNCHANGED syncVars
  PROVE  /\ ServerInv' /\ Moves /\ used \subseteq used'
         /\ UNCHANGED <<rows, changeLog, head, memo>>
<1>0. used \subseteq Clock
  BY DEF SyncInv, ServerInv, TypeOK
<1>1. ASSUME NEW w \in Write, NEW h \in Clock, Edit(d, w, h)
      PROVE  /\ ServerInv' /\ Moves /\ used \subseteq used'
             /\ UNCHANGED <<rows, changeLog, head, memo>>
  <2>1. /\ used' = used \cup {h}
        /\ UNCHANGED <<rows, changeLog, head, memo, pushed, conflictLog, reverting, srvHLC, merged>>
    BY <1>1 DEF Edit
  <2>2. used \subseteq used' /\ used' \subseteq Clock
    BY <1>0, <2>1
  <2>. QED  BY <2>1, <2>2, StoreStays
<1>2. ASSUME UNCHANGED vars
      PROVE  /\ ServerInv' /\ Moves /\ used \subseteq used'
             /\ UNCHANGED <<rows, changeLog, head, memo>>
  BY <1>0, <1>2, StoreStays DEF vars
<1>3. \/ \E w \in Write, h \in Clock : Edit(d, w, h)
      \/ UNCHANGED vars
  BY DEF StartDrain, PushAnswered, PullRead, PullLoad, PullApply, RequestLost, Reload, syncVars
<1>. QED  BY <1>1, <1>2, <1>3

-----------------------------------------------------------------------------
(* What a step of the server, or of another device, leaves to a device. *)

\* Entries are numbered up to the head.
LEMMA EntryNumbers ==
  ASSUME TypeOK
  PROVE  head \in Nat /\ \A x \in changeLog : x.seq \in Nat /\ x.seq <= head /\ x.ent \in Entity
  BY DEF TypeOK

\* What waits for a device goes on waiting, and news waits past its page.
LEMMA BeyondGrows ==
  ASSUME SyncInv, Moves, ServerInv', NEW d \in Device, cursor'[d] = cursor[d], page'[d] = page[d]
  PROVE  /\ Behind(d) \subseteq Behind(d)'
         /\ \A x \in Behind(d)' : x \in Behind(d) \/ x.seq > head
         /\ \A e : Beyond(d, e) \/ Told(e) => Beyond(d, e)'
<1>1. /\ head \in Nat /\ cursor[d] \in Nat /\ cursor[d] <= head
      /\ \A x \in changeLog : x.seq \in Nat /\ x.seq <= head
      /\ page[d].entries \subseteq Behind(d)
  BY EntryNumbers DEF SyncInv, DeviceInv, ServerInv, Shape, DeviceTypeOK, PageInv
<1>2. /\ Behind(d) \subseteq Behind(d)'
      /\ \A x \in Behind(d)' : x \in Behind(d) \/ x.seq > head
  BY DEF Behind, Moves
<1>3. ASSUME NEW e, Told(e) PROVE Beyond(d, e)'
  <2>1. PICK x \in changeLog' : x.ent = e /\ x.feed = Home /\ x.seq > head
    BY <1>3 DEF Told
  <2>2. x.seq > cursor[d]
    <3>1. x.seq \in Nat
      BY EntryNumbers DEF ServerInv, TypeOK
    <3>. QED  BY <1>1, <2>1, <3>1
  <2>3. x \notin page[d].entries
    BY <1>1, <2>1 DEF Behind
  <2>. QED  BY <2>1, <2>2, <2>3 DEF Beyond, Behind
<1>4. ASSUME NEW e, Beyond(d, e) PROVE Beyond(d, e)'
  BY <1>2, <1>4 DEF Beyond
<1>. QED  BY <1>2, <1>3, <1>4

\* A device whose page, cursor and clock stay keeps what it knows of them.
LEMMA PageStays ==
  ASSUME SyncInv, Moves, ServerInv', NEW d \in Device, cursor'[d] = cursor[d], page'[d] = page[d],
         clock'[d] \in Nat, clock[d] <= clock'[d],
         \/ phase'[d] = phase[d]
         \/ page[d] = NoPage /\ phase'[d] # "page"
  PROVE  PageInv(d)' /\ ClockInv(d)'
<1>1. /\ PageInv(d) /\ ClockInv(d) /\ head \in Nat /\ head' \in Nat /\ cursor[d] \in Nat
      /\ head <= head' /\ \A e \in Entity : rows'[e] = rows[e] \/ Told(e)
      /\ \A x \in changeLog : x.seq \in Nat /\ x.seq <= head /\ x.ent \in Entity
  BY EntryNumbers DEF SyncInv, DeviceInv, ServerInv, Shape, DeviceTypeOK, TypeOK, Moves
<1>0. page'[d].entries = page[d].entries /\ page[d].entries \subseteq Behind(d)
  BY <1>1 DEF PageInv
<1>2. /\ Behind(d) \subseteq Behind(d)' /\ Behind(d) \subseteq changeLog
      /\ \A x \in Behind(d)' : x \in Behind(d) \/ x.seq > head
      /\ \A e : Beyond(d, e) \/ Told(e) => Beyond(d, e)'
  BY BeyondGrows DEF Behind
<1>3. cursor'[d] <= head'
  BY <1>1 DEF PageInv
<1>4. phase'[d] \in {"idle", "push", "pull"} => page'[d] = NoPage
  BY <1>1 DEF PageInv
<1>5. page'[d].entries \subseteq Behind(d)'
  BY <1>1, <1>2 DEF PageInv
<1>6. ASSUME NEW x \in page'[d].entries, NEW y \in Behind(d)', y.seq <= x.seq
      PROVE  y \in page'[d].entries
  <2>1. x \in Behind(d) /\ x.seq \in Nat /\ x.seq <= head
    BY <1>0, <1>1, <1>2
  <2>2. ~(y.seq > head)
    <3>1. y \in changeLog'
      BY DEF Behind
    <3>2. y.seq \in Nat
      BY <3>1, EntryNumbers DEF ServerInv, TypeOK
    <3>. QED  BY <1>1, <1>6, <2>1, <3>2
  <2>3. y \in Behind(d)
    BY <1>2, <2>2
  <2>. QED  BY <1>1, <1>6, <2>3 DEF PageInv
<1>7. ASSUME phase'[d] = "page", NEW x \in Alive(page'[d].entries)
      PROVE  /\ x.ent \in DOMAIN page'[d].rows
             /\ RowOK(page'[d].rows[x.ent])
             /\ page'[d].rows[x.ent] = rows'[x.ent] \/ Beyond(d, x.ent)'
  <2>1. /\ x.ent \in DOMAIN page[d].rows
        /\ RowOK(page[d].rows[x.ent])
        /\ page[d].rows[x.ent] = rows[x.ent] \/ Beyond(d, x.ent)
    BY <1>1, <1>7 DEF PageInv
  <2>2. x.ent \in Entity
    BY <1>0, <1>1, <1>2, <1>7 DEF Alive, Compacted
  <2>. QED  BY <1>1, <1>2, <2>1, <2>2
<1>8. ASSUME NEW e \in Entity, rows'[e].exists
      PROVE  Beyond(d, e)' \/ InPage(d, e)' \/ clock'[d] >= rows'[e].hlc
  <2>1. rows[e].hlc \in Nat /\ clock[d] \in Nat
    BY ClocksAreNumbers, ClockPositive DEF SyncInv, ServerInv, Shape, DeviceTypeOK
  <2>2. rows'[e] = rows[e] \/ Beyond(d, e)'
    BY <1>1, <1>2
  <2>3. CASE rows'[e] = rows[e]
    BY <1>0, <1>1, <1>2, <1>8, <2>1, <2>3 DEF ClockInv, InPage
  <2>. QED  BY <2>2, <2>3
<1>. QED  BY <1>3, <1>4, <1>5, <1>6, <1>7, <1>8 DEF PageInv, ClockInv

\* A device whose request stays keeps what it knows of it.
LEMMA PushStays ==
  ASSUME SyncInv, Moves, ServerInv', used \subseteq used', NEW d \in Device,
         cursor'[d] = cursor[d], page'[d] = page[d],
         phase'[d] = phase[d], sent'[d] = sent[d], due'[d] = due[d], repairs'[d] = repairs[d],
         Len(queue[d]) <= Len(queue'[d]), Len(queue'[d]) \in Nat,
         \A i \in 1 .. Len(queue[d]) : queue'[d][i] = queue[d][i],
         \A i \in 1 .. Len(queue'[d]) : queue'[d][i].hlc \in used'
  PROVE  PushInv(d)'
<1>1. /\ PushInv(d) /\ queue[d] \in Seq(Mutation) /\ repairs[d] \subseteq Entity
      /\ sent[d] \in Nat /\ due[d] \in Nat /\ Len(queue[d]) \in Nat
  BY DEF SyncInv, DeviceInv, Shape
<1>2. \A e : Beyond(d, e) \/ Told(e) => Beyond(d, e)'
  BY BeyondGrows
<1>3. \A i \in 1 .. sent[d] : memo'[queue'[d][i].hlc] # "none"
  <2>. SUFFICES ASSUME NEW i \in 1 .. sent[d] PROVE memo'[queue'[d][i].hlc] # "none"
    OBVIOUS
  <2>1. i \in 1 .. Len(queue[d]) /\ memo[queue[d][i].hlc] # "none" /\ queue'[d][i] = queue[d][i]
    BY <1>1 DEF PushInv
  <2>2. queue[d][i].hlc \in Clock
    BY <1>1, <2>1, MutationFacts DEF MutationOK
  <2>. QED  BY <2>1, <2>2 DEF Moves
<1>4. \A e \in repairs[d] : phase[d] = "push" /\ (Beyond(d, e)' \/ ~rows'[e].exists)
  BY <1>1, <1>2 DEF PushInv, Moves
<1>. QED  BY <1>1, <1>3, <1>4 DEF PushInv

Same(d) ==
    /\ local'[d] = local[d] /\ queue'[d] = queue[d] /\ due'[d] = due[d] /\ sent'[d] = sent[d]
    /\ repairs'[d] = repairs[d] /\ phase'[d] = phase[d] /\ cursor'[d] = cursor[d]
    /\ page'[d] = page[d] /\ clock'[d] = clock[d]

\* A device that does nothing keeps what it knows.
LEMMA OthersKeep ==
  ASSUME SyncInv, Moves, ServerInv', used \subseteq used', NEW d \in Device, Same(d)
  PROVE  DeviceInv(d)'
<1>1. clock[d] \in Nat
  BY ClockPositive DEF SyncInv, Shape, DeviceTypeOK
<1>2. PageInv(d)' /\ ClockInv(d)'
  BY <1>1, PageStays DEF Same
<1>3. queue[d] \in Seq(Mutation) /\ \A i \in 1 .. Len(queue[d]) : queue[d][i].hlc \in used
  BY DEF SyncInv, DeviceInv, Shape, PushInv
<1>4. Len(queue[d]) \in Nat
  BY <1>3
<1>5. PushInv(d)'
  BY <1>3, <1>4, PushStays DEF Same
<1>. QED  BY <1>2, <1>5 DEF DeviceInv

\* Queues that only lose mutations keep their stamps apart.
LEMMA StampsStay ==
  ASSUME OneStamp,
         \A c \in Device : \A i \in 1 .. Len(queue'[c]) :
            \E j \in 1 .. Len(queue[c]) : queue'[c][i] = queue[c][j]
  PROVE  OneStamp'
<1>. SUFFICES ASSUME NEW c \in Device, NEW d \in Device,
                     NEW i \in 1 .. Len(queue'[c]), NEW j \in 1 .. Len(queue'[d]),
                     queue'[c][i].hlc = queue'[d][j].hlc
              PROVE  queue'[c][i] = queue'[d][j]
  BY DEF OneStamp
<1>1. PICK k \in 1 .. Len(queue[c]) : queue'[c][i] = queue[c][k]
  OBVIOUS
<1>2. PICK l \in 1 .. Len(queue[d]) : queue'[d][j] = queue[d][l]
  OBVIOUS
<1>. QED  BY <1>1, <1>2 DEF OneStamp

-----------------------------------------------------------------------------
(* Each step of a device. *)

\* What a step of d has to keep of the devices.
DevicesKept == Shape' /\ OneStamp' /\ \A c \in Device : DeviceInv(c)'

\* An edit is painted, queued and stamped past everything the device has read.
LEMMA EditKeeps ==
  ASSUME SyncInv, NEW d \in Device, NEW w \in Write, NEW h \in Clock, Edit(d, w, h)
  PROVE  DevicesKept
<1>. DEFINE m == [op |-> w.op, ent |-> w.ent, fields |-> w.fields, hlc |-> h]
<1>1. ServerInv' /\ Moves /\ used \subseteq used'
  BY OtherSteps
<1>2. /\ m \in Mutation /\ m.hlc = h /\ m.ent = w.ent /\ w.ent \in Entity /\ m.fields = w.fields
      /\ m.op = w.op
  BY WriteAssumption DEF Mutation
<1>3. /\ h \notin used /\ h > clock[d]
      /\ local' = [local EXCEPT ![d] = Painted(@, m)]
      /\ queue' = [queue EXCEPT ![d] = Append(@, m)]
      /\ clock' = [clock EXCEPT ![d] = h]
      /\ used' = used \cup {h}
      /\ UNCHANGED <<due, sent, repairs, phase, cursor, page, faults, head>>
  BY DEF Edit
<1>. HIDE DEF m
<1>4. /\ queue[d] \in Seq(Mutation) /\ Len(queue[d]) \in Nat
      /\ queue'[d] = Append(queue[d], m) /\ queue'[d] \in Seq(Mutation)
      /\ Len(queue'[d]) = Len(queue[d]) + 1
      /\ \A i \in 1 .. Len(queue[d]) : queue'[d][i] = queue[d][i]
      /\ queue'[d][Len(queue[d]) + 1] = m
      /\ \A c \in Device : c # d => queue'[c] = queue[c]
  BY <1>2, <1>3 DEF SyncInv, Shape
<1>5. \A i \in 1 .. Len(queue'[d]) : i \in 1 .. Len(queue[d]) \/ i = Len(queue[d]) + 1
  BY <1>4
<1>6. \A c \in Device : \A i \in 1 .. Len(queue[c]) : queue[c][i].hlc \in used
  BY DEF SyncInv, DeviceInv, PushInv
<1>7. /\ DOMAIN local' = Device
      /\ \A c \in Device : DOMAIN local'[c] = Entity
      /\ \A c \in Device, e \in Entity : local'[c][e] # Null => DOMAIN local'[c][e] = Field
  <2>1. /\ DOMAIN local = Device /\ \A c \in Device : DOMAIN local[c] = Entity
        /\ \A c \in Device, e \in Entity : local[c][e] # Null => DOMAIN local[c][e] = Field
    BY DEF SyncInv, Shape, DeviceTypeOK
  <2>2. \A c \in Device : local'[c] = IF c = d THEN Painted(local[d], m) ELSE local[c]
    BY <1>3, <2>1
  <2>3. DOMAIN Painted(local[d], m) = Entity
    BY <2>1 DEF Painted, RemoveCascading
  <2>4. \A e \in Entity : Painted(local[d], m)[e] # Null => DOMAIN Painted(local[d], m)[e] = Field
    BY <1>2, <2>1 DEF Painted, RemoveCascading
  <2>. QED  BY <1>3, <2>1, <2>2, <2>3, <2>4
<1>8. Shape'
  BY <1>3, <1>4, <1>7 DEF SyncInv, Shape, DeviceTypeOK
<1>9. OneStamp'
  <2>. SUFFICES ASSUME NEW a \in Device, NEW b \in Device,
                       NEW i \in 1 .. Len(queue'[a]), NEW j \in 1 .. Len(queue'[b]),
                       queue'[a][i].hlc = queue'[b][j].hlc
                PROVE  queue'[a][i] = queue'[b][j]
    BY DEF OneStamp
  <2>1. ASSUME NEW c \in Device, NEW k \in 1 .. Len(queue'[c])
        PROVE  \/ k \in 1 .. Len(queue[c]) /\ queue'[c][k] = queue[c][k] /\ queue'[c][k].hlc # h
               \/ queue'[c][k] = m
    <3>1. CASE c = d
      BY <1>3, <1>4, <1>5, <1>6, <2>1, <3>1
    <3>2. CASE c # d
      BY <1>3, <1>4, <1>6, <2>1, <3>2
    <3>. QED  BY <3>1, <3>2
  <2>2. CASE queue'[a][i] = m \/ queue'[b][j] = m
    BY <1>2, <2>1, <2>2
  <2>3. CASE queue'[a][i] # m /\ queue'[b][j] # m
    <3>1. i \in 1 .. Len(queue[a]) /\ queue'[a][i] = queue[a][i]
      BY <2>1, <2>3
    <3>2. j \in 1 .. Len(queue[b]) /\ queue'[b][j] = queue[b][j]
      BY <2>1, <2>3
    <3>. QED  BY <3>1, <3>2 DEF SyncInv, OneStamp
  <2>. QED  BY <2>2, <2>3
<1>10. ASSUME NEW c \in Device PROVE DeviceInv(c)'
  <2>1. CASE c # d
    <3>1. Same(c)
      BY <1>3, <1>4, <2>1 DEF Same, SyncInv, Shape, DeviceTypeOK
    <3>. QED  BY <1>1, <3>1, OthersKeep
  <2>2. CASE c = d
    <3>1. clock[d] \in Nat /\ clock'[d] = h /\ h \in Nat
      BY <1>3, ClockPositive DEF SyncInv, Shape, DeviceTypeOK
    <3>2. PageInv(d)' /\ ClockInv(d)'
      BY <1>1, <1>3, <3>1, PageStays
    <3>3. \A i \in 1 .. Len(queue'[d]) : queue'[d][i].hlc \in used'
      BY <1>2, <1>3, <1>4, <1>5, <1>6
    <3>4. Len(queue[d]) <= Len(queue'[d]) /\ Len(queue'[d]) \in Nat
      BY <1>4
    <3>5. PushInv(d)'
      BY <1>1, <1>3, <1>4, <3>3, <3>4, PushStays
    <3>. QED  BY <2>2, <3>2, <3>5 DEF DeviceInv
  <2>. QED  BY <2>1, <2>2
<1>. QED  BY <1>8, <1>9, <1>10 DEF DevicesKept

\* A drain starts with the whole queue, or with a pull.
LEMMA StartKeeps ==
  ASSUME SyncInv, NEW d \in Device, StartDrain(d)
  PROVE  DevicesKept
<1>1. ServerInv' /\ Moves /\ used \subseteq used'
  BY OtherSteps
<1>2. /\ phase[d] = "idle"
      /\ phase' = [phase EXCEPT ![d] = IF queue[d] # <<>> THEN "push" ELSE "pull"]
      /\ due' = [due EXCEPT ![d] = Len(queue[d])]
      /\ UNCHANGED <<vars, local, queue, sent, repairs, cursor, page, clock, faults>>
  BY DEF StartDrain
<1>3. /\ phase'[d] \in {"push", "pull"} /\ due'[d] = Len(queue[d]) /\ Len(queue[d]) \in Nat
      /\ \A c \in Device : c # d => phase'[c] = phase[c] /\ due'[c] = due[c]
      /\ sent[d] <= due[d] /\ due[d] <= Len(queue[d]) /\ sent[d] \in Nat /\ due[d] \in Nat
      /\ repairs[d] \subseteq Entity /\ \A e \in repairs[d] : phase[d] = "push"
      /\ page[d] = NoPage
  BY <1>2 DEF SyncInv, Shape, DeviceTypeOK, DeviceInv, PageInv, PushInv
<1>4. Shape'
  BY <1>2, <1>3 DEF SyncInv, Shape, DeviceTypeOK, vars
<1>5. OneStamp'
  BY <1>2 DEF SyncInv, OneStamp
<1>6. ASSUME NEW c \in Device PROVE DeviceInv(c)'
  <2>1. CASE c # d
    <3>1. Same(c)
      BY <1>2, <1>3, <2>1 DEF Same
    <3>. QED  BY <1>1, <3>1, OthersKeep
  <2>2. CASE c = d
    <3>1. clock[d] \in Nat
      BY ClockPositive DEF SyncInv, Shape, DeviceTypeOK
    <3>2. PageInv(d)' /\ ClockInv(d)'
      BY <1>1, <1>2, <1>3, <3>1, PageStays
    <3>3. repairs[d] = {}
      BY <1>2, <1>3
    <3>4. PushInv(d)'
      BY <1>2, <1>3, <3>3 DEF SyncInv, DeviceInv, PushInv, vars
    <3>. QED  BY <2>2, <3>2, <3>4 DEF DeviceInv
  <2>. QED  BY <2>1, <2>2
<1>. QED  BY <1>4, <1>5, <1>6 DEF DevicesKept

\* The server's decisions add to what a device has to read, and to what its
\* answer repairs: a row that was not there when its edit came.
LEMMA TakesKeepsDevices ==
  ASSUME SyncInv, NEW d \in Device, ServerTakes(d)
  PROVE  DevicesKept
<1>0. PICK m : m = queue[d][sent[d] + 1]
  OBVIOUS
<1>1. m \in Mutation /\ ServerInv' /\ Moves /\ Decides(m) /\ used' = used
  BY <1>0, TakesKeeps
<1>2. /\ phase[d] = "push" /\ sent[d] < due[d]
      /\ ApplyMutation(UserOf[d], Home, m)
      /\ \/ repairs' = repairs
         \/ /\ repairs' = [repairs EXCEPT ![d] = @ \cup {m.ent}]
            /\ memo[m.hlc] = "none"
            /\ Reason(UserOf[d], Home, StampServerOwned(m, rows[m.ent], UserOf[d]), rows[m.ent])
                 = "out_of_scope"
      /\ sent' = [sent EXCEPT ![d] = @ + 1]
      /\ UNCHANGED <<used, pushed, local, queue, due, phase, cursor, page, clock, faults>>
  BY <1>0 DEF ServerTakes
<1>3. /\ sent[d] \in Nat /\ due[d] \in Nat /\ due[d] <= Len(queue[d]) /\ Len(queue[d]) \in Nat
      /\ sent'[d] = sent[d] + 1 /\ repairs[d] \subseteq Entity
      /\ \A c \in Device : c # d => sent'[c] = sent[c] /\ repairs'[c] = repairs[c]
      /\ queue[d] \in Seq(Mutation) /\ m.ent \in Entity /\ m.hlc \in Clock
  BY <1>1, <1>2, MutationFacts DEF SyncInv, Shape, DeviceInv, PushInv, MutationOK
<1>4. Shape'
  <2>1. repairs' \in [Device -> SUBSET Entity]
    <3>1. repairs \in [Device -> SUBSET Entity] /\ repairs[d] \cup {m.ent} \in SUBSET Entity
      BY <1>3 DEF SyncInv, Shape
    <3>2. CASE repairs' = [repairs EXCEPT ![d] = @ \cup {m.ent}]
      BY <3>1, <3>2
    <3>. QED  BY <1>2, <3>1, <3>2
  <2>2. sent' \in [Device -> Nat]
    BY <1>2 DEF SyncInv, Shape
  <2>3. cursor' \in [Device -> 0 .. head']
    BY <1>1, <1>2 DEF SyncInv, Shape, DeviceTypeOK, ServerInv, TypeOK, Moves
  <2>4. \A c \in Device : sent'[c] \in 0 .. due'[c] /\ due'[c] \in 0 .. Len(queue'[c])
    BY <1>2, <1>3 DEF SyncInv, Shape, DeviceTypeOK
  <2>. QED  BY <1>2, <2>1, <2>2, <2>3, <2>4 DEF SyncInv, Shape, DeviceTypeOK
<1>5. OneStamp'
  BY <1>2 DEF SyncInv, OneStamp
<1>6. ASSUME NEW c \in Device PROVE DeviceInv(c)'
  <2>1. CASE c # d
    <3>1. Same(c)
      BY <1>2, <1>3, <2>1 DEF Same
    <3>. QED  BY <1>1, <3>1, OthersKeep
  <2>2. CASE c = d
    <3>1. clock[d] \in Nat
      BY ClockPositive DEF SyncInv, Shape, DeviceTypeOK
    <3>2. PageInv(d)' /\ ClockInv(d)'
      BY <1>1, <1>2, <3>1, PageStays
    <3>3. /\ PushInv(d) /\ \A e : Beyond(d, e) \/ Told(e) => Beyond(d, e)'
      BY <1>1, <1>2, BeyondGrows DEF SyncInv, DeviceInv
    <3>4. \A i \in 1 .. sent'[d] : memo'[queue'[d][i].hlc] # "none"
      <4>. SUFFICES ASSUME NEW i \in 1 .. sent'[d] PROVE memo'[queue[d][i].hlc] # "none"
        BY <1>2
      <4>1. CASE i = sent[d] + 1
        <5>1. memo'[m.hlc] # "none"
          <6>1. CASE memo[m.hlc] # "none"
            BY <1>1, <1>3, <6>1 DEF Moves
          <6>2. CASE memo[m.hlc] = "none"
            <7>1. Decide(UserOf[d], Home, m)
              BY <1>2, <6>2 DEF ApplyMutation
            <7>2. PICK o \in {"applied", "merged", "rejected"} : memo' = [memo EXCEPT ![m.hlc] = o]
              BY <1>1, <7>1, SyncAssumption, MutationFacts, DecideTypes DEF SyncInv, ServerInv
            <7>. QED  BY <1>3, <7>2 DEF SyncInv, ServerInv, TypeOK
          <6>. QED  BY <6>1, <6>2
        <5>. QED  BY <1>0, <4>1, <5>1
      <4>2. CASE i \in 1 .. sent[d]
        <5>1. i \in 1 .. Len(queue[d]) /\ memo[queue[d][i].hlc] # "none"
          BY <1>2, <1>3, <3>3, <4>2 DEF PushInv
        <5>2. queue[d][i].hlc \in Clock
          BY <1>3, <5>1, MutationFacts DEF MutationOK
        <5>. QED  BY <1>1, <5>1, <5>2 DEF Moves
      <4>. QED  BY <1>3, <4>1, <4>2
    <3>5. \A e \in repairs'[d] : Beyond(d, e)' \/ ~rows'[e].exists
      <4>. SUFFICES ASSUME NEW e \in repairs'[d] PROVE Beyond(d, e)' \/ ~rows'[e].exists
        OBVIOUS
      <4>1. Beyond(d, e) \/ ~rows[e].exists
        <5>1. CASE e \in repairs[d]
          BY <3>3, <5>1 DEF PushInv
        <5>2. CASE e \notin repairs[d]
          <6>1. /\ e = m.ent
                /\ Reason(UserOf[d], Home, StampServerOwned(m, rows[m.ent], UserOf[d]), rows[m.ent])
                     = "out_of_scope"
            BY <1>2, <5>2 DEF SyncInv, Shape
          <6>2. ScopeRefusal(UserOf[d], Home, StampServerOwned(m, rows[m.ent], UserOf[d]), rows[m.ent])
                  # "none"
            BY <6>1 DEF Reason
          <6>. QED  BY <1>1, <6>1, <6>2, ScopeInHome DEF SyncInv, ServerInv
        <5>. QED  BY <5>1, <5>2
      <4>2. e \in Entity
        BY <1>2, <1>3 DEF SyncInv, Shape
      <4>3. rows'[e] = rows[e] \/ Beyond(d, e)'
        BY <1>1, <3>3, <4>2 DEF Moves
      <4>. QED  BY <3>3, <4>1, <4>3
    <3>6. PushInv(d)'
      BY <1>1, <1>2, <1>3, <3>3, <3>4, <3>5 DEF PushInv
    <3>. QED  BY <2>2, <3>2, <3>6 DEF DeviceInv
  <2>. QED  BY <2>1, <2>2
<1>. QED  BY <1>4, <1>5, <1>6 DEF DevicesKept

\* An answered push takes its mutations off the queue.
LEMMA AnsweredKeeps ==
  ASSUME SyncInv, NEW d \in Device, PushAnswered(d)
  PROVE  DevicesKept
<1>1. ServerInv' /\ Moves /\ used \subseteq used'
  BY OtherSteps
<1>2. /\ phase[d] = "push" /\ sent[d] = due[d]
      /\ local' = [local EXCEPT ![d] = RemoveCascading(@, repairs[d])]
      /\ queue' = [queue EXCEPT ![d] = SubSeq(@, due[d] + 1, Len(@))]
      /\ due' = [due EXCEPT ![d] = 0]
      /\ sent' = [sent EXCEPT ![d] = 0]
      /\ repairs' = [repairs EXCEPT ![d] = {}]
      /\ phase' = [phase EXCEPT ![d] = "pull"]
      /\ UNCHANGED <<vars, cursor, page, clock, faults>>
  BY DEF PushAnswered
<1>3. /\ queue[d] \in Seq(Mutation) /\ Len(queue[d]) \in Nat /\ due[d] \in Nat
      /\ due[d] <= Len(queue[d])
      /\ queue'[d] = SubSeq(queue[d], due[d] + 1, Len(queue[d]))
      /\ due'[d] = 0 /\ sent'[d] = 0 /\ repairs'[d] = {} /\ phase'[d] = "pull"
      /\ page[d] = NoPage
      /\ \A c \in Device : c # d => /\ queue'[c] = queue[c] /\ due'[c] = due[c]
                                    /\ sent'[c] = sent[c] /\ repairs'[c] = repairs[c]
                                    /\ phase'[c] = phase[c] /\ local'[c] = local[c]
  BY <1>2 DEF SyncInv, Shape, DeviceTypeOK, DeviceInv, PageInv, PushInv
<1>4. /\ queue'[d] \in Seq(Mutation) /\ Len(queue'[d]) = Len(queue[d]) - due[d]
      /\ \A i \in 1 .. Len(queue'[d]) :
           i + due[d] \in 1 .. Len(queue[d]) /\ queue'[d][i] = queue[d][i + due[d]]
  <2>1. PICK q, n, r : /\ q = queue[d] /\ n = due[d] /\ r = queue'[d]
                       /\ q \in Seq(Mutation) /\ n \in Nat
    BY <1>3
  <2>2. q \in Seq(Mutation) /\ n \in Nat
    BY <2>1
  <2>3. n <= Len(q) /\ r = SubSeq(q, n + 1, Len(q))
    BY <1>3, <2>1
  <2>4. /\ r \in Seq(Mutation) /\ Len(r) = Len(q) - n
        /\ \A i \in 1 .. Len(r) : i + n \in 1 .. Len(q) /\ r[i] = q[i + n]
    BY <2>2, <2>3, RestOf
  <2>. QED  BY <2>1, <2>4
<1>5. Shape'
  <2>1. /\ DOMAIN local' = Device /\ \A c \in Device : DOMAIN local'[c] = Entity
        /\ \A c \in Device, e \in Entity : local'[c][e] # Null => DOMAIN local'[c][e] = Field
    BY <1>2, <1>3 DEF SyncInv, Shape, DeviceTypeOK, RemoveCascading
  <2>2. queue' \in [Device -> Seq(Mutation)]
    BY <1>2, <1>3, <1>4 DEF SyncInv, Shape
  <2>3. ASSUME NEW c \in Device
        PROVE  sent'[c] \in 0 .. due'[c] /\ due'[c] \in 0 .. Len(queue'[c])
    <3>1. CASE c = d
      BY <1>3, <1>4, <3>1
    <3>2. CASE c # d
      BY <1>3, <3>2 DEF SyncInv, Shape, DeviceTypeOK
    <3>. QED  BY <3>1, <3>2
  <2>. QED  BY <1>2, <2>1, <2>2, <2>3 DEF SyncInv, Shape, DeviceTypeOK, vars
<1>6. OneStamp'
  <2>1. ASSUME NEW c \in Device, NEW i \in 1 .. Len(queue'[c])
        PROVE  \E j \in 1 .. Len(queue[c]) : queue'[c][i] = queue[c][j]
    <3>1. CASE c = d
      BY <1>4, <3>1
    <3>2. CASE c # d
      BY <1>3, <3>2
    <3>. QED  BY <3>1, <3>2
  <2>. QED  BY <2>1, StampsStay DEF SyncInv
<1>7. ASSUME NEW c \in Device PROVE DeviceInv(c)'
  <2>1. CASE c # d
    <3>1. Same(c)
      BY <1>2, <1>3, <2>1 DEF Same
    <3>. QED  BY <1>1, <3>1, OthersKeep
  <2>2. CASE c = d
    <3>1. clock[d] \in Nat
      BY ClockPositive DEF SyncInv, Shape, DeviceTypeOK
    <3>2. PageInv(d)' /\ ClockInv(d)'
      BY <1>1, <1>2, <1>3, <3>1, PageStays
    <3>3. \A i \in 1 .. Len(queue'[d]) : queue'[d][i].hlc \in used'
      BY <1>1, <1>4 DEF SyncInv, DeviceInv, PushInv
    <3>4. Len(queue'[d]) \in Nat
      BY <1>4
    <3>5. PushInv(d)'
      <4>1. /\ sent'[d] <= due'[d] /\ due'[d] <= Len(queue'[d])
            /\ 1 .. sent'[d] = {} /\ repairs'[d] = {}
        BY <1>3, <3>4
      <4>2. \A i \in 1 .. sent'[d] : (memo[queue[d][i].hlc] # "none")'
        BY <4>1
      <4>3. \A e \in repairs'[d] : (phase[d] = "push" /\ (Beyond(d, e) \/ ~rows[e].exists))'
        BY <4>1
      <4>. QED  BY <3>3, <4>1, <4>2, <4>3 DEF PushInv
    <3>. QED  BY <2>2, <3>2, <3>5 DEF DeviceInv
  <2>. QED  BY <2>1, <2>2
<1>. QED  BY <1>5, <1>6, <1>7 DEF DevicesKept

\* A page read from the front of a feed is its front.
LEMMA FirstIsFront ==
  ASSUME NEW es, IsFiniteSet(es), \A z \in es : z.seq \in Nat,
         NEW x \in FirstOf(es), NEW y \in es, y.seq <= x.seq
  PROVE  y \in FirstOf(es)
<1>. DEFINE before(z) == {b \in es : b.seq < z.seq}
<1>1. x \in es /\ Cardinality(before(x)) < PageSize
  BY DEF FirstOf
<1>2. before(y) \subseteq before(x)
  <2>. SUFFICES ASSUME NEW b \in es, b.seq < y.seq PROVE b.seq < x.seq
    OBVIOUS
  <2>. QED  BY <1>1
<1>3. before(x) \subseteq es
  OBVIOUS
<1>. HIDE DEF before
<1>4. IsFiniteSet(before(x)) /\ IsFiniteSet(before(y))
  BY <1>2, <1>3, FS_Subset
<1>5. Cardinality(before(y)) <= Cardinality(before(x))
  BY <1>2, <1>4, FS_Subset
<1>6. Cardinality(before(y)) \in Nat /\ Cardinality(before(x)) \in Nat /\ PageSize \in Nat
  BY <1>4, FS_CardinalityType, SyncAssumption
<1>7. Cardinality(before(y)) < PageSize
  BY <1>1, <1>5, <1>6
<1>. QED  BY <1>7 DEF FirstOf, before

\* What a device has yet to read is finite and numbered past its cursor.
LEMMA BehindFacts ==
  ASSUME SyncInv, NEW d \in Device
  PROVE  /\ cursor[d] \in Nat /\ cursor[d] <= head /\ head \in Nat
         /\ Behind(d) \subseteq changeLog /\ IsFiniteSet(Behind(d))
         /\ \A x \in Behind(d) : /\ x.seq \in Nat /\ x.seq <= head /\ x.seq > cursor[d]
                                 /\ x.ent \in Entity
         /\ page[d].entries \subseteq Behind(d) /\ IsFiniteSet(page[d].entries)
<1>1. /\ cursor[d] \in Nat /\ cursor[d] <= head /\ head \in Nat
      /\ Behind(d) \subseteq changeLog /\ IsFiniteSet(changeLog)
      /\ page[d].entries \subseteq Behind(d)
  BY EntryNumbers DEF SyncInv, DeviceInv, PageInv, ServerInv, Shape, DeviceTypeOK, Behind
<1>2. IsFiniteSet(Behind(d))
  BY <1>1, FS_Subset
<1>3. IsFiniteSet(page[d].entries)
  BY <1>1, <1>2, FS_Subset
<1>4. \A x \in Behind(d) : x.seq \in Nat /\ x.seq <= head /\ x.seq > cursor[d] /\ x.ent \in Entity
  BY EntryNumbers DEF SyncInv, ServerInv, Behind
<1>. QED  BY <1>1, <1>2, <1>3, <1>4

\* The pull reads the next page.
LEMMA PullReadKeeps ==
  ASSUME SyncInv, NEW d \in Device, PullRead(d)
  PROVE  DevicesKept
<1>. DEFINE es == FirstOf(Behind(d))
<1>1. ServerInv' /\ Moves /\ used \subseteq used' /\ UNCHANGED <<rows, changeLog, head, memo>>
  BY OtherSteps
<1>2. /\ phase[d] = "pull"
      /\ page' = [page EXCEPT ![d] = [entries |-> es, rows |-> Null,
                                      more |-> Cardinality(Behind(d)) > PageSize]]
      /\ phase' = [phase EXCEPT ![d] = "load"]
      /\ UNCHANGED <<vars, local, queue, due, sent, repairs, cursor, clock, faults>>
  BY DEF PullRead
<1>3. /\ page[d] = NoPage /\ phase'[d] = "load" /\ page'[d].entries = es
      /\ page'[d] = [entries |-> page'[d].entries, rows |-> page'[d].rows, more |-> page'[d].more]
      /\ \A c \in Device : c # d => page'[c] = page[c] /\ phase'[c] = phase[c]
      /\ repairs[d] = {} /\ used' = used
  BY <1>2 DEF SyncInv, Shape, DeviceTypeOK, DeviceInv, PageInv, PushInv, vars
<1>4. es \subseteq Behind(d) /\ Behind(d)' = Behind(d)
  BY <1>2 DEF FirstOf, Behind, vars
<1>5. \A x \in es, y \in Behind(d) : y.seq <= x.seq => y \in es
  BY BehindFacts, FirstIsFront
<1>. HIDE DEF es
<1>6. Shape'
  BY <1>2, <1>3 DEF SyncInv, Shape, DeviceTypeOK, vars
<1>7. OneStamp'
  BY <1>2 DEF SyncInv, OneStamp
<1>8. ASSUME NEW c \in Device PROVE DeviceInv(c)'
  <2>1. CASE c # d
    <3>1. Same(c)
      BY <1>2, <1>3, <2>1 DEF Same
    <3>. QED  BY <1>1, <3>1, OthersKeep
  <2>2. CASE c = d
    <3>1. PageInv(d)'
      BY <1>2, <1>3, <1>4, <1>5, BehindFacts DEF PageInv, vars
    <3>2. ClockInv(d)'
      <4>. SUFFICES ASSUME NEW e \in Entity, rows[e].exists
                    PROVE  Beyond(d, e)' \/ InPage(d, e)' \/ clock[d] >= rows[e].hlc
        BY <1>1, <1>2 DEF ClockInv
      <4>1. Beyond(d, e) \/ clock[d] >= rows[e].hlc
        BY <1>3 DEF SyncInv, DeviceInv, ClockInv, InPage, NoPage
      <4>2. ASSUME Beyond(d, e) PROVE Beyond(d, e)' \/ InPage(d, e)'
        BY <1>3, <1>4, <4>2 DEF Beyond, InPage
      <4>. QED  BY <4>1, <4>2
    <3>3. PushInv(d)'
      BY <1>1, <1>2, <1>3 DEF SyncInv, DeviceInv, PushInv, vars
    <3>. QED  BY <2>2, <3>1, <3>2, <3>3 DEF DeviceInv
  <2>. QED  BY <2>1, <2>2
<1>. QED  BY <1>6, <1>7, <1>8 DEF DevicesKept

\* The page gets its rows, as they are by then.
LEMMA PullLoadKeeps ==
  ASSUME SyncInv, NEW d \in Device, PullLoad(d)
  PROVE  DevicesKept
<1>. DEFINE es == page[d].entries
            snap == [e \in {x.ent : x \in Alive(es)} |-> rows[e]]
<1>1. ServerInv' /\ Moves /\ used \subseteq used' /\ UNCHANGED <<rows, changeLog, head, memo>>
  BY OtherSteps
<1>2. /\ phase[d] = "load"
      /\ page' = [page EXCEPT ![d] = [@ EXCEPT !.rows = snap]]
      /\ phase' = [phase EXCEPT ![d] = "page"]
      /\ UNCHANGED <<vars, local, queue, due, sent, repairs, cursor, clock, faults>>
  BY DEF PullLoad
<1>3. /\ \A x \in Alive(es) : x.ent \in DOMAIN snap /\ snap[x.ent] = rows[x.ent]
      /\ Alive(es) \subseteq es
  BY DEF Alive, Compacted
<1>4. \A x \in Alive(es) : RowOK(rows[x.ent])
  BY <1>3, BehindFacts DEF SyncInv, ServerInv, TypeOK
<1>. HIDE DEF snap
<1>5. /\ phase'[d] = "page" /\ page'[d].entries = es /\ page'[d].rows = snap
      /\ page'[d] = [entries |-> page'[d].entries, rows |-> page'[d].rows, more |-> page'[d].more]
      /\ \A c \in Device : c # d => page'[c] = page[c] /\ phase'[c] = phase[c]
      /\ DOMAIN page' = Device
      /\ repairs[d] = {} /\ used' = used
  <2>1. page[d] = [entries |-> page[d].entries, rows |-> page[d].rows, more |-> page[d].more]
    BY DEF SyncInv, Shape
  <2>2. DOMAIN page = Device /\ page'[d] = [page[d] EXCEPT !.rows = snap]
    BY <1>2 DEF SyncInv, Shape
  <2>3. page'[d] = [entries |-> page[d].entries, rows |-> snap, more |-> page[d].more]
    BY <2>1, <2>2
  <2>. QED  BY <1>2, <2>2, <2>3 DEF SyncInv, Shape, DeviceTypeOK, DeviceInv, PushInv, vars
<1>6. Shape'
  BY <1>2, <1>5 DEF SyncInv, Shape, DeviceTypeOK, vars
<1>7. OneStamp'
  BY <1>2 DEF SyncInv, OneStamp
<1>8. ASSUME NEW c \in Device PROVE DeviceInv(c)'
  <2>1. CASE c # d
    <3>1. Same(c)
      BY <1>2, <1>5, <2>1 DEF Same
    <3>. QED  BY <1>1, <3>1, OthersKeep
  <2>2. CASE c = d
    <3>1. Behind(d)' = Behind(d) /\ UNCHANGED <<rows, head, cursor, clock, memo>>
      BY <1>2 DEF Behind, vars
    <3>2. \A x \in Alive(es) : /\ x.ent \in DOMAIN page'[d].rows
                               /\ RowOK(page'[d].rows[x.ent])
                               /\ page'[d].rows[x.ent] = rows[x.ent]
      BY <1>3, <1>4, <1>5
    <3>3. PageInv(d)'
      <4>1. /\ cursor[d] <= head /\ es \subseteq Behind(d)
            /\ \A x \in es, y \in Behind(d) : y.seq <= x.seq => y \in es
        BY DEF SyncInv, DeviceInv, PageInv
      <4>2. phase'[d] \notin {"idle", "push", "pull"}
        BY <1>5
      <4>. HIDE DEF es
      <4>3. \A x \in Alive(page'[d].entries) : /\ x.ent \in DOMAIN page'[d].rows
                                               /\ RowOK(page'[d].rows[x.ent])
                                               /\ page'[d].rows[x.ent] = rows'[x.ent]
        BY <1>5, <3>1, <3>2
      <4>. QED  BY <1>5, <3>1, <4>1, <4>2, <4>3 DEF PageInv
    <3>4. ClockInv(d)'
      BY <1>5, <3>1 DEF SyncInv, DeviceInv, ClockInv, Beyond, InPage
    <3>5. PushInv(d)'
      BY <1>2, <1>5, <3>1 DEF SyncInv, DeviceInv, PushInv
    <3>. QED  BY <2>2, <3>3, <3>4, <3>5 DEF DeviceInv
  <2>. QED  BY <2>1, <2>2
<1>. QED  BY <1>6, <1>7, <1>8 DEF DevicesKept

\* Of a row the page speaks of, one entry is its last.
LEMMA PageHasLast ==
  ASSUME NEW es, IsFiniteSet(es), \A x \in es : x.seq \in Nat, NEW e, \E x \in es : x.ent = e
  PROVE  \E y \in Compacted(es) : y.ent = e
<1>. DEFINE of == {x \in es : x.ent = e}
            seqs == {x.seq : x \in of}
            f == [x \in of |-> x.seq]
<1>1. of \subseteq es /\ of # {} /\ \A x \in of : x.seq \in Nat
  OBVIOUS
<1>2. f \in Surjection(of, seqs) /\ seqs \subseteq Nat /\ seqs # {}
  BY <1>1 DEF Surjection
<1>. HIDE DEF of
<1>3. IsFiniteSet(of)
  BY <1>1, FS_Subset
<1>. HIDE DEF f, seqs
<1>4. IsFiniteSet(seqs)
  BY <1>2, <1>3, FS_Surjection
<1>5. PICK k : k = Max(seqs)
  OBVIOUS
<1>6. k \in seqs /\ \A s \in seqs : s <= k
  BY <1>2, <1>4, <1>5, GreatestOf
<1>7. PICK y \in of : y.seq = k
  BY <1>6 DEF seqs
<1>8. \A x \in of : x.seq <= y.seq
  BY <1>6, <1>7 DEF seqs
<1>. QED  BY <1>7, <1>8 DEF of, Compacted

\* Where nothing more waits, a page's last entry about a row tells what became
\* of it, and its row is the row.
LEMMA PageTells ==
  ASSUME SyncInv, NEW d \in Device, phase[d] = "page",
         NEW y \in Compacted(page[d].entries), ~Beyond(d, y.ent)
  PROVE  /\ y.ent \in Entity /\ y.deleted \in BOOLEAN
         /\ y.deleted <=> ~rows[y.ent].exists
         /\ ~y.deleted => page[d].rows[y.ent] = rows[y.ent]
<1>. DEFINE es == page[d].entries
<1>1. y \in es /\ y \in Behind(d) /\ y.seq \in Nat /\ y.seq > cursor[d] /\ cursor[d] \in Nat
  BY BehindFacts DEF Compacted
<1>2. y \in changeLog /\ y.feed = Home /\ y.ent \in Entity /\ y.deleted \in BOOLEAN
  BY <1>1, BehindFacts DEF Behind, SyncInv, ServerInv, TypeOK
<1>3. ASSUME NEW z \in changeLog, z.feed = y.feed, z.ent = y.ent PROVE z.seq <= y.seq
  <2>1. z.seq \in Nat
    BY EntryNumbers DEF SyncInv, ServerInv
  <2>2. CASE z.seq > cursor[d]
    <3>1. z \in Behind(d)
      BY <1>2, <1>3, <2>2 DEF Behind
    <3>2. z \in es
      BY <1>3, <3>1 DEF Beyond
    <3>. QED  BY <1>3, <3>2 DEF Compacted
  <2>. QED  BY <1>1, <2>1, <2>2
<1>4. y.deleted <=> ~rows[y.ent].exists
  BY <1>2, <1>3 DEF SyncInv, ServerInv, FeedTellsTruth
<1>5. ASSUME ~y.deleted PROVE page[d].rows[y.ent] = rows[y.ent]
  BY <1>5 DEF Alive, SyncInv, DeviceInv, PageInv
<1>. QED  BY <1>2, <1>4, <1>5

\* A page that is applied moves the cursor past it and not past anything else.
LEMMA CursorMoves ==
  ASSUME SyncInv, NEW d \in Device, PullApply(d)
  PROVE  /\ cursor'[d] \in Nat /\ cursor'[d] <= head
         /\ Behind(d)' = Behind(d) \ page[d].entries
         /\ \A e : Beyond(d, e)' <=> Beyond(d, e)
<1>. DEFINE es == page[d].entries
            seqs == {x.seq : x \in es}
            f == [x \in es |-> x.seq]
<1>1. /\ DOMAIN cursor = Device /\ cursor' = [cursor EXCEPT ![d] = Max({@} \cup seqs)]
      /\ page' = [page EXCEPT ![d] = NoPage] /\ DOMAIN page = Device
      /\ changeLog' = changeLog
  BY DEF PullApply, vars, SyncInv, Shape, DeviceTypeOK
<1>2. /\ cursor[d] \in Nat /\ cursor[d] <= head /\ head \in Nat
      /\ IsFiniteSet(es) /\ es \subseteq Behind(d)
      /\ \A x \in Behind(d) : x.seq \in Nat /\ x.seq <= head /\ x.seq > cursor[d]
      /\ \A x \in es, y \in Behind(d) : y.seq <= x.seq => y \in es
  BY BehindFacts DEF SyncInv, DeviceInv, PageInv
<1>3. PICK k : k = Max({cursor[d]} \cup seqs)
  OBVIOUS
<1>4. cursor'[d] = k /\ page'[d] = NoPage
  BY <1>1, <1>3
<1>5. /\ k \in {cursor[d]} \cup seqs /\ \A s \in {cursor[d]} \cup seqs : s <= k
  <2>1. f \in Surjection(es, seqs) /\ seqs \subseteq Nat
    BY <1>2 DEF Surjection
  <2>. HIDE DEF f, seqs, es
  <2>2. IsFiniteSet(seqs)
    BY <1>2, <2>1, FS_Surjection
  <2>3. IsFiniteSet({cursor[d]} \cup seqs)
    BY <2>2, FS_Singleton, FS_Union
  <2>4. {cursor[d]} \cup seqs \subseteq Nat /\ {cursor[d]} \cup seqs # {}
    BY <1>2, <2>1
  <2>. QED  BY <1>3, <2>3, <2>4, GreatestOf
<1>6. k \in Nat /\ cursor[d] <= k /\ \A x \in es : x.seq <= k
  BY <1>2, <1>5
<1>7. k = cursor[d] \/ \E x \in es : x.seq = k
  BY <1>5
<1>8. k <= head
  BY <1>2, <1>7
<1>9. ASSUME NEW x \in changeLog, x.feed = Home
      PROVE  x.seq > k <=> x.seq > cursor[d] /\ x \notin es
  <2>1. x.seq \in Nat
    BY EntryNumbers DEF SyncInv, ServerInv
  <2>2. ASSUME x.seq > k PROVE x.seq > cursor[d] /\ x \notin es
    BY <1>2, <1>6, <2>1, <2>2
  <2>3. ASSUME x.seq > cursor[d], x \notin es, ~(x.seq > k) PROVE FALSE
    <3>1. x \in Behind(d)
      BY <1>9, <2>3 DEF Behind
    <3>2. PICK y \in es : y.seq = k
      BY <1>2, <1>7, <2>1, <2>3
    <3>3. x.seq <= y.seq
      BY <1>6, <2>1, <2>3, <3>2
    <3>. QED  BY <1>2, <2>3, <3>1, <3>3
  <2>. QED  BY <2>2, <2>3
<1>. HIDE DEF seqs
<1>10. Behind(d)' = Behind(d) \ es
  BY <1>1, <1>4, <1>9 DEF Behind
<1>11. page'[d].entries = {}
  BY <1>4 DEF NoPage
<1>. HIDE DEF es
<1>12. \A e : Beyond(d, e)' <=> Beyond(d, e)
  BY <1>10, <1>11 DEF Beyond, es
<1>. QED  BY <1>4, <1>6, <1>8, <1>10, <1>12 DEF es

\* A row's last bearing entry exists where any does, and decides.
LEMMA PageDecides ==
  ASSUME NEW es, IsFiniteSet(es), \A x \in es : x.seq \in Nat, NEW snap, NEW held, NEW e \in Entity
  PROVE  \/ Bearing(es, snap, e) = {} /\ ApplyPage(held, es, snap)[e] = held[e]
         \/ \E x \in Bearing(es, snap, e) :
              /\ \A y \in Bearing(es, snap, e) : y.seq <= x.seq
              /\ ApplyPage(held, es, snap)[e] = IF x.deleted THEN Null ELSE snap[e].fields
<1>. DEFINE B == Bearing(es, snap, e)
            seqs == {x.seq : x \in B}
            f == [x \in B |-> x.seq]
<1>1. B \subseteq es
  BY DEF Bearing, Compacted
<1>2. ASSUME B # {} PROVE \E x \in B : \A y \in B : y.seq <= x.seq
  <2>. HIDE DEF B
  <2>1. f \in Surjection(B, seqs) /\ seqs \subseteq Nat /\ seqs # {}
    BY <1>1, <1>2 DEF Surjection
  <2>2. IsFiniteSet(B)
    BY <1>1, FS_Subset
  <2>. HIDE DEF f, seqs
  <2>3. IsFiniteSet(seqs)
    BY <2>1, <2>2, FS_Surjection
  <2>4. PICK k : k = Max(seqs)
    OBVIOUS
  <2>5. k \in seqs /\ \A s \in seqs : s <= k
    BY <2>1, <2>3, <2>4, GreatestOf
  <2>. QED  BY <2>5 DEF seqs
<1>3. PICK last : last = CHOOSE x \in B : \A y \in B : y.seq <= x.seq
  OBVIOUS
<1>4. ApplyPage(held, es, snap)[e] =
        IF B = {} THEN held[e] ELSE IF last.deleted THEN Null ELSE snap[e].fields
  BY <1>3 DEF ApplyPage
<1>5. B # {} => last \in B /\ \A y \in B : y.seq <= last.seq
  BY <1>2, <1>3
<1>. QED  BY <1>4, <1>5

\* The page's rows leave the device's stores well-formed.
LEMMA AppliedShape ==
  ASSUME SyncInv, NEW d \in Device, phase[d] = "page"
  PROVE  LET after == ApplyPage(local[d], page[d].entries, page[d].rows)
         IN  /\ DOMAIN after = Entity
             /\ \A e \in Entity : after[e] # Null => DOMAIN after[e] = Field
<1>. DEFINE es == page[d].entries
            snap == page[d].rows
            after == ApplyPage(local[d], es, snap)
<1>1. DOMAIN after = Entity
  BY DEF ApplyPage
<1>2. ASSUME NEW e \in Entity, after[e] # Null PROVE DOMAIN after[e] = Field
  <2>1. IsFiniteSet(es) /\ \A x \in es : x.seq \in Nat
    BY BehindFacts
  <2>2. CASE after[e] = local[d][e]
    BY <1>2, <2>2 DEF SyncInv, Shape, DeviceTypeOK
  <2>3. ASSUME NEW x \in Bearing(es, snap, e),
               after[e] = IF x.deleted THEN Null ELSE snap[e].fields
        PROVE  DOMAIN after[e] = Field
    <3>1. ~x.deleted /\ after[e] = snap[e].fields /\ x.ent = e /\ x \in Alive(es)
      BY <1>2, <2>3 DEF Bearing, Alive
    <3>2. RowOK(snap[e])
      BY <3>1 DEF SyncInv, DeviceInv, PageInv
    <3>. QED  BY <3>1, <3>2 DEF RowOK
  <2>. QED  BY <2>1, <2>2, <2>3, PageDecides
<1>. QED  BY <1>1, <1>2

\* The generator folds in every row of the page.
LEMMA ClockMoves ==
  ASSUME SyncInv, NEW d \in Device, PullApply(d)
  PROVE  /\ clock'[d] \in Clock \cup {0} /\ clock[d] <= clock'[d]
         /\ \A x \in Alive(page[d].entries) : page[d].rows[x.ent].hlc <= clock'[d]
<1>. DEFINE live == Alive(page[d].entries)
            hlcs == {page[d].rows[x.ent].hlc : x \in live}
            f == [x \in live |-> page[d].rows[x.ent].hlc]
<1>1. /\ clock[d] \in Clock \cup {0} /\ phase[d] = "page"
      /\ clock' = [clock EXCEPT ![d] = Max({@} \cup hlcs)] /\ DOMAIN clock = Device
  BY DEF PullApply, Observed, SyncInv, Shape, DeviceTypeOK
<1>2. PICK k : k = Max({clock[d]} \cup hlcs)
  OBVIOUS
<1>3. clock'[d] = k
  BY <1>1, <1>2
<1>4. \A c \in Clock \cup {0} : c \in Nat
  BY ClockPositive
<1>5. \A x \in live : page[d].rows[x.ent].hlc \in Clock \cup {0}
  <2>. SUFFICES ASSUME NEW x \in live PROVE page[d].rows[x.ent].hlc \in Clock \cup {0}
    OBVIOUS
  <2>1. RowOK(page[d].rows[x.ent])
    BY <1>1 DEF SyncInv, DeviceInv, PageInv
  <2>. QED  BY <2>1 DEF RowOK, NoRow
<1>6. f \in Surjection(live, hlcs) /\ hlcs \subseteq Clock \cup {0}
  BY <1>5 DEF Surjection
<1>7. live \subseteq page[d].entries /\ IsFiniteSet(page[d].entries)
  BY BehindFacts DEF Alive, Compacted
<1>. HIDE DEF f, live
<1>8. IsFiniteSet(live)
  BY <1>7, FS_Subset
<1>. HIDE DEF hlcs
<1>9. IsFiniteSet(hlcs)
  BY <1>6, <1>8, FS_Surjection
<1>10. IsFiniteSet({clock[d]} \cup hlcs)
  BY <1>9, FS_Singleton, FS_Union
<1>11. {clock[d]} \cup hlcs \subseteq Nat /\ {clock[d]} \cup hlcs # {}
  BY <1>1, <1>4, <1>6
<1>12. k \in {clock[d]} \cup hlcs /\ \A s \in {clock[d]} \cup hlcs : s <= k
  BY <1>2, <1>10, <1>11, GreatestOf
<1>. QED  BY <1>1, <1>3, <1>6, <1>12 DEF hlcs, live

\* A page is laid over the rows, its clocks observed, the cursor moved past it.
LEMMA PullApplyKeeps ==
  ASSUME SyncInv, NEW d \in Device, PullApply(d)
  PROVE  DevicesKept
<1>. DEFINE es == page[d].entries
<1>1. ServerInv' /\ Moves /\ used \subseteq used' /\ UNCHANGED <<rows, changeLog, head, memo>>
  BY OtherSteps
<1>2. /\ phase[d] = "page"
      /\ local' = [local EXCEPT ![d] = ApplyPage(@, es, page[d].rows)]
      /\ clock' = [clock EXCEPT ![d] = Observed(@, es, page[d].rows)]
      /\ cursor' = [cursor EXCEPT ![d] = Max({@} \cup {x.seq : x \in es})]
      /\ phase' = [phase EXCEPT ![d] = IF page[d].more THEN "pull" ELSE "idle"]
      /\ page' = [page EXCEPT ![d] = NoPage]
      /\ UNCHANGED <<vars, queue, due, sent, repairs, faults>>
  BY DEF PullApply
<1>3. /\ cursor'[d] \in Nat /\ cursor'[d] <= head /\ head \in Nat
      /\ \A e : Beyond(d, e)' <=> Beyond(d, e)
  BY CursorMoves, BehindFacts
<1>4. /\ clock'[d] \in Clock \cup {0} /\ clock[d] <= clock'[d]
      /\ \A x \in Alive(es) : page[d].rows[x.ent].hlc <= clock'[d]
  BY ClockMoves
<1>5. /\ phase'[d] \in {"pull", "idle"} /\ page'[d] = NoPage /\ repairs[d] = {} /\ used' = used
      /\ \A c \in Device : c # d =>
           /\ page'[c] = page[c] /\ phase'[c] = phase[c] /\ clock'[c] = clock[c]
           /\ cursor'[c] = cursor[c] /\ local'[c] = local[c]
      /\ local'[d] = ApplyPage(local[d], es, page[d].rows)
  BY <1>2 DEF SyncInv, Shape, DeviceTypeOK, DeviceInv, PushInv, vars
<1>6. Shape'
  <2>1. /\ DOMAIN local' = Device /\ \A c \in Device : DOMAIN local'[c] = Entity
        /\ \A c \in Device, e \in Entity : local'[c][e] # Null => DOMAIN local'[c][e] = Field
    BY <1>2, <1>5, AppliedShape DEF SyncInv, Shape, DeviceTypeOK
  <2>2. cursor' \in [Device -> 0 .. head']
    BY <1>1, <1>2, <1>3, <1>5 DEF SyncInv, Shape, DeviceTypeOK
  <2>3. clock' \in [Device -> Clock \cup {0}]
    BY <1>2, <1>4, <1>5 DEF SyncInv, Shape, DeviceTypeOK
  <2>4. phase' \in [Device -> {"idle", "push", "pull", "load", "page"}]
    BY <1>2, <1>5 DEF SyncInv, Shape, DeviceTypeOK
  <2>5. /\ DOMAIN page' = Device
        /\ \A c \in Device : page'[c] = [entries |-> page'[c].entries, rows |-> page'[c].rows,
                                         more |-> page'[c].more]
    BY <1>2, <1>5 DEF SyncInv, Shape, NoPage
  <2>. QED  BY <1>2, <2>1, <2>2, <2>3, <2>4, <2>5 DEF SyncInv, Shape, DeviceTypeOK
<1>7. OneStamp'
  BY <1>2 DEF SyncInv, OneStamp
<1>8. ASSUME NEW c \in Device PROVE DeviceInv(c)'
  <2>1. CASE c # d
    <3>1. Same(c)
      BY <1>2, <1>5, <2>1 DEF Same
    <3>. QED  BY <1>1, <3>1, OthersKeep
  <2>2. CASE c = d
    <3>1. PageInv(d)'
      BY <1>1, <1>3, <1>5 DEF PageInv, NoPage
    <3>2. ClockInv(d)'
      <4>. SUFFICES ASSUME NEW e \in Entity, rows[e].exists, ~Beyond(d, e)
                    PROVE  clock'[d] >= rows[e].hlc
        BY <1>1, <1>3 DEF ClockInv
      <4>0. rows[e].hlc \in Nat /\ clock[d] \in Nat /\ clock'[d] \in Nat
        BY <1>4, ClocksAreNumbers, ClockPositive DEF SyncInv, ServerInv, Shape, DeviceTypeOK
      <4>1. CASE InPage(d, e)
        <5>1. PICK y \in Compacted(es) : y.ent = e
          BY <4>1, BehindFacts, PageHasLast DEF InPage
        <5>2. ~y.deleted /\ page[d].rows[e] = rows[e]
          BY <1>2, <5>1, PageTells
        <5>3. y \in Alive(es)
          BY <5>2 DEF Alive
        <5>. QED  BY <1>4, <4>0, <5>1, <5>2, <5>3
      <4>2. CASE ~InPage(d, e)
        BY <1>4, <4>0, <4>2 DEF SyncInv, DeviceInv, ClockInv
      <4>. QED  BY <4>1, <4>2
    <3>3. PushInv(d)'
      BY <1>1, <1>2, <1>5 DEF SyncInv, DeviceInv, PushInv
    <3>. QED  BY <2>2, <3>1, <3>2, <3>3 DEF DeviceInv
  <2>. QED  BY <2>1, <2>2
<1>. QED  BY <1>6, <1>7, <1>8 DEF DevicesKept

\* A request that is lost leaves its entries unread.
LEMMA LostKeeps ==
  ASSUME SyncInv, NEW d \in Device, RequestLost(d)
  PROVE  DevicesKept
<1>1. ServerInv' /\ Moves /\ used \subseteq used' /\ UNCHANGED <<rows, changeLog, head, memo>>
  BY OtherSteps
<1>2. /\ faults < MaxFaults /\ faults' = faults + 1
      /\ phase' = [phase EXCEPT ![d] = "idle"]
      /\ due' = [due EXCEPT ![d] = 0]
      /\ sent' = [sent EXCEPT ![d] = 0]
      /\ repairs' = [repairs EXCEPT ![d] = {}]
      /\ page' = [page EXCEPT ![d] = NoPage]
      /\ UNCHANGED <<vars, local, queue, cursor, clock>>
  BY DEF RequestLost
<1>3. /\ phase'[d] = "idle" /\ due'[d] = 0 /\ sent'[d] = 0 /\ repairs'[d] = {} /\ page'[d] = NoPage
      /\ queue[d] \in Seq(Mutation) /\ Len(queue[d]) \in Nat /\ used' = used
      /\ \A c \in Device : c # d =>
           /\ page'[c] = page[c] /\ phase'[c] = phase[c] /\ due'[c] = due[c]
           /\ sent'[c] = sent[c] /\ repairs'[c] = repairs[c]
  BY <1>2 DEF SyncInv, Shape, DeviceTypeOK, vars
<1>4. faults' \in 0 .. MaxFaults
  BY <1>2, SyncAssumption DEF SyncInv, Shape, DeviceTypeOK
<1>5. Shape'
  <2>1. /\ DOMAIN page' = Device
        /\ \A c \in Device : page'[c] = [entries |-> page'[c].entries, rows |-> page'[c].rows,
                                         more |-> page'[c].more]
    BY <1>2, <1>3 DEF SyncInv, Shape, NoPage
  <2>2. ASSUME NEW c \in Device
        PROVE  sent'[c] \in 0 .. due'[c] /\ due'[c] \in 0 .. Len(queue[c])
    <3>1. CASE c = d
      BY <1>3, <3>1
    <3>2. CASE c # d
      BY <1>3, <3>2 DEF SyncInv, Shape, DeviceTypeOK
    <3>. QED  BY <3>1, <3>2
  <2>. QED  BY <1>2, <1>4, <2>1, <2>2 DEF SyncInv, Shape, DeviceTypeOK, vars
<1>6. OneStamp'
  BY <1>2 DEF SyncInv, OneStamp
<1>7. ASSUME NEW c \in Device PROVE DeviceInv(c)'
  <2>1. CASE c # d
    <3>1. Same(c)
      BY <1>2, <1>3, <2>1 DEF Same
    <3>. QED  BY <1>1, <3>1, OthersKeep
  <2>2. CASE c = d
    <3>1. Behind(d)' = Behind(d) /\ UNCHANGED <<rows, head, cursor, clock, memo, queue>>
      BY <1>2 DEF Behind, vars
    <3>2. PageInv(d)'
      BY <1>3, <3>1, BehindFacts DEF PageInv, NoPage
    <3>3. \A e : Beyond(d, e) \/ InPage(d, e) => Beyond(d, e)'
      BY <1>3, <3>1, BehindFacts DEF Beyond, InPage, NoPage
    <3>4. ClockInv(d)'
      BY <3>1, <3>3 DEF SyncInv, DeviceInv, ClockInv
    <3>5. PushInv(d)'
      <4>1. 1 .. sent'[d] = {} /\ sent'[d] <= due'[d] /\ due'[d] <= Len(queue[d])
        BY <1>3
      <4>. QED  BY <1>3, <3>1, <4>1 DEF SyncInv, DeviceInv, PushInv
    <3>. QED  BY <2>2, <3>2, <3>4, <3>5 DEF DeviceInv
  <2>. QED  BY <2>1, <2>2
<1>. QED  BY <1>5, <1>6, <1>7 DEF DevicesKept

\* A tab that comes back has everything to read.
LEMMA ReloadKeeps ==
  ASSUME SyncInv, NEW d \in Device, Reload(d)
  PROVE  DevicesKept /\ \A e \in Entity : rows[e].exists => Beyond(d, e)'
<1>1. ServerInv' /\ Moves /\ used \subseteq used' /\ UNCHANGED <<rows, changeLog, head, memo>>
  BY OtherSteps
<1>2. /\ faults < MaxFaults /\ faults' = faults + 1
      /\ local' = [local EXCEPT ![d] = [e \in Entity |-> Null]]
      /\ cursor' = [cursor EXCEPT ![d] = 0]
      /\ clock' = [clock EXCEPT ![d] = 0]
      /\ phase' = [phase EXCEPT ![d] = "idle"]
      /\ due' = [due EXCEPT ![d] = 0]
      /\ sent' = [sent EXCEPT ![d] = 0]
      /\ repairs' = [repairs EXCEPT ![d] = {}]
      /\ page' = [page EXCEPT ![d] = NoPage]
      /\ UNCHANGED <<vars, queue>>
  BY DEF Reload
<1>3. /\ phase'[d] = "idle" /\ due'[d] = 0 /\ sent'[d] = 0 /\ repairs'[d] = {} /\ page'[d] = NoPage
      /\ cursor'[d] = 0 /\ clock'[d] = 0 /\ local'[d] = [e \in Entity |-> Null]
      /\ queue[d] \in Seq(Mutation) /\ Len(queue[d]) \in Nat /\ used' = used /\ head \in Nat
      /\ \A c \in Device : c # d =>
           /\ page'[c] = page[c] /\ phase'[c] = phase[c] /\ due'[c] = due[c]
           /\ sent'[c] = sent[c] /\ repairs'[c] = repairs[c] /\ local'[c] = local[c]
           /\ cursor'[c] = cursor[c] /\ clock'[c] = clock[c]
  BY <1>2, EntryNumbers DEF SyncInv, ServerInv, Shape, DeviceTypeOK, vars
<1>4. faults' \in 0 .. MaxFaults
  BY <1>2, SyncAssumption DEF SyncInv, Shape, DeviceTypeOK
<1>5. Shape'
  <2>1. /\ DOMAIN page' = Device
        /\ \A c \in Device : page'[c] = [entries |-> page'[c].entries, rows |-> page'[c].rows,
                                         more |-> page'[c].more]
    BY <1>2, <1>3 DEF SyncInv, Shape, NoPage
  <2>2. ASSUME NEW c \in Device
        PROVE  sent'[c] \in 0 .. due'[c] /\ due'[c] \in 0 .. Len(queue[c])
    <3>1. CASE c = d
      BY <1>3, <3>1
    <3>2. CASE c # d
      BY <1>3, <3>2 DEF SyncInv, Shape, DeviceTypeOK
    <3>. QED  BY <3>1, <3>2
  <2>3. /\ DOMAIN local' = Device /\ \A c \in Device : DOMAIN local'[c] = Entity
        /\ \A c \in Device, e \in Entity : local'[c][e] # Null => DOMAIN local'[c][e] = Field
    BY <1>2, <1>3 DEF SyncInv, Shape, DeviceTypeOK
  <2>4. cursor' \in [Device -> 0 .. head'] /\ clock' \in [Device -> Clock \cup {0}]
    BY <1>1, <1>2, <1>3 DEF SyncInv, Shape, DeviceTypeOK
  <2>. QED  BY <1>2, <1>4, <2>1, <2>2, <2>3, <2>4 DEF SyncInv, Shape, DeviceTypeOK
<1>6. OneStamp'
  BY <1>2 DEF SyncInv, OneStamp
<1>7. ASSUME NEW e \in Entity, rows[e].exists PROVE Beyond(d, e)'
  <2>1. PICK x \in changeLog : x.ent = e /\ x.feed = HomeOf(rows[e], e)
    BY <1>7 DEF SyncInv, ServerInv, FeedTellsTruth
  <2>2. x.feed = Home
    BY <1>7, <2>1, AllHome DEF SyncInv, ServerInv, FeedInv
  <2>3. x.seq > 0
    BY <1>3 DEF SyncInv, ServerInv, TypeOK
  <2>. QED  BY <1>1, <1>3, <2>1, <2>2, <2>3 DEF Beyond, Behind, NoPage
<1>8. ASSUME NEW c \in Device PROVE DeviceInv(c)'
  <2>1. CASE c # d
    <3>1. Same(c)
      BY <1>2, <1>3, <2>1 DEF Same
    <3>. QED  BY <1>1, <3>1, OthersKeep
  <2>2. CASE c = d
    <3>1. PageInv(d)'
      BY <1>1, <1>3 DEF PageInv, NoPage
    <3>2. ClockInv(d)'
      BY <1>1, <1>7 DEF ClockInv
    <3>3. PushInv(d)'
      <4>1. 1 .. sent'[d] = {} /\ sent'[d] <= due'[d] /\ due'[d] <= Len(queue[d])
        BY <1>3
      <4>. QED  BY <1>2, <1>3, <4>1 DEF SyncInv, DeviceInv, PushInv
    <3>. QED  BY <2>2, <3>1, <3>2, <3>3 DEF DeviceInv
  <2>. QED  BY <2>1, <2>2
<1>. QED  BY <1>1, <1>5, <1>6, <1>7, <1>8 DEF DevicesKept

-----------------------------------------------------------------------------
(* The invariant. *)

LEMMA SyncInitKeeps == SyncInit => SyncInv
<1>. SUFFICES ASSUME SyncInit PROVE SyncInv
  OBVIOUS
<1>1. Init /\ changeLog = {} /\ head = 0 /\ memo = [h \in Clock |-> "none"]
      /\ \A e \in Entity : ~rows[e].exists
  BY DEF SyncInit, Init, NoRow
<1>2. ServerInv
  BY <1>1, TypeInit, FeedInit, FS_EmptySet DEF ServerInv, RowClockBounds
<1>3. Shape
  <2>1. \A d \in Device : sent[d] \in 0 .. due[d] /\ due[d] \in 0 .. Len(queue[d])
    BY DEF SyncInit
  <2>2. queue \in [Device -> Seq(Mutation)]
    BY DEF SyncInit
  <2>3. cursor \in [Device -> 0 .. head] /\ clock \in [Device -> Clock \cup {0}]
    BY <1>1 DEF SyncInit
  <2>4. faults \in 0 .. MaxFaults
    BY SyncAssumption DEF SyncInit
  <2>. QED  BY <2>1, <2>2, <2>3, <2>4 DEF SyncInit, Shape, DeviceTypeOK, NoPage
<1>4. OneStamp
  BY DEF SyncInit, OneStamp
<1>5. ASSUME NEW d \in Device PROVE DeviceInv(d)
  <2>1. PageInv(d) /\ ClockInv(d)
    BY <1>1 DEF SyncInit, PageInv, ClockInv, NoPage
  <2>2. PushInv(d)
    BY <1>1 DEF SyncInit, PushInv
  <2>. QED  BY <2>1, <2>2 DEF DeviceInv
<1>. QED  BY <1>2, <1>3, <1>4, <1>5 DEF SyncInv

LEMMA SyncStep == SyncInv /\ [SyncNext]_syncVars => SyncInv'
<1>. SUFFICES ASSUME SyncInv, [SyncNext]_syncVars PROVE SyncInv'
  OBVIOUS
<1>1. ASSUME NEW d \in Device, NEW w \in Write, NEW h \in Clock, Edit(d, w, h) PROVE SyncInv'
  <2>1. DevicesKept
    BY <1>1, EditKeeps
  <2>2. ServerInv'
    BY <1>1, OtherSteps
  <2>. QED  BY <2>1, <2>2 DEF DevicesKept, SyncInv
<1>2. ASSUME NEW d \in Device, StartDrain(d) PROVE SyncInv'
  BY <1>2, StartKeeps, OtherSteps DEF DevicesKept, SyncInv
<1>3. ASSUME NEW d \in Device, ServerTakes(d) PROVE SyncInv'
  <2>1. DevicesKept
    BY <1>3, TakesKeepsDevices
  <2>2. ServerInv'
    BY <1>3, TakesKeeps
  <2>. QED  BY <2>1, <2>2 DEF DevicesKept, SyncInv
<1>4. ASSUME NEW d \in Device, PushAnswered(d) PROVE SyncInv'
  BY <1>4, AnsweredKeeps, OtherSteps DEF DevicesKept, SyncInv
<1>5. ASSUME NEW d \in Device, PullRead(d) PROVE SyncInv'
  BY <1>5, PullReadKeeps, OtherSteps DEF DevicesKept, SyncInv
<1>6. ASSUME NEW d \in Device, PullLoad(d) PROVE SyncInv'
  BY <1>6, PullLoadKeeps, OtherSteps DEF DevicesKept, SyncInv
<1>7. ASSUME NEW d \in Device, PullApply(d) PROVE SyncInv'
  BY <1>7, PullApplyKeeps, OtherSteps DEF DevicesKept, SyncInv
<1>8. ASSUME NEW d \in Device, RequestLost(d) PROVE SyncInv'
  BY <1>8, LostKeeps, OtherSteps DEF DevicesKept, SyncInv
<1>9. ASSUME NEW d \in Device, Reload(d) PROVE SyncInv'
  BY <1>9, ReloadKeeps, OtherSteps DEF DevicesKept, SyncInv
<1>10. ASSUME UNCHANGED syncVars PROVE SyncInv'
  <2>1. /\ UNCHANGED <<rows, changeLog, head, memo, pushed, conflictLog, reverting, srvHLC, merged>>
        /\ UNCHANGED <<local, queue, due, sent, repairs, phase, cursor, page, clock, faults, used>>
    BY <1>10 DEF syncVars, device, vars
  <2>2. ServerInv' /\ Moves
    BY <2>1, StoreStays DEF SyncInv, ServerInv, TypeOK
  <2>3. Shape' /\ OneStamp'
    BY <2>1 DEF SyncInv, Shape, DeviceTypeOK, OneStamp
  <2>4. ASSUME NEW c \in Device PROVE DeviceInv(c)'
    <3>1. Same(c)
      BY <2>1 DEF Same
    <3>. QED  BY <2>1, <2>2, <3>1, OthersKeep
  <2>. QED  BY <2>2, <2>3, <2>4 DEF SyncInv
<1>. QED  BY <1>1, <1>2, <1>3, <1>4, <1>5, <1>6, <1>7, <1>8, <1>9, <1>10 DEF SyncNext, DrainStep

LEMMA SyncInductive == SyncSpec => []SyncInv
  BY SyncInitKeeps, SyncStep, PTL DEF SyncSpec

\* The store keeps its shape under drains, and the devices theirs: a request
\* never claims more than the queue holds, nor its answer more than it carried,
\* and no cursor runs past the head (outbox.ts runDrain, pull.go).
THEOREM SyncTypeOK == SyncSpec => [](TypeOK /\ DeviceTypeOK)
<1>1. SyncInv => TypeOK /\ DeviceTypeOK
  BY DEF SyncInv, ServerInv, Shape
<1>. QED  BY <1>1, SyncInductive, PTL

\* A drain's decisions leave each feed telling the truth about its rows, so what
\* a device reads to the end is what the server holds (partition.go:226-241).
THEOREM SyncFeedTellsTruth == SyncSpec => []FeedTellsTruth
<1>1. SyncInv => FeedTellsTruth
  BY DEF SyncInv, ServerInv
<1>. QED  BY <1>1, SyncInductive, PTL

\* A device that is up to date mints its next stamp above every row it shows,
\* through lost requests, reloads and pages of rows that moved on while they
\* were read (pullProtocol.ts:36-45).
THEOREM SyncEditsWhatItSees == SyncSpec => []EditsWhatItSees
<1>1. ASSUME SyncInv PROVE EditsWhatItSees
  <2>. SUFFICES ASSUME NEW d \in Device, NEW e \in Entity, UpToDate(d)
                PROVE  clock[d] >= rows[e].hlc
    BY DEF EditsWhatItSees
  <2>1. page[d] = NoPage /\ Behind(d) = {}
    BY <1>1 DEF UpToDate, SyncInv, DeviceInv, PageInv
  <2>2. clock[d] \in Nat /\ (~rows[e].exists => rows[e].hlc = 0)
    BY <1>1, ClocksAreNumbers, ClockPositive DEF SyncInv, ServerInv, Shape, DeviceTypeOK
  <2>. QED  BY <1>1, <2>1, <2>2 DEF SyncInv, DeviceInv, ClockInv, Beyond, InPage, NoPage
<1>. QED  BY <1>1, SyncInductive, PTL

-----------------------------------------------------------------------------
(* What a device shows of a row nothing hangs over. *)

\* A root is in no other row's cascade.
LEMMA RootAlone ==
  ASSUME NEW e \in Root, NEW g \in Entity
  PROVE  e \notin FkCascade(g) /\ \A held : e \notin CascadeOf(held, g)
<1>1. e \in Entity /\ Parent[e] = NoParent /\ g # NoParent
  BY EntityAssumption DEF Root, NoParent
<1>. QED  BY <1>1 DEF FkCascade, CascadeOf

\* A device that reads and shows what it did settles as before: its own
\* mutations are still to land, or were decided with an entry.
LEMMA SettlesStays ==
  ASSUME SyncInv, Moves, ServerInv', NEW d \in Device, Settles(d),
         local'[d] = local[d], cursor'[d] = cursor[d], page'[d] = page[d], queue'[d] = queue[d],
         \A i \in 1 .. Len(queue[d]), e \in Root :
            Lands(queue[d][i], e) => Told(e) \/ memo'[queue[d][i].hlc] = "none"
  PROVE  Settles(d)'
<1>. SUFFICES ASSUME NEW e \in Root, ~Beyond(d, e)'
              PROVE  \/ InPage(d, e)'
                     \/ local'[d][e] = Truth(e)'
                     \/ \E i \in 1 .. Len(queue[d]) : Lands(queue[d][i], e)'
  BY DEF Settles
<1>1. ~Beyond(d, e) /\ ~Told(e)
  BY BeyondGrows
<1>2. rows'[e] = rows[e]
  BY <1>1 DEF Moves, Root
<1>3. CASE InPage(d, e)
  BY <1>3 DEF InPage
<1>4. CASE local[d][e] = Truth(e)
  BY <1>2, <1>4 DEF Truth
<1>5. ASSUME NEW i \in 1 .. Len(queue[d]), Lands(queue[d][i], e) PROVE Lands(queue[d][i], e)'
  BY <1>1, <1>2, <1>5 DEF Lands
<1>. QED  BY <1>1, <1>3, <1>4, <1>5 DEF Settles

\* Where the store stays as it is, a device that does nothing settles as before.
LEMMA OthersSettle ==
  ASSUME SyncInv, Moves, ServerInv', NEW d \in Device, Settles(d), Same(d), memo' = memo
  PROVE  Settles(d)'
<1>1. \A i \in 1 .. Len(queue[d]), e \in Root :
        Lands(queue[d][i], e) => Told(e) \/ memo'[queue[d][i].hlc] = "none"
  BY DEF Lands
<1>. QED  BY <1>1, SettlesStays DEF Same

\* An edit shows what the row will be, or lands.
LEMMA EditSettles ==
  ASSUME SyncInv, NEW d \in Device, NEW w \in Write, NEW h \in Clock, Edit(d, w, h), Settles(d)
  PROVE  Settles(d)'
<1>. DEFINE m == [op |-> w.op, ent |-> w.ent, fields |-> w.fields, hlc |-> h]
<1>1. UNCHANGED <<rows, changeLog, memo>> /\ ServerInv
  BY OtherSteps DEF SyncInv
<1>2. /\ m.hlc = h /\ m.ent = w.ent /\ w.ent \in Entity /\ m.fields = w.fields /\ m.op = w.op
      /\ w.op \in {"upsert", "delete"}
  BY WriteAssumption
<1>3. /\ h \notin used /\ h > clock[d]
      /\ ~Creates(w) => local[d][w.ent] # Null
      /\ local'[d] = Painted(local[d], m)
      /\ queue'[d] = Append(queue[d], m)
      /\ cursor' = cursor /\ page' = page
      /\ DOMAIN local[d] = Entity
  BY DEF Edit, SyncInv, Shape
<1>. HIDE DEF m
<1>4. /\ queue[d] \in Seq(Mutation) /\ Len(queue[d]) \in Nat /\ Len(queue'[d]) = Len(queue[d]) + 1
      /\ \A i \in 1 .. Len(queue[d]) : i \in 1 .. Len(queue'[d]) /\ queue'[d][i] = queue[d][i]
      /\ Len(queue[d]) + 1 \in 1 .. Len(queue'[d]) /\ queue'[d][Len(queue[d]) + 1] = m
  <2>1. queue[d] \in Seq(Mutation)
    BY DEF SyncInv, Shape
  <2>. QED  BY <1>3, <2>1
<1>5. \A e : (Beyond(d, e)' <=> Beyond(d, e)) /\ (InPage(d, e)' <=> InPage(d, e))
  BY <1>1, <1>3 DEF Beyond, InPage, Behind
<1>6. \A e \in Entity : Truth(e)' = Truth(e) /\ \A n : Lands(n, e)' <=> Lands(n, e)
  BY <1>1 DEF Truth, Lands
<1>. SUFFICES ASSUME NEW e \in Root, ~Beyond(d, e), ~InPage(d, e)
              PROVE  \/ local'[d][e] = Truth(e)
                     \/ \E i \in 1 .. Len(queue'[d]) : Lands(queue'[d][i], e)
  BY <1>5, <1>6 DEF Settles, Root
<1>7. CASE \E i \in 1 .. Len(queue[d]) : Lands(queue[d][i], e)
  BY <1>4, <1>7
<1>8. CASE local[d][e] = Truth(e) /\ e # w.ent
  <2>1. e \in Entity /\ \A g \in Entity : e \notin CascadeOf(local[d], g)
    BY RootAlone DEF Root
  <2>2. local'[d][e] = local[d][e]
    BY <1>2, <1>3, <1>8, <2>1 DEF Painted, RemoveCascading
  <2>. QED  BY <1>8, <2>2
<1>9. CASE local[d][e] = Truth(e) /\ e = w.ent
  <2>1. memo[h] = "none" /\ h \in Nat /\ clock[d] \in Nat /\ rows[e].hlc \in Nat
    <3>1. memo[h] = "none" /\ TypeOK /\ e \in Entity
      BY <1>1, <1>3 DEF ServerInv, Root
    <3>2. clock[d] \in Clock \cup {0}
      BY DEF SyncInv, Shape, DeviceTypeOK
    <3>. QED  BY <3>1, <3>2, ClocksAreNumbers, ClockPositive
  <2>2. CASE rows[e].exists
    <3>1. clock[d] >= rows[e].hlc
      BY <1>2, <1>9, <2>2 DEF SyncInv, DeviceInv, ClockInv
    <3>2. Lands(m, e)
      <4>1. h > rows[e].hlc
        BY <1>3, <2>1, <3>1
      <4>. QED  BY <1>2, <1>9, <2>1, <2>2, <4>1 DEF Lands
    <3>. QED  BY <1>4, <3>2
  <2>3. CASE ~rows[e].exists /\ w.op = "delete"
    <3>1. local'[d][e] = Null
      BY <1>2, <1>3, <1>9, <2>3 DEF Painted, RemoveCascading
    <3>. QED  BY <2>3, <3>1 DEF Truth
  <2>4. CASE ~rows[e].exists /\ w.op # "delete"
    <3>1. Creates(w)
      BY <1>3, <1>9, <2>4 DEF Truth
    <3>2. Lands(m, e)
      <4>1. Table[w.ent] \notin MasterTables
        BY <1>2, PartitionAssumption DEF TripTables, MasterTables
      <4>. QED  BY <1>2, <1>9, <2>1, <2>4, <3>1, <4>1 DEF Lands, Creates
    <3>. QED  BY <1>4, <3>2
  <2>. QED  BY <2>2, <2>3, <2>4
<1>. QED  BY <1>7, <1>8, <1>9 DEF Settles

\* A decision of the server leaves every device an entry where it leaves a
\* mutation without effect on the row it painted.
LEMMA TakesSettles ==
  ASSUME NoClaims, SyncInv, NEW d \in Device, ServerTakes(d), NEW c \in Device, Settles(c)
  PROVE  Settles(c)'
<1>0. PICK m : m = queue[d][sent[d] + 1]
  OBVIOUS
<1>1. m \in Mutation /\ ServerInv' /\ Moves /\ Decides(m)
  BY <1>0, TakesKeeps
<1>2. UNCHANGED <<local, queue, cursor, page>>
  BY DEF ServerTakes
<1>3. /\ sent[d] + 1 \in 1 .. Len(queue[d]) /\ queue[c] \in Seq(Mutation)
  <2>1. /\ sent[d] \in Nat /\ due[d] \in Nat /\ queue[d] \in Seq(Mutation) /\ Len(queue[d]) \in Nat
        /\ sent[d] < due[d] /\ due[d] <= Len(queue[d])
    BY DEF SyncInv, DeviceInv, Shape, PushInv, ServerTakes
  <2>. QED  BY <2>1 DEF SyncInv, Shape
<1>4. ASSUME NEW i \in 1 .. Len(queue[c]), NEW e \in Root, Lands(queue[c][i], e),
             memo'[queue[c][i].hlc] # "none"
      PROVE  Told(e)
  <2>1. queue[c][i] \in Mutation /\ queue[c][i].hlc \in Clock
    BY <1>3, MutationFacts DEF MutationOK
  <2>2. memo[queue[c][i].hlc] = "none" /\ queue[c][i].ent = e
    BY <1>4 DEF Lands
  <2>3. queue[c][i].hlc = m.hlc
    BY <1>1, <1>4, <2>1, <2>2 DEF Decides
  <2>4. queue[c][i] = m
    BY <1>0, <1>3, <2>3 DEF SyncInv, OneStamp
  <2>. QED  BY <1>1, <1>4, <2>1, <2>2, <2>4 DEF Decides
<1>. QED  BY <1>1, <1>2, <1>4, SettlesStays

\* What was answered and may be repaired has its entry, or is not there.
LEMMA AnsweredSettles ==
  ASSUME SyncInv, NEW d \in Device, PushAnswered(d), Settles(d)
  PROVE  Settles(d)'
<1>1. /\ sent[d] = due[d]
      /\ local'[d] = RemoveCascading(local[d], repairs[d])
      /\ queue'[d] = SubSeq(queue[d], due[d] + 1, Len(queue[d]))
      /\ UNCHANGED <<rows, changeLog, memo, cursor, page>>
      /\ DOMAIN local[d] = Entity /\ repairs[d] \subseteq Entity
      /\ due[d] \in Nat /\ due[d] <= Len(queue[d])
      /\ queue[d] \in Seq(Mutation) /\ Len(queue[d]) \in Nat
  BY DEF PushAnswered, vars, SyncInv, Shape, DeviceInv, PushInv
<1>2. \A e : (Beyond(d, e)' <=> Beyond(d, e)) /\ (InPage(d, e)' <=> InPage(d, e))
  BY <1>1 DEF Beyond, InPage, Behind
<1>3. \A e \in Entity : Truth(e)' = Truth(e) /\ \A n : Lands(n, e)' <=> Lands(n, e)
  BY <1>1 DEF Truth, Lands
<1>. SUFFICES ASSUME NEW e \in Root, ~Beyond(d, e), ~InPage(d, e)
              PROVE  \/ local'[d][e] = Truth(e)
                     \/ \E i \in 1 .. Len(queue'[d]) : Lands(queue'[d][i], e)
  BY <1>2, <1>3 DEF Settles, Root
<1>4. CASE local[d][e] = Truth(e)
  <2>1. e \in Entity /\ \A g \in Entity : e \notin CascadeOf(local[d], g)
    BY RootAlone DEF Root
  <2>2. local'[d][e] = IF e \in repairs[d] THEN Null ELSE local[d][e]
    BY <1>1, <2>1 DEF RemoveCascading
  <2>3. e \in repairs[d] => ~rows[e].exists
    BY DEF SyncInv, DeviceInv, PushInv
  <2>. QED  BY <1>4, <2>2, <2>3 DEF Truth
<1>5. ASSUME NEW i \in 1 .. Len(queue[d]), Lands(queue[d][i], e)
      PROVE  \E j \in 1 .. Len(queue'[d]) : Lands(queue'[d][j], e)
  <2>1. ~(i \in 1 .. due[d])
    BY <1>1, <1>5 DEF Lands, SyncInv, DeviceInv, PushInv
  <2>2. i \in Nat /\ i > due[d]
    BY <1>1, <2>1
  <2>3. i - due[d] \in 1 .. Len(queue'[d]) /\ queue'[d][i - due[d]] = queue[d][i]
    <3>1. PICK q, n, r : /\ q = queue[d] /\ n = due[d] /\ r = queue'[d]
                         /\ q \in Seq(Mutation) /\ n \in Nat
      BY <1>1
    <3>2. q \in Seq(Mutation) /\ n \in Nat
      BY <3>1
    <3>3. n <= Len(q) /\ r = SubSeq(q, n + 1, Len(q))
      BY <1>1, <3>1
    <3>4. \A k \in 1 .. Len(q) : k > n => k - n \in 1 .. Len(r) /\ r[k - n] = q[k]
      BY <3>2, <3>3, RestOf
    <3>. QED  BY <2>2, <3>1, <3>4
  <2>. QED  BY <1>5, <2>3
<1>. QED  BY <1>4, <1>5 DEF Settles

\* What waited past no page is in the one that is read.
LEMMA ReadSettles ==
  ASSUME SyncInv, NEW d \in Device, PullRead(d), Settles(d)
  PROVE  Settles(d)'
<1>1. /\ page[d] = NoPage /\ page'[d].entries = FirstOf(Behind(d))
      /\ UNCHANGED <<rows, changeLog, memo, local, queue, cursor>>
  BY DEF PullRead, vars, SyncInv, Shape, DeviceInv, PageInv
<1>2. Behind(d)' = Behind(d)
  BY <1>1 DEF Behind
<1>3. \A e : Beyond(d, e) \/ InPage(d, e) => Beyond(d, e)' \/ InPage(d, e)'
  BY <1>1, <1>2 DEF Beyond, InPage, NoPage
<1>4. \A e \in Entity : Truth(e)' = Truth(e) /\ \A n : Lands(n, e)' <=> Lands(n, e)
  BY <1>1 DEF Truth, Lands
<1>. QED  BY <1>1, <1>3, <1>4 DEF Settles, Root

\* Loading its rows leaves a page's entries.
LEMMA LoadSettles ==
  ASSUME SyncInv, NEW d \in Device, PullLoad(d), Settles(d)
  PROVE  Settles(d)'
<1>1. /\ page'[d].entries = page[d].entries
      /\ UNCHANGED <<rows, changeLog, memo, local, queue, cursor>>
  <2>1. page[d] = [entries |-> page[d].entries, rows |-> page[d].rows, more |-> page[d].more]
    BY DEF SyncInv, Shape
  <2>. DEFINE snap == [e \in {x.ent : x \in Alive(page[d].entries)} |-> rows[e]]
  <2>2. DOMAIN page = Device /\ page' = [page EXCEPT ![d] = [@ EXCEPT !.rows = snap]]
    BY DEF PullLoad, SyncInv, Shape
  <2>. HIDE DEF snap
  <2>3. page'[d].entries = page[d].entries
    BY <2>1, <2>2
  <2>. QED  BY <2>3 DEF PullLoad, vars
<1>2. Behind(d)' = Behind(d)
  BY <1>1 DEF Behind
<1>3. \A e : Beyond(d, e) \/ InPage(d, e) => Beyond(d, e)' \/ InPage(d, e)'
  BY <1>1, <1>2 DEF Beyond, InPage
<1>4. \A e \in Entity : Truth(e)' = Truth(e) /\ \A n : Lands(n, e)' <=> Lands(n, e)
  BY <1>1 DEF Truth, Lands
<1>. QED  BY <1>1, <1>3, <1>4 DEF Settles, Root

\* A page that speaks of a row brings it to what it is, unless more waits.
LEMMA ApplySettles ==
  ASSUME SyncInv, NEW d \in Device, PullApply(d), Settles(d)
  PROVE  Settles(d)'
<1>. DEFINE es == page[d].entries
            snap == page[d].rows
<1>1. /\ phase[d] = "page" /\ UNCHANGED <<rows, changeLog, memo, queue>>
      /\ local'[d] = ApplyPage(local[d], es, snap)
  BY DEF PullApply, vars, SyncInv, Shape
<1>2. \A e : Beyond(d, e)' <=> Beyond(d, e)
  BY CursorMoves
<1>3. \A e \in Entity : Truth(e)' = Truth(e) /\ \A n : Lands(n, e)' <=> Lands(n, e)
  BY <1>1 DEF Truth, Lands
<1>. SUFFICES ASSUME NEW e \in Root, ~Beyond(d, e)
              PROVE  \/ local'[d][e] = Truth(e)
                     \/ \E i \in 1 .. Len(queue[d]) : Lands(queue[d][i], e)
  BY <1>1, <1>2, <1>3 DEF Settles, Root
<1>4. /\ e \in Entity /\ IsFiniteSet(es)
      /\ \A x \in es : x.seq \in Nat /\ x.ent \in Entity
  BY BehindFacts DEF Root
<1>5. \A x \in Bearing(es, snap, e) : /\ x \in Compacted(es) /\ x.ent = e
                                      /\ x.deleted \/ snap[e].exists
  <2>. SUFFICES ASSUME NEW x \in Bearing(es, snap, e)
                PROVE  x \in Compacted(es) /\ x.ent = e /\ (x.deleted \/ snap[e].exists)
    OBVIOUS
  <2>1. x \in Compacted(es) /\ x.ent \in Entity
    BY <1>4 DEF Bearing, Compacted
  <2>2. e \notin FkCascade(x.ent)
    BY <2>1, RootAlone
  <2>. QED  BY <2>1, <2>2 DEF Bearing
<1>6. CASE InPage(d, e)
  <2>1. PICK y \in Compacted(es) : y.ent = e
    BY <1>4, <1>6, PageHasLast DEF InPage
  <2>2. /\ y.deleted <=> ~rows[e].exists
        /\ ~y.deleted => snap[e] = rows[e]
    BY <1>1, <2>1, PageTells
  <2>3. y \in Bearing(es, snap, e)
    BY <2>1, <2>2 DEF Bearing
  <2>4. PICK x \in Bearing(es, snap, e) :
          ApplyPage(local[d], es, snap)[e] = IF x.deleted THEN Null ELSE snap[e].fields
    BY <1>4, <2>3, PageDecides
  <2>5. x \in Compacted(es) /\ x.ent = e
    BY <1>5
  <2>6. /\ x.deleted <=> ~rows[e].exists
        /\ ~x.deleted => snap[e] = rows[e]
    BY <1>1, <2>5, PageTells
  <2>. QED  BY <1>1, <2>4, <2>6 DEF Truth
<1>7. CASE ~InPage(d, e)
  <2>1. Bearing(es, snap, e) = {}
    BY <1>5, <1>7 DEF InPage, Compacted
  <2>2. local'[d][e] = local[d][e]
    BY <1>1, <1>4, <2>1, PageDecides
  <2>. QED  BY <1>7, <2>2 DEF Settles
<1>. QED  BY <1>6, <1>7

\* What a lost page spoke of waits again.
LEMMA LostSettles ==
  ASSUME SyncInv, NEW d \in Device, RequestLost(d), Settles(d)
  PROVE  Settles(d)'
<1>1. /\ page'[d] = NoPage /\ UNCHANGED <<rows, changeLog, memo, local, queue, cursor>>
      /\ page[d].entries \subseteq Behind(d)
  BY BehindFacts DEF RequestLost, vars, SyncInv, Shape
<1>2. Behind(d)' = Behind(d)
  BY <1>1 DEF Behind
<1>3. \A e : Beyond(d, e) \/ InPage(d, e) => Beyond(d, e)'
  BY <1>1, <1>2 DEF Beyond, InPage, NoPage
<1>4. \A e \in Entity : Truth(e)' = Truth(e) /\ \A n : Lands(n, e)' <=> Lands(n, e)
  BY <1>1 DEF Truth, Lands
<1>. QED  BY <1>1, <1>3, <1>4 DEF Settles, Root

\* A tab that comes back shows nothing, and every row waits.
LEMMA ReloadSettles ==
  ASSUME SyncInv, NEW d \in Device, Reload(d)
  PROVE  Settles(d)'
<1>1. /\ local'[d] = [e \in Entity |-> Null] /\ UNCHANGED rows
      /\ \A e \in Entity : rows[e].exists => Beyond(d, e)'
  BY ReloadKeeps DEF Reload, vars, SyncInv, Shape
<1>. QED  BY <1>1 DEF Settles, Truth, Root

\* Every step settles every device.
LEMMA SettlingStep ==
  ASSUME NoClaims, SyncInv, Settling, [SyncNext]_syncVars
  PROVE  Settling'
<1>. SUFFICES ASSUME NEW c \in Device PROVE Settles(c)'
  BY DEF Settling
<1>0. Settles(c) /\ SyncInv'
  BY SyncStep DEF Settling
<1>1. ASSUME NEW d \in Device, ServerTakes(d) PROVE Settles(c)'
  BY <1>0, <1>1, TakesSettles
<1>2. ASSUME NEW d \in Device,
             \/ \E w \in Write, h \in Clock : Edit(d, w, h)
             \/ StartDrain(d) \/ PushAnswered(d) \/ PullRead(d) \/ PullLoad(d) \/ PullApply(d)
             \/ RequestLost(d) \/ Reload(d),
             c # d
      PROVE  Settles(c)'
  <2>1. ServerInv' /\ Moves /\ memo' = memo
    BY <1>2, OtherSteps
  <2>2. Same(c)
    <3>1. ASSUME NEW w \in Write, NEW h \in Clock, Edit(d, w, h) PROVE Same(c)
      BY <1>2, <3>1 DEF Edit, Same, SyncInv, Shape, DeviceTypeOK
    <3>2. ASSUME StartDrain(d) \/ PushAnswered(d) PROVE Same(c)
      BY <1>2, <3>2 DEF StartDrain, PushAnswered, Same, SyncInv, Shape, DeviceTypeOK
    <3>3. ASSUME PullRead(d) \/ PullLoad(d) PROVE Same(c)
      BY <1>2, <3>3 DEF PullRead, PullLoad, Same, SyncInv, Shape, DeviceTypeOK
    <3>4. ASSUME PullApply(d) PROVE Same(c)
      BY <1>2, <3>4 DEF PullApply, Same, SyncInv, Shape, DeviceTypeOK
    <3>5. ASSUME RequestLost(d) \/ Reload(d) PROVE Same(c)
      BY <1>2, <3>5 DEF RequestLost, Reload, Same, SyncInv, Shape, DeviceTypeOK
    <3>. QED  BY <1>2, <3>1, <3>2, <3>3, <3>4, <3>5
  <2>. QED  BY <1>0, <2>1, <2>2, OthersSettle
<1>3. ASSUME NEW w \in Write, NEW h \in Clock, Edit(c, w, h) PROVE Settles(c)'
  BY <1>0, <1>3, EditSettles
<1>4. ASSUME StartDrain(c) PROVE Settles(c)'
  <2>1. ServerInv' /\ Moves /\ memo' = memo /\ UNCHANGED <<local, queue, cursor, page>>
    BY <1>4, OtherSteps DEF StartDrain
  <2>2. \A i \in 1 .. Len(queue[c]), e \in Root :
          Lands(queue[c][i], e) => Told(e) \/ memo'[queue[c][i].hlc] = "none"
    BY <2>1 DEF Lands
  <2>. QED  BY <1>0, <2>1, <2>2, SettlesStays
<1>5. ASSUME PushAnswered(c) PROVE Settles(c)'
  BY <1>0, <1>5, AnsweredSettles
<1>6. ASSUME PullRead(c) PROVE Settles(c)'
  BY <1>0, <1>6, ReadSettles
<1>7. ASSUME PullLoad(c) PROVE Settles(c)'
  BY <1>0, <1>7, LoadSettles
<1>8. ASSUME PullApply(c) PROVE Settles(c)'
  BY <1>0, <1>8, ApplySettles
<1>9. ASSUME RequestLost(c) PROVE Settles(c)'
  BY <1>0, <1>9, LostSettles
<1>10. ASSUME Reload(c) PROVE Settles(c)'
  BY <1>10, ReloadSettles
<1>11. ASSUME UNCHANGED syncVars PROVE Settles(c)'
  <2>1. /\ UNCHANGED <<rows, changeLog, memo, local, queue, cursor, page>>
    BY <1>11 DEF syncVars, device, vars
  <2>. QED  BY <1>0, <2>1 DEF Settles, Beyond, Behind, InPage, Truth, Lands
<1>12. CASE UNCHANGED syncVars
  BY <1>11, <1>12
<1>13. CASE SyncNext
  <2>1. PICK d \in Device : \/ \E w \in Write, h \in Clock : Edit(d, w, h)
                            \/ DrainStep(d) \/ RequestLost(d) \/ Reload(d)
    BY <1>13 DEF SyncNext
  <2>2. CASE c = d
    BY <1>1, <1>3, <1>4, <1>5, <1>6, <1>7, <1>8, <1>9, <1>10, <2>1, <2>2 DEF DrainStep
  <2>3. CASE c # d
    BY <1>1, <1>2, <2>1, <2>3 DEF DrainStep
  <2>. QED  BY <2>2, <2>3
<1>. QED  BY <1>12, <1>13

LEMMA SyncSettles == ASSUME NoClaims PROVE SyncSpec => [](SyncInv /\ Settling)
<1>1. SyncInit => SyncInv /\ Settling
  <2>. SUFFICES ASSUME SyncInit PROVE SyncInv /\ Settling
    OBVIOUS
  <2>1. \A e \in Root : Truth(e) = Null /\ \A d \in Device : local[d][e] = Null
    BY DEF SyncInit, Init, NoRow, Truth, Root
  <2>2. Settling
    BY <2>1 DEF Settling, Settles
  <2>. QED  BY <2>2, SyncInitKeeps
<1>2. SyncInv /\ Settling /\ [SyncNext]_syncVars => SyncInv' /\ Settling'
  BY SyncStep, SettlingStep
<1>. QED  BY <1>1, <1>2, PTL DEF SyncSpec

\* A settled device that is up to date agrees with the server.
LEMMA SettledAgrees ==
  ASSUME SyncInv, Settling, NEW d \in Device, UpToDate(d), NEW e \in Root
  PROVE  Agrees(d, e)
<1>1. page[d] = NoPage /\ Behind(d) = {} /\ queue[d] = <<>> /\ e \in Entity
  BY DEF UpToDate, SyncInv, DeviceInv, PageInv, Root
<1>2. ~Beyond(d, e) /\ ~InPage(d, e) /\ ~ \E i \in 1 .. Len(queue[d]) : Lands(queue[d][i], e)
  BY <1>1 DEF Beyond, InPage, NoPage
<1>3. local[d][e] = Truth(e)
  BY <1>2 DEF Settling, Settles
<1>4. rows[e].exists => HomeOf(rows[e], e) = Home
  BY <1>1, AllHome DEF SyncInv, ServerInv, FeedInv
<1>. QED  BY <1>3, <1>4 DEF Agrees, Truth

\* Where no device claims a row for packing, a device with nothing left to send
\* and nothing left to read shows the server's truth of every row that hangs
\* under no other (server.go:506). A row that hangs under one may come back
\* unseen: FindingThread.
THEOREM SyncRootsConverge ==
  ASSUME NoClaims
  PROVE  SyncSpec => [](\A d \in Device : UpToDate(d) => \A e \in Root : Agrees(d, e))
<1>1. SyncInv /\ Settling => \A d \in Device : UpToDate(d) => \A e \in Root : Agrees(d, e)
  BY SettledAgrees
<1>. QED  BY <1>1, SyncSettles, PTL

\* Of a trip whose rows hang under no others, the whole of Converged holds:
\* whatever was painted, lost, refused, merged away or repaired.
THEOREM SyncConverged ==
  ASSUME NoClaims, Root = Entity
  PROVE  SyncSpec => []Converged
<1>1. SyncInv /\ Settling => Converged
  BY SettledAgrees DEF Converged
<1>. QED  BY <1>1, SyncSettles, PTL

=============================================================================
