--------------------------- MODULE Refresh_proofs ---------------------------
(***************************************************************************)
(* Theorems about the groups a trip follows, for every number of items,    *)
(* travelers, groups and devices, and without any bound on how often the   *)
(* groups are edited, hands write and questions are answered. Clocks stay  *)
(* as they are in the model: any write may be overtaken by any other       *)
(* device's, and lose to it on arrival.                                    *)
(*                                                                         *)
(* Two action properties follow from the shape of one answer alone.        *)
(*                                                                         *)
(* Two rows of one position would have to be the wizard's and the one a    *)
(* device derives when it accepts an addition. TwinInv says why they do    *)
(* not meet: an unmarked row (no hand's, and no removal of it has lost)    *)
(* stands where its id says, so that a device that holds the wizard's row  *)
(* adds none; and a device that does not hold it either sees the server    *)
(* without it or has the removal in an earlier batch of its own queue,     *)
(* which arrives before the row it adds.                                   *)
(***************************************************************************)
EXTENDS Refresh, SequenceTheorems, FiniteSetTheorems, TLAPS

-----------------------------------------------------------------------------
(* What a batch does to the rows. *)

LEMMA IdsDiffer ==
  /\ \A k, l : RefreshId(k) # WizardId(l)
  /\ \A k, l : RefreshId(k) = RefreshId(l) => k = l
  /\ \A k, l : WizardId(k) = WizardId(l) => k = l
  /\ \A k : HandId # RefreshId(k) /\ HandId # WizardId(k)
  BY DEF RefreshId, WizardId, HandId

\* The fields of one function laid over another's.
LEMMA OverAt ==
  ASSUME NEW f, NEW g
  PROVE  /\ DOMAIN Over(f, g) = DOMAIN f \cup DOMAIN g
         /\ \A x \in DOMAIN f : Over(f, g)[x] = f[x]
         /\ \A x \in DOMAIN g \ DOMAIN f : Over(f, g)[x] = g[x]
  BY DEF Over

\* What becomes of a row: it is dropped, or it stays as it was or as it was
\* put, with the fields of an edit laid over it, where there is one.
\* What becomes of a row: it is dropped, or it stays as it was or as it was
\* put, with the fields of an edit laid over it, where there is one.
LEMMA ApplyRow ==
  ASSUME NEW t, NEW b
  PROVE  /\ DOMAIN Apply(t, b).rows = (DOMAIN t.rows \cup DOMAIN b.put) \ b.drop
         /\ \A r \in DOMAIN Apply(t, b).rows :
              LET row == IF r \in DOMAIN b.put THEN b.put[r] ELSE t.rows[r]
              IN  Apply(t, b).rows[r] =
                    IF r \in DOMAIN b.edit THEN Over(b.edit[r], row) ELSE row
<1>. DEFINE added  == Over(b.put, t.rows)
            edited == [r \in DOMAIN added |->
                         IF r \in DOMAIN b.edit THEN Over(b.edit[r], added[r]) ELSE added[r]]
<1>1. Apply(t, b).rows = Without(edited, b.drop)
  BY DEF Apply
<1>2. /\ DOMAIN added = DOMAIN b.put \cup DOMAIN t.rows
      /\ \A r \in DOMAIN added : added[r] = IF r \in DOMAIN b.put THEN b.put[r] ELSE t.rows[r]
  <2>1. PICK f, g : f = b.put /\ g = t.rows
    OBVIOUS
  <2>2. /\ DOMAIN Over(f, g) = DOMAIN f \cup DOMAIN g
        /\ \A x \in DOMAIN f : Over(f, g)[x] = f[x]
        /\ \A x \in DOMAIN g \ DOMAIN f : Over(f, g)[x] = g[x]
    BY OverAt
  <2>. QED  BY <2>1, <2>2
<1>3. /\ DOMAIN edited = DOMAIN added
      /\ \A r \in DOMAIN added :
           edited[r] = IF r \in DOMAIN b.edit THEN Over(b.edit[r], added[r]) ELSE added[r]
  <2>. HIDE DEF added
  <2>. QED  OBVIOUS
<1>4. /\ DOMAIN Apply(t, b).rows = DOMAIN added \ b.drop
      /\ \A r \in DOMAIN added \ b.drop : Apply(t, b).rows[r] = edited[r]
  <2>. HIDE DEF edited
  <2>. QED  BY <1>1, <1>3 DEF Without, Restrict
<1>. HIDE DEF added, edited
<1>. QED  BY <1>2, <1>3, <1>4

-----------------------------------------------------------------------------
(* What a plan is. *)

\* The entries whose rows are there and in the group's hands.
Free(t) == {k \in DOMAIN t.ledger : /\ t.ledger[k].row \in DOMAIN t.rows
                                    /\ ~IsProtected(t.rows[t.ledger[k].row], t.ledger[k])}

\* The parts of a plan, and what its batch makes of them.
LEMMA PlanParts ==
  ASSUME NEW d, NEW m, NEW t
  PROVE  LET plan == PlanRefresh(d, m, t)
             b    == plan.batch
             gen  == Generated(m, t.roster)
         IN  /\ plan.adopt = {k \in DOMAIN gen \ DOMAIN t.ledger : RowsAt(t, k) # {}}
             /\ plan.add = (DOMAIN gen \ DOMAIN t.ledger) \ plan.adopt
             /\ plan.update = {k \in DOMAIN gen \cap Free(t) : gen[k] # Snapshot(t.ledger[k])}
             /\ plan.remove = Free(t) \ DOMAIN gen
             /\ b.join = {} /\ b.leave = {}
             /\ DOMAIN b.put = {RefreshId(k) : k \in plan.add}
             /\ \A k \in plan.add : b.put[RefreshId(k)] = NewRow(k, gen[k])
             /\ DOMAIN b.edit = {t.ledger[k].row : k \in plan.update}
             /\ \A r \in DOMAIN b.edit : DOMAIN b.edit[r] \subseteq Propagated
             /\ b.drop = {t.ledger[k].row : k \in plan.remove}
             /\ DOMAIN b.enter = plan.adopt \cup plan.add \cup plan.update
             /\ \A k \in DOMAIN b.enter : Snapshot(b.enter[k]) = gen[k]
             /\ \A k \in plan.add : b.enter[k].row = RefreshId(k)
             /\ \A k \in plan.adopt : b.enter[k].row \in RowsAt(t, k)
             /\ \A k \in plan.update : b.enter[k].row = t.ledger[k].row
             /\ b.forget = plan.remove \cup {k \in DOMAIN t.ledger \ DOMAIN gen :
                                               t.ledger[k].row \notin DOMAIN t.rows}
<1>. DEFINE gen    == Generated(m, t.roster)
            known  == DOMAIN t.ledger
            new    == DOMAIN gen \ known
            free   == {k \in known : /\ t.ledger[k].row \in DOMAIN t.rows
                                     /\ ~IsProtected(t.rows[t.ledger[k].row], t.ledger[k])}
            adopt  == {k \in new : RowsAt(t, k) # {}}
            add    == new \ adopt
            update == {k \in DOMAIN gen \cap free : gen[k] # Snapshot(t.ledger[k])}
            remove == free \ DOMAIN gen
            gone   == {k \in known \ DOMAIN gen : t.ledger[k].row \notin DOMAIN t.rows}
            rowOf  == [k \in adopt \cup add \cup update |->
                         IF k \in add THEN PropagatedId(d, k)
                         ELSE IF k \in adopt THEN CHOOSE r \in RowsAt(t, k) : TRUE
                         ELSE t.ledger[k].row]
            put    == [r \in {rowOf[k] : k \in add} |->
                         LET k == CHOOSE x \in add : rowOf[x] = r IN NewRow(k, gen[k])]
            edit   == [r \in {rowOf[k] : k \in update} |->
                         LET k == CHOOSE x \in update : rowOf[x] = r
                         IN  ChangedFields(t.ledger[k], gen[k])]
            enter  == [k \in adopt \cup add \cup update |-> Over(Only("row", rowOf[k]), gen[k])]
<1>1. PlanRefresh(d, m, t) =
        [add |-> add, adopt |-> adopt, update |-> update, remove |-> remove,
         batch |-> [join |-> {}, put |-> put, edit |-> edit,
                    drop |-> {t.ledger[k].row : k \in remove}, leave |-> {},
                    enter |-> enter, forget |-> remove \cup gone]]
  BY DEF PlanRefresh
<1>2. free = Free(t)
  BY DEF Free
<1>3. add \cap update = {} /\ adopt \cap update = {} /\ adopt \cap add = {}
  OBVIOUS
<1>4. /\ \A k \in add : rowOf[k] = RefreshId(k)
      /\ \A k \in update : rowOf[k] = t.ledger[k].row
      /\ \A k \in adopt : rowOf[k] \in RowsAt(t, k)
  <2>1. \A k \in adopt : (CHOOSE r \in RowsAt(t, k) : TRUE) \in RowsAt(t, k)
    OBVIOUS
  <2>. HIDE DEF add, adopt, update
  <2>2. \A k \in adopt : rowOf[k] \in RowsAt(t, k)
    <3>1. TAKE k \in adopt
    <3>2. CASE k \in add
      BY <1>3, <3>2
    <3>3. CASE k \notin add
      BY <2>1, <3>3
    <3>. QED  BY <3>2, <3>3
  <2>. QED  BY <1>3, <2>2 DEF PropagatedId
<1>5. DOMAIN put = {RefreshId(k) : k \in add} /\ \A k \in add : put[RefreshId(k)] = NewRow(k, gen[k])
  <2>. HIDE DEF add, gen, rowOf
  <2>1. DOMAIN put = {RefreshId(k) : k \in add}
    BY <1>4
  <2>2. ASSUME NEW k \in add PROVE put[RefreshId(k)] = NewRow(k, gen[k])
    <3>1. \A x \in add : rowOf[x] = RefreshId(k) <=> x = k
      BY <1>4, IdsDiffer
    <3>2. (CHOOSE x \in add : rowOf[x] = RefreshId(k)) = k
      BY <3>1
    <3>3. RefreshId(k) \in {rowOf[x] : x \in add}
      BY <1>4
    <3>. QED  BY <3>2, <3>3
  <2>. QED  BY <2>1, <2>2
<1>6. /\ DOMAIN edit = {t.ledger[k].row : k \in update}
      /\ \A r \in DOMAIN edit : DOMAIN edit[r] \subseteq Propagated
  <2>1. \A x, y : DOMAIN ChangedFields(x, y) \subseteq Propagated
    BY DEF ChangedFields, Restrict
  <2>. HIDE DEF update, gen, rowOf
  <2>2. DOMAIN edit = {t.ledger[k].row : k \in update}
    BY <1>4
  <2>. QED  BY <2>1, <2>2
<1>7. /\ DOMAIN enter = adopt \cup add \cup update
      /\ \A k \in DOMAIN enter : Snapshot(enter[k]) = gen[k]
      /\ \A k \in add : enter[k].row = RefreshId(k)
      /\ \A k \in adopt : enter[k].row \in RowsAt(t, k)
      /\ \A k \in update : enter[k].row = t.ledger[k].row
  <2>1. \A k \in DOMAIN gen : Snapshot(gen[k]) = gen[k]
    BY DEF Generated, Snapshot, Propagated
  <2>2. adopt \cup add \cup update \subseteq DOMAIN gen
    OBVIOUS
  <2>. HIDE DEF update, add, adopt, gen, rowOf
  <2>3. ASSUME NEW x, NEW y PROVE LET e == Over(Only("row", x), y)
                                  IN  e.row = x /\ (y = Snapshot(y) => Snapshot(e) = y)
    <3>1. PICK o : o = Only("row", x)
      OBVIOUS
    <3>2. DOMAIN o = {"row"} /\ o["row"] = x
      BY <3>1 DEF Only
    <3>3. PICK e : e = Over(o, y)
      OBVIOUS
    <3>4. /\ DOMAIN e = DOMAIN o \cup DOMAIN y
          /\ \A z \in DOMAIN o : e[z] = o[z]
          /\ \A z \in DOMAIN y \ DOMAIN o : e[z] = y[z]
      <4>1. /\ DOMAIN Over(o, y) = DOMAIN o \cup DOMAIN y
            /\ \A z \in DOMAIN o : Over(o, y)[z] = o[z]
            /\ \A z \in DOMAIN y \ DOMAIN o : Over(o, y)[z] = y[z]
        BY OverAt
      <4>. QED  BY <3>3, <4>1
    <3>5. ASSUME y = Snapshot(y) PROVE Snapshot(e) = y
      <4>1. DOMAIN y = {"quantity", "weight"}
        BY <3>5 DEF Snapshot, Propagated
      <4>2. e["quantity"] = y["quantity"] /\ e["weight"] = y["weight"]
        BY <3>2, <3>4, <4>1
      <4>. QED  BY <3>5, <4>2 DEF Snapshot, Propagated
    <3>. QED  BY <3>1, <3>2, <3>3, <3>4, <3>5
  <2>. QED  BY <1>4, <2>1, <2>2, <2>3
<1>8. /\ adopt = {k \in DOMAIN gen \ DOMAIN t.ledger : RowsAt(t, k) # {}}
      /\ add = (DOMAIN gen \ DOMAIN t.ledger) \ adopt
      /\ update = {k \in DOMAIN gen \cap free : gen[k] # Snapshot(t.ledger[k])}
      /\ remove = free \ DOMAIN gen
      /\ gone = {k \in DOMAIN t.ledger \ DOMAIN gen : t.ledger[k].row \notin DOMAIN t.rows}
  OBVIOUS
<1>. HIDE DEF gen, free, adopt, add, update, remove, gone, put, edit, enter
<1>9. gen = Generated(m, t.roster)
  BY DEF gen
<1>10. PICK plan : plan = PlanRefresh(d, m, t)
  OBVIOUS
<1>11. PICK b : b = plan.batch
  OBVIOUS
<1>12. /\ plan.add = add /\ plan.adopt = adopt /\ plan.update = update /\ plan.remove = remove
       /\ b.join = {} /\ b.leave = {} /\ b.put = put /\ b.edit = edit
       /\ b.drop = {t.ledger[k].row : k \in remove}
       /\ b.enter = enter /\ b.forget = remove \cup gone
  BY <1>1, <1>10, <1>11
<1>13. /\ plan.adopt = {k \in DOMAIN gen \ DOMAIN t.ledger : RowsAt(t, k) # {}}
       /\ plan.add = (DOMAIN gen \ DOMAIN t.ledger) \ plan.adopt
       /\ plan.update = {k \in DOMAIN gen \cap Free(t) : gen[k] # Snapshot(t.ledger[k])}
       /\ plan.remove = Free(t) \ DOMAIN gen
  BY <1>2, <1>8, <1>12
<1>14. /\ DOMAIN b.put = {RefreshId(k) : k \in plan.add}
       /\ \A k \in plan.add : b.put[RefreshId(k)] = NewRow(k, gen[k])
       /\ DOMAIN b.edit = {t.ledger[k].row : k \in plan.update}
       /\ \A r \in DOMAIN b.edit : DOMAIN b.edit[r] \subseteq Propagated
       /\ b.drop = {t.ledger[k].row : k \in plan.remove}
  BY <1>5, <1>6, <1>12
<1>15. /\ DOMAIN b.enter = plan.adopt \cup plan.add \cup plan.update
       /\ \A k \in DOMAIN b.enter : Snapshot(b.enter[k]) = gen[k]
       /\ \A k \in plan.add : b.enter[k].row = RefreshId(k)
       /\ \A k \in plan.adopt : b.enter[k].row \in RowsAt(t, k)
       /\ \A k \in plan.update : b.enter[k].row = t.ledger[k].row
       /\ b.forget = plan.remove \cup {k \in DOMAIN t.ledger \ DOMAIN gen :
                                         t.ledger[k].row \notin DOMAIN t.rows}
  BY <1>7, <1>8, <1>12
<1>. QED  BY <1>9, <1>10, <1>11, <1>12, <1>13, <1>14, <1>15

\* A refusal writes no rows.
LEMMA DeclineParts ==
  ASSUME NEW plan
  PROVE  /\ DOMAIN DeclinePlan(plan).put = {} /\ DOMAIN DeclinePlan(plan).edit = {}
         /\ DeclinePlan(plan).drop = {} /\ DeclinePlan(plan).join = {}
         /\ DeclinePlan(plan).leave = {}
         /\ DeclinePlan(plan).enter = plan.batch.enter
         /\ DeclinePlan(plan).forget = plan.batch.forget
  BY DEF DeclinePlan, Nothing, EmptyFn

\* A batch that puts no rows and edits none but a hand's.
-----------------------------------------------------------------------------
(* Answers. *)

\* A row that a batch neither puts nor edits is as it was, unless it is dropped.
LEMMA ApplyLeaves ==
  ASSUME NEW t, NEW b, NEW r, r \notin DOMAIN b.put, r \notin DOMAIN b.edit
  PROVE  /\ r \in DOMAIN t.rows /\ r \notin b.drop => r \in DOMAIN Apply(t, b).rows
         /\ r \in DOMAIN Apply(t, b).rows =>
              r \in DOMAIN t.rows /\ Apply(t, b).rows[r] = t.rows[r]
  BY ApplyRow

\* There is a copy, a question and the groups as last pulled for every device.
AnswerInv ==
    /\ DOMAIN copy = Device /\ DOMAIN offer = Device /\ DOMAIN seen = Device
    /\ acts \in Nat

LEMMA AnswerInvHolds == Spec => []AnswerInv
<1>1. Init => AnswerInv
  BY DEF Init, AnswerInv, master
<1>2. AnswerInv /\ [Next]_vars => AnswerInv'
  <2>. SUFFICES ASSUME AnswerInv, [Next]_vars PROVE AnswerInv'
    OBVIOUS
  <2>1. CASE UNCHANGED vars
    BY <2>1 DEF vars, master, AnswerInv
  <2>2. ASSUME NEW d \in Device, Push(d) \/ PushEdit(d) PROVE AnswerInv'
    BY <2>2 DEF Push, PushEdit, AnswerInv, master
  <2>3. ASSUME NEW d \in Device, OpenTrip(d) \/ PullMaster(d) PROVE AnswerInv'
    BY <2>3 DEF OpenTrip, PullMaster, Propose, Write, AnswerInv, master
  <2>4. ASSUME NEW d \in Device, Accept(d) \/ Decline(d) \/ PullTrip(d) PROVE AnswerInv'
    BY <2>4 DEF Accept, Decline, PullTrip, Write, AnswerInv, master
  <2>5. ASSUME NEW d \in Device, NEW x, NEW v, EditRegister(d, x, v) PROVE AnswerInv'
    BY <2>5 DEF EditRegister, AnswerInv, master
  <2>6. ASSUME NEW d \in Device, NEW b, NEW touched, ChangeRoster(d, b, touched)
        PROVE  AnswerInv'
    BY <2>6 DEF ChangeRoster, AnswerInv, master
  <2>7. ASSUME NEW d \in Device, NEW b, NEW r, HandWrites(d, b, r)
        PROVE  AnswerInv'
    BY <2>7 DEF HandWrites, AnswerInv, master
  <2>8. ASSUME NEW d \in Device, HandAct(d) PROVE AnswerInv'
    BY <2>7, <2>8 DEF HandAct, AddTripItem, DeleteTripItem, TogglePacked, ToggleSkipped,
                      SetQuantity, AssignTraveler, EditRow
  <2>9. ASSUME NEW d \in Device, NEW t,
               AddTraveler(d, t) \/ RemoveTraveler(d, t, TRUE) \/ RemoveTraveler(d, t, FALSE)
        PROVE  AnswerInv'
    BY <2>6, <2>9 DEF AddTraveler, RemoveTraveler
  <2>. QED  BY <2>1, <2>2, <2>3, <2>4, <2>5, <2>8, <2>9 DEF Next, EditItem, EditGroup
<1>. QED  BY <1>1, <1>2, PTL DEF Spec

\* The steps that take device d's question off the screen: an answer, an open or
\* a pull of the groups that finds nothing left to ask, or a roster change.
LEMMA QuestionLeaves ==
  ASSUME AnswerInv, [Next]_vars, NEW d \in Device, offer[d], ~offer'[d]
  PROVE  \/ Accept(d)
         \/ Decline(d)
         \/ \E m : /\ m = seen'[d] /\ Asked(PlanRefresh(d, m, copy[d])) = {}
                   /\ Write(d, PlanRefresh(d, m, copy[d]).batch, m)
                   /\ acts' = acts
         \/ \E b, touched : ChangeRoster(d, b, touched) /\ b.enter = EmptyFn /\ b.forget = {}
<1>1. CASE UNCHANGED <<offer>>
  BY <1>1
<1>2. ~ UNCHANGED vars /\ \A x \in Device : ~ Push(x) /\ ~ PushEdit(x)
  BY DEF vars, Push, PushEdit
<1>3. ASSUME NEW x \in Device, NEW m, Propose(x, m), m = seen'[x], acts' = acts
      PROVE  \E n : /\ n = seen'[d] /\ Asked(PlanRefresh(d, n, copy[d])) = {}
                    /\ Write(d, PlanRefresh(d, n, copy[d]).batch, n)
                    /\ acts' = acts
  <2>1. CASE Asked(PlanRefresh(x, m, copy[x])) = {}
    <3>1. offer' = [offer EXCEPT ![x] = FALSE]
      BY <1>3, <2>1 DEF Propose
    <3>2. x = d
      BY <3>1 DEF AnswerInv
    <3>. QED  BY <1>3, <2>1, <3>2 DEF Propose
  <2>2. CASE Asked(PlanRefresh(x, m, copy[x])) # {}
    <3>1. offer' = [offer EXCEPT ![x] = TRUE]
      BY <1>3, <2>2 DEF Propose
    <3>. QED  BY <3>1 DEF AnswerInv
  <2>. QED  BY <2>1, <2>2
<1>4. ASSUME NEW x \in Device, OpenTrip(x) \/ PullMaster(x)
      PROVE  \E n : /\ n = seen'[d] /\ Asked(PlanRefresh(d, n, copy[d])) = {}
                    /\ Write(d, PlanRefresh(d, n, copy[d]).batch, n)
                    /\ acts' = acts
  <2>1. PICK m : Propose(x, m) /\ m = seen'[x] /\ acts' = acts
    BY <1>4 DEF OpenTrip, PullMaster, AnswerInv, master
  <2>. QED  BY <1>3, <2>1
<1>5. ASSUME NEW x \in Device, Accept(x) \/ Decline(x) PROVE Accept(d) \/ Decline(d)
  <2>1. offer' = [offer EXCEPT ![x] = FALSE]
    BY <1>5 DEF Accept, Decline
  <2>2. x = d
    BY <2>1 DEF AnswerInv
  <2>. QED  BY <1>5, <2>2
<1>6. ASSUME NEW x \in Device, PullTrip(x) \/ HandAct(x) PROVE UNCHANGED offer
  BY <1>6 DEF PullTrip, HandAct, AddTripItem, DeleteTripItem, TogglePacked, ToggleSkipped,
              SetQuantity, AssignTraveler, EditRow, HandWrites
<1>7. ASSUME NEW x \in Device, NEW y, NEW v, EditRegister(x, y, v)
      PROVE  UNCHANGED offer
  BY <1>7 DEF EditRegister
<1>8. ASSUME NEW x \in Device, NEW t,
             AddTraveler(x, t) \/ RemoveTraveler(x, t, TRUE) \/ RemoveTraveler(x, t, FALSE)
      PROVE  \E b, touched : ChangeRoster(d, b, touched) /\ b.enter = EmptyFn /\ b.forget = {}
  <2>1. ASSUME NEW b, NEW touched, ChangeRoster(x, b, touched) PROVE x = d
    BY <2>1 DEF ChangeRoster, AnswerInv, master
  <2>2. CASE AddTraveler(x, t)
    <3>1. PICK b : b = [Nothing EXCEPT !.join = {t}]
      OBVIOUS
    <3>2. b.enter = EmptyFn /\ b.forget = {}
      BY <3>1 DEF Nothing
    <3>3. ChangeRoster(x, b, {})
      BY <2>2, <3>1 DEF AddTraveler
    <3>. QED  BY <2>1, <3>2, <3>3
  <2>3. ASSUME NEW packed, RemoveTraveler(x, t, packed)
        PROVE  \E b, touched : ChangeRoster(d, b, touched) /\ b.enter = EmptyFn /\ b.forget = {}
    <3>. DEFINE theirs == {r \in DOMAIN copy[x].rows : copy[x].rows[r].traveler = t}
                taken  == {r \in theirs : packed /\ copy[x].rows[r].packed_count > 0}
                edit   == [r \in theirs \ taken |-> Only("traveler", NoOne)]
    <3>1. PICK b : b = [[[Nothing EXCEPT !.drop  = taken]
                                  EXCEPT !.edit  = edit]
                                  EXCEPT !.leave = {t}]
      OBVIOUS
    <3>2. ChangeRoster(x, b, theirs)
      BY <2>3, <3>1 DEF RemoveTraveler
    <3>. HIDE DEF theirs, taken, edit
    <3>3. b.enter = EmptyFn /\ b.forget = {}
      BY <3>1 DEF Nothing
    <3>. QED  BY <2>1, <3>2, <3>3
  <2>. QED  BY <1>8, <2>2, <2>3
<1>. QED  BY <1>1, <1>2, <1>4, <1>5, <1>6, <1>7, <1>8 DEF Next, EditItem, EditGroup

\* A plan overwrites and takes away only what is in the group's hands.
LEMMA PlanSpares ==
  ASSUME NEW d, NEW m, NEW t, NEW r \in DOMAIN t.rows, Decided(t.rows[r])
  PROVE  LET b == PlanRefresh(d, m, t).batch
         IN  r \notin DOMAIN b.edit /\ r \notin b.drop
<1>1. PICK plan : plan = PlanRefresh(d, m, t)
  OBVIOUS
<1>2. PICK b, gen : b = plan.batch /\ gen = Generated(m, t.roster)
  OBVIOUS
<1>3. /\ plan.update = {k \in DOMAIN gen \cap Free(t) : gen[k] # Snapshot(t.ledger[k])}
      /\ plan.remove = Free(t) \ DOMAIN gen
      /\ DOMAIN b.edit = {t.ledger[k].row : k \in plan.update}
      /\ b.drop = {t.ledger[k].row : k \in plan.remove}
  BY <1>1, <1>2, PlanParts
<1>4. \A k \in Free(t) : t.ledger[k].row # r
  BY DEF Free, IsProtected, Decided
<1>. QED  BY <1>1, <1>2, <1>3, <1>4

\* A plan that asks nothing writes no rows.
LEMMA UnaskedSpares ==
  ASSUME NEW d, NEW m, NEW t, Asked(PlanRefresh(d, m, t)) = {}
  PROVE  LET b == PlanRefresh(d, m, t).batch
         IN  DOMAIN b.put = {} /\ DOMAIN b.edit = {} /\ b.drop = {}
<1>1. PICK plan : plan = PlanRefresh(d, m, t)
  OBVIOUS
<1>2. PICK b : b = plan.batch
  OBVIOUS
<1>3. /\ DOMAIN b.put = {RefreshId(k) : k \in plan.add}
      /\ DOMAIN b.edit = {t.ledger[k].row : k \in plan.update}
      /\ b.drop = {t.ledger[k].row : k \in plan.remove}
  BY <1>1, <1>2, PlanParts
<1>4. plan.add = {} /\ plan.update = {} /\ plan.remove = {}
  BY <1>1 DEF Asked
<1>. QED  BY <1>1, <1>2, <1>3, <1>4

LEMMA ManualStep ==
  ASSUME AnswerInv, [Next]_vars, NEW d \in Device, offer[d], ~offer'[d], acts' = acts,
         NEW r \in DOMAIN copy[d].rows, Decided(copy[d].rows[r]),
         r \notin DOMAIN PlanOf(d).batch.put
  PROVE  Untouched(d, r)
<1>1. PICK c : c = copy[d]
  OBVIOUS
<1>2. ASSUME NEW b, NEW m, Write(d, b, m),
             r \notin DOMAIN b.put, r \notin DOMAIN b.edit, r \notin b.drop
      PROVE  Untouched(d, r)
  <2>1. r \in DOMAIN Apply(c, b).rows /\ Apply(c, b).rows[r] = c.rows[r]
    BY <1>1, <1>2, ApplyLeaves
  <2>2. copy'[d] = Apply(c, b)
    BY <1>1, <1>2 DEF Write, AnswerInv, master
  <2>. QED  BY <1>1, <2>1, <2>2 DEF Untouched
<1>3. CASE Accept(d)
  <2>1. PICK b : b = PlanRefresh(d, seen[d], copy[d]).batch
    OBVIOUS
  <2>2. r \notin DOMAIN b.edit /\ r \notin b.drop
    BY <2>1, PlanSpares
  <2>3. Write(d, b, seen[d]) /\ r \notin DOMAIN b.put
    BY <1>3, <2>1 DEF Accept, PlanOf
  <2>. QED  BY <1>2, <2>2, <2>3
<1>4. CASE Decline(d)
  <2>1. PICK plan : plan = PlanOf(d)
    OBVIOUS
  <2>2. PICK b : b = DeclinePlan(plan)
    OBVIOUS
  <2>3. DOMAIN b.put = {} /\ DOMAIN b.edit = {} /\ b.drop = {}
    BY <2>2, DeclineParts
  <2>4. Write(d, b, seen[d])
    BY <1>4, <2>1, <2>2 DEF Decline, master
  <2>. QED  BY <1>2, <2>3, <2>4
<1>5. ASSUME NEW m, Asked(PlanRefresh(d, m, copy[d])) = {},
             Write(d, PlanRefresh(d, m, copy[d]).batch, m)
      PROVE  Untouched(d, r)
  <2>1. PICK b : b = PlanRefresh(d, m, copy[d]).batch
    OBVIOUS
  <2>2. DOMAIN b.put = {} /\ DOMAIN b.edit = {} /\ b.drop = {}
    BY <1>5, <2>1, UnaskedSpares
  <2>3. Write(d, b, m)
    BY <1>5, <2>1
  <2>. QED  BY <1>2, <2>2, <2>3
<1>6. \A b, touched : ~ ChangeRoster(d, b, touched)
  BY DEF ChangeRoster, AnswerInv, master
<1>. QED  BY <1>3, <1>4, <1>5, <1>6, QuestionLeaves

\* "Manual edits on the trip always win": whatever a device answers, and whatever
\* became of the groups and the trip since it was asked, a row packing has begun
\* on and a skipped one stay as they were (isProtected).
THEOREM RefreshManualEditsWin == Spec => ManualEditsWin
<1>. DEFINE EditsStay ==
         \A d \in Device : offer[d] /\ ~offer'[d] /\ acts' = acts =>
            \A r \in DOMAIN copy[d].rows :
               Decided(copy[d].rows[r]) /\ r \notin DOMAIN PlanOf(d).batch.put
                 => Untouched(d, r)
<1>1. AnswerInv /\ [Next]_vars => [EditsStay]_vars
  BY ManualStep
<1>. QED  BY <1>1, AnswerInvHolds, PTL DEF Spec, ManualEditsWin

-----------------------------------------------------------------------------
(* An answer settles every position. *)

\* What a batch does to the ledger.
LEMMA ApplyLedger ==
  ASSUME NEW t, NEW b
  PROVE  /\ DOMAIN Apply(t, b).ledger = (DOMAIN b.enter \cup DOMAIN t.ledger) \ b.forget
         /\ \A k \in DOMAIN Apply(t, b).ledger :
              /\ k \in DOMAIN b.enter => Apply(t, b).ledger[k] = b.enter[k]
              /\ k \notin DOMAIN b.enter => Apply(t, b).ledger[k] = t.ledger[k]
         /\ b.join = {} /\ b.leave = {} => Apply(t, b).roster = t.roster
<1>1. Apply(t, b).ledger = Without(Over(b.enter, t.ledger), b.forget)
  BY DEF Apply
<1>2. PICK f, g : f = b.enter /\ g = t.ledger
  OBVIOUS
<1>3. PICK o : o = Over(f, g)
  OBVIOUS
<1>4. /\ DOMAIN o = DOMAIN f \cup DOMAIN g
      /\ \A x \in DOMAIN f : o[x] = f[x]
      /\ \A x \in DOMAIN g \ DOMAIN f : o[x] = g[x]
  <2>1. /\ DOMAIN Over(f, g) = DOMAIN f \cup DOMAIN g
        /\ \A x \in DOMAIN f : Over(f, g)[x] = f[x]
        /\ \A x \in DOMAIN g \ DOMAIN f : Over(f, g)[x] = g[x]
    BY OverAt
  <2>. QED  BY <1>3, <2>1
<1>5. /\ DOMAIN Without(o, b.forget) = DOMAIN o \ b.forget
      /\ \A x \in DOMAIN o \ b.forget : Without(o, b.forget)[x] = o[x]
  BY DEF Without, Restrict
<1>6. b.join = {} /\ b.leave = {} => Apply(t, b).roster = t.roster
  BY DEF Apply
<1>. QED  BY <1>1, <1>2, <1>3, <1>4, <1>5, <1>6

\* Where a plan's entries have been written, and the rows of the entries it leaves
\* alone are no freer than they were, nothing is left to ask.
LEMMA SettledBy ==
  ASSUME NEW d, NEW m, NEW t, NEW T, NEW b, T = Apply(t, b),
         b.join = {}, b.leave = {},
         b.enter = PlanRefresh(d, m, t).batch.enter,
         b.forget = PlanRefresh(d, m, t).batch.forget,
         \A k \in (DOMAIN t.ledger \ DOMAIN b.enter) \ b.forget :
            k \in Free(T) => k \in Free(t)
  PROVE  Asked(PlanRefresh(d, m, T)) = {}
<1>1. PICK p, P : p = PlanRefresh(d, m, t) /\ P = PlanRefresh(d, m, T)
  OBVIOUS
<1>2. PICK gen : gen = Generated(m, t.roster)
  OBVIOUS
<1>3. /\ p.adopt = {k \in DOMAIN gen \ DOMAIN t.ledger : RowsAt(t, k) # {}}
      /\ p.add = (DOMAIN gen \ DOMAIN t.ledger) \ p.adopt
      /\ p.update = {k \in DOMAIN gen \cap Free(t) : gen[k] # Snapshot(t.ledger[k])}
      /\ p.remove = Free(t) \ DOMAIN gen
      /\ DOMAIN b.enter = p.adopt \cup p.add \cup p.update
      /\ \A k \in DOMAIN b.enter : Snapshot(b.enter[k]) = gen[k]
      /\ b.forget = p.remove \cup {k \in DOMAIN t.ledger \ DOMAIN gen :
                                     t.ledger[k].row \notin DOMAIN t.rows}
  <2>1. PICK e : e = p.batch
    OBVIOUS
  <2>2. b.enter = e.enter /\ b.forget = e.forget
    BY <1>1, <2>1
  <2>. QED  BY <1>1, <1>2, <2>1, <2>2, PlanParts
<1>4. /\ DOMAIN T.ledger = (DOMAIN b.enter \cup DOMAIN t.ledger) \ b.forget
      /\ \A k \in DOMAIN T.ledger :
           /\ k \in DOMAIN b.enter => T.ledger[k] = b.enter[k]
           /\ k \notin DOMAIN b.enter => T.ledger[k] = t.ledger[k]
      /\ T.roster = t.roster
  BY ApplyLedger
<1>5. /\ P.adopt = {k \in DOMAIN gen \ DOMAIN T.ledger : RowsAt(T, k) # {}}
      /\ P.add = (DOMAIN gen \ DOMAIN T.ledger) \ P.adopt
      /\ P.update = {k \in DOMAIN gen \cap Free(T) : gen[k] # Snapshot(T.ledger[k])}
      /\ P.remove = Free(T) \ DOMAIN gen
  BY <1>1, <1>2, <1>4, PlanParts
<1>6. Free(T) \subseteq DOMAIN T.ledger /\ Free(t) \subseteq DOMAIN t.ledger
  BY DEF Free
<1>7. DOMAIN gen \cap b.forget = {} /\ DOMAIN b.enter \subseteq DOMAIN gen
  BY <1>3
<1>8. P.add = {}
  <2>1. DOMAIN gen \subseteq DOMAIN T.ledger
    BY <1>3, <1>4, <1>7
  <2>. QED  BY <1>5, <2>1
<1>9. P.update = {}
  <2>. SUFFICES ASSUME NEW k \in DOMAIN gen \cap Free(T), gen[k] # Snapshot(T.ledger[k])
                PROVE  FALSE
    BY <1>5
  <2>1. k \notin DOMAIN b.enter
    BY <1>3, <1>4, <1>6
  <2>2. k \in (DOMAIN t.ledger \ DOMAIN b.enter) \ b.forget /\ T.ledger[k] = t.ledger[k]
    BY <1>4, <1>6, <2>1
  <2>3. k \in Free(t)
    BY <2>2
  <2>. QED  BY <1>3, <2>1, <2>2, <2>3
<1>10. P.remove = {}
  <2>. SUFFICES ASSUME NEW k \in Free(T) \ DOMAIN gen PROVE FALSE
    BY <1>5
  <2>1. k \in (DOMAIN t.ledger \ DOMAIN b.enter) \ b.forget
    BY <1>4, <1>6, <1>7
  <2>2. k \in Free(t)
    BY <2>1
  <2>. QED  BY <1>3, <2>1, <2>2
<1>. QED  BY <1>1, <1>8, <1>9, <1>10 DEF Asked

\* A yes settles every position: the row of an entry it leaves alone is a row it
\* leaves alone, or two entries would be about that row.
LEMMA AcceptSettles ==
  ASSUME NEW d, NEW m, NEW t, NEW T, T = Apply(t, PlanRefresh(d, m, t).batch),
         OneEntryPerRow(t), OneEntryPerRow(T)
  PROVE  Asked(PlanRefresh(d, m, T)) = {}
<1>1. PICK p : p = PlanRefresh(d, m, t)
  OBVIOUS
<1>2. PICK b, gen : b = p.batch /\ gen = Generated(m, t.roster)
  OBVIOUS
<1>3. /\ p.adopt = {k \in DOMAIN gen \ DOMAIN t.ledger : RowsAt(t, k) # {}}
      /\ p.add = (DOMAIN gen \ DOMAIN t.ledger) \ p.adopt
      /\ p.update = {k \in DOMAIN gen \cap Free(t) : gen[k] # Snapshot(t.ledger[k])}
      /\ p.remove = Free(t) \ DOMAIN gen
      /\ b.join = {} /\ b.leave = {}
      /\ DOMAIN b.put = {RefreshId(k) : k \in p.add}
      /\ DOMAIN b.edit = {t.ledger[k].row : k \in p.update}
      /\ DOMAIN b.enter = p.adopt \cup p.add \cup p.update
      /\ \A k \in p.add : b.enter[k].row = RefreshId(k)
      /\ b.forget = p.remove \cup {k \in DOMAIN t.ledger \ DOMAIN gen :
                                     t.ledger[k].row \notin DOMAIN t.rows}
  BY <1>1, <1>2, PlanParts
<1>4. T = Apply(t, b)
  BY <1>1, <1>2
<1>5. /\ DOMAIN T.ledger = (DOMAIN b.enter \cup DOMAIN t.ledger) \ b.forget
      /\ \A k \in DOMAIN T.ledger :
           /\ k \in DOMAIN b.enter => T.ledger[k] = b.enter[k]
           /\ k \notin DOMAIN b.enter => T.ledger[k] = t.ledger[k]
  BY <1>4, ApplyLedger
<1>6. \A r \in DOMAIN T.rows : r \notin DOMAIN b.put /\ r \notin DOMAIN b.edit
        => r \in DOMAIN t.rows /\ T.rows[r] = t.rows[r]
  BY <1>4, ApplyLeaves
<1>7. ASSUME NEW k \in (DOMAIN t.ledger \ DOMAIN b.enter) \ b.forget, k \in Free(T)
      PROVE  k \in Free(t)
  <2>1. k \in DOMAIN T.ledger /\ T.ledger[k] = t.ledger[k]
    BY <1>5, <1>7
  <2>2. PICK r : r = t.ledger[k].row
    OBVIOUS
  <2>3. r \in DOMAIN T.rows /\ ~IsProtected(T.rows[r], t.ledger[k])
    BY <1>7, <2>1, <2>2 DEF Free
  <2>4. r \notin DOMAIN b.put
    <3>. SUFFICES ASSUME NEW l \in p.add, r = RefreshId(l) PROVE FALSE
      BY <1>3
    <3>1. l \in DOMAIN b.enter /\ l \notin b.forget /\ b.enter[l].row = r
      BY <1>3
    <3>2. l \in DOMAIN T.ledger /\ T.ledger[l].row = r /\ l # k
      BY <1>5, <1>7, <3>1
    <3>. QED  BY <2>1, <2>2, <3>2 DEF OneEntryPerRow
  <2>5. r \notin DOMAIN b.edit
    <3>. SUFFICES ASSUME NEW l \in p.update, r = t.ledger[l].row PROVE FALSE
      BY <1>3
    <3>1. l \in DOMAIN t.ledger /\ l # k
      BY <1>3, <1>7 DEF Free
    <3>. QED  BY <1>7, <2>2, <3>1 DEF OneEntryPerRow
  <2>. QED  BY <1>6, <1>7, <2>2, <2>3, <2>4, <2>5 DEF Free
<1>8. b.enter = PlanRefresh(d, m, t).batch.enter /\ b.forget = PlanRefresh(d, m, t).batch.forget
  BY <1>1, <1>2
<1>. QED  BY <1>3, <1>4, <1>7, <1>8, SettledBy

\* A no does too: it writes the same entries, and no rows.
LEMMA DeclineSettles ==
  ASSUME NEW d, NEW m, NEW t, NEW T, T = Apply(t, DeclinePlan(PlanRefresh(d, m, t)))
  PROVE  Asked(PlanRefresh(d, m, T)) = {}
<1>1. PICK p : p = PlanRefresh(d, m, t)
  OBVIOUS
<1>2. PICK b : b = DeclinePlan(p)
  OBVIOUS
<1>3. /\ DOMAIN b.put = {} /\ DOMAIN b.edit = {} /\ b.join = {} /\ b.leave = {}
      /\ b.enter = p.batch.enter /\ b.forget = p.batch.forget
  BY <1>2, DeclineParts
<1>4. T = Apply(t, b)
  BY <1>1, <1>2
<1>5. \A r \in DOMAIN T.rows : r \in DOMAIN t.rows /\ T.rows[r] = t.rows[r]
  BY <1>3, <1>4, ApplyLeaves
<1>6. \A k \in (DOMAIN t.ledger \ DOMAIN b.enter) \ b.forget : k \in Free(T) => k \in Free(t)
  <2>1. TAKE k \in (DOMAIN t.ledger \ DOMAIN b.enter) \ b.forget
  <2>2. k \in Free(T) => T.ledger[k] = t.ledger[k]
    BY <1>4, ApplyLedger DEF Free
  <2>. QED  BY <1>5, <2>2 DEF Free
<1>7. b.enter = PlanRefresh(d, m, t).batch.enter /\ b.forget = PlanRefresh(d, m, t).batch.forget
  BY <1>1, <1>3
<1>. QED  BY <1>3, <1>4, <1>6, <1>7, SettledBy

LEMMA SettleStep ==
  ASSUME AnswerInv, [Next]_vars, NEW d \in Device, offer[d], ~offer'[d],
         OneEntryPerRow(copy[d]), OneEntryPerRow(copy[d])'
  PROVE  Asked(PlanOf(d))' = {}
<1>1. PICK c, C, M : c = copy[d] /\ C = copy'[d] /\ M = seen'[d]
  OBVIOUS
<1>2. OneEntryPerRow(c) /\ OneEntryPerRow(C)
  BY <1>1
<1>3. SUFFICES Asked(PlanRefresh(d, M, C)) = {}
  BY <1>1 DEF PlanOf
<1>4. \A b, m : Write(d, b, m) => C = Apply(c, b)
  BY <1>1 DEF Write, AnswerInv, master
<1>5. CASE Accept(d)
  <2>1. M = seen[d]
    BY <1>1, <1>5 DEF Accept, master
  <2>2. Write(d, PlanRefresh(d, M, c).batch, M)
    BY <1>1, <1>5, <2>1 DEF Accept, PlanOf
  <2>3. C = Apply(c, PlanRefresh(d, M, c).batch)
    BY <1>4, <2>2
  <2>. QED  BY <1>2, <2>3, AcceptSettles
<1>6. CASE Decline(d)
  <2>1. M = seen[d]
    BY <1>1, <1>6 DEF Decline, master
  <2>2. Write(d, DeclinePlan(PlanRefresh(d, M, c)), M)
    BY <1>1, <1>6, <2>1 DEF Decline, PlanOf
  <2>3. C = Apply(c, DeclinePlan(PlanRefresh(d, M, c)))
    BY <1>4, <2>2
  <2>. QED  BY <2>3, DeclineSettles
<1>7. ASSUME NEW m, m = seen'[d], Write(d, PlanRefresh(d, m, copy[d]).batch, m)
      PROVE  Asked(PlanRefresh(d, M, C)) = {}
  <2>1. C = Apply(c, PlanRefresh(d, M, c).batch)
    BY <1>1, <1>4, <1>7
  <2>. QED  BY <1>2, <2>1, AcceptSettles
<1>8. ASSUME NEW b, NEW touched, ChangeRoster(d, b, touched), b.enter = EmptyFn, b.forget = {}
      PROVE  Asked(PlanRefresh(d, M, C)) = {}
  <2>1. PICK t : t = Apply(c, b)
    OBVIOUS
  <2>2. M = seen[d] /\ C = Apply(t, PlanRefresh(d, M, t).batch)
    BY <1>1, <1>8, <2>1 DEF ChangeRoster, AnswerInv, master
  <2>3. OneEntryPerRow(t)
    <3>1. DOMAIN b.enter = {}
      BY <1>8 DEF EmptyFn
    <3>2. /\ DOMAIN t.ledger = (DOMAIN b.enter \cup DOMAIN c.ledger) \ b.forget
          /\ \A k \in DOMAIN t.ledger : k \notin DOMAIN b.enter => t.ledger[k] = c.ledger[k]
      BY <2>1, ApplyLedger
    <3>3. DOMAIN t.ledger = DOMAIN c.ledger /\ \A k \in DOMAIN t.ledger : t.ledger[k] = c.ledger[k]
      BY <1>8, <3>1, <3>2
    <3>. QED  BY <1>2, <3>3 DEF OneEntryPerRow
  <2>. QED  BY <1>2, <2>2, <2>3, AcceptSettles
<1>. QED  BY <1>5, <1>6, <1>7, <1>8, QuestionLeaves

\* A question leaves the screen only when nothing is left to ask: both answers,
\* a roster change and a question taken back settle every position, whatever
\* happened on the trip since it was asked (acceptTripRefresh re-derives the
\* plan, declineTripRefresh writes its entries).
THEOREM RefreshAnswerSettles == Spec => AnswerSettles
<1>. DEFINE Settles ==
       \A d \in Device :
         offer[d] /\ ~offer'[d] /\ OneEntryPerRow(copy[d]) /\ OneEntryPerRow(copy[d])'
           => Asked(PlanOf(d))' = {}
<1>1. AnswerInv /\ [Next]_vars => [Settles]_vars
  BY SettleStep
<1>. QED  BY <1>1, AnswerInvHolds, PTL DEF Spec, AnswerSettles

-----------------------------------------------------------------------------
(* No twins: the invariant. *)

IsList(s) == \E S : s \in Seq(S)

\* The server's rows, and the rows that the promise is not about.
Rows(B) == [r \in {x \in DOMAIN B : IsRow(x)} |-> B[r].fields]

Marked == hand \cup lost

\* An unmarked row has the position its id was made for.
Placed(rows, h) ==
    \A r \in DOMAIN rows :
        /\ {"item", "traveler"} \subseteq DOMAIN rows[r]
        /\ \/ r \in h
           \/ \E k \in Key : r \in {RefreshId(k), WizardId(k)} /\ KeyOf(rows[r]) = k

\* What is put or edited keeps its place, unless it is marked; and only the wizard
\* ever gave a row the wizard's id: of a batch, and of one mutation.
BatchOK(b, h) ==
    /\ \A r \in DOMAIN b.put :
         /\ {"item", "traveler"} \subseteq DOMAIN b.put[r]
         /\ r \in h \/ \E k \in Key : r = RefreshId(k) /\ KeyOf(b.put[r]) = k
         /\ \A k \in Key : r # WizardId(k)
    /\ \A r \in DOMAIN b.edit : r \in h \/ {"item", "traveler"} \cap DOMAIN b.edit[r] = {}

MutationOK(m, h) ==
    /\ m.op \in {"upsert", "delete"}
    /\ m.op = "upsert" /\ IsRow(m.id) =>
         /\ m.makes =>
              /\ {"item", "traveler"} \subseteq DOMAIN m.fields
              /\ m.id \in h \/ \E k \in Key : m.id = RefreshId(k) /\ KeyOf(m.fields) = k
              /\ \A k \in Key : m.id # WizardId(k)
         /\ ~m.makes => m.id \in h \/ {"item", "traveler"} \cap DOMAIN m.fields = {}

\* The wizard's row for k is no unmarked row of the trip any more.
Gone(k, B, h) == WizardId(k) \in h \/ WizardId(k) \notin DOMAIN B

\* One of the first n batches of a queue drops it.
Drops(ms, k) == \E m \in ms : m.op = "delete" /\ m.id = WizardId(k)

DropsBy(q, k, n) == \E i \in 1 .. n : Drops(q[i], k)

Makes(ms, k) == \E m \in ms : m.op = "upsert" /\ m.makes /\ m.id = RefreshId(k)

\* A row is derived for k only where the wizard's is gone by then.
Follows(q, n, b, B, h) ==
    \A k \in Key : RefreshId(k) \in DOMAIN b.put => Gone(k, B, h) \/ DropsBy(q, k, n)

TripInv(B, h) ==
    /\ \A x \in DOMAIN B : B[x].exists = TRUE
    /\ Placed(Rows(B), h)
    /\ \A k \in Key : RefreshId(k) \in DOMAIN B => Gone(k, B, h)

BatchInv(q, i, B, h) ==
    /\ \A m \in q[i] : MutationOK(m, h)
    /\ \A k \in Key : Makes(q[i], k) => Gone(k, B, h) \/ DropsBy(q, k, i - 1)

QueueInv(q, B, h) == IsList(q) /\ \A i \in 1 .. Len(q) : BatchInv(q, i, B, h)

CopyInv(c, q, B, h) ==
    /\ Placed(c.rows, h)
    /\ \A k \in Key :
         Gone(k, B, h) \/ WizardId(k) \in DOMAIN c.rows \/ DropsBy(q, k, Len(q))

DeviceInv(c, q, B, h) == QueueInv(q, B, h) /\ CopyInv(c, q, B, h)

TwinInv ==
    /\ DOMAIN copy = Device /\ DOMAIN out = Device
    /\ TripInv(base, Marked)
    /\ \A d \in Device : DeviceInv(copy[d], out[d], base, Marked)

-----------------------------------------------------------------------------
(* No twins: batches and queues. *)

\* A row laid over by an edit of other fields stays where it is.
LEMMA EditKeepsPlace ==
  ASSUME NEW e, NEW row, {"item", "traveler"} \subseteq DOMAIN row
  PROVE  /\ {"item", "traveler"} \subseteq DOMAIN Over(e, row)
         /\ {"item", "traveler"} \cap DOMAIN e = {} => KeyOf(Over(e, row)) = KeyOf(row)
<1>1. /\ DOMAIN Over(e, row) = DOMAIN e \cup DOMAIN row
      /\ \A x \in DOMAIN row \ DOMAIN e : Over(e, row)[x] = row[x]
  BY OverAt
<1>2. {"item", "traveler"} \cap DOMAIN e = {} =>
        Over(e, row)["item"] = row["item"] /\ Over(e, row)["traveler"] = row["traveler"]
  BY <1>1
<1>. QED  BY <1>1, <1>2 DEF KeyOf

\* A batch that keeps places leaves rows in their places.
LEMMA ApplyKeepsPlaces ==
  ASSUME NEW t, NEW b, NEW h, Placed(t.rows, h), BatchOK(b, h)
  PROVE  Placed(Apply(t, b).rows, h)
<1>. SUFFICES ASSUME NEW r \in DOMAIN Apply(t, b).rows
              PROVE  /\ {"item", "traveler"} \subseteq DOMAIN Apply(t, b).rows[r]
                     /\ \/ r \in h
                        \/ \E k \in Key : /\ r \in {RefreshId(k), WizardId(k)}
                                          /\ KeyOf(Apply(t, b).rows[r]) = k
  BY DEF Placed
<1>. DEFINE row == IF r \in DOMAIN b.put THEN b.put[r] ELSE t.rows[r]
<1>1. /\ Apply(t, b).rows[r] = IF r \in DOMAIN b.edit THEN Over(b.edit[r], row) ELSE row
      /\ r \notin DOMAIN b.put => r \in DOMAIN t.rows
  BY ApplyRow
<1>2. /\ {"item", "traveler"} \subseteq DOMAIN row
      /\ r \in h \/ \E k \in Key : r \in {RefreshId(k), WizardId(k)} /\ KeyOf(row) = k
  <2>1. CASE r \in DOMAIN b.put
    BY <2>1 DEF BatchOK
  <2>2. CASE r \notin DOMAIN b.put
    BY <1>1, <2>2 DEF Placed
  <2>. QED  BY <2>1, <2>2
<1>. HIDE DEF row
<1>3. r \in DOMAIN b.edit /\ r \notin h => {"item", "traveler"} \cap DOMAIN b.edit[r] = {}
  BY DEF BatchOK
<1>4. CASE r \notin DOMAIN b.edit
  BY <1>1, <1>2, <1>4
<1>5. CASE r \in DOMAIN b.edit
  BY <1>1, <1>2, <1>3, <1>5, EditKeepsPlace
<1>. QED  BY <1>4, <1>5

\* What more rows marked leave of the invariant.
LEMMA MarksGrow ==
  ASSUME NEW h, NEW H, h \subseteq H, NEW B, NEW q
  PROVE  /\ TripInv(B, h) => TripInv(B, H)
         /\ QueueInv(q, B, h) => QueueInv(q, B, H)
         /\ \A c : CopyInv(c, q, B, h) => CopyInv(c, q, B, H)
<1>1. \A rows : Placed(rows, h) => Placed(rows, H)
  BY DEF Placed
<1>2. \A k : Gone(k, B, h) => Gone(k, B, H)
  BY DEF Gone
<1>3. \A m : MutationOK(m, h) => MutationOK(m, H)
  BY DEF MutationOK
<1>4. \A i : BatchInv(q, i, B, h) => BatchInv(q, i, B, H)
  BY <1>2, <1>3 DEF BatchInv
<1>. QED  BY <1>1, <1>2, <1>4 DEF TripInv, QueueInv, CopyInv

\* The mutations of a batch that are about rows.
LEMMA MutationsAre ==
  ASSUME NEW b, NEW n
  PROVE  /\ \A m \in Mutations(b, n) :
              /\ m.op \in {"upsert", "delete"}
              /\ IsRow(m.id) =>
                   \/ /\ m.op = "upsert" /\ m.makes = TRUE
                      /\ m.id \in DOMAIN b.put /\ m.fields = b.put[m.id]
                   \/ /\ m.op = "upsert" /\ m.makes = FALSE
                      /\ m.id \in DOMAIN b.edit /\ m.fields = b.edit[m.id]
                   \/ m.op = "delete" /\ m.id \in b.drop
         /\ \A r \in b.drop : \E m \in Mutations(b, n) : m.op = "delete" /\ m.id = r
<1>1. \A t, k : ~ IsRow(TravelerId(t)) /\ ~ IsRow(EntryId(k))
  BY DEF IsRow, TravelerId, EntryId
<1>3. ASSUME NEW m \in Mutations(b, n)
      PROVE  \/ \E t \in b.join : m = Sent(1, "upsert", TravelerId(t), EmptyFn, TRUE, n)
             \/ \E r \in DOMAIN b.put : m = Sent(2, "upsert", r, b.put[r], TRUE, n)
             \/ \E r \in DOMAIN b.edit : m = Sent(3, "upsert", r, b.edit[r], FALSE, n)
             \/ \E r \in b.drop : m = Sent(4, "delete", r, EmptyFn, FALSE, n)
             \/ \E t \in b.leave : m = Sent(5, "delete", TravelerId(t), EmptyFn, FALSE, n)
             \/ \E k \in DOMAIN b.enter : m = Sent(6, "upsert", EntryId(k), b.enter[k], TRUE, n)
             \/ \E k \in b.forget : m = Sent(7, "delete", EntryId(k), EmptyFn, FALSE, n)
  BY <1>3, Zenon DEF Mutations
<1>4. \A r \in b.drop : \E m \in Mutations(b, n) : m.op = "delete" /\ m.id = r
  <2>1. TAKE r \in b.drop
  <2>2. PICK m : m = Sent(4, "delete", r, EmptyFn, FALSE, n)
    OBVIOUS
  <2>3. m \in Mutations(b, n)
    BY <2>2, Zenon DEF Mutations
  <2>. QED  BY <2>2, <2>3 DEF Sent
<1>5. ASSUME NEW m \in Mutations(b, n)
      PROVE  /\ m.op \in {"upsert", "delete"}
             /\ IsRow(m.id) =>
                  \/ /\ m.op = "upsert" /\ m.makes = TRUE
                     /\ m.id \in DOMAIN b.put /\ m.fields = b.put[m.id]
                  \/ /\ m.op = "upsert" /\ m.makes = FALSE
                     /\ m.id \in DOMAIN b.edit /\ m.fields = b.edit[m.id]
                  \/ m.op = "delete" /\ m.id \in b.drop
  <2>1. ASSUME NEW t, \/ m = Sent(1, "upsert", TravelerId(t), EmptyFn, TRUE, n)
                      \/ m = Sent(5, "delete", TravelerId(t), EmptyFn, FALSE, n)
        PROVE  m.op \in {"upsert", "delete"} /\ ~ IsRow(m.id)
    BY <1>1, <2>1 DEF Sent
  <2>2. ASSUME NEW k, \/ m = Sent(6, "upsert", EntryId(k), b.enter[k], TRUE, n)
                      \/ m = Sent(7, "delete", EntryId(k), EmptyFn, FALSE, n)
        PROVE  m.op \in {"upsert", "delete"} /\ ~ IsRow(m.id)
    BY <1>1, <2>2 DEF Sent
  <2>3. ASSUME NEW r \in DOMAIN b.put, m = Sent(2, "upsert", r, b.put[r], TRUE, n)
        PROVE  m.op = "upsert" /\ m.makes = TRUE /\ m.id = r /\ m.fields = b.put[r]
    BY <2>3 DEF Sent
  <2>4. ASSUME NEW r \in DOMAIN b.edit, m = Sent(3, "upsert", r, b.edit[r], FALSE, n)
        PROVE  m.op = "upsert" /\ m.makes = FALSE /\ m.id = r /\ m.fields = b.edit[r]
    BY <2>4 DEF Sent
  <2>5. ASSUME NEW r \in b.drop, m = Sent(4, "delete", r, EmptyFn, FALSE, n)
        PROVE  m.op = "delete" /\ m.id = r
    BY <2>5 DEF Sent
  <2>. QED  BY <1>3, <2>1, <2>2, <2>3, <2>4, <2>5
<1>. QED  BY <1>4, <1>5

LEMMA MutationsKeep ==
  ASSUME NEW b, NEW n, NEW h, BatchOK(b, h)
  PROVE  /\ \A m \in Mutations(b, n) : MutationOK(m, h)
         /\ \A k : Makes(Mutations(b, n), k) => RefreshId(k) \in DOMAIN b.put
<1>1. \A m \in Mutations(b, n) :
        /\ m.op \in {"upsert", "delete"}
        /\ IsRow(m.id) =>
             \/ /\ m.op = "upsert" /\ m.makes = TRUE
                /\ m.id \in DOMAIN b.put /\ m.fields = b.put[m.id]
             \/ /\ m.op = "upsert" /\ m.makes = FALSE
                /\ m.id \in DOMAIN b.edit /\ m.fields = b.edit[m.id]
             \/ m.op = "delete" /\ m.id \in b.drop
  BY MutationsAre
<1>2. \A m \in Mutations(b, n) : MutationOK(m, h)
  BY <1>1 DEF MutationOK, BatchOK
<1>3. \A k : IsRow(RefreshId(k))
  BY DEF IsRow, RefreshId
<1>. QED  BY <1>1, <1>2, <1>3 DEF Makes

\* A batch that says something is queued last.
LEMMA QueuedIs ==
  ASSUME NEW q, IsList(q), NEW b, NEW n
  PROVE  /\ IsList(Queued(q, b, n)) /\ Len(Queued(q, b, n)) \in Nat /\ Len(q) \in Nat
         /\ Mutations(b, n) = {} => Queued(q, b, n) = q
         /\ Mutations(b, n) # {} => /\ Len(Queued(q, b, n)) = Len(q) + 1
                                    /\ Queued(q, b, n)[Len(q) + 1] = Mutations(b, n)
         /\ Len(q) <= Len(Queued(q, b, n))
         /\ \A i \in 1 .. Len(q) : Queued(q, b, n)[i] = q[i]
<1>1. PICK S : q \in Seq(S)
  BY DEF IsList
<1>2. PICK w : w = Mutations(b, n)
  OBVIOUS
<1>3. CASE w = {}
  BY <1>1, <1>2, <1>3 DEF Queued, IsList
<1>4. CASE w # {}
  <2>1. Queued(q, b, n) = Append(q, w)
    BY <1>2, <1>4 DEF Queued
  <2>2. q \in Seq(S \cup {w}) /\ w \in S \cup {w}
    BY <1>1
  <2>3. /\ Append(q, w) \in Seq(S \cup {w}) /\ Len(q) \in Nat
        /\ Len(Append(q, w)) = Len(q) + 1 /\ Append(q, w)[Len(q) + 1] = w
        /\ \A i \in 1 .. Len(q) : Append(q, w)[i] = q[i]
    BY <2>2
  <2>. QED  BY <1>2, <1>4, <2>1, <2>3 DEF IsList
<1>. QED  BY <1>3, <1>4

\* A device that holds an unmarked wizard's row for k finds it at k.
LEMMA WizardAtHome ==
  ASSUME NEW c, NEW h, Placed(c.rows, h), NEW k \in Key,
         WizardId(k) \in DOMAIN c.rows, WizardId(k) \notin h
  PROVE  WizardId(k) \in RowsAt(c, k)
<1>1. PICK l \in Key : /\ WizardId(k) \in {RefreshId(l), WizardId(l)}
                       /\ KeyOf(c.rows[WizardId(k)]) = l
  BY DEF Placed
<1>2. l = k
  BY <1>1, IdsDiffer
<1>. QED  BY <1>1, <1>2 DEF RowsAt

\* A plan derives a row only where the device holds no wizard's row, and lays
\* over the others nothing that says where they are.
LEMMA PlanFollows ==
  ASSUME NEW c, NEW q, NEW B, NEW h, CopyInv(c, q, B, h), NEW d, NEW m
  PROVE  LET b == PlanRefresh(d, m, c).batch
         IN  BatchOK(b, h) /\ Follows(q, Len(q), b, B, h)
<1>1. PICK plan : plan = PlanRefresh(d, m, c)
  OBVIOUS
<1>2. PICK b, gen : b = plan.batch /\ gen = Generated(m, c.roster)
  OBVIOUS
<1>3. /\ plan.adopt = {k \in DOMAIN gen \ DOMAIN c.ledger : RowsAt(c, k) # {}}
      /\ plan.add = (DOMAIN gen \ DOMAIN c.ledger) \ plan.adopt
      /\ DOMAIN b.put = {RefreshId(k) : k \in plan.add}
      /\ \A k \in plan.add : b.put[RefreshId(k)] = NewRow(k, gen[k])
      /\ \A r \in DOMAIN b.edit : DOMAIN b.edit[r] \subseteq Propagated
  BY <1>1, <1>2, PlanParts
<1>4. DOMAIN gen \subseteq Key
  BY <1>2 DEF Generated
<1>5. \A k \in plan.add : k \in Key /\ RowsAt(c, k) = {}
  BY <1>3, <1>4
<1>6. ASSUME NEW k \in Key, NEW n
      PROVE  /\ {"item", "traveler"} \subseteq DOMAIN NewRow(k, n)
             /\ KeyOf(NewRow(k, n)) = k
  BY DEF NewRow, KeyOf, Key
<1>7. BatchOK(b, h)
  <2>1. ASSUME NEW r \in DOMAIN b.put
        PROVE  /\ {"item", "traveler"} \subseteq DOMAIN b.put[r]
               /\ \E k \in Key : r = RefreshId(k) /\ KeyOf(b.put[r]) = k
               /\ \A k \in Key : r # WizardId(k)
    <3>1. PICK k \in plan.add : r = RefreshId(k)
      BY <1>3
    <3>2. k \in Key /\ b.put[r] = NewRow(k, gen[k])
      BY <1>3, <1>5, <3>1
    <3>. QED  BY <1>6, <3>1, <3>2, IdsDiffer
  <2>2. \A r \in DOMAIN b.edit : {"item", "traveler"} \cap DOMAIN b.edit[r] = {}
    BY <1>3 DEF Propagated
  <2>. QED  BY <2>1, <2>2 DEF BatchOK
<1>8. ASSUME NEW k \in Key, RefreshId(k) \in DOMAIN b.put
      PROVE  Gone(k, B, h) \/ DropsBy(q, k, Len(q))
  <2>1. RowsAt(c, k) = {}
    BY <1>3, <1>5, <1>8, IdsDiffer
  <2>2. WizardId(k) \in DOMAIN c.rows => WizardId(k) \in h
    BY <2>1, WizardAtHome DEF CopyInv
  <2>. QED  BY <2>2 DEF CopyInv, Gone
<1>. QED  BY <1>1, <1>2, <1>7, <1>8 DEF Follows

\* A device that paints and queues such a batch keeps the invariant.
LEMMA QueueKeeps ==
  ASSUME NEW c, NEW q, NEW B, NEW h, DeviceInv(c, q, B, h),
         NEW b, NEW n, BatchOK(b, h), Follows(q, Len(q), b, B, h)
  PROVE  DeviceInv(Apply(c, b), Queued(q, b, n), B, h)
<1>1. PICK Q, w : Q = Queued(q, b, n) /\ w = Mutations(b, n)
  OBVIOUS
<1>2. /\ IsList(Q) /\ Len(Q) \in Nat /\ Len(q) \in Nat /\ Len(q) <= Len(Q)
      /\ w = {} => Q = q
      /\ w # {} => Len(Q) = Len(q) + 1 /\ Q[Len(q) + 1] = w
      /\ \A i \in 1 .. Len(q) : Q[i] = q[i]
  BY <1>1, QueuedIs DEF DeviceInv, QueueInv
<1>3. \A k : \A N \in 0 .. Len(q) : DropsBy(q, k, N) => DropsBy(Q, k, N)
  BY <1>2 DEF DropsBy
<1>4. \A k : DropsBy(q, k, Len(q)) => DropsBy(Q, k, Len(Q))
  BY <1>2 DEF DropsBy
<1>5. QueueInv(Q, B, h)
  <2>1. ASSUME NEW i \in 1 .. Len(q) PROVE BatchInv(Q, i, B, h)
    <3>1. BatchInv(q, i, B, h) /\ Q[i] = q[i] /\ i - 1 \in 0 .. Len(q)
      BY <1>2 DEF DeviceInv, QueueInv
    <3>. QED  BY <1>3, <3>1 DEF BatchInv
  <2>2. ASSUME w # {} PROVE BatchInv(Q, Len(q) + 1, B, h)
    <3>1. \A m \in w : MutationOK(m, h)
      BY <1>1, MutationsKeep
    <3>2. ASSUME NEW k \in Key, Makes(w, k) PROVE Gone(k, B, h) \/ DropsBy(Q, k, Len(q))
      <4>1. RefreshId(k) \in DOMAIN b.put
        BY <1>1, <3>2, MutationsKeep
      <4>2. Len(q) \in 0 .. Len(q)
        BY <1>2
      <4>. QED  BY <1>3, <4>1, <4>2 DEF Follows
    <3>3. (Len(q) + 1) - 1 = Len(q)
      BY <1>2
    <3>. QED  BY <1>2, <2>2, <3>1, <3>2, <3>3 DEF BatchInv
  <2>3. \A i \in 1 .. Len(Q) : i \in 1 .. Len(q) \/ (w # {} /\ i = Len(q) + 1)
    <3>1. CASE w = {}
      BY <1>2, <3>1
    <3>2. CASE w # {}
      BY <1>2, <3>2
    <3>. QED  BY <3>1, <3>2
  <2>. QED  BY <1>2, <2>1, <2>2, <2>3 DEF QueueInv
<1>6. CopyInv(Apply(c, b), Q, B, h)
  <2>1. Placed(Apply(c, b).rows, h)
    BY ApplyKeepsPlaces DEF DeviceInv, CopyInv
  <2>2. ASSUME NEW k \in Key, WizardId(k) \in DOMAIN c.rows
        PROVE  WizardId(k) \in DOMAIN Apply(c, b).rows \/ DropsBy(Q, k, Len(Q))
    <3>1. CASE WizardId(k) \notin b.drop
      BY <2>2, <3>1, ApplyRow
    <3>2. CASE WizardId(k) \in b.drop
      <4>1. Drops(w, k)
        <5>1. \A r \in b.drop : \E m \in Mutations(b, n) : m.op = "delete" /\ m.id = r
          BY MutationsAre
        <5>. QED  BY <1>1, <3>2, <5>1 DEF Drops
      <4>2. w # {} /\ Len(q) + 1 \in 1 .. Len(Q)
        BY <1>2, <4>1 DEF Drops
      <4>. QED  BY <1>2, <4>1, <4>2 DEF DropsBy
    <3>. QED  BY <3>1, <3>2
  <2>. QED  BY <1>4, <2>1, <2>2 DEF DeviceInv, CopyInv
<1>. QED  BY <1>1, <1>5, <1>6 DEF DeviceInv

-----------------------------------------------------------------------------
(* No twins: the steps. *)

\* A write that keeps places and follows the drops keeps the invariant.
LEMMA PaintKeeps ==
  ASSUME TwinInv, NEW d \in Device, NEW b, NEW n, Marked \subseteq Marked', BatchOK(b, Marked'),
         Follows(out[d], Len(out[d]), b, base, Marked'),
         copy' = [copy EXCEPT ![d] = Apply(copy[d], b)],
         out' = [out EXCEPT ![d] = Queued(out[d], b, n)], base' = base
  PROVE  TwinInv'
<1>1. PICK h, H : h = Marked /\ H = Marked'
  OBVIOUS
<1>2. PICK c, q, B : c = copy[d] /\ q = out[d] /\ B = base
  OBVIOUS
<1>3. /\ TripInv(B, H)
      /\ \A x \in Device : DeviceInv(copy[x], out[x], B, H)
  BY <1>1, <1>2, MarksGrow DEF TwinInv, DeviceInv
<1>4. DeviceInv(Apply(c, b), Queued(q, b, n), B, H)
  BY <1>1, <1>2, <1>3, QueueKeeps
<1>5. /\ DOMAIN copy' = Device /\ DOMAIN out' = Device
      /\ copy'[d] = Apply(c, b) /\ out'[d] = Queued(q, b, n)
      /\ \A x \in Device \ {d} : copy'[x] = copy[x] /\ out'[x] = out[x]
  BY <1>2 DEF TwinInv
<1>6. \A x \in Device : DeviceInv(copy'[x], out'[x], base', Marked')
  <2>1. TAKE x \in Device
  <2>2. CASE x = d
    BY <1>1, <1>2, <1>4, <1>5, <2>2
  <2>3. CASE x # d
    BY <1>1, <1>2, <1>3, <1>5, <2>3
  <2>. QED  BY <2>2, <2>3
<1>7. TripInv(base', Marked')
  BY <1>1, <1>2, <1>3
<1>. QED  BY <1>5, <1>6, <1>7 DEF TwinInv

\* A batch that puts no rows and edits none but a marked one.
LEMMA NoPuts ==
  ASSUME NEW b, NEW h, DOMAIN b.put = {},
         \A r \in DOMAIN b.edit : r \in h \/ {"item", "traveler"} \cap DOMAIN b.edit[r] = {},
         NEW q, NEW n, NEW B
  PROVE  BatchOK(b, h) /\ Follows(q, n, b, B, h)
  BY DEF BatchOK, Follows

\* The answers, and the plan written unasked.
LEMMA AnswersKeep ==
  ASSUME TwinInv, NEW d \in Device, NEW m, Marked' = Marked, base' = base,
         \/ UNCHANGED <<copy, out>>
         \/ \E b \in {PlanRefresh(d, m, copy[d]).batch, DeclinePlan(PlanRefresh(d, m, copy[d]))} :
              Write(d, b, m)
  PROVE  TwinInv'
<1>1. CASE UNCHANGED <<copy, out>>
  BY <1>1 DEF TwinInv
<1>2. ASSUME NEW b, Write(d, b, m)
      PROVE  /\ copy' = [copy EXCEPT ![d] = Apply(copy[d], b)]
             /\ out' = [out EXCEPT ![d] = Queued(out[d], b, now')]
  BY <1>2 DEF Write
<1>3. CASE Write(d, PlanRefresh(d, m, copy[d]).batch, m)
  <2>1. PICK b : b = PlanRefresh(d, m, copy[d]).batch
    OBVIOUS
  <2>2. PICK c, q, B, h : c = copy[d] /\ q = out[d] /\ B = base /\ h = Marked
    OBVIOUS
  <2>3. CopyInv(c, q, B, h)
    BY <2>2 DEF TwinInv, DeviceInv
  <2>4. BatchOK(b, h) /\ Follows(q, Len(q), b, B, h)
    BY <2>1, <2>2, <2>3, PlanFollows
  <2>5. Write(d, b, m)
    BY <1>3, <2>1
  <2>. QED  BY <1>2, <2>2, <2>4, <2>5, PaintKeeps
<1>4. CASE Write(d, DeclinePlan(PlanRefresh(d, m, copy[d])), m)
  <2>1. PICK plan : plan = PlanRefresh(d, m, copy[d])
    OBVIOUS
  <2>2. PICK b : b = DeclinePlan(plan)
    OBVIOUS
  <2>3. DOMAIN b.put = {} /\ DOMAIN b.edit = {}
    BY <2>2, DeclineParts
  <2>4. BatchOK(b, Marked') /\ Follows(out[d], Len(out[d]), b, base, Marked')
    <3>1. PICK q, B, h : q = out[d] /\ B = base /\ h = Marked'
      OBVIOUS
    <3>. QED  BY <2>3, <3>1, NoPuts
  <2>5. Write(d, b, m)
    BY <1>4, <2>1, <2>2
  <2>. QED  BY <1>2, <2>4, <2>5, PaintKeeps
<1>. QED  BY <1>1, <1>3, <1>4

\* A roster change: its own batch, and the yes that goes with it.
LEMMA RosterKeeps ==
  ASSUME TwinInv, NEW d \in Device, NEW b, NEW touched, ChangeRoster(d, b, touched),
         DOMAIN b.put = {}, DOMAIN b.edit \subseteq touched
  PROVE  TwinInv'
<1>1. PICK h, H : h = Marked /\ H = Marked'
  OBVIOUS
<1>2. PICK q, B, c : q = out[d] /\ B = base /\ c = copy[d]
  OBVIOUS
<1>3. h \subseteq H /\ touched \subseteq H /\ base' = base
  BY <1>1 DEF ChangeRoster, Marked, server
<1>4. /\ TripInv(B, H)
      /\ \A x \in Device : DeviceInv(copy[x], out[x], B, H)
  BY <1>1, <1>2, <1>3, MarksGrow DEF TwinInv, DeviceInv
<1>5. PICK c1, q1 : c1 = Apply(c, b) /\ q1 = Queued(q, b, now + 1)
  OBVIOUS
<1>6. DeviceInv(c1, q1, B, H)
  <2>1. BatchOK(b, H) /\ Follows(q, Len(q), b, B, H)
    BY <1>3, NoPuts
  <2>2. DeviceInv(c, q, B, H)
    BY <1>2, <1>4
  <2>. QED  BY <1>5, <2>1, <2>2, QueueKeeps
<1>7. PICK b2 : b2 = PlanRefresh(d, seen[d], c1).batch
  OBVIOUS
<1>8. PICK c2, q2 : c2 = Apply(c1, b2) /\ q2 = Queued(q1, b2, now + 2)
  OBVIOUS
<1>9. DeviceInv(c2, q2, B, H)
  <2>1. CopyInv(c1, q1, B, H)
    BY <1>6 DEF DeviceInv
  <2>2. BatchOK(b2, H) /\ Follows(q1, Len(q1), b2, B, H)
    BY <1>7, <2>1, PlanFollows
  <2>. QED  BY <1>6, <1>8, <2>2, QueueKeeps
<1>10. copy' = [copy EXCEPT ![d] = c2] /\ out' = [out EXCEPT ![d] = q2]
  BY <1>2, <1>5, <1>7, <1>8 DEF ChangeRoster
<1>11. /\ DOMAIN copy' = Device /\ DOMAIN out' = Device
       /\ \A x \in Device : /\ copy'[x] = IF x = d THEN c2 ELSE copy[x]
                            /\ out'[x] = IF x = d THEN q2 ELSE out[x]
  BY <1>10 DEF TwinInv
<1>12. \A x \in Device : DeviceInv(copy'[x], out'[x], base', Marked')
  <2>1. TAKE x \in Device
  <2>2. CASE x = d
    BY <1>1, <1>2, <1>3, <1>9, <1>11, <2>2
  <2>3. CASE x # d
    BY <1>1, <1>2, <1>3, <1>4, <1>11, <2>3
  <2>. QED  BY <2>2, <2>3
<1>13. TripInv(base', Marked')
  BY <1>1, <1>2, <1>3, <1>4
<1>. QED  BY <1>11, <1>12, <1>13 DEF TwinInv

LEMMA TravelersKeep ==
  ASSUME TwinInv, NEW d \in Device, NEW t,
         AddTraveler(d, t) \/ \E packed \in BOOLEAN : RemoveTraveler(d, t, packed)
  PROVE  TwinInv'
<1>1. CASE AddTraveler(d, t)
  <2>1. PICK b : b = [Nothing EXCEPT !.join = {t}]
    OBVIOUS
  <2>2. DOMAIN b.put = {} /\ DOMAIN b.edit = {}
    BY <2>1 DEF Nothing, EmptyFn
  <2>3. ChangeRoster(d, b, {})
    BY <1>1, <2>1 DEF AddTraveler
  <2>. QED  BY <2>2, <2>3, RosterKeeps
<1>2. ASSUME NEW packed \in BOOLEAN, RemoveTraveler(d, t, packed)
      PROVE  TwinInv'
  <2>. DEFINE theirs == {r \in DOMAIN copy[d].rows : copy[d].rows[r].traveler = t}
              taken  == {r \in theirs : packed /\ copy[d].rows[r].packed_count > 0}
              edit   == [r \in theirs \ taken |-> Only("traveler", NoOne)]
  <2>1. PICK b : b = [[[Nothing EXCEPT !.drop  = taken]
                                EXCEPT !.edit  = edit]
                                EXCEPT !.leave = {t}]
    OBVIOUS
  <2>2. ChangeRoster(d, b, theirs)
    BY <1>2, <2>1 DEF RemoveTraveler
  <2>3. DOMAIN edit \subseteq theirs
    OBVIOUS
  <2>. HIDE DEF theirs, taken, edit
  <2>4. DOMAIN b.put = {} /\ DOMAIN b.edit \subseteq theirs
    BY <2>1, <2>3 DEF Nothing, EmptyFn
  <2>. QED  BY <2>2, <2>4, RosterKeeps
<1>. QED  BY <1>1, <1>2

\* A hand's write: what it puts or edits is a hand's from now on.
LEMMA HandKeeps ==
  ASSUME TwinInv, NEW d \in Device, NEW b, NEW r, HandWrites(d, b, r),
         DOMAIN b.put \subseteq {r}, DOMAIN b.edit \subseteq {r},
         \A x \in DOMAIN b.put : x = HandId /\ {"item", "traveler"} \subseteq DOMAIN b.put[x]
  PROVE  TwinInv'
<1>1. /\ copy' = [copy EXCEPT ![d] = Apply(copy[d], b)]
      /\ out' = [out EXCEPT ![d] = Queued(out[d], b, now')]
      /\ hand' = hand \cup {r} /\ lost' = lost /\ base' = base
  BY DEF HandWrites, server
<1>2. Marked \subseteq Marked' /\ r \in Marked'
  BY <1>1 DEF Marked
<1>3. PICK q, B, H : q = out[d] /\ B = base /\ H = Marked'
  OBVIOUS
<1>4. \A x \in DOMAIN b.put : \A k : x # RefreshId(k) /\ x # WizardId(k)
  BY IdsDiffer
<1>5. BatchOK(b, H) /\ Follows(q, Len(q), b, B, H)
  BY <1>2, <1>3, <1>4 DEF BatchOK, Follows
<1>. QED  BY <1>1, <1>2, <1>3, <1>5, PaintKeeps

LEMMA HandActKeeps ==
  ASSUME TwinInv, NEW d \in Device, HandAct(d)
  PROVE  TwinInv'
<1>1. ASSUME NEW r, NEW fields, EditRow(d, r, fields)
      PROVE  TwinInv'
  <2>1. PICK e : e = Only(r, fields)
    OBVIOUS
  <2>2. PICK b : b = [Nothing EXCEPT !.edit = e]
    OBVIOUS
  <2>3. DOMAIN e = {r}
    BY <2>1 DEF Only
  <2>4. DOMAIN b.put = {} /\ DOMAIN b.edit = {r}
    BY <2>2, <2>3 DEF Nothing, EmptyFn
  <2>5. HandWrites(d, b, r)
    BY <1>1, <2>1, <2>2 DEF EditRow
  <2>. QED  BY <2>4, <2>5, HandKeeps
<1>2. ASSUME NEW r, DeleteTripItem(d, r)
      PROVE  TwinInv'
  <2>1. PICK b : b = [Nothing EXCEPT !.drop = {r}]
    OBVIOUS
  <2>2. DOMAIN b.put = {} /\ DOMAIN b.edit = {}
    BY <2>1 DEF Nothing, EmptyFn
  <2>3. HandWrites(d, b, r)
    BY <1>2, <2>1 DEF DeleteTripItem
  <2>. QED  BY <2>2, <2>3, HandKeeps
<1>3. ASSUME NEW i \in Item, AddTripItem(d, i)
      PROVE  TwinInv'
  <2>1. PICK one : one = [quantity |-> 1, weight |-> seen[d][i]]
    OBVIOUS
  <2>2. PICK row, r : row = NewRow(<<i, NoOne>>, one) /\ r = HandId
    OBVIOUS
  <2>3. PICK p : p = Only(r, row)
    OBVIOUS
  <2>4. PICK b : b = [Nothing EXCEPT !.put = p]
    OBVIOUS
  <2>5. DOMAIN p = {r} /\ p[r] = row
    BY <2>3 DEF Only
  <2>6. {"item", "traveler"} \subseteq DOMAIN row
    BY <2>2 DEF NewRow
  <2>7. b.put = p /\ DOMAIN b.edit = {}
    BY <2>4 DEF Nothing, EmptyFn
  <2>8. HandWrites(d, b, r)
    BY <1>3, <2>1, <2>2, <2>3, <2>4 DEF AddTripItem
  <2>. QED  BY <2>2, <2>5, <2>6, <2>7, <2>8, HandKeeps
<1>. QED  BY <1>1, <1>2, <1>3
       DEF HandAct, TogglePacked, ToggleSkipped, SetQuantity, AssignTraveler

-----------------------------------------------------------------------------
(* No twins: the server. *)

\* What a mutation makes of the server's rows: nothing, one less, or one written.
LEMMA TakeIs ==
  ASSUME NEW m, Take(m), m.op \in {"upsert", "delete"}, \A x \in DOMAIN base : base[x].exists = TRUE
  PROVE  \/ base' = base
         \/ m.op = "delete" /\ base' = Without(base, {m.id})
         \/ /\ m.op = "upsert" /\ (m.id \in DOMAIN base \/ m.makes)
            /\ base' = Over(Only(m.id, Written(Row(m.id), m)), base)
<1>1. CASE m.op = "delete"
  BY <1>1 DEF Take, TakeDelete, server
<1>2. CASE m.op # "delete"
  <2>1. TakeUpsert(m) /\ m.op = "upsert"
    BY <1>2 DEF Take
  <2>2. Row(m.id).exists => m.id \in DOMAIN base
    BY DEF Row
  <2>3. PICK row, new, bad : row = Row(m.id) /\ new = Written(row, m) /\ bad = (IsRow(m.id) /\ ~Holds(new.fields))
    OBVIOUS
  <2>4. IF row.exists
        THEN base' = IF Applied(row, m) = {} \/ bad THEN base ELSE Over(Only(m.id, new), base)
        ELSE IF ~m.makes \/ m.hlc <= Tombstone(m.id) THEN base' = base
        ELSE IF bad THEN base' = base
        ELSE base' = Over(Only(m.id, new), base)
    BY <2>1, <2>3 DEF TakeUpsert, server
  <2>. QED  BY <2>1, <2>2, <2>3, <2>4
<1>. QED  BY <1>1, <1>2

\* A removal of the wizard's row removes it, or has lost to a newer write of it.
LEMMA TakeDrops ==
  ASSUME NEW m, Take(m), m.op = "delete", NEW k, m.id = WizardId(k),
         \A x \in DOMAIN base : base[x].exists = TRUE
  PROVE  WizardId(k) \in lost' \/ WizardId(k) \notin DOMAIN base'
<1>1. TakeDelete(m)
  BY DEF Take
<1>2. ~StillNamed(m.id)
  BY DEF StillNamed, TravelerId, WizardId
<1>3. CASE m.id \notin DOMAIN base
  <2>1. Row(m.id).exists = FALSE
    BY <1>3 DEF Row
  <2>. QED  BY <1>1, <1>3, <2>1 DEF TakeDelete, server
<1>4. CASE m.id \in DOMAIN base
  <2>1. Row(m.id).exists = TRUE
    BY <1>4 DEF Row
  <2>2. CASE Deleted(Row(m.id), m)
    <3>1. base' = Without(base, {m.id})
      BY <1>1, <1>2, <2>1, <2>2 DEF TakeDelete
    <3>. QED  BY <3>1 DEF Without, Restrict
  <2>3. CASE ~Deleted(Row(m.id), m)
    BY <1>1, <2>1, <2>3 DEF TakeDelete
  <2>. QED  BY <2>2, <2>3
<1>. QED  BY <1>3, <1>4

\* A row written keeps its place, unless it is marked.
LEMMA WrittenKeeps ==
  ASSUME NEW B, NEW h, TripInv(B, h), NEW m, MutationOK(m, h), m.op = "upsert", IsRow(m.id),
         m.id \in DOMAIN B \/ m.makes, NEW row,
         row = IF m.id \in DOMAIN B THEN B[m.id]
               ELSE [exists |-> FALSE, fields |-> EmptyFn, hlc |-> 0, clocks |-> EmptyFn],
         NEW F, F = Written(row, m).fields
  PROVE  /\ {"item", "traveler"} \subseteq DOMAIN F
         /\ m.id \in h \/ \E k \in Key : m.id \in {RefreshId(k), WizardId(k)} /\ KeyOf(F) = k
<1>1. CASE m.id \notin DOMAIN B
  <2>1. row.exists = FALSE /\ m.makes
    BY <1>1
  <2>2. F = m.fields
    BY <2>1 DEF Written
  <2>. QED  BY <2>1, <2>2 DEF MutationOK
<1>2. CASE m.id \in DOMAIN B
  <2>1. row = B[m.id] /\ row.exists = TRUE
    BY <1>2 DEF TripInv
  <2>2. F = MergedFields(row, m)
    BY <2>1 DEF Written
  <2>3. PICK f : f = row.fields
    OBVIOUS
  <2>4. /\ {"item", "traveler"} \subseteq DOMAIN f
        /\ m.id \in h \/ \E k \in Key : m.id \in {RefreshId(k), WizardId(k)} /\ KeyOf(f) = k
    <3>1. m.id \in DOMAIN Rows(B) /\ Rows(B)[m.id] = f
      BY <1>2, <2>1, <2>3 DEF Rows
    <3>. QED  BY <3>1 DEF TripInv, Placed
  <2>5. PICK A : A = Applied(row, m)
    OBVIOUS
  <2>6. A \subseteq DOMAIN m.fields
    BY <2>5 DEF Applied
  <2>7. /\ DOMAIN F = DOMAIN f
        /\ \A x \in DOMAIN f : F[x] = IF x \in A THEN m.fields[x] ELSE f[x]
    <3>1. F = [x \in DOMAIN row.fields |->
                 IF x \in Applied(row, m) THEN m.fields[x] ELSE row.fields[x]]
      BY <2>2, Zenon DEF MergedFields
    <3>2. F = [x \in DOMAIN f |-> IF x \in A THEN m.fields[x] ELSE f[x]]
      BY <2>3, <2>5, <3>1
    <3>. QED  BY <3>2
  <2>8. ASSUME m.id \notin h
        PROVE  \E k \in Key : m.id \in {RefreshId(k), WizardId(k)} /\ KeyOf(F) = k
    <3>1. PICK k \in Key : m.id \in {RefreshId(k), WizardId(k)} /\ KeyOf(f) = k
      BY <2>4, <2>8
    <3>2. F["item"] = IF "item" \in A THEN m.fields["item"] ELSE f["item"]
      BY <2>4, <2>7
    <3>3. F["traveler"] = IF "traveler" \in A THEN m.fields["traveler"] ELSE f["traveler"]
      BY <2>4, <2>7
    <3>4. CASE m.makes
      <4>1. PICK l \in Key : m.id = RefreshId(l) /\ KeyOf(m.fields) = l
        BY <2>8, <3>4 DEF MutationOK
      <4>2. l = k
        BY <3>1, <4>1, IdsDiffer
      <4>3. m.fields["item"] = f["item"] /\ m.fields["traveler"] = f["traveler"]
        BY <3>1, <4>1, <4>2 DEF KeyOf
      <4>. QED  BY <3>1, <3>2, <3>3, <4>3 DEF KeyOf
    <3>5. CASE ~m.makes
      <4>1. "item" \notin A /\ "traveler" \notin A
        BY <2>6, <2>8, <3>5 DEF MutationOK
      <4>. QED  BY <3>1, <3>2, <3>3, <4>1 DEF KeyOf
    <3>. QED  BY <3>4, <3>5
  <2>. QED  BY <2>4, <2>7, <2>8
<1>. QED  BY <1>1, <1>2

\* The server keeps its part of the invariant, for a mutation that follows.
LEMMA TakeKeeps ==
  ASSUME TripInv(base, Marked), NEW m, MutationOK(m, Marked), Take(m), hand' = hand,
         \A k \in Key : m.op = "upsert" /\ m.makes /\ m.id = RefreshId(k) => Gone(k, base, Marked)
  PROVE  /\ Marked \subseteq Marked'
         /\ TripInv(base', Marked')
         /\ \A k \in Key : Gone(k, base, Marked) => Gone(k, base', Marked')
         /\ \A k \in Key : m.op = "delete" /\ m.id = WizardId(k) => Gone(k, base', Marked')
<1>1. PICK h, H : h = Marked /\ H = Marked'
  OBVIOUS
<1>2. PICK B, C : B = base /\ C = base'
  OBVIOUS
<1>3. h \subseteq H
  <2>1. lost \subseteq lost'
    BY DEF Take, TakeDelete, TakeUpsert
  <2>. QED  BY <1>1, <2>1 DEF Marked
<1>4. \A x \in DOMAIN B : B[x].exists = TRUE
  BY <1>2 DEF TripInv
<1>5. PICK row : row = IF m.id \in DOMAIN B THEN B[m.id]
                       ELSE [exists |-> FALSE, fields |-> EmptyFn, hlc |-> 0, clocks |-> EmptyFn]
  OBVIOUS
<1>6. \/ C = B
      \/ m.op = "delete" /\ C = Without(B, {m.id})
      \/ /\ m.op = "upsert" /\ (m.id \in DOMAIN B \/ m.makes)
         /\ C = Over(Only(m.id, Written(row, m)), B)
  <2>1. Row(m.id) = row
    BY <1>2, <1>5 DEF Row
  <2>. QED  BY <1>2, <1>4, <2>1, TakeIs DEF MutationOK
<1>7. TripInv(B, H)
  BY <1>1, <1>2, <1>3, MarksGrow
<1>8. MutationOK(m, H)
  BY <1>1, <1>3 DEF MutationOK
<1>9. \A k \in Key : Gone(k, B, h) => Gone(k, B, H)
  BY <1>3 DEF Gone
<1>10. TripInv(C, H) /\ \A k \in Key : Gone(k, B, H) => Gone(k, C, H)
  <2>1. CASE C = B
    BY <1>7, <2>1
  <2>2. CASE C = Without(B, {m.id})
    <3>1. DOMAIN C = DOMAIN B \ {m.id} /\ \A x \in DOMAIN C : C[x] = B[x]
      BY <2>2 DEF Without, Restrict
    <3>2. DOMAIN Rows(C) \subseteq DOMAIN Rows(B) /\ \A x \in DOMAIN Rows(C) : Rows(C)[x] = Rows(B)[x]
      BY <3>1 DEF Rows
    <3>. QED  BY <1>7, <3>1, <3>2 DEF TripInv, Placed, Gone
  <2>3. CASE /\ m.op = "upsert" /\ (m.id \in DOMAIN B \/ m.makes)
             /\ C = Over(Only(m.id, Written(row, m)), B)
    <3>1. PICK o, W : W = Written(row, m) /\ o = Only(m.id, W)
      OBVIOUS
    <3>2. DOMAIN o = {m.id} /\ o[m.id] = W
      BY <3>1 DEF Only
    <3>3. /\ DOMAIN C = DOMAIN o \cup DOMAIN B
          /\ \A x \in DOMAIN o : C[x] = o[x]
          /\ \A x \in DOMAIN B \ DOMAIN o : C[x] = B[x]
      <4>1. /\ DOMAIN Over(o, B) = DOMAIN o \cup DOMAIN B
            /\ \A x \in DOMAIN o : Over(o, B)[x] = o[x]
            /\ \A x \in DOMAIN B \ DOMAIN o : Over(o, B)[x] = B[x]
        BY OverAt
      <4>. QED  BY <2>3, <3>1, <4>1
    <3>4. DOMAIN C = DOMAIN B \cup {m.id} /\ C[m.id] = W /\ \A x \in DOMAIN B \ {m.id} : C[x] = B[x]
      BY <3>2, <3>3
    <3>5. W.exists = TRUE
      BY <3>1 DEF Written
    <3>6. Placed(Rows(C), H)
      <4>. SUFFICES ASSUME NEW r \in DOMAIN Rows(C)
                    PROVE  /\ {"item", "traveler"} \subseteq DOMAIN Rows(C)[r]
                           /\ \/ r \in H
                              \/ \E k \in Key : /\ r \in {RefreshId(k), WizardId(k)}
                                                /\ KeyOf(Rows(C)[r]) = k
        BY DEF Placed
      <4>1. r \in DOMAIN C /\ IsRow(r) /\ Rows(C)[r] = C[r].fields
        BY DEF Rows
      <4>2. CASE r = m.id
        <5>1. PICK F : F = W.fields
          OBVIOUS
        <5>2. /\ {"item", "traveler"} \subseteq DOMAIN F
              /\ m.id \in H \/ \E k \in Key : m.id \in {RefreshId(k), WizardId(k)} /\ KeyOf(F) = k
          BY <1>5, <1>7, <1>8, <2>3, <3>1, <4>1, <4>2, <5>1, WrittenKeeps
        <5>. QED  BY <3>4, <4>1, <4>2, <5>1, <5>2
      <4>3. CASE r # m.id
        <5>1. r \in DOMAIN Rows(B) /\ Rows(B)[r] = Rows(C)[r]
          BY <3>4, <4>1, <4>3 DEF Rows
        <5>. QED  BY <1>7, <5>1 DEF TripInv, Placed
      <4>. QED  BY <4>2, <4>3
    <3>7. ASSUME NEW k \in Key, Gone(k, B, H) PROVE Gone(k, C, H)
      <4>1. CASE WizardId(k) = m.id /\ m.id \notin DOMAIN B
        <5>1. IsRow(m.id) /\ m.makes
          BY <2>3, <4>1 DEF IsRow, WizardId
        <5>. QED  BY <1>8, <2>3, <4>1, <5>1 DEF MutationOK
      <4>. QED  BY <3>4, <3>7, <4>1 DEF Gone
    <3>8. ASSUME NEW k \in Key, RefreshId(k) \in DOMAIN C PROVE Gone(k, C, H)
      <4>1. CASE RefreshId(k) \in DOMAIN B
        BY <1>7, <3>7, <4>1 DEF TripInv
      <4>2. CASE RefreshId(k) \notin DOMAIN B
        <5>1. RefreshId(k) = m.id /\ m.makes
          BY <2>3, <3>4, <3>8, <4>2
        <5>2. Gone(k, B, h)
          BY <1>1, <1>2, <2>3, <5>1
        <5>. QED  BY <1>9, <3>7, <5>2
      <4>. QED  BY <4>1, <4>2
    <3>. QED  BY <1>4, <3>4, <3>5, <3>6, <3>7, <3>8 DEF TripInv
  <2>. QED  BY <1>6, <2>1, <2>2, <2>3
<1>11. \A k \in Key : m.op = "delete" /\ m.id = WizardId(k) => Gone(k, C, H)
  <2>1. TAKE k \in Key
  <2>2. lost' \subseteq H
    BY <1>1 DEF Marked
  <2>. QED  BY <1>2, <1>4, <2>2, TakeDrops DEF Gone
<1>. QED  BY <1>1, <1>2, <1>3, <1>9, <1>10, <1>11

\* What is left of a queue once a mutation of its first batch has arrived: the
\* same batches, one place earlier when that batch is through.
After(q, m) == (IF Head(q) = {m} THEN <<>> ELSE <<Head(q) \ {m}>>) \o Tail(q)

Moved(q, Q, m, s) ==
  /\ Len(Q) = Len(q) - s
  /\ \A i \in 1 .. Len(Q) : i + s \in 1 .. Len(q)
                         /\ Q[i] \subseteq q[i + s] /\ q[i + s] \subseteq Q[i] \cup {m}
  /\ s = 1 => q[1] = {m}

LEMMA PushedIs ==
  ASSUME NEW q, IsList(q), q # <<>>, NEW m
  PROVE  /\ IsList(After(q, m)) /\ Len(After(q, m)) \in Nat /\ Len(q) \in Nat
         /\ Head(q) = q[1] /\ 1 \in 1 .. Len(q)
         /\ Moved(q, After(q, m), m, 0) \/ Moved(q, After(q, m), m, 1)
<1>1. PICK S : q \in Seq(S)
  BY DEF IsList
<1>2. PICK z, t, Q : z = Head(q) \ {m} /\ t = Tail(q) /\ Q = After(q, m)
  OBVIOUS
<1>3. /\ Len(q) \in Nat \ {0} /\ Head(q) = q[1] /\ t \in Seq(S) /\ Len(t) = Len(q) - 1
      /\ \A i \in 1 .. Len(t) : t[i] = q[i + 1]
  BY <1>1, <1>2
<1>4. CASE Head(q) = {m}
  <2>1. Q = <<>> \o t
    BY <1>2, <1>4 DEF After
  <2>2. Q = t
    BY <1>3, <2>1
  <2>3. Q \in Seq(S) /\ Len(Q) = Len(q) - 1 /\ \A i \in 1 .. Len(Q) : Q[i] = q[i + 1]
    BY <1>3, <2>2
  <2>4. Moved(q, Q, m, 1)
    BY <1>3, <1>4, <2>3 DEF Moved
  <2>5. IsList(Q) /\ Len(Q) \in Nat
    BY <2>3 DEF IsList
  <2>. QED  BY <1>2, <1>3, <2>4, <2>5
<1>5. CASE Head(q) # {m}
  <2>1. Q = <<z>> \o t
    BY <1>2, <1>5 DEF After
  <2>2. PICK T : T = S \cup {z}
    OBVIOUS
  <2>3. t \in Seq(T) /\ z \in T
    <3>1. \A i \in 1 .. Len(t) : t[i] \in T
      BY <1>3, <2>2
    <3>. QED  BY <1>3, <2>2, <3>1
  <2>4. <<z>> \in Seq(T) /\ Len(<<z>>) = 1 /\ <<z>>[1] = z
    BY <2>3
  <2>5. /\ Q \in Seq(T) /\ Len(Q) = 1 + Len(t) /\ Q[1] = z
        /\ \A i \in 2 .. Len(Q) : Q[i] = t[i - 1]
    BY <2>1, <2>3, <2>4
  <2>6. \A i \in 1 .. Len(Q) : Q[i] \subseteq q[i + 0] /\ q[i + 0] \subseteq Q[i] \cup {m}
    <3>1. TAKE i \in 1 .. Len(Q)
    <3>2. i + 0 = i /\ (i = 1 \/ (i \in 2 .. Len(Q) /\ i - 1 \in 1 .. Len(t) /\ (i - 1) + 1 = i))
      BY <1>3, <2>5
    <3>3. CASE i = 1
      <4>1. Q[i] = q[i] \ {m}
        BY <1>2, <1>3, <2>5, <3>3
      <4>. QED  BY <3>2, <4>1
    <3>4. CASE i # 1
      <4>1. Q[i] = q[i]
        BY <1>3, <2>5, <3>2, <3>4
      <4>. QED  BY <3>2, <4>1
    <3>. QED  BY <3>3, <3>4
  <2>7. Moved(q, Q, m, 0)
    <3>1. Len(Q) = Len(q) - 0 /\ \A i \in 1 .. Len(Q) : i + 0 \in 1 .. Len(q)
      BY <1>3, <2>5
    <3>2. ~ (0 = 1)
      OBVIOUS
    <3>. QED  BY <2>6, <3>1, <3>2 DEF Moved
  <2>8. IsList(Q) /\ Len(Q) \in Nat
    BY <2>5 DEF IsList
  <2>. QED  BY <1>2, <1>3, <2>7, <2>8
<1>. QED  BY <1>4, <1>5

\* A device that sends a mutation: its drop is seen on the server from now on.
LEMMA SentKeeps ==
  ASSUME NEW c, NEW q, NEW B, NEW C, NEW h, NEW H, h \subseteq H, DeviceInv(c, q, B, h), q # <<>>,
         NEW m \in Head(q), NEW Q, Q = After(q, m),
         \A k \in Key : Gone(k, B, h) => Gone(k, C, H),
         \A k \in Key : m.op = "delete" /\ m.id = WizardId(k) => Gone(k, C, H)
  PROVE  DeviceInv(c, Q, C, H)
<1>1. IsList(q)
  BY DEF DeviceInv, QueueInv
<1>2. /\ IsList(Q) /\ Len(Q) \in Nat /\ Len(q) \in Nat /\ Head(q) = q[1]
      /\ Moved(q, Q, m, 0) \/ Moved(q, Q, m, 1)
  BY <1>1, PushedIs
<1>3. PICK s \in {0, 1} : Moved(q, Q, m, s)
  BY <1>2
<1>4. ASSUME NEW k \in Key, NEW n \in 0 .. Len(q), DropsBy(q, k, n)
      PROVE  Gone(k, C, H) \/ DropsBy(Q, k, n - s)
  <2>0. PICK i \in 1 .. n : Drops(q[i], k)
    BY <1>4 DEF DropsBy
  <2>1. PICK o \in q[i] : o.op = "delete" /\ o.id = WizardId(k)
    BY <2>0 DEF Drops
  <2>2. CASE o = m
    BY <2>1, <2>2
  <2>3. CASE o # m
    <3>1. PICK j : j = i - s
      OBVIOUS
    <3>2. j \in 1 .. Len(Q) /\ j \in 1 .. n - s /\ j + s = i
      <4>1. ~ (s = 1 /\ i = 1)
        BY <1>3, <2>1, <2>3 DEF Moved
      <4>2. Len(Q) = Len(q) - s
        BY <1>3 DEF Moved
      <4>3. CASE s = 0
        BY <1>2, <3>1, <4>2, <4>3
      <4>4. CASE s = 1
        BY <1>2, <3>1, <4>1, <4>2, <4>4
      <4>. QED  BY <4>3, <4>4
    <3>3. o \in Q[j]
      BY <1>3, <2>1, <2>3, <3>2 DEF Moved
    <3>. QED  BY <2>1, <3>1, <3>2, <3>3 DEF DropsBy, Drops
  <2>. QED  BY <2>2, <2>3
<1>5. ASSUME NEW i \in 1 .. Len(Q) PROVE BatchInv(Q, i, C, H)
  <2>1. i + s \in 1 .. Len(q) /\ (i + s) - 1 \in 0 .. Len(q) /\ ((i + s) - 1) - s = i - 1
    <3>1. i + s \in 1 .. Len(q)
      BY <1>3 DEF Moved
    <3>2. s \in Int /\ i \in Int
      OBVIOUS
    <3>. QED  BY <1>2, <3>1, <3>2
  <2>2. BatchInv(q, i + s, B, h) /\ Q[i] \subseteq q[i + s]
    BY <1>3, <2>1 DEF DeviceInv, QueueInv, Moved
  <2>3. \A o \in Q[i] : MutationOK(o, H)
    BY <2>2 DEF BatchInv, MutationOK
  <2>4. ASSUME NEW k \in Key, Makes(Q[i], k) PROVE Gone(k, C, H) \/ DropsBy(Q, k, i - 1)
    <3>1. Makes(q[i + s], k)
      BY <2>2, <2>4 DEF Makes
    <3>2. Gone(k, B, h) \/ DropsBy(q, k, (i + s) - 1)
      BY <2>2, <3>1 DEF BatchInv
    <3>3. DropsBy(q, k, (i + s) - 1) => Gone(k, C, H) \/ DropsBy(Q, k, ((i + s) - 1) - s)
      BY <1>4, <2>1
    <3>. QED  BY <2>1, <3>2, <3>3
  <2>. QED  BY <2>3, <2>4 DEF BatchInv
<1>6. CopyInv(c, Q, C, H)
  <2>1. Placed(c.rows, H)
    BY DEF DeviceInv, CopyInv, Placed
  <2>2. ASSUME NEW k \in Key
        PROVE  Gone(k, C, H) \/ WizardId(k) \in DOMAIN c.rows \/ DropsBy(Q, k, Len(Q))
    <3>1. Gone(k, B, h) \/ WizardId(k) \in DOMAIN c.rows \/ DropsBy(q, k, Len(q))
      BY DEF DeviceInv, CopyInv
    <3>2. Len(q) \in 0 .. Len(q) /\ Len(q) - s = Len(Q)
      BY <1>2, <1>3 DEF Moved
    <3>3. DropsBy(q, k, Len(q)) => Gone(k, C, H) \/ DropsBy(Q, k, Len(q) - s)
      BY <1>4, <3>2
    <3>. QED  BY <3>1, <3>2, <3>3
  <2>. QED  BY <2>1, <2>2 DEF CopyInv
<1>. QED  BY <1>2, <1>5, <1>6 DEF DeviceInv, QueueInv

\* And the others, who see only that rows have gone.
LEMMA OthersKeep ==
  ASSUME NEW c, NEW q, NEW B, NEW C, NEW h, NEW H, h \subseteq H, DeviceInv(c, q, B, h),
         \A k \in Key : Gone(k, B, h) => Gone(k, C, H)
  PROVE  DeviceInv(c, q, C, H)
<1>1. ASSUME NEW i \in 1 .. Len(q) PROVE BatchInv(q, i, C, H)
  BY DEF DeviceInv, QueueInv, BatchInv, MutationOK
<1>2. CopyInv(c, q, C, H)
  BY DEF DeviceInv, CopyInv, Placed
<1>. QED  BY <1>1, <1>2 DEF DeviceInv, QueueInv

LEMMA PushKeeps ==
  ASSUME TwinInv, NEW d \in Device, Push(d)
  PROVE  TwinInv'
<1>1. PICK q : q = out[d]
  OBVIOUS
<1>2. PICK m \in Due(Head(q)) :
         /\ Take(m)
         /\ out' = [out EXCEPT ![d] =
                      (IF Head(@) = {m} THEN <<>> ELSE <<Head(@) \ {m}>>) \o Tail(@)]
  BY <1>1 DEF Push
<1>3. PICK Q : Q = After(q, m)
  OBVIOUS
<1>4. q # <<>> /\ copy' = copy /\ hand' = hand /\ out' = [out EXCEPT ![d] = Q] /\ m \in Head(q)
  BY <1>1, <1>2, <1>3 DEF Push, follow, Due, After
<1>5. PICK c, B, C, h, H : c = copy[d] /\ B = base /\ C = base' /\ h = Marked /\ H = Marked'
  OBVIOUS
<1>6. DeviceInv(c, q, B, h)
  BY <1>1, <1>5 DEF TwinInv
<1>7. /\ MutationOK(m, Marked)
      /\ \A k \in Key : m.op = "upsert" /\ m.makes /\ m.id = RefreshId(k) => Gone(k, base, Marked)
  <2>1. IsList(q)
    BY <1>6 DEF DeviceInv, QueueInv
  <2>3. 1 \in 1 .. Len(q) /\ Head(q) = q[1]
    BY <1>4, <2>1, PushedIs
  <2>4. BatchInv(q, 1, B, h)
    BY <1>6, <2>3 DEF DeviceInv, QueueInv
  <2>5. \A k : ~DropsBy(q, k, 1 - 1)
    BY DEF DropsBy
  <2>. QED  BY <1>4, <1>5, <2>3, <2>4, <2>5 DEF BatchInv, Makes
<1>8. /\ h \subseteq H
      /\ TripInv(C, H)
      /\ \A k \in Key : Gone(k, B, h) => Gone(k, C, H)
      /\ \A k \in Key : m.op = "delete" /\ m.id = WizardId(k) => Gone(k, C, H)
  BY <1>2, <1>4, <1>5, <1>7, TakeKeeps DEF TwinInv
<1>9. DeviceInv(c, Q, C, H)
  BY <1>3, <1>4, <1>6, <1>8, SentKeeps
<1>10. \A x \in Device \ {d} : DeviceInv(copy[x], out[x], C, H)
  <2>1. TAKE x \in Device \ {d}
  <2>2. DeviceInv(copy[x], out[x], B, h)
    BY <1>5 DEF TwinInv
  <2>. QED  BY <1>8, <2>2, OthersKeep
<1>11. /\ DOMAIN out' = Device /\ DOMAIN copy' = Device
       /\ \A x \in Device : out'[x] = IF x = d THEN Q ELSE out[x]
  BY <1>4 DEF TwinInv
<1>12. \A x \in Device : DeviceInv(copy'[x], out'[x], C, H)
  <2>1. TAKE x \in Device
  <2>2. CASE x = d
    BY <1>4, <1>5, <1>9, <1>11, <2>2
  <2>3. CASE x # d
    BY <1>4, <1>10, <1>11, <2>3
  <2>. QED  BY <2>2, <2>3
<1>. QED  BY <1>5, <1>8, <1>11, <1>12 DEF TwinInv

LEMMA PullKeeps ==
  ASSUME TwinInv, NEW d \in Device, PullTrip(d)
  PROVE  TwinInv'
<1>1. /\ copy' = [copy EXCEPT ![d] = Trip] /\ UNCHANGED <<out, base, hand, lost>>
  BY DEF PullTrip, server, follow
<1>2. PICK t, B, h : t = Trip /\ B = base /\ h = Marked
  OBVIOUS
<1>3. t.rows = Rows(B)
  BY <1>2 DEF Trip, Rows
<1>4. \A k : IsRow(WizardId(k))
  BY DEF IsRow, WizardId
<1>5. DeviceInv(t, out[d], B, h)
  <2>1. DOMAIN Rows(B) = {x \in DOMAIN B : IsRow(x)}
    BY DEF Rows
  <2>2. CopyInv(t, out[d], B, h)
    BY <1>2, <1>3, <1>4, <2>1 DEF TwinInv, TripInv, CopyInv, Gone
  <2>. QED  BY <1>2, <2>2 DEF TwinInv, DeviceInv
<1>6. DOMAIN copy' = Device /\ \A x \in Device : copy'[x] = IF x = d THEN t ELSE copy[x]
  BY <1>1, <1>2 DEF TwinInv
<1>7. Marked' = Marked
  BY <1>1 DEF Marked
<1>8. \A x \in Device : DeviceInv(copy'[x], out'[x], base', Marked')
  <2>1. TAKE x \in Device
  <2>2. CASE x = d
    BY <1>1, <1>2, <1>5, <1>6, <1>7, <2>2
  <2>3. CASE x # d
    BY <1>1, <1>6, <1>7, <2>3 DEF TwinInv
  <2>. QED  BY <2>2, <2>3
<1>. QED  BY <1>1, <1>6, <1>7, <1>8 DEF TwinInv

\* The wizard's rows stand where their ids say, on every device.
LEMMA TwinInit == Init => TwinInv
<1>. SUFFICES ASSUME Init PROVE TwinInv
  OBVIOUS
<1>1. PICK roster \in SUBSET Traveler, opened \in BOOLEAN :
        LET gen  == Generated(groups, roster)
            rows == [r \in {WizardId(k) : k \in DOMAIN gen} |-> NewRow(r[2], gen[r[2]])]
            led  == [e \in {EntryId(k) : k \in IF opened THEN DOMAIN gen ELSE {}} |->
                       Over(Only("row", WizardId(e[2])), gen[e[2]])]
            who  == [x \in {TravelerId(t) : t \in roster} |-> EmptyFn]
        IN  base = [x \in DOMAIN rows \cup DOMAIN led \cup DOMAIN who |->
                      FirstWrite(Over(rows, Over(led, who))[x])]
  BY Zenon DEF Init
<1>2. PICK gen : gen = Generated(groups, roster)
  OBVIOUS
<1>3. PICK rows : rows = [r \in {WizardId(k) : k \in DOMAIN gen} |-> NewRow(r[2], gen[r[2]])]
  OBVIOUS
<1>4. PICK led, who : /\ led = [e \in {EntryId(k) : k \in IF opened THEN DOMAIN gen ELSE {}} |->
                                 Over(Only("row", WizardId(e[2])), gen[e[2]])]
                      /\ who = [x \in {TravelerId(t) : t \in roster} |-> EmptyFn]
  OBVIOUS
<1>5. PICK rest : rest = Over(led, who)
  OBVIOUS
<1>6. base = [x \in DOMAIN rows \cup DOMAIN led \cup DOMAIN who |-> FirstWrite(Over(rows, rest)[x])]
  BY <1>1, <1>2, <1>3, <1>4, <1>5
<1>7. \A x \in DOMAIN base : base[x].exists = TRUE
  BY <1>6 DEF FirstWrite
<1>8. DOMAIN rows = {WizardId(k) : k \in DOMAIN gen} /\ DOMAIN gen \subseteq Key
  BY <1>2, <1>3 DEF Generated
<1>9. \A x \in DOMAIN base : IsRow(x) => x \in DOMAIN rows
  <2>1. \A x \in DOMAIN led \cup DOMAIN who : ~ IsRow(x)
    BY <1>4 DEF IsRow, EntryId, TravelerId
  <2>. QED  BY <1>6, <2>1
<1>10. ASSUME NEW r \in DOMAIN Rows(base)
       PROVE  /\ {"item", "traveler"} \subseteq DOMAIN Rows(base)[r]
              /\ \E k \in Key : r = WizardId(k) /\ KeyOf(Rows(base)[r]) = k
  <2>1. r \in DOMAIN base /\ r \in DOMAIN rows /\ Rows(base)[r] = base[r].fields
    BY <1>9 DEF Rows
  <2>2. Over(rows, rest)[r] = rows[r]
    <3>1. \A x \in DOMAIN rows : Over(rows, rest)[x] = rows[x]
      BY OverAt
    <3>. QED  BY <2>1, <3>1
  <2>3. base[r].fields = rows[r]
    <3>1. base[r] = FirstWrite(rows[r])
      BY <1>6, <2>1, <2>2
    <3>. QED  BY <3>1 DEF FirstWrite
  <2>4. PICK k \in Key : k \in DOMAIN gen /\ r = WizardId(k)
    BY <1>8, <2>1
  <2>5. r[2] = k
    BY <2>4 DEF WizardId
  <2>6. rows[r] = NewRow(k, gen[k])
    BY <1>3, <2>1, <2>5
  <2>. QED  BY <2>1, <2>3, <2>4, <2>6 DEF NewRow, KeyOf, Key
<1>11. \A k : RefreshId(k) \notin DOMAIN base
  <2>1. \A k : IsRow(RefreshId(k)) /\ RefreshId(k) \notin DOMAIN rows
    BY <1>8, IdsDiffer DEF IsRow, RefreshId
  <2>. QED  BY <1>9, <2>1
<1>12. TripInv(base, Marked)
  BY <1>7, <1>10, <1>11 DEF TripInv, Placed
<1>13. /\ copy = [x \in Device |-> Trip] /\ out = [x \in Device |-> <<>>]
  BY DEF Init
<1>14. ASSUME NEW d \in Device PROVE DeviceInv(copy[d], out[d], base, Marked)
  <2>1. copy[d].rows = Rows(base) /\ out[d] = <<>>
    BY <1>13 DEF Trip, Rows
  <2>2. QueueInv(out[d], base, Marked)
    BY <2>1 DEF QueueInv, IsList
  <2>3. \A k : IsRow(WizardId(k))
    BY DEF IsRow, WizardId
  <2>4. DOMAIN Rows(base) = {x \in DOMAIN base : IsRow(x)}
    BY DEF Rows
  <2>5. CopyInv(copy[d], out[d], base, Marked)
    BY <1>12, <2>1, <2>3, <2>4 DEF TripInv, CopyInv, Gone
  <2>. QED  BY <2>2, <2>5 DEF DeviceInv
<1>. QED  BY <1>12, <1>13, <1>14 DEF TwinInv

LEMMA TwinNext ==
  ASSUME TwinInv, [Next]_vars
  PROVE  TwinInv'
<1>1. CASE UNCHANGED vars
  BY <1>1 DEF vars, server, follow, TwinInv, Marked
<1>2. ASSUME NEW d \in Device, NEW m, Propose(d, m), UNCHANGED <<hand, lost, base>>
      PROVE  TwinInv'
  <2>1. Marked' = Marked
    BY <1>2 DEF Marked
  <2>2. CASE UNCHANGED <<copy, out>>
    BY <1>2, <2>1, <2>2, AnswersKeep
  <2>3. CASE Write(d, PlanRefresh(d, m, copy[d]).batch, m)
    BY <1>2, <2>1, <2>3, AnswersKeep
  <2>. QED  BY <1>2, <2>2, <2>3 DEF Propose
<1>3. ASSUME NEW d \in Device, OpenTrip(d) \/ PullMaster(d)
      PROVE  TwinInv'
  BY <1>2, <1>3 DEF OpenTrip, PullMaster, server
<1>4. ASSUME NEW d \in Device, Accept(d) \/ Decline(d)
      PROVE  TwinInv'
  <2>1. Marked' = Marked /\ base' = base
    BY <1>4 DEF Accept, Decline, Marked, server
  <2>2. \E b \in {PlanRefresh(d, seen[d], copy[d]).batch,
                  DeclinePlan(PlanRefresh(d, seen[d], copy[d]))} : Write(d, b, seen[d])
    BY <1>4 DEF Accept, Decline, PlanOf
  <2>. QED  BY <2>1, <2>2, AnswersKeep
<1>5. ASSUME NEW d \in Device, NEW x, NEW v, EditRegister(d, x, v)
      PROVE  TwinInv'
  BY <1>5 DEF EditRegister, TwinInv, Marked, server
<1>6. ASSUME NEW d \in Device, PushEdit(d)
      PROVE  TwinInv'
  BY <1>6 DEF PushEdit, TwinInv, Marked, server, follow
<1>7. ASSUME NEW d \in Device, NEW t,
             AddTraveler(d, t) \/ RemoveTraveler(d, t, TRUE) \/ RemoveTraveler(d, t, FALSE)
      PROVE  TwinInv'
  BY <1>7, TravelersKeep
<1>. QED  BY <1>1, <1>3, <1>4, <1>5, <1>6, <1>7, HandActKeeps, PullKeeps, PushKeeps
       DEF Next, EditItem, EditGroup

\* Two rows of one position on the server are a hand's doing, or one of them is a
\* row whose removal lost to a newer write: whatever devices generate, accept,
\* refuse or miss, and however late their writes arrive (propagatedItemId, ADR-016).
THEOREM RefreshNoTwins == Spec => []NoTwins
<1>1. TwinInv => NoTwins
  <2>. SUFFICES ASSUME TwinInv, NEW r \in DOMAIN Trip.rows, NEW s \in DOMAIN Trip.rows,
                       r # s, KeyOf(Trip.rows[r]) = KeyOf(Trip.rows[s]),
                       r \notin Marked, s \notin Marked
                PROVE  FALSE
    BY DEF NoTwins, Marked
  <2>1. Trip.rows = Rows(base)
    BY DEF Trip, Rows
  <2>2. PICK k \in Key : /\ r \in {RefreshId(k), WizardId(k)}
                         /\ s \in {RefreshId(k), WizardId(k)}
    BY <2>1 DEF TwinInv, TripInv, Placed
  <2>3. RefreshId(k) \in DOMAIN base /\ WizardId(k) \in DOMAIN base \ Marked
    BY <2>1, <2>2 DEF Rows
  <2>. QED  BY <2>3 DEF TwinInv, TripInv, Gone
<1>. QED  BY <1>1, TwinInit, TwinNext, PTL DEF Spec

=============================================================================
