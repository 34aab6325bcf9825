------------------------------- MODULE Merge -------------------------------
(***************************************************************************)
(* internal/sync/merge.go: how one mutation is resolved against the row    *)
(* the server holds (NFR-4.2a). A pure function; persistence, permission   *)
(* checks and replay live in the callers.                                  *)
(*                                                                         *)
(* A clock is a natural number, 0 the empty clock of a row that was never  *)
(* synced: HLC.tla shows that stamps are totally ordered, and only their   *)
(* order matters here. A row is                                            *)
(*     [exists, fields, hlc, clocks]                                       *)
(* where clocks may name fewer columns than fields does, and a mutation is *)
(*     [op, fields, hlc]                                                   *)
(* whose fields is a function on the columns it carries.                   *)
(***************************************************************************)
EXTENDS Naturals

\* The columns that encode one fact and win or lose together (FR-5.4).
StateGroup == {"state", "packed_count"}

\* The who-and-when columns that describe the state and follow its verdict.
\* The `at` halves travel with the `by` halves and are left out.
StateRecord == {"packing_now_by", "packed_by_user_id"}

\* Trip feedback: a "yes" always applies (FR-9.1).
AdditiveFields == {"flag_unused", "flag_missing"}

\* GroupedWith: what a revert of one logged field has to carry.
GroupedWith(f) == IF f \in StateGroup THEN StateGroup ELSE {f}

MaxHLC(a, b) == IF a > b THEN a ELSE b

IsTruthy(v) == v = 1

ClockOf(row, f) == IF f \in DOMAIN row.clocks THEN row.clocks[f] ELSE row.hlc

GroupClock(row) == MaxHLC(ClockOf(row, "state"), ClockOf(row, "packed_count"))

\* Mutant: the claim is not held back from a packed row.
GroupDecisionClockOnly(row, m) == m.hlc > GroupClock(row)

\* Rule 2: packed beats packing_now whatever the clocks say, and packing_now
\* never displaces packed. Rule 3 for every other pair: the later write wins.
GroupDecision(row, m) ==
    IF "state" \notin DOMAIN m.fields THEN m.hlc > GroupClock(row)
    ELSE CASE m.fields["state"] = "packed" /\ row.fields["state"] = "packing_now" -> TRUE
           [] m.fields["state"] = "packing_now" /\ row.fields["state"] = "packed" -> FALSE
           [] OTHER -> m.hlc > GroupClock(row)

\* Mutant: precedence decided against the row's clock, not the field's.
WinsRowClock(row, m, f) ==
    \/ f \in AdditiveFields /\ IsTruthy(m.fields[f])
    \/ f \in StateGroup \cup StateRecord /\ GroupDecision(row, m)
    \/ f \notin StateGroup \cup StateRecord /\ m.hlc > row.hlc

\* Mutant: the record columns compete by their own clocks.
WinsRecordByClock(row, m, f) ==
    \/ f \in AdditiveFields /\ IsTruthy(m.fields[f])
    \/ f \in StateGroup /\ GroupDecision(row, m)
    \/ f \notin StateGroup /\ m.hlc > ClockOf(row, f)

\* Mutant: the count competes by its own clock, apart from the state.
WinsCountByClock(row, m, f) ==
    \/ f \in AdditiveFields /\ IsTruthy(m.fields[f])
    \/ f \in {"state"} \cup StateRecord /\ GroupDecision(row, m)
    \/ f \notin {"state"} \cup StateRecord /\ m.hlc > ClockOf(row, f)

\* Whether column f of m is written over the existing row.
Wins(row, m, f) ==
    \/ f \in AdditiveFields /\ IsTruthy(m.fields[f])
    \/ f \in StateGroup \cup StateRecord /\ GroupDecision(row, m)
    \/ f \notin StateGroup \cup StateRecord /\ m.hlc > ClockOf(row, f)

Applied(row, m) ==
    IF m.op = "delete" THEN {}
    ELSE {f \in DOMAIN m.fields : row.exists => Wins(row, m, f)}

\* A dropped column is logged unless it restates the winner's value, and a
\* dropped record column never is: the state's own entry says so.
Conflicts(row, m) ==
    IF m.op = "delete" \/ ~row.exists THEN {}
    ELSE {f \in DOMAIN m.fields \ StateRecord :
            ~Wins(row, m, f) /\ m.fields[f] # row.fields[f]}

\* Mutant: a delete is not asked its clock.
DeletedAlways(row, m) == m.op = "delete"

Deleted(row, m) == m.op = "delete" /\ m.hlc > row.hlc

Outcome(row, m) ==
    IF (IF m.op = "delete" THEN Deleted(row, m) ELSE Conflicts(row, m) = {})
    THEN "applied" ELSE "merged"

\* The row's clock record afterwards: every applied column stamped with the
\* mutation's clock, every other as it was.
MergedClocks(row, m) ==
    [f \in DOMAIN row.clocks \cup Applied(row, m) |->
        IF f \in Applied(row, m) THEN m.hlc ELSE row.clocks[f]]

MergedFields(row, m) ==
    [f \in DOMAIN row.fields |->
        IF f \in Applied(row, m) THEN m.fields[f] ELSE row.fields[f]]

=============================================================================
