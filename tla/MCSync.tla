------------------------------- MODULE MCSync -------------------------------
(***************************************************************************)
(* Small instances of Sync: two phones of two people on one trip.          *)
(***************************************************************************)
EXTENDS Sync

CONSTANTS t1, u1, u2, d1, d2, master, null

TwoUsers == [d \in {d1, d2} |-> IF d = d1 THEN u1 ELSE u2]

Up(e, fields) == [op |-> "upsert", ent |-> e, fields |-> fields]
Del(e) == [op |-> "delete", ent |-> e, fields |-> [f \in {} |-> 0]]

\* A suitcase (1) and the row packed in it (2).
Luggage == <<"containers", "trip_items">>
LuggageParents == <<0, 0>>
LuggageAuthors == <<d1, d1>>
LuggageWrites ==
    { Up(1, [trip_id |-> t1]), Up(1, [name |-> "b"]), Up(2, [trip_id |-> t1, ref |-> 1]),
      Up(2, [name |-> "b"]), Del(1), Del(2) }

\* A row (1) and its comment (2).
Thread == <<"trip_items", "comments">>
ThreadParents == <<0, 1>>
ThreadAuthors == <<d1, d1>>
ThreadWrites ==
    { Up(1, [trip_id |-> t1]), Up(2, [trip_id |-> t1]), Up(1, [name |-> "b"]), Del(1) }

\* A packed row (1), claimed from a list that still offers it.
Claimed == <<"trip_items">>
ClaimedParents == <<0>>
ClaimedAuthors == <<d1>>
ClaimedWrites ==
    { Up(1, [trip_id |-> t1]), Up(1, [state |-> "packed", packed_count |-> 1]),
      Up(1, [state |-> "packing_now"]) }

=============================================================================
