---------------------------- MODULE MCSyncServer ----------------------------
(***************************************************************************)
(* Small instances of SyncServer. A write is one the client's mutation     *)
(* builders make (client/src/sync/mutations/).                             *)
(***************************************************************************)
EXTENDS SyncServer, TLC

CONSTANTS t1, t2, u1, u2, master, null

\* Users are interchangeable: no definition names one.
UserSymmetry == Permutations({u1, u2})

Up(e, fields) == [op |-> "upsert", ent |-> e, fields |-> fields]
Del(e) == [op |-> "delete", ent |-> e, fields |-> [f \in {} |-> 0]]

\* One packing row that two people claim, pack, edit, review and delete.
OneItem == [e \in {1} |-> "trip_items"]
NoParents == [e \in {1} |-> 0]
PackingWrites ==
    { Up(1, [trip_id |-> t1, name |-> "a"]),
      Up(1, [state |-> "packed", packed_count |-> 1]),
      Up(1, [state |-> "packing_now"]),
      Up(1, [state |-> "open"]),
      Up(1, [state |-> "open", packed_count |-> 0]) }
RowWrites ==
    PackingWrites \cup
    { Up(1, [name |-> "b"]),
      Up(1, [quantity |-> 0, packed_count |-> 0]),
      Up(1, [flag_unused |-> 1]),
      Up(1, [flag_unused |-> 0]),
      Del(1) }

\* A packing row in a suitcase (4), its comment (2) and the comment's tick (3).
TripTree == <<"trip_items", "comments", "note_acks", "containers">>
TripParents == <<0, 1, 2, 0>>
TripTreeWrites ==
    { Up(1, [trip_id |-> t1, ref |-> 4]),
      Up(1, [name |-> "b"]),
      Up(2, [trip_id |-> t1]),
      Up(3, [trip_id |-> t1]),
      Up(4, [trip_id |-> t1]),
      Del(1), Del(2), Del(4) }

=============================================================================
