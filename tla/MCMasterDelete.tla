--------------------------- MODULE MCMasterDelete ---------------------------
(***************************************************************************)
(* An instance of MasterDelete: an inventory item (1), a companion rule    *)
(* that brings it (2; the item it comes with is never deleted), a packing  *)
(* row made from it (3), and a series (4) only its owner may change.       *)
(***************************************************************************)
EXTENDS MasterDelete, MCSyncServer

MasterTree == <<"items", "item_dependencies", "trip_items", "trip_series">>
MasterParents == <<0, 1, 0, 0>>
MasterWrites ==
    { Up(1, [name |-> "a"]), Del(1),
      Up(2, [name |-> "a"]),
      Up(3, [trip_id |-> t1, ref |-> 1]), Del(3),
      Up(4, [name |-> "a"]), Del(4) }

=============================================================================
