---------------------------- MODULE MasterDelete ----------------------------
(***************************************************************************)
(* The deletes the server composes itself, beside the pipeline's other     *)
(* writers: internal/store/master_delete_row.go (the REST delete of one    *)
(* master row) and master_prune_item.go (the delete of an inventory item   *)
(* nothing uses, asked for after a row made from it was removed).          *)
(*                                                                         *)
(* Both read the row's clock and mint their own stamp before the           *)
(* transaction that deletes: the pool holds one connection, so the         *)
(* transaction may have to wait for those of others.                       *)
(***************************************************************************)
EXTENDS SyncServer

VARIABLE
    deleting    \* deleting[u]: the request of u's that has read its row

deleteVars == <<vars, deleting>>

NoRequest == [ent |-> 0, how |-> "none", above |-> 0]

DeleteInit == Init /\ deleting = [u \in User |-> NoRequest]

\* Of the master tables modelled, the one with a delete endpoint; only an item
\* is ever pruned.
DeletableMasterTables == {"items"}

\* An item hangs off nothing, and a rule off the items it ties together.
ASSUME ItemAssumption ==
    \A e \in Entity :
        /\ Table[e] = "items" => Parent[e] = NoParent
        /\ Table[e] = "item_dependencies" /\ Parent[e] # NoParent => Table[Parent[e]] = "items"

\* masterRowClock, folded into the generator. A row that is not there is
\* answered at once and starts nothing.
ReadRowClock(u, e, how) ==
    /\ deleting[u] = NoRequest
    /\ Table[e] \in DeletableMasterTables
    /\ rows[e].exists
    /\ srvHLC' = MaxHLC(srvHLC, rows[e].hlc)
    /\ deleting' = [deleting EXCEPT ![u] = [ent |-> e, how |-> how, above |-> srvHLC']]
    /\ UNCHANGED <<rows, changeLog, head, memo, pushed, conflictLog, lockEvents, reverting,
                   used, merged>>

\* Mutant: a companion rule does not count as a use.
ItemInUseBlockingOnly(e) ==
    \E r \in Entity \ {e} : rows[r].exists /\ rows[r].fields["ref"] = e

\* A row that names the item, or a rule that brings it along with another one.
ItemInUse(e) ==
    \E r \in Entity \ {e} :
        /\ rows[r].exists
        /\ rows[r].fields["ref"] = e \/ (Table[r] = "item_dependencies" /\ Parent[r] = e)

\* prunePartition: a use refuses and is not re-logged; nothing is retired.
Prune(u, m) ==
    IF ItemInUse(m.ent)
    THEN /\ memo' = [memo EXCEPT ![m.hlc] = "rejected"]
         /\ UNCHANGED <<rows, changeLog, head, conflictLog, merged>>
    ELSE Accept(Master, m, rows[m.ent], FALSE)

\* The transaction, under a fresh mutation id. The stamp was minted anywhere
\* between the read and the transaction.
DeleteCommit(u) ==
    LET r == deleting[u] IN
    /\ r # NoRequest
    /\ \E h \in Clock \ used :
         LET m == [op |-> "delete", ent |-> r.ent, fields |-> [f \in {} |-> Null], hlc |-> h]
         IN  /\ h > r.above
             /\ used' = used \cup {h}
             /\ srvHLC' = MaxHLC(srvHLC, h)
             /\ IF r.how = "prune" THEN Prune(u, m) ELSE Decide(u, Master, m)
    /\ deleting' = [deleting EXCEPT ![u] = NoRequest]
    /\ UNCHANGED <<pushed, lockEvents, reverting>>

DeleteNext ==
    \/ Next /\ UNCHANGED deleting
    \/ \E u \in User :
         \/ \E e \in Entity, how \in {"delete", "prune"} : ReadRowClock(u, e, how)
         \/ DeleteCommit(u)

DeleteSpec == DeleteInit /\ [][DeleteNext]_deleteVars

-----------------------------------------------------------------------------
Gone(e) == rows[e].exists /\ ~rows'[e].exists

\* No row is deleted from under one that names it, by whichever of the three
\* deletes and whatever was written between their read and their transaction
\* (master.go:311-339, master_prune_item.go:87-113): a delete never runs into
\* the schema's foreign keys.
NothingDangles ==
    \A e \in Entity : rows[e].exists /\ rows[e].fields["ref"] # Null
                        => rows[rows[e].fields["ref"]].exists

\* A row is deleted by a write newer than every edit merged into it: an edit
\* that overtakes a delete between its read and its transaction survives it
\* (master_delete_row.go:55-78). A child goes with its parent. An edit is a write
\* of a plain column: a claim that lost to packed moved no clock of the row.
DeleteIsNewest ==
    [][\A e \in Entity : Gone(e) /\ (Parent[e] = NoParent \/ rows'[Parent[e]].exists) =>
         \E x \in changeLog' \ changeLog :
            /\ x.ent = e /\ x.deleted
            /\ \A m \in merged[e] : DOMAIN m.fields \cap PlainField # {} => m.hlc < x.hlc]_deleteVars

\* A prune takes the unused item or nothing: an item something uses stays as it
\* was, not even retired, and no companion rule is taken from another item
\* (master_prune_item.go:22-37, 87-94).
PruneTakesOnlyTheUnused ==
    [][\A u \in User : deleting[u].how = "prune" /\ deleting'[u] = NoRequest =>
         \A e \in Entity :
            \/ rows'[e] = rows[e]
            \/ Gone(e) /\ Table[e] # "item_dependencies"]_deleteVars

-----------------------------------------------------------------------------
(* What a comment of the code promises and the code does not keep. *)

\* "Pruned is true when the item was deleted" (master_prune_item.go:13-15): a
\* prune that was not refused leaves no item behind.
PrunedIsGone ==
    [][\A u \in User : deleting[u].how = "prune" /\ deleting'[u] = NoRequest =>
         \A h \in used' \ used :
            memo'[h] # "rejected" => ~rows'[deleting[u].ent].exists]_deleteVars

=============================================================================
