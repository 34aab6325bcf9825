------------------------------ MODULE Courier ------------------------------
(***************************************************************************)
(* What the outbox promises of a partition's mutations, without saying how:*)
(* the device keeps each one until it is answered for, and it is decided   *)
(* once. Nothing here knows of queues, drains, chunks or storage writes.   *)
(***************************************************************************)

CONSTANT Item

VARIABLES
    place,      \* where the device has an item, if anywhere that lasts
    verdict     \* what was decided of it

CourierInit ==
    /\ place = [m \in Item |-> "unmade"]
    /\ verdict = [m \in Item |-> "none"]

\* A kept item is given up for a verdict only, or becomes evidence of a refusal;
\* evidence stays.
Carried(m) ==
    \/ place'[m] = place[m]
    \/ <<place[m], place'[m]>> \in
         {<<"unmade", "loose">>, <<"loose", "kept">>, <<"loose", "parked">>, <<"kept", "parked">>}
    \/ place[m] = "kept" /\ place'[m] = "loose" /\ verdict[m] # "none"

\* A verdict is given once, of an item that was made.
Judged(m) ==
    \/ verdict'[m] = verdict[m]
    \/ verdict[m] = "none" /\ place[m] # "unmade"

CourierNext == \A m \in Item : Carried(m) /\ Judged(m)

CourierSpec == CourierInit /\ [][CourierNext]_<<place, verdict>>

============================================================================
