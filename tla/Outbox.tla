------------------------------- MODULE Outbox -------------------------------
(***************************************************************************)
(* client/src/sync/outbox.ts with outboxStore.ts: one partition's queue of *)
(* unsent mutations on one device, its copy in IndexedDB, the drain that   *)
(* pushes and pulls, and the reload that ends a session.                   *)
(*                                                                         *)
(* A mutation is its number in the order the device minted it, which is    *)
(* the order of the pending store's by_seq index. The server is what the   *)
(* outbox relies on it to be: a memo that decides each mutation once. The  *)
(* server's own rules are SyncServer's; rows and cursors are Sync's.       *)
(*                                                                         *)
(* JavaScript runs to the next await without interruption, so an action is *)
(* the code between two awaits. Failures of the network and the storage    *)
(* and reloads are bounded together by MaxFaults.                          *)
(***************************************************************************)
EXTENDS Naturals, Sequences, FiniteSets, SequencesExt

CONSTANTS
    MaxMutations,   \* how many mutations the device mints
    MaxBatch,       \* MAX_PUSH_BATCH
    MaxFaults       \* failures and reloads in a behaviour

ASSUME BoundsAssumption ==
    MaxMutations \in Nat /\ MaxBatch \in Nat \ {0} /\ MaxFaults \in Nat

Mutation == 1 .. MaxMutations
Outcome == {"applied", "rejected", "duplicate"}

VARIABLES
    minted,     \* how many mutations there are so far
    queue,      \* this.queues: the live queue
    work,       \* runDrain's `queue`: what the running drain works through
    aliased,    \* whether work and the live queue are one array still
    offset,     \* runDrain's offset into it
    phase,      \* where the running drain stands: idle, push or pull
    follow,     \* this.queuedDrain: a follow-up drain is promised
    chunk,      \* the slice the open request carries
    unsent,     \* the part of the open request the server has not reached
    results,    \* its answers so far, [mut, outcome]
    chain,      \* this.persisted: storage writes issued and not yet made
    restored,   \* restore() in this session: to come "ahead" of its first edit
                \* or "behind" it, or over: "read", "failed"
    ask,        \* a drain is "due" where an edit or the boot called for one; the
                \* queue is "stranded" once the last call came to nothing
    pending,    \* IndexedDB: the pending store
    parked,     \* IndexedDB: the parked store
    memo,       \* the server's mutations table
    strays,     \* requests nobody waits for, which the server may still reach
    faults,
    captured,   \* history: the mutations an append has put on the device
    refused,    \* history: the refusals this device has been told of
    dropped,    \* history: a storage write of this session was refused
    owed        \* history: what the running drain, and the one promised to
                \* follow it, owe their callers an answer to

memory == <<queue, work, aliased, offset, phase, follow, chunk, unsent, results, chain, restored,
            ask>>
disk == <<pending, parked>>
history == <<captured, refused, dropped, owed>>
vars == <<minted, memory, disk, memo, strays, faults, history>>

Init ==
    /\ minted = 0
    /\ queue = <<>> /\ work = <<>> /\ aliased = FALSE /\ offset = 0
    /\ phase = "idle" /\ follow = FALSE
    /\ chunk = <<>> /\ unsent = <<>> /\ results = {}
    /\ chain = <<>> /\ restored = "ahead" /\ ask = "none"
    /\ pending = {} /\ parked = {}
    /\ memo = [m \in Mutation |-> "none"]
    /\ strays = {}
    /\ faults = 0
    /\ captured = {} /\ refused = {} /\ dropped = FALSE
    /\ owed = [running |-> {}, next |-> {}]

-----------------------------------------------------------------------------
(* The queue and its copy on the device. *)

StorageWrite == [op : {"append", "remove", "park"}, muts : SUBSET Mutation]
Persist(op, muts) == [op |-> op, muts |-> muts]

\* The numbers of S in their order, and what a filter keeps of s: what of it is
\* in ms, as it stood. (Both by position, which the prover can follow.)
Ascending(S) ==
    [k \in 1 .. Cardinality(S) |-> CHOOSE x \in S : Cardinality({y \in S : y < x}) = k - 1]

Only(s, ms) ==
    LET kept == Ascending({i \in DOMAIN s : s[i] \in ms})
    IN  [k \in DOMAIN kept |-> s[kept[k]]]

Without(s, ms) == Only(s, Range(s) \ ms)

\* enqueue: into the live array, which a drain may be working through. push()
\* (server.ts:215) calls for a drain right after.
Enqueue ==
    /\ minted < MaxMutations
    /\ minted' = minted + 1
    /\ queue' = Append(queue, minted')
    /\ work' = IF aliased THEN queue' ELSE work
    /\ chain' = Append(chain, Persist("append", {minted'}))
    /\ restored' = IF restored = "ahead" THEN "behind" ELSE restored
    /\ ask' = "due"
    /\ UNCHANGED <<aliased, offset, phase, follow, chunk, unsent, results,
                   disk, memo, strays, faults, history>>

\* Mutant: a parked mutation leaves the queue's store in a write of its own.
StoredParkLast(w) ==
    /\ pending' = IF w.op = "append" THEN pending \cup w.muts ELSE pending \ w.muts
    /\ parked' = parked

\* One transaction of the store: append 238, remove 253, park 264.
Stored(w) ==
    /\ pending' = IF w.op = "append" THEN pending \cup w.muts ELSE pending \ w.muts
    /\ parked' = IF w.op = "park" THEN parked \cup w.muts ELSE parked

\* The next write of the chain is made.
PersistWrite ==
    /\ chain # <<>>
    /\ Stored(Head(chain))
    /\ chain' = Tail(chain)
    /\ captured' = IF Head(chain).op = "append" THEN captured \cup Head(chain).muts ELSE captured
    /\ UNCHANGED <<minted, queue, work, aliased, offset, phase, follow, chunk, unsent, results,
                   restored, ask, memo, strays, faults, refused, dropped, owed>>

\* It is refused (quota, an aborted transaction): durability is lost, the
\* chain goes on.
PersistRefused ==
    /\ chain # <<>> /\ faults < MaxFaults
    /\ chain' = Tail(chain)
    /\ dropped' = TRUE
    /\ faults' = faults + 1
    /\ UNCHANGED <<minted, queue, work, aliased, offset, phase, follow, chunk, unsent, results,
                   restored, ask, disk, memo, strays, captured, refused, owed>>

Booting == restored \in {"ahead", "behind"}

\* The queue an earlier session left, behind whatever this one queued already.
\* connect() drains what restore() reports, and restore() reports a partition
\* only where this session has no queue of its own yet (outbox.ts:292-299).
Restore ==
    /\ Booting
    /\ restored' = "read"
    /\ queue' = queue \o Ascending(pending)
    /\ work' = IF aliased THEN queue' ELSE work
    /\ ask' = IF pending = {} \/ ask = "due" THEN ask
              ELSE IF restored = "ahead" THEN "due" ELSE "stranded"
    /\ UNCHANGED <<minted, aliased, offset, phase, follow, chunk, unsent, results, chain,
                   disk, memo, strays, faults, history>>

\* The database does not open, or cannot be read: the session goes on without
\* what an earlier one left, which it does not try to read again.
RestoreFails ==
    /\ Booting /\ faults < MaxFaults
    /\ restored' = "failed"
    /\ faults' = faults + 1
    /\ UNCHANGED <<minted, queue, work, aliased, offset, phase, follow, chunk, unsent, results,
                   chain, ask, disk, memo, strays, history>>

-----------------------------------------------------------------------------
(* The drain. *)

Slice(s, from) ==
    SubSeq(s, from + 1, IF from + MaxBatch < Len(s) THEN from + MaxBatch ELSE Len(s))

\* runDrain up to its first await.
RunDrain(answers, later) ==
    /\ work' = queue
    /\ aliased' = (queue # <<>>)
    /\ offset' = 0
    /\ phase' = IF queue # <<>> THEN "push" ELSE "pull"
    /\ chunk' = Slice(queue, 0)
    /\ unsent' = chunk'
    /\ results' = {}
    /\ owed' = [running |-> answers, next |-> later]

\* Mutant: a late caller is handed the drain that is running already.
DrainShared ==
    IF phase = "idle"
    THEN RunDrain(Range(queue), owed.next) /\ UNCHANGED follow
    ELSE /\ owed' = [owed EXCEPT !.running = @ \cup Range(queue)]
         /\ UNCHANGED <<work, aliased, offset, phase, chunk, unsent, results, follow>>

\* drain: start one, or share the one follow-up of the drain that is running.
DrainOrFollow ==
    IF phase = "idle"
    THEN RunDrain(Range(queue), owed.next) /\ UNCHANGED follow
    ELSE /\ follow' = TRUE
         /\ owed' = [owed EXCEPT !.next = @ \cup Range(queue)]
         /\ UNCHANGED <<work, aliased, offset, phase, chunk, unsent, results>>

\* Whoever calls for a drain: push() after an edit, connect() after restore(),
\* and at any time a screen, a notice, a reconnect or a return to the app.
Drain ==
    /\ DrainOrFollow
    /\ ask' = "none"
    /\ UNCHANGED <<minted, queue, chain, restored, disk, memo, strays, faults,
                   captured, refused, dropped>>

\* The promised follow-up, once nothing is running.
FollowUp ==
    /\ phase = "idle" /\ follow
    /\ follow' = FALSE
    /\ RunDrain(owed.next, {})
    /\ ask' = IF ask = "stranded" THEN "none" ELSE ask
    /\ UNCHANGED <<minted, queue, chain, restored, disk, memo, strays, faults,
                   captured, refused, dropped>>

\* The server takes the next mutation of the open request, each in its own
\* transaction; one it decided before is answered as a duplicate.
ServerApply ==
    /\ phase = "push" /\ unsent # <<>>
    /\ \E v \in {"applied", "rejected"} :
         LET m == Head(unsent)
             known == memo[m] # "none"
         IN  /\ memo' = IF known THEN memo ELSE [memo EXCEPT ![m] = v]
             /\ results' = results \cup {[mut |-> m, outcome |-> IF known THEN "duplicate" ELSE v]}
    /\ unsent' = Tail(unsent)
    /\ UNCHANGED <<minted, queue, work, aliased, offset, phase, follow, chunk, chain,
                   restored, ask, disk, strays, faults, history>>

Rejected == {r.mut : r \in {x \in results : x.outcome = "rejected"}}

\* The storage writes of parking ms one by one.
ParkEach(ms) == [i \in 1 .. Len(ms) |-> Persist("park", {ms[i]})]

\* After a chunk: the next one, or on to the pull.
NextChunk ==
    /\ aliased' = FALSE
    /\ offset' = offset + MaxBatch
    /\ chunk' = Slice(work, offset')
    /\ unsent' = chunk'
    /\ phase' = IF offset' < Len(work) THEN "push" ELSE "pull"
    /\ results' = {}

\* Mutant: the answered leave the live queue alone, not the device.
SettleMemoryOnly ==
    /\ queue' = Without(queue, Range(chunk))
    /\ chain' = chain

\* parkRejected, then forget of the rest, by id.
Settle ==
    /\ queue' = Without(queue, Range(chunk))
    /\ chain' = chain \o ParkEach(Only(chunk, Rejected))
                  \o <<Persist("remove", Range(chunk) \ Rejected)>>

PushReply ==
    /\ phase = "push" /\ unsent = <<>>
    /\ Settle
    /\ refused' = refused \cup Rejected
    /\ NextChunk
    /\ UNCHANGED <<minted, work, follow, restored, ask, disk, memo, strays, faults,
                   captured, dropped, owed>>

\* The envelope is refused for good (a 4xx that no later attempt can cure),
\* before any of it is applied: all of it is parked.
EnvelopeRefused ==
    /\ phase = "push" /\ unsent = chunk /\ results = {}
    /\ faults < MaxFaults
    /\ faults' = faults + 1
    /\ queue' = Without(queue, Range(chunk))
    /\ chain' = chain \o ParkEach(chunk)
    /\ refused' = refused \cup Range(chunk)
    /\ NextChunk
    /\ UNCHANGED <<minted, work, follow, restored, ask, disk, memo, strays,
                   captured, dropped, owed>>

Released ==
    /\ phase' = "idle"
    /\ work' = <<>> /\ aliased' = FALSE /\ offset' = 0
    /\ chunk' = <<>> /\ unsent' = <<>> /\ results' = {}

\* A drain that ends, well or badly, releases the partition.
EndDrain == Released /\ owed' = [owed EXCEPT !.running = {}]

\* Mutant: only a drain that succeeds releases the partition.
PushFailHolds ==
    /\ phase = "push" /\ faults < MaxFaults
    /\ faults' = faults + 1
    /\ phase' = "held"
    /\ UNCHANGED <<minted, queue, work, aliased, offset, chunk, unsent, results, follow, chain,
                   restored, ask, disk, memo, strays, history>>

\* The request fails at any point of it, its reply included. The queue is
\* kept, and nothing sends it again before the next call for a drain; what the
\* server had not reached it may yet reach.
PushFail ==
    /\ phase = "push" /\ faults < MaxFaults
    /\ faults' = faults + 1
    /\ strays' = strays \cup {unsent}
    /\ EndDrain
    /\ ask' = IF ask = "due" \/ follow THEN ask ELSE "stranded"
    /\ UNCHANGED <<minted, queue, follow, chain, restored, disk, memo,
                   captured, refused, dropped>>

StrayApply(s) ==
    /\ s # <<>>
    /\ \E v \in {"applied", "rejected"} :
         memo' = IF memo[Head(s)] # "none" THEN memo ELSE [memo EXCEPT ![Head(s)] = v]
    /\ strays' = (strays \ {s}) \cup {Tail(s)}
    /\ UNCHANGED <<minted, memory, disk, faults, history>>

\* The pull to the feed's end, or its failure.
PullDone ==
    /\ phase = "pull"
    /\ EndDrain
    /\ UNCHANGED <<minted, queue, follow, chain, restored, ask, disk, memo, strays, faults,
                   captured, refused, dropped>>

PullFail ==
    /\ phase = "pull" /\ faults < MaxFaults
    /\ faults' = faults + 1
    /\ EndDrain
    /\ UNCHANGED <<minted, queue, follow, chain, restored, ask, disk, memo, strays,
                   captured, refused, dropped>>

\* A trip's call is given up where the master's drain it waits for failed
\* (drainTrip, server.ts:116).
CallDropped ==
    /\ ask = "due" /\ faults < MaxFaults
    /\ ask' = IF follow THEN "none" ELSE "stranded"
    /\ faults' = faults + 1
    /\ UNCHANGED <<minted, queue, work, aliased, offset, phase, follow, chunk, unsent, results,
                   chain, restored, disk, memo, strays, history>>

\* The tab goes: memory and the unmade storage writes with it.
Reload ==
    /\ faults < MaxFaults
    /\ faults' = faults + 1
    /\ strays' = IF phase = "push" THEN strays \cup {unsent} ELSE strays
    /\ Released
    /\ queue' = <<>> /\ chain' = <<>>
    /\ follow' = FALSE /\ restored' = "ahead" /\ ask' = "none"
    /\ owed' = [running |-> {}, next |-> {}]
    /\ dropped' = FALSE
    /\ UNCHANGED <<minted, disk, memo, captured, refused>>

Step ==
    \/ PersistWrite \/ Restore \/ Drain \/ FollowUp
    \/ ServerApply \/ PushReply \/ PullDone

Fault ==
    \/ PersistRefused \/ RestoreFails \/ EnvelopeRefused \/ PushFail \/ PullFail
    \/ CallDropped \/ Reload

Next ==
    \/ Enqueue
    \/ Step
    \/ Fault
    \/ \E s \in strays : StrayApply(s)

\* The event loop and the server keep going and faults are finite. A drain is
\* started only where an edit or the boot called for it: nothing obliges a
\* screen, a notice or a reconnect to come and call for one.
Fairness ==
    /\ WF_vars(PersistWrite) /\ WF_vars(Restore)
    /\ WF_vars(ask = "due" /\ Drain) /\ WF_vars(FollowUp)
    /\ WF_vars(ServerApply) /\ WF_vars(PushReply) /\ WF_vars(PullDone)

Spec == Init /\ [][Next]_vars
FairSpec == Spec /\ Fairness

-----------------------------------------------------------------------------
\* Type correctness of the outbox.
TypeOK ==
    /\ minted \in 0 .. MaxMutations
    /\ queue \in Seq(Mutation) /\ work \in Seq(Mutation)
    /\ aliased \in BOOLEAN /\ offset \in Nat
    /\ phase \in {"idle", "push", "pull"}
    /\ follow \in BOOLEAN
    /\ chunk \in Seq(Mutation) /\ unsent \in Seq(Mutation)
    /\ results \subseteq [mut : Mutation, outcome : Outcome]
    /\ chain \in Seq(StorageWrite)
    /\ restored \in {"ahead", "behind", "read", "failed"}
    /\ ask \in {"none", "due", "stranded"}
    /\ pending \subseteq Mutation /\ parked \subseteq Mutation
    /\ memo \in [Mutation -> {"none", "applied", "rejected"}]
    /\ strays \subseteq Seq(Mutation)
    /\ faults \in 0 .. MaxFaults
    /\ captured \subseteq Mutation /\ refused \subseteq Mutation
    /\ dropped \in BOOLEAN
    /\ owed \in [running : SUBSET Mutation, next : SUBSET Mutation]

\* Once the chain of storage writes has settled, everything on the device is
\* in the live queue, and what is in the queue alone needs no keeping: it was
\* answered while restore() was reading it back (outbox.ts:275-297, 415-424).
DiskMirrorsQueue ==
    chain = <<>> /\ restored = "read" /\ ~dropped =>
        /\ pending \subseteq Range(queue)
        /\ \A m \in Range(queue) \ pending : memo[m] # "none" \/ m \in parked

\* A drain that succeeds has had an answer to every mutation that was queued
\* when its callers asked for it; a late caller's drain is the follow-up, never
\* the one already running (outbox.ts:313-318).
DrainAnswersItsCallers ==
    [][phase = "pull" /\ phase' = "idle" /\ faults' = faults
         => \A m \in owed.running : memo[m] # "none" \/ m \in refused]_vars

Place(m) ==
    IF m \in parked THEN "parked"
    ELSE IF m \in pending THEN "kept"
    ELSE IF m > minted THEN "unmade" ELSE "loose"

Delivery == INSTANCE Courier WITH
    Item <- Mutation, place <- [m \in Mutation |-> Place(m)], verdict <- memo

\* The outbox implements the courier: through lost answers, repeated pushes,
\* refused storage writes and reloads, a mutation the device keeps leaves its
\* store with a verdict or as evidence only, evidence stays, and a verdict
\* never changes (outbox.ts:7-11, 372-381, outboxStore.ts:238-285).
IsCourier == Delivery!CourierSpec

Settled(m) == memo[m] # "none" \/ m \in refused

\* The queue empties and everything the device stored is decided by then, by
\* the server or by a refusal of its envelope the device was told of. Where it
\* does not, the last call for a drain came to nothing and no other came
\* (outbox.ts:364, 292-299, server.ts:116): no drain holds the partition, and one
\* call is enough. Of a stored queue that could not be read the session sends
\* nothing (outbox.ts:284-290); its own edits it does send.
EverythingSettles ==
    \/ []<>(queue = <<>> /\ (restored = "failed" \/ \A m \in captured : Settled(m)))
    \/ <>[](ask = "stranded")

-----------------------------------------------------------------------------
(* What a comment of the code promises and the code does not keep. *)

\* "a device that died between them would have dropped a refused mutation
\* without leaving the evidence behind" (outbox.ts:372-374): with its storage
\* writes made, the device still holds what it was told is refused, parked or
\* waiting to be.
EvidenceKept ==
    chain = <<>> /\ ~dropped =>
        \A m \in refused \cap captured : memo[m] = "rejected" => m \in parked \cup pending

\* "reports which partitions have work waiting, so the caller can drain them on
\* boot" (outbox.ts:271-272): what an earlier session left unsent is drained
\* once it is read back, if no drain is at work or promised already.
RestoredWorkIsReported ==
    [][Restore /\ phase = "idle" /\ ~follow /\ (\E m \in pending \ Range(queue) : ~Settled(m))
         => ask' = "due"]_vars

=============================================================================
