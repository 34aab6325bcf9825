------------------------------ MODULE Backend ------------------------------
(***************************************************************************)
(* A `server` client's backend (client/src/composables/backend/server.ts): *)
(* when one device drains its two partitions, the master one and a trip's. *)
(* It composes the calls of sync/outbox.ts (drain, whenSent, restore) with *)
(* the socket of sync/webSocket.ts, the boot and the resume of App.vue and *)
(* the notices of the server's hub. What one drain does to the queue and   *)
(* to its copy on the device is Outbox's.                                  *)
(*                                                                         *)
(* An async function is a job: the steps it has yet to take, and what it   *)
(* awaits. JavaScript finishes every job that can go on before the next    *)
(* event (an answer, a frame, a click) is handled: Settled. A step of the  *)
(* server between two steps of jobs is one before or after them, for no    *)
(* job reads the server's state.                                           *)
(***************************************************************************)
EXTENDS Naturals, Sequences, FiniteSets, Bags, BagsExt

CONSTANTS
    MaxWrites,      \* bound: acts of the user that write, and commits of other
                    \* devices, together
    MaxFaults,      \* bound: failed requests, lost sockets and restarts
    MaxJobs         \* bound: jobs at one time

ASSUME BackendAssumption ==
    /\ MaxWrites \in Nat /\ MaxFaults \in Nat
    /\ MaxJobs \in Nat \ {0}

Partition == {"master", "trip"}
Act == 1 .. MaxWrites

VARIABLES
    act,        \* what each act of the user wrote, so far
    queue,      \* the outbox's queue of each partition: acts unanswered
    run,        \* the drain of each partition: its stage, its snapshot of the
                \* queue and the head its last pull was served
    follow,     \* queuedDrain: a follow-up is promised
    cursor,     \* the cursor the last pull left
    jobs,       \* the async functions under way, a bag
    booted,     \* connect() was called in this session
    opened,     \* the trip is in subscribedTrips, and in the socket's channels
    sock,       \* the client's socket: none, dialing or open
    wanted, everOpened,
    asked,      \* a subscribe frame is on its way
    hub,        \* what the hub knows of the socket: off, on, or sub (to the trip)
    notices,    \* changed frames on their way to this device
    head,       \* head of each change feed
    foreign,    \* commits of other devices so far
    applied,    \* server: the acts whose write it has, by partition
    refused,    \* server: trip writes refused because their master row is missing
    faults,
    missed      \* history: a commit was not told to this device, or a pull of it
                \* failed, and no pull was asked for since

device == <<queue, run, follow, cursor, jobs>>
socket == <<sock, wanted, everOpened, asked, hub, notices>>
server == <<head, foreign, applied, refused>>
vars == <<act, device, booted, opened, socket, server, faults, missed>>

Idle == [stage |-> "idle", batch |-> {}, upTo |-> 0]
None == [p \in Partition |-> 0]

Init ==
    /\ act = <<>>
    /\ queue = [p \in Partition |-> {}]
    /\ run = [p \in Partition |-> Idle]
    /\ follow = [p \in Partition |-> FALSE]
    /\ cursor = None
    /\ jobs = EmptyBag
    /\ booted = FALSE /\ opened = FALSE
    /\ sock = "none" /\ wanted = FALSE /\ everOpened = FALSE
    /\ asked = FALSE /\ hub = "off" /\ notices = None
    /\ head = None /\ foreign = 0
    /\ applied = [p \in Partition |-> {}] /\ refused = {}
    /\ faults = 0
    /\ missed = [p \in Partition |-> FALSE]

----------------------------------------------------------------------------
(* Jobs.  The first step of a plan is the one under way: while `on` is       *)
(* "run" the job awaits the running drain, while "follow" the promised one.  *)
(* `owes` is what was queued for master when the job asked whenSent.         *)

DrainMaster == <<"master">>
DrainTrip == <<"sent", "rest", "trip">>      \* whenSent, in two awaits; drain
CatchUp == DrainMaster \o <<"trips">>

PartitionOf(step) == IF step = "trip" THEN "trip" ELSE "master"

Job(plan) == [plan |-> plan, on |-> "none", owes |-> {}]
Awaits(j, what, p) == j.on = what /\ PartitionOf(Head(j.plan)) = p

CanRun(j) == j.on = "none"
CanFollow(p) == follow[p] /\ run[p].stage = "idle"
Settled == (\A j \in BagToSet(jobs) : ~CanRun(j)) /\ \A p \in Partition : ~CanFollow(p)

Room == BagCardinality(jobs) < MaxJobs
Starts(plan) == jobs' = BagAdd(jobs, Job(plan))

Becomes(j, k) == LET others == BagRemove(jobs, j)
                 IN  IF k.plan = <<>> THEN others ELSE BagAdd(others, k)
StepsOn(j) == [plan |-> Tail(j.plan), on |-> "none", owes |-> j.owes]
EachBecomes(after(_)) ==
    LET all == BagOfAll(after, jobs)
    IN  [j \in {k \in DOMAIN all : k.plan # <<>>} |-> all[j]]
Waits(j, what) ==
    Becomes(j, [plan |-> j.plan, on |-> what,
                owes |-> IF Head(j.plan) = "rest" THEN j.owes ELSE {}])

\* The queue in memory; before connect() has restored it, it is empty.
Live(p) == IF booted THEN queue[p] ELSE {}

\* A drain takes its snapshot of the queue; an empty one goes straight to the pull.
Started(p) == [stage |-> IF Live(p) = {} THEN "pull" ELSE "push",
               batch |-> Live(p), upTo |-> 0]

\* Mutant: a late caller is handed the drain that is running.
AsksShared(j, p) ==
    /\ run' = IF run[p].stage = "idle" THEN [run EXCEPT ![p] = Started(p)] ELSE run
    /\ jobs' = Waits(j, "run")
    /\ UNCHANGED follow

\* outbox.drain, awaited by job j.
Asks(j, p) ==
    IF run[p].stage = "idle"
    THEN /\ run' = [run EXCEPT ![p] = Started(p)]
         /\ jobs' = Waits(j, "run")
         /\ UNCHANGED follow
    ELSE /\ follow' = [follow EXCEPT ![p] = TRUE]
         /\ jobs' = Waits(j, "follow")
         /\ UNCHANGED run

Takes(j, step) == CanRun(j) /\ Head(j.plan) = step

\* drainMaster, or the drain of drainTrip.
Drains(j) ==
    /\ \E p \in Partition : Takes(j, p) /\ Asks(j, p)
    /\ UNCHANGED <<act, queue, cursor, booted, opened, socket, server, faults, missed>>

\* whenSent: the running drain of master is waited out, whatever comes of it.
WhenSent(j) ==
    /\ Takes(j, "sent")
    /\ LET asking(on) == [plan |-> j.plan, on |-> on, owes |-> Live("master")]
       IN  jobs' = Becomes(j, IF run["master"].stage = "idle" THEN StepsOn(asking("none"))
                                                            ELSE asking("run"))
    /\ UNCHANGED <<act, queue, run, follow, cursor, booted, opened, socket, server, faults, missed>>

\* Mutant: what the running drain did not take is left to its own drain.
NothingLeft(j) ==
    /\ jobs' = Becomes(j, StepsOn(j))
    /\ UNCHANGED <<run, follow>>

\* Then what that drain did not take is drained.
LeftOver(j) ==
    IF Live("master") = {}
    THEN jobs' = Becomes(j, StepsOn(j)) /\ UNCHANGED <<run, follow>>
    ELSE Asks(j, "master")

WhenRestSent(j) ==
    /\ Takes(j, "rest")
    /\ LeftOver(j)
    /\ UNCHANGED <<act, queue, cursor, booted, opened, socket, server, faults, missed>>

\* Mutant: only the master partition is caught up.
NoTrips == <<>>

\* catchUp's loop over the subscribed trips.
SubscribedTrips == IF opened THEN DrainTrip ELSE <<>>

EachTrip(j) ==
    /\ Takes(j, "trips")
    /\ jobs' = Becomes(j, [j EXCEPT !.plan = SubscribedTrips \o Tail(j.plan)])
    /\ UNCHANGED <<act, queue, run, follow, cursor, booted, opened, socket, server, faults, missed>>

\* connect() has drained what was restored: a socket is wanted.
ConnectSocket(j) ==
    /\ Takes(j, "ws")
    /\ wanted' = TRUE
    /\ sock' = IF sock = "none" THEN "dialing" ELSE sock
    /\ jobs' = Becomes(j, StepsOn(j))
    /\ UNCHANGED <<act, queue, run, follow, cursor, booted, opened,
                   everOpened, asked, hub, notices, server, faults, missed>>

\* The promised drain starts once nothing runs, for all who wait for it.
FollowUp(p) ==
    /\ CanFollow(p)
    /\ follow' = [follow EXCEPT ![p] = FALSE]
    /\ run' = [run EXCEPT ![p] = Started(p)]
    /\ jobs' = EachBecomes(LAMBDA j : IF Awaits(j, "follow", p) THEN [j EXCEPT !.on = "run"] ELSE j)
    /\ UNCHANGED <<act, queue, cursor, booted, opened, socket, server, faults, missed>>

\* A drain ends. Only the rest of whenSent hands a failure on, and the trip's
\* drain is then given up; every other step swallows it.
Ends(p, ok) ==
    LET after(j) == IF ~Awaits(j, "run", p) THEN j
                    ELSE IF ~ok /\ Head(j.plan) = "rest" THEN StepsOn(StepsOn(j))
                    ELSE StepsOn(j)
    IN  /\ run' = [run EXCEPT ![p] = Idle]
        /\ jobs' = EachBecomes(after)

----------------------------------------------------------------------------
(* The network and the server. *)

\* A running drain goes on to its next request.
Reaches(p, stage, batch, upTo) ==
    [run EXCEPT ![p] = [stage |-> stage, batch |-> batch, upTo |-> upTo]]

\* What the hub says of a commit to p, if it knows this socket by now: a trip's
\* to its subscribers, a master one to the devices of the user who made it
\* (mine), and to nobody else.
Told(p, mine) == IF p = "trip" THEN hub = "sub" ELSE mine /\ hub \in {"on", "sub"}
Commits(p, mine) ==
    /\ head' = [head EXCEPT ![p] = @ + 1]
    /\ notices' = IF Told(p, mine) THEN [notices EXCEPT ![p] = @ + 1] ELSE notices
    /\ missed' = IF Told(p, mine) THEN missed ELSE [missed EXCEPT ![p] = TRUE]

\* A trip row that names a master row the server does not have is refused
\* (the foreign keys of trip_items, schema.sql:350-353).
Refused(p, acts) ==
    IF p = "master" THEN {} ELSE {a \in acts : act[a] = "both" /\ a \notin applied["master"]}

\* The server handles an open push; every write it has met before it remembers.
PushArrives(p) ==
    /\ run[p].stage = "push" /\ Settled
    /\ run' = Reaches(p, "answer", run[p].batch, run[p].upTo)
    /\ LET new == run[p].batch \ (applied[p] \cup (IF p = "trip" THEN refused ELSE {}))
           no == Refused(p, new)
       IN  /\ refused' = refused \cup no
           /\ applied' = [applied EXCEPT ![p] = @ \cup (new \ no)]
           /\ IF new \ no = {} THEN UNCHANGED <<head, notices, missed>> ELSE Commits(p, TRUE)
    /\ UNCHANGED <<act, queue, follow, cursor, jobs, booted, opened,
                   sock, wanted, everOpened, asked, hub, foreign, faults>>

\* Its answer: the refused are parked, the rest forgotten; on to the pull.
PushAnswered(p) ==
    /\ run[p].stage = "answer" /\ Settled
    /\ queue' = [queue EXCEPT ![p] = @ \ run[p].batch]
    /\ run' = Reaches(p, "pull", {}, run[p].upTo)
    /\ UNCHANGED <<act, follow, cursor, jobs, booted, opened, socket, server, faults, missed>>

PullServed(p) ==
    /\ run[p].stage = "pull" /\ Settled
    /\ run' = Reaches(p, "page", run[p].batch, head[p])
    /\ UNCHANGED <<act, queue, follow, cursor, jobs, booted, opened, socket, server, faults, missed>>

PullAnswered(p) ==
    /\ run[p].stage = "page" /\ Settled
    /\ cursor' = [cursor EXCEPT ![p] = run[p].upTo]
    /\ Ends(p, TRUE)
    /\ UNCHANGED <<act, queue, follow, booted, opened, socket, server, faults, missed>>

\* The request of the running drain fails, before or after the server had it.
RequestFails(p) ==
    /\ run[p].stage # "idle" /\ faults < MaxFaults /\ Settled
    /\ faults' = faults + 1
    /\ Ends(p, FALSE)
    /\ missed' = [q \in Partition |-> missed[q] \/ q = p \/
                    \E j \in BagToSet(jobs) : Awaits(j, "run", p) /\ Head(j.plan) = "rest"]
    /\ UNCHANGED <<act, queue, follow, cursor, booted, opened, socket, server>>

\* Another device of this user's, or another user's, writes.
ForeignCommit(p, mine) ==
    /\ Len(act) + foreign < MaxWrites /\ Settled
    /\ foreign' = foreign + 1
    /\ Commits(p, mine)
    /\ UNCHANGED <<act, device, booted, opened, sock, wanted, everOpened, asked, hub,
                   applied, refused, faults>>

----------------------------------------------------------------------------
(* What happens to the device. *)

AsksAgain(ps) == missed' = [p \in Partition |-> missed[p] /\ p \notin ps]

\* push of an act's batches: with a master write among them the trips follow
\* it (drainPartitions), else the trip is drained alone.
Writes(kind) ==
    /\ booted /\ Len(act) + foreign < MaxWrites /\ Room /\ Settled
    /\ act' = Append(act, kind)
    /\ queue' = [p \in Partition |-> IF kind \in {p, "both"} THEN queue[p] \cup {Len(act')} ELSE queue[p]]
    /\ Starts(CASE kind = "master" -> DrainMaster
                [] kind = "trip" -> DrainTrip
                [] kind = "both" -> DrainMaster \o DrainTrip)
    /\ UNCHANGED <<run, follow, cursor, booted, opened, socket, server, faults, missed>>

\* connect(), then App's drainMaster: restored partitions first, in the order
\* of their oldest entries.
Oldest(p) == CHOOSE a \in queue[p] : \A b \in queue[p] : a <= b
Restored ==
    LET some == {p \in Partition : queue[p] # {}}
    IN  IF some = Partition
        THEN IF Oldest("master") <= Oldest("trip") THEN DrainMaster \o DrainTrip
                                                   ELSE DrainTrip \o DrainMaster
        ELSE IF some = {"master"} THEN DrainMaster
        ELSE IF some = {"trip"} THEN DrainTrip ELSE <<>>

Boot ==
    /\ ~booted /\ Room /\ Settled
    /\ booted' = TRUE
    /\ Starts(Restored \o <<"ws">> \o DrainMaster)
    /\ AsksAgain({"master"})
    /\ UNCHANGED <<act, queue, run, follow, cursor, opened, socket, server, faults>>

\* useTripScreen: subscribe, and drain.
OpenTrip ==
    /\ ~opened /\ Room /\ Settled
    /\ opened' = TRUE
    /\ asked' = (asked \/ sock = "open")
    /\ Starts(DrainTrip)
    /\ AsksAgain({"trip"})
    /\ UNCHANGED <<act, queue, run, follow, cursor, booted,
                   sock, wanted, everOpened, hub, notices, server, faults>>

\* The app is back in view or online again.
Resume ==
    /\ booted /\ Room /\ Settled
    /\ sock' = IF wanted /\ sock = "none" THEN "dialing" ELSE sock
    /\ Starts(CatchUp)
    /\ AsksAgain(IF opened THEN Partition ELSE {"master"})
    /\ UNCHANGED <<act, queue, run, follow, cursor, booted, opened,
                   wanted, everOpened, asked, hub, notices, server, faults>>

\* The socket's onopen: the channels are told to it; every open but the first
\* of this composable's life is followed by a catch-up.
SocketOpens ==
    /\ sock = "dialing" /\ Room /\ Settled
    /\ sock' = "open" /\ everOpened' = TRUE
    /\ asked' = opened
    /\ IF everOpened THEN /\ Starts(CatchUp)
                          /\ AsksAgain(IF opened THEN Partition ELSE {"master"})
                     ELSE UNCHANGED <<jobs, missed>>
    /\ UNCHANGED <<act, queue, run, follow, cursor, booted, opened, wanted, hub, notices, server, faults>>

\* The hub registers an upgraded connection, and handles its subscribe frame.
HubRegisters ==
    /\ sock # "none" /\ hub = "off" /\ Settled
    /\ hub' = "on"
    /\ UNCHANGED <<act, device, booted, opened, sock, wanted, everOpened, asked, notices,
                   server, faults, missed>>

HubSubscribes ==
    /\ hub = "on" /\ asked /\ Settled
    /\ hub' = "sub" /\ asked' = FALSE
    /\ UNCHANGED <<act, device, booted, opened, sock, wanted, everOpened, notices,
                   server, faults, missed>>

\* A changed frame arrives.
Notice(p) ==
    /\ sock = "open" /\ notices[p] > 0 /\ Room /\ Settled
    /\ notices' = [notices EXCEPT ![p] = @ - 1]
    /\ Starts(IF p = "master" THEN DrainMaster ELSE DrainTrip)
    /\ UNCHANGED <<act, queue, run, follow, cursor, booted, opened,
                   sock, wanted, everOpened, asked, hub, server, faults, missed>>

\* The connection breaks: the frames on it are lost. A client that hears no
\* close goes on believing in it until its watchdog gives up.
ConnectionLost ==
    /\ sock # "none" /\ hub # "dead" /\ faults < MaxFaults /\ Settled
    /\ faults' = faults + 1
    /\ hub' = "dead" /\ asked' = FALSE /\ notices' = None
    /\ missed' = [p \in Partition |-> missed[p] \/ notices[p] > 0]
    /\ UNCHANGED <<act, device, booted, opened, sock, wanted, everOpened, server>>

SocketCloses ==
    /\ sock # "none" /\ hub = "dead" /\ Settled
    /\ sock' = "none" /\ hub' = "off" /\ asked' = FALSE
    /\ UNCHANGED <<act, device, booted, opened, wanted, everOpened, notices, server, faults, missed>>

Redials ==
    /\ wanted /\ sock = "none" /\ Settled
    /\ sock' = "dialing"
    /\ UNCHANGED <<act, device, booted, opened, wanted, everOpened, asked, hub, notices,
                   server, faults, missed>>

\* The tab goes, and comes back with what the device kept: the queue.
Restarts ==
    /\ booted /\ Settled
    /\ faults < MaxFaults /\ faults' = faults + 1
    /\ run' = [p \in Partition |-> Idle]
    /\ follow' = [p \in Partition |-> FALSE]
    /\ cursor' = None /\ jobs' = EmptyBag
    /\ booted' = FALSE /\ opened' = FALSE
    /\ sock' = "none" /\ wanted' = FALSE /\ everOpened' = FALSE
    /\ asked' = FALSE /\ hub' = "off" /\ notices' = None
    /\ missed' = [p \in Partition |-> TRUE]
    /\ UNCHANGED <<act, queue, server>>

Micro ==
    \/ \E j \in BagToSet(jobs) :
         Drains(j) \/ WhenSent(j) \/ WhenRestSent(j) \/ EachTrip(j) \/ ConnectSocket(j)
    \/ \E p \in Partition : FollowUp(p)

Next ==
    \/ Micro
    \/ \E p \in Partition :
         \/ PushArrives(p) \/ PushAnswered(p) \/ PullServed(p) \/ PullAnswered(p)
         \/ RequestFails(p) \/ Notice(p)
         \/ \E mine \in BOOLEAN : ForeignCommit(p, mine)
    \/ \E kind \in {"master", "trip", "both"} : Writes(kind)
    \/ Boot \/ OpenTrip \/ Resume
    \/ SocketOpens \/ HubRegisters \/ HubSubscribes \/ SocketCloses \/ Redials
    \/ ConnectionLost \/ Restarts

Spec == Init /\ [][Next]_vars

----------------------------------------------------------------------------
(* Properties. *)

JobType == [plan : Seq({"master", "sent", "rest", "trip", "trips", "ws"}),
            on : {"none", "run", "follow"}, owes : SUBSET Act]

\* Type correctness of the backend: at most one drain of a partition runs, a
\* job exists while it has steps, and a promised follow-up waits for a run.
TypeOK ==
    /\ act \in Seq({"master", "trip", "both"}) /\ Len(act) + foreign <= MaxWrites
    /\ queue \in [Partition -> SUBSET Act]
    /\ run \in [Partition -> [stage : {"idle", "push", "answer", "pull", "page"},
                              batch : SUBSET Act, upTo : Nat]]
    /\ follow \in [Partition -> BOOLEAN]
    /\ cursor \in [Partition -> Nat]
    /\ IsABag(jobs) /\ BagCardinality(jobs) <= MaxJobs
    /\ \A j \in BagToSet(jobs) : j \in JobType /\ j.plan # <<>>
    /\ \A p \in Partition, j \in BagToSet(jobs) :
         /\ Awaits(j, "run", p) => run[p].stage # "idle"
         /\ Awaits(j, "follow", p) => follow[p]
    /\ booted \in BOOLEAN /\ opened \in BOOLEAN
    /\ sock \in {"none", "dialing", "open"} /\ wanted \in BOOLEAN /\ everOpened \in BOOLEAN
    /\ asked \in BOOLEAN /\ hub \in {"off", "on", "sub", "dead"}
    /\ notices \in [Partition -> Nat]
    /\ head \in [Partition -> Nat] /\ foreign \in Nat
    /\ applied \in [Partition -> SUBSET Act] /\ refused \subseteq Act
    /\ faults \in 0 .. MaxFaults
    /\ missed \in [Partition -> BOOLEAN]

\* whenSent keeps its word: when drainTrip goes on to the trip's own drain,
\* every master write that was queued when it asked has been answered, whatever
\* drain answered it and whichever of them failed (outbox.ts:217-229).
WhenSentIsSent ==
    \A j \in BagToSet(jobs) : Takes(j, "trip") => j.owes \cap queue["master"] = {}

Quiet ==
    /\ jobs = EmptyBag /\ notices = None /\ ~asked
    /\ \A p \in Partition : run[p].stage = "idle" /\ ~follow[p]

\* When nothing is under way, the device has every commit it was told of, and
\* every one from before its last boot, opening, reconnect or resume whose pull
\* did not fail (server.ts:75-95, outbox.ts:313-318).
QuietIsCurrent ==
    Quiet => \A p \in Partition : missed[p] \/ cursor[p] = head[p]

\* Everything is asked for when the app comes back, so it comes back current:
\* a failed drain, a dead socket or a lost notice heals with the next resume
\* that meets no fault (server.ts:195-204).
Healed == \A p \in Partition : queue[p] = {} /\ cursor[p] = head[p]
ResumeHeals == <>[]Healed

\* The event loop, the timers and the server go on; the trip is opened and the
\* user keeps coming back to the app.  Room is a bound of the model: what only
\* waits for it is strongly fair.
Fairness ==
    /\ WF_vars(Micro)
    /\ \A p \in Partition :
         /\ WF_vars(PushArrives(p)) /\ WF_vars(PushAnswered(p))
         /\ WF_vars(PullServed(p)) /\ WF_vars(PullAnswered(p))
         /\ SF_vars(Notice(p))
    /\ SF_vars(SocketOpens) /\ WF_vars(SocketCloses) /\ WF_vars(Redials)
    /\ SF_vars(Boot) /\ SF_vars(OpenTrip) /\ WF_vars(Resume)

FairSpec == Spec /\ Fairness

----------------------------------------------------------------------------
(* What comments of the code promise and the code does not keep. *)

\* "So a master write that is queued or on the wire goes first"
\* (server.ts:110-116): no trip write is refused for want of its master row.
MasterGoesFirst == refused = {}

\* "The first open is covered by the boot pull" (server.ts:76-77): a device
\* that met no fault is current when nothing is under way.
BootPullCovers ==
    Quiet /\ hub = "sub" /\ faults = 0 => \A p \in Partition : cursor[p] = head[p]

============================================================================
