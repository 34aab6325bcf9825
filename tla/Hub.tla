-------------------------------- MODULE Hub --------------------------------
(***************************************************************************)
(* The in-memory WebSocket hub (internal/api/hub.go, ws.go and             *)
(* livelocation.go), for one trip: the connections, who is told of what,   *)
(* and the queue and pump of every connection.                             *)
(*                                                                         *)
(* Hub.mu is taken and released several times in one call, and membership  *)
(* and the head of the feed are asked for in between.  A call is therefore *)
(* a list of tasks, each of them one critical section, in `todo` of the    *)
(* goroutine that makes the call: a connection's handler, or the request   *)
(* that pushed a change.  Tasks of different goroutines interleave.        *)
(***************************************************************************)
EXTENDS Integers, Sequences, FiniteSets, FiniteSetsExt

CONSTANTS
  Conns,        \* the connections that may be made
  Users,
  UserOf,       \* the authenticated user of each connection
  Slow,         \* connections whose peer may stop reading; the pump of any
                \* other keeps its queue short
  QueueCap,     \* wsSendQueue, 64 in the code
  Scenes,       \* bound: the connections and the kinds of events of a behaviour,
                \* and how many client frames and closings it has
  MaxHead,      \* bound: changes committed to the trip
  MaxRevokes    \* bound: memberships taken away

API == "api"    \* the goroutine of a pushing request

ASSUME HubAssumption ==
  /\ UserOf \in [Conns -> Users] /\ API \notin Conns
  /\ Slow \subseteq Conns
  /\ QueueCap \in Nat \ {0}
  /\ MaxHead \in Nat /\ MaxRevokes \in Nat
  /\ IsFiniteSet(Conns) /\ IsFiniteSet(Users)

Actors == Conns \cup {API}

VARIABLES
  conn,         \* hub.conns: what the hub knows of each connection
  presenceGen, rosterGen,
  members,      \* store: who may receive the trip's events
  head,         \* store: head of the trip's change feed
  clock,        \* counts accepted positions, and stamps them (fix.at)
  todo,         \* the critical sections a goroutine still has to run
  peer,         \* what each client shows once its queue has been written
  frames,       \* client frames handled so far
  scene,        \* the bounds of this behaviour
  targetsFresh, \* history: the newest presence generation was numbered with
                \* the subscribers of that very moment
  outdated      \* history: <<connection, user>> whose last location frame was
                \* no longer true when it was queued, or is from before the
                \* connection unsubscribed

vars == <<conn, presenceGen, rosterGen, members, head, clock, todo, peer,
          frames, scene, targetsFresh, outdated>>
store == <<members, head>>
gens == <<presenceGen, rosterGen>>

NoFix == 0

newConn ==
  [status |-> "new", subscribed |-> FALSE, viewing |-> FALSE, cursor |-> 0,
   fix |-> NoFix, presenceSent |-> 0, rosterSent |-> 0, out |-> 0]

Client(presence, roster, upTo, where) ==
  [presence |-> presence, roster |-> roster, head |-> upTo, where |-> where]
NewPeer == Client({}, {}, 0, [u \in Users |-> NoFix])

Init ==
  /\ conn = [c \in Conns |-> newConn]
  /\ presenceGen = 0 /\ rosterGen = 0
  /\ members = Users
  /\ head = 0 /\ clock = 0
  /\ todo = [a \in Actors |-> <<>>]
  /\ peer = [c \in Conns |-> NewPeer]
  /\ frames = 0
  /\ scene \in Scenes
  /\ targetsFresh = TRUE
  /\ outdated = {}

----------------------------------------------------------------------------
(* What the hub reads under its lock. *)

Registered == {c \in Conns : conn[c].status \notin {"new", "closed"}}
mayReceive(u) == u \in members
AnySubscriber == {c \in Registered : conn[c].subscribed}
subscribersOf == {c \in Registered : conn[c].subscribed /\ mayReceive(UserOf[c])}

\* The newest position a user shares from any registered connection.
Newest(u) ==
  Max({conn[c].fix : c \in {d \in Registered : UserOf[d] = u}} \cup {NoFix})

\* enqueue: one more frame in the connection's queue, or the peer is given up
\* when that is full.  Nothing reads the queue of a closed connection.  The
\* queue is first in, first out, and its pump the only writer: it is kept as
\* its length, and a queued frame f is applied at once to what the client will
\* have made of all its frames.
Takes(c) == conn[c].status # "closed" /\ conn[c].out < QueueCap
enqueue(c) ==
  IF Takes(c) THEN [conn[c] EXCEPT !.out = IF c \in Slow THEN conn[c].out + 1 ELSE conn[c].out]
  ELSE IF conn[c].status = "open" THEN [conn[c] EXCEPT !.status = "dropped"]
  ELSE conn[c]

Later(m, n) == IF m > n THEN m ELSE n

\* wsRouting: what the client keeps of a frame.
Shown(p, f) ==
  CASE f.kind = "presence" -> Client(f.users, p.roster, Later(p.head, f.head), p.where)
    [] f.kind = "changed"  -> Client(p.presence, p.roster, Later(p.head, f.head), p.where)
    [] f.kind = "roster"   -> Client(p.presence, f.users, p.head, p.where)
    [] f.kind = "location" -> Client(p.presence, p.roster, p.head,
                                     [p.where EXCEPT ![f.user] = f.fix])

\* The frame f(c) to every connection c of `to`.
ShownAt(to, f(_)) ==
  peer' = [c \in Conns |-> IF c \in to /\ Takes(c) THEN Shown(peer[c], f(c)) ELSE peer[c]]

\* A snapshot older than the one a peer holds is not queued.
InAnyOrder(t) == t.to
PresenceDue(t) == {c \in t.to : t.gen > conn[c].presenceSent}
RosterDue(t) == {c \in t.to : t.gen > conn[c].rosterSent}

(* The tasks.  A goroutine runs the first of its list; `then` is the rest. *)

Presence == <<[op |-> "who"]>>
Roster(only) == <<[op |-> "view", only |-> only]>>
Reach(frame, but) == <<[op |-> "reach", frame |-> frame, but |-> but]>>
Location(u, f) == [kind |-> "location", user |-> u, fix |-> f]

\* ClearLocation and clearAllLocations: a position that was shared is taken back.
SaysNothing(c) == <<>>
TakenBack(c) == IF conn[c].fix # NoFix THEN <<[op |-> "gone"]>> ELSE <<>>

Runs(a, op) == todo[a] # <<>> /\ Head(todo[a]).op = op
Now(a, tasks) == todo' = [todo EXCEPT ![a] = tasks \o Tail(todo[a])]

\* broadcastPresence, first: the authorised subscribers.
Who(a) ==
  /\ Runs(a, "who")
  /\ Now(a, <<[op |-> "count", to |-> subscribersOf]>>)
  /\ UNCHANGED <<conn, gens, store, clock, peer, frames, scene, targetsFresh, outdated>>

\* Then the generation, and every listed user's devices and best cursor.
DevicesOf(u, to) == {c \in to : UserOf[c] = u}
Seen(to) == {[user |-> u, devices |-> Cardinality(DevicesOf(u, to)),
              cursor |-> Max({conn[c].cursor : c \in DevicesOf(u, to)})] :
                u \in {UserOf[c] : c \in to}}
Count(a) ==
  /\ Runs(a, "count")
  /\ LET to == Head(todo[a]).to
     IN  /\ presenceGen' = presenceGen + 1
         /\ targetsFresh' = (to = subscribersOf)
         /\ Now(a, <<[op |-> "tell", to |-> to, gen |-> presenceGen', seen |-> Seen(to)]>>)
  /\ UNCHANGED <<conn, rosterGen, store, clock, peer, frames, scene, outdated>>

\* Last, the head of the feed and the send, to peers that hold nothing newer.
Tell(a) ==
  /\ Runs(a, "tell")
  /\ LET t == Head(todo[a])
         due == PresenceDue(t)
         frame(c) == [kind |-> "presence", head |-> head,
                      users |-> {[user |-> s.user, devices |-> s.devices,
                                  inSync |-> head = 0 \/ s.cursor >= head] : s \in t.seen}]
     IN  /\ conn' = [c \in Conns |-> IF c \in due
                                     THEN [enqueue(c) EXCEPT !.presenceSent = t.gen]
                                     ELSE conn[c]]
         /\ ShownAt(due, frame)
  /\ Now(a, <<>>)
  /\ UNCHANGED <<gens, store, clock, frames, scene, targetsFresh, outdated>>

\* broadcastRoster, first: generation, targets and who has the trip open.
View(a) ==
  /\ Runs(a, "view")
  /\ rosterGen' = rosterGen + 1
  /\ LET only == Head(todo[a]).only
     IN  Now(a, <<[op |-> "show", gen |-> rosterGen', only |-> only,
                   to |-> IF only THEN {a} \cap Registered ELSE Registered,
                   viewing |-> {UserOf[c] : c \in {d \in Registered : conn[d].viewing}}]>>)
  /\ UNCHANGED <<conn, presenceGen, store, clock, peer, frames, scene, targetsFresh, outdated>>

\* The people a user is shown: both sides must be allowed the trip.
RosterFor(u, viewing) ==
  IF mayReceive(u) THEN {v \in viewing \ {u} : mayReceive(v)} ELSE {}

\* Then every target its own roster, unless it holds a newer one.
Show(a) ==
  /\ Runs(a, "show")
  /\ LET t == Head(todo[a])
         frame(c) == [kind |-> "roster", users |-> RosterFor(UserOf[c], t.viewing)]
         due == {c \in RosterDue(t) : ~(t.only /\ frame(c).users = {})}
     IN  /\ conn' = [c \in Conns |-> IF c \in due
                                     THEN [enqueue(c) EXCEPT !.rosterSent = t.gen]
                                     ELSE conn[c]]
         /\ ShownAt(due, frame)
  /\ Now(a, <<>>)
  /\ UNCHANGED <<gens, store, clock, frames, scene, targetsFresh, outdated>>

\* broadcast and sendToOthers: the receivers are read, the frame follows.
ReachOut(a) ==
  /\ Runs(a, "reach")
  /\ LET t == Head(todo[a])
     IN  Now(a, <<[op |-> "pass", frame |-> t.frame,
                   to |-> {c \in subscribersOf : UserOf[c] # t.but}]>>)
  /\ UNCHANGED <<conn, gens, store, clock, peer, frames, scene, targetsFresh, outdated>>

\* send: the frame goes to whoever was read, whatever has happened since.
Send(a) ==
  LET t == Head(todo[a])
      f == t.frame
      frame(c) == f
      about(to) == {<<c, f.user>> : c \in to}
  IN  /\ conn' = [c \in Conns |-> IF c \in t.to THEN enqueue(c) ELSE conn[c]]
      /\ ShownAt(t.to, frame)
      /\ outdated' = IF f.kind # "location" THEN outdated
                     ELSE IF f.fix = Newest(f.user) THEN outdated \ about(t.to \cap AnySubscriber)
                     ELSE outdated \cup about(t.to)
      /\ Now(a, <<>>)
      /\ UNCHANGED <<gens, store, clock, frames, scene, targetsFresh>>

PassWaiting(a) == Runs(a, "pass") /\ (\A c \in Head(todo[a]).to : Takes(c)) /\ Send(a)
Pass(a) == Runs(a, "pass") /\ Send(a)

\* announceGone: another device of the user speaks for them, or nobody does.
Gone(a) ==
  /\ Runs(a, "gone")
  /\ Now(a, Reach(Location(UserOf[a], Newest(UserOf[a])), UserOf[a]))
  /\ UNCHANGED <<conn, gens, store, clock, peer, frames, scene, targetsFresh, outdated>>

\* sendLocationsTo: what the others share now, for one that just subscribed.
Greet(a) ==
  /\ Runs(a, "greet")
  /\ LET there == IF mayReceive(UserOf[a])
                  THEN {u \in Users \ {UserOf[a]} : Newest(u) # NoFix} ELSE {}
     IN  \E order \in [1..Cardinality(there) -> there] :
           /\ \A u \in there : \E i \in DOMAIN order : order[i] = u
           /\ Now(a, [i \in DOMAIN order |->
                        [op |-> "pass", to |-> {a},
                         frame |-> Location(order[i], Newest(order[i]))]])
  /\ UNCHANGED <<conn, gens, store, clock, peer, frames, scene, targetsFresh, outdated>>

\* Unregister, after its positions are taken back: out of hub.conns, and the
\* trip and everyone's roster are told.
Leave(a) ==
  /\ Runs(a, "leave")
  /\ conn' = [conn EXCEPT ![a] = [[conn[a] EXCEPT !.status = "closed"] EXCEPT !.out = 0]]
  /\ Now(a, (IF conn[a].subscribed THEN Presence ELSE <<>>)
            \o (IF conn[a].viewing THEN Roster(FALSE) ELSE <<>>))
  /\ UNCHANGED <<gens, store, clock, peer, frames, scene, targetsFresh, outdated>>

----------------------------------------------------------------------------
(* handleWS: a connection registers, handles one frame after the other, and *)
(* unregisters when its read fails.                                        *)

Register(c) ==
  /\ c \in scene.conns /\ conn[c].status = "new"
  /\ conn' = [conn EXCEPT ![c] = [conn[c] EXCEPT !.status = "open"]]
  /\ todo' = [todo EXCEPT ![c] = Roster(TRUE)]
  /\ UNCHANGED <<gens, store, clock, peer, frames, scene, targetsFresh, outdated>>

\* One frame of an open connection, when its handler is back in its read.
Frame(c, kind, row, tasks) ==
  /\ kind \in scene.events
  /\ conn[c].status \in {"open", "dropped"} /\ todo[c] = <<>>
  /\ frames < scene.frames
  /\ frames' = frames + 1
  /\ conn' = [conn EXCEPT ![c] = row]
  /\ todo' = [todo EXCEPT ![c] = tasks]
  /\ UNCHANGED <<gens, store, peer, scene, targetsFresh>>

Subscribe(c) ==
  /\ UserOf[c] \in members
  /\ Frame(c, "subscribe", [conn[c] EXCEPT !.subscribed = TRUE], Presence \o <<[op |-> "greet"]>>)
  /\ UNCHANGED <<clock, outdated>>

Unsubscribe(c) ==
  /\ LET off == [[conn[c] EXCEPT !.subscribed = FALSE] EXCEPT !.cursor = 0]
     IN  Frame(c, "unsubscribe", [off EXCEPT !.fix = NoFix], TakenBack(c) \o Presence)
  /\ outdated' = outdated \cup ({c} \X Users)
  /\ UNCHANGED clock

\* A trip the caller is not a member of is treated as none.
SetViewing(c, wants) ==
  LET on == wants /\ UserOf[c] \in members
  IN  /\ Frame(c, "viewing", [conn[c] EXCEPT !.viewing = on],
               IF on # conn[c].viewing THEN Roster(FALSE) ELSE <<>>)
      /\ UNCHANGED <<clock, outdated>>

\* The client reports the cursor its last pull returned; any it can hold.
UpdateCursor(c) ==
  /\ \E seq \in conn[c].cursor..head :
       Frame(c, "cursor", [conn[c] EXCEPT !.cursor = seq], Presence)
  /\ UNCHANGED <<clock, outdated>>

\* A fix that is valid and not too soon; any other changes nothing.
SetLocation(c) ==
  /\ UserOf[c] \in members
  /\ clock' = clock + 1
  /\ Frame(c, "location", [conn[c] EXCEPT !.fix = clock'],
           Reach(Location(UserOf[c], clock'), UserOf[c]))
  /\ UNCHANGED outdated

ClearLocation(c) ==
  /\ conn[c].fix # NoFix
  /\ Frame(c, "stop", [conn[c] EXCEPT !.fix = NoFix], TakenBack(c))
  /\ UNCHANGED <<clock, outdated>>

Ping(c) ==
  /\ Frame(c, "ping", enqueue(c), <<>>)
  /\ UNCHANGED <<clock, outdated>>

\* The read fails: the peer is gone or fell idle, or the hub dropped it.
Close(c) ==
  /\ conn[c].status \in {"open", "dropped"} /\ todo[c] = <<>>
  /\ conn[c].status = "open" => frames < scene.frames
  /\ frames' = frames + (IF conn[c].status = "open" THEN 1 ELSE 0)
  /\ conn' = [conn EXCEPT ![c] = [[conn[c] EXCEPT !.status = "dropped"] EXCEPT !.fix = NoFix]]
  /\ todo' = [todo EXCEPT ![c] = TakenBack(c) \o <<[op |-> "leave"]>>]
  /\ UNCHANGED <<gens, store, clock, peer, scene, targetsFresh, outdated>>

\* pump: a slow peer reads what is queued for it.
Pump(c) ==
  /\ conn[c].status \in {"open", "dropped"} /\ conn[c].out > 0
  /\ conn' = [conn EXCEPT ![c] = [conn[c] EXCEPT !.out = 0]]
  /\ UNCHANGED <<gens, store, clock, todo, peer, frames, scene, targetsFresh, outdated>>

\* A push commits and announces what it wrote (NotifyTripChanged).
Commit ==
  /\ "commit" \in scene.events
  /\ head < MaxHead /\ todo[API] = <<>>
  /\ head' = head + 1
  /\ todo' = [todo EXCEPT ![API] = Reach([kind |-> "changed", head |-> head'], "nobody")]
  /\ UNCHANGED <<conn, gens, members, clock, peer, frames, scene, targetsFresh, outdated>>

\* A member is removed or an account deactivated; the hub is told nothing.
Revoke(u) ==
  /\ "revoke" \in scene.events
  /\ u \in members /\ Cardinality(Users \ members) < MaxRevokes
  /\ members' = members \ {u}
  /\ UNCHANGED <<conn, gens, head, clock, todo, peer, frames, scene, targetsFresh, outdated>>

Task(a) == \/ Who(a) \/ Count(a) \/ Tell(a) \/ View(a) \/ Show(a)
           \/ ReachOut(a) \/ Pass(a) \/ Gone(a) \/ Greet(a) \/ Leave(a)

Next ==
  \/ \E a \in Actors : Task(a)
  \/ \E c \in Conns : \/ Register(c) \/ Subscribe(c) \/ Unsubscribe(c)
                      \/ SetViewing(c, TRUE) \/ SetViewing(c, FALSE)
                      \/ UpdateCursor(c) \/ SetLocation(c) \/ ClearLocation(c)
                      \/ Ping(c) \/ Close(c) \/ Pump(c)
  \/ Commit
  \/ \E u \in Users : Revoke(u)

\* The Go scheduler does not rest while a goroutine can run, and the read of
\* a dropped connection fails.  A slow peer need never read again.
Fairness ==
  /\ WF_vars(\E a \in Actors : Task(a))
  /\ WF_vars(\E c \in Conns : conn[c].status = "dropped" /\ Close(c))

Spec == Init /\ [][Next]_vars /\ Fairness

----------------------------------------------------------------------------
(* Properties. *)

\* Type correctness of the hub: a send queue never holds more than wsSendQueue
\* frames, no peer was sent a generation that was not counted, and nobody is
\* listed without a device.
TypeOK ==
  /\ \A c \in Conns :
       /\ conn[c].status \in {"new", "open", "dropped", "closed"}
       /\ conn[c].subscribed \in BOOLEAN /\ conn[c].viewing \in BOOLEAN
       /\ conn[c].cursor \in 0..head /\ conn[c].fix \in 0..clock
       /\ conn[c].presenceSent \in 0..presenceGen
       /\ conn[c].rosterSent \in 0..rosterGen
       /\ conn[c].out \in 0..QueueCap
       /\ peer[c].roster \subseteq Users /\ peer[c].head \in 0..MaxHead
       /\ \A p \in peer[c].presence : p.user \in Users /\ p.devices > 0
  /\ members \subseteq Users /\ head \in 0..MaxHead /\ clock \in 0..scene.frames

\* No call of the hub is under way.
Quiet == \A a \in Actors : todo[a] = <<>>
Intact == members = Users
Live(c) == conn[c].status = "open"

\* Once nothing is under way, every connected client shows exactly the other
\* people who have the trip open, however the calls of broadcastRoster
\* overtook each other between their snapshot and their sends.
RosterSettles ==
  Quiet /\ Intact =>
    \A c \in Conns : Live(c) =>
      peer[c].roster = {UserOf[d] : d \in {e \in Registered : conn[e].viewing}} \ {UserOf[c]}

\* Once nothing is under way, every subscriber shows the trip's people with
\* their devices, and nobody who has caught up as behind, provided that the
\* newest presence generation was taken with the subscribers of that moment.
\* broadcastPresence reads them before it takes the generation, so that the
\* proviso can fail: see the README.
PresenceSettles ==
  Quiet /\ Intact /\ targetsFresh =>
    \A c \in Conns : Live(c) /\ conn[c].subscribed =>
      /\ {<<p.user, p.devices>> : p \in peer[c].presence} =
           {<<u, Cardinality(DevicesOf(u, subscribersOf))>> :
              u \in {UserOf[d] : d \in subscribersOf}}
      /\ \A p \in peer[c].presence :
           (\E d \in subscribersOf : UserOf[d] = p.user /\ conn[d].cursor >= head)
             => p.inSync

\* Once nothing is under way, a subscriber shows another person where their
\* newest sharing device put them, and nobody who shares no more, except where
\* the last frame it was sent was outdated before it was queued, or it showed
\* the position of an earlier subscription of the same connection
\* (sendLocationsTo names nobody who has stopped in between).
LocationsSettle ==
  Quiet /\ Intact =>
    \A c \in Conns, u \in Users :
      Live(c) /\ conn[c].subscribed /\ u # UserOf[c] /\ <<c, u>> \notin outdated
        => peer[c].where[u] = Newest(u)

\* A revoked member hears nothing more of the trip: only a send that had asked
\* for its receivers before the revocation may still reach one.
InFlightTo(c) == \E a \in Actors : \E i \in DOMAIN todo[a] :
                   /\ todo[a][i].op \in {"count", "tell", "pass"}
                   /\ c \in todo[a][i].to
NothingAfterRevocation ==
  [][\A c \in Conns :
       UserOf[c] \notin members /\ ~InFlightTo(c) =>
         /\ ~InFlightTo(c)'
         /\ peer'[c].presence = peer[c].presence
         /\ peer'[c].head = peer[c].head /\ peer'[c].where = peer[c].where]_vars

\* Every committed change reaches every subscriber that reads, as a notice or
\* in a presence frame, or the subscription ends: a peer that has stopped
\* reading delays nobody else.
ReadersAreTold ==
  \A c \in Conns \ Slow, h \in 1..MaxHead :
    (head >= h /\ conn[c].subscribed /\ conn[c].status = "open") ~>
      (peer[c].head >= h \/ ~conn[c].subscribed \/ conn[c].status # "open"
         \/ UserOf[c] \notin members)
=============================================================================
