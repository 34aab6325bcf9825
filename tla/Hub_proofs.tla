----------------------------- MODULE Hub_proofs -----------------------------
(***************************************************************************)
(* Theorems about the hub, for every number of connections, people, frames *)
(* and kinds of events, and for queues of every length.                    *)
(*                                                                         *)
(* A broadcast takes its snapshot and its generation in one critical       *)
(* section and is sent in a later one, so that broadcasts overtake each    *)
(* other.  RosterInv and PresenceInv say what is true in between: of the   *)
(* snapshots a client is still due, the newest one is the truth, and a     *)
(* client that is due none shows the truth already, unless a task that     *)
(* will take a snapshot is waiting.                                        *)
(***************************************************************************)
EXTENDS Hub, SequenceTheorems, FiniteSetTheorems, WellFoundedInduction, TLAPS

IsList(s) == \E S : s \in Seq(S)

\* What a goroutine still has to run, and what all of them have.
Work(a) == Range(todo[a])
Pending == UNION {Work(a) : a \in Actors}

\* A goroutine has run the tasks `old` and put `new` first.
Did(a, old, new) ==
    /\ todo' = [b \in Actors |-> todo'[b]]
    /\ IsList(todo'[a])
    /\ \A b \in Actors \ {a} : todo'[b] = todo[b]
    /\ \E rest : Range(todo[a]) = old \cup rest /\ Range(todo'[a]) = new \cup rest

Lists ==
    /\ todo = [a \in Actors |-> todo[a]]
    /\ \A a \in Actors : IsList(todo[a])

(* What the hub's state always looks like. *)

Row == [status : {"new", "open", "dropped", "closed"}, subscribed : BOOLEAN,
        viewing : BOOLEAN, cursor : Nat, fix : Nat, presenceSent : Nat,
        rosterSent : Nat, out : Nat]

Rows ==
    /\ conn \in [Conns -> Row]
    /\ presenceGen \in Nat /\ rosterGen \in Nat /\ head \in Nat /\ clock \in Nat
    /\ members \subseteq Users
    /\ \A c \in Conns :
         /\ conn[c].presenceSent <= presenceGen /\ conn[c].rosterSent <= rosterGen
         /\ conn[c].cursor <= head

TaskOK(t) ==
    /\ t.op \in {"who", "count", "tell", "view", "show", "reach", "pass", "gone", "greet", "leave"}
    /\ t.op \in {"reach", "pass"} => t.frame.kind \in {"changed", "location"}
    /\ t.op = "tell" => t.gen \in 0 .. presenceGen
    /\ t.op = "view" => t.only \in BOOLEAN
    /\ t.op = "show" =>
         /\ t.gen \in 0 .. rosterGen /\ t.only \in BOOLEAN /\ t.viewing \subseteq Users
         /\ \A c \in Conns : c \in t.to => conn[c].status # "new"
Tasks == \A t \in Pending : TaskOK(t)

\* A connection that has not been made.
Unmade ==
    \A c \in Conns : conn[c].status = "new" =>
      /\ todo[c] = <<>> /\ peer[c].roster = {}
      /\ conn[c].viewing = FALSE /\ conn[c].subscribed = FALSE

Shape == Lists /\ Rows /\ Tasks /\ Unmade

(* Rosters. *)

Viewers == {UserOf[d] : d \in {e \in Registered : conn[e].viewing}}
ViewPending == \E t \in Pending : t.op = "view" /\ ~t.only
GreetedSoon(c) == \E t \in Work(c) : t.op = "view" /\ t.only
\* The rosters under way that a connection will be sent.
RosterDueAt(c, t) ==
    /\ t.op = "show" /\ c \in t.to /\ t.gen > conn[c].rosterSent
    /\ ~(t.only /\ t.viewing \ {UserOf[c]} = {})
RostersDue(c) == {t \in Pending : RosterDueAt(c, t)}
RosterComes(c) ==
    /\ \A t \in RostersDue(c) :
         (\A s \in RostersDue(c) : s.gen <= t.gen)
           => t.viewing \ {UserOf[c]} = Viewers \ {UserOf[c]}
    /\ RostersDue(c) = {} =>
         \/ peer[c].roster = Viewers \ {UserOf[c]}
         \/ GreetedSoon(c) /\ peer[c].roster = {}
RosterInv == Intact /\ ~ViewPending => \A c \in Conns : Live(c) => RosterComes(c)

(* Presence. *)

CountPending == \E t \in Pending : t.op \in {"who", "count"}
PresenceDueAt(c, t) == t.op = "tell" /\ c \in t.to /\ t.gen > conn[c].presenceSent
PresencesDue(c) == {t \in Pending : PresenceDueAt(c, t)}
ShowsPeople(c) ==
    /\ {<<p.user, p.devices>> : p \in peer[c].presence} =
         {<<u, Cardinality(DevicesOf(u, subscribersOf))>> : u \in {UserOf[d] : d \in subscribersOf}}
    /\ \A p \in peer[c].presence :
         (\E d \in subscribersOf : UserOf[d] = p.user /\ conn[d].cursor >= head) => p.inSync
PresenceComes(c) ==
    /\ \A t \in PresencesDue(c) :
         (\A s \in PresencesDue(c) : s.gen <= t.gen) => t.seen = Seen(subscribersOf)
    /\ PresencesDue(c) = {} => ShowsPeople(c)
PresenceInv ==
    Intact /\ targetsFresh /\ ~CountPending =>
      \A c \in Conns : Live(c) /\ conn[c].subscribed => PresenceComes(c)

HubInv == Shape /\ RosterInv /\ PresenceInv

-----------------------------------------------------------------------------
(* Lists of tasks. *)

\* The empty list.
LEMMA NoTask == IsList(<<>>) /\ Range(<<>>) = {}
<1>1. <<>> \in Seq({})
  OBVIOUS
<1>2. DOMAIN <<>> = {}
  OBVIOUS
<1>3. Range(<<>>) = {}
  BY <1>2 DEF Range
<1> QED  BY <1>1, <1>3 DEF IsList

\* A list of one task.
LEMMA OneTask ==
  ASSUME NEW x
  PROVE  IsList(<<x>>) /\ Range(<<x>>) = {x}
<1>1. <<x>> \in Seq({x})
  OBVIOUS
<1>2. DOMAIN <<x>> = {1} /\ <<x>>[1] = x
  OBVIOUS
<1>3. Range(<<x>>) = {x}
  BY <1>2 DEF Range
<1> QED  BY <1>1, <1>3 DEF IsList

\* One list after another holds what both hold.
LEMMA TwoLists ==
  ASSUME NEW s, NEW t, IsList(s), IsList(t)
  PROVE  IsList(s \o t) /\ Range(s \o t) = Range(s) \cup Range(t)
<1>1. PICK S : s \in Seq(S)
  BY DEF IsList
<1>2. PICK T : t \in Seq(T)
  BY DEF IsList
<1> DEFINE U == S \cup T
<1>3. s \in Seq(U) /\ t \in Seq(U)
  BY <1>1, <1>2, SeqMonotonic
<1> HIDE DEF U
<1>4. s \o t \in Seq(U)
  BY <1>3
<1>5. /\ DOMAIN s = 1 .. Len(s) /\ DOMAIN t = 1 .. Len(t)
      /\ DOMAIN (s \o t) = 1 .. Len(s \o t)
      /\ Len(s) \in Nat /\ Len(t) \in Nat /\ Len(s \o t) = Len(s) + Len(t)
  BY <1>3, <1>4, LenProperties, ConcatProperties
<1>6. \A i \in 1 .. Len(s) : (s \o t)[i] = s[i]
  BY <1>3, <1>5, ConcatProperties
<1>7. \A i \in 1 .. Len(t) : (s \o t)[Len(s) + i] = t[i] /\ Len(s) + i \in 1 .. Len(s \o t)
  BY <1>3, <1>5, ConcatProperties
<1>8. \A i \in 1 .. Len(s \o t) : i \in 1 .. Len(s) \/ \E j \in 1 .. Len(t) : i = Len(s) + j
  <2> SUFFICES ASSUME NEW i \in 1 .. Len(s \o t), i \notin 1 .. Len(s)
               PROVE  \E j \in 1 .. Len(t) : i = Len(s) + j
    OBVIOUS
  <2>1. i - Len(s) \in 1 .. Len(t) /\ i = Len(s) + (i - Len(s))
    BY <1>5
  <2> QED  BY <2>1
<1>9. Range(s \o t) \subseteq Range(s) \cup Range(t)
  <2> SUFFICES ASSUME NEW i \in 1 .. Len(s \o t)
               PROVE  (s \o t)[i] \in Range(s) \cup Range(t)
    BY <1>5 DEF Range
  <2>1. CASE i \in 1 .. Len(s)
    <3>1. (s \o t)[i] = s[i]
      BY <2>1, <1>6
    <3> QED  BY <3>1, <2>1, <1>5 DEF Range
  <2>2. CASE \E j \in 1 .. Len(t) : i = Len(s) + j
    <3>1. PICK j \in 1 .. Len(t) : i = Len(s) + j
      BY <2>2
    <3>2. (s \o t)[i] = t[j]
      BY <3>1, <1>7
    <3> QED  BY <3>1, <3>2, <1>5 DEF Range
  <2> QED  BY <1>8, <2>1, <2>2
<1>10. Range(s) \subseteq Range(s \o t)
  <2>1. \A i \in 1 .. Len(s) : i \in 1 .. Len(s \o t)
    BY <1>5
  <2>2. \A i \in 1 .. Len(s) : s[i] \in Range(s \o t)
    BY <2>1, <1>5, <1>6 DEF Range
  <2> QED  BY <2>2, <1>5 DEF Range
<1>11. Range(t) \subseteq Range(s \o t)
  <2>1. \A i \in 1 .. Len(t) : t[i] \in Range(s \o t)
    BY <1>5, <1>7 DEF Range
  <2> QED  BY <2>1, <1>5 DEF Range
<1> QED  BY <1>4, <1>9, <1>10, <1>11 DEF IsList

\* A list that is not empty is its first task and the rest.
LEMMA FirstAndRest ==
  ASSUME NEW s, IsList(s), s # <<>>
  PROVE  IsList(Tail(s)) /\ Range(s) = {Head(s)} \cup Range(Tail(s))
<1>1. PICK S : s \in Seq(S)
  BY DEF IsList
<1>2. /\ Tail(s) \in Seq(S) /\ Head(s) = s[1] /\ Len(s) \in Nat \ {0}
      /\ Len(Tail(s)) = Len(s) - 1 /\ \A i \in 1 .. Len(Tail(s)) : Tail(s)[i] = s[i + 1]
  BY <1>1, HeadTailProperties, LenProperties, EmptySeq
<1>3. DOMAIN s = 1 .. Len(s) /\ DOMAIN Tail(s) = 1 .. Len(Tail(s))
  BY <1>1, <1>2, LenProperties
<1>4. \A i \in 1 .. Len(s) : i = 1 \/ (i - 1 \in 1 .. Len(Tail(s)) /\ (i - 1) + 1 = i)
  BY <1>2
<1>5. 1 \in 1 .. Len(s) /\ \A i \in 1 .. Len(Tail(s)) : i + 1 \in 1 .. Len(s)
  BY <1>2
<1>6. Range(s) \subseteq {Head(s)} \cup Range(Tail(s))
  <2> SUFFICES ASSUME NEW i \in 1 .. Len(s)
               PROVE  s[i] = Head(s) \/ \E j \in 1 .. Len(Tail(s)) : s[i] = Tail(s)[j]
    BY <1>3 DEF Range
  <2>1. CASE i = 1
    BY <2>1, <1>2
  <2>2. CASE i - 1 \in 1 .. Len(Tail(s)) /\ (i - 1) + 1 = i
    <3>1. PICK j : j = i - 1
      OBVIOUS
    <3> QED  BY <3>1, <2>2, <1>2
  <2> QED  BY <1>4, <2>1, <2>2
<1>7. {Head(s)} \cup Range(Tail(s)) \subseteq Range(s)
  BY <1>2, <1>3, <1>5 DEF Range
<1> QED  BY <1>2, <1>6, <1>7 DEF IsList

\* Now runs the first task of a list and puts others in its place.
LEMMA NowDid ==
  ASSUME Lists, NEW a \in Actors, todo[a] # <<>>, NEW tasks, IsList(tasks), Now(a, tasks)
  PROVE  Did(a, {Head(todo[a])}, Range(tasks))
<1>1. IsList(todo[a])
  BY DEF Lists
<1>2. IsList(Tail(todo[a])) /\ Range(todo[a]) = {Head(todo[a])} \cup Range(Tail(todo[a]))
  BY <1>1, FirstAndRest
<1>3. todo'[a] = tasks \o Tail(todo[a]) /\ \A b \in Actors \ {a} : todo'[b] = todo[b]
  BY DEF Now, Lists
<1>4. todo' = [b \in Actors |-> todo'[b]]
  BY DEF Now, Lists
<1>5. IsList(todo'[a]) /\ Range(todo'[a]) = Range(tasks) \cup Range(Tail(todo[a]))
  BY <1>2, <1>3, TwoLists
<1> QED  BY <1>2, <1>3, <1>4, <1>5 DEF Did

\* A handler back in its read gets a new list.
LEMMA PutDid ==
  ASSUME Lists, NEW a \in Actors, todo[a] = <<>>, NEW tasks, IsList(tasks),
         todo' = [todo EXCEPT ![a] = tasks]
  PROVE  Did(a, {}, Range(tasks))
<1>1. todo'[a] = tasks /\ \A b \in Actors \ {a} : todo'[b] = todo[b]
  BY DEF Lists
<1>2. todo' = [b \in Actors |-> todo'[b]]
  BY DEF Lists
<1>3. Range(todo[a]) = {}
  BY NoTask
<1> QED  BY <1>1, <1>2, <1>3 DEF Did

\* A step that runs no task.
LEMMA IdleDid ==
  ASSUME Lists, NEW a \in Actors, todo' = todo
  PROVE  Did(a, {}, {})
  BY DEF Lists, Did

\* What a step leaves to do.
LEMMA DidWork ==
  ASSUME Lists, NEW a \in Actors, NEW old, NEW new, Did(a, old, new)
  PROVE  /\ Lists'
         /\ \A b \in Actors \ {a} : Work(b)' = Work(b)
         /\ Work(a)' \subseteq Work(a) \cup new /\ new \subseteq Work(a)'
         /\ Work(a) \subseteq Work(a)' \cup old /\ old \subseteq Work(a)
  BY DEF Lists, Did, Work

\* The same for all goroutines together.
LEMMA DidPending ==
  ASSUME Lists, NEW a \in Actors, NEW old, NEW new, Did(a, old, new)
  PROVE  /\ Pending' \subseteq Pending \cup new /\ new \subseteq Pending'
         /\ Pending \subseteq Pending' \cup old /\ old \subseteq Pending
<1>1. /\ \A b \in Actors \ {a} : Work(b)' = Work(b)
      /\ Work(a)' \subseteq Work(a) \cup new /\ new \subseteq Work(a)'
      /\ Work(a) \subseteq Work(a)' \cup old /\ old \subseteq Work(a)
  BY DidWork
<1> QED  BY <1>1, Zenon DEF Pending

-----------------------------------------------------------------------------
(* Steps that leave rosters, or presence, alone. *)

SameRosters ==
    \A c \in Conns :
      /\ conn'[c].viewing = conn[c].viewing /\ conn'[c].rosterSent = conn[c].rosterSent
      /\ peer'[c].roster = peer[c].roster
      /\ Live(c)' => Live(c)
      /\ conn[c].viewing => (c \in Registered' <=> c \in Registered)

SamePresence ==
    \A c \in Conns :
      /\ conn'[c].subscribed = conn[c].subscribed /\ conn'[c].cursor = conn[c].cursor
      /\ conn'[c].presenceSent = conn[c].presenceSent
      /\ peer'[c].presence = peer[c].presence
      /\ conn[c].subscribed => (Live(c)' => Live(c)) /\ (c \in Registered' <=> c \in Registered)

\* A step with no task about rosters.
LEMMA RostersKept ==
  ASSUME HubInv, NEW a \in Actors, NEW old, NEW new, Did(a, old, new),
         \A t \in old \cup new : t.op \notin {"view", "show"},
         members' = members, SameRosters
  PROVE  RosterInv'
<1>1. /\ Pending' \subseteq Pending \cup new /\ Pending \subseteq Pending' \cup old
      /\ \A c \in Conns : Work(c) \subseteq Work(c)' \cup old
  <2>1. Conns \subseteq Actors
    BY DEF Actors
  <2> QED  BY <2>1, DidPending, DidWork DEF HubInv, Shape
<1>2. Viewers' = Viewers
  BY DEF Viewers, SameRosters, Registered
<1>3. ~ViewPending' => ~ViewPending
  BY <1>1 DEF ViewPending
<1>4. \A c \in Conns : RostersDue(c)' = RostersDue(c)
  BY <1>1 DEF RostersDue, RosterDueAt, SameRosters
<1>5. \A c \in Conns : GreetedSoon(c) => GreetedSoon(c)'
  BY <1>1 DEF GreetedSoon
<1>6. Intact' => Intact
  BY DEF Intact
<1>7. \A c \in Conns : (Live(c)' => Live(c)) /\ peer'[c].roster = peer[c].roster
  BY DEF SameRosters
<1>8. \A c \in Conns : RosterComes(c) => RosterComes(c)'
  BY <1>2, <1>4, <1>5, <1>7 DEF RosterComes
<1> QED  BY <1>3, <1>6, <1>7, <1>8 DEF HubInv, RosterInv

\* While subscribers and their cursors stay, the people seen are the same, and
\* a client that showed them still does.
LEMMA SamePeople ==
  ASSUME subscribersOf' = subscribersOf, subscribersOf \subseteq Conns,
         \A c \in subscribersOf : conn'[c].cursor = conn[c].cursor /\ conn[c].cursor \in Nat,
         head \in Nat, head' \in Nat, head' >= head
  PROVE  /\ Seen(subscribersOf)' = Seen(subscribersOf)
         /\ \A c \in Conns : peer'[c].presence = peer[c].presence /\ ShowsPeople(c) => ShowsPeople(c)'
<1>1. Seen(subscribersOf)' = Seen(subscribersOf)
  <2>1. PICK S : S = subscribersOf
    OBVIOUS
  <2>2. ASSUME NEW u
        PROVE  {conn'[c].cursor : c \in DevicesOf(u, S)} = {conn[c].cursor : c \in DevicesOf(u, S)}
    BY <2>1 DEF DevicesOf
  <2>3. Seen(S)' = Seen(S)
    BY <2>2 DEF Seen
  <2>4. Seen(subscribersOf)' = Seen(S)' /\ Seen(subscribersOf) = Seen(S)
    BY <2>1 DEF Seen, DevicesOf
  <2> QED  BY <2>3, <2>4
<1>2. ASSUME NEW c \in Conns, peer'[c].presence = peer[c].presence, ShowsPeople(c)
      PROVE  ShowsPeople(c)'
  <2>1. \A d \in subscribersOf : conn'[d].cursor >= head' => conn[d].cursor >= head
    OBVIOUS
  <2>2. \A u : DevicesOf(u, subscribersOf)' = DevicesOf(u, subscribersOf)
    BY DEF DevicesOf
  <2>3. \A p \in peer'[c].presence :
          (\E d \in subscribersOf' : UserOf[d] = p.user /\ conn'[d].cursor >= head') => p.inSync
    BY <1>2, <2>1, Zenon DEF ShowsPeople
  <2> QED  BY <1>2, <2>2, <2>3, Zenon DEF ShowsPeople
<1> QED  BY <1>1, <1>2

\* A step with no task about presence.
LEMMA PresenceKept ==
  ASSUME HubInv, NEW a \in Actors, NEW old, NEW new, Did(a, old, new),
         \A t \in old \cup new : t.op \notin {"who", "count", "tell"},
         members' = members, targetsFresh' = targetsFresh,
         head' \in Nat, head' >= head, SamePresence
  PROVE  PresenceInv'
<1>1. Pending' \subseteq Pending \cup new /\ Pending \subseteq Pending' \cup old
  BY DidPending DEF HubInv, Shape
<1>2. subscribersOf' = subscribersOf /\ subscribersOf \subseteq Conns
  BY DEF subscribersOf, SamePresence, Registered, mayReceive
<1>3. ~CountPending' => ~CountPending
  BY <1>1 DEF CountPending
<1>4. \A c \in Conns : PresencesDue(c)' = PresencesDue(c)
  BY <1>1 DEF PresencesDue, PresenceDueAt, SamePresence
<1>5. \A c \in subscribersOf : conn'[c].cursor = conn[c].cursor /\ conn[c].cursor \in Nat
  BY <1>2 DEF SamePresence, HubInv, Shape, Rows, Row
<1>6. /\ Seen(subscribersOf)' = Seen(subscribersOf)
      /\ \A c \in Conns : ShowsPeople(c) => ShowsPeople(c)'
  BY <1>2, <1>5, SamePeople DEF SamePresence, HubInv, Shape, Rows
<1>7. (Intact /\ targetsFresh)' => Intact /\ targetsFresh
  BY DEF Intact
<1>8. \A c \in Conns : PresenceComes(c) => PresenceComes(c)'
  BY <1>4, <1>6 DEF PresenceComes
<1>9. \A c \in Conns : (Live(c) /\ conn[c].subscribed)' => Live(c) /\ conn[c].subscribed
  BY DEF SamePresence
<1> QED  BY <1>3, <1>7, <1>8, <1>9 DEF HubInv, PresenceInv
-----------------------------------------------------------------------------
(* What the state always looks like. *)

\* A step that puts sound tasks and keeps the rows sound.
LEMMA ShapeKept ==
  ASSUME Shape, NEW a \in Actors, NEW old, NEW new, Did(a, old, new), Rows',
         presenceGen' >= presenceGen, rosterGen' >= rosterGen,
         \A t \in new : TaskOK(t)',
         \A c \in Conns : conn'[c].status = "new" =>
            /\ c # a /\ conn[c].status = "new" /\ peer'[c].roster = peer[c].roster
            /\ conn'[c].viewing = conn[c].viewing /\ conn'[c].subscribed = conn[c].subscribed
  PROVE  Shape'
<1>1. Lists' /\ Pending' \subseteq Pending \cup new
  BY DidWork, DidPending DEF Shape
<1>2. \A t \in Pending : TaskOK(t)'
  <2> SUFFICES ASSUME NEW t \in Pending
               PROVE  TaskOK(t)'
    OBVIOUS
  <2>1. TaskOK(t)
    BY DEF Shape, Tasks
  <2>2. /\ presenceGen \in Nat /\ presenceGen' \in Nat /\ rosterGen \in Nat /\ rosterGen' \in Nat
    BY DEF Shape, Rows
  <2>3. \A c \in Conns : conn'[c].status = "new" => conn[c].status = "new"
    OBVIOUS
  <2> QED  BY <2>1, <2>2, <2>3 DEF TaskOK
<1>3. Tasks'
  BY <1>1, <1>2 DEF Tasks
<1>4. Unmade'
  <2>1. \A c \in Conns : c # a => todo'[c] = todo[c]
    BY DEF Did, Actors
  <2> QED  BY <2>1 DEF Unmade, Shape
<1> QED  BY <1>1, <1>3, <1>4 DEF Shape

\* enqueue counts a frame or gives the peer up; it keeps everything else.
LEMMA EnqueueRow ==
  ASSUME Rows, NEW c \in Conns
  PROVE  /\ enqueue(c) \in Row
         /\ enqueue(c).subscribed = conn[c].subscribed /\ enqueue(c).viewing = conn[c].viewing
         /\ enqueue(c).cursor = conn[c].cursor /\ enqueue(c).fix = conn[c].fix
         /\ enqueue(c).presenceSent = conn[c].presenceSent
         /\ enqueue(c).rosterSent = conn[c].rosterSent
         /\ enqueue(c).status = "open" => conn[c].status = "open" /\ Takes(c)
         /\ enqueue(c).status = "new" => conn[c].status = "new"
         /\ enqueue(c).status = "closed" <=> conn[c].status = "closed"
         /\ conn[c].status = "new" => enqueue(c).status = "new"
<1>1. conn[c] \in Row
  BY DEF Rows
<1>2. CASE Takes(c)
  <2>1. PICK n \in Nat : enqueue(c) = [conn[c] EXCEPT !.out = n]
    BY <1>1, <1>2 DEF enqueue, Row
  <2>2. [conn[c] EXCEPT !.out = n] \in Row
    BY <1>1 DEF Row
  <2>3. LET r == [conn[c] EXCEPT !.out = n]
        IN  /\ r.subscribed = conn[c].subscribed /\ r.viewing = conn[c].viewing
            /\ r.cursor = conn[c].cursor /\ r.fix = conn[c].fix
            /\ r.presenceSent = conn[c].presenceSent /\ r.rosterSent = conn[c].rosterSent
            /\ r.status = conn[c].status
    BY <1>1 DEF Row
  <2> QED  BY <1>2, <2>1, <2>2, <2>3
<1>3. CASE ~Takes(c) /\ conn[c].status = "open"
  <2>1. enqueue(c) = [conn[c] EXCEPT !.status = "dropped"]
    BY <1>3 DEF enqueue
  <2> QED  BY <1>1, <1>3, <2>1 DEF Row
<1>4. CASE ~Takes(c) /\ conn[c].status # "open"
  <2>1. enqueue(c) = conn[c]
    BY <1>4 DEF enqueue
  <2> QED  BY <1>1, <1>4, <2>1 DEF Row
<1> QED  BY <1>2, <1>3, <1>4

\* What the client keeps of a frame.
LEMMA ShownKeeps ==
  ASSUME NEW p, NEW f
  PROVE  /\ f.kind = "presence" => /\ Shown(p, f).roster = p.roster
                                   /\ Shown(p, f).presence = f.users
         /\ f.kind \in {"changed", "location"} => /\ Shown(p, f).roster = p.roster
                                                  /\ Shown(p, f).presence = p.presence
         /\ f.kind = "roster" => /\ Shown(p, f).roster = f.users
                                 /\ Shown(p, f).presence = p.presence
                                 /\ Shown(p, f).head = p.head /\ Shown(p, f).where = p.where
  BY DEF Shown, Client

\* The first task of a goroutine is one under way.
LEMMA FirstIsPending ==
  ASSUME Shape, NEW a \in Actors, todo[a] # <<>>
  PROVE  Head(todo[a]) \in Pending /\ TaskOK(Head(todo[a]))
<1>1. Head(todo[a]) \in Work(a)
  BY FirstAndRest DEF Shape, Lists, Work
<1> QED  BY <1>1 DEF Pending, Shape, Tasks

\* A step of a task that only reads.
LEMMA ReadsOnly ==
  ASSUME HubInv, NEW a \in Actors, todo[a] # <<>>, conn' = conn, peer' = peer
  PROVE  /\ SameRosters /\ SamePresence
         /\ Rows /\ Lists /\ Shape
         /\ a \in Conns => conn[a].status # "new"
         /\ \A c \in Conns : conn'[c].status = "new" =>
              /\ c # a /\ conn[c].status = "new" /\ peer'[c].roster = peer[c].roster
              /\ conn'[c].viewing = conn[c].viewing /\ conn'[c].subscribed = conn[c].subscribed
<1>1. a \in Conns => conn[a].status # "new"
  BY DEF HubInv, Shape, Unmade
<1> QED  BY <1>1 DEF HubInv, Shape, SameRosters, SamePresence, Live, Registered

-----------------------------------------------------------------------------
(* The tasks. *)

\* broadcastPresence has read its receivers.
LEMMA WhoKeeps ==
  ASSUME HubInv, NEW a \in Actors, Who(a)
  PROVE  HubInv'
<1> DEFINE new == {[op |-> "count", to |-> subscribersOf]}
<1>1. /\ todo[a] # <<>> /\ conn' = conn /\ peer' = peer /\ members' = members
      /\ head' = head /\ targetsFresh' = targetsFresh
      /\ presenceGen' = presenceGen /\ rosterGen' = rosterGen /\ clock' = clock
      /\ Now(a, <<[op |-> "count", to |-> subscribersOf]>>)
      /\ Head(todo[a]).op = "who"
  BY DEF Who, Runs, gens, store
<1>2. Did(a, {Head(todo[a])}, new)
  BY <1>1, ReadsOnly, NowDid, OneTask
<1>3. new \subseteq Pending' /\ \A t \in new : t.op = "count"
  BY <1>2, DidPending DEF HubInv, Shape
<1>4. Rows'
  BY <1>1, ReadsOnly DEF Rows
<1>5. Shape'
  <2>1. \A t \in new : TaskOK(t)'
    BY DEF TaskOK
  <2> QED  BY <1>1, <1>2, <1>4, <2>1, ReadsOnly, ShapeKept DEF Rows
<1>6. RosterInv'
  BY <1>1, <1>2, <1>3, ReadsOnly, RostersKept
<1>7. PresenceInv'
  BY <1>3 DEF PresenceInv, CountPending
<1> QED  BY <1>5, <1>6, <1>7 DEF HubInv

\* broadcast and sendToOthers have read their receivers.
LEMMA ReachOutKeeps ==
  ASSUME HubInv, NEW a \in Actors, ReachOut(a)
  PROVE  HubInv'
<1>1. /\ todo[a] # <<>> /\ conn' = conn /\ peer' = peer /\ members' = members
      /\ head' = head /\ targetsFresh' = targetsFresh
      /\ presenceGen' = presenceGen /\ rosterGen' = rosterGen /\ clock' = clock
      /\ Head(todo[a]).op = "reach"
  BY DEF ReachOut, Runs, gens, store
<1>2. PICK task : /\ task.op = "pass" /\ task.frame = Head(todo[a]).frame
                  /\ Now(a, <<task>>)
  BY DEF ReachOut
<1>3. Did(a, {Head(todo[a])}, {task})
  BY <1>1, <1>2, ReadsOnly, NowDid, OneTask
<1>4. Rows'
  BY <1>1, ReadsOnly DEF Rows
<1>5. Shape'
  <2>1. Head(todo[a]).frame.kind \in {"changed", "location"}
    BY <1>1, FirstIsPending DEF HubInv, TaskOK
  <2>2. \A t \in {task} : TaskOK(t)'
    BY <1>2, <2>1 DEF TaskOK
  <2> QED  BY <1>1, <1>3, <1>4, <2>2, ReadsOnly, ShapeKept DEF Rows
<1>6. RosterInv'
  BY <1>1, <1>2, <1>3, ReadsOnly, RostersKept
<1>7. PresenceInv'
  BY <1>1, <1>2, <1>3, ReadsOnly, PresenceKept DEF Rows
<1> QED  BY <1>5, <1>6, <1>7 DEF HubInv

\* announceGone has found who speaks for the user.
LEMMA GoneKeeps ==
  ASSUME HubInv, NEW a \in Actors, Gone(a)
  PROVE  HubInv'
<1>1. /\ todo[a] # <<>> /\ conn' = conn /\ peer' = peer /\ members' = members
      /\ head' = head /\ targetsFresh' = targetsFresh
      /\ presenceGen' = presenceGen /\ rosterGen' = rosterGen /\ clock' = clock
      /\ Head(todo[a]).op = "gone"
  BY DEF Gone, Runs, gens, store
<1>2. PICK task : task.op = "reach" /\ task.frame.kind = "location" /\ Now(a, <<task>>)
  BY DEF Gone, Reach, Location
<1>3. Did(a, {Head(todo[a])}, {task})
  BY <1>1, <1>2, ReadsOnly, NowDid, OneTask
<1>4. Rows'
  BY <1>1, ReadsOnly DEF Rows
<1>5. Shape'
  <2>2. \A t \in {task} : TaskOK(t)'
    BY <1>2 DEF TaskOK
  <2> QED  BY <1>1, <1>3, <1>4, <2>2, ReadsOnly, ShapeKept DEF Rows
<1>6. RosterInv'
  BY <1>1, <1>2, <1>3, ReadsOnly, RostersKept
<1>7. PresenceInv'
  BY <1>1, <1>2, <1>3, ReadsOnly, PresenceKept DEF Rows
<1> QED  BY <1>5, <1>6, <1>7 DEF HubInv

\* What sendLocationsTo puts: positions for the greeted connection alone, one
\* of everyone who shares, and none if it may not receive them.
GreetPuts(a, new) ==
    /\ \A t \in new : /\ t.op = "pass" /\ t.frame.kind = "location"
                      /\ t.to = {a} /\ mayReceive(UserOf[a])
                      /\ t.frame.user \in Users
    /\ mayReceive(UserOf[a]) =>
         \A u \in Users \ {UserOf[a]} :
           Newest(u) # NoFix => \E t \in new : t.frame.user = u

LEMMA GreetTasks ==
  ASSUME HubInv, NEW a \in Actors, Greet(a)
  PROVE  \E new : Did(a, {Head(todo[a])}, new) /\ GreetPuts(a, new)
<1>1. todo[a] # <<>> /\ Lists
  BY DEF Greet, Runs, HubInv, Shape
<1>2. PICK there, order :
        /\ there = IF mayReceive(UserOf[a])
                   THEN {u \in Users \ {UserOf[a]} : Newest(u) # NoFix} ELSE {}
        /\ order \in [1 .. Cardinality(there) -> there]
        /\ \A u \in there : \E i \in DOMAIN order : order[i] = u
        /\ Now(a, [i \in DOMAIN order |->
                     [op |-> "pass", to |-> {a}, frame |-> Location(order[i], Newest(order[i]))]])
  BY DEF Greet
<1> DEFINE task(i) == [op |-> "pass", to |-> {a}, frame |-> Location(order[i], Newest(order[i]))]
           tasks == [i \in DOMAIN order |-> task(i)]
<1>3. there \subseteq Users /\ Cardinality(there) \in Nat /\ (there = {} => Cardinality(there) = 0)
  BY <1>2, HubAssumption, FS_Subset, FS_CardinalityType, FS_EmptySet
<1>4. IsList(tasks)
  <2>1. tasks \in [1 .. Cardinality(there) -> Range(tasks)]
    BY <1>2 DEF Range
  <2>2. tasks \in Seq(Range(tasks))
    <3> HIDE DEF tasks
    <3> QED  BY <1>3, <2>1, IsASeq
  <2> QED  BY <2>2 DEF IsList
<1>5. \A i \in DOMAIN order :
        /\ task(i) \in Range(tasks) /\ order[i] \in there
        /\ task(i).op = "pass" /\ task(i).frame.kind = "location" /\ task(i).to = {a}
        /\ task(i).frame.user = order[i]
  BY <1>2 DEF Range, Location
<1>6. \A t \in Range(tasks) : \E i \in DOMAIN order : t = task(i)
  BY DEF Range
<1>7. Now(a, tasks)
  BY <1>2
<1> HIDE DEF task, tasks
<1>8. \A t \in Range(tasks) : /\ t.op = "pass" /\ t.frame.kind = "location"
                              /\ t.to = {a} /\ mayReceive(UserOf[a])
                              /\ t.frame.user \in Users
  <2> SUFFICES ASSUME NEW i \in DOMAIN order
               PROVE  /\ task(i).op = "pass" /\ task(i).frame.kind = "location"
                      /\ task(i).to = {a} /\ mayReceive(UserOf[a])
                      /\ task(i).frame.user \in Users
    BY <1>6
  <2>1. order[i] \in there
    BY <1>5
  <2> QED  BY <1>2, <1>3, <1>5, <2>1
<1>9. ASSUME mayReceive(UserOf[a]), NEW u \in Users \ {UserOf[a]}, Newest(u) # NoFix
      PROVE  \E t \in Range(tasks) : t.frame.user = u
  <2>1. PICK i \in DOMAIN order : order[i] = u
    BY <1>2, <1>9
  <2> QED  BY <1>5, <2>1
<1>10. Did(a, {Head(todo[a])}, Range(tasks))
  BY <1>1, <1>4, <1>7, NowDid
<1>11. GreetPuts(a, Range(tasks))
  BY <1>8, <1>9 DEF GreetPuts
<1> QED  BY <1>10, <1>11

\* Positions are sent to one that just subscribed.
LEMMA GreetKeeps ==
  ASSUME HubInv, NEW a \in Actors, Greet(a)
  PROVE  HubInv'
<1>1. /\ todo[a] # <<>> /\ conn' = conn /\ peer' = peer /\ members' = members
      /\ head' = head /\ targetsFresh' = targetsFresh
      /\ presenceGen' = presenceGen /\ rosterGen' = rosterGen /\ clock' = clock
      /\ Head(todo[a]).op = "greet"
  BY DEF Greet, Runs, gens, store
<1>2. PICK new : Did(a, {Head(todo[a])}, new) /\ GreetPuts(a, new)
  BY GreetTasks
<1>3. Rows'
  BY <1>1, ReadsOnly DEF Rows
<1>4. Shape'
  <2>1. \A t \in new : TaskOK(t)'
    BY <1>2 DEF GreetPuts, TaskOK
  <2> QED  BY <1>1, <1>2, <1>3, <2>1, ReadsOnly, ShapeKept DEF Rows
<1>5. \A t \in {Head(todo[a])} \cup new : t.op \in {"greet", "pass"}
  BY <1>1, <1>2 DEF GreetPuts
<1>6. RosterInv'
  BY <1>1, <1>2, <1>5, ReadsOnly, RostersKept
<1>7. PresenceInv'
  BY <1>1, <1>2, <1>5, ReadsOnly, PresenceKept DEF Rows
<1> QED  BY <1>4, <1>6, <1>7 DEF HubInv

\* A presence generation is taken: its snapshot is the newest, and that of the
\* present when its receivers were.
LEMMA CountKeeps ==
  ASSUME HubInv, NEW a \in Actors, Count(a)
  PROVE  HubInv'
<1>1. /\ todo[a] # <<>> /\ conn' = conn /\ peer' = peer /\ members' = members
      /\ head' = head /\ rosterGen' = rosterGen /\ clock' = clock
      /\ presenceGen' = presenceGen + 1
      /\ targetsFresh' = (Head(todo[a]).to = subscribersOf)
      /\ Head(todo[a]).op = "count"
  BY DEF Count, Runs, store
<1>2. PICK task : /\ task.op = "tell" /\ task.gen = presenceGen + 1
                  /\ task.to = Head(todo[a]).to /\ task.seen = Seen(task.to)
                  /\ Now(a, <<task>>)
  BY <1>1 DEF Count
<1>3. Did(a, {Head(todo[a])}, {task})
  BY <1>1, <1>2, ReadsOnly, NowDid, OneTask
<1>4. Rows'
  BY <1>1, ReadsOnly DEF Rows, Row
<1>5. Shape'
  <2>1. presenceGen \in Nat
    BY DEF HubInv, Shape, Rows
  <2>2. \A t \in {task} : TaskOK(t)'
    BY <1>1, <1>2, <2>1 DEF TaskOK
  <2>3. presenceGen' >= presenceGen /\ rosterGen' >= rosterGen
    BY <1>1, <2>1 DEF HubInv, Shape, Rows
  <2> QED  BY <1>1, <1>3, <1>4, <2>2, <2>3, ReadsOnly, ShapeKept
<1>6. RosterInv'
  BY <1>1, <1>2, <1>3, ReadsOnly, RostersKept
<1>7. PresenceInv'
  <2> SUFFICES ASSUME Intact', targetsFresh', NEW c \in Conns, Live(c)', conn'[c].subscribed
               PROVE  PresenceComes(c)'
    BY DEF PresenceInv
  <2>1. subscribersOf' = subscribersOf /\ Seen(subscribersOf)' = Seen(subscribersOf)
    BY <1>1 DEF subscribersOf, Registered, mayReceive, Seen, DevicesOf
  <2>2. Head(todo[a]).to = subscribersOf
    BY <1>1
  <2>3. c \in subscribersOf
    BY <1>1, HubAssumption DEF Intact, Live, subscribersOf, Registered, mayReceive
  <2>4. task \in PresencesDue(c)'
    <3>1. task \in Pending'
      BY <1>3, DidPending DEF HubInv, Shape
    <3>2. task.gen > conn'[c].presenceSent
      BY <1>1, <1>2 DEF HubInv, Shape, Rows, Row
    <3> QED  BY <3>1, <3>2, <1>2, <2>2, <2>3 DEF PresencesDue, PresenceDueAt
  <2>5. ASSUME NEW t \in PresencesDue(c)', \A s \in PresencesDue(c)' : s.gen <= t.gen
        PROVE  t.seen = Seen(subscribersOf)'
    <3>1. task.gen <= t.gen /\ t.op = "tell" /\ t \in Pending'
      BY <2>4, <2>5 DEF PresencesDue, PresenceDueAt
    <3>2. t \in Pending \/ t = task
      BY <3>1, <1>3, DidPending DEF HubInv, Shape
    <3>3. t \in Pending => t.gen \in Nat /\ t.gen <= presenceGen
      BY <3>1 DEF HubInv, Shape, Tasks, TaskOK, Rows
    <3>4. t = task
      BY <3>1, <3>2, <3>3, <1>2 DEF HubInv, Shape, Rows
    <3> QED  BY <3>4, <1>2, <2>1, <2>2
  <2> QED  BY <2>4, <2>5 DEF PresenceComes
<1> QED  BY <1>5, <1>6, <1>7 DEF HubInv

\* A roster generation is taken together with its snapshot.
LEMMA ViewKeeps ==
  ASSUME HubInv, NEW a \in Actors, View(a)
  PROVE  HubInv'
<1>1. /\ todo[a] # <<>> /\ conn' = conn /\ peer' = peer /\ members' = members
      /\ head' = head /\ presenceGen' = presenceGen /\ clock' = clock
      /\ targetsFresh' = targetsFresh
      /\ rosterGen' = rosterGen + 1 /\ rosterGen \in Nat
      /\ Head(todo[a]).op = "view"
  BY DEF View, Runs, store, HubInv, Shape, Rows
<1>2. PICK first : first = Head(todo[a])
  OBVIOUS
<1>3. PICK task : /\ task.op = "show" /\ task.gen = rosterGen + 1 /\ task.only = first.only
                  /\ task.to = IF first.only THEN {a} \cap Registered ELSE Registered
                  /\ task.viewing = Viewers
                  /\ Now(a, <<task>>)
  BY <1>1, <1>2 DEF View, Viewers
<1>4. first.op = "view" /\ first.only \in BOOLEAN /\ first \in Pending
  BY <1>1, <1>2, FirstIsPending DEF HubInv, TaskOK
<1>5. Did(a, {first}, {task})
  BY <1>1, <1>2, <1>3, ReadsOnly, NowDid, OneTask
<1>6. Rows'
  BY <1>1, ReadsOnly DEF Rows, Row
<1>7. Viewers' = Viewers /\ Viewers \subseteq Users
  BY <1>1, HubAssumption DEF Viewers, Registered
<1>8. Shape'
  <2>1. \A t \in {task} : TaskOK(t)'
    BY <1>1, <1>3, <1>4, <1>7 DEF TaskOK, Registered
  <2>2. presenceGen' >= presenceGen /\ rosterGen' >= rosterGen
    BY <1>1 DEF HubInv, Shape, Rows
  <2> QED  BY <1>1, <1>5, <1>6, <2>1, <2>2, ReadsOnly, ShapeKept
<1>9. PresenceInv'
  BY <1>1, <1>3, <1>4, <1>5, ReadsOnly, PresenceKept DEF Rows
<1>10. RosterInv'
  <2> SUFFICES ASSUME Intact', ~ViewPending', NEW c \in Conns, Live(c)'
               PROVE  RosterComes(c)'
    BY DEF RosterInv
  <2> DEFINE others == Viewers \ {UserOf[c]}
  <2>1. /\ Pending' \subseteq Pending \cup {task} /\ task \in Pending'
        /\ Pending \subseteq Pending' \cup {first}
        /\ c \in Actors /\ Work(c) \subseteq Work(c)' \cup {first} /\ (c # a => Work(c)' = Work(c))
    <3>1. c \in Actors
      BY DEF Actors
    <3> QED  BY <3>1, <1>5, DidPending, DidWork DEF HubInv, Shape
  <2>2. c \in Registered /\ Intact /\ Live(c) /\ task.gen > conn[c].rosterSent
    BY <1>1, <1>3 DEF Intact, Live, Registered, HubInv, Shape, Rows, Row
  <2>3. \A t \in Pending : t.op = "show" => t.gen \in Nat /\ t.gen < task.gen
    BY <1>1, <1>3 DEF HubInv, Shape, Tasks, TaskOK
  <2>4. CASE RosterDueAt(c, task)
    <3>1. task \in RostersDue(c)'
      BY <1>1, <2>1, <2>4 DEF RostersDue, RosterDueAt
    <3>2. ASSUME NEW t \in RostersDue(c)', \A s \in RostersDue(c)' : s.gen <= t.gen
          PROVE  t = task
      <4>1. task.gen <= t.gen /\ t.op = "show" /\ t \in Pending'
        BY <3>1, <3>2 DEF RostersDue, RosterDueAt
      <4> QED  BY <4>1, <2>1, <2>3, <1>1, <1>3
    <3> QED  BY <3>1, <3>2, <1>3, <1>7 DEF RosterComes
  <2>5. CASE ~RosterDueAt(c, task)
    <3>1. first.only /\ (c = a => others = {})
      BY <2>5, <2>2, <1>3, <1>4 DEF RosterDueAt
    <3>2. ~ViewPending
      BY <3>1, <2>1 DEF ViewPending
    <3>3. RosterComes(c)
      BY <2>2, <3>2 DEF HubInv, RosterInv
    <3>4. RostersDue(c)' = RostersDue(c)
      BY <2>1, <2>5, <1>1, <1>4 DEF RostersDue, RosterDueAt
    <3>5. CASE c # a
      BY <3>3, <3>4, <3>5, <2>1, <1>1, <1>7 DEF RosterComes, GreetedSoon
    <3>6. CASE c = a
      BY <3>1, <3>3, <3>4, <3>6, <1>1, <1>7 DEF RosterComes
    <3> QED  BY <3>5, <3>6
  <2> QED  BY <2>4, <2>5
<1> QED  BY <1>8, <1>9, <1>10 DEF HubInv

\* A bounded set of numbers has a greatest.
LEMMA GreatestOf ==
  ASSUME NEW S, S \subseteq Nat, S # {}, NEW n \in Nat, \A s \in S : s <= n
  PROVE  Max(S) \in S /\ \A s \in S : s <= Max(S)
<1> DEFINE R == OpToRel(<, Nat)
           B == {m \in Nat : \A s \in S : s <= m}
<1>1. IsWellFoundedOn(R, Nat)
  BY NatLessThanWellFounded
<1>2. \A x \in Nat, y \in Nat : y < x => <<y, x>> \in R
  BY DEF OpToRel
<1>3. n \in B /\ B \subseteq Nat
  OBVIOUS
<1> HIDE DEF R
<1>4. PICK m \in B : \A y \in B : ~(<<y, m>> \in R)
  <2> HIDE DEF B
  <2> QED  BY <1>1, <1>3, WFMin
<1>5. \A y \in B : ~(y < m)
  BY <1>2, <1>3, <1>4
<1>6. m \in S
  <2> SUFFICES ASSUME m \notin S
               PROVE  FALSE
    OBVIOUS
  <2>1. \A s \in S : s \in Nat /\ s < m
    <3>1. \A s \in S : s \in Nat /\ s <= m /\ s # m
      OBVIOUS
    <3> QED  BY <3>1
  <2>2. m - 1 \in Nat /\ m - 1 < m
    <3>1. PICK s : s \in S
      OBVIOUS
    <3> QED  BY <2>1, <3>1
  <2>3. \A s \in S : s <= m - 1
    BY <2>1
  <2>4. m - 1 \in B
    BY <2>2, <2>3
  <2> QED  BY <1>5, <2>2, <2>4
<1>7. \A y \in S : m >= y
  BY <1>4
<1>8. \E x \in S : \A y \in S : x >= y
  BY <1>6, <1>7
<1>9. Max(S) \in S /\ \A y \in S : Max(S) >= y
  <2>1. PICK k : k = Max(S)
    OBVIOUS
  <2>2. k \in S /\ \A y \in S : k >= y
    BY <1>8, <2>1, Zenon DEF Max
  <2> QED  BY <2>1, <2>2
<1> QED  BY <1>9

\* The frame made of what was seen of the subscribers shows them.
LEMMA FrameShowsPeople ==
  ASSUME Rows, NEW P,
         P = {[user |-> s.user, devices |-> s.devices, inSync |-> head = 0 \/ s.cursor >= head] :
                s \in Seen(subscribersOf)}
  PROVE  /\ {<<p.user, p.devices>> : p \in P} =
              {<<u, Cardinality(DevicesOf(u, subscribersOf))>> : u \in {UserOf[d] : d \in subscribersOf}}
         /\ \A p \in P :
              (\E d \in subscribersOf : UserOf[d] = p.user /\ conn[d].cursor >= head) => p.inSync
<1> DEFINE Us == {UserOf[d] : d \in subscribersOf}
           N(u) == Cardinality(DevicesOf(u, subscribersOf))
           C(u) == {conn[c].cursor : c \in DevicesOf(u, subscribersOf)}
<1>1. \A p : p \in P <=> \E u \in Us : p = [user |-> u, devices |-> N(u),
                                            inSync |-> head = 0 \/ Max(C(u)) >= head]
  <2> HIDE DEF N, C, Us
  <2> DEFINE inSync(k) == head = 0 \/ k >= head
             Was(u) == [user |-> u, devices |-> N(u), cursor |-> Max(C(u))]
             Is(s) == [user |-> s.user, devices |-> s.devices, inSync |-> inSync(s.cursor)]
  <2>1. Seen(subscribersOf) = {Was(u) : u \in Us}
    BY Zenon DEF Seen, N, C, Us
  <2> HIDE DEF inSync
  <2>2. \A u : Is(Was(u)) = [user |-> u, devices |-> N(u), inSync |-> inSync(Max(C(u)))]
    OBVIOUS
  <2>3. P = {Is(s) : s \in Seen(subscribersOf)}
    BY Zenon DEF inSync
  <2> HIDE DEF Is, Was
  <2>4. \A p : p \in P <=> \E u \in Us : p = Is(Was(u))
    BY <2>1, <2>3
  <2> DEFINE Shows(u) == [user |-> u, devices |-> N(u), inSync |-> inSync(Max(C(u)))]
  <2>5. \A u : Is(Was(u)) = Shows(u)
    BY <2>2
  <2> HIDE DEF Shows
  <2>6. \A p : p \in P <=> \E u \in Us : p = Shows(u)
    BY <2>4, <2>5
  <2> QED  BY <2>6 DEF inSync, Shows
<1>2. {<<p.user, p.devices>> : p \in P} = {<<u, N(u)>> : u \in Us}
  <2> HIDE DEF N, C, Us
  <2>1. ASSUME NEW p \in P
        PROVE  \E u \in Us : <<p.user, p.devices>> = <<u, N(u)>>
    BY <1>1
  <2>2. ASSUME NEW u \in Us
        PROVE  \E p \in P : <<p.user, p.devices>> = <<u, N(u)>>
    <3>1. PICK p : p = [user |-> u, devices |-> N(u), inSync |-> head = 0 \/ Max(C(u)) >= head]
      OBVIOUS
    <3> QED  BY <1>1, <3>1
  <2> QED  BY <2>1, <2>2
<1>3. ASSUME NEW p \in P, NEW d \in subscribersOf, UserOf[d] = p.user, conn[d].cursor >= head
      PROVE  p.inSync
  <2>1. PICK u \in Us : p = [user |-> u, devices |-> N(u), inSync |-> head = 0 \/ Max(C(u)) >= head]
    BY <1>1
  <2>2. p.user = u /\ p.inSync = (head = 0 \/ Max(C(u)) >= head)
    <3> HIDE DEF N, C, Us
    <3> QED  BY <2>1, Zenon
  <2>3. conn[d].cursor \in C(u)
    BY <1>3, <2>2 DEF DevicesOf
  <2>4. C(u) \subseteq Nat /\ subscribersOf \subseteq Conns
    BY DEF DevicesOf, subscribersOf, Registered, Rows, Row
  <2>5. head \in Nat /\ \A k \in C(u) : k <= head
    BY <2>4 DEF DevicesOf, Rows
  <2>6. Max(C(u)) \in Nat /\ conn[d].cursor <= Max(C(u))
    <3> HIDE DEF C
    <3> QED  BY <2>3, <2>4, <2>5, GreatestOf
  <2>7. Max(C(u)) >= head
    <3> HIDE DEF C
    <3> QED  BY <1>3, <2>3, <2>4, <2>6 DEF Rows
  <2> QED  BY <2>2, <2>7, Zenon
<1> QED  BY <1>2, <1>3, Zenon

\* A peer is sent the presence it is due.
LEMMA TellKeeps ==
  ASSUME HubInv, NEW a \in Actors, Tell(a)
  PROVE  HubInv'
<1>1. PICK t : t = Head(todo[a])
  OBVIOUS
<1>2. /\ todo[a] # <<>> /\ members' = members /\ head' = head /\ clock' = clock
      /\ presenceGen' = presenceGen /\ rosterGen' = rosterGen /\ targetsFresh' = targetsFresh
      /\ t.op = "tell" /\ Now(a, <<>>)
  BY <1>1 DEF Tell, Runs, gens, store
<1>3. t \in Pending /\ TaskOK(t)
  BY <1>1, <1>2, FirstIsPending DEF HubInv
<1>4. t.gen \in Nat /\ t.gen <= presenceGen
  BY <1>2, <1>3 DEF TaskOK, HubInv, Shape, Rows
<1>5. Did(a, {t}, {})
  BY <1>1, <1>2, NowDid, NoTask DEF HubInv, Shape
<1>6. Rows /\ Lists
  BY DEF HubInv, Shape
<1> DEFINE due(c) == c \in t.to /\ t.gen > conn[c].presenceSent
           users == {[user |-> s.user, devices |-> s.devices,
                      inSync |-> head = 0 \/ s.cursor >= head] : s \in t.seen}
<1>7. conn' = [c \in Conns |-> IF due(c) THEN [enqueue(c) EXCEPT !.presenceSent = t.gen]
                               ELSE conn[c]]
  BY <1>1 DEF Tell, PresenceDue
<1>8. PICK f : /\ f.kind = "presence" /\ f.users = users
               /\ peer' = [c \in Conns |-> IF due(c) /\ Takes(c) THEN Shown(peer[c], f) ELSE peer[c]]
  <2> DEFINE f == [kind |-> "presence", head |-> head, users |-> users]
  <2>1. peer' = [c \in Conns |-> IF due(c) /\ Takes(c) THEN Shown(peer[c], f) ELSE peer[c]]
    BY <1>1, Zenon DEF Tell, ShownAt, PresenceDue
  <2> QED  BY <2>1
<1> HIDE DEF users
<1>9. ASSUME NEW c \in Conns
      PROVE  /\ conn'[c] \in Row
             /\ conn'[c].subscribed = conn[c].subscribed /\ conn'[c].viewing = conn[c].viewing
             /\ conn'[c].cursor = conn[c].cursor /\ conn'[c].rosterSent = conn[c].rosterSent
             /\ conn'[c].presenceSent = IF due(c) THEN t.gen ELSE conn[c].presenceSent
             /\ conn'[c].status = "open" => conn[c].status = "open" /\ (due(c) => Takes(c))
             /\ conn'[c].status = "new" <=> conn[c].status = "new"
             /\ conn'[c].status = "closed" <=> conn[c].status = "closed"
  <2>1. PICK r : r = enqueue(c)
    OBVIOUS
  <2>2. CASE due(c)
    <3>1. conn'[c] = [r EXCEPT !.presenceSent = t.gen] /\ r \in Row
      BY <1>6, <1>7, <2>1, <2>2, EnqueueRow
    <3>2. /\ conn'[c] \in Row /\ conn'[c].subscribed = r.subscribed /\ conn'[c].viewing = r.viewing
          /\ conn'[c].cursor = r.cursor /\ conn'[c].rosterSent = r.rosterSent
          /\ conn'[c].presenceSent = t.gen /\ conn'[c].status = r.status
      BY <3>1, <1>4 DEF Row
    <3> HIDE DEF due
    <3> QED  BY <3>2, <2>1, <2>2, <1>6, EnqueueRow
  <2>3. CASE ~due(c)
    BY <2>3, <1>6, <1>7 DEF Rows
  <2> QED  BY <2>2, <2>3
<1>10. ASSUME NEW c \in Conns
       PROVE  /\ peer'[c].roster = peer[c].roster
              /\ peer'[c].presence = IF due(c) /\ Takes(c) THEN users ELSE peer[c].presence
  BY <1>8, ShownKeeps
<1>11. Rows'
  <2>1. conn' = [c \in Conns |-> conn'[c]]
    BY <1>7
  <2>2. conn' \in [Conns -> Row]
    BY <2>1, <1>9
  <2>3. \A c \in Conns : conn'[c].presenceSent <= presenceGen /\ conn'[c].rosterSent <= rosterGen
                          /\ conn'[c].cursor <= head
    BY <1>4, <1>6, <1>9 DEF Rows
  <2> QED  BY <2>2, <2>3, <1>2, <1>6 DEF Rows
<1>12. Shape'
  <2>1. \A c \in Conns : conn[c].status = "new" => c # a
    BY <1>2 DEF HubInv, Shape, Unmade
  <2>2. presenceGen' >= presenceGen /\ rosterGen' >= rosterGen
    BY <1>2, <1>6 DEF Rows
  <2> QED  BY <1>5, <1>9, <1>10, <1>11, <2>1, <2>2, ShapeKept DEF HubInv
<1>13. RosterInv'
  <2>1. SameRosters
    BY <1>9, <1>10 DEF SameRosters, Live, Registered
  <2> QED  BY <1>2, <1>5, <2>1, RostersKept
<1>14. PresenceInv'
  <2> SUFFICES ASSUME Intact', targetsFresh', ~CountPending', NEW c \in Conns, Live(c)',
                      conn'[c].subscribed
               PROVE  PresenceComes(c)'
    BY DEF PresenceInv
  <2>1. /\ Pending' \subseteq Pending /\ Pending \subseteq Pending' \cup {t}
    BY <1>5, <1>6, DidPending
  <2>2. Intact /\ targetsFresh /\ ~CountPending /\ Live(c) /\ conn[c].subscribed
    BY <1>2, <1>9, <2>1 DEF Intact, CountPending, Live
  <2>3. PresenceComes(c)
    BY <2>2 DEF HubInv, PresenceInv
  <2>4. subscribersOf' = subscribersOf /\ subscribersOf \subseteq Conns
    BY <1>2, <1>9 DEF subscribersOf, Registered, mayReceive
  <2>5. /\ Seen(subscribersOf)' = Seen(subscribersOf)
        /\ peer'[c].presence = peer[c].presence /\ ShowsPeople(c) => ShowsPeople(c)'
    <3>1. \A d \in subscribersOf : conn'[d].cursor = conn[d].cursor /\ conn[d].cursor \in Nat
      BY <2>4, <1>6, <1>9 DEF Rows, Row
    <3> QED  BY <3>1, <2>4, <1>2, <1>6, SamePeople DEF Rows
  <2>6. \A s \in Pending : s.op = "tell" => s.gen \in Nat
    BY <1>6 DEF HubInv, Shape, Tasks, TaskOK, Rows
  <2>7. CASE due(c)
    <3>1. t \in PresencesDue(c) /\ Takes(c)
      BY <2>7, <1>2, <1>3, <1>9, <2>2 DEF PresencesDue, PresenceDueAt, Live
    <3>2. PresencesDue(c)' = {s \in PresencesDue(c) : s.gen > t.gen}
      <4>1. \A s : s.gen > t.gen => s # t
        BY <1>4
      <4>2. conn'[c].presenceSent = t.gen /\ t.gen > conn[c].presenceSent /\ conn[c].presenceSent \in Nat
        BY <2>7, <1>6, <1>9 DEF Rows, Row
      <4>3. \A s \in Pending : s.op = "tell" /\ s.gen > t.gen => s.gen > conn[c].presenceSent
        BY <1>4, <2>6, <4>2
      <4> QED  BY <2>1, <4>1, <4>2, <4>3 DEF PresencesDue, PresenceDueAt
    <3>3. \A s \in PresencesDue(c) : s.gen \in Nat
      BY <2>6 DEF PresencesDue, PresenceDueAt
    <3>4. ASSUME NEW s \in PresencesDue(c)', \A r \in PresencesDue(c)' : r.gen <= s.gen
          PROVE  s.seen = Seen(subscribersOf)'
      <4>1. s \in PresencesDue(c) /\ \A r \in PresencesDue(c) : r.gen <= s.gen
        BY <3>2, <3>3, <3>4, <1>4
      <4> QED  BY <4>1, <2>3, <2>5 DEF PresenceComes
    <3>5. ASSUME PresencesDue(c)' = {}
          PROVE  ShowsPeople(c)'
      <4>1. \A r \in PresencesDue(c) : r.gen <= t.gen
        BY <3>2, <3>3, <3>5, <1>4
      <4>2. t.seen = Seen(subscribersOf)
        BY <3>1, <4>1, <2>3 DEF PresenceComes
      <4>3. peer'[c].presence = users
        BY <1>10, <2>7, <3>1
      <4>4. /\ {<<p.user, p.devices>> : p \in users} =
                  {<<u, Cardinality(DevicesOf(u, subscribersOf))>> : u \in {UserOf[d] : d \in subscribersOf}}
            /\ \A p \in users :
                 (\E d \in subscribersOf : UserOf[d] = p.user /\ conn[d].cursor >= head) => p.inSync
        BY <4>2, <1>6, FrameShowsPeople DEF users
      <4>5. \A u : DevicesOf(u, subscribersOf)' = DevicesOf(u, subscribersOf)
        BY <2>4 DEF DevicesOf
      <4>6. \A d \in subscribersOf : conn'[d].cursor = conn[d].cursor
        BY <1>9, <2>4
      <4>7. \A p \in users :
              (\E d \in subscribersOf' : UserOf[d] = p.user /\ conn'[d].cursor >= head') => p.inSync
        BY <1>2, <2>4, <4>4, <4>6, Zenon
      <4> QED  BY <2>4, <4>3, <4>4, <4>5, <4>7, Zenon DEF ShowsPeople
    <3> QED  BY <3>4, <3>5 DEF PresenceComes
  <2>8. CASE ~due(c)
    <3>1. PresencesDue(c)' = PresencesDue(c)
      BY <2>1, <2>8, <1>9 DEF PresencesDue, PresenceDueAt
    <3>2. peer'[c].presence = peer[c].presence
      BY <1>10, <2>8
    <3> QED  BY <2>3, <2>5, <3>1, <3>2 DEF PresenceComes
  <2> QED  BY <2>7, <2>8
<1> QED  BY <1>12, <1>13, <1>14 DEF HubInv

\* A peer is sent the roster it is due.
LEMMA ShowKeeps ==
  ASSUME HubInv, NEW a \in Actors, Show(a)
  PROVE  HubInv'
<1>1. PICK t : t = Head(todo[a])
  OBVIOUS
<1>2. /\ todo[a] # <<>> /\ members' = members /\ head' = head /\ clock' = clock
      /\ presenceGen' = presenceGen /\ rosterGen' = rosterGen /\ targetsFresh' = targetsFresh
      /\ t.op = "show" /\ Now(a, <<>>)
  BY <1>1 DEF Show, Runs, gens, store
<1>3. t \in Pending /\ TaskOK(t)
  BY <1>1, <1>2, FirstIsPending DEF HubInv
<1>4. /\ t.gen \in Nat /\ t.gen <= rosterGen /\ t.viewing \subseteq Users
      /\ \A c \in Conns : c \in t.to => conn[c].status # "new"
  BY <1>2, <1>3 DEF TaskOK, HubInv, Shape, Rows
<1>5. Did(a, {t}, {})
  BY <1>1, <1>2, NowDid, NoTask DEF HubInv, Shape
<1>6. Rows /\ Lists
  BY DEF HubInv, Shape
<1> DEFINE shown(c) == RosterFor(UserOf[c], t.viewing)
           due(c) == /\ c \in t.to /\ t.gen > conn[c].rosterSent
                     /\ ~(t.only /\ shown(c) = {})
<1>7. conn' = [c \in Conns |-> IF due(c) THEN [enqueue(c) EXCEPT !.rosterSent = t.gen]
                               ELSE conn[c]]
  BY <1>1 DEF Show, RosterDue
<1>8. peer' = [c \in Conns |-> IF due(c) /\ Takes(c)
                               THEN Shown(peer[c], [kind |-> "roster", users |-> shown(c)])
                               ELSE peer[c]]
  BY <1>1 DEF Show, ShownAt, RosterDue
<1> HIDE DEF shown
<1>9. ASSUME NEW c \in Conns
      PROVE  /\ conn'[c] \in Row
             /\ conn'[c].subscribed = conn[c].subscribed /\ conn'[c].viewing = conn[c].viewing
             /\ conn'[c].cursor = conn[c].cursor /\ conn'[c].presenceSent = conn[c].presenceSent
             /\ conn'[c].rosterSent = IF due(c) THEN t.gen ELSE conn[c].rosterSent
             /\ conn'[c].status = "open" => conn[c].status = "open" /\ (due(c) => Takes(c))
             /\ conn'[c].status = "new" <=> conn[c].status = "new"
             /\ conn'[c].status = "closed" <=> conn[c].status = "closed"
  <2>1. PICK r : r = enqueue(c)
    OBVIOUS
  <2>2. CASE due(c)
    <3>1. conn'[c] = [r EXCEPT !.rosterSent = t.gen] /\ r \in Row
      BY <1>6, <1>7, <2>1, <2>2, EnqueueRow
    <3>2. /\ conn'[c] \in Row /\ conn'[c].subscribed = r.subscribed /\ conn'[c].viewing = r.viewing
          /\ conn'[c].cursor = r.cursor /\ conn'[c].presenceSent = r.presenceSent
          /\ conn'[c].rosterSent = t.gen /\ conn'[c].status = r.status
      BY <3>1, <1>4 DEF Row
    <3> HIDE DEF due
    <3> QED  BY <3>2, <2>1, <2>2, <1>6, EnqueueRow
  <2>3. CASE ~due(c)
    BY <2>3, <1>6, <1>7 DEF Rows
  <2> QED  BY <2>2, <2>3
<1>10. ASSUME NEW c \in Conns
       PROVE  /\ peer'[c].presence = peer[c].presence
              /\ peer'[c].roster = IF due(c) /\ Takes(c) THEN shown(c) ELSE peer[c].roster
  <2>1. PICK f : f = [kind |-> "roster", users |-> shown(c)]
    OBVIOUS
  <2>2. f.kind = "roster" /\ f.users = shown(c)
    BY <2>1
  <2>3. peer'[c] = IF due(c) /\ Takes(c) THEN Shown(peer[c], f) ELSE peer[c]
    BY <1>8, <2>1
  <2> HIDE DEF due
  <2> QED  BY <2>2, <2>3, ShownKeeps
<1>11. Rows'
  <2>1. conn' = [c \in Conns |-> conn'[c]]
    BY <1>7
  <2>2. conn' \in [Conns -> Row]
    BY <2>1, <1>9
  <2>3. \A c \in Conns : /\ conn'[c].presenceSent <= presenceGen /\ conn'[c].rosterSent <= rosterGen
                         /\ conn'[c].cursor <= head
    BY <1>4, <1>6, <1>9 DEF Rows
  <2> QED  BY <2>2, <2>3, <1>2, <1>6 DEF Rows
<1>12. Shape'
  <2>1. \A c \in Conns : conn[c].status = "new" => c # a
    BY <1>2 DEF HubInv, Shape, Unmade
  <2>2. presenceGen' >= presenceGen /\ rosterGen' >= rosterGen
    BY <1>2, <1>6 DEF Rows
  <2>3. \A c \in Conns : conn[c].status = "new" => peer'[c].roster = peer[c].roster
    BY <1>4, <1>10
  <2> QED  BY <1>5, <1>9, <1>11, <2>1, <2>2, <2>3, ShapeKept DEF HubInv
<1>13. PresenceInv'
  <2>1. SamePresence
    BY <1>9, <1>10 DEF SamePresence, Live, Registered
  <2> QED  BY <1>2, <1>5, <1>6, <2>1, PresenceKept DEF Rows
<1>14. RosterInv'
  <2> SUFFICES ASSUME Intact', ~ViewPending', NEW c \in Conns, Live(c)'
               PROVE  RosterComes(c)'
    BY DEF RosterInv
  <2>1. /\ Pending' \subseteq Pending /\ Pending \subseteq Pending' \cup {t}
        /\ c \in Actors /\ Work(c) \subseteq Work(c)' \cup {t}
    <3>1. c \in Actors
      BY DEF Actors
    <3> QED  BY <3>1, <1>5, <1>6, DidPending, DidWork
  <2>2. Intact /\ ~ViewPending /\ Live(c)
    BY <1>2, <1>9, <2>1 DEF Intact, ViewPending, Live
  <2>3. RosterComes(c) /\ (GreetedSoon(c) => GreetedSoon(c)')
    BY <1>2, <2>1, <2>2 DEF HubInv, RosterInv, GreetedSoon
  <2>4. Viewers' = Viewers
    BY <1>9 DEF Viewers, Registered
  <2>5. shown(c) = t.viewing \ {UserOf[c]}
    BY <2>2, <1>4, HubAssumption DEF shown, RosterFor, mayReceive, Intact
  <2>6. \A s \in Pending : s.op = "show" => s.gen \in Nat
    BY <1>6 DEF HubInv, Shape, Tasks, TaskOK, Rows
  <2>7. due(c) <=> RosterDueAt(c, t)
    BY <1>2, <2>5 DEF RosterDueAt
  <2>8. CASE due(c)
    <3>1. t \in RostersDue(c) /\ Takes(c)
      BY <2>7, <2>8, <1>3, <1>9 DEF RostersDue, Live
    <3>2. RostersDue(c)' = {s \in RostersDue(c) : s.gen > t.gen}
      <4>1. \A s : s.gen > t.gen => s # t
        BY <1>4
      <4>2. conn'[c].rosterSent = t.gen /\ t.gen > conn[c].rosterSent /\ conn[c].rosterSent \in Nat
        BY <2>8, <1>6, <1>9 DEF Rows, Row
      <4>3. \A s \in Pending : s.op = "show" /\ s.gen > t.gen => s.gen > conn[c].rosterSent
        BY <1>4, <2>6, <4>2
      <4> QED  BY <2>1, <4>1, <4>2, <4>3 DEF RostersDue, RosterDueAt
    <3>3. \A s \in RostersDue(c) : s.gen \in Nat
      BY <2>6 DEF RostersDue, RosterDueAt
    <3>4. ASSUME NEW s \in RostersDue(c)', \A r \in RostersDue(c)' : r.gen <= s.gen
          PROVE  s.viewing \ {UserOf[c]} = Viewers' \ {UserOf[c]}
      <4>1. s \in RostersDue(c) /\ \A r \in RostersDue(c) : r.gen <= s.gen
        BY <3>2, <3>3, <3>4, <1>4
      <4> QED  BY <4>1, <2>3, <2>4 DEF RosterComes
    <3>5. ASSUME RostersDue(c)' = {}
          PROVE  peer'[c].roster = Viewers' \ {UserOf[c]}
      <4>1. \A r \in RostersDue(c) : r.gen <= t.gen
        BY <3>2, <3>3, <3>5, <1>4
      <4>2. t.viewing \ {UserOf[c]} = Viewers \ {UserOf[c]}
        BY <3>1, <4>1, <2>3 DEF RosterComes
      <4> QED  BY <4>2, <1>10, <2>4, <2>5, <2>8, <3>1
    <3> QED  BY <3>4, <3>5 DEF RosterComes
  <2>9. CASE ~due(c)
    <3>1. RostersDue(c)' = RostersDue(c)
      BY <2>1, <2>7, <2>9, <1>9 DEF RostersDue, RosterDueAt
    <3>2. peer'[c].roster = peer[c].roster
      BY <1>10, <2>9
    <3> QED  BY <2>3, <2>4, <3>1, <3>2 DEF RosterComes
  <2> QED  BY <2>8, <2>9
<1> QED  BY <1>12, <1>13, <1>14 DEF HubInv

\* A notice or a position is sent.
LEMMA PassKeeps ==
  ASSUME HubInv, NEW a \in Actors, Pass(a)
  PROVE  HubInv'
<1>1. PICK t : t = Head(todo[a])
  OBVIOUS
<1>2. /\ todo[a] # <<>> /\ members' = members /\ head' = head /\ clock' = clock
      /\ presenceGen' = presenceGen /\ rosterGen' = rosterGen /\ targetsFresh' = targetsFresh
      /\ t.op = "pass" /\ Now(a, <<>>)
  BY <1>1 DEF Pass, Send, Runs, gens, store
<1>3. t.frame.kind \in {"changed", "location"}
  BY <1>1, <1>2, FirstIsPending DEF HubInv, TaskOK
<1>4. Did(a, {t}, {})
  BY <1>1, <1>2, NowDid, NoTask DEF HubInv, Shape
<1>5. Rows /\ Lists
  BY DEF HubInv, Shape
<1>6. /\ conn' = [c \in Conns |-> IF c \in t.to THEN enqueue(c) ELSE conn[c]]
      /\ peer' = [c \in Conns |-> IF c \in t.to /\ Takes(c) THEN Shown(peer[c], t.frame) ELSE peer[c]]
  BY <1>1 DEF Pass, Send, ShownAt
<1>7. ASSUME NEW c \in Conns
      PROVE  /\ conn'[c] \in Row
             /\ conn'[c].subscribed = conn[c].subscribed /\ conn'[c].viewing = conn[c].viewing
             /\ conn'[c].cursor = conn[c].cursor /\ conn'[c].presenceSent = conn[c].presenceSent
             /\ conn'[c].rosterSent = conn[c].rosterSent
             /\ conn'[c].status = "open" => conn[c].status = "open"
             /\ conn'[c].status = "new" <=> conn[c].status = "new"
             /\ conn'[c].status = "closed" <=> conn[c].status = "closed"
  <2>1. CASE c \in t.to
    BY <2>1, <1>5, <1>6, EnqueueRow
  <2>2. CASE c \notin t.to
    BY <2>2, <1>5, <1>6 DEF Rows
  <2> QED  BY <2>1, <2>2
<1>8. ASSUME NEW c \in Conns
      PROVE  peer'[c].presence = peer[c].presence /\ peer'[c].roster = peer[c].roster
  BY <1>3, <1>6, ShownKeeps
<1>9. Rows'
  <2>1. conn' = [c \in Conns |-> conn'[c]]
    BY <1>6
  <2>2. conn' \in [Conns -> Row]
    BY <2>1, <1>7
  <2> QED  BY <2>2, <1>7, <1>2, <1>5 DEF Rows
<1>10. Shape'
  <2>1. \A c \in Conns : conn[c].status = "new" => c # a
    BY <1>2 DEF HubInv, Shape, Unmade
  <2>2. presenceGen' >= presenceGen /\ rosterGen' >= rosterGen
    BY <1>2, <1>5 DEF Rows
  <2> QED  BY <1>4, <1>7, <1>8, <1>9, <2>1, <2>2, ShapeKept DEF HubInv
<1>11. SameRosters /\ SamePresence
  BY <1>7, <1>8 DEF SameRosters, SamePresence, Live, Registered
<1>12. RosterInv'
  BY <1>2, <1>4, <1>11, RostersKept
<1>13. PresenceInv'
  BY <1>2, <1>4, <1>5, <1>11, PresenceKept DEF Rows
<1> QED  BY <1>10, <1>12, <1>13 DEF HubInv

\* A step of a connection's handler that changes its own row: it stays as
\* rosters and presence see it, or they are told anew.
LEMMA RowKeeps ==
  ASSUME HubInv, NEW c \in Conns, NEW row \in Row, NEW old, NEW new, Did(c, old, new),
         conn[c].status # "new", row.status # "new",
         row.status = "open" => conn[c].status = "open",
         row.presenceSent = conn[c].presenceSent, row.rosterSent = conn[c].rosterSent,
         row.cursor <= head,
         conn' = [conn EXCEPT ![c] = row],
         peer' = peer, members' = members, head' = head, clock' \in Nat,
         presenceGen' = presenceGen, rosterGen' = rosterGen, targetsFresh' = targetsFresh,
         \A t \in old : t.op \in {"gone", "leave"},
         \A t \in new : TaskOK(t)',
         \/ \E t \in new : t.op = "view" /\ ~t.only
         \/ /\ row.viewing = conn[c].viewing
            /\ conn[c].viewing => (row.status = "closed" <=> conn[c].status = "closed")
            /\ \A t \in new : t.op \notin {"view", "show"},
         \/ \E t \in new : t.op = "who"
         \/ /\ row.subscribed = conn[c].subscribed /\ row.cursor = conn[c].cursor
            /\ conn[c].subscribed => (row.status = "closed" <=> conn[c].status = "closed")
            /\ \A t \in new : t.op \notin {"who", "count", "tell"}
  PROVE  HubInv'
<1>1. Rows /\ Lists /\ Shape
  BY DEF HubInv, Shape
<1>2. /\ conn'[c] = row /\ \A d \in Conns : d # c => conn'[d] = conn[d]
      /\ conn' \in [Conns -> Row]
  BY <1>1 DEF Rows
<1>3. Rows'
  <2>1. \A d \in Conns : /\ conn'[d].presenceSent <= presenceGen /\ conn'[d].rosterSent <= rosterGen
                         /\ conn'[d].cursor <= head
    BY <1>1, <1>2 DEF Rows
  <2> QED  BY <1>1, <1>2, <2>1 DEF Rows
<1>4. c \in Actors
  BY DEF Actors
<1>5. Shape'
  <2>1. presenceGen' >= presenceGen /\ rosterGen' >= rosterGen
    BY <1>1 DEF Rows
  <2> QED  BY <1>1, <1>2, <1>3, <1>4, <2>1, ShapeKept
<1>6. new \subseteq Pending'
  BY <1>1, <1>4, DidPending
<1>7. RosterInv'
  <2>1. CASE \E t \in new : t.op = "view" /\ ~t.only
    BY <1>6, <2>1 DEF RosterInv, ViewPending
  <2>2. CASE /\ row.viewing = conn[c].viewing
             /\ conn[c].viewing => (row.status = "closed" <=> conn[c].status = "closed")
             /\ \A t \in new : t.op \notin {"view", "show"}
    <3>1. SameRosters
      BY <1>2, <2>2 DEF SameRosters, Live, Registered
    <3> QED  BY <1>4, <2>2, <3>1, RostersKept
  <2> QED  BY <2>1, <2>2
<1>8. PresenceInv'
  <2>1. CASE \E t \in new : t.op = "who"
    BY <1>6, <2>1 DEF PresenceInv, CountPending
  <2>2. CASE /\ row.subscribed = conn[c].subscribed /\ row.cursor = conn[c].cursor
             /\ conn[c].subscribed => (row.status = "closed" <=> conn[c].status = "closed")
             /\ \A t \in new : t.op \notin {"who", "count", "tell"}
    <3>1. SamePresence
      BY <1>2, <2>2 DEF SamePresence, Live, Registered
    <3> QED  BY <1>1, <1>4, <2>2, <3>1, PresenceKept DEF Rows
  <2> QED  BY <2>1, <2>2
<1> QED  BY <1>5, <1>7, <1>8 DEF HubInv

\* The tasks a handler puts are sound, and each list is one.
LEMMA PutTasks ==
  /\ IsList(Presence) /\ Range(Presence) = {[op |-> "who"]}
  /\ \A only : IsList(Roster(only)) /\ Range(Roster(only)) = {[op |-> "view", only |-> only]}
  /\ \A f, but : /\ IsList(Reach(f, but))
                 /\ Range(Reach(f, but)) = {[op |-> "reach", frame |-> f, but |-> but]}
  /\ \A c : IsList(TakenBack(c)) /\ Range(TakenBack(c)) \subseteq {[op |-> "gone"]}
<1>1. IsList(Presence) /\ Range(Presence) = {[op |-> "who"]}
  BY OneTask DEF Presence
<1>2. \A only : IsList(Roster(only)) /\ Range(Roster(only)) = {[op |-> "view", only |-> only]}
  BY OneTask DEF Roster
<1>3. \A f, but : /\ IsList(Reach(f, but))
                  /\ Range(Reach(f, but)) = {[op |-> "reach", frame |-> f, but |-> but]}
  BY OneTask DEF Reach
<1>4. \A c : IsList(TakenBack(c)) /\ Range(TakenBack(c)) \subseteq {[op |-> "gone"]}
  BY OneTask, NoTask DEF TakenBack
<1> QED  BY <1>1, <1>2, <1>3, <1>4

\* Sound without a number of the hub in them.
LEMMA PlainTasks ==
  ASSUME NEW t, t.op \in {"who", "gone", "greet", "leave"}
                \/ (t.op = "view" /\ t.only \in BOOLEAN)
                \/ (t.op = "reach" /\ t.frame.kind \in {"changed", "location"})
  PROVE  TaskOK(t)'
  BY DEF TaskOK

\* What an unregistering handler puts: presence for a subscriber, rosters for
\* one that had the trip open.
LEMMA LeaveTasks ==
  ASSUME HubInv, NEW a \in Actors, Leave(a)
  PROVE  \E new, who, view :
           /\ Did(a, {Head(todo[a])}, new) /\ \A t \in new : TaskOK(t)'
           /\ who.op = "who" /\ view.op = "view" /\ view.only = FALSE
           /\ new = (IF conn[a].subscribed THEN {who} ELSE {}) \cup (IF conn[a].viewing THEN {view} ELSE {})
<1> DEFINE first == IF conn[a].subscribed THEN Presence ELSE <<>>
           second == IF conn[a].viewing THEN Roster(FALSE) ELSE <<>>
<1>1. todo[a] # <<>> /\ Now(a, first \o second)
  BY DEF Leave, Runs
<1>2. Lists
  BY DEF HubInv, Shape
<1>3. /\ IsList(first) /\ IsList(second)
      /\ Range(first) = IF conn[a].subscribed THEN {[op |-> "who"]} ELSE {}
      /\ Range(second) = IF conn[a].viewing THEN {[op |-> "view", only |-> FALSE]} ELSE {}
  BY PutTasks, NoTask
<1> HIDE DEF first, second
<1>4. PICK new : new = Range(first) \cup Range(second)
  OBVIOUS
<1>5. Did(a, {Head(todo[a])}, new)
  <2>1. IsList(first \o second) /\ Range(first \o second) = new
    BY <1>3, <1>4, TwoLists
  <2> QED  BY <1>1, <1>2, <2>1, NowDid
<1>6. PICK who, view : /\ who.op = "who" /\ view.op = "view" /\ view.only = FALSE
                       /\ Range(first) = IF conn[a].subscribed THEN {who} ELSE {}
                       /\ Range(second) = IF conn[a].viewing THEN {view} ELSE {}
  <2>1. PICK who : who = [op |-> "who"]
    OBVIOUS
  <2>2. PICK view : view = [op |-> "view", only |-> FALSE]
    OBVIOUS
  <2>3. who.op = "who" /\ view.op = "view" /\ view.only = FALSE
    BY <2>1, <2>2
  <2> QED  BY <1>3, <2>1, <2>2, <2>3
<1>7. TaskOK(who)' /\ TaskOK(view)'
  BY <1>6, PlainTasks
<1>8. \A t \in new : TaskOK(t)'
  BY <1>4, <1>6, <1>7
<1> QED  BY <1>4, <1>5, <1>6, <1>8

\* A connection is taken out of the hub.
LEMMA LeaveKeeps ==
  ASSUME HubInv, NEW a \in Conns, Leave(a)
  PROVE  HubInv'
<1> DEFINE row == [[conn[a] EXCEPT !.status = "closed"] EXCEPT !.out = 0]
<1>1. /\ todo[a] # <<>> /\ conn' = [conn EXCEPT ![a] = row] /\ peer' = peer /\ members' = members
      /\ head' = head /\ targetsFresh' = targetsFresh
      /\ presenceGen' = presenceGen /\ rosterGen' = rosterGen /\ clock' = clock
      /\ Head(todo[a]).op = "leave"
  BY DEF Leave, Runs, gens, store
<1>2. a \in Actors /\ Rows /\ Lists /\ conn[a].status # "new" /\ conn[a] \in Row
  BY <1>1 DEF Actors, HubInv, Shape, Rows, Unmade
<1>3. /\ row \in Row /\ row.status = "closed"
      /\ row.presenceSent = conn[a].presenceSent /\ row.rosterSent = conn[a].rosterSent
      /\ row.cursor = conn[a].cursor /\ row.viewing = conn[a].viewing
      /\ row.subscribed = conn[a].subscribed
  BY <1>2 DEF Row
<1>4. PICK r \in Row : r = row
  BY <1>3
<1> HIDE DEF row
<1>5. PICK old : old = {Head(todo[a])}
  OBVIOUS
<1>6. PICK new, who, view :
        /\ Did(a, old, new) /\ \A t \in new : TaskOK(t)'
        /\ who.op = "who" /\ view.op = "view" /\ view.only = FALSE
        /\ new = (IF conn[a].subscribed THEN {who} ELSE {}) \cup (IF conn[a].viewing THEN {view} ELSE {})
  <2>1. \E new, who, view :
           /\ Did(a, {Head(todo[a])}, new) /\ \A t \in new : TaskOK(t)'
           /\ who.op = "who" /\ view.op = "view" /\ view.only = FALSE
           /\ new = (IF conn[a].subscribed THEN {who} ELSE {}) \cup (IF conn[a].viewing THEN {view} ELSE {})
    BY <1>2, LeaveTasks
  <2> QED  BY <2>1, <1>5
<1>7. \/ \E t \in new : t.op = "view" /\ ~t.only
      \/ conn[a].viewing = FALSE /\ \A t \in new : t.op \notin {"view", "show"}
  BY <1>2, <1>6 DEF Row
<1>8. \/ \E t \in new : t.op = "who"
      \/ conn[a].subscribed = FALSE /\ \A t \in new : t.op \notin {"who", "count", "tell"}
  BY <1>2, <1>6 DEF Row
<1>9. clock' \in Nat /\ row.cursor <= head
  BY <1>1, <1>2, <1>3 DEF Rows
<1>10. \/ \E t \in new : t.op = "view" /\ ~t.only
       \/ /\ r.viewing = conn[a].viewing
          /\ conn[a].viewing => (r.status = "closed" <=> conn[a].status = "closed")
          /\ \A t \in new : t.op \notin {"view", "show"}
  BY <1>3, <1>4, <1>7
<1>11. \/ \E t \in new : t.op = "who"
       \/ /\ r.subscribed = conn[a].subscribed /\ r.cursor = conn[a].cursor
          /\ conn[a].subscribed => (r.status = "closed" <=> conn[a].status = "closed")
          /\ \A t \in new : t.op \notin {"who", "count", "tell"}
  BY <1>3, <1>4, <1>8
<1>12. r.status # "new" /\ (r.status = "open" => conn[a].status = "open")
  BY <1>3, <1>4
<1>13. \A t \in old : t.op \in {"gone", "leave"}
  BY <1>1, <1>5
<1>14. conn' = [conn EXCEPT ![a] = r]
  BY <1>1, <1>4
<1> QED  BY <1>1, <1>2, <1>3, <1>4, <1>6, <1>9, <1>10, <1>11, <1>12, <1>13, <1>14, RowKeeps

\* A goroutine that is no handler would take nothing out.
LEMMA LeaveOfNone ==
  ASSUME HubInv, NEW a \in Actors, a \notin Conns, Leave(a)
  PROVE  HubInv'
<1>1. /\ todo[a] # <<>> /\ conn' = conn /\ peer' = peer /\ members' = members
      /\ head' = head /\ targetsFresh' = targetsFresh
      /\ presenceGen' = presenceGen /\ rosterGen' = rosterGen /\ clock' = clock
      /\ Head(todo[a]).op = "leave"
  BY DEF Leave, Runs, gens, store, HubInv, Shape, Rows
<1>2. PICK old : old = {Head(todo[a])}
  OBVIOUS
<1>3. PICK new, who, view :
        /\ Did(a, old, new) /\ \A t \in new : TaskOK(t)'
        /\ who.op = "who" /\ view.op = "view" /\ view.only = FALSE
        /\ new = (IF conn[a].subscribed THEN {who} ELSE {}) \cup (IF conn[a].viewing THEN {view} ELSE {})
  <2>1. \E new, who, view :
           /\ Did(a, {Head(todo[a])}, new) /\ \A t \in new : TaskOK(t)'
           /\ who.op = "who" /\ view.op = "view" /\ view.only = FALSE
           /\ new = (IF conn[a].subscribed THEN {who} ELSE {}) \cup (IF conn[a].viewing THEN {view} ELSE {})
    BY LeaveTasks
  <2> QED  BY <2>1, <1>2
<1>4. Rows'
  BY <1>1, ReadsOnly DEF Rows
<1>5. Shape'
  BY <1>1, <1>3, <1>4, ReadsOnly, ShapeKept DEF Rows
<1>6. new \subseteq Pending'
  BY <1>3, DidPending DEF HubInv, Shape
<1>7. RosterInv'
  <2>1. CASE view \in new
    BY <1>3, <1>6, <2>1 DEF RosterInv, ViewPending
  <2>2. CASE view \notin new
    <3>1. \A t \in old \cup new : t.op \notin {"view", "show"}
      BY <1>1, <1>2, <1>3, <2>2
    <3> QED  BY <1>1, <1>3, <3>1, ReadsOnly, RostersKept
  <2> QED  BY <2>1, <2>2
<1>8. PresenceInv'
  <2>1. CASE who \in new
    BY <1>3, <1>6, <2>1 DEF PresenceInv, CountPending
  <2>2. CASE who \notin new
    <3>1. \A t \in old \cup new : t.op \notin {"who", "count", "tell"}
      BY <1>1, <1>2, <1>3, <2>2
    <3> QED  BY <1>1, <1>3, <3>1, ReadsOnly, PresenceKept DEF Rows
  <2> QED  BY <2>1, <2>2
<1> QED  BY <1>5, <1>7, <1>8 DEF HubInv

-----------------------------------------------------------------------------
(* The handlers. *)

\* One frame of a connection: what RowKeeps asks of its row and its tasks.
LEMMA FrameKeeps ==
  ASSUME HubInv, NEW c \in Conns, NEW kind, NEW row \in Row, NEW tasks, NEW new,
         Frame(c, kind, row, tasks), IsList(tasks), new = Range(tasks),
         row.status = conn[c].status \/ (conn[c].status = "open" /\ row.status = "dropped"),
         row.presenceSent = conn[c].presenceSent, row.rosterSent = conn[c].rosterSent,
         row.cursor <= head, clock' \in Nat,
         \A t \in new : TaskOK(t)' /\ t.op \notin {"count", "tell", "show"},
         \/ \E t \in new : t.op = "view" /\ ~t.only
         \/ row.viewing = conn[c].viewing /\ \A t \in new : t.op # "view",
         \/ \E t \in new : t.op = "who"
         \/ row.subscribed = conn[c].subscribed /\ row.cursor = conn[c].cursor
  PROVE  HubInv'
<1>1. /\ conn[c].status \in {"open", "dropped"} /\ todo[c] = <<>>
      /\ conn' = [conn EXCEPT ![c] = row] /\ todo' = [todo EXCEPT ![c] = tasks]
      /\ peer' = peer /\ members' = members /\ head' = head
      /\ presenceGen' = presenceGen /\ rosterGen' = rosterGen /\ targetsFresh' = targetsFresh
  BY DEF Frame, gens, store
<1>2. PICK old : old = {}
  OBVIOUS
<1>3. Did(c, old, new)
  BY <1>1, <1>2, PutDid DEF HubInv, Shape, Actors
<1>4. row.status \in {"open", "dropped"} /\ (row.status = "open" => conn[c].status = "open")
  BY <1>1
<1>5. \/ \E t \in new : t.op = "view" /\ ~t.only
      \/ /\ row.viewing = conn[c].viewing
         /\ conn[c].viewing => (row.status = "closed" <=> conn[c].status = "closed")
         /\ \A t \in new : t.op \notin {"view", "show"}
  BY <1>1, <1>4
<1>6. \/ \E t \in new : t.op = "who"
      \/ /\ row.subscribed = conn[c].subscribed /\ row.cursor = conn[c].cursor
         /\ conn[c].subscribed => (row.status = "closed" <=> conn[c].status = "closed")
         /\ \A t \in new : t.op \notin {"who", "count", "tell"}
  BY <1>1, <1>4
<1>7. /\ \A t \in old : t.op \in {"gone", "leave"} /\ conn[c].status # "new" /\ row.status # "new"
      /\ \A t \in new : TaskOK(t)'
  BY <1>1, <1>2, <1>4
<1> QED  BY <1>1, <1>3, <1>4, <1>5, <1>6, <1>7, RowKeeps

\* The rows of a frame, field by field.
LEMMA RowOf ==
  ASSUME HubInv, NEW c \in Conns
  PROVE  /\ conn[c] \in Row /\ conn[c].cursor \in Nat /\ conn[c].cursor <= head
         /\ head \in Nat /\ clock \in Nat
  BY DEF HubInv, Shape, Rows, Row

\* A subscription is followed by a presence of its own.
LEMMA SubscribeKeeps ==
  ASSUME HubInv, NEW c \in Conns, Subscribe(c)
  PROVE  HubInv'
<1>1. PICK row : row = [conn[c] EXCEPT !.subscribed = TRUE]
  OBVIOUS
<1>2. PICK greet : greet = <<[op |-> "greet"]>>
  OBVIOUS
<1>3. Frame(c, "subscribe", row, Presence \o greet) /\ clock' = clock
  BY <1>1, <1>2 DEF Subscribe
<1>4. /\ row \in Row /\ row.status = conn[c].status /\ row.presenceSent = conn[c].presenceSent
      /\ row.rosterSent = conn[c].rosterSent /\ row.cursor = conn[c].cursor
      /\ row.viewing = conn[c].viewing
  BY <1>1, RowOf DEF Row
<1>5. PICK who, hello : /\ who.op = "who" /\ hello.op = "greet"
                        /\ Range(Presence) = {who} /\ IsList(greet) /\ Range(greet) = {hello}
  <2>1. PICK who : who = [op |-> "who"]
    OBVIOUS
  <2>2. PICK hello : hello = [op |-> "greet"]
    OBVIOUS
  <2>3. who.op = "who" /\ hello.op = "greet"
    BY <2>1, <2>2
  <2> QED  BY <1>2, <2>1, <2>2, <2>3, PutTasks, OneTask
<1>6. PICK tasks : tasks = Presence \o greet
  OBVIOUS
<1>7. PICK new : new = {who, hello}
  OBVIOUS
<1>8. IsList(tasks) /\ Range(tasks) = new
  BY <1>5, <1>6, <1>7, PutTasks, TwoLists
<1>9. \A t \in new : TaskOK(t)' /\ t.op \notin {"count", "tell", "show", "view"}
  BY <1>5, <1>7, PlainTasks
<1>10. who \in new
  BY <1>7
<1> QED  BY <1>3, <1>4, <1>5, <1>6, <1>8, <1>9, <1>10, RowOf, FrameKeeps

\* The end of a subscription is followed by a presence too.
LEMMA UnsubscribeKeeps ==
  ASSUME HubInv, NEW c \in Conns, Unsubscribe(c)
  PROVE  HubInv'
<1>1. PICK row : row = [[[conn[c] EXCEPT !.subscribed = FALSE] EXCEPT !.cursor = 0] EXCEPT !.fix = NoFix]
  OBVIOUS
<1>2. Frame(c, "unsubscribe", row, TakenBack(c) \o Presence) /\ clock' = clock
  BY <1>1 DEF Unsubscribe
<1>3. /\ row \in Row /\ row.status = conn[c].status /\ row.presenceSent = conn[c].presenceSent
      /\ row.rosterSent = conn[c].rosterSent /\ row.cursor <= head
      /\ row.viewing = conn[c].viewing
  <2>1. PICK off : off = [conn[c] EXCEPT !.subscribed = FALSE]
    OBVIOUS
  <2>2. PICK none : none = [off EXCEPT !.cursor = 0]
    OBVIOUS
  <2>3. /\ off \in Row /\ off.status = conn[c].status /\ off.presenceSent = conn[c].presenceSent
        /\ off.rosterSent = conn[c].rosterSent /\ off.viewing = conn[c].viewing
    BY <2>1, RowOf DEF Row
  <2>4. /\ none \in Row /\ none.status = off.status /\ none.presenceSent = off.presenceSent
        /\ none.rosterSent = off.rosterSent /\ none.viewing = off.viewing /\ none.cursor = 0
    BY <2>2, <2>3 DEF Row
  <2>5. row = [none EXCEPT !.fix = 0]
    BY <1>1, <2>1, <2>2 DEF NoFix
  <2>6. /\ row \in Row /\ row.status = none.status /\ row.presenceSent = none.presenceSent
        /\ row.rosterSent = none.rosterSent /\ row.viewing = none.viewing /\ row.cursor = 0
    BY <2>4, <2>5 DEF Row
  <2> QED  BY <2>3, <2>4, <2>6, RowOf
<1>4. PICK who : who.op = "who" /\ Range(Presence) = {who}
  <2>1. PICK who : who = [op |-> "who"]
    OBVIOUS
  <2>2. who.op = "who"
    BY <2>1
  <2> QED  BY <2>1, <2>2, PutTasks
<1>5. PICK back : back = TakenBack(c)
  OBVIOUS
<1>6. IsList(back) /\ \A t \in Range(back) : t.op = "gone"
  BY <1>5, PutTasks
<1>7. PICK tasks, new : tasks = back \o Presence /\ new = Range(tasks)
  OBVIOUS
<1>8. IsList(tasks) /\ new = Range(back) \cup {who}
  BY <1>4, <1>6, <1>7, PutTasks, TwoLists
<1>9. \A t \in new : TaskOK(t)' /\ t.op \notin {"count", "tell", "show", "view"}
  BY <1>4, <1>6, <1>8, PlainTasks
<1>10. who \in new
  BY <1>8
<1> QED  BY <1>2, <1>3, <1>4, <1>5, <1>7, <1>8, <1>9, <1>10, RowOf, FrameKeeps

\* A trip opened or closed is followed by a roster, and one that stays as it
\* was by none.
LEMMA SetViewingKeeps ==
  ASSUME HubInv, NEW c \in Conns, NEW wants \in BOOLEAN, SetViewing(c, wants)
  PROVE  HubInv'
<1>1. PICK on \in BOOLEAN : on = (wants /\ UserOf[c] \in members)
  OBVIOUS
<1>2. PICK row : row = [conn[c] EXCEPT !.viewing = on]
  OBVIOUS
<1>3. PICK tasks : tasks = IF on # conn[c].viewing THEN Roster(FALSE) ELSE <<>>
  OBVIOUS
<1>4. Frame(c, "viewing", row, tasks) /\ clock' = clock
  BY <1>1, <1>2, <1>3, Zenon DEF SetViewing
<1>5. /\ row \in Row /\ row.status = conn[c].status /\ row.presenceSent = conn[c].presenceSent
      /\ row.rosterSent = conn[c].rosterSent /\ row.cursor = conn[c].cursor
      /\ row.viewing = on /\ row.subscribed = conn[c].subscribed
  BY <1>1, <1>2, RowOf DEF Row
<1>6. PICK view : view.op = "view" /\ view.only = FALSE /\ Range(Roster(FALSE)) = {view}
  <2>1. PICK view : view = [op |-> "view", only |-> FALSE]
    OBVIOUS
  <2>2. view.op = "view" /\ view.only = FALSE
    BY <2>1
  <2> QED  BY <2>1, <2>2, PutTasks
<1>7. PICK new : new = Range(tasks)
  OBVIOUS
<1>8. IsList(tasks) /\ new = IF on # conn[c].viewing THEN {view} ELSE {}
  BY <1>3, <1>6, <1>7, PutTasks, NoTask
<1>9. \A t \in new : TaskOK(t)' /\ t.op \notin {"count", "tell", "show"}
  BY <1>6, <1>8, PlainTasks
<1>10. \/ \E t \in new : t.op = "view" /\ ~t.only
       \/ row.viewing = conn[c].viewing /\ \A t \in new : t.op # "view"
  <2>1. CASE on # conn[c].viewing
    BY <2>1, <1>6, <1>8
  <2>2. CASE on = conn[c].viewing
    BY <2>2, <1>5, <1>8
  <2> QED  BY <2>1, <2>2
<1> QED  BY <1>4, <1>5, <1>7, <1>8, <1>9, <1>10, RowOf, FrameKeeps

\* A reported cursor is followed by a presence.
LEMMA UpdateCursorKeeps ==
  ASSUME HubInv, NEW c \in Conns, UpdateCursor(c)
  PROVE  HubInv'
<1>1. PICK seq \in conn[c].cursor .. head :
        Frame(c, "cursor", [conn[c] EXCEPT !.cursor = seq], Presence)
  BY DEF UpdateCursor
<1>2. PICK row : row = [conn[c] EXCEPT !.cursor = seq]
  OBVIOUS
<1>3. clock' = clock /\ seq \in Nat /\ seq <= head
  BY RowOf DEF UpdateCursor
<1>4. /\ row \in Row /\ row.status = conn[c].status /\ row.presenceSent = conn[c].presenceSent
      /\ row.rosterSent = conn[c].rosterSent /\ row.cursor <= head /\ row.viewing = conn[c].viewing
  BY <1>2, <1>3, RowOf DEF Row
<1>5. PICK who : who.op = "who" /\ Range(Presence) = {who}
  <2>1. PICK who : who = [op |-> "who"]
    OBVIOUS
  <2>2. who.op = "who"
    BY <2>1
  <2> QED  BY <2>1, <2>2, PutTasks
<1>6. PICK tasks, new : tasks = Presence /\ new = {who}
  OBVIOUS
<1>7. \A t \in new : TaskOK(t)' /\ t.op \notin {"count", "tell", "show", "view"}
  BY <1>5, <1>6, PlainTasks
<1>8. who \in new /\ new = Range(tasks) /\ IsList(tasks) /\ Frame(c, "cursor", row, tasks)
  BY <1>1, <1>2, <1>5, <1>6, PutTasks
<1> QED  BY <1>3, <1>4, <1>5, <1>7, <1>8, RowOf, FrameKeeps

\* A position concerns neither rosters nor presence.
LEMMA SetLocationKeeps ==
  ASSUME HubInv, NEW c \in Conns, SetLocation(c)
  PROVE  HubInv'
<1>1. clock' = clock + 1 /\ clock' \in Nat
  BY RowOf DEF SetLocation
<1>2. PICK k \in Nat : k = clock'
  BY <1>1
<1>3. PICK row : row = [conn[c] EXCEPT !.fix = k]
  OBVIOUS
<1>4. PICK tasks : tasks = Reach(Location(UserOf[c], k), UserOf[c])
  OBVIOUS
<1>5. Frame(c, "location", row, tasks)
  BY <1>2, <1>3, <1>4 DEF SetLocation
<1>6. /\ row \in Row /\ row.status = conn[c].status /\ row.presenceSent = conn[c].presenceSent
      /\ row.rosterSent = conn[c].rosterSent /\ row.cursor = conn[c].cursor
      /\ row.viewing = conn[c].viewing /\ row.subscribed = conn[c].subscribed
  BY <1>3, RowOf DEF Row
<1>7. PICK reach : reach.op = "reach" /\ reach.frame.kind = "location" /\ Range(tasks) = {reach}
  <2>1. PICK f : f = Location(UserOf[c], k)
    OBVIOUS
  <2>2. PICK reach : reach = [op |-> "reach", frame |-> f, but |-> UserOf[c]]
    OBVIOUS
  <2>3. reach.op = "reach" /\ reach.frame.kind = "location"
    BY <2>1, <2>2 DEF Location
  <2> QED  BY <1>4, <2>1, <2>2, <2>3, PutTasks
<1>8. PICK new : new = {reach}
  OBVIOUS
<1>9. \A t \in new : TaskOK(t)' /\ t.op \notin {"who", "count", "tell", "show", "view"}
  BY <1>7, <1>8, PlainTasks
<1>10. new = Range(tasks) /\ IsList(tasks)
  BY <1>4, <1>7, <1>8, PutTasks
<1> QED  BY <1>1, <1>5, <1>6, <1>9, <1>10, RowOf, FrameKeeps

\* Nor does one taken back.
LEMMA ClearLocationKeeps ==
  ASSUME HubInv, NEW c \in Conns, ClearLocation(c)
  PROVE  HubInv'
<1>1. PICK row : row = [conn[c] EXCEPT !.fix = NoFix]
  OBVIOUS
<1>2. PICK tasks, new : tasks = TakenBack(c) /\ new = Range(tasks)
  OBVIOUS
<1>3. Frame(c, "stop", row, tasks) /\ clock' = clock
  BY <1>1, <1>2 DEF ClearLocation
<1>4. /\ row \in Row /\ row.status = conn[c].status /\ row.presenceSent = conn[c].presenceSent
      /\ row.rosterSent = conn[c].rosterSent /\ row.cursor = conn[c].cursor
      /\ row.viewing = conn[c].viewing /\ row.subscribed = conn[c].subscribed
  BY <1>1, RowOf DEF Row, NoFix
<1>5. IsList(tasks) /\ \A t \in new : t.op = "gone"
  BY <1>2, PutTasks
<1>6. \A t \in new : TaskOK(t)' /\ t.op \notin {"who", "count", "tell", "show", "view"}
  BY <1>5, PlainTasks
<1> QED  BY <1>2, <1>3, <1>4, <1>5, <1>6, RowOf, FrameKeeps

\* An answered ping takes a place in the queue.
LEMMA PingKeeps ==
  ASSUME HubInv, NEW c \in Conns, Ping(c)
  PROVE  HubInv'
<1>1. PICK row, tasks, new : row = enqueue(c) /\ tasks = <<>> /\ new = {}
  OBVIOUS
<1>2. Frame(c, "ping", row, tasks) /\ clock' = clock
  BY <1>1 DEF Ping
<1>3. Rows /\ IsList(tasks) /\ new = Range(tasks) /\ conn[c].status \in {"open", "dropped"}
  BY <1>1, <1>2, NoTask DEF HubInv, Shape, Frame
<1>4. /\ row \in Row /\ row.presenceSent = conn[c].presenceSent
      /\ row.rosterSent = conn[c].rosterSent /\ row.cursor = conn[c].cursor
      /\ row.viewing = conn[c].viewing /\ row.subscribed = conn[c].subscribed
  BY <1>1, <1>3, EnqueueRow
<1>5. row.status = conn[c].status \/ (conn[c].status = "open" /\ row.status = "dropped")
  BY <1>1, <1>3, <1>4, EnqueueRow DEF Row
<1> QED  BY <1>1, <1>2, <1>3, <1>4, <1>5, RowOf, FrameKeeps

\* A failed read leaves the connection in the hub until its handler is done.
LEMMA CloseKeeps ==
  ASSUME HubInv, NEW c \in Conns, Close(c)
  PROVE  HubInv'
<1>1. PICK row : row = [[conn[c] EXCEPT !.status = "dropped"] EXCEPT !.fix = NoFix]
  OBVIOUS
<1>2. PICK back : back = TakenBack(c)
  OBVIOUS
<1>3. PICK leave : leave = [op |-> "leave"]
  OBVIOUS
<1>4. PICK tasks : tasks = back \o <<leave>>
  OBVIOUS
<1>5. /\ conn[c].status \in {"open", "dropped"} /\ todo[c] = <<>>
      /\ conn' = [conn EXCEPT ![c] = row] /\ todo' = [todo EXCEPT ![c] = tasks]
      /\ peer' = peer /\ members' = members /\ head' = head /\ clock' = clock
      /\ presenceGen' = presenceGen /\ rosterGen' = rosterGen /\ targetsFresh' = targetsFresh
  BY <1>1, <1>2, <1>3, <1>4 DEF Close, gens, store
<1>6. /\ row \in Row /\ row.status = "dropped" /\ row.presenceSent = conn[c].presenceSent
      /\ row.rosterSent = conn[c].rosterSent /\ row.cursor = conn[c].cursor
      /\ row.viewing = conn[c].viewing /\ row.subscribed = conn[c].subscribed
  <2>1. PICK off : off = [conn[c] EXCEPT !.status = "dropped"]
    OBVIOUS
  <2>2. /\ off \in Row /\ off.status = "dropped" /\ off.presenceSent = conn[c].presenceSent
        /\ off.rosterSent = conn[c].rosterSent /\ off.cursor = conn[c].cursor
        /\ off.viewing = conn[c].viewing /\ off.subscribed = conn[c].subscribed
    BY <2>1, RowOf DEF Row
  <2>3. row = [off EXCEPT !.fix = 0]
    BY <1>1, <2>1 DEF NoFix
  <2>4. /\ row \in Row /\ row.status = off.status /\ row.presenceSent = off.presenceSent
        /\ row.rosterSent = off.rosterSent /\ row.cursor = off.cursor
        /\ row.viewing = off.viewing /\ row.subscribed = off.subscribed
    BY <2>2, <2>3 DEF Row
  <2> QED  BY <2>2, <2>4
<1>7. IsList(back) /\ \A t \in Range(back) : t.op = "gone"
  BY <1>2, PutTasks
<1>8. IsList(<<leave>>) /\ Range(<<leave>>) = {leave} /\ leave.op = "leave"
  BY <1>3, OneTask
<1>9. PICK new, old : new = Range(back) \cup {leave} /\ old = {}
  OBVIOUS
<1>10. IsList(tasks) /\ Range(tasks) = new
  BY <1>4, <1>7, <1>8, <1>9, TwoLists
<1>11. Did(c, old, new)
  BY <1>5, <1>9, <1>10, PutDid DEF HubInv, Shape, Actors
<1>12. \A t \in new : TaskOK(t)' /\ t.op \notin {"who", "count", "tell", "show", "view"}
  BY <1>7, <1>8, <1>9, PlainTasks
<1>13. row.status # "new" /\ row.status # "closed" /\ conn[c].status # "closed" /\ conn[c].status # "new"
  BY <1>5, <1>6
<1>14. row.status = "open" => conn[c].status = "open"
  BY <1>6
<1>15. \A t \in old : t.op \in {"gone", "leave"}
  BY <1>9
<1>16. clock' \in Nat /\ row.cursor <= head
  BY <1>5, <1>6, RowOf
<1> QED  BY <1>5, <1>6, <1>11, <1>12, <1>13, <1>14, <1>15, <1>16, RowKeeps

\* A slow peer reads.
LEMMA PumpKeeps ==
  ASSUME HubInv, NEW c \in Conns, Pump(c)
  PROVE  HubInv'
<1>1. PICK row, new : row = [conn[c] EXCEPT !.out = 0] /\ new = {}
  OBVIOUS
<1>2. /\ conn[c].status \in {"open", "dropped"}
      /\ conn' = [conn EXCEPT ![c] = row] /\ todo' = todo
      /\ peer' = peer /\ members' = members /\ head' = head /\ clock' = clock
      /\ presenceGen' = presenceGen /\ rosterGen' = rosterGen /\ targetsFresh' = targetsFresh
  BY <1>1 DEF Pump, gens, store
<1>3. /\ row \in Row /\ row.status = conn[c].status /\ row.presenceSent = conn[c].presenceSent
      /\ row.rosterSent = conn[c].rosterSent /\ row.cursor = conn[c].cursor
      /\ row.viewing = conn[c].viewing /\ row.subscribed = conn[c].subscribed
  BY <1>1, RowOf DEF Row
<1>4. Did(c, new, new)
  BY <1>1, <1>2, IdleDid DEF HubInv, Shape, Actors
<1>5. row.status # "new" /\ conn[c].status # "new" /\ clock' \in Nat /\ row.cursor <= head
  BY <1>2, <1>3, RowOf
<1>6. \A t \in new : /\ TaskOK(t)' /\ t.op \in {"gone", "leave"}
                     /\ t.op \notin {"who", "count", "tell", "show", "view"}
  BY <1>1
<1> QED  BY <1>2, <1>3, <1>4, <1>5, <1>6, RowKeeps

\* A connection is made: it is told what the others' rosters already show.
LEMMA RegisterKeeps ==
  ASSUME HubInv, NEW c \in Conns, Register(c)
  PROVE  HubInv'
<1>1. PICK row, view, old, new :
        /\ row = [conn[c] EXCEPT !.status = "open"] /\ view = [op |-> "view", only |-> TRUE]
        /\ old = {} /\ new = {view}
  OBVIOUS
<1>2. view.op = "view" /\ view.only = TRUE
  BY <1>1
<1>3. /\ conn[c].status = "new" /\ conn' = [conn EXCEPT ![c] = row]
      /\ todo' = [todo EXCEPT ![c] = Roster(TRUE)]
      /\ peer' = peer /\ members' = members /\ head' = head /\ clock' = clock
      /\ presenceGen' = presenceGen /\ rosterGen' = rosterGen /\ targetsFresh' = targetsFresh
  BY <1>1 DEF Register, gens, store
<1>4. /\ todo[c] = <<>> /\ peer[c].roster = {} /\ conn[c].viewing = FALSE /\ conn[c].subscribed = FALSE
      /\ Rows /\ Lists /\ Shape /\ c \in Actors
  BY <1>3 DEF HubInv, Shape, Unmade, Actors
<1>5. /\ row \in Row /\ row.status = "open" /\ row.presenceSent = conn[c].presenceSent
      /\ row.rosterSent = conn[c].rosterSent /\ row.cursor = conn[c].cursor
      /\ row.viewing = FALSE /\ row.subscribed = FALSE
  BY <1>1, <1>4, RowOf DEF Row
<1>6. /\ conn'[c] = row /\ \A d \in Conns : d # c => conn'[d] = conn[d]
      /\ conn' \in [Conns -> Row]
  BY <1>3, <1>4, <1>5 DEF Rows
<1>7. Did(c, old, new)
  <2>1. IsList(Roster(TRUE)) /\ Range(Roster(TRUE)) = new
    BY <1>1, PutTasks
  <2> QED  BY <1>1, <1>3, <1>4, <2>1, PutDid
<1>8. Rows'
  <2>1. \A d \in Conns : /\ conn'[d].presenceSent <= presenceGen /\ conn'[d].rosterSent <= rosterGen
                         /\ conn'[d].cursor <= head
    BY <1>4, <1>5, <1>6 DEF Rows
  <2> QED  BY <1>3, <1>4, <1>6, <2>1 DEF Rows
<1>9. Shape'
  <2>1. presenceGen' >= presenceGen /\ rosterGen' >= rosterGen
    BY <1>3, <1>4 DEF Rows
  <2>2. \A t \in new : TaskOK(t)'
    BY <1>1, <1>2, PlainTasks
  <2> QED  BY <1>3, <1>4, <1>5, <1>6, <1>7, <1>8, <2>1, <2>2, ShapeKept
<1>10. PresenceInv'
  <2>1. SamePresence
    BY <1>3, <1>4, <1>5, <1>6 DEF SamePresence, Live, Registered
  <2> QED  BY <1>1, <1>2, <1>3, <1>4, <1>7, <2>1, PresenceKept DEF Rows
<1>11. RosterInv'
  <2> SUFFICES ASSUME Intact', ~ViewPending', NEW d \in Conns, Live(d)'
               PROVE  RosterComes(d)'
    BY DEF RosterInv
  <2>1. /\ Pending' \subseteq Pending \cup new /\ Pending \subseteq Pending' \cup old
        /\ view \in Work(c)' /\ (d # c => Work(d)' = Work(d))
    <3>1. d \in Actors
      BY DEF Actors
    <3> QED  BY <1>1, <1>4, <1>7, <3>1, DidPending, DidWork
  <2>2. Intact /\ ~ViewPending
    BY <1>1, <1>3, <2>1 DEF Intact, ViewPending
  <2>3. Viewers' = Viewers
    BY <1>3, <1>4, <1>5, <1>6 DEF Viewers, Registered
  <2>4. RostersDue(d)' = RostersDue(d)
    <3>1. conn'[d].rosterSent = conn[d].rosterSent
      BY <1>5, <1>6
    <3>2. \A t : t.op = "show" => (t \in Pending' <=> t \in Pending)
      BY <1>1, <1>2, <2>1
    <3> QED  BY <3>1, <3>2 DEF RostersDue, RosterDueAt
  <2>5. CASE d = c
    <3>1. RostersDue(d) = {}
      BY <1>3, <2>5 DEF RostersDue, RosterDueAt, HubInv, Shape, Tasks, TaskOK
    <3>2. GreetedSoon(d)' /\ peer'[d].roster = {}
      BY <1>2, <1>3, <1>4, <2>1, <2>5 DEF GreetedSoon
    <3> QED  BY <2>4, <3>1, <3>2 DEF RosterComes
  <2>6. CASE d # c
    <3>1. RosterComes(d) /\ peer'[d].roster = peer[d].roster /\ (GreetedSoon(d) => GreetedSoon(d)')
      BY <1>3, <1>6, <2>1, <2>2, <2>6 DEF HubInv, RosterInv, Live, GreetedSoon
    <3> QED  BY <2>3, <2>4, <3>1 DEF RosterComes
  <2> QED  BY <2>5, <2>6
<1> QED  BY <1>9, <1>10, <1>11 DEF HubInv

\* A push that is announced.
LEMMA CommitKeeps ==
  ASSUME HubInv, Commit
  PROVE  HubInv'
<1>1. PICK tasks, old : tasks = Reach([kind |-> "changed", head |-> head'], "nobody") /\ old = {}
  OBVIOUS
<1>2. /\ todo[API] = <<>> /\ head' = head + 1 /\ todo' = [todo EXCEPT ![API] = tasks]
      /\ conn' = conn /\ peer' = peer /\ members' = members /\ clock' = clock
      /\ presenceGen' = presenceGen /\ rosterGen' = rosterGen /\ targetsFresh' = targetsFresh
  BY <1>1 DEF Commit, gens
<1>3. API \in Actors /\ Lists /\ Rows /\ Shape
  BY DEF Actors, HubInv, Shape
<1>4. PICK reach : reach.op = "reach" /\ reach.frame.kind = "changed" /\ Range(tasks) = {reach}
  <2>1. PICK f : f = [kind |-> "changed", head |-> head']
    OBVIOUS
  <2>2. PICK reach : reach = [op |-> "reach", frame |-> f, but |-> "nobody"]
    OBVIOUS
  <2>3. reach.op = "reach" /\ reach.frame.kind = "changed"
    BY <2>1, <2>2
  <2> QED  BY <1>1, <2>1, <2>2, <2>3, PutTasks
<1>5. PICK new : new = {reach}
  OBVIOUS
<1>6. Did(API, old, new)
  <2>1. PICK f : f = [kind |-> "changed", head |-> head']
    OBVIOUS
  <2>2. IsList(tasks)
    BY <1>1, <2>1, PutTasks
  <2> QED  BY <1>1, <1>2, <1>3, <1>4, <1>5, <2>2, PutDid
<1>7. Rows'
  BY <1>2, <1>3 DEF Rows, Row
<1>8. Shape'
  <2>1. \A t \in new : TaskOK(t)'
    BY <1>4, <1>5, PlainTasks
  <2>2. presenceGen' >= presenceGen /\ rosterGen' >= rosterGen
    BY <1>2, <1>3 DEF Rows
  <2> QED  BY <1>2, <1>3, <1>6, <1>7, <2>1, <2>2, HubAssumption, ShapeKept
<1>9. SameRosters /\ SamePresence
  BY <1>2 DEF SameRosters, SamePresence, Live, Registered
<1>10. RosterInv'
  BY <1>1, <1>2, <1>3, <1>4, <1>5, <1>6, <1>9, RostersKept
<1>11. PresenceInv'
  BY <1>1, <1>2, <1>3, <1>4, <1>5, <1>6, <1>9, PresenceKept DEF Rows
<1> QED  BY <1>8, <1>10, <1>11 DEF HubInv

\* A membership is taken away.
LEMMA RevokeKeeps ==
  ASSUME HubInv, NEW u \in Users, Revoke(u)
  PROVE  HubInv'
<1>1. /\ todo' = todo /\ conn' = conn /\ peer' = peer /\ head' = head /\ clock' = clock
      /\ presenceGen' = presenceGen /\ rosterGen' = rosterGen
      /\ u \in members /\ members' = members \ {u}
  BY DEF Revoke, gens
<1>2. Lists' /\ Rows' /\ Tasks' /\ Unmade'
  BY <1>1 DEF HubInv, Shape, Lists, Rows, Tasks, Unmade, Pending, Work, TaskOK
<1>3. ~Intact'
  BY <1>1 DEF Intact
<1> QED  BY <1>2, <1>3 DEF HubInv, Shape, RosterInv, PresenceInv

\* A step that changes nothing.
LEMMA StutterKeeps ==
  ASSUME HubInv, UNCHANGED vars
  PROVE  HubInv'
<1>1. /\ todo' = todo /\ conn' = conn /\ peer' = peer /\ head' = head /\ clock' = clock
      /\ presenceGen' = presenceGen /\ rosterGen' = rosterGen /\ members' = members
      /\ targetsFresh' = targetsFresh
  BY DEF vars, gens, store
<1>2. Lists' /\ Rows' /\ Tasks' /\ Unmade'
  BY <1>1 DEF HubInv, Shape, Lists, Rows, Tasks, Unmade, Pending, Work, TaskOK
<1>3. PICK none : none = {}
  OBVIOUS
<1>4. Did(API, none, none) /\ API \in Actors
  BY <1>1, <1>3, IdleDid DEF Actors, HubInv, Shape
<1>5. SameRosters /\ SamePresence
  BY <1>1 DEF SameRosters, SamePresence, Live, Registered
<1>6. RosterInv' /\ PresenceInv'
  BY <1>1, <1>3, <1>4, <1>5, RostersKept, PresenceKept DEF HubInv, Shape, Rows
<1> QED  BY <1>2, <1>6 DEF HubInv, Shape

\* No connection is made yet.
LEMMA InitInv ==
  ASSUME Init
  PROVE  HubInv
<1>1. \A a \in Actors : Work(a) = {} /\ IsList(todo[a])
  BY NoTask DEF Init, Work
<1>2. Pending = {}
  BY <1>1 DEF Pending
<1>3. Lists
  BY <1>1 DEF Init, Lists
<1>4. newConn \in Row /\ newConn.status = "new" /\ newConn.subscribed = FALSE
      /\ newConn.viewing = FALSE /\ newConn.presenceSent = 0 /\ newConn.rosterSent = 0
      /\ newConn.cursor = 0
  BY DEF newConn, Row, NoFix
<1>5. Rows
  BY <1>4 DEF Init, Rows
<1>6. Tasks
  BY <1>2 DEF Tasks
<1>7. Unmade
  <2>1. \A c \in Conns : peer[c] = NewPeer /\ conn[c] = newConn
    BY DEF Init
  <2>2. NewPeer.roster = {}
    BY DEF NewPeer, Client
  <2> QED  BY <1>4, <2>1, <2>2 DEF Init, Unmade, Actors
<1>8. \A c \in Conns : ~Live(c)
  BY <1>4 DEF Init, Live
<1> QED  BY <1>3, <1>5, <1>6, <1>7, <1>8 DEF HubInv, Shape, RosterInv, PresenceInv

\* Every step of the hub keeps the invariant.
LEMMA NextKeeps ==
  ASSUME HubInv, [Next]_vars
  PROVE  HubInv'
<1>1. ASSUME NEW a \in Actors, Task(a)
      PROVE  HubInv'
  <2>1. CASE Who(a)
    BY <2>1, WhoKeeps
  <2>2. CASE Count(a)
    BY <2>2, CountKeeps
  <2>3. CASE Tell(a)
    BY <2>3, TellKeeps
  <2>4. CASE View(a)
    BY <2>4, ViewKeeps
  <2>5. CASE Show(a)
    BY <2>5, ShowKeeps
  <2>6. CASE ReachOut(a)
    BY <2>6, ReachOutKeeps
  <2>7. CASE Pass(a)
    BY <2>7, PassKeeps
  <2>8. CASE Gone(a)
    BY <2>8, GoneKeeps
  <2>9. CASE Greet(a)
    BY <2>9, GreetKeeps
  <2>10. CASE Leave(a)
    BY <2>10, LeaveKeeps, LeaveOfNone
  <2> QED  BY <1>1, <2>1, <2>2, <2>3, <2>4, <2>5, <2>6, <2>7, <2>8, <2>9, <2>10 DEF Task
<1>2. ASSUME NEW c \in Conns,
             \/ Register(c) \/ Subscribe(c) \/ Unsubscribe(c)
             \/ SetViewing(c, TRUE) \/ SetViewing(c, FALSE)
             \/ UpdateCursor(c) \/ SetLocation(c) \/ ClearLocation(c)
             \/ Ping(c) \/ Close(c) \/ Pump(c)
      PROVE  HubInv'
  BY <1>2, RegisterKeeps, SubscribeKeeps, UnsubscribeKeeps, SetViewingKeeps, UpdateCursorKeeps,
     SetLocationKeeps, ClearLocationKeeps, PingKeeps, CloseKeeps, PumpKeeps
<1> QED  BY <1>1, <1>2, CommitKeeps, RevokeKeeps, StutterKeeps DEF Next

\* The invariant holds throughout.
LEMMA HubInvHolds == Spec => []HubInv
  BY InitInv, NextKeeps, PTL DEF Spec

-----------------------------------------------------------------------------

\* Once nothing is under way every connected client shows exactly the other
\* people who have the trip open (broadcastRoster, for every number of
\* connections, people and frames).
THEOREM HubRosterSettles == Spec => []RosterSettles
<1>1. HubInv => RosterSettles
  <2> SUFFICES ASSUME HubInv, Quiet, Intact, NEW c \in Conns, Live(c)
               PROVE  peer[c].roster = Viewers \ {UserOf[c]}
    BY DEF RosterSettles, Viewers
  <2>1. \A a \in Actors : Work(a) = {}
    BY NoTask DEF Quiet, Work
  <2>2. Pending = {} /\ Work(c) = {}
    BY <2>1 DEF Pending, Actors
  <2>3. ~ViewPending /\ RostersDue(c) = {} /\ ~GreetedSoon(c)
    BY <2>2 DEF ViewPending, RostersDue, GreetedSoon
  <2> QED  BY <2>3 DEF HubInv, RosterInv, RosterComes
<1> QED  BY <1>1, HubInvHolds, PTL

\* Once nothing is under way every subscriber shows the trip's people with
\* their devices, and nobody who has caught up as behind, if the newest
\* generation was taken with the subscribers of that moment (broadcastPresence).
THEOREM HubPresenceSettles == Spec => []PresenceSettles
<1>1. HubInv => PresenceSettles
  <2> SUFFICES ASSUME HubInv, Quiet, Intact, targetsFresh, NEW c \in Conns, Live(c), conn[c].subscribed
               PROVE  ShowsPeople(c)
    BY DEF PresenceSettles, ShowsPeople
  <2>1. \A a \in Actors : Work(a) = {}
    BY NoTask DEF Quiet, Work
  <2>2. Pending = {}
    BY <2>1 DEF Pending
  <2>3. ~CountPending /\ PresencesDue(c) = {}
    BY <2>2 DEF CountPending, PresencesDue
  <2> QED  BY <2>3 DEF HubInv, PresenceInv, PresenceComes
<1> QED  BY <1>1, HubInvHolds, PTL

\* A task that sends to receivers already read.
Flies(c, t) == t.op \in {"count", "tell", "pass"} /\ c \in t.to

\* What is in flight, as a task under way.
LEMMA InFlight ==
  ASSUME NEW c \in Conns
  PROVE  /\ InFlightTo(c) <=> \E t \in Pending : Flies(c, t)
         /\ InFlightTo(c)' <=> \E t \in Pending' : Flies(c, t)
  BY DEF InFlightTo, Pending, Work, Range, Flies

\* Nothing flies to a connection if no new task does.
LEMMA NothingFlies ==
  ASSUME HubInv, NEW c \in Conns, ~InFlightTo(c),
         NEW a \in Actors, NEW old, NEW new, Did(a, old, new), \A t \in new : ~Flies(c, t)
  PROVE  ~InFlightTo(c)'
<1>1. Pending' \subseteq Pending \cup new
  BY DidPending DEF HubInv, Shape
<1> QED  BY <1>1, InFlight

\* What a revoked member's client shows of the trip stays.
Silent(c) ==
    /\ ~InFlightTo(c)'
    /\ peer'[c].presence = peer[c].presence
    /\ peer'[c].head = peer[c].head /\ peer'[c].where = peer[c].where

\* A task, for a connection that is not a member's and to which nothing flies.
LEMMA TaskSilent ==
  ASSUME HubInv, NEW c \in Conns, UserOf[c] \notin members, ~InFlightTo(c),
         NEW a \in Actors, Task(a)
  PROVE  Silent(c)
<1>1. PICK t : t = Head(todo[a])
  OBVIOUS
<1>2. Lists /\ todo[a] # <<>> /\ t \in Pending /\ ~Flies(c, t)
  <2>1. todo[a] # <<>>
    BY DEF Task, Who, Count, Tell, View, Show, ReachOut, Pass, Gone, Greet, Leave, Runs
  <2> QED  BY <1>1, <2>1, FirstIsPending, InFlight DEF HubInv, Shape
<1>3. c \notin subscribersOf
  BY DEF subscribersOf, mayReceive
<1>4. ASSUME NEW task, Now(a, <<task>>), ~Flies(c, task), peer' = peer
      PROVE  Silent(c)
  <2>1. Did(a, {Head(todo[a])}, {task})
    BY <1>2, <1>4, NowDid, OneTask
  <2> QED  BY <1>4, <2>1, NothingFlies DEF Silent
<1>5. ASSUME Now(a, <<>>)
      PROVE  ~InFlightTo(c)'
  <2>1. Did(a, {Head(todo[a])}, {})
    BY <1>2, <1>5, NowDid, NoTask
  <2> QED  BY <2>1, NothingFlies
<1>6. CASE Who(a)
  <2>1. PICK task : task.to = subscribersOf /\ Now(a, <<task>>)
    BY <1>6 DEF Who
  <2> QED  BY <1>3, <1>4, <1>6, <2>1 DEF Flies, Who
<1>7. CASE Count(a)
  <2>1. PICK task : task.op = "tell" /\ task.to = t.to /\ Now(a, <<task>>)
    BY <1>1, <1>7 DEF Count
  <2>2. t.op = "count"
    BY <1>1, <1>7 DEF Count, Runs
  <2> QED  BY <1>2, <1>4, <1>7, <2>1, <2>2 DEF Flies, Count
<1>8. CASE Tell(a)
  <2>1. t.op = "tell" /\ Now(a, <<>>) /\ c \notin PresenceDue(t)
    BY <1>1, <1>2, <1>8 DEF Tell, Runs, Flies, PresenceDue
  <2>2. peer'[c] = peer[c]
    BY <1>1, <1>8, <2>1 DEF Tell, ShownAt
  <2> QED  BY <1>5, <2>1, <2>2 DEF Silent
<1>9. CASE View(a)
  <2>1. PICK task : task.op = "show" /\ Now(a, <<task>>)
    BY <1>9 DEF View
  <2> QED  BY <1>4, <1>9, <2>1 DEF Flies, View
<1>10. CASE Show(a)
  <2>1. PICK f : f.kind = "roster" /\ (peer'[c] = peer[c] \/ peer'[c] = Shown(peer[c], f))
    <3>1. PICK f : f = [kind |-> "roster", users |-> RosterFor(UserOf[c], t.viewing)]
      OBVIOUS
    <3>2. f.kind = "roster"
      BY <3>1
    <3>3. peer'[c] = peer[c] \/ peer'[c] = Shown(peer[c], f)
      BY <1>1, <1>10, <3>1 DEF Show, ShownAt
    <3> QED  BY <3>2, <3>3
  <2>2. Now(a, <<>>)
    BY <1>10 DEF Show
  <2> QED  BY <1>5, <2>1, <2>2, ShownKeeps DEF Silent
<1>11. CASE ReachOut(a)
  <2>1. PICK task : c \notin task.to /\ Now(a, <<task>>)
    BY <1>3, <1>11 DEF ReachOut
  <2> QED  BY <1>4, <1>11, <2>1 DEF Flies, ReachOut
<1>12. CASE Pass(a)
  <2>1. t.op = "pass" /\ Now(a, <<>>) /\ c \notin t.to
    BY <1>1, <1>2, <1>12 DEF Pass, Send, Runs, Flies
  <2>2. peer'[c] = peer[c]
    BY <1>1, <1>12, <2>1 DEF Pass, Send, ShownAt
  <2> QED  BY <1>5, <2>1, <2>2 DEF Silent
<1>13. CASE Gone(a)
  <2>1. PICK task : task.op = "reach" /\ Now(a, <<task>>)
    BY <1>13 DEF Gone, Reach
  <2> QED  BY <1>4, <1>13, <2>1 DEF Flies, Gone
<1>14. CASE Greet(a)
  <2>1. PICK new : Did(a, {Head(todo[a])}, new) /\ GreetPuts(a, new)
    BY <1>14, GreetTasks
  <2>2. \A s \in new : ~Flies(c, s)
    BY <2>1 DEF GreetPuts, Flies, mayReceive
  <2> QED  BY <1>14, <2>1, <2>2, NothingFlies DEF Silent, Greet
<1>15. CASE Leave(a)
  <2>1. PICK new : Did(a, {Head(todo[a])}, new) /\ \A s \in new : s.op \in {"who", "view"}
    <3>1. PICK new, who, view :
             /\ Did(a, {Head(todo[a])}, new) /\ \A s \in new : TaskOK(s)'
             /\ who.op = "who" /\ view.op = "view" /\ view.only = FALSE
             /\ new = (IF conn[a].subscribed THEN {who} ELSE {}) \cup (IF conn[a].viewing THEN {view} ELSE {})
      BY <1>15, LeaveTasks
    <3> QED  BY <3>1
  <2>2. \A s \in new : ~Flies(c, s)
    BY <2>1 DEF Flies
  <2> QED  BY <1>15, <2>1, <2>2, NothingFlies DEF Silent, Leave
<1> QED  BY <1>6, <1>7, <1>8, <1>9, <1>10, <1>11, <1>12, <1>13, <1>14, <1>15 DEF Task

\* A handler's step, for such a connection.
LEMMA HandlerSilent ==
  ASSUME HubInv, NEW c \in Conns, UserOf[c] \notin members, ~InFlightTo(c),
         NEW d \in Conns,
         \/ Register(d) \/ Subscribe(d) \/ Unsubscribe(d)
         \/ SetViewing(d, TRUE) \/ SetViewing(d, FALSE)
         \/ UpdateCursor(d) \/ SetLocation(d) \/ ClearLocation(d)
         \/ Ping(d) \/ Close(d) \/ Pump(d)
  PROVE  Silent(c)
<1>1. Lists /\ d \in Actors /\ peer' = peer
  BY DEF HubInv, Shape, Actors, Register, Subscribe, Unsubscribe, SetViewing, UpdateCursor,
         SetLocation, ClearLocation, Ping, Close, Pump, Frame
<1>2. ASSUME NEW tasks, todo[d] = <<>>, todo' = [todo EXCEPT ![d] = tasks], IsList(tasks),
             \A t \in Range(tasks) : t.op \notin {"count", "tell", "pass"}
      PROVE  Silent(c)
  <2>1. PICK old, new : old = {} /\ new = Range(tasks)
    OBVIOUS
  <2>2. Did(d, old, new)
    BY <1>1, <1>2, <2>1, PutDid
  <2>3. \A t \in new : ~Flies(c, t)
    BY <1>2, <2>1 DEF Flies
  <2> QED  BY <1>1, <2>2, <2>3, NothingFlies DEF Silent
<1>3. PICK who, gone, greet, leave :
        /\ who.op = "who" /\ Range(Presence) = {who} /\ IsList(Presence)
        /\ gone.op = "gone" /\ Range(TakenBack(d)) \subseteq {gone} /\ IsList(TakenBack(d))
        /\ greet.op = "greet" /\ Range(<<[op |-> "greet"]>>) = {greet} /\ IsList(<<[op |-> "greet"]>>)
        /\ leave.op = "leave" /\ Range(<<[op |-> "leave"]>>) = {leave} /\ IsList(<<[op |-> "leave"]>>)
  <2>1. PICK who : who = [op |-> "who"]
    OBVIOUS
  <2>2. PICK gone : gone = [op |-> "gone"]
    OBVIOUS
  <2>3. PICK greet : greet = [op |-> "greet"]
    OBVIOUS
  <2>4. PICK leave : leave = [op |-> "leave"]
    OBVIOUS
  <2>5. who.op = "who" /\ gone.op = "gone" /\ greet.op = "greet" /\ leave.op = "leave"
    BY <2>1, <2>2, <2>3, <2>4
  <2>6. /\ Range(<<greet>>) = {greet} /\ IsList(<<greet>>)
        /\ Range(<<leave>>) = {leave} /\ IsList(<<leave>>)
    BY OneTask
  <2> QED  BY <2>1, <2>2, <2>3, <2>4, <2>5, <2>6, PutTasks
<1>4. \A only : IsList(Roster(only)) /\ \A t \in Range(Roster(only)) : t.op = "view"
  BY PutTasks
<1>5. \A f, but : IsList(Reach(f, but)) /\ \A t \in Range(Reach(f, but)) : t.op = "reach"
  BY PutTasks
<1>6. CASE Register(d)
  BY <1>2, <1>4, <1>6 DEF Register, HubInv, Shape, Unmade
<1>7. CASE Subscribe(d)
  <2>1. PICK tasks : tasks = Presence \o <<[op |-> "greet"]>>
    OBVIOUS
  <2>2. todo[d] = <<>> /\ todo' = [todo EXCEPT ![d] = tasks]
    BY <1>7, <2>1 DEF Subscribe, Frame
  <2>3. IsList(tasks) /\ Range(tasks) = {who, greet}
    BY <1>3, <2>1, TwoLists
  <2> QED  BY <1>2, <1>3, <2>2, <2>3
<1>8. CASE Unsubscribe(d)
  <2>1. PICK tasks : tasks = TakenBack(d) \o Presence
    OBVIOUS
  <2>2. todo[d] = <<>> /\ todo' = [todo EXCEPT ![d] = tasks]
    BY <1>8, <2>1 DEF Unsubscribe, Frame
  <2>3. IsList(tasks) /\ Range(tasks) \subseteq {gone, who}
    BY <1>3, <2>1, TwoLists
  <2> QED  BY <1>2, <1>3, <2>2, <2>3
<1>9. CASE SetViewing(d, TRUE) \/ SetViewing(d, FALSE)
  <2>1. PICK tasks : /\ tasks = Roster(FALSE) \/ tasks = <<>>
                     /\ todo[d] = <<>> /\ todo' = [todo EXCEPT ![d] = tasks]
    BY <1>9 DEF SetViewing, Frame
  <2>2. IsList(tasks) /\ \A t \in Range(tasks) : t.op = "view"
    BY <1>4, <2>1, NoTask
  <2> QED  BY <1>2, <2>1, <2>2
<1>10. CASE UpdateCursor(d)
  BY <1>2, <1>3, <1>10 DEF UpdateCursor, Frame
<1>11. CASE SetLocation(d)
  <2>1. PICK f, tasks : tasks = Reach(f, UserOf[d]) /\ todo[d] = <<>> /\ todo' = [todo EXCEPT ![d] = tasks]
    BY <1>11 DEF SetLocation, Frame
  <2> QED  BY <1>2, <1>5, <2>1
<1>12. CASE ClearLocation(d)
  BY <1>2, <1>3, <1>12 DEF ClearLocation, Frame
<1>13. CASE Ping(d)
  BY <1>2, <1>13, NoTask DEF Ping, Frame
<1>14. CASE Close(d)
  <2>1. PICK tasks : tasks = TakenBack(d) \o <<[op |-> "leave"]>>
    OBVIOUS
  <2>2. todo[d] = <<>> /\ todo' = [todo EXCEPT ![d] = tasks]
    BY <1>14, <2>1 DEF Close
  <2>3. IsList(tasks) /\ Range(tasks) \subseteq {gone, leave}
    BY <1>3, <2>1, TwoLists
  <2> QED  BY <1>2, <1>3, <2>2, <2>3
<1>15. CASE Pump(d)
  <2>1. todo' = todo
    BY <1>15 DEF Pump
  <2> QED  BY <1>1, <2>1 DEF Silent, InFlightTo
<1> QED  BY <1>6, <1>7, <1>8, <1>9, <1>10, <1>11, <1>12, <1>13, <1>14, <1>15

\* A revoked member hears nothing more of the trip: only a send that had asked
\* for its receivers before the revocation reaches one, whatever overtakes it
\* (subscribersOf, mayReceive).
THEOREM HubNothingAfterRevocation == Spec => NothingAfterRevocation
<1>1. ASSUME HubInv, [Next]_vars, NEW c \in Conns, UserOf[c] \notin members, ~InFlightTo(c)
      PROVE  Silent(c)
  <2>1. CASE \E a \in Actors : Task(a)
    BY <1>1, <2>1, TaskSilent
  <2>2. CASE Commit
    <3>1. PICK tasks, old, new : /\ tasks = Reach([kind |-> "changed", head |-> head'], "nobody")
                                 /\ old = {} /\ new = Range(tasks)
      OBVIOUS
    <3>2. /\ peer' = peer /\ todo[API] = <<>> /\ todo' = [todo EXCEPT ![API] = tasks]
          /\ API \in Actors /\ Lists
      BY <1>1, <2>2, <3>1 DEF Commit, Actors, HubInv, Shape
    <3>3. IsList(tasks) /\ \A t \in new : t.op = "reach"
      <4>1. PICK f : f = [kind |-> "changed", head |-> head']
        OBVIOUS
      <4> QED  BY <3>1, <4>1, PutTasks
    <3>4. Did(API, old, new)
      BY <3>1, <3>2, <3>3, PutDid
    <3>5. \A t \in new : ~Flies(c, t)
      BY <3>3 DEF Flies
    <3> QED  BY <1>1, <3>2, <3>4, <3>5, NothingFlies DEF Silent
  <2>3. CASE (\E u \in Users : Revoke(u)) \/ UNCHANGED vars
    BY <1>1, <2>3 DEF Revoke, vars, Silent, InFlightTo
  <2> QED  BY <1>1, <2>1, <2>2, <2>3, HandlerSilent DEF Next
<1>2. HubInv /\ [Next]_vars =>
        [\A c \in Conns :
           UserOf[c] \notin members /\ ~InFlightTo(c) =>
             /\ ~InFlightTo(c)'
             /\ peer'[c].presence = peer[c].presence
             /\ peer'[c].head = peer[c].head /\ peer'[c].where = peer[c].where]_vars
  BY <1>1 DEF Silent
<1> QED  BY <1>2, HubInvHolds, PTL DEF Spec, NothingAfterRevocation

-----------------------------------------------------------------------------
(***************************************************************************)
(* Positions.  A frame that is sent leaves what it says of a user either   *)
(* true or known to be outdated, and whoever changes what is true of a     *)
(* user has a task that will send another.  LocInv follows such a task from *)
(* announceGone over its receivers to the frame; a connection that has just *)
(* subscribed shows nobody until it is greeted.                            *)
(***************************************************************************)

LocationFrame(t) == t.op \in {"reach", "pass"} /\ t.frame.kind = "location"

\* A goroutine will say where a user is, or that they share no more.
GoneSoon(u) == \E d \in Conns : UserOf[d] = u /\ \E t \in Work(d) : t.op = "gone"
\* A task whose frame about a user will go to a subscriber.
Speaks(t, c, u) ==
    /\ LocationFrame(t) /\ t.frame.user = u
    /\ t.op = "pass" => c \in t.to
GreetSoon(c) == \E t \in Work(c) : t.op = "greet"

ToldOf(c, u) ==
    \/ GoneSoon(u)
    \/ \E t \in Pending : Speaks(t, c, u)
    \/ GreetSoon(c) /\ peer[c].where[u] = NoFix

PositionComes(c, u) ==
    <<c, u>> \in outdated \/ peer[c].where[u] = Newest(u) \/ ToldOf(c, u)

\* What a connection that is not subscribed still shows is known to be
\* outdated, or it shows nobody and no position flies to it.
Stranger(c) ==
    \/ \A u \in Users : <<c, u>> \in outdated
    \/ /\ \A u \in Users : peer[c].where[u] = NoFix
       /\ \A t \in Pending : t.op = "pass" /\ LocationFrame(t) => c \notin t.to

LocTaskOK(a, t) ==
    /\ t.op \in {"gone", "greet", "leave"} => a \in Conns
    /\ t.op = "greet" => conn[a].subscribed
    /\ t.op = "leave" => conn[a].fix = NoFix
    /\ LocationFrame(t) => t.frame.user \in Users
    /\ t.op = "reach" /\ LocationFrame(t) => t.but = t.frame.user

LocTasks == \A a \in Actors : \A t \in Work(a) : LocTaskOK(a, t)
LocPeers == /\ peer = [c \in Conns |-> peer[c]]
            /\ \A c \in Conns : peer[c].where = [u \in Users |-> peer[c].where[u]]
            /\ \A c \in Conns : conn[c].status = "new" => conn[c].fix = NoFix
Strangers ==
    \A c \in Conns : conn[c].status \in {"new", "open"} /\ ~conn[c].subscribed => Stranger(c)
Positions ==
    Intact => \A c \in Conns, u \in Users :
      Live(c) /\ conn[c].subscribed /\ u # UserOf[c] => PositionComes(c, u)

LocInv == LocTasks /\ LocPeers /\ Strangers /\ Positions

\* Who speaks for a user stays, if their devices that share do.
LEMMA NewestKept ==
  ASSUME NEW u,
         \A d \in Conns : UserOf[d] = u =>
           /\ conn'[d].fix = conn[d].fix
           /\ (d \in Registered' <=> d \in Registered) \/ conn[d].fix = NoFix
  PROVE  Newest(u)' = Newest(u)
<1> DEFINE mine == {conn[c].fix : c \in {d \in Registered : UserOf[d] = u}} \cup {NoFix}
<1>1. mine' = mine
  BY DEF Registered
<1> HIDE DEF mine
<1>2. Newest(u)' = Max(mine') /\ Newest(u) = Max(mine)
  BY DEF Newest, mine
<1> QED  BY <1>1, <1>2

\* What a connection will be told of a user is still to come, if no task that
\* tells it was run.
LEMMA ToldKept ==
  ASSUME Lists, NEW a \in Actors, NEW old, NEW new, Did(a, old, new),
         NEW c \in Conns, NEW u, ToldOf(c, u),
         peer'[c].where[u] = peer[c].where[u],
         \A t \in old : /\ t.op = "gone" /\ a \in Conns => UserOf[a] # u
                        /\ ~Speaks(t, c, u)
                        /\ t.op = "greet" => a # c
  PROVE  ToldOf(c, u)'
<1>1. /\ \A b \in Actors \ {a} : Work(b)' = Work(b)
      /\ Work(a) \subseteq Work(a)' \cup old /\ Pending \subseteq Pending' \cup old
  BY DidWork, DidPending
<1>2. \A d \in Conns : d \in Actors
  BY DEF Actors
<1>3. CASE GoneSoon(u)
  <2>1. PICK d \in Conns : UserOf[d] = u /\ \E t \in Work(d) : t.op = "gone"
    BY <1>3 DEF GoneSoon
  <2>2. PICK t \in Work(d) : t.op = "gone"
    BY <2>1
  <2>3. t \in Work(d)'
    BY <1>1, <1>2, <2>1, <2>2
  <2> QED  BY <2>1, <2>2, <2>3 DEF ToldOf, GoneSoon
<1>4. CASE \E t \in Pending : Speaks(t, c, u)
  <2>1. PICK t \in Pending : Speaks(t, c, u)
    BY <1>4
  <2>2. t \in Pending' /\ Speaks(t, c, u)'
    BY <1>1, <2>1 DEF Speaks, LocationFrame
  <2> QED  BY <2>2 DEF ToldOf
<1>5. CASE GreetSoon(c) /\ peer[c].where[u] = NoFix
  <2>1. PICK t \in Work(c) : t.op = "greet"
    BY <1>5 DEF GreetSoon
  <2>2. t \in Work(c)'
    BY <1>1, <1>2, <2>1
  <2> QED  BY <1>5, <2>1, <2>2 DEF ToldOf, GreetSoon
<1> QED  BY <1>3, <1>4, <1>5 DEF ToldOf

\* A stranger stays one while no position flies to it.
LEMMA StrangerKept ==
  ASSUME Lists, NEW a \in Actors, NEW old, NEW new, Did(a, old, new),
         NEW c \in Conns, Stranger(c),
         peer'[c].where = peer[c].where,
         \A u \in Users : <<c, u>> \in outdated => <<c, u>> \in outdated',
         \A t \in new : t.op = "pass" /\ LocationFrame(t) => c \notin t.to
  PROVE  Stranger(c)'
<1>1. Pending' \subseteq Pending \cup new
  BY DidPending
<1>2. CASE \A u \in Users : <<c, u>> \in outdated
  BY <1>2 DEF Stranger
<1>3. CASE /\ \A u \in Users : peer[c].where[u] = NoFix
           /\ \A t \in Pending : t.op = "pass" /\ LocationFrame(t) => c \notin t.to
  <2>1. ASSUME NEW t \in Pending', t.op = "pass", LocationFrame(t)'
        PROVE  c \notin t.to
    <3>1. LocationFrame(t)
      BY <2>1 DEF LocationFrame
    <3> QED  BY <1>1, <1>3, <2>1, <3>1
  <2> QED  BY <1>3, <2>1 DEF Stranger
<1> QED  BY <1>2, <1>3 DEF Stranger

\* The tasks left to do fit their connections.
LEMMA LocTasksKept ==
  ASSUME Lists, NEW a \in Actors, NEW old, NEW new, Did(a, old, new), LocTasks,
         \A t \in new : LocTaskOK(a, t)',
         \A c \in Conns :
           \/ c = a /\ todo[a] = <<>>
           \/ /\ conn[c].subscribed => conn'[c].subscribed
              /\ conn[c].fix = NoFix => conn'[c].fix = NoFix
  PROVE  LocTasks'
<1> SUFFICES ASSUME NEW b \in Actors, NEW t \in Work(b)'
             PROVE  LocTaskOK(b, t)'
  BY DEF LocTasks
<1>1. (t \in Work(b) /\ ~(b = a /\ todo[a] = <<>>)) \/ (b = a /\ t \in new)
  <2>1. todo[a] = <<>> => Work(a) = {}
    BY NoTask DEF Work
  <2> QED  BY <2>1, DidWork
<1>2. CASE t \in Work(b) /\ ~(b = a /\ todo[a] = <<>>)
  <2>1. LocTaskOK(b, t)
    BY <1>2 DEF LocTasks
  <2> QED  BY <1>2, <2>1 DEF LocTaskOK, LocationFrame
<1>3. CASE b = a /\ t \in new
  BY <1>3
<1> QED  BY <1>1, <1>2, <1>3

\* A step that has nothing to do with positions.
SamePositions ==
    /\ outdated' = outdated /\ members' \subseteq members
    /\ peer' = [c \in Conns |-> peer'[c]]
    /\ \A c \in Conns :
         /\ conn'[c].fix = conn[c].fix /\ conn'[c].subscribed = conn[c].subscribed
         /\ peer'[c].where = peer[c].where
         /\ conn'[c].status = "open" => conn[c].status = "open"
         /\ conn'[c].status = "new" <=> conn[c].status = "new"
         /\ conn'[c].status = "closed" <=> conn[c].status = "closed"

LEMMA PositionsKept ==
  ASSUME HubInv, LocInv, NEW a \in Actors, NEW old, NEW new, Did(a, old, new),
         \A t \in old \cup new : t.op \notin {"gone", "greet", "leave"} /\ ~LocationFrame(t),
         SamePositions
  PROVE  LocInv'
<1>1. Lists /\ members \subseteq Users
  BY DEF HubInv, Shape, Rows
<1>2. LocTasks'
  <2>1. \A t \in new : LocTaskOK(a, t)'
    BY DEF LocTaskOK, LocationFrame
  <2>2. \A c \in Conns : /\ conn[c].subscribed => conn'[c].subscribed
                         /\ conn[c].fix = NoFix => conn'[c].fix = NoFix
    BY DEF SamePositions
  <2> QED  BY <1>1, <2>1, <2>2, LocTasksKept DEF LocInv
<1>3. LocPeers'
  BY DEF LocInv, LocPeers, SamePositions
<1>4. Strangers'
  <2> SUFFICES ASSUME NEW c \in Conns, conn'[c].status \in {"new", "open"}, ~conn'[c].subscribed
               PROVE  Stranger(c)'
    BY DEF Strangers
  <2>1. Stranger(c)
    BY DEF LocInv, Strangers, SamePositions
  <2> QED  BY <1>1, <2>1, StrangerKept DEF SamePositions
<1>5. Positions'
  <2> SUFFICES ASSUME Intact', NEW c \in Conns, NEW u \in Users,
                      Live(c)', conn'[c].subscribed, u # UserOf[c]
               PROVE  PositionComes(c, u)'
    BY DEF Positions
  <2>1. PositionComes(c, u)
    BY <1>1 DEF LocInv, Positions, SamePositions, Intact, Live
  <2>2. Newest(u)' = Newest(u)
    BY NewestKept DEF SamePositions, Registered
  <2>3. ToldOf(c, u) => ToldOf(c, u)'
    BY <1>1, ToldKept DEF SamePositions, Speaks
  <2> QED  BY <2>1, <2>2, <2>3 DEF PositionComes, SamePositions
<1> QED  BY <1>2, <1>3, <1>4, <1>5 DEF LocInv

\* The first task of a goroutine fits its connection.
LEMMA FirstFits ==
  ASSUME HubInv, LocInv, NEW a \in Actors, todo[a] # <<>>
  PROVE  LocTaskOK(a, Head(todo[a])) /\ Head(todo[a]) \in Work(a) /\ Lists
<1>1. Head(todo[a]) \in Work(a)
  BY FirstAndRest DEF HubInv, Shape, Lists, Work
<1> QED  BY <1>1 DEF LocInv, LocTasks, HubInv, Shape

\* A task that only reads: who is told of a user still is, if the task it put
\* tells them.
LEMMA ReadKeeps ==
  ASSUME HubInv, LocInv, NEW a \in Actors, NEW old, NEW new, Did(a, old, new),
         conn' = conn, peer' = peer, members' = members, outdated' = outdated,
         \A t \in new : LocTaskOK(a, t)',
         \A t \in new, c \in Conns :
           t.op = "pass" /\ LocationFrame(t) /\ c \in t.to => conn[c].subscribed,
         Intact => \A c \in Conns, u \in Users :
           Live(c) /\ conn[c].subscribed /\ u # UserOf[c] /\ ToldOf(c, u)
             => PositionComes(c, u)'
  PROVE  LocInv'
<1>1. Lists
  BY DEF HubInv, Shape
<1>2. LocTasks'
  BY <1>1, LocTasksKept DEF LocInv
<1>3. LocPeers'
  BY DEF LocInv, LocPeers
<1>4. Strangers'
  <2> SUFFICES ASSUME NEW c \in Conns, conn'[c].status \in {"new", "open"}, ~conn'[c].subscribed
               PROVE  Stranger(c)'
    BY DEF Strangers
  <2>1. Stranger(c)
    BY DEF LocInv, Strangers
  <2> QED  BY <1>1, <2>1, StrangerKept
<1>5. Positions'
  <2> SUFFICES ASSUME Intact', NEW c \in Conns, NEW u \in Users,
                      Live(c)', conn'[c].subscribed, u # UserOf[c]
               PROVE  PositionComes(c, u)'
    BY DEF Positions
  <2>1. PositionComes(c, u) /\ Intact /\ Live(c) /\ conn[c].subscribed
    BY DEF LocInv, Positions, Intact, Live
  <2>2. Newest(u)' = Newest(u)
    BY NewestKept DEF Registered
  <2>3. CASE ToldOf(c, u)
    BY <2>1, <2>3
  <2>4. CASE ~ToldOf(c, u)
    BY <2>1, <2>2, <2>4 DEF PositionComes
  <2> QED  BY <2>3, <2>4
<1> QED  BY <1>2, <1>3, <1>4, <1>5 DEF LocInv

\* announceGone: whoever was to be told of the user still is.
LEMMA GoneTells ==
  ASSUME HubInv, LocInv, NEW a \in Actors, Gone(a)
  PROVE  LocInv'
<1>1. PICK t : t = Head(todo[a])
  OBVIOUS
<1>2. /\ todo[a] # <<>> /\ t.op = "gone" /\ conn' = conn /\ peer' = peer
      /\ members' = members /\ outdated' = outdated
  BY <1>1 DEF Gone, Runs, gens, store
<1>3. a \in Conns /\ Lists
  BY <1>1, <1>2, FirstFits DEF LocTaskOK
<1>4. PICK task, old, new :
        /\ task.op = "reach" /\ task.frame.kind = "location"
        /\ task.frame.user = UserOf[a] /\ task.but = UserOf[a]
        /\ Now(a, <<task>>) /\ old = {t} /\ new = {task}
  BY DEF Gone, Reach, Location
<1>5. Did(a, old, new)
  BY <1>1, <1>2, <1>3, <1>4, NowDid, OneTask
<1>6. new \subseteq Pending'
  BY <1>3, <1>5, DidPending
<1>7. \A s \in new : LocTaskOK(a, s)'
  <2>1. UserOf[a] \in Users
    BY <1>3, HubAssumption
  <2> QED  BY <1>4, <2>1 DEF LocTaskOK, LocationFrame
<1>8. ASSUME NEW c \in Conns, NEW u \in Users, ToldOf(c, u)
      PROVE  PositionComes(c, u)'
  <2>1. CASE u = UserOf[a]
    <3>1. Speaks(task, c, u)'
      BY <1>4, <2>1 DEF Speaks, LocationFrame
    <3> QED  BY <1>4, <1>6, <3>1 DEF PositionComes, ToldOf
  <2>2. CASE u # UserOf[a]
    <3>1. \A s \in old : s.op = "gone" /\ ~Speaks(s, c, u)
      BY <1>2, <1>4 DEF Speaks, LocationFrame
    <3>2. ToldOf(c, u)'
      BY <1>2, <1>3, <1>5, <1>8, <2>2, <3>1, ToldKept
    <3> QED  BY <3>2 DEF PositionComes
  <2> QED  BY <2>1, <2>2
<1>9. \A s \in new : s.op = "reach"
  BY <1>4
<1> QED  BY <1>2, <1>5, <1>7, <1>8, <1>9, ReadKeeps

\* sendToOthers: the receivers are the subscribers but the user's own.
LEMMA ReachTells ==
  ASSUME HubInv, LocInv, NEW a \in Actors, ReachOut(a)
  PROVE  LocInv'
<1>1. PICK t : t = Head(todo[a])
  OBVIOUS
<1>2. /\ todo[a] # <<>> /\ t.op = "reach" /\ conn' = conn /\ peer' = peer
      /\ members' = members /\ outdated' = outdated
  BY <1>1 DEF ReachOut, Runs, gens, store
<1>3. Lists /\ LocTaskOK(a, t)
  BY <1>1, <1>2, FirstFits
<1>4. PICK task, old, new :
        /\ task.op = "pass" /\ task.frame = t.frame
        /\ task.to = {c \in subscribersOf : UserOf[c] # t.but}
        /\ Now(a, <<task>>) /\ old = {t} /\ new = {task}
  BY <1>1 DEF ReachOut
<1>5. Did(a, old, new)
  BY <1>1, <1>2, <1>3, <1>4, NowDid, OneTask
<1>6. new \subseteq Pending'
  BY <1>3, <1>5, DidPending
<1>7. \A s \in new : LocTaskOK(a, s)'
  BY <1>2, <1>3, <1>4 DEF LocTaskOK, LocationFrame
<1>8. ASSUME Intact, NEW c \in Conns, NEW u \in Users, conn[c].subscribed, u # UserOf[c],
             ToldOf(c, u), Live(c)
      PROVE  PositionComes(c, u)'
  <2>1. CASE Speaks(t, c, u)
    <3>1. t.but = u /\ c \in subscribersOf
      <4>1. UserOf[c] \in members /\ c \in Registered
        BY <1>8, HubAssumption DEF Intact, Live, Registered
      <4> QED  BY <1>2, <1>3, <1>8, <2>1, <4>1
               DEF LocTaskOK, Speaks, subscribersOf, mayReceive
    <3>2. Speaks(task, c, u)'
      BY <1>2, <1>4, <1>8, <2>1, <3>1 DEF Speaks, LocationFrame
    <3> QED  BY <1>4, <1>6, <3>2 DEF PositionComes, ToldOf
  <2>2. CASE ~Speaks(t, c, u)
    <3>1. \A s \in old : s.op = "reach" /\ ~Speaks(s, c, u)
      BY <1>2, <1>4, <2>2
    <3>2. ToldOf(c, u)'
      BY <1>2, <1>3, <1>5, <1>8, <3>1, ToldKept
    <3> QED  BY <3>2 DEF PositionComes
  <2> QED  BY <2>1, <2>2
<1>9. \A s \in new, c \in Conns : c \in s.to => conn[c].subscribed
  BY <1>4 DEF subscribersOf
<1> QED  BY <1>2, <1>5, <1>7, <1>8, <1>9, ReadKeeps

\* sendLocationsTo: whoever shares is named to the one that subscribed.
LEMMA GreetTells ==
  ASSUME HubInv, LocInv, NEW a \in Actors, Greet(a)
  PROVE  LocInv'
<1>1. PICK first : first = Head(todo[a])
  OBVIOUS
<1>2. /\ todo[a] # <<>> /\ first.op = "greet" /\ conn' = conn /\ peer' = peer
      /\ members' = members /\ outdated' = outdated
  BY <1>1 DEF Greet, Runs, gens, store
<1>3. a \in Conns /\ conn[a].subscribed /\ Lists
  BY <1>1, <1>2, FirstFits DEF LocTaskOK
<1>4. PICK new : Did(a, {Head(todo[a])}, new) /\ GreetPuts(a, new)
  BY GreetTasks
<1>5. PICK old : old = {first} /\ Did(a, old, new)
  BY <1>1, <1>4
<1>6. new \subseteq Pending'
  BY <1>3, <1>5, DidPending
<1>7. \A s \in new : LocTaskOK(a, s)'
  BY <1>4 DEF GreetPuts, LocTaskOK, LocationFrame
<1>8. ASSUME Intact, NEW c \in Conns, NEW u \in Users, u # UserOf[c], ToldOf(c, u)
      PROVE  PositionComes(c, u)'
  <2>1. CASE c = a /\ peer[c].where[u] = NoFix /\ Newest(u) # NoFix
    <3>1. mayReceive(UserOf[a])
      BY <1>3, <1>8, HubAssumption DEF Intact, mayReceive
    <3>2. PICK s \in new : s.frame.user = u
      BY <1>4, <1>8, <2>1, <3>1 DEF GreetPuts
    <3>3. Speaks(s, c, u)'
      BY <1>4, <2>1, <3>2 DEF GreetPuts, Speaks, LocationFrame
    <3> QED  BY <1>6, <3>3 DEF PositionComes, ToldOf
  <2>2. CASE c = a /\ peer[c].where[u] = NoFix /\ Newest(u) = NoFix
    <3>1. Newest(u)' = Newest(u)
      BY <1>2, NewestKept DEF Registered
    <3> QED  BY <1>2, <2>2, <3>1 DEF PositionComes
  <2>3. CASE c = a /\ peer[c].where[u] # NoFix
    <3>1. GoneSoon(u) \/ \E s \in Pending : Speaks(s, c, u)
      BY <1>8, <2>3 DEF ToldOf
    <3>2. Pending \subseteq Pending' \cup old /\ \A d \in Conns : Work(d) \subseteq Work(d)' \cup old
      <4>1. \A d \in Conns : d \in Actors
        BY DEF Actors
      <4> QED  BY <1>3, <1>5, <4>1, DidPending, DidWork
    <3>3. CASE GoneSoon(u)
      <4>1. PICK d \in Conns : UserOf[d] = u /\ \E s \in Work(d) : s.op = "gone"
        BY <3>3 DEF GoneSoon
      <4>2. PICK s \in Work(d) : s.op = "gone"
        BY <4>1
      <4>3. s \in Work(d)'
        BY <1>2, <1>5, <3>2, <4>2
      <4> QED  BY <4>1, <4>2, <4>3 DEF PositionComes, ToldOf, GoneSoon
    <3>4. CASE \E s \in Pending : Speaks(s, c, u)
      <4>1. PICK s \in Pending : Speaks(s, c, u)
        BY <3>4
      <4>2. s \in Pending' /\ Speaks(s, c, u)'
        BY <1>2, <1>5, <3>2, <4>1 DEF Speaks, LocationFrame
      <4> QED  BY <4>2 DEF PositionComes, ToldOf
    <3> QED  BY <3>1, <3>3, <3>4
  <2>4. CASE c # a
    <3>1. \A s \in old : s.op = "greet" /\ ~Speaks(s, c, u)
      BY <1>2, <1>5 DEF Speaks, LocationFrame
    <3>2. ToldOf(c, u)'
      BY <1>2, <1>3, <1>5, <1>8, <2>4, <3>1, ToldKept
    <3> QED  BY <3>2 DEF PositionComes
  <2> QED  BY <2>1, <2>2, <2>3, <2>4
<1>9. \A s \in new, c \in Conns : c \in s.to => conn[c].subscribed
  BY <1>3, <1>4 DEF GreetPuts
<1> QED  BY <1>2, <1>5, <1>7, <1>8, <1>9, ReadKeeps

\* send: the frame is true when it is queued, or known to be outdated.
LEMMA PassTells ==
  ASSUME HubInv, LocInv, NEW a \in Actors, Pass(a)
  PROVE  LocInv'
<1>1. PICK t : t = Head(todo[a])
  OBVIOUS
<1>2. /\ todo[a] # <<>> /\ members' = members /\ t.op = "pass" /\ Now(a, <<>>)
      /\ conn' = [c \in Conns |-> IF c \in t.to THEN enqueue(c) ELSE conn[c]]
      /\ peer' = [c \in Conns |-> IF c \in t.to /\ Takes(c) THEN Shown(peer[c], t.frame) ELSE peer[c]]
  BY <1>1 DEF Pass, Send, ShownAt, Runs, gens, store
<1>3. Lists /\ Rows /\ LocTaskOK(a, t) /\ t.frame.kind \in {"changed", "location"}
  BY <1>1, <1>2, FirstFits, FirstIsPending DEF HubInv, Shape, TaskOK
<1>4. PICK old, new : old = {t} /\ new = {} /\ Did(a, old, new)
  BY <1>1, <1>2, <1>3, NowDid, NoTask
<1>5. ASSUME NEW c \in Conns
      PROVE  /\ conn'[c].fix = conn[c].fix /\ conn'[c].subscribed = conn[c].subscribed
             /\ conn'[c].status = "open" => conn[c].status = "open" /\ (c \in t.to => Takes(c))
             /\ conn'[c].status = "new" <=> conn[c].status = "new"
             /\ conn'[c].status = "closed" <=> conn[c].status = "closed"
  <2>1. CASE c \in t.to
    BY <1>2, <1>3, <2>1, EnqueueRow
  <2>2. CASE c \notin t.to
    BY <1>2, <2>2
  <2> QED  BY <2>1, <2>2
<1>6. CASE t.frame.kind = "changed"
  <2>1. outdated' = outdated
    BY <1>1, <1>6 DEF Pass, Send
  <2>2. \A c \in Conns : peer'[c].where = peer[c].where
    BY <1>2, <1>6 DEF Shown, Client
  <2>3. SamePositions
    BY <1>2, <1>5, <2>1, <2>2 DEF SamePositions
  <2>4. \A s \in old \cup new : s.op \notin {"gone", "greet", "leave"} /\ ~LocationFrame(s)
    BY <1>2, <1>4, <1>6 DEF LocationFrame
  <2> QED  BY <1>4, <2>3, <2>4, PositionsKept
<1>7. CASE t.frame.kind = "location"
  <2> DEFINE f == t.frame
  <2>1. f.user \in Users
    BY <1>3, <1>2, <1>7 DEF LocTaskOK, LocationFrame
  <2>2. ASSUME NEW c \in Conns
        PROVE  IF c \in t.to /\ Takes(c)
               THEN peer'[c].where = [peer[c].where EXCEPT ![f.user] = f.fix]
               ELSE peer'[c].where = peer[c].where
    BY <1>2, <1>7, <2>2 DEF Shown, Client
  <2>3. outdated' = IF f.fix = Newest(f.user)
                    THEN outdated \ {<<c, f.user>> : c \in t.to \cap AnySubscriber}
                    ELSE outdated \cup {<<c, f.user>> : c \in t.to}
    BY <1>1, <1>7 DEF Pass, Send
  <2>4. \A u : Newest(u)' = Newest(u)
    BY <1>5, NewestKept DEF Registered
  <2>5. \A c \in Conns : peer[c].where = [u \in Users |-> peer[c].where[u]]
    BY DEF LocInv, LocPeers
  <2> HIDE DEF f
  <2>6. LocTasks'
    <3>1. \A s \in new : LocTaskOK(a, s)'
      BY <1>4
    <3> QED  BY <1>3, <1>4, <1>5, <3>1, LocTasksKept DEF LocInv
  <2>7. LocPeers'
    <3>1. peer' = [c \in Conns |-> peer'[c]]
      BY <1>2
    <3>2. ASSUME NEW c \in Conns
          PROVE  peer'[c].where = [u \in Users |-> peer'[c].where[u]]
      <4>1. PICK w : w = peer[c].where
        OBVIOUS
      <4>2. w = [u \in Users |-> w[u]] /\ (peer'[c].where = w \/ peer'[c].where = [w EXCEPT ![f.user] = f.fix])
        BY <2>2, <2>5, <4>1
      <4> QED  BY <4>2
    <3> QED  BY <1>5, <3>1, <3>2 DEF LocInv, LocPeers
  <2>8. Strangers'
    <3> SUFFICES ASSUME NEW c \in Conns, conn'[c].status \in {"new", "open"}, ~conn'[c].subscribed
                 PROVE  Stranger(c)'
      BY DEF Strangers
    <3>1. Stranger(c) /\ ~conn[c].subscribed
      BY <1>5 DEF LocInv, Strangers
    <3>2. \A u \in Users : <<c, u>> \in outdated => <<c, u>> \in outdated'
      BY <2>3, <3>1 DEF AnySubscriber
    <3>3. CASE \A u \in Users : <<c, u>> \in outdated
      BY <3>2, <3>3 DEF Stranger
    <3>4. CASE \A s \in Pending : s.op = "pass" /\ LocationFrame(s) => c \notin s.to
      <4>1. t \in Pending
        BY <1>1, <1>2, FirstIsPending DEF HubInv
      <4>2. c \notin t.to
        BY <1>2, <1>7, <3>4, <4>1 DEF LocationFrame
      <4>3. peer'[c].where = peer[c].where
        BY <2>2, <4>2
      <4> QED  BY <1>3, <1>4, <3>1, <3>2, <4>3, StrangerKept
    <3> QED  BY <3>1, <3>3, <3>4 DEF Stranger
  <2>9. Positions'
    <3> SUFFICES ASSUME Intact', NEW c \in Conns, NEW u \in Users,
                        Live(c)', conn'[c].subscribed, u # UserOf[c]
                 PROVE  PositionComes(c, u)'
      BY DEF Positions
    <3>1. PositionComes(c, u) /\ conn[c].subscribed /\ Live(c) /\ (c \in t.to => Takes(c))
      BY <1>2, <1>5 DEF LocInv, Positions, Intact, Live
    <3>2. CASE c \in t.to /\ u = f.user
      <4>1. peer'[c].where[u] = f.fix
        BY <2>1, <2>2, <2>5, <3>1, <3>2
      <4>2. CASE f.fix = Newest(f.user)
        BY <2>4, <3>2, <4>1, <4>2 DEF PositionComes
      <4>3. CASE f.fix # Newest(f.user)
        BY <2>3, <3>2, <4>3 DEF PositionComes
      <4> QED  BY <4>2, <4>3
    <3>3. CASE ~(c \in t.to /\ u = f.user)
      <4>1. peer'[c].where[u] = peer[c].where[u]
        BY <2>2, <2>5, <3>3
      <4>2. <<c, u>> \in outdated => <<c, u>> \in outdated'
        BY <2>3, <3>3
      <4>3. \A s \in old : s.op = "pass" /\ ~Speaks(s, c, u)
        BY <1>2, <1>4, <3>3 DEF Speaks, f
      <4>4. ToldOf(c, u) => ToldOf(c, u)'
        BY <1>3, <1>4, <4>1, <4>3, ToldKept
      <4> QED  BY <2>4, <3>1, <4>1, <4>2, <4>4 DEF PositionComes
    <3> QED  BY <3>2, <3>3
  <2> QED  BY <2>6, <2>7, <2>8, <2>9 DEF LocInv
<1> QED  BY <1>3, <1>6, <1>7

\* Unregister: the connection had no position left.
LEMMA LeaveTells ==
  ASSUME HubInv, LocInv, NEW a \in Actors, Leave(a)
  PROVE  LocInv'
<1>1. PICK t : t = Head(todo[a])
  OBVIOUS
<1>2. /\ todo[a] # <<>> /\ t.op = "leave" /\ peer' = peer
      /\ conn' = [conn EXCEPT ![a] = [[conn[a] EXCEPT !.status = "closed"] EXCEPT !.out = 0]]
      /\ members' = members /\ outdated' = outdated
  BY <1>1 DEF Leave, Runs, gens, store
<1>3. a \in Conns /\ conn[a].fix = NoFix /\ Lists /\ conn \in [Conns -> Row] /\ conn[a] \in Row
  BY <1>1, <1>2, FirstFits DEF LocTaskOK, HubInv, Shape, Rows
<1>4. /\ conn'[a].status = "closed" /\ conn'[a].fix = NoFix
      /\ conn'[a].subscribed = conn[a].subscribed
      /\ \A c \in Conns : c # a => conn'[c] = conn[c]
  <2>1. PICK r : r = [conn[a] EXCEPT !.status = "closed"]
    OBVIOUS
  <2>2. r \in Row /\ r.status = "closed" /\ r.fix = NoFix /\ r.subscribed = conn[a].subscribed
    BY <1>3, <2>1 DEF Row
  <2>3. conn' = [conn EXCEPT ![a] = [r EXCEPT !.out = 0]]
    BY <1>2, <2>1
  <2> QED  BY <1>3, <2>2, <2>3 DEF Row
<1>5. PICK new, old : /\ Did(a, old, new) /\ old = {t} /\ \A s \in new : s.op \in {"who", "view"}
  <2>1. PICK new, who, view :
           /\ Did(a, {Head(todo[a])}, new) /\ \A s \in new : TaskOK(s)'
           /\ who.op = "who" /\ view.op = "view" /\ view.only = FALSE
           /\ new = (IF conn[a].subscribed THEN {who} ELSE {}) \cup (IF conn[a].viewing THEN {view} ELSE {})
    BY LeaveTasks
  <2> QED  BY <1>1, <2>1
<1>6. LocTasks'
  <2>1. \A s \in new : LocTaskOK(a, s)'
    BY <1>5 DEF LocTaskOK, LocationFrame
  <2> QED  BY <1>3, <1>4, <1>5, <2>1, LocTasksKept DEF LocInv
<1>7. LocPeers'
  BY <1>2, <1>4 DEF LocInv, LocPeers
<1>8. Strangers'
  <2> SUFFICES ASSUME NEW c \in Conns, conn'[c].status \in {"new", "open"}, ~conn'[c].subscribed
               PROVE  Stranger(c)'
    BY DEF Strangers
  <2>1. Stranger(c)
    BY <1>4 DEF LocInv, Strangers
  <2>2. \A s \in new : s.op # "pass"
    BY <1>5
  <2> QED  BY <1>2, <1>3, <1>5, <2>1, <2>2, StrangerKept
<1>9. Positions'
  <2> SUFFICES ASSUME Intact', NEW c \in Conns, NEW u \in Users,
                      Live(c)', conn'[c].subscribed, u # UserOf[c]
               PROVE  PositionComes(c, u)'
    BY DEF Positions
  <2>1. PositionComes(c, u)
    BY <1>2, <1>4 DEF LocInv, Positions, Intact, Live
  <2>2. Newest(u)' = Newest(u)
    BY <1>3, <1>4, NewestKept DEF Registered
  <2>3. \A s \in old : s.op = "leave" /\ ~Speaks(s, c, u)
    BY <1>2, <1>5 DEF Speaks, LocationFrame
  <2>4. ToldOf(c, u) => ToldOf(c, u)'
    BY <1>2, <1>3, <1>5, <2>3, ToldKept
  <2> QED  BY <1>2, <2>1, <2>2, <2>4 DEF PositionComes
<1> QED  BY <1>6, <1>7, <1>8, <1>9 DEF LocInv

\* Presence and rosters say nothing of positions.
LEMMA OthersTell ==
  ASSUME HubInv, LocInv, NEW a \in Actors,
         Who(a) \/ Count(a) \/ Tell(a) \/ View(a) \/ Show(a)
  PROVE  LocInv'
<1>1. PICK t : t = Head(todo[a])
  OBVIOUS
<1>2. /\ todo[a] # <<>> /\ t.op \in {"who", "count", "tell", "view", "show"}
      /\ members' = members /\ outdated' = outdated /\ Lists /\ Rows
  BY <1>1 DEF Who, Count, Tell, View, Show, Runs, gens, store, HubInv, Shape
<1>3. PICK new, old : /\ Did(a, old, new) /\ old = {t}
                      /\ \A s \in new : s.op \in {"count", "tell", "show"}
  <2>1. CASE Who(a) \/ Count(a) \/ View(a)
    <3>1. PICK task : task.op \in {"count", "tell", "show"} /\ Now(a, <<task>>)
      <4>1. CASE Who(a)
        <5>1. PICK task : task.op = "count" /\ Now(a, <<task>>)
          BY <4>1 DEF Who
        <5> QED  BY <5>1
      <4>2. CASE Count(a)
        <5>1. PICK task : task.op = "tell" /\ Now(a, <<task>>)
          BY <4>2 DEF Count
        <5> QED  BY <5>1
      <4>3. CASE View(a)
        <5>1. PICK task : task.op = "show" /\ Now(a, <<task>>)
          BY <4>3 DEF View
        <5> QED  BY <5>1
      <4> QED  BY <2>1, <4>1, <4>2, <4>3
    <3>2. PICK tasks : tasks = <<task>> /\ IsList(tasks) /\ Range(tasks) = {task}
      BY OneTask
    <3>3. Did(a, {Head(todo[a])}, Range(tasks))
      BY <1>2, <3>1, <3>2, NowDid
    <3> QED  BY <1>1, <3>1, <3>2, <3>3
  <2>2. CASE Tell(a) \/ Show(a)
    <3>1. Now(a, <<>>)
      BY <2>2 DEF Tell, Show
    <3> QED  BY <1>1, <1>2, <3>1, NowDid, NoTask
  <2> QED  BY <2>1, <2>2
<1>4. \A s \in old \cup new : s.op \notin {"gone", "greet", "leave"} /\ ~LocationFrame(s)
  BY <1>2, <1>3 DEF LocationFrame
<1>5. SamePositions
  <2>1. CASE Who(a) \/ Count(a) \/ View(a)
    <3>1. conn' = conn /\ peer' = peer
      BY <2>1 DEF Who, Count, View
    <3> QED  BY <1>2, <3>1 DEF SamePositions, LocInv, LocPeers
  <2>2. CASE Tell(a) \/ Show(a)
    <3>1. ASSUME NEW c \in Conns
          PROVE  /\ conn'[c].fix = conn[c].fix /\ conn'[c].subscribed = conn[c].subscribed
                 /\ conn'[c].status = "open" => conn[c].status = "open"
                 /\ conn'[c].status = "new" <=> conn[c].status = "new"
                 /\ conn'[c].status = "closed" <=> conn[c].status = "closed"
      <4>1. PICK r : r = enqueue(c)
        OBVIOUS
      <4>2. /\ r \in Row /\ r.fix = conn[c].fix /\ r.subscribed = conn[c].subscribed
            /\ r.status = "open" => conn[c].status = "open"
            /\ r.status = "new" <=> conn[c].status = "new"
            /\ r.status = "closed" <=> conn[c].status = "closed"
        BY <1>2, <4>1, EnqueueRow
      <4>3. PICK n : conn'[c] \in {conn[c], [r EXCEPT !.presenceSent = n], [r EXCEPT !.rosterSent = n]}
        BY <2>2, <4>1 DEF Tell, Show
      <4> QED  BY <4>2, <4>3 DEF Row
    <3>2. /\ peer' = [c \in Conns |-> peer'[c]]
          /\ \A c \in Conns : peer'[c].where = peer[c].where
      <4>1. CASE Tell(a)
        BY <4>1 DEF Tell, ShownAt, Shown, Client
      <4>2. CASE Show(a)
        BY <4>2 DEF Show, ShownAt, Shown, Client
      <4> QED  BY <2>2, <4>1, <4>2
    <3> QED  BY <1>2, <3>1, <3>2 DEF SamePositions
  <2> QED  BY <2>1, <2>2
<1> QED  BY <1>3, <1>4, <1>5, PositionsKept

\* A handler's step that changes its own row: a position that changes is
\* followed by a task that says so, a new subscription by a greeting, and what
\* an ended one showed is known to be outdated.
LEMMA HandlerTells ==
  ASSUME HubInv, LocInv, NEW c \in Conns, NEW row \in Row, NEW old, NEW new,
         todo[c] = <<>>, old = {}, Did(c, old, new),
         conn' = [conn EXCEPT ![c] = row], peer' = peer, members' = members,
         conn[c].status \in {"open", "dropped"}, row.status \in {"open", "dropped"},
         row.status = "open" => conn[c].status = "open",
         \A p \in outdated : p \in outdated',
         \A t \in new : LocTaskOK(c, t)' /\ t.op # "pass",
         \/ row.subscribed = conn[c].subscribed
         \/ row.subscribed /\ \E t \in new : t.op = "greet"
         \/ ~row.subscribed /\ \A u \in Users : <<c, u>> \in outdated',
         \/ row.fix = conn[c].fix
         \/ \E t \in new : \/ t.op = "gone"
                           \/ t.op = "reach" /\ LocationFrame(t) /\ t.frame.user = UserOf[c]
  PROVE  LocInv'
<1>1. /\ Lists /\ c \in Actors
      /\ conn'[c] = row /\ \A d \in Conns : d # c => conn'[d] = conn[d]
  BY DEF HubInv, Shape, Rows, Actors
<1>2. new \subseteq Pending' /\ new \subseteq Work(c)'
  BY <1>1, DidPending, DidWork
<1>3. LocTasks'
  BY <1>1, LocTasksKept DEF LocInv
<1>4. LocPeers'
  BY <1>1 DEF LocInv, LocPeers
<1>5. Strangers'
  <2> SUFFICES ASSUME NEW d \in Conns, conn'[d].status \in {"new", "open"}, ~conn'[d].subscribed
               PROVE  Stranger(d)'
    BY DEF Strangers
  <2>1. CASE conn[d].subscribed
    BY <1>1, <2>1 DEF Stranger
  <2>2. CASE ~conn[d].subscribed
    <3>1. Stranger(d)
      BY <1>1, <2>2 DEF LocInv, Strangers
    <3> QED  BY <1>1, <3>1, StrangerKept
  <2> QED  BY <2>1, <2>2
<1>6. Positions'
  <2> SUFFICES ASSUME Intact', NEW d \in Conns, NEW u \in Users,
                      Live(d)', conn'[d].subscribed, u # UserOf[d]
               PROVE  PositionComes(d, u)'
    BY DEF Positions
  <2>1. Live(d) /\ Intact
    BY <1>1 DEF Live, Intact
  <2>2. CASE conn[d].subscribed
    <3>1. PositionComes(d, u)
      BY <2>1, <2>2 DEF LocInv, Positions
    <3>2. CASE <<d, u>> \in outdated
      BY <3>2 DEF PositionComes
    <3>3. CASE ToldOf(d, u)
      <4>1. ToldOf(d, u)'
        BY <1>1, <3>3, ToldKept
      <4> QED  BY <4>1 DEF PositionComes
    <3>4. CASE peer[d].where[u] = Newest(u) /\ (u # UserOf[c] \/ row.fix = conn[c].fix)
      <4>1. Newest(u)' = Newest(u)
        BY <1>1, <3>4, NewestKept DEF Registered
      <4> QED  BY <3>4, <4>1 DEF PositionComes
    <3>5. CASE u = UserOf[c] /\ row.fix # conn[c].fix
      <4>1. PICK t \in new : \/ t.op = "gone"
                             \/ t.op = "reach" /\ LocationFrame(t) /\ t.frame.user = UserOf[c]
        BY <3>5
      <4>2. CASE t.op = "gone"
        BY <1>2, <3>5, <4>1, <4>2 DEF PositionComes, ToldOf, GoneSoon
      <4>3. CASE t.op = "reach" /\ LocationFrame(t) /\ t.frame.user = UserOf[c]
        <5>1. Speaks(t, d, u)'
          BY <3>5, <4>3 DEF Speaks, LocationFrame
        <5> QED  BY <1>2, <4>1, <5>1 DEF PositionComes, ToldOf
      <4> QED  BY <4>1, <4>2, <4>3
    <3> QED  BY <3>1, <3>2, <3>3, <3>4, <3>5 DEF PositionComes
  <2>3. CASE ~conn[d].subscribed
    <3>1. d = c /\ \E t \in new : t.op = "greet"
      BY <1>1, <2>3
    <3>2. GreetSoon(d)'
      BY <1>2, <3>1 DEF GreetSoon
    <3>3. Stranger(d)
      BY <2>1, <2>3 DEF LocInv, Strangers, Live
    <3> QED  BY <3>2, <3>3 DEF Stranger, PositionComes, ToldOf
  <2> QED  BY <2>2, <2>3
<1> QED  BY <1>3, <1>4, <1>5, <1>6 DEF LocInv

\* One frame of a connection: what HandlerTells asks of its row and its tasks.
LEMMA FrameTells ==
  ASSUME HubInv, LocInv, NEW c \in Conns, NEW kind, NEW row \in Row, NEW tasks,
         Frame(c, kind, row, tasks), IsList(tasks),
         row.status = conn[c].status \/ (conn[c].status = "open" /\ row.status = "dropped"),
         \A p \in outdated : p \in outdated',
         \A t \in Range(tasks) : LocTaskOK(c, t)' /\ t.op # "pass",
         \/ row.subscribed = conn[c].subscribed
         \/ row.subscribed /\ \E t \in Range(tasks) : t.op = "greet"
         \/ ~row.subscribed /\ \A u \in Users : <<c, u>> \in outdated',
         \/ row.fix = conn[c].fix
         \/ \E t \in Range(tasks) :
              \/ t.op = "gone"
              \/ t.op = "reach" /\ LocationFrame(t) /\ t.frame.user = UserOf[c]
  PROVE  LocInv'
<1>1. /\ conn[c].status \in {"open", "dropped"} /\ todo[c] = <<>>
      /\ conn' = [conn EXCEPT ![c] = row] /\ todo' = [todo EXCEPT ![c] = tasks]
      /\ peer' = peer /\ members' = members
  BY DEF Frame, gens, store
<1>2. PICK old, new : old = {} /\ new = Range(tasks)
  OBVIOUS
<1>3. Did(c, old, new)
  BY <1>1, <1>2, PutDid DEF HubInv, Shape, Actors
<1>4. row.status \in {"open", "dropped"} /\ (row.status = "open" => conn[c].status = "open")
  BY <1>1
<1>5. \A t \in new : LocTaskOK(c, t)' /\ t.op # "pass"
  BY <1>2
<1>6. \/ row.subscribed = conn[c].subscribed
      \/ row.subscribed /\ \E t \in new : t.op = "greet"
      \/ ~row.subscribed /\ \A u \in Users : <<c, u>> \in outdated'
  BY <1>2
<1>7. \/ row.fix = conn[c].fix
      \/ \E t \in new : \/ t.op = "gone"
                        \/ t.op = "reach" /\ LocationFrame(t) /\ t.frame.user = UserOf[c]
  BY <1>2
<1> QED  BY <1>1, <1>2, <1>3, <1>4, <1>5, <1>6, <1>7, HandlerTells

\* Tasks that fit whatever connection they are put for.
LEMMA FitsAny ==
  ASSUME NEW c \in Conns, NEW t,
         t.op \in {"who", "view", "gone"} \/ (t.op = "reach" /\ t.frame.kind = "changed")
  PROVE  LocTaskOK(c, t)'
  BY DEF LocTaskOK, LocationFrame

\* What taking a position back puts: announceGone, if there was one.
LEMMA BackTasks ==
  ASSUME NEW c \in Conns
  PROVE  /\ IsList(TakenBack(c)) /\ \A t \in Range(TakenBack(c)) : t.op = "gone"
         /\ conn[c].fix # NoFix => \E t \in Range(TakenBack(c)) : t.op = "gone"
<1>1. IsList(TakenBack(c)) /\ \A t \in Range(TakenBack(c)) : t.op = "gone"
  BY PutTasks
<1>2. PICK gone : gone = [op |-> "gone"]
  OBVIOUS
<1>3. gone.op = "gone" /\ Range(<<gone>>) = {gone}
  BY <1>2, OneTask
<1>4. ASSUME conn[c].fix # NoFix
      PROVE  \E t \in Range(TakenBack(c)) : t.op = "gone"
  <2>1. TakenBack(c) = <<gone>>
    BY <1>2, <1>4 DEF TakenBack
  <2> QED  BY <1>3, <2>1
<1> QED  BY <1>1, <1>4

\* A subscription is followed by a greeting.
LEMMA SubscribeTells ==
  ASSUME HubInv, LocInv, NEW c \in Conns, Subscribe(c)
  PROVE  LocInv'
<1>1. PICK row, hello : row = [conn[c] EXCEPT !.subscribed = TRUE] /\ hello = [op |-> "greet"]
  OBVIOUS
<1>2. PICK tasks : tasks = Presence \o <<hello>>
  OBVIOUS
<1>3. Frame(c, "subscribe", row, tasks) /\ outdated' = outdated
  BY <1>1, <1>2 DEF Subscribe
<1>4. /\ row \in Row /\ row.status = conn[c].status /\ row.subscribed = TRUE
      /\ row.fix = conn[c].fix /\ hello.op = "greet"
  BY <1>1, RowOf DEF Row
<1>5. PICK who : who.op = "who" /\ Range(Presence) = {who} /\ IsList(Presence)
  <2>1. PICK who : who = [op |-> "who"]
    OBVIOUS
  <2>2. who.op = "who"
    BY <2>1
  <2> QED  BY <2>1, <2>2, PutTasks
<1>6. IsList(tasks) /\ Range(tasks) = {who, hello}
  BY <1>2, <1>5, OneTask, TwoLists
<1>7. LocTaskOK(c, hello)'
  <2>1. conn'[c].subscribed
    BY <1>3, <1>4 DEF Frame, HubInv, Shape, Rows
  <2> QED  BY <1>4, <2>1 DEF LocTaskOK, LocationFrame
<1>8. \A t \in Range(tasks) : LocTaskOK(c, t)' /\ t.op # "pass"
  BY <1>4, <1>5, <1>6, <1>7, FitsAny
<1>9. \E t \in Range(tasks) : t.op = "greet"
  BY <1>4, <1>6
<1> QED  BY <1>3, <1>4, <1>6, <1>8, <1>9, FrameTells

\* What an ended subscription leaves behind is known to be outdated.
LEMMA UnsubscribeTells ==
  ASSUME HubInv, LocInv, NEW c \in Conns, Unsubscribe(c)
  PROVE  LocInv'
<1>1. PICK row : row = [[[conn[c] EXCEPT !.subscribed = FALSE] EXCEPT !.cursor = 0] EXCEPT !.fix = NoFix]
  OBVIOUS
<1>2. PICK tasks : tasks = TakenBack(c) \o Presence
  OBVIOUS
<1>3. /\ Frame(c, "unsubscribe", row, tasks)
      /\ outdated' = outdated \cup ({c} \X Users)
  BY <1>1, <1>2 DEF Unsubscribe
<1>4. row \in Row /\ row.status = conn[c].status /\ row.subscribed = FALSE /\ row.fix = NoFix
  <2>1. PICK off : off = [conn[c] EXCEPT !.subscribed = FALSE]
    OBVIOUS
  <2>2. PICK none : none = [off EXCEPT !.cursor = 0]
    OBVIOUS
  <2>3. off \in Row /\ off.status = conn[c].status /\ off.subscribed = FALSE
    BY <2>1, RowOf DEF Row
  <2>4. none \in Row /\ none.status = off.status /\ none.subscribed = FALSE
    BY <2>2, <2>3 DEF Row
  <2>5. row = [none EXCEPT !.fix = 0]
    BY <1>1, <2>1, <2>2 DEF NoFix
  <2> QED  BY <2>3, <2>4, <2>5 DEF Row, NoFix
<1>5. PICK who : who.op = "who" /\ Range(Presence) = {who} /\ IsList(Presence)
  <2>1. PICK who : who = [op |-> "who"]
    OBVIOUS
  <2>2. who.op = "who"
    BY <2>1
  <2> QED  BY <2>1, <2>2, PutTasks
<1>6. IsList(tasks) /\ Range(tasks) = Range(TakenBack(c)) \cup {who}
  BY <1>2, <1>5, BackTasks, TwoLists
<1>7. \A t \in Range(tasks) : LocTaskOK(c, t)' /\ t.op # "pass"
  BY <1>5, <1>6, BackTasks, FitsAny
<1>8. row.fix = conn[c].fix \/ \E t \in Range(tasks) : t.op = "gone"
  BY <1>4, <1>6, BackTasks
<1>9. (\A p \in outdated : p \in outdated') /\ \A u \in Users : <<c, u>> \in outdated'
  BY <1>3
<1> QED  BY <1>3, <1>4, <1>6, <1>7, <1>8, <1>9, FrameTells

\* An accepted position is handed on.
LEMMA SetLocationTells ==
  ASSUME HubInv, LocInv, NEW c \in Conns, SetLocation(c)
  PROVE  LocInv'
<1>1. clock' = clock + 1 /\ clock' \in Nat
  BY RowOf DEF SetLocation
<1>2. PICK k \in Nat : k = clock'
  BY <1>1
<1>3. PICK row, tasks : /\ row = [conn[c] EXCEPT !.fix = k]
                        /\ tasks = Reach(Location(UserOf[c], k), UserOf[c])
  OBVIOUS
<1>4. Frame(c, "location", row, tasks) /\ outdated' = outdated
  BY <1>2, <1>3 DEF SetLocation
<1>5. row \in Row /\ row.status = conn[c].status /\ row.subscribed = conn[c].subscribed
  BY <1>3, RowOf DEF Row
<1>6. PICK reach : /\ reach.op = "reach" /\ reach.frame.kind = "location"
                   /\ reach.frame.user = UserOf[c] /\ reach.but = UserOf[c]
                   /\ Range(tasks) = {reach} /\ IsList(tasks)
  <2>1. PICK f : f = Location(UserOf[c], k)
    OBVIOUS
  <2>2. PICK reach : reach = [op |-> "reach", frame |-> f, but |-> UserOf[c]]
    OBVIOUS
  <2>3. /\ reach.op = "reach" /\ reach.frame.kind = "location"
        /\ reach.frame.user = UserOf[c] /\ reach.but = UserOf[c]
    BY <2>1, <2>2 DEF Location
  <2> QED  BY <1>3, <2>1, <2>2, <2>3, PutTasks
<1>7. \A t \in Range(tasks) : LocTaskOK(c, t)' /\ t.op # "pass"
  <2>1. UserOf[c] \in Users
    BY HubAssumption
  <2> QED  BY <1>6, <2>1 DEF LocTaskOK, LocationFrame
<1>8. \E t \in Range(tasks) : t.op = "reach" /\ LocationFrame(t) /\ t.frame.user = UserOf[c]
  BY <1>6 DEF LocationFrame
<1> QED  BY <1>4, <1>5, <1>6, <1>7, <1>8, FrameTells

\* A position taken back is announced.
LEMMA ClearLocationTells ==
  ASSUME HubInv, LocInv, NEW c \in Conns, ClearLocation(c)
  PROVE  LocInv'
<1>1. PICK row, tasks : row = [conn[c] EXCEPT !.fix = NoFix] /\ tasks = TakenBack(c)
  OBVIOUS
<1>2. Frame(c, "stop", row, tasks) /\ outdated' = outdated
  BY <1>1 DEF ClearLocation
<1>3. /\ row \in Row /\ row.status = conn[c].status /\ row.subscribed = conn[c].subscribed
      /\ row.fix = NoFix
  BY <1>1, RowOf DEF Row, NoFix
<1>4. IsList(tasks) /\ \A t \in Range(tasks) : LocTaskOK(c, t)' /\ t.op # "pass"
  BY <1>1, BackTasks, FitsAny
<1>5. row.fix = conn[c].fix \/ \E t \in Range(tasks) : t.op = "gone"
  BY <1>1, <1>3, BackTasks
<1> QED  BY <1>2, <1>3, <1>4, <1>5, FrameTells

\* The other frames move no position and no subscription.
LEMMA PlainFrameTells ==
  ASSUME HubInv, LocInv, NEW c \in Conns,
         SetViewing(c, TRUE) \/ SetViewing(c, FALSE) \/ UpdateCursor(c) \/ Ping(c)
  PROVE  LocInv'
<1>1. PICK row, tasks, kind :
        /\ Frame(c, kind, row, tasks) /\ outdated' = outdated
        /\ row \in Row /\ row.subscribed = conn[c].subscribed /\ row.fix = conn[c].fix
        /\ row.status = conn[c].status \/ (conn[c].status = "open" /\ row.status = "dropped")
        /\ tasks \in {Roster(FALSE), Presence, <<>>}
  <2>1. ASSUME NEW wants \in BOOLEAN, SetViewing(c, wants)
        PROVE  \E on \in BOOLEAN :
                 /\ Frame(c, "viewing", [conn[c] EXCEPT !.viewing = on],
                          IF on # conn[c].viewing THEN Roster(FALSE) ELSE <<>>)
                 /\ outdated' = outdated
    BY <2>1 DEF SetViewing
  <2>2. CASE \E wants \in BOOLEAN : SetViewing(c, wants)
    <3>1. PICK on \in BOOLEAN :
                 /\ Frame(c, "viewing", [conn[c] EXCEPT !.viewing = on],
                          IF on # conn[c].viewing THEN Roster(FALSE) ELSE <<>>)
                 /\ outdated' = outdated
      BY <2>1, <2>2
    <3>2. PICK row, tasks : /\ row = [conn[c] EXCEPT !.viewing = on]
                            /\ tasks = IF on # conn[c].viewing THEN Roster(FALSE) ELSE <<>>
      OBVIOUS
    <3>3. /\ row \in Row /\ row.subscribed = conn[c].subscribed /\ row.fix = conn[c].fix
          /\ row.status = conn[c].status
      BY <3>2, RowOf DEF Row
    <3> QED  BY <3>1, <3>2, <3>3
  <2>3. CASE UpdateCursor(c)
    <3>1. PICK seq \in conn[c].cursor .. head :
            /\ Frame(c, "cursor", [conn[c] EXCEPT !.cursor = seq], Presence)
            /\ outdated' = outdated
      BY <2>3 DEF UpdateCursor
    <3>2. PICK row : row = [conn[c] EXCEPT !.cursor = seq]
      OBVIOUS
    <3>3. seq \in Nat
      BY <3>1, RowOf
    <3>4. /\ row \in Row /\ row.subscribed = conn[c].subscribed /\ row.fix = conn[c].fix
          /\ row.status = conn[c].status
      BY <3>2, <3>3, RowOf DEF Row
    <3> QED  BY <3>1, <3>2, <3>4
  <2>4. CASE Ping(c)
    <3>1. PICK row : row = enqueue(c)
      OBVIOUS
    <3>2. Frame(c, "ping", row, <<>>) /\ outdated' = outdated
      BY <2>4, <3>1 DEF Ping
    <3>3. Rows /\ conn[c].status \in {"open", "dropped"}
      BY <3>2 DEF HubInv, Shape, Frame
    <3>4. /\ row \in Row /\ row.subscribed = conn[c].subscribed /\ row.fix = conn[c].fix
          /\ row.status = conn[c].status \/ (conn[c].status = "open" /\ row.status = "dropped")
      BY <3>1, <3>3, EnqueueRow DEF Row
    <3> QED  BY <3>2, <3>4
  <2>5. (SetViewing(c, TRUE) \/ SetViewing(c, FALSE)) => \E wants \in BOOLEAN : SetViewing(c, wants)
    OBVIOUS
  <2> QED  BY <2>2, <2>3, <2>4, <2>5
<1>2. IsList(tasks) /\ \A t \in Range(tasks) : t.op \in {"who", "view"}
  <2>1. PICK who, view : who = [op |-> "who"] /\ view = [op |-> "view", only |-> FALSE]
    OBVIOUS
  <2>2. who.op = "who" /\ view.op = "view"
    BY <2>1
  <2>3. IsList(Presence) /\ Range(Presence) = {who}
    BY <2>1, PutTasks
  <2>4. IsList(Roster(FALSE)) /\ Range(Roster(FALSE)) = {view}
    BY <2>1, PutTasks
  <2>5. tasks = Roster(FALSE) \/ tasks = Presence \/ tasks = <<>>
    BY <1>1
  <2> QED  BY <2>2, <2>3, <2>4, <2>5, NoTask
<1>3. \A t \in Range(tasks) : LocTaskOK(c, t)' /\ t.op # "pass"
  BY <1>2, FitsAny
<1> QED  BY <1>1, <1>2, <1>3, FrameTells

\* A failed read takes the position back before the handler leaves.
LEMMA CloseTells ==
  ASSUME HubInv, LocInv, NEW c \in Conns, Close(c)
  PROVE  LocInv'
<1>1. PICK row, leave : /\ row = [[conn[c] EXCEPT !.status = "dropped"] EXCEPT !.fix = NoFix]
                        /\ leave = [op |-> "leave"]
  OBVIOUS
<1>2. PICK tasks : tasks = TakenBack(c) \o <<leave>>
  OBVIOUS
<1>3. /\ conn[c].status \in {"open", "dropped"} /\ todo[c] = <<>>
      /\ conn' = [conn EXCEPT ![c] = row] /\ todo' = [todo EXCEPT ![c] = tasks]
      /\ peer' = peer /\ members' = members /\ outdated' = outdated
  BY <1>1, <1>2 DEF Close, gens, store
<1>4. /\ row \in Row /\ row.status = "dropped" /\ row.subscribed = conn[c].subscribed
      /\ row.fix = NoFix /\ leave.op = "leave"
  <2>1. PICK off : off = [conn[c] EXCEPT !.status = "dropped"]
    OBVIOUS
  <2>2. off \in Row /\ off.status = "dropped" /\ off.subscribed = conn[c].subscribed
    BY <2>1, RowOf DEF Row
  <2>3. row = [off EXCEPT !.fix = 0]
    BY <1>1, <2>1 DEF NoFix
  <2> QED  BY <1>1, <2>2, <2>3 DEF Row, NoFix
<1>5. PICK old, new : old = {} /\ new = Range(tasks)
  OBVIOUS
<1>6. IsList(tasks) /\ new = Range(TakenBack(c)) \cup {leave}
  BY <1>2, <1>5, BackTasks, OneTask, TwoLists
<1>7. Did(c, old, new)
  BY <1>3, <1>5, <1>6, PutDid DEF HubInv, Shape, Actors
<1>8. LocTaskOK(c, leave)'
  <2>1. conn'[c].fix = NoFix
    BY <1>3, <1>4 DEF HubInv, Shape, Rows
  <2> QED  BY <1>4, <2>1 DEF LocTaskOK, LocationFrame
<1>9. \A t \in new : LocTaskOK(c, t)' /\ t.op # "pass"
  BY <1>4, <1>6, <1>8, BackTasks, FitsAny
<1>10. row.fix = conn[c].fix \/ \E t \in new : t.op = "gone"
  BY <1>4, <1>6, BackTasks
<1>11. row.status \in {"open", "dropped"} /\ (row.status = "open" => conn[c].status = "open")
  BY <1>4
<1> QED  BY <1>3, <1>4, <1>5, <1>7, <1>9, <1>10, <1>11, HandlerTells

\* A connection that is made shows nobody yet.
LEMMA RegisterTells ==
  ASSUME HubInv, LocInv, NEW c \in Conns, Register(c)
  PROVE  LocInv'
<1>1. PICK row, old, new : /\ row = [conn[c] EXCEPT !.status = "open"]
                           /\ old = {} /\ new = Range(Roster(TRUE))
  OBVIOUS
<1>2. /\ conn[c].status = "new" /\ conn' = [conn EXCEPT ![c] = row]
      /\ todo' = [todo EXCEPT ![c] = Roster(TRUE)]
      /\ peer' = peer /\ members' = members /\ outdated' = outdated
  BY <1>1 DEF Register, gens, store
<1>3. Lists /\ conn \in [Conns -> Row] /\ todo[c] = <<>> /\ c \in Actors /\ conn[c].fix = NoFix
      /\ conn[c].subscribed = FALSE
  BY <1>2 DEF HubInv, Shape, Rows, Unmade, Actors, LocInv, LocPeers
<1>4. /\ conn'[c] = row /\ \A d \in Conns : d # c => conn'[d] = conn[d]
      /\ row.status = "open" /\ row.fix = NoFix /\ row.subscribed = FALSE
  BY <1>1, <1>2, <1>3, RowOf DEF Row
<1>5. Did(c, old, new) /\ \A t \in new : t.op = "view"
  <2>1. PICK view, tasks : view = [op |-> "view", only |-> TRUE] /\ tasks = Roster(TRUE)
    OBVIOUS
  <2>2. view.op = "view" /\ IsList(tasks) /\ Range(tasks) = {view}
    BY <2>1, PutTasks
  <2>3. Did(c, {}, Range(tasks))
    BY <1>2, <1>3, <2>1, <2>2, PutDid
  <2> QED  BY <1>1, <2>1, <2>2, <2>3
<1>6. LocTasks'
  <2>1. \A t \in new : LocTaskOK(c, t)'
    BY <1>5, FitsAny
  <2> QED  BY <1>3, <1>4, <1>5, <2>1, LocTasksKept DEF LocInv
<1>7. LocPeers'
  BY <1>2, <1>4 DEF LocInv, LocPeers
<1>8. Strangers'
  <2> SUFFICES ASSUME NEW d \in Conns, conn'[d].status \in {"new", "open"}, ~conn'[d].subscribed
               PROVE  Stranger(d)'
    BY DEF Strangers
  <2>1. Stranger(d)
    BY <1>2, <1>3, <1>4 DEF LocInv, Strangers
  <2> QED  BY <1>2, <1>3, <1>5, <2>1, StrangerKept
<1>9. Positions'
  <2> SUFFICES ASSUME Intact', NEW d \in Conns, NEW u \in Users,
                      Live(d)', conn'[d].subscribed, u # UserOf[d]
               PROVE  PositionComes(d, u)'
    BY DEF Positions
  <2>1. PositionComes(d, u)
    BY <1>2, <1>4 DEF LocInv, Positions, Intact, Live
  <2>2. Newest(u)' = Newest(u)
    BY <1>3, <1>4, NewestKept DEF Registered
  <2>3. ASSUME ToldOf(d, u)
        PROVE  ToldOf(d, u)'
    <3>1. peer'[d].where[u] = peer[d].where[u] /\ \A t \in old : FALSE
      BY <1>1, <1>2
    <3> QED  BY <1>3, <1>5, <2>3, <3>1, ToldKept
  <2> QED  BY <1>2, <2>1, <2>2, <2>3 DEF PositionComes
<1> QED  BY <1>6, <1>7, <1>8, <1>9 DEF LocInv

\* Nor do reading, pushing, revoking and doing nothing.
LEMMA RestTells ==
  ASSUME HubInv, LocInv,
         \/ \E c \in Conns : Pump(c)
         \/ Commit \/ (\E u \in Users : Revoke(u)) \/ UNCHANGED vars
  PROVE  LocInv'
<1>1. Lists /\ API \in Actors /\ LocPeers /\ Rows
  BY DEF HubInv, Shape, Actors, LocInv
<1>2. PICK none : none = {}
  OBVIOUS
<1>3. ASSUME todo' = todo, SamePositions
      PROVE  LocInv'
  <2>1. Did(API, none, none)
    BY <1>1, <1>2, <1>3, IdleDid
  <2> QED  BY <1>1, <1>2, <1>3, <2>1, PositionsKept
<1>4. ASSUME NEW c \in Conns, Pump(c)
      PROVE  LocInv'
  <2>1. PICK row : row = [conn[c] EXCEPT !.out = 0]
    OBVIOUS
  <2>2. /\ row.fix = conn[c].fix /\ row.subscribed = conn[c].subscribed
        /\ row.status = conn[c].status
    BY <2>1, RowOf DEF Row
  <2>3. /\ todo' = todo /\ peer' = peer /\ outdated' = outdated /\ members' = members
        /\ conn' = [conn EXCEPT ![c] = row]
    BY <1>4, <2>1 DEF Pump, store
  <2>4. conn'[c] = row /\ \A d \in Conns : d # c => conn'[d] = conn[d]
    BY <1>1, <2>3 DEF Rows
  <2>5. SamePositions
    BY <1>1, <2>2, <2>3, <2>4 DEF SamePositions, LocPeers
  <2> QED  BY <1>3, <2>3, <2>5
<1>5. CASE Commit
  <2>1. PICK f : f = [kind |-> "changed", head |-> head']
    OBVIOUS
  <2>2. PICK tasks, new : tasks = Reach(f, "nobody") /\ new = Range(tasks)
    OBVIOUS
  <2>3. /\ todo[API] = <<>> /\ todo' = [todo EXCEPT ![API] = tasks]
        /\ conn' = conn /\ peer' = peer /\ outdated' = outdated /\ members' = members
    BY <1>5, <2>1, <2>2 DEF Commit
  <2>4. PICK reach : reach = [op |-> "reach", frame |-> f, but |-> "nobody"]
    OBVIOUS
  <2>5. reach.op = "reach" /\ reach.frame.kind = "changed"
    BY <2>1, <2>4
  <2>6. IsList(tasks) /\ new = {reach}
    BY <2>2, <2>4, PutTasks
  <2>7. Did(API, none, new)
    BY <1>1, <1>2, <2>2, <2>3, <2>6, PutDid
  <2>8. SamePositions
    BY <1>1, <2>3 DEF SamePositions, LocPeers
  <2>9. \A t \in none \cup new : t.op \notin {"gone", "greet", "leave"} /\ ~LocationFrame(t)
    BY <1>2, <2>5, <2>6 DEF LocationFrame
  <2> QED  BY <1>1, <2>7, <2>8, <2>9, PositionsKept
<1>6. CASE (\E u \in Users : Revoke(u)) \/ UNCHANGED vars
  <2>1. /\ todo' = todo /\ conn' = conn /\ peer' = peer /\ outdated' = outdated
        /\ members' \subseteq members
    BY <1>6 DEF Revoke, vars, store
  <2>2. SamePositions
    BY <1>1, <2>1 DEF SamePositions, LocPeers
  <2> QED  BY <1>3, <2>1, <2>2
<1> QED  BY <1>4, <1>5, <1>6

\* No position is shared and none is shown.
LEMMA InitTells ==
  ASSUME Init
  PROVE  LocInv
<1>1. \A a \in Actors : Work(a) = {}
  BY NoTask DEF Init, Work
<1>2. Pending = {}
  BY <1>1 DEF Pending
<1>3. /\ newConn.status = "new" /\ newConn.fix = NoFix
      /\ \A c \in Conns : conn[c] = newConn /\ peer[c] = NewPeer
  BY DEF Init, newConn
<1>4. NewPeer.where = [u \in Users |-> NoFix]
  BY DEF NewPeer, Client
<1>5. LocPeers
  BY <1>3, <1>4 DEF Init, LocPeers
<1>6. LocTasks /\ Strangers
  BY <1>1, <1>2, <1>3, <1>4 DEF LocTasks, Strangers, Stranger
<1>7. \A c \in Conns : ~Live(c)
  BY <1>3 DEF Live
<1> QED  BY <1>5, <1>6, <1>7 DEF LocInv, Positions

\* Every step of the hub keeps what it says of positions.
LEMMA NextTells ==
  ASSUME HubInv, LocInv, [Next]_vars
  PROVE  LocInv'
<1>1. ASSUME NEW a \in Actors, Task(a)
      PROVE  LocInv'
  BY <1>1, OthersTell, ReachTells, PassTells, GoneTells, GreetTells, LeaveTells DEF Task
<1>2. ASSUME NEW c \in Conns,
             \/ Register(c) \/ Subscribe(c) \/ Unsubscribe(c)
             \/ SetViewing(c, TRUE) \/ SetViewing(c, FALSE)
             \/ UpdateCursor(c) \/ SetLocation(c) \/ ClearLocation(c)
             \/ Ping(c) \/ Close(c) \/ Pump(c)
      PROVE  LocInv'
  BY <1>2, RegisterTells, SubscribeTells, UnsubscribeTells, PlainFrameTells, SetLocationTells,
     ClearLocationTells, CloseTells, RestTells
<1> QED  BY <1>1, <1>2, RestTells DEF Next

\* Once nothing is under way, a subscriber shows another person where their
\* newest sharing device put them and nobody who shares no more, except where
\* the last frame was known to be outdated (sendToOthers, announceGone and
\* sendLocationsTo, for every number of connections, people and frames).
THEOREM HubLocationsSettle == Spec => []LocationsSettle
<1>1. HubInv /\ LocInv => LocationsSettle
  <2> SUFFICES ASSUME HubInv, LocInv, Quiet, Intact, NEW c \in Conns, NEW u \in Users,
                      Live(c), conn[c].subscribed, u # UserOf[c], <<c, u>> \notin outdated
               PROVE  peer[c].where[u] = Newest(u)
    BY DEF LocationsSettle
  <2>1. \A a \in Actors : Work(a) = {}
    BY NoTask DEF Quiet, Work
  <2>2. Pending = {} /\ \A d \in Conns : Work(d) = {}
    BY <2>1 DEF Pending, Actors
  <2>3. ~ToldOf(c, u)
    BY <2>2 DEF ToldOf, GoneSoon, GreetSoon
  <2> QED  BY <2>3 DEF LocInv, Positions, PositionComes
<1>2. Init => LocInv
  BY InitTells
<1>3. HubInv /\ LocInv /\ [Next]_vars => LocInv'
  BY NextTells
<1> QED  BY <1>1, <1>2, <1>3, HubInvHolds, PTL DEF Spec
=============================================================================
