-------------------------- MODULE Backend_proofs --------------------------
(***************************************************************************)
(* Proofs about the backend of a `server` client: whenSent keeps its word, *)
(* and a device at rest is current, for every number of writes, faults and *)
(* jobs. The jobs are a bag of records, of which the proofs need only the  *)
(* set: what each step adds to it and leaves of it (the first lemmas).     *)
(***************************************************************************)
EXTENDS Backend, TLAPS

Steps == {"master", "sent", "rest", "trip", "trips", "ws"}

\* The three steps of drainTrip are taken in order and not without each other.
Linked(s) ==
    /\ s \in Seq(Steps)
    /\ \A i \in 1 .. Len(s) :
         /\ s[i] = "sent" => i < Len(s) /\ s[i + 1] = "rest"
         /\ s[i] = "rest" => i < Len(s) /\ s[i + 1] = "trip"
         /\ i > 1 /\ s[i] = "rest" => s[i - 1] = "sent"
         /\ i > 1 /\ s[i] = "trip" => s[i - 1] = "rest"

\* A plan nothing of which was taken: it starts in the middle of no drainTrip.
Whole(s) == Linked(s) /\ (s # <<>> => s[1] \notin {"rest", "trip"})

\* What is still queued when the job takes its next steps was queued before now.
Owed == SUBSET (1 .. Len(act))

JobOK(j) ==
    /\ j \in [plan : Seq(Steps), on : {"none", "run", "follow"}, owes : Owed]
    /\ Linked(j.plan) /\ j.plan # <<>>
JobsOK == \A j \in BagToSet(jobs) : JobOK(j)

\* The parts of the state the two properties read.
Shape ==
    /\ act \in Seq({"master", "trip", "both"})
    /\ queue \in [Partition -> Owed]
    /\ run \in [Partition -> [stage : {"idle", "push", "answer", "pull", "page"},
                              batch : Owed, upTo : Nat]]
    /\ follow \in [Partition -> BOOLEAN]
    /\ cursor \in [Partition -> Nat] /\ head \in [Partition -> Nat]
    /\ notices \in [Partition -> Nat]
    /\ booted \in BOOLEAN /\ opened \in BOOLEAN
    /\ missed \in [Partition -> BOOLEAN]

\* A drain past its push holds no batch.
BatchGone == \A p \in Partition : run[p].stage \in {"idle", "pull", "page"} => run[p].batch = {}

\* What a job owes when it waits for the rest of whenSent is in the drain it
\* waits for; when it goes on to the trip's drain, nothing of it is queued.
KeepsWord(j) ==
    /\ ~booted => j.owes = {}
    /\ Head(j.plan) = "trip" => j.owes \cap queue["master"] = {}
    /\ Head(j.plan) = "rest" /\ j.on = "run" => j.owes \cap queue["master"] \subseteq run["master"].batch
WordsKept == \A j \in BagToSet(jobs) : KeepsWord(j)

WordInv == Shape /\ JobsOK /\ BatchGone /\ WordsKept

\* The job has this step before it, and does not await it already.
Remains(j, step) == \E i \in 1 .. Len(j.plan) : j.plan[i] = step /\ (i > 1 \/ j.on = "none")
Seeks(j, p) == Remains(j, p) \/ (p = "trip" /\ opened /\ Remains(j, "trips"))

Sought(p) == \E j \in BagToSet(jobs) : Seeks(j, p)

\* Something under way will pull the partition up to its head.
Due(p) ==
    \/ follow[p]
    \/ run[p].stage \in {"push", "answer", "pull"}
    \/ run[p].stage = "page" /\ run[p].upTo = head[p]
    \/ Sought(p)

\* A device that was told of a commit has it, or is on its way to it.
Reached(p) == missed[p] \/ notices[p] > 0 \/ cursor[p] = head[p] \/ Due(p)

\* No cursor is ahead of its feed, and a page served is not behind the cursor.
NotAhead(p) ==
    /\ cursor[p] <= head[p]
    /\ run[p].stage = "page" => cursor[p] <= run[p].upTo /\ run[p].upTo <= head[p]

CurrentInv == \A p \in Partition : Reached(p) /\ NotAhead(p)

----------------------------------------------------------------------------
(* Bags of jobs *)

\* A drain that ends moves all who wait for it.
AfterEnd(j, p, ok) == IF ~Awaits(j, "run", p) THEN j
                      ELSE IF ~ok /\ Head(j.plan) = "rest" THEN StepsOn(StepsOn(j))
                      ELSE StepsOn(j)

\* What it leaves: the jobs that have steps left.
LEMMA EndsIn ==
    ASSUME NEW p, NEW ok, Ends(p, ok)
    PROVE  BagToSet(jobs') = {k \in {AfterEnd(j, p, ok) : j \in BagToSet(jobs)} : k.plan # <<>>}
BY DEF Ends, EachBecomes, BagOfAll, BagToSet, AfterEnd

\* A promised drain that starts is awaited by all who waited for the promise.
AfterStart(j, p) == IF Awaits(j, "follow", p) THEN [j EXCEPT !.on = "run"] ELSE j

\* So is every job still there.
LEMMA FollowIn ==
    ASSUME NEW p, FollowUp(p)
    PROVE  BagToSet(jobs') = {k \in {AfterStart(j, p) : j \in BagToSet(jobs)} : k.plan # <<>>}
BY DEF FollowUp, EachBecomes, BagOfAll, BagToSet, AfterStart

\* What Becomes leaves: the other jobs, and k if it has steps left.
LEMMA BecomesIn ==
    ASSUME NEW j, NEW k
    PROVE  /\ BagToSet(Becomes(j, k)) \subseteq BagToSet(jobs) \cup (IF k.plan = <<>> THEN {} ELSE {k})
           /\ BagToSet(jobs) \ {j} \subseteq BagToSet(Becomes(j, k))
           /\ k.plan # <<>> => k \in BagToSet(Becomes(j, k))
BY DEF Becomes, BagAdd, BagRemove, BagToSet

\* A job that starts joins the others.
LEMMA StartsIn ==
    ASSUME NEW plan, Starts(plan)
    PROVE  BagToSet(jobs') = BagToSet(jobs) \cup {Job(plan)}
BY DEF Starts, BagAdd, BagToSet

\* No job is in the empty bag.
LEMMA EmptyIn == BagToSet(EmptyBag) = {}
BY DEF BagToSet, EmptyBag, SetToBag

----------------------------------------------------------------------------
(* Plans *)

\* A plan stays linked when its first step is taken, and is whole again unless
\* that step was one of the first two of drainTrip.
LEMMA TailLinked ==
    ASSUME NEW s, Linked(s), s # <<>>
    PROVE  /\ Linked(Tail(s))
           /\ s[1] \notin {"sent", "rest"} => Whole(Tail(s))
           /\ s[1] = "sent" => Tail(s) # <<>> /\ Head(Tail(s)) = "rest"
           /\ s[1] = "rest" => Tail(s) # <<>> /\ Head(Tail(s)) = "trip"
<1>1. s \in Seq(Steps) /\ Len(s) \in Nat /\ Len(s) > 0
  BY DEF Linked
<1>2. Tail(s) \in Seq(Steps) /\ Len(Tail(s)) = Len(s) - 1
  BY <1>1
<1>3. \A i \in 1 .. Len(Tail(s)) : Tail(s)[i] = s[i + 1]
  BY <1>1, <1>2
<1>4. Linked(Tail(s))
  <2>1. ASSUME NEW i \in 1 .. Len(Tail(s))
        PROVE  /\ Tail(s)[i] = "sent" => i < Len(Tail(s)) /\ Tail(s)[i + 1] = "rest"
               /\ Tail(s)[i] = "rest" => i < Len(Tail(s)) /\ Tail(s)[i + 1] = "trip"
               /\ i > 1 /\ Tail(s)[i] = "rest" => Tail(s)[i - 1] = "sent"
               /\ i > 1 /\ Tail(s)[i] = "trip" => Tail(s)[i - 1] = "rest"
    <3>1. i + 1 \in 1 .. Len(s) /\ Tail(s)[i] = s[i + 1]
      BY <2>1, <1>1, <1>2, <1>3
    <3>2. /\ s[i + 1] = "sent" => i + 1 < Len(s) /\ s[i + 2] = "rest"
          /\ s[i + 1] = "rest" => i + 1 < Len(s) /\ s[i + 2] = "trip"
          /\ s[i + 1] = "rest" => s[i] = "sent"
          /\ s[i + 1] = "trip" => s[i] = "rest"
      BY <3>1 DEF Linked
    <3>3. i < Len(Tail(s)) => Tail(s)[i + 1] = s[i + 2]
      BY <2>1, <1>1, <1>2, <1>3
    <3>4. i > 1 => Tail(s)[i - 1] = s[i]
      BY <2>1, <1>1, <1>2, <1>3
    <3>q. QED BY <3>1, <3>2, <3>3, <3>4, <1>1, <1>2
  <2>q. QED BY <2>1, <1>2 DEF Linked
<1>5. Len(s) > 1 => /\ Tail(s)[1] = s[2]
                    /\ s[2] = "rest" => s[1] = "sent"
                    /\ s[2] = "trip" => s[1] = "rest"
  BY <1>1, <1>2, <1>3 DEF Linked
<1>6. s[1] \notin {"sent", "rest"} => Whole(Tail(s))
  BY <1>1, <1>2, <1>4, <1>5 DEF Whole
<1>7. /\ s[1] = "sent" => Len(s) > 1 /\ s[2] = "rest"
      /\ s[1] = "rest" => Len(s) > 1 /\ s[2] = "trip"
  BY <1>1 DEF Linked
<1>q. QED BY <1>1, <1>2, <1>4, <1>5, <1>6, <1>7

\* Whole plans one after the other are a whole plan.
LEMMA WholeConcat ==
    ASSUME NEW s, NEW t, Whole(s), Whole(t)
    PROVE  Whole(s \o t)
<1> DEFINE u == s \o t
<1>1. s \in Seq(Steps) /\ t \in Seq(Steps) /\ Len(s) \in Nat /\ Len(t) \in Nat
  BY DEF Whole, Linked
<1>2. u \in Seq(Steps) /\ Len(u) = Len(s) + Len(t)
  BY <1>1
<1>3. /\ \A i \in 1 .. Len(s) : u[i] = s[i]
      /\ \A i \in 1 .. Len(t) : u[Len(s) + i] = t[i]
  BY <1>1
<1> HIDE DEF u
<1>4. ASSUME NEW i \in 1 .. Len(u)
      PROVE  /\ u[i] = "sent" => i < Len(u) /\ u[i + 1] = "rest"
             /\ u[i] = "rest" => i < Len(u) /\ u[i + 1] = "trip"
             /\ i > 1 /\ u[i] = "rest" => u[i - 1] = "sent"
             /\ i > 1 /\ u[i] = "trip" => u[i - 1] = "rest"
  <2>1. CASE i <= Len(s)
    <3>1. i \in 1 .. Len(s) /\ u[i] = s[i]
      BY <2>1, <1>4, <1>1, <1>2, <1>3
    <3>2. /\ s[i] = "sent" => i < Len(s) /\ s[i + 1] = "rest"
          /\ s[i] = "rest" => i < Len(s) /\ s[i + 1] = "trip"
          /\ i > 1 /\ s[i] = "rest" => s[i - 1] = "sent"
          /\ i > 1 /\ s[i] = "trip" => s[i - 1] = "rest"
      BY <3>1 DEF Whole, Linked
    <3>3. i < Len(s) => u[i + 1] = s[i + 1]
      BY <3>1, <1>1, <1>3
    <3>4. i > 1 => u[i - 1] = s[i - 1]
      BY <3>1, <1>1, <1>3
    <3>q. QED BY <3>1, <3>2, <3>3, <3>4, <1>1, <1>2
  <2>2. CASE i > Len(s)
    <3> DEFINE k == i - Len(s)
    <3>1. k \in 1 .. Len(t) /\ i = Len(s) + k
      BY <2>2, <1>4, <1>1, <1>2
    <3> HIDE DEF k
    <3>2. u[i] = t[k]
      BY <3>1, <1>3
    <3>3. /\ t[k] = "sent" => k < Len(t) /\ t[k + 1] = "rest"
          /\ t[k] = "rest" => k < Len(t) /\ t[k + 1] = "trip"
          /\ k > 1 /\ t[k] = "rest" => t[k - 1] = "sent"
          /\ k > 1 /\ t[k] = "trip" => t[k - 1] = "rest"
      BY <3>1 DEF Whole, Linked
    <3>4. k = 1 => t[k] \notin {"rest", "trip"}
      BY <3>1, <1>1 DEF Whole
    <3>5. k < Len(t) => u[i + 1] = t[k + 1]
      <4>1. k < Len(t) => k + 1 \in 1 .. Len(t) /\ i + 1 = Len(s) + (k + 1)
        BY <3>1, <1>1
      <4>q. QED BY <4>1, <1>3
    <3>6. k > 1 => u[i - 1] = t[k - 1]
      <4>1. k > 1 => k - 1 \in 1 .. Len(t) /\ i - 1 = Len(s) + (k - 1)
        BY <3>1, <1>1
      <4>q. QED BY <4>1, <1>3
    <3>q. QED BY <3>1, <3>2, <3>3, <3>4, <3>5, <3>6, <1>1, <1>2
  <2>q. QED BY <2>1, <2>2, <1>1, <1>2
<1>5. u # <<>> => u[1] \notin {"rest", "trip"}
  <2>1. CASE s = <<>>
    <3>1. u = t BY <2>1, <1>1 DEF u
    <3>q. QED BY <3>1 DEF Whole
  <2>2. CASE s # <<>>
    <3>1. u[1] = s[1] BY <2>2, <1>1, <1>3
    <3>q. QED BY <3>1, <2>2 DEF Whole
  <2>q. QED BY <2>1, <2>2
<1>6. Whole(u)
  BY <1>2, <1>4, <1>5 DEF Whole, Linked
<1>q. QED BY <1>6 DEF u

\* The plans jobs are started with are whole.
LEMMA PlansWhole ==
    /\ Whole(<<>>) /\ Whole(DrainMaster) /\ Whole(DrainTrip) /\ Whole(<<"trips">>) /\ Whole(<<"ws">>)
    /\ Whole(CatchUp) /\ Whole(SubscribedTrips) /\ Whole(DrainMaster \o DrainTrip)
    /\ Whole(Restored \o <<"ws">> \o DrainMaster)
<1>1. Whole(<<>>) /\ Whole(DrainMaster) /\ Whole(<<"trips">>) /\ Whole(<<"ws">>)
  BY DEF Whole, Linked, Steps, DrainMaster
<1>2. Whole(DrainTrip)
  <2>1. DrainTrip \in Seq(Steps) /\ Len(DrainTrip) = 3
        /\ DrainTrip[1] = "sent" /\ DrainTrip[2] = "rest" /\ DrainTrip[3] = "trip"
    BY DEF DrainTrip, Steps
  <2>2. \A i \in 1 .. 3 : i = 1 \/ i = 2 \/ i = 3
    OBVIOUS
  <2>q. QED BY <2>1, <2>2 DEF Whole, Linked
<1>3. Whole(CatchUp) /\ Whole(SubscribedTrips)
  BY <1>1, <1>2, WholeConcat DEF CatchUp, SubscribedTrips
<1>4. Whole(DrainMaster \o DrainTrip) /\ Whole(DrainTrip \o DrainMaster)
  BY <1>1, <1>2, WholeConcat
<1>5. Whole(Restored)
  BY <1>1, <1>2, <1>4 DEF Restored
<1>6. Whole(Restored \o <<"ws">> \o DrainMaster)
  BY <1>1, <1>5, WholeConcat
<1>q. QED BY <1>1, <1>2, <1>3, <1>4, <1>6

----------------------------------------------------------------------------
(* whenSent *)

\* What every step but a restart does to acts, queue and boot.
Grows ==
    /\ act' \in Seq({"master", "trip", "both"}) /\ Len(act) <= Len(act')
    /\ booted => booted'
    /\ queue'["master"] \cap (1 .. Len(act)) \subseteq queue["master"]

\* The drain of master that runs still holds what it took, as far as it is queued.
Holds == run["master"].batch \cap queue'["master"] \subseteq run'["master"].batch

\* A job that takes no step keeps its word over the steps of others.
LEMMA Stays ==
    ASSUME NEW j, Shape, JobOK(j), KeepsWord(j), Grows,
           Head(j.plan) = "rest" /\ j.on = "run" => Holds
    PROVE  JobOK(j)' /\ KeepsWord(j)'
<1>1. Len(act) \in Nat /\ Len(act') \in Nat /\ Len(act) <= Len(act')
  BY DEF Shape, Grows
<1>2. Owed \subseteq Owed'
  BY <1>1 DEF Owed
<1>3. JobOK(j)'
  BY <1>2 DEF JobOK
<1>4. j.owes \subseteq 1 .. Len(act)
  BY DEF JobOK, Owed
<1>5. j.owes \cap queue'["master"] \subseteq j.owes \cap queue["master"]
  BY <1>4 DEF Grows
<1>6. KeepsWord(j)'
  BY <1>5 DEF KeepsWord, Grows, Holds
<1>q. QED BY <1>3, <1>6

\* A job that goes on to its next step keeps its word, if nothing it owes is
\* queued when the rest of whenSent is behind it.
LEMMA Moves ==
    ASSUME NEW j, NEW k, Shape, JobOK(j), KeepsWord(j), Grows,
           k = StepsOn(j), k.plan # <<>>,
           Head(j.plan) = "rest" => j.owes \cap queue'["master"] = {}
    PROVE  JobOK(k)' /\ KeepsWord(k)'
<1>1. Len(act) \in Nat /\ Len(act') \in Nat /\ Len(act) <= Len(act')
  BY DEF Shape, Grows
<1>2. Owed \subseteq Owed'
  BY <1>1 DEF Owed
<1>3. k.plan = Tail(j.plan) /\ k.on = "none" /\ k.owes = j.owes
  BY DEF StepsOn
<1>4. Linked(j.plan) /\ j.plan # <<>> /\ j.plan \in Seq(Steps)
  BY DEF JobOK
<1>5. Linked(k.plan) /\ k.plan \in Seq(Steps)
  BY <1>3, <1>4, TailLinked DEF Linked
<1>6. k \in [plan : Seq(Steps), on : {"none", "run", "follow"}, owes : Owed]
  BY <1>3, <1>5 DEF JobOK, StepsOn
<1>7. JobOK(k)'
  BY <1>2, <1>5, <1>6 DEF JobOK
<1>8. Head(k.plan) = "trip" => Head(j.plan) = "rest"
  <2>1. Head(j.plan) = j.plan[1] /\ Head(k.plan) = k.plan[1]
    BY <1>4, <1>5
  <2>2. j.plan[1] \notin {"sent", "rest"} => k.plan[1] # "trip"
    BY <1>3, <1>4, TailLinked DEF Whole
  <2>3. j.plan[1] = "sent" => Head(k.plan) = "rest"
    BY <1>3, <1>4, TailLinked
  <2>q. QED BY <2>1, <2>2, <2>3
<1>9. KeepsWord(k)'
  BY <1>3, <1>8 DEF KeepsWord, Grows
<1>q. QED BY <1>7, <1>9

\* So does one that gives up the trip's drain.
LEMMA GivesUp ==
    ASSUME NEW j, NEW k, Shape, JobOK(j), KeepsWord(j), Grows,
           k = StepsOn(StepsOn(j)), k.plan # <<>>, Head(j.plan) = "rest"
    PROVE  JobOK(k)' /\ KeepsWord(k)'
<1>1. Len(act) \in Nat /\ Len(act') \in Nat /\ Len(act) <= Len(act')
  BY DEF Shape, Grows
<1>2. Owed \subseteq Owed'
  BY <1>1 DEF Owed
<1>3. k.plan = Tail(Tail(j.plan)) /\ k.on = "none" /\ k.owes = j.owes
  BY DEF StepsOn
<1>4. Linked(j.plan) /\ j.plan # <<>> /\ j.plan \in Seq(Steps) /\ j.plan[1] = "rest"
  BY DEF JobOK
<1>5. /\ Linked(Tail(j.plan)) /\ Tail(j.plan) # <<>>
      /\ Tail(j.plan) \in Seq(Steps) /\ Tail(j.plan)[1] = "trip"
  <2>1. Linked(Tail(j.plan)) /\ Tail(j.plan) # <<>> /\ Head(Tail(j.plan)) = "trip"
    BY <1>4, TailLinked
  <2>2. Tail(j.plan) \in Seq(Steps)
    BY <1>4
  <2>q. QED BY <2>1, <2>2
<1>6. Whole(k.plan) /\ k.plan \in Seq(Steps)
  <2>1. Whole(Tail(Tail(j.plan)))
    BY <1>5, TailLinked
  <2>q. QED BY <2>1, <1>3 DEF Whole, Linked
<1>7. k \in [plan : Seq(Steps), on : {"none", "run", "follow"}, owes : Owed]
  BY <1>3, <1>6 DEF JobOK, StepsOn
<1>8. JobOK(k)'
  BY <1>2, <1>6, <1>7 DEF JobOK, Whole
<1>9. KeepsWord(k)'
  <2>1. Head(k.plan) = k.plan[1] /\ k.plan[1] \notin {"rest", "trip"}
    BY <1>6 DEF Whole
  <2>q. QED BY <2>1, <1>3 DEF KeepsWord, Grows
<1>q. QED BY <1>8, <1>9

\* A job that starts owes nothing.
LEMMA StartKeeps ==
    ASSUME NEW plan, Whole(plan), plan # <<>>
    PROVE  JobOK(Job(plan))' /\ KeepsWord(Job(plan))'
<1>1. plan \in Seq(Steps) /\ Linked(plan) /\ Head(plan) = plan[1]
  BY DEF Whole, Linked
<1>2. {} \in Owed'
  BY DEF Owed
<1>3. Job(plan) \in [plan : Seq(Steps), on : {"none", "run", "follow"}, owes : Owed']
  BY <1>1, <1>2 DEF Job
<1>4. Job(plan).plan = plan /\ Job(plan).owes = {} /\ Job(plan).on = "none"
  BY DEF Job
<1>5. JobOK(Job(plan))'
  BY <1>1, <1>3, <1>4 DEF JobOK
<1>6. KeepsWord(Job(plan))'
  BY <1>4 DEF KeepsWord
<1>q. QED BY <1>5, <1>6

\* So a step that only starts a whole plan keeps every word.
LEMMA StartStep ==
    ASSUME NEW plan, WordInv, Grows, UNCHANGED run, Starts(plan), Whole(plan), plan # <<>>
    PROVE  JobsOK' /\ WordsKept'
<1>1. Holds
  BY DEF Holds
<1>2. \A j \in BagToSet(jobs) : JobOK(j)' /\ KeepsWord(j)'
  BY <1>1, Stays DEF WordInv, JobsOK, WordsKept
<1>3. JobOK(Job(plan))' /\ KeepsWord(Job(plan))'
  BY StartKeeps
<1>4. BagToSet(jobs') = BagToSet(jobs) \cup {Job(plan)}
  BY StartsIn
<1>q. QED BY <1>2, <1>3, <1>4 DEF JobsOK, WordsKept

\* And so does one that leaves the jobs alone.
LEMMA LeaveStep ==
    ASSUME WordInv, Grows, Holds, UNCHANGED jobs
    PROVE  JobsOK' /\ WordsKept'
BY Stays DEF WordInv, JobsOK, WordsKept

\* A step that only moves one job on keeps every word.
LEMMA OneStep ==
    ASSUME NEW j \in BagToSet(jobs), NEW k, WordInv, Grows, Holds,
           jobs' = Becomes(j, k), k.plan # <<>> => JobOK(k)' /\ KeepsWord(k)'
    PROVE  JobsOK' /\ WordsKept'
<1>1. \A i \in BagToSet(jobs) : JobOK(i)' /\ KeepsWord(i)'
  BY Stays DEF WordInv, JobsOK, WordsKept
<1>2. BagToSet(jobs') \subseteq BagToSet(jobs) \cup (IF k.plan = <<>> THEN {} ELSE {k})
  BY BecomesIn
<1>q. QED BY <1>1, <1>2 DEF JobsOK, WordsKept

\* A drain starts with all that is queued, as far as it is in memory.
LEMMA StartedIs ==
    ASSUME NEW p \in Partition, Shape
    PROVE  /\ Started(p) \in [stage : {"push", "pull"}, batch : Owed, upTo : Nat]
           /\ Started(p).stage = "pull" => Started(p).batch = {}
           /\ booted => Started(p).batch = queue[p]
           /\ Started(p).upTo = 0
<1>1. Live(p) \in Owed
  BY DEF Shape, Live, Owed
<1>q. QED BY <1>1 DEF Started, Live

\* outbox.drain keeps every word: a job that asks is in the drain that starts,
\* or in the one promised.
LEMMA AsksStep ==
    ASSUME NEW j \in BagToSet(jobs), NEW p \in Partition, WordInv, Asks(j, p),
           UNCHANGED <<act, queue, booted>>,
           Head(j.plan) = p \/ (p = "master" /\ Head(j.plan) = "rest")
    PROVE  JobsOK' /\ WordsKept' /\ BatchGone'
<1> DEFINE w(what) == [plan |-> j.plan, on |-> what,
                       owes |-> IF Head(j.plan) = "rest" THEN j.owes ELSE {}]
<1>1. Grows
  BY DEF Grows, WordInv, Shape
<1>2. JobOK(j) /\ KeepsWord(j)
  BY DEF WordInv, JobsOK, WordsKept
<1>3. Owed' = Owed /\ {} \in Owed
  BY DEF Owed
<1>4. ASSUME NEW what \in {"run", "follow"}
      PROVE  /\ JobOK(w(what))'
             /\ w(what).plan = j.plan /\ w(what).on = what
             /\ w(what).owes = IF Head(j.plan) = "rest" THEN j.owes ELSE {}
  <2>1. w(what) \in [plan : Seq(Steps), on : {"none", "run", "follow"}, owes : Owed]
    BY <1>2, <1>3 DEF JobOK
  <2>q. QED BY <1>2, <1>3, <2>1 DEF JobOK
<1>5. Shape /\ BatchGone
  BY DEF WordInv
<1>6. CASE run[p].stage = "idle"
  <2>1. run' = [run EXCEPT ![p] = Started(p)] /\ jobs' = Becomes(j, w("run"))
    BY <1>6 DEF Asks, Waits
  <2>2. run[p].batch = {}
    BY <1>5, <1>6 DEF BatchGone
  <2>3. /\ run'[p] = Started(p)
        /\ \A q \in Partition \ {p} : run'[q] = run[q]
    BY <2>1, <1>5 DEF Shape
  <2>4. Holds
    BY <2>2, <2>3 DEF Holds, Partition
  <2>5. BatchGone'
    BY <2>3, <1>5, StartedIs DEF BatchGone
  <2>6. KeepsWord(w("run"))'
    <3>1. Head(j.plan) = "rest" => p = "master"
      BY DEF Partition
    <3>2. Head(j.plan) = "rest" => (~booted => j.owes = {})
      BY <1>2 DEF KeepsWord
    <3>3. Head(j.plan) = "rest" /\ booted => run'["master"].batch = queue["master"]
      BY <3>1, <2>3, <1>5, StartedIs
    <3>4. Head(j.plan) = "rest" => j.owes \cap queue["master"] \subseteq run'["master"].batch
      BY <3>2, <3>3, <1>5 DEF Shape
    <3> HIDE DEF w
    <3>5. w("run").plan = j.plan /\ w("run").owes = IF Head(j.plan) = "rest" THEN j.owes ELSE {}
      BY <1>4
    <3>q. QED BY <3>2, <3>4, <3>5 DEF KeepsWord
  <2> HIDE DEF w
  <2>q. QED BY <2>1, <2>4, <2>5, <2>6, <1>1, <1>4, OneStep
<1>7. CASE run[p].stage # "idle"
  <2>1. run' = run /\ jobs' = Becomes(j, w("follow"))
    BY <1>7 DEF Asks, Waits
  <2>2. Holds /\ BatchGone'
    BY <2>1, <1>5 DEF Holds, BatchGone
  <2> HIDE DEF w
  <2>3. KeepsWord(w("follow"))'
    BY <1>2, <1>4 DEF KeepsWord
  <2>q. QED BY <2>1, <2>2, <2>3, <1>1, <1>4, OneStep
<1>q. QED BY <1>6, <1>7

\* A drain of master that ends well has had all it took answered; one that
\* fails takes the trip's drain with it.
LEMMA EndsStep ==
    ASSUME NEW p \in Partition, NEW ok \in BOOLEAN, WordInv, Ends(p, ok),
           ok => run[p].stage = "page", UNCHANGED <<act, queue, booted>>
    PROVE  JobsOK' /\ WordsKept' /\ BatchGone'
<1>1. Grows /\ Shape /\ BatchGone
  BY DEF Grows, WordInv, Shape
<1>2. /\ run'[p] = Idle
      /\ \A q \in Partition \ {p} : run'[q] = run[q]
  BY <1>1 DEF Ends, Shape
<1>3. BatchGone'
  BY <1>1, <1>2 DEF BatchGone, Idle
<1>4. ASSUME NEW j \in BagToSet(jobs), AfterEnd(j, p, ok).plan # <<>>
      PROVE  JobOK(AfterEnd(j, p, ok))' /\ KeepsWord(AfterEnd(j, p, ok))'
  <2>1. JobOK(j) /\ KeepsWord(j)
    BY DEF WordInv, JobsOK, WordsKept
  <2>2. CASE ~Awaits(j, "run", p)
    <3>1. AfterEnd(j, p, ok) = j
      BY <2>2 DEF AfterEnd
    <3>2. Head(j.plan) = "rest" /\ j.on = "run" => p # "master"
      BY <2>2 DEF Awaits, PartitionOf
    <3>3. p # "master" => run'["master"] = run["master"]
      BY <1>2 DEF Partition
    <3>4. Head(j.plan) = "rest" /\ j.on = "run" => Holds
      BY <3>2, <3>3 DEF Holds
    <3>q. QED BY <3>1, <3>4, <2>1, <1>1, Stays
  <2>3. CASE Awaits(j, "run", p) /\ ~ok /\ Head(j.plan) = "rest"
    <3>1. AfterEnd(j, p, ok) = StepsOn(StepsOn(j))
      BY <2>3 DEF AfterEnd
    <3>q. QED BY <3>1, <2>3, <2>1, <1>1, <1>4, GivesUp
  <2>4. CASE Awaits(j, "run", p) /\ ~(~ok /\ Head(j.plan) = "rest")
    <3>1. AfterEnd(j, p, ok) = StepsOn(j)
      BY <2>4 DEF AfterEnd
    <3>2. Head(j.plan) = "rest" => p = "master" /\ ok /\ j.on = "run"
      BY <2>4 DEF Awaits, PartitionOf
    <3>3. Head(j.plan) = "rest" => run["master"].batch = {}
      BY <3>2, <1>1 DEF BatchGone
    <3>4. Head(j.plan) = "rest" => j.owes \cap queue'["master"] = {}
      BY <3>2, <3>3, <2>1 DEF KeepsWord
    <3>q. QED BY <3>1, <3>4, <2>1, <1>1, <1>4, Moves
  <2>q. QED BY <2>2, <2>3, <2>4
<1>5. BagToSet(jobs') = {k \in {AfterEnd(j, p, ok) : j \in BagToSet(jobs)} : k.plan # <<>>}
  BY EndsIn
<1>q. QED BY <1>3, <1>4, <1>5 DEF JobsOK, WordsKept

\* The promised drain holds all that those who wait for it owe.
LEMMA FollowStep ==
    ASSUME NEW p \in Partition, WordInv, FollowUp(p)
    PROVE  JobsOK' /\ WordsKept' /\ BatchGone'
<1>1. Grows /\ Shape /\ BatchGone
  BY DEF Grows, WordInv, Shape, FollowUp
<1>2. run[p].stage = "idle" /\ run[p].batch = {}
  BY <1>1 DEF FollowUp, CanFollow, BatchGone
<1>3. /\ run'[p] = Started(p)
      /\ \A q \in Partition \ {p} : run'[q] = run[q]
  BY <1>1 DEF FollowUp, Shape
<1>4. BatchGone'
  BY <1>1, <1>3, StartedIs DEF BatchGone
<1>5. Holds
  BY <1>2, <1>3 DEF Holds, Partition
<1>6. ASSUME NEW j \in BagToSet(jobs)
      PROVE  JobOK(AfterStart(j, p))' /\ KeepsWord(AfterStart(j, p))'
  <2>1. JobOK(j) /\ KeepsWord(j)
    BY DEF WordInv, JobsOK, WordsKept
  <2>2. CASE ~Awaits(j, "follow", p)
    <3>1. AfterStart(j, p) = j
      BY <2>2 DEF AfterStart
    <3>q. QED BY <3>1, <2>1, <1>1, <1>5, Stays
  <2>3. CASE Awaits(j, "follow", p)
    <3> DEFINE k == [j EXCEPT !.on = "run"]
    <3>1. AfterStart(j, p) = k
      BY <2>3 DEF AfterStart
    <3>2. Owed' = Owed
      BY DEF Owed, FollowUp
    <3>3. /\ k \in [plan : Seq(Steps), on : {"none", "run", "follow"}, owes : Owed]
          /\ k.plan = j.plan /\ k.owes = j.owes /\ k.on = "run"
      BY <2>1 DEF JobOK
    <3> HIDE DEF k
    <3>4. JobOK(k)'
      BY <3>2, <3>3, <2>1 DEF JobOK
    <3>5. Head(j.plan) = "rest" => p = "master"
      BY <2>3 DEF Awaits, PartitionOf
    <3>6. Head(j.plan) = "rest" /\ booted => run'["master"].batch = queue["master"]
      BY <3>5, <1>1, <1>3, StartedIs
    <3>7. booted' = booted /\ queue' = queue
      BY DEF FollowUp
    <3>8. KeepsWord(k)'
      BY <3>3, <3>6, <3>7, <2>1, <1>1 DEF KeepsWord, Shape
    <3>q. QED BY <3>1, <3>4, <3>8
  <2>q. QED BY <2>2, <2>3
<1>7. BagToSet(jobs') = {k \in {AfterStart(j, p) : j \in BagToSet(jobs)} : k.plan # <<>>}
  BY FollowIn
<1>q. QED BY <1>4, <1>6, <1>7 DEF JobsOK, WordsKept

\* Every step keeps the shape.
LEMMA ShapeStep == Shape /\ Next => Shape'
<1> SUFFICES ASSUME Shape, Next PROVE Shape'
  OBVIOUS
<1>1. Len(act) \in Nat
  BY DEF Shape
<1>2. \A p \in Partition : Started(p) \in [stage : {"push", "pull"}, batch : Owed, upTo : Nat]
  BY StartedIs
<1>3. Idle \in [stage : {"idle"}, batch : Owed, upTo : Nat]
  BY DEF Idle, Owed
<1>4. None \in [Partition -> Nat]
  BY DEF None
<1>5. UNCHANGED act => Owed' = Owed
  BY DEF Owed
<1>6. ASSUME NEW j \in BagToSet(jobs), Drains(j) PROVE Shape'
  <2>1. PICK p \in Partition : Asks(j, p)
    BY <1>6 DEF Drains
  <2>q. QED BY <1>2, <1>5, <1>6, <2>1 DEF Drains, Asks, Shape, socket, server
<1>7. ASSUME NEW j \in BagToSet(jobs), WhenSent(j) PROVE Shape'
  BY <1>5, <1>7 DEF WhenSent, Shape, socket, server
<1>8. ASSUME NEW j \in BagToSet(jobs), WhenRestSent(j) PROVE Shape'
  BY <1>2, <1>5, <1>8 DEF WhenRestSent, LeftOver, Asks, Shape, socket, server, Partition
<1>9. ASSUME NEW j \in BagToSet(jobs), EachTrip(j) PROVE Shape'
  BY <1>5, <1>9 DEF EachTrip, Shape, socket, server
<1>10. ASSUME NEW j \in BagToSet(jobs), ConnectSocket(j) PROVE Shape'
  BY <1>5, <1>10 DEF ConnectSocket, Shape, server
<1>11. ASSUME NEW p \in Partition, FollowUp(p) PROVE Shape'
  BY <1>2, <1>5, <1>11 DEF FollowUp, Shape, socket, server
<1>12. ASSUME NEW p \in Partition, NEW mine \in BOOLEAN, Commits(p, mine)
       PROVE  /\ head' \in [Partition -> Nat] /\ notices' \in [Partition -> Nat]
              /\ missed' \in [Partition -> BOOLEAN]
  BY <1>12 DEF Commits, Shape
<1>13. ASSUME NEW p \in Partition, PushArrives(p) PROVE Shape'
  <2>1. /\ head' \in [Partition -> Nat] /\ notices' \in [Partition -> Nat]
        /\ missed' \in [Partition -> BOOLEAN]
    BY <1>12, <1>13 DEF PushArrives, Shape
  <2>2. run' \in [Partition -> [stage : {"idle", "push", "answer", "pull", "page"},
                                batch : Owed, upTo : Nat]]
    BY <1>13 DEF PushArrives, Shape, Reaches
  <2>q. QED BY <1>5, <1>13, <2>1, <2>2 DEF PushArrives, Shape
<1>14. ASSUME NEW p \in Partition, PushAnswered(p) PROVE Shape'
  <2>1. queue' \in [Partition -> Owed]
    BY <1>14 DEF PushAnswered, Shape, Owed
  <2>2. run' \in [Partition -> [stage : {"idle", "push", "answer", "pull", "page"},
                                batch : Owed, upTo : Nat]]
    BY <1>14 DEF PushAnswered, Shape, Reaches, Owed
  <2>q. QED BY <1>5, <1>14, <2>1, <2>2 DEF PushAnswered, Shape, socket, server
<1>15. ASSUME NEW p \in Partition, PullServed(p) PROVE Shape'
  <2>1. run' \in [Partition -> [stage : {"idle", "push", "answer", "pull", "page"},
                                batch : Owed, upTo : Nat]]
    BY <1>15 DEF PullServed, Shape, Reaches
  <2>q. QED BY <1>5, <1>15, <2>1 DEF PullServed, Shape, socket, server
<1>16. ASSUME NEW p \in Partition, PullAnswered(p) PROVE Shape'
  BY <1>3, <1>5, <1>16 DEF PullAnswered, Ends, Shape, socket, server
<1>17. ASSUME NEW p \in Partition, RequestFails(p) PROVE Shape'
  <2>1. missed' \in [Partition -> BOOLEAN]
    BY <1>17, Zenon DEF RequestFails
  <2>q. QED BY <1>3, <1>5, <1>17, <2>1 DEF RequestFails, Ends, Shape, socket, server
<1>18. ASSUME NEW p \in Partition, NEW mine \in BOOLEAN, ForeignCommit(p, mine) PROVE Shape'
  BY <1>5, <1>12, <1>18 DEF ForeignCommit, Shape, device
<1>19. ASSUME NEW p \in Partition, Notice(p) PROVE Shape'
  <2>1. notices' \in [Partition -> Nat]
    BY <1>19 DEF Notice, Shape
  <2>q. QED BY <1>5, <1>19, <2>1 DEF Notice, Shape, server
<1>20. ASSUME NEW ps, AsksAgain(ps) PROVE missed' \in [Partition -> BOOLEAN]
  BY <1>20 DEF AsksAgain
<1>21. ASSUME NEW kind \in {"master", "trip", "both"}, Writes(kind) PROVE Shape'
  <2>1. act' \in Seq({"master", "trip", "both"}) /\ Len(act') = Len(act) + 1
    BY <1>21 DEF Writes, Shape
  <2>2. Owed \subseteq Owed' /\ \A S \in Owed : S \cup {Len(act')} \in Owed'
    <3> DEFINE n == Len(act)
               m == Len(act')
    <3>1. n \in Nat /\ m = n + 1
      BY <1>1, <2>1
    <3> HIDE DEF n, m
    <3>2. 1 .. n \subseteq 1 .. m /\ m \in 1 .. m
      BY <3>1
    <3>q. QED BY <3>2 DEF Owed, n, m
  <2>3. queue' \in [Partition -> Owed']
    BY <1>21, <2>2 DEF Writes, Shape
  <2>4. run' \in [Partition -> [stage : {"idle", "push", "answer", "pull", "page"},
                                batch : Owed', upTo : Nat]]
    BY <1>21, <2>2 DEF Writes, Shape
  <2>q. QED BY <1>21, <2>1, <2>3, <2>4 DEF Writes, Shape, socket, server
<1>22. ASSUME Boot PROVE Shape'
  BY <1>5, <1>20, <1>22 DEF Boot, Shape, socket, server
<1>23. ASSUME OpenTrip PROVE Shape'
  BY <1>5, <1>20, <1>23 DEF OpenTrip, Shape, server
<1>24. ASSUME Resume PROVE Shape'
  BY <1>5, <1>20, <1>24 DEF Resume, Shape, server
<1>25. ASSUME SocketOpens PROVE Shape'
  BY <1>5, <1>20, <1>25 DEF SocketOpens, Shape, server
<1>26. ASSUME HubRegisters \/ HubSubscribes \/ SocketCloses \/ Redials PROVE Shape'
  BY <1>5, <1>26 DEF HubRegisters, HubSubscribes, SocketCloses, Redials, Shape, device, server
<1>27. ASSUME ConnectionLost PROVE Shape'
  <2>1. missed' \in [Partition -> BOOLEAN]
    BY <1>27, Zenon DEF ConnectionLost
  <2>q. QED BY <1>4, <1>5, <1>27, <2>1 DEF ConnectionLost, Shape, device, server
<1>28. ASSUME Restarts PROVE Shape'
  BY <1>3, <1>4, <1>5, <1>28 DEF Restarts, Shape, server
<1>q. QED
  BY <1>6, <1>7, <1>8, <1>9, <1>10, <1>11, <1>13, <1>14, <1>15, <1>16, <1>17, <1>18, <1>19,
     <1>21, <1>22, <1>23, <1>24, <1>25, <1>26, <1>27, <1>28 DEF Next, Micro

\* Every step keeps every word.
LEMMA WordStep == WordInv /\ Next => WordInv'
<1> SUFFICES ASSUME WordInv, Next PROVE WordInv'
  OBVIOUS
<1>1. Shape'
  BY ShapeStep DEF WordInv
<1>2. Shape /\ BatchGone
  BY DEF WordInv
<1>3. UNCHANGED <<act, queue>> /\ (booted => booted') => Grows
  BY <1>2 DEF Grows, Shape
<1>4. UNCHANGED run => Holds /\ BatchGone'
  BY <1>2 DEF Holds, BatchGone
<1>5. \A j \in BagToSet(jobs) : JobOK(j) /\ KeepsWord(j)
  BY DEF WordInv, JobsOK, WordsKept
<1> DEFINE Goal == JobsOK' /\ WordsKept' /\ BatchGone'
<1>6. ASSUME NEW j \in BagToSet(jobs), Drains(j) PROVE Goal
  <2>1. PICK p \in Partition : Takes(j, p) /\ Asks(j, p)
    BY <1>6 DEF Drains
  <2>2. Head(j.plan) = p
    BY <2>1 DEF Takes
  <2>3. UNCHANGED <<act, queue, booted>>
    BY <1>6 DEF Drains
  <2>q. QED BY <2>1, <2>2, <2>3, AsksStep
<1>7. ASSUME NEW j \in BagToSet(jobs), WhenSent(j) PROVE Goal
  <2>0. PICK live : live = Live("master")
    OBVIOUS
  <2> DEFINE a(on) == [plan |-> j.plan, on |-> on, owes |-> live]
  <2>k. PICK k : k = IF run["master"].stage = "idle" THEN StepsOn(a("none")) ELSE a("run")
    OBVIOUS
  <2>1. jobs' = Becomes(j, k) /\ Head(j.plan) = "sent" /\ UNCHANGED <<act, queue, run, booted>>
    BY <1>7, <2>0, <2>k DEF WhenSent, Takes
  <2>2. Grows /\ Holds /\ BatchGone' /\ JobOK(j)
    BY <2>1, <1>3, <1>4, <1>5
  <2>3. live \in Owed /\ (~booted => live = {})
    BY <1>2, <2>0 DEF Shape, Live, Owed, Partition
  <2>4. ASSUME NEW on \in {"none", "run"}
        PROVE  /\ JobOK(a(on)) /\ KeepsWord(a(on))
               /\ a(on).plan = j.plan /\ a(on).owes = live
    <3>1. a(on) \in [plan : Seq(Steps), on : {"none", "run", "follow"}, owes : Owed]
      BY <2>2, <2>3 DEF JobOK
    <3>2. a(on).plan = j.plan /\ a(on).owes = live
      OBVIOUS
    <3> HIDE DEF a
    <3>q. QED BY <2>1, <2>2, <2>3, <3>1, <3>2 DEF JobOK, KeepsWord
  <2>5. k.plan # <<>> => JobOK(k)' /\ KeepsWord(k)'
    <3>1. CASE run["master"].stage = "idle"
      <4>1. k = StepsOn(a("none"))
        BY <3>1, <2>k
      <4>2. JobOK(a("none")) /\ KeepsWord(a("none")) /\ Head(a("none").plan) = "sent"
        BY <2>1, <2>4
      <4> HIDE DEF a
      <4>q. QED BY <4>1, <4>2, <2>2, <1>2, Moves
    <3>2. CASE run["master"].stage # "idle"
      <4>1. k = a("run")
        BY <3>2, <2>k
      <4>2. JobOK(a("run")) /\ KeepsWord(a("run"))
        BY <2>4
      <4> HIDE DEF a
      <4>q. QED BY <4>1, <4>2, <2>2, <1>2, Stays
    <3>q. QED BY <3>1, <3>2
  <2>q. QED BY <2>1, <2>2, <2>5, OneStep
<1>8. ASSUME NEW j \in BagToSet(jobs), WhenRestSent(j) PROVE Goal
  <2>1. Head(j.plan) = "rest" /\ UNCHANGED <<act, queue, booted>> /\ LeftOver(j)
    BY <1>8 DEF WhenRestSent, Takes
  <2>2. CASE Live("master") = {}
    <3>1. jobs' = Becomes(j, StepsOn(j)) /\ UNCHANGED run
      BY <2>1, <2>2 DEF LeftOver
    <3>2. Grows /\ Holds /\ BatchGone'
      BY <2>1, <3>1, <1>3, <1>4
    <3>3. j.owes \cap queue'["master"] = {}
      BY <2>1, <2>2, <1>5 DEF Live, KeepsWord
    <3>4. StepsOn(j).plan # <<>> => JobOK(StepsOn(j))' /\ KeepsWord(StepsOn(j))'
      BY <3>2, <3>3, <1>2, <1>5, Moves
    <3>q. QED BY <3>1, <3>2, <3>4, OneStep
  <2>3. CASE Live("master") # {}
    <3>1. Asks(j, "master")
      BY <2>1, <2>3 DEF LeftOver
    <3>q. QED BY <3>1, <2>1, AsksStep DEF Partition
  <2>q. QED BY <2>2, <2>3
<1>9. ASSUME NEW j \in BagToSet(jobs), EachTrip(j) PROVE Goal
  <2>k. PICK k : k = [j EXCEPT !.plan = SubscribedTrips \o Tail(j.plan)]
    OBVIOUS
  <2>1. /\ jobs' = Becomes(j, k) /\ Head(j.plan) = "trips"
        /\ UNCHANGED <<act, queue, run, booted>>
    BY <1>9, <2>k DEF EachTrip, Takes
  <2>2. Grows /\ Holds /\ BatchGone' /\ JobOK(j) /\ KeepsWord(j) /\ Owed' = Owed
    BY <2>1, <1>3, <1>4, <1>5 DEF Owed
  <2>3. Whole(SubscribedTrips \o Tail(j.plan))
    <3>1. Linked(j.plan) /\ j.plan # <<>> /\ j.plan[1] = "trips"
      BY <2>1, <2>2 DEF JobOK
    <3>2. Whole(Tail(j.plan))
      BY <3>1, TailLinked
    <3>q. QED BY <3>2, PlansWhole, WholeConcat
  <2>4. /\ k.plan = SubscribedTrips \o Tail(j.plan) /\ k.owes = j.owes
        /\ k \in [plan : Seq(Steps), on : {"none", "run", "follow"}, owes : Owed]
    BY <2>2, <2>3, <2>k DEF JobOK, Whole, Linked
  <2>5. k.plan # <<>> => JobOK(k)' /\ KeepsWord(k)'
    <3>1. k.plan # <<>> => Head(k.plan) = k.plan[1] /\ k.plan[1] \notin {"rest", "trip"}
      BY <2>3, <2>4 DEF Whole
    <3>2. k.plan # <<>> => JobOK(k)'
      BY <2>2, <2>3, <2>4 DEF JobOK, Whole
    <3>3. k.plan # <<>> => KeepsWord(k)'
      BY <2>1, <2>2, <2>4, <3>1 DEF KeepsWord
    <3>q. QED BY <3>2, <3>3
  <2>q. QED BY <2>1, <2>2, <2>5, OneStep
<1>10. ASSUME NEW j \in BagToSet(jobs), ConnectSocket(j) PROVE Goal
  <2>1. /\ jobs' = Becomes(j, StepsOn(j)) /\ Head(j.plan) = "ws"
        /\ UNCHANGED <<act, queue, run, booted>>
    BY <1>10 DEF ConnectSocket, Takes
  <2>2. Grows /\ Holds /\ BatchGone'
    BY <2>1, <1>3, <1>4
  <2>3. StepsOn(j).plan # <<>> => JobOK(StepsOn(j))' /\ KeepsWord(StepsOn(j))'
    BY <2>1, <2>2, <1>2, <1>5, Moves
  <2>q. QED BY <2>1, <2>2, <2>3, OneStep
<1>11. ASSUME NEW p \in Partition, FollowUp(p) PROVE Goal
  BY <1>11, FollowStep
<1>12. ASSUME NEW p \in Partition, PushArrives(p) PROVE Goal
  <2>1. UNCHANGED <<act, queue, jobs, booted>>
    BY <1>12 DEF PushArrives
  <2>2. /\ run'[p].stage = "answer" /\ run'[p].batch = run[p].batch
        /\ \A q \in Partition \ {p} : run'[q] = run[q]
    BY <1>2, <1>12 DEF PushArrives, Reaches, Shape
  <2>3. Grows /\ Holds /\ BatchGone'
    BY <2>1, <2>2, <1>2, <1>3 DEF Holds, BatchGone, Partition
  <2>q. QED BY <2>1, <2>3, LeaveStep
<1>13. ASSUME NEW p \in Partition, PushAnswered(p) PROVE Goal
  <2>1. UNCHANGED <<act, jobs, booted>>
    BY <1>13 DEF PushAnswered
  <2>2. /\ run'[p].stage = "pull" /\ run'[p].batch = {}
        /\ \A q \in Partition \ {p} : run'[q] = run[q]
        /\ queue'[p] = queue[p] \ run[p].batch
        /\ \A q \in Partition \ {p} : queue'[q] = queue[q]
    BY <1>2, <1>13 DEF PushAnswered, Reaches, Shape
  <2>3. Grows
    BY <2>1, <2>2, <1>2 DEF Grows, Shape, Partition
  <2>4. Holds /\ BatchGone'
    BY <2>2, <1>2 DEF Holds, BatchGone, Partition
  <2>q. QED BY <2>1, <2>3, <2>4, LeaveStep
<1>14. ASSUME NEW p \in Partition, PullServed(p) PROVE Goal
  <2>1. UNCHANGED <<act, queue, jobs, booted>>
    BY <1>14 DEF PullServed
  <2>2. /\ run[p].stage = "pull" /\ run'[p].batch = run[p].batch
        /\ \A q \in Partition \ {p} : run'[q] = run[q]
    BY <1>2, <1>14 DEF PullServed, Reaches, Shape
  <2>3. Grows /\ Holds /\ BatchGone'
    BY <2>1, <2>2, <1>2, <1>3 DEF Holds, BatchGone, Partition
  <2>q. QED BY <2>1, <2>3, LeaveStep
<1>15. ASSUME NEW p \in Partition, PullAnswered(p) PROVE Goal
  BY <1>15, EndsStep DEF PullAnswered
<1>16. ASSUME NEW p \in Partition, RequestFails(p) PROVE Goal
  BY <1>16, EndsStep DEF RequestFails
<1>17. ASSUME NEW p \in Partition, NEW mine \in BOOLEAN, ForeignCommit(p, mine) PROVE Goal
  BY <1>3, <1>4, <1>17, LeaveStep DEF ForeignCommit, device
<1>18. DrainMaster # <<>> /\ DrainTrip # <<>> /\ CatchUp # <<>> /\ DrainMaster \o DrainTrip # <<>>
  BY DEF DrainMaster, DrainTrip, CatchUp
<1>19. ASSUME NEW p \in Partition, Notice(p) PROVE Goal
  BY <1>3, <1>4, <1>18, <1>19, PlansWhole, StartStep DEF Notice
<1>20. ASSUME NEW kind \in {"master", "trip", "both"}, Writes(kind) PROVE Goal
  <2>1. Grows
    <3>1. act' = Append(act, kind) /\ booted' = booted
      BY <1>20 DEF Writes
    <3>2. /\ act' \in Seq({"master", "trip", "both"}) /\ Len(act') = Len(act) + 1
          /\ Len(act) \in Nat
      BY <1>2, <3>1 DEF Shape
    <3>3. queue'["master"] \subseteq queue["master"] \cup {Len(act')}
      BY <1>20 DEF Writes, Partition
    <3>q. QED BY <3>1, <3>2, <3>3 DEF Grows
  <2>2. PICK plan \in {DrainMaster, DrainTrip, DrainMaster \o DrainTrip} : Starts(plan)
    BY <1>20 DEF Writes
  <2>3. UNCHANGED run
    BY <1>20 DEF Writes
  <2>q. QED BY <2>1, <2>2, <2>3, <1>4, <1>18, PlansWhole, StartStep
<1>21. ASSUME Boot PROVE Goal
  <2> DEFINE plan == Restored \o <<"ws">> \o DrainMaster
  <2>1. UNCHANGED <<act, queue, run>> /\ Starts(plan) /\ booted'
    BY <1>21 DEF Boot
  <2>2. Whole(plan)
    BY PlansWhole
  <2>3. plan # <<>>
    <3>1. Restored \in Seq(Steps)
      <4>1. DrainMaster \in Seq(Steps) /\ DrainTrip \in Seq(Steps)
        BY DEF DrainMaster, DrainTrip, Steps
      <4>q. QED BY <4>1 DEF Restored
    <3>2. DrainMaster \in Seq(Steps) /\ DrainMaster # <<>> /\ <<"ws">> \in Seq(Steps)
      BY DEF DrainMaster, Steps
    <3>q. QED BY <3>1, <3>2
  <2> HIDE DEF plan
  <2>q. QED BY <2>1, <2>2, <2>3, <1>3, <1>4, StartStep
<1>22. ASSUME OpenTrip PROVE Goal
  BY <1>3, <1>4, <1>18, <1>22, PlansWhole, StartStep DEF OpenTrip
<1>23. ASSUME Resume PROVE Goal
  BY <1>3, <1>4, <1>18, <1>23, PlansWhole, StartStep DEF Resume
<1>24. ASSUME SocketOpens PROVE Goal
  <2>1. UNCHANGED <<act, queue, run, booted>> /\ (Starts(CatchUp) \/ UNCHANGED jobs)
    BY <1>24 DEF SocketOpens
  <2>2. Grows /\ Holds /\ BatchGone'
    BY <2>1, <1>3, <1>4
  <2>3. CASE Starts(CatchUp)
    BY <2>1, <2>2, <2>3, <1>18, PlansWhole, StartStep
  <2>4. CASE UNCHANGED jobs
    BY <2>2, <2>4, LeaveStep
  <2>q. QED BY <2>1, <2>3, <2>4
<1>25. ASSUME HubRegisters \/ HubSubscribes \/ SocketCloses \/ Redials \/ ConnectionLost PROVE Goal
  BY <1>3, <1>4, <1>25, LeaveStep
     DEF HubRegisters, HubSubscribes, SocketCloses, Redials, ConnectionLost, device
<1>26. ASSUME Restarts PROVE Goal
  <2>1. BagToSet(jobs') = {} /\ run' = [p \in Partition |-> Idle]
    BY <1>26, EmptyIn DEF Restarts
  <2>q. QED BY <2>1 DEF JobsOK, WordsKept, BatchGone, Idle
<1>27. Goal
  BY <1>6, <1>7, <1>8, <1>9, <1>10, <1>11, <1>12, <1>13, <1>14, <1>15, <1>16, <1>17, <1>19,
     <1>20, <1>21, <1>22, <1>23, <1>24, <1>25, <1>26 DEF Next, Micro
<1>q. QED BY <1>1, <1>27 DEF WordInv

\* The words are kept from the start.
LEMMA WordInit == Init => WordInv
<1> SUFFICES ASSUME Init PROVE WordInv
  OBVIOUS
<1>1. BagToSet(jobs) = {}
  BY EmptyIn DEF Init
<1>2. act \in Seq({"master", "trip", "both"}) /\ {} \in Owed
  BY DEF Init, Owed
<1>3. Shape
  BY <1>2 DEF Init, Shape, Idle, None
<1>q. QED BY <1>1, <1>3 DEF Init, WordInv, JobsOK, WordsKept, BatchGone, Idle

\* A step that changes nothing keeps it.
LEMMA WordStutter == WordInv /\ UNCHANGED vars => WordInv'
BY DEF WordInv, Shape, JobsOK, JobOK, BatchGone, WordsKept, KeepsWord, Owed, vars, device, socket, server

\* So every word is kept, always.
LEMMA WordAlways == Spec => []WordInv
<1>1. WordInv /\ [Next]_vars => WordInv'
  BY WordStep, WordStutter
<1>q. QED BY WordInit, <1>1, PTL DEF Spec

\* whenSent keeps its word (outbox.ts:217-229), for every number of writes,
\* faults and jobs.
THEOREM BackendWhenSentIsSent == Spec => []WhenSentIsSent
<1>1. WordInv => WhenSentIsSent
  BY DEF WordInv, WordsKept, KeepsWord, WhenSentIsSent, Takes
<1>q. QED BY WordAlways, <1>1, PTL

----------------------------------------------------------------------------
(* A device at rest is current *)

\* A step that remains still does when another one was taken.
LEMMA RemainsOn ==
    ASSUME NEW j, JobOK(j), NEW step, Remains(j, step), j.on # "none" \/ Head(j.plan) # step
    PROVE  StepsOn(j).plan # <<>> /\ Remains(StepsOn(j), step)
<1>1. j.plan \in Seq(Steps) /\ j.plan # <<>> /\ Len(j.plan) \in Nat
  BY DEF JobOK
<1>2. PICK i \in 1 .. Len(j.plan) : j.plan[i] = step /\ (i > 1 \/ j.on = "none")
  BY DEF Remains
<1>3. i > 1
  BY <1>1, <1>2
<1>4. StepsOn(j).plan = Tail(j.plan) /\ StepsOn(j).on = "none"
  BY DEF StepsOn
<1>5. /\ Len(Tail(j.plan)) = Len(j.plan) - 1 /\ i - 1 \in 1 .. Len(Tail(j.plan))
      /\ Tail(j.plan)[i - 1] = j.plan[i]
  BY <1>1, <1>2, <1>3
<1>6. Tail(j.plan) # <<>>
  BY <1>1, <1>5
<1>q. QED BY <1>2, <1>4, <1>5, <1>6 DEF Remains

\* So a job that moves on seeks what it sought, but for the step it took.
LEMMA SeeksOn ==
    ASSUME NEW j, JobOK(j), NEW q \in Partition, Seeks(j, q), UNCHANGED opened,
           j.on # "none" \/ Head(j.plan) \notin Partition \cup {"trips"}
    PROVE  StepsOn(j).plan # <<>> /\ Seeks(StepsOn(j), q)'
<1>1. CASE Remains(j, q)
  <2>1. j.on # "none" \/ Head(j.plan) # q
    OBVIOUS
  <2>q. QED BY <1>1, <2>1, RemainsOn DEF Seeks, Remains
<1>2. CASE q = "trip" /\ opened /\ Remains(j, "trips")
  <2>1. j.on # "none" \/ Head(j.plan) # "trips"
    OBVIOUS
  <2>q. QED BY <1>2, <2>1, RemainsOn DEF Seeks, Remains
<1>q. QED BY <1>1, <1>2 DEF Seeks

\* What jobs seek is sought when one of them moves, if the moved one seeks it still.
LEMMA OneSeeks ==
    ASSUME NEW j \in BagToSet(jobs), NEW k, jobs' = Becomes(j, k), UNCHANGED opened,
           NEW q \in Partition, Sought(q), Seeks(j, q) => k.plan # <<>> /\ Seeks(k, q)'
    PROVE  Sought(q)'
<1>1. PICK i \in BagToSet(jobs) : Seeks(i, q)
  BY DEF Sought
<1>2. Seeks(i, q)'
  BY <1>1 DEF Seeks, Remains
<1>3. /\ BagToSet(jobs) \ {j} \subseteq BagToSet(jobs')
      /\ k.plan # <<>> => k \in BagToSet(jobs')
  BY BecomesIn
<1>4. CASE i = j
  <2>1. k \in BagToSet(jobs') /\ Seeks(k, q)'
    BY <1>1, <1>3, <1>4
  <2>q. QED BY <2>1 DEF Sought
<1>5. CASE i # j
  BY <1>2, <1>3, <1>5 DEF Sought
<1>q. QED BY <1>4, <1>5

\* A step of a job leaves what was due due.
LEMMA Onward ==
    ASSUME NEW q \in Partition, Reached(q), NotAhead(q),
           UNCHANGED <<missed, notices, cursor, head>>,
           run'[q] = run[q] \/ run'[q].stage \in {"push", "answer", "pull"},
           follow[q] => Due(q)', Sought(q) => Due(q)'
    PROVE  Reached(q)' /\ NotAhead(q)'
BY DEF Reached, NotAhead, Due

\* A drain that was asked for is due.
LEMMA AsksDue ==
    ASSUME NEW j \in BagToSet(jobs), NEW p \in Partition, WordInv, Asks(j, p), UNCHANGED opened,
           j.on = "none", Head(j.plan) = p \/ (p = "master" /\ Head(j.plan) = "rest"),
           NEW q \in Partition
    PROVE  /\ run'[q] = run[q] \/ run'[q].stage \in {"push", "answer", "pull"}
           /\ follow[q] => Due(q)'
           /\ Sought(q) => Due(q)'
<1>1. Shape
  BY DEF WordInv
<1>2. /\ run'[p] = run[p] \/ run'[p].stage \in {"push", "answer", "pull"}
      /\ follow'[p] \/ run'[p].stage \in {"push", "answer", "pull"}
      /\ q # p => run'[q] = run[q] /\ follow'[q] = follow[q]
  BY <1>1, StartedIs DEF Asks, Shape
<1>3. CASE q = p
  BY <1>2, <1>3 DEF Due
<1>4. CASE q # p
  <2>1. PICK what \in {"run", "follow"} : jobs' = Waits(j, what)
    BY DEF Asks
  <2> DEFINE k == [plan |-> j.plan, on |-> what,
                   owes |-> IF Head(j.plan) = "rest" THEN j.owes ELSE {}]
  <2>2. jobs' = Becomes(j, k) /\ k.plan = j.plan
    BY <2>1 DEF Waits
  <2> HIDE DEF k
  <2>3. JobOK(j)
    BY DEF WordInv, JobsOK
  <2>4. j.plan # <<>> /\ Head(j.plan) = j.plan[1]
    BY <2>3 DEF JobOK
  <2>5. ASSUME NEW step, step # p, step # "rest", Remains(j, step) PROVE Remains(k, step)
    BY <2>2, <2>4, <2>5 DEF Remains
  <2>6. Seeks(j, q) => Seeks(k, q)'
    <3>1. Remains(j, q) => Remains(k, q)
      BY <1>4, <2>5 DEF Partition
    <3>2. Remains(j, "trips") => Remains(k, "trips")
      BY <2>5 DEF Partition
    <3>q. QED BY <3>1, <3>2 DEF Seeks, Remains
  <2>7. Sought(q) => Sought(q)'
    BY <2>2, <2>4, <2>6, OneSeeks
  <2>q. QED BY <1>2, <1>4, <2>7 DEF Due
<1>q. QED BY <1>3, <1>4

\* A drain that ends costs the jobs that await it no more than the step it
\* was; only a failure in the rest of whenSent costs the trip's drain too.
LEMMA EndsSought ==
    ASSUME NEW p \in Partition, NEW ok \in BOOLEAN, WordInv, Ends(p, ok), UNCHANGED opened,
           NEW q \in Partition, Sought(q),
           ok \/ \A j \in BagToSet(jobs) : ~(Awaits(j, "run", p) /\ Head(j.plan) = "rest")
    PROVE  Sought(q)'
<1>1. PICK j \in BagToSet(jobs) : Seeks(j, q)
  BY DEF Sought
<1>2. JobOK(j)
  BY DEF WordInv, JobsOK
<1>3. AfterEnd(j, p, ok).plan # <<>> /\ Seeks(AfterEnd(j, p, ok), q)'
  <2>1. CASE Awaits(j, "run", p)
    <3>1. AfterEnd(j, p, ok) = StepsOn(j)
      BY <2>1 DEF AfterEnd
    <3>2. j.on # "none"
      BY <2>1 DEF Awaits
    <3>q. QED BY <3>1, <3>2, <1>1, <1>2, SeeksOn
  <2>2. CASE ~Awaits(j, "run", p)
    <3>1. AfterEnd(j, p, ok) = j
      BY <2>2 DEF AfterEnd
    <3>2. j.plan # <<>>
      BY <1>2 DEF JobOK
    <3>q. QED BY <3>1, <3>2, <1>1 DEF Seeks, Remains
  <2>q. QED BY <2>1, <2>2
<1>4. AfterEnd(j, p, ok) \in BagToSet(jobs')
  BY <1>3, EndsIn
<1>q. QED BY <1>3, <1>4 DEF Sought

\* The promised drain costs nobody a step.
LEMMA FollowSought ==
    ASSUME NEW p \in Partition, WordInv, FollowUp(p), NEW q \in Partition, Sought(q)
    PROVE  Sought(q)'
<1>1. PICK j \in BagToSet(jobs) : Seeks(j, q)
  BY DEF Sought
<1>2. JobOK(j)
  BY DEF WordInv, JobsOK
<1>3. UNCHANGED opened
  BY DEF FollowUp
<1>4. PICK k : k = AfterStart(j, p)
  OBVIOUS
<1>5. k.plan = j.plan /\ (j.on = "none" => k.on = "none")
  BY <1>2, <1>4 DEF AfterStart, Awaits, JobOK
<1>6. Seeks(k, q)'
  BY <1>1, <1>3, <1>5 DEF Seeks, Remains
<1>7. k \in BagToSet(jobs')
  BY <1>2, <1>4, <1>5, FollowIn DEF JobOK
<1>q. QED BY <1>6, <1>7 DEF Sought

\* A job that starts seeks what its plan names.
LEMMA StartSought ==
    ASSUME NEW plan, Starts(plan), NEW q \in Partition, NEW i \in 1 .. Len(plan),
           plan[i] = q \/ (q = "trip" /\ opened' /\ plan[i] = "trips")
    PROVE  Sought(q)'
<1>1. Job(plan).plan = plan /\ Job(plan).on = "none"
  BY DEF Job
<1>2. Seeks(Job(plan), q)'
  BY <1>1 DEF Seeks, Remains
<1>3. Job(plan) \in BagToSet(jobs')
  BY StartsIn
<1>q. QED BY <1>2, <1>3 DEF Sought

\* And the others seek on.
LEMMA StartSeeks ==
    ASSUME NEW plan, Starts(plan) \/ UNCHANGED jobs, opened => opened', NEW q \in Partition, Sought(q)
    PROVE  Sought(q)'
<1>1. PICK j \in BagToSet(jobs) : Seeks(j, q)
  BY DEF Sought
<1>2. Seeks(j, q)'
  BY <1>1 DEF Seeks, Remains
<1>3. j \in BagToSet(jobs')
  BY StartsIn
<1>q. QED BY <1>2, <1>3 DEF Sought

\* A step that starts a job, or none, leaves what is due due, and may forget a
\* missed commit of a partition that is due.
LEMMA StartReached ==
    ASSUME NEW q \in Partition, Reached(q), NotAhead(q), NEW plan, Starts(plan) \/ UNCHANGED jobs,
           opened => opened', UNCHANGED <<run, follow, cursor, head>>,
           missed[q] => missed'[q] \/ Sought(q)',
           notices[q] > 0 => notices'[q] > 0 \/ missed'[q] \/ Sought(q)'
    PROVE  Reached(q)' /\ NotAhead(q)'
<1>1. Sought(q) => Sought(q)'
  BY StartSeeks
<1>q. QED BY <1>1 DEF Reached, NotAhead, Due

\* A commit is told to the device or missed.
LEMMA CommitReached ==
    ASSUME NEW p \in Partition, NEW mine \in BOOLEAN, Shape, Commits(p, mine),
           NEW q \in Partition, Reached(q), NotAhead(q), UNCHANGED <<follow, cursor, jobs, opened>>,
           \/ run'[q] = run[q]
           \/ /\ run[q].stage = "push" /\ run'[q].stage = "answer"
    PROVE  Reached(q)' /\ NotAhead(q)'
<1>1. CASE q = p
  <2>1. head'[q] = head[q] + 1 /\ cursor'[q] = cursor[q] /\ head[q] \in Nat /\ cursor[q] \in Nat
    BY <1>1 DEF Commits, Shape
  <2>2. missed'[q] \/ notices'[q] > 0
    BY <1>1 DEF Commits, Shape
  <2>3. run[q].upTo \in Nat
    BY DEF Shape
  <2>q. QED BY <2>1, <2>2, <2>3 DEF Reached, NotAhead
<1>2. CASE q # p
  <2>1. head'[q] = head[q] /\ missed'[q] = missed[q] /\ notices'[q] = notices[q]
    BY <1>2 DEF Commits, Shape
  <2>2. Sought(q)' = Sought(q)
    BY DEF Sought, Seeks, Remains
  <2>q. QED BY <2>1, <2>2 DEF Reached, NotAhead, Due
<1>q. QED BY <1>1, <1>2

\* Every step leaves a device that was told of a commit on its way to it.
LEMMA CurrentStep == WordInv /\ CurrentInv /\ Next => CurrentInv'
<1> SUFFICES ASSUME WordInv, CurrentInv, Next, NEW q \in Partition
             PROVE  Reached(q)' /\ NotAhead(q)'
  BY DEF CurrentInv
<1>1. Shape /\ Reached(q) /\ NotAhead(q)
  BY DEF WordInv, CurrentInv
<1>2. \A j \in BagToSet(jobs) : JobOK(j)
  BY DEF WordInv, JobsOK
<1> DEFINE Goal == Reached(q)' /\ NotAhead(q)'
<1>3. ASSUME NEW j \in BagToSet(jobs), Drains(j) PROVE Goal
  <2>1. PICK p \in Partition : Takes(j, p) /\ Asks(j, p)
    BY <1>3 DEF Drains
  <2>2. j.on = "none" /\ Head(j.plan) = p
    BY <2>1 DEF Takes, CanRun
  <2>3. UNCHANGED <<missed, notices, cursor, head, opened>>
    BY <1>3 DEF Drains, socket, server
  <2>4. /\ run'[q] = run[q] \/ run'[q].stage \in {"push", "answer", "pull"}
        /\ follow[q] => Due(q)'
        /\ Sought(q) => Due(q)'
    BY <2>1, <2>2, <2>3, AsksDue
  <2>q. QED BY <1>1, <2>3, <2>4, Onward
<1>4. ASSUME NEW j \in BagToSet(jobs), NEW k, jobs' = Becomes(j, k),
             UNCHANGED <<run, follow, missed, notices, cursor, head, opened>>,
             Seeks(j, q) => k.plan # <<>> /\ Seeks(k, q)'
      PROVE  Goal
  <2>1. Sought(q) => Sought(q)'
    BY <1>4, OneSeeks
  <2>2. Sought(q) => Due(q)'
    BY <2>1 DEF Due
  <2>3. follow[q] => Due(q)'
    BY <1>4 DEF Due
  <2>q. QED BY <1>1, <1>4, <2>2, <2>3, Onward
<1>5. ASSUME NEW j \in BagToSet(jobs), WhenSent(j) PROVE Goal
  <2>0. PICK live : live = Live("master")
    OBVIOUS
  <2> DEFINE a(on) == [plan |-> j.plan, on |-> on, owes |-> live]
  <2>k. PICK k : k = IF run["master"].stage = "idle" THEN StepsOn(a("none")) ELSE a("run")
    OBVIOUS
  <2>1. /\ jobs' = Becomes(j, k) /\ Head(j.plan) = "sent" /\ j.on = "none"
        /\ UNCHANGED <<run, follow, missed, notices, cursor, head, opened>>
    BY <1>5, <2>0, <2>k DEF WhenSent, Takes, CanRun, socket, server
  <2>2. Seeks(j, q) => k.plan # <<>> /\ Seeks(k, q)'
    <3>1. CASE run["master"].stage = "idle"
      <4>1. k.plan = StepsOn(j).plan /\ k.on = "none" /\ StepsOn(j).on = "none"
        BY <3>1, <2>k DEF StepsOn
      <4>2. Seeks(j, q) => StepsOn(j).plan # <<>> /\ Seeks(StepsOn(j), q)'
        BY <1>2, <2>1, SeeksOn DEF Partition
      <4>q. QED BY <4>1, <4>2 DEF Seeks, Remains
    <3>2. CASE run["master"].stage # "idle"
      <4>1. k.plan = j.plan
        BY <3>2, <2>k
      <4>2. j.plan # <<>> /\ Head(j.plan) = j.plan[1]
        BY <1>2 DEF JobOK
      <4>3. ASSUME NEW step, step # "sent", Remains(j, step) PROVE Remains(k, step)
        BY <4>1, <4>2, <4>3, <2>1 DEF Remains
      <4>4. /\ Remains(j, q) => Remains(k, q)
            /\ Remains(j, "trips") => Remains(k, "trips")
        BY <4>3 DEF Partition
      <4>q. QED BY <4>1, <4>2, <4>4, <2>1 DEF Seeks, Remains
    <3>q. QED BY <3>1, <3>2
  <2>q. QED BY <2>1, <2>2, <1>4
<1>6. ASSUME NEW j \in BagToSet(jobs), WhenRestSent(j) PROVE Goal
  <2>1. /\ Head(j.plan) = "rest" /\ j.on = "none" /\ LeftOver(j)
        /\ UNCHANGED <<missed, notices, cursor, head, opened>>
    BY <1>6 DEF WhenRestSent, Takes, CanRun, socket, server
  <2>2. CASE Live("master") = {}
    <3>1. jobs' = Becomes(j, StepsOn(j)) /\ UNCHANGED <<run, follow>>
      BY <2>1, <2>2 DEF LeftOver
    <3>2. Seeks(j, q) => StepsOn(j).plan # <<>> /\ Seeks(StepsOn(j), q)'
      BY <1>2, <2>1, SeeksOn DEF Partition
    <3>q. QED BY <3>1, <3>2, <2>1, <1>4
  <2>3. CASE Live("master") # {}
    <3>1. Asks(j, "master")
      BY <2>1, <2>3 DEF LeftOver
    <3>2. /\ run'[q] = run[q] \/ run'[q].stage \in {"push", "answer", "pull"}
          /\ follow[q] => Due(q)'
          /\ Sought(q) => Due(q)'
      BY <3>1, <2>1, AsksDue DEF Partition
    <3>q. QED BY <1>1, <2>1, <3>2, Onward
  <2>q. QED BY <2>2, <2>3
<1>7. ASSUME NEW j \in BagToSet(jobs), EachTrip(j) PROVE Goal
  <2>0. PICK trips : trips = SubscribedTrips
    OBVIOUS
  <2>k. PICK k : k = [j EXCEPT !.plan = trips \o Tail(j.plan)]
    OBVIOUS
  <2>1. /\ jobs' = Becomes(j, k) /\ Head(j.plan) = "trips" /\ j.on = "none"
        /\ UNCHANGED <<run, follow, missed, notices, cursor, head, opened>>
    BY <1>7, <2>0, <2>k DEF EachTrip, Takes, CanRun, socket, server
  <2>2. /\ j.plan \in Seq(Steps) /\ j.plan # <<>> /\ trips \in Seq(Steps)
        /\ Len(trips) \in Nat /\ Len(j.plan) \in Nat /\ Len(j.plan) > 0
        /\ opened => Len(trips) = 3 /\ trips[3] = "trip"
    <3>1. j.plan \in Seq(Steps) /\ j.plan # <<>>
      BY <1>2 DEF JobOK
    <3>2. /\ DrainTrip \in Seq(Steps) /\ Len(DrainTrip) = 3 /\ DrainTrip[3] = "trip"
          /\ <<>> \in Seq(Steps)
      BY DEF DrainTrip, Steps
    <3>3. trips = IF opened THEN DrainTrip ELSE <<>>
      BY <2>0 DEF SubscribedTrips
    <3>4. trips \in Seq(Steps) /\ (opened => Len(trips) = 3 /\ trips[3] = "trip")
      BY <3>2, <3>3
    <3>5. Len(j.plan) \in Nat /\ Len(j.plan) > 0 /\ Len(trips) \in Nat
      BY <3>1, <3>4
    <3>q. QED BY <3>1, <3>4, <3>5
  <2>3. k.plan = trips \o Tail(j.plan) /\ k.on = "none"
    BY <2>1, <2>k, <1>2 DEF JobOK
  <2>4. /\ k.plan \in Seq(Steps) /\ Len(k.plan) = Len(trips) + (Len(j.plan) - 1)
        /\ \A i \in 1 .. Len(trips) : k.plan[i] = trips[i]
        /\ \A i \in 2 .. Len(j.plan) : k.plan[Len(trips) + i - 1] = j.plan[i]
    BY <2>2, <2>3
  <2>5. Remains(j, q) => Remains(k, q) /\ k.plan # <<>>
    <3> SUFFICES ASSUME Remains(j, q) PROVE Remains(k, q) /\ k.plan # <<>>
      OBVIOUS
    <3>1. PICK i \in 1 .. Len(j.plan) : j.plan[i] = q
      BY DEF Remains
    <3>2. i # 1
      BY <3>1, <2>1, <2>2 DEF Partition
    <3>3. Len(trips) + i - 1 \in 1 .. Len(k.plan) /\ k.plan[Len(trips) + i - 1] = q
      BY <3>1, <3>2, <2>2, <2>4
    <3>4. k.plan # <<>>
      BY <3>3, <2>4
    <3>q. QED BY <3>3, <3>4, <2>3 DEF Remains
  <2>6. opened => Remains(k, "trip") /\ k.plan # <<>>
    <3> SUFFICES ASSUME opened PROVE Remains(k, "trip") /\ k.plan # <<>>
      OBVIOUS
    <3>0. Len(trips) = 3 /\ trips[3] = "trip"
      BY <2>2, Zenon
    <3>1. 3 \in 1 .. Len(k.plan) /\ k.plan[3] = "trip"
      <4>0. 3 \in 1 .. Len(trips)
        BY <3>0
      <4>1. k.plan[3] = trips[3]
        BY <4>0, <2>4
      <4>2. 3 <= Len(k.plan) /\ Len(k.plan) \in Nat
        BY <3>0, <2>2, <2>4
      <4>q. QED BY <4>1, <4>2, <3>0
    <3>2. k.plan # <<>>
      BY <3>1, <2>4
    <3>q. QED BY <3>1, <3>2, <2>3 DEF Remains
  <2>7. Seeks(j, q) => k.plan # <<>> /\ Seeks(k, q)'
    BY <2>1, <2>5, <2>6 DEF Seeks, Remains
  <2>q. QED BY <2>1, <2>7, <1>4
<1>8. ASSUME NEW j \in BagToSet(jobs), ConnectSocket(j) PROVE Goal
  <2>1. /\ Head(j.plan) = "ws" /\ jobs' = Becomes(j, StepsOn(j))
        /\ UNCHANGED <<run, follow, missed, notices, cursor, head, opened>>
    BY <1>8 DEF ConnectSocket, Takes, server
  <2>2. Seeks(j, q) => StepsOn(j).plan # <<>> /\ Seeks(StepsOn(j), q)'
    BY <1>2, <2>1, SeeksOn DEF Partition
  <2>q. QED BY <2>1, <2>2, <1>4
<1>9. ASSUME NEW p \in Partition, FollowUp(p) PROVE Goal
  <2>1. UNCHANGED <<missed, notices, cursor, head>>
    BY <1>9 DEF FollowUp, socket, server
  <2>2. /\ run'[p].stage \in {"push", "answer", "pull"}
        /\ q # p => run'[q] = run[q] /\ follow'[q] = follow[q]
    BY <1>1, <1>9, StartedIs DEF FollowUp, Shape
  <2>3. Sought(q) => Due(q)'
    BY <1>9, FollowSought DEF Due
  <2>4. follow[q] => Due(q)'
    BY <2>2 DEF Due
  <2>q. QED BY <1>1, <2>1, <2>2, <2>3, <2>4, Onward
<1>10. ASSUME NEW p \in Partition, PushArrives(p) PROVE Goal
  <2>1. /\ run[p].stage = "push" /\ run'[p].stage = "answer"
        /\ \A r \in Partition \ {p} : run'[r] = run[r]
    BY <1>1, <1>10 DEF PushArrives, Reaches, Shape
  <2>2. UNCHANGED <<follow, cursor, jobs, opened>>
    BY <1>10 DEF PushArrives
  <2>3. UNCHANGED <<head, notices, missed>> \/ Commits(p, TRUE)
    BY <1>10 DEF PushArrives
  <2>4. CASE Commits(p, TRUE)
    BY <1>1, <2>1, <2>2, <2>4, CommitReached
  <2>5. CASE UNCHANGED <<head, notices, missed>>
    <3>1. Sought(q)' = Sought(q)
      BY <2>2 DEF Sought, Seeks, Remains
    <3>q. QED BY <1>1, <2>1, <2>2, <2>5, <3>1 DEF Reached, NotAhead, Due
  <2>q. QED BY <2>3, <2>4, <2>5
<1>11. ASSUME NEW p \in Partition, PushAnswered(p) PROVE Goal
  <2>1. /\ run[p].stage = "answer" /\ run'[p].stage = "pull"
        /\ \A r \in Partition \ {p} : run'[r] = run[r]
    BY <1>1, <1>11 DEF PushAnswered, Reaches, Shape
  <2>2. UNCHANGED <<follow, cursor, jobs, opened, head, notices, missed>>
    BY <1>11 DEF PushAnswered, socket, server
  <2>3. Sought(q)' = Sought(q)
    BY <2>2 DEF Sought, Seeks, Remains
  <2>q. QED BY <1>1, <2>1, <2>2, <2>3 DEF Reached, NotAhead, Due
<1>12. ASSUME NEW p \in Partition, PullServed(p) PROVE Goal
  <2>1. /\ run[p].stage = "pull" /\ run'[p].stage = "page" /\ run'[p].upTo = head[p]
        /\ \A r \in Partition \ {p} : run'[r] = run[r]
    BY <1>1, <1>12 DEF PullServed, Reaches, Shape
  <2>2. UNCHANGED <<follow, cursor, jobs, opened, head, notices, missed>>
    BY <1>12 DEF PullServed, socket, server
  <2>3. Sought(q)' = Sought(q)
    BY <2>2 DEF Sought, Seeks, Remains
  <2>4. head[p] \in Nat
    BY <1>1 DEF Shape
  <2>q. QED BY <1>1, <2>1, <2>2, <2>3, <2>4 DEF Reached, NotAhead, Due
<1>13. ASSUME NEW p \in Partition, PullAnswered(p) PROVE Goal
  <2>1. UNCHANGED <<follow, opened, head, notices, missed>> /\ Ends(p, TRUE)
    BY <1>13 DEF PullAnswered, socket, server
  <2>2. Sought(q) => Sought(q)'
    BY <2>1, EndsSought
  <2>3. /\ run[p].stage = "page" /\ run'[p].stage = "idle" /\ cursor'[p] = run[p].upTo
        /\ \A r \in Partition \ {p} : run'[r] = run[r] /\ cursor'[r] = cursor[r]
    BY <1>1, <1>13 DEF PullAnswered, Ends, Shape, Idle
  <2>4. CASE q # p
    BY <1>1, <2>1, <2>2, <2>3, <2>4 DEF Reached, NotAhead, Due
  <2>5. CASE q = p
    <3>1. cursor[q] <= run[q].upTo /\ run[q].upTo <= head[q]
      BY <1>1, <2>3, <2>5 DEF NotAhead
    <3>2. cursor[q] \in Nat /\ head[q] \in Nat /\ run[q].upTo \in Nat
      BY <1>1 DEF Shape
    <3>3. cursor[q] = head[q] => run[q].upTo = head[q]
      BY <3>1, <3>2
    <3>4. NotAhead(q)'
      BY <2>1, <2>3, <2>5, <3>1 DEF NotAhead
    <3>5. missed[q] \/ notices[q] > 0 \/ run[q].upTo = head[q] \/ follow[q] \/ Sought(q)
      BY <1>1, <2>3, <2>5, <3>3 DEF Reached, Due
    <3>6. missed'[q] \/ notices'[q] > 0 \/ cursor'[q] = head'[q] \/ follow'[q] \/ Sought(q)'
      BY <2>1, <2>2, <2>3, <2>5, <3>5
    <3>q. QED BY <3>4, <3>6 DEF Reached, Due
  <2>q. QED BY <2>4, <2>5
<1>14. ASSUME NEW p \in Partition, RequestFails(p) PROVE Goal
  <2>1. UNCHANGED <<follow, cursor, opened, head, notices>> /\ Ends(p, FALSE)
    BY <1>14 DEF RequestFails, socket, server
  <2> DEFINE lost == \E j \in BagToSet(jobs) : Awaits(j, "run", p) /\ Head(j.plan) = "rest"
  <2>2. missed'[q] = (missed[q] \/ q = p \/ lost)
    BY <1>14, Zenon DEF RequestFails
  <2>3. Sought(q) /\ ~lost => Sought(q)'
    BY <2>1, EndsSought
  <2> HIDE DEF lost
  <2>4. /\ run'[p].stage = "idle"
        /\ \A r \in Partition \ {p} : run'[r] = run[r]
    BY <1>1, <2>1 DEF Ends, Shape, Idle
  <2>5. NotAhead(q)'
    BY <1>1, <2>1, <2>4 DEF NotAhead
  <2>6. CASE q = p \/ lost \/ missed[q]
    BY <2>2, <2>5, <2>6 DEF Reached
  <2>7. CASE q # p /\ ~lost /\ ~missed[q]
    BY <1>1, <2>1, <2>3, <2>4, <2>5, <2>7 DEF Reached, Due
  <2>q. QED BY <2>6, <2>7
<1>15. ASSUME NEW p \in Partition, NEW mine \in BOOLEAN, ForeignCommit(p, mine) PROVE Goal
  <2>1. UNCHANGED <<run, follow, cursor, jobs, opened>> /\ Commits(p, mine)
    BY <1>15 DEF ForeignCommit, device
  <2>q. QED BY <1>1, <2>1, CommitReached
<1>16. /\ 1 \in 1 .. Len(DrainMaster) /\ DrainMaster[1] = "master"
       /\ 3 \in 1 .. Len(DrainTrip) /\ DrainTrip[3] = "trip"
       /\ 1 \in 1 .. Len(CatchUp) /\ CatchUp[1] = "master"
       /\ 2 \in 1 .. Len(CatchUp) /\ CatchUp[2] = "trips"
  BY DEF DrainMaster, DrainTrip, CatchUp
<1>17. ASSUME NEW p \in Partition, Notice(p) PROVE Goal
  <2>1. UNCHANGED <<run, follow, cursor, head, missed, opened>>
    BY <1>17 DEF Notice, server
  <2>2. Starts(IF p = "master" THEN DrainMaster ELSE DrainTrip)
    BY <1>17 DEF Notice
  <2>3. Sought(p)'
    BY <1>16, <2>2, StartSought DEF Partition
  <2>4. q # p => notices'[q] = notices[q]
    BY <1>1, <1>17 DEF Notice, Shape
  <2>5. notices[q] > 0 => notices'[q] > 0 \/ Sought(q)'
    BY <2>3, <2>4
  <2>q. QED BY <1>1, <2>1, <2>2, <2>5, StartReached
<1>18. ASSUME NEW kind \in {"master", "trip", "both"}, Writes(kind) PROVE Goal
  <2>1. UNCHANGED <<run, follow, cursor, head, missed, notices, opened>>
    BY <1>18 DEF Writes, socket, server
  <2>2. PICK plan : Starts(plan)
    BY <1>18 DEF Writes
  <2>q. QED BY <1>1, <2>1, <2>2, StartReached
<1>19. ASSUME NEW ps, AsksAgain(ps), missed[q], q \notin ps PROVE missed'[q]
  BY <1>19 DEF AsksAgain
<1>20. ASSUME Boot PROVE Goal
  <2> DEFINE plan == Restored \o <<"ws">> \o DrainMaster
  <2>1. UNCHANGED <<run, follow, cursor, head, notices, opened>> /\ Starts(plan)
    BY <1>20 DEF Boot, socket, server
  <2>2. Restored \in Seq(Steps) /\ DrainMaster = <<"master">>
    <3>1. DrainMaster \in Seq(Steps) /\ DrainTrip \in Seq(Steps)
      BY DEF DrainMaster, DrainTrip, Steps
    <3>q. QED BY <3>1 DEF Restored, DrainMaster
  <2>3. Len(Restored) + 2 \in 1 .. Len(plan) /\ plan[Len(Restored) + 2] = "master"
    BY <2>2
  <2> HIDE DEF plan
  <2>4. Sought("master")'
    BY <2>1, <2>3, StartSought DEF Partition
  <2>5. missed[q] => missed'[q] \/ Sought(q)'
    BY <1>19, <1>20, <2>4 DEF Boot, Partition
  <2>q. QED BY <1>1, <2>1, <2>5, StartReached
<1>21. ASSUME OpenTrip PROVE Goal
  <2>1. /\ UNCHANGED <<run, follow, cursor, head, notices>> /\ Starts(DrainTrip)
        /\ opened => opened'
    BY <1>21 DEF OpenTrip, server
  <2>2. Sought("trip")'
    BY <1>16, <2>1, StartSought DEF Partition
  <2>3. missed[q] => missed'[q] \/ Sought(q)'
    BY <1>19, <1>21, <2>2 DEF OpenTrip, Partition
  <2>q. QED BY <1>1, <2>1, <2>3, StartReached
<1>22. ASSUME Starts(CatchUp), AsksAgain(IF opened THEN Partition ELSE {"master"}), UNCHANGED opened
       PROVE  missed[q] => missed'[q] \/ Sought(q)'
  <2>1. Sought("master")'
    BY <1>16, <1>22, StartSought DEF Partition
  <2>2. opened => Sought("trip")'
    BY <1>16, <1>22, StartSought DEF Partition
  <2>3. ~opened => (missed[q] /\ q # "master" => missed'[q])
    BY <1>19, <1>22
  <2>q. QED BY <2>1, <2>2, <2>3 DEF Partition
<1>23. ASSUME Resume PROVE Goal
  <2>1. UNCHANGED <<run, follow, cursor, head, notices, opened>> /\ Starts(CatchUp)
    BY <1>23 DEF Resume, server
  <2>2. missed[q] => missed'[q] \/ Sought(q)'
    BY <1>22, <1>23, <2>1 DEF Resume
  <2>q. QED BY <1>1, <2>1, <2>2, StartReached
<1>24. ASSUME SocketOpens PROVE Goal
  <2>1. /\ UNCHANGED <<run, follow, cursor, head, notices, opened>>
        /\ Starts(CatchUp) \/ UNCHANGED jobs
    BY <1>24 DEF SocketOpens, server
  <2>2. missed[q] => missed'[q] \/ Sought(q)'
    BY <1>22, <1>24, <2>1 DEF SocketOpens
  <2>q. QED BY <1>1, <2>1, <2>2, StartReached
<1>25. ASSUME HubRegisters \/ HubSubscribes \/ SocketCloses \/ Redials PROVE Goal
  <2>1. UNCHANGED <<run, follow, cursor, head, notices, missed, opened, jobs>>
    BY <1>25 DEF HubRegisters, HubSubscribes, SocketCloses, Redials, device, server
  <2>q. QED BY <1>1, <2>1, StartReached
<1>26. ASSUME ConnectionLost PROVE Goal
  <2>1. UNCHANGED <<run, follow, cursor, head, opened, jobs>>
    BY <1>26 DEF ConnectionLost, device, server
  <2>2. missed'[q] = (missed[q] \/ notices[q] > 0)
    BY <1>26, Zenon DEF ConnectionLost
  <2>q. QED BY <1>1, <2>1, <2>2, StartReached
<1>27. ASSUME Restarts PROVE Goal
  <2>1. /\ missed'[q] /\ cursor'[q] = 0 /\ head'[q] = head[q] /\ run'[q].stage = "idle"
    BY <1>27 DEF Restarts, Idle, None, server
  <2>2. head[q] \in Nat
    BY <1>1 DEF Shape
  <2>q. QED BY <2>1, <2>2 DEF Reached, NotAhead
<1>q. QED
  BY <1>3, <1>5, <1>6, <1>7, <1>8, <1>9, <1>10, <1>11, <1>12, <1>13, <1>14, <1>15, <1>17,
     <1>18, <1>20, <1>21, <1>23, <1>24, <1>25, <1>26, <1>27 DEF Next, Micro

\* So it is from the start,
LEMMA CurrentInit == Init => CurrentInv
BY DEF Init, CurrentInv, Reached, NotAhead, Idle, None

\* and when nothing happens.
LEMMA CurrentStutter == CurrentInv /\ UNCHANGED vars => CurrentInv'
BY DEF CurrentInv, Reached, NotAhead, Due, Sought, Seeks, Remains, vars, device, socket, server

\* A device at rest is current (server.ts:75-95, outbox.ts:313-318): it has
\* every commit it was told of or asked for, for every number of writes, faults
\* and jobs.
THEOREM BackendQuietIsCurrent == Spec => []QuietIsCurrent
<1>1. WordInv /\ CurrentInv /\ [Next]_vars => CurrentInv'
  BY CurrentStep, CurrentStutter
<1>2. CurrentInv => QuietIsCurrent
  <2> SUFFICES ASSUME CurrentInv, Quiet, NEW p \in Partition
               PROVE  missed[p] \/ cursor[p] = head[p]
    BY DEF QuietIsCurrent
  <2>1. BagToSet(jobs) = {} /\ ~Sought(p)
    BY EmptyIn DEF Quiet, Sought
  <2>2. ~Due(p) /\ ~(notices[p] > 0)
    BY <2>1 DEF Quiet, Due, None
  <2>q. QED BY <2>2 DEF CurrentInv, Reached
<1>q. QED BY WordAlways, CurrentInit, <1>1, <1>2, PTL DEF Spec
============================================================================
