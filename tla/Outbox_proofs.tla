---------------------------- MODULE Outbox_proofs ----------------------------
(***************************************************************************)
(* Theorems about the outbox, for any number of mutations, any batch size  *)
(* and any number of faults.                                               *)
(***************************************************************************)
EXTENDS Outbox, FiniteSetTheorems, FunctionTheorems, SequenceTheorems, TLAPS

-----------------------------------------------------------------------------
(* The inductive invariant. *)

Made == 1 .. minted
Decided == {m \in Mutation : memo[m] # "none"}
Answered == Decided \cup refused

\* Everything in flight was minted: the queues, the requests, the storage
\* writes and the stores name no mutation that is still to come.
Writes(S) == [op : {"append", "remove", "park"}, muts : SUBSET S]

Known ==
    /\ queue \in Seq(Made) /\ work \in Seq(Made) /\ chunk \in Seq(Made) /\ unsent \in Seq(Made)
    /\ strays \subseteq Seq(Made)
    /\ chain \in Seq(Writes(Made))
    /\ pending \subseteq Made /\ parked \subseteq Made

\* What the writes of kind op in the chain c name.
Issued(c, op) == {m \in Mutation : \E i \in DOMAIN c : c[i].op = op /\ m \in c[i].muts}

\* The open request has an answer to what the server has passed, and nothing
\* undecided is on its way out of the pending store.
RequestAnswered == Range(chunk) \subseteq Range(unsent) \cup Decided
RemovalsDecided == Issued(chain, "remove") \subseteq Decided

\* A mutation's append is the first write that names it.
Ordered(c) ==
    \A i, j \in DOMAIN c :
        i < j /\ c[j].op = "append" => c[i].muts \cap c[j].muts = {}

AppendFirst == Ordered(chain)

\* What the pending store will hold once the chain has settled.
Lasting == (pending \cup Issued(chain, "append"))
               \ (Issued(chain, "remove") \cup Issued(chain, "park"))

Mirrors ==
    ~dropped =>
        /\ Lasting \subseteq Range(queue) \cup (IF restored = "read" THEN {} ELSE pending)
        /\ Range(queue) \subseteq Lasting \cup Decided \cup parked \cup Issued(chain, "park")

\* What the drain still has to push of its array, after the open request.
Ahead == {work[i] : i \in {j \in DOMAIN work : offset + MaxBatch < j}}

Owes ==
    /\ phase = "push" => owed.running \subseteq Answered \cup Range(chunk) \cup Ahead
    /\ phase = "pull" => owed.running \subseteq Answered
    /\ owed.next \subseteq Answered \cup Range(queue)
    /\ aliased => work = queue

\* The part of the types that is not sequences of mutations.
Shape ==
    /\ minted \in 0 .. MaxMutations
    /\ aliased \in BOOLEAN /\ offset \in Nat
    /\ phase \in {"idle", "push", "pull"}
    /\ follow \in BOOLEAN
    /\ results \subseteq [mut : Mutation, outcome : Outcome]
    /\ restored \in {"ahead", "behind", "read", "failed"}
    /\ ask \in {"none", "due", "stranded"}
    /\ memo \in [Mutation -> {"none", "applied", "rejected"}]
    /\ faults \in 0 .. MaxFaults
    /\ captured \subseteq Mutation /\ refused \subseteq Mutation
    /\ dropped \in BOOLEAN
    /\ owed \in [running : SUBSET Mutation, next : SUBSET Mutation]

OutboxInv ==
    /\ Shape /\ Known
    /\ RequestAnswered /\ RemovalsDecided /\ AppendFirst
    /\ Mirrors /\ Owes

-----------------------------------------------------------------------------
(* What the helpers on sequences return. *)

\* The order of a finite set of numbers lists each of them, and nothing else:
\* the number of smaller ones tells them apart and takes every value.
LEMMA AscendingLists ==
    ASSUME NEW S \in SUBSET Nat, IsFiniteSet(S)
    PROVE  Ascending(S) \in Seq(S) /\ Range(Ascending(S)) = S
<1> DEFINE n == Cardinality(S)
           Below(x) == {y \in S : y < x}
           rank == [x \in S |-> Cardinality(Below(x))]
<1>1. n \in Nat
  BY FS_CardinalityType
<1>2. ASSUME NEW x \in S
      PROVE  /\ IsFiniteSet(Below(x)) /\ Cardinality(Below(x)) \in Nat
             /\ Cardinality(Below(x)) <= n /\ Cardinality(Below(x)) # n
  <2>1. Below(x) \in SUBSET S /\ Below(x) # S
    <3>1. x \notin Below(x)
      OBVIOUS
    <3> QED  BY <3>1
  <2>2. /\ IsFiniteSet(Below(x)) /\ Cardinality(Below(x)) <= n
        /\ n = Cardinality(Below(x)) => S = Below(x)
    <3> HIDE DEF Below
    <3> QED  BY <2>1, FS_Subset
  <2>3. Cardinality(Below(x)) \in Nat
    BY <2>2, FS_CardinalityType
  <2> QED  BY <2>1, <2>2, <2>3
<1>3. ASSUME NEW x \in S, NEW y \in S, x < y
      PROVE  Cardinality(Below(x)) # Cardinality(Below(y))
  <2>1. Below(x) \in SUBSET Below(y) /\ x \in Below(y) /\ x \notin Below(x)
    <3>1. x \in Nat /\ y \in Nat /\ x < y /\ \A z \in S : z \in Nat
      BY <1>3
    <3>2. ~(x < x) /\ \A z \in S : z < x => z < y
      BY <3>1
    <3> QED  BY <3>1, <3>2
  <2>2. Cardinality(Below(y)) = Cardinality(Below(x)) => Below(y) = Below(x)
    <3> HIDE DEF Below
    <3> QED  BY <1>2, <2>1, FS_Subset
  <2> QED  BY <2>1, <2>2
<1>4. rank \in Injection(S, 0 .. (n - 1))
  <2>1. rank \in [S -> 0 .. (n - 1)]
    <3> HIDE DEF Below, n
    <3> QED  BY <1>1, <1>2
  <2>2. ASSUME NEW x \in S, NEW y \in S, x # y
        PROVE  rank[x] # rank[y]
    <3>1. x < y \/ y < x
      BY <2>2
    <3> HIDE DEF Below
    <3> QED  BY <3>1, <1>3
  <2> HIDE DEF rank
  <2> QED  BY <2>1, <2>2 DEF Injection, IsInjective
<1>5. IsFiniteSet(0 .. (n - 1)) /\ Cardinality(0 .. (n - 1)) = n
  <2>1. 0 \in Int /\ n - 1 \in Int
    BY <1>1
  <2> HIDE DEF n
  <2> QED  BY <1>1, <2>1, FS_Interval
<1>6. rank \in Surjection(S, 0 .. (n - 1))
  <2> HIDE DEF rank
  <2> QED  BY <1>4, <1>5, FS_Injection
<1>7. ASSUME NEW k \in 1 .. n
      PROVE  Ascending(S)[k] \in S /\ rank[Ascending(S)[k]] = k - 1
  <2>1. k - 1 \in 0 .. (n - 1)
    BY <1>1
  <2>2. \E x \in S : rank[x] = k - 1
    <3> HIDE DEF rank, n
    <3> QED  BY <1>6, <2>1 DEF Surjection
  <2>3. Ascending(S)[k] = CHOOSE x \in S : Cardinality({y \in S : y < x}) = k - 1
    BY DEF Ascending
  <2> QED  BY <2>2, <2>3
<1>8. Ascending(S) \in [1 .. n -> S]
  <2> DEFINE nth(k) == CHOOSE x \in S : Cardinality({y \in S : y < x}) = k - 1
  <2>0. Ascending(S) = [k \in 1 .. n |-> nth(k)]
    BY Zenon DEF Ascending
  <2> HIDE DEF n, nth
  <2>1. Ascending(S) = [k \in 1 .. n |-> Ascending(S)[k]]
    BY <2>0
  <2> QED  BY <1>7, <2>1
<1>9. Ascending(S) \in Seq(S) /\ DOMAIN Ascending(S) = 1 .. n
  <2> HIDE DEF n
  <2> QED  BY <1>1, <1>8
<1>10. ASSUME NEW x \in S
       PROVE  \E k \in 1 .. n : Ascending(S)[k] = x
  <2>1. rank[x] \in 0 .. (n - 1)
    <3> HIDE DEF rank, n
    <3> QED  BY <1>4 DEF Injection
  <2>2. rank[x] + 1 \in 1 .. n /\ (rank[x] + 1) - 1 = rank[x]
    <3> HIDE DEF rank, n
    <3> QED  BY <1>1, <2>1
  <2>3. Ascending(S)[rank[x] + 1] \in S /\ rank[Ascending(S)[rank[x] + 1]] = rank[x]
    <3> HIDE DEF rank, n
    <3> QED  BY <1>7, <2>2
  <2>4. Ascending(S)[rank[x] + 1] = x
    <3> HIDE DEF rank, n
    <3> QED  BY <1>4, <2>3 DEF Injection, IsInjective
  <2> QED  BY <2>2, <2>4
<1> HIDE DEF rank, n
<1> QED  BY <1>7, <1>9, <1>10 DEF Range

\* A filter keeps what it is told to keep, and nothing else.
LEMMA OnlyKeeps ==
    ASSUME NEW T, NEW s \in Seq(T), NEW ms
    PROVE  /\ Only(s, ms) \in Seq(T)
           /\ Range(Only(s, ms)) = Range(s) \cap ms
<1> DEFINE at == {i \in DOMAIN s : s[i] \in ms}
           kept == Ascending(at)
<1>1. Len(s) \in Nat /\ DOMAIN s = 1 .. Len(s) /\ \A i \in DOMAIN s : s[i] \in T
  BY LenProperties, ElementOfSeq
<1>2. at \in SUBSET Nat /\ IsFiniteSet(at)
  <2>1. at \in SUBSET Nat /\ \A i \in at : i <= Len(s)
    BY <1>1
  <2> HIDE DEF at
  <2> QED  BY <1>1, <2>1, FS_BoundedSetOfNaturals
<1>3. kept \in Seq(at) /\ Range(kept) = at
  <2> HIDE DEF at
  <2> QED  BY <1>2, AscendingLists
<1>4. Only(s, ms) = [k \in DOMAIN kept |-> s[kept[k]]]
  BY DEF Only
<1>5. /\ Len(kept) \in Nat /\ DOMAIN kept = 1 .. Len(kept)
      /\ \A k \in DOMAIN kept : kept[k] \in at
      /\ \A i \in at : \E k \in DOMAIN kept : kept[k] = i
  <2> HIDE DEF kept, at
  <2> QED  BY <1>3, LenProperties, ElementOfSeq DEF Range
<1>6. \A i \in at : i \in DOMAIN s /\ s[i] \in ms /\ s[i] \in T
  BY <1>1
<1>7. \A i \in DOMAIN s : s[i] \in ms => i \in at
  OBVIOUS
<1> HIDE DEF kept, at
<1>8. Only(s, ms) \in Seq(T)
  BY <1>4, <1>5, <1>6, IsASeq
<1>9. Range(Only(s, ms)) = Range(s) \cap ms
  BY <1>4, <1>5, <1>6, <1>7 DEF Range
<1> QED  BY <1>8, <1>9

\* What leaves a queue leaves it, and the rest stays.
LEMMA WithoutDrops ==
    ASSUME NEW T, NEW s \in Seq(T), NEW ms
    PROVE  /\ Without(s, ms) \in Seq(T)
           /\ Range(Without(s, ms)) = Range(s) \ ms
BY OnlyKeeps DEF Without

\* What appending an element does to the elements of a sequence,
LEMMA AppendRange ==
    ASSUME NEW T, NEW s \in Seq(T), NEW e \in T
    PROVE  Append(s, e) \in Seq(T) /\ Range(Append(s, e)) = Range(s) \cup {e}
<1>1. /\ Append(s, e) \in Seq(T) /\ Len(Append(s, e)) = Len(s) + 1
      /\ \A i \in 1 .. Len(s) : Append(s, e)[i] = s[i]
      /\ Append(s, e)[Len(s) + 1] = e
  BY AppendProperties
<1>2. Len(s) \in Nat
  BY LenProperties
<1>3. /\ Range(s) = {s[i] : i \in 1 .. Len(s)}
      /\ Range(Append(s, e)) = {Append(s, e)[i] : i \in 1 .. Len(s) + 1}
  BY <1>1, RangeEquality
<1>4. 1 .. Len(s) + 1 = (1 .. Len(s)) \cup {Len(s) + 1}
  BY <1>2
<1> QED  BY <1>1, <1>3, <1>4

\* and what taking its head does.
LEMMA HeadRange ==
    ASSUME NEW T, NEW s \in Seq(T), s # <<>>
    PROVE  /\ Head(s) \in T /\ Tail(s) \in Seq(T)
           /\ Range(s) = {Head(s)} \cup Range(Tail(s))
<1>1. /\ Head(s) \in T /\ Tail(s) \in Seq(T) /\ Len(Tail(s)) = Len(s) - 1
      /\ \A i \in 1 .. Len(Tail(s)) : Tail(s)[i] = s[i + 1]
  BY HeadTailProperties
<1>2. Len(s) \in Nat \ {0} /\ Head(s) = s[1]
  BY EmptySeq, LenProperties
<1>3. /\ Range(s) = {s[i] : i \in 1 .. Len(s)}
      /\ Range(Tail(s)) = {Tail(s)[i] : i \in 1 .. Len(s) - 1}
  BY <1>1, RangeEquality
<1>4. ASSUME NEW i \in 1 .. Len(s), i # 1
      PROVE  i - 1 \in 1 .. Len(s) - 1 /\ Tail(s)[i - 1] = s[i]
  BY <1>1, <1>2, <1>4
<1>5. \A i \in 1 .. Len(s) - 1 : i + 1 \in 1 .. Len(s) /\ Tail(s)[i] = s[i + 1]
  BY <1>1, <1>2
<1>6. 1 \in 1 .. Len(s)
  BY <1>2
<1>7. Range(s) \subseteq {Head(s)} \cup Range(Tail(s))
  <2>1. ASSUME NEW i \in 1 .. Len(s)
        PROVE  s[i] \in {Head(s)} \cup Range(Tail(s))
    <3>1. CASE i = 1
      BY <1>2, <3>1
    <3>2. CASE i # 1
      BY <1>3, <1>4, <3>2
    <3> QED  BY <3>1, <3>2
  <2> QED  BY <1>3, <2>1
<1>8. {Head(s)} \cup Range(Tail(s)) \subseteq Range(s)
  BY <1>2, <1>3, <1>5, <1>6
<1> QED  BY <1>1, <1>7, <1>8

\* A chunk is the stretch of the array that begins behind its offset.
LEMMA SliceIs ==
    ASSUME NEW T, NEW s \in Seq(T), NEW from \in Nat
    PROVE  /\ Slice(s, from) \in Seq(T)
           /\ Range(Slice(s, from)) \subseteq Range(s)
           /\ \A i \in DOMAIN s : from < i /\ i <= from + MaxBatch => s[i] \in Range(Slice(s, from))
<1> DEFINE to == IF from + MaxBatch < Len(s) THEN from + MaxBatch ELSE Len(s)
           c == Slice(s, from)
<1>1. /\ Len(s) \in Nat /\ DOMAIN s = 1 .. Len(s) /\ MaxBatch \in Nat /\ MaxBatch > 0
      /\ \A i \in DOMAIN s : s[i] \in T
  BY LenProperties, ElementOfSeq, BoundsAssumption
<1>2. to \in Nat /\ to <= Len(s) /\ to <= from + MaxBatch
  BY <1>1
<1>3. c = SubSeq(s, from + 1, to)
  BY DEF Slice
<1>4. \A i \in from + 1 .. to : i \in DOMAIN s /\ s[i] \in T
  BY <1>1, <1>2
<1>5. \A i \in DOMAIN s : from < i /\ i <= from + MaxBatch => i \in from + 1 .. to
  BY <1>1
<1> HIDE DEF to, c
<1>6. /\ c \in Seq(T) /\ Len(c) = IF from + 1 <= to THEN to - (from + 1) + 1 ELSE 0
      /\ \A i \in 1 .. to - (from + 1) + 1 : c[i] = s[(from + 1) + i - 1]
  BY <1>2, <1>3, <1>4, SubSeqProperties
<1>7. Range(c) = {c[i] : i \in 1 .. Len(c)}
  BY <1>6, RangeEquality
<1>8. \A i \in 1 .. Len(c) : from + i \in from + 1 .. to /\ c[i] = s[from + i]
  BY <1>2, <1>6
<1>9. \A i \in from + 1 .. to : i - from \in 1 .. Len(c) /\ c[i - from] = s[i]
  BY <1>2, <1>6
<1>10. \A i \in 1 .. Len(c) : c[i] \in Range(s)
  BY <1>4, <1>8 DEF Range
<1>11. \A i \in from + 1 .. to : s[i] \in Range(c)
  BY <1>7, <1>9
<1> QED  BY <1>5, <1>6, <1>7, <1>10, <1>11 DEF c

\* A chain made longer by w names what it named before and what w names.
LEMMA IssuedConcat ==
    ASSUME NEW S, NEW c \in Seq(Writes(S)), NEW w \in Seq(Writes(S)), NEW op
    PROVE  /\ c \o w \in Seq(Writes(S))
           /\ Issued(c \o w, op) = Issued(c, op) \cup Issued(w, op)
<1> DEFINE d == c \o w
<1>1. /\ d \in Seq(Writes(S)) /\ Len(d) = Len(c) + Len(w)
      /\ \A i \in 1 .. Len(c) + Len(w) : d[i] = IF i <= Len(c) THEN c[i] ELSE w[i - Len(c)]
  BY ConcatProperties
<1>2. /\ Len(c) \in Nat /\ Len(w) \in Nat
      /\ DOMAIN c = 1 .. Len(c) /\ DOMAIN w = 1 .. Len(w) /\ DOMAIN d = 1 .. Len(c) + Len(w)
  BY <1>1, LenProperties
<1> HIDE DEF d
<1>3. \A i \in DOMAIN c : i \in DOMAIN d /\ d[i] = c[i]
  BY <1>1, <1>2
<1>4. \A i \in DOMAIN w : Len(c) + i \in DOMAIN d /\ d[Len(c) + i] = w[i]
  BY <1>1, <1>2
<1>5. \A i \in DOMAIN d : \/ (i \in DOMAIN c /\ d[i] = c[i])
                         \/ (i - Len(c) \in DOMAIN w /\ d[i] = w[i - Len(c)])
  BY <1>1, <1>2
<1>6. Issued(d, op) \subseteq Issued(c, op) \cup Issued(w, op)
  BY <1>5 DEF Issued
<1>7. Issued(c, op) \subseteq Issued(d, op)
  BY <1>3 DEF Issued
<1>8. Issued(w, op) \subseteq Issued(d, op)
  BY <1>4 DEF Issued
<1> QED  BY <1>1, <1>6, <1>7, <1>8 DEF d

\* The writes of a chain are the first of them and the rest, and when appends
\* come first, the first write names nothing a later append names.
LEMMA IssuedTail ==
    ASSUME NEW S \in SUBSET Mutation, NEW c \in Seq(Writes(S)), c # <<>>
    PROVE  /\ Head(c) \in Writes(S) /\ Tail(c) \in Seq(Writes(S))
           /\ \A op : Issued(c, op) = Issued(Tail(c), op)
                                        \cup (IF Head(c).op = op THEN Head(c).muts ELSE {})
           /\ Ordered(c) => Ordered(Tail(c)) /\ Head(c).muts \cap Issued(Tail(c), "append") = {}
<1> DEFINE t == Tail(c)
<1>1. /\ Head(c) \in Writes(S) /\ t \in Seq(Writes(S)) /\ Len(t) = Len(c) - 1
      /\ \A i \in 1 .. Len(t) : t[i] = c[i + 1]
  BY HeadTailProperties
<1>2. /\ Len(c) \in Nat \ {0} /\ Head(c) = c[1]
      /\ DOMAIN c = 1 .. Len(c) /\ DOMAIN t = 1 .. Len(c) - 1
  BY <1>1, EmptySeq, LenProperties
<1> HIDE DEF t
<1>3. \A i \in DOMAIN t : i + 1 \in DOMAIN c /\ t[i] = c[i + 1] /\ 1 < i + 1
  BY <1>1, <1>2
<1>4. 1 \in DOMAIN c /\ \A i \in DOMAIN c : i = 1 \/ (i - 1 \in DOMAIN t /\ t[i - 1] = c[i])
  BY <1>1, <1>2
<1>5. Head(c).muts \subseteq Mutation
  BY <1>1 DEF Writes
<1>6. ASSUME NEW op
      PROVE  Issued(c, op) = Issued(t, op) \cup (IF Head(c).op = op THEN Head(c).muts ELSE {})
  <2>1. Issued(c, op) \subseteq Issued(t, op) \cup (IF Head(c).op = op THEN Head(c).muts ELSE {})
    BY <1>2, <1>4 DEF Issued
  <2>2. Issued(t, op) \subseteq Issued(c, op)
    BY <1>3 DEF Issued
  <2>3. Head(c).op = op => Head(c).muts \subseteq Issued(c, op)
    BY <1>2, <1>4, <1>5 DEF Issued
  <2> QED  BY <2>1, <2>2, <2>3
<1>7. ASSUME Ordered(c)
      PROVE  Ordered(t)
  <2>1. \A i, j \in DOMAIN t : i < j => i + 1 < j + 1
    BY <1>2
  <2> QED  BY <1>3, <1>7, <2>1 DEF Ordered
<1>8. ASSUME Ordered(c)
      PROVE  Head(c).muts \cap Issued(t, "append") = {}
  BY <1>2, <1>3, <1>4, <1>8 DEF Ordered, Issued
<1> QED  BY <1>1, <1>6, <1>7, <1>8 DEF t

\* An append of what no write names yet, and writes that append nothing, keep
\* appends first.
LEMMA OrderedConcat ==
    ASSUME NEW S, NEW c \in Seq(Writes(S)), NEW w \in Seq(Writes(S)), Ordered(c),
           \A j \in DOMAIN w : w[j].op = "append" =>
                /\ j = 1
                /\ \A i \in DOMAIN c : c[i].muts \cap w[j].muts = {}
    PROVE  Ordered(c \o w)
<1> DEFINE d == c \o w
<1>1. /\ d \in Seq(Writes(S)) /\ Len(d) = Len(c) + Len(w)
      /\ \A i \in 1 .. Len(c) + Len(w) : d[i] = IF i <= Len(c) THEN c[i] ELSE w[i - Len(c)]
  BY ConcatProperties
<1>2. /\ Len(c) \in Nat /\ Len(w) \in Nat
      /\ DOMAIN c = 1 .. Len(c) /\ DOMAIN w = 1 .. Len(w) /\ DOMAIN d = 1 .. Len(c) + Len(w)
  BY <1>1, LenProperties
<1> HIDE DEF d
<1>3. SUFFICES ASSUME NEW i \in DOMAIN d, NEW j \in DOMAIN d, i < j, d[j].op = "append"
               PROVE  d[i].muts \cap d[j].muts = {}
  BY DEF Ordered, d
<1>4. CASE j <= Len(c)
  <2>1. i \in DOMAIN c /\ j \in DOMAIN c /\ d[i] = c[i] /\ d[j] = c[j]
    BY <1>1, <1>2, <1>3, <1>4
  <2> QED  BY <1>3, <2>1 DEF Ordered
<1>5. CASE ~(j <= Len(c))
  <2>1. j - Len(c) \in DOMAIN w /\ d[j] = w[j - Len(c)]
    BY <1>1, <1>2, <1>5
  <2>2. j - Len(c) = 1
    BY <1>3, <2>1
  <2>3. i \in DOMAIN c /\ d[i] = c[i]
    BY <1>1, <1>2, <1>3, <2>2
  <2> QED  BY <1>3, <2>1, <2>3
<1> QED  BY <1>4, <1>5

\* Parking one by one parks each of them, and does nothing else.
LEMMA ParkEachIs ==
    ASSUME NEW S \in SUBSET Mutation, NEW s \in Seq(S)
    PROVE  /\ ParkEach(s) \in Seq(Writes(S))
           /\ Issued(ParkEach(s), "park") = Range(s)
           /\ Issued(ParkEach(s), "append") = {} /\ Issued(ParkEach(s), "remove") = {}
           /\ \A j \in DOMAIN ParkEach(s) : ParkEach(s)[j].op = "park"
<1> DEFINE w == ParkEach(s)
<1>1. Len(s) \in Nat /\ DOMAIN s = 1 .. Len(s) /\ \A i \in DOMAIN s : s[i] \in S
  BY LenProperties, ElementOfSeq
<1>2. DOMAIN w = 1 .. Len(s) /\ \A i \in 1 .. Len(s) : w[i] = [op |-> "park", muts |-> {s[i]}]
  BY DEF ParkEach, Persist
<1>3. w = [i \in 1 .. Len(s) |-> w[i]]
  BY DEF ParkEach
<1> HIDE DEF w
<1>4. \A i \in 1 .. Len(s) : w[i] \in Writes(S)
  BY <1>1, <1>2 DEF Writes
<1>5. w \in Seq(Writes(S))
  BY <1>1, <1>3, <1>4
<1>6. Range(s) \subseteq Mutation
  BY RangeOfSeq
<1>7. Issued(w, "park") = Range(s) /\ Issued(w, "append") = {} /\ Issued(w, "remove") = {}
  BY <1>1, <1>2, <1>6 DEF Issued, Range
<1> QED  BY <1>2, <1>5, <1>7 DEF w

\* A single storage write issues what it names.
LEMMA SingleWrite ==
    ASSUME NEW S \in SUBSET Mutation, NEW ms \in SUBSET S, NEW op \in {"append", "remove", "park"}
    PROVE  /\ <<Persist(op, ms)>> \in Seq(Writes(S))
           /\ \A o : Issued(<<Persist(op, ms)>>, o) = IF o = op THEN ms ELSE {}
<1>1. Persist(op, ms) \in Writes(S) /\ Persist(op, ms).op = op /\ Persist(op, ms).muts = ms
  BY DEF Persist, Writes
<1>2. DOMAIN <<Persist(op, ms)>> = {1} /\ <<Persist(op, ms)>>[1] = Persist(op, ms)
  OBVIOUS
<1>3. <<Persist(op, ms)>> \in Seq(Writes(S))
  BY <1>1
<1> QED  BY <1>1, <1>2, <1>3 DEF Issued
-----------------------------------------------------------------------------
(* Types: nothing names a mutation before it is minted. *)

\* What is in flight, made of the mutations up to n.
InFlight(n) ==
    /\ queue \in Seq(1 .. n) /\ work \in Seq(1 .. n)
    /\ chunk \in Seq(1 .. n) /\ unsent \in Seq(1 .. n)
    /\ strays \subseteq Seq(1 .. n)
    /\ chain \in Seq(Writes(1 .. n))
    /\ pending \subseteq 1 .. n /\ parked \subseteq 1 .. n

\* More mutations leave what names the first of them well formed.
LEMMA InFlightGrows ==
    ASSUME NEW n \in Nat, NEW k \in Nat, n <= k, InFlight(n)
    PROVE  InFlight(k)
<1>1. 1 .. n \subseteq 1 .. k
  OBVIOUS
<1>2. Writes(1 .. n) \subseteq Writes(1 .. k)
  BY <1>1 DEF Writes
<1>3. /\ queue \in Seq(1 .. k) /\ work \in Seq(1 .. k)
      /\ chunk \in Seq(1 .. k) /\ unsent \in Seq(1 .. k)
  BY <1>1, SeqMonotonic DEF InFlight
<1>4. strays \subseteq Seq(1 .. k)
  BY <1>1, SeqMonotonic DEF InFlight
<1>5. chain \in Seq(Writes(1 .. k))
  BY <1>2, SeqMonotonic DEF InFlight
<1> QED  BY <1>1, <1>3, <1>4, <1>5 DEF InFlight

\* The parts of the inductive invariant make up the type invariant.
LEMMA TypesFromParts ==
    ASSUME Shape, Known
    PROVE  TypeOK
<1>1. minted \in Nat /\ MaxMutations \in Nat /\ minted <= MaxMutations
  BY BoundsAssumption DEF Shape
<1>2. InFlight(minted)
  BY DEF Known, InFlight, Made
<1>3. InFlight(MaxMutations)
  BY <1>1, <1>2, InFlightGrows
<1>4. StorageWrite = Writes(1 .. MaxMutations)
  BY DEF StorageWrite, Writes, Mutation
<1> QED  BY <1>3, <1>4 DEF InFlight, Shape, TypeOK, Mutation

\* What was minted is a finite set of mutations, with room for the next one.
LEMMA MadeAreMutations ==
    ASSUME Shape
    PROVE  /\ Made \in SUBSET Mutation /\ IsFiniteSet(Made)
           /\ minted < MaxMutations => minted + 1 \in Mutation
<1>1. minted \in Nat /\ MaxMutations \in Nat /\ minted <= MaxMutations
  BY BoundsAssumption DEF Shape
<1>2. IsFiniteSet(1 .. minted)
  BY <1>1, FS_Interval
<1> QED  BY <1>1, <1>2 DEF Made, Mutation

\* Every step keeps the scalar parts of the state in range.
LEMMA ShapeStep ==
    ASSUME Shape, Known, [Next]_vars
    PROVE  Shape'
<1> USE DEF Shape
<1>1. Made \in SUBSET Mutation
  BY MadeAreMutations
<1>2. /\ Range(queue) \subseteq Mutation /\ Range(chunk) \subseteq Mutation
      /\ (unsent # <<>> => Head(unsent) \in Mutation)
  BY <1>1, RangeOfSeq, HeadRange DEF Known
<1>3. CASE Enqueue
  BY <1>3, BoundsAssumption DEF Enqueue, history, disk
<1>4. CASE PersistWrite
  <2>1. Head(chain) \in Writes(Made)
    BY <1>4, HeadRange DEF PersistWrite, Known
  <2>2. Head(chain).muts \subseteq Mutation
    BY <1>1, <2>1 DEF Writes
  <2> QED  BY <1>4, <2>2 DEF PersistWrite
<1>5. CASE PersistRefused
  BY <1>5, BoundsAssumption DEF PersistRefused
<1>6. CASE Restore
  BY <1>6 DEF Restore, history
<1>7. ASSUME RunDrain(owed.next, {}) \/ RunDrain(Range(queue), owed.next)
      PROVE  /\ aliased' \in BOOLEAN /\ offset' \in Nat /\ phase' \in {"idle", "push", "pull"}
             /\ results' \subseteq [mut : Mutation, outcome : Outcome]
             /\ owed' \in [running : SUBSET Mutation, next : SUBSET Mutation]
  <2>1. aliased' \in BOOLEAN /\ offset' \in Nat /\ phase' \in {"idle", "push", "pull"} /\ results' = {}
    <3>1. /\ aliased' = (queue # <<>>) /\ offset' = 0 /\ results' = {}
          /\ phase' = IF queue # <<>> THEN "push" ELSE "pull"
      BY <1>7 DEF RunDrain
    <3>2. (queue # <<>>) \in BOOLEAN
      OBVIOUS
    <3>3. aliased' \in BOOLEAN
      BY <3>1, <3>2, Zenon
    <3> QED  BY <3>1, <3>3
  <2>2. owed.next \subseteq Mutation
    OBVIOUS
  <2>3. owed' \in [running : SUBSET Mutation, next : SUBSET Mutation]
    <3>1. CASE RunDrain(owed.next, {})
      BY <2>2, <3>1 DEF RunDrain
    <3>2. CASE RunDrain(Range(queue), owed.next)
      BY <1>2, <2>2, <3>2 DEF RunDrain
    <3> QED  BY <1>7, <3>1, <3>2
  <2> QED  BY <2>1, <2>3
<1>8. CASE Drain
  <2>1. UNCHANGED <<minted, restored, memo, faults, captured, refused, dropped>> /\ ask' = "none"
    BY <1>8 DEF Drain
  <2>2. CASE phase = "idle"
    <3>1. RunDrain(Range(queue), owed.next) /\ UNCHANGED follow
      BY <1>8, <2>2 DEF Drain, DrainOrFollow
    <3> QED  BY <1>7, <2>1, <3>1
  <2>3. CASE phase # "idle"
    BY <1>2, <1>8, <2>1, <2>3 DEF Drain, DrainOrFollow
  <2> QED  BY <2>2, <2>3
<1>9. CASE FollowUp
  <2>1. UNCHANGED <<minted, restored, memo, faults, captured, refused, dropped>> /\ follow' = FALSE
        /\ ask' = IF ask = "stranded" THEN "none" ELSE ask
    BY <1>9 DEF FollowUp
  <2>2. RunDrain(owed.next, {})
    BY <1>9 DEF FollowUp
  <2> QED  BY <1>7, <2>1, <2>2
<1>10. CASE ServerApply
  <2>1. PICK v \in {"applied", "rejected"} :
             /\ memo' = IF memo[Head(unsent)] # "none" THEN memo ELSE [memo EXCEPT ![Head(unsent)] = v]
             /\ results' = results \cup
                   {[mut |-> Head(unsent),
                     outcome |-> IF memo[Head(unsent)] # "none" THEN "duplicate" ELSE v]}
    BY <1>10 DEF ServerApply
  <2>2. Head(unsent) \in Mutation
    BY <1>2, <1>10 DEF ServerApply
  <2>3. memo' \in [Mutation -> {"none", "applied", "rejected"}]
    BY <2>1, <2>2
  <2>4. results' \subseteq [mut : Mutation, outcome : Outcome]
    BY <2>1, <2>2 DEF Outcome
  <2> QED  BY <1>10, <2>3, <2>4 DEF ServerApply, history
<1>11. ASSUME NextChunk
       PROVE  /\ aliased' \in BOOLEAN /\ offset' \in Nat /\ phase' \in {"idle", "push", "pull"}
              /\ results' \subseteq [mut : Mutation, outcome : Outcome]
  <2>1. offset' \in Nat
    BY <1>11, BoundsAssumption DEF NextChunk
  <2>2. phase' \in {"idle", "push", "pull"}
    BY <1>11 DEF NextChunk
  <2>3. aliased' = FALSE /\ results' = {}
    BY <1>11 DEF NextChunk
  <2> QED  BY <2>1, <2>2, <2>3
<1>12. CASE PushReply
  <2>1. Rejected \subseteq Mutation
    BY DEF Rejected
  <2>2. NextChunk /\ refused' = refused \cup Rejected
        /\ UNCHANGED <<minted, follow, restored, ask, memo, faults, captured, dropped, owed>>
    BY <1>12 DEF PushReply
  <2> QED  BY <1>11, <2>1, <2>2
<1>13. CASE EnvelopeRefused
  <2>1. NextChunk /\ refused' = refused \cup Range(chunk) /\ faults' = faults + 1 /\ faults < MaxFaults
        /\ UNCHANGED <<minted, follow, restored, ask, memo, captured, dropped, owed>>
    BY <1>13 DEF EnvelopeRefused
  <2> QED  BY <1>2, <1>11, <2>1, BoundsAssumption
<1>14. CASE PushFail
  <2>1. faults' \in 0 .. MaxFaults
    BY <1>14, BoundsAssumption DEF PushFail
  <2> QED  BY <1>14, <2>1 DEF PushFail, EndDrain, Released
<1>15. CASE PullDone
  BY <1>15 DEF PullDone, EndDrain, Released
<1>16. CASE PullFail
  <2>1. faults' \in 0 .. MaxFaults
    BY <1>16, BoundsAssumption DEF PullFail
  <2> QED  BY <1>16, <2>1 DEF PullFail, EndDrain, Released
<1>17. CASE Reload
  <2>1. faults' \in 0 .. MaxFaults
    BY <1>17, BoundsAssumption DEF Reload
  <2> QED  BY <1>17, <2>1 DEF Reload, Released
<1>18. ASSUME NEW q \in strays, StrayApply(q)
       PROVE  Shape'
  <2>1. Head(q) \in Mutation
    BY <1>1, <1>18, HeadRange DEF StrayApply, Known
  <2>2. PICK v \in {"applied", "rejected"} :
             memo' = IF memo[Head(q)] # "none" THEN memo ELSE [memo EXCEPT ![Head(q)] = v]
    BY <1>18 DEF StrayApply
  <2>3. memo' \in [Mutation -> {"none", "applied", "rejected"}]
    BY <2>1, <2>2
  <2> QED  BY <1>18, <2>3 DEF StrayApply, memory, history
<1>19. CASE UNCHANGED vars
  BY <1>19 DEF vars, memory, disk, history
<1>20. CASE RestoreFails \/ CallDropped
  <2>1. faults' \in 0 .. MaxFaults
    BY <1>20, BoundsAssumption DEF RestoreFails, CallDropped
  <2> QED  BY <1>20, <2>1 DEF RestoreFails, CallDropped, history
<1> QED
  BY <1>3, <1>4, <1>5, <1>6, <1>8, <1>9, <1>10, <1>12, <1>13, <1>14, <1>15, <1>16, <1>17,
     <1>18, <1>19, <1>20 DEF Next, Step, Fault
-----------------------------------------------------------------------------
(* What the actions do to the queue, the chain and the open request. *)

\* Both ways a chunk leaves the queue issue writes that append nothing.
LEMMA SettleEffect ==
    ASSUME Shape, Known, Settle
    PROVE  /\ queue' \in Seq(Made) /\ Range(queue') = Range(queue) \ Range(chunk)
           /\ chain' \in Seq(Writes(Made))
           /\ Issued(chain', "append") = Issued(chain, "append")
           /\ Issued(chain', "remove") = Issued(chain, "remove") \cup (Range(chunk) \ Rejected)
           /\ Issued(chain', "park") = Issued(chain, "park") \cup (Range(chunk) \cap Rejected)
           /\ Ordered(chain) => Ordered(chain')
<1> DEFINE parks == ParkEach(Only(chunk, Rejected))
           rest == <<Persist("remove", Range(chunk) \ Rejected)>>
<1>1. Made \in SUBSET Mutation
  BY MadeAreMutations
<1>2. queue \in Seq(Made) /\ chunk \in Seq(Made) /\ chain \in Seq(Writes(Made))
  BY DEF Known
<1>3. queue' \in Seq(Made) /\ Range(queue') = Range(queue) \ Range(chunk)
  BY <1>2, WithoutDrops DEF Settle
<1>4. Only(chunk, Rejected) \in Seq(Made) /\ Range(Only(chunk, Rejected)) = Range(chunk) \cap Rejected
  BY <1>2, OnlyKeeps
<1>5. /\ parks \in Seq(Writes(Made))
      /\ Issued(parks, "park") = Range(chunk) \cap Rejected
      /\ Issued(parks, "append") = {} /\ Issued(parks, "remove") = {}
      /\ \A j \in DOMAIN parks : parks[j].op = "park"
  BY <1>1, <1>4, ParkEachIs
<1>6. Range(chunk) \ Rejected \in SUBSET Made
  BY <1>2, RangeOfSeq
<1>7. /\ rest \in Seq(Writes(Made))
      /\ \A o : Issued(rest, o) = IF o = "remove" THEN Range(chunk) \ Rejected ELSE {}
  BY <1>1, <1>6, SingleWrite
<1>8. DOMAIN rest = {1} /\ rest[1].op = "remove"
  BY DEF Persist
<1>9. chain' = (chain \o parks) \o rest
  BY DEF Settle
<1> HIDE DEF parks, rest
<1>10. /\ chain \o parks \in Seq(Writes(Made))
       /\ \A op : Issued(chain \o parks, op) = Issued(chain, op) \cup Issued(parks, op)
  BY <1>2, <1>5, IssuedConcat
<1>11. /\ chain' \in Seq(Writes(Made))
       /\ \A op : Issued(chain', op) = Issued(chain \o parks, op) \cup Issued(rest, op)
  <2> DEFINE d == chain \o parks
  <2>1. d \in Seq(Writes(Made)) /\ rest \in Seq(Writes(Made)) /\ chain' = d \o rest
    BY <1>7, <1>9, <1>10
  <2> HIDE DEF d
  <2>2. /\ chain' \in Seq(Writes(Made))
        /\ \A op : Issued(chain', op) = Issued(d, op) \cup Issued(rest, op)
    BY <2>1, IssuedConcat
  <2> QED  BY <2>2 DEF d
<1>12. ASSUME Ordered(chain)
       PROVE  Ordered(chain')
  <2>1. Ordered(chain \o parks)
    BY <1>2, <1>5, <1>12, OrderedConcat
  <2> QED  BY <1>7, <1>8, <1>9, <1>10, <2>1, OrderedConcat
<1>13. Issued(chain', "append") = Issued(chain, "append")
  BY <1>5, <1>7, <1>10, <1>11
<1>14. Issued(chain', "remove") = Issued(chain, "remove") \cup (Range(chunk) \ Rejected)
  BY <1>5, <1>7, <1>10, <1>11
<1>15. Issued(chain', "park") = Issued(chain, "park") \cup (Range(chunk) \cap Rejected)
  BY <1>5, <1>7, <1>10, <1>11
<1> QED  BY <1>3, <1>11, <1>12, <1>13, <1>14, <1>15

\* A refused envelope parks its chunk, mutation by mutation, and drops it from
\* the queue; no removal is issued for it.
LEMMA EnvelopeEffect ==
    ASSUME Shape, Known, EnvelopeRefused
    PROVE  /\ queue' \in Seq(Made) /\ Range(queue') = Range(queue) \ Range(chunk)
           /\ chain' \in Seq(Writes(Made))
           /\ Issued(chain', "append") = Issued(chain, "append")
           /\ Issued(chain', "remove") = Issued(chain, "remove")
           /\ Issued(chain', "park") = Issued(chain, "park") \cup Range(chunk)
           /\ Ordered(chain) => Ordered(chain')
<1> DEFINE parks == ParkEach(chunk)
<1>1. Made \in SUBSET Mutation
  BY MadeAreMutations
<1>2. queue \in Seq(Made) /\ chunk \in Seq(Made) /\ chain \in Seq(Writes(Made))
  BY DEF Known
<1>3. queue' \in Seq(Made) /\ Range(queue') = Range(queue) \ Range(chunk)
  BY <1>2, WithoutDrops DEF EnvelopeRefused
<1>4. /\ parks \in Seq(Writes(Made))
      /\ Issued(parks, "park") = Range(chunk)
      /\ Issued(parks, "append") = {} /\ Issued(parks, "remove") = {}
      /\ \A j \in DOMAIN parks : parks[j].op = "park"
  BY <1>1, <1>2, ParkEachIs
<1>5. chain' = chain \o parks
  BY DEF EnvelopeRefused
<1> HIDE DEF parks
<1>6. /\ chain' \in Seq(Writes(Made))
      /\ \A op : Issued(chain', op) = Issued(chain, op) \cup Issued(parks, op)
  BY <1>2, <1>4, <1>5, IssuedConcat
<1>7. Ordered(chain) => Ordered(chain')
  BY <1>2, <1>4, <1>5, OrderedConcat
<1>8. Issued(chain', "append") = Issued(chain, "append") /\ Issued(chain', "remove") = Issued(chain, "remove")
  BY <1>4, <1>6
<1>9. Issued(chain', "park") = Issued(chain, "park") \cup Range(chunk)
  BY <1>4, <1>6
<1> QED  BY <1>3, <1>6, <1>7, <1>8, <1>9

\* A new mutation goes to the end of the queue and of the chain, where no write
\* names it yet.
LEMMA EnqueueEffect ==
    ASSUME Shape, Known, Enqueue
    PROVE  /\ InFlight(minted + 1)
           /\ queue' \in Seq(Made') /\ Range(queue') = Range(queue) \cup {minted + 1}
           /\ Len(queue') = Len(queue) + 1 /\ \A i \in DOMAIN queue : queue'[i] = queue[i]
           /\ chain' \in Seq(Writes(Made'))
           /\ Issued(chain', "append") = Issued(chain, "append") \cup {minted + 1}
           /\ Issued(chain', "remove") = Issued(chain, "remove")
           /\ Issued(chain', "park") = Issued(chain, "park")
           /\ \A op : minted + 1 \notin Issued(chain, op)
           /\ Ordered(chain) => Ordered(chain')
<1> DEFINE w == <<Persist("append", {minted + 1})>>
           N == 1 .. minted + 1
<1>1. minted \in Nat /\ minted' = minted + 1 /\ minted + 1 \in Mutation /\ Made' = N
  BY MadeAreMutations DEF Shape, Enqueue, Made
<1>2. InFlight(minted)
  BY DEF Known, InFlight, Made
<1>3. InFlight(minted + 1)
  BY <1>1, <1>2, InFlightGrows
<1>4. queue \in Seq(N) /\ chain \in Seq(Writes(N)) /\ minted + 1 \in N
  BY <1>1, <1>3 DEF InFlight
<1>5. N \in SUBSET Mutation
  BY <1>1, BoundsAssumption DEF Enqueue, Mutation
<1>6. /\ w \in Seq(Writes(N))
      /\ \A o : Issued(w, o) = IF o = "append" THEN {minted + 1} ELSE {}
  <2>1. {minted + 1} \in SUBSET N
    BY <1>4
  <2> HIDE DEF N
  <2> QED  BY <1>5, <2>1, SingleWrite
<1>7. DOMAIN w = {1} /\ w[1].muts = {minted + 1}
  BY DEF Persist
<1>8. queue' = Append(queue, minted + 1) /\ chain' = Append(chain, Persist("append", {minted + 1}))
  BY <1>1 DEF Enqueue
<1>9. Persist("append", {minted + 1}) \in Writes(N)
  BY <1>4 DEF Persist, Writes
<1>10. chain' = chain \o w
  <2> HIDE DEF N
  <2> QED  BY <1>4, <1>8, <1>9, AppendIsConcat
<1>11. \A i \in DOMAIN chain : minted + 1 \notin chain[i].muts
  <2>1. \A i \in DOMAIN chain : chain[i] \in Writes(1 .. minted)
    BY <1>2, LenProperties, ElementOfSeq DEF InFlight
  <2>2. minted + 1 \notin 1 .. minted
    BY <1>1
  <2> QED  BY <2>1, <2>2 DEF Writes
<1>12. \A op : minted + 1 \notin Issued(chain, op)
  BY <1>11 DEF Issued
<1> HIDE DEF w, N
<1>13. /\ queue' \in Seq(N) /\ Range(queue') = Range(queue) \cup {minted + 1}
  BY <1>4, <1>8, AppendRange
<1>14. Len(queue') = Len(queue) + 1 /\ \A i \in DOMAIN queue : queue'[i] = queue[i]
  BY <1>4, <1>8, AppendProperties, LenProperties
<1>15. /\ chain' \in Seq(Writes(N))
       /\ \A op : Issued(chain', op) = Issued(chain, op) \cup Issued(w, op)
  BY <1>4, <1>6, <1>10, IssuedConcat
<1>16. Ordered(chain) => Ordered(chain')
  <2>1. \A j \in DOMAIN w : j = 1 /\ \A i \in DOMAIN chain : chain[i].muts \cap w[j].muts = {}
    BY <1>7, <1>11
  <2> QED  BY <1>4, <1>6, <1>10, <2>1, OrderedConcat
<1>17. /\ Issued(chain', "append") = Issued(chain, "append") \cup {minted + 1}
       /\ Issued(chain', "remove") = Issued(chain, "remove")
       /\ Issued(chain', "park") = Issued(chain, "park")
  BY <1>6, <1>15
<1> QED  BY <1>1, <1>3, <1>12, <1>13, <1>14, <1>15, <1>16, <1>17

\* restore() puts everything of the pending store behind the queue.
LEMMA RestoreEffect ==
    ASSUME Shape, Known, Restore
    PROVE  /\ queue' \in Seq(Made) /\ Range(queue') = Range(queue) \cup pending
           /\ Len(queue') \in Nat /\ Len(queue) <= Len(queue')
           /\ \A i \in DOMAIN queue : queue'[i] = queue[i]
<1>1. /\ queue \in Seq(Made) /\ pending \in SUBSET Made /\ Made \in SUBSET Nat
      /\ IsFiniteSet(Made)
  BY MadeAreMutations DEF Known, Made
<1>2. pending \in SUBSET Nat /\ IsFiniteSet(pending)
  BY <1>1, FS_Subset
<1>3. Ascending(pending) \in Seq(pending) /\ Range(Ascending(pending)) = pending
  BY <1>2, AscendingLists
<1>4. Ascending(pending) \in Seq(Made)
  BY <1>1, <1>3, SeqMonotonic
<1>5. queue' = queue \o Ascending(pending)
  BY DEF Restore
<1>6. queue' \in Seq(Made) /\ Range(queue') = Range(queue) \cup pending
  BY <1>1, <1>3, <1>4, <1>5, ConcatProperties, RangeConcatenation
<1>7. /\ Len(queue') = Len(queue) + Len(Ascending(pending))
      /\ \A i \in 1 .. Len(queue) + Len(Ascending(pending)) :
             queue'[i] = IF i <= Len(queue) THEN queue[i] ELSE Ascending(pending)[i - Len(queue)]
  BY <1>1, <1>4, <1>5, ConcatProperties
<1>8. /\ Len(queue) \in Nat /\ Len(Ascending(pending)) \in Nat /\ DOMAIN queue = 1 .. Len(queue)
  BY <1>1, <1>4, LenProperties
<1> QED  BY <1>6, <1>7, <1>8

\* No step makes a queue, a request, a storage write or a store name a mutation
\* that was not minted.
LEMMA KnownStep ==
    ASSUME Shape, Known, [Next]_vars
    PROVE  Known'
<1>0. CASE Enqueue
  <2>1. /\ InFlight(minted + 1) /\ Made' = 1 .. minted + 1
        /\ queue' \in Seq(Made') /\ chain' \in Seq(Writes(Made'))
    BY <1>0, EnqueueEffect DEF Enqueue, Made
  <2>2. work' \in Seq(Made')
    BY <1>0, <2>1 DEF Enqueue, InFlight
  <2> QED  BY <1>0, <2>1, <2>2 DEF Enqueue, InFlight, Known, disk
<1>1. ASSUME minted' = minted
      PROVE  Made' = Made
  BY <1>1 DEF Made
<1>2. ASSUME NEW s \in Seq(Made), NEW from \in Nat
      PROVE  Slice(s, from) \in Seq(Made)
  BY SliceIs
<1>3. CASE PersistWrite
  <2>1. /\ Head(chain) \in Writes(Made) /\ Tail(chain) \in Seq(Writes(Made))
    BY <1>3, HeadRange DEF PersistWrite, Known
  <2>2. Head(chain).muts \subseteq Made
    BY <2>1 DEF Writes
  <2>3. pending' \subseteq Made /\ parked' \subseteq Made
    BY <1>3, <2>2 DEF PersistWrite, Stored, Known
  <2> QED  BY <1>1, <1>3, <2>1, <2>3 DEF PersistWrite, Known
<1>4. CASE PersistRefused
  <2>1. Tail(chain) \in Seq(Writes(Made))
    BY <1>4, HeadRange DEF PersistRefused, Known
  <2> QED  BY <1>1, <1>4, <2>1 DEF PersistRefused, Known, disk
<1>5. CASE Restore
  <2>1. queue' \in Seq(Made)
    BY <1>5, RestoreEffect
  <2> QED  BY <1>1, <1>5, <2>1 DEF Restore, Known, disk
<1>6. ASSUME NEW a, NEW b, RunDrain(a, b)
      PROVE  work' \in Seq(Made) /\ chunk' \in Seq(Made) /\ unsent' \in Seq(Made)
  BY <1>2, <1>6 DEF RunDrain, Known
<1>7. CASE Drain
  <2>1. UNCHANGED <<minted, queue, chain, disk, strays>>
    BY <1>7 DEF Drain
  <2>2. \/ RunDrain(Range(queue), owed.next)
        \/ UNCHANGED <<work, chunk, unsent>>
    BY <1>7 DEF Drain, DrainOrFollow
  <2>3. work' \in Seq(Made) /\ chunk' \in Seq(Made) /\ unsent' \in Seq(Made)
    BY <1>6, <2>2 DEF Known
  <2> QED  BY <1>1, <2>1, <2>3 DEF Known, disk
<1>8. CASE FollowUp
  <2>1. UNCHANGED <<minted, queue, chain, disk, strays>> /\ RunDrain(owed.next, {})
    BY <1>8 DEF FollowUp
  <2>2. work' \in Seq(Made) /\ chunk' \in Seq(Made) /\ unsent' \in Seq(Made)
    BY <1>6, <2>1
  <2> QED  BY <1>1, <2>1, <2>2 DEF Known, disk
<1>9. CASE ServerApply
  <2>1. unsent' \in Seq(Made)
    BY <1>9, HeadRange DEF ServerApply, Known
  <2> QED  BY <1>1, <1>9, <2>1 DEF ServerApply, Known, disk
<1>10. ASSUME NextChunk
       PROVE  chunk' \in Seq(Made) /\ unsent' \in Seq(Made)
  <2>1. offset' \in Nat
    BY <1>10, BoundsAssumption DEF NextChunk, Shape
  <2> QED  BY <1>2, <1>10, <2>1 DEF NextChunk, Known
<1>11. CASE PushReply
  <2>1. UNCHANGED <<minted, work, disk, strays>> /\ Settle /\ NextChunk
    BY <1>11 DEF PushReply
  <2>2. queue' \in Seq(Made) /\ chain' \in Seq(Writes(Made))
    BY <2>1, SettleEffect
  <2> QED  BY <1>1, <1>10, <2>1, <2>2 DEF Known, disk
<1>12. CASE EnvelopeRefused
  <2>1. UNCHANGED <<minted, work, disk, strays>> /\ NextChunk
    BY <1>12 DEF EnvelopeRefused
  <2>2. queue' \in Seq(Made) /\ chain' \in Seq(Writes(Made))
    BY <1>12, EnvelopeEffect
  <2> QED  BY <1>1, <1>10, <2>1, <2>2 DEF Known, disk
<1>13. CASE PushFail \/ PullDone \/ PullFail \/ Reload
  <2>1. <<>> \in Seq(Made) /\ <<>> \in Seq(Writes(Made))
    BY EmptySeq
  <2>2. /\ minted' = minted /\ UNCHANGED disk
        /\ work' = <<>> /\ chunk' = <<>> /\ unsent' = <<>>
        /\ queue' = queue \/ queue' = <<>>
        /\ chain' = chain \/ chain' = <<>>
        /\ strays' = strays \/ strays' = strays \cup {unsent}
    BY <1>13 DEF PushFail, PullDone, PullFail, Reload, EndDrain, Released
  <2> QED  BY <1>1, <2>1, <2>2 DEF Known, disk
<1>14. ASSUME NEW q \in strays, StrayApply(q)
       PROVE  Known'
  <2>1. Tail(q) \in Seq(Made)
    BY <1>14, HeadRange DEF StrayApply, Known
  <2> QED  BY <1>1, <1>14, <2>1 DEF StrayApply, Known, memory, disk
<1>15. CASE UNCHANGED vars
  BY <1>1, <1>15 DEF Known, vars, memory, disk
<1>16. CASE RestoreFails \/ CallDropped
  BY <1>1, <1>16 DEF Known, RestoreFails, CallDropped, disk
<1> QED
  BY <1>0, <1>3, <1>4, <1>5, <1>7, <1>8, <1>9, <1>11, <1>12, <1>13, <1>14, <1>15, <1>16
     DEF Next, Step, Fault

\* The server gives a verdict once, and of a mutation that was made; the device
\* does not unlearn a refusal.
LEMMA MemoStep ==
    ASSUME Shape, Known, [Next]_vars
    PROVE  /\ \A m \in Mutation : memo'[m] = memo[m] \/ (memo[m] = "none" /\ m \in Made)
           /\ Decided \subseteq Decided' /\ Answered \subseteq Answered'
           /\ ServerApply => Head(unsent) \in Decided'
<1>1. Made \in SUBSET Mutation /\ memo \in [Mutation -> {"none", "applied", "rejected"}]
  BY MadeAreMutations DEF Shape
<1>2. refused \subseteq refused'
  BY DEF Next, Step, Fault, vars, memory, disk, history, Enqueue, PersistWrite, PersistRefused,
         Restore, RestoreFails, CallDropped,
         Drain, FollowUp, ServerApply, PushReply, EnvelopeRefused, PushFail, PullDone,
         PullFail, Reload, StrayApply
<1>3. ASSUME NEW h \in Made, NEW v \in {"applied", "rejected"},
             memo' = IF memo[h] # "none" THEN memo ELSE [memo EXCEPT ![h] = v]
      PROVE  /\ \A m \in Mutation : memo'[m] = memo[m] \/ (memo[m] = "none" /\ m \in Made)
             /\ h \in Decided'
  <2>1. memo'[h] # "none" /\ \A m \in Mutation : m # h => memo'[m] = memo[m]
    BY <1>1, <1>3
  <2> QED  BY <1>1, <1>3, <2>1 DEF Decided
<1>4. CASE ServerApply
  <2>1. Head(unsent) \in Made
    BY <1>4, HeadRange DEF ServerApply, Known
  <2>2. PICK v \in {"applied", "rejected"} :
             memo' = IF memo[Head(unsent)] # "none" THEN memo ELSE [memo EXCEPT ![Head(unsent)] = v]
    BY <1>4 DEF ServerApply
  <2>3. /\ \A m \in Mutation : memo'[m] = memo[m] \/ (memo[m] = "none" /\ m \in Made)
        /\ Head(unsent) \in Decided'
    BY <1>3, <2>1, <2>2
  <2> QED  BY <1>2, <2>3 DEF Decided, Answered
<1>5. ASSUME NEW q \in strays, StrayApply(q)
      PROVE  \A m \in Mutation : memo'[m] = memo[m] \/ (memo[m] = "none" /\ m \in Made)
  <2>1. Head(q) \in Made
    BY <1>5, HeadRange DEF StrayApply, Known
  <2>2. PICK v \in {"applied", "rejected"} :
             memo' = IF memo[Head(q)] # "none" THEN memo ELSE [memo EXCEPT ![Head(q)] = v]
    BY <1>5 DEF StrayApply
  <2> QED  BY <1>3, <2>1, <2>2
<1>6. CASE ~ServerApply
  <2>1. memo' = memo \/ \E q \in strays : StrayApply(q)
    BY <1>6 DEF Next, Step, Fault, vars, Enqueue, PersistWrite, PersistRefused,
         Restore, RestoreFails, CallDropped,
         Drain, FollowUp, PushReply, EnvelopeRefused, PushFail, PullDone,
         PullFail, Reload
  <2>2. \A m \in Mutation : memo'[m] = memo[m] \/ (memo[m] = "none" /\ m \in Made)
    BY <1>5, <2>1
  <2> QED  BY <1>2, <1>6, <2>2 DEF Decided, Answered
<1> QED  BY <1>4, <1>6
-----------------------------------------------------------------------------
(* The open request, the chain and the copy on the device. *)

\* A mutation of the open request is on its way to the server or decided.
LEMMA RequestStep ==
    ASSUME Shape, Known, RequestAnswered, [Next]_vars
    PROVE  RequestAnswered'
<1>1. Decided \subseteq Decided' /\ (ServerApply => Head(unsent) \in Decided')
  BY MemoStep
<1>2. CASE ServerApply
  <2>1. Range(unsent) = {Head(unsent)} \cup Range(Tail(unsent))
    BY <1>2, HeadRange DEF ServerApply, Known
  <2>2. chunk' = chunk /\ unsent' = Tail(unsent)
    BY <1>2 DEF ServerApply
  <2> QED  BY <1>1, <1>2, <2>1, <2>2 DEF RequestAnswered
<1>3. CASE ~ServerApply
  <2>1. (chunk' = chunk /\ unsent' = unsent) \/ unsent' = chunk'
    BY <1>3 DEF Next, Step, Fault, vars, memory, Enqueue, PersistWrite, PersistRefused,
         Restore, RestoreFails, CallDropped,
         Drain, DrainOrFollow, FollowUp, RunDrain, PushReply, EnvelopeRefused, NextChunk,
         PushFail, PullDone, PullFail, Reload, EndDrain, Released, StrayApply
  <2> QED  BY <1>1, <2>1 DEF RequestAnswered
<1> QED  BY <1>2, <1>3

\* Every other action leaves the queue and its copy on the device alone.
LEMMA CopyUntouched ==
    ASSUME [Next]_vars, ~Enqueue, ~PersistWrite, ~PersistRefused, ~Restore, ~PushReply,
           ~EnvelopeRefused, ~Reload
    PROVE  UNCHANGED <<queue, chain, pending, parked, dropped>> /\ (restored = "read" <=> restored' = "read")
BY DEF Next, Step, Fault, vars, memory, disk, history, RestoreFails, Booting, CallDropped,
       Drain, FollowUp, ServerApply,
       PushFail, PullDone, PullFail, StrayApply

\* A removal is issued only for what was answered, and behind the append of
\* what it removes.
LEMMA RemovalsStep ==
    ASSUME Shape, Known, RequestAnswered, RemovalsDecided, AppendFirst, [Next]_vars
    PROVE  RemovalsDecided' /\ AppendFirst'
<1>0. SUFFICES Issued(chain', "remove") \subseteq Decided' /\ Ordered(chain')
  BY DEF RemovalsDecided, AppendFirst
<1>1. Decided \subseteq Decided'
  BY MemoStep
<1>2. Made \in SUBSET Mutation /\ chain \in Seq(Writes(Made))
  BY MadeAreMutations DEF Known
<1>3. Ordered(chain) /\ Issued(chain, "remove") \subseteq Decided
  BY DEF AppendFirst, RemovalsDecided
<1>4. CASE Enqueue
  BY <1>1, <1>3, <1>4, EnqueueEffect
<1>5. CASE PersistWrite \/ PersistRefused
  <2>1. chain # <<>> /\ chain' = Tail(chain)
    BY <1>5 DEF PersistWrite, PersistRefused
  <2>2. Ordered(chain') /\ Issued(chain', "remove") \subseteq Issued(chain, "remove")
    BY <1>2, <1>3, <2>1, IssuedTail
  <2> QED  BY <1>1, <1>3, <2>2
<1>6. CASE Restore
  BY <1>1, <1>3, <1>6 DEF Restore
<1>7. CASE PushReply
  <2>1. Settle /\ unsent = <<>>
    BY <1>7 DEF PushReply
  <2>2. Range(unsent) = {}
    BY <2>1 DEF Range
  <2>3. Range(chunk) \subseteq Decided
    BY <2>2 DEF RequestAnswered
  <2>4. /\ Issued(chain', "remove") = Issued(chain, "remove") \cup (Range(chunk) \ Rejected)
        /\ Ordered(chain')
    BY <1>3, <2>1, SettleEffect
  <2> QED  BY <1>1, <1>3, <2>3, <2>4
<1>8. CASE EnvelopeRefused
  BY <1>1, <1>3, <1>8, EnvelopeEffect
<1>9. CASE Reload
  <2>1. chain' = <<>>
    BY <1>9 DEF Reload
  <2> QED  BY <2>1 DEF Issued, Ordered
<1>10. CASE chain' = chain
  BY <1>1, <1>3, <1>10
<1> QED  BY <1>4, <1>5, <1>6, <1>7, <1>8, <1>9, <1>10, CopyUntouched

\* The queue and what the pending store will hold move together.
LEMMA MirrorsStep ==
    ASSUME Shape, Known, RemovalsDecided, AppendFirst, Mirrors, [Next]_vars
    PROVE  Mirrors'
<1> DEFINE app == Issued(chain, "append")
           rem == Issued(chain, "remove")
           prk == Issued(chain, "park")
           app2 == Issued(chain', "append")
           rem2 == Issued(chain', "remove")
           prk2 == Issued(chain', "park")
           last == (pending \cup app) \ (rem \cup prk)
           last2 == (pending' \cup app2) \ (rem2 \cup prk2)
<1>1. Decided \subseteq Decided'
  BY MemoStep
<1>2. Made \in SUBSET Mutation /\ chain \in Seq(Writes(Made)) /\ pending \subseteq Made
  BY MadeAreMutations DEF Known
<1>3. Ordered(chain) /\ rem \subseteq Decided
  BY DEF AppendFirst, RemovalsDecided
<1>4. ~dropped => /\ last \subseteq Range(queue) \cup (IF restored = "read" THEN {} ELSE pending)
                  /\ Range(queue) \subseteq last \cup Decided \cup parked \cup prk
  BY DEF Mirrors, Lasting
<1>5. SUFFICES ASSUME ~dropped'
               PROVE  /\ last2 \subseteq Range(queue') \cup (IF restored' = "read" THEN {} ELSE pending')
                      /\ Range(queue') \subseteq last2 \cup Decided' \cup parked' \cup prk2
  BY DEF Mirrors, Lasting
<1>6. CASE Enqueue
  <2>1. /\ Range(queue') = Range(queue) \cup {minted + 1}
        /\ app2 = app \cup {minted + 1} /\ rem2 = rem /\ prk2 = prk
        /\ minted + 1 \notin rem /\ minted + 1 \notin prk
    BY <1>6, EnqueueEffect
  <2>2. UNCHANGED <<pending, parked, dropped>> /\ (restored = "read" <=> restored' = "read")
    BY <1>6 DEF Enqueue, disk, history
  <2> HIDE DEF app, rem, prk, app2, rem2, prk2
  <2> QED  BY <1>1, <1>4, <1>5, <2>1, <2>2
<1>7. CASE PersistWrite
  <2> DEFINE w == Head(chain)
  <2>1. /\ chain # <<>> /\ chain' = Tail(chain) /\ UNCHANGED <<queue, restored, dropped>>
        /\ Stored(w)
    BY <1>7 DEF PersistWrite
  <2>2. /\ w \in Writes(Made)
        /\ \A op : Issued(chain, op) = Issued(chain', op) \cup (IF w.op = op THEN w.muts ELSE {})
        /\ w.muts \cap app2 = {}
    BY <1>2, <1>3, <2>1, IssuedTail
  <2>3. w.op \in {"append", "remove", "park"}
    BY <2>2 DEF Writes
  <2> HIDE DEF w
  <2>4. CASE w.op = "append"
    <3>1. app = app2 \cup w.muts /\ rem = rem2 /\ prk = prk2
      BY <2>2, <2>4
    <3>2. pending' = pending \cup w.muts /\ parked' = parked
      BY <2>1, <2>4 DEF Stored
    <3> HIDE DEF app, rem, prk, app2, rem2, prk2
    <3> QED  BY <1>1, <1>4, <1>5, <2>1, <3>1, <3>2
  <2>5. CASE w.op = "remove"
    <3>1. app = app2 /\ rem = rem2 \cup w.muts /\ prk = prk2
      BY <2>2, <2>5
    <3>2. pending' = pending \ w.muts /\ parked' = parked
      BY <2>1, <2>5 DEF Stored
    <3> HIDE DEF app, rem, prk, app2, rem2, prk2
    <3>3. last2 = last
      BY <2>2, <3>1, <3>2
    <3> QED  BY <1>1, <1>4, <1>5, <2>1, <3>1, <3>2, <3>3
  <2>6. CASE w.op = "park"
    <3>1. app = app2 /\ rem = rem2 /\ prk = prk2 \cup w.muts
      BY <2>2, <2>6
    <3>2. pending' = pending \ w.muts /\ parked' = parked \cup w.muts
      BY <2>1, <2>6 DEF Stored
    <3> HIDE DEF app, rem, prk, app2, rem2, prk2
    <3>3. last2 = last
      BY <2>2, <3>1, <3>2
    <3> QED  BY <1>1, <1>4, <1>5, <2>1, <3>1, <3>2, <3>3
  <2> QED  BY <2>3, <2>4, <2>5, <2>6
<1>8. CASE PersistRefused
  BY <1>5, <1>8 DEF PersistRefused
<1>9. CASE Restore
  <2>1. Range(queue') = Range(queue) \cup pending
    BY <1>9, RestoreEffect
  <2>2. restored' = "read" /\ UNCHANGED <<pending, parked, dropped, chain>>
    BY <1>9 DEF Restore, disk, history
  <2>3. app2 = app /\ rem2 = rem /\ prk2 = prk
    BY <2>2
  <2> HIDE DEF app, rem, prk, app2, rem2, prk2
  <2> QED  BY <1>1, <1>3, <1>4, <1>5, <2>1, <2>2, <2>3
<1>10. CASE PushReply
  <2>1. Settle /\ UNCHANGED <<pending, parked, restored, dropped>>
    BY <1>10 DEF PushReply, disk
  <2>2. /\ Range(queue') = Range(queue) \ Range(chunk)
        /\ app2 = app
        /\ rem2 = rem \cup (Range(chunk) \ Rejected)
        /\ prk2 = prk \cup (Range(chunk) \cap Rejected)
    BY <2>1, SettleEffect
  <2> HIDE DEF app, rem, prk, app2, rem2, prk2
  <2> QED  BY <1>1, <1>4, <1>5, <2>1, <2>2
<1>11. CASE EnvelopeRefused
  <2>1. UNCHANGED <<pending, parked, restored, dropped>>
    BY <1>11 DEF EnvelopeRefused, disk
  <2>2. /\ Range(queue') = Range(queue) \ Range(chunk)
        /\ app2 = app /\ rem2 = rem
        /\ prk2 = prk \cup Range(chunk)
    BY <1>11, EnvelopeEffect
  <2> HIDE DEF app, rem, prk, app2, rem2, prk2
  <2> QED  BY <1>1, <1>4, <1>5, <2>1, <2>2
<1>12. CASE Reload
  <2>1. chain' = <<>> /\ queue' = <<>> /\ restored' = "ahead" /\ UNCHANGED <<pending, parked>>
    BY <1>12 DEF Reload, disk
  <2>2. app2 = {} /\ Range(queue') = {}
    BY <2>1 DEF Issued, Range
  <2> HIDE DEF app2, rem2, prk2
  <2> QED  BY <2>1, <2>2
<1>13. CASE UNCHANGED <<queue, chain, pending, parked, dropped>> /\ (restored = "read" <=> restored' = "read")
  <2>1. app2 = app /\ rem2 = rem /\ prk2 = prk
    BY <1>13
  <2> HIDE DEF app, rem, prk, app2, rem2, prk2
  <2> QED  BY <1>1, <1>4, <1>5, <1>13, <2>1
<1> QED
  BY <1>6, <1>7, <1>8, <1>9, <1>10, <1>11, <1>12, <1>13, CopyUntouched
-----------------------------------------------------------------------------
(* What a drain owes its callers. *)

\* The chunk after the open request takes over the first of what is ahead.
LEMMA NextChunkTakesOver ==
    ASSUME Shape, Known, NextChunk, work' = work
    PROVE  /\ Ahead \subseteq Range(chunk') \cup Ahead'
           /\ phase' = "pull" => Ahead = {}
           /\ phase' \in {"push", "pull"} /\ aliased' = FALSE
<1>1. /\ offset \in Nat /\ MaxBatch \in Nat /\ offset' = offset + MaxBatch /\ offset' \in Nat
      /\ chunk' = Slice(work, offset') /\ aliased' = FALSE
      /\ phase' = IF offset' < Len(work) THEN "push" ELSE "pull"
  BY BoundsAssumption DEF Shape, NextChunk
<1>2. /\ work \in Seq(Made) /\ Len(work) \in Nat /\ DOMAIN work = 1 .. Len(work)
  BY LenProperties DEF Known
<1>3. ASSUME NEW j \in DOMAIN work, offset + MaxBatch < j
      PROVE  work[j] \in Range(chunk') \/ offset' + MaxBatch < j
  <2>1. j \in Nat
    BY <1>2
  <2>2. CASE j <= offset' + MaxBatch
    <3>1. \A i \in DOMAIN work : offset' < i /\ i <= offset' + MaxBatch => work[i] \in Range(chunk')
      BY <1>1, <1>2, SliceIs
    <3> QED  BY <1>1, <1>3, <2>2, <3>1
  <2>3. CASE ~(j <= offset' + MaxBatch)
    BY <1>1, <2>1, <2>3
  <2> QED  BY <2>2, <2>3
<1>4. Ahead \subseteq Range(chunk') \cup Ahead'
  BY <1>3 DEF Ahead
<1>5. ASSUME phase' = "pull"
      PROVE  Ahead = {}
  <2>1. ~(offset + MaxBatch < Len(work))
    BY <1>1, <1>5
  <2>2. \A j \in DOMAIN work : ~(offset + MaxBatch < j)
    BY <1>1, <1>2, <2>1
  <2> QED  BY <2>2 DEF Ahead
<1> QED  BY <1>1, <1>4, <1>5

\* A drain that starts has its whole queue in the first chunk or ahead of it.
LEMMA RunDrainTakesAll ==
    ASSUME Known, NEW a, NEW b, RunDrain(a, b)
    PROVE  /\ Range(queue) \subseteq Range(chunk') \cup Ahead'
           /\ phase' = "pull" => Range(queue) = {}
           /\ phase' \in {"push", "pull"} /\ work' = queue
           /\ owed'.running = a /\ owed'.next = b
<1>1. /\ work' = queue /\ offset' = 0 /\ chunk' = Slice(queue, 0)
      /\ phase' = IF queue # <<>> THEN "push" ELSE "pull"
      /\ owed' = [running |-> a, next |-> b]
  BY DEF RunDrain
<1>2. /\ queue \in Seq(Made) /\ Len(queue) \in Nat /\ DOMAIN queue = 1 .. Len(queue)
      /\ MaxBatch \in Nat
  BY LenProperties, BoundsAssumption DEF Known
<1>3. \A i \in DOMAIN queue : 0 < i /\ i <= 0 + MaxBatch => queue[i] \in Range(chunk')
  BY <1>1, <1>2, SliceIs
<1>4. \A i \in DOMAIN queue : queue[i] \in Range(chunk') \/ offset' + MaxBatch < i
  BY <1>1, <1>2, <1>3
<1>5. Range(queue) \subseteq Range(chunk') \cup Ahead'
  BY <1>1, <1>4 DEF Range, Ahead
<1>6. phase' = "pull" => Range(queue) = {}
  BY <1>1 DEF Range
<1> QED  BY <1>1, <1>5, <1>6

\* An array that grows at its end keeps what is ahead.
LEMMA AheadKept ==
    ASSUME Known, NEW q, q \in Seq(Made'), Len(queue) <= Len(q), \A i \in DOMAIN queue : q[i] = queue[i],
           aliased => work = queue, work' = IF aliased THEN q ELSE work, offset' = offset
    PROVE  Ahead \subseteq Ahead'
<1>1. CASE aliased
  <2>1. /\ Len(queue) \in Nat /\ DOMAIN queue = 1 .. Len(queue)
        /\ Len(q) \in Nat /\ DOMAIN q = 1 .. Len(q)
    BY LenProperties DEF Known
  <2>2. \A i \in DOMAIN queue : i \in DOMAIN q /\ q[i] = queue[i]
    BY <2>1
  <2> QED  BY <1>1, <2>2 DEF Ahead
<1>2. CASE ~aliased
  BY <1>2 DEF Ahead
<1> QED  BY <1>1, <1>2

\* What a drain owes its callers is answered, in the open request, or still
\* ahead of it; what is owed by the follow-up is answered or queued.
LEMMA OwesStep ==
    ASSUME Shape, Known, RequestAnswered, Owes, [Next]_vars
    PROVE  Owes'
<1>1. Answered \subseteq Answered'
  BY MemoStep
<1>2. /\ phase = "push" => owed.running \subseteq Answered \cup Range(chunk) \cup Ahead
      /\ phase = "pull" => owed.running \subseteq Answered
      /\ owed.next \subseteq Answered \cup Range(queue)
      /\ aliased => work = queue
      /\ phase \in {"idle", "push", "pull"}
  BY DEF Owes, Shape
<1>3. CASE Enqueue
  <2>1. /\ queue' \in Seq(Made') /\ Range(queue') = Range(queue) \cup {minted + 1}
        /\ Len(queue') = Len(queue) + 1 /\ \A i \in DOMAIN queue : queue'[i] = queue[i]
    BY <1>3, EnqueueEffect
  <2>2. /\ UNCHANGED <<phase, chunk, offset, aliased, owed>>
        /\ work' = IF aliased THEN queue' ELSE work
    BY <1>3 DEF Enqueue, history
  <2>3. Len(queue) \in Nat
    BY LenProperties DEF Known
  <2>4. Ahead \subseteq Ahead'
    BY <1>2, <2>1, <2>2, <2>3, AheadKept
  <2> QED  BY <1>1, <1>2, <2>1, <2>2, <2>4 DEF Owes
<1>4. CASE Restore
  <2>1. /\ queue' \in Seq(Made) /\ Range(queue') = Range(queue) \cup pending
        /\ Len(queue) <= Len(queue') /\ \A i \in DOMAIN queue : queue'[i] = queue[i]
    BY <1>4, RestoreEffect
  <2>2. /\ UNCHANGED <<minted, phase, chunk, offset, aliased, owed>>
        /\ work' = IF aliased THEN queue' ELSE work
    BY <1>4 DEF Restore, history
  <2>3. queue' \in Seq(Made')
    BY <2>1, <2>2 DEF Made
  <2>4. Ahead \subseteq Ahead'
    BY <1>2, <2>1, <2>2, <2>3, AheadKept
  <2> QED  BY <1>1, <1>2, <2>1, <2>2, <2>4 DEF Owes
<1>5. CASE Drain
  <2>1. queue' = queue
    BY <1>5 DEF Drain
  <2>2. CASE phase = "idle"
    <3>1. RunDrain(Range(queue), owed.next)
      BY <1>5, <2>2 DEF Drain, DrainOrFollow
    <3>2. /\ Range(queue) \subseteq Range(chunk') \cup Ahead'
          /\ phase' = "pull" => Range(queue) = {}
          /\ work' = queue /\ owed'.running = Range(queue) /\ owed'.next = owed.next
      BY <3>1, RunDrainTakesAll
    <3> QED  BY <1>1, <1>2, <2>1, <3>2 DEF Owes
  <2>3. CASE phase # "idle"
    <3>1. /\ UNCHANGED <<work, aliased, offset, phase, chunk>>
          /\ owed' = [owed EXCEPT !.next = owed.next \cup Range(queue)]
      BY <1>5, <2>3 DEF Drain, DrainOrFollow
    <3>2. owed'.running = owed.running /\ owed'.next = owed.next \cup Range(queue)
      BY <3>1 DEF Shape
    <3>3. Ahead' = Ahead
      BY <3>1 DEF Ahead
    <3> QED  BY <1>1, <1>2, <2>1, <3>1, <3>2, <3>3 DEF Owes
  <2> QED  BY <2>2, <2>3
<1>6. CASE FollowUp
  <2>1. queue' = queue /\ RunDrain(owed.next, {})
    BY <1>6 DEF FollowUp
  <2>2. /\ Range(queue) \subseteq Range(chunk') \cup Ahead'
        /\ phase' = "pull" => Range(queue) = {}
        /\ work' = queue /\ owed'.running = owed.next /\ owed'.next = {}
    BY <2>1, RunDrainTakesAll
  <2> QED  BY <1>1, <1>2, <2>1, <2>2 DEF Owes
<1>7. ASSUME NextChunk, phase = "push", UNCHANGED <<work, owed>>, Range(chunk) \subseteq Answered',
             Range(queue') = Range(queue) \ Range(chunk)
      PROVE  Owes'
  <2>1. /\ Ahead \subseteq Range(chunk') \cup Ahead'
        /\ phase' = "pull" => Ahead = {}
        /\ aliased' = FALSE
    BY <1>7, NextChunkTakesOver
  <2>2. phase' = "push" => owed'.running \subseteq Answered' \cup Range(chunk') \cup Ahead'
    BY <1>1, <1>2, <1>7, <2>1
  <2>3. phase' = "pull" => owed'.running \subseteq Answered'
    BY <1>1, <1>2, <1>7, <2>1
  <2>4. owed'.next \subseteq Answered' \cup Range(queue')
    BY <1>1, <1>2, <1>7
  <2> QED  BY <2>1, <2>2, <2>3, <2>4 DEF Owes
<1>8. CASE PushReply
  <2>1. NextChunk /\ phase = "push" /\ UNCHANGED <<work, owed>> /\ unsent = <<>> /\ Settle
    BY <1>8 DEF PushReply
  <2>2. Range(unsent) = {}
    BY <2>1 DEF Range
  <2>3. Range(chunk) \subseteq Answered'
    BY <1>1, <2>2 DEF RequestAnswered, Answered
  <2>4. Range(queue') = Range(queue) \ Range(chunk)
    BY <2>1, SettleEffect
  <2> QED  BY <1>7, <2>1, <2>3, <2>4
<1>9. CASE EnvelopeRefused
  <2>1. NextChunk /\ phase = "push" /\ UNCHANGED <<work, owed>> /\ refused' = refused \cup Range(chunk)
    BY <1>9 DEF EnvelopeRefused
  <2>2. Range(chunk) \subseteq Answered'
    BY <2>1 DEF Answered
  <2>3. Range(queue') = Range(queue) \ Range(chunk)
    BY <1>9, EnvelopeEffect
  <2> QED  BY <1>7, <2>1, <2>2, <2>3
<1>10. CASE PushFail \/ PullDone \/ PullFail
  <2>1. phase' = "idle" /\ aliased' = FALSE /\ queue' = queue /\ owed' = [owed EXCEPT !.running = {}]
    BY <1>10 DEF PushFail, PullDone, PullFail, EndDrain, Released
  <2>2. owed'.next = owed.next
    BY <2>1 DEF Shape
  <2> QED  BY <1>1, <1>2, <2>1, <2>2 DEF Owes
<1>11. CASE Reload
  <2>1. phase' = "idle" /\ aliased' = FALSE /\ owed' = [running |-> {}, next |-> {}]
    BY <1>11 DEF Reload, Released
  <2> QED  BY <2>1 DEF Owes
<1>12. CASE UNCHANGED <<queue, work, aliased, offset, phase, chunk, owed>>
  <2>1. Ahead' = Ahead
    BY <1>12 DEF Ahead
  <2> QED  BY <1>1, <1>2, <1>12, <2>1 DEF Owes
<1>13. CASE PersistWrite \/ PersistRefused \/ ServerApply \/ (\E q \in strays : StrayApply(q))
            \/ RestoreFails \/ CallDropped \/ UNCHANGED vars
  BY <1>12, <1>13 DEF PersistWrite, PersistRefused, RestoreFails, CallDropped,
       ServerApply, StrayApply, vars, memory, history
<1> QED
  BY <1>3, <1>4, <1>5, <1>6, <1>8, <1>9, <1>10, <1>11, <1>13 DEF Next, Step, Fault
-----------------------------------------------------------------------------
(* The theorems. *)

\* The inductive invariant holds of a fresh device,
LEMMA OutboxInit == Init => OutboxInv
<1> SUFFICES ASSUME Init
             PROVE  OutboxInv
  OBVIOUS
<1> USE DEF Init
<1>1. Shape
  <2>1. minted \in 0 .. MaxMutations /\ faults \in 0 .. MaxFaults /\ offset \in Nat
    BY BoundsAssumption
  <2>2. memo \in [Mutation -> {"none", "applied", "rejected"}]
    OBVIOUS
  <2> QED  BY <2>1, <2>2 DEF Shape
<1>2. Known
  <2>1. <<>> \in Seq(Made) /\ <<>> \in Seq(Writes(Made))
    BY EmptySeq
  <2> QED  BY <2>1 DEF Known
<1>3. Range(<<>>) = {} /\ \A op : Issued(<<>>, op) = {}
  BY DEF Range, Issued
<1>4. RequestAnswered /\ RemovalsDecided /\ AppendFirst /\ Mirrors /\ Owes
  BY <1>3 DEF RequestAnswered, RemovalsDecided, AppendFirst, Ordered, Mirrors, Lasting, Owes
<1> QED  BY <1>1, <1>2, <1>4 DEF OutboxInv

\* and every step keeps it.
LEMMA OutboxStep == OutboxInv /\ [Next]_vars => OutboxInv'
BY ShapeStep, KnownStep, RequestStep, RemovalsStep, MirrorsStep, OwesStep DEF OutboxInv

\* The inductive invariant holds throughout.
LEMMA OutboxAlways == Spec => []OutboxInv
BY OutboxInit, OutboxStep, PTL DEF Spec

\* Type correctness of the outbox: above all, no queue, request, storage write
\* or store ever names a mutation that was not minted.
THEOREM OutboxTypeOK == Spec => []TypeOK
<1>1. OutboxInv => TypeOK
  BY TypesFromParts DEF OutboxInv
<1> QED  BY <1>1, OutboxAlways, PTL

\* Whatever is refused, lost, repeated or reloaded, once the chain of storage
\* writes has settled the device's copy and the live queue agree but for what
\* was answered while restore() was reading it back.
THEOREM OutboxDiskMirrorsQueue == Spec => []DiskMirrorsQueue
<1>1. ASSUME OutboxInv, chain = <<>>, restored = "read", ~dropped
      PROVE  /\ pending \subseteq Range(queue)
             /\ \A m \in Range(queue) \ pending : memo[m] # "none" \/ m \in parked
  <2>1. \A op : Issued(chain, op) = {}
    BY <1>1 DEF Issued
  <2>2. Lasting = pending
    BY <2>1 DEF Lasting
  <2>3. pending \subseteq Range(queue) /\ Range(queue) \subseteq pending \cup Decided \cup parked
    BY <1>1, <2>1, <2>2 DEF OutboxInv, Mirrors
  <2> QED  BY <2>3 DEF Decided
<1>2. OutboxInv => DiskMirrorsQueue
  BY <1>1 DEF DiskMirrorsQueue
<1> QED  BY <1>2, OutboxAlways, PTL

\* A drain that ends well has an answer to everything its callers had queued
\* when they asked for it, however many chunks, edits and late callers come in
\* between.
THEOREM OutboxDrainAnswersItsCallers == Spec => DrainAnswersItsCallers
<1> DEFINE Well == phase = "pull" /\ phase' = "idle" /\ faults' = faults
                     => \A m \in owed.running : memo[m] # "none" \/ m \in refused
<1>1. OutboxInv => (phase = "pull" => owed.running \subseteq Decided \cup refused)
  BY DEF OutboxInv, Owes, Answered
<1>2. OutboxInv /\ [Next]_vars => [Well]_vars
  BY <1>1 DEF Decided
<1> QED  BY <1>2, OutboxAlways, PTL DEF Spec, DrainAnswersItsCallers

\* The outbox implements the courier: the refinement, for every number of
\* mutations. A kept mutation goes only with a verdict (RemovalsDecided) or as
\* evidence, and a verdict is given once, of what was made (Known).
THEOREM OutboxIsCourier == Spec => IsCourier
<1>1. Init => Delivery!CourierInit
  <2>1. ASSUME Init, NEW m \in Mutation
        PROVE  Place(m) = "unmade"
    BY <2>1 DEF Init, Place, Mutation
  <2> QED  BY <2>1 DEF Init, Delivery!CourierInit
<1>2. ASSUME OutboxInv, [Next]_vars
      PROVE  Delivery!CourierNext
  <2>1. /\ minted \in Nat /\ pending \subseteq Made /\ parked \subseteq Made
        /\ minted' \in Nat /\ pending' \subseteq Made' /\ parked' \subseteq Made'
        /\ Made \in SUBSET Mutation
    BY <1>2, OutboxStep, MadeAreMutations DEF OutboxInv, Shape, Known
  <2>2. ASSUME NEW m \in Mutation
        PROVE  Delivery!Carried(m)
    <3>1. \/ Place(m)' = Place(m)
          \/ <<Place(m), Place(m)'>> \in
                {<<"unmade", "loose">>, <<"loose", "kept">>, <<"loose", "parked">>, <<"kept", "parked">>}
          \/ Place(m) = "kept" /\ Place(m)' = "loose" /\ memo[m] # "none"
      <4>1. CASE Enqueue
        <5>1. pending' = pending /\ parked' = parked /\ minted' = minted + 1
          BY <4>1 DEF Enqueue, disk
        <5>2. m \in Made \/ (m \notin pending /\ m \notin parked /\ m > minted)
          BY <2>1 DEF Made, Mutation
        <5> QED  BY <2>1, <5>1, <5>2 DEF Place, Made, Mutation
      <4>2. CASE PersistWrite
        <5> DEFINE w == Head(chain)
        <5>1. chain # <<>> /\ Stored(w) /\ minted' = minted
          BY <4>2 DEF PersistWrite
        <5>2. /\ w \in Writes(Made)
              /\ \A op : w.op = op => w.muts \subseteq Issued(chain, op)
          BY <1>2, <2>1, <5>1, IssuedTail DEF OutboxInv, Known
        <5>3. w.op \in {"append", "remove", "park"} /\ w.muts \subseteq Made
          BY <5>2 DEF Writes
        <5>4. w.op = "remove" => w.muts \subseteq Decided
          BY <1>2, <5>2 DEF OutboxInv, RemovalsDecided
        <5> HIDE DEF w
        <5>5. m \in Made => ~(m > minted)
          BY <2>1 DEF Made
        <5>6. CASE m \notin w.muts
          BY <5>1, <5>6 DEF Stored, Place
        <5>7. CASE m \in w.muts /\ w.op = "append"
          BY <5>1, <5>3, <5>5, <5>7 DEF Stored, Place
        <5>8. CASE m \in w.muts /\ w.op = "remove"
          BY <5>1, <5>3, <5>4, <5>5, <5>8 DEF Stored, Place, Decided
        <5>9. CASE m \in w.muts /\ w.op = "park"
          BY <5>1, <5>3, <5>5, <5>9 DEF Stored, Place
        <5> QED  BY <5>3, <5>6, <5>7, <5>8, <5>9
      <4>3. CASE ~Enqueue /\ ~PersistWrite
        <5>1. UNCHANGED <<minted, pending, parked>>
          BY <1>2, <4>3 DEF Next, Step, Fault, vars, memory, disk, PersistRefused,
             Restore, RestoreFails, CallDropped,
             Drain, FollowUp, ServerApply, PushReply, EnvelopeRefused, PushFail, PullDone,
             PullFail, Reload, StrayApply
        <5> QED  BY <5>1 DEF Place
      <4> QED  BY <4>1, <4>2, <4>3
    <3> QED  BY <3>1 DEF Delivery!Carried
  <2>3. ASSUME NEW m \in Mutation
        PROVE  Delivery!Judged(m)
    <3>1. memo'[m] = memo[m] \/ (memo[m] = "none" /\ m \in Made)
      BY <1>2, MemoStep DEF OutboxInv
    <3>2. m \in Made => Place(m) # "unmade"
      BY <2>1 DEF Made, Place
    <3> QED  BY <3>1, <3>2 DEF Delivery!Judged
  <2> QED  BY <2>2, <2>3 DEF Delivery!CourierNext
<1> QED  BY <1>1, <1>2, OutboxAlways, PTL DEF Spec, IsCourier, Delivery!CourierSpec
==============================================================================
