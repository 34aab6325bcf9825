----------------------------- MODULE HLC_proofs -----------------------------
(***************************************************************************)
(* The generator's promise for any set of devices, any counter width and   *)
(* any wall clock.                                                         *)
(***************************************************************************)
EXTENDS HLC, TLAPS

Inv == TypeOK /\ SeenBelowLast

\* Next keeps the pair within its widths and moves it strictly up.
LEMMA AdvanceUp ==
    ASSUME NEW l \in [millis : Nat, counter : 0 .. CounterLimit],
           NEW now \in Nat
    PROVE  /\ Advance(l, now) \in [millis : Nat, counter : 0 .. CounterLimit]
           /\ \/ l.millis < Advance(l, now).millis
              \/ /\ l.millis = Advance(l, now).millis
                 /\ l.counter < Advance(l, now).counter
  BY LimitIsNat DEF Advance

\* Observe keeps the pair within its widths, never moves it down, and leaves it
\* at or above the observed stamp.
LEMMA FoldUp ==
    ASSUME NEW l \in [millis : Nat, counter : 0 .. CounterLimit],
           NEW h \in Stamp, Valid(h)
    PROVE  /\ Fold(l, h) \in [millis : Nat, counter : 0 .. CounterLimit]
           /\ \/ l.millis < Fold(l, h).millis
              \/ /\ l.millis = Fold(l, h).millis
                 /\ l.counter <= Fold(l, h).counter
           /\ \/ h.millis < Fold(l, h).millis
              \/ /\ h.millis = Fold(l, h).millis
                 /\ h.counter <= Fold(l, h).counter
  BY LimitIsNat DEF Fold, Stamp, Valid

\* A generator that has just started has seen nothing and issued nothing.
LEMMA InitInv == Init => Inv
  BY LimitIsNat DEF Init, Inv, TypeOK, SeenBelowLast, Fresh

\* Next, Observe and a reload each keep every seen stamp below the generator.
LEMMA StepInv == Inv /\ [Step]_vars => Inv'
<1> SUFFICES ASSUME Inv, [Step]_vars PROVE Inv'
  OBVIOUS
<1> USE DEF Inv, TypeOK, SeenBelowLast
<1>1. ASSUME NEW d \in Device, Next(d) PROVE Inv'
  <2>1. PICK now \in 0 .. MaxMillis :
          /\ last' = [last EXCEPT ![d] = Advance(last[d], now)]
          /\ seen' = [seen EXCEPT ![d] = @ \cup {StampOf(Advance(last[d], now), d)}]
          /\ wire' = wire \cup {StampOf(Advance(last[d], now), d)}
    BY <1>1 DEF Next
  <2> DEFINE l == Advance(last[d], now)
  <2>2. /\ l \in [millis : Nat, counter : 0 .. CounterLimit]
        /\ \/ last[d].millis < l.millis
           \/ last[d].millis = l.millis /\ last[d].counter < l.counter
    <3>1. last[d] \in [millis : Nat, counter : 0 .. CounterLimit] /\ now \in Nat
      BY MaxMillisIsNat
    <3> QED BY <3>1, AdvanceUp
  <2>3. StampOf(l, d) \in Stamp /\ Valid(StampOf(l, d))
    BY <2>2, LimitIsNat DEF StampOf, Stamp, Valid
  <2>4. TypeOK'
    BY <2>1, <2>2, <2>3
  <2>5. SeenBelowLast'
    <3> SUFFICES ASSUME NEW e \in Device, NEW s \in seen'[e]
                 PROVE  \/ s.millis < last'[e].millis
                        \/ s.millis = last'[e].millis /\ s.counter <= last'[e].counter
      OBVIOUS
    <3>1. CASE e # d
      BY <3>1, <2>1
    <3>2. CASE e = d /\ s \in seen[d]
      <4>1. s \in Stamp /\ last[d].millis \in Nat /\ last[d].counter \in Nat
        BY <3>2, LimitIsNat
      <4> QED BY <4>1, <3>2, <2>1, <2>2, LimitIsNat DEF Stamp
    <3>3. CASE e = d /\ s = StampOf(l, d)
      BY <3>3, <2>1, <2>2, LimitIsNat DEF StampOf
    <3> QED BY <3>1, <3>2, <3>3, <2>1
  <2> QED BY <2>4, <2>5
<1>2. ASSUME NEW d \in Device, Restart(d) PROVE Inv'
  BY <1>2, LimitIsNat DEF Restart, Fresh
<1>3. ASSUME NEW d \in Device, NEW h \in wire, Observe(d, h) PROVE Inv'
  <2>1. h \in Stamp /\ Valid(h) /\ last[d] \in [millis : Nat, counter : 0 .. CounterLimit]
    OBVIOUS
  <2> DEFINE l == Fold(last[d], h)
  <2>2. /\ l \in [millis : Nat, counter : 0 .. CounterLimit]
        /\ \/ last[d].millis < l.millis
           \/ last[d].millis = l.millis /\ last[d].counter <= l.counter
        /\ \/ h.millis < l.millis
           \/ h.millis = l.millis /\ h.counter <= l.counter
    BY <2>1, FoldUp
  <2>3. TypeOK'
    BY <1>3, <2>2 DEF Observe
  <2>4. SeenBelowLast'
    <3> SUFFICES ASSUME NEW e \in Device, NEW s \in seen'[e]
                 PROVE  \/ s.millis < last'[e].millis
                        \/ s.millis = last'[e].millis /\ s.counter <= last'[e].counter
      OBVIOUS
    <3>1. CASE e # d
      BY <3>1, <1>3 DEF Observe
    <3>2. CASE e = d /\ s \in seen[d]
      <4>1. s \in Stamp
        BY <3>2
      <4> QED BY <4>1, <3>2, <1>3, <2>1, <2>2, LimitIsNat DEF Stamp, Observe
    <3>3. CASE e = d /\ s = h
      BY <3>3, <1>3, <2>1, <2>2 DEF Observe
    <3> QED BY <3>1, <3>2, <3>3, <1>3 DEF Observe
  <2> QED BY <2>3, <2>4
<1>4. CASE UNCHANGED vars
  BY <1>4 DEF vars
<1> QED BY <1>1, <1>2, <1>3, <1>4 DEF Step

\* The generators' state stays typed: in particular no counter ever outgrows
\* its four hex digits (hlc.go:56, hlc.ts:73).
THEOREM HLCTypeOK == Spec => []TypeOK
<1>1. Inv => TypeOK
  BY DEF Inv
<1> QED BY <1>1, InitInv, StepInv, PTL DEF Spec

\* Next's promise, for every number of devices, counter width and wall clock:
\* a stamp is strictly greater than all its generator produced or observed.
THEOREM HLCStrictlyIncreasing == Spec => StrictlyIncreasing
<1>1. Inv /\ [Step]_vars =>
        [\A d \in Device : Next(d) =>
           \A s \in seen[d] : Less(s, StampOf(last'[d], d))]_vars
  <2> SUFFICES ASSUME Inv, NEW d \in Device, Next(d), NEW s \in seen[d]
               PROVE  Less(s, StampOf(last'[d], d))
    OBVIOUS
  <2> USE DEF Inv, TypeOK, SeenBelowLast
  <2>1. PICK now \in 0 .. MaxMillis : last' = [last EXCEPT ![d] = Advance(last[d], now)]
    BY DEF Next
  <2>2. /\ last[d] \in [millis : Nat, counter : 0 .. CounterLimit]
        /\ now \in Nat
        /\ s \in Stamp
    BY MaxMillisIsNat
  <2>3. /\ Advance(last[d], now) \in [millis : Nat, counter : 0 .. CounterLimit]
        /\ \/ last[d].millis < Advance(last[d], now).millis
           \/ /\ last[d].millis = Advance(last[d], now).millis
              /\ last[d].counter < Advance(last[d], now).counter
    BY <2>2, AdvanceUp
  <2>4. last'[d] = Advance(last[d], now)
    BY <2>1
  <2> QED
    BY <2>2, <2>3, <2>4, LimitIsNat DEF Less, StampOf, Stamp
<1> QED BY <1>1, InitInv, StepInv, PTL DEF Spec, StrictlyIncreasing

=============================================================================
