-------------------------------- MODULE HLC --------------------------------
(***************************************************************************)
(* The hybrid logical clock every write is stamped with.                   *)
(*                                                                         *)
(* Server (internal/sync/hlc.go) and client (client/src/sync/hlc.ts) hold  *)
(* the same generator: a last (millis, counter) pair, Next, which issues a *)
(* stamp, and Observe, which folds in a stamp met in a pull or on a row.   *)
(* A stamp is written as fixed-width text and compared as text; for parts  *)
(* within their width that is the lexicographic order Less below.          *)
(***************************************************************************)
EXTENDS Naturals

CONSTANTS
    Device,        \* the generators; a device id is a number so that it sorts
    CounterLimit,  \* 0xffff: the largest counter that fits four hex digits
    MaxMillis      \* the wall clock's range; bounds the instance only

ASSUME DeviceIsNat == Device \subseteq Nat
ASSUME LimitIsNat == CounterLimit \in Nat
ASSUME MaxMillisIsNat == MaxMillis \in Nat

VARIABLES
    last,   \* last[d]: the generator's lastMillis and counter
    seen,   \* seen[d]: every stamp this generator has produced or observed
    wire    \* every stamp issued so far: what another device can observe

vars == <<last, seen, wire>>

Stamp == [millis : Nat, counter : Nat, dev : Device]

\* String order of two formatted stamps.
Less(a, b) ==
    \/ a.millis < b.millis
    \/ a.millis = b.millis /\ a.counter < b.counter
    \/ a.millis = b.millis /\ a.counter = b.counter /\ a.dev < b.dev

\* A stamp that parses: its counter fits the four hex digits the format gives it.
Valid(h) == h.counter <= CounterLimit

\* Mutant: the rollover test admits one counter too many (>= read as >).
AdvanceLateRollover(l, now) ==
    IF now > l.millis THEN [millis |-> now, counter |-> 0]
    ELSE IF l.counter > CounterLimit
         THEN [millis |-> l.millis + 1, counter |-> 0]
         ELSE [millis |-> l.millis, counter |-> l.counter + 1]

\* What Next leaves in lastMillis and counter when the wall clock reads now.
Advance(l, now) ==
    IF now > l.millis THEN [millis |-> now, counter |-> 0]
    ELSE IF l.counter + 1 > CounterLimit
         THEN [millis |-> l.millis + 1, counter |-> 0]
         ELSE [millis |-> l.millis, counter |-> l.counter + 1]

\* Mutant: a stamp of the same millisecond is not folded in.
FoldMillisOnly(l, h) ==
    IF h.millis > l.millis
    THEN [millis |-> h.millis, counter |-> h.counter]
    ELSE l

\* What Observe leaves there for the remote stamp h.
Fold(l, h) ==
    IF h.millis > l.millis \/ (h.millis = l.millis /\ h.counter > l.counter)
    THEN [millis |-> h.millis, counter |-> h.counter]
    ELSE l

\* The stamp formatted from a generator's state.
StampOf(l, d) == [millis |-> l.millis, counter |-> l.counter, dev |-> d]

Fresh == [millis |-> 0, counter |-> 0]

Init ==
    /\ last = [d \in Device |-> Fresh]
    /\ seen = [d \in Device |-> {}]
    /\ wire = {}

\* The wall clock may stall, jump ahead or run backwards between two calls, so
\* each call reads any value.
Next(d) ==
    \E now \in 0 .. MaxMillis :
        LET l == Advance(last[d], now)
            h == StampOf(l, d)
        IN  /\ last[d].millis <= MaxMillis
            /\ last' = [last EXCEPT ![d] = l]
            /\ seen' = [seen EXCEPT ![d] = @ \cup {h}]
            /\ wire' = wire \cup {h}

Observe(d, h) ==
    /\ Valid(h)
    /\ last' = [last EXCEPT ![d] = Fold(last[d], h)]
    /\ seen' = [seen EXCEPT ![d] = @ \cup {h}]
    /\ UNCHANGED wire

\* A reloaded client makes a new generator: the clock is not persisted.
Restart(d) ==
    /\ last' = [last EXCEPT ![d] = Fresh]
    /\ seen' = [seen EXCEPT ![d] = {}]
    /\ UNCHANGED wire

Step ==
    \/ \E d \in Device : Next(d) \/ Restart(d)
    \/ \E d \in Device, h \in wire : Observe(d, h)

Spec == Init /\ [][Step]_vars

-----------------------------------------------------------------------------
\* The generators' state is well typed, and no counter outgrows the four hex
\* digits the text format reserves: a wider one would break the text order.
TypeOK ==
    /\ last \in [Device -> [millis : Nat, counter : 0 .. CounterLimit]]
    /\ wire \subseteq {h \in Stamp : Valid(h)}
    /\ seen \in [Device -> SUBSET wire]

\* Next's promise (hlc.go:47, hlc.ts:68): a new stamp is strictly greater than
\* every stamp this generator has produced or observed, even when the wall
\* clock stalls or moves backwards and when the counter rolls over.
StrictlyIncreasing ==
    [][\A d \in Device : Next(d) =>
         \A s \in seen[d] : Less(s, StampOf(last'[d], d))]_vars

\* The strengthening that makes it inductive: nothing a generator has seen lies
\* above its last (millis, counter).
SeenBelowLast ==
    \A d \in Device : \A s \in seen[d] :
        \/ s.millis < last[d].millis
        \/ s.millis = last[d].millis /\ s.counter <= last[d].counter

=============================================================================
