------------------------------- MODULE MCHub -------------------------------
(***************************************************************************)
(* Small instances of Hub.                                                 *)
(***************************************************************************)
EXTENDS Hub

CONSTANTS c1, c2, c3, u1, u2

\* Two devices of one person and one of another.
TwoPeople == [c \in {c1, c2, c3} |-> IF c = c2 THEN u2 ELSE u1]

\* Presence, rosters and positions share the connections and their queues and
\* nothing else: a behaviour is about one of them, or about a revocation.
Topics ==
  { [conns |-> {c1, c2, c3}, frames |-> 3, events |-> {"subscribe"}],
    [conns |-> {c1, c2}, frames |-> 5, events |-> {"subscribe", "unsubscribe"}],
    [conns |-> {c2, c3}, frames |-> 3, events |-> {"subscribe", "cursor", "commit"}],
    [conns |-> {c1, c2}, frames |-> 4, events |-> {"viewing"}],
    [conns |-> {c1, c2, c3}, frames |-> 2, events |-> {"viewing", "ping"}],
    [conns |-> {c1, c2, c3}, frames |-> 3, events |-> {"subscribe", "location", "stop"}],
    [conns |-> {c1, c2}, frames |-> 5, events |-> {"subscribe", "unsubscribe", "location", "stop"}],
    [conns |-> {c1, c2}, frames |-> 3, events |-> {"subscribe", "location", "revoke"}],
    [conns |-> {c1, c2}, frames |-> 3, events |-> {"subscribe", "viewing", "commit", "revoke"}] }
=============================================================================
