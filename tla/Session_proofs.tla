--------------------------- MODULE Session_proofs ---------------------------
(***************************************************************************)
(* Proofs about the login and its renewal (module Session), for any number *)
(* of tabs, logins, expiries and faults.                                   *)
(*                                                                         *)
(* TypeOK and OneTokenPerChain become inductive with RowsKnown and         *)
(* RequestsKnown: a hash names one row, and a request that has read a row  *)
(* still has the login of whatever row its token names. RefusedForCause    *)
(* needs in addition that, as long as no verdict fell and nothing          *)
(* disturbed the chain, no handler goes on unheard, and every token        *)
(* somebody may still present is backed by a row the provider honours      *)
(* (Undisturbed).                                                          *)
(***************************************************************************)
EXTENDS Session, TLAPS

\* A hash names one row; a row's login has happened; the next login is fresh.
RowsKnown ==
    /\ logins \in Nat /\ logins <= MaxLogins /\ minted \in Nat
    /\ \A r1, r2 \in rows : r1.hash = r2.hash => r1 = r2
    /\ \A r \in rows : r.grant.login \in 1 .. logins + 1
    /\ \A l \in LoginIds : l > logins + 1 => idp.current[l] = 1

\* A request that has read a row knows the login of whatever its token names now.
RequestsKnown ==
    \A s \in Slots : req[s].at \in {"peeked", "vouched"} =>
        /\ req[s].grant.login \in 1 .. logins + 1
        /\ \A r \in Row(req[s].token) : r.grant.login = req[s].grant.login

ChainInv == TypeOK /\ OneTokenPerChain /\ RowsKnown /\ RequestsKnown

\* A token that would be renewed: it has a row, whose grant the provider honours.
Backed(token) == \E r \in rows : r.hash = token /\ Honoured(r.grant)

\* What a request under way can count on while nothing disturbs it.
Sound(s) ==
    /\ req[s].at # "refused" /\ (req[s].at # "none" => req[s].heard)
    /\ req[s].at \in {"sent", "renewed"} => Backed(req[s].token)
    /\ req[s].at = "peeked" =>
         \E r \in rows : r.hash = req[s].token /\ r.grant = req[s].grant /\ Honoured(r.grant)
    /\ req[s].at = "vouched" =>
         /\ Row(req[s].token) # {} /\ Honoured(req[s].grant)
         /\ req[s].grant.n = NoProvider => Backed(req[s].token)

\* The stored token is backed, or the one refresh that consumes it, or has
\* replaced it, is about to say so.
StoreSound ==
    store # NoToken =>
        \/ Backed(store)
        \/ \E s \in Slots : \/ req[s].at = "vouched" /\ req[s].token = store
                            \/ req[s].at = "renewed"

OneTabAtATime ==
    \A s1, s2 \in Slots : req[s1].at # "none" /\ req[s2].at # "none" => s1[1] = s2[1]

AllSound == lapsed = 0 /\ OneTabAtATime /\ StoreSound /\ \A s \in Slots : Sound(s)

Undisturbed == ~Verdict /\ ~disturbed => AllSound

CauseInv == RefusedForCause /\ Undisturbed

----------------------------------------------------------------------------
(* What the actions do to the requests. *)

Places == {"none", "sent", "peeked", "vouched", "renewed", "refused", "failing"}
Requests(m) == [at : Places, token : 0 .. m, grant : Grant, heard : BOOLEAN]

\* A tab awaits one refresh at most.
OneAwaited == \A t \in Tabs : ~Awaited(<<t, 1>>) \/ ~Awaited(<<t, 2>>)

\* A slot and its tab.
LEMMA SlotTab ==
    ASSUME NEW s \in Slots
    PROVE  s[1] \in Tabs /\ s = <<s[1], s[2]>> /\ s[2] \in {1, 2}
  BY DEF Slots

\* NoRequest is a request of any width.
LEMMA NoRequestOK == ASSUME NEW m \in Nat PROVE NoRequest \in Requests(m)
  BY SessionAssumption DEF NoRequest, Requests, Places, Grant, NoGrant, NoProvider, NoToken

\* A step that writes one slot, and makes no tab wait that did not, keeps the
\* requests in their type and a tab at one refresh.
LEMMA SlotWrite ==
    ASSUME TypeOK, minted \in Nat, minted' \in Nat, minted <= minted',
           NEW s \in Slots, NEW q \in Requests(minted'),
           req' = [req EXCEPT ![s] = q],
           q.at # "none" /\ q.heard => Awaited(s)
    PROVE  /\ req' \in [Slots -> Requests(minted')]
           /\ OneAwaited'
<1>1. req \in [Slots -> Requests(minted)] /\ req \in [Slots -> Requests(minted')]
  <2>1. req \in [Slots -> Requests(minted)]
    BY DEF TypeOK, Requests, Places
  <2>2. Requests(minted) \subseteq Requests(minted')
    BY DEF Requests
  <2> QED BY <2>1, <2>2
<1>2. req' \in [Slots -> Requests(minted')]
  BY <1>1
<1>3. ASSUME NEW u \in Slots, Awaited(u)' PROVE Awaited(u)
  BY <1>1, <1>3 DEF Awaited
<1>4. ASSUME NEW t \in Tabs PROVE (~Awaited(<<t, 1>>) \/ ~Awaited(<<t, 2>>))'
  <2>1. <<t, 1>> \in Slots /\ <<t, 2>> \in Slots
    BY DEF Slots
  <2>2. ~Awaited(<<t, 1>>) \/ ~Awaited(<<t, 2>>)
    BY DEF TypeOK
  <2> QED BY <2>1, <2>2, <1>3
<1> QED BY <1>2, <1>4 DEF OneAwaited

\* The same for a step that frees the slot.
LEMMA SlotFree ==
    ASSUME TypeOK, minted \in Nat, minted' = minted, NEW s \in Slots, Frees(s)
    PROVE  /\ req' \in [Slots -> Requests(minted')]
           /\ OneAwaited'
<1>1. NoRequest \in Requests(minted') /\ NoRequest.at = "none"
  BY NoRequestOK DEF NoRequest
<1>2. req' = [req EXCEPT ![s] = NoRequest]
  BY DEF Frees
<1>3. minted' \in Nat /\ minted <= minted'
  OBVIOUS
<1> HIDE DEF NoRequest
<1> QED BY <1>1, <1>2, <1>3, SlotWrite

\* And for one that answers it.
LEMMA SlotAnswer ==
    ASSUME TypeOK, minted \in Nat, minted' \in Nat, minted <= minted',
           NEW s \in Slots, req[s].at # "none",
           NEW what \in Places, NEW token \in 0 .. minted', Answers(s, what, token)
    PROVE  /\ req' \in [Slots -> Requests(minted')]
           /\ OneAwaited'
<1> DEFINE q == [at |-> what, token |-> token, grant |-> NoGrant, heard |-> req[s].heard]
<1>1. q \in Requests(minted')
  <2>1. req[s].heard \in BOOLEAN
    BY DEF TypeOK
  <2> QED BY <2>1, SessionAssumption DEF Requests, Grant, NoGrant, NoProvider
<1>2. req' = [req EXCEPT ![s] = q]
  BY DEF Answers
<1>3. q.heard => Awaited(s)
  BY DEF Awaited
<1> HIDE DEF q
<1> QED BY <1>1, <1>2, <1>3, SlotWrite

\* TypeOK with the requests' type named.
LEMMA TypeParts ==
    TypeOK <=>
      /\ store \in 0 .. minted /\ stale \in BOOLEAN
      /\ ended \in [Tabs -> {"no", "refused", "deactivated", "logout"}]
      /\ waiting \in [Tabs -> BOOLEAN]
      /\ req \in [Slots -> Requests(minted)]
      /\ OneAwaited
      /\ rows \subseteq [hash : 1 .. minted, grant : Grant] /\ lapsed \in 0 .. minted
      /\ active \in BOOLEAN /\ idp \in [current : [LoginIds -> Nat], revoked : SUBSET LoginIds]
      /\ disturbed \in BOOLEAN
  BY DEF TypeOK, Requests, Places, OneAwaited

\* A new chain, or none: the first login has the first token.
LEMMA ChainInit == Init => ChainInv
<1> SUFFICES ASSUME Init PROVE ChainInv
  OBVIOUS
<1>1. minted = 1 /\ logins = 0 /\ 1 \in LoginIds
  BY SessionAssumption DEF Init, LoginIds
<1>2. TypeOK
  <2>1. req \in [Slots -> Requests(minted)] /\ \A s \in Slots : req[s].at = "none"
    BY <1>1, NoRequestOK DEF Init, NoRequest
  <2>2. OneAwaited
    <3>1. \A t \in Tabs : <<t, 1>> \in Slots
      BY DEF Slots
    <3> QED BY <3>1, <2>1 DEF OneAwaited, Awaited
  <2>3. rows \subseteq [hash : 1 .. minted, grant : Grant] /\ lapsed \in 0 .. minted
    BY <1>1, SessionAssumption DEF Init, Grant, NoProvider
  <2>4. store \in 0 .. minted /\ idp \in [current : [LoginIds -> Nat], revoked : SUBSET LoginIds]
    BY <1>1 DEF Init
  <2>5. /\ stale \in BOOLEAN /\ active \in BOOLEAN /\ disturbed \in BOOLEAN
        /\ ended \in [Tabs -> {"no", "refused", "deactivated", "logout"}]
        /\ waiting \in [Tabs -> BOOLEAN]
    BY DEF Init
  <2> QED BY <2>1, <2>2, <2>3, <2>4, <2>5, TypeParts
<1>3. OneTokenPerChain /\ RowsKnown
  BY <1>1, SessionAssumption DEF Init, OneTokenPerChain, RowsKnown
<1>4. RequestsKnown
  BY DEF Init, RequestsKnown, NoRequest
<1> QED BY <1>2, <1>3, <1>4 DEF ChainInv

----------------------------------------------------------------------------
(* Every action keeps ChainInv. *)

\* No row is added, and no login happens.
NoNewRow == rows' \subseteq rows /\ minted' = minted /\ logins' = logins

\* A request at the handler was one before, with its token and its login.
NoNewReader ==
    \A s \in Slots : req'[s].at \in {"peeked", "vouched"} =>
        /\ req[s].at \in {"peeked", "vouched"}
        /\ req'[s].token = req[s].token
        /\ req'[s].grant.login = req[s].grant.login

\* Rows only go, and the logins to come are left alone: the chains stay apart.
LEMMA RowsShrink ==
    ASSUME ChainInv, NoNewRow,
           \A l \in LoginIds : l > logins + 1 => idp'.current[l] = idp.current[l]
    PROVE  OneTokenPerChain' /\ RowsKnown'
  BY DEF ChainInv, NoNewRow, OneTokenPerChain, RowsKnown, LoginIds

\* Rows only go, and no request reads one: what the requests know stays true.
LEMMA ReadersKeep ==
    ASSUME ChainInv, NoNewRow, NoNewReader
    PROVE  RequestsKnown'
<1> SUFFICES ASSUME NEW s \in Slots, req'[s].at \in {"peeked", "vouched"}
             PROVE  /\ req'[s].grant.login \in 1 .. logins' + 1
                    /\ \A r \in rows' : r.hash = req'[s].token => r.grant.login = req'[s].grant.login
  BY DEF RequestsKnown, Row
<1>1. /\ req[s].at \in {"peeked", "vouched"}
      /\ req'[s].token = req[s].token
      /\ req'[s].grant.login = req[s].grant.login
  BY DEF NoNewReader
<1>2. /\ req[s].grant.login \in 1 .. logins + 1
      /\ \A r \in rows : r.hash = req[s].token => r.grant.login = req[s].grant.login
  BY <1>1 DEF ChainInv, RequestsKnown, Row
<1> QED BY <1>1, <1>2 DEF NoNewRow

\* A step that frees a slot or answers it brings no reader.
LEMMA FreesReaders ==
    ASSUME TypeOK, NEW s \in Slots, Frees(s) PROVE NoNewReader
<1>1. req \in [Slots -> Requests(minted)]
  BY TypeParts
<1> QED BY <1>1 DEF Frees, NoNewReader, NoRequest

\* An answer that ends a request makes no new reader of a token.
LEMMA AnswersReaders ==
    ASSUME TypeOK, NEW s \in Slots, NEW what, NEW token, Answers(s, what, token),
           what \notin {"peeked", "vouched"}
    PROVE  NoNewReader
<1>1. req \in [Slots -> Requests(minted)]
  BY TypeParts
<1> QED BY <1>1 DEF Answers, NoNewReader

\* The browser's own steps, the answers it hears or does not: rows and readers
\* only go.
LEMMA BrowserStep ==
    ASSUME ChainInv,
           \/ Expires \/ Lapses
           \/ \E t \in Tabs : BackoffOver(t) \/ Request(t) \/ Logout(t) \/ Reload(t)
           \/ \E s \in Slots : Hears(s) \/ Lost(s) \/ GivenUp(s)
    PROVE  ChainInv'
<1> USE DEF Hears
<1>0. /\ TypeOK /\ minted \in Nat /\ lapsed \in 0 .. minted
      /\ req \in [Slots -> Requests(minted)]
      /\ OneAwaited
  BY TypeParts DEF ChainInv, RowsKnown
<1>1. NoNewRow /\ idp' = idp /\ rows' = rows /\ active' = active /\ disturbed' \in BOOLEAN
      /\ (lapsed' = lapsed \/ lapsed' = minted)
  BY <1>0 DEF Expires, Lapses, BackoffOver, Request, Logout, Reload, Refused, Renewed, Failing, Unheard,
         Lost, GivenUp, NoNewRow, server, bounds, Clears, BacksOff, TypeOK
<1>2. OneTokenPerChain' /\ RowsKnown'
  BY <1>1, RowsShrink
<1>3. req' \in [Slots -> Requests(minted')] /\ NoNewReader /\ OneAwaited'
  <2>1. CASE req' = req
    BY <2>1, <1>0, <1>1 DEF NoNewReader, NoNewRow, OneAwaited, Awaited
  <2>2. CASE \E s \in Slots : Frees(s)
    BY <2>2, <1>0, <1>1, SlotFree, FreesReaders DEF NoNewRow
  <2>3. ASSUME NEW s \in Slots, GivenUp(s)
        PROVE  req' \in [Slots -> Requests(minted')] /\ NoNewReader /\ OneAwaited'
    <3> DEFINE q == [req[s] EXCEPT !.heard = FALSE]
    <3>1. req' = [req EXCEPT ![s] = q] /\ minted' = minted
      BY <2>3, <1>1 DEF GivenUp, NoNewRow
    <3>2. /\ q \in Requests(minted) /\ q.at = req[s].at /\ q.token = req[s].token
          /\ q.grant = req[s].grant /\ q.heard = FALSE
      BY <1>0 DEF Requests
    <3> HIDE DEF q
    <3>3. req' \in [Slots -> Requests(minted')] /\ OneAwaited'
      BY <3>1, <3>2, <1>0, minted' \in Nat, minted <= minted', SlotWrite
    <3>4. NoNewReader
      BY <3>1, <3>2, <1>0 DEF NoNewReader
    <3> QED BY <3>3, <3>4
  <2> QED BY <2>1, <2>2, <2>3 DEF Expires, Lapses, BackoffOver, Request, Logout, Reload, Refused, Renewed,
                                  Failing, Unheard, Lost, BacksOff
<1>4. RequestsKnown'
  BY <1>1, <1>3, ReadersKeep
<1>5. TypeOK'
  <2>2. store' \in 0 .. minted /\ stale' \in BOOLEAN
    <3>1. \A s \in Slots : req[s].token \in 0 .. minted
      BY <1>0 DEF Requests
    <3>2. 0 \in 0 .. minted /\ store \in 0 .. minted /\ stale \in BOOLEAN
      BY <1>0 DEF TypeOK
    <3>3. CASE \E s \in Slots : Renewed(s)
      BY <3>1, <3>3 DEF Renewed
    <3>4. CASE Expires \/ Lapses
      BY <3>2, <3>4 DEF Expires, Lapses
    <3>5. CASE \E t \in Tabs : BackoffOver(t) \/ Request(t) \/ Logout(t) \/ Reload(t)
      BY <3>2, <3>5 DEF BackoffOver, Request, Logout, Reload, Clears, NoToken
    <3>6. CASE \E s \in Slots : Refused(s) \/ Failing(s) \/ Unheard(s) \/ Lost(s) \/ GivenUp(s)
      BY <3>2, <3>6 DEF Refused, Failing, Unheard, Lost, GivenUp, Clears, NoToken, browser
    <3> QED BY <3>3, <3>4, <3>5, <3>6
  <2>3. ended' \in [Tabs -> {"no", "refused", "deactivated", "logout"}]
    BY <1>0 DEF Expires, Lapses, BackoffOver, Request, Logout, Reload, Refused, Renewed, Failing, Unheard,
                Lost, GivenUp, TypeOK, Clears, browser
  <2>4. waiting' \in [Tabs -> BOOLEAN]
    BY <1>0 DEF Expires, Lapses, BackoffOver, Request, Logout, Reload, Refused, Renewed, Failing, Unheard,
                Lost, GivenUp, TypeOK, BacksOff, browser
  <2>5. lapsed' \in 0 .. minted
    BY <1>0, <1>1
  <2> QED BY <2>2, <2>3, <2>4, <2>5, <1>0, <1>1, <1>3 DEF NoNewRow, TypeOK, Requests, Places, OneAwaited
<1> QED BY <1>2, <1>4, <1>5 DEF ChainInv

\* A refresh takes a free slot of a tab that awaits none.
LEMMA RefreshStep ==
    ASSUME ChainInv, NEW t \in Tabs, Refresh(t) PROVE ChainInv'
<1>0. /\ minted \in Nat /\ store \in 0 .. minted
      /\ req \in [Slots -> Requests(minted)]
      /\ OneAwaited
  BY TypeParts DEF ChainInv, RowsKnown
<1> DEFINE q == [at |-> "sent", token |-> store, grant |-> NoGrant, heard |-> TRUE]
<1>1. PICK k \in {1, 2} : req' = [req EXCEPT ![<<t, k>>] = q] /\ req[<<t, k>>].at = "none"
  BY DEF Refresh, FreeSlots, Idle
<1>2. q \in Requests(minted) /\ q.at = "sent"
  BY <1>0, SessionAssumption DEF Requests, Places, Grant, NoGrant, NoProvider
<1> HIDE DEF q
<1>3. /\ UNCHANGED <<browser, server, idp, bounds>> /\ disturbed' \in BOOLEAN
  BY DEF Refresh, ChainInv, TypeOK
<1>4. \A u \in Tabs : <<u, 1>> \in Slots /\ <<u, 2>> \in Slots
  BY DEF Slots
<1>5. req' \in [Slots -> Requests(minted)]
  BY <1>0, <1>1, <1>2, <1>4
<1>6. OneAwaited'
  <2>1. \A i \in {1, 2} : ~Awaited(<<t, i>>)
    BY DEF Refresh, FreeSlots
  <2>2. ASSUME NEW u \in Tabs PROVE (~Awaited(<<u, 1>>) \/ ~Awaited(<<u, 2>>))'
    <3>1. CASE u = t
      <4>1. PICK i \in {1, 2} : i # k
        OBVIOUS
      <4>2. req'[<<u, i>>] = req[<<u, i>>]
        BY <4>1, <3>1, <1>0, <1>1, <1>4
      <4> QED BY <4>2, <2>1, <3>1 DEF Awaited
    <3>2. CASE u # t
      <4>1. req'[<<u, 1>>] = req[<<u, 1>>] /\ req'[<<u, 2>>] = req[<<u, 2>>]
        BY <3>2, <1>0, <1>1, <1>4
      <4> QED BY <4>1, <1>0 DEF OneAwaited, Awaited
    <3> QED BY <3>1, <3>2
  <2> QED BY <2>2 DEF OneAwaited
<1>7. TypeOK'
  BY <1>3, <1>5, <1>6 DEF TypeOK, ChainInv, browser, server, Requests, Places, OneAwaited
<1>8. NoNewRow /\ NoNewReader
  BY <1>0, <1>1, <1>2, <1>3, <1>4 DEF NoNewRow, NoNewReader, server, bounds
<1> QED BY <1>3, <1>7, <1>8, RowsShrink, ReadersKeep DEF ChainInv, server

\* A login starts a chain of its own, and the reload drops the tab's request.
LEMMA LoginStep ==
    ASSUME ChainInv, NEW t \in Tabs, Login(t) PROVE ChainInv'
<1>0. /\ minted \in Nat /\ logins \in Nat /\ logins <= MaxLogins
      /\ req \in [Slots -> Requests(minted)]
      /\ OneAwaited
      /\ rows \subseteq [hash : 1 .. minted, grant : Grant]
  BY TypeParts DEF ChainInv, RowsKnown
<1>1. /\ minted' = minted + 1 /\ logins' = logins + 1 /\ logins + 1 <= MaxLogins
      /\ store' = minted + 1 /\ stale' = FALSE
      /\ req' = [s \in Slots |-> IF s[1] = t THEN NoRequest ELSE req[s]]
      /\ UNCHANGED <<lapsed, active, idp, disturbed>>
  BY <1>0, SessionAssumption DEF Login
<1>a. PICK n \in {NoProvider, 1} :
        rows' = {r \in rows : r.hash > lapsed}
                  \cup {[hash |-> minted + 1, grant |-> [login |-> logins + 2, n |-> n]]}
  BY <1>0, <1>1 DEF Login
<1> DEFINE new == [hash |-> minted + 1, grant |-> [login |-> logins + 2, n |-> n]]
<1>b. rows' \subseteq rows \cup {new}
  BY <1>a
<1>2. new \in [hash : 1 .. minted + 1, grant : Grant]
  BY <1>0, <1>1, SessionAssumption DEF Grant, NoProvider
<1>3. rows' \subseteq [hash : 1 .. minted', grant : Grant]
  <2>1. [hash : 1 .. minted, grant : Grant] \subseteq [hash : 1 .. minted + 1, grant : Grant]
    BY <1>0
  <2> QED BY <1>0, <1>1, <1>b, <1>2, <2>1
<1>4. new.hash = minted + 1 /\ new.grant.login = logins + 2
  OBVIOUS
<1> HIDE DEF new
<1>5. /\ \A r \in rows : r.hash \in 1 .. minted /\ r.grant.login \in 1 .. logins + 1
      /\ \A r \in rows : r.hash # new.hash /\ r.grant.login # new.grant.login
  BY <1>0, <1>4 DEF ChainInv, RowsKnown
<1>6. OneTokenPerChain'
  BY <1>b, <1>5 DEF ChainInv, OneTokenPerChain
<1>7. RowsKnown'
  BY <1>0, <1>1, <1>b, <1>4, <1>5 DEF ChainInv, RowsKnown, LoginIds
<1>8. req' \in [Slots -> Requests(minted')]
  <2>1. Requests(minted) \subseteq Requests(minted') /\ NoRequest \in Requests(minted')
    BY <1>0, <1>1, NoRequestOK DEF Requests
  <2> QED BY <2>1, <1>0, <1>1
<1>9. OneAwaited'
  <2>1. \A u \in Tabs : <<u, 1>> \in Slots /\ <<u, 2>> \in Slots
    BY DEF Slots
  <2> QED BY <2>1, <1>0, <1>1 DEF NoRequest, OneAwaited, Awaited
<1>10. RequestsKnown'
  <2> SUFFICES ASSUME NEW s \in Slots, req'[s].at \in {"peeked", "vouched"}
               PROVE  /\ req'[s].grant.login \in 1 .. logins' + 1
                      /\ \A r \in rows' : r.hash = req'[s].token => r.grant.login = req'[s].grant.login
    BY DEF RequestsKnown, Row
  <2>1. req'[s] = req[s]
    BY <1>1 DEF NoRequest
  <2>2. /\ req[s].grant.login \in 1 .. logins + 1
        /\ \A r \in rows : r.hash = req[s].token => r.grant.login = req[s].grant.login
    BY <2>1 DEF ChainInv, RequestsKnown, Row
  <2>3. req[s].token \in 0 .. minted
    BY <1>0 DEF Requests
  <2> QED BY <2>1, <2>2, <2>3, <1>0, <1>1, <1>b, <1>4
<1>11. TypeOK'
  <2>1. ended' \in [Tabs -> {"no", "refused", "deactivated", "logout"}] /\ waiting' \in [Tabs -> BOOLEAN]
    BY DEF ChainInv, TypeOK, Login
  <2>2. store' \in 0 .. minted' /\ lapsed' \in 0 .. minted'
    BY <1>0, <1>1 DEF ChainInv, TypeOK
  <2> QED BY <1>1, <1>3, <1>8, <1>9, <2>1, <2>2 DEF ChainInv, TypeOK, Requests, Places, OneAwaited
<1> QED BY <1>6, <1>7, <1>10, <1>11 DEF ChainInv

\* Reading a row: the request knows its login from here on.
LEMMA PeekStep ==
    ASSUME ChainInv, NEW s \in Slots, Peek(s) PROVE ChainInv'
<1>0. /\ TypeOK /\ minted \in Nat /\ req \in [Slots -> Requests(minted)]
      /\ rows \subseteq [hash : 1 .. minted, grant : Grant]
  BY TypeParts DEF ChainInv, RowsKnown
<1>1. UNCHANGED <<browser, server, idp, bounds, disturbed>> /\ minted' = minted /\ req[s].at = "sent"
  BY DEF Peek, server
<1>2. NoNewRow
  BY <1>1 DEF NoNewRow, server, bounds
<1>3. OneTokenPerChain' /\ RowsKnown'
  BY <1>1, <1>2, RowsShrink
<1>4. CASE Answers(s, "refused", NoToken)
  <2>1. /\ req' \in [Slots -> Requests(minted')]
        /\ OneAwaited'
    BY <1>0, <1>1, <1>4, SlotAnswer DEF Places, NoToken
  <2>2. TypeOK'
    BY <1>0, <1>1, <2>1 DEF TypeOK, browser, server, Requests, Places, OneAwaited
  <2>3. NoNewReader
    BY <1>0, <1>4, AnswersReaders
  <2> QED BY <1>2, <1>3, <2>2, <2>3, ReadersKeep DEF ChainInv
<1>5. CASE \E r \in Live(req[s].token) :
             req' = [req EXCEPT ![s] = [@ EXCEPT !.at = "peeked", !.grant = r.grant]]
  <2>1. PICK r \in rows :
          /\ r.hash = req[s].token
          /\ req' = [req EXCEPT ![s] = [req[s] EXCEPT !.at = "peeked", !.grant = r.grant]]
    BY <1>5 DEF Live, Row
  <2> DEFINE q == [req[s] EXCEPT !.at = "peeked", !.grant = r.grant]
  <2>2. req' = [req EXCEPT ![s] = q] /\ q \in Requests(minted')
    <3>1. req[s] \in Requests(minted) /\ r.grant \in Grant
      BY <1>0, <2>1
    <3> QED BY <2>1, <3>1, <1>1 DEF Requests, Places
  <2>3. q.at = "peeked" /\ q.token = r.hash /\ q.grant = r.grant /\ q.heard = req[s].heard
    BY <1>0, <2>1 DEF Requests
  <2> HIDE DEF q
  <2>4. /\ req' \in [Slots -> Requests(minted')]
        /\ OneAwaited'
    <3>1. q.heard => Awaited(s)
      BY <2>3, <1>1 DEF Awaited
    <3> QED BY <1>0, <1>1, <2>2, <3>1, minted' \in Nat, minted <= minted', SlotWrite
  <2>5. TypeOK'
    BY <1>0, <1>1, <2>4 DEF TypeOK, browser, server, Requests, Places, OneAwaited
  <2>6. RequestsKnown'
    <3> SUFFICES ASSUME NEW u \in Slots, req'[u].at \in {"peeked", "vouched"}
                 PROVE  /\ req'[u].grant.login \in 1 .. logins' + 1
                        /\ \A x \in rows' : x.hash = req'[u].token => x.grant.login = req'[u].grant.login
      BY DEF RequestsKnown, Row
    <3>1. rows' = rows /\ logins' = logins
      BY <1>1 DEF server, bounds
    <3>2. CASE u = s
      <4>1. req'[u].token = r.hash /\ req'[u].grant = r.grant
        BY <3>2, <2>2, <2>3, <1>0
      <4> QED BY <4>1, <3>1 DEF ChainInv, RowsKnown
    <3>3. CASE u # s
      <4>1. req'[u] = req[u]
        BY <3>3, <2>2, <1>0
      <4> QED BY <4>1, <3>1 DEF ChainInv, RequestsKnown, Row
    <3> QED BY <3>2, <3>3
  <2> QED BY <1>3, <2>5, <2>6 DEF ChainInv
<1> QED BY <1>4, <1>5 DEF Peek

\* What answers a request without renewing it: rows only go.
TurnedAway(s) == Outage(s) \/ Rejected(s) \/ Deactivated(s) \/ RotateFails(s) \/ Interposed(s)

LEMMA TurnedAwayStep ==
    ASSUME ChainInv, NEW s \in Slots, TurnedAway(s) PROVE ChainInv'
<1> USE DEF TurnedAway
<1>0. /\ TypeOK /\ minted \in Nat /\ req \in [Slots -> Requests(minted)]
  BY TypeParts DEF ChainInv, RowsKnown
<1>1. /\ UNCHANGED <<browser, idp>> /\ minted' = minted /\ active' = active /\ lapsed' = lapsed
      /\ logins' = logins /\ rows' \subseteq rows /\ req[s].at # "none" /\ disturbed' \in BOOLEAN
  BY <1>0 DEF Outage, Rejected, Deactivated, RotateFails, Interposed, EndsSession, bounds, server, TypeOK
<1>2. PICK what \in {"failing", "refused"} : Answers(s, what, NoToken)
  BY DEF Outage, Rejected, Deactivated, RotateFails, Interposed, EndsSession
<1>3. /\ req' \in [Slots -> Requests(minted')]
      /\ OneAwaited'
  <2>1. what \in Places /\ NoToken \in 0 .. minted' /\ minted' \in Nat /\ minted <= minted'
    BY <1>0, <1>1 DEF Places, NoToken
  <2> QED BY <1>0, <1>1, <1>2, <2>1, SlotAnswer
<1>4. TypeOK'
  BY <1>0, <1>1, <1>3 DEF TypeOK, browser, Requests, Places, OneAwaited
<1>5. NoNewRow /\ NoNewReader
  BY <1>0, <1>1, <1>2, AnswersReaders DEF NoNewRow
<1> QED BY <1>1, <1>4, <1>5, RowsShrink, ReadersKeep DEF ChainInv

\* The provider replaces the grant of a login that has happened.
LEMMA VouchedStep ==
    ASSUME ChainInv, NEW s \in Slots, Vouched(s) PROVE ChainInv'
<1>0. /\ TypeOK /\ minted \in Nat /\ req \in [Slots -> Requests(minted)]
      /\ logins \in Nat /\ logins <= MaxLogins
  BY TypeParts DEF ChainInv, RowsKnown
<1>1. UNCHANGED <<browser, server, bounds, disturbed>> /\ minted' = minted /\ req[s].at = "peeked"
  BY DEF Vouched, server
<1> DEFINE l == req[s].grant.login
<1> DEFINE q(n) == [req[s] EXCEPT !.at = "vouched", !.grant = [login |-> l, n |-> n]]
<1>2. PICK n \in {req[s].grant.n, req[s].grant.n + 1} :
        /\ idp' = [idp EXCEPT !.current[l] = n]
        /\ req' = [req EXCEPT ![s] = q(n)]
  BY DEF Vouched
<1>3. req[s] \in Requests(minted) /\ req[s].grant \in Grant /\ n \in Nat
  BY <1>0, <1>2 DEF Requests, Grant
<1>4. l \in 1 .. logins + 1 /\ l \in LoginIds
  BY <1>0, <1>1, SessionAssumption DEF ChainInv, RequestsKnown, LoginIds
<1>6. q(n) \in Requests(minted')
  BY <1>1, <1>3, <1>4, SessionAssumption DEF Requests, Places, Grant, LoginIds
<1>7. /\ q(n).at = "vouched" /\ q(n).token = req[s].token /\ q(n).grant.login = l
      /\ q(n).heard = req[s].heard
  BY <1>3 DEF Requests
<1> HIDE DEF q, l
<1>8. /\ req' \in [Slots -> Requests(minted')]
      /\ OneAwaited'
  <2>1. q(n).heard => Awaited(s)
    BY <1>1, <1>7 DEF Awaited
  <2> QED BY <1>0, <1>1, <1>2, <1>6, <2>1, minted' \in Nat, minted <= minted', SlotWrite
<1>9. /\ idp' \in [current : [LoginIds -> Nat], revoked : SUBSET LoginIds]
      /\ \A k \in LoginIds : k # l => idp'.current[k] = idp.current[k]
  BY <1>0, <1>2, <1>3, <1>4 DEF TypeOK
<1>10. TypeOK'
  BY <1>0, <1>1, <1>8, <1>9 DEF TypeOK, browser, server, Requests, Places, OneAwaited
<1>11. NoNewRow
  BY <1>1 DEF NoNewRow, server, bounds
<1>12. OneTokenPerChain' /\ RowsKnown'
  <2>1. \A k \in LoginIds : k > logins + 1 => idp'.current[k] = idp.current[k]
    BY <1>4, <1>9, <1>0 DEF LoginIds
  <2> QED BY <1>11, <2>1, RowsShrink
<1>13. NoNewReader
  BY <1>0, <1>1, <1>2, <1>7 DEF NoNewReader, l
<1> QED BY <1>10, <1>11, <1>12, <1>13, ReadersKeep DEF ChainInv

\* A chain the provider has no part in goes on as it is.
LEMMA UnaskedStep ==
    ASSUME ChainInv, NEW s \in Slots, Unasked(s) PROVE ChainInv'
<1>0. /\ TypeOK /\ minted \in Nat /\ req \in [Slots -> Requests(minted)]
  BY TypeParts DEF ChainInv, RowsKnown
<1>1. UNCHANGED <<browser, server, idp, bounds, disturbed>> /\ minted' = minted /\ req[s].at = "peeked"
  BY DEF Unasked, server
<1> DEFINE q == [req[s] EXCEPT !.at = "vouched"]
<1>2. /\ req' = [req EXCEPT ![s] = q] /\ q \in Requests(minted) /\ q.token = req[s].token
      /\ q.at = "vouched" /\ q.grant = req[s].grant /\ q.heard = req[s].heard
  BY <1>0 DEF Unasked, Requests, Places
<1> HIDE DEF q
<1>3. /\ req' \in [Slots -> Requests(minted')]
      /\ OneAwaited'
  <2>1. q.heard => Awaited(s)
    BY <1>1, <1>2 DEF Awaited
  <2> QED BY <1>0, <1>1, <1>2, <2>1, minted' \in Nat, minted <= minted', SlotWrite
<1>4. TypeOK'
  BY <1>0, <1>1, <1>3 DEF TypeOK, browser, server, Requests, Places, OneAwaited
<1>5. NoNewRow /\ NoNewReader
  BY <1>0, <1>1, <1>2 DEF NoNewRow, NoNewReader, server, bounds
<1> QED BY <1>1, <1>4, <1>5, RowsShrink, ReadersKeep DEF ChainInv

\* RotateSession: the row a token names is replaced by one of the same login,
\* under a hash nobody holds yet.
LEMMA RotateStep ==
    ASSUME ChainInv, NEW s \in Slots, Rotate(s) PROVE ChainInv'
<1>0. /\ TypeOK /\ minted \in Nat /\ req \in [Slots -> Requests(minted)]
      /\ rows \subseteq [hash : 1 .. minted, grant : Grant]
  BY TypeParts DEF ChainInv, RowsKnown
<1>1. UNCHANGED <<browser, lapsed, active, idp, bounds, disturbed>> /\ req[s].at = "vouched"
  BY DEF Rotate
<1>2. CASE Answers(s, "refused", NoToken) /\ UNCHANGED <<rows, minted>>
  <2>1. /\ req' \in [Slots -> Requests(minted')]
        /\ OneAwaited'
    <3>1. "refused" \in Places /\ NoToken \in 0 .. minted' /\ minted' \in Nat /\ minted <= minted'
      BY <1>0, <1>2 DEF Places, NoToken
    <3> QED BY <1>0, <1>1, <1>2, <3>1, SlotAnswer
  <2>2. TypeOK'
    BY <1>0, <1>1, <1>2, <2>1 DEF TypeOK, browser, Requests, Places, OneAwaited
  <2>3. NoNewReader /\ NoNewRow
    BY <1>0, <1>1, <1>2, AnswersReaders DEF NoNewRow, bounds
  <2> QED BY <1>1, <2>2, <2>3, ReadersKeep, RowsShrink DEF ChainInv
<1>3. CASE \E r \in Row(req[s].token) : minted' = minted + 1 /\ Replaces(r, s) /\ Answers(s, "renewed", minted')
  <2>1. PICK r \in rows : /\ r.hash = req[s].token /\ minted' = minted + 1
                          /\ rows' = (rows \ {r}) \cup {[hash |-> minted', grant |-> req[s].grant]}
                          /\ Answers(s, "renewed", minted')
    BY <1>3 DEF Row, Replaces
  <2> DEFINE new == [hash |-> minted + 1, grant |-> req[s].grant]
  <2>2. /\ rows' = (rows \ {r}) \cup {new}
        /\ new \in [hash : 1 .. minted', grant : Grant]
        /\ new.hash = minted + 1 /\ new.grant.login = req[s].grant.login
    <3>1. r \in [hash : 1 .. minted, grant : Grant] /\ req[s].grant \in Grant
      BY <1>0 DEF Requests
    <3> QED BY <1>0, <2>1, <3>1
  <2> HIDE DEF new
  <2>3. r.grant.login = req[s].grant.login /\ r.grant.login \in 1 .. logins + 1
    BY <2>1, <1>1 DEF ChainInv, RequestsKnown, RowsKnown, Row
  <2>4. \A x \in rows : x.hash \in 1 .. minted
    BY <1>0
  <2>5. \A x \in rows \ {r} : x.grant.login # new.grant.login /\ x.hash # new.hash
    BY <1>0, <2>2, <2>3, <2>4 DEF ChainInv, OneTokenPerChain
  <2>6. OneTokenPerChain'
    BY <2>2, <2>5 DEF ChainInv, OneTokenPerChain
  <2>7. RowsKnown'
    <3>1. logins' = logins /\ idp' = idp /\ minted' \in Nat
      BY <1>0, <1>1, <2>1 DEF bounds
    <3> QED BY <3>1, <2>2, <2>3, <2>5 DEF ChainInv, RowsKnown
  <2>8. /\ req' \in [Slots -> Requests(minted')]
        /\ OneAwaited'
    <3>1. "renewed" \in Places /\ minted' \in 0 .. minted' /\ minted' \in Nat /\ minted <= minted'
      BY <1>0, <2>1 DEF Places
    <3> QED BY <1>0, <1>1, <2>1, <3>1, SlotAnswer
  <2>9. TypeOK'
    <3>1. /\ rows' \subseteq [hash : 1 .. minted', grant : Grant]
          /\ store' \in 0 .. minted' /\ lapsed' \in 0 .. minted'
      BY <1>0, <1>1, <2>1, <2>2 DEF TypeOK, browser
    <3> QED BY <1>0, <1>1, <2>8, <3>1 DEF TypeOK, browser, Requests, Places, OneAwaited
  <2>10. RequestsKnown'
    <3> SUFFICES ASSUME NEW u \in Slots, req'[u].at \in {"peeked", "vouched"}
                 PROVE  /\ req'[u].grant.login \in 1 .. logins' + 1
                        /\ \A x \in rows' : x.hash = req'[u].token => x.grant.login = req'[u].grant.login
      BY DEF RequestsKnown, Row
    <3>1. u # s /\ req'[u] = req[u] /\ req[u].token \in 0 .. minted
      BY <2>1, <1>0 DEF Answers, Requests
    <3>2. /\ req[u].grant.login \in 1 .. logins + 1
          /\ \A x \in rows : x.hash = req[u].token => x.grant.login = req[u].grant.login
      BY <3>1 DEF ChainInv, RequestsKnown, Row
    <3> QED BY <3>1, <3>2, <2>2, <1>1, <1>0 DEF bounds
  <2> QED BY <2>6, <2>7, <2>9, <2>10 DEF ChainInv
<1> QED BY <1>2, <1>3 DEF Rotate

\* The verdicts of the instance and of the provider leave the chains alone.
LEMMA VerdictStep ==
    ASSUME ChainInv, Deactivate \/ Revoke PROVE ChainInv'
<1>1. /\ UNCHANGED <<browser, req, rows, minted, lapsed, bounds, disturbed>> /\ active' \in BOOLEAN
      /\ idp' \in [current : [LoginIds -> Nat], revoked : SUBSET LoginIds]
      /\ idp'.current = idp.current
  <2>1. idp \in [current : [LoginIds -> Nat], revoked : SUBSET LoginIds] /\ active \in BOOLEAN
        /\ 1 .. logins + 1 \subseteq LoginIds
    BY SessionAssumption DEF ChainInv, TypeOK, RowsKnown, LoginIds
  <2>2. CASE Deactivate
    BY <2>1, <2>2 DEF Deactivate
  <2>3. CASE Revoke
    BY <2>1, <2>3 DEF Revoke, server
  <2> QED BY <2>2, <2>3
<1>2. TypeOK'
  BY <1>1 DEF ChainInv, TypeOK, browser, Awaited
<1>3. NoNewRow /\ NoNewReader
  BY <1>1 DEF NoNewRow, NoNewReader, bounds
<1> QED BY <1>1, <1>2, <1>3, RowsShrink, ReadersKeep DEF ChainInv

\* Every step keeps a chain from forking.
LEMMA ChainStep == ChainInv /\ [Next]_vars => ChainInv'
<1> SUFFICES ASSUME ChainInv, [Next]_vars PROVE ChainInv'
  OBVIOUS
<1>1. CASE UNCHANGED vars
  BY <1>1 DEF vars, browser, server, bounds, ChainInv, TypeOK, OneTokenPerChain, RowsKnown,
              RequestsKnown, Row, Awaited
<1>2. CASE Next
  BY <1>2, BrowserStep, RefreshStep, LoginStep, PeekStep, TurnedAwayStep, VouchedStep, UnaskedStep,
     RotateStep, VerdictStep DEF Next, Handles, Fails, TurnedAway
<1> QED BY <1>1, <1>2

\* Type correctness of tabs, requests, session rows and grants, and one refresh
\* under way per tab at most (refresh.ts's inflight), for every number of tabs.
THEOREM SessionTypeOK == Spec => []TypeOK
<1>1. ChainInv => TypeOK
  BY DEF ChainInv
<1> QED BY <1>1, ChainInit, ChainStep, PTL DEF Spec

\* A chain never forks: whatever requests race on one token, a login has one
\* live row at most (sessions.go, RotateSession).
THEOREM SessionOneTokenPerChain == Spec => []OneTokenPerChain
<1>1. ChainInv => OneTokenPerChain
  BY DEF ChainInv
<1> QED BY <1>1, ChainInit, ChainStep, PTL DEF Spec

----------------------------------------------------------------------------
(* Nobody is refused without a cause. *)

\* One tab at a time, and one refresh per tab: one request.
LEMMA OneRequest ==
    ASSUME TypeOK, AllSound,
           NEW s1 \in Slots, NEW s2 \in Slots, req[s1].at # "none", req[s2].at # "none"
    PROVE  s1 = s2
<1>1. s1[1] = s2[1] /\ s1[1] \in Tabs
  BY SlotTab DEF AllSound, OneTabAtATime
<1>2. s1 = <<s1[1], s1[2]>> /\ s2 = <<s1[1], s2[2]>> /\ s1[2] \in {1, 2} /\ s2[2] \in {1, 2}
  BY <1>1, SlotTab
<1>3. Awaited(s1) /\ Awaited(s2)
  BY DEF AllSound, Sound, Awaited
<1>4. ~Awaited(<<s1[1], 1>>) \/ ~Awaited(<<s1[1], 2>>)
  BY <1>1 DEF TypeOK
<1> QED BY <1>2, <1>3, <1>4

\* A verdict stands, and so does the memory of what disturbed a chain.
LEMMA CausesStand ==
    ASSUME ChainInv, Next PROVE (Verdict => Verdict') /\ (disturbed => disturbed')
<1>1. disturbed => disturbed'
  BY DEF Next, Handles, Hears, Fails, Refresh, BackoffOver, Request, Logout, Reload, Login,
         Peek, Rejected,
         Vouched, Unasked, Deactivated, EndsSession, Rotate, RotateFails, Interposed, Refused, Renewed, Failing,
         Unheard, Outage, Lost, GivenUp, Expires, Lapses, Deactivate, Revoke
<1>2. ~active => ~active'
  BY DEF Next, Handles, Hears, Fails, Refresh, BackoffOver, Request, Logout, Reload, Login,
         Peek, Rejected,
         Vouched, Unasked, Deactivated, EndsSession, Rotate, RotateFails, Interposed, Refused, Renewed, Failing,
         Unheard, Outage, Lost, GivenUp, Expires, Lapses, Deactivate, Revoke, server
<1>3. idp.revoked # {} => idp'.revoked # {}
  <2>1. CASE \E s \in Slots : Vouched(s)
    <3>1. PICK s \in Slots : Vouched(s)
      BY <2>1
    <3>2. PICK n : idp' = [idp EXCEPT !.current[req[s].grant.login] = n]
      BY <3>1 DEF Vouched
    <3> QED BY <3>2 DEF ChainInv, TypeOK
  <2>2. CASE Revoke
    BY <2>2 DEF Revoke
  <2>3. CASE idp' = idp
    BY <2>3
  <2> QED BY <2>1, <2>2, <2>3 DEF Next, Handles, Hears, Fails, Refresh, BackoffOver, Request, Logout, Reload, Login,
         Peek, Rejected,
         Vouched, Unasked, Deactivated, EndsSession, Rotate, RotateFails, Interposed, Refused, Renewed, Failing,
         Unheard, Outage, Lost, GivenUp, Expires, Lapses, Deactivate, Revoke
<1> QED BY <1>1, <1>2, <1>3 DEF Verdict

\* A step that leaves rows and provider alone, and writes one slot, whose new
\* place is sound: the other requests are as sound as they were.
LEMMA OneSlotSound ==
    ASSUME ChainInv, AllSound, rows' = rows, idp' = idp, lapsed' = lapsed,
           NEW s \in Slots, NEW q, req' = [req EXCEPT ![s] = q],
           q.at = "none" \/ req[s].at # "none", Sound(s)'
    PROVE  OneTabAtATime' /\ \A u \in Slots : Sound(u)'
<1>0. req \in [Slots -> Requests(minted)]
  BY TypeParts DEF ChainInv
<1>1. \A u \in Slots : u # s => req'[u] = req[u]
  BY <1>0
<1>2. req'[s] = q
  BY <1>0
<1>3. OneTabAtATime'
  BY <1>1, <1>2 DEF AllSound, OneTabAtATime
<1>4. ASSUME NEW u \in Slots, u # s PROVE Sound(u)'
  BY <1>1, <1>4 DEF AllSound, Sound, Backed, Row, Honoured
<1> QED BY <1>3, <1>4

\* A request that ends, or is answered "failing", with nothing spent.
LEMMA EndsSound ==
    ASSUME ChainInv, AllSound, rows' = rows, idp' = idp, lapsed' = lapsed,
           store' = store \/ store' = NoToken,
           NEW s \in Slots, req[s].at # "none", ~Spent(s),
           Frees(s) \/ Answers(s, "failing", NoToken)
    PROVE  AllSound'
<1>0. req \in [Slots -> Requests(minted)]
  BY TypeParts DEF ChainInv
<1> DEFINE failing == [at |-> "failing", token |-> NoToken, grant |-> NoGrant, heard |-> req[s].heard]
<1>a. NoRequest.at = "none" /\ failing.at = "failing" /\ failing.heard
  BY DEF NoRequest, AllSound, Sound
<1>b. req' = [req EXCEPT ![s] = NoRequest] \/ req' = [req EXCEPT ![s] = failing]
  BY DEF Frees, Answers
<1> HIDE DEF failing
<1>1. PICK q \in {NoRequest, failing} :
        /\ q.at \in {"none", "failing"} /\ (q.at = "failing" => q.heard)
        /\ req' = [req EXCEPT ![s] = q]
  BY <1>a, <1>b
<1>2. Sound(s)'
  BY <1>0, <1>1 DEF Sound
<1>3. OneTabAtATime' /\ \A u \in Slots : Sound(u)'
  BY <1>1, <1>2, OneSlotSound
<1>4. StoreSound'
  <2> SUFFICES ASSUME store' # NoToken PROVE StoreSound'
    BY DEF StoreSound
  <2>1. CASE Backed(store)
    BY <2>1 DEF StoreSound, Backed, Honoured
  <2>2. ASSUME NEW u \in Slots, (req[u].at = "vouched" /\ req[u].token = store) \/ req[u].at = "renewed"
        PROVE  StoreSound'
    <3>1. CASE u = s
      <4>1. Backed(store)
        BY <2>2, <3>1 DEF AllSound, Sound, Spent
      <4> QED BY <4>1, <2>1
    <3>2. CASE u # s
      BY <2>2, <3>2, <1>0, <1>1 DEF StoreSound
    <3> QED BY <3>1, <3>2
  <2> QED BY <2>1, <2>2 DEF AllSound, StoreSound
<1> QED BY <1>3, <1>4 DEF AllSound

\* While no verdict fell and nothing disturbs, the browser's own steps, the
\* answers it hears and an outage leave every token it holds good.
LEMMA CauseBrowser ==
    ASSUME ChainInv, AllSound, ~Verdict, ~disturbed',
           \/ Expires
           \/ \E t \in Tabs : BackoffOver(t) \/ Request(t) \/ Logout(t) \/ Reload(t)
           \/ \E s \in Slots : Hears(s) \/ Lost(s) \/ Outage(s)
    PROVE  AllSound'
<1> USE DEF Hears
<1>0. req \in [Slots -> Requests(minted)]
  BY TypeParts DEF ChainInv
<1>1. CASE Expires \/ \E t \in Tabs : BackoffOver(t) \/ Request(t) \/ Logout(t) \/ Reload(t)
  <2>1. /\ rows' = rows /\ idp' = idp /\ req' = req /\ (store' = store \/ store' = NoToken)
        /\ lapsed' = lapsed
    BY <1>1 DEF Expires, BackoffOver, Request, Logout, Reload, Clears, server
  <2> QED BY <2>1 DEF AllSound, OneTabAtATime, StoreSound, Sound, Backed, Row, Honoured
<1>2. ASSUME NEW s \in Slots, Refused(s) PROVE AllSound'
  BY <1>2 DEF Refused, AllSound, Sound
<1>3. ASSUME NEW s \in Slots, Renewed(s) PROVE AllSound'
  <2>1. /\ rows' = rows /\ idp' = idp /\ store' = req[s].token /\ req' = [req EXCEPT ![s] = NoRequest]
        /\ req[s].at = "renewed" /\ lapsed' = lapsed
    BY <1>3 DEF Renewed, server, Frees
  <2>2. Backed(req[s].token)
    BY <2>1 DEF AllSound, Sound
  <2>3. StoreSound'
    BY <2>1, <2>2 DEF StoreSound, Backed, Honoured
  <2>4. Sound(s)'
    BY <1>0, <2>1 DEF Sound, NoRequest
  <2>5. NoRequest.at = "none"
    BY DEF NoRequest
  <2> HIDE DEF NoRequest
  <2> QED BY <2>1, <2>3, <2>4, <2>5, OneSlotSound DEF AllSound
<1>4. ASSUME NEW s \in Slots, Failing(s) \/ Lost(s) \/ Outage(s) PROVE AllSound'
  <2>1. /\ rows' = rows /\ idp' = idp /\ store' = store /\ lapsed' = lapsed
        /\ req[s].at # "none" /\ ~Spent(s)
        /\ Frees(s) \/ Answers(s, "failing", NoToken)
    BY <1>4 DEF Failing, Lost, Outage, BacksOff, Awaited, Spent, server, browser
  <2> QED BY <2>1, EndsSound
<1>5. ASSUME NEW s \in Slots, Unheard(s) PROVE AllSound'
  BY <1>5 DEF Unheard, AllSound, Sound
<1> QED BY <1>1, <1>2, <1>3, <1>4, <1>5

\* No other tab is at it, so the stored token is the one to present.
LEMMA CauseRefresh ==
    ASSUME ChainInv, AllSound, ~disturbed', NEW t \in Tabs, Refresh(t) PROVE AllSound'
<1>0. req \in [Slots -> Requests(minted)]
  BY TypeParts DEF ChainInv
<1> DEFINE q == [at |-> "sent", token |-> store, grant |-> NoGrant, heard |-> TRUE]
<1>a. PICK k \in {1, 2} : req' = [req EXCEPT ![<<t, k>>] = q]
  BY DEF Refresh, FreeSlots, Idle
<1>1. /\ \A i \in {1, 2} : ~Awaited(<<t, i>>) /\ <<t, i>> \in Slots
      /\ \A s \in Slots : s[1] # t => req[s].at = "none"
      /\ store # NoToken /\ rows' = rows /\ idp' = idp /\ store' = store /\ lapsed' = lapsed
  BY DEF Refresh, FreeSlots, Slots, server, browser
<1>2. q.at = "sent" /\ q.token = store /\ q.heard
  OBVIOUS
<1> HIDE DEF q
<1>3. ASSUME NEW s \in Slots PROVE req[s].at = "none"
  <2>1. s = <<s[1], s[2]>> /\ s[2] \in {1, 2}
    BY SlotTab
  <2>2. req[s].at # "none" => Awaited(s)
    BY DEF AllSound, Sound, Awaited
  <2> QED BY <2>1, <2>2, <1>1
<1>4. Backed(store)
  BY <1>1, <1>3 DEF AllSound, StoreSound
<1>5. \A s \in Slots : s # <<t, k>> => req'[s].at = "none"
  BY <1>0, <1>a, <1>3
<1>6. req'[<<t, k>>] = q
  BY <1>0, <1>a, <1>1
<1>7. \A s \in Slots : Sound(s)'
  <2>1. Backed(store)'
    BY <1>1, <1>4 DEF Backed, Honoured
  <2>2. Sound(<<t, k>>)'
    BY <1>1, <1>2, <1>6, <2>1 DEF Sound, Backed
  <2>3. \A s \in Slots : s # <<t, k>> => Sound(s)'
    BY <1>5 DEF Sound
  <2> QED BY <2>2, <2>3
<1>8. OneTabAtATime'
  BY <1>5 DEF OneTabAtATime
<1>9. StoreSound'
  BY <1>1, <1>4 DEF StoreSound, Backed, Honoured
<1> QED BY <1>1, <1>7, <1>8, <1>9 DEF AllSound

\* A new chain is honoured from its start.
LEMMA CauseLogin ==
    ASSUME ChainInv, AllSound, ~Verdict, NEW t \in Tabs, Login(t) PROVE AllSound'
<1>0. req \in [Slots -> Requests(minted)] /\ logins \in Nat /\ minted \in Nat
  BY TypeParts DEF ChainInv, RowsKnown
<1>1. /\ store' = minted + 1 /\ idp' = idp /\ lapsed' = lapsed
      /\ req' = [s \in Slots |-> IF s[1] = t THEN NoRequest ELSE req[s]]
      /\ logins + 1 <= MaxLogins
  BY <1>0, SessionAssumption DEF Login
<1>a. PICK n \in {NoProvider, 1} :
        rows' = {r \in rows : r.hash > lapsed}
                  \cup {[hash |-> minted + 1, grant |-> [login |-> logins + 2, n |-> n]]}
  BY <1>0 DEF Login
<1> DEFINE new == [hash |-> minted + 1, grant |-> [login |-> logins + 2, n |-> n]]
<1>b. rows' = rows \cup {new}
  <2>1. \A r \in rows : r.hash \in Nat /\ r.hash > 0
    BY <1>0 DEF ChainInv, TypeOK
  <2>2. {r \in rows : r.hash > lapsed} = rows
    BY <2>1 DEF AllSound
  <2> QED BY <2>2, <1>a
<1>2. Honoured(new.grant)
  BY <1>0, <1>1, SessionAssumption DEF Honoured, Verdict, ChainInv, RowsKnown, LoginIds
<1>3. new.hash = minted + 1
  OBVIOUS
<1> HIDE DEF new
<1>4. StoreSound'
  BY <1>1, <1>b, <1>2, <1>3 DEF StoreSound, Backed, Honoured
<1>5. \A s \in Slots : req'[s] = req[s] \/ req'[s].at = "none"
  BY <1>1 DEF NoRequest
<1>6. OneTabAtATime'
  BY <1>5 DEF OneTabAtATime, AllSound
<1>7. ASSUME NEW s \in Slots PROVE Sound(s)'
  <2>1. CASE req'[s] = req[s]
    BY <2>1, <1>1, <1>b DEF AllSound, Sound, Backed, Honoured, Row
  <2>2. CASE req'[s].at = "none"
    BY <2>2 DEF Sound
  <2> QED BY <1>5, <2>1, <2>2
<1> QED BY <1>1, <1>4, <1>6, <1>7 DEF AllSound

\* The presented token is backed, so the row that is read is honoured.
LEMMA CausePeek ==
    ASSUME ChainInv, AllSound, NEW s \in Slots, Peek(s) PROVE AllSound'
<1>0. req \in [Slots -> Requests(minted)]
  BY TypeParts DEF ChainInv
<1>1. /\ req[s].at = "sent" /\ rows' = rows /\ idp' = idp /\ store' = store /\ lapsed' = lapsed
      /\ Backed(req[s].token) /\ req[s].heard
  BY DEF Peek, server, browser, AllSound, Sound
<1>2. PICK r \in rows :
        /\ r.hash = req[s].token
        /\ req' = [req EXCEPT ![s] = [req[s] EXCEPT !.at = "peeked", !.grant = r.grant]]
  <2>1. \A r \in rows : r.hash \in Nat /\ r.hash > 0
    BY DEF ChainInv, TypeOK, RowsKnown
  <2>2. Live(req[s].token) = Row(req[s].token)
    BY <2>1 DEF Live, Row, AllSound
  <2> QED BY <1>1, <2>2 DEF Peek, Row, Backed
<1> DEFINE q == [req[s] EXCEPT !.at = "peeked", !.grant = r.grant]
<1>3. /\ q.at = "peeked" /\ q.token = req[s].token /\ q.grant = r.grant /\ q.heard
      /\ req' = [req EXCEPT ![s] = q]
  BY <1>0, <1>1, <1>2 DEF Requests
<1> HIDE DEF q
<1>4. req'[s] = q
  BY <1>0, <1>3
<1>5. Honoured(r.grant)
  BY <1>1, <1>2 DEF ChainInv, RowsKnown, Backed
<1>6. Sound(s)'
  BY <1>1, <1>2, <1>3, <1>4, <1>5 DEF Sound, Honoured
<1>7. StoreSound'
  BY <1>0, <1>1, <1>3 DEF AllSound, StoreSound, Backed, Honoured
<1> QED BY <1>1, <1>3, <1>6, <1>7, OneSlotSound DEF AllSound

\* The provider replaces the grant: the old one is honoured no more, and the
\* chain hangs by the one request that holds the new one.
LEMMA CauseVouched ==
    ASSUME ChainInv, AllSound, ~Verdict, NEW s \in Slots, Vouched(s) PROVE AllSound'
<1>0. TypeOK /\ req \in [Slots -> Requests(minted)] /\ logins \in Nat /\ logins <= MaxLogins
  BY TypeParts DEF ChainInv, RowsKnown
<1> DEFINE l == req[s].grant.login
<1> DEFINE q(n) == [req[s] EXCEPT !.at = "vouched", !.grant = [login |-> l, n |-> n]]
<1>1. PICK n \in {req[s].grant.n, req[s].grant.n + 1} :
        /\ idp' = [idp EXCEPT !.current[l] = n]
        /\ req' = [req EXCEPT ![s] = q(n)]
  BY DEF Vouched
<1>2. /\ req[s].at = "peeked" /\ rows' = rows /\ store' = store /\ lapsed' = lapsed
      /\ req[s].heard /\ req[s].grant.n # NoProvider
  BY DEF Vouched, server, browser, AllSound, Sound
<1>3. PICK r \in rows : r.hash = req[s].token /\ r.grant = req[s].grant
  BY <1>2 DEF AllSound, Sound
<1>4. l \in LoginIds
  BY <1>0, <1>2, SessionAssumption DEF ChainInv, RequestsKnown, LoginIds
<1>5. /\ q(n).at = "vouched" /\ q(n).token = req[s].token /\ q(n).grant.login = l /\ q(n).grant.n = n
      /\ q(n).heard /\ n # NoProvider
  <2>1. n # NoProvider
    BY <1>0, <1>1, <1>2 DEF Requests, Grant, NoProvider
  <2> QED BY <1>0, <1>2, <2>1 DEF Requests
<1> HIDE DEF q
<1>6. /\ idp'.current[l] = n /\ idp'.revoked = idp.revoked /\ idp.revoked = {}
      /\ \A k \in LoginIds : k # l => idp'.current[k] = idp.current[k]
  BY <1>0, <1>1, <1>4 DEF TypeOK, Verdict
<1>7. \A u \in Slots : u # s => req[u].at = "none" /\ req'[u].at = "none"
  <2>1. \A u \in Slots : u # s => req[u].at = "none"
    BY <1>0, <1>2, OneRequest
  <2> QED BY <2>1, <1>0, <1>1
<1>8. req'[s] = q(n)
  BY <1>0, <1>1
<1> HIDE DEF l
<1>9. \A u \in Slots : Sound(u)'
  <2>1. Sound(s)'
    BY <1>2, <1>3, <1>5, <1>6, <1>8 DEF Sound, Row, Honoured
  <2> QED BY <2>1, <1>7 DEF Sound
<1>10. OneTabAtATime'
  BY <1>7 DEF OneTabAtATime
<1>11. StoreSound'
  <2> SUFFICES ASSUME store # NoToken, store # req[s].token PROVE Backed(store)'
    BY <1>2, <1>5, <1>8 DEF StoreSound
  <2>1. PICK x \in rows : x.hash = store /\ Honoured(x.grant)
    BY <1>2, <1>7 DEF AllSound, StoreSound, Backed
  <2>2. x.grant.login # l /\ x.grant.login \in LoginIds
    BY <2>1, <1>0, <1>3, SessionAssumption DEF ChainInv, OneTokenPerChain, RowsKnown, LoginIds, l
  <2>3. Honoured(x.grant)'
    BY <2>1, <2>2, <1>6 DEF Honoured
  <2> QED BY <2>1, <2>3, <1>2 DEF Backed
<1> QED BY <1>2, <1>9, <1>10, <1>11 DEF AllSound

\* The provider is not asked: the row is what it was.
LEMMA CauseUnasked ==
    ASSUME ChainInv, AllSound, NEW s \in Slots, Unasked(s) PROVE AllSound'
<1>0. req \in [Slots -> Requests(minted)]
  BY TypeParts DEF ChainInv
<1>1. /\ req[s].at = "peeked" /\ rows' = rows /\ idp' = idp /\ store' = store /\ lapsed' = lapsed
      /\ req[s].heard
  BY DEF Unasked, server, browser, AllSound, Sound
<1> DEFINE q == [req[s] EXCEPT !.at = "vouched"]
<1>2. /\ q.at = "vouched" /\ q.token = req[s].token /\ q.grant = req[s].grant /\ q.heard
      /\ req' = [req EXCEPT ![s] = q]
  BY <1>0, <1>1 DEF Unasked, Requests
<1> HIDE DEF q
<1>3. PICK r \in rows : r.hash = req[s].token /\ r.grant = req[s].grant /\ Honoured(r.grant)
  BY <1>1 DEF AllSound, Sound
<1>4. Sound(s)'
  <2>1. req'[s] = q
    BY <1>0, <1>2
  <2> QED BY <1>1, <1>2, <1>3, <2>1 DEF Sound, Row, Backed, Honoured
<1>5. StoreSound'
  BY <1>0, <1>1, <1>2 DEF AllSound, StoreSound, Backed, Honoured
<1> QED BY <1>1, <1>2, <1>4, <1>5, OneSlotSound DEF AllSound

\* The one request that was vouched for finds its row, and replaces it.
LEMMA CauseRotate ==
    ASSUME ChainInv, AllSound, NEW s \in Slots, Rotate(s) PROVE AllSound'
<1>0. TypeOK /\ req \in [Slots -> Requests(minted)]
  BY TypeParts DEF ChainInv
<1>1. req[s].at = "vouched" /\ idp' = idp /\ store' = store /\ lapsed' = lapsed /\ req[s].heard
  BY DEF Rotate, browser, AllSound, Sound
<1>2. Row(req[s].token) # {} /\ Honoured(req[s].grant)
  BY <1>1 DEF AllSound, Sound
<1> DEFINE new == [hash |-> minted', grant |-> req[s].grant]
<1> DEFINE q == [at |-> "renewed", token |-> minted', grant |-> NoGrant, heard |-> req[s].heard]
<1>3. PICK r \in rows : /\ r.hash = req[s].token
                        /\ rows' = (rows \ {r}) \cup {new}
                        /\ req' = [req EXCEPT ![s] = q]
  BY <1>2 DEF Rotate, Row, Replaces, Answers
<1>4. /\ new.hash = minted' /\ new.grant = req[s].grant
      /\ q.at = "renewed" /\ q.token = minted' /\ q.heard
  BY <1>1
<1> HIDE DEF new, q
<1>5. \A u \in Slots : u # s => req[u].at = "none" /\ req'[u].at = "none"
  <2>1. \A u \in Slots : u # s => req[u].at = "none"
    BY <1>0, <1>1, OneRequest
  <2> QED BY <2>1, <1>0, <1>3
<1>6. req'[s] = q
  BY <1>0, <1>3
<1>7. \A u \in Slots : Sound(u)'
  <2>1. Sound(s)'
    BY <1>1, <1>2, <1>3, <1>4, <1>6 DEF Sound, Backed, Honoured
  <2> QED BY <2>1, <1>5 DEF Sound
<1>8. OneTabAtATime'
  BY <1>5 DEF OneTabAtATime
<1>9. StoreSound'
  BY <1>4, <1>6 DEF StoreSound
<1> QED BY <1>1, <1>7, <1>8, <1>9 DEF AllSound

\* No tab is refused at the start,
LEMMA CauseInit == Init => CauseInv
<1> SUFFICES ASSUME Init PROVE CauseInv
  OBVIOUS
<1>1. \A s \in Slots : req[s].at = "none"
  BY DEF Init, NoRequest
<1>2. Backed(store)
  BY SessionAssumption DEF Init, Backed, Honoured, LoginIds, NoProvider
<1>3. RefusedForCause
  BY DEF Init, RefusedForCause
<1>4. lapsed = 0
  BY DEF Init
<1> QED BY <1>1, <1>2, <1>3, <1>4 DEF CauseInv, Undisturbed, AllSound, OneTabAtATime, StoreSound, Sound

\* and no step refuses one without a cause.
LEMMA CauseStep == ChainInv /\ CauseInv /\ [Next]_vars => CauseInv'
<1> SUFFICES ASSUME ChainInv, CauseInv, [Next]_vars PROVE CauseInv'
  OBVIOUS
<1>1. CASE UNCHANGED vars
  BY <1>1 DEF vars, browser, server, CauseInv, RefusedForCause, Undisturbed, Verdict, AllSound,
              OneTabAtATime, StoreSound, Sound, Backed, Row, Honoured
<1>2. CASE Next
  <2>1. SUFFICES ASSUME ~Verdict', ~disturbed' PROVE CauseInv'
    BY DEF CauseInv, RefusedForCause, Undisturbed
  <2>2. ~Verdict /\ ~disturbed /\ AllSound
    BY <1>2, <2>1, CausesStand DEF CauseInv, Undisturbed
  <2>3. \A t \in Tabs : ended[t] # "refused"
    BY <2>2 DEF CauseInv, RefusedForCause
  <2>4. AllSound'
    <3>1. ASSUME NEW s \in Slots, Rejected(s) \/ Deactivated(s) PROVE FALSE
      BY <2>2, <3>1 DEF AllSound, Sound, Rejected, Deactivated, Verdict
    <3>2. ~(Deactivate \/ Revoke)
      <4>1. 1 \in 1 .. logins + 1 /\ idp \in [current : [LoginIds -> Nat], revoked : SUBSET LoginIds]
        BY DEF ChainInv, RowsKnown, TypeOK
      <4>2. Revoke => idp'.revoked = 1 .. logins + 1
        BY <4>1 DEF Revoke
      <4> QED BY <2>1, <4>1, <4>2 DEF Deactivate, Verdict
    <3>3. ~Lapses /\ \A s \in Slots : ~(RotateFails(s) \/ Interposed(s) \/ GivenUp(s))
      BY <2>1 DEF Lapses, RotateFails, Interposed, GivenUp
    <3> QED BY <1>2, <2>1, <2>2, <3>1, <3>2, <3>3, CauseBrowser, CauseRefresh, CauseLogin, CausePeek,
               CauseVouched, CauseUnasked, CauseRotate DEF Next, Handles, Fails
  <2>5. \A t \in Tabs : ended'[t] # "refused"
    <3>1. ASSUME NEW s \in Slots, Refused(s) PROVE FALSE
      BY <2>2, <3>1 DEF AllSound, Sound, Refused
    <3>2. CASE \E t \in Tabs : ended' = [ended EXCEPT ![t] = "deactivated"] \/ ended' = [ended EXCEPT ![t] = "logout"]
                               \/ ended' = [ended EXCEPT ![t] = "no"]
      BY <3>2, <2>3 DEF ChainInv, TypeOK
    <3>4. CASE \E t \in Tabs : Reload(t)
      BY <3>4, <2>3 DEF Reload, ChainInv, TypeOK
    <3>3. CASE ended' = ended
      BY <3>3, <2>3
    <3> QED BY <1>2, <3>1, <3>2, <3>3, <3>4
            DEF Next, Handles, Hears, Fails, Refresh, BackoffOver, Request, Logout, Reload, Login,
         Peek, Rejected,
         Vouched, Unasked, Deactivated, EndsSession, Rotate, RotateFails, Interposed, Refused, Renewed, Failing,
         Unheard, Outage, Lost, GivenUp, Expires, Lapses, Deactivate, Revoke, browser, Clears
  <2> QED BY <2>4, <2>5 DEF CauseInv, RefusedForCause, Undisturbed
<1> QED BY <1>1, <1>2

\* Offline is no logout: whatever fails before the provider is asked, and however
\* many callers of a tab share a refresh, a tab is refused only after a verdict or
\* where something named disturbed the chain (auth.go's peek before consume,
\* refresh.ts's 4xx/5xx split).
THEOREM SessionRefusedForCause == Spec => []RefusedForCause
<1>1. Init => ChainInv /\ CauseInv
  BY ChainInit, CauseInit
<1>2. ChainInv /\ CauseInv /\ [Next]_vars => (ChainInv /\ CauseInv)'
  BY ChainStep, CauseStep
<1>3. CauseInv => RefusedForCause
  BY DEF CauseInv
<1> QED BY <1>1, <1>2, <1>3, PTL DEF Spec

=============================================================================
