------------------------------ MODULE Session ------------------------------
(***************************************************************************)
(* A login and its renewal: the tabs of one browser and the tokens they    *)
(* share in localStorage (client/src/auth/refresh.ts, tokens.ts), the      *)
(* refresh handler (internal/api/auth.go) with its rotating single-use     *)
(* rows (internal/store/sessions.go), and the identity provider it asks.   *)
(*                                                                         *)
(* A refresh token is its number, and carries its access token with it.    *)
(* The handler is four steps, its answer a fifth; any of them may be       *)
(* overtaken by another request's, any may fail, and the handler may go on *)
(* after its client gave up. The clocks of client and server agree.        *)
(***************************************************************************)
EXTENDS Naturals, FiniteSets

CONSTANTS
    Tabs,
    MaxExpiries,    \* bound: access tokens that expire, and stretches of 90 days
    MaxLogins,      \* bound: logins after the first
    MaxFaults       \* bound: lost or interposed requests and answers, crashes, outages

ASSUME SessionAssumption ==
    /\ Tabs # {}
    /\ MaxExpiries \in Nat /\ MaxLogins \in Nat /\ MaxFaults \in Nat

\* A tab awaits one refresh at most; the server may be at another one still.
Slots == Tabs \X {1, 2}

VARIABLES
    store,      \* localStorage: the stored refresh token, or NoToken
    stale,      \* the stored access token is within the skew of its expiry
    ended,      \* per tab: what the session ended of here, or "no"
    waiting,    \* per tab: a failed refresh holds back the next one
    req,        \* per slot: a refresh request, where it stands, and if its tab listens
    rows,       \* server: the sessions table
    minted,     \* server: refresh tokens handed out
    lapsed,     \* server: the rows of the tokens up to this one are past their 90 days
    active,     \* server: the account is active
    idp,        \* provider: the current grant of each login, the logins it disowns
    expiries, logins, faults,
    disturbed   \* history: something the documents name, or the code answers with
                \* a 4xx, has come between a browser and its session

browser == <<store, stale, ended, waiting>>
server == <<rows, minted, lapsed, active>>
bounds == <<expiries, logins, faults>>
vars == <<browser, req, server, idp, bounds, disturbed>>

NoToken == 0
NoProvider == 0      \* the grant of a chain the provider gave no refresh token for
NoGrant == [login |-> 0, n |-> NoProvider]
NoRequest == [at |-> "none", token |-> NoToken, grant |-> NoGrant, heard |-> FALSE]
LoginIds == 1 .. MaxLogins + 1

Init ==
    /\ store = 1 /\ stale = FALSE
    /\ ended = [t \in Tabs |-> "no"] /\ waiting = [t \in Tabs |-> FALSE]
    /\ req = [s \in Slots |-> NoRequest]
    /\ \E n \in {NoProvider, 1} : rows = {[hash |-> 1, grant |-> [login |-> 1, n |-> n]]}
    /\ minted = 1 /\ lapsed = 0 /\ active = TRUE
    /\ idp = [current |-> [l \in LoginIds |-> 1], revoked |-> {}]
    /\ expiries = 0 /\ logins = 0 /\ faults = 0
    /\ disturbed = FALSE

----------------------------------------------------------------------------
(* The browser. *)

\* Time passes: the stored access token nears its end.
Expires ==
    /\ store # NoToken /\ ~stale
    /\ expiries < MaxExpiries /\ expiries' = expiries + 1
    /\ stale' = TRUE
    /\ UNCHANGED <<store, ended, waiting, req, server, idp, logins, faults, disturbed>>

\* 90 days pass without a refresh: every row there is has expired, and every
\* access token long before it.
Lapses ==
    /\ lapsed < minted /\ \A s \in Slots : req[s].at = "none"
    /\ expiries < MaxExpiries /\ expiries' = expiries + 1
    /\ lapsed' = minted
    /\ stale' = (store # NoToken)
    /\ disturbed' = TRUE
    /\ UNCHANGED <<store, ended, waiting, req, rows, minted, active, idp, logins, faults>>

Awaited(s) == req[s].at # "none" /\ req[s].heard
Idle(t) == {k \in {1, 2} : req[<<t, k>>].at = "none"}

\* Mutant: every caller starts a refresh of its own.
EachItsOwn(t) == Idle(t)

\* inflight: a tab's callers share one refresh, and none starts while an earlier
\* failure holds it back. The first idle slot stands for either.
FreeSlots(t) ==
    IF \E k \in {1, 2} : Awaited(<<t, k>>) THEN {}
    ELSE {k \in Idle(t) : \A j \in Idle(t) : k <= j}

\* Refreshes of two tabs that overlap present one token, which one will consume.
Refresh(t) ==
    /\ store # NoToken /\ stale
    /\ ended[t] = "no" /\ ~waiting[t]
    /\ \E k \in FreeSlots(t) :
         req' = [req EXCEPT ![<<t, k>>] =
                   [at |-> "sent", token |-> store, grant |-> NoGrant, heard |-> TRUE]]
    /\ disturbed' = (disturbed \/ \E s \in Slots : s[1] # t /\ req[s].at # "none")
    /\ UNCHANGED <<browser, server, idp, bounds>>

Clears(t, why) ==
    /\ store' = NoToken /\ stale' = FALSE
    /\ ended' = [ended EXCEPT ![t] = why]

Frees(s) == req' = [req EXCEPT ![s] = NoRequest]
Answers(s, what, token) ==
    req' = [req EXCEPT ![s] = [at |-> what, token |-> token, grant |-> NoGrant, heard |-> @.heard]]

\* A 4xx that no later attempt can better: endSession.
Refused(s) ==
    /\ req[s].at = "refused" /\ req[s].heard
    /\ Clears(s[1], "refused")
    /\ Frees(s)
    /\ UNCHANGED <<waiting, server, idp, bounds, disturbed>>

\* The new pair is saved, whatever became of the session meanwhile.
Renewed(s) ==
    /\ req[s].at = "renewed" /\ req[s].heard
    /\ store' = req[s].token /\ stale' = FALSE
    /\ waiting' = [waiting EXCEPT ![s[1]] = FALSE]
    /\ Frees(s)
    /\ UNCHANGED <<ended, server, idp, bounds, disturbed>>

\* Mutant: only a refresh that succeeds makes way for the next.
BacksOffHeld(s) ==
    /\ waiting' = [waiting EXCEPT ![s[1]] = TRUE]
    /\ UNCHANGED req

BacksOff(s) ==
    /\ waiting' = [waiting EXCEPT ![s[1]] = TRUE]
    /\ Frees(s)

\* A 5xx or a transient 4xx: this tab tries again later.
Failing(s) ==
    /\ req[s].at = "failing" /\ req[s].heard
    /\ BacksOff(s)
    /\ UNCHANGED <<store, stale, ended, server, idp, bounds, disturbed>>

\* What a request may have used up by the time nobody hears of it: the token,
\* or the provider's grant.
Spent(s) == req[s].at = "renewed" \/ (req[s].at = "vouched" /\ req[s].grant.n # NoProvider)

\* No answer comes: the request or the answer was lost, or the server stopped
\* in between. The client cannot tell which.
Lost(s) ==
    /\ Awaited(s) /\ req[s].at # "failing"
    /\ faults < MaxFaults /\ faults' = faults + 1
    /\ BacksOff(s)
    /\ disturbed' = (disturbed \/ Spent(s))
    /\ UNCHANGED <<store, stale, ended, server, idp, expiries, logins>>

\* The client gives up, and the server goes on without it.
GivenUp(s) ==
    /\ Awaited(s) /\ req[s].at \in {"sent", "peeked", "vouched"}
    /\ faults < MaxFaults /\ faults' = faults + 1
    /\ waiting' = [waiting EXCEPT ![s[1]] = TRUE]
    /\ req' = [req EXCEPT ![s].heard = FALSE]
    /\ disturbed' = TRUE
    /\ UNCHANGED <<store, stale, ended, server, idp, expiries, logins>>

\* Its answer reaches nobody.
Unheard(s) ==
    /\ req[s].at \in {"refused", "renewed", "failing"} /\ ~req[s].heard
    /\ Frees(s)
    /\ UNCHANGED <<browser, server, idp, bounds, disturbed>>

\* What stands before the instance answers in its place, and with a 4xx.
Interposed(s) ==
    /\ req[s].at = "sent"
    /\ faults < MaxFaults /\ faults' = faults + 1
    /\ Answers(s, "refused", NoToken)
    /\ disturbed' = TRUE
    /\ UNCHANGED <<browser, server, idp, expiries, logins>>

BackoffOver(t) ==
    /\ waiting[t]
    /\ waiting' = [waiting EXCEPT ![t] = FALSE]
    /\ UNCHANGED <<store, stale, ended, req, server, idp, bounds, disturbed>>

\* Mutant: a 403 is an answer like any other.
RequestShrugged(t) ==
    /\ store # NoToken /\ ~stale /\ ended[t] = "no" /\ ~active
    /\ UNCHANGED vars

\* A request with an unexpired token: a deactivated account is told so, 403.
Request(t) ==
    /\ store # NoToken /\ ~stale /\ ended[t] = "no" /\ ~active
    /\ Clears(t, "deactivated")
    /\ UNCHANGED <<waiting, req, server, idp, bounds, disturbed>>

\* The user logs out: of this browser only, the server is not told.
Logout(t) ==
    /\ store # NoToken /\ ended[t] = "no"
    /\ Clears(t, "logout")
    /\ UNCHANGED <<waiting, req, server, idp, bounds, disturbed>>

\* A tab that loads without tokens shows the login page (App.vue:300); one that
\* loads with those of another tab's login is at home again. Nothing else tells
\* a tab what became of the tokens it shares.
Reload(t) ==
    /\ ended[t] = "no" <=> store = NoToken
    /\ \A k \in {1, 2} : ~Awaited(<<t, k>>)
    /\ ended' = [ended EXCEPT ![t] = IF store = NoToken THEN "logout" ELSE "no"]
    /\ waiting' = [waiting EXCEPT ![t] = FALSE]
    /\ UNCHANGED <<store, stale, req, server, idp, bounds, disturbed>>

\* A login is a full reload of the tab, with a chain of its own; the expired rows
\* are purged with it (CreateSession). The provider may have given no token.
Login(t) ==
    /\ ended[t] # "no" /\ active
    /\ logins < MaxLogins /\ logins' = logins + 1
    /\ minted' = minted + 1
    /\ \E n \in {NoProvider, 1} :
         rows' = {r \in rows : r.hash > lapsed}
                   \cup {[hash |-> minted', grant |-> [login |-> logins' + 1, n |-> n]]}
    /\ store' = minted' /\ stale' = FALSE
    /\ ended' = [ended EXCEPT ![t] = "no"]
    /\ waiting' = [waiting EXCEPT ![t] = FALSE]
    /\ req' = [s \in Slots |-> IF s[1] = t THEN NoRequest ELSE req[s]]
    /\ UNCHANGED <<lapsed, active, idp, expiries, faults, disturbed>>

----------------------------------------------------------------------------
(* The refresh handler, and the provider. *)

Row(hash) == {r \in rows : r.hash = hash}
Live(hash) == {r \in Row(hash) : r.hash > lapsed}

\* Peek before consuming: the row is read and left. One past its expiry is as
\* good as none (GetSessionByHash).
Peek(s) ==
    /\ req[s].at = "sent"
    /\ IF Live(req[s].token) = {} THEN Answers(s, "refused", NoToken)
       ELSE \E r \in Live(req[s].token) :
              req' = [req EXCEPT ![s] = [@ EXCEPT !.at = "peeked", !.grant = r.grant]]
    /\ UNCHANGED <<browser, server, idp, bounds, disturbed>>

\* The row cannot be read, the provider cannot be asked, or the account cannot be
\* looked up: a 5xx, and the row is as it was. The grant may be another by then.
Outage(s) ==
    /\ req[s].at \in {"sent", "peeked", "vouched"}
    /\ faults < MaxFaults /\ faults' = faults + 1
    /\ Answers(s, "failing", NoToken)
    /\ disturbed' = (disturbed \/ Spent(s))
    /\ UNCHANGED <<browser, server, idp, expiries, logins>>

Honoured(g) == g.n = NoProvider \/ (g.login \notin idp.revoked /\ g.n = idp.current[g.login])

\* endSession: the row goes, or stays behind where the delete fails.
EndsSession(s) ==
    /\ \/ rows' = rows \ Row(req[s].token) /\ UNCHANGED faults
       \/ faults < MaxFaults /\ faults' = faults + 1 /\ UNCHANGED rows
    /\ Answers(s, "refused", NoToken)
    /\ UNCHANGED <<browser, minted, lapsed, active, idp, expiries, logins, disturbed>>

\* The provider rejects a grant it revoked or has replaced since.
Rejected(s) ==
    /\ req[s].at = "peeked"
    /\ ~Honoured(req[s].grant)
    /\ EndsSession(s)

\* It honours the current one, and may replace it.
Vouched(s) ==
    /\ req[s].at = "peeked" /\ req[s].grant.n # NoProvider
    /\ Honoured(req[s].grant)
    /\ \E n \in {req[s].grant.n, req[s].grant.n + 1} :
         LET g == [login |-> req[s].grant.login, n |-> n] IN
           /\ idp' = [idp EXCEPT !.current[g.login] = n]
           /\ req' = [req EXCEPT ![s] = [@ EXCEPT !.at = "vouched", !.grant = g]]
    /\ UNCHANGED <<browser, server, bounds, disturbed>>

\* A chain without a provider's token is not asked about.
Unasked(s) ==
    /\ req[s].at = "peeked" /\ req[s].grant.n = NoProvider
    /\ req' = [req EXCEPT ![s].at = "vouched"]
    /\ UNCHANGED <<browser, server, idp, bounds, disturbed>>

\* The chain of an account that is deactivated, or gone, ends here.
Deactivated(s) ==
    /\ req[s].at = "vouched" /\ ~active
    /\ EndsSession(s)

\* Mutant: the new row is inserted beside the old one.
BesideTheOld(r, s) == rows' = rows \cup {[hash |-> minted', grant |-> req[s].grant]}

Replaces(r, s) == rows' = (rows \ {r}) \cup {[hash |-> minted', grant |-> req[s].grant]}

\* RotateSession: the old hash is consumed, by one request.
Rotate(s) ==
    /\ req[s].at = "vouched" /\ active
    /\ IF Row(req[s].token) = {}
       THEN Answers(s, "refused", NoToken) /\ UNCHANGED <<rows, minted>>
       ELSE \E r \in Row(req[s].token) :
              /\ minted' = minted + 1
              /\ Replaces(r, s)
              /\ Answers(s, "renewed", minted')
    /\ UNCHANGED <<browser, lapsed, active, idp, bounds, disturbed>>

\* Whatever else goes wrong in it is answered like a consumed token (auth.go:148-153).
RotateFails(s) ==
    /\ req[s].at = "vouched" /\ active
    /\ faults < MaxFaults /\ faults' = faults + 1
    /\ Answers(s, "refused", NoToken)
    /\ disturbed' = TRUE
    /\ UNCHANGED <<browser, server, idp, expiries, logins>>

Deactivate ==
    /\ active
    /\ active' = FALSE
    /\ UNCHANGED <<browser, req, rows, minted, lapsed, idp, bounds, disturbed>>

Revoke ==
    /\ idp.revoked = {}
    /\ idp' = [idp EXCEPT !.revoked = 1 .. logins + 1]
    /\ UNCHANGED <<browser, req, server, bounds, disturbed>>

Handles(s) == Peek(s) \/ Rejected(s) \/ Vouched(s) \/ Unasked(s) \/ Deactivated(s) \/ Rotate(s)
Hears(s) == Refused(s) \/ Renewed(s) \/ Failing(s) \/ Unheard(s)
Fails(s) == Outage(s) \/ RotateFails(s) \/ Interposed(s) \/ Lost(s) \/ GivenUp(s)

Next ==
    \/ \E t \in Tabs : Refresh(t) \/ BackoffOver(t) \/ Request(t) \/ Logout(t) \/ Reload(t) \/ Login(t)
    \/ \E s \in Slots : Handles(s) \/ Hears(s) \/ Fails(s)
    \/ Expires \/ Lapses \/ Deactivate \/ Revoke

\* Tabs go on making requests, timers fire, the server answers and is heard. Each
\* of these is one loop, whose steps exclude one another.
Fairness ==
    /\ \A t \in Tabs : WF_vars(Refresh(t) \/ BackoffOver(t)) /\ WF_vars(Request(t))
    /\ \A s \in Slots : WF_vars(Handles(s) \/ Hears(s))

Spec == Init /\ [][Next]_vars /\ Fairness

----------------------------------------------------------------------------
(* Properties. *)

Grant == [login : 0 .. MaxLogins + 1, n : Nat]

\* Type correctness of the session; a tab awaits one refresh at most.
TypeOK ==
    /\ store \in 0 .. minted /\ stale \in BOOLEAN
    /\ ended \in [Tabs -> {"no", "refused", "deactivated", "logout"}]
    /\ waiting \in [Tabs -> BOOLEAN]
    /\ req \in [Slots -> [at : {"none", "sent", "peeked", "vouched", "renewed", "refused", "failing"},
                          token : 0 .. minted, grant : Grant, heard : BOOLEAN]]
    /\ \A t \in Tabs : ~Awaited(<<t, 1>>) \/ ~Awaited(<<t, 2>>)
    /\ rows \subseteq [hash : 1 .. minted, grant : Grant] /\ lapsed \in 0 .. minted
    /\ active \in BOOLEAN /\ idp \in [current : [LoginIds -> Nat], revoked : SUBSET LoginIds]
    /\ disturbed \in BOOLEAN

\* A chain never forks: whatever refreshes race on one token, one renewal at
\* most comes of it and a login has one live token (sessions.go:78-82).
OneTokenPerChain ==
    \A r1, r2 \in rows : r1.grant.login = r2.grant.login => r1 = r2

Verdict == idp.revoked # {} \/ ~active

\* Offline is no logout. Whatever fails before the provider is asked, a lost
\* request, an unreadable row or an outage of the provider, however often, and
\* however many callers of a tab share a refresh: no tab is refused for it. A
\* refusal takes a verdict of the provider or of the instance, or one of what
\* disturbs a chain: two tabs' refreshes that overlap, one that fails or is given
\* up once the grant or the token may be spent, a store that fails at the rotation,
\* 90 days, or a 4xx from what stands in front (auth.go:92-93, 109-112, 148-153,
\* refresh.ts:140-151, 170-178, docs/authentication.md:188-199).
RefusedForCause ==
    (\E t \in Tabs : ended[t] = "refused") => Verdict \/ disturbed

\* A tab does not go on with a token that has expired: once outages are over it
\* is renewed, or its session ends, or the tokens are dropped by another tab, which
\* it is not told (refresh.ts:109-130; TabsAreTold is what it does not do).
SomeoneHome == \E t \in Tabs : ended[t] = "no"
ExpiredIsRenewedOrDropped ==
    \A t \in Tabs : (ended[t] = "no" /\ store # NoToken /\ stale)
                      ~> (ended[t] # "no" \/ ~stale)

\* Deactivation reaches a browser that is in use, whatever it had under way
\* (apiClient.ts:186-199, auth.go:132-136).
DeactivationBites == (~active /\ SomeoneHome) ~> (store = NoToken \/ ~SomeoneHome)

----------------------------------------------------------------------------
(* What a comment promises and the code does not keep. *)

\* "End the session for good: drop the tokens" (refresh.ts:65): a browser whose
\* every tab has ended its session holds no tokens.
EndedForGood == SomeoneHome \/ store = NoToken

\* "drop the tokens and tell the app to go back to the login page"
\* (refresh.ts:65-66): once the session was ended for good, a tab whose tokens were
\* dropped with it comes to know, or has tokens again. It holds in the tab that
\* ended the session and in no other.
TabsAreTold ==
    \A t \in Tabs :
        (ended[t] = "no" /\ store = NoToken /\ \E u \in Tabs : ended[u] \in {"refused", "deactivated"})
          ~> (ended[t] # "no" \/ store # NoToken)

\* "Consumed by a concurrent rotation between peek and here" (auth.go:150): where
\* the rotation refuses, the row it was to rotate is gone.
RotationRefusesTheConsumed ==
    [][\A s \in Slots : req[s].at = "vouched" /\ active /\ req'[s].at = "refused"
         => Row(req[s].token) = {}]_vars

============================================================================
