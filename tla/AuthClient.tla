----------------------------- MODULE AuthClient -----------------------------
(***************************************************************************)
(* The tabs of one browser and how they keep their user logged in.  Each   *)
(* tab has its own copy of authStore, persisted to a localStorage entry    *)
(* all tabs share but read only when they load.  An access token that has  *)
(* expired is renewed with the refresh token, which stays valid until the  *)
(* logout: ahead of time by useTokenRefresh, and by request() of api.ts    *)
(* after a 401, which then repeats the request once.  The callers of a tab *)
(* share the promise in _refreshInFlight, and a tab tells the others of a  *)
(* new token through a BroadcastChannel.  What a handler found in the      *)
(* store before it waited may be gone when it goes on.                     *)
(***************************************************************************)
EXTENDS Naturals, Sequences

CONSTANTS
    Tabs, Users,
    Working,       \* tabs that send requests
    Leaving,       \* tabs whose user may log out
    MaxRefreshes,  \* bound on the promises of _doRefresh a tab has at once
    MaxTokens,     \* bound on access tokens
    MaxSessions,   \* bound on refresh tokens
    MaxFaults      \* bound on refresh requests that fail on the network, and on logouts

NoUser == "nobody"

ASSUME AuthAssumption ==
    /\ NoUser \notin Users /\ Working \subseteq Tabs /\ Leaving \subseteq Tabs
    /\ MaxRefreshes \in Nat /\ MaxTokens \in Nat /\ MaxSessions \in Nat /\ MaxFaults \in Nat

VARIABLES
    tokens,     \* access tokens issued: whose, and whether they are accepted
    sessions,   \* refresh tokens issued: whose, and whether they are accepted
    store,      \* authStore of each tab
    disk,       \* the entry "openpm-auth" in localStorage
    request,    \* a request() of each tab
    promise,    \* the calls of _doRefresh
    inFlight,   \* _refreshInFlight
    timer,      \* tabs whose useTokenRefresh timer is set
    mail,       \* messages on their way to a tab's channel listener
    leaving,    \* tabs in handleLogout
    registered, \* users whose account was made in this browser
    faults      \* refresh requests that have failed, and logouts

server == <<tokens, sessions, registered>>
page   == <<request, promise, inFlight, timer, mail, leaving>>
vars   == <<server, store, disk, page, faults>>

-----------------------------------------------------------------------------
NoToken   == 0
Off       == 0
Refreshes == 1 .. MaxRefreshes
TokenIds == 0 .. MaxTokens
Auth     == [user : Users \cup {NoUser}, token : TokenIds, session : 0 .. MaxSessions]
LoggedOut == [user |-> NoUser, token |-> NoToken, session |-> NoToken]

\* One call of request(): "sent" and "retry" wait for the server, "waiting" for a promise.
Idle     == [pc |-> "idle", token |-> NoToken, on |-> Off]
Request  == [pc : {"idle", "sent", "waiting", "retry"}, token : TokenIds, on : Refreshes \cup {Off}]

\* One call of _doRefresh, with what it read from the store before its fetch.
NoCall   == [pc |-> "off", user |-> NoUser, session |-> NoToken, token |-> NoToken]
Promise  == [pc : {"off", "sent", "answered"}, user : Users \cup {NoUser},
             session : 0 .. MaxSessions, token : TokenIds]

LoggedIn(t) == store[t].user # NoUser

\* The project layout mounts the listener and the timer.
Timed(a) == a.token # NoToken /\ a.session # NoToken

Init ==
    /\ tokens = <<>> /\ sessions = <<>> /\ registered = {}
    /\ store = [t \in Tabs |-> LoggedOut] /\ disk = LoggedOut
    /\ request = [t \in Tabs |-> Idle]
    /\ promise = [t \in Tabs |-> [r \in Refreshes |-> NoCall]]
    /\ inFlight = [t \in Tabs |-> Off]
    /\ timer = {} /\ leaving = {}
    /\ mail = [t \in Tabs |-> <<>>]
    /\ faults = 0

-----------------------------------------------------------------------------
\* Mutant: the access token is renewed without its refresh token.
StoredWithoutSession(t, u, a, s) ==
    /\ store' = [store EXCEPT ![t] = [user |-> u, token |-> a, session |-> NoToken]]
    /\ disk' = store'[t]

\* Mutant: setAuth is called with its two tokens swapped.
StoredSwapped(t, u, a, s) ==
    /\ store' = [store EXCEPT ![t] = [user |-> u, token |-> s, session |-> a]]
    /\ disk' = store'[t]

\* setAuth, and the persist middleware.
Stored(t, u, a, s) ==
    /\ store' = [store EXCEPT ![t] = [user |-> u, token |-> a, session |-> s]]
    /\ disk' = store'[t]

\* The page's script starts anew with what localStorage holds.
Loaded(t, auth) ==
    /\ store' = [store EXCEPT ![t] = auth]
    /\ request' = [request EXCEPT ![t] = Idle]
    /\ promise' = [promise EXCEPT ![t] = [r \in Refreshes |-> NoCall]]
    /\ inFlight' = [inFlight EXCEPT ![t] = Off]
    /\ mail' = [mail EXCEPT ![t] = <<>>]
    /\ leaving' = leaving \ {t}
    /\ timer' = IF Timed(auth) THEN timer \cup {t} ELSE timer \ {t}

\* clearAuth and window.location.href = "/login": the store, the entry and the page are gone.
ThrowOut(t) ==
    /\ disk' = LoggedOut
    /\ Loaded(t, LoggedOut)

-----------------------------------------------------------------------------
(* Logging in and out. *)

\* The login page's two requests, and setAuth.
Login(t, u) ==
    /\ ~LoggedIn(t) /\ Len(tokens) < MaxTokens /\ Len(sessions) < MaxSessions
    /\ tokens' = Append(tokens, [user |-> u, fresh |-> TRUE])
    /\ sessions' = Append(sessions, [user |-> u, valid |-> TRUE])
    /\ Stored(t, u, Len(tokens) + 1, Len(sessions) + 1)
    /\ timer' = timer \cup {t}
    /\ UNCHANGED <<registered, request, promise, inFlight, mail, leaving, faults>>

\* The register page drops the refresh token of its login.
Register(t, u) ==
    /\ ~LoggedIn(t) /\ Len(tokens) < MaxTokens
    /\ \A i \in DOMAIN tokens : tokens[i].user # u
    /\ tokens' = Append(tokens, [user |-> u, fresh |-> TRUE])
    /\ registered' = registered \cup {u}
    /\ Stored(t, u, Len(tokens) + 1, NoToken)
    /\ UNCHANGED <<sessions, request, promise, inFlight, timer, mail, leaving, faults>>

\* A new tab, or a reload.
OpenTab(t) ==
    /\ Loaded(t, disk)
    /\ UNCHANGED <<server, disk, faults>>

\* The server refuses the tab's two tokens from now on.
StartLogout(t) ==
    /\ t \in Leaving \ leaving /\ LoggedIn(t) /\ faults < MaxFaults
    /\ faults' = faults + 1
    /\ leaving' = leaving \cup {t}
    /\ tokens' = [i \in DOMAIN tokens |-> IF i = store[t].token THEN [tokens[i] EXCEPT !.fresh = FALSE] ELSE tokens[i]]
    /\ sessions' = [i \in DOMAIN sessions |-> IF i = store[t].session THEN [sessions[i] EXCEPT !.valid = FALSE] ELSE sessions[i]]
    /\ UNCHANGED <<registered, store, disk, request, promise, inFlight, timer, mail>>

\* router.push keeps the page's script: calls on their way go on.
FinishLogout(t) ==
    /\ t \in leaving
    /\ leaving' = leaving \ {t}
    /\ store' = [store EXCEPT ![t] = LoggedOut] /\ disk' = LoggedOut
    /\ timer' = timer \ {t}
    /\ mail' = [mail EXCEPT ![t] = <<>>]
    /\ UNCHANGED <<server, request, promise, inFlight, faults>>

\* Older tokens expire first, and a token outlives the repetition of a request.
Expire(i) ==
    /\ i \in DOMAIN tokens /\ tokens[i].fresh /\ \E t \in Tabs : store[t].token = i
    /\ \A t \in Tabs : ~(request[t].pc = "retry" /\ request[t].token <= i)
    /\ \A t \in Tabs, r \in Refreshes : ~(promise[t][r].token \in 1 .. i)
    /\ tokens' = [j \in DOMAIN tokens |-> IF j <= i THEN [tokens[j] EXCEPT !.fresh = FALSE] ELSE tokens[j]]
    /\ UNCHANGED <<sessions, registered, store, disk, page, faults>>

-----------------------------------------------------------------------------
(* refreshAccessToken. *)

\* The promise the caller gets: the one in flight, or a new one, which is
\* null at once when there is nothing to refresh with.
Shared(t, r) ==
    \/ /\ inFlight[t] = r
       /\ UNCHANGED <<promise, inFlight>>
    \/ /\ inFlight[t] = Off
       /\ promise[t][r].pc = "off" /\ \A q \in 1 .. r - 1 : promise[t][q].pc # "off"
       /\ promise' = [promise EXCEPT ![t][r] =
                        [pc |-> IF store[t].session = NoToken \/ ~LoggedIn(t) THEN "answered" ELSE "sent",
                         user |-> store[t].user, session |-> store[t].session, token |-> NoToken]]
       /\ inFlight' = [inFlight EXCEPT ![t] = r]

AnswerRefresh(t, r) ==
    /\ promise[t][r].pc = "sent"
    /\ LET s == promise[t][r].session IN
          IF sessions[s].valid
          THEN /\ Len(tokens) < MaxTokens
               /\ tokens' = Append(tokens, [user |-> sessions[s].user, fresh |-> TRUE])
               /\ promise' = [promise EXCEPT ![t][r].pc = "answered", ![t][r].token = Len(tokens) + 1]
          ELSE /\ tokens' = tokens
               /\ promise' = [promise EXCEPT ![t][r].pc = "answered"]
    /\ UNCHANGED <<sessions, registered, store, disk, request, inFlight, timer, mail, leaving, faults>>

LoseRefresh(t, r) ==
    /\ promise[t][r].pc = "sent" /\ faults < MaxFaults
    /\ faults' = faults + 1
    /\ promise' = [promise EXCEPT ![t][r].pc = "answered"]
    /\ UNCHANGED <<server, store, disk, request, inFlight, timer, mail, leaving>>

\* Mutant: the promise stays in _refreshInFlight, and later callers get its token.
KeepInFlight(t, r) == inFlight' = inFlight

\* finally: whatever promise is recorded there by now.
ClearInFlight(t, r) == inFlight' = [inFlight EXCEPT ![t] = Off]

\* Mutant: only the callers of the promise on record are answered.
WaitersOnRecord(t, r) == request[t].pc = "waiting" /\ inFlight[t] = r

\* The request that waits for this promise.
Waits(t, r) == request[t].pc = "waiting" /\ request[t].on = r

Repeat(t, a) == request' = [request EXCEPT ![t] = [pc |-> "retry", token |-> a, on |-> Off]]

\* The new token is stored and told of, for the user the call has started with.
Renewed(t, r) ==
    LET p == promise[t][r] IN
    /\ p.pc = "answered" /\ p.token # NoToken
    /\ Stored(t, p.user, p.token, p.session)
    /\ timer' = IF LoggedIn(t) THEN timer \cup {t} ELSE timer
    /\ mail' = [q \in Tabs |-> IF LoggedIn(q)
                               THEN Append(mail[q], [token |-> p.token, session |-> p.session]) ELSE mail[q]]
    /\ promise' = [promise EXCEPT ![t][r] = NoCall]
    /\ ClearInFlight(t, r)
    /\ IF Waits(t, r) THEN Repeat(t, p.token) ELSE request' = request
    /\ UNCHANGED <<server, leaving, faults>>

NotRenewed(t, r) ==
    /\ promise[t][r].pc = "answered" /\ promise[t][r].token = NoToken
    /\ IF Waits(t, r) THEN ThrowOut(t)
       ELSE /\ promise' = [promise EXCEPT ![t][r] = NoCall]
            /\ ClearInFlight(t, r)
            /\ UNCHANGED <<store, disk, request, timer, mail, leaving>>
    /\ UNCHANGED <<server, faults>>

\* Another tab has refreshed, or this one has: its listener is a channel of its own.
Adopt(t) ==
    /\ mail[t] # <<>> /\ LoggedIn(t)
    /\ Stored(t, store[t].user, Head(mail[t]).token, Head(mail[t]).session)
    /\ mail' = [mail EXCEPT ![t] = Tail(@)]
    /\ inFlight' = [inFlight EXCEPT ![t] = Off]
    /\ timer' = IF store'[t] = store[t] THEN timer ELSE timer \cup {t}
    /\ UNCHANGED <<server, request, promise, leaving, faults>>

-----------------------------------------------------------------------------
(* The callers: the timer of useTokenRefresh, and request(). *)

TimerFires(t) ==
    /\ t \in timer /\ LoggedIn(t)
    /\ timer' = timer \ {t}
    /\ \E r \in Refreshes : Shared(t, r)
    /\ UNCHANGED <<server, store, disk, request, mail, leaving, faults>>

SendRequest(t) ==
    /\ t \in Working /\ request[t].pc = "idle" /\ LoggedIn(t)
    /\ request' = [request EXCEPT ![t] = [pc |-> "sent", token |-> store[t].token, on |-> Off]]
    /\ UNCHANGED <<server, store, disk, promise, inFlight, timer, mail, leaving, faults>>

Accepted(t) ==
    /\ request[t].pc \in {"sent", "retry"} /\ tokens[request[t].token].fresh
    /\ request' = [request EXCEPT ![t] = Idle]
    /\ UNCHANGED <<server, store, disk, promise, inFlight, timer, mail, leaving, faults>>

Unauthorized(t) ==
    /\ request[t].pc = "sent" /\ ~tokens[request[t].token].fresh
    /\ \E r \in Refreshes :
          /\ Shared(t, r)
          /\ request' = [request EXCEPT ![t] = [pc |-> "waiting", token |-> NoToken, on |-> r]]
    /\ UNCHANGED <<server, store, disk, timer, mail, leaving, faults>>

StillUnauthorized(t) ==
    /\ request[t].pc = "retry" /\ ~tokens[request[t].token].fresh
    /\ ThrowOut(t)
    /\ UNCHANGED <<server, faults>>

-----------------------------------------------------------------------------
Answered(t)   == Accepted(t) \/ Unauthorized(t) \/ StillUnauthorized(t)
Settled(t, r) == Renewed(t, r) \/ NotRenewed(t, r)

Next ==
    \/ \E t \in Tabs : \/ Answered(t) \/ Adopt(t) \/ TimerFires(t) \/ SendRequest(t)
                       \/ OpenTab(t) \/ StartLogout(t) \/ FinishLogout(t)
                       \/ \E u \in Users : Login(t, u) \/ Register(t, u)
                       \/ \E r \in Refreshes : AnswerRefresh(t, r) \/ LoseRefresh(t, r) \/ Settled(t, r)
    \/ \E i \in 1 .. MaxTokens : Expire(i)

Spec == Init /\ [][Next]_vars

\* The server answers and the browser runs what is due; nobody has to do anything.
Fairness == \A t \in Tabs :
    /\ WF_vars(Answered(t))
    /\ \A r \in Refreshes : WF_vars(AnswerRefresh(t, r)) /\ WF_vars(Settled(t, r))

FairSpec == Spec /\ Fairness

-----------------------------------------------------------------------------
\* Every variable has its type.
TypeOK ==
    /\ tokens \in Seq([user : Users, fresh : BOOLEAN]) /\ Len(tokens) <= MaxTokens
    /\ sessions \in Seq([user : Users, valid : BOOLEAN]) /\ Len(sessions) <= MaxSessions
    /\ store \in [Tabs -> Auth] /\ disk \in Auth
    /\ request \in [Tabs -> Request]
    /\ promise \in [Tabs -> [Refreshes -> Promise]]
    /\ inFlight \in [Tabs -> Refreshes \cup {Off}]
    /\ timer \subseteq Tabs /\ leaving \subseteq Tabs
    /\ mail \in [Tabs -> Seq([token : TokenIds, session : 0 .. MaxSessions])]
    /\ registered \subseteq Users /\ faults \in 0 .. MaxFaults

\* No lost wakeup: a request that waits for a promise waits for one that is not
\* settled yet, although _refreshInFlight may have forgotten it.
WaiterHasCall == \A t \in Tabs : request[t].pc = "waiting" => promise[t][request[t].on].pc # "off"

\* While every session is valid and no refresh has failed on the network,
\* nobody who has logged in is thrown out, however the calls of the tabs cross.
NotThrownOut ==
    [][\A t \in Tabs :
         /\ disk # LoggedOut /\ disk' = LoggedOut /\ store'[t] = LoggedOut
         /\ LoggedIn(t) /\ t \notin leaving /\ store[t].user \notin registered
         => faults > 0 \/ \E s \in DOMAIN sessions : ~sessions[s].valid]_vars

\* The bound on tokens holds up a refresh of the tab.
HeldUp(t) == Len(tokens) = MaxTokens /\ \E r \in Refreshes : promise[t][r].pc = "sent"

\* Every request ends: with an answer, or with the page.
RequestsEnd == \A t \in Tabs : request[t].pc # "idle" ~> request[t].pc = "idle" \/ HeldUp(t)

-----------------------------------------------------------------------------
\* Not kept by the code: a tab never shows one user and acts as another.  It
\* stores what a refresh brings for the user it has started with, and the
\* listener stores tokens without a look at their user.
OneUserPerTab == \A t \in Tabs : LoggedIn(t) => tokens[store[t].token].user = store[t].user

=============================================================================
