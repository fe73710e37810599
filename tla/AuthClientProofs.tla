-------------------------- MODULE AuthClientProofs --------------------------
(***************************************************************************)
(* Theorems about AuthClient, for any number of tabs, users, tokens and    *)
(* faults.                                                                 *)
(***************************************************************************)
EXTENDS AuthClient, TLAPS

-----------------------------------------------------------------------------
(* Type correctness. *)

\* A refresh token that is kept somewhere was issued, and a call that asks the
\* server has one.
Issued ==
    /\ disk.session <= Len(sessions)
    /\ \A t \in Tabs : /\ store[t].session <= Len(sessions)
                       /\ \A i \in DOMAIN mail[t] : mail[t][i].session <= Len(sessions)
                       /\ \A r \in Refreshes : /\ promise[t][r].session <= Len(sessions)
                                               /\ promise[t][r].pc = "sent" => promise[t][r].session # NoToken

Typed == TypeOK /\ Issued

LEMMA Constants ==
  /\ LoggedOut \in Auth /\ Idle \in Request /\ NoCall \in Promise
  /\ NoToken \in TokenIds /\ NoToken \in 0 .. MaxSessions
  /\ Off \notin Refreshes /\ Refreshes \subseteq Nat
BY AuthAssumption DEF LoggedOut, Auth, Idle, Request, NoCall, Promise, NoToken, TokenIds, Off, Refreshes, NoUser

\* One more element, and one element changed.
LEMMA Appended ==
  ASSUME NEW S, NEW s \in Seq(S), NEW e \in S
  PROVE  /\ Append(s, e) \in Seq(S) /\ Len(Append(s, e)) = Len(s) + 1 /\ Len(s) \in Nat
         /\ DOMAIN Append(s, e) = DOMAIN s \cup {Len(s) + 1}
         /\ \A i \in DOMAIN s : Append(s, e)[i] = s[i]
         /\ Append(s, e)[Len(s) + 1] = e
<1>1. /\ DOMAIN s = 1 .. Len(s) /\ Len(s) \in Nat /\ Append(s, e) \in Seq(S) /\ Len(Append(s, e)) = Len(s) + 1
      /\ DOMAIN Append(s, e) = 1 .. Len(s) + 1
  OBVIOUS
<1>2. 1 .. Len(s) + 1 = 1 .. Len(s) \cup {Len(s) + 1}
  BY <1>1
<1> QED
  BY <1>1, <1>2

LEMMA Elements ==
  ASSUME NEW S, NEW s \in Seq(S)
  PROVE  \A i \in DOMAIN s : s[i] \in S
OBVIOUS

LEMMA Mapped ==
  ASSUME NEW S, NEW s \in Seq(S), NEW F, F \in [DOMAIN s -> S]
  PROVE  F \in Seq(S) /\ Len(F) = Len(s)
<1>1. DOMAIN s = 1 .. Len(s) /\ Len(s) \in Nat
  OBVIOUS
<1>2. F \in Seq(S)
  BY <1>1
<1>3. DOMAIN F = 1 .. Len(F) /\ Len(F) \in Nat
  BY <1>2
<1> QED
  BY <1>1, <1>2, <1>3

\* The rest of a tab's mail.
LEMMA Remaining ==
  ASSUME NEW S, NEW s \in Seq(S), s # <<>>
  PROVE  /\ Tail(s) \in Seq(S) /\ Head(s) \in S /\ Head(s) = s[1] /\ 1 \in DOMAIN s
         /\ \A i \in DOMAIN Tail(s) : i + 1 \in DOMAIN s /\ Tail(s)[i] = s[i + 1]
OBVIOUS

LEMMA InitTyped == Init => Typed
<1> SUFFICES ASSUME Init PROVE Typed
  OBVIOUS
<1>1. TypeOK
  <2>1. tokens \in Seq([user : Users, fresh : BOOLEAN]) /\ sessions \in Seq([user : Users, valid : BOOLEAN])
        /\ Len(tokens) = 0 /\ Len(sessions) = 0
    BY DEF Init
  <2>2. 0 <= MaxTokens /\ 0 <= MaxSessions /\ 0 \in 0 .. MaxFaults
    BY AuthAssumption
  <2>3. mail \in [Tabs -> Seq([token : TokenIds, session : 0 .. MaxSessions])]
    BY DEF Init
  <2> QED
    BY <2>1, <2>2, <2>3, Constants DEF Init, TypeOK
<1>2. Issued
  BY Constants DEF Init, Issued, LoggedOut, NoCall, NoToken
<1> QED
  BY <1>1, <1>2 DEF Typed

\* setAuth with tokens that exist.
LEMMA StoredTyped ==
  ASSUME Typed, NEW t \in Tabs, NEW u \in Users \cup {NoUser}, NEW a \in TokenIds, NEW s \in 0 .. MaxSessions, Stored(t, u, a, s)
  PROVE  /\ store' \in [Tabs -> Auth] /\ disk' \in Auth
         /\ disk' = store'[t] /\ store'[t] = [user |-> u, token |-> a, session |-> s]
         /\ \A q \in Tabs \ {t} : store'[q] = store[q]
BY DEF Typed, TypeOK, Stored, Auth

LEMMA LoadedTyped ==
  ASSUME Typed, NEW t \in Tabs, NEW auth \in Auth, Loaded(t, auth)
  PROVE  /\ store' \in [Tabs -> Auth] /\ request' \in [Tabs -> Request] /\ inFlight' \in [Tabs -> Refreshes \cup {Off}]
         /\ promise' \in [Tabs -> [Refreshes -> Promise]]
         /\ mail' \in [Tabs -> Seq([token : TokenIds, session : 0 .. MaxSessions])]
         /\ timer' \subseteq Tabs /\ leaving' \subseteq Tabs
         /\ store'[t] = auth /\ request'[t] = Idle /\ inFlight'[t] = Off /\ mail'[t] = <<>>
         /\ \A r \in Refreshes : promise'[t][r] = NoCall
         /\ \A q \in Tabs \ {t} : /\ store'[q] = store[q] /\ request'[q] = request[q] /\ inFlight'[q] = inFlight[q]
                                  /\ promise'[q] = promise[q] /\ mail'[q] = mail[q]
<1>1. mail' \in [Tabs -> Seq([token : TokenIds, session : 0 .. MaxSessions])]
  <2>1. <<>> \in Seq([token : TokenIds, session : 0 .. MaxSessions])
    OBVIOUS
  <2> QED
    BY <2>1 DEF Typed, TypeOK, Loaded
<1>2. [r \in Refreshes |-> NoCall] \in [Refreshes -> Promise]
  BY Constants
<1>3. promise' \in [Tabs -> [Refreshes -> Promise]]
  BY <1>2 DEF Typed, TypeOK, Loaded
<1>4. timer' \subseteq Tabs /\ leaving' \subseteq Tabs
  BY DEF Typed, TypeOK, Loaded
<1> QED
  BY <1>1, <1>3, <1>4, Constants DEF Typed, TypeOK, Loaded

LEMMA SharedTyped ==
  ASSUME Typed, NEW t \in Tabs, NEW r \in Refreshes, Shared(t, r)
  PROVE  /\ promise' \in [Tabs -> [Refreshes -> Promise]] /\ inFlight' \in [Tabs -> Refreshes \cup {Off}]
         /\ inFlight'[t] = r
         /\ \A q \in Tabs : q # t => inFlight'[q] = inFlight[q] /\ promise'[q] = promise[q]
         /\ \A k \in Refreshes : k # r => promise'[t][k] = promise[t][k]
         /\ \/ promise' = promise /\ inFlight[t] = r
            \/ /\ promise[t][r].pc = "off" /\ inFlight[t] = Off
               /\ promise'[t][r] = [pc |-> IF store[t].session = NoToken \/ ~LoggedIn(t) THEN "answered" ELSE "sent",
                                    user |-> store[t].user, session |-> store[t].session, token |-> NoToken]
<1>1. CASE inFlight[t] = r /\ UNCHANGED <<promise, inFlight>>
  BY <1>1 DEF Typed, TypeOK
<1>2. CASE ~(inFlight[t] = r /\ UNCHANGED <<promise, inFlight>>)
  <2> DEFINE p == [pc |-> IF store[t].session = NoToken \/ ~LoggedIn(t) THEN "answered" ELSE "sent",
                   user |-> store[t].user, session |-> store[t].session, token |-> NoToken]
  <2>1. p \in Promise
    <3>1. store[t].user \in Users \cup {NoUser} /\ store[t].session \in 0 .. MaxSessions
      BY DEF Typed, TypeOK, Auth
    <3> QED
      BY <3>1, Constants DEF Promise
  <2>2. inFlight[t] = Off /\ promise[t][r].pc = "off" /\ promise' = [promise EXCEPT ![t][r] = p] /\ inFlight' = [inFlight EXCEPT ![t] = r]
    BY <1>2 DEF Shared
  <2>3. promise' \in [Tabs -> [Refreshes -> Promise]] /\ inFlight' \in [Tabs -> Refreshes \cup {Off}]
    BY <2>1, <2>2 DEF Typed, TypeOK
  <2>4. /\ promise'[t][r] = p /\ inFlight'[t] = r /\ \A k \in Refreshes : k # r => promise'[t][k] = promise[t][k]
        /\ \A q \in Tabs : q # t => promise'[q] = promise[q] /\ inFlight'[q] = inFlight[q]
    BY <2>2 DEF Typed, TypeOK
  <2> QED
    BY <2>2, <2>3, <2>4
<1> QED
  BY <1>1, <1>2

\* Issued, where no refresh token was issued and what is kept is kept, told or dropped.
LEMMA Reissued ==
  ASSUME Typed, Len(sessions') >= Len(sessions), Len(sessions') \in Nat,
         disk'.session <= Len(sessions'),
         \A t \in Tabs : store'[t].session <= Len(sessions'),
         \A t \in Tabs : mail'[t] = mail[t] \/ \A i \in DOMAIN mail'[t] : mail'[t][i].session <= Len(sessions'),
         \A t \in Tabs, r \in Refreshes :
            \/ promise'[t][r] = promise[t][r]
            \/ promise'[t][r].session <= Len(sessions') /\ (promise'[t][r].pc = "sent" => promise'[t][r].session # NoToken)
  PROVE  Issued'
<1>1. \A n \in Nat : n <= Len(sessions) => n <= Len(sessions')
  BY DEF Typed, TypeOK
<1>2. ASSUME NEW t \in Tabs
      PROVE  \A i \in DOMAIN mail'[t] : mail'[t][i].session <= Len(sessions')
  <2>1. \A i \in DOMAIN mail[t] : mail[t][i].session \in Nat
    <3>1. mail[t] \in Seq([token : TokenIds, session : 0 .. MaxSessions])
      BY DEF Typed, TypeOK
    <3>2. \A i \in DOMAIN mail[t] : mail[t][i] \in [token : TokenIds, session : 0 .. MaxSessions]
      BY <3>1, Elements
    <3> QED
      BY <3>2
  <2>2. CASE mail'[t] = mail[t]
    BY <1>1, <2>1, <2>2 DEF Typed, Issued
  <2> QED
    BY <2>2
<1>3. ASSUME NEW t \in Tabs, NEW r \in Refreshes
      PROVE  promise'[t][r].session <= Len(sessions') /\ (promise'[t][r].pc = "sent" => promise'[t][r].session # NoToken)
  <2>1. promise[t][r].session \in Nat
    BY DEF Typed, TypeOK, Promise
  <2>2. CASE promise'[t][r] = promise[t][r]
    BY <1>1, <2>1, <2>2 DEF Typed, Issued
  <2> QED
    BY <2>2
<1> QED
  BY <1>2, <1>3 DEF Issued

\* Sessions are as they were, and so are the kept refresh tokens.
LEMMA SameIssued ==
  ASSUME Typed, Len(sessions') = Len(sessions)
  PROVE  /\ Len(sessions') \in Nat /\ Len(sessions') >= Len(sessions)
         /\ disk.session <= Len(sessions') /\ NoToken <= Len(sessions')
         /\ \A t \in Tabs : store[t].session <= Len(sessions')
         /\ \A t \in Tabs, r \in Refreshes : promise[t][r].session <= Len(sessions')
<1>1. Len(sessions) \in Nat
  BY DEF Typed, TypeOK
<1> QED
  BY <1>1 DEF Typed, Issued, NoToken

\* Logging in and out.
LEMMA LoginTyped ==
  ASSUME Typed, NEW t \in Tabs, NEW u \in Users, Login(t, u)
  PROVE  Typed'
<1> DEFINE a == [user |-> u, fresh |-> TRUE]
           s == [user |-> u, valid |-> TRUE]
<1>1. /\ tokens' \in Seq([user : Users, fresh : BOOLEAN]) /\ Len(tokens') = Len(tokens) + 1 /\ Len(tokens) \in Nat
      /\ sessions' \in Seq([user : Users, valid : BOOLEAN]) /\ Len(sessions') = Len(sessions) + 1 /\ Len(sessions) \in Nat
  BY Appended DEF Login, Typed, TypeOK
<1>2. Len(tokens') <= MaxTokens /\ Len(sessions') <= MaxSessions
      /\ Len(tokens) + 1 \in TokenIds /\ Len(sessions) + 1 \in 0 .. MaxSessions
  BY <1>1, AuthAssumption DEF Login, TokenIds
<1>3. /\ store' \in [Tabs -> Auth] /\ disk' \in Auth /\ disk' = store'[t]
      /\ store'[t].session = Len(sessions') /\ \A q \in Tabs \ {t} : store'[q] = store[q]
  <2>1. Stored(t, u, Len(tokens) + 1, Len(sessions) + 1) /\ u \in Users \cup {NoUser}
    BY DEF Login
  <2>2. store'[t] = [user |-> u, token |-> Len(tokens) + 1, session |-> Len(sessions) + 1]
        /\ store' \in [Tabs -> Auth] /\ disk' \in Auth /\ disk' = store'[t] /\ \A q \in Tabs \ {t} : store'[q] = store[q]
    BY <2>1, <1>2, StoredTyped
  <2> QED
    BY <2>2, <1>1
<1>4. TypeOK'
  BY <1>1, <1>2, <1>3 DEF Login, Typed, TypeOK
<1>5. Issued'
  <2>1. \A q \in Tabs : store[q].session \in Nat /\ store[q].session <= Len(sessions)
    BY DEF Typed, TypeOK, Issued, Auth
  <2>2. \A q \in Tabs : store'[q].session <= Len(sessions')
    BY <1>1, <1>3, <2>1
  <2> QED
    BY <1>1, <1>3, <2>2, Reissued DEF Login
<1> QED
  BY <1>4, <1>5 DEF Typed

LEMMA RegisterTyped ==
  ASSUME Typed, NEW t \in Tabs, NEW u \in Users, Register(t, u)
  PROVE  Typed'
<1> DEFINE a == [user |-> u, fresh |-> TRUE]
<1>1. tokens' \in Seq([user : Users, fresh : BOOLEAN]) /\ Len(tokens') = Len(tokens) + 1 /\ Len(tokens) \in Nat
  BY Appended DEF Register, Typed, TypeOK
<1>2. Len(tokens') <= MaxTokens /\ Len(tokens) + 1 \in TokenIds
  BY <1>1, AuthAssumption DEF Register, TokenIds
<1>3. /\ store' \in [Tabs -> Auth] /\ disk' \in Auth /\ disk' = store'[t]
      /\ store'[t].session = NoToken /\ \A q \in Tabs \ {t} : store'[q] = store[q]
  <2>1. Stored(t, u, Len(tokens) + 1, NoToken) /\ u \in Users \cup {NoUser} /\ NoToken \in 0 .. MaxSessions
    BY Constants DEF Register
  <2>2. store'[t] = [user |-> u, token |-> Len(tokens) + 1, session |-> NoToken]
        /\ store' \in [Tabs -> Auth] /\ disk' \in Auth /\ disk' = store'[t] /\ \A q \in Tabs \ {t} : store'[q] = store[q]
    BY <2>1, <1>2, StoredTyped
  <2> QED
    BY <2>2
<1>4. TypeOK'
  BY <1>1, <1>2, <1>3 DEF Register, Typed, TypeOK
<1>5. Issued'
  BY <1>3, Reissued, SameIssued DEF Register
<1> QED
  BY <1>4, <1>5 DEF Typed

LEMMA LoadedIssued ==
  ASSUME Typed, NEW t \in Tabs, NEW auth \in Auth, Loaded(t, auth), auth.session <= Len(sessions),
         disk' \in {disk, LoggedOut}, UNCHANGED <<tokens, sessions, registered, faults>>
  PROVE  Typed'
<1>1. TypeOK'
  BY LoadedTyped, Constants DEF Typed, TypeOK
<1>2. Issued'
  <2>0. /\ store'[t] = auth /\ mail'[t] = <<>>
        /\ \A r \in Refreshes : promise'[t][r] = NoCall
        /\ \A q \in Tabs \ {t} : store'[q] = store[q] /\ promise'[q] = promise[q] /\ mail'[q] = mail[q]
    BY LoadedTyped
  <2>1. disk'.session <= Len(sessions') /\ \A q \in Tabs : store'[q].session <= Len(sessions')
    BY <2>0, SameIssued DEF LoggedOut
  <2>2. \A q \in Tabs : mail'[q] = mail[q] \/ \A i \in DOMAIN mail'[q] : mail'[q][i].session <= Len(sessions')
    BY <2>0
  <2>3. \A q \in Tabs, r \in Refreshes :
            \/ promise'[q][r] = promise[q][r]
            \/ promise'[q][r].session <= Len(sessions') /\ (promise'[q][r].pc = "sent" => promise'[q][r].session # NoToken)
    BY <2>0, SameIssued DEF NoCall
  <2> QED
    BY <2>1, <2>2, <2>3, Reissued, SameIssued
<1> QED
  BY <1>1, <1>2 DEF Typed

LEMMA OpenTabTyped ==
  ASSUME Typed, NEW t \in Tabs, OpenTab(t)
  PROVE  Typed'
BY LoadedIssued DEF OpenTab, Typed, TypeOK, Issued, server

LEMMA ThrowOutTyped ==
  ASSUME Typed, NEW t \in Tabs, ThrowOut(t), UNCHANGED <<server, faults>>
  PROVE  Typed'
<1>1. LoggedOut.session <= Len(sessions)
  BY SameIssued DEF LoggedOut, server
<1> QED
  BY <1>1, LoadedIssued, Constants DEF ThrowOut, server

LEMMA StartLogoutTyped ==
  ASSUME Typed, NEW t \in Tabs, StartLogout(t)
  PROVE  Typed'
<1>1. tokens' \in Seq([user : Users, fresh : BOOLEAN]) /\ Len(tokens') = Len(tokens)
  <2>1. \A i \in DOMAIN tokens : tokens[i] \in [user : Users, fresh : BOOLEAN]
    BY Elements DEF Typed, TypeOK
  <2>2. tokens' \in [DOMAIN tokens -> [user : Users, fresh : BOOLEAN]]
    BY <2>1 DEF StartLogout
  <2> QED
    BY <2>2, Mapped DEF Typed, TypeOK
<1>2. sessions' \in Seq([user : Users, valid : BOOLEAN]) /\ Len(sessions') = Len(sessions)
  <2>1. \A i \in DOMAIN sessions : sessions[i] \in [user : Users, valid : BOOLEAN]
    BY Elements DEF Typed, TypeOK
  <2>2. sessions' \in [DOMAIN sessions -> [user : Users, valid : BOOLEAN]]
    BY <2>1 DEF StartLogout
  <2> QED
    BY <2>2, Mapped DEF Typed, TypeOK
<1>3. faults' \in 0 .. MaxFaults
  BY AuthAssumption DEF StartLogout, Typed, TypeOK
<1>4. TypeOK'
  BY <1>1, <1>2, <1>3 DEF StartLogout, Typed, TypeOK
<1>5. Issued'
  BY <1>2, Reissued, SameIssued DEF StartLogout
<1> QED
  BY <1>4, <1>5 DEF Typed

LEMMA FinishLogoutTyped ==
  ASSUME Typed, NEW t \in Tabs, FinishLogout(t)
  PROVE  Typed'
<1>1. <<>> \in Seq([token : TokenIds, session : 0 .. MaxSessions])
  OBVIOUS
<1>2. TypeOK'
  BY <1>1, Constants DEF FinishLogout, Typed, TypeOK, server
<1>3. Issued'
  <2>1. disk'.session <= Len(sessions') /\ \A q \in Tabs : store'[q].session <= Len(sessions')
    BY SameIssued DEF FinishLogout, LoggedOut, server, Typed, TypeOK
  <2>2. \A q \in Tabs : mail'[q] = mail[q] \/ mail'[q] = <<>>
    BY DEF FinishLogout, Typed, TypeOK
  <2> QED
    BY <2>1, <2>2, Reissued, SameIssued DEF FinishLogout, server
<1> QED
  BY <1>2, <1>3 DEF Typed

LEMMA ExpireTyped ==
  ASSUME Typed, NEW i \in 1 .. MaxTokens, Expire(i)
  PROVE  Typed'
<1>1. tokens' \in Seq([user : Users, fresh : BOOLEAN]) /\ Len(tokens') = Len(tokens)
  <2>1. \A j \in DOMAIN tokens : tokens[j] \in [user : Users, fresh : BOOLEAN]
    BY Elements DEF Typed, TypeOK
  <2>2. tokens' \in [DOMAIN tokens -> [user : Users, fresh : BOOLEAN]]
    BY <2>1 DEF Expire
  <2> QED
    BY <2>2, Mapped DEF Typed, TypeOK
<1>2. TypeOK'
  BY <1>1 DEF Expire, page, Typed, TypeOK
<1>3. Issued'
  BY Reissued, SameIssued DEF Expire, page
<1> QED
  BY <1>2, <1>3 DEF Typed

\* A refresh that is answered, or lost.
LEMMA AnswerRefreshTyped ==
  ASSUME Typed, NEW t \in Tabs, NEW r \in Refreshes, AnswerRefresh(t, r)
  PROVE  Typed'
<1> DEFINE s == promise[t][r].session
<1>1. s \in DOMAIN sessions /\ sessions[s].user \in Users
  <2>1. s \in 0 .. MaxSessions /\ s <= Len(sessions) /\ s # NoToken /\ sessions \in Seq([user : Users, valid : BOOLEAN])
    BY DEF AnswerRefresh, Typed, TypeOK, Issued, Promise
  <2>2. s \in DOMAIN sessions
    BY <2>1 DEF NoToken
  <2>3. sessions[s] \in [user : Users, valid : BOOLEAN]
    BY <2>1, <2>2, Elements
  <2> QED
    BY <2>2, <2>3
<1>2. /\ tokens' \in Seq([user : Users, fresh : BOOLEAN]) /\ Len(tokens') <= MaxTokens
      /\ \E k \in TokenIds : \/ promise' = [promise EXCEPT ![t][r].pc = "answered", ![t][r].token = k]
                             \/ promise' = [promise EXCEPT ![t][r].pc = "answered"]
  <2>1. CASE sessions[s].valid
    <3>1. tokens' = Append(tokens, [user |-> sessions[s].user, fresh |-> TRUE]) /\ Len(tokens) < MaxTokens
          /\ promise' = [promise EXCEPT ![t][r].pc = "answered", ![t][r].token = Len(tokens) + 1]
      BY <2>1 DEF AnswerRefresh
    <3>2. tokens' \in Seq([user : Users, fresh : BOOLEAN]) /\ Len(tokens') = Len(tokens) + 1 /\ Len(tokens) \in Nat
      BY <1>1, <3>1, Appended DEF Typed, TypeOK
    <3>3. Len(tokens) + 1 \in TokenIds /\ Len(tokens') <= MaxTokens
      BY <3>1, <3>2, AuthAssumption DEF TokenIds
    <3> QED
      BY <3>1, <3>2, <3>3
  <2>2. CASE ~sessions[s].valid
    <3>1. tokens' = tokens /\ promise' = [promise EXCEPT ![t][r].pc = "answered"]
      BY <2>2 DEF AnswerRefresh
    <3> QED
      BY <3>1, Constants DEF Typed, TypeOK
  <2> QED
    BY <2>1, <2>2
<1>3. /\ promise' \in [Tabs -> [Refreshes -> Promise]] /\ promise'[t][r].session = s /\ promise'[t][r].pc = "answered"
      /\ \A q \in Tabs, k \in Refreshes : promise'[q][k] = promise[q][k] \/ (q = t /\ k = r)
  <2>1. PICK k \in TokenIds : \/ promise' = [promise EXCEPT ![t][r].pc = "answered", ![t][r].token = k]
                              \/ promise' = [promise EXCEPT ![t][r].pc = "answered"]
    BY <1>2
  <2>2. promise \in [Tabs -> [Refreshes -> Promise]]
    BY DEF Typed, TypeOK
  <2>3. \/ promise'[t][r] = [promise[t][r] EXCEPT !.pc = "answered", !.token = k]
        \/ promise'[t][r] = [promise[t][r] EXCEPT !.pc = "answered"]
    BY <2>1, <2>2
  <2>4. promise[t][r] \in Promise
    BY <2>2
  <2>5. promise'[t][r] \in Promise /\ promise'[t][r].session = s /\ promise'[t][r].pc = "answered"
    BY <2>3, <2>4 DEF Promise
  <2>6. /\ promise' \in [Tabs -> [Refreshes -> Promise]]
        /\ \A q \in Tabs, j \in Refreshes : promise'[q][j] = promise[q][j] \/ (q = t /\ j = r)
    <3>1. promise' = [promise EXCEPT ![t][r] = promise'[t][r]]
      BY <2>1, <2>2
    <3> QED
      BY <2>2, <2>5, <3>1
  <2> QED
    BY <2>5, <2>6
<1>4. TypeOK'
  BY <1>2, <1>3 DEF AnswerRefresh, Typed, TypeOK
<1>5. Issued'
  BY <1>3, Reissued, SameIssued DEF AnswerRefresh
<1> QED
  BY <1>4, <1>5 DEF Typed

LEMMA LoseRefreshTyped ==
  ASSUME Typed, NEW t \in Tabs, NEW r \in Refreshes, LoseRefresh(t, r)
  PROVE  Typed'
<1>1. /\ promise' \in [Tabs -> [Refreshes -> Promise]] /\ promise'[t][r].session = promise[t][r].session /\ promise'[t][r].pc = "answered"
      /\ \A q \in Tabs, k \in Refreshes : promise'[q][k] = promise[q][k] \/ (q = t /\ k = r)
  <2>1. promise' = [promise EXCEPT ![t][r].pc = "answered"] /\ promise \in [Tabs -> [Refreshes -> Promise]]
    BY DEF LoseRefresh, Typed, TypeOK
  <2>2. promise[t][r] \in Promise /\ promise'[t][r] = [promise[t][r] EXCEPT !.pc = "answered"]
    BY <2>1
  <2>3. promise'[t][r] \in Promise /\ promise'[t][r].session = promise[t][r].session /\ promise'[t][r].pc = "answered"
    BY <2>2 DEF Promise
  <2>4. promise' = [promise EXCEPT ![t][r] = promise'[t][r]]
    BY <2>1
  <2> QED
    BY <2>1, <2>3, <2>4
<1>2. faults' \in 0 .. MaxFaults
  BY AuthAssumption DEF LoseRefresh, Typed, TypeOK
<1>3. TypeOK'
  BY <1>1, <1>2 DEF LoseRefresh, Typed, TypeOK, server
<1>4. Issued'
  BY <1>1, Reissued, SameIssued DEF LoseRefresh, server
<1> QED
  BY <1>3, <1>4 DEF Typed

\* A promise that is settled.
LEMMA Reset ==
  ASSUME Typed, NEW t \in Tabs, NEW r \in Refreshes, promise' = [promise EXCEPT ![t][r] = NoCall], ClearInFlight(t, r)
  PROVE  /\ promise' \in [Tabs -> [Refreshes -> Promise]] /\ promise'[t][r] = NoCall
         /\ \A q \in Tabs, k \in Refreshes : promise'[q][k] = promise[q][k] \/ (q = t /\ k = r /\ promise'[q][k] = NoCall)
         /\ inFlight' \in [Tabs -> Refreshes \cup {Off}] /\ inFlight'[t] = Off
         /\ \A q \in Tabs \ {t} : inFlight'[q] = inFlight[q]
BY Constants DEF Typed, TypeOK, ClearInFlight

LEMMA RenewedTyped ==
  ASSUME Typed, NEW t \in Tabs, NEW r \in Refreshes, Renewed(t, r)
  PROVE  Typed'
<1> DEFINE p == promise[t][r]
           m == [token |-> p.token, session |-> p.session]
<1>1. p \in Promise
  BY DEF Typed, TypeOK
<1>2. /\ p.user \in Users \cup {NoUser} /\ p.token \in TokenIds /\ p.session \in 0 .. MaxSessions
      /\ Stored(t, p.user, p.token, p.session)
  BY <1>1 DEF Renewed, Promise
<1>3. store'[t] = [user |-> p.user, token |-> p.token, session |-> p.session]
      /\ store' \in [Tabs -> Auth] /\ disk' \in Auth /\ disk' = store'[t] /\ \A q \in Tabs \ {t} : store'[q] = store[q]
  BY <1>2, StoredTyped
<1>4. promise' = [promise EXCEPT ![t][r] = NoCall] /\ ClearInFlight(t, r)
  BY DEF Renewed
<1>5. request' \in [Tabs -> Request]
  <2>1. [pc |-> "retry", token |-> p.token, on |-> Off] \in Request
    BY <1>2 DEF Request
  <2> QED
    BY <2>1 DEF Renewed, Repeat, Typed, TypeOK
<1>6. /\ mail' \in [Tabs -> Seq([token : TokenIds, session : 0 .. MaxSessions])]
      /\ \A q \in Tabs : mail'[q] = mail[q] \/ mail'[q] = Append(mail[q], m)
  <2>1. \A q \in Tabs : Append(mail[q], m) \in Seq([token : TokenIds, session : 0 .. MaxSessions])
    BY <1>2, Appended DEF Typed, TypeOK
  <2>2. mail' = [q \in Tabs |-> IF LoggedIn(q) THEN Append(mail[q], m) ELSE mail[q]]
    BY DEF Renewed
  <2> QED
    BY <2>1, <2>2 DEF Typed, TypeOK
<1>7. TypeOK'
  BY <1>3, <1>4, <1>5, <1>6, Reset DEF Renewed, server, Typed, TypeOK
<1>8. Issued'
  <2>0. p.session <= Len(sessions') /\ sessions' = sessions
    BY SameIssued DEF Renewed, server
  <2>1. disk'.session <= Len(sessions') /\ \A q \in Tabs : store'[q].session <= Len(sessions')
    BY <1>3, <2>0, SameIssued
  <2>2. ASSUME NEW q \in Tabs
        PROVE  mail'[q] = mail[q] \/ \A i \in DOMAIN mail'[q] : mail'[q][i].session <= Len(sessions')
    <3>1. m \in [token : TokenIds, session : 0 .. MaxSessions] /\ mail[q] \in Seq([token : TokenIds, session : 0 .. MaxSessions])
      BY <1>2 DEF Typed, TypeOK
    <3>2. \A i \in DOMAIN Append(mail[q], m) : (i \in DOMAIN mail[q] /\ Append(mail[q], m)[i] = mail[q][i]) \/ Append(mail[q], m)[i] = m
      BY <3>1, Appended
    <3>3. m.session <= Len(sessions') /\ \A i \in DOMAIN mail[q] : mail[q][i].session <= Len(sessions')
      BY <2>0 DEF Typed, Issued
    <3> QED
      BY <1>6, <3>2, <3>3
  <2>3. \A q \in Tabs, k \in Refreshes :
            \/ promise'[q][k] = promise[q][k]
            \/ promise'[q][k].session <= Len(sessions') /\ (promise'[q][k].pc = "sent" => promise'[q][k].session # NoToken)
    BY <1>4, <2>0, Reset, SameIssued DEF NoCall
  <2> QED
    BY <2>0, <2>1, <2>2, <2>3, Reissued, SameIssued
<1> QED
  BY <1>7, <1>8 DEF Typed

LEMMA NotRenewedTyped ==
  ASSUME Typed, NEW t \in Tabs, NEW r \in Refreshes, NotRenewed(t, r)
  PROVE  Typed'
<1>1. CASE Waits(t, r)
  BY <1>1, ThrowOutTyped DEF NotRenewed
<1>2. CASE ~Waits(t, r)
  <2>1. promise' = [promise EXCEPT ![t][r] = NoCall] /\ ClearInFlight(t, r)
        /\ UNCHANGED <<store, disk, request, timer, mail, leaving, server, faults>>
    BY <1>2 DEF NotRenewed
  <2>2. TypeOK'
    BY <2>1, Reset DEF server, Typed, TypeOK
  <2>3. \A q \in Tabs, k \in Refreshes :
            \/ promise'[q][k] = promise[q][k]
            \/ promise'[q][k].session <= Len(sessions') /\ (promise'[q][k].pc = "sent" => promise'[q][k].session # NoToken)
    BY <2>1, Reset, SameIssued DEF NoCall, server
  <2>4. Issued'
    BY <2>1, <2>3, Reissued, SameIssued DEF server
  <2> QED
    BY <2>2, <2>4 DEF Typed
<1> QED
  BY <1>1, <1>2

LEMMA AdoptTyped ==
  ASSUME Typed, NEW t \in Tabs, Adopt(t)
  PROVE  Typed'
<1> DEFINE m == Head(mail[t])
<1>1. /\ m \in [token : TokenIds, session : 0 .. MaxSessions] /\ m.session <= Len(sessions)
      /\ Tail(mail[t]) \in Seq([token : TokenIds, session : 0 .. MaxSessions])
      /\ \A i \in DOMAIN Tail(mail[t]) : Tail(mail[t])[i].session <= Len(sessions)
  <2>1. mail[t] \in Seq([token : TokenIds, session : 0 .. MaxSessions]) /\ mail[t] # <<>>
    BY DEF Adopt, Typed, TypeOK
  <2>2. \A i \in DOMAIN mail[t] : mail[t][i].session <= Len(sessions)
    BY DEF Typed, Issued
  <2> QED
    BY <2>1, <2>2, Remaining
<1>2. Stored(t, store[t].user, m.token, m.session) /\ store[t].user \in Users \cup {NoUser}
  BY DEF Adopt, Typed, TypeOK, Auth
<1>3. store'[t] = [user |-> store[t].user, token |-> m.token, session |-> m.session]
      /\ store' \in [Tabs -> Auth] /\ disk' \in Auth /\ disk' = store'[t] /\ \A q \in Tabs \ {t} : store'[q] = store[q]
  <2>1. m.token \in TokenIds /\ m.session \in 0 .. MaxSessions
    BY <1>1
  <2> HIDE DEF m
  <2> QED
    BY <1>2, <2>1, StoredTyped
<1>4. /\ mail' \in [Tabs -> Seq([token : TokenIds, session : 0 .. MaxSessions])]
      /\ mail'[t] = Tail(mail[t]) /\ \A q \in Tabs \ {t} : mail'[q] = mail[q]
  BY <1>1 DEF Adopt, Typed, TypeOK
<1>5. TypeOK'
  BY <1>3, <1>4 DEF Adopt, server, Typed, TypeOK
<1>6. Issued'
  <2>1. disk'.session <= Len(sessions') /\ \A q \in Tabs : store'[q].session <= Len(sessions')
    BY <1>1, <1>3, SameIssued DEF Adopt, server
  <2> QED
    BY <1>1, <1>4, <2>1, Reissued, SameIssued DEF Adopt, server
<1> QED
  BY <1>5, <1>6 DEF Typed

\* The callers.
LEMMA SharedIssued ==
  ASSUME Typed, NEW t \in Tabs, NEW r \in Refreshes, Shared(t, r), UNCHANGED <<sessions, store, disk, mail>>
  PROVE  Issued'
<1>1. \A q \in Tabs, k \in Refreshes : promise'[q][k] = promise[q][k] \/ (q = t /\ k = r)
  <2>1. \A q \in Tabs : q # t => promise'[q] = promise[q]
    BY SharedTyped
  <2>2. \A k \in Refreshes : k # r => promise'[t][k] = promise[t][k]
    BY SharedTyped
  <2> QED
    BY <2>1, <2>2
<1>2. CASE promise'[t][r] = promise[t][r]
  BY <1>1, <1>2, Reissued, SameIssued
<1>3. CASE promise'[t][r] # promise[t][r]
  <2>1. promise'[t][r].session = store[t].session /\ (promise'[t][r].pc = "sent" => store[t].session # NoToken)
    <3>1. promise'[t][r] = [pc |-> IF store[t].session = NoToken \/ ~LoggedIn(t) THEN "answered" ELSE "sent",
                            user |-> store[t].user, session |-> store[t].session, token |-> NoToken]
      BY <1>3, SharedTyped
    <3>2. CASE store[t].session = NoToken \/ ~LoggedIn(t)
      BY <3>1, <3>2
    <3>3. CASE ~(store[t].session = NoToken \/ ~LoggedIn(t))
      BY <3>1, <3>3
    <3> QED
      BY <3>2, <3>3
  <2> QED
    BY <1>1, <2>1, Reissued, SameIssued
<1> QED
  BY <1>2, <1>3

LEMMA CallersTyped ==
  ASSUME Typed, NEW t \in Tabs, TimerFires(t) \/ SendRequest(t) \/ Accepted(t) \/ Unauthorized(t) \/ StillUnauthorized(t)
  PROVE  Typed'
<1>1. CASE TimerFires(t)
  <2>1. PICK r \in Refreshes : Shared(t, r)
    BY <1>1 DEF TimerFires
  <2>2. TypeOK'
    BY <1>1, <2>1, SharedTyped DEF TimerFires, server, Typed, TypeOK
  <2>3. Issued'
    BY <1>1, <2>1, SharedIssued DEF TimerFires, server
  <2> QED
    BY <2>2, <2>3 DEF Typed
<1>2. CASE SendRequest(t)
  <2>1. [pc |-> "sent", token |-> store[t].token, on |-> Off] \in Request
    BY DEF Request, Typed, TypeOK, Auth
  <2>2. TypeOK'
    BY <1>2, <2>1 DEF SendRequest, server, Typed, TypeOK
  <2>3. Issued'
    BY <1>2, Reissued, SameIssued DEF SendRequest, server
  <2> QED
    BY <2>2, <2>3 DEF Typed
<1>3. CASE Accepted(t)
  <2>1. TypeOK'
    BY <1>3, Constants DEF Accepted, server, Typed, TypeOK
  <2>2. Issued'
    BY <1>3, Reissued, SameIssued DEF Accepted, server
  <2> QED
    BY <2>1, <2>2 DEF Typed
<1>4. CASE Unauthorized(t)
  <2>1. PICK r \in Refreshes : /\ Shared(t, r)
                               /\ request' = [request EXCEPT ![t] = [pc |-> "waiting", token |-> NoToken, on |-> r]]
    BY <1>4 DEF Unauthorized
  <2>2. [pc |-> "waiting", token |-> NoToken, on |-> r] \in Request
    BY Constants DEF Request
  <2>3. TypeOK'
    BY <1>4, <2>1, <2>2, SharedTyped DEF Unauthorized, server, Typed, TypeOK
  <2>4. Issued'
    BY <1>4, <2>1, SharedIssued DEF Unauthorized, server
  <2> QED
    BY <2>3, <2>4 DEF Typed
<1>5. CASE StillUnauthorized(t)
  BY <1>5, ThrowOutTyped DEF StillUnauthorized
<1> QED
  BY <1>1, <1>2, <1>3, <1>4, <1>5

LEMMA NextTyped == Typed /\ [Next]_vars => Typed'
<1> SUFFICES ASSUME Typed, [Next]_vars PROVE Typed'
  OBVIOUS
<1>1. CASE UNCHANGED vars
  <2>1. TypeOK'
    BY <1>1 DEF vars, server, page, Typed, TypeOK
  <2>2. Issued'
    BY <1>1, Reissued, SameIssued DEF vars, server, page
  <2> QED
    BY <2>1, <2>2 DEF Typed
<1>2. ASSUME NEW t \in Tabs, NEW u \in Users, Login(t, u) \/ Register(t, u)
      PROVE  Typed'
  BY <1>2, LoginTyped, RegisterTyped
<1>3. ASSUME NEW t \in Tabs, Answered(t) \/ TimerFires(t) \/ SendRequest(t)
      PROVE  Typed'
  BY <1>3, CallersTyped DEF Answered
<1>4. ASSUME NEW t \in Tabs, Adopt(t) \/ OpenTab(t) \/ StartLogout(t) \/ FinishLogout(t)
      PROVE  Typed'
  BY <1>4, AdoptTyped, OpenTabTyped, StartLogoutTyped, FinishLogoutTyped
<1>5. ASSUME NEW t \in Tabs, NEW r \in Refreshes, AnswerRefresh(t, r) \/ LoseRefresh(t, r) \/ Settled(t, r)
      PROVE  Typed'
  BY <1>5, AnswerRefreshTyped, LoseRefreshTyped, RenewedTyped, NotRenewedTyped DEF Settled
<1>6. ASSUME NEW i \in 1 .. MaxTokens, Expire(i)
      PROVE  Typed'
  BY <1>6, ExpireTyped
<1> QED
  BY <1>1, <1>2, <1>3, <1>4, <1>5, <1>6 DEF Next

\* Every variable has its type, in every reachable state.
THEOREM TypeCorrect == Spec => []TypeOK
<1>1. Typed => TypeOK
  BY DEF Typed
<1> QED
  BY <1>1, InitTyped, NextTyped, PTL DEF Spec

LEMMA TypedAlways == Spec => []Typed
BY InitTyped, NextTyped, PTL DEF Spec

-----------------------------------------------------------------------------
(* A request that waits, waits for a call. *)

\* The promise on record, and the one a request waits for, are not settled yet.
Called ==
    \A t \in Tabs :
       /\ inFlight[t] # Off => promise[t][inFlight[t]].pc # "off"
       /\ request[t].pc = "waiting" => request[t].on \in Refreshes /\ promise[t][request[t].on].pc # "off"

\* Calls are as they were or have just begun.
LEMMA CalledKept ==
  ASSUME Typed, Called, NEW t \in Tabs, inFlight'[t] \in {inFlight[t], Off},
         request'[t].pc = "waiting" => request'[t] = request[t],
         \A r \in Refreshes : promise[t][r].pc # "off" => promise'[t][r].pc # "off"
  PROVE  /\ inFlight'[t] # Off => promise'[t][inFlight'[t]].pc # "off"
         /\ request'[t].pc = "waiting" => request'[t].on \in Refreshes /\ promise'[t][request'[t].on].pc # "off"
BY DEF Typed, TypeOK, Called

LEMMA InitCalled == Init => Called
<1> SUFFICES ASSUME Init, NEW t \in Tabs PROVE inFlight[t] = Off /\ request[t].pc # "waiting"
  BY DEF Called
<1> QED
  BY DEF Init, Idle

LEMMA LoadedCalled ==
  ASSUME Typed, Called, NEW t \in Tabs, NEW auth \in Auth, Loaded(t, auth)
  PROVE  Called'
<1>1. ASSUME NEW q \in Tabs \ {t}
      PROVE  inFlight'[q] = inFlight[q] /\ request'[q] = request[q] /\ promise'[q] = promise[q]
  BY LoadedTyped
<1>2. inFlight'[t] = Off /\ request'[t] = Idle
  BY LoadedTyped
<1> QED
  BY <1>1, <1>2 DEF Called, Idle

LEMMA SharedCalled ==
  ASSUME Typed, Called, NEW t \in Tabs, NEW r \in Refreshes, Shared(t, r),
         \/ request' = request
         \/ request' = [request EXCEPT ![t] = [pc |-> "waiting", token |-> NoToken, on |-> r]]
  PROVE  Called'
<1>1. promise'[t][r].pc # "off"
  <2>1. CASE promise' = promise /\ inFlight[t] = r
    BY <2>1, Constants DEF Called
  <2>2. CASE ~(promise' = promise /\ inFlight[t] = r)
    <3>1. promise'[t][r] = [pc |-> IF store[t].session = NoToken \/ ~LoggedIn(t) THEN "answered" ELSE "sent",
                            user |-> store[t].user, session |-> store[t].session, token |-> NoToken]
      BY <2>2, SharedTyped
    <3>2. promise'[t][r].pc \in {"answered", "sent"}
      BY <3>1
    <3> QED
      BY <3>2
  <2> QED
    BY <2>1, <2>2
<1>2. /\ inFlight'[t] = r /\ \A k \in Refreshes : k # r => promise'[t][k] = promise[t][k]
      /\ \A q \in Tabs : q # t => inFlight'[q] = inFlight[q] /\ promise'[q] = promise[q]
  BY SharedTyped
<1>3. \A q \in Tabs : q # t => request'[q] = request[q]
  BY DEF Typed, TypeOK
<1>4. request'[t] = request[t] \/ request'[t].on = r
  BY DEF Typed, TypeOK
<1> QED
  BY <1>1, <1>2, <1>3, <1>4 DEF Called

LEMMA SettledCalled ==
  ASSUME Typed, Called, NEW t \in Tabs, NEW r \in Refreshes,
         promise' = [promise EXCEPT ![t][r] = NoCall], ClearInFlight(t, r),
         \A q \in Tabs \ {t} : request'[q] = request[q],
         (request'[t] = request[t] /\ ~Waits(t, r)) \/ request'[t].pc = "retry"
  PROVE  Called'
<1>1. /\ inFlight'[t] = Off /\ \A q \in Tabs \ {t} : inFlight'[q] = inFlight[q] /\ promise'[q] = promise[q]
      /\ \A k \in Refreshes : k # r => promise'[t][k] = promise[t][k]
  BY DEF Typed, TypeOK, ClearInFlight
<1> QED
  BY <1>1 DEF Called, Waits

LEMMA NextCalled == Typed /\ Called /\ [Next]_vars => Called'
<1> SUFFICES ASSUME Typed, Called, [Next]_vars PROVE Called'
  OBVIOUS
<1>1. CASE UNCHANGED <<request, promise, inFlight>>
  BY <1>1 DEF Called
<1>2. ASSUME NEW t \in Tabs, Accepted(t)
      PROVE  Called'
  <2>1. \A q \in Tabs : request'[q] = request[q] \/ request'[q] = Idle
    BY <1>2 DEF Accepted, Typed, TypeOK
  <2> QED
    BY <1>2, <2>1 DEF Accepted, Called, Idle
<1>3. ASSUME NEW t \in Tabs, SendRequest(t)
      PROVE  Called'
  <2>1. \A q \in Tabs : request'[q] = request[q] \/ request'[q].pc = "sent"
    BY <1>3 DEF SendRequest, Typed, TypeOK
  <2> QED
    BY <1>3, <2>1 DEF SendRequest, Called
<1>4. ASSUME NEW t \in Tabs, Unauthorized(t) \/ TimerFires(t)
      PROVE  Called'
  BY <1>4, SharedCalled DEF Unauthorized, TimerFires
<1>5. ASSUME NEW t \in Tabs, StillUnauthorized(t) \/ OpenTab(t)
      PROVE  Called'
  <2>1. disk \in Auth /\ LoggedOut \in Auth
    BY Constants DEF Typed, TypeOK
  <2> QED
    BY <1>5, <2>1, LoadedCalled DEF StillUnauthorized, ThrowOut, OpenTab
<1>6. ASSUME NEW t \in Tabs, Adopt(t)
      PROVE  Called'
  <2>1. \A q \in Tabs : inFlight'[q] = inFlight[q] \/ inFlight'[q] = Off
    BY <1>6 DEF Adopt, Typed, TypeOK
  <2> QED
    BY <1>6, <2>1 DEF Adopt, Called
<1>7. ASSUME NEW t \in Tabs, NEW r \in Refreshes, AnswerRefresh(t, r) \/ LoseRefresh(t, r)
      PROVE  Called'
  <2>1. UNCHANGED <<request, inFlight>>
    BY <1>7 DEF AnswerRefresh, LoseRefresh
  <2>2. \/ promise' = [promise EXCEPT ![t][r].pc = "answered", ![t][r].token = Len(tokens) + 1]
        \/ promise' = [promise EXCEPT ![t][r].pc = "answered"]
    BY <1>7 DEF AnswerRefresh, LoseRefresh
  <2>3. ASSUME NEW q \in Tabs, NEW k \in Refreshes
        PROVE  promise'[q][k] = promise[q][k] \/ promise'[q][k].pc = "answered"
    <3>1. promise \in [Tabs -> [Refreshes -> Promise]] /\ promise[t][r] \in Promise
      BY DEF Typed, TypeOK
    <3>2. \/ promise'[t][r] = [promise[t][r] EXCEPT !.pc = "answered", !.token = Len(tokens) + 1]
          \/ promise'[t][r] = [promise[t][r] EXCEPT !.pc = "answered"]
      BY <2>2, <3>1
    <3>3. promise'[t][r].pc = "answered"
      BY <3>1, <3>2 DEF Promise
    <3> QED
      BY <2>2, <3>1, <3>3
  <2>4. \A q \in Tabs : inFlight[q] \in Refreshes \cup {Off}
    BY DEF Typed, TypeOK
  <2> QED
    BY <2>1, <2>3, <2>4 DEF Called
<1>8. ASSUME NEW t \in Tabs, NEW r \in Refreshes, Renewed(t, r)
      PROVE  Called'
  <2>1. \A q \in Tabs \ {t} : request'[q] = request[q]
    BY <1>8 DEF Renewed, Repeat, Typed, TypeOK
  <2>2. (request'[t] = request[t] /\ ~Waits(t, r)) \/ request'[t].pc = "retry"
    BY <1>8 DEF Renewed, Repeat, Typed, TypeOK
  <2> QED
    BY <1>8, <2>1, <2>2, SettledCalled DEF Renewed
<1>9. ASSUME NEW t \in Tabs, NEW r \in Refreshes, NotRenewed(t, r)
      PROVE  Called'
  <2>1. CASE Waits(t, r)
    BY <1>9, <2>1, LoadedCalled, Constants DEF NotRenewed, ThrowOut
  <2>2. CASE ~Waits(t, r)
    BY <1>9, <2>2, SettledCalled DEF NotRenewed
  <2> QED
    BY <2>1, <2>2
<1>10. ASSUME NEW t \in Tabs, NEW u \in Users, Login(t, u) \/ Register(t, u)
       PROVE  Called'
  BY <1>10, <1>1 DEF Login, Register
<1>11. ASSUME NEW t \in Tabs, StartLogout(t) \/ FinishLogout(t)
       PROVE  Called'
  BY <1>11, <1>1 DEF StartLogout, FinishLogout
<1>12. ASSUME NEW i \in 1 .. MaxTokens, Expire(i)
       PROVE  Called'
  BY <1>12, <1>1 DEF Expire, page
<1> QED
  BY <1>1, <1>2, <1>3, <1>4, <1>5, <1>6, <1>7, <1>8, <1>9, <1>10, <1>11, <1>12
  DEF Next, Answered, Settled, vars, page

\* No lost wakeup: a request that waits for a refresh waits for one that will
\* be settled, although _refreshInFlight may name another one, or none, by then.
THEOREM WaitersHaveCalls == Spec => []WaiterHasCall
<1>1. Called => WaiterHasCall
  BY DEF Called, WaiterHasCall
<1>2. Typed /\ Called /\ [Next]_vars => Called'
  BY NextCalled
<1> QED
  BY <1>1, <1>2, InitCalled, TypedAlways, PTL DEF Spec

-----------------------------------------------------------------------------
(* Nobody is thrown out before a refresh fails or somebody logs out. *)

Fresh(a) == a \in DOMAIN tokens /\ tokens[a].fresh

\* A call refreshes for the user of its tab; only who has just registered has
\* nothing to refresh with; and what a call has brought is not stale yet.
CallCalm(t, r) ==
    promise[t][r].pc # "off" =>
       /\ promise[t][r].user = store[t].user
       /\ promise[t][r].pc = "answered" /\ promise[t][r].token = NoToken => promise[t][r].user \in registered
       /\ promise[t][r].token # NoToken => promise[t][r].session # NoToken /\ Fresh(promise[t][r].token)

TabCalm(t) ==
    /\ store[t].session = NoToken => store[t].user \in registered \cup {NoUser}
    /\ ~LoggedIn(t) => request[t].pc = "idle" /\ \A r \in Refreshes : promise[t][r].pc = "off"
    /\ \A i \in DOMAIN mail[t] : mail[t][i].session # NoToken
    /\ request[t].pc = "retry" => Fresh(request[t].token)
    /\ \A r \in Refreshes : CallCalm(t, r)

Calm ==
    /\ leaving = {}
    /\ \A i \in DOMAIN sessions : sessions[i].valid
    /\ disk.session = NoToken => disk.user \in registered \cup {NoUser}
    /\ \A t \in Tabs : TabCalm(t)

CalmUntilFault == faults = 0 => Calm

LEMMA InitCalm == Init => CalmUntilFault
<1> SUFFICES ASSUME Init PROVE Calm
  BY DEF CalmUntilFault
<1>1. ASSUME NEW t \in Tabs
      PROVE  TabCalm(t)
  <2>1. store[t] = LoggedOut /\ request[t] = Idle /\ mail[t] = <<>> /\ \A r \in Refreshes : promise[t][r] = NoCall
    BY DEF Init
  <2> QED
    BY <2>1 DEF TabCalm, CallCalm, LoggedIn, LoggedOut, Idle, NoCall
<1> QED
  BY <1>1 DEF Init, Calm, LoggedOut

\* Tokens that are issued leave the others fresh.
LEMMA StaysFresh ==
  ASSUME Typed, NEW e \in [user : Users, fresh : BOOLEAN], tokens' = Append(tokens, e), NEW a, Fresh(a)
  PROVE  Fresh(a)'
<1>1. DOMAIN tokens' = DOMAIN tokens \cup {Len(tokens) + 1} /\ \A i \in DOMAIN tokens : tokens'[i] = tokens[i]
  BY Appended DEF Typed, TypeOK
<1> QED
  BY <1>1 DEF Fresh

\* A tab that nothing happens to.
LEMMA TabLeftAlone ==
  ASSUME NEW t \in Tabs, TabCalm(t), store'[t] = store[t], request'[t] = request[t], promise'[t] = promise[t],
         mail'[t] = mail[t], registered \subseteq registered', \A a : Fresh(a) => Fresh(a)'
  PROVE  TabCalm(t)'
<1>1. \A r \in Refreshes : CallCalm(t, r)'
  BY DEF TabCalm, CallCalm
<1> QED
  BY <1>1 DEF TabCalm, LoggedIn

\* A page that has just loaded.
LEMMA LoadedCalm ==
  ASSUME Typed, Calm, NEW t \in Tabs, NEW auth \in Auth, Loaded(t, auth),
         auth.session = NoToken => auth.user \in registered \cup {NoUser},
         disk' \in {disk, LoggedOut}, UNCHANGED <<server, faults>>
  PROVE  Calm'
<1>1. ASSUME NEW q \in Tabs
      PROVE  TabCalm(q)'
  <2>1. CASE q = t
    <3>1. store'[q] = auth /\ request'[q] = Idle /\ mail'[q] = <<>> /\ \A r \in Refreshes : promise'[q][r] = NoCall
      BY <2>1, LoadedTyped
    <3> QED
      BY <3>1 DEF TabCalm, CallCalm, LoggedIn, Idle, NoCall, server
  <2>2. CASE q # t
    <3>1. store'[q] = store[q] /\ request'[q] = request[q] /\ promise'[q] = promise[q] /\ mail'[q] = mail[q]
      BY <2>2, LoadedTyped
    <3> QED
      BY <3>1, TabLeftAlone DEF Calm, Fresh, server
  <2> QED
    BY <2>1, <2>2
<1>2. leaving' = {}
  BY DEF Loaded, Calm
<1> QED
  BY <1>1, <1>2 DEF Calm, LoggedOut, server

LEMMA LogsInCalm ==
  ASSUME Typed, Calm, NEW t \in Tabs, NEW u \in Users, Login(t, u) \/ Register(t, u)
  PROVE  Calm'
<1>1. /\ tokens' = Append(tokens, [user |-> u, fresh |-> TRUE]) /\ Len(tokens) < MaxTokens /\ Len(tokens) \in Nat
      /\ ~LoggedIn(t) /\ UNCHANGED <<request, promise, mail, leaving>> /\ registered \subseteq registered'
  BY DEF Login, Register, Typed, TypeOK
<1>2. \A a : Fresh(a) => Fresh(a)'
  BY <1>1, StaysFresh
<1>3. PICK s \in 0 .. MaxSessions : /\ Stored(t, u, Len(tokens) + 1, s)
                                    /\ s = NoToken => u \in registered'
                                    /\ \A i \in DOMAIN sessions' : sessions'[i].valid
  <2>1. CASE Login(t, u)
    <3>1. Len(sessions) \in Nat /\ Len(sessions) + 1 \in 0 .. MaxSessions /\ Len(sessions) + 1 # NoToken
      BY <2>1, AuthAssumption DEF Login, Typed, TypeOK, NoToken
    <3>2. \A i \in DOMAIN sessions' : sessions'[i].valid
      <4>1. sessions \in Seq([user : Users, valid : BOOLEAN]) /\ [user |-> u, valid |-> TRUE] \in [user : Users, valid : BOOLEAN]
            /\ sessions' = Append(sessions, [user |-> u, valid |-> TRUE])
        BY <2>1 DEF Login, Typed, TypeOK
      <4>2. \A i \in DOMAIN sessions' : (i \in DOMAIN sessions /\ sessions'[i] = sessions[i]) \/ sessions'[i] = [user |-> u, valid |-> TRUE]
        BY <4>1, Appended
      <4> QED
        BY <4>2 DEF Calm
    <3> QED
      BY <2>1, <3>1, <3>2 DEF Login
  <2>2. CASE Register(t, u)
    BY <2>2, Constants DEF Register, Calm
  <2> QED
    BY <2>1, <2>2
<1>4. Len(tokens) + 1 \in TokenIds /\ u \in Users \cup {NoUser} /\ u # NoUser
  BY <1>1, AuthAssumption DEF TokenIds
<1>5. store'[t] = [user |-> u, token |-> Len(tokens) + 1, session |-> s] /\ disk' = store'[t]
      /\ \A q \in Tabs \ {t} : store'[q] = store[q]
  BY <1>3, <1>4, StoredTyped
<1>6. ASSUME NEW q \in Tabs
      PROVE  TabCalm(q)'
  <2>1. CASE q = t
    <3>1. request[q].pc = "idle" /\ \A r \in Refreshes : promise[q][r].pc = "off"
      BY <1>1, <2>1 DEF Calm, TabCalm
    <3>2. \A r \in Refreshes : CallCalm(q, r)'
      BY <1>1, <3>1 DEF CallCalm
    <3> QED
      BY <1>1, <1>3, <1>4, <1>5, <2>1, <3>1, <3>2 DEF Calm, TabCalm, LoggedIn
  <2>2. CASE q # t
    BY <1>1, <1>2, <1>5, <2>2, TabLeftAlone DEF Calm
  <2> QED
    BY <2>1, <2>2
<1> QED
  BY <1>1, <1>3, <1>5, <1>6 DEF Calm

\* Tokens age, but not those a call or a repetition is about to use.
LEMMA ExpireCalm ==
  ASSUME Typed, Calm, NEW i \in 1 .. MaxTokens, Expire(i)
  PROVE  Calm'
<1>1. \A a \in TokenIds : Fresh(a) /\ ~(a <= i) => Fresh(a)'
  BY DEF Expire, Fresh
<1>2. ASSUME NEW t \in Tabs
      PROVE  TabCalm(t)'
  <2>1. UNCHANGED <<store, request, promise, mail, registered>>
    BY DEF Expire, page
  <2>2. request[t].pc = "retry" => Fresh(request[t].token)'
    <3>1. request[t].token \in TokenIds
      BY DEF Typed, TypeOK, Request
    <3> QED
      BY <1>1, <2>1, <3>1 DEF Expire, Calm, TabCalm, Fresh
  <2>3. ASSUME NEW r \in Refreshes
        PROVE  CallCalm(t, r)'
    <3>1. promise[t][r].token \in TokenIds
      BY DEF Typed, TypeOK, Promise
    <3>2. promise[t][r].token # NoToken => ~(promise[t][r].token <= i)
      BY <3>1, AuthAssumption DEF Expire, NoToken, TokenIds
    <3> QED
      BY <1>1, <2>1, <3>1, <3>2 DEF Calm, TabCalm, CallCalm, Fresh
  <2> QED
    BY <2>1, <2>2, <2>3 DEF Calm, TabCalm, LoggedIn
<1> QED
  BY <1>2 DEF Calm, Expire, page

\* The server is asked with a valid refresh token, and gives a fresh access token.
LEMMA AnswerRefreshCalm ==
  ASSUME Typed, Calm, NEW t \in Tabs, NEW r \in Refreshes, AnswerRefresh(t, r)
  PROVE  Calm'
<1> DEFINE s == promise[t][r].session
<1>0. PICK k \in Nat : k = Len(tokens) + 1
  BY DEF Typed, TypeOK
<1>1. s \in DOMAIN sessions /\ sessions[s].user \in Users /\ sessions[s].valid /\ s # NoToken
  <2>1. s \in 0 .. MaxSessions /\ s <= Len(sessions) /\ s # NoToken /\ sessions \in Seq([user : Users, valid : BOOLEAN])
    BY DEF AnswerRefresh, Typed, TypeOK, Issued, Promise
  <2>2. s \in DOMAIN sessions
    BY <2>1 DEF NoToken
  <2>3. sessions[s] \in [user : Users, valid : BOOLEAN]
    BY <2>1, <2>2, Elements
  <2> QED
    BY <2>1, <2>2, <2>3 DEF Calm
<1>2. tokens' = Append(tokens, [user |-> sessions[s].user, fresh |-> TRUE]) /\ Len(tokens) \in Nat
      /\ promise' = [promise EXCEPT ![t][r].pc = "answered", ![t][r].token = k]
  <2>1. Len(tokens) \in Nat
    BY DEF Typed, TypeOK
  <2> QED
    BY <1>0, <1>1, <2>1 DEF AnswerRefresh
<1>3. (\A a : Fresh(a) => Fresh(a)') /\ Fresh(k)'
  <2>1. [user |-> sessions[s].user, fresh |-> TRUE] \in [user : Users, fresh : BOOLEAN] /\ tokens \in Seq([user : Users, fresh : BOOLEAN])
    BY <1>1 DEF Typed, TypeOK
  <2>2. k \in DOMAIN tokens' /\ tokens'[k] = [user |-> sessions[s].user, fresh |-> TRUE]
    BY <1>0, <1>2, <2>1, Appended
  <2>3. Fresh(k)'
    BY <2>2 DEF Fresh
  <2>4. \A a : Fresh(a) => Fresh(a)'
    BY <1>2, <2>1, StaysFresh
  <2> QED
    BY <2>3, <2>4
<1>4. /\ promise'[t][r].pc = "answered" /\ promise'[t][r].token = k /\ promise'[t][r].session = s
      /\ promise'[t][r].user = promise[t][r].user
      /\ \A q \in Tabs, j \in Refreshes : promise'[q][j] = promise[q][j] \/ (q = t /\ j = r)
  <2>1. promise \in [Tabs -> [Refreshes -> Promise]] /\ promise[t][r] \in Promise
    BY DEF Typed, TypeOK
  <2>2. promise'[t][r] = [promise[t][r] EXCEPT !.pc = "answered", !.token = k]
    BY <1>2, <2>1
  <2>3. promise' = [promise EXCEPT ![t][r] = promise'[t][r]]
    BY <1>2, <2>1
  <2>4. \A q \in Tabs, j \in Refreshes : promise'[q][j] = promise[q][j] \/ (q = t /\ j = r)
    BY <2>1, <2>3
  <2> QED
    BY <2>1, <2>2, <2>4 DEF Promise
<1>5. promise[t][r].pc = "sent" /\ UNCHANGED <<sessions, registered, store, disk, request, mail, leaving>>
  BY DEF AnswerRefresh
<1>6. ASSUME NEW q \in Tabs
      PROVE  TabCalm(q)'
  <2>1. ASSUME NEW j \in Refreshes
        PROVE  CallCalm(q, j)' /\ (~LoggedIn(q) => promise'[q][j].pc = "off")
    <3>1. CASE q = t /\ j = r
      <4>1. promise[q][j].user = store[q].user /\ LoggedIn(q)
        BY <1>5, <3>1 DEF Calm, TabCalm, CallCalm
      <4>2. k # NoToken
        BY <1>0, <1>2 DEF NoToken
      <4>3. promise'[q][j].user = store'[q].user /\ promise'[q][j].token = k /\ promise'[q][j].session # NoToken
        BY <1>1, <1>4, <1>5, <3>1, <4>1
      <4>4. CallCalm(q, j)'
        BY <1>3, <4>2, <4>3 DEF CallCalm, Fresh
      <4> QED
        BY <4>1, <4>4
    <3>2. CASE ~(q = t /\ j = r)
      BY <1>3, <1>4, <1>5, <3>2 DEF Calm, TabCalm, CallCalm
    <3> QED
      BY <3>1, <3>2
  <2> QED
    BY <1>3, <1>5, <2>1 DEF Calm, TabCalm, LoggedIn
<1> QED
  BY <1>5, <1>6 DEF Calm

\* A promise that brings a token, while its user is still logged in.
LEMMA RenewedCalm ==
  ASSUME Typed, Calm, NEW t \in Tabs, NEW r \in Refreshes, Renewed(t, r)
  PROVE  Calm' /\ disk' # LoggedOut
<1> DEFINE p == promise[t][r]
           m == [token |-> p.token, session |-> p.session]
<1>1. p.pc = "answered" /\ p.token # NoToken /\ p.user = store[t].user /\ LoggedIn(t) /\ p.session # NoToken /\ Fresh(p.token)
  BY DEF Renewed, Calm, TabCalm, CallCalm
<1>2. /\ p.user \in Users \cup {NoUser} /\ p.token \in TokenIds /\ p.session \in 0 .. MaxSessions
      /\ Stored(t, p.user, p.token, p.session)
  BY DEF Renewed, Typed, TypeOK, Promise
<1>3. store'[t] = [user |-> p.user, token |-> p.token, session |-> p.session] /\ disk' = store'[t]
      /\ \A q \in Tabs \ {t} : store'[q] = store[q]
  BY <1>2, StoredTyped
<1>4. \A q \in Tabs, k \in Refreshes : promise'[q][k] = promise[q][k] \/ (q = t /\ k = r /\ promise'[q][k] = NoCall)
  BY Reset DEF Renewed
<1>5. \A q \in Tabs : \A i \in DOMAIN mail'[q] : mail'[q][i].session # NoToken
  <2>1. ASSUME NEW q \in Tabs
        PROVE  \A i \in DOMAIN mail'[q] : mail'[q][i].session # NoToken
    <3>1. mail'[q] = mail[q] \/ mail'[q] = Append(mail[q], m)
      BY DEF Renewed
    <3>2. m \in [token : TokenIds, session : 0 .. MaxSessions] /\ mail[q] \in Seq([token : TokenIds, session : 0 .. MaxSessions])
      BY <1>2 DEF Typed, TypeOK
    <3>3. \A i \in DOMAIN Append(mail[q], m) : (i \in DOMAIN mail[q] /\ Append(mail[q], m)[i] = mail[q][i]) \/ Append(mail[q], m)[i] = m
      BY <3>2, Appended
    <3> QED
      BY <1>1, <3>1, <3>3 DEF Calm, TabCalm
  <2> QED
    BY <2>1
<1>6. UNCHANGED <<tokens, sessions, registered, leaving>>
  BY DEF Renewed, server
<1>7. /\ \A q \in Tabs \ {t} : request'[q] = request[q]
      /\ request'[t] = request[t] \/ request'[t] = [pc |-> "retry", token |-> p.token, on |-> Off]
  BY DEF Renewed, Repeat, Typed, TypeOK
<1>8. ASSUME NEW q \in Tabs
      PROVE  TabCalm(q)'
  <2>1. ASSUME NEW k \in Refreshes
        PROVE  CallCalm(q, k)'
    <3>1. store'[q].user = store[q].user
      BY <1>1, <1>3
    <3>2. CASE promise'[q][k] = promise[q][k]
      BY <1>6, <3>1, <3>2 DEF Calm, TabCalm, CallCalm, Fresh
    <3>3. CASE promise'[q][k] = NoCall
      BY <3>3 DEF CallCalm, NoCall
    <3> QED
      BY <1>4, <3>2, <3>3
  <2>2. CASE q = t
    <3>1. LoggedIn(q)' /\ store'[q].session # NoToken
      BY <1>1, <1>3, <2>2 DEF LoggedIn
    <3>2. request'[q].pc = "retry" => Fresh(request[q].token)'
      BY <1>1, <1>6, <1>7, <2>2 DEF Calm, TabCalm, Fresh
    <3> QED
      BY <1>5, <2>1, <3>1, <3>2 DEF TabCalm
  <2>3. CASE q # t
    <3>1. store'[q] = store[q] /\ request'[q] = request[q] /\ \A k \in Refreshes : promise'[q][k] = promise[q][k]
      BY <1>3, <1>4, <1>7, <2>3
    <3> QED
      BY <1>5, <1>6, <2>1, <3>1 DEF Calm, TabCalm, LoggedIn, Fresh
  <2> QED
    BY <2>2, <2>3
<1>9. Calm'
  BY <1>1, <1>3, <1>6, <1>8 DEF Calm
<1> QED
  BY <1>1, <1>3, <1>9 DEF LoggedIn, LoggedOut

LEMMA AdoptCalm ==
  ASSUME Typed, Calm, NEW t \in Tabs, Adopt(t)
  PROVE  Calm' /\ disk' # LoggedOut
<1> DEFINE m == Head(mail[t])
<1>1. /\ m \in [token : TokenIds, session : 0 .. MaxSessions] /\ m.session # NoToken
      /\ \A i \in DOMAIN Tail(mail[t]) : Tail(mail[t])[i].session # NoToken
  <2>1. mail[t] \in Seq([token : TokenIds, session : 0 .. MaxSessions]) /\ mail[t] # <<>>
    BY DEF Adopt, Typed, TypeOK
  <2>2. \A i \in DOMAIN mail[t] : mail[t][i].session # NoToken
    BY DEF Calm, TabCalm
  <2> QED
    BY <2>1, <2>2, Remaining
<1>2. Stored(t, store[t].user, m.token, m.session) /\ store[t].user \in Users \cup {NoUser} /\ LoggedIn(t)
  BY DEF Adopt, Typed, TypeOK, Auth
<1>3. store'[t] = [user |-> store[t].user, token |-> m.token, session |-> m.session] /\ disk' = store'[t]
      /\ \A q \in Tabs \ {t} : store'[q] = store[q]
  BY <1>1, <1>2, StoredTyped
<1>4. mail'[t] = Tail(mail[t]) /\ \A q \in Tabs \ {t} : mail'[q] = mail[q]
  BY DEF Adopt, Typed, TypeOK
<1>5. UNCHANGED <<tokens, sessions, registered, request, promise, leaving>>
  BY DEF Adopt, server
<1>6. ASSUME NEW q \in Tabs
      PROVE  TabCalm(q)'
  <2>1. ASSUME NEW k \in Refreshes
        PROVE  CallCalm(q, k)'
    <3>1. store'[q].user = store[q].user
      BY <1>3
    <3> QED
      BY <1>5, <3>1 DEF Calm, TabCalm, CallCalm, Fresh
  <2>2. CASE q = t
    <3>1. LoggedIn(q)' /\ store'[q].session # NoToken
      BY <1>1, <1>2, <1>3, <2>2 DEF LoggedIn
    <3> QED
      BY <1>1, <1>4, <1>5, <2>1, <2>2, <3>1 DEF Calm, TabCalm, Fresh
  <2>3. CASE q # t
    BY <1>3, <1>4, <1>5, <2>1, <2>3 DEF Calm, TabCalm, LoggedIn, Fresh
  <2> QED
    BY <2>2, <2>3
<1>7. Calm'
  BY <1>1, <1>3, <1>5, <1>6 DEF Calm
<1> QED
  BY <1>2, <1>3, <1>7 DEF LoggedIn, LoggedOut

\* A promise that brings nothing.  Whoever waits for it has just registered.
LEMMA NotRenewedCalm ==
  ASSUME Typed, Calm, NEW t \in Tabs, NEW r \in Refreshes, NotRenewed(t, r)
  PROVE  /\ Calm'
         /\ disk' = disk \/ (store[t].user \in registered /\ \A q \in Tabs \ {t} : store'[q] = store[q])
<1>1. CASE Waits(t, r)
  <2>1. ThrowOut(t) /\ UNCHANGED <<server, faults>>
    BY <1>1 DEF NotRenewed
  <2>2. store[t].user \in registered
    BY DEF NotRenewed, Calm, TabCalm, CallCalm
  <2>3. Calm'
    BY <2>1, LoadedCalm, Constants DEF ThrowOut, LoggedOut
  <2> QED
    BY <2>1, <2>2, <2>3, LoadedTyped, Constants DEF ThrowOut
<1>2. CASE ~Waits(t, r)
  <2>1. promise' = [promise EXCEPT ![t][r] = NoCall] /\ ClearInFlight(t, r)
        /\ UNCHANGED <<store, disk, request, mail, leaving, tokens, sessions, registered>>
    BY <1>2 DEF NotRenewed, server
  <2>2. \A q \in Tabs, k \in Refreshes : promise'[q][k] = promise[q][k] \/ promise'[q][k] = NoCall
    BY <2>1, Reset
  <2>3. ASSUME NEW q \in Tabs
        PROVE  TabCalm(q)'
    <3>1. ASSUME NEW k \in Refreshes
          PROVE  CallCalm(q, k)' /\ (promise[q][k].pc = "off" => promise'[q][k].pc = "off")
      <4>1. CASE promise'[q][k] = promise[q][k]
        BY <2>1, <4>1 DEF Calm, TabCalm, CallCalm, Fresh
      <4>2. CASE promise'[q][k] = NoCall
        BY <4>2 DEF CallCalm, NoCall
      <4> QED
        BY <2>2, <4>1, <4>2
    <3> QED
      BY <2>1, <3>1 DEF Calm, TabCalm, LoggedIn, Fresh
  <2> QED
    BY <2>1, <2>3 DEF Calm
<1> QED
  BY <1>1, <1>2

\* A call that begins, for the user of the tab.
LEMMA SharedCalm ==
  ASSUME Typed, Calm, NEW t \in Tabs, NEW r \in Refreshes, Shared(t, r), LoggedIn(t),
         \A q \in Tabs : request'[q] = request[q] \/ (q = t /\ request'[q].pc = "waiting"),
         UNCHANGED <<tokens, sessions, registered, store, disk, mail, leaving>>
  PROVE  Calm'
<1>1. /\ \A k \in Refreshes : k # r => promise'[t][k] = promise[t][k]
      /\ \A q \in Tabs : q # t => promise'[q] = promise[q]
  <2>1. \A k \in Refreshes : k # r => promise'[t][k] = promise[t][k]
    BY SharedTyped, Zenon
  <2>2. \A q \in Tabs : q # t => inFlight'[q] = inFlight[q] /\ promise'[q] = promise[q]
    BY SharedTyped, Zenon
  <2> QED
    BY <2>1, <2>2
<1>2. CallCalm(t, r)'
  <2>1. CASE promise' = promise
    BY <2>1 DEF Calm, TabCalm, CallCalm, Fresh
  <2>2. CASE promise' # promise
    <3>1. promise'[t][r] = [pc |-> IF store[t].session = NoToken \/ ~LoggedIn(t) THEN "answered" ELSE "sent",
                            user |-> store[t].user, session |-> store[t].session, token |-> NoToken]
      BY <2>2, SharedTyped
    <3>2. promise'[t][r].user = store[t].user /\ promise'[t][r].token = NoToken
          /\ (promise'[t][r].pc = "answered" => store[t].session = NoToken)
      <4>1. CASE store[t].session = NoToken
        BY <3>1, <4>1
      <4>2. CASE store[t].session # NoToken
        BY <3>1, <4>2
      <4> QED
        BY <4>1, <4>2
    <3>3. store[t].session = NoToken => store[t].user \in registered
      BY DEF Calm, TabCalm, LoggedIn
    <3> QED
      BY <3>2, <3>3 DEF CallCalm
  <2> QED
    BY <2>1, <2>2
<1>3. ASSUME NEW q \in Tabs
      PROVE  TabCalm(q)'
  <2>1. CASE q = t
    <3>1. \A k \in Refreshes : CallCalm(q, k)'
      BY <1>1, <1>2, <2>1 DEF Calm, TabCalm, CallCalm, Fresh
    <3> QED
      BY <2>1, <3>1 DEF Calm, TabCalm, LoggedIn, Fresh
  <2>2. CASE q # t
    BY <1>1, <2>2, TabLeftAlone DEF Calm, Fresh
  <2> QED
    BY <2>1, <2>2
<1> QED
  BY <1>3 DEF Calm

\* Requests that begin and end.
LEMMA RequestsCalm ==
  ASSUME Typed, Calm, NEW t \in Tabs, Accepted(t) \/ SendRequest(t)
  PROVE  Calm'
<1>1. /\ UNCHANGED <<tokens, sessions, registered, store, disk, promise, mail, leaving>>
      /\ \A q \in Tabs : request'[q] = request[q] \/ (q = t /\ request'[q].pc \in {"idle", "sent"})
      /\ request'[t].pc = "sent" => LoggedIn(t) \/ request'[t] = request[t]
  BY DEF Accepted, SendRequest, server, Typed, TypeOK, Idle
<1>2. ASSUME NEW q \in Tabs
      PROVE  TabCalm(q)'
  <2>1. CASE q = t
    <3>1. \A k \in Refreshes : CallCalm(q, k)'
      BY <1>1 DEF Calm, TabCalm, CallCalm, Fresh
    <3> QED
      BY <1>1, <2>1, <3>1 DEF Calm, TabCalm, LoggedIn, Fresh
  <2>2. CASE q # t
    BY <1>1, <2>2, TabLeftAlone DEF Calm, Fresh
  <2> QED
    BY <2>1, <2>2
<1> QED
  BY <1>1, <1>2 DEF Calm

LEMMA NextCalm == Typed /\ CalmUntilFault /\ [Next]_vars => CalmUntilFault'
<1> SUFFICES ASSUME Typed, CalmUntilFault, [Next]_vars, faults' = 0 PROVE Calm'
  BY DEF CalmUntilFault
<1>1. CASE faults = 0
  <2>0. Calm
    BY <1>1 DEF CalmUntilFault
  <2>1. CASE UNCHANGED vars
    <3>1. \A q \in Tabs : TabCalm(q)'
      BY <2>0, <2>1, TabLeftAlone DEF Calm, Fresh, vars, server, page
    <3> QED
      BY <2>0, <2>1, <3>1 DEF Calm, vars, server, page
  <2>2. ASSUME NEW t \in Tabs, Accepted(t) \/ SendRequest(t) PROVE Calm'
    BY <2>0, <2>2, RequestsCalm
  <2>3. ASSUME NEW t \in Tabs, Unauthorized(t) PROVE Calm'
    <3>1. PICK r \in Refreshes : /\ Shared(t, r)
                                 /\ request' = [request EXCEPT ![t] = [pc |-> "waiting", token |-> NoToken, on |-> r]]
      BY <2>3 DEF Unauthorized
    <3>2. LoggedIn(t)
      BY <2>0, <2>3 DEF Unauthorized, Calm, TabCalm
    <3>3. \A q \in Tabs : request'[q] = request[q] \/ (q = t /\ request'[q].pc = "waiting")
      BY <3>1 DEF Typed, TypeOK
    <3> QED
      BY <2>0, <2>3, <3>1, <3>2, <3>3, SharedCalm DEF Unauthorized, server
  <2>4. ASSUME NEW t \in Tabs, TimerFires(t) PROVE Calm'
    BY <2>0, <2>4, SharedCalm DEF TimerFires, server
  <2>5. ASSUME NEW t \in Tabs, StillUnauthorized(t) PROVE Calm'
    BY <2>0, <2>5 DEF StillUnauthorized, Calm, TabCalm, Fresh
  <2>6. ASSUME NEW t \in Tabs, OpenTab(t) PROVE Calm'
    BY <2>0, <2>6, LoadedCalm DEF OpenTab, Calm, Typed, TypeOK
  <2>7. ASSUME NEW t \in Tabs, StartLogout(t) \/ FinishLogout(t) PROVE Calm'
    BY <1>1, <2>0, <2>7, AuthAssumption DEF StartLogout, FinishLogout, Calm
  <2>8. ASSUME NEW t \in Tabs, NEW r \in Refreshes, LoseRefresh(t, r) PROVE Calm'
    BY <1>1, <2>8 DEF LoseRefresh
  <2>9. ASSUME NEW t \in Tabs, NEW r \in Refreshes, AnswerRefresh(t, r) \/ Settled(t, r) PROVE Calm'
    BY <2>0, <2>9, AnswerRefreshCalm, RenewedCalm, NotRenewedCalm DEF Settled
  <2>10. ASSUME NEW t \in Tabs, NEW u \in Users, Login(t, u) \/ Register(t, u) PROVE Calm'
    BY <2>0, <2>10, LogsInCalm
  <2>11. ASSUME NEW t \in Tabs, Adopt(t) PROVE Calm'
    BY <2>0, <2>11, AdoptCalm
  <2>12. ASSUME NEW i \in 1 .. MaxTokens, Expire(i) PROVE Calm'
    BY <2>0, <2>12, ExpireCalm
  <2> QED
    BY <2>1, <2>2, <2>3, <2>4, <2>5, <2>6, <2>7, <2>8, <2>9, <2>10, <2>11, <2>12 DEF Next, Answered
<1>2. CASE faults # 0
  <2>1. faults \in Nat
    BY DEF Typed, TypeOK
  <2>2. faults' = faults \/ faults' = faults + 1
    <3>1. \A t \in Tabs : Answered(t) \/ Adopt(t) \/ TimerFires(t) \/ SendRequest(t) => faults' = faults
      BY DEF Answered, Accepted, Unauthorized, StillUnauthorized, Adopt, TimerFires, SendRequest
    <3>2. \A t \in Tabs : OpenTab(t) \/ StartLogout(t) \/ FinishLogout(t) => faults' = faults \/ faults' = faults + 1
      BY DEF OpenTab, StartLogout, FinishLogout
    <3>3. \A t \in Tabs, u \in Users : Login(t, u) \/ Register(t, u) => faults' = faults
      BY DEF Login, Register
    <3>4. \A t \in Tabs, r \in Refreshes :
             AnswerRefresh(t, r) \/ LoseRefresh(t, r) \/ Settled(t, r) => faults' = faults \/ faults' = faults + 1
      BY DEF AnswerRefresh, LoseRefresh, Settled, Renewed, NotRenewed
    <3>5. \A i \in 1 .. MaxTokens : Expire(i) => faults' = faults
      BY DEF Expire
    <3>6. UNCHANGED vars => faults' = faults
      BY DEF vars
    <3> QED
      BY <3>1, <3>2, <3>3, <3>4, <3>5, <3>6 DEF Next
  <2> QED
    BY <1>2, <2>1, <2>2
<1> QED
  BY <1>1, <1>2

\* What a step may not do.
Thrown(t) ==
    /\ disk # LoggedOut /\ disk' = LoggedOut /\ store'[t] = LoggedOut
    /\ LoggedIn(t) /\ t \notin leaving /\ store[t].user \notin registered

LEMMA NobodyThrown ==
  ASSUME Typed, Calm, [Next]_vars, NEW t \in Tabs
  PROVE  ~Thrown(t)
<1> SUFFICES ASSUME Thrown(t) PROVE FALSE
  OBVIOUS
<1>1. store[t] # LoggedOut
  BY DEF Thrown, LoggedIn, LoggedOut
<1>2. ASSUME disk' = disk \/ disk' # LoggedOut PROVE FALSE
  BY <1>2 DEF Thrown
<1>3. ASSUME NEW q \in Tabs, Answered(q) \/ TimerFires(q) \/ SendRequest(q) PROVE FALSE
  <2>1. CASE StillUnauthorized(q)
    BY <2>1 DEF StillUnauthorized, Calm, TabCalm, Fresh
  <2>2. CASE ~StillUnauthorized(q)
    BY <1>2, <1>3, <2>2 DEF Answered, Accepted, Unauthorized, TimerFires, SendRequest
  <2> QED
    BY <2>1, <2>2
<1>4. ASSUME NEW q \in Tabs, OpenTab(q) \/ StartLogout(q) PROVE FALSE
  BY <1>2, <1>4 DEF OpenTab, StartLogout
<1>5. ASSUME NEW q \in Tabs, FinishLogout(q) PROVE FALSE
  BY <1>5 DEF FinishLogout, Calm
<1>6. ASSUME NEW q \in Tabs, NEW u \in Users, Login(q, u) \/ Register(q, u) PROVE FALSE
  <2>1. disk'.user = u
    BY <1>6 DEF Login, Register, Stored, Typed, TypeOK
  <2> QED
    BY <1>2, <2>1, AuthAssumption DEF LoggedOut
<1>7. ASSUME NEW q \in Tabs, Adopt(q) PROVE FALSE
  BY <1>2, <1>7, AdoptCalm
<1>8. ASSUME NEW q \in Tabs, NEW r \in Refreshes, AnswerRefresh(q, r) \/ LoseRefresh(q, r) PROVE FALSE
  BY <1>2, <1>8 DEF AnswerRefresh, LoseRefresh
<1>9. ASSUME NEW q \in Tabs, NEW r \in Refreshes, Settled(q, r) PROVE FALSE
  <2>1. CASE Renewed(q, r)
    BY <1>2, <2>1, RenewedCalm
  <2>2. CASE NotRenewed(q, r)
    <3>1. store[q].user \in registered /\ \A z \in Tabs \ {q} : store'[z] = store[z]
      BY <1>2, <2>2, NotRenewedCalm
    <3> QED
      BY <1>1, <3>1 DEF Thrown
  <2> QED
    BY <1>9, <2>1, <2>2 DEF Settled
<1>10. ASSUME NEW i \in 1 .. MaxTokens, Expire(i) PROVE FALSE
  BY <1>2, <1>10 DEF Expire
<1> QED
  BY <1>2, <1>3, <1>4, <1>5, <1>6, <1>7, <1>8, <1>9, <1>10 DEF Next, vars

\* While no refresh has failed on the network and nobody has logged out, nobody
\* who has logged in is thrown out, however the calls of the tabs cross.
THEOREM NobodyIsThrownOut == Spec => NotThrownOut
<1> DEFINE A == \A t \in Tabs : Thrown(t) => faults > 0 \/ \E s \in DOMAIN sessions : ~sessions[s].valid
<1>1. ASSUME Typed, CalmUntilFault, [Next]_vars
      PROVE  A
  <2>1. faults \in Nat
    BY <1>1 DEF Typed, TypeOK
  <2>2. CASE faults = 0
    BY <1>1, <2>2, NobodyThrown DEF CalmUntilFault
  <2>3. CASE faults # 0
    BY <2>1, <2>3
  <2> QED
    BY <2>2, <2>3
<1>2. Typed /\ CalmUntilFault /\ [Next]_vars => [A]_vars
  BY <1>1
<1>3. [A]_vars => [\A t \in Tabs :
         /\ disk # LoggedOut /\ disk' = LoggedOut /\ store'[t] = LoggedOut
         /\ LoggedIn(t) /\ t \notin leaving /\ store[t].user \notin registered
         => faults > 0 \/ \E s \in DOMAIN sessions : ~sessions[s].valid]_vars
  BY DEF Thrown
<1>4. Typed /\ CalmUntilFault /\ [Next]_vars => CalmUntilFault'
  BY NextCalm
<1> QED
  BY <1>2, <1>3, <1>4, InitCalm, TypedAlways, PTL DEF Spec, NotThrownOut

=============================================================================
