---------------------------- MODULE SignIn_proofs --------------------------
(***************************************************************************)
(* Signing in and out, for any number of tabs, sessions and requests.      *)
(***************************************************************************)
EXTENDS SignIn, TLAPS

\* A session that the browser has heard of was created.
Used(s) == s = None \/ state[s] # "absent"
Seen ==
  /\ Used(token) /\ Used(cookie)
  /\ \A t \in Tabs : Used(known[t]) /\ Used(sign[t].session) /\ \A s \in left[t] : Used(s)
  /\ \A c \in Calls : Used(call[c].with)

OneBusy ==
  "overlap" \notin mishaps => \A t, u \in Tabs : Busy(t) /\ Busy(u) => t = u

Refusals ==
  "db" \notin mishaps => \A c \in Calls : call[c].pc = "refused" => ~Live(call[c].with)

\* The session that lives, as the login or logout under way moves it.
TheOne(s) ==
  /\ \A t \in Tabs : /\ sign[t].pc \notin {"login", "revoked", "cleared"}
                     /\ sign[t].pc \in {"created", "cookie", "logout"} => sign[t].session = s
  /\ (\A t \in Tabs : sign[t].pc # "created") => cookie = s
  /\ (\A t \in Tabs : sign[t].pc \notin {"created", "cookie"}) => token = s
OnlyLive == mishaps = {} => \A s \in Sessions : Live(s) => TheOne(s)

\* Where a session that a tab left is no longer written down.
Gone(t, s) ==
  /\ token # s /\ cookie # s /\ known[t] # s
  /\ \A u \in Tabs : sign[u].pc \in {"created", "cookie", "fetch"} => sign[u].session # s
  /\ \A c \in Calls : call[c].tab = t /\ call[c].me => call[c].with # s
LeftAlone ==
  "overlap" \notin mishaps =>
    /\ \A t \in Tabs : sign[t].pc = "cleared" => cookie = None
    /\ \A t \in Tabs : \A s \in left[t] : Gone(t, s)

IInv == TypeOK /\ Seen /\ OneBusy /\ Refusals /\ OnlyLive /\ LeftAlone

LEMMA Initially == Init => IInv
<1> SUFFICES ASSUME Init PROVE IInv
  OBVIOUS
<1> USE DEF Init, Idle, NoCall
<1>1. TypeOK
  BY DEF TypeOK, MaybeSession
<1>2. Seen /\ OneBusy /\ Refusals /\ LeftAlone
  BY DEF Seen, Used, OneBusy, Busy, Refusals, LeftAlone
<1>3. OnlyLive
  BY DEF OnlyLive, Live
<1> QED BY <1>1, <1>2, <1>3 DEF IInv

\* The shapes of what a tab does and of a request.
LEMMA Shapes ==
  ASSUME TypeOK
  PROVE  /\ \A t \in Tabs : /\ sign[t].pc \in {"idle"} \cup LoginSteps \cup LogoutSteps
                            /\ sign[t].session \in MaybeSession
         /\ \A c \in Calls : /\ call[c].pc \in {"idle", "sent", "granted", "refused"}
                             /\ call[c].tab \in Tabs \cup {None}
                             /\ call[c].with \in MaybeSession /\ call[c].me \in BOOLEAN
                             /\ call[c].pc # "idle" => call[c].tab \in Tabs
         /\ Credential \in MaybeSession
<1>1. ASSUME NEW t \in Tabs
      PROVE  /\ sign[t].pc \in {"idle"} \cup LoginSteps \cup LogoutSteps
             /\ sign[t].session \in MaybeSession
  BY DEF TypeOK, Idle, MaybeSession
<1>2. ASSUME NEW c \in Calls
      PROVE  /\ call[c].pc \in {"idle", "sent", "granted", "refused"}
             /\ call[c].tab \in Tabs \cup {None}
             /\ call[c].with \in MaybeSession /\ call[c].me \in BOOLEAN
             /\ call[c].pc # "idle" => call[c].tab \in Tabs
  <2>1. CASE call[c] = NoCall
    BY <2>1 DEF NoCall, MaybeSession
  <2>2. CASE call[c] # NoCall
    BY <2>2 DEF TypeOK
  <2> QED BY <2>1, <2>2
<1>3. Credential \in MaybeSession
  BY DEF TypeOK, Credential
<1> QED BY <1>1, <1>2, <1>3

\* What a fetch or another request makes of the requests.
NewCall(c, t) == call'[c].pc = "sent" /\ call'[c].tab = t /\ call'[c].with = Credential
SameCall(c) ==
  /\ call'[c].pc = call[c].pc /\ call'[c].tab = call[c].tab /\ call'[c].with = call[c].with
  /\ call'[c].me => call[c].me

CallType == {NoCall} \cup [pc : {"sent", "granted", "refused"}, tab : Tabs,
                           with : MaybeSession, me : BOOLEAN]

LEMMA AbandonedCalls ==
  ASSUME TypeOK, NEW t \in Tabs
  PROVE  /\ Abandoned(t) \in [Calls -> CallType]
         /\ \A c \in Calls :
              LET new == Abandoned(t)[c]
              IN  /\ new.pc = call[c].pc /\ new.tab = call[c].tab /\ new.with = call[c].with
                  /\ new.me => call[c].me
                  /\ new.tab = t => ~new.me
<1>1. ASSUME NEW c \in Calls
      PROVE  LET new == Abandoned(t)[c]
             IN  /\ new \in CallType
                 /\ new.pc = call[c].pc /\ new.tab = call[c].tab /\ new.with = call[c].with
                 /\ new.me => call[c].me
                 /\ new.tab = t => ~new.me
  <2>1. call[c] \in CallType
    BY DEF TypeOK, CallType
  <2>2. CASE call[c] = NoCall
    BY <2>2, NoneAssumption DEF Abandoned, NoCall, CallType
  <2>3. CASE call[c] # NoCall /\ call[c].tab = t
    BY <2>1, <2>3 DEF Abandoned, CallType
  <2>4. CASE call[c] # NoCall /\ call[c].tab # t
    BY <2>1, <2>4 DEF Abandoned, CallType
  <2> QED BY <2>2, <2>3, <2>4
<1> QED BY <1>1 DEF Abandoned

LEMMA SentCalls ==
  ASSUME TypeOK, NEW c \in Calls, NEW t \in Tabs, NEW me \in BOOLEAN,
         NEW calls \in [Calls -> CallType], Send(c, t, me, calls)
  PROVE  /\ call' \in [Calls -> CallType] /\ NewCall(c, t)
         /\ \A d \in Calls \ {c} : call'[d] = calls[d]
<1>1. Credential \in MaybeSession
  BY Shapes
<1> QED BY <1>1 DEF Send, CallType, NewCall

LEMMA FetchedCalls ==
  ASSUME TypeOK, NEW t \in Tabs, FetchMe(t)
  PROVE  /\ call' \in [Calls -> CallType] /\ failed' \in [Tabs -> BOOLEAN]
         /\ \A c \in Calls : NewCall(c, t) \/ SameCall(c)
<1>1. failed' \in [Tabs -> BOOLEAN]
  BY DEF FetchMe, TypeOK
<1>2. CASE UNCHANGED call
  BY <1>1, <1>2 DEF TypeOK, CallType, SameCall
<1>3. CASE \E c \in Calls : Send(c, t, TRUE, Abandoned(t))
  <2>1. PICK c \in Calls : Send(c, t, TRUE, Abandoned(t))
    BY <1>3
  <2> DEFINE calls == Abandoned(t)
  <2>2. /\ calls \in [Calls -> CallType]
        /\ \A d \in Calls : /\ calls[d].pc = call[d].pc /\ calls[d].tab = call[d].tab
                            /\ calls[d].with = call[d].with
                            /\ calls[d].me => call[d].me
    BY AbandonedCalls
  <2>3. Send(c, t, TRUE, calls)
    BY <2>1
  <2> HIDE DEF calls
  <2>4. /\ call' \in [Calls -> CallType] /\ NewCall(c, t)
        /\ \A d \in Calls \ {c} : call'[d] = calls[d]
    BY <2>2, <2>3, SentCalls
  <2>5. \A d \in Calls \ {c} : SameCall(d)
    BY <2>2, <2>4 DEF SameCall
  <2> QED BY <1>1, <2>4, <2>5
<1> QED BY <1>2, <1>3 DEF FetchMe

-----------------------------------------------------------------------------
(* Types                                                                   *)

SignType == {Idle} \cup [pc : LoginSteps \cup LogoutSteps, session : MaybeSession]

\* A tab moves on in its login or logout.
LEMMA SignMoves ==
  ASSUME TypeOK, NEW t \in Tabs, NEW from, NEW to \in SignType, Step(t, from, to)
  PROVE  /\ sign' \in [Tabs -> SignType]
         /\ sign[t].pc = from /\ sign'[t] = to
         /\ \A u \in Tabs \ {t} : sign'[u] = sign[u]
  BY DEF Step, TypeOK, SignType

\* The next step of what a tab has begun.
LEMMA NextStep ==
  ASSUME TypeOK, NEW t \in Tabs, sign[t].pc # "idle",
         NEW to \in LoginSteps \cup LogoutSteps
  PROVE  /\ [sign[t] EXCEPT !.pc = to] \in SignType
         /\ [sign[t] EXCEPT !.pc = to].pc = to
         /\ [sign[t] EXCEPT !.pc = to].session = sign[t].session
         /\ sign[t].session \in MaybeSession
<1>1. sign[t] \in [pc : LoginSteps \cup LogoutSteps, session : MaybeSession]
  BY DEF TypeOK, Idle
<1> QED BY <1>1 DEF SignType

LEMMA SignInTypeStep == TypeOK /\ [Next]_vars => TypeOK'
<1> SUFFICES ASSUME TypeOK, [Next]_vars PROVE TypeOK'
  OBVIOUS
<1> USE DEF CallType, SignType
<1>1. CASE UNCHANGED vars
  BY <1>1 DEF vars, TypeOK
<1>2. ASSUME NEW t \in Tabs, Refetch(t) PROVE TypeOK'
  BY <1>2, FetchedCalls DEF Refetch, TypeOK
<1>3. ASSUME NEW t \in Tabs, Request(t) PROVE TypeOK'
  <2>1. call \in [Calls -> CallType]
    BY DEF TypeOK
  <2>2. PICK c \in Calls : Send(c, t, FALSE, call)
    BY <1>3 DEF Request
  <2>3. call' \in [Calls -> CallType]
    BY <2>1, <2>2, SentCalls
  <2> QED BY <1>3, <2>3 DEF Request, TypeOK
<1>4. ASSUME NEW t \in Tabs, Load(t) PROVE TypeOK'
  <2>1. call' \in [Calls -> CallType]
    BY <1>4 DEF Load, TypeOK
  <2> QED BY <1>4, <2>1 DEF Load, TypeOK, MaybeSession
<1>5. ASSUME NEW t \in Tabs, BeginLogin(t) PROVE TypeOK'
  <2> DEFINE to == [pc |-> "login", session |-> None]
  <2>1. to \in SignType /\ Step(t, "idle", to)
    BY <1>5 DEF BeginLogin, Begin, LoginSteps, MaybeSession
  <2>2. sign' \in [Tabs -> SignType]
    BY <2>1, SignMoves
  <2>3. mishaps' \subseteq Mishaps
    BY <1>5 DEF BeginLogin, Begin, Note, If, TypeOK, Mishaps
  <2> QED BY <1>5, <2>2, <2>3 DEF BeginLogin, TypeOK
<1>6. ASSUME NEW t \in Tabs, InsertSession(t) PROVE TypeOK'
  <2>1. PICK s \in Sessions : /\ state' = [state EXCEPT ![s] = "live"]
                              /\ Step(t, "login", [pc |-> "created", session |-> s])
    BY <1>6 DEF InsertSession
  <2>2. [pc |-> "created", session |-> s] \in SignType
    BY DEF LoginSteps, MaybeSession
  <2>3. sign' \in [Tabs -> SignType]
    BY <2>1, <2>2, SignMoves
  <2> QED BY <1>6, <2>1, <2>3 DEF InsertSession, TypeOK
<1>7. ASSUME NEW t \in Tabs, TakeCookie(t) \/ TakeToken(t) PROVE TypeOK'
  <2>1. sign[t].pc # "idle"
    BY <1>7 DEF TakeCookie, TakeToken, Step
  <2>2. sign' \in [Tabs -> SignType]
    BY <1>7, <2>1, NextStep, SignMoves DEF TakeCookie, TakeToken, LoginSteps
  <2>3. sign[t].session \in MaybeSession
    BY Shapes
  <2> QED BY <1>7, <2>2, <2>3 DEF TakeCookie, TakeToken, TypeOK
<1>8. ASSUME NEW t \in Tabs, LoginFetch(t) PROVE TypeOK'
  BY <1>8, FetchedCalls, SignMoves DEF LoginFetch, TypeOK
<1>9. ASSUME NEW t \in Tabs, LoginLost(t) PROVE TypeOK'
  <2>1. sign' \in [Tabs -> SignType]
    BY <1>9, SignMoves DEF LoginLost
  <2> QED BY <1>9, <2>1 DEF LoginLost, Note, TypeOK, Mishaps
<1>10. ASSUME NEW t \in Tabs, BeginLogout(t) PROVE TypeOK'
  <2> DEFINE to == [pc |-> "logout", session |-> cookie]
  <2>1. to \in SignType /\ Step(t, "idle", to)
    BY <1>10 DEF BeginLogout, Begin, LogoutSteps, TypeOK
  <2>2. sign' \in [Tabs -> SignType]
    BY <2>1, SignMoves
  <2>3. mishaps' \subseteq Mishaps
    BY <1>10 DEF BeginLogout, Begin, Note, If, TypeOK, Mishaps
  <2> QED BY <1>10, <2>2, <2>3 DEF BeginLogout, TypeOK
<1>11. ASSUME NEW t \in Tabs, Revoke(t) \/ RevokeFails(t) \/ ClearCookie(t) PROVE TypeOK'
  <2>1. sign[t].pc # "idle"
    BY <1>11 DEF Revoke, RevokeFails, ClearCookie, Step
  <2>2. sign' \in [Tabs -> SignType]
    BY <1>11, <2>1, NextStep, SignMoves DEF Revoke, RevokeFails, ClearCookie, LogoutSteps
  <2> QED BY <1>11, <2>2
          DEF Revoke, RevokeFails, ClearCookie, Note, TypeOK, MaybeSession, Mishaps
<1>12. ASSUME NEW t \in Tabs, SignedOut(t) PROVE TypeOK'
  <2>1. sign' \in [Tabs -> SignType] /\ call' \in [Calls -> CallType]
    BY <1>12, SignMoves, AbandonedCalls DEF SignedOut
  <2>2. left' \in [Tabs -> SUBSET Sessions]
    BY <1>12 DEF SignedOut, TypeOK, MaybeSession
  <2> QED BY <1>12, <2>1, <2>2 DEF SignedOut, TypeOK, MaybeSession
<1>13. ASSUME NEW t \in Tabs, LogoutLost(t) PROVE TypeOK'
  <2>1. sign' \in [Tabs -> SignType]
    BY <1>13, SignMoves DEF LogoutLost
  <2> QED BY <1>13, <2>1 DEF LogoutLost, Note, TypeOK, MaybeSession, Mishaps
<1>14. ASSUME NEW c \in Calls, Authenticate(c) PROVE TypeOK'
  <2>1. call[c] \in [pc : {"sent", "granted", "refused"}, tab : Tabs, with : MaybeSession, me : BOOLEAN]
    BY <1>14 DEF Authenticate, TypeOK, NoCall
  <2>2. call' \in [Calls -> CallType]
    BY <1>14, <2>1 DEF Authenticate, TypeOK
  <2> QED BY <1>14, <2>2 DEF Authenticate, Note, TypeOK, Mishaps
<1>15. ASSUME NEW c \in Calls, Granted(c) \/ Refused(c) \/ CallLost(c) PROVE TypeOK'
  <2>1. call[c] \in [pc : {"sent", "granted", "refused"}, tab : Tabs, with : MaybeSession, me : BOOLEAN]
    BY <1>15 DEF Granted, Refused, CallLost, TypeOK, NoCall
  <2>2. call' \in [Calls -> CallType]
    BY <1>15 DEF Granted, Refused, CallLost, TypeOK
  <2>3. failed' \in [Tabs -> BOOLEAN]
    BY <1>15, <2>1 DEF Granted, Refused, CallLost, TypeOK
  <2>4. known' \in [Tabs -> MaybeSession]
    BY <1>15, <2>1 DEF Granted, Refused, CallLost, TypeOK
  <2>5. mishaps' \subseteq Mishaps
    BY <1>15 DEF Granted, Refused, CallLost, Note, If, TypeOK, Mishaps
  <2> QED BY <1>15, <2>2, <2>3, <2>4, <2>5 DEF Granted, Refused, CallLost, TypeOK, MaybeSession
<1>16. ASSUME NEW s \in Sessions, Expire(s) PROVE TypeOK'
  BY <1>16 DEF Expire, TypeOK
<1> QED BY <1>1, <1>2, <1>3, <1>4, <1>5, <1>6, <1>7, <1>8, <1>9, <1>10, <1>11, <1>12, <1>13,
           <1>14, <1>15, <1>16 DEF Next, Tab

-----------------------------------------------------------------------------
(* What each step does to what the invariant speaks of: the requests, and  *)
(* the tab whose login or logout it is.                                    *)

\* No step but an answer of the server decides a request.
LEMMA CallsMove ==
  ASSUME TypeOK, Next, NEW c \in Calls
  PROVE  \/ call'[c] = NoCall
         \/ SameCall(c)
         \/ \E t \in Tabs : NewCall(c, t)
         \/ Authenticate(c) /\ call'[c].tab = call[c].tab /\ call'[c].with = call[c].with
               /\ call'[c].me = call[c].me /\ call'[c].pc \in {"granted", "refused"}
<1>1. CASE UNCHANGED call
  BY <1>1 DEF SameCall
<1>2. ASSUME NEW t \in Tabs, Refetch(t) \/ LoginFetch(t) PROVE NewCall(c, t) \/ SameCall(c)
  BY <1>2, FetchedCalls DEF Refetch, LoginFetch
<1>3. ASSUME NEW t \in Tabs, Request(t) PROVE NewCall(c, t) \/ SameCall(c)
  <2>1. call \in [Calls -> CallType]
    BY DEF TypeOK, CallType
  <2>2. PICK d \in Calls : Send(d, t, FALSE, call)
    BY <1>3 DEF Request
  <2> QED BY <2>1, <2>2, SentCalls DEF SameCall
<1>4. ASSUME NEW t \in Tabs, Load(t) PROVE call'[c] = NoCall \/ SameCall(c)
  BY <1>4 DEF Load, SameCall
<1>5. ASSUME NEW t \in Tabs, SignedOut(t) PROVE SameCall(c)
  BY <1>5, AbandonedCalls DEF SignedOut, SameCall
<1>6. ASSUME NEW d \in Calls, Granted(d) \/ Refused(d) \/ CallLost(d)
      PROVE  call'[c] = NoCall \/ SameCall(c)
  BY <1>6 DEF Granted, Refused, CallLost, TypeOK, SameCall
<1>7. ASSUME NEW d \in Calls, Authenticate(d)
      PROVE  \/ SameCall(c)
             \/ Authenticate(c) /\ call'[c].tab = call[c].tab /\ call'[c].with = call[c].with
                  /\ call'[c].me = call[c].me /\ call'[c].pc \in {"granted", "refused"}
  <2>1. CASE c # d
    BY <1>7, <2>1 DEF Authenticate, TypeOK, SameCall
  <2>2. CASE c = d
    <3>1. call[c] \in [pc : {"sent", "granted", "refused"}, tab : Tabs, with : MaybeSession, me : BOOLEAN]
      BY <1>7, <2>2 DEF Authenticate, TypeOK, NoCall
    <3>2. \E pc \in {"granted", "refused"} : call' = [call EXCEPT ![c].pc = pc]
      BY <1>7, <2>2 DEF Authenticate
    <3> QED BY <1>7, <2>2, <3>1, <3>2 DEF TypeOK
  <2> QED BY <2>1, <2>2
<1> QED BY <1>1, <1>2, <1>3, <1>4, <1>5, <1>6, <1>7
    DEF Next, Tab, BeginLogin, InsertSession, TakeCookie, TakeToken, LoginLost, BeginLogout,
        Revoke, RevokeFails, ClearCookie, LogoutLost, Expire

\* A session is created once and never forgotten.
LEMMA StatesMove ==
  ASSUME TypeOK, Next
  PROVE  /\ \A s : Used(s) => Used(s)'
         /\ \A s : Used(s) /\ Live(s)' => Live(s)
<1>1. CASE UNCHANGED state
  BY <1>1 DEF Used, Live
<1>2. ASSUME NEW t \in Tabs, InsertSession(t)
      PROVE  \A s : Used(s) => Used(s)' /\ (Live(s)' => Live(s))
  <2>1. PICK x \in Sessions : state[x] = "absent" /\ state' = [state EXCEPT ![x] = "live"]
    BY <1>2 DEF InsertSession
  <2> QED BY <2>1, NoneAssumption DEF TypeOK, Used, Live
<1>3. ASSUME NEW x, state' = [state EXCEPT ![x] = "ended"]
      PROVE  \A s : Used(s) => Used(s)' /\ (Live(s)' => Live(s))
  BY <1>3 DEF TypeOK, Used, Live
<1>4. ASSUME NEW t \in Tabs, Revoke(t)
      PROVE  UNCHANGED state \/ state' = [state EXCEPT ![sign[t].session] = "ended"]
  BY <1>4 DEF Revoke
<1>5. ASSUME NEW s \in Sessions, Expire(s)
      PROVE  state' = [state EXCEPT ![s] = "ended"]
  BY <1>5 DEF Expire
<1> QED BY <1>1, <1>2, <1>3, <1>4, <1>5
    DEF Next, Tab, Refetch, Request, Load, BeginLogin, TakeCookie, TakeToken, LoginFetch, LoginLost,
        BeginLogout, RevokeFails, ClearCookie, SignedOut, LogoutLost, Authenticate, Granted, Refused, CallLost

\* What the browser has heard of.
LEMMA SeenStep ==
  ASSUME TypeOK, Seen, [Next]_vars
  PROVE  Seen'
<1>1. CASE UNCHANGED vars
  BY <1>1 DEF vars, Seen, Used
<1>2. CASE Next
  <2>1. \A s : Used(s) => Used(s)'
    BY <1>2, StatesMove
  <2>2. Used(None)'
    BY DEF Used
  <2>3. Used(Credential)
    BY DEF Seen, Credential
  <2>4. \A c \in Calls : Used(call[c].with)'
    <3> TAKE c \in Calls
    <3>1. call'[c].with \in {None, call[c].with, Credential}
      BY <1>2, CallsMove DEF NoCall, SameCall, NewCall
    <3> QED BY <3>1, <2>1, <2>2, <2>3 DEF Seen, Used
  <2>5. Used(token)'
    <3>1. token' \in {token, None} \cup {sign[t].session : t \in Tabs}
      BY <1>2 DEF Next, Tab, Refetch, Request, Load, BeginLogin, InsertSession, TakeCookie, TakeToken,
         LoginFetch, LoginLost, BeginLogout, Revoke, RevokeFails, ClearCookie, SignedOut, LogoutLost,
         Authenticate, Granted, Refused, CallLost, Expire
    <3> QED BY <3>1, <2>1, <2>2 DEF Seen, Used
  <2>6. Used(cookie)'
    <3>1. cookie' \in {cookie, None} \cup {sign[t].session : t \in Tabs}
      BY <1>2 DEF Next, Tab, Refetch, Request, Load, BeginLogin, InsertSession, TakeCookie, TakeToken,
         LoginFetch, LoginLost, BeginLogout, Revoke, RevokeFails, ClearCookie, SignedOut, LogoutLost,
         Authenticate, Granted, Refused, CallLost, Expire
    <3> QED BY <3>1, <2>1, <2>2 DEF Seen, Used
  <2>7. \A t \in Tabs : Used(known[t])'
    <3> TAKE t \in Tabs
    <3>1. known'[t] \in {known[t], None} \cup {call[c].with : c \in Calls}
      <4>1. ASSUME NEW u \in Tabs, NEW v, known' = [known EXCEPT ![u] = v]
            PROVE  known'[t] \in {known[t], v}
        BY <4>1 DEF TypeOK
      <4>2. ASSUME NEW u \in Tabs, Load(u) \/ SignedOut(u)
            PROVE  known'[t] \in {known[t], None}
        BY <4>1, <4>2 DEF Load, SignedOut
      <4>3. ASSUME NEW c \in Calls, Granted(c)
            PROVE  known'[t] \in {known[t], call[c].with}
        <5>1. call[c].tab \in Tabs
          BY <4>3, Shapes DEF Granted
        <5> QED BY <4>1, <4>3, <5>1 DEF Granted
      <4> QED BY <1>2, <4>2, <4>3 DEF Next, Tab, Refetch, Request, BeginLogin, InsertSession, TakeCookie,
         TakeToken, LoginFetch, LoginLost, BeginLogout, Revoke, RevokeFails, ClearCookie, LogoutLost,
         Authenticate, Refused, CallLost, Expire
    <3> QED BY <3>1, <2>1, <2>2 DEF Seen, Used
  <2>8. \A t \in Tabs : \A s \in left'[t] : Used(s)'
    <3> TAKE t \in Tabs
    <3>1. left'[t] \subseteq left[t] \cup {known[t]}
      <4>1. ASSUME NEW u \in Tabs, SignedOut(u)
            PROVE  left'[t] \subseteq left[t] \cup {known[t]}
        BY <4>1 DEF SignedOut, TypeOK
      <4> QED BY <1>2, <4>1 DEF Next, Tab, Refetch, Request, Load, BeginLogin, InsertSession, TakeCookie,
         TakeToken, LoginFetch, LoginLost, BeginLogout, Revoke, RevokeFails, ClearCookie, LogoutLost,
         Authenticate, Granted, Refused, CallLost, Expire
    <3> QED BY <3>1, <2>1 DEF Seen
  <2>9. \A t \in Tabs : Used(sign[t].session)'
    <3> TAKE t \in Tabs
    <3>1. CASE sign'[t].session \in {sign[t].session, None, cookie}
      BY <3>1, <2>1, <2>2 DEF Seen, Used
    <3>2. CASE \E u \in Tabs : InsertSession(u)
      <4>1. PICK u \in Tabs, s \in Sessions :
               /\ state' = [state EXCEPT ![s] = "live"]
               /\ Step(u, "login", [pc |-> "created", session |-> s])
        BY <3>2 DEF InsertSession
      <4>2. Used(s)'
        BY <4>1 DEF Used, TypeOK
      <4>3. sign'[t].session \in {sign[t].session, s}
        BY <4>1 DEF Step, TypeOK
      <4> QED BY <4>2, <4>3, <2>1 DEF Seen, Used
    <3>3. CASE ~\E u \in Tabs : InsertSession(u)
      <4>1. \/ UNCHANGED sign
            \/ \E u \in Tabs, pc \in LoginSteps \cup LogoutSteps :
                 sign' = [sign EXCEPT ![u] = [sign[u] EXCEPT !.pc = pc]] /\ sign[u].pc # "idle"
            \/ \E u \in Tabs :
                 sign' \in {[sign EXCEPT ![u] = Idle],
                            [sign EXCEPT ![u] = [pc |-> "login", session |-> None]],
                            [sign EXCEPT ![u] = [pc |-> "logout", session |-> cookie]]}
        BY <1>2, <3>3 DEF Next, Tab, Refetch, Request, Load, BeginLogin, TakeCookie, TakeToken,
           LoginFetch, LoginLost, BeginLogout, Revoke, RevokeFails, ClearCookie, SignedOut, LogoutLost,
           Authenticate, Granted, Refused, CallLost, Expire, Begin, Step, LoginSteps, LogoutSteps
      <4>2. CASE UNCHANGED sign
        BY <4>2, <3>1
      <4>3. ASSUME NEW u \in Tabs, NEW pc \in LoginSteps \cup LogoutSteps, sign[u].pc # "idle",
                   sign' = [sign EXCEPT ![u] = [sign[u] EXCEPT !.pc = pc]]
            PROVE  sign'[t].session = sign[t].session
        BY <4>3, NextStep DEF TypeOK
      <4>4. ASSUME NEW u \in Tabs,
                 sign' \in {[sign EXCEPT ![u] = Idle],
                            [sign EXCEPT ![u] = [pc |-> "login", session |-> None]],
                            [sign EXCEPT ![u] = [pc |-> "logout", session |-> cookie]]}
            PROVE  sign'[t].session \in {sign[t].session, None, cookie}
        BY <4>4 DEF TypeOK, Idle
      <4> QED BY <4>1, <4>2, <4>3, <4>4, <3>1
    <3> QED BY <3>2, <3>3
  <2> QED BY <2>4, <2>5, <2>6, <2>7, <2>8, <2>9 DEF Seen
<1> QED BY <1>1, <1>2

\* What went wrong is not forgotten.
LEMMA MishapsStay ==
  ASSUME Next
  PROVE  mishaps \subseteq mishaps'
  BY DEF Next, Tab, Refetch, Request, Load, BeginLogin, InsertSession, TakeCookie, TakeToken,
     LoginFetch, LoginLost, BeginLogout, Revoke, RevokeFails, ClearCookie, SignedOut, LogoutLost,
     Authenticate, Granted, Refused, CallLost, Expire, Begin, Note, If

\* Beginning while another tab is busy is an overlap.
LEMMA Beginning ==
  ASSUME NEW t \in Tabs, NEW request, Begin(t, request), "overlap" \notin mishaps'
  PROVE  sign[t].pc = "idle" /\ \A u \in Tabs \ {t} : ~Busy(u)
  BY DEF Begin, Step, Note, If

\* A tab gets busy by beginning and in no other way.
LEMMA BusyMoves ==
  ASSUME TypeOK, Next, NEW t \in Tabs, Busy(t)'
  PROVE  Busy(t) \/ BeginLogin(t) \/ BeginLogout(t)
<1>1. ASSUME NEW u \in Tabs, NEW pc, NEW to, Step(u, pc, to), pc # "idle"
      PROVE  Busy(t)
  BY <1>1 DEF Step, TypeOK, Busy
<1>2. ASSUME NEW u \in Tabs, BeginLogin(u) \/ BeginLogout(u)
      PROVE  Busy(t) \/ BeginLogin(t) \/ BeginLogout(t)
  BY <1>2 DEF BeginLogin, BeginLogout, Begin, Step, TypeOK, Busy
<1>3. CASE UNCHANGED sign
  BY <1>3 DEF Busy
<1>4. ASSUME NEW u \in Tabs, InsertSession(u) \/ TakeCookie(u) \/ TakeToken(u) \/ LoginFetch(u)
                             \/ LoginLost(u)
      PROVE  Busy(t)
  BY <1>1, <1>4 DEF InsertSession, TakeCookie, TakeToken, LoginFetch, LoginLost
<1>5. ASSUME NEW u \in Tabs, Revoke(u) \/ RevokeFails(u) \/ ClearCookie(u) \/ SignedOut(u) \/ LogoutLost(u)
      PROVE  Busy(t)
  BY <1>1, <1>5 DEF Revoke, RevokeFails, ClearCookie, SignedOut, LogoutLost
<1> QED BY <1>2, <1>3, <1>4, <1>5
    DEF Next, Tab, Refetch, Request, Load, Authenticate, Granted, Refused, CallLost, Expire

LEMMA OneBusyStep ==
  ASSUME TypeOK, OneBusy, [Next]_vars
  PROVE  OneBusy'
<1>1. CASE UNCHANGED vars
  BY <1>1 DEF vars, OneBusy, Busy
<1>2. CASE Next
  <2> SUFFICES ASSUME "overlap" \notin mishaps',
                      NEW t \in Tabs, NEW u \in Tabs, Busy(t)', Busy(u)', t # u
               PROVE  FALSE
    BY DEF OneBusy
  <2>1. ~(Busy(t) /\ Busy(u))
    BY <1>2, MishapsStay DEF OneBusy
  <2>2. ASSUME NEW x \in Tabs, NEW y \in Tabs, x # y, Busy(x)', Busy(y)', ~Busy(x)
        PROVE  FALSE
    <3>1. BeginLogin(x) \/ BeginLogout(x)
      BY <1>2, <2>2, BusyMoves
    <3>2. ~Busy(y)
      BY <2>2, <3>1, Beginning DEF BeginLogin, BeginLogout
    <3>3. BeginLogin(y) \/ BeginLogout(y)
      BY <1>2, <2>2, <3>2, BusyMoves
    <3> QED BY <2>2, <3>1, <3>3 DEF BeginLogin, BeginLogout, Begin, Step, TypeOK, Busy
  <2> QED BY <2>1, <2>2
<1> QED BY <1>1, <1>2

LEMMA RefusalsStep ==
  ASSUME TypeOK, Seen, Refusals, [Next]_vars
  PROVE  Refusals'
<1>1. CASE UNCHANGED vars
  BY <1>1 DEF vars, Refusals, Live
<1>2. CASE Next
  <2> SUFFICES ASSUME "db" \notin mishaps', NEW c \in Calls, call'[c].pc = "refused"
               PROVE  ~Live(call[c].with)'
    BY DEF Refusals
  <2>1. "db" \notin mishaps
    BY <1>2, MishapsStay
  <2>2. Used(call[c].with)
    BY DEF Seen
  <2>3. call'[c].with = call[c].with /\ ~Live(call[c].with)
    <3>1. CASE SameCall(c)
      BY <2>1, <3>1 DEF SameCall, Refusals
    <3>2. CASE Authenticate(c) /\ call'[c].with = call[c].with
      <4>1. CASE Live(call[c].with)
        <5>1. call[c] \in [pc : {"sent", "granted", "refused"}, tab : Tabs, with : MaybeSession, me : BOOLEAN]
          BY <3>2 DEF Authenticate, TypeOK, NoCall
        <5>2. call' = [call EXCEPT ![c].pc = "granted"]
          BY <3>2, <4>1 DEF Authenticate, Note
        <5> QED BY <5>1, <5>2 DEF TypeOK
      <4> QED BY <3>2, <4>1
    <3> QED BY <1>2, <3>1, <3>2, CallsMove DEF NoCall, NewCall
  <2> QED BY <1>2, <2>2, <2>3, StatesMove DEF Live
<1> QED BY <1>1, <1>2

\* Only a login makes a session live.
LEMMA LiveBefore ==
  ASSUME TypeOK, Next, NEW s \in Sessions, Live(s)'
  PROVE  Live(s) \/ \E t \in Tabs : InsertSession(t)
<1>1. CASE UNCHANGED state
  BY <1>1 DEF Live
<1>2. ASSUME NEW x, state' = [state EXCEPT ![x] = "ended"]
      PROVE  Live(s)
  BY <1>2 DEF TypeOK, Live
<1>3. ASSUME NEW t \in Tabs, Revoke(t)
      PROVE  UNCHANGED state \/ state' = [state EXCEPT ![sign[t].session] = "ended"]
  BY <1>3 DEF Revoke
<1>4. ASSUME NEW x \in Sessions, Expire(x)
      PROVE  state' = [state EXCEPT ![x] = "ended"]
  BY <1>4 DEF Expire
<1> QED BY <1>1, <1>2, <1>3, <1>4
    DEF Next, Tab, Refetch, Request, Load, BeginLogin, TakeCookie, TakeToken, LoginFetch, LoginLost,
        BeginLogout, RevokeFails, ClearCookie, SignedOut, LogoutLost, Authenticate, Granted, Refused, CallLost

\* A tab that is busy, is so alone.
LEMMA Alone ==
  ASSUME TypeOK, OneBusy, "overlap" \notin mishaps, NEW t \in Tabs, Busy(t)
  PROVE  \A u \in Tabs \ {t} : sign[u].pc = "idle"
  BY DEF OneBusy, Busy

LEMMA OnlyLiveStep ==
  ASSUME IInv, Next
  PROVE  OnlyLive'
<1> SUFFICES ASSUME mishaps' = {}, NEW s \in Sessions, Live(s)' PROVE TheOne(s)'
  BY DEF OnlyLive
<1>1. mishaps = {} /\ TypeOK
  BY MishapsStay DEF IInv
<1>2. Live(s) => TheOne(s)
  BY <1>1 DEF IInv, OnlyLive
<1>3. ASSUME NEW t \in Tabs, Busy(t)
      PROVE  \A u \in Tabs \ {t} : sign[u].pc = "idle"
  BY <1>1, <1>3, Alone DEF IInv
<1>4. ASSUME UNCHANGED <<sign, cookie, token>>, Live(s) PROVE TheOne(s)'
  BY <1>2, <1>4 DEF TheOne
<1>5. ASSUME NEW t \in Tabs, BeginLogin(t) \/ BeginLogout(t), Live(s) PROVE TheOne(s)'
  <2>1. PICK request : /\ Begin(t, request)
                       /\ \/ request.pc = "login"
                          \/ request = [pc |-> "logout", session |-> cookie]
    BY <1>5 DEF BeginLogin, BeginLogout
  <2>2. sign[t].pc = "idle" /\ \A u \in Tabs \ {t} : sign[u].pc = "idle"
    BY <2>1, Beginning DEF Busy
  <2>3. token = s /\ cookie = s
    BY <1>2, <1>5, <2>2 DEF TheOne
  <2>4. request.pc # "login"
    BY <1>5, <2>1, <2>3 DEF Begin, Note, If
  <2>5. sign'[t] = request /\ \A u \in Tabs \ {t} : sign'[u] = sign[u]
    BY <1>1, <2>1 DEF Begin, Step, TypeOK
  <2>6. UNCHANGED <<token, cookie>>
    BY <1>5 DEF BeginLogin, BeginLogout
  <2> QED BY <2>1, <2>2, <2>3, <2>4, <2>5, <2>6 DEF TheOne
<1>6. ASSUME NEW t \in Tabs, InsertSession(t) PROVE TheOne(s)'
  <2>1. PICK x \in Sessions : /\ state' = [state EXCEPT ![x] = "live"]
                              /\ Step(t, "login", [pc |-> "created", session |-> x])
    BY <1>6 DEF InsertSession
  <2>2. sign[t].pc = "login" /\ \A u \in Tabs \ {t} : sign[u].pc = "idle"
    BY <1>3, <2>1 DEF Step, Busy
  <2>3. ~Live(s)
    BY <1>2, <2>2 DEF TheOne
  <2>4. s = x
    BY <1>1, <2>1, <2>3 DEF Live, TypeOK
  <2>5. sign'[t] = [pc |-> "created", session |-> x] /\ \A u \in Tabs \ {t} : sign'[u] = sign[u]
    BY <1>1, <2>1 DEF Step, TypeOK
  <2> QED BY <2>2, <2>4, <2>5 DEF TheOne
<1>7. ASSUME NEW t \in Tabs, TakeCookie(t) \/ TakeToken(t), Live(s) PROVE TheOne(s)'
  <2>1. sign[t].pc \in {"created", "cookie"} /\ \A u \in Tabs \ {t} : sign[u].pc = "idle"
    BY <1>3, <1>7 DEF TakeCookie, TakeToken, Step, Busy
  <2>2. sign[t].session = s
    BY <1>2, <1>7, <2>1 DEF TheOne
  <2>3. sign[t].pc = "cookie" => cookie = s
    BY <1>2, <1>7, <2>1 DEF TheOne
  <2>4. \A u \in Tabs \ {t} : sign'[u] = sign[u]
    BY <1>1, <1>7 DEF TakeCookie, TakeToken, Step, TypeOK
  <2>5. CASE TakeCookie(t)
    <3>1. sign'[t] = [sign[t] EXCEPT !.pc = "cookie"]
      BY <1>1, <2>5 DEF TakeCookie, Step, TypeOK
    <3>2. sign'[t].pc = "cookie" /\ sign'[t].session = s
      BY <1>1, <2>1, <2>2, <3>1, NextStep DEF LoginSteps
    <3>3. cookie' = s
      BY <2>1, <2>2, <2>3, <2>5 DEF TakeCookie, Step
    <3> QED BY <2>1, <2>4, <3>2, <3>3 DEF TheOne
  <2>6. CASE TakeToken(t)
    <3>1. sign'[t] = [sign[t] EXCEPT !.pc = "fetch"]
      BY <1>1, <2>6 DEF TakeToken, Step, TypeOK
    <3>2. sign'[t].pc = "fetch" /\ sign'[t].session = s
      BY <1>1, <2>1, <2>2, <3>1, NextStep DEF LoginSteps
    <3>3. token' = s /\ cookie' = s
      BY <2>1, <2>2, <2>3, <2>6 DEF TakeToken, Step
    <3> QED BY <2>1, <2>4, <3>2, <3>3 DEF TheOne
  <2> QED BY <1>7, <2>5, <2>6
<1>8. ASSUME NEW t \in Tabs, LoginFetch(t), Live(s) PROVE TheOne(s)'
  <2>1. sign[t].pc = "fetch" /\ \A u \in Tabs \ {t} : sign[u].pc = "idle"
    BY <1>3, <1>8 DEF LoginFetch, Step, Busy
  <2>2. token = s /\ cookie = s
    BY <1>2, <1>8, <2>1 DEF TheOne
  <2>3. sign'[t].pc = "idle" /\ \A u \in Tabs \ {t} : sign'[u] = sign[u]
    BY <1>1, <1>8 DEF LoginFetch, Step, TypeOK, Idle
  <2> QED BY <1>8, <2>1, <2>2, <2>3 DEF LoginFetch, TheOne
<1>9. ASSUME NEW t \in Tabs, Revoke(t), Live(s) PROVE FALSE
  <2>1. sign[t].pc = "logout" /\ sign[t].session = s
    BY <1>2, <1>9 DEF Revoke, Step, TheOne
  <2> QED BY <1>1, <1>9, <2>1, NoneAssumption DEF Revoke, Live, TypeOK
<1>10. ASSUME NEW t \in Tabs, ClearCookie(t) \/ SignedOut(t), Live(s) PROVE FALSE
  BY <1>2, <1>10 DEF ClearCookie, SignedOut, Step, TheOne
<1>11. ASSUME NEW c \in Calls, Refused(c), Live(s) PROVE TheOne(s)'
  <2>1. token \in {None, call[c].with}
    BY <1>11 DEF Refused, Note, If
  <2>2. ~Live(call[c].with)
    BY <1>1, <1>11 DEF Refused, IInv, Refusals
  <2>3. token # s
    BY <1>11, <2>1, <2>2 DEF Live
  <2> QED BY <1>2, <1>11, <2>3 DEF Refused, TheOne
<1>12. ~\E t \in Tabs : LoginLost(t) \/ RevokeFails(t) \/ LogoutLost(t)
  BY DEF LoginLost, RevokeFails, LogoutLost, Note
<1>13. ~\E c \in Calls : CallLost(c)
  BY DEF CallLost, Note
<1> QED BY <1>1, <1>4, <1>5, <1>6, <1>7, <1>8, <1>9, <1>10, <1>11, <1>12, <1>13, LiveBefore
    DEF Next, Tab, Refetch, Request, Load, Authenticate, Granted, Expire

\* Who writes to cookie and token.
LEMMA CookieMoves ==
  ASSUME Next
  PROVE  \/ cookie' \in {cookie, None}
         \/ \E t \in Tabs : TakeCookie(t)
  BY DEF Next, Tab, Refetch, Request, Load, BeginLogin, InsertSession, TakeToken, LoginFetch, LoginLost,
     BeginLogout, Revoke, RevokeFails, ClearCookie, SignedOut, LogoutLost,
     Authenticate, Granted, Refused, CallLost, Expire

LEMMA TokenMoves ==
  ASSUME Next
  PROVE  \/ token' \in {token, None}
         \/ \E t \in Tabs : TakeToken(t)
  BY DEF Next, Tab, Refetch, Request, Load, BeginLogin, InsertSession, TakeCookie, LoginFetch, LoginLost,
     BeginLogout, Revoke, RevokeFails, ClearCookie, SignedOut, LogoutLost,
     Authenticate, Granted, Refused, CallLost, Expire

\* How a tab comes to a step at which it holds a new session.
HoldsNew(t) == sign[t].pc \in {"created", "cookie", "fetch"}
LEMMA HoldsMoves ==
  ASSUME TypeOK, Next, NEW t \in Tabs, HoldsNew(t)'
  PROVE  \/ HoldsNew(t) /\ sign'[t].session = sign[t].session
         \/ sign'[t].session \in Sessions /\ state[sign'[t].session] = "absent"
<1>1. CASE UNCHANGED sign
  BY <1>1 DEF HoldsNew
<1>2. ASSUME NEW u \in Tabs, InsertSession(u)
      PROVE  \/ HoldsNew(t) /\ sign'[t].session = sign[t].session
             \/ sign'[t].session \in Sessions /\ state[sign'[t].session] = "absent"
  BY <1>2 DEF InsertSession, Step, TypeOK, HoldsNew
<1>3. ASSUME NEW u \in Tabs, NEW pc, NEW to, Step(u, pc, to),
             to.pc \notin {"created", "cookie", "fetch"}
      PROVE  HoldsNew(t) /\ sign'[t].session = sign[t].session
  BY <1>3 DEF Step, TypeOK, HoldsNew
<1>4. ASSUME NEW u \in Tabs, TakeCookie(u) \/ TakeToken(u)
      PROVE  HoldsNew(t) /\ sign'[t].session = sign[t].session
  <2>1. CASE u # t
    BY <1>4, <2>1 DEF TakeCookie, TakeToken, Step, TypeOK, HoldsNew
  <2>2. CASE u = t
    <3>1. sign[t].pc \in {"created", "cookie"}
      BY <1>4, <2>2 DEF TakeCookie, TakeToken, Step
    <3>2. PICK pc \in {"cookie", "fetch"} : sign'[t] = [sign[t] EXCEPT !.pc = pc]
      BY <1>4, <2>2 DEF TakeCookie, TakeToken, Step, TypeOK
    <3>3. sign'[t].session = sign[t].session
      BY <3>1, <3>2, NextStep DEF LoginSteps
    <3> QED BY <3>1, <3>3 DEF HoldsNew
  <2> QED BY <2>1, <2>2
<1>5. ASSUME NEW u \in Tabs, BeginLogin(u) \/ BeginLogout(u)
      PROVE  HoldsNew(t) /\ sign'[t].session = sign[t].session
  BY <1>3, <1>5 DEF BeginLogin, BeginLogout, Begin
<1>6. ASSUME NEW u \in Tabs, LoginFetch(u) \/ LoginLost(u) \/ SignedOut(u) \/ LogoutLost(u)
      PROVE  HoldsNew(t) /\ sign'[t].session = sign[t].session
  BY <1>3, <1>6 DEF LoginFetch, LoginLost, SignedOut, LogoutLost, Idle
<1>7. ASSUME NEW u \in Tabs, Revoke(u) \/ RevokeFails(u) \/ ClearCookie(u)
      PROVE  HoldsNew(t) /\ sign'[t].session = sign[t].session
  <2>1. sign[u].pc \in {"logout", "revoked"}
    BY <1>7 DEF Revoke, RevokeFails, ClearCookie, Step
  <2>2. PICK pc \in {"revoked", "cleared"} : Step(u, sign[u].pc, [sign[u] EXCEPT !.pc = pc])
    BY <1>7 DEF Revoke, RevokeFails, ClearCookie, Step
  <2>3. [sign[u] EXCEPT !.pc = pc].pc = pc
    BY <2>1, NextStep DEF LogoutSteps
  <2> QED BY <1>3, <2>2, <2>3
<1> QED BY <1>1, <1>2, <1>4, <1>5, <1>6, <1>7
    DEF Next, Tab, Refetch, Request, Load, Authenticate, Granted, Refused, CallLost, Expire

\* What a tab comes to know by an answer.
LEMMA KnownMoves ==
  ASSUME TypeOK, Next, NEW t \in Tabs
  PROVE  \/ known'[t] \in {known[t], None}
         \/ \E c \in Calls : call[c].tab = t /\ call[c].me /\ known'[t] = call[c].with
<1>1. CASE UNCHANGED known
  BY <1>1
<1>2. ASSUME NEW u \in Tabs, Load(u) \/ SignedOut(u)
      PROVE  known'[t] \in {known[t], None}
  BY <1>2 DEF Load, SignedOut, TypeOK
<1>3. ASSUME NEW c \in Calls, Granted(c)
      PROVE  \/ known'[t] = known[t]
             \/ call[c].tab = t /\ call[c].me /\ known'[t] = call[c].with
  BY <1>3 DEF Granted, TypeOK
<1> QED BY <1>1, <1>2, <1>3
    DEF Next, Tab, Refetch, Request, BeginLogin, InsertSession, TakeCookie, TakeToken, LoginFetch,
        LoginLost, BeginLogout, Revoke, RevokeFails, ClearCookie, LogoutLost, Authenticate, Refused,
        CallLost, Expire

\* A tab reaches the last step of a logout by clearing the cookie.
LEMMA ClearedMoves ==
  ASSUME TypeOK, Next, NEW t \in Tabs, sign'[t].pc = "cleared"
  PROVE  sign[t].pc = "cleared" \/ ClearCookie(t)
<1>1. CASE UNCHANGED sign
  BY <1>1
<1>2. ASSUME NEW u \in Tabs, NEW pc, NEW to, Step(u, pc, to), to.pc # "cleared"
      PROVE  sign[t].pc = "cleared"
  BY <1>2 DEF Step, TypeOK
<1>3. ASSUME NEW u \in Tabs, NEW pc \in {"cookie", "fetch", "revoked"}, sign[u].pc # "idle"
      PROVE  [sign[u] EXCEPT !.pc = pc].pc # "cleared"
  BY <1>3, NextStep DEF LoginSteps, LogoutSteps
<1>4. ASSUME NEW u \in Tabs, TakeCookie(u) \/ TakeToken(u) \/ Revoke(u) \/ RevokeFails(u)
      PROVE  sign[t].pc = "cleared"
  <2>1. PICK pc \in {"cookie", "fetch", "revoked"} : Step(u, sign[u].pc, [sign[u] EXCEPT !.pc = pc])
    BY <1>4 DEF TakeCookie, TakeToken, Revoke, RevokeFails, Step
  <2>2. sign[u].pc # "idle"
    BY <1>4 DEF TakeCookie, TakeToken, Revoke, RevokeFails, Step
  <2> QED BY <1>2, <1>3, <2>1, <2>2
<1>5. ASSUME NEW u \in Tabs, BeginLogin(u) \/ BeginLogout(u) \/ InsertSession(u)
      PROVE  sign[t].pc = "cleared"
  BY <1>2, <1>5 DEF BeginLogin, BeginLogout, Begin, InsertSession
<1>6. ASSUME NEW u \in Tabs, LoginFetch(u) \/ LoginLost(u) \/ SignedOut(u) \/ LogoutLost(u)
      PROVE  sign[t].pc = "cleared"
  BY <1>2, <1>6 DEF LoginFetch, LoginLost, SignedOut, LogoutLost, Idle
<1>7. ASSUME NEW u \in Tabs, ClearCookie(u)
      PROVE  sign[t].pc = "cleared" \/ ClearCookie(t)
  BY <1>7 DEF ClearCookie, Step, TypeOK
<1> QED BY <1>1, <1>4, <1>5, <1>6, <1>7
    DEF Next, Tab, Refetch, Request, Load, Authenticate, Granted, Refused, CallLost, Expire

LEMMA LeftAloneStep ==
  ASSUME IInv, Next
  PROVE  LeftAlone'
<1> SUFFICES ASSUME "overlap" \notin mishaps'
    PROVE /\ \A t \in Tabs : sign'[t].pc = "cleared" => cookie' = None
          /\ \A t \in Tabs : \A s \in left'[t] : Gone(t, s)'
  BY DEF LeftAlone
<1>1. "overlap" \notin mishaps /\ TypeOK /\ Seen
  BY MishapsStay DEF IInv
<1>2. /\ \A t \in Tabs : sign[t].pc = "cleared" => cookie = None
      /\ \A t \in Tabs : \A s \in left[t] : Gone(t, s)
  BY <1>1 DEF IInv, LeftAlone
<1>3. ASSUME NEW t \in Tabs, Busy(t)
      PROVE  \A u \in Tabs \ {t} : sign[u].pc = "idle"
  BY <1>1, <1>3, Alone DEF IInv
<1>4. ASSUME NEW t \in Tabs, sign'[t].pc = "cleared" PROVE cookie' = None
  <2>1. CASE ClearCookie(t)
    BY <2>1 DEF ClearCookie
  <2>2. CASE sign[t].pc = "cleared"
    <3>1. ~\E u \in Tabs : TakeCookie(u)
      BY <2>2, <1>3 DEF TakeCookie, Step, Busy
    <3> QED BY <2>2, <3>1, <1>2, CookieMoves
  <2> QED BY <1>1, <1>4, <2>1, <2>2, ClearedMoves
\* A session left before: nothing that still names it is written anywhere.
<1>5. ASSUME NEW t \in Tabs, NEW s \in left[t] PROVE Gone(t, s)'
  <2>1. Gone(t, s) /\ s \in Sessions /\ s # None /\ Used(s)
    BY <1>1, <1>2, NoneAssumption DEF TypeOK, Seen
  <2>2. \A u \in Tabs : HoldsNew(u) => sign[u].session # s
    BY <2>1 DEF Gone, HoldsNew
  <2>3. token' # s
    <3>1. ASSUME NEW u \in Tabs, TakeToken(u) PROVE token' # s
      BY <2>2, <3>1 DEF TakeToken, Step, HoldsNew
    <3> QED BY <2>1, <3>1, TokenMoves DEF Gone
  <2>4. cookie' # s
    <3>1. ASSUME NEW u \in Tabs, TakeCookie(u) PROVE cookie' # s
      BY <2>2, <3>1 DEF TakeCookie, Step, HoldsNew
    <3> QED BY <2>1, <3>1, CookieMoves DEF Gone
  <2>5. known'[t] # s
    BY <1>1, <2>1, KnownMoves DEF Gone
  <2>6. ASSUME NEW u \in Tabs, HoldsNew(u)' PROVE sign'[u].session # s
    BY <1>1, <2>1, <2>2, <2>6, HoldsMoves DEF Used
  <2>7. ASSUME NEW c \in Calls, call'[c].tab = t, call'[c].me PROVE call'[c].with # s
    <3>1. Credential # s
      BY <2>1 DEF Gone, Credential
    <3>2. CASE call'[c] = NoCall
      BY <2>7, <3>2, NoneAssumption DEF NoCall
    <3>3. CASE SameCall(c)
      BY <2>1, <2>7, <3>3 DEF SameCall, Gone
    <3>4. CASE \E u \in Tabs : NewCall(c, u)
      BY <3>1, <3>4 DEF NewCall
    <3>5. CASE call'[c].tab = call[c].tab /\ call'[c].with = call[c].with /\ call'[c].me = call[c].me
      BY <2>1, <2>7, <3>5 DEF Gone
    <3> QED BY <1>1, <3>2, <3>3, <3>4, <3>5, CallsMove
  <2> QED BY <2>3, <2>4, <2>5, <2>6, <2>7 DEF Gone, HoldsNew
\* The session left now.
<1>6. ASSUME NEW t \in Tabs, NEW s \in left'[t], s \notin left[t] PROVE Gone(t, s)'
  <2>1. SignedOut(t) /\ s = known[t] /\ s # None
    <3>1. ASSUME NEW u \in Tabs, SignedOut(u) PROVE u = t /\ s = known[t] /\ s # None
      BY <1>1, <1>6, <3>1 DEF SignedOut, TypeOK
    <3> QED BY <1>6, <3>1 DEF Next, Tab, Refetch, Request, Load, BeginLogin, InsertSession, TakeCookie,
        TakeToken, LoginFetch, LoginLost, BeginLogout, Revoke, RevokeFails, ClearCookie, LogoutLost,
        Authenticate, Granted, Refused, CallLost, Expire
  <2>2. sign[t].pc = "cleared" /\ \A u \in Tabs \ {t} : sign[u].pc = "idle"
    BY <1>3, <2>1 DEF SignedOut, Step, Busy
  <2>3. token' = None /\ cookie' = None /\ known'[t] = None
    BY <1>1, <1>2, <2>1, <2>2 DEF SignedOut, TypeOK
  <2>4. \A u \in Tabs : sign'[u].pc = "idle"
    BY <1>1, <2>1, <2>2 DEF SignedOut, Step, TypeOK, Idle
  <2>5. \A c \in Calls : call'[c].tab = t => ~call'[c].me
    BY <1>1, <2>1, AbandonedCalls DEF SignedOut
  <2> QED BY <2>1, <2>3, <2>4, <2>5 DEF Gone
<1> QED BY <1>4, <1>5, <1>6

LEMMA Inductive == IInv /\ [Next]_vars => IInv'
<1> SUFFICES ASSUME IInv, [Next]_vars PROVE IInv'
  OBVIOUS
<1>1. TypeOK' /\ Seen' /\ OneBusy' /\ Refusals'
  BY SignInTypeStep, SeenStep, OneBusyStep, RefusalsStep DEF IInv
<1>2. OnlyLive' /\ LeftAlone'
  <2>1. CASE UNCHANGED vars
    BY <2>1 DEF vars, IInv, OnlyLive, TheOne, Live, LeftAlone, Gone
  <2>2. CASE Next
    BY <2>2, OnlyLiveStep, LeftAloneStep
  <2> QED BY <2>1, <2>2
<1> QED BY <1>1, <1>2 DEF IInv

LEMMA Invariant == Spec => []IInv
  BY Initially, Inductive, PTL DEF Spec

-----------------------------------------------------------------------------

\* Every variable of the sign-in keeps to its type, for any number of tabs,
\* sessions and requests.
THEOREM SignInTypes == Spec => []TypeOK
<1>1. IInv => TypeOK
  BY DEF IInv
<1> QED BY <1>1, Invariant, PTL

\* Without a mishap the only live session is the one token and cookie hold,
\* whenever no login or logout is under way: a login creates it over none, a
\* logout ends the very session, and a 401 means that it has ended.
THEOREM NoSessionOutlives == Spec => []OneSession
<1>1. IInv => OneSession
  BY DEF IInv, OnlyLive, TheOne, OneSession, Busy
<1> QED BY <1>1, Invariant, PTL

\* The session a tab left is not in cookie, token, an unfinished login or a
\* fetch of auth/me the tab waits for, and so it is never shown there again.
THEOREM NeverBack == Spec => []StaysOut
<1>1. IInv => StaysOut
  BY DEF IInv, LeftAlone, Gone, StaysOut
<1> QED BY <1>1, Invariant, PTL
=============================================================================
