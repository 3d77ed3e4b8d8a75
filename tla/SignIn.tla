------------------------------- MODULE SignIn ------------------------------
(***************************************************************************)
(* Signing in and out in one browser.  A session is known in three places: *)
(* the table sessions, the session cookie and the token in local storage.  *)
(* Login and logout change them one after the other.  The tabs of the      *)
(* browser share cookie and token; each asks /auth/me for its user, and    *)
(* every answer 401, however late, removes the token.                      *)
(*                                                                         *)
(* Users are left out: what a tab shows is the session it was told with.   *)
(* A login that is refused changes nothing.  Registering is followed by a  *)
(* login.                                                                  *)
(***************************************************************************)
CONSTANTS
  Sessions,  \* the session tokens the server hands out (bounds the logins)
  Tabs,
  Calls,     \* bound: API requests, other than login and logout, in flight
  Faults,    \* "net": a message is lost; "db": a statement fails
  None

ASSUME NoneAssumption   == None \notin Sessions \cup Tabs
ASSUME FaultsAssumption == Faults \subseteq {"net", "db"}

VARIABLES
  state,    \* state[s]: "absent", "live" or "ended" (revoked or expired)
  cookie,   \* softgit_session
  token,    \* softgit_token in local storage
  sign,     \* sign[t]: the login or logout under way in tab t
  known,    \* known[t]: data of the query auth/me
  failed,   \* failed[t]: isError of this query
  call,     \* call[c]: a request that carries a session
  left,     \* history variable: left[t]: the sessions tab t signed out of
  mishaps   \* history variable: what went wrong so far

vars == <<state, cookie, token, sign, known, failed, call, left, mishaps>>

MaybeSession == Sessions \cup {None}

Idle == [pc |-> "idle", session |-> None]
LoginSteps == {"login", "created", "cookie", "fetch"}
LogoutSteps == {"logout", "revoked", "cleared"}

NoCall == [pc |-> "idle", tab |-> None, with |-> None, me |-> FALSE]

\* "again": a login while the browser holds a live session; "overlap": two logins
\* or logouts at once; "late": a 401 for another session than the token's;
\* "lost", "db": a fault.
Mishaps == {"again", "overlap", "late", "lost", "db"}

TypeOK ==
  /\ state \in [Sessions -> {"absent", "live", "ended"}]
  /\ cookie \in MaybeSession /\ token \in MaybeSession
  /\ sign \in [Tabs -> {Idle} \cup
                       [pc : LoginSteps \cup LogoutSteps, session : MaybeSession]]
  /\ known \in [Tabs -> MaybeSession]
  /\ failed \in [Tabs -> BOOLEAN]
  /\ call \in [Calls -> {NoCall} \cup
                        [pc : {"sent", "granted", "refused"}, tab : Tabs,
                         with : MaybeSession, me : BOOLEAN]]
  /\ left \in [Tabs -> SUBSET Sessions]
  /\ mishaps \subseteq Mishaps

Init ==
  /\ state = [s \in Sessions |-> "absent"]
  /\ cookie = None /\ token = None
  /\ sign = [t \in Tabs |-> Idle]
  /\ known = [t \in Tabs |-> None]
  /\ failed = [t \in Tabs |-> FALSE]
  /\ call = [c \in Calls |-> NoCall]
  /\ left = [t \in Tabs |-> {}]
  /\ mishaps = {}

-----------------------------------------------------------------------------

\* The user a tab shows; without one it takes itself to be signed out.
Shown(t) == IF failed[t] THEN None ELSE known[t]

Live(s) == s # None /\ state[s] = "live"

Busy(t) == sign[t].pc # "idle"

Step(t, from, to) == sign[t].pc = from /\ sign' = [sign EXCEPT ![t] = to]

Note(S) == mishaps' = mishaps \cup S

If(condition, mishap) == IF condition THEN {mishap} ELSE {}

Begin(t, request) ==
  /\ Step(t, "idle", request)
  /\ Note(If(\E u \in Tabs \ {t} : Busy(u), "overlap") \cup
          If(request.pc = "login" /\ (Live(cookie) \/ Live(token)), "again"))

-----------------------------------------------------------------------------
(* Requests that carry a session                                           *)

\* The header has precedence over the cookie.
Credential == IF token # None THEN token ELSE cookie

\* The tab no longer waits for its own requests to /auth/me.
Abandoned(t) == [c \in Calls |-> IF call[c].tab = t THEN [call[c] EXCEPT !.me = FALSE] ELSE call[c]]

Waiting(t) == \E c \in Calls : call[c].tab = t /\ call[c].me

Send(c, t, me, calls) ==
  /\ call[c] = NoCall
  /\ call' = [calls EXCEPT ![c] = [pc |-> "sent", tab |-> t, with |-> Credential, me |-> me]]

\* A query without data joins the fetch under way, one with data abandons it.
FetchMe(t) ==
  /\ \/ Waiting(t) /\ known[t] = None /\ UNCHANGED call
     \/ ~(Waiting(t) /\ known[t] = None) /\ \E c \in Calls : Send(c, t, TRUE, Abandoned(t))
  /\ failed' = [failed EXCEPT ![t] = failed[t] /\ known[t] # None]

\* The query is enabled by a token, and refreshed by the settings page.
Refetch(t) ==
  /\ ~Waiting(t) /\ (token # None \/ Shown(t) # None)
  /\ FetchMe(t)
  /\ UNCHANGED <<state, cookie, token, sign, known, left, mishaps>>

\* Any other request that needs a session.
Request(t) ==
  /\ Shown(t) # None
  /\ \E c \in Calls : Send(c, t, FALSE, call)
  /\ UNCHANGED <<state, cookie, token, sign, known, failed, left, mishaps>>

Authenticate(c) ==
  /\ call[c].pc = "sent"
  /\ \/ /\ Live(call[c].with)
        /\ call' = [call EXCEPT ![c].pc = "granted"]
        /\ UNCHANGED mishaps
     \/ /\ ~Live(call[c].with)
        /\ call' = [call EXCEPT ![c].pc = "refused"]
        /\ UNCHANGED mishaps
     \* The error of the SELECT is discarded: 401.
     \/ /\ "db" \in Faults
        /\ call' = [call EXCEPT ![c].pc = "refused"]
        /\ Note({"db"})
  /\ UNCHANGED <<state, cookie, token, sign, known, failed, left>>

Granted(c) ==
  LET t == call[c].tab
      me == call[c].me
  IN  /\ call[c].pc = "granted"
      /\ call' = [call EXCEPT ![c] = NoCall]
      /\ known' = IF me THEN [known EXCEPT ![t] = call[c].with] ELSE known
      /\ failed' = IF me THEN [failed EXCEPT ![t] = FALSE] ELSE failed
      /\ UNCHANGED <<state, cookie, token, sign, left, mishaps>>

\* The interceptor removes whatever token there is by now.
Refused(c) ==
  LET t == call[c].tab
  IN  /\ call[c].pc = "refused"
      /\ call' = [call EXCEPT ![c] = NoCall]
      /\ token' = None
      /\ failed' = IF call[c].me THEN [failed EXCEPT ![t] = TRUE] ELSE failed
      /\ Note(If(token \notin {None, call[c].with}, "late"))
      /\ UNCHANGED <<state, cookie, sign, known, left>>

\* When a fetch of /auth/me fails for the first time the token is removed, too.
CallLost(c) ==
  LET t == call[c].tab
      fails == call[c].me /\ ~failed[t]
  IN  /\ "net" \in Faults
      /\ call[c].pc # "idle"
      /\ call' = [call EXCEPT ![c] = NoCall]
      /\ token' = IF fails THEN None ELSE token
      /\ failed' = [failed EXCEPT ![t] = failed[t] \/ fails]
      /\ Note({"lost"})
      /\ UNCHANGED <<state, cookie, sign, known, left>>

\* The page is loaded again; what it waited for is gone.
Load(t) ==
  /\ ~Busy(t)
  /\ known' = [known EXCEPT ![t] = None]
  /\ failed' = [failed EXCEPT ![t] = FALSE]
  /\ call' = [c \in Calls |-> IF call[c].tab = t THEN NoCall ELSE call[c]]
  /\ UNCHANGED <<state, cookie, token, sign, left, mishaps>>

-----------------------------------------------------------------------------
(* handleLogin, and login in the page                                      *)

BeginLogin(t) ==
  /\ Shown(t) = None
  /\ Begin(t, [pc |-> "login", session |-> None])
  /\ UNCHANGED <<state, cookie, token, known, failed, call, left>>

InsertSession(t) ==
  /\ \E s \in Sessions :
       /\ state[s] = "absent"
       /\ state' = [state EXCEPT ![s] = "live"]
       /\ Step(t, "login", [pc |-> "created", session |-> s])
  /\ UNCHANGED <<cookie, token, known, failed, call, left, mishaps>>

\* The browser takes the cookie from the header of the answer, ...
TakeCookie(t) ==
  /\ Step(t, "created", [sign[t] EXCEPT !.pc = "cookie"])
  /\ cookie' = sign[t].session
  /\ UNCHANGED <<state, token, known, failed, call, left, mishaps>>

\* ... and the page the token from its body.
TakeToken(t) ==
  /\ Step(t, "cookie", [sign[t] EXCEPT !.pc = "fetch"])
  /\ token' = sign[t].session
  /\ UNCHANGED <<state, cookie, known, failed, call, left, mishaps>>

\* Mutation: the form keeps the session of the answer.
LoginFetchKeeps(t) ==
  /\ Step(t, "fetch", [sign[t] EXCEPT !.pc = "idle"])
  /\ FetchMe(t)
  /\ UNCHANGED <<state, cookie, token, known, left, mishaps>>

LoginFetch(t) ==
  /\ Step(t, "fetch", Idle)
  /\ FetchMe(t)
  /\ UNCHANGED <<state, cookie, token, known, left, mishaps>>

\* The request, its answer or only the body of the answer.
LoginLost(t) ==
  /\ "net" \in Faults
  /\ \E pc \in {"login", "created", "cookie"} : Step(t, pc, Idle)
  /\ Note({"lost"})
  /\ UNCHANGED <<state, cookie, token, known, failed, call, left>>

-----------------------------------------------------------------------------
(* handleLogout, and logout in the page                                    *)

BeginLogout(t) ==
  /\ Shown(t) # None
  /\ Begin(t, [pc |-> "logout", session |-> cookie])
  /\ UNCHANGED <<state, cookie, token, known, failed, call, left>>

\* Mutation: the handler clears the cookie and leaves the session alone.
RevokeNothing(t) ==
  /\ Step(t, "logout", [sign[t] EXCEPT !.pc = "revoked"])
  /\ UNCHANGED <<state, cookie, token, known, failed, call, left, mishaps>>

\* The session of the cookie is revoked, whatever the header says.
Revoke(t) ==
  LET s == sign[t].session
  IN  /\ Step(t, "logout", [sign[t] EXCEPT !.pc = "revoked"])
      /\ state' = IF s = None THEN state ELSE [state EXCEPT ![s] = "ended"]
      /\ UNCHANGED <<cookie, token, known, failed, call, left, mishaps>>

\* The error of the UPDATE is discarded.
RevokeFails(t) ==
  /\ "db" \in Faults
  /\ Step(t, "logout", [sign[t] EXCEPT !.pc = "revoked"])
  /\ Note({"db"})
  /\ UNCHANGED <<state, cookie, token, known, failed, call, left>>

ClearCookie(t) ==
  /\ Step(t, "revoked", [sign[t] EXCEPT !.pc = "cleared"])
  /\ cookie' = None
  /\ UNCHANGED <<state, token, known, failed, call, left, mishaps>>

\* Mutation: the data is reset, and the query not removed.
SignedOutOnly(t) ==
  /\ Step(t, "cleared", Idle)
  /\ token' = None
  /\ known' = [known EXCEPT ![t] = None]
  /\ failed' = [failed EXCEPT ![t] = FALSE]
  /\ left' = [left EXCEPT ![t] = @ \cup ({known[t]} \ {None})]
  /\ UNCHANGED <<state, cookie, call, mishaps>>

SignedOut(t) ==
  /\ Step(t, "cleared", Idle)
  /\ token' = None
  /\ known' = [known EXCEPT ![t] = None]
  /\ failed' = [failed EXCEPT ![t] = FALSE]
  /\ call' = Abandoned(t)
  /\ left' = [left EXCEPT ![t] = @ \cup ({known[t]} \ {None})]
  /\ UNCHANGED <<state, cookie, mishaps>>

\* The token is removed all the same, and the tab goes on showing its user.
LogoutLost(t) ==
  /\ "net" \in Faults
  /\ Step(t, "logout", Idle) \/ Step(t, "revoked", Idle)
  /\ token' = None
  /\ Note({"lost"})
  /\ UNCHANGED <<state, cookie, known, failed, call, left>>

-----------------------------------------------------------------------------

\* The session expires, or its user is deactivated.
Expire(s) ==
  /\ state[s] = "live"
  /\ state' = [state EXCEPT ![s] = "ended"]
  /\ UNCHANGED <<cookie, token, sign, known, failed, call, left, mishaps>>

Tab(t) ==
  \/ Refetch(t) \/ Request(t) \/ Load(t)
  \/ BeginLogin(t) \/ InsertSession(t) \/ TakeCookie(t) \/ TakeToken(t) \/ LoginFetch(t)
  \/ LoginLost(t)
  \/ BeginLogout(t) \/ Revoke(t) \/ RevokeFails(t) \/ ClearCookie(t) \/ SignedOut(t)
  \/ LogoutLost(t)

Next ==
  \/ \E t \in Tabs : Tab(t)
  \/ \E c \in Calls : Authenticate(c) \/ Granted(c) \/ Refused(c) \/ CallLost(c)
  \/ \E s \in Sessions : Expire(s)

Spec == Init /\ [][Next]_vars

-----------------------------------------------------------------------------
(* Properties                                                              *)

(***************************************************************************)
(* When no login or logout is under way, the only live session is the one  *)
(* that both token and cookie hold, so that a logout ends what the browser *)
(* uses and no session outlives it.  A lost message, a discarded error, a  *)
(* login over a live session, two at once and a late 401 break this;       *)
(* expiry, reloads and requests of any tab in any order do not.            *)
(***************************************************************************)
OneSession ==
  mishaps = {} /\ (\A t \in Tabs : ~Busy(t)) =>
    \A s \in Sessions : Live(s) => token = s /\ cookie = s

(***************************************************************************)
(* A tab that has signed out never shows again the session it left, unless *)
(* two logins or logouts have overlapped, whatever messages were lost and  *)
(* statements failed: answers of /auth/me still on their way are abandoned *)
(* and neither cookie nor token brings the session back, whichever of the  *)
(* two the tab was told by, even if the UPDATE of handleLogout failed and  *)
(* the session is still good.                                              *)
(***************************************************************************)
StaysOut ==
  "overlap" \notin mishaps => \A t \in Tabs : known[t] \notin left[t]
=============================================================================
