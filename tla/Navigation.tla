----------------------------- MODULE Navigation -----------------------------
(* Where one browser tab is, and who moves it: links, the guards of pages    *)
(* that need a user or must not have one, and the calls that go somewhere    *)
(* once they are answered, wherever the tab is by then. The query auth/me    *)
(* knows about the user before the components do: its observers are told in  *)
(* a later task, and the code after an await may run in between.             *)
EXTENDS Naturals

VARIABLES
    where,     \* the page, as the routes tell
    from,      \* location.state.from of the form, or home
    auth,      \* what the query auth/me says of the user
    shown,     \* what useAuth told the components when they last rendered
    call,      \* per call, its phase and where it goes
    wanted     \* history: the page whose guard sent the visitor to the form,
               \*   until he is there or went elsewhere; or none

navigationVars == <<where, from, auth, shown, call, wanted>>

SignedIn == {"member", "admin"}
Whos == SignedIn \union {"loading", "out"}   \* loading keeps the guards waiting
\* profile is the first of the settings pages, tokens stands for the others.
Wheres == {"home", "login", "register", "new", "profile", "tokens", "admin", "repository"}
Guarded == {"new", "profile", "tokens"}      \* pages whose guard sends to the form

\* A bug: the one guard of all settings pages does not say which was wanted.
ForgetsSettings(page) == IF page = "new" THEN "new" ELSE "home"

\* The page the form leads back to: a constant of each guard, and the settings
\* pages have one guard, which names the profile whichever of them was wanted.
Remembered(page) == IF page = "new" THEN "new" ELSE "profile"
Calls == {"login", "register", "logout", "create"}
Call(phase, to) == [phase |-> phase, to |-> to]
NoCall == Call("none", "home")

NavigationTypeOK ==
    /\ where \in Wheres /\ from \in {"new", "profile", "home"}
    /\ auth \in Whos /\ shown \in Whos
    /\ call \in [Calls -> [phase : {"none", "sent", "fetch", "done"}, to : Wheres]]
    /\ wanted \in Guarded \union {"none"}

\* The tab is opened anywhere, with or without a token.
NavigationInit ==
    /\ where \in Wheres /\ from = "home"
    /\ auth \in {"loading", "out"} /\ shown = auth
    /\ call = [c \in Calls |-> NoCall]
    /\ wanted = "none"

\* ---- the guards ----
\* A bug: the admin pages send a member to the form, which sends him back.
SendsMemberToForm ==
    CASE where = "admin" /\ shown \in {"out", "member"}       -> {"login"}
      [] where \in Guarded /\ shown = "out"                    -> {"login"}
      [] where = "login" /\ shown \in SignedIn                -> {from}
      [] OTHER                                                -> {}

\* A bug: all settings are for administrators only.
SendsAllButAdmins ==
    CASE where \in Guarded /\ shown \in {"out", "member"}      -> {"login"}
      [] where = "admin" /\ shown \in {"out", "member"}       -> {"home"}
      [] where = "login" /\ shown \in SignedIn                -> {from}
      [] OTHER                                                -> {}

\* Where the page sends whom it is shown to.
Sends ==
    CASE where \in Guarded /\ shown = "out"                    -> {"login"}
      [] where = "admin" /\ shown \in {"out", "member"}       -> {"home"}
      [] where = "login" /\ shown \in SignedIn                -> {from}
      [] where = "register" /\ shown \in SignedIn             -> {"home"}
      [] OTHER                                                -> {}

\* <Navigate replace>, with a page to remember if it sends to the form. A call
\* under way that goes elsewhere will have its way.
Redirect ==
    \E to \in Sends :
        /\ where' = to
        /\ from' = IF to = "login" THEN Remembered(where) ELSE "home"
        /\ wanted' = IF to # "login" THEN wanted
                     ELSE IF \E c \in Calls : call[c] # NoCall /\ call[c].to # Remembered(where)
                       THEN "none"
                     ELSE where
        /\ UNCHANGED <<auth, shown, call>>

\* ---- links, typed addresses, and the history of the tab ----
Visit(to) ==
    /\ Sends = {}
    /\ where' = to
    /\ from' \in IF to = "login" THEN {"new", "profile", "home"} ELSE {"home"}
    /\ wanted' = "none"
    /\ UNCHANGED <<auth, shown, call>>

\* ---- what is known about the user ----
Render ==
    /\ shown' = auth
    /\ UNCHANGED <<where, from, auth, call, wanted>>

\* auth/me is answered, or fails and signs the tab out; another tab may sign in.
MeAnswers ==
    /\ auth' \in IF auth = "out" THEN {"loading"} ELSE SignedIn \union {"out"}
    /\ UNCHANGED <<where, from, shown, call, wanted>>

\* ---- calls ----
Submits(c, to) ==
    /\ call[c] = NoCall
    /\ call' = [call EXCEPT ![c] = Call("sent", to)]
    /\ UNCHANGED <<where, from, auth, shown, wanted>>

SubmitSignIn ==
    /\ shown \notin SignedIn
    /\ \/ where = "login" /\ Submits("login", from)
       \/ where = "register" /\ Submits("register", "home")
PressSignOut == shown \in SignedIn /\ Submits("logout", "login")
SubmitRepository == where = "new" /\ shown # "out" /\ Submits("create", "repository")

\* Signing in refetches auth/me; that fetch may fail, and nobody is told.
Accepted(c) ==
    /\ c \in {"login", "register"} /\ call[c].phase = "sent"
    /\ call' = [call EXCEPT ![c].phase = "fetch"]
    /\ auth' \in {auth, IF auth = "out" THEN "loading" ELSE auth}
    /\ UNCHANGED <<where, from, shown, wanted>>
Fetched(c) ==
    /\ call[c].phase = "fetch"
    /\ call' = [call EXCEPT ![c].phase = "done"]
    /\ auth' \in SignedIn \union {"out"}
    /\ UNCHANGED <<where, from, shown, wanted>>

SignedOut ==
    /\ call["logout"].phase = "sent"
    /\ call' = [call EXCEPT !["logout"].phase = "done"]
    /\ auth' = "out"
    /\ UNCHANGED <<where, from, shown, wanted>>

Created ==
    /\ call["create"].phase = "sent"
    /\ call' = [call EXCEPT !["create"].phase = "done"]
    /\ UNCHANGED <<where, from, auth, shown, wanted>>

\* The code after the await, or onSuccess: navigate, wherever the tab is.
Continue(c) ==
    /\ call[c].phase = "done"
    /\ where' = call[c].to /\ from' = "home"
    /\ call' = [call EXCEPT ![c] = NoCall]
    /\ wanted' = IF c \in {"logout", "create"} THEN "none" ELSE wanted
    /\ UNCHANGED <<auth, shown>>

CallFails(c) ==   \* refused, failed or unanswered: the tab stays where it is
    /\ call[c].phase = "sent"
    /\ call' = [call EXCEPT ![c] = NoCall]
    /\ UNCHANGED <<where, from, auth, shown, wanted>>

NavigationNext ==
    \/ Redirect \/ Render \/ MeAnswers
    \/ \E to \in Wheres : Visit(to)
    \/ SubmitSignIn \/ PressSignOut \/ SubmitRepository
    \/ SignedOut \/ Created
    \/ \E c \in Calls : Accepted(c) \/ Fetched(c) \/ Continue(c) \/ CallFails(c)

NavigationSpec == NavigationInit /\ [][NavigationNext]_navigationVars

-----------------------------------------------------------------------------
(* A redirect leads to a page that stays: no two guards send a visitor back  *)
(* and forth, whoever he is and whatever the form remembers. (The guards of  *)
(* SettingsLayout, AdminLayout, NewRepoPage, LoginPage and RegisterPage.)    *)
RedirectsEnd == [][Redirect => Sends' = {}]_navigationVars

(* Whom a guard sent to the sign-in form, and who signs in there, ends on    *)
(* the new repository if he wanted that, and on the profile settings if he   *)
(* wanted any page of the settings, the others too; unless he went elsewhere *)
(* himself or had a call under way that does: whether navigate(from) runs    *)
(* before the components know the user, so that the guard sends him back     *)
(* once more, or after it. (LoginPage: navigate(from) after login(), and     *)
(* <Navigate to={from}>; the guards of NewRepoPage and SettingsLayout.)      *)
SignInReturns ==
    /\ \A c \in Calls : call[c] = NoCall
    /\ auth \in SignedIn /\ shown = auth /\ Sends = {}
    /\ wanted # "none"
    => where = IF wanted \in {"profile", "tokens"} THEN "profile" ELSE wanted
=============================================================================
