------------------------------ MODULE Accounts -----------------------------
(***************************************************************************)
(* The rows of table users as far as they decide who may administer the    *)
(* instance: registration, which makes the first user an administrator,    *)
(* and the change of a user's flags by an administrator.                   *)
(*                                                                         *)
(* Registration counts the users and inserts a row in two statements.  A   *)
(* change checks the administrator once, when the request comes in, and    *)
(* then writes the flags one UPDATE after the other.  No transaction spans *)
(* the statements; other requests come in between.                         *)
(*                                                                         *)
(* Sessions are left out: every active user may send requests.  A request  *)
(* that is refused before its first write (bad body, password too short,   *)
(* not an administrator) is a stuttering step, and so is the UPDATE of the *)
(* flag is_verified, which no handler reads.                               *)
(***************************************************************************)
EXTENDS FiniteSets, Integers

CONSTANTS
  Users,     \* usernames
  Handlers,  \* goroutines serving requests
  Faults,    \* "db": a statement fails, or the client goes away
  None

ASSUME NoneAssumption ==
  None \notin Users \cup BOOLEAN /\ None \notin [admin : BOOLEAN, active : BOOLEAN]
ASSUME HandlersAssumption == IsFiniteSet(Handlers)
ASSUME FaultsAssumption == Faults \subseteq {"db"}

VARIABLES
  account,   \* account[u]: the flags of user u, None if there is no such row
  req,       \* req[h]: the request handler h is serving
  founders,  \* history variable: the users who registered as administrators
  mishaps    \* history variable: what went wrong so far

vars == <<account, req, founders, mishaps>>

Flags == [admin : BOOLEAN, active : BOOLEAN]

IdleReq == [pc |-> "idle", by |-> None, user |-> None, active |-> None, admin |-> None]

\* insert: the users are counted; change: the flags that are not None are to be written.
Registrations == [pc : {"insert"}, by : {None}, user : Users, active : {TRUE}, admin : BOOLEAN]
Changes ==
  {c \in [pc : {"change"}, by : Users, user : Users, active : BOOLEAN \cup {None},
          admin : BOOLEAN \cup {None}] : c.active # None \/ c.admin # None}

\* "count": a COUNT failed; "undercut": a user lost a flag while a change of
\* his own was under way.
Mishaps == {"count", "undercut"}

TypeOK ==
  /\ account \in [Users -> Flags \cup {None}]
  /\ req \in [Handlers -> Registrations \cup Changes \cup {IdleReq}]
  /\ founders \subseteq Users
  /\ mishaps \subseteq Mishaps

Init ==
  /\ account = [u \in Users |-> None]
  /\ req = [h \in Handlers |-> IdleReq]
  /\ founders = {}
  /\ mishaps = {}

Registered == {u \in Users : account[u] # None}

\* authMiddleware lets active users in, adminMiddleware administrators.
Administrators == {u \in Registered : account[u].active /\ account[u].admin}

Begin(h, request) ==
  /\ req[h].pc = "idle"
  /\ req' = [req EXCEPT ![h] = request]

Finish(h, phase) ==
  /\ req[h].pc = phase
  /\ req' = [req EXCEPT ![h] = IdleReq]

-----------------------------------------------------------------------------
(* handleRegister                                                          *)

\* Mutation: administrators are counted instead of users.
CountsNobodyActive == Administrators = {}

CountsNobody == Registered = {}

CountUsers(h, u) ==
  /\ Begin(h, [pc |-> "insert", by |-> None, user |-> u, active |-> TRUE,
               admin |-> CountsNobody])
  /\ UNCHANGED <<account, founders, mishaps>>

\* The error of the SELECT is discarded, and the count stays 0.
CountUsersFails(h, u) ==
  /\ "db" \in Faults
  /\ Begin(h, [pc |-> "insert", by |-> None, user |-> u, active |-> TRUE, admin |-> TRUE])
  /\ mishaps' = mishaps \cup {"count"}
  /\ UNCHANGED <<account, founders>>

InsertUser(h) ==
  LET u == req[h].user
  IN  /\ Finish(h, "insert")
      /\ account[u] = None
      /\ account' = [account EXCEPT ![u] = [admin |-> req[h].admin, active |-> TRUE]]
      /\ founders' = IF req[h].admin THEN founders \cup {u} ELSE founders
      /\ UNCHANGED mishaps

\* 409 when the username is taken, 500 when the statement fails.
InsertUserFails(h) ==
  /\ Finish(h, "insert")
  /\ account[req[h].user] # None \/ "db" \in Faults
  /\ UNCHANGED <<account, founders, mishaps>>

-----------------------------------------------------------------------------
(* handleAdminUpdateUser, behind authMiddleware and adminMiddleware        *)

BeginChange(h, a, u, active, admin) ==
  /\ a \in Administrators /\ u \in Registered
  /\ active # None \/ admin # None
  /\ ~(u = a /\ admin = FALSE)
  /\ Begin(h, [pc |-> "change", by |-> a, user |-> u, active |-> active, admin |-> admin])
  /\ UNCHANGED <<account, founders, mishaps>>

\* A change of u's own is under way.
Acting(u) == \E h \in Handlers : req[h].pc = "change" /\ req[h].by = u

Undercut(u, value) == mishaps \cup (IF value = FALSE /\ Acting(u) THEN {"undercut"} ELSE {})

\* Mutation: the UPDATE of is_admin runs even if the body does not name the flag.
WriteActiveAlways(h) ==
  LET u == req[h].user
  IN  /\ req[h].pc = "change" /\ req[h].active # None
      /\ account' = [account EXCEPT ![u].active = req[h].active]
      /\ req' = [req EXCEPT ![h].active = None]
      /\ mishaps' = Undercut(u, req[h].active)
      /\ UNCHANGED founders

\* Without an admin flag to write, this UPDATE is the last one.
WriteActive(h) ==
  LET u == req[h].user
  IN  /\ req[h].pc = "change" /\ req[h].active # None
      /\ account' = [account EXCEPT ![u].active = req[h].active]
      /\ req' = [req EXCEPT ![h] = IF @.admin = None THEN IdleReq ELSE [@ EXCEPT !.active = None]]
      /\ mishaps' = Undercut(u, req[h].active)
      /\ UNCHANGED founders

\* Mutation: the flag is toggled, as the page that sends it does.
WriteAdminToggles(h) ==
  LET u == req[h].user
  IN  /\ Finish(h, "change")
      /\ req[h].active = None
      /\ account' = [account EXCEPT ![u].admin = ~@]
      /\ mishaps' = Undercut(u, req[h].admin)
      /\ UNCHANGED founders

WriteAdmin(h) ==
  LET u == req[h].user
  IN  /\ Finish(h, "change")
      /\ req[h].active = None
      /\ account' = [account EXCEPT ![u].admin = req[h].admin]
      /\ mishaps' = Undercut(u, req[h].admin)
      /\ UNCHANGED founders

\* 500: what is written stays written, the rest is dropped.
WriteFails(h) ==
  /\ "db" \in Faults
  /\ Finish(h, "change")
  /\ UNCHANGED <<account, founders, mishaps>>

Next ==
  \E h \in Handlers :
    \/ \E u \in Users : CountUsers(h, u) \/ CountUsersFails(h, u)
    \/ InsertUser(h) \/ InsertUserFails(h)
    \/ \E a, u \in Users, active, admin \in BOOLEAN \cup {None} :
         BeginChange(h, a, u, active, admin)
    \/ WriteActive(h) \/ WriteAdmin(h) \/ WriteFails(h)

Spec == Init /\ [][Next]_vars

-----------------------------------------------------------------------------
(* Properties                                                              *)

(***************************************************************************)
(* handleAdminUpdateUser refuses to take one's own admin flag and nothing  *)
(* else; this is enough for the instance to keep an administrator who can  *)
(* sign in, whatever fails, as long as nobody loses a flag while a change  *)
(* of his own is under way.  It takes the first registration, too: however *)
(* registrations race, the user who is inserted first is an administrator. *)
(***************************************************************************)
SomeoneAdministers ==
  "undercut" \notin mishaps /\ Registered # {} => Administrators # {}

(***************************************************************************)
(* The registrations that handleRegister makes administrators all counted  *)
(* before the first user was there, so there are at most as many as there  *)
(* were requests in flight then, as long as no COUNT fails.                *)
(***************************************************************************)
FewFounders ==
  "count" \notin mishaps => Cardinality(founders) <= Cardinality(Handlers)

(***************************************************************************)
(* README.md:60, "First registered user becomes administrator": no other   *)
(* registration makes an administrator.                                    *)
(***************************************************************************)
OnlyFirstRegisteredAdministers == Cardinality(founders) <= 1
=============================================================================
