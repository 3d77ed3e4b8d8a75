--------------------------- MODULE Accounts_proofs -------------------------
(***************************************************************************)
(* Who administers the instance, for any number of users and concurrent    *)
(* requests.                                                               *)
(***************************************************************************)
EXTENDS Accounts, FiniteSetTheorems, TLAPS

TypeInv ==
  /\ TypeOK
  /\ \A h \in Handlers : req[h].pc = "change" => req[h].user \in Registered

LEMMA TypeInit == Init => TypeInv
  BY DEF Init, TypeInv, TypeOK, IdleReq

\* One request moves on to r.
LEMMA OneMoves ==
  ASSUME TypeInv, NEW h \in Handlers, NEW r, req' = [req EXCEPT ![h] = r],
         r \in Registrations \cup Changes \cup {IdleReq},
         r.pc = "change" => r.user \in Registered',
         account' \in [Users -> Flags \cup {None}], Registered \subseteq Registered',
         founders' \subseteq Users, mishaps' \subseteq Mishaps
  PROVE  TypeInv'
<1>1. req' \in [Handlers -> Registrations \cup Changes \cup {IdleReq}]
  BY DEF TypeInv, TypeOK
<1>2. ASSUME NEW g \in Handlers, req'[g].pc = "change" PROVE req'[g].user \in Registered'
  BY <1>2 DEF TypeInv, TypeOK
<1> QED BY <1>1, <1>2 DEF TypeInv, TypeOK

\* What is known of a request by its phase.
LEMMA Shape ==
  ASSUME TypeInv, NEW h \in Handlers
  PROVE  /\ req[h].pc = "insert" =>
              req[h].user \in Users /\ req[h].admin \in BOOLEAN
         /\ req[h].pc = "change" =>
              /\ req[h].by \in Users /\ req[h].user \in Registered
              /\ req[h].active \in BOOLEAN \cup {None} /\ req[h].admin \in BOOLEAN \cup {None}
              /\ req[h].active # None \/ req[h].admin # None
              /\ req[h] \in Changes
<1>1. req[h] \in Registrations \cup Changes \cup {IdleReq}
  BY DEF TypeInv, TypeOK
<1>2. req[h].pc = "insert" => req[h] \in Registrations
  BY <1>1 DEF Changes, IdleReq
<1>3. req[h].pc = "change" => req[h] \in Changes
  <2>1. \A r \in Registrations : r.pc = "insert"
    BY DEF Registrations
  <2>2. IdleReq.pc = "idle"
    BY DEF IdleReq
  <2> QED BY <1>1, <2>1, <2>2
<1>4. req[h].pc = "change" => req[h].user \in Registered
  BY DEF TypeInv
<1> QED BY <1>2, <1>3, <1>4 DEF Registrations, Changes

LEMMA FlagWritten ==
  ASSUME TypeInv, NEW u \in Registered, NEW b \in BOOLEAN,
         \/ account' = [account EXCEPT ![u].active = b]
         \/ account' = [account EXCEPT ![u].admin = b]
  PROVE  /\ account' \in [Users -> Flags \cup {None}]
         /\ Registered' = Registered
         /\ b = TRUE => Administrators \subseteq Administrators'
         /\ Administrators \ {u} \subseteq Administrators'
<1>1. account[u] \in Flags /\ u \in Users
  BY DEF TypeInv, TypeOK, Registered
<1>2. PICK r \in Flags : /\ account' = [account EXCEPT ![u] = r]
                         /\ b = TRUE /\ u \in Administrators => r.active /\ r.admin
  <2>1. CASE account' = [account EXCEPT ![u].active = b]
    <3>1. [account[u] EXCEPT !.active = b] \in Flags
      BY <1>1 DEF Flags
    <3> QED BY <3>1, <2>1, <1>1 DEF Flags, Administrators
  <2>2. CASE account' = [account EXCEPT ![u].admin = b]
    <3>1. [account[u] EXCEPT !.admin = b] \in Flags
      BY <1>1 DEF Flags
    <3> QED BY <3>1, <2>2, <1>1 DEF Flags, Administrators
  <2> QED BY <2>1, <2>2
<1>3. r # None
  BY NoneAssumption DEF Flags
<1> QED BY <1>1, <1>2, <1>3 DEF TypeInv, TypeOK, Registered, Administrators

LEMMA TypeStep == TypeInv /\ [Next]_vars => TypeInv'
<1> SUFFICES ASSUME TypeInv, [Next]_vars PROVE TypeInv'
  OBVIOUS
<1>0. /\ account \in [Users -> Flags \cup {None}] /\ founders \subseteq Users
      /\ mishaps \subseteq Mishaps /\ IdleReq.pc = "idle"
  BY DEF TypeInv, TypeOK, IdleReq
<1>1. ASSUME NEW h \in Handlers, NEW u \in Users,
             CountUsers(h, u) \/ CountUsersFails(h, u)
      PROVE  TypeInv'
  <2>1. PICK b \in BOOLEAN :
          req' = [req EXCEPT ![h] = [pc |-> "insert", by |-> None, user |-> u, active |-> TRUE,
                                     admin |-> b]]
    BY <1>1 DEF CountUsers, CountUsersFails, Begin, CountsNobody
  <2>2. account' = account /\ founders' = founders /\ mishaps' \subseteq Mishaps
    BY <1>0, <1>1 DEF CountUsers, CountUsersFails, Mishaps
  <2> QED BY <1>0, <2>1, <2>2, OneMoves DEF Registrations, Registered
<1>2. ASSUME NEW h \in Handlers, InsertUser(h) PROVE TypeInv'
  <2> DEFINE u == req[h].user
  <2>1. u \in Users /\ req[h].admin \in BOOLEAN
    BY <1>2, Shape DEF InsertUser, Finish
  <2>2. /\ account' = [account EXCEPT ![u] = [admin |-> req[h].admin, active |-> TRUE]]
        /\ account[u] = None /\ founders' \subseteq Users /\ mishaps' = mishaps
        /\ req' = [req EXCEPT ![h] = IdleReq]
    BY <1>0, <1>2, <2>1 DEF InsertUser, Finish
  <2>3. account' \in [Users -> Flags \cup {None}]
    BY <1>0, <2>1, <2>2 DEF Flags
  <2>4. Registered \subseteq Registered'
    BY <1>0, <2>1, <2>2, NoneAssumption DEF Registered
  <2> QED BY <1>0, <2>2, <2>3, <2>4, OneMoves
<1>3. ASSUME NEW h \in Handlers, InsertUserFails(h) \/ WriteFails(h) PROVE TypeInv'
  <2>1. /\ account' = account /\ founders' = founders /\ mishaps' = mishaps
        /\ req' = [req EXCEPT ![h] = IdleReq]
    BY <1>3 DEF InsertUserFails, WriteFails, Finish
  <2> QED BY <1>0, <2>1, OneMoves DEF Registered
<1>4. ASSUME NEW h \in Handlers, NEW a \in Users, NEW u \in Users,
             NEW active \in BOOLEAN \cup {None}, NEW admin \in BOOLEAN \cup {None},
             BeginChange(h, a, u, active, admin)
      PROVE  TypeInv'
  <2> DEFINE r == [pc |-> "change", by |-> a, user |-> u, active |-> active, admin |-> admin]
  <2>1. r \in Changes /\ u \in Registered /\ UNCHANGED <<account, founders, mishaps>>
        /\ req' = [req EXCEPT ![h] = r]
    BY <1>4 DEF BeginChange, Begin, Changes
  <2> QED BY <1>0, <2>1, OneMoves DEF Registered
<1>5. ASSUME NEW h \in Handlers, WriteActive(h) PROVE TypeInv'
  <2> DEFINE r == IF req[h].admin = None THEN IdleReq ELSE [req[h] EXCEPT !.active = None]
  <2>1. /\ req[h].user \in Registered /\ req[h].active \in BOOLEAN /\ req[h] \in Changes
    BY <1>5, Shape DEF WriteActive
  <2>2. /\ account' = [account EXCEPT ![req[h].user].active = req[h].active]
        /\ founders' = founders /\ mishaps' \subseteq Mishaps
        /\ req' = [req EXCEPT ![h] = r]
    BY <1>0, <1>5 DEF WriteActive, Undercut, Mishaps
  <2>3. r \in Changes \cup {IdleReq} /\ (r.pc = "change" => r.user = req[h].user)
    BY <2>1 DEF Changes, IdleReq
  <2> HIDE DEF r
  <2> QED BY <1>0, <2>1, <2>2, <2>3, FlagWritten, OneMoves
<1>6. ASSUME NEW h \in Handlers, WriteAdmin(h) PROVE TypeInv'
  <2>1. req[h].user \in Registered /\ req[h].admin \in BOOLEAN
    BY <1>6, Shape DEF WriteAdmin, Finish
  <2>2. /\ account' = [account EXCEPT ![req[h].user].admin = req[h].admin]
        /\ founders' = founders /\ mishaps' \subseteq Mishaps
        /\ req' = [req EXCEPT ![h] = IdleReq]
    BY <1>0, <1>6 DEF WriteAdmin, Undercut, Mishaps, Finish
  <2> QED BY <1>0, <2>1, <2>2, FlagWritten, OneMoves
<1>7. CASE UNCHANGED vars
  BY <1>7 DEF vars, TypeInv, TypeOK, Registered
<1> QED BY <1>1, <1>2, <1>3, <1>4, <1>5, <1>6, <1>7 DEF Next

(***************************************************************************)
(* The types and the bound on the rows hold in every state, whatever       *)
(* registrations and admin changes are under way.                          *)
(***************************************************************************)
THEOREM Typing == Spec => []TypeInv
  BY TypeInit, TypeStep, PTL DEF Spec

(***************************************************************************)
(* Every variable keeps its type.                                          *)
(***************************************************************************)
THEOREM TypeCorrect == Spec => []TypeOK
  BY Typing, PTL DEF TypeInv

-----------------------------------------------------------------------------
(* An administrator remains                                                *)

\* A registration that counted somebody is not the first one; and whoever has a
\* change under way still is an administrator.
AdminInv ==
  /\ \A h \in Handlers : req[h].pc = "insert" /\ ~req[h].admin => Registered # {}
  /\ "undercut" \notin mishaps =>
       \A h \in Handlers : req[h].pc = "change" => req[h].by \in Administrators
  /\ SomeoneAdministers

\* A change that writes a flag of u leaves its author, and the authors of all
\* other changes, administrators.
LEMMA FlagStep ==
  ASSUME TypeInv, AdminInv, NEW h \in Handlers, req[h].pc = "change",
         NEW u \in Registered, NEW b \in BOOLEAN, mishaps' = Undercut(u, b),
         \/ account' = [account EXCEPT ![u].active = b]
         \/ account' = [account EXCEPT ![u].admin = b],
         NEW r, req' = [req EXCEPT ![h] = r], r.pc # "insert",
         r.pc = "change" => r.by = req[h].by
  PROVE  AdminInv'
<1>1. /\ Registered' = Registered
      /\ b = TRUE => Administrators \subseteq Administrators'
      /\ Administrators \ {u} \subseteq Administrators'
  BY FlagWritten
<1>2. mishaps \subseteq mishaps'
  BY DEF Undercut
<1>3. ASSUME "undercut" \notin mishaps', NEW g \in Handlers, req[g].pc = "change"
      PROVE  req[g].by \in Administrators'
  <2>1. req[g].by \in Administrators
    BY <1>2, <1>3 DEF AdminInv
  <2>2. b = FALSE => req[g].by # u
    BY <1>3 DEF Undercut, Acting
  <2> QED BY <1>1, <2>1, <2>2
<1>4. SomeoneAdministers'
  BY <1>3 DEF SomeoneAdministers
<1>5. ASSUME NEW g \in Handlers
      PROVE  req'[g].pc = "change" => req[g].pc = "change" /\ req'[g].by = req[g].by
  BY DEF TypeInv, TypeOK
<1>6. ASSUME NEW g \in Handlers PROVE req'[g].pc = "insert" => req'[g] = req[g]
  BY DEF TypeInv, TypeOK
<1> QED BY <1>1, <1>3, <1>4, <1>5, <1>6 DEF AdminInv

LEMMA AdminStep == TypeInv /\ TypeInv' /\ AdminInv /\ [Next]_vars => AdminInv'
<1> SUFFICES ASSUME TypeInv, TypeInv', AdminInv, [Next]_vars PROVE AdminInv'
  OBVIOUS
<1>1. ASSUME NEW h \in Handlers, NEW u \in Users,
             CountUsers(h, u) \/ CountUsersFails(h, u)
      PROVE  AdminInv'
  <2>1. account' = account /\ ("undercut" \in mishaps <=> "undercut" \in mishaps')
    BY <1>1 DEF CountUsers, CountUsersFails
  <2>2. /\ \A g \in Handlers : g # h => req'[g] = req[g]
        /\ req'[h].pc = "insert" /\ (~req'[h].admin => Registered # {})
    <3>1. CASE CountUsers(h, u)
      BY <3>1 DEF CountUsers, Begin, CountsNobody, TypeInv, TypeOK
    <3>2. CASE CountUsersFails(h, u)
      BY <3>2 DEF CountUsersFails, Begin, TypeInv, TypeOK
    <3> QED BY <1>1, <3>1, <3>2
  <2>3. Registered' = Registered
    BY <2>1 DEF Registered
  <2>4. Administrators' = Administrators
    BY <2>1, <2>3 DEF Administrators
  <2>5. SomeoneAdministers'
    BY <2>1, <2>3, <2>4 DEF AdminInv, SomeoneAdministers
  <2>6. ASSUME NEW g \in Handlers, req'[g].pc = "insert", ~req'[g].admin
        PROVE  Registered # {}
    BY <2>2, <2>6 DEF AdminInv
  <2>7. ASSUME "undercut" \notin mishaps, NEW g \in Handlers, req'[g].pc = "change"
        PROVE  req'[g].by \in Administrators
    BY <2>2, <2>7 DEF AdminInv
  <2> QED BY <2>1, <2>3, <2>4, <2>5, <2>6, <2>7 DEF AdminInv
<1>2. ASSUME NEW h \in Handlers, InsertUser(h) PROVE AdminInv'
  <2> DEFINE u == req[h].user
  <2>1. /\ req[h].pc = "insert" /\ u \in Users /\ account[u] = None
        /\ account' = [account EXCEPT ![u] = [admin |-> req[h].admin, active |-> TRUE]]
        /\ req' = [req EXCEPT ![h] = IdleReq] /\ mishaps' = mishaps
    BY <1>2, Shape DEF InsertUser, Finish
  <2>2. /\ Registered \subseteq Registered' /\ Administrators \subseteq Administrators'
        /\ req[h].admin => u \in Administrators'
    <3> DEFINE f == [admin |-> req[h].admin, active |-> TRUE]
    <3>1. f # None
      <4>1. f \in [admin : BOOLEAN, active : BOOLEAN]
        BY <2>1, Shape
      <4> HIDE DEF f
      <4> QED BY <4>1, NoneAssumption
    <3>2. account' = [account EXCEPT ![u] = f] /\ account \in [Users -> Flags \cup {None}]
      BY <2>1 DEF TypeInv, TypeOK
    <3> HIDE DEF f
    <3>3. Registered' = Registered \cup {u} /\ u \notin Registered
      <4>1. u \in Users /\ account[u] = None
        BY <2>1
      <4> HIDE DEF u
      <4> QED BY <4>1, <3>1, <3>2 DEF Registered
    <3>4. Administrators \subseteq Administrators'
      BY <3>2, <3>3 DEF Administrators, Registered
    <3>5. f.active /\ f.admin = req[h].admin
      BY DEF f
    <3>6. req[h].admin => u \in Administrators'
      BY <2>1, <3>2, <3>3, <3>5 DEF Administrators
    <3> QED BY <3>3, <3>4, <3>6
  <2>3. \A g \in Handlers : req'[g].pc \in {"insert", "change"} => req'[g] = req[g]
    BY <2>1 DEF TypeInv, TypeOK, IdleReq
  <2>4. SomeoneAdministers'
    BY <2>1, <2>2 DEF AdminInv, SomeoneAdministers
  <2> QED BY <2>1, <2>2, <2>3, <2>4 DEF AdminInv
<1>3. ASSUME NEW h \in Handlers, InsertUserFails(h) \/ WriteFails(h) PROVE AdminInv'
  <2>1. account' = account /\ req' = [req EXCEPT ![h] = IdleReq] /\ mishaps' = mishaps
    BY <1>3 DEF InsertUserFails, WriteFails, Finish
  <2>2. \A g \in Handlers : req'[g].pc \in {"insert", "change"} => req'[g] = req[g]
    BY <2>1 DEF TypeInv, TypeOK, IdleReq
  <2> QED BY <2>1, <2>2 DEF AdminInv, SomeoneAdministers, Registered, Administrators
<1>4. ASSUME NEW h \in Handlers, NEW a \in Users, NEW u \in Users,
             NEW active \in BOOLEAN \cup {None}, NEW admin \in BOOLEAN \cup {None},
             BeginChange(h, a, u, active, admin)
      PROVE  AdminInv'
  <2>1. /\ account' = account /\ mishaps' = mishaps /\ a \in Administrators
        /\ \A g \in Handlers : g # h => req'[g] = req[g]
        /\ req'[h].pc = "change" /\ req'[h].by = a
    BY <1>4 DEF BeginChange, Begin, TypeInv, TypeOK
  <2> QED BY <2>1 DEF AdminInv, SomeoneAdministers, Registered, Administrators
<1>5. ASSUME NEW h \in Handlers, WriteActive(h) PROVE AdminInv'
  <2> DEFINE r == IF req[h].admin = None THEN IdleReq ELSE [req[h] EXCEPT !.active = None]
  <2>1. /\ req[h].pc = "change" /\ req[h].user \in Registered /\ req[h].active \in BOOLEAN
        /\ req[h] \in Changes
    BY <1>5, Shape DEF WriteActive
  <2>2. /\ account' = [account EXCEPT ![req[h].user].active = req[h].active]
        /\ mishaps' = Undercut(req[h].user, req[h].active) /\ req' = [req EXCEPT ![h] = r]
    BY <1>5 DEF WriteActive
  <2>3. r.pc # "insert" /\ (r.pc = "change" => r.by = req[h].by)
    BY <2>1 DEF Changes, IdleReq
  <2> HIDE DEF r
  <2> QED BY <2>1, <2>2, <2>3, FlagStep
<1>6. ASSUME NEW h \in Handlers, WriteAdmin(h) PROVE AdminInv'
  <2>1. req[h].pc = "change" /\ req[h].user \in Registered /\ req[h].admin \in BOOLEAN
    BY <1>6, Shape DEF WriteAdmin, Finish
  <2>2. /\ account' = [account EXCEPT ![req[h].user].admin = req[h].admin]
        /\ mishaps' = Undercut(req[h].user, req[h].admin)
        /\ req' = [req EXCEPT ![h] = IdleReq] /\ IdleReq.pc = "idle"
    BY <1>6 DEF WriteAdmin, Finish, IdleReq
  <2> QED BY <2>1, <2>2, FlagStep
<1>7. CASE UNCHANGED vars
  BY <1>7 DEF vars, AdminInv, SomeoneAdministers, Registered, Administrators
<1> QED BY <1>1, <1>2, <1>3, <1>4, <1>5, <1>6, <1>7 DEF Next

(***************************************************************************)
(* However registrations and changes interleave and fail, the instance     *)
(* keeps an administrator unless somebody is undercut.                     *)
(***************************************************************************)
THEOREM AnAdministratorRemains == Spec => []SomeoneAdministers
<1>1. Init => AdminInv
  BY DEF Init, AdminInv, SomeoneAdministers, Registered, IdleReq
<1>2. AdminInv => SomeoneAdministers
  BY DEF AdminInv
<1> QED BY <1>1, <1>2, AdminStep, Typing, PTL DEF Spec

-----------------------------------------------------------------------------
(* Founders                                                                *)

\* The registrations that will make an administrator.
Founding == {h \in Handlers : req[h].pc = "insert" /\ req[h].admin}

FounderInv ==
  /\ IsFiniteSet(founders)
  /\ Registered = {} => founders = {}
  /\ "count" \notin mishaps => Cardinality(founders) + Cardinality(Founding) <= Cardinality(Handlers)

LEMMA FoundingFinite ==
  /\ IsFiniteSet(Founding) /\ Cardinality(Founding) \in Nat
  /\ Cardinality(Founding) <= Cardinality(Handlers) /\ Cardinality(Handlers) \in Nat
<1>1. Founding \subseteq Handlers
  BY DEF Founding
<1> QED BY <1>1, HandlersAssumption, FS_Subset, FS_CardinalityType

LEMMA FounderStep == TypeInv /\ FounderInv /\ [Next]_vars => FounderInv'
<1> SUFFICES ASSUME TypeInv, FounderInv, [Next]_vars PROVE FounderInv'
  OBVIOUS
<1>0. Cardinality(founders) \in Nat
  BY FS_CardinalityType DEF FounderInv
<1>1. ASSUME founders' = founders, Registered' = Registered,
             "count" \in mishaps => "count" \in mishaps', Founding' \subseteq Founding
      PROVE  FounderInv'
  <2>1. Cardinality(Founding') <= Cardinality(Founding) /\ Cardinality(Founding') \in Nat
    BY <1>1, FoundingFinite, FS_Subset, FS_CardinalityType
  <2> QED BY <1>0, <1>1, <2>1, FoundingFinite DEF FounderInv
<1>2. ASSUME NEW h \in Handlers, NEW u \in Users, CountUsers(h, u) PROVE FounderInv'
  <2>1. /\ founders' = founders /\ mishaps' = mishaps /\ account' = account
        /\ req[h].pc = "idle" /\ req'[h].pc = "insert" /\ req'[h].admin = CountsNobody
        /\ \A g \in Handlers : g # h => req'[g] = req[g]
    BY <1>2 DEF CountUsers, Begin, TypeInv, TypeOK
  <2>2. Registered' = Registered
    BY <2>1 DEF Registered
  <2>3. CASE Registered = {}
    <3>1. Founding' \subseteq Handlers
      BY DEF Founding
    <3>2. Cardinality(Founding') <= Cardinality(Handlers) /\ Cardinality(Founding') \in Nat
      BY <3>1, HandlersAssumption, FS_Subset, FS_CardinalityType
    <3>3. founders' = {}
      BY <2>1, <2>3 DEF FounderInv
    <3> QED BY <2>2, <3>2, <3>3, FS_EmptySet, FoundingFinite DEF FounderInv
  <2>4. CASE Registered # {}
    <3>1. Founding' \subseteq Founding
      BY <2>1, <2>4 DEF Founding, CountsNobody
    <3> QED BY <1>1, <2>1, <2>2, <3>1
  <2> QED BY <2>3, <2>4
<1>3. ASSUME NEW h \in Handlers, NEW u \in Users, CountUsersFails(h, u) PROVE FounderInv'
  <2>1. /\ founders' = founders /\ "count" \in mishaps' /\ account' = account
    BY <1>3 DEF CountUsersFails
  <2>2. Registered' = Registered
    BY <2>1 DEF Registered
  <2> QED BY <2>1, <2>2 DEF FounderInv
<1>4. ASSUME NEW h \in Handlers, InsertUser(h) PROVE FounderInv'
  <2> DEFINE u == req[h].user
  <2>1. /\ req[h].pc = "insert" /\ u \in Users /\ req[h].admin \in BOOLEAN
        /\ mishaps' = mishaps /\ req' = [req EXCEPT ![h] = IdleReq]
        /\ founders' = IF req[h].admin THEN founders \cup {u} ELSE founders
    BY <1>4, Shape DEF InsertUser, Finish
  <2>2. Founding' = Founding \ {h} /\ (h \in Founding <=> req[h].admin)
    BY <2>1 DEF Founding, TypeInv, TypeOK, IdleReq
  <2>3. Cardinality(Founding') = Cardinality(Founding) - (IF req[h].admin THEN 1 ELSE 0)
    <3>1. Cardinality(Founding \ {h}) =
            IF h \in Founding THEN Cardinality(Founding) - 1 ELSE Cardinality(Founding)
      BY FoundingFinite, FS_RemoveElement
    <3> QED BY <2>1, <2>2, <3>1, FoundingFinite
  <2>4. /\ IsFiniteSet(founders') /\ Cardinality(founders') \in Nat
        /\ Cardinality(founders') <= Cardinality(founders) + (IF req[h].admin THEN 1 ELSE 0)
    <3>1. IsFiniteSet(founders)
      BY DEF FounderInv
    <3>2. CASE req[h].admin
      <4>1. /\ Cardinality(founders \cup {u}) =
                 IF u \in founders THEN Cardinality(founders) ELSE Cardinality(founders) + 1
            /\ IsFiniteSet(founders \cup {u})
        BY <3>1, FS_AddElement
      <4>2. founders' = founders \cup {u}
        BY <2>1, <3>2
      <4> HIDE DEF u
      <4>3. /\ IsFiniteSet(founders') /\ Cardinality(founders') \in Nat
            /\ Cardinality(founders') <= Cardinality(founders) + 1
        BY <1>0, <4>1, <4>2
      <4> QED BY <3>2, <4>3
    <3>3. CASE ~req[h].admin
      BY <1>0, <2>1, <3>1, <3>3
    <3> QED BY <3>2, <3>3
  <2>5. Registered' # {}
    <3>1. account' = [account EXCEPT ![u] = [admin |-> req[h].admin, active |-> TRUE]]
      BY <1>4 DEF InsertUser
    <3> DEFINE f == [admin |-> req[h].admin, active |-> TRUE]
    <3>2. f \in Flags
      BY <2>1 DEF Flags
    <3>3. account'[u] # None
      <4> HIDE DEF f
      <4>1. f # None
        BY <3>2, NoneAssumption DEF Flags
      <4>2. account' = [account EXCEPT ![u] = f]
        BY <3>1 DEF f
      <4> QED BY <2>1, <4>1, <4>2 DEF TypeInv, TypeOK
    <3> QED BY <2>1, <3>3 DEF Registered
  <2> QED BY <1>0, <2>1, <2>3, <2>4, <2>5, FoundingFinite DEF FounderInv
<1>5. ASSUME NEW h \in Handlers, InsertUserFails(h) \/ WriteFails(h) PROVE FounderInv'
  <2>1. /\ account' = account /\ req' = [req EXCEPT ![h] = IdleReq] /\ mishaps' = mishaps
        /\ founders' = founders
    BY <1>5 DEF InsertUserFails, WriteFails, Finish
  <2>2. Founding' \subseteq Founding /\ Registered' = Registered
    BY <2>1 DEF Founding, TypeInv, TypeOK, IdleReq, Registered
  <2> QED BY <1>1, <2>1, <2>2
<1>6. ASSUME NEW h \in Handlers, NEW a \in Users, NEW u \in Users,
             NEW active \in BOOLEAN \cup {None}, NEW admin \in BOOLEAN \cup {None},
             BeginChange(h, a, u, active, admin)
      PROVE  FounderInv'
  <2>1. /\ account' = account /\ mishaps' = mishaps /\ founders' = founders
        /\ req'[h].pc = "change" /\ \A g \in Handlers : g # h => req'[g] = req[g]
    BY <1>6 DEF BeginChange, Begin, TypeInv, TypeOK
  <2>2. Founding' \subseteq Founding /\ Registered' = Registered
    BY <2>1 DEF Founding, Registered
  <2> QED BY <1>1, <2>1, <2>2
<1>7. ASSUME NEW h \in Handlers, WriteActive(h) \/ WriteAdmin(h) PROVE FounderInv'
  <2>1. /\ req[h].user \in Registered
        /\ WriteActive(h) => req[h].active \in BOOLEAN
        /\ WriteAdmin(h) => req[h].admin \in BOOLEAN
    BY <1>7, Shape DEF WriteActive, WriteAdmin, Finish
  <2>2. Registered' = Registered
    <3>1. CASE WriteActive(h)
      <4>1. account' = [account EXCEPT ![req[h].user].active = req[h].active]
        BY <3>1 DEF WriteActive
      <4> QED BY <2>1, <3>1, <4>1, FlagWritten
    <3>2. CASE WriteAdmin(h)
      <4>1. account' = [account EXCEPT ![req[h].user].admin = req[h].admin]
        BY <3>2 DEF WriteAdmin
      <4> QED BY <2>1, <3>2, <4>1, FlagWritten
    <3> QED BY <1>7, <3>1, <3>2
  <2>3. founders' = founders /\ mishaps \subseteq mishaps'
    BY <1>7 DEF WriteActive, WriteAdmin, Undercut
  <2>4. Founding' \subseteq Founding
    <3>1. \A g \in Handlers : g # h => req'[g] = req[g]
      BY <1>7 DEF WriteActive, WriteAdmin, Finish, TypeInv, TypeOK
    <3>2. req'[h].pc # "insert"
      <4>1. CASE WriteActive(h)
        <5>1. /\ req' = [req EXCEPT ![h] = IF req[h].admin = None THEN IdleReq
                                           ELSE [req[h] EXCEPT !.active = None]]
              /\ req[h].pc = "change"
          BY <4>1 DEF WriteActive
        <5>2. req[h] \in Changes /\ IdleReq.pc = "idle"
          BY <5>1, Shape DEF IdleReq
        <5>3. [req[h] EXCEPT !.active = None].pc = "change"
          BY <5>1, <5>2 DEF Changes
        <5> QED BY <5>1, <5>2, <5>3 DEF TypeInv, TypeOK
      <4>2. CASE WriteAdmin(h)
        BY <4>2 DEF WriteAdmin, Finish, IdleReq, TypeInv, TypeOK
      <4> QED BY <1>7, <4>1, <4>2
    <3> QED BY <3>1, <3>2 DEF Founding
  <2> QED BY <1>1, <2>2, <2>3, <2>4
<1>8. CASE UNCHANGED vars
  <2>1. founders' = founders /\ Registered' = Registered /\ Founding' = Founding /\ mishaps' = mishaps
    BY <1>8 DEF vars, Registered, Founding
  <2> QED BY <1>1, <2>1
<1> QED BY <1>2, <1>3, <1>4, <1>5, <1>6, <1>7, <1>8 DEF Next

(***************************************************************************)
(* At most as many users as there are concurrent requests register as      *)
(* administrators, unless a COUNT fails.                                   *)
(***************************************************************************)
THEOREM FoundersAreFew == Spec => []FewFounders
<1>1. Init => FounderInv
  <2> SUFFICES ASSUME Init PROVE FounderInv
    OBVIOUS
  <2>1. Founding = {} /\ founders = {}
    BY DEF Init, Founding, IdleReq
  <2> QED BY <2>1, FS_EmptySet, FoundingFinite DEF FounderInv
<1>2. FounderInv => FewFounders
  <2> SUFFICES ASSUME FounderInv PROVE FewFounders
    OBVIOUS
  <2>1. Cardinality(founders) \in Nat
    BY FS_CardinalityType DEF FounderInv
  <2> QED BY <2>1, FoundingFinite DEF FounderInv, FewFounders
<1> QED BY <1>1, <1>2, FounderStep, Typing, PTL DEF Spec

Sequential == (\A g, h \in Handlers : g = h) /\ Faults = {}

(***************************************************************************)
(* With one request at a time and no failing COUNT only the first user to  *)
(* register is made an administrator, as the README of the repository has  *)
(* it: the run AccountsFirst needs two registrations at once.              *)
(***************************************************************************)
THEOREM SequentialFirstOnly == Sequential /\ Spec => []OnlyFirstRegisteredAdministers
<1>1. Init => "count" \notin mishaps
  BY DEF Init
<1>2. Sequential /\ "count" \notin mishaps /\ [Next]_vars => ("count" \notin mishaps)'
  <2> SUFFICES ASSUME Sequential, "count" \notin mishaps, [Next]_vars PROVE "count" \notin mishaps'
    OBVIOUS
  <2>1. ASSUME NEW h \in Handlers, WriteActive(h) \/ WriteAdmin(h) PROVE "count" \notin mishaps'
    BY <2>1 DEF WriteActive, WriteAdmin, Undercut
  <2>2. \/ UNCHANGED mishaps
        \/ \E h \in Handlers : WriteActive(h) \/ WriteAdmin(h)
    BY DEF Next, vars, CountUsers, CountUsersFails, InsertUser, InsertUserFails, BeginChange,
       WriteFails, Sequential
  <2> QED BY <2>1, <2>2
<1>3. ASSUME Sequential PROVE Cardinality(Handlers) \in {0, 1}
  <2>1. CASE Handlers = {}
    BY <2>1, FS_EmptySet
  <2>2. ASSUME NEW h \in Handlers PROVE Cardinality(Handlers) = 1
    <3>1. Handlers = {h}
      BY <1>3, <2>2 DEF Sequential
    <3> QED BY <3>1, FS_Singleton
  <2> QED BY <2>1, <2>2
<1>4. FounderInv => Cardinality(founders) \in Nat
  BY FS_CardinalityType DEF FounderInv
<1>5. Sequential /\ FounderInv /\ FewFounders /\ "count" \notin mishaps
      => OnlyFirstRegisteredAdministers
  BY <1>3, <1>4 DEF FewFounders, OnlyFirstRegisteredAdministers
<1>6. Init => FounderInv
  <2> SUFFICES ASSUME Init PROVE FounderInv
    OBVIOUS
  <2>1. Founding = {} /\ founders = {}
    BY DEF Init, Founding, IdleReq
  <2> QED BY <2>1, FS_EmptySet, FoundingFinite DEF FounderInv
<1>7. Sequential => Sequential'
  BY DEF Sequential
<1> QED BY <1>1, <1>2, <1>5, <1>6, <1>7, FounderStep, Typing, FoundersAreFew, PTL DEF Spec
=============================================================================
