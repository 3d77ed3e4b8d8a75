----------------------- MODULE RepoLifecycle_proofs -----------------------
(***************************************************************************)
(* Safety of the repository life cycle, for any handlers, names, failures  *)
(* and crashes.  The inductive invariant IInv says for each phase of a     *)
(* request what it found and wrote, as long as its names are not exposed.  *)
(***************************************************************************)
EXTENDS RepoLifecycle, TLAPS

UniqueNames == \A i, j \in Ids : rows[i] # None /\ rows[i] = rows[j] => i = j

FreshIds ==
  \A id \in Ids \ used :
    /\ rows[id] = None
    /\ \A n \in Names : disk[n] # id
    /\ \A h \in Handlers : req[h].id # id

\* A creation whose git init is still to come has no directory anywhere.
UnbornIds ==
  \A h \in Handlers : req[h].pc = "init" =>
    /\ \A n \in Names : disk[n] # req[h].id
    /\ \A g \in Handlers : g # h => ~(req[g].pc = "init" /\ req[g].id = req[h].id)

\* The names of one request are exposed together.
ExposedTogether ==
  \A h \in Handlers : Works(h) \cap exposed = {} \/ Works(h) \subseteq exposed

\* Two requests share no name unless it is exposed.
WorkAlone ==
  \A g, h \in Handlers : g # h => Works(g) \cap Works(h) \subseteq exposed

\* The row a request holds sits at a name of the request or at an exposed one.
HeldRow ==
  \A h \in Handlers : Busy(h) =>
    rows[req[h].id] \in {None} \cup Works(h) \cup exposed

\* What an undisturbed request may rely on in each of its phases.
PhaseOK(h) ==
  LET i == req[h].id
      t == req[h].typed
      m == req[h].new
  IN  /\ rows[i] = t
      /\ req[h].pc \in {"init", "undo", "unrow"} => disk[t] = None
      /\ req[h].pc \notin {"move", "update"} => t = m
      /\ req[h].pc = "remove" => disk[t] = i
      /\ req[h].pc = "move" => disk[t] = i /\ Agree(m)
      /\ req[h].pc = "update" =>
           disk[t] = None /\ disk[m] = i /\ \A j \in Ids : rows[j] # m

Undisturbed(h) == Busy(h) /\ Works(h) \cap exposed = {}

PhasesOK == \A h \in Handlers : Undisturbed(h) => PhaseOK(h)

IInv ==
  /\ TypeOK
  /\ UniqueNames
  /\ FreshIds
  /\ UnbornIds
  /\ NoSharedHistory
  /\ ExposedTogether
  /\ WorkAlone
  /\ HeldRow
  /\ PhasesOK
  /\ DamageIsContained

-----------------------------------------------------------------------------
LEMMA InitInv == Init => IInv
  BY NoneAssumption
  DEF Init, IInv, TypeOK, UniqueNames, FreshIds, UnbornIds, NoSharedHistory,
      ExposedTogether, WorkAlone, HeldRow, PhasesOK, Undisturbed, PhaseOK,
      DamageIsContained, Settled, Agree, Works, Busy, IdleReq

(***************************************************************************)
(* A handler h that begins a request on names of T: whoever it shares a    *)
(* name with is exposed along with it.                                     *)
(***************************************************************************)
LEMMA Joining ==
  ASSUME IInv, NEW h \in Handlers, ~Busy(h), NEW T \in SUBSET Names,
         NEW r \in Requests, {r.typed, r.new} \subseteq T,
         req' = [req EXCEPT ![h] = r],
         NEW X, X = {} \/ X = T, exposed' = exposed \cup Entangled(T) \cup X
  PROVE  /\ exposed' \subseteq Names
         /\ req' \in [Handlers -> Requests \cup {IdleReq}]
         /\ \A g \in Handlers : g # h => req'[g] = req[g] /\ Works(g)' = Works(g)
         /\ req'[h] = r /\ Works(h)' = {r.typed, r.new} /\ Busy(h)'
         /\ Undisturbed(h)' => /\ exposed' = exposed /\ T \cap exposed = {}
                               /\ \A g \in Handlers : Works(g) \cap T = {}
         /\ ExposedTogether' /\ WorkAlone'
<1> DEFINE sharing == {g \in Handlers : Works(g) \cap T # {}}
<1> USE DEF IInv
<1>1. /\ req' \in [Handlers -> Requests \cup {IdleReq}]
      /\ \A g \in Handlers : g # h => req'[g] = req[g] /\ Works(g)' = Works(g)
      /\ req'[h] = r /\ Works(h)' = {r.typed, r.new} /\ Busy(h)'
  BY DEF TypeOK, Works, Busy, Requests, Phases, IdleReq
<1>2. \A g \in Handlers : Works(g) \subseteq Names
  BY DEF TypeOK, Works, Busy, Requests, IdleReq
<1>3. Entangled(T) \subseteq Names
  BY <1>2 DEF Entangled
<1>4. \A g \in Handlers : Works(g) \cap T # {} => Works(g) \cup T \subseteq Entangled(T)
  BY DEF Entangled
<1>5. T \cap exposed # {} => T \subseteq Entangled(T)
  BY DEF Entangled
<1>6. \A x \in Entangled(T) : x \in T \/ \E g \in Handlers : Works(g) \cap T # {} /\ x \in Works(g)
  BY DEF Entangled
<1>7. Entangled(T) # {} => T \subseteq Entangled(T)
  BY DEF Entangled
<1>8. ASSUME Undisturbed(h)'
      PROVE  /\ exposed' = exposed /\ T \cap exposed = {}
             /\ \A g \in Handlers : Works(g) \cap T = {}
  <2>1. Works(h)' \cap exposed' = {} /\ Works(h)' # {} /\ Works(h)' \subseteq T
    BY <1>1, <1>8 DEF Undisturbed
  <2>2. Entangled(T) = {} /\ X = {}
    BY <2>1, <1>7
  <2> QED BY <2>1, <2>2, <1>4, <1>5
<1>9. ExposedTogether'
  <2> SUFFICES ASSUME NEW g \in Handlers, NEW x \in Works(g)', x \in exposed'
               PROVE  Works(g)' \subseteq exposed'
    BY DEF ExposedTogether
  <2>1. CASE g = h
    <3>1. T \subseteq exposed'
      BY <2>1, <1>1, <1>5, <1>7
    <3> QED BY <3>1, <2>1, <1>1
  <2>2. CASE g # h
    <3>1. Works(g)' = Works(g)
      BY <2>2, <1>1
    <3>2. CASE x \in exposed
      BY <3>1, <3>2 DEF ExposedTogether
    <3>3. CASE x \in T
      BY <3>1, <3>3, <1>4
    <3>4. CASE x \in Entangled(T) /\ x \notin T
      <4>1. PICK k \in Handlers : Works(k) \cap T # {} /\ x \in Works(k)
        BY <3>4, <1>6
      <4>2. CASE k = g
        BY <4>1, <4>2, <3>1, <1>4
      <4>3. CASE k # g
        BY <4>1, <4>3, <3>1 DEF WorkAlone, ExposedTogether
      <4> QED BY <4>2, <4>3
    <3> QED BY <3>2, <3>3, <3>4
  <2> QED BY <2>1, <2>2
<1>10. WorkAlone'
  <2> SUFFICES ASSUME NEW g \in Handlers, NEW k \in Handlers, g # k,
                      NEW x \in Works(g)', x \in Works(k)'
               PROVE  x \in exposed'
    BY DEF WorkAlone
  <2>1. CASE g # h /\ k # h
    BY <2>1, <1>1 DEF WorkAlone
  <2>2. CASE g = h
    BY <2>2, <1>1, <1>4
  <2>3. CASE k = h
    BY <2>3, <1>1, <1>4
  <2> QED BY <2>1, <2>2, <2>3
<1> QED BY <1>1, <1>2, <1>3, <1>8, <1>9, <1>10 DEF TypeOK

(***************************************************************************)
(* An undisturbed request g is out of reach of every other request h.      *)
(***************************************************************************)
LEMMA Apart ==
  ASSUME IInv, NEW g \in Handlers, NEW h \in Handlers, g # h, Undisturbed(g), Busy(h)
  PROVE  /\ Works(g) = {req[g].typed, req[g].new}
         /\ Works(h) = {req[h].typed, req[h].new}
         /\ Works(g) \cap Works(h) = {}
         /\ rows[req[h].id] \notin Works(g)
         /\ req[g] \in Requests /\ req[h] \in Requests
<1> USE DEF IInv
<1>1. Works(g) = {req[g].typed, req[g].new} /\ Works(h) = {req[h].typed, req[h].new}
  BY DEF Undisturbed, Works
<1>2. req[g] \in Requests /\ req[h] \in Requests
  BY DEF TypeOK, Undisturbed, Busy, IdleReq
<1>3. Works(g) \cap Works(h) = {}
  BY DEF WorkAlone, Undisturbed
<1>4. rows[req[h].id] \notin Works(g)
  BY <1>1, <1>2, <1>3, NoneAssumption DEF HeldRow, Undisturbed, Requests
<1> QED BY <1>1, <1>2, <1>3, <1>4

\* Exposing all of one request's names keeps the names of every request together.
LEMMA ExposingOne ==
  ASSUME IInv, NEW h \in Handlers, exposed' = exposed \cup Works(h),
         \A g \in Handlers : Works(g)' \subseteq Works(g)
  PROVE  exposed' \subseteq Names /\ ExposedTogether'
<1> USE DEF IInv
<1>1. exposed' \subseteq Names
  BY DEF TypeOK, Works, Busy, Requests, IdleReq
<1>2. ASSUME NEW g \in Handlers, Works(g) \cap exposed' # {} PROVE Works(g) \subseteq exposed'
  BY <1>2 DEF WorkAlone, ExposedTogether
<1> QED BY <1>1, <1>2 DEF ExposedTogether

LEMMA GitInitInv ==
  ASSUME IInv, NEW h \in Handlers, GitInit(h) PROVE IInv'
<1> USE NoneAssumption DEF IInv, GitInit, Finish, InitDir
<1>1. TypeOK'
  BY DEF TypeOK, IdleReq, Requests, Phases
<1>2. UniqueNames'
  BY DEF UniqueNames, TypeOK
<1>3. FreshIds'
  BY DEF FreshIds, TypeOK, IdleReq, Requests
<1>4. UnbornIds'
  BY DEF UnbornIds, TypeOK, IdleReq, Requests
<1>5. NoSharedHistory'
  BY DEF NoSharedHistory, TypeOK, UnbornIds
<1>6. ExposedTogether'
  BY DEF ExposedTogether, Works, Busy, IdleReq, TypeOK
<1>7. WorkAlone'
  BY DEF WorkAlone, Works, Busy, IdleReq, TypeOK
<1>8. HeldRow'
  BY DEF HeldRow, Works, Busy, IdleReq, TypeOK, Requests
<1>9. PhasesOK'
  <2> SUFFICES ASSUME NEW g \in Handlers, Undisturbed(g)' PROVE PhaseOK(g)'
    BY DEF PhasesOK
  <2>1. Busy(h)
    BY DEF Busy
  <2>2. CASE g = h
    BY <2>2 DEF Undisturbed, Busy, IdleReq, TypeOK
  <2>3. CASE g # h
    <3>1. req'[g] = req[g] /\ Undisturbed(g)
      BY <2>3 DEF Undisturbed, Busy, Works, TypeOK
    <3>2. PhaseOK(g)
      BY <3>1 DEF PhasesOK
    <3>3. /\ {req[g].typed, req[g].new} \cap {req[h].typed, req[h].new} = {}
          /\ rows[req[h].id] \notin {req[g].typed, req[g].new}
          /\ req[g] \in Requests /\ req[h] \in Requests
      BY <2>1, <2>3, <3>1, Apart
    <3>4. /\ disk'[req[g].typed] = disk[req[g].typed]
          /\ disk'[req[g].new] = disk[req[g].new]
      BY <3>3 DEF TypeOK, Requests
    <3> QED BY <3>1, <3>2, <3>3, <3>4 DEF PhaseOK, Agree, Requests, TypeOK
  <2> QED BY <2>2, <2>3
<1>10. DamageIsContained'
  BY DEF DamageIsContained, Settled, Agree, PhasesOK, PhaseOK, Undisturbed,
         ExposedTogether, HeldRow, Works, Busy, IdleReq, TypeOK, Requests, UniqueNames,
         NoSharedHistory
<1> QED BY <1>1, <1>2, <1>3, <1>4, <1>5,
           <1>6, <1>7, <1>8, <1>9, <1>10

LEMMA GitInitRefusedInv ==
  ASSUME IInv, NEW h \in Handlers, GitInitRefused(h) PROVE IInv'
<1> USE NoneAssumption DEF IInv, GitInitRefused, Goto
<1>1. TypeOK'
  BY DEF TypeOK, IdleReq, Requests, Phases
<1>2. UniqueNames'
  BY DEF UniqueNames, TypeOK
<1>3. FreshIds'
  BY DEF FreshIds, TypeOK, IdleReq, Requests
<1>4. UnbornIds'
  BY DEF UnbornIds, TypeOK, IdleReq, Requests
<1>5. NoSharedHistory'
  BY DEF NoSharedHistory, TypeOK
<1>6. ExposedTogether'
  BY DEF ExposedTogether, Works, Busy, IdleReq, TypeOK
<1>7. WorkAlone'
  BY DEF WorkAlone, Works, Busy, IdleReq, TypeOK
<1>8. HeldRow'
  BY DEF HeldRow, Works, Busy, IdleReq, TypeOK, Requests
<1>9. PhasesOK'
  BY Apart DEF PhasesOK, PhaseOK, Undisturbed, Works, Busy, IdleReq, TypeOK, Requests, Agree
<1>10. DamageIsContained'
  BY DEF DamageIsContained, Settled, Agree, PhasesOK, PhaseOK, Undisturbed,
         ExposedTogether, HeldRow, Works, Busy, IdleReq, TypeOK, Requests, UniqueNames,
         NoSharedHistory
<1> QED BY <1>1, <1>2, <1>3, <1>4, <1>5,
           <1>6, <1>7, <1>8, <1>9, <1>10

LEMMA GitInitBreaksInv ==
  ASSUME IInv, NEW h \in Handlers, GitInitBreaks(h) PROVE IInv'
<1> USE NoneAssumption DEF IInv, GitInitBreaks, Goto, InitDir, Expose
<1>1. TypeOK'
  BY ExposingOne DEF TypeOK, IdleReq, Requests, Phases, Works, Busy
<1>2. UniqueNames'
  BY DEF UniqueNames, TypeOK
<1>3. FreshIds'
  BY DEF FreshIds, TypeOK, IdleReq, Requests
<1>4. UnbornIds'
  BY DEF UnbornIds, TypeOK, IdleReq, Requests
<1>5. NoSharedHistory'
  BY DEF NoSharedHistory, TypeOK, UnbornIds
<1>6. ExposedTogether'
  BY ExposingOne DEF Works, Busy, IdleReq, TypeOK, Requests
<1>7. WorkAlone'
  BY DEF WorkAlone, Works, Busy, IdleReq, TypeOK
<1>8. HeldRow'
  BY DEF HeldRow, Works, Busy, IdleReq, TypeOK, Requests
<1>9. PhasesOK'
  <2> SUFFICES ASSUME NEW g \in Handlers, Undisturbed(g)' PROVE PhaseOK(g)'
    BY DEF PhasesOK
  <2>1. Busy(h)
    BY DEF Busy
  <2>2. CASE g = h
    BY <2>2, ExposingOne DEF Undisturbed, Works, Busy, TypeOK, Requests, IdleReq
  <2>3. CASE g # h
    <3>1. req'[g] = req[g] /\ Undisturbed(g)
      BY <2>3 DEF Undisturbed, Busy, Works, TypeOK
    <3>2. PhaseOK(g)
      BY <3>1 DEF PhasesOK
    <3>3. /\ {req[g].typed, req[g].new} \cap {req[h].typed, req[h].new} = {}
          /\ rows[req[h].id] \notin {req[g].typed, req[g].new}
          /\ req[g] \in Requests /\ req[h] \in Requests
      BY <2>1, <2>3, <3>1, Apart
    <3>4. /\ disk'[req[g].typed] = disk[req[g].typed]
          /\ disk'[req[g].new] = disk[req[g].new]
      BY <3>3 DEF TypeOK, Requests
    <3> QED BY <3>1, <3>2, <3>3, <3>4 DEF PhaseOK, Agree, Requests, TypeOK
  <2> QED BY <2>2, <2>3
<1>10. DamageIsContained'
  BY DEF DamageIsContained, Settled, Agree, PhasesOK, PhaseOK, Undisturbed,
         ExposedTogether, HeldRow, Works, Busy, IdleReq, TypeOK, Requests, UniqueNames,
         NoSharedHistory
<1> QED BY <1>1, <1>2, <1>3, <1>4, <1>5,
           <1>6, <1>7, <1>8, <1>9, <1>10

LEMMA UndoInsertInv ==
  ASSUME IInv, NEW h \in Handlers, UndoInsert(h) PROVE IInv'
<1> USE NoneAssumption DEF IInv, UndoInsert, Finish
<1>1. TypeOK'
  BY DEF TypeOK, IdleReq, Requests, Phases
<1>2. UniqueNames'
  BY DEF UniqueNames, TypeOK
<1>3. FreshIds'
  BY DEF FreshIds, TypeOK, IdleReq, Requests
<1>4. UnbornIds'
  BY DEF UnbornIds, TypeOK, IdleReq, Requests
<1>5. NoSharedHistory'
  BY DEF NoSharedHistory, TypeOK
<1>6. ExposedTogether'
  BY DEF ExposedTogether, Works, Busy, IdleReq, TypeOK
<1>7. WorkAlone'
  BY DEF WorkAlone, Works, Busy, IdleReq, TypeOK
<1>8. HeldRow'
  BY DEF HeldRow, Works, Busy, IdleReq, TypeOK, Requests
<1>9. PhasesOK'
  BY Apart DEF PhasesOK, PhaseOK, Undisturbed, Works, Busy, IdleReq, TypeOK, Requests, Agree
<1>10. DamageIsContained'
  BY DEF DamageIsContained, Settled, Agree, PhasesOK, PhaseOK, Undisturbed,
         ExposedTogether, HeldRow, Works, Busy, IdleReq, TypeOK, Requests, UniqueNames,
         NoSharedHistory
<1> QED BY <1>1, <1>2, <1>3, <1>4, <1>5,
           <1>6, <1>7, <1>8, <1>9, <1>10

LEMMA UndoInsertFailsInv ==
  ASSUME IInv, NEW h \in Handlers, UndoInsertFails(h) PROVE IInv'
<1> USE NoneAssumption DEF IInv, UndoInsertFails, Finish, Expose
<1>1. TypeOK'
  BY ExposingOne DEF TypeOK, IdleReq, Requests, Phases, Works, Busy
<1>2. UniqueNames'
  BY DEF UniqueNames, TypeOK
<1>3. FreshIds'
  BY DEF FreshIds, TypeOK, IdleReq, Requests
<1>4. UnbornIds'
  BY DEF UnbornIds, TypeOK, IdleReq, Requests
<1>5. NoSharedHistory'
  BY DEF NoSharedHistory, TypeOK
<1>6. ExposedTogether'
  BY ExposingOne DEF Works, Busy, IdleReq, TypeOK, Requests
<1>7. WorkAlone'
  BY DEF WorkAlone, Works, Busy, IdleReq, TypeOK
<1>8. HeldRow'
  BY DEF HeldRow, Works, Busy, IdleReq, TypeOK, Requests
<1>9. PhasesOK'
  BY Apart DEF PhasesOK, PhaseOK, Undisturbed, Works, Busy, IdleReq, TypeOK, Requests, Agree
<1>10. DamageIsContained'
  BY DEF DamageIsContained, Settled, Agree, PhasesOK, PhaseOK, Undisturbed,
         ExposedTogether, HeldRow, Works, Busy, IdleReq, TypeOK, Requests, UniqueNames,
         NoSharedHistory
<1> QED BY <1>1, <1>2, <1>3, <1>4, <1>5,
           <1>6, <1>7, <1>8, <1>9, <1>10

LEMMA RemoveAllInv ==
  ASSUME IInv, NEW h \in Handlers, RemoveAll(h) PROVE IInv'
<1> USE NoneAssumption DEF IInv, RemoveAll, Goto
<1>1. TypeOK'
  BY DEF TypeOK, IdleReq, Requests, Phases
<1>2. UniqueNames'
  BY DEF UniqueNames, TypeOK
<1>3. FreshIds'
  BY DEF FreshIds, TypeOK, IdleReq, Requests
<1>4. UnbornIds'
  BY DEF UnbornIds, TypeOK, IdleReq, Requests
<1>5. NoSharedHistory'
  BY DEF NoSharedHistory, TypeOK
<1>6. ExposedTogether'
  BY DEF ExposedTogether, Works, Busy, IdleReq, TypeOK
<1>7. WorkAlone'
  BY DEF WorkAlone, Works, Busy, IdleReq, TypeOK
<1>8. HeldRow'
  BY DEF HeldRow, Works, Busy, IdleReq, TypeOK, Requests
<1>9. PhasesOK'
  <2> SUFFICES ASSUME NEW g \in Handlers, Undisturbed(g)' PROVE PhaseOK(g)'
    BY DEF PhasesOK
  <2>1. Busy(h)
    BY DEF Busy
  <2>2. CASE g = h
    BY <2>2 DEF PhasesOK, Undisturbed, PhaseOK, Works, Busy, IdleReq, TypeOK, Requests
  <2>3. CASE g # h
    <3>1. req'[g] = req[g] /\ Undisturbed(g)
      BY <2>3 DEF Undisturbed, Busy, Works, TypeOK
    <3>2. PhaseOK(g)
      BY <3>1 DEF PhasesOK
    <3>3. /\ {req[g].typed, req[g].new} \cap {req[h].typed, req[h].new} = {}
          /\ rows[req[h].id] \notin {req[g].typed, req[g].new}
          /\ req[g] \in Requests /\ req[h] \in Requests
      BY <2>1, <2>3, <3>1, Apart
    <3>4. /\ disk'[req[g].typed] = disk[req[g].typed]
          /\ disk'[req[g].new] = disk[req[g].new]
      BY <3>3 DEF TypeOK, Requests
    <3> QED BY <3>1, <3>2, <3>3, <3>4 DEF PhaseOK, Agree, Requests, TypeOK
  <2> QED BY <2>2, <2>3
<1>10. DamageIsContained'
  BY DEF DamageIsContained, Settled, Agree, PhasesOK, PhaseOK, Undisturbed,
         ExposedTogether, HeldRow, Works, Busy, IdleReq, TypeOK, Requests, UniqueNames,
         NoSharedHistory
<1> QED BY <1>1, <1>2, <1>3, <1>4, <1>5,
           <1>6, <1>7, <1>8, <1>9, <1>10

LEMMA RemoveAllFailsInv ==
  ASSUME IInv, NEW h \in Handlers, RemoveAllFails(h) PROVE IInv'
<1> USE NoneAssumption DEF IInv, RemoveAllFails, Goto, Expose
<1>1. TypeOK'
  BY ExposingOne DEF TypeOK, IdleReq, Requests, Phases, Works, Busy
<1>2. UniqueNames'
  BY DEF UniqueNames, TypeOK
<1>3. FreshIds'
  BY DEF FreshIds, TypeOK, IdleReq, Requests
<1>4. UnbornIds'
  BY DEF UnbornIds, TypeOK, IdleReq, Requests
<1>5. NoSharedHistory'
  BY DEF NoSharedHistory, TypeOK
<1>6. ExposedTogether'
  BY ExposingOne DEF Works, Busy, IdleReq, TypeOK, Requests
<1>7. WorkAlone'
  BY DEF WorkAlone, Works, Busy, IdleReq, TypeOK
<1>8. HeldRow'
  BY DEF HeldRow, Works, Busy, IdleReq, TypeOK, Requests
<1>9. PhasesOK'
  BY Apart DEF PhasesOK, PhaseOK, Undisturbed, Works, Busy, IdleReq, TypeOK, Requests, Agree
<1>10. DamageIsContained'
  BY DEF DamageIsContained, Settled, Agree, PhasesOK, PhaseOK, Undisturbed,
         ExposedTogether, HeldRow, Works, Busy, IdleReq, TypeOK, Requests, UniqueNames,
         NoSharedHistory
<1> QED BY <1>1, <1>2, <1>3, <1>4, <1>5,
           <1>6, <1>7, <1>8, <1>9, <1>10

LEMMA DeleteRowInv ==
  ASSUME IInv, NEW h \in Handlers, DeleteRow(h) PROVE IInv'
<1> USE NoneAssumption DEF IInv, DeleteRow, Finish
<1>1. TypeOK'
  BY DEF TypeOK, IdleReq, Requests, Phases
<1>2. UniqueNames'
  BY DEF UniqueNames, TypeOK
<1>3. FreshIds'
  BY DEF FreshIds, TypeOK, IdleReq, Requests
<1>4. UnbornIds'
  BY DEF UnbornIds, TypeOK, IdleReq, Requests
<1>5. NoSharedHistory'
  BY DEF NoSharedHistory, TypeOK
<1>6. ExposedTogether'
  BY DEF ExposedTogether, Works, Busy, IdleReq, TypeOK
<1>7. WorkAlone'
  BY DEF WorkAlone, Works, Busy, IdleReq, TypeOK
<1>8. HeldRow'
  BY DEF HeldRow, Works, Busy, IdleReq, TypeOK, Requests
<1>9. PhasesOK'
  BY Apart DEF PhasesOK, PhaseOK, Undisturbed, Works, Busy, IdleReq, TypeOK, Requests, Agree
<1>10. DamageIsContained'
  BY DEF DamageIsContained, Settled, Agree, PhasesOK, PhaseOK, Undisturbed,
         ExposedTogether, HeldRow, Works, Busy, IdleReq, TypeOK, Requests, UniqueNames,
         NoSharedHistory
<1> QED BY <1>1, <1>2, <1>3, <1>4, <1>5,
           <1>6, <1>7, <1>8, <1>9, <1>10

LEMMA DeleteRowFailsInv ==
  ASSUME IInv, NEW h \in Handlers, DeleteRowFails(h) PROVE IInv'
<1> USE NoneAssumption DEF IInv, DeleteRowFails, Finish, Expose
<1>1. TypeOK'
  BY ExposingOne DEF TypeOK, IdleReq, Requests, Phases, Works, Busy
<1>2. UniqueNames'
  BY DEF UniqueNames, TypeOK
<1>3. FreshIds'
  BY DEF FreshIds, TypeOK, IdleReq, Requests
<1>4. UnbornIds'
  BY DEF UnbornIds, TypeOK, IdleReq, Requests
<1>5. NoSharedHistory'
  BY DEF NoSharedHistory, TypeOK
<1>6. ExposedTogether'
  BY ExposingOne DEF Works, Busy, IdleReq, TypeOK, Requests
<1>7. WorkAlone'
  BY DEF WorkAlone, Works, Busy, IdleReq, TypeOK
<1>8. HeldRow'
  BY DEF HeldRow, Works, Busy, IdleReq, TypeOK, Requests
<1>9. PhasesOK'
  BY Apart DEF PhasesOK, PhaseOK, Undisturbed, Works, Busy, IdleReq, TypeOK, Requests, Agree
<1>10. DamageIsContained'
  BY DEF DamageIsContained, Settled, Agree, PhasesOK, PhaseOK, Undisturbed,
         ExposedTogether, HeldRow, Works, Busy, IdleReq, TypeOK, Requests, UniqueNames,
         NoSharedHistory
<1> QED BY <1>1, <1>2, <1>3, <1>4, <1>5,
           <1>6, <1>7, <1>8, <1>9, <1>10

LEMMA MoveDirInv ==
  ASSUME IInv, NEW h \in Handlers, MoveDir(h) PROVE IInv'
<1> USE NoneAssumption DEF IInv, MoveDir, Goto
<1>1. TypeOK'
  BY DEF TypeOK, IdleReq, Requests, Phases
<1>2. UniqueNames'
  BY DEF UniqueNames, TypeOK
<1>3. FreshIds'
  BY DEF FreshIds, TypeOK, IdleReq, Requests
<1>4. UnbornIds'
  BY DEF UnbornIds, TypeOK, IdleReq, Requests
<1>5. NoSharedHistory'
  BY DEF NoSharedHistory, TypeOK, Requests, IdleReq
<1>6. ExposedTogether'
  BY DEF ExposedTogether, Works, Busy, IdleReq, TypeOK
<1>7. WorkAlone'
  BY DEF WorkAlone, Works, Busy, IdleReq, TypeOK
<1>8. HeldRow'
  BY DEF HeldRow, Works, Busy, IdleReq, TypeOK, Requests
<1>9. PhasesOK'
  <2> SUFFICES ASSUME NEW g \in Handlers, Undisturbed(g)' PROVE PhaseOK(g)'
    BY DEF PhasesOK
  <2>1. Busy(h)
    BY DEF Busy
  <2>2. CASE g = h
    BY <2>2 DEF PhasesOK, Undisturbed, PhaseOK, Agree, Works, Busy, IdleReq, TypeOK, Requests
  <2>3. CASE g # h
    <3>1. req'[g] = req[g] /\ Undisturbed(g)
      BY <2>3 DEF Undisturbed, Busy, Works, TypeOK
    <3>2. PhaseOK(g)
      BY <3>1 DEF PhasesOK
    <3>3. /\ {req[g].typed, req[g].new} \cap {req[h].typed, req[h].new} = {}
          /\ rows[req[h].id] \notin {req[g].typed, req[g].new}
          /\ req[g] \in Requests /\ req[h] \in Requests
      BY <2>1, <2>3, <3>1, Apart
    <3>4. /\ disk'[req[g].typed] = disk[req[g].typed]
          /\ disk'[req[g].new] = disk[req[g].new]
      BY <3>3 DEF TypeOK, Requests
    <3> QED BY <3>1, <3>2, <3>3, <3>4 DEF PhaseOK, Agree, Requests, TypeOK
  <2> QED BY <2>2, <2>3
<1>10. DamageIsContained'
  BY DEF DamageIsContained, Settled, Agree, PhasesOK, PhaseOK, Undisturbed,
         ExposedTogether, HeldRow, Works, Busy, IdleReq, TypeOK, Requests, UniqueNames,
         NoSharedHistory
<1> QED BY <1>1, <1>2, <1>3, <1>4, <1>5,
           <1>6, <1>7, <1>8, <1>9, <1>10

LEMMA MoveDirFailsInv ==
  ASSUME IInv, NEW h \in Handlers, MoveDirFails(h) PROVE IInv'
<1> USE NoneAssumption DEF IInv, MoveDirFails, Finish
<1>1. TypeOK'
  BY DEF TypeOK, IdleReq, Requests, Phases
<1>2. UniqueNames'
  BY DEF UniqueNames, TypeOK
<1>3. FreshIds'
  BY DEF FreshIds, TypeOK, IdleReq, Requests
<1>4. UnbornIds'
  BY DEF UnbornIds, TypeOK, IdleReq, Requests
<1>5. NoSharedHistory'
  BY DEF NoSharedHistory, TypeOK
<1>6. ExposedTogether'
  BY DEF ExposedTogether, Works, Busy, IdleReq, TypeOK
<1>7. WorkAlone'
  BY DEF WorkAlone, Works, Busy, IdleReq, TypeOK
<1>8. HeldRow'
  BY DEF HeldRow, Works, Busy, IdleReq, TypeOK, Requests
<1>9. PhasesOK'
  BY Apart DEF PhasesOK, PhaseOK, Undisturbed, Works, Busy, IdleReq, TypeOK, Requests, Agree
<1>10. DamageIsContained'
  BY DEF DamageIsContained, Settled, Agree, PhasesOK, PhaseOK, Undisturbed,
         ExposedTogether, HeldRow, Works, Busy, IdleReq, TypeOK, Requests, UniqueNames,
         NoSharedHistory
<1> QED BY <1>1, <1>2, <1>3, <1>4, <1>5,
           <1>6, <1>7, <1>8, <1>9, <1>10

LEMMA UpdateRowInv ==
  ASSUME IInv, NEW h \in Handlers, UpdateRow(h) PROVE IInv'
<1> USE NoneAssumption DEF IInv, UpdateRow, Finish, Taken
<1>1. TypeOK'
  BY DEF TypeOK, IdleReq, Requests, Phases
<1>2. UniqueNames'
  BY DEF UniqueNames, TypeOK
<1>3. FreshIds'
  BY DEF FreshIds, TypeOK, IdleReq, Requests
<1>4. UnbornIds'
  BY DEF UnbornIds, TypeOK, IdleReq, Requests
<1>5. NoSharedHistory'
  BY DEF NoSharedHistory, TypeOK
<1>6. ExposedTogether'
  BY DEF ExposedTogether, Works, Busy, IdleReq, TypeOK
<1>7. WorkAlone'
  BY DEF WorkAlone, Works, Busy, IdleReq, TypeOK
<1>8. HeldRow'
  <2> SUFFICES ASSUME NEW g \in Handlers, Busy(g)', rows'[req'[g].id] # None
               PROVE  rows'[req'[g].id] \in Works(g)' \cup exposed'
    BY DEF HeldRow
  <2>1. g # h /\ Busy(h) /\ Busy(g) /\ req'[g] = req[g] /\ Works(g)' = Works(g)
    BY DEF Busy, Works, IdleReq, TypeOK
  <2>2. req[g] \in Requests /\ req[h] \in Requests
    BY <2>1 DEF TypeOK, Busy, IdleReq
  <2>3. CASE req[g].id # req[h].id
    BY <2>1, <2>2, <2>3 DEF HeldRow, TypeOK, Requests
  <2>4. CASE req[g].id = req[h].id
    <3>1. rows[req[h].id] \in (Works(g) \cap Works(h)) \cup exposed
      BY <2>1, <2>2, <2>4 DEF HeldRow, TypeOK, Requests
    <3>2. ~Undisturbed(h)
      BY <2>1, <3>1 DEF WorkAlone, PhasesOK, PhaseOK, Undisturbed, Works
    <3>3. req[h].new \in exposed
      BY <2>1, <3>2 DEF ExposedTogether, Undisturbed, Works
    <3> QED BY <2>1, <2>2, <2>4, <3>3 DEF TypeOK, Requests
  <2> QED BY <2>3, <2>4
<1>9. PhasesOK'
  <2> SUFFICES ASSUME NEW g \in Handlers, Undisturbed(g)' PROVE PhaseOK(g)'
    BY DEF PhasesOK
  <2>1. Busy(h)
    BY DEF Busy
  <2>2. CASE g = h
    BY <2>2 DEF Undisturbed, Busy, IdleReq, TypeOK
  <2>3. CASE g # h
    <3>1. req'[g] = req[g] /\ Undisturbed(g)
      BY <2>3 DEF Undisturbed, Busy, Works, TypeOK
    <3>2. PhaseOK(g)
      BY <3>1 DEF PhasesOK
    <3>3. /\ {req[g].typed, req[g].new} \cap {req[h].typed, req[h].new} = {}
          /\ rows[req[h].id] \notin {req[g].typed, req[g].new}
          /\ req[g] \in Requests /\ req[h] \in Requests
      BY <2>1, <2>3, <3>1, Apart
    <3>4. /\ rows'[req[g].id] = rows[req[g].id]
          /\ \A j \in Ids, x \in {req[g].typed, req[g].new} : rows'[j] = x <=> rows[j] = x
      BY <3>2, <3>3 DEF TypeOK, Requests, PhaseOK
    <3> QED BY <3>1, <3>2, <3>3, <3>4 DEF PhaseOK, Agree, Requests, TypeOK
  <2> QED BY <2>2, <2>3
<1>10. DamageIsContained'
  BY DEF DamageIsContained, Settled, Agree, PhasesOK, PhaseOK, Undisturbed,
         ExposedTogether, HeldRow, Works, Busy, IdleReq, TypeOK, Requests, UniqueNames,
         NoSharedHistory
<1> QED BY <1>1, <1>2, <1>3, <1>4, <1>5,
           <1>6, <1>7, <1>8, <1>9, <1>10

LEMMA UpdateRowFailsInv ==
  ASSUME IInv, NEW h \in Handlers, UpdateRowFails(h) PROVE IInv'
<1> USE NoneAssumption DEF IInv, UpdateRowFails, Finish, Expose
<1>1. TypeOK'
  BY ExposingOne DEF TypeOK, IdleReq, Requests, Phases, Works, Busy
<1>2. UniqueNames'
  BY DEF UniqueNames, TypeOK
<1>3. FreshIds'
  BY DEF FreshIds, TypeOK, IdleReq, Requests
<1>4. UnbornIds'
  BY DEF UnbornIds, TypeOK, IdleReq, Requests
<1>5. NoSharedHistory'
  BY DEF NoSharedHistory, TypeOK
<1>6. ExposedTogether'
  BY ExposingOne DEF Works, Busy, IdleReq, TypeOK, Requests
<1>7. WorkAlone'
  BY DEF WorkAlone, Works, Busy, IdleReq, TypeOK
<1>8. HeldRow'
  BY DEF HeldRow, Works, Busy, IdleReq, TypeOK, Requests
<1>9. PhasesOK'
  BY Apart DEF PhasesOK, PhaseOK, Undisturbed, Works, Busy, IdleReq, TypeOK, Requests, Agree
<1>10. DamageIsContained'
  BY DEF DamageIsContained, Settled, Agree, PhasesOK, PhaseOK, Undisturbed,
         ExposedTogether, HeldRow, Works, Busy, IdleReq, TypeOK, Requests, UniqueNames,
         NoSharedHistory
<1> QED BY <1>1, <1>2, <1>3, <1>4, <1>5,
           <1>6, <1>7, <1>8, <1>9, <1>10

LEMMA CreateInsertInv ==
  ASSUME IInv, NEW h \in Handlers, NEW n \in Names, CreateInsert(h, n) PROVE IInv'
<1> USE NoneAssumption DEF IInv
<1>1. PICK id \in Ids \ used :
        /\ rows' = [rows EXCEPT ![id] = n]
        /\ used' = used \cup {id}
        /\ Begin(h, "init", id, n, n)
  BY DEF CreateInsert
<1>2. /\ \A i \in Ids : rows[i] # n
      /\ exposed' = exposed \cup Entangled({n}) /\ disk' = disk
  BY DEF CreateInsert, Expose
<1> DEFINE r == [pc |-> "init", id |-> id, typed |-> n, new |-> n]
<1>3. r \in Requests /\ ~Busy(h) /\ req' = [req EXCEPT ![h] = r]
  BY <1>1 DEF Begin, Requests, Phases
<1> HIDE DEF r
<1>4. r.pc = "init" /\ r.id = id /\ r.typed = n /\ r.new = n
  BY DEF r
<1>5. /\ exposed' \subseteq Names
      /\ req' \in [Handlers -> Requests \cup {IdleReq}]
      /\ \A g \in Handlers : g # h => req'[g] = req[g] /\ Works(g)' = Works(g)
      /\ req'[h] = r /\ Works(h)' = {n} /\ Busy(h)'
      /\ Undisturbed(h)' => /\ exposed' = exposed /\ n \notin exposed
                            /\ \A g \in Handlers : n \notin Works(g)
      /\ ExposedTogether' /\ WorkAlone'
  <2>1. exposed' = exposed \cup Entangled({n}) \cup {} /\ {n} \in SUBSET Names
        /\ {r.typed, r.new} \subseteq {n}
    BY <1>2, <1>4
  <2>2. {r.typed, r.new} = {n}
    BY <1>4
  <2> HIDE DEF IInv
  <2>3. /\ exposed' \subseteq Names
        /\ req' \in [Handlers -> Requests \cup {IdleReq}]
        /\ \A g \in Handlers : g # h => req'[g] = req[g] /\ Works(g)' = Works(g)
        /\ req'[h] = r /\ Works(h)' = {r.typed, r.new} /\ Busy(h)'
        /\ Undisturbed(h)' => /\ exposed' = exposed /\ {n} \cap exposed = {}
                              /\ \A g \in Handlers : Works(g) \cap {n} = {}
        /\ ExposedTogether' /\ WorkAlone'
    BY <1>3, <2>1, Joining
  <2> QED BY <2>2, <2>3
<1>6. TypeOK'
  BY <1>1, <1>2, <1>5 DEF TypeOK
<1>7. UniqueNames'
  BY <1>1, <1>2 DEF UniqueNames, TypeOK
<1>8. FreshIds'
  BY <1>1, <1>2, <1>4, <1>5 DEF FreshIds, TypeOK
<1>9. UnbornIds'
  BY <1>1, <1>2, <1>4, <1>5 DEF UnbornIds, FreshIds, TypeOK
<1>10. NoSharedHistory'
  BY <1>2 DEF NoSharedHistory
<1>11. HeldRow'
  BY <1>1, <1>2, <1>4, <1>5 DEF HeldRow, FreshIds, TypeOK, Busy, Requests, IdleReq
<1>12. PhasesOK'
  <2> SUFFICES ASSUME NEW g \in Handlers, Undisturbed(g)' PROVE PhaseOK(g)'
    BY DEF PhasesOK
  <2>1. CASE g = h
    <3>1. n \notin exposed /\ \A k \in Handlers : n \notin Works(k)
      BY <2>1, <1>5
    <3>2. disk[n] = None
      BY <3>1, <1>2 DEF DamageIsContained, Settled, Agree, TypeOK
    <3> QED BY <2>1, <3>2, <1>1, <1>2, <1>4, <1>5 DEF PhaseOK, TypeOK
  <2>2. CASE g # h
    <3>1. req'[g] = req[g] /\ Undisturbed(g) /\ PhaseOK(g)
      BY <2>2, <1>2, <1>5 DEF Undisturbed, Busy, PhasesOK
    <3>2. n \notin Works(g)
      BY <2>2, <3>1, <1>5 DEF WorkAlone, Undisturbed
    <3>3. n \notin {req[g].typed, req[g].new} /\ req[g] \in Requests
      BY <3>1, <3>2 DEF Undisturbed, Works, Busy, TypeOK, IdleReq
    <3>4. req[g].id # id
      BY <2>2, <1>1 DEF FreshIds
    <3>5. /\ rows'[req[g].id] = rows[req[g].id]
          /\ \A j \in Ids, x \in {req[g].typed, req[g].new} : rows'[j] = x <=> rows[j] = x
      BY <3>3, <3>4, <1>1 DEF FreshIds, Requests, TypeOK
    <3> QED BY <3>1, <3>3, <3>5, <1>2 DEF PhaseOK, Agree, Requests
  <2> QED BY <2>1, <2>2
<1>13. DamageIsContained'
  <2> SUFFICES ASSUME NEW x \in Names, Settled(x)' PROVE Agree(x)'
    BY DEF DamageIsContained
  <2>1. x # n /\ Settled(x)
    BY <1>2, <1>4, <1>5, <1>3 DEF Settled, Works
  <2>2. \A i \in Ids : rows'[i] = x <=> rows[i] = x
    BY <2>1, <1>1 DEF FreshIds, TypeOK
  <2> QED BY <2>1, <2>2, <1>2 DEF DamageIsContained, Agree
<1> QED BY <1>5, <1>6, <1>7, <1>8, <1>9, <1>10, <1>11, <1>12, <1>13

(***************************************************************************)
(* A lookup: handler h takes up row id for a request on the names of S.    *)
(***************************************************************************)
LEMMA LookupInv ==
  ASSUME IInv, NEW h \in Handlers, NEW t \in Names, NEW m \in Names, NEW id \in Found(t),
         NEW phase, (phase = "remove" /\ m = t) \/ phase = "move",
         Begin(h, phase, id, t, m), Expose(LookupExposes({t, m}, t, id)),
         UNCHANGED <<rows, used, disk>>
  PROVE  IInv'
<1> USE NoneAssumption DEF IInv
<1> DEFINE r == [pc |-> phase, id |-> id, typed |-> t, new |-> m]
           T == {t, m, rows[id]}
           X == IF rows[id] = t THEN {} ELSE T
<1>1. id \in Ids /\ rows[id] \in Names
  BY DEF Found, TypeOK
<1>2. exposed' = exposed \cup Entangled(T) \cup X
  <2>1. T = {t, m} \cup {rows[id]}
    OBVIOUS
  <2> QED BY <2>1 DEF Expose, LookupExposes
<1>3. r \in Requests /\ ~Busy(h) /\ req' = [req EXCEPT ![h] = r]
  BY <1>1 DEF Begin, Requests, Phases
<1>4. r.pc = phase /\ r.id = id /\ r.typed = t /\ r.new = m
  OBVIOUS
<1>5. T \in SUBSET Names /\ {t, m} \subseteq T /\ (X = {} \/ X = T) /\ rows[id] \in T
      /\ (X = {} => rows[id] = t)
  BY <1>1
<1> HIDE DEF r, T, X
<1>6. /\ exposed' \subseteq Names
      /\ req' \in [Handlers -> Requests \cup {IdleReq}]
      /\ \A g \in Handlers : g # h => req'[g] = req[g] /\ Works(g)' = Works(g)
      /\ req'[h] = r /\ Works(h)' = {t, m} /\ Busy(h)'
      /\ Undisturbed(h)' => /\ exposed' = exposed /\ T \cap exposed = {}
                            /\ \A g \in Handlers : Works(g) \cap T = {}
      /\ ExposedTogether' /\ WorkAlone'
  <2> HIDE DEF IInv
  <2> QED BY <1>2, <1>3, <1>4, <1>5, Joining
<1>7. TypeOK'
  BY <1>6 DEF TypeOK
<1>8. UniqueNames' /\ NoSharedHistory'
  BY DEF UniqueNames, NoSharedHistory
<1>9. FreshIds'
  BY <1>1, <1>4, <1>6, <1>5 DEF FreshIds, TypeOK
<1>10. UnbornIds'
  BY <1>4, <1>6 DEF UnbornIds
<1>11. rows[id] = t \/ rows[id] \in exposed'
  BY <1>2, <1>5
<1>12. HeldRow'
  BY <1>2, <1>4, <1>6, <1>11 DEF HeldRow, Busy
<1>13. Undisturbed(h)' => rows[id] = t /\ disk[t] = id /\ Agree(m)
  <2> SUFFICES ASSUME Undisturbed(h)' PROVE rows[id] = t /\ disk[t] = id /\ Agree(m)
    OBVIOUS
  <2>1. rows[id] = t
    BY <1>5, <1>6, <1>11
  <2>2. Settled(t) /\ Settled(m)
    BY <1>5, <1>6 DEF Settled
  <2> QED BY <2>1, <2>2, <1>1 DEF DamageIsContained, Agree
<1>14. PhasesOK'
  <2> SUFFICES ASSUME NEW g \in Handlers, Undisturbed(g)' PROVE PhaseOK(g)'
    BY DEF PhasesOK
  <2>1. CASE g = h
    BY <2>1, <1>4, <1>6, <1>13 DEF PhaseOK, Agree
  <2>2. CASE g # h
    <3>1. req'[g] = req[g] /\ Undisturbed(g) /\ PhaseOK(g)
      BY <2>2, <1>2, <1>6 DEF Undisturbed, Busy, PhasesOK
    <3> QED BY <3>1 DEF PhaseOK, Agree
  <2> QED BY <2>1, <2>2
<1>15. DamageIsContained'
  <2> SUFFICES ASSUME NEW x \in Names, Settled(x)' PROVE Agree(x)'
    BY DEF DamageIsContained
  <2>1. Settled(x)
    BY <1>2, <1>3, <1>6 DEF Settled, Works
  <2> QED BY <2>1 DEF DamageIsContained, Agree
<1> QED BY <1>6, <1>7, <1>8, <1>9, <1>10, <1>12, <1>14, <1>15

LEMMA DeleteLookupInv ==
  ASSUME IInv, NEW h \in Handlers, NEW t \in Names, DeleteLookup(h, t) PROVE IInv'
<1>1. PICK id \in Found(t) :
        /\ Begin(h, "remove", id, t, t)
        /\ Expose(LookupExposes({t}, t, id))
        /\ UNCHANGED <<rows, used, disk>>
  BY DEF DeleteLookup
<1>2. {t, t} = {t}
  OBVIOUS
<1> QED BY <1>1, <1>2, LookupInv

LEMMA RenameLookupInv ==
  ASSUME IInv, NEW h \in Handlers, NEW t \in Names, NEW m \in Names, RenameLookup(h, t, m)
  PROVE  IInv'
BY LookupInv DEF RenameLookup

LEMMA CrashInv == ASSUME IInv, Crash PROVE IInv'
<1> USE NoneAssumption DEF IInv
<1> DEFINE Mid == {g \in Handlers : Midway(g)}
<1>1. /\ req' = [h \in Handlers |-> IdleReq]
      /\ exposed' = exposed \cup UNION {Works(h) : h \in Mid}
      /\ UNCHANGED <<rows, used, disk>>
  BY DEF Crash, Expose
<1>2. \A h \in Handlers : Works(h) \subseteq Names /\ Works(h)' = {} /\ ~Busy(h)'
  BY <1>1 DEF Works, Busy, IdleReq, TypeOK, Requests
<1>3. \A h \in Mid : Works(h) \subseteq exposed'
  BY <1>1
<1>4. TypeOK'
  BY <1>1, <1>2 DEF TypeOK
<1>5. UniqueNames' /\ NoSharedHistory' /\ FreshIds' /\ UnbornIds'
  BY <1>1 DEF UniqueNames, NoSharedHistory, FreshIds, UnbornIds, IdleReq, TypeOK
<1>6. ExposedTogether' /\ WorkAlone' /\ HeldRow' /\ PhasesOK'
  BY <1>2 DEF ExposedTogether, WorkAlone, HeldRow, PhasesOK, Undisturbed
<1>7. DamageIsContained'
  <2> SUFFICES ASSUME NEW n \in Names, n \notin exposed' PROVE Agree(n)'
    BY DEF DamageIsContained, Settled
  <2>1. CASE \A h \in Handlers : n \notin Works(h)
    BY <2>1, <1>1 DEF DamageIsContained, Settled, Agree
  <2>2. CASE \E h \in Handlers : n \in Works(h)
    <3>1. PICK h \in Handlers : n \in Works(h)
      BY <2>2
    <3>2. Undisturbed(h) /\ ~Midway(h) /\ n \notin exposed
      BY <3>1, <1>1, <1>3 DEF ExposedTogether, Undisturbed, Works
    <3>3. req[h].pc \in {"remove", "move"} /\ req[h] \in Requests
      BY <3>2 DEF Midway, Undisturbed, Busy, TypeOK, Requests, Phases, IdleReq
    <3>4. PhaseOK(h) /\ n \in {req[h].typed, req[h].new}
      BY <3>1, <3>2 DEF PhasesOK, Works
    <3> QED BY <3>3, <3>4, <1>1 DEF PhaseOK, Agree, UniqueNames, NoSharedHistory, TypeOK, Requests
  <2> QED BY <2>1, <2>2
<1> QED BY <1>4, <1>5, <1>6, <1>7

LEMMA NextInv == IInv /\ [Next]_vars => IInv'
<1> SUFFICES ASSUME IInv, [Next]_vars PROVE IInv'
  OBVIOUS
<1>1. ASSUME NEW h \in Handlers, Start(h) PROVE IInv'
  BY <1>1, CreateInsertInv, DeleteLookupInv, RenameLookupInv DEF Start
<1>2. ASSUME NEW h \in Handlers, Proceed(h) PROVE IInv'
  BY <1>2, GitInitInv, GitInitRefusedInv, GitInitBreaksInv, UndoInsertInv, UndoInsertFailsInv,
     RemoveAllInv, RemoveAllFailsInv, DeleteRowInv, DeleteRowFailsInv,
     MoveDirInv, MoveDirFailsInv, UpdateRowInv, UpdateRowFailsInv DEF Proceed
<1>3. CASE UNCHANGED vars
  BY <1>3 DEF vars, IInv, TypeOK, UniqueNames, FreshIds, UnbornIds, NoSharedHistory,
     ExposedTogether, WorkAlone, HeldRow, PhasesOK, Undisturbed, PhaseOK,
     DamageIsContained, Settled, Agree, Works, Busy
<1> QED BY <1>1, <1>2, <1>3, CrashInv DEF Next

(***************************************************************************)
(* The inductive invariant of the repository life cycle holds in every     *)
(* state: each phase of each request, and the agreement of rows and disk.  *)
(***************************************************************************)
THEOREM Invariance == Spec => []IInv
  BY InitInv, NextInv, PTL DEF Spec

(***************************************************************************)
(* Every variable keeps its type.                                          *)
(***************************************************************************)
THEOREM TypeCorrect == Spec => []TypeOK
  BY Invariance, PTL DEF IInv

(***************************************************************************)
(* Under any interleaving, failure, crash and spelling, table and git root *)
(* disagree only about names on which a request was disturbed.             *)
(***************************************************************************)
THEOREM Containment == Spec => []DamageIsContained
  BY Invariance, PTL DEF IInv

(***************************************************************************)
(* No two names ever hold the history of the same repository.              *)
(***************************************************************************)
THEOREM OneHistoryOnePlace == Spec => []NoSharedHistory
  BY Invariance, PTL DEF IInv

(***************************************************************************)
(* On names that are not exposed git init finds no directory and the       *)
(* UPDATE of a rename finds the new name free.                             *)
(***************************************************************************)
THEOREM NoSurprise == Spec => []NoSurpriseAfterFirstWrite
<1>1. IInv => NoSurpriseAfterFirstWrite
  BY DEF IInv, PhasesOK, Undisturbed, PhaseOK, NoSurpriseAfterFirstWrite, Taken
<1> QED BY <1>1, Invariance, PTL

-----------------------------------------------------------------------------
(* The action property and the refinement                                  *)


(***************************************************************************)
(* On a name that is not exposed a history disappears only in the delete   *)
(* request that looked up its own repository.                              *)
(***************************************************************************)
THEOREM OwnDelete == Spec => OnlyItsOwnDeleteDestroys
<1> USE NoneAssumption
<1> DEFINE Own == \A n \in Names \ exposed : disk[n] # None /\ Lost(disk[n]) =>
                    \E h \in Handlers : /\ req[h].pc = "remove" /\ req'[h].pc = "unrow"
                                        /\ req[h].id = disk[n] /\ rows[disk[n]] = n
<1>1. ASSUME IInv, Next, NEW n \in Names, n \notin exposed, disk[n] # None, Lost(disk[n])
      PROVE  \E h \in Handlers : /\ req[h].pc = "remove" /\ req'[h].pc = "unrow"
                                 /\ req[h].id = disk[n] /\ rows[disk[n]] = n
  <2>1. disk' # disk /\ disk'[n] # disk[n]
    BY <1>1 DEF Lost
  <2>2. PICK h \in Handlers : Proceed(h)
    BY <1>1, <2>1 DEF Next, Start, Crash, CreateInsert, DeleteLookup, RenameLookup
  <2>3. GitInit(h) \/ GitInitBreaks(h) \/ RemoveAll(h) \/ MoveDir(h)
    BY <2>1, <2>2 DEF Proceed, GitInitRefused, UndoInsert, UndoInsertFails, RemoveAllFails,
       DeleteRow, DeleteRowFails, MoveDirFails, UpdateRow, UpdateRowFails
  <2>4. req[h] \in Requests
    BY <1>1, <2>3 DEF IInv, TypeOK, GitInit, GitInitBreaks, RemoveAll, MoveDir, Goto, Finish, IdleReq
  <2>5. ~GitInit(h) /\ ~GitInitBreaks(h)
    BY <1>1, <2>1 DEF GitInit, GitInitBreaks, InitDir, IInv, TypeOK
  <2>6. ~MoveDir(h)
    <3> SUFFICES ASSUME MoveDir(h) PROVE FALSE
      OBVIOUS
    <3>1. /\ req[h].typed \in Names /\ req[h].new \in Names /\ req[h].typed # req[h].new
          /\ disk' = [disk EXCEPT ![req[h].typed] = None, ![req[h].new] = disk[req[h].typed]]
      BY <2>4 DEF MoveDir, Requests
    <3>2. disk \in [Names -> Ids \cup {None}]
      BY <1>1 DEF IInv, TypeOK
    <3>3. disk'[req[h].new] = disk[req[h].typed]
      BY <3>1, <3>2
    <3>4. CASE n = req[h].typed
      BY <3>1, <3>3, <3>4, <1>1 DEF Lost
    <3>5. CASE n # req[h].typed
      BY <3>1, <3>2, <3>5, <1>1, <2>1 DEF MoveDir
    <3> QED BY <3>4, <3>5
  <2>7. RemoveAll(h) /\ n = req[h].typed
    BY <2>1, <2>3, <2>4, <2>5, <2>6, <1>1 DEF RemoveAll, IInv, TypeOK, Requests
  <2>8. Undisturbed(h)
    BY <2>7, <1>1 DEF IInv, ExposedTogether, Undisturbed, Works, Busy, RemoveAll, Goto
  <2>9. PhaseOK(h) /\ req[h].pc = "remove" /\ req'[h].pc = "unrow"
    BY <2>7, <2>8, <1>1 DEF IInv, PhasesOK, RemoveAll, Goto, TypeOK
  <2> QED BY <2>7, <2>9 DEF PhaseOK
<1>2. IInv /\ [Next]_vars => [Own]_vars
  BY <1>1
<1> QED BY <1>2, Invariance, PTL DEF Spec, OnlyItsOwnDeleteDestroys

-----------------------------------------------------------------------------
(* The refinement                                                          *)

LEMMA WhereHeld ==
  ASSUME IInv PROVE \A id \in Ids, n \in Names : disk[n] = id => Where[id] = n
  BY NoneAssumption DEF IInv, NoSharedHistory, Where

LEMMA WhereHeldNext ==
  ASSUME IInv' PROVE \A id \in Ids, n \in Names : disk'[n] = id => Where'[id] = n
  BY NoneAssumption DEF IInv, NoSharedHistory, Where

\* Where an id that no directory holds is.
LEMMA WhereElse ==
  \A id \in Ids : (\A n \in Names : disk[n] # id) =>
    Where[id] = IF id \notin used \/ Creating(id) THEN "unborn" ELSE "gone"
  BY DEF Where

LEMMA WhereElseNext ==
  \A id \in Ids : (\A n \in Names : disk'[n] # id) =>
    Where'[id] = IF id \notin used' \/ Creating(id)' THEN "unborn" ELSE "gone"
  BY DEF Where

LEMMA WhereType == Where \in [Ids -> Names \cup {"unborn", "gone"}]
<1>1. \A id \in Ids : (\E n \in Names : disk[n] = id) =>
        (CHOOSE n \in Names : disk[n] = id) \in Names
  OBVIOUS
<1> QED BY <1>1 DEF Where

LEMMA WhereTypeNext == Where' \in [Ids -> Names \cup {"unborn", "gone"}]
<1>1. \A id \in Ids : (\E n \in Names : disk'[n] = id) =>
        (CHOOSE n \in Names : disk'[n] = id) \in Names
  OBVIOUS
<1> QED BY <1>1 DEF Where

\* A step that moves no directory changes Where only by giving creations up.
LEMMA DiskKept ==
  ASSUME IInv, IInv', disk' = disk,
         \A id \in Ids : \/ (id \notin used' \/ Creating(id)') = (id \notin used \/ Creating(id))
                         \/ id \in used' /\ ~Creating(id)' /\ (id \notin used \/ Creating(id))
  PROVE  Registry!Abandon
<1>1. ASSUME NEW id \in Ids, Where'[id] # Where[id]
      PROVE  Where[id] = "unborn" /\ Where'[id] = "gone"
  <2>1. \A n \in Names : disk[n] # id
    BY <1>1, WhereHeld, WhereHeldNext
  <2> QED BY <1>1, <2>1, WhereElse, WhereElseNext
<1> QED BY <1>1, WhereTypeNext DEF Registry!Abandon

\* git init, whether it succeeds or breaks off: the history is written or given up.
LEMMA InitStep ==
  ASSUME IInv, IInv', NEW h \in Handlers, req[h].pc = "init",
         disk' = InitDir(req[h].typed, req[h].id), used' = used, req'[h].pc # "init",
         \A g \in Handlers : g # h => req'[g] = req[g]
  PROVE  Registry!Next
<1>0. PICK i, n : i = req[h].id /\ n = req[h].typed
  OBVIOUS
<1> USE <1>0
<1>1. i \in Ids /\ n \in Names /\ i \in used
  BY NoneAssumption DEF IInv, TypeOK, IdleReq, Requests, FreshIds
<1>2. (\A m \in Names : disk[m] # i) /\ Creating(i) /\ ~Creating(i)'
  <2>1. \A g \in Handlers : g # h => ~(req[g].pc = "init" /\ req[g].id = i)
    BY DEF IInv, UnbornIds
  <2>2. ~Creating(i)'
    BY <2>1 DEF Creating
  <2> QED BY <2>2 DEF IInv, UnbornIds, Creating
<1>3. \A j \in Ids : j # i => Creating(j)' = Creating(j)
  BY DEF Creating
<1>4. Where[i] = "unborn"
  BY <1>1, <1>2, WhereElse
<1>5. CASE disk[n] = None
  <2>1. disk' = [disk EXCEPT ![n] = i]
    BY <1>5 DEF InitDir
  <2>2. disk \in [Names -> Ids \cup {None}]
    BY DEF IInv, TypeOK
  <2>3. Where'[i] = n
    BY <1>1, <2>1, <2>2, WhereHeldNext
  <2>4. ASSUME NEW j \in Ids, j # i PROVE Where'[j] = Where[j] /\ Where[j] # n
    <3>1. CASE \E m \in Names : disk[m] = j
      BY <1>1, <1>5, <2>1, <2>2, <2>4, <3>1, WhereHeld, WhereHeldNext, NoneAssumption
    <3>2. CASE \A m \in Names : disk[m] # j
      BY <1>1, <1>3, <2>1, <2>2, <2>4, <3>2, WhereElse, WhereElseNext, NamesAssumption
    <3> QED BY <3>1, <3>2
  <2>5. Registry!Write(i, n)
    <3>1. Where' = [Where EXCEPT ![i] = n]
      BY <1>1, <2>3, <2>4, WhereType, WhereTypeNext
    <3>2. \A j \in Ids : Where[j] # n
      BY <1>1, <1>4, <2>4, NamesAssumption
    <3> QED BY <1>4, <3>1, <3>2 DEF Registry!Write, Registry!Free
  <2> QED BY <1>1, <2>5 DEF Registry!Next
<1>6. CASE disk[n] # None
  <2>1. disk' = disk
    BY <1>6 DEF InitDir
  <2> QED BY <2>1, <1>1, <1>2, <1>3, DiskKept DEF Registry!Next
<1> QED BY <1>5, <1>6

LEMMA RemoveAllStep ==
  ASSUME IInv, IInv', NEW h \in Handlers, RemoveAll(h)
  PROVE  Registry!Next
<1> DEFINE n == req[h].typed
           i == disk[n]
<1>1. n \in Names /\ disk \in [Names -> Ids \cup {None}] /\ disk' = [disk EXCEPT ![n] = None]
  BY DEF RemoveAll, Goto, IInv, TypeOK, IdleReq, Requests
<1>2. \A j \in Ids : Creating(j)' = Creating(j)
  BY DEF RemoveAll, Goto, Creating, IInv, TypeOK, IdleReq, Requests
<1>3. used' = used
  BY DEF RemoveAll
<1>4. CASE i = None
  <2>1. disk' = disk
    BY <1>1, <1>4
  <2> QED BY <2>1, <1>2, <1>3, DiskKept DEF Registry!Next
<1>5. CASE i # None
  <2>1. i \in Ids /\ Where[i] = n
    BY <1>1, <1>5, WhereHeld
  <2>2. \A m \in Names : disk'[m] # i
    BY <1>1, <1>5, <2>1, NoneAssumption DEF IInv, NoSharedHistory
  <2>3. i \in used /\ ~Creating(i)
    BY <1>1, <2>1 DEF IInv, FreshIds, UnbornIds, Creating
  <2>4. Where'[i] = "gone"
    BY <1>2, <1>3, <2>1, <2>2, <2>3, WhereElseNext
  <2>5. ASSUME NEW j \in Ids, j # i PROVE Where'[j] = Where[j]
    <3>1. CASE \E m \in Names : disk[m] = j
      BY <1>1, <2>5, <3>1, WhereHeld, WhereHeldNext
    <3>2. CASE \A m \in Names : disk[m] # j
      BY <1>1, <1>2, <1>3, <2>5, <3>2, WhereElse, WhereElseNext, NoneAssumption
    <3> QED BY <3>1, <3>2
  <2>6. Where' = [Where EXCEPT ![i] = "gone"]
    BY <2>1, <2>4, <2>5, WhereType, WhereTypeNext
  <2> QED BY <1>1, <2>1, <2>6 DEF Registry!Next, Registry!Erase
<1> QED BY <1>4, <1>5

LEMMA MoveDirStep ==
  ASSUME IInv, IInv', NEW h \in Handlers, MoveDir(h)
  PROVE  Registry!Next
<1> DEFINE n == req[h].typed
           m == req[h].new
           i == disk[n]
<1>1. /\ n \in Names /\ m \in Names /\ n # m
      /\ disk \in [Names -> Ids \cup {None}] /\ disk[m] = None /\ i \in Ids
      /\ disk' = [disk EXCEPT ![n] = None, ![m] = i]
  BY DEF MoveDir, Goto, IInv, TypeOK, IdleReq, Requests
<1>2. \A j \in Ids : Creating(j)' = Creating(j)
  BY DEF MoveDir, Goto, Creating, IInv, TypeOK, IdleReq, Requests
<1>3. used' = used
  BY DEF MoveDir
<1>4. Where[i] = n /\ Where'[i] = m
  BY <1>1, WhereHeld, WhereHeldNext
<1>5. ASSUME NEW j \in Ids, j # i PROVE Where'[j] = Where[j] /\ Where[j] # m
  <2>1. CASE \E x \in Names : disk[x] = j
    BY <1>1, <1>5, <2>1, WhereHeld, WhereHeldNext, NoneAssumption
  <2>2. CASE \A x \in Names : disk[x] # j
    BY <1>1, <1>2, <1>3, <1>5, <2>2, WhereElse, WhereElseNext, NoneAssumption, NamesAssumption
  <2> QED BY <2>1, <2>2
<1>6. Where' = [Where EXCEPT ![i] = m]
  BY <1>1, <1>4, <1>5, WhereType, WhereTypeNext
<1>7. Registry!Free(m)
  BY <1>1, <1>4, <1>5 DEF Registry!Free
<1> QED BY <1>1, <1>4, <1>6, <1>7 DEF Registry!Next, Registry!Move

\* Every step of the handlers is a step of the registry or leaves it unchanged.
LEMMA StepSimulates ==
  ASSUME IInv, IInv', [Next]_vars PROVE [Registry!Next]_Where
<1>1. ASSUME disk' = disk,
             \A id \in Ids : (id \notin used \/ Creating(id))' = (id \notin used \/ Creating(id))
      PROVE  Registry!Next
  BY <1>1, DiskKept DEF Registry!Next
<1>2. ASSUME NEW h \in Handlers, NEW n \in Names, CreateInsert(h, n) PROVE Registry!Next
  <2>1. PICK id \in Ids \ used : used' = used \cup {id} /\ Begin(h, "init", id, n, n) /\ disk' = disk
    BY <1>2 DEF CreateInsert
  <2>2. Creating(id)' /\ \A j \in Ids : j # id => Creating(j)' = Creating(j)
    BY <2>1 DEF Begin, Busy, Creating, IInv, TypeOK
  <2> QED BY <1>1, <2>1, <2>2
<1>3. ASSUME NEW h \in Handlers, req[h].pc # "init", req'[h].pc # "init",
             \A g \in Handlers : g # h => req'[g] = req[g], disk' = disk, used' = used
      PROVE  Registry!Next
  <2>1. \A id \in Ids : Creating(id)' = Creating(id)
    BY <1>3 DEF Creating
  <2> QED BY <1>1, <1>3, <2>1
<1>4. ASSUME NEW h \in Handlers, NEW t \in Names, NEW m \in Names,
             DeleteLookup(h, t) \/ RenameLookup(h, t, m)
      PROVE  Registry!Next
  <2>1. /\ req[h].pc # "init" /\ req'[h].pc # "init"
        /\ \A g \in Handlers : g # h => req'[g] = req[g]
        /\ disk' = disk /\ used' = used
    BY <1>4 DEF DeleteLookup, RenameLookup, Begin, Busy, IInv, TypeOK
  <2> QED BY <1>3, <2>1
<1>5. ASSUME NEW h \in Handlers, UndoInsert(h) \/ UndoInsertFails(h) \/ RemoveAllFails(h) \/
             DeleteRow(h) \/ DeleteRowFails(h) \/ MoveDirFails(h) \/ UpdateRow(h) \/ UpdateRowFails(h)
      PROVE  Registry!Next
  <2>1. /\ disk' = disk /\ used' = used
        /\ \/ \E from \in Phases \ {"init"} : Finish(h, from)
           \/ Goto(h, "remove", "unrow")
    BY <1>5 DEF UndoInsert, UndoInsertFails, RemoveAllFails, DeleteRow, DeleteRowFails,
       MoveDirFails, UpdateRow, UpdateRowFails, Phases
  <2>2. req \in [Handlers -> Requests \cup {IdleReq}]
    BY DEF IInv, TypeOK
  <2>3. /\ req[h].pc # "init" /\ req'[h].pc # "init"
        /\ \A g \in Handlers : g # h => req'[g] = req[g]
    BY <2>1, <2>2 DEF Finish, Goto, IdleReq, Requests
  <2> QED BY <1>3, <2>1, <2>3
<1>6. ASSUME NEW h \in Handlers, GitInit(h) \/ GitInitBreaks(h) PROVE Registry!Next
  <2>1. /\ disk' = InitDir(req[h].typed, req[h].id) /\ used' = used
        /\ Finish(h, "init") \/ Goto(h, "init", "undo")
    BY <1>6 DEF GitInit, GitInitBreaks
  <2>2. req \in [Handlers -> Requests \cup {IdleReq}]
    BY DEF IInv, TypeOK
  <2>3. /\ req[h].pc = "init" /\ req'[h].pc # "init"
        /\ \A g \in Handlers : g # h => req'[g] = req[g]
    BY <2>1, <2>2 DEF Finish, Goto, IdleReq, Requests
  <2> QED BY <2>1, <2>3, InitStep
<1>7. ASSUME NEW h \in Handlers, GitInitRefused(h) PROVE Registry!Next
  <2>1. /\ disk' = disk /\ used' = used
        /\ \A id \in Ids : Creating(id)' => Creating(id)
        /\ \A id \in Ids : Creating(id) => id \in used
    BY <1>7 DEF GitInitRefused, Goto, Creating, IInv, TypeOK, FreshIds
  <2> QED BY <2>1, DiskKept DEF Registry!Next
<1>8. ASSUME Crash PROVE Registry!Next
  <2>1. /\ disk' = disk /\ used' = used
        /\ \A id \in Ids : ~Creating(id)'
        /\ \A id \in Ids : Creating(id) => id \in used
    BY <1>8 DEF Crash, Creating, IdleReq, IInv, TypeOK, FreshIds
  <2> QED BY <2>1, DiskKept DEF Registry!Next
<1>9. CASE UNCHANGED vars
  BY <1>9 DEF vars, Where, Creating
<1>10. ASSUME NEW h \in Handlers, Start(h) PROVE Registry!Next
  BY <1>10, <1>2, <1>4 DEF Start
<1>11. ASSUME NEW h \in Handlers, Proceed(h) PROVE Registry!Next
  BY <1>11, <1>5, <1>6, <1>7, RemoveAllStep, MoveDirStep DEF Proceed
<1> QED BY <1>8, <1>9, <1>10, <1>11 DEF Next

(***************************************************************************)
(* The git root implements the abstract registry of histories.             *)
(***************************************************************************)
THEOREM ImplementsRegistry == Spec => RegistrySpec
<1>1. Init => Registry!Init
  BY NoneAssumption DEF Init, Registry!Init, Where
<1>2. IInv /\ IInv' /\ [Next]_vars => [Registry!Next]_Where
  BY StepSimulates
<1> QED BY <1>1, <1>2, Invariance, PTL DEF Spec, RegistrySpec, Registry!Spec

-----------------------------------------------------------------------------
(* One request at a time                                                   *)

Sequential ==
  /\ \A g, h \in Handlers : g = h
  /\ Faults = {}
  /\ \A m, n \in Names : Canon[m] = Canon[n] => m = n

\* No step exposes anything.
LEMMA SequentialStep ==
  ASSUME Sequential, IInv, exposed = {}, [Next]_vars PROVE exposed' = {}
<1>1. ASSUME NEW h \in Handlers, ~Busy(h), NEW S PROVE Entangled(S) = {}
  BY <1>1 DEF Sequential, Entangled, Works
<1>2. ASSUME NEW h \in Handlers, NEW n \in Names, CreateInsert(h, n) PROVE exposed' = {}
  BY <1>1, <1>2 DEF CreateInsert, Begin, Expose
<1>3. ASSUME NEW h \in Handlers, NEW t \in Names, NEW S, NEW id \in Found(t), ~Busy(h)
      PROVE  LookupExposes(S, t, id) = {}
  <2>1. rows[id] = t
    BY <1>3, NoneAssumption DEF Found, Sequential, IInv, TypeOK
  <2> QED BY <1>1, <1>3, <2>1 DEF LookupExposes
<1>4. ASSUME NEW h \in Handlers, NEW t \in Names, DeleteLookup(h, t) PROVE exposed' = {}
  BY <1>3, <1>4 DEF DeleteLookup, Begin, Expose
<1>5. ASSUME NEW h \in Handlers, NEW t \in Names, NEW m \in Names, RenameLookup(h, t, m)
      PROVE  exposed' = {}
  BY <1>3, <1>5 DEF RenameLookup, Begin, Expose
<1>6. ASSUME NEW h \in Handlers, UpdateRowFails(h) PROVE FALSE
  <2>1. Undisturbed(h)
    BY <1>6 DEF UpdateRowFails, Finish, Undisturbed, Busy
  <2>2. ~Taken(req[h].id, req[h].new)
    BY <1>6, <2>1 DEF IInv, PhasesOK, PhaseOK, UpdateRowFails, Finish, Taken
  <2> QED BY <1>6, <2>2 DEF UpdateRowFails, Sequential
<1>7. ASSUME NEW h \in Handlers, Proceed(h) PROVE exposed' = {}
  BY <1>6, <1>7 DEF Proceed, GitInit, GitInitRefused, GitInitBreaks, UndoInsert,
     UndoInsertFails, RemoveAll, RemoveAllFails, DeleteRow, DeleteRowFails, MoveDir,
     MoveDirFails, UpdateRow, Sequential
<1>8. ~Crash
  BY DEF Crash, Sequential
<1>9. CASE UNCHANGED vars
  BY <1>9 DEF vars
<1> QED BY <1>2, <1>4, <1>5, <1>7, <1>8, <1>9 DEF Next, Start

(***************************************************************************)
(* With one handler, no failure and names that are never misspelt nothing  *)
(* is exposed, so table and git root agree whenever the handler rests.     *)
(***************************************************************************)
THEOREM SequentialInStep == Sequential /\ Spec => []InStep
<1> DEFINE J == Sequential /\ exposed = {}
<1>1. Sequential /\ Init => J
  BY DEF Init
<1>2. IInv /\ J /\ [Next]_vars => J'
  BY SequentialStep DEF Sequential
<1>3. IInv /\ J => InStep
  BY DEF IInv, DamageIsContained, InStep
<1> QED BY <1>1, <1>2, <1>3, Invariance, PTL DEF Spec

(***************************************************************************)
(* Under the same conditions git init finds no directory, as the comment   *)
(* on git.Init has it: the run RepoCaseFold needs a second spelling.       *)
(***************************************************************************)
THEOREM SequentialCreatesNew == Sequential /\ Spec => []InitCreatesNew
<1>1. IInv /\ InStep => InitCreatesNew
  BY DEF IInv, InStep, PhasesOK, Undisturbed, Busy, PhaseOK, InitCreatesNew
<1> QED BY <1>1, SequentialInStep, Invariance, PTL
=============================================================================
