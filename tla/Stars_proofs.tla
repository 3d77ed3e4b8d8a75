---------------------------- MODULE Stars_proofs ---------------------------
(***************************************************************************)
(* stars_count is exact, or errs upwards, for any number of users, tabs    *)
(* and stars; and the button of an only tab is truthful.                   *)
(***************************************************************************)
EXTENDS Stars, FiniteSetTheorems, TLAPS

\* Without a race or a failed statement each increment due is for a star that
\* is there, and for a star of its own.
PlusStands ==
  /\ \A t \in AllAt("plus") : Who[t] \in starred
  /\ \A t, u \in AllAt("plus") : Who[t] = Who[u] => t = u

CountInv ==
  /\ TypeOK
  /\ IsFiniteSet(starred)
  /\ NeverUndercounts
  /\ CountExact
  /\ mishaps \cap {"race", "db"} = {} => PlusStands

-----------------------------------------------------------------------------

\* How one step of a tab changes the set, and the number, of the tabs in a phase.
LEMMA PhaseSet ==
  ASSUME TypeOK, NEW t \in Tabs, NEW from \in Phases, NEW to \in Phases, Goto(t, from, to),
         NEW phase \in Phases
  PROVE  /\ AllAt(phase)' = IF to = phase THEN AllAt(phase) \cup {t} ELSE AllAt(phase) \ {t}
         /\ t \in AllAt(phase) <=> from = phase
  BY DEF TypeOK, Goto, AllAt

LEMMA PhaseFinite ==
  ASSUME NEW phase
  PROVE  IsFiniteSet(AllAt(phase)) /\ Cardinality(AllAt(phase)) \in Nat
  BY TabsAssumption, FS_Subset, FS_CardinalityType DEF AllAt

LEMMA PhaseCount ==
  ASSUME TypeOK, NEW t \in Tabs, NEW from \in Phases, NEW to \in Phases, Goto(t, from, to),
         NEW phase \in Phases
  PROVE  Cardinality(AllAt(phase)') =
           Cardinality(AllAt(phase)) + (IF to = phase THEN 1 ELSE 0)
                                     - (IF from = phase THEN 1 ELSE 0)
<1>1. CASE to = phase
  BY <1>1, PhaseSet, PhaseFinite, FS_AddElement
<1>2. CASE to # phase
  BY <1>2, PhaseSet, PhaseFinite, FS_RemoveElement
<1> QED BY <1>1, <1>2

LEMMA DueOwed ==
  ASSUME TypeOK, NEW t \in Tabs, NEW from \in Phases, NEW to \in Phases, Goto(t, from, to)
  PROVE  /\ Due \in Nat /\ Owed \in Nat
         /\ Due' = Due + (IF to = "plus" THEN 1 ELSE 0) - (IF from = "plus" THEN 1 ELSE 0)
         /\ Owed' = Owed + (IF to = "minus" THEN 1 ELSE 0) - (IF from = "minus" THEN 1 ELSE 0)
  BY PhaseCount, PhaseFinite DEF Due, Owed, Phases

\* The increments due are at most the stars, so no decrement meets a counter of 0.
LEMMA DueBounded ==
  ASSUME TypeOK, IsFiniteSet(starred), PlusStands
  PROVE  Due <= Cardinality(starred)
<1> DEFINE f == [t \in AllAt("plus") |-> Who[t]]
<1>1. f \in Injection(AllAt("plus"), starred)
  <2>1. f \in [AllAt("plus") -> starred]
    BY DEF PlusStands
  <2>2. \A t, u \in AllAt("plus") : f[t] = f[u] => t = u
    BY DEF PlusStands
  <2> QED BY <2>1, <2>2 DEF Injection, IsInjective
<1> QED BY <1>1, FS_Injection DEF Due

-----------------------------------------------------------------------------

\* A step that neither enters nor leaves "plus" and "minus" and keeps row and counter.
LEMMA Uncounted ==
  ASSUME CountInv, TypeOK', NEW t \in Tabs, NEW from \in Phases \ {"plus", "minus"},
         NEW to \in Phases \ {"plus", "minus"}, Goto(t, from, to) \/ pc' = pc,
         starred' = starred, count' = count, mishaps \subseteq mishaps'
  PROVE  CountInv'
<1> USE DEF CountInv
<1>1. AllAt("plus")' = AllAt("plus") /\ AllAt("minus")' = AllAt("minus")
  BY PhaseSet DEF Phases, AllAt
<1>2. Due' = Due /\ Owed' = Owed
  BY <1>1 DEF Due, Owed
<1> QED BY <1>1, <1>2 DEF NeverUndercounts, CountExact, PlusStands

LEMMA TypeStep == TypeOK /\ [Next]_vars => TypeOK'
<1> SUFFICES ASSUME TypeOK, [Next]_vars PROVE TypeOK'
  OBVIOUS
<1> USE TabsAssumption DEF TypeOK, Goto, Phases
<1>1. ASSUME NEW t \in Tabs, Load(t) \/ Press(t) \/ Check(t) \/ CheckFails(t) \/ Receive(t)
      PROVE  TypeOK'
  BY <1>1 DEF Load, Press, Check, CheckFails, Receive, Shows, Mishaps
<1>2. ASSUME NEW t \in Tabs, Answered(t) \/ MutationFails(t) PROVE TypeOK'
  BY <1>2 DEF Answered, MutationFails, Invalidated, Mishaps
<1>3. ASSUME NEW t \in Tabs, Handle(t) PROVE TypeOK'
  <2>1. CASE InsertStar(t)
    BY <2>1 DEF InsertStar
  <2>2. CASE DeleteStar(t)
    BY <2>2 DEF DeleteStar, Mishaps
  <2>3. CASE NothingToDo(t)
    BY <2>3 DEF NothingToDo
  <2>4. CASE CountUp(t) \/ CountDown(t)
    <3>1. count' \in Nat
      BY <2>4 DEF CountUp, CountDown
    <3> QED BY <2>4, <3>1 DEF CountUp, CountDown
  <2>5. CASE CountFails(t)
    BY <2>5 DEF CountFails, Mishaps
  <2> QED BY <1>3, <2>1, <2>2, <2>3, <2>4, <2>5 DEF Handle
<1>4. CASE UNCHANGED vars
  BY <1>4 DEF vars
<1> QED BY <1>1, <1>2, <1>3, <1>4 DEF Next, Page

LEMMA InsertStarStep ==
  ASSUME CountInv, TypeOK', NEW t \in Tabs, InsertStar(t) PROVE CountInv'
<1> USE DEF CountInv, InsertStar
<1>1. Cardinality(starred') = Cardinality(starred) + 1 /\ IsFiniteSet(starred')
      /\ Cardinality(starred) \in Nat
  BY FS_AddElement, FS_CardinalityType
<1>2. Due' = Due + 1 /\ Owed' = Owed /\ Due \in Nat /\ Owed \in Nat
  BY DueOwed DEF Phases
<1>3. AllAt("plus")' = AllAt("plus") \cup {t}
  BY PhaseSet DEF Phases
<1>4. PlusStands => PlusStands'
  BY <1>3 DEF PlusStands
<1> QED BY <1>1, <1>2, <1>4 DEF NeverUndercounts, CountExact, TypeOK

LEMMA DeleteStarStep ==
  ASSUME CountInv, TypeOK', NEW t \in Tabs, DeleteStar(t) PROVE CountInv'
<1> USE DEF CountInv, DeleteStar
<1>1. Cardinality(starred') = Cardinality(starred) - 1 /\ IsFiniteSet(starred')
      /\ Cardinality(starred) \in Nat
  BY FS_RemoveElement, FS_CardinalityType
<1>2. Due' = Due /\ Owed' = Owed + 1 /\ Due \in Nat /\ Owed \in Nat
  BY DueOwed DEF Phases
<1>3. AllAt("plus")' = AllAt("plus")
  BY PhaseSet DEF Phases, AllAt
<1>4. PlusStands /\ "race" \notin mishaps' => PlusStands'
  BY <1>3 DEF PlusStands
<1>5. mishaps \subseteq mishaps' /\ count' = count /\ count \in Nat
  BY DEF TypeOK
<1>6. NeverUndercounts' /\ CountExact'
  BY <1>1, <1>2, <1>5 DEF NeverUndercounts, CountExact
<1> QED BY <1>1, <1>4, <1>5, <1>6

LEMMA CountUpStep ==
  ASSUME CountInv, TypeOK', NEW t \in Tabs, CountUp(t) PROVE CountInv'
<1> USE DEF CountInv, CountUp
<1>1. Due' = Due - 1 /\ Owed' = Owed /\ Due \in Nat /\ Owed \in Nat
  BY DueOwed DEF Phases
<1>2. AllAt("plus")' = AllAt("plus") \ {t}
  BY PhaseSet DEF Phases
<1>3. PlusStands => PlusStands'
  BY <1>2 DEF PlusStands
<1> QED BY <1>1, <1>3, FS_CardinalityType DEF NeverUndercounts, CountExact, TypeOK

LEMMA CountDownStep ==
  ASSUME CountInv, TypeOK', NEW t \in Tabs, CountDown(t) PROVE CountInv'
<1> USE DEF CountInv, CountDown
<1>1. Due' = Due /\ Owed' = Owed - 1 /\ Due \in Nat /\ Owed \in Nat /\ Owed >= 1
  <2>2. Owed' = Cardinality(AllAt("minus")')
    BY DEF Owed
  <2>3. IsFiniteSet(AllAt("minus")')
    BY TabsAssumption, FS_Subset DEF AllAt
  <2>4. Owed' \in Nat
    BY <2>2, <2>3, FS_CardinalityType
  <2> QED BY <2>4, DueOwed DEF Phases
<1>2. AllAt("plus")' = AllAt("plus")
  BY PhaseSet DEF Phases, AllAt
<1>3. PlusStands => PlusStands'
  BY <1>2 DEF PlusStands
<1>4. mishaps \cap {"race", "db"} = {} => count >= 1
  BY <1>1, DueBounded, FS_CardinalityType DEF CountExact, TypeOK
<1> QED BY <1>1, <1>3, <1>4, FS_CardinalityType DEF NeverUndercounts, CountExact, TypeOK

LEMMA CountFailsStep ==
  ASSUME CountInv, TypeOK', NEW t \in Tabs, CountFails(t) PROVE CountInv'
  BY DEF CountInv, CountFails, NeverUndercounts, CountExact

LEMMA CountStep == CountInv /\ [Next]_vars => CountInv'
<1> SUFFICES ASSUME CountInv, [Next]_vars PROVE CountInv'
  OBVIOUS
<1>1. TypeOK'
  BY TypeStep DEF CountInv
<1>2. ASSUME NEW t \in Tabs, Press(t) PROVE CountInv'
  <2>1. CASE view[t] = "yes"
    BY <1>1, <1>2, <2>1, Uncounted DEF Press, Phases
  <2>2. CASE view[t] # "yes"
    BY <1>1, <1>2, <2>2, Uncounted DEF Press, Phases
  <2> QED BY <2>1, <2>2
<1>3. ASSUME NEW t \in Tabs,
             Load(t) \/ Check(t) \/ CheckFails(t) \/ Receive(t) \/ Answered(t)
      PROVE  CountInv'
  BY <1>1, <1>3, Uncounted DEF Load, Check, CheckFails, Receive, Answered, Phases
<1>4. ASSUME NEW t \in Tabs, MutationFails(t) PROVE CountInv'
  <2>1. PICK from \in {"star", "unstar", "done"} : Goto(t, from, "idle")
    BY <1>4 DEF MutationFails
  <2> QED BY <1>1, <1>4, <2>1, Uncounted DEF MutationFails, Phases
<1>5. ASSUME NEW t \in Tabs, NothingToDo(t) PROVE CountInv'
  BY <1>1, <1>5, Uncounted DEF NothingToDo, Phases
<1>6. CASE UNCHANGED vars
  BY <1>6 DEF vars, CountInv, TypeOK, NeverUndercounts, CountExact, PlusStands, Due, Owed, AllAt
<1> QED BY <1>1, <1>2, <1>3, <1>4, <1>5, <1>6, InsertStarStep, DeleteStarStep, CountUpStep,
           CountDownStep, CountFailsStep DEF Next, Page, Handle

LEMMA CountInit == Init => CountInv
<1> SUFFICES ASSUME Init PROVE CountInv
  OBVIOUS
<1>1. AllAt("plus") = {} /\ AllAt("minus") = {}
  BY DEF Init, AllAt
<1>2. Due = 0 /\ Owed = 0 /\ Cardinality(starred) = 0 /\ IsFiniteSet(starred)
  BY <1>1, FS_EmptySet DEF Due, Owed, Init
<1> QED BY <1>1, <1>2
        DEF Init, CountInv, TypeOK, NeverUndercounts, CountExact, PlusStands, Phases

(***************************************************************************)
(* The strengthened invariant, which tells stars_count from the requests   *)
(* that have still to count, holds in every state.                         *)
(***************************************************************************)
THEOREM Counting == Spec => []CountInv
  BY CountInit, CountStep, PTL DEF Spec

(***************************************************************************)
(* Every variable keeps its type.                                          *)
(***************************************************************************)
THEOREM TypeCorrect == Spec => []TypeOK
  BY Counting, PTL DEF CountInv

(***************************************************************************)
(* stars_count equals the number of stars, up to the requests under way,   *)
(* until an unstar overtakes its star or a statement fails.                *)
(***************************************************************************)
THEOREM CounterExact == Spec => []CountExact
  BY Counting, PTL DEF CountInv

(***************************************************************************)
(* Until a statement fails stars_count is never too small.                 *)
(***************************************************************************)
THEOREM CounterNeverLow == Spec => []NeverUndercounts
  BY Counting, PTL DEF CountInv

-----------------------------------------------------------------------------

\* A fetched answer, and a shown one with no request under way and no fetch to
\* correct it, are true.  Until the first answer nothing can have changed.
ButtonInv ==
  mishaps \cap {"lost", "early"} = {} =>
    \A t \in Tabs : OnlyTab(t) =>
      /\ view[t] = "unknown" => pc[t] = "idle" /\ fetch[t] # "none"
      /\ pc[t] \in {"idle", "star", "unstar"} =>
           /\ fetch[t] \in {"none", "asked", Shows(t)}
           /\ fetch[t] = "none" => view[t] = Shows(t)

(***************************************************************************)
(* The button of an only tab shows the truth, until the page loses an      *)
(* answer or the button is pressed before the first one.                   *)
(***************************************************************************)
THEOREM Truthful == Spec => []ButtonTruthful
<1>1. Init => ButtonInv
  BY DEF Init, ButtonInv
<1>2. TypeOK /\ ButtonInv /\ [Next]_vars => ButtonInv'
  <2> SUFFICES ASSUME TypeOK, ButtonInv, [Next]_vars, mishaps' \cap {"lost", "early"} = {},
                      NEW t \in Tabs, OnlyTab(t)
               PROVE  /\ view'[t] = "unknown" => pc'[t] = "idle" /\ fetch'[t] # "none"
                      /\ pc'[t] \in {"idle", "star", "unstar"} =>
                           /\ fetch'[t] \in {"none", "asked", Shows(t)'}
                           /\ fetch'[t] = "none" => view'[t] = Shows(t)'
    BY DEF ButtonInv, OnlyTab
  <2>0. /\ view[t] = "unknown" => pc[t] = "idle" /\ fetch[t] # "none"
        /\ pc[t] \in {"idle", "star", "unstar"} =>
             /\ fetch[t] \in {"none", "asked", Shows(t)}
             /\ fetch[t] = "none" => view[t] = Shows(t)
    <3>1. mishaps \subseteq mishaps'
      BY DEF Next, Page, Handle, Load, Press, Check, CheckFails, Receive, Answered,
         MutationFails, InsertStar, DeleteStar, NothingToDo, CountUp, CountDown, CountFails, vars
    <3> QED BY <3>1 DEF ButtonInv
  <2>1. ASSUME NEW u \in Tabs, u # t, Page(u) \/ Handle(u)
        PROVE  pc'[t] = pc[t] /\ view'[t] = view[t] /\ fetch'[t] = fetch[t] /\ Shows(t)' = Shows(t)
    <3>1. Who[u] # Who[t]
      BY <2>1 DEF OnlyTab
    <3>2. pc'[t] = pc[t]
      BY <2>1 DEF TypeOK, Page, Load, Press, Check, CheckFails, Receive, Answered,
         MutationFails, Handle, InsertStar, DeleteStar, NothingToDo, CountUp, CountDown,
         CountFails, Goto
    <3>3. view'[t] = view[t] /\ fetch'[t] = fetch[t]
      BY <2>1 DEF TypeOK, Page, Load, Press, Check, CheckFails, Receive, Answered,
         MutationFails, Handle, InsertStar, DeleteStar, NothingToDo, CountUp, CountDown,
         CountFails
    <3>4. (Who[t] \in starred') = (Who[t] \in starred)
      BY <2>1, <3>1 DEF Page, Load, Press, Check, CheckFails, Receive, Answered,
         MutationFails, Handle, InsertStar, DeleteStar, NothingToDo, CountUp, CountDown,
         CountFails
    <3> QED BY <3>2, <3>3, <3>4 DEF Shows
  <2>2. CASE Load(t)
    BY <2>2, <2>0 DEF Load, TypeOK
  <2>3. CASE Press(t)
    BY <2>3, <2>0 DEF Press, Goto, TypeOK, Shows
  <2>4. CASE Check(t)
    BY <2>4, <2>0 DEF Check, TypeOK, Shows
  <2>5. CASE CheckFails(t) \/ MutationFails(t)
    BY <2>5 DEF CheckFails, MutationFails
  <2>6. CASE Receive(t)
    BY <2>6, <2>0 DEF Receive, TypeOK, Shows
  <2>7. CASE Answered(t)
    <3>1. pc[t] = "done" /\ view[t] # "unknown" /\ pc'[t] = "idle" /\ view' = view
          /\ fetch'[t] = "asked"
      BY <2>7, <2>0 DEF Answered, Invalidated, Goto, TypeOK
    <3> QED BY <3>1
  <2>8. CASE Handle(t)
    <3>1. view' = view /\ fetch' = fetch /\ pc[t] # "idle"
      BY <2>8 DEF Handle, InsertStar, DeleteStar, NothingToDo, CountUp, CountDown, CountFails,
         Goto
    <3>2. pc'[t] \in {"plus", "minus", "done"}
      BY <2>8 DEF Handle, InsertStar, DeleteStar, NothingToDo, CountUp, CountDown, CountFails,
         Goto, TypeOK
    <3> QED BY <3>1, <3>2, <2>0
  <2>9. CASE UNCHANGED vars
    BY <2>9, <2>0 DEF vars, Shows
  <2> QED BY <2>0, <2>1, <2>2, <2>3, <2>4, <2>5, <2>6, <2>7, <2>8, <2>9 DEF Next, Page
<1>3. TypeOK /\ ButtonInv => ButtonTruthful
  BY DEF ButtonInv, ButtonTruthful
<1> QED BY <1>1, <1>2, <1>3, TypeCorrect, PTL DEF Spec
=============================================================================
