---------------------------- MODULE Issues_proofs --------------------------
(***************************************************************************)
(* Numbering and counters of the issues of one repository, for any number  *)
(* of concurrent requests, issues and comments.                            *)
(***************************************************************************)
EXTENDS Issues, FiniteSetTheorems, TLAPS

LEMMA TypeInit == Init => TypeOK
  BY BoundsAssumption DEF Init, TypeOK, IdleReq, Numbers

LEMMA TypeStep == TypeOK /\ [Next]_vars => TypeOK'
<1> SUFFICES ASSUME TypeOK, [Next]_vars PROVE TypeOK'
  OBVIOUS
<1> USE BoundsAssumption DEF TypeOK, Begin, Goto, Finish, IdleReq, Phases
<1>1. ASSUME NEW h \in Handlers, ReadNumber(h) PROVE TypeOK'
  <2>1. 0 \in Numbers
    BY DEF Numbers
  <2> QED BY <1>1, <2>1 DEF ReadNumber
<1>2. ASSUME NEW h \in Handlers, InsertIssue(h) PROVE TypeOK'
  BY <1>2 DEF InsertIssue
<1>3. ASSUME NEW h \in Handlers, InsertIssueFails(h) PROVE TypeOK'
  BY <1>3 DEF InsertIssueFails, Numbers
<1>4. ASSUME NEW h \in Handlers, NEW n \in Numbers, NEW want \in {"open", "closed"},
             ReadState(h, n, want)
      PROVE  TypeOK'
  BY <1>4 DEF ReadState
<1>5. ASSUME NEW h \in Handlers, SetState(h) PROVE TypeOK'
  BY <1>5 DEF SetState, Counting
<1>6. ASSUME NEW h \in Handlers, SetStateFails(h) PROVE TypeOK'
  BY <1>6 DEF SetStateFails, Counting
<1>7. ASSUME NEW h \in Handlers, CountUp(h) PROVE TypeOK'
  BY <1>7 DEF CountUp, Numbers
<1>8. ASSUME NEW h \in Handlers, CountDown(h) PROVE TypeOK'
  <2>1. openCount' \in Nat
    BY <1>8 DEF CountDown
  <2> QED BY <1>8, <2>1 DEF CountDown, Numbers
<1>9. ASSUME NEW h \in Handlers, CountFails(h) PROVE TypeOK'
  <2>1. CASE Finish(h, "plus")
    BY <1>9, <2>1 DEF CountFails, Numbers
  <2>2. CASE Finish(h, "minus")
    BY <1>9, <2>2 DEF CountFails, Numbers
  <2> QED BY <1>9, <2>1, <2>2 DEF CountFails
<1>10. ASSUME NEW h \in Handlers, NEW n \in Numbers, InsertComment(h, n) PROVE TypeOK'
  BY <1>10 DEF InsertComment
<1>11. ASSUME NEW h \in Handlers, Tally(h) PROVE TypeOK'
  <2>1. shown' \in [Numbers -> Nat]
    BY <1>11 DEF Tally
  <2> QED BY <1>11, <2>1 DEF Tally, Numbers
<1>12. ASSUME NEW h \in Handlers, TallyFails(h) PROVE TypeOK'
  BY <1>12 DEF TallyFails, Numbers
<1>13. CASE UNCHANGED vars
  BY <1>13 DEF vars
<1> QED BY <1>1, <1>2, <1>3, <1>4, <1>5, <1>6, <1>7, <1>8, <1>9, <1>10, <1>11, <1>12, <1>13
        DEF Next

(***************************************************************************)
(* Every variable keeps its type.                                          *)
(***************************************************************************)
THEOREM TypeCorrect == Spec => []TypeOK
  BY TypeInit, TypeStep, PTL DEF Spec

-----------------------------------------------------------------------------
(* Numbering                                                               *)

\* The numbers in use, but for 0, are 1 .. k, and so are all numbers below a chosen one.
Dense == \E k \in Nat : numbers \ {0} = 1 .. k

ChosenBelow ==
  \A h \in Handlers : req[h].pc = "insert" => \A m \in 1 .. (req[h].num - 1) : m \in numbers

LEMMA NextIs ==
  ASSUME NEW k \in Nat, numbers \ {0} = 1 .. k PROVE NextNumber = k + 1
<1>1. CASE numbers = {}
  BY <1>1 DEF NextNumber
<1>2. CASE numbers # {}
  <2> DEFINE Top(n) == \A m \in numbers : m <= n
  <2>1. k \in numbers /\ Top(k)
    BY <1>2
  <2>2. \A n \in numbers : Top(n) => n = k
    BY <2>1
  <2>3. (CHOOSE n \in numbers : Top(n)) = k
    BY <2>1, <2>2
  <2> QED BY <1>2, <2>3 DEF NextNumber
<1> QED BY <1>1, <1>2

LEMMA DenseStep == TypeOK /\ Dense /\ ChosenBelow /\ [Next]_vars => Dense' /\ ChosenBelow'
<1> SUFFICES ASSUME TypeOK, Dense, ChosenBelow, [Next]_vars PROVE Dense' /\ ChosenBelow'
  OBVIOUS
<1>1. PICK k \in Nat : numbers \ {0} = 1 .. k
  BY DEF Dense
<1>2. ASSUME NEW h \in Handlers, ReadNumber(h) PROVE Dense' /\ ChosenBelow'
  <2>1. NextNumber = k + 1
    BY <1>1, NextIs
  <2>2. PICK c \in {0, k + 1} : Begin(h, "insert", c, "open")
    BY <1>2, <2>1 DEF ReadNumber
  <2>3. \A m \in 1 .. (c - 1) : m \in numbers
    BY <1>1, <2>2
  <2> QED BY <1>2, <2>2, <2>3 DEF ReadNumber, Begin, Dense, ChosenBelow, TypeOK
<1>3. ASSUME NEW h \in Handlers, InsertIssue(h) PROVE Dense' /\ ChosenBelow'
  <2> DEFINE c == req[h].num
  <2>1. c \in Nat /\ c \notin numbers /\ numbers' = numbers \cup {c}
    BY <1>3 DEF InsertIssue, TypeOK, Numbers
  <2>2. \A m \in 1 .. (c - 1) : m \in numbers
    BY <1>3 DEF InsertIssue, Goto, ChosenBelow
  <2>3. c = 0 \/ c = k + 1
    <3>1. c # 0 => c > k
      BY <1>1, <2>1
    <3>2. c # 0 => ~(c > k + 1)
      <4> SUFFICES ASSUME c > k + 1 PROVE FALSE
        OBVIOUS
      <4>1. k + 1 \in 1 .. (c - 1)
        BY <2>1
      <4> QED BY <4>1, <2>2, <1>1
    <3> QED BY <3>1, <3>2, <2>1
  <2>4. Dense'
    <3>1. CASE c = 0
      BY <3>1, <2>1, <1>1 DEF Dense
    <3>2. CASE c = k + 1
      <4>1. numbers' \ {0} = 1 .. (k + 1)
        BY <3>2, <2>1, <1>1
      <4> QED BY <4>1 DEF Dense
    <3> QED BY <2>3, <3>1, <3>2
  <2>5. ChosenBelow'
    BY <1>3, <2>1 DEF InsertIssue, Goto, ChosenBelow, TypeOK
  <2> QED BY <2>4, <2>5
<1>4. ASSUME numbers' = numbers,
             \A h \in Handlers : req'[h].pc = "insert" => req'[h] = req[h]
      PROVE  Dense' /\ ChosenBelow'
  BY <1>4 DEF Dense, ChosenBelow
<1>5. ASSUME NEW h \in Handlers,
             \/ InsertIssueFails(h) \/ SetState(h) \/ SetStateFails(h)
             \/ CountUp(h) \/ CountDown(h) \/ CountFails(h) \/ Tally(h) \/ TallyFails(h)
             \/ \E n \in Numbers : InsertComment(h, n)
             \/ \E n \in Numbers, want \in {"open", "closed"} : ReadState(h, n, want)
      PROVE  Dense' /\ ChosenBelow'
  <2>1. numbers' = numbers
    BY <1>5 DEF InsertIssueFails, SetState, SetStateFails, CountUp, CountDown, CountFails,
       Tally, TallyFails, InsertComment, ReadState
  <2>2. \/ \E from : Finish(h, from)
        \/ Goto(h, "set", "plus") \/ Goto(h, "set", "minus")
        \/ \E n, want : \E phase \in {"set", "tally"} : Begin(h, phase, n, want)
    BY <1>5 DEF InsertIssueFails, SetState, SetStateFails, CountUp, CountDown, CountFails,
       Tally, TallyFails, InsertComment, ReadState, Counting
  <2>3. \A g \in Handlers : req'[g].pc = "insert" => req'[g] = req[g]
    BY <2>2 DEF Finish, Goto, Begin, IdleReq, TypeOK
  <2> QED BY <2>1, <2>3, <1>4
<1>6. CASE UNCHANGED vars
  BY <1>6, <1>4 DEF vars
<1> QED BY <1>2, <1>3, <1>5, <1>6 DEF Next

(***************************************************************************)
(* Issues are numbered without a gap under any interleaving and failure.   *)
(***************************************************************************)
THEOREM NoGap == Spec => []Gapless
<1>1. Init => Dense /\ ChosenBelow
  <2> SUFFICES ASSUME Init PROVE Dense /\ ChosenBelow
    OBVIOUS
  <2>1. numbers \ {0} = 1 .. 0
    BY DEF Init
  <2> QED BY <2>1 DEF Init, Dense, ChosenBelow, IdleReq
<1>2. TypeOK /\ Dense => Gapless
  <2> SUFFICES ASSUME TypeOK, NEW k \in Nat, numbers \ {0} = 1 .. k PROVE Gapless
    BY DEF Dense
  <2>1. ASSUME NEW n \in numbers, NEW m \in 1 .. n PROVE m \in numbers
    <3>1. n \in Nat /\ n # 0
      BY <2>1 DEF TypeOK, Numbers
    <3>2. n \in 1 .. k
      BY <3>1
    <3>3. m \in 1 .. k
      BY <3>2, <2>1
    <3> QED BY <3>3
  <2> QED BY <2>1 DEF Gapless
<1> QED BY <1>1, <1>2, DenseStep, TypeCorrect, PTL DEF Spec

-----------------------------------------------------------------------------
(* Counters                                                                *)

\* One handler moves: how the handlers in a phase, and in a phase for an issue, change.
Moves(h) ==
  /\ req' \in [Handlers -> [pc : Phases \cup {"idle"}, num : Numbers, want : {"open", "closed"}]]
  /\ \A g \in Handlers : g # h => req'[g] = req[g]

LEMMA StepMoves ==
  ASSUME TypeOK, TypeOK', [Next]_vars
  PROVE  req' = req \/ \E h \in Handlers : Moves(h)
<1>1. ASSUME NEW h \in Handlers,
             \/ \E from, to : Goto(h, from, to)
             \/ \E from : Finish(h, from)
             \/ \E phase, n, want : Begin(h, phase, n, want)
      PROVE  Moves(h)
  BY <1>1 DEF Goto, Finish, Begin, Moves, TypeOK
<1>2. ASSUME Next PROVE \E h \in Handlers : Moves(h)
  BY <1>1, <1>2 DEF Next, ReadNumber, InsertIssue, InsertIssueFails, ReadState, SetState,
     SetStateFails, CountUp, CountDown, CountFails, InsertComment, Tally, TallyFails
<1> QED BY <1>2 DEF vars

LEMMA AllAtFinite ==
  ASSUME NEW phase
  PROVE  IsFiniteSet(AllAt(phase)) /\ Cardinality(AllAt(phase)) \in Nat
  BY HandlersAssumption, FS_Subset, FS_CardinalityType DEF AllAt

LEMMA AtFinite ==
  ASSUME NEW phase, NEW n
  PROVE  IsFiniteSet(At(phase, n)) /\ Cardinality(At(phase, n)) \in Nat
  BY HandlersAssumption, FS_Subset, FS_CardinalityType DEF At

\* An element enters or leaves a set.
LEMMA EnterOrLeave ==
  ASSUME NEW S, IsFiniteSet(S), NEW x
  PROVE  /\ Cardinality(S \cup {x}) = Cardinality(S) + 1 - (IF x \in S THEN 1 ELSE 0)
         /\ Cardinality(S \ {x}) = Cardinality(S) - (IF x \in S THEN 1 ELSE 0)
<1>1. Cardinality(S) \in Nat
  BY FS_CardinalityType
<1>2. Cardinality(S \cup {x}) = IF x \in S THEN Cardinality(S) ELSE Cardinality(S) + 1
  BY FS_AddElement
<1>3. Cardinality(S \ {x}) = IF x \in S THEN Cardinality(S) - 1 ELSE Cardinality(S)
  BY FS_RemoveElement
<1> QED BY <1>1, <1>2, <1>3

LEMMA AllAtCount ==
  ASSUME TypeOK, NEW h \in Handlers, Moves(h), NEW phase
  PROVE  /\ AllAt(phase)' = IF req'[h].pc = phase THEN AllAt(phase) \cup {h} ELSE AllAt(phase) \ {h}
         /\ Cardinality(AllAt(phase)') = Cardinality(AllAt(phase))
              + (IF req'[h].pc = phase THEN 1 ELSE 0) - (IF req[h].pc = phase THEN 1 ELSE 0)
<1>1. /\ AllAt(phase)' = IF req'[h].pc = phase THEN AllAt(phase) \cup {h} ELSE AllAt(phase) \ {h}
      /\ h \in AllAt(phase) <=> req[h].pc = phase
  BY DEF Moves, AllAt
<1>2. IsFiniteSet(AllAt(phase)) /\ Cardinality(AllAt(phase)) \in Nat
  BY AllAtFinite
<1>3. /\ Cardinality(AllAt(phase) \cup {h}) =
           Cardinality(AllAt(phase)) + 1 - (IF h \in AllAt(phase) THEN 1 ELSE 0)
      /\ Cardinality(AllAt(phase) \ {h}) =
           Cardinality(AllAt(phase)) - (IF h \in AllAt(phase) THEN 1 ELSE 0)
  BY <1>2, EnterOrLeave
<1> QED BY <1>1, <1>2, <1>3

LEMMA AtCount ==
  ASSUME TypeOK, NEW h \in Handlers, Moves(h), NEW phase, NEW n
  PROVE  Cardinality(At(phase, n)') = Cardinality(At(phase, n))
              + (IF req'[h].pc = phase /\ req'[h].num = n THEN 1 ELSE 0)
              - (IF req[h].pc = phase /\ req[h].num = n THEN 1 ELSE 0)
<1> DEFINE S == At(phase, n)
<1>1. /\ S' = IF req'[h].pc = phase /\ req'[h].num = n THEN S \cup {h} ELSE S \ {h}
      /\ h \in S <=> req[h].pc = phase /\ req[h].num = n
  BY DEF Moves, At
<1>2. IsFiniteSet(S) /\ Cardinality(S) \in Nat
  BY AtFinite
<1>3. /\ Cardinality(S \cup {h}) = Cardinality(S) + 1 - (IF h \in S THEN 1 ELSE 0)
      /\ Cardinality(S \ {h}) = Cardinality(S) - (IF h \in S THEN 1 ELSE 0)
  BY <1>2, EnterOrLeave
<1> HIDE DEF S
<1>4. Cardinality(S') = Cardinality(S)
              + (IF req'[h].pc = phase /\ req'[h].num = n THEN 1 ELSE 0)
              - (IF req[h].pc = phase /\ req[h].num = n THEN 1 ELSE 0)
  BY <1>1, <1>2, <1>3
<1> QED BY <1>4 DEF S

-----------------------------------------------------------------------------

LEMMA CommentsStep ==
  ASSUME TypeOK, TypeOK', CommentsCounted, [Next]_vars PROVE CommentsCounted'
<1> SUFFICES ASSUME NEW n \in Numbers
             PROVE  LET due == shown'[n] + Cardinality(At("tally", n)')
                    IN  due <= posted'[n] /\ ("comments" \notin drifting' => due = posted'[n])
  BY DEF CommentsCounted
<1> USE DEF TypeOK
<1>1. shown[n] \in Nat /\ posted[n] \in Nat /\ Cardinality(At("tally", n)) \in Nat
  BY AtFinite
<1>2. LET due == shown[n] + Cardinality(At("tally", n))
      IN  due <= posted[n] /\ ("comments" \notin drifting => due = posted[n])
  BY DEF CommentsCounted
<1>3. ASSUME NEW h \in Handlers, NEW m \in Numbers, InsertComment(h, m)
      PROVE  LET due == shown'[n] + Cardinality(At("tally", n)')
             IN  due <= posted'[n] /\ ("comments" \notin drifting' => due = posted'[n])
  <2>1. Moves(h) /\ req'[h].pc = "tally" /\ req'[h].num = m /\ req[h].pc = "idle"
    BY <1>3 DEF InsertComment, Begin, Moves
  <2>2. Cardinality(At("tally", n)') = Cardinality(At("tally", n)) + (IF m = n THEN 1 ELSE 0)
    BY <2>1, <1>1, AtCount
  <2>3. posted'[n] = posted[n] + (IF m = n THEN 1 ELSE 0) /\ shown' = shown /\ drifting' = drifting
    BY <1>3 DEF InsertComment
  <2> QED BY <1>1, <1>2, <2>2, <2>3
<1>4. ASSUME NEW h \in Handlers, Tally(h) \/ TallyFails(h)
      PROVE  LET due == shown'[n] + Cardinality(At("tally", n)')
             IN  due <= posted'[n] /\ ("comments" \notin drifting' => due = posted'[n])
  <2> DEFINE one == IF req[h].num = n THEN 1 ELSE 0
  <2>1. Moves(h) /\ req'[h].pc = "idle" /\ req[h].pc = "tally"
    BY <1>4 DEF Tally, TallyFails, Finish, IdleReq, Moves
  <2>2. Cardinality(At("tally", n)') = Cardinality(At("tally", n)) - one
    BY <2>1, <1>1, AtCount
  <2>3. CASE Tally(h)
    <3>1. shown'[n] = shown[n] + one /\ posted' = posted /\ drifting' = drifting
      BY <2>3 DEF Tally
    <3> QED BY <1>1, <1>2, <2>2, <3>1
  <2>4. CASE TallyFails(h)
    <3>1. shown' = shown /\ posted' = posted /\ "comments" \in drifting'
      BY <2>4 DEF TallyFails
    <3> QED BY <1>1, <1>2, <2>2, <3>1
  <2> QED BY <1>4, <2>3, <2>4
<1>5. ASSUME shown' = shown, posted' = posted, "comments" \in drifting => "comments" \in drifting',
             At("tally", n)' = At("tally", n)
      PROVE  LET due == shown'[n] + Cardinality(At("tally", n)')
             IN  due <= posted'[n] /\ ("comments" \notin drifting' => due = posted'[n])
  BY <1>2, <1>5
<1>6. ASSUME NEW h \in Handlers,
             \/ ReadNumber(h) \/ InsertIssue(h) \/ InsertIssueFails(h) \/ SetState(h)
             \/ SetStateFails(h) \/ CountUp(h) \/ CountDown(h) \/ CountFails(h)
             \/ \E m \in Numbers, want \in {"open", "closed"} : ReadState(h, m, want)
      PROVE  LET due == shown'[n] + Cardinality(At("tally", n)')
             IN  due <= posted'[n] /\ ("comments" \notin drifting' => due = posted'[n])
  <2>1. shown' = shown /\ posted' = posted /\ drifting \subseteq drifting'
    BY <1>6 DEF ReadNumber, InsertIssue, InsertIssueFails, SetState, SetStateFails, CountUp,
       CountDown, CountFails, ReadState
  <2>2. \/ \E from \in Phases \ {"tally"} : Finish(h, from)
        \/ \E from, to \in Phases \ {"tally"} : Goto(h, from, to)
        \/ \E m, want : \E phase \in Phases \ {"tally"} : Begin(h, phase, m, want)
    BY <1>6 DEF ReadNumber, InsertIssue, InsertIssueFails, SetState, SetStateFails, CountUp,
       CountDown, CountFails, ReadState, Counting, Phases
  <2>3. /\ req[h].pc # "tally" /\ req'[h].pc # "tally"
        /\ \A g \in Handlers : g # h => req'[g] = req[g]
    BY <2>2 DEF Finish, Goto, Begin, IdleReq
  <2>4. At("tally", n)' = At("tally", n)
    BY <2>3 DEF At
  <2> QED BY <2>1, <2>4, <1>5
<1>7. CASE UNCHANGED vars
  BY <1>7, <1>5 DEF vars, At
<1> QED BY <1>3, <1>4, <1>6, <1>7 DEF Next

(***************************************************************************)
(* comments_count never runs ahead of the comments, and is exact up to the *)
(* requests under way until a statement fails.                             *)
(***************************************************************************)
THEOREM Comments == Spec => []CommentsCounted
<1>1. Init => CommentsCounted
  <2> SUFFICES ASSUME Init, NEW n \in Numbers
               PROVE  /\ shown[n] + Cardinality(At("tally", n)) <= posted[n]
                      /\ shown[n] + Cardinality(At("tally", n)) = posted[n]
    BY DEF CommentsCounted
  <2>1. At("tally", n) = {}
    BY DEF Init, At, IdleReq
  <2> QED BY <2>1, FS_EmptySet DEF Init
<1>2. TypeOK /\ TypeOK' /\ CommentsCounted /\ [Next]_vars => CommentsCounted'
  BY CommentsStep
<1> QED BY <1>1, <1>2, TypeCorrect, PTL DEF Spec

-----------------------------------------------------------------------------
(* The open counter                                                        *)

Plus == Cardinality(AllAt("plus"))
Minus == Cardinality(AllAt("minus"))

\* Without an overtaking or a failure each increment due is for an issue that
\* is open, and for one of its own.
PlusOpen ==
  /\ \A h \in AllAt("plus") : req[h].num \in open
  /\ \A h, g \in AllAt("plus") : req[h].num = req[g].num => h = g

OpenInv ==
  /\ open \subseteq numbers
  /\ \A h \in Handlers : req[h].pc = "set" => req[h].num \in numbers
  /\ OpenCountExact
  /\ "open" \notin drifting => PlusOpen

LEMMA OpenFinite ==
  ASSUME TypeOK PROVE IsFiniteSet(open) /\ Cardinality(open) \in Nat
<1>1. IsFiniteSet(Numbers)
  BY FS_Interval, BoundsAssumption DEF Numbers
<1> QED BY <1>1, FS_Subset, FS_CardinalityType DEF TypeOK

LEMMA PlusMinus ==
  ASSUME TypeOK, NEW h \in Handlers, Moves(h)
  PROVE  /\ Plus \in Nat /\ Minus \in Nat /\ Plus' \in Nat /\ Minus' \in Nat
         /\ AllAt("plus")' =
              IF req'[h].pc = "plus" THEN AllAt("plus") \cup {h} ELSE AllAt("plus") \ {h}
         /\ Plus' = Plus + (IF req'[h].pc = "plus" THEN 1 ELSE 0)
                         - (IF req[h].pc = "plus" THEN 1 ELSE 0)
         /\ Minus' = Minus + (IF req'[h].pc = "minus" THEN 1 ELSE 0)
                           - (IF req[h].pc = "minus" THEN 1 ELSE 0)
<1>1. \A phase : IsFiniteSet(AllAt(phase)')
  BY HandlersAssumption, FS_Subset DEF AllAt
<1>2. Plus' \in Nat /\ Minus' \in Nat
  BY <1>1, FS_CardinalityType DEF Plus, Minus
<1> QED BY <1>2, AllAtCount, AllAtFinite DEF Plus, Minus

\* The increments due are at most the open issues, so no decrement meets a counter of 0.
LEMMA PlusBounded ==
  ASSUME TypeOK, PlusOpen PROVE Plus <= Cardinality(open)
<1> DEFINE f == [h \in AllAt("plus") |-> req[h].num]
<1>1. f \in Injection(AllAt("plus"), open)
  <2>1. f \in [AllAt("plus") -> open]
    BY DEF PlusOpen
  <2>2. \A h, g \in AllAt("plus") : f[h] = f[g] => h = g
    BY DEF PlusOpen
  <2> QED BY <2>1, <2>2 DEF Injection, IsInjective
<1> QED BY <1>1, OpenFinite, FS_Injection DEF Plus

\* OpenCountExact as an equation between numbers.
LEMMA OpenNow ==
  ASSUME TypeOK, OpenInv
  PROVE  /\ openCount \in Nat /\ Cardinality(open) \in Nat
         /\ "open" \notin drifting => openCount + Plus = Cardinality(open) + Minus
  BY OpenFinite DEF OpenInv, OpenCountExact, Plus, Minus, TypeOK

LEMMA OpenThen ==
  ASSUME "open" \notin drifting' => openCount' + Plus' = Cardinality(open') + Minus'
  PROVE  OpenCountExact'
  BY DEF OpenCountExact, Plus, Minus

\* A step that keeps the open issues and their counter, and enters or leaves
\* neither "plus" nor "minus".
LEMMA OpenKept ==
  ASSUME TypeOK, OpenInv, NEW h \in Handlers, Moves(h),
         open' = open, openCount' = openCount, numbers' = numbers,
         "open" \in drifting => "open" \in drifting',
         req[h].pc \notin {"plus", "minus"}, req'[h].pc \notin {"plus", "minus"},
         req'[h].pc = "set" => req'[h].num \in numbers
  PROVE  OpenInv'
<1> USE DEF OpenInv
<1>1. AllAt("plus")' = AllAt("plus") /\ AllAt("minus")' = AllAt("minus")
  BY DEF Moves, AllAt
<1>2. OpenCountExact'
  BY <1>1 DEF OpenCountExact
<1>3. PlusOpen => PlusOpen'
  BY <1>1 DEF PlusOpen, Moves, AllAt
<1> QED BY <1>2, <1>3 DEF Moves

LEMMA OpenInsert ==
  ASSUME TypeOK, TypeOK', OpenInv, NEW h \in Handlers, InsertIssue(h) PROVE OpenInv'
<1> DEFINE n == req[h].num
<1>1. Moves(h) /\ req[h].pc = "insert" /\ req'[h].pc = "plus" /\ req'[h].num = n
  BY DEF InsertIssue, Goto, Moves, TypeOK, Phases
<1>2. n \notin open /\ open' = open \cup {n} /\ openCount' = openCount /\ drifting' = drifting
      /\ numbers' = numbers \cup {n}
  BY DEF OpenInv, InsertIssue
<1>3. Cardinality(open') = Cardinality(open) + 1
  BY <1>2, OpenFinite, FS_AddElement
<1>4. Plus' = Plus + 1 /\ Minus' = Minus /\ AllAt("plus")' = AllAt("plus") \cup {h}
      /\ Plus \in Nat /\ Minus \in Nat
  BY <1>1, PlusMinus
<1>5. OpenCountExact'
  BY <1>2, <1>3, <1>4, OpenNow, OpenThen
<1>6. PlusOpen => PlusOpen'
  BY <1>1, <1>2, <1>4 DEF PlusOpen, Moves, AllAt
<1> QED BY <1>1, <1>2, <1>5, <1>6 DEF OpenInv, Moves

LEMMA OpenSet ==
  ASSUME TypeOK, TypeOK', OpenInv, NEW h \in Handlers, SetState(h) PROVE OpenInv'
<1> DEFINE n == req[h].num
           want == req[h].want
<1>1. /\ Moves(h) /\ req[h].pc = "set" /\ req'[h].pc = Counting(want) /\ req'[h].num = n
      /\ want \in {"open", "closed"} /\ n \in numbers
  BY DEF SetState, Goto, Moves, TypeOK, Phases, OpenInv, Counting
<1>2. openCount' = openCount /\ numbers' = numbers /\ drifting \subseteq drifting'
  BY DEF SetState
<1>3. ("open" \notin drifting') => "open" \notin drifting /\ ~Overtakes(n, want)
  BY DEF SetState
<1>4. CASE want = "open"
  <2>1. Plus' = Plus + 1 /\ Minus' = Minus /\ AllAt("plus")' = AllAt("plus") \cup {h}
        /\ Plus \in Nat /\ Minus \in Nat
    BY <1>1, <1>4, PlusMinus DEF Counting
  <2>2. open' = open \cup {n}
    BY <1>4 DEF SetState
  <2>3. ("open" \notin drifting') => n \notin open
    BY <1>3, <1>4 DEF Overtakes, StateOf
  <2>4. n \notin open => Cardinality(open') = Cardinality(open) + 1
    BY <2>2, OpenFinite, FS_AddElement
  <2>5. OpenCountExact'
    BY <1>2, <1>3, <2>1, <2>3, <2>4, OpenNow, OpenThen
  <2>6. PlusOpen /\ n \notin open => PlusOpen'
    BY <1>1, <2>1, <2>2 DEF PlusOpen, Moves, AllAt
  <2> QED BY <1>1, <1>2, <1>3, <2>2, <2>3, <2>5, <2>6 DEF OpenInv, Moves, Counting
<1>5. CASE want = "closed"
  <2>1. Plus' = Plus /\ Minus' = Minus + 1 /\ AllAt("plus")' = AllAt("plus")
        /\ Plus \in Nat /\ Minus \in Nat
    <3>1. req'[h].pc = "minus" /\ h \notin AllAt("plus")
      BY <1>1, <1>5 DEF AllAt, Counting
    <3>2. AllAt("plus")' = AllAt("plus") \ {h}
      BY <3>1, <1>1, PlusMinus
    <3>3. AllAt("plus")' = AllAt("plus")
      BY <3>1, <3>2
    <3> QED BY <3>1, <3>3, <1>1, PlusMinus
  <2>2. open' = open \ {n}
    BY <1>5 DEF SetState
  <2>3. ("open" \notin drifting') => n \in open /\ At("plus", n) = {}
    BY <1>3, <1>5 DEF Overtakes, StateOf
  <2>4. n \in open => Cardinality(open') = Cardinality(open) - 1
    BY <2>2, OpenFinite, FS_RemoveElement
  <2>5. OpenCountExact'
    BY <1>2, <1>3, <2>1, <2>3, <2>4, OpenNow, OpenThen
  <2>6. PlusOpen /\ At("plus", n) = {} => PlusOpen'
    BY <1>1, <2>1, <2>2 DEF PlusOpen, Moves, AllAt, At
  <2> QED BY <1>1, <1>2, <1>3, <2>2, <2>3, <2>5, <2>6 DEF OpenInv, Moves, Counting
<1> QED BY <1>1, <1>4, <1>5

\* A request ends with the counting of an opened or a closed issue.
LEMMA OpenCounted ==
  ASSUME TypeOK, TypeOK', OpenInv, NEW h \in Handlers, CountUp(h) \/ CountDown(h) \/ CountFails(h)
  PROVE  OpenInv'
<1>1. /\ Moves(h) /\ req[h].pc \in {"plus", "minus"} /\ req'[h].pc = "idle"
      /\ open' = open /\ numbers' = numbers /\ drifting \subseteq drifting'
  BY DEF CountUp, CountDown, CountFails, Finish, IdleReq, Moves, TypeOK
<1>2. /\ Plus' = Plus - (IF req[h].pc = "plus" THEN 1 ELSE 0)
      /\ Minus' = Minus - (IF req[h].pc = "minus" THEN 1 ELSE 0)
      /\ AllAt("plus")' = AllAt("plus") \ {h}
      /\ Plus \in Nat /\ Minus \in Nat /\ Minus' \in Nat
  BY <1>1, PlusMinus
<1>3. PlusOpen => PlusOpen'
  BY <1>1, <1>2 DEF PlusOpen, Moves, AllAt
<1>4. OpenCountExact'
  <2>1. CASE CountUp(h)
    <3>1. req[h].pc = "plus" /\ openCount' = openCount + 1 /\ drifting' = drifting
      BY <2>1 DEF CountUp, Finish
    <3> QED BY <3>1, <1>1, <1>2, OpenNow, OpenThen
  <2>2. CASE CountDown(h)
    <3>1. /\ req[h].pc = "minus" /\ drifting' = drifting
          /\ openCount' = IF openCount = 0 THEN 0 ELSE openCount - 1
      BY <2>2 DEF CountDown, Finish
    <3>2. Minus >= 1
      BY <3>1, <1>2
    <3>3. ("open" \notin drifting) => openCount >= 1
      BY <3>2, <1>2, PlusBounded, OpenNow DEF OpenInv
    <3> QED BY <3>1, <3>3, <1>1, <1>2, OpenNow, OpenThen
  <2>3. CASE CountFails(h)
    BY <2>3 DEF CountFails, OpenCountExact
  <2> QED BY <2>1, <2>2, <2>3
<1> QED BY <1>1, <1>3, <1>4 DEF OpenInv, Moves

LEMMA OpenStep ==
  ASSUME TypeOK, TypeOK', OpenInv, [Next]_vars PROVE OpenInv'
<1>1. ASSUME NEW h \in Handlers,
             \/ ReadNumber(h) \/ InsertIssueFails(h) \/ Tally(h) \/ TallyFails(h)
             \/ \E n \in Numbers : InsertComment(h, n)
             \/ \E n \in Numbers, want \in {"open", "closed"} : ReadState(h, n, want)
      PROVE  OpenInv'
  <2>1. /\ open' = open /\ openCount' = openCount /\ numbers' = numbers
        /\ "open" \in drifting => "open" \in drifting'
    BY <1>1 DEF ReadNumber, InsertIssueFails, Tally, TallyFails, InsertComment, ReadState
  <2>2. \/ Finish(h, "insert") \/ Finish(h, "tally")
        \/ \E n, want : Begin(h, "insert", n, want)
        \/ \E n, want : Begin(h, "tally", n, want)
        \/ \E n \in numbers, want \in {"open", "closed"} : Begin(h, "set", n, want)
    BY <1>1 DEF ReadNumber, InsertIssueFails, Tally, TallyFails, InsertComment, ReadState
  <2>3. /\ Moves(h) /\ req[h].pc \notin {"plus", "minus"} /\ req'[h].pc \notin {"plus", "minus"}
        /\ req'[h].pc = "set" => req'[h].num \in numbers
    BY <2>2 DEF Finish, Begin, IdleReq, Moves, TypeOK
  <2> QED BY <2>1, <2>3, OpenKept
<1>2. ASSUME NEW h \in Handlers, SetStateFails(h) PROVE OpenInv'
  <2>1. "open" \in drifting' /\ open' = open /\ numbers' = numbers /\ req'[h].pc # "set"
        /\ \A g \in Handlers : g # h => req'[g] = req[g]
    BY <1>2 DEF SetStateFails, Goto, Counting, TypeOK
  <2> QED BY <2>1 DEF OpenInv, OpenCountExact
<1>3. CASE UNCHANGED vars
  BY <1>3 DEF vars, OpenInv, OpenCountExact, PlusOpen, AllAt
<1> QED BY <1>1, <1>2, <1>3, OpenInsert, OpenSet, OpenCounted DEF Next

(***************************************************************************)
(* open_issues_count is the number of open issues, up to what requests     *)
(* under way have still to count, until a state change is overtaken or     *)
(* fails; in particular GREATEST(..., 0) never hides a decrement.          *)
(***************************************************************************)
THEOREM OpenCounter == Spec => []OpenCountExact
<1>1. Init => OpenInv
  <2> SUFFICES ASSUME Init PROVE OpenInv
    OBVIOUS
  <2>1. AllAt("plus") = {} /\ AllAt("minus") = {}
    BY DEF Init, AllAt, IdleReq
  <2>2. OpenCountExact
    BY <2>1, FS_EmptySet DEF OpenCountExact, Init
  <2> QED BY <2>1, <2>2 DEF OpenInv, Init, IdleReq, PlusOpen
<1>2. TypeOK /\ TypeOK' /\ OpenInv /\ [Next]_vars => OpenInv'
  BY OpenStep
<1>3. OpenInv => OpenCountExact
  BY DEF OpenInv
<1> QED BY <1>1, <1>2, <1>3, TypeCorrect, PTL DEF Spec

-----------------------------------------------------------------------------
(* One request at a time                                                   *)

Sequential == (\A g, h \in Handlers : g = h) /\ Faults = {}

\* What a lone request has read still holds when it writes.
StillTrue ==
  /\ ChosenNumberStaysFree
  /\ \A h \in Handlers : req[h].pc = "set" => req[h].want # StateOf(req[h].num)
  /\ drifting = {}

LEMMA StillTrueStep ==
  Sequential /\ TypeOK /\ Dense /\ StillTrue /\ [Next]_vars => StillTrue'
<1> SUFFICES ASSUME Sequential, TypeOK, Dense, StillTrue, [Next]_vars PROVE StillTrue'
  OBVIOUS
<1> USE DEF StillTrue, ChosenNumberStaysFree
<1>1. PICK k \in Nat : numbers \ {0} = 1 .. k
  BY DEF Dense
<1>2. ASSUME NEW h \in Handlers, ReadNumber(h) PROVE StillTrue'
  <2>1. NextNumber = k + 1
    BY <1>1, NextIs
  <2>2. k + 1 \notin numbers
    BY <1>1
  <2>3. /\ req' = [req EXCEPT ![h] = [pc |-> "insert", num |-> k + 1, want |-> "open"]]
        /\ UNCHANGED <<numbers, open, drifting>>
    BY <1>2, <2>1 DEF ReadNumber, Begin, Sequential
  <2>4. req'[h].pc = "insert" /\ req'[h].num = k + 1 /\ \A g \in Handlers : g = h
    BY <2>3 DEF TypeOK, Sequential
  <2> QED BY <2>2, <2>3, <2>4
<1>3. ASSUME NEW h \in Handlers, NEW n \in Numbers, NEW want \in {"open", "closed"},
             ReadState(h, n, want)
      PROVE  StillTrue'
  <2>1. /\ req' = [req EXCEPT ![h] = [pc |-> "set", num |-> n, want |-> want]]
        /\ want # StateOf(n) /\ UNCHANGED <<numbers, open, drifting>>
    BY <1>3 DEF ReadState, Begin
  <2>2. /\ req'[h].pc = "set" /\ req'[h].num = n /\ req'[h].want = want
        /\ \A g \in Handlers : g = h
    BY <2>1 DEF TypeOK, Sequential
  <2> QED BY <2>1, <2>2 DEF StateOf
<1>4. ASSUME NEW h \in Handlers, req'[h].pc \notin {"insert", "set"}, drifting' = {} PROVE StillTrue'
  BY <1>4 DEF Sequential
<1>5. ASSUME NEW h \in Handlers, SetState(h) PROVE StillTrue'
  <2>1. req'[h].pc \in {"plus", "minus"}
    BY <1>5 DEF SetState, Goto, Counting, TypeOK
  <2>2. ~Overtakes(req[h].num, req[h].want)
    BY <1>5 DEF SetState, Goto, Overtakes, At, Sequential
  <2> QED BY <1>4, <1>5, <2>1, <2>2 DEF SetState
<1>6. ASSUME NEW h \in Handlers,
             \/ InsertIssue(h) \/ InsertIssueFails(h) \/ CountUp(h) \/ CountDown(h) \/ Tally(h)
             \/ \E n \in Numbers : InsertComment(h, n)
      PROVE  StillTrue'
  <2>1. req'[h].pc \in {"idle", "plus", "tally"} /\ drifting' = drifting
    BY <1>6 DEF InsertIssue, InsertIssueFails, CountUp, CountDown, Tally, InsertComment, Goto, Finish,
       Begin, IdleReq, TypeOK
  <2> QED BY <1>4, <2>1
<1>7. CASE UNCHANGED vars
  BY <1>7 DEF vars, StateOf
<1> QED BY <1>2, <1>3, <1>5, <1>6, <1>7 DEF Next, SetStateFails, CountFails, TallyFails, Sequential

(***************************************************************************)
(* With one request at a time and no failure the number chosen stays free, *)
(* as the comment in the schema has it (the run IssuesLocking needs two),  *)
(* and no counter drifts: what the other theorems except is due to         *)
(* overlapping requests and failures alone.                                *)
(***************************************************************************)
THEOREM SequentialStaysFree ==
  Sequential /\ Spec => []ChosenNumberStaysFree /\ [](drifting = {})
<1>1. Init => StillTrue /\ Dense /\ ChosenBelow
  <2> SUFFICES ASSUME Init PROVE StillTrue /\ Dense /\ ChosenBelow
    OBVIOUS
  <2>1. numbers \ {0} = 1 .. 0
    BY DEF Init
  <2> QED BY <2>1 DEF Init, Dense, ChosenBelow, IdleReq, StillTrue, ChosenNumberStaysFree
<1>2. StillTrue => ChosenNumberStaysFree /\ drifting = {}
  BY DEF StillTrue
<1>3. Sequential => Sequential'
  BY DEF Sequential
<1> QED BY <1>1, <1>2, <1>3, DenseStep, StillTrueStep, TypeCorrect, PTL DEF Spec
=============================================================================
