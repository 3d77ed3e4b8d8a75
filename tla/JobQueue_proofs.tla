--------------------------- MODULE JobQueue_proofs -------------------------
(***************************************************************************)
(* Safety of the job queue for any number of jobs, servers and restarts.   *)
(***************************************************************************)
EXTENDS JobQueue, TLAPS

(***************************************************************************)
(* A job in a worker's hands is running, was claimed by this worker alone, *)
(* and the worker is busy with it; a job that was not claimed yet has no   *)
(* attempts.                                                               *)
(***************************************************************************)
QueueInv ==
  /\ TypeOK
  /\ \A j \in Jobs : attempts[j] <= 1 /\ (status[j] \in {"absent", "pending"} => attempts[j] = 0)
  /\ \A j \in stranded : status[j] = "running"
  /\ \A j \in Jobs : status[j] = "running" /\ j \notin stranded => \E s \in Servers : j \in hand[s]
  /\ \A s \in Servers : \A j \in hand[s] : status[j] = "running" /\ j \notin stranded
  /\ \A s \in Servers : hand[s] # {} => loop[s] = "busy"
  /\ \A s \in Servers : main[s] = "down" => loop[s] # "busy"
  /\ \A j \in Jobs : \A r, s \in Servers : j \in hand[r] \cap hand[s] => r = s
  /\ StopWaits

LEMMA QueueInit == Init => QueueInv
  BY MaxAttemptsAssumption, MaxStopsAssumption DEF Init, QueueInv, TypeOK, StopWaits

\* A worker lets go of its jobs, which stay running.
LEMMA Dropped ==
  ASSUME QueueInv, TypeOK', NEW s \in Servers,
         status' = status, attempts' = attempts,
         stranded' = stranded \cup hand[s], hand' = [hand EXCEPT ![s] = {}],
         \A r \in Servers \ {s} : loop'[r] = loop[r] /\ main'[r] = main[r],
         main'[s] \in {"waited", "down"} => loop'[s] # "busy"
  PROVE  QueueInv'
<1> USE DEF QueueInv, TypeOK
<1>1. \A r \in Servers : hand'[r] = IF r = s THEN {} ELSE hand[r]
  OBVIOUS
<1>2. ASSUME NEW j \in Jobs, status'[j] = "running", j \notin stranded'
      PROVE  \E r \in Servers : j \in hand'[r]
  BY <1>1, <1>2
<1>3. ASSUME NEW r \in Servers, NEW j \in hand'[r] PROVE status'[j] = "running" /\ j \notin stranded'
  BY <1>1, <1>3
<1>4. StopWaits'
  BY <1>1 DEF StopWaits
<1> QED BY <1>1, <1>2, <1>3, <1>4

LEMMA ClaimStep ==
  ASSUME QueueInv, NEW s \in Servers, Claim(s) PROVE QueueInv'
<1> USE DEF QueueInv, TypeOK
<1>1. PICK j \in Jobs :
        /\ status[j] = "pending" /\ attempts[j] < MaxAttempts
        /\ status' = [status EXCEPT ![j] = "running"]
        /\ attempts' = [attempts EXCEPT ![j] = @ + 1]
        /\ hand' = [hand EXCEPT ![s] = {j}]
  BY DEF Claim, Claimable
<1>2. /\ main' = main /\ stops' = stops /\ stranded' = stranded
      /\ main[s] = "up" /\ loop[s] = "waiting" /\ loop' = [loop EXCEPT ![s] = "busy"]
  BY DEF Claim
<1>3. attempts[j] = 0 /\ j \notin stranded /\ hand[s] = {} /\ \A r \in Servers : j \notin hand[r]
  BY <1>1, <1>2
<1>4. TypeOK'
  BY <1>1, <1>2, <1>3, MaxAttemptsAssumption
<1>5. \A r \in Servers : hand'[r] = IF r = s THEN {j} ELSE hand[r]
  BY <1>1
<1>6. \A i \in Jobs : i # j => status'[i] = status[i] /\ attempts'[i] = attempts[i]
  BY <1>1
<1>7. status'[j] = "running" /\ attempts'[j] = 1
  BY <1>1, <1>3
<1>8. StopWaits'
  BY <1>2, <1>5 DEF StopWaits
<1>9. \A i \in Jobs : attempts'[i] <= 1 /\ (status'[i] \in {"absent", "pending"} => attempts'[i] = 0)
  BY <1>6, <1>7
<1>10. \A i \in Jobs : status'[i] = "running" /\ i \notin stranded' => \E r \in Servers : i \in hand'[r]
  BY <1>2, <1>3, <1>5, <1>6
<1>11. \A r \in Servers : \A i \in hand'[r] : status'[i] = "running" /\ i \notin stranded'
  BY <1>2, <1>3, <1>5, <1>6, <1>7
<1>12. \A i \in Jobs : \A q, r \in Servers : i \in hand'[q] \cap hand'[r] => q = r
  BY <1>3, <1>5
<1>13. \A i \in stranded' : status'[i] = "running"
  BY <1>2, <1>6, <1>7
<1> QED BY <1>2, <1>4, <1>5, <1>8, <1>9, <1>10, <1>11, <1>12, <1>13

LEMMA CompleteStep ==
  ASSUME QueueInv, NEW s \in Servers, Complete(s) PROVE QueueInv'
<1> USE DEF QueueInv, TypeOK
<1>1. /\ status' = [j \in Jobs |-> IF j \in hand[s] THEN "completed" ELSE status[j]]
      /\ hand' = [hand EXCEPT ![s] = {}] /\ loop' = [loop EXCEPT ![s] = "waiting"]
      /\ UNCHANGED <<attempts, main, stops, stranded>>
  BY DEF Complete
<1>2. \A r \in Servers : hand'[r] = IF r = s THEN {} ELSE hand[r]
  BY <1>1
<1>3. TypeOK'
  BY <1>1
<1>4. ASSUME NEW j \in stranded PROVE status'[j] = "running"
  BY <1>1, <1>4
<1>5. ASSUME NEW j \in Jobs, status'[j] = "running", j \notin stranded
      PROVE  \E r \in Servers : j \in hand'[r]
  BY <1>1, <1>2, <1>5
<1>6. ASSUME NEW r \in Servers, NEW j \in hand'[r] PROVE status'[j] = "running" /\ j \notin stranded
  <2>1. r # s /\ j \in hand[r] /\ j \in Jobs
    BY <1>2, <1>6
  <2>2. j \notin hand[s]
    BY <2>1
  <2> QED BY <1>1, <2>1, <2>2
<1>7. StopWaits'
  BY <1>1, <1>2 DEF StopWaits
<1>8. \A j \in Jobs : attempts'[j] <= 1 /\ (status'[j] \in {"absent", "pending"} => attempts'[j] = 0)
  BY <1>1
<1>9. \A j \in Jobs : \A q, r \in Servers : j \in hand'[q] \cap hand'[r] => q = r
  BY <1>2
<1>10. \A r \in Servers : hand'[r] # {} => loop'[r] = "busy"
  BY <1>1, <1>2
<1> QED BY <1>1, <1>3, <1>4, <1>5, <1>6, <1>7, <1>8, <1>9, <1>10

LEMMA QueueStep == QueueInv /\ [Next]_vars => QueueInv'
<1> SUFFICES ASSUME QueueInv, [Next]_vars PROVE QueueInv'
  OBVIOUS
<1>1. ASSUME NEW j \in Jobs, Enqueue(j) PROVE QueueInv'
  BY <1>1 DEF Enqueue, QueueInv, TypeOK, StopWaits
<1>2. ASSUME NEW s \in Servers, StartLoop(s) \/ LoopEnds(s) PROVE QueueInv'
  BY <1>2 DEF StartLoop, LoopEnds, QueueInv, TypeOK, StopWaits
<1>3. ASSUME NEW s \in Servers, Boot(s) \/ Cancel(s) PROVE QueueInv'
  <2>1. CASE Boot(s)
    <3>1. hand[s] = {}
      BY <2>1 DEF Boot, QueueInv
    <3> QED BY <2>1, <3>1 DEF Boot, QueueInv, TypeOK, StopWaits
  <2>2. CASE Cancel(s)
    BY <2>2, MaxStopsAssumption DEF Cancel, QueueInv, TypeOK, StopWaits
  <2> QED BY <1>3, <2>1, <2>2
<1>4. ASSUME NEW s \in Servers, Stop(s) PROVE QueueInv'
  BY <1>4 DEF Stop, QueueInv, TypeOK, StopWaits
<1>5. ASSUME NEW s \in Servers, CompleteFails(s) PROVE QueueInv'
  <2>1. TypeOK'
    BY <1>5 DEF CompleteFails, QueueInv, TypeOK
  <2>2. /\ status' = status /\ attempts' = attempts /\ stranded' = stranded \cup hand[s]
        /\ hand' = [hand EXCEPT ![s] = {}] /\ main' = main
        /\ \A r \in Servers \ {s} : loop'[r] = loop[r]
        /\ loop'[s] = "waiting"
    BY <1>5 DEF CompleteFails, QueueInv, TypeOK
  <2> QED BY <2>1, <2>2, Dropped
<1>6. ASSUME NEW s \in Servers, Exit(s) \/ Crash(s) PROVE QueueInv'
  <2>1. TypeOK'
    BY <1>6, MaxStopsAssumption DEF Exit, Crash, Dies, QueueInv, TypeOK
  <2>2. /\ status' = status /\ attempts' = attempts /\ stranded' = stranded \cup hand[s]
        /\ hand' = [hand EXCEPT ![s] = {}]
        /\ \A r \in Servers \ {s} : loop'[r] = loop[r] /\ main'[r] = main[r]
        /\ main'[s] = "down" /\ loop'[s] = "ended"
    BY <1>6 DEF Exit, Crash, Dies, QueueInv, TypeOK
  <2> QED BY <2>1, <2>2, Dropped
<1>7. CASE UNCHANGED vars
  BY <1>7 DEF vars, QueueInv, TypeOK, StopWaits
<1> QED BY <1>1, <1>2, <1>3, <1>4, <1>5, <1>6, <1>7, ClaimStep, CompleteStep
        DEF Next, Worker, Process

(***************************************************************************)
(* The strengthened invariant holds in every state: claims, completions,   *)
(* shutdowns and crashes keep a job in at most one worker's hands.         *)
(***************************************************************************)
THEOREM Queueing == Spec => []QueueInv
  BY QueueInit, QueueStep, PTL DEF Spec

(***************************************************************************)
(* Every variable keeps its type.                                          *)
(***************************************************************************)
THEOREM TypeCorrect == Spec => []TypeOK
  BY Queueing, PTL DEF QueueInv

(***************************************************************************)
(* No job is ever dispatched twice, neither by two workers nor after a     *)
(* restart; a job that is running is in the hands of exactly one worker or *)
(* is lost to all of them.                                                 *)
(***************************************************************************)
AtMostOnce ==
  \A j \in Jobs :
    /\ attempts[j] <= 1
    /\ status[j] = "running" /\ j \notin stranded <=> \E s \in Servers : j \in hand[s]
    /\ \A r, s \in Servers : j \in hand[r] \cap hand[s] => r = s

(***************************************************************************)
(* No job is dispatched twice, whichever servers run, stop and die.        *)
(***************************************************************************)
THEOREM DispatchedOnce == Spec => []AtMostOnce
<1>1. QueueInv => AtMostOnce
  <2> SUFFICES ASSUME QueueInv PROVE AtMostOnce
    OBVIOUS
  <2>1. ASSUME NEW j \in Jobs
        PROVE  status[j] = "running" /\ j \notin stranded <=> \E s \in Servers : j \in hand[s]
    BY DEF QueueInv
  <2> QED BY <2>1 DEF QueueInv, AtMostOnce
<1> QED BY <1>1, Queueing, PTL

(***************************************************************************)
(* An orderly stop leaves no job in the worker's hands.                    *)
(***************************************************************************)
THEOREM StopIsOrderly == Spec => []StopWaits
  BY Queueing, PTL DEF QueueInv

-----------------------------------------------------------------------------
(* The board                                                               *)

\* Complete finishes all jobs in hand; there is one at most.
OneEach == \A s \in Servers : \A i, j \in hand[s] : i = j

LEMMA OneEachStep == TypeOK /\ OneEach /\ [Next]_vars => OneEach'
<1> SUFFICES ASSUME TypeOK, OneEach, [Next]_vars PROVE OneEach'
  OBVIOUS
<1>1. ASSUME NEW s \in Servers, NEW claimed, hand' = [hand EXCEPT ![s] = claimed],
             \A i, j \in claimed : i = j
      PROVE  OneEach'
  <2>1. \A r \in Servers : hand'[r] = IF r = s THEN claimed ELSE hand[r]
    BY <1>1 DEF TypeOK
  <2> QED BY <1>1, <2>1 DEF OneEach
<1>2. ASSUME NEW s \in Servers, Claim(s) PROVE OneEach'
  <2>1. PICK j \in Jobs : hand' = [hand EXCEPT ![s] = {j}]
    BY <1>2 DEF Claim
  <2>2. \A i, k \in {j} : i = k
    OBVIOUS
  <2> QED BY <1>1, <2>1, <2>2
<1>3. ASSUME NEW s \in Servers, Complete(s) \/ CompleteFails(s) \/ Exit(s) \/ Crash(s)
      PROVE  OneEach'
  BY <1>1, <1>3 DEF Complete, CompleteFails, Exit, Crash, Dies
<1>4. CASE UNCHANGED hand
  BY <1>4 DEF OneEach
<1> QED BY <1>2, <1>3, <1>4
        DEF Next, Worker, Process, Enqueue, StartLoop, LoopEnds, Boot, Stop, Cancel, vars

\* What the board shows of a job that s has in hand, and once s lets go of it.
LEMMA InHand ==
  ASSUME QueueInv, NEW s \in Servers, NEW j \in hand[s]
  PROVE  j \in Jobs /\ Holders[j] = {s}
<1>1. j \in Jobs
  BY DEF QueueInv, TypeOK
<1>2. \A r \in Servers : j \in hand[r] => r = s
  BY <1>1 DEF QueueInv
<1> QED BY <1>1, <1>2 DEF Holders

LEMMA LetGo ==
  ASSUME QueueInv, OneEach, NEW s \in Servers, NEW j \in hand[s],
         hand' = [hand EXCEPT ![s] = {}]
  PROVE  Holders' = [Holders EXCEPT ![j] = {}]
<1>1. \A r \in Servers : hand'[r] = IF r = s THEN {} ELSE hand[r]
  BY DEF QueueInv, TypeOK
<1>2. j \in Jobs /\ \A r \in Servers : j \in hand[r] => r = s
  BY InHand DEF QueueInv
<1>3. \A i \in Jobs : i # j => i \notin hand[s]
  BY DEF OneEach
<1>4. ASSUME NEW i \in Jobs
      PROVE  {r \in Servers : i \in hand'[r]}
               = IF i = j THEN {} ELSE {r \in Servers : i \in hand[r]}
  BY <1>1, <1>2, <1>3
<1> QED BY <1>2, <1>4, Zenon DEF Holders

LEMMA EmptyHand ==
  ASSUME QueueInv, NEW s \in Servers, hand[s] = {}, hand' = [hand EXCEPT ![s] = {}]
  PROVE  Holders' = Holders
<1>1. hand' = hand
  BY DEF QueueInv, TypeOK
<1> QED BY <1>1 DEF Holders

LEMMA BoardStep ==
  QueueInv /\ OneEach /\ [Next]_vars => [Board!Next]_<<status, Holders>>
<1> SUFFICES ASSUME QueueInv, OneEach, [Next]_vars PROVE [Board!Next]_<<status, Holders>>
  OBVIOUS
<1>1. ASSUME NEW j \in Jobs, Enqueue(j) PROVE Board!Next
  BY <1>1 DEF Enqueue, Holders, Board!Post, Board!Next
<1>2. ASSUME NEW s \in Servers, Claim(s) PROVE Board!Next
  <2>1. PICK j \in Jobs : /\ status[j] = "pending"
                          /\ status' = [status EXCEPT ![j] = "running"]
                          /\ hand' = [hand EXCEPT ![s] = {j}]
    BY <1>2 DEF Claim, Claimable
  <2>2. \A r \in Servers : hand'[r] = IF r = s THEN {j} ELSE hand[r]
    BY <2>1 DEF QueueInv, TypeOK
  <2>3. hand[s] = {} /\ \A r \in Servers : j \notin hand[r]
    BY <1>2, <2>1 DEF Claim, QueueInv
  <2>4. ASSUME NEW i \in Jobs
        PROVE  {r \in Servers : i \in hand'[r]}
                 = IF i = j THEN {s} ELSE {r \in Servers : i \in hand[r]}
    BY <2>2, <2>3
  <2>5. Holders[j] = {} /\ Holders' = [Holders EXCEPT ![j] = {s}]
    BY <2>3, <2>4 DEF Holders
  <2>6. Board!Take(j, s)
    BY <2>1, <2>5 DEF Board!Take
  <2> QED BY <2>6 DEF Board!Next
<1>3. ASSUME NEW s \in Servers, Complete(s) PROVE [Board!Next]_<<status, Holders>>
  <2>1. /\ status' = [i \in Jobs |-> IF i \in hand[s] THEN "completed" ELSE status[i]]
        /\ hand' = [hand EXCEPT ![s] = {}]
    BY <1>3 DEF Complete
  <2>2. CASE hand[s] = {}
    <3>1. status' = status
      BY <2>1, <2>2 DEF QueueInv, TypeOK
    <3> QED BY <2>1, <2>2, <3>1, EmptyHand
  <2>3. ASSUME NEW j \in hand[s] PROVE Board!Next
    <3>1. Holders[j] = {s} /\ Holders' = [Holders EXCEPT ![j] = {}] /\ j \in Jobs
      BY <2>1, <2>3, InHand, LetGo
    <3>2. status' = [status EXCEPT ![j] = "completed"]
      <4>1. \A i \in Jobs : i \in hand[s] <=> i = j
        BY <2>3, <3>1 DEF OneEach
      <4> QED BY <2>1, <3>1, <4>1 DEF QueueInv, TypeOK
    <3>3. Board!Finish(j, s)
      BY <3>1, <3>2 DEF Board!Finish
    <3> QED BY <3>1, <3>3 DEF Board!Next
  <2> QED BY <2>2, <2>3
<1>4. ASSUME NEW s \in Servers, status' = status, hand' = [hand EXCEPT ![s] = {}]
      PROVE  [Board!Next]_<<status, Holders>>
  <2>1. CASE hand[s] = {}
    BY <1>4, <2>1, EmptyHand
  <2>2. ASSUME NEW j \in hand[s] PROVE Board!Next
    <3>1. Holders[j] = {s} /\ Holders' = [Holders EXCEPT ![j] = {}] /\ j \in Jobs
      BY <1>4, <2>2, InHand, LetGo
    <3>2. Board!Drop(j, s)
      BY <1>4, <3>1 DEF Board!Drop
    <3> QED BY <3>1, <3>2 DEF Board!Next
  <2> QED BY <2>1, <2>2
<1>5. CASE UNCHANGED <<status, hand>>
  BY <1>5 DEF Holders
<1> QED BY <1>1, <1>2, <1>3, <1>4, <1>5
        DEF Next, Worker, Process, CompleteFails, Exit, Crash, Dies, StartLoop, LoopEnds, Boot, Stop,
            Cancel, vars

(***************************************************************************)
(* The queue implements the board, for any number of jobs and servers: the *)
(* two UPDATEs of processJobs and the shutdown take no job from another.   *)
(***************************************************************************)
THEOREM ImplementsBoard == Spec => BoardSpec
<1>1. Init => Board!Init /\ OneEach
  BY DEF Init, Board!Init, Holders, OneEach
<1>2. QueueInv => TypeOK
  BY DEF QueueInv
<1> QED BY <1>1, <1>2, OneEachStep, BoardStep, Queueing, PTL DEF Spec, BoardSpec, Board!Spec
=============================================================================
