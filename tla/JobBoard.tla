------------------------------ MODULE JobBoard ------------------------------
(***************************************************************************)
(* What the queue promises about a job, whatever becomes of the servers:   *)
(* it is taken once, by one of them, who alone may finish it; one that is  *)
(* dropped is neither taken again nor finished, and a finished one stays.  *)
(***************************************************************************)
CONSTANTS Jobs, Servers

VARIABLES status,
          holders   \* holders[j]: the servers that have job j in hand

Init == status = [j \in Jobs |-> "absent"] /\ holders = [j \in Jobs |-> {}]

Post(j) ==
  /\ status[j] = "absent"
  /\ status' = [status EXCEPT ![j] = "pending"]
  /\ UNCHANGED holders

Take(j, s) ==
  /\ status[j] = "pending" /\ holders[j] = {}
  /\ status' = [status EXCEPT ![j] = "running"]
  /\ holders' = [holders EXCEPT ![j] = {s}]

Finish(j, s) ==
  /\ holders[j] = {s}
  /\ status' = [status EXCEPT ![j] = "completed"]
  /\ holders' = [holders EXCEPT ![j] = {}]

Drop(j, s) ==
  /\ holders[j] = {s}
  /\ holders' = [holders EXCEPT ![j] = {}]
  /\ UNCHANGED status

Next == \E j \in Jobs :
  \/ Post(j)
  \/ \E s \in Servers : Take(j, s) \/ Finish(j, s) \/ Drop(j, s)

Spec == Init /\ [][Next]_<<status, holders>>
=============================================================================
