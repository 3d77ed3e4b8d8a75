------------------------------ MODULE JobQueue -----------------------------
(***************************************************************************)
(* The background jobs: the rows of table jobs, and the worker goroutine   *)
(* of every server process that claims a job in one statement and marks it *)
(* completed in another.  A process stops in order (main cancels the       *)
(* context, then waits for its worker) or dies, and is started again.      *)
(*                                                                         *)
(* Nothing in the repository inserts a job yet; Enqueue stands for the     *)
(* producers to come.  All jobs are due: run_at only orders the claims.    *)
(***************************************************************************)
EXTENDS Naturals

CONSTANTS
  Jobs,
  Servers,      \* server processes on the same database
  MaxAttempts,  \* column max_attempts
  MaxStops,     \* bound: how often server processes stop or die, in all
  Faults        \* "db": the UPDATE that completes a job fails; "crash"

ASSUME MaxAttemptsAssumption == MaxAttempts \in Nat \ {0}
ASSUME MaxStopsAssumption    == MaxStops \in Nat
ASSUME FaultsAssumption      == Faults \subseteq {"db", "crash"}

VARIABLES
  status,    \* status[j]: column status, "absent" before there is a row
  attempts,  \* attempts[j]: column attempts
  main,      \* main[s]: how far main is in server s
  loop,      \* loop[s]: the worker goroutine of server s
  hand,      \* hand[s]: the jobs the worker has claimed and not dealt with
  stops,     \* how often a server stopped or died
  stranded   \* history variable: the jobs dropped between their two UPDATEs

vars == <<status, attempts, main, loop, hand, stops, stranded>>

TypeOK ==
  /\ status \in [Jobs -> {"absent", "pending", "running", "completed"}]
  /\ attempts \in [Jobs -> 0 .. MaxAttempts]
  /\ main \in [Servers -> {"down", "up", "cancelled", "waited"}]
  /\ loop \in [Servers -> {"unstarted", "waiting", "busy", "ended"}]
  /\ hand \in [Servers -> SUBSET Jobs]
  /\ stops \in 0 .. MaxStops
  /\ stranded \subseteq Jobs

Init ==
  /\ status = [j \in Jobs |-> "absent"]
  /\ attempts = [j \in Jobs |-> 0]
  /\ main = [s \in Servers |-> "down"]
  /\ loop = [s \in Servers |-> "unstarted"]
  /\ hand = [s \in Servers |-> {}]
  /\ stops = 0
  /\ stranded = {}

Enqueue(j) ==
  /\ status[j] = "absent"
  /\ status' = [status EXCEPT ![j] = "pending"]
  /\ UNCHANGED <<attempts, main, loop, hand, stops, stranded>>

-----------------------------------------------------------------------------
(* The worker                                                              *)

\* "go jobWorker.Start(ctx)": the goroutine that starts the loop may come late.
StartLoop(s) ==
  /\ main[s] # "down" /\ loop[s] = "unstarted"
  /\ loop' = [loop EXCEPT ![s] = "waiting"]
  /\ UNCHANGED <<status, attempts, main, hand, stops, stranded>>

\* Mutation: max_attempts is not looked at either.
ClaimableForEver(j) == status[j] \in {"pending", "running"}

Claimable(j) == status[j] = "pending" /\ attempts[j] < MaxAttempts

\* A tick of the ticker; SKIP LOCKED keeps two workers off the same row.  When
\* the context is cancelled the statement fails.
Claim(s) ==
  /\ main[s] = "up" /\ loop[s] = "waiting"
  /\ \E j \in Jobs :
       /\ Claimable(j)
       /\ status' = [status EXCEPT ![j] = "running"]
       /\ attempts' = [attempts EXCEPT ![j] = @ + 1]
       /\ hand' = [hand EXCEPT ![s] = {j}]
  /\ loop' = [loop EXCEPT ![s] = "busy"]
  /\ UNCHANGED <<main, stops, stranded>>

\* Mutation: the UPDATE goes by locked_by, which is 'worker' for all of them.
CompleteLocked(s) ==
  /\ main[s] = "up" /\ loop[s] = "busy"
  /\ status' = [j \in Jobs |-> IF status[j] = "running" THEN "completed" ELSE status[j]]
  /\ hand' = [hand EXCEPT ![s] = {}]
  /\ loop' = [loop EXCEPT ![s] = "waiting"]
  /\ UNCHANGED <<attempts, main, stops, stranded>>

Complete(s) ==
  /\ main[s] = "up" /\ loop[s] = "busy"
  /\ status' = [j \in Jobs |-> IF j \in hand[s] THEN "completed" ELSE status[j]]
  /\ hand' = [hand EXCEPT ![s] = {}]
  /\ loop' = [loop EXCEPT ![s] = "waiting"]
  /\ UNCHANGED <<attempts, main, stops, stranded>>

\* Mutation: the worker gives up on an error.
CompleteFailsForGood(s) ==
  /\ loop[s] = "busy"
  /\ main[s] = "cancelled" \/ "db" \in Faults
  /\ stranded' = stranded \cup hand[s]
  /\ hand' = [hand EXCEPT ![s] = {}]
  /\ loop' = [loop EXCEPT ![s] = "ended"]
  /\ UNCHANGED <<status, attempts, main, stops>>

\* The statement fails, or the context is cancelled; the error is discarded.
CompleteFails(s) ==
  /\ loop[s] = "busy"
  /\ main[s] = "cancelled" \/ "db" \in Faults
  /\ stranded' = stranded \cup hand[s]
  /\ hand' = [hand EXCEPT ![s] = {}]
  /\ loop' = [loop EXCEPT ![s] = "waiting"]
  /\ UNCHANGED <<status, attempts, main, stops>>

\* ctx.Done() or the closed channel stop; a tick that is taken first does nothing.
LoopEnds(s) ==
  /\ main[s] \in {"cancelled", "waited"} /\ loop[s] = "waiting"
  /\ loop' = [loop EXCEPT ![s] = "ended"]
  /\ UNCHANGED <<status, attempts, main, hand, stops, stranded>>

-----------------------------------------------------------------------------
(* The process                                                             *)

Boot(s) ==
  /\ main[s] = "down"
  /\ main' = [main EXCEPT ![s] = "up"]
  /\ loop' = [loop EXCEPT ![s] = "unstarted"]
  /\ UNCHANGED <<status, attempts, hand, stops, stranded>>

\* SIGTERM: after the servers have shut down, cancel().
Cancel(s) ==
  /\ main[s] = "up" /\ stops < MaxStops
  /\ main' = [main EXCEPT ![s] = "cancelled"]
  /\ stops' = stops + 1
  /\ UNCHANGED <<status, attempts, loop, hand, stranded>>

\* Mutation: Stop does not wait.
StopAtOnce(s) ==
  /\ main[s] = "cancelled"
  /\ main' = [main EXCEPT ![s] = "waited"]
  /\ UNCHANGED <<status, attempts, loop, hand, stops, stranded>>

\* wg.Wait() returns when the loop has ended, or was never added to wg.
Stop(s) ==
  /\ main[s] = "cancelled" /\ loop[s] \in {"unstarted", "ended"}
  /\ main' = [main EXCEPT ![s] = "waited"]
  /\ UNCHANGED <<status, attempts, loop, hand, stops, stranded>>

Dies(s) ==
  /\ main' = [main EXCEPT ![s] = "down"]
  /\ loop' = [loop EXCEPT ![s] = "ended"]
  /\ hand' = [hand EXCEPT ![s] = {}]
  /\ stranded' = stranded \cup hand[s]
  /\ UNCHANGED <<status, attempts>>

\* main returns.
Exit(s) == main[s] = "waited" /\ Dies(s) /\ UNCHANGED stops

Crash(s) ==
  /\ "crash" \in Faults
  /\ main[s] # "down" /\ stops < MaxStops
  /\ Dies(s)
  /\ stops' = stops + 1

Worker(s) == StartLoop(s) \/ Claim(s) \/ Complete(s) \/ CompleteFails(s) \/ LoopEnds(s)

Process(s) == Boot(s) \/ Stop(s) \/ Exit(s)

Next ==
  \/ \E j \in Jobs : Enqueue(j)
  \/ \E s \in Servers : Worker(s) \/ Process(s) \/ Cancel(s) \/ Crash(s)

Spec == Init /\ [][Next]_vars

\* The ticker ticks on, goroutines run on, and a server that stopped is started
\* again ("restart: unless-stopped" in docker-compose.yml).
FairSpec == Spec /\ \A s \in Servers : WF_vars(Worker(s)) /\ WF_vars(Process(s))

-----------------------------------------------------------------------------
(* Properties                                                              *)

(***************************************************************************)
(* When Stop returns no job is in the worker's hands and the worker will   *)
(* not claim another one, even if its goroutine only starts then.          *)
(***************************************************************************)
StopWaits == \A s \in Servers : main[s] = "waited" => hand[s] = {} /\ loop[s] # "busy"

(***************************************************************************)
(* The job rows and the workers' hands implement JobBoard: however claims, *)
(* completions, restarts and deaths interleave, a job changes hands only   *)
(* as the board says, and no UPDATE touches a job of another.              *)
(***************************************************************************)
Holders == [j \in Jobs |-> {s \in Servers : j \in hand[s]}]

Board == INSTANCE JobBoard WITH holders <- Holders

BoardSpec == Board!Spec

(***************************************************************************)
(* Every job that is due is completed, unless its worker drops it between  *)
(* the two UPDATEs; in particular no restart loses a pending job.          *)
(***************************************************************************)
DueJobsSettle ==
  \A j \in Jobs : status[j] = "pending" ~> status[j] = "completed" \/ j \in stranded

(***************************************************************************)
(* README.md:22, "Background job queue (durable in PostgreSQL)": a job in  *)
(* the table is done in the end, also across restarts.                     *)
(***************************************************************************)
Durable == \A j \in Jobs : status[j] = "pending" ~> status[j] = "completed"
=============================================================================
