------------------------------ MODULE Issues -------------------------------
(***************************************************************************)
(* The issues of one repository: how they are numbered, and the two        *)
(* counters kept beside the rows, repositories.open_issues_count and       *)
(* issues.comments_count.  Every handler runs its statements one by one    *)
(* outside any transaction; other requests come in between.  The error of  *)
(* most statements is discarded.                                           *)
(*                                                                         *)
(* Titles, bodies and authors are left out.  A request that is refused     *)
(* before it writes (unknown repository or issue, invalid body) changes    *)
(* nothing and is a stuttering step.                                       *)
(***************************************************************************)
EXTENDS Integers, FiniteSets
LOCAL INSTANCE FiniteSetsExt

CONSTANTS
  Handlers,     \* goroutines serving requests
  MaxNumber,    \* bound: issues are numbered up to MaxNumber
  MaxComments,  \* bound: comments in all
  MaxCount,     \* bound: open_issues_count (failures could raise it for ever)
  Faults        \* "db": a statement fails, or the client goes away

ASSUME HandlersAssumption == IsFiniteSet(Handlers)
ASSUME BoundsAssumption   == MaxNumber \in Nat /\ MaxComments \in Nat /\ MaxCount \in Nat
ASSUME FaultsAssumption   == Faults \subseteq {"db"}

Numbers == 0 .. MaxNumber

VARIABLES
  numbers,    \* numbers of the issues in the table
  open,       \* the open ones
  openCount,  \* repositories.open_issues_count
  posted,     \* posted[n]: rows of table comments for issue n
  shown,      \* shown[n]: comments_count of issue n
  req,        \* req[h]: the request handler h is serving
  drifting    \* history variable: the counters a race or a failure has set off

vars == <<numbers, open, openCount, posted, shown, req, drifting>>

IdleReq == [pc |-> "idle", num |-> 0, want |-> "open"]

\* insert: the number is chosen; set: the state was read and differs;
\* plus, minus: the open counter is still to change; tally: the comment counter.
Phases == {"insert", "set", "plus", "minus", "tally"}

TypeOK ==
  /\ numbers \subseteq Numbers
  /\ open \subseteq Numbers
  /\ openCount \in Nat
  /\ posted \in [Numbers -> Nat]
  /\ shown \in [Numbers -> Nat]
  /\ req \in [Handlers -> [pc : Phases \cup {"idle"}, num : Numbers, want : {"open", "closed"}]]
  /\ drifting \subseteq {"open", "comments"}

Init ==
  /\ numbers = {} /\ open = {} /\ openCount = 0
  /\ posted = [n \in Numbers |-> 0]
  /\ shown = [n \in Numbers |-> 0]
  /\ req = [h \in Handlers |-> IdleReq]
  /\ drifting = {}

-----------------------------------------------------------------------------

At(phase, n) == {h \in Handlers : req[h].pc = phase /\ req[h].num = n}
AllAt(phase) == {h \in Handlers : req[h].pc = phase}

Begin(h, phase, n, want) ==
  /\ req[h].pc = "idle"
  /\ req' = [req EXCEPT ![h] = [pc |-> phase, num |-> n, want |-> want]]

Goto(h, from, to) ==
  /\ req[h].pc = from
  /\ req' = [req EXCEPT ![h].pc = to]

Finish(h, from) ==
  /\ req[h].pc = from
  /\ req' = [req EXCEPT ![h] = IdleReq]

-----------------------------------------------------------------------------
(* handleCreateIssue                                                       *)

\* Mutation: COUNT(*) + 1
NextByCount == 1 + Cardinality(numbers)

\* COALESCE(MAX(number), 0) + 1
NextNumber == 1 + (IF numbers = {} THEN 0
                   ELSE CHOOSE n \in numbers : \A m \in numbers : m <= n)

\* When the SELECT fails its error is discarded and the number stays 0.
ReadNumber(h) ==
  /\ \/ NextNumber \in Numbers /\ Begin(h, "insert", NextNumber, "open")
     \/ "db" \in Faults /\ Begin(h, "insert", 0, "open")
  /\ UNCHANGED <<numbers, open, openCount, posted, shown, drifting>>

InsertIssue(h) ==
  /\ Goto(h, "insert", "plus")
  /\ req[h].num \notin numbers
  /\ numbers' = numbers \cup {req[h].num}
  /\ open' = open \cup {req[h].num}
  /\ UNCHANGED <<openCount, posted, shown, drifting>>

\* UNIQUE (repository_id, number), or the statement fails: 500.
InsertIssueFails(h) ==
  /\ Finish(h, "insert")
  /\ req[h].num \in numbers \/ "db" \in Faults
  /\ UNCHANGED <<numbers, open, openCount, posted, shown, drifting>>

-----------------------------------------------------------------------------
(* handleUpdateIssue: the state is read first, and compared with the one   *)
(* that is asked for; a request for the state read does no more.           *)

StateOf(n) == IF n \in open THEN "open" ELSE "closed"

ReadState(h, n, want) ==
  /\ n \in numbers /\ want # StateOf(n)
  /\ Begin(h, "set", n, want)
  /\ UNCHANGED <<numbers, open, openCount, posted, shown, drifting>>

\* Mutation: reopening counts like closing.
CountingDownOnly(want) == "minus"

Counting(want) == IF want = "open" THEN "plus" ELSE "minus"

\* The counter goes astray when the issue is in the wanted state by now, or is
\* closed while an increment for it is still to come.
Overtakes(n, want) ==
  \/ want = StateOf(n)
  \/ want = "closed" /\ At("plus", n) # {}

SetState(h) ==
  LET n == req[h].num
      want == req[h].want
  IN  /\ Goto(h, "set", Counting(want))
      /\ open' = IF want = "open" THEN open \cup {n} ELSE open \ {n}
      /\ drifting' = drifting \cup (IF Overtakes(n, want) THEN {"open"} ELSE {})
      /\ UNCHANGED <<numbers, openCount, posted, shown>>

\* The UPDATE fails, its error is discarded, and the counter changes all the same.
SetStateFails(h) ==
  /\ "db" \in Faults
  /\ Goto(h, "set", Counting(req[h].want))
  /\ drifting' = drifting \cup {"open"}
  /\ UNCHANGED <<numbers, open, openCount, posted, shown>>

CountUp(h) ==
  /\ openCount < MaxCount
  /\ Finish(h, "plus")
  /\ openCount' = openCount + 1
  /\ UNCHANGED <<numbers, open, posted, shown, drifting>>

\* Mutation: the clamp is forgotten.
CountDownBelowZero(h) ==
  /\ Finish(h, "minus")
  /\ openCount' = openCount - 1
  /\ UNCHANGED <<numbers, open, posted, shown, drifting>>

\* GREATEST(open_issues_count - 1, 0)
CountDown(h) ==
  /\ Finish(h, "minus")
  /\ openCount' = IF openCount = 0 THEN 0 ELSE openCount - 1
  /\ UNCHANGED <<numbers, open, posted, shown, drifting>>

CountFails(h) ==
  /\ "db" \in Faults
  /\ Finish(h, "plus") \/ Finish(h, "minus")
  /\ drifting' = drifting \cup {"open"}
  /\ UNCHANGED <<numbers, open, openCount, posted, shown>>

-----------------------------------------------------------------------------
(* handleCreateIssueComment                                                *)

PostedInAll == MapThenSumSet(LAMBDA n : posted[n], Numbers)

InsertComment(h, n) ==
  /\ n \in numbers /\ PostedInAll < MaxComments
  /\ Begin(h, "tally", n, "open")
  /\ posted' = [posted EXCEPT ![n] = @ + 1]
  /\ UNCHANGED <<numbers, open, openCount, shown, drifting>>

\* Mutation: comments_count is set to the number of comments there are.
TallyRecounts(h) ==
  /\ Finish(h, "tally")
  /\ shown' = [shown EXCEPT ![req[h].num] = posted[req[h].num]]
  /\ UNCHANGED <<numbers, open, openCount, posted, drifting>>

Tally(h) ==
  /\ Finish(h, "tally")
  /\ shown' = [shown EXCEPT ![req[h].num] = @ + 1]
  /\ UNCHANGED <<numbers, open, openCount, posted, drifting>>

TallyFails(h) ==
  /\ "db" \in Faults
  /\ Finish(h, "tally")
  /\ drifting' = drifting \cup {"comments"}
  /\ UNCHANGED <<numbers, open, openCount, posted, shown>>

Next ==
  \E h \in Handlers :
    \/ ReadNumber(h) \/ InsertIssue(h) \/ InsertIssueFails(h)
    \/ \E n \in Numbers, want \in {"open", "closed"} : ReadState(h, n, want)
    \/ SetState(h) \/ SetStateFails(h)
    \/ CountUp(h) \/ CountDown(h) \/ CountFails(h)
    \/ \E n \in Numbers : InsertComment(h, n)
    \/ Tally(h) \/ TallyFails(h)

Spec == Init /\ [][Next]_vars

-----------------------------------------------------------------------------
(* Properties                                                              *)

(***************************************************************************)
(* handleCreateIssue takes a number read earlier and holds no lock; still  *)
(* issues are numbered 1, 2, 3, ... without a gap, so that each new one    *)
(* gets the next number, whatever interleaves or fails.  (Number 0 is what *)
(* a failed SELECT leaves.)                                                *)
(***************************************************************************)
Gapless == \A n \in numbers : \A m \in 1 .. n : m \in numbers

(***************************************************************************)
(* open_issues_count is the number of open issues up to the increments and *)
(* decrements that requests have still to make, and the clamp at 0 never   *)
(* swallows a decrement, unless a state change was overtaken or failed.    *)
(***************************************************************************)
OpenCountExact ==
  "open" \notin drifting =>
    openCount + Cardinality(AllAt("plus")) = Cardinality(open) + Cardinality(AllAt("minus"))

(***************************************************************************)
(* comments_count lags behind the comments by the requests under way, and  *)
(* never runs ahead of them even when statements fail.                     *)
(***************************************************************************)
CommentsCounted ==
  \A n \in Numbers :
    LET due == shown[n] + Cardinality(At("tally", n))
    IN  due <= posted[n] /\ ("comments" \notin drifting => due = posted[n])

(***************************************************************************)
(* migrations/001_initial.up.sql:412 says that issue numbers are handled   *)
(* "via max+1 with locking": a number chosen would stay free until the     *)
(* issue is inserted.                                                      *)
(***************************************************************************)
ChosenNumberStaysFree ==
  \A h \in Handlers : req[h].pc = "insert" => req[h].num \notin numbers
=============================================================================
