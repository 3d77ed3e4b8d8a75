------------------------------- MODULE Stars -------------------------------
(***************************************************************************)
(* The stars of one repository: the rows of table stars, the counter       *)
(* repositories.stars_count, and the star button of the repository page.   *)
(*                                                                         *)
(* The handlers change the row and the counter in two statements outside   *)
(* any transaction.  The button sends "star" or "unstar" according to what *)
(* the page last fetched, which may be out of date: a user may have the    *)
(* page open in several tabs, and nothing refetches when a tab gets the    *)
(* focus.  The button is disabled while its own request is pending, but    *)
(* not while the page fetches whether the repository is starred: reading   *)
(* the row at the server and showing the answer are two steps.             *)
(***************************************************************************)
EXTENDS Integers, FiniteSets

CONSTANTS
  Users,
  Tabs,      \* open repository pages
  Who,       \* Who[t]: the user signed in in tab t
  MaxCount,  \* bound: stars_count (lost decrements could raise it for ever)
  Faults     \* "db": a statement fails; "net": a message does not get through

ASSUME TabsAssumption     == IsFiniteSet(Tabs) /\ Who \in [Tabs -> Users]
ASSUME MaxCountAssumption == MaxCount \in Nat
ASSUME FaultsAssumption   == Faults \subseteq {"db", "net"}

VARIABLES
  starred,   \* users with a row in table stars
  count,     \* repositories.stars_count
  pc,        \* pc[t]: the star or unstar request of tab t
  view,      \* view[t]: what the button shows
  fetch,     \* fetch[t]: the fetch under way in tab t: "asked", or its answer
  mishaps    \* history variable: what went wrong so far

vars == <<starred, count, pc, view, fetch, mishaps>>

Phases == {"idle", "star", "unstar", "plus", "minus", "done"}

\* "race": an unstar overtook the counting of its star; "db": a count failed;
\* "lost": the page missed or misread an answer; "early": the button was pressed
\* before the page had its first answer.
Mishaps == {"race", "db", "lost", "early"}

TypeOK ==
  /\ starred \subseteq Users
  /\ count \in Nat
  /\ pc \in [Tabs -> Phases]
  /\ view \in [Tabs -> {"unknown", "yes", "no"}]
  /\ fetch \in [Tabs -> {"none", "asked", "yes", "no"}]
  /\ mishaps \subseteq Mishaps

Init ==
  /\ starred = {} /\ count = 0
  /\ pc = [t \in Tabs |-> "idle"]
  /\ view = [t \in Tabs |-> "unknown"]
  /\ fetch = [t \in Tabs |-> "asked"]
  /\ mishaps = {}

Goto(t, from, to) == pc[t] = from /\ pc' = [pc EXCEPT ![t] = to]

AllAt(phase) == {t \in Tabs : pc[t] = phase}

-----------------------------------------------------------------------------
(* The page                                                                *)

\* The page is loaded (again).
Load(t) ==
  /\ pc[t] = "idle"
  /\ view' = [view EXCEPT ![t] = "unknown"]
  /\ fetch' = [fetch EXCEPT ![t] = "asked"]
  /\ UNCHANGED <<starred, count, pc, mishaps>>

\* An unknown state counts as "not starred".
Press(t) ==
  /\ Goto(t, "idle", IF view[t] = "yes" THEN "unstar" ELSE "star")
  /\ mishaps' = mishaps \cup (IF view[t] = "unknown" THEN {"early"} ELSE {})
  /\ UNCHANGED <<starred, count, view, fetch>>

Shows(t) == IF Who[t] \in starred THEN "yes" ELSE "no"

\* handleCheckStarred
Check(t) ==
  /\ fetch[t] = "asked"
  /\ fetch' = [fetch EXCEPT ![t] = Shows(t)]
  /\ UNCHANGED <<starred, count, pc, view, mishaps>>

\* The server discards the error of its SELECT, the page any error: not starred.
CheckFails(t) ==
  /\ Faults # {}
  /\ fetch[t] # "none"
  /\ fetch' = [fetch EXCEPT ![t] = "no"]
  /\ mishaps' = mishaps \cup {"lost"}
  /\ UNCHANGED <<starred, count, pc, view>>

Receive(t) ==
  /\ fetch[t] \in {"yes", "no"}
  /\ view' = [view EXCEPT ![t] = fetch[t]]
  /\ fetch' = [fetch EXCEPT ![t] = "none"]
  /\ UNCHANGED <<starred, count, pc, mishaps>>

\* Mutation: the page does not ask again.
InvalidatedNot(t) == fetch[t]

\* A fetch under way is abandoned for a new one, but not the very first one:
\* the query joins that.
Invalidated(t) == IF view[t] = "unknown" /\ fetch[t] # "none" THEN fetch[t] ELSE "asked"

\* The request is answered; onSuccess invalidates the query.
Answered(t) ==
  /\ Goto(t, "done", "idle")
  /\ fetch' = [fetch EXCEPT ![t] = Invalidated(t)]
  /\ UNCHANGED <<starred, count, view, mishaps>>

\* The request or its answer is lost; the mutation fails and nothing is refetched.
MutationFails(t) ==
  /\ "net" \in Faults
  /\ \E from \in {"star", "unstar", "done"} : Goto(t, from, "idle")
  /\ mishaps' = mishaps \cup {"lost"}
  /\ UNCHANGED <<starred, count, view, fetch>>

-----------------------------------------------------------------------------
(* handleStarRepo and handleUnstarRepo                                     *)

\* Mutation: a star is counted although there was one already.
InsertStarBlindly(t) ==
  /\ Goto(t, "star", "plus")
  /\ starred' = starred \cup {Who[t]}
  /\ UNCHANGED <<count, view, fetch, mishaps>>

InsertStar(t) ==
  /\ Goto(t, "star", "plus")
  /\ Who[t] \notin starred
  /\ starred' = starred \cup {Who[t]}
  /\ UNCHANGED <<count, view, fetch, mishaps>>

\* Mutation: an unstar is counted although there was no star.
DeleteStarBlindly(t) ==
  /\ Goto(t, "unstar", "minus")
  /\ starred' = starred \ {Who[t]}
  /\ UNCHANGED <<count, view, fetch, mishaps>>

\* The counter goes astray when the increment for this very star is still due.
DeleteStar(t) ==
  /\ Goto(t, "unstar", "minus")
  /\ Who[t] \in starred
  /\ starred' = starred \ {Who[t]}
  /\ mishaps' = mishaps \cup
       (IF \E u \in AllAt("plus") : Who[u] = Who[t] THEN {"race"} ELSE {})
  /\ UNCHANGED <<count, view, fetch>>

\* No row is affected, or the statement fails: 204, and no counting.
NothingToDo(t) ==
  /\ \/ Goto(t, "star", "done") /\ (Who[t] \in starred \/ "db" \in Faults)
     \/ Goto(t, "unstar", "done") /\ (Who[t] \notin starred \/ "db" \in Faults)
  /\ UNCHANGED <<starred, count, view, fetch, mishaps>>

CountUp(t) ==
  /\ count < MaxCount
  /\ Goto(t, "plus", "done")
  /\ count' = count + 1
  /\ UNCHANGED <<starred, view, fetch, mishaps>>

\* Mutation: the clamp is forgotten.
CountDownBelowZero(t) ==
  /\ Goto(t, "minus", "done")
  /\ count' = count - 1
  /\ UNCHANGED <<starred, view, fetch, mishaps>>

\* GREATEST(stars_count - 1, 0)
CountDown(t) ==
  /\ Goto(t, "minus", "done")
  /\ count' = IF count = 0 THEN 0 ELSE count - 1
  /\ UNCHANGED <<starred, view, fetch, mishaps>>

CountFails(t) ==
  /\ "db" \in Faults
  /\ Goto(t, "plus", "done") \/ Goto(t, "minus", "done")
  /\ mishaps' = mishaps \cup {"db"}
  /\ UNCHANGED <<starred, count, view, fetch>>

Handle(t) ==
  \/ InsertStar(t) \/ DeleteStar(t) \/ NothingToDo(t)
  \/ CountUp(t) \/ CountDown(t) \/ CountFails(t)

Page(t) ==
  \/ Load(t) \/ Press(t) \/ Check(t) \/ CheckFails(t) \/ Receive(t)
  \/ Answered(t) \/ MutationFails(t)

Next == \E t \in Tabs : Page(t) \/ Handle(t)

Spec == Init /\ [][Next]_vars

-----------------------------------------------------------------------------
(* Properties                                                              *)

Due == Cardinality(AllAt("plus"))
Owed == Cardinality(AllAt("minus"))

(***************************************************************************)
(* stars_count is the number of stars up to what requests under way have   *)
(* still to count, and the clamp at 0 never swallows a decrement, unless   *)
(* an unstar overtook the increment of the same user's star or a           *)
(* statement failed.                                                       *)
(***************************************************************************)
CountExact ==
  mishaps \cap {"race", "db"} = {} => count + Due = Cardinality(starred) + Owed

(***************************************************************************)
(* Races alone never make stars_count too small: as long as no statement   *)
(* fails it may only exceed the number of stars.                           *)
(***************************************************************************)
NeverUndercounts ==
  "db" \notin mishaps => count + Due >= Cardinality(starred) + Owed

(***************************************************************************)
(* The button of a user's only tab shows the truth whenever no request of  *)
(* the tab is under way, however its fetches and requests interleave, as   *)
(* long as the page loses no answer and the button is not pressed before   *)
(* the first one: failed INSERTs and DELETEs, and other users, cannot make *)
(* it lie.                                                                 *)
(***************************************************************************)
OnlyTab(t) == \A u \in Tabs : Who[u] = Who[t] => u = t

ButtonTruthful ==
  mishaps \cap {"lost", "early"} = {} =>
    \A t \in Tabs : OnlyTab(t) /\ pc[t] = "idle" /\ fetch[t] = "none" => view[t] = Shows(t)
=============================================================================
