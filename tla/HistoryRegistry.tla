-------------------------- MODULE HistoryRegistry --------------------------
(***************************************************************************)
(* What the git root promises about repository histories, whatever becomes *)
(* of the table: a history is written once, stays one piece, may move to a *)
(* free name, and once erased (or never written) does not come back.       *)
(***************************************************************************)
CONSTANTS Names, Ids, Unborn, Gone

VARIABLE where   \* where[id]: the name that holds the history of id

Free(n) == \A id \in Ids : where[id] # n

Init == where = [id \in Ids |-> Unborn]

Write(id, n) ==
  /\ where[id] = Unborn /\ Free(n)
  /\ where' = [where EXCEPT ![id] = n]

Move(id, n) ==
  /\ where[id] \in Names /\ Free(n)
  /\ where' = [where EXCEPT ![id] = n]

Erase(id) ==
  /\ where[id] \in Names
  /\ where' = [where EXCEPT ![id] = Gone]

\* Creations that end without a directory of their own.
Abandon ==
  /\ where' \in [Ids -> Names \cup {Unborn, Gone}]
  /\ \A id \in Ids : where'[id] # where[id] => where[id] = Unborn /\ where'[id] = Gone

Next ==
  \/ \E id \in Ids, n \in Names : Write(id, n) \/ Move(id, n)
  \/ \E id \in Ids : Erase(id)
  \/ Abandon

Spec == Init /\ [][Next]_where
=============================================================================
