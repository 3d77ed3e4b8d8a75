--------------------------- MODULE RepoLifecycle ---------------------------
(***************************************************************************)
(* A repository of SoftGit lives in two stores that no transaction spans:  *)
(* a row of the table "repositories" in PostgreSQL and a bare git          *)
(* directory <git root>/<owner>/<name>.git.  The HTTP handlers that        *)
(* create, delete and rename a repository change the two one after the     *)
(* other; each request runs on its own goroutine, takes no lock, and may   *)
(* be cut short by a failing statement, a disconnected client (the         *)
(* statements run under r.Context()) or the death of the server.           *)
(*                                                                         *)
(* The module models the namespace of one owner.  A name is a spelling:    *)
(* the lookup folds case (LOWER(name)), the unique constraint and the file *)
(* system do not.  A directory is represented by the identity of the       *)
(* repository whose history it holds, so that history turning up under     *)
(* another repository's name is visible.                                   *)
(*                                                                         *)
(* Requests that are answered 4xx/5xx before they touch either store       *)
(* (unknown repository, not the owner, invalid or taken name) change       *)
(* nothing and are stuttering steps.                                       *)
(***************************************************************************)

CONSTANTS
  Names,     \* spellings of repository names
  Canon,     \* Canon[n] is LOWER(n): equal for names that differ in case only
  Ids,       \* the UUIDs the database hands out (bounds the creations)
  Handlers,  \* goroutines serving requests
  Faults,    \* which failures may happen: "git", "db", "crash"
  None

ASSUME CanonAssumption  == Canon \in [Names -> Names]
ASSUME NoneAssumption   == None \notin Names \cup Ids
\* "unborn" and "gone" tell the abstract states of a history from names.
ASSUME NamesAssumption  == Names \cap {"unborn", "gone"} = {}
ASSUME FaultsAssumption == Faults \subseteq {"git", "db", "crash"}

VARIABLES
  rows,     \* rows[id]: the name column of row id, None if there is no such row
  used,     \* the ids given to a row so far (a UUID is never given twice)
  disk,     \* disk[n]: whose history directory n.git holds, None if absent
  req,      \* req[h]: the request handler h is serving
  exposed   \* history variable: the names whose stores may disagree (below)

vars == <<rows, used, disk, req, exposed>>

IdleReq == [pc |-> "idle", id |-> None, typed |-> None, new |-> None]

Phases == {"init", "undo", "remove", "unrow", "move", "update"}

Requests == [pc : Phases, id : Ids, typed : Names, new : Names]

TypeOK ==
  /\ rows \in [Ids -> Names \cup {None}]
  /\ used \subseteq Ids
  /\ disk \in [Names -> Ids \cup {None}]
  /\ req \in [Handlers -> Requests \cup {IdleReq}]
  /\ exposed \subseteq Names

Init ==
  /\ rows = [id \in Ids |-> None]
  /\ used = {}
  /\ disk = [n \in Names |-> None]
  /\ req = [h \in Handlers |-> IdleReq]
  /\ exposed = {}

-----------------------------------------------------------------------------
(* Requests                                                                *)

Busy(h) == req[h].pc # "idle"

\* The names a request reads or writes on disk or in the table.
Works(h) == IF Busy(h) THEN {req[h].typed, req[h].new} ELSE {}

Begin(h, phase, id, typed, new) ==
  /\ ~Busy(h)
  /\ req' = [req EXCEPT ![h] = [pc |-> phase, id |-> id, typed |-> typed, new |-> new]]

Goto(h, from, to) ==
  /\ req[h].pc = from
  /\ req' = [req EXCEPT ![h].pc = to]

Finish(h, from) ==
  /\ req[h].pc = from
  /\ req' = [req EXCEPT ![h] = IdleReq]

(***************************************************************************)
(* Bookkeeping of "exposed".  A name becomes exposed when a request on it  *)
(* stops half-way, when two requests in flight share it, when a request    *)
(* reaches its row by another spelling, or when it is used together with   *)
(* a name that is exposed already.  No guard below reads this variable.    *)
(***************************************************************************)
Entangled(S) ==
  LET sharing == {g \in Handlers : Works(g) \cap S # {}}
  IN  IF sharing # {} \/ S \cap exposed # {}
      THEN S \cup UNION {Works(g) : g \in sharing}
      ELSE {}

Expose(S) == exposed' = exposed \cup S

\* The rows a lookup of t may return: QueryRow scans whichever row comes first.
Found(t) == {id \in Ids : rows[id] # None /\ Canon[rows[id]] = Canon[t]}

\* What a request on the names S exposes when its lookup of t returned row id.
LookupExposes(S, t, id) ==
  LET T == S \cup {rows[id]}
  IN  Entangled(T) \cup (IF rows[id] = t THEN {} ELSE T)

-----------------------------------------------------------------------------
(* handleCreateUserRepo: INSERT, then git init, then perhaps the undo.     *)

\* Mutation: the table has no unique constraint.
CreateInsertTwice(h, n) ==
  /\ \E id \in Ids \ used :
       /\ rows' = [rows EXCEPT ![id] = n]
       /\ used' = used \cup {id}
       /\ Begin(h, "init", id, n, n)
  /\ Expose(Entangled({n}))
  /\ UNCHANGED disk

CreateInsert(h, n) ==
  /\ \A id \in Ids : rows[id] # n
  /\ \E id \in Ids \ used :
       /\ rows' = [rows EXCEPT ![id] = n]
       /\ used' = used \cup {id}
       /\ Begin(h, "init", id, n, n)
  /\ Expose(Entangled({n}))
  /\ UNCHANGED disk

\* Mutation: the directory is emptied first.
InitDirAfresh(n, id) == [disk EXCEPT ![n] = id]

\* git init on a directory that exists re-initialises it and keeps its history.
InitDir(n, id) == IF disk[n] = None THEN [disk EXCEPT ![n] = id] ELSE disk

GitInit(h) ==
  /\ Finish(h, "init")
  /\ disk' = InitDir(req[h].typed, req[h].id)
  /\ UNCHANGED <<rows, used, exposed>>

\* Mutation: the compensating DELETE is forgotten.
GitInitRefusedOnly(h) ==
  /\ Finish(h, "init")
  /\ UNCHANGED <<rows, used, disk, exposed>>

\* default_branch is checked here only, after the row is in the table.
GitInitRefused(h) ==
  /\ Goto(h, "init", "undo")
  /\ UNCHANGED <<rows, used, disk, exposed>>

\* git init fails having made the directory.
GitInitBreaks(h) ==
  /\ "git" \in Faults
  /\ Goto(h, "init", "undo")
  /\ disk' = InitDir(req[h].typed, req[h].id)
  /\ Expose(Works(h))
  /\ UNCHANGED <<rows, used>>

UndoInsert(h) ==
  /\ Finish(h, "undo")
  /\ rows' = [rows EXCEPT ![req[h].id] = None]
  /\ UNCHANGED <<used, disk, exposed>>

\* The error of the compensating DELETE is discarded.
UndoInsertFails(h) ==
  /\ "db" \in Faults
  /\ Finish(h, "undo")
  /\ Expose(Works(h))
  /\ UNCHANGED <<rows, used, disk>>

-----------------------------------------------------------------------------
(* handleDeleteRepo: getRepo, remove the directory typed in the URL,       *)
(* DELETE the row that was found.                                          *)

DeleteLookup(h, t) ==
  \E id \in Found(t) :
    /\ Begin(h, "remove", id, t, t)
    /\ Expose(LookupExposes({t}, t, id))
    /\ UNCHANGED <<rows, used, disk>>

\* Mutation: the directory is looked up like the row, with the case folded.
RemoveAllFolded(h) ==
  /\ Goto(h, "remove", "unrow")
  /\ disk' = [n \in Names |-> IF Canon[n] = Canon[req[h].typed] THEN None ELSE disk[n]]
  /\ UNCHANGED <<rows, used, exposed>>

RemoveAll(h) ==
  /\ Goto(h, "remove", "unrow")
  /\ disk' = [disk EXCEPT ![req[h].typed] = None]
  /\ UNCHANGED <<rows, used, exposed>>

\* An error of git.Delete is logged, and the row is deleted all the same.
RemoveAllFails(h) ==
  /\ "git" \in Faults
  /\ Goto(h, "remove", "unrow")
  /\ Expose(Works(h))
  /\ UNCHANGED <<rows, used, disk>>

DeleteRow(h) ==
  /\ Finish(h, "unrow")
  /\ rows' = [rows EXCEPT ![req[h].id] = None]
  /\ UNCHANGED <<used, disk, exposed>>

\* The error of the DELETE is discarded; the answer is still 204.
DeleteRowFails(h) ==
  /\ "db" \in Faults
  /\ Finish(h, "unrow")
  /\ Expose(Works(h))
  /\ UNCHANGED <<rows, used, disk>>

-----------------------------------------------------------------------------
(* handleRenameRepo: getRepo, move the directory, UPDATE the row.          *)

\* Mutation: a body without a name is let through.
RenameLookupUnchecked(h, t, m) ==
  \E id \in Found(t) :
    /\ Begin(h, "move", id, t, None)
    /\ Expose(LookupExposes({t}, t, id))
    /\ UNCHANGED <<rows, used, disk>>

RenameLookup(h, t, m) ==
  \E id \in Found(t) :
    /\ Begin(h, "move", id, t, m)
    /\ Expose(LookupExposes({t, m}, t, id))
    /\ UNCHANGED <<rows, used, disk>>

\* Mutation: the directory is copied.
MoveDirCopies(h) ==
  /\ Goto(h, "move", "update")
  /\ disk[req[h].typed] # None /\ disk[req[h].new] = None
  /\ disk' = [disk EXCEPT ![req[h].new] = disk[req[h].typed]]
  /\ UNCHANGED <<rows, used, exposed>>

\* Mutation: a directory at the target is replaced.
MoveDirReplaces(h) ==
  /\ Goto(h, "move", "update")
  /\ disk[req[h].typed] # None
  /\ disk' = [disk EXCEPT ![req[h].typed] = None, ![req[h].new] = disk[req[h].typed]]
  /\ UNCHANGED <<rows, used, exposed>>

\* Mutation: the handler returns before the UPDATE.
MoveDirOnly(h) ==
  /\ Finish(h, "move")
  /\ disk[req[h].typed] # None /\ disk[req[h].new] = None
  /\ disk' = [disk EXCEPT ![req[h].typed] = None, ![req[h].new] = disk[req[h].typed]]
  /\ UNCHANGED <<rows, used, exposed>>

\* os.Rename refuses a missing source and a target that is a directory.
MoveDir(h) ==
  LET t == req[h].typed
      m == req[h].new
  IN  /\ Goto(h, "move", "update")
      /\ disk[t] # None /\ disk[m] = None
      /\ disk' = [disk EXCEPT ![t] = None, ![m] = disk[t]]
      /\ UNCHANGED <<rows, used, exposed>>

MoveDirFails(h) ==
  /\ Finish(h, "move")
  /\ \/ disk[req[h].typed] = None
     \/ disk[req[h].new] # None
     \/ "git" \in Faults
  /\ UNCHANGED <<rows, used, disk, exposed>>

Taken(id, m) == rows[id] # None /\ \E other \in Ids \ {id} : rows[other] = m

\* Zero rows updated (the row was deleted meanwhile) is not an error.
UpdateRow(h) ==
  LET id == req[h].id
  IN  /\ Finish(h, "update")
      /\ ~Taken(id, req[h].new)
      /\ rows' = IF rows[id] = None THEN rows ELSE [rows EXCEPT ![id] = req[h].new]
      /\ UNCHANGED <<used, disk, exposed>>

\* 500 "db update failed": the directory stays where it was moved.
UpdateRowFails(h) ==
  /\ Finish(h, "update")
  /\ Taken(req[h].id, req[h].new) \/ "db" \in Faults
  /\ Expose(Works(h))
  /\ UNCHANGED <<rows, used, disk>>

-----------------------------------------------------------------------------
(* The server process dies: every request in flight is forgotten.          *)

Midway(h) == req[h].pc \in {"init", "undo", "unrow", "update"}

Crash ==
  /\ "crash" \in Faults
  /\ \E h \in Handlers : Busy(h)
  /\ req' = [h \in Handlers |-> IdleReq]
  /\ Expose(UNION {Works(h) : h \in {g \in Handlers : Midway(g)}})
  /\ UNCHANGED <<rows, used, disk>>

Start(h) ==
  \/ \E n \in Names : CreateInsert(h, n) \/ DeleteLookup(h, n)
  \/ \E t, m \in Names : RenameLookup(h, t, m)

Proceed(h) ==
  \/ GitInit(h) \/ GitInitRefused(h) \/ GitInitBreaks(h)
  \/ UndoInsert(h) \/ UndoInsertFails(h)
  \/ RemoveAll(h) \/ RemoveAllFails(h)
  \/ DeleteRow(h) \/ DeleteRowFails(h)
  \/ MoveDir(h) \/ MoveDirFails(h)
  \/ UpdateRow(h) \/ UpdateRowFails(h)

Next == Crash \/ \E h \in Handlers : Start(h) \/ Proceed(h)

Spec == Init /\ [][Next]_vars

\* A handler that has begun runs on: the Go scheduler starves no goroutine.
FairSpec == Spec /\ \A h \in Handlers : WF_vars(Proceed(h))

-----------------------------------------------------------------------------
(* Properties                                                              *)

\* Row and directory of name n belong to the same repository, or both are absent.
Agree(n) == \A id \in Ids : rows[id] = n <=> disk[n] = id

\* No request is at work on n, and none was ever disturbed on it.
Settled(n) == n \notin exposed /\ \A h \in Handlers : n \notin Works(h)

(***************************************************************************)
(* The two stores disagree about a name only if a request on it was        *)
(* interrupted, overlapped another one, or was spelt differently: damage   *)
(* never spreads to the other names of the owner, whatever is in flight    *)
(* there.                                                                  *)
(***************************************************************************)
DamageIsContained == \A n \in Names : Settled(n) => Agree(n)

(***************************************************************************)
(* handleCreateUserRepo runs git init on an unexposed name only when there *)
(* is no directory yet, and handleRenameRepo never moves a directory whose *)
(* row it then cannot update because the name is taken.                    *)
(***************************************************************************)
NoSurpriseAfterFirstWrite ==
  \A h \in Handlers : Busy(h) /\ Works(h) \cap exposed = {} =>
    /\ req[h].pc = "init" => disk[req[h].typed] = None
    /\ req[h].pc = "update" => ~Taken(req[h].id, req[h].new)

(***************************************************************************)
(* However creations, deletions, renames, failures and crashes interleave, *)
(* no two names ever hold the history of the same repository.              *)
(***************************************************************************)
NoSharedHistory ==
  \A m, n \in Names : disk[m] # None /\ disk[m] = disk[n] => m = n

(***************************************************************************)
(* handleDeleteRepo removes the directory by the name typed, not by the    *)
(* row it found; on a name that is not exposed these are the same: a       *)
(* history disappears only in a delete request that looked up its own      *)
(* repository.                                                             *)
(***************************************************************************)
Lost(id) == (\E n \in Names : disk[n] = id) /\ (\A n \in Names : disk'[n] # id)

OnlyItsOwnDeleteDestroys ==
  [][\A n \in Names \ exposed : disk[n] # None /\ Lost(disk[n]) =>
       \E h \in Handlers : /\ req[h].pc = "remove" /\ req'[h].pc = "unrow"
                           /\ req[h].id = disk[n] /\ rows[disk[n]] = n]_vars

(***************************************************************************)
(* Requests that come one at a time, spelt as stored and undisturbed by    *)
(* failures keep table and git root in step: nothing is ever exposed, ...  *)
(***************************************************************************)
InStep == exposed = {} /\ \A n \in Names : Settled(n) => Agree(n)

(***************************************************************************)
(* ... and a name on which the two stores disagree, because a request is   *)
(* at work on it, comes to agree again.                                    *)
(***************************************************************************)
DisagreementIsTransient == \A n \in Names : ~Agree(n) ~> Agree(n)

(***************************************************************************)
(* The claim of the comment on git.Init, "Init creates a new bare          *)
(* repository" (internal/git/repository.go:83): a repository that is being *)
(* created starts without a directory.                                     *)
(***************************************************************************)
InitCreatesNew ==
  \A h \in Handlers : req[h].pc = "init" => disk[req[h].typed] = None

(***************************************************************************)
(* The git root implements HistoryRegistry under any interleaving and any  *)
(* failure.  A history is unborn until the git init of its creation.       *)
(***************************************************************************)
Creating(id) == \E h \in Handlers : req[h].pc = "init" /\ req[h].id = id

Where ==
  [id \in Ids |->
     IF \E n \in Names : disk[n] = id THEN CHOOSE n \in Names : disk[n] = id
     ELSE IF id \notin used \/ Creating(id) THEN "unborn" ELSE "gone"]

Registry == INSTANCE HistoryRegistry
              WITH where <- Where, Unborn <- "unborn", Gone <- "gone"

RegistrySpec == Registry!Spec
=============================================================================
