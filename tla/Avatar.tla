------------------------------- MODULE Avatar -------------------------------
(* The picture of one user: users.avatar_url and the files <id>.<type> in    *)
(* the avatars directory, under uploads and deletions that overlap (two      *)
(* tabs, or the two buttons of one page), steps that fail and a server that  *)
(* dies. A directory entry names an inode, since a handler keeps writing to  *)
(* a file another one has removed or truncated. A request is used once: it   *)
(* names its picture, and the inode it creates.                              *)
CONSTANTS Uploads, Deletions, Types

VARIABLES
    avatarUrl,   \* the type avatar_url ends in, or NoType
    entry,       \* type -> inode, or NoRequest
    content,     \* inode -> the upload it holds, or Unfinished, Mixed
    task,        \* per request, where its handler is
    alone,       \* history: the request that began last, if it met no other
                 \*   and nothing failed since
    clash        \* history: something failed, or requests overlapped that are
                 \*   not uploads of one type, since the last such request

avatarVars == <<avatarUrl, entry, content, task, alone, clash>>

NoType == "none"
NoRequest == "nobody"
Unfinished == "partial"
Mixed == "mixed"
Requests == Uploads \union Deletions
ASSUME AvatarAssumption ==
    /\ Uploads \cap Deletions = {} /\ NoType \notin Types
    /\ {NoRequest, Unfinished, Mixed} \cap Requests = {}

\* A handler waits to remove the files it found, then creates, copies, updates.
Task(pc, type, found, fd) == [pc |-> pc, type |-> type, found |-> found, fd |-> fd]
Fresh == Task("new", NoType, {}, NoRequest)
Over == Task("over", NoType, {}, NoRequest)
Pending == {r \in Requests : task[r] \notin {Fresh, Over}}
Resting == Pending = {}

AvatarTypeOK ==
    /\ avatarUrl \in Types \union {NoType}
    /\ entry \in [Types -> Uploads \union {NoRequest}]
    /\ content \in [Uploads -> Uploads \union {Unfinished, Mixed}]
    /\ \A r \in Requests :
          /\ task[r].pc \in {"new", "remove", "copy", "store", "over"}
          /\ task[r].type \in Types \union {NoType} /\ task[r].found \subseteq Types
          /\ task[r].fd \in Uploads \union {NoRequest}
    /\ alone \in Requests \union {NoRequest}
    /\ clash \in BOOLEAN

AvatarInit ==
    /\ avatarUrl = NoType
    /\ entry = [x \in Types |-> NoRequest]
    /\ content = [u \in Uploads |-> Unfinished]
    /\ task = [r \in Requests |-> Fresh]
    /\ alone = NoRequest /\ clash = FALSE

Files == {x \in Types : entry[x] # NoRequest}

\* The type of a request: a deletion has none. Ends with filepath.Glob.
BeginAvatar(r) ==
    \E x \in IF r \in Uploads THEN Types ELSE {NoType} :
        /\ task[r] = Fresh
        /\ task' = [task EXCEPT ![r] = Task("remove", x, Files, NoRequest)]
        /\ alone' = IF Resting THEN r ELSE NoRequest
        /\ clash' = (clash \/ \E p \in Pending : x = NoType \/ task[p].type # x)
        /\ UNCHANGED <<avatarUrl, entry, content>>

\* One os.Remove; its error is ignored.
RemoveOne(r) ==
    \E x \in task[r].found :
        /\ task[r].pc = "remove"
        /\ task' = [task EXCEPT ![r].found = @ \ {x}]
        /\ entry' \in {[entry EXCEPT ![x] = NoRequest], entry}
        /\ clash' = (clash \/ (entry' = entry /\ entry[x] # NoRequest))
        /\ UNCHANGED <<avatarUrl, content, alone>>

RemovedAll(r) == task[r].pc = "remove" /\ task[r].found = {}

\* os.Create opens and truncates what the name names by now, or a new inode.
CreateFile(r) ==
    LET x == task[r].type
        inode == IF entry[x] = NoRequest THEN r ELSE entry[x]
    IN  /\ RemovedAll(r) /\ x # NoType
        /\ entry' = [entry EXCEPT ![x] = inode]
        /\ content' = [content EXCEPT ![inode] = Unfinished]
        /\ task' = [task EXCEPT ![r] = Task("copy", x, {}, inode)]
        /\ UNCHANGED <<avatarUrl, alone, clash>>

\* Who writes to an inode that another handler has open, or has filled, may
\* leave a mixture of both pictures.
CopyFile(r) ==
    LET inode == task[r].fd
        shared == content[inode] # Unfinished
                    \/ \E p \in Pending \ {r} : task[p].fd = inode /\ task[p].pc = "copy"
    IN  /\ task[r].pc = "copy"
        /\ content' \in {[content EXCEPT ![inode] = c] : c \in IF shared THEN {r, Mixed} ELSE {r}}
        /\ task' = [task EXCEPT ![r].pc = "store"]
        /\ UNCHANGED <<avatarUrl, entry, alone, clash>>

\* A bug: the new type of a picture that replaces one is not stored.
StoreUrlOnce(r) ==
    /\ task[r].pc = "store" \/ (RemovedAll(r) /\ r \in Deletions)
    /\ avatarUrl' = IF r \in Uploads /\ avatarUrl # NoType THEN avatarUrl ELSE task[r].type
    /\ task' = [task EXCEPT ![r] = Over]
    /\ clash' = (clash /\ alone # r)
    /\ UNCHANGED <<entry, content, alone>>

\* The UPDATE of avatar_url, of an upload and of a deletion.
StoreUrl(r) ==
    /\ task[r].pc = "store" \/ (RemovedAll(r) /\ r \in Deletions)
    /\ avatarUrl' = task[r].type
    /\ task' = [task EXCEPT ![r] = Over]
    /\ clash' = (clash /\ alone # r)
    /\ UNCHANGED <<entry, content, alone>>

\* Create, Copy or the UPDATE fails, or the client gives up and cancels it.
AvatarFails(r) ==
    /\ task[r].pc \in {"copy", "store"} \/ RemovedAll(r)
    /\ task' = [task EXCEPT ![r] = Over]
    /\ alone' = NoRequest /\ clash' = TRUE
    /\ UNCHANGED <<avatarUrl, entry, content>>

AvatarCrash ==
    /\ ~Resting
    /\ task' = [r \in Requests |-> IF r \in Pending THEN Over ELSE task[r]]
    /\ alone' = NoRequest /\ clash' = TRUE
    /\ UNCHANGED <<avatarUrl, entry, content>>

AvatarNext ==
    \/ \E r \in Requests :
          \/ BeginAvatar(r) \/ RemoveOne(r) \/ StoreUrl(r) \/ AvatarFails(r)
    \/ \E r \in Uploads : CreateFile(r) \/ CopyFile(r)
    \/ AvatarCrash

AvatarSpec == AvatarInit /\ [][AvatarNext]_avatarVars

-----------------------------------------------------------------------------
(* When no request is under way: (1) a request that met no other and did not *)
(* fail has put things right, whatever failed or overlapped before it: the   *)
(* profile names a file that holds the whole uploaded picture, or none;      *)
(* (2) as long as nothing fails, uploads of one type may overlap as they     *)
(* like and the profile still names a file that exists, and its picture is   *)
(* theirs. (handleUploadAvatar, handleDeleteAvatar: files first, row last.)  *)
AvatarServed ==
    Resting =>
        /\ alone \in Uploads =>
              /\ avatarUrl # NoType /\ entry[avatarUrl] # NoRequest
              /\ content[entry[avatarUrl]] = alone
        /\ alone \in Deletions => avatarUrl = NoType
        /\ ~clash /\ avatarUrl # NoType =>
              entry[avatarUrl] # NoRequest /\ content[entry[avatarUrl]] # Unfinished
=============================================================================
