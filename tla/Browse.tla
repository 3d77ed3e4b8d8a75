------------------------------- MODULE Browse -------------------------------
(* Reading a repository in the browser: the page Code with its address, its  *)
(* queries of the contents and of the README, and the handler behind them,   *)
(* which runs git; pushes move the branches meanwhile. A path is a sequence  *)
(* of names; the root is the empty one.                                      *)
EXTENDS Naturals, Sequences, FiniteSets

CONSTANTS Branches, DefaultBranch,
          TreeFiles,   \* the paths of files that a branch may hold
          Readme,      \* the one of them that the page takes for the README
          MaxPushes, MaxHeld   \* bounds of TLC's runs, on the pushes and the queries held

\* The directories on the way to f, and f.
UpTo(f) == {SubSeq(f, 1, n) : n \in 0..Len(f)}

ASSUME BrowseAssumption ==
    /\ DefaultBranch \in Branches
    /\ Readme \in TreeFiles /\ Len(Readme) = 1
    /\ \A f \in TreeFiles : f \in Seq({f[i] : i \in DOMAIN f}) /\ f # <<>>
    /\ \A f, g \in TreeFiles : f \in UpTo(g) => f = g
    /\ MaxPushes \in Nat /\ MaxHeld \in Nat

VARIABLES
    trees,     \* branch -> its files; none if there is no such branch
    pushes,    \* history: how often a branch was moved
    address,   \* the path and the ref of the page, as RepoCodePage reads them
    query      \* key -> what the query holds

browseVars == <<trees, pushes, address, query>>

NoRef == "none"
Paths == UNION {UpTo(f) : f \in TreeFiles}
Addresses == [path : Paths, ref : Branches \union {NoRef}]
Key(use, path, branch) == [use |-> use, path |-> path, branch |-> branch]
QueryKeys == [use : {"contents"}, path : Paths, branch : Branches]
               \union [use : {"readme"}, path : {Readme}, branch : Branches]

\* ---- the handler ----
Entry(files, path) == [path |-> path, tree |-> path \notin files]
Holds(files, path) == \E f \in files : path \in UpTo(f)
Failed == [type |-> "error", entries |-> {}]

\* git ls-tree: of a path, which never ends in a slash here, it lists the entry
\* itself and not what is in it; of one that does not exist, nothing. So nothing
\* below the root can be browsed, and no file is shown, though README.md:19 says
\* "tree/blob browsing".
LsTree(files, path) ==
    IF path = <<>> THEN {Entry(files, SubSeq(f, 1, 1)) : f \in files}
    ELSE {Entry(files, p) : p \in {q \in {path} : Holds(files, q)}}

\* handleGetContents. Only a ref that does not exist makes ls-tree fail, and
\* then cat-file fails, too.
Contents(branch, path) ==
    IF trees[branch] # {} THEN [type |-> "dir", entries |-> LsTree(trees[branch], path)]
    ELSE IF path \in trees[branch] THEN [type |-> "file", entries |-> {}]
    ELSE Failed

\* ---- the page ----
\* A bug: the branch is the default one, whatever the address says.
BranchIgnoresRef == DefaultBranch
Branch == IF address.ref # NoRef THEN address.ref ELSE DefaultBranch

\* data: the last answer that was no error; error: the last one was; asked: the
\* pushes it has seen.
Held(data, error, asked) == [data |-> data, error |-> error, asked |-> asked]
NoData == [type |-> "none", entries |-> {}]
Unasked == Held(NoData, FALSE, 0)
Listings == [type : {"none", "dir", "file", "error"},
            entries : SUBSET [path : Paths, tree : BOOLEAN]]

Shown == query[Key("contents", address.path, Branch)]

\* The queries of the page: its contents, and the README the root lists.
Enabled ==
    {Key("contents", address.path, Branch)}
      \union {Key("readme", Readme, Branch) :
                x \in {e \in Shown.data.entries : address.path = <<>> /\ e.path = Readme}}

\* The links of the page. Those to the root come with every page; a directory
\* and a part of the breadcrumb name a path and no ref; a file is a path of
\* the route blob, which shows the same page, and the page does not look there.
Links ==
    {[path |-> p, ref |-> NoRef] : p \in UpTo(address.path)}
      \union {[path |-> IF e.tree THEN e.path ELSE <<>>, ref |-> NoRef] : e \in Shown.data.entries}

BrowseTypeOK ==
    /\ trees \in [Branches -> SUBSET TreeFiles]
    /\ pushes \in Nat
    /\ address \in Addresses
    /\ query \in [QueryKeys -> [data : Listings, error : BOOLEAN, asked : Nat]]

\* A repository of one branch, or an empty one.
BrowseInit ==
    /\ \E files \in SUBSET TreeFiles :
          trees = [b \in Branches |-> IF b = DefaultBranch THEN files ELSE {}]
    /\ pushes = 0
    /\ address = [path |-> <<>>, ref |-> NoRef]
    /\ query = [k \in QueryKeys |-> Unasked]

FollowLink ==
    /\ address' \in Links
    /\ UNCHANGED <<trees, pushes, query>>

\* An address that is typed or was sent by somebody may name a branch.
TypeAddress ==
    /\ address' \in Addresses
    /\ UNCHANGED <<trees, pushes, query>>

HeldKeys == {k \in QueryKeys : query[k] # Unasked}

\* A fetch and its answer, or any failure; data outlives an error. (An answer
\* that is late was fetched earlier: it goes where its key says, and the page
\* may have been left.)
FetchContents(k) ==
    /\ k \in Enabled
    /\ Cardinality(HeldKeys \union {k}) <= MaxHeld
    /\ \E data \in {Contents(k.branch, k.path), Failed} :
          query' = [query EXCEPT ![k] =
              Held(IF data = Failed THEN @.data ELSE data, data = Failed, pushes)]
    /\ UNCHANGED <<trees, pushes, address>>

Push ==
    /\ pushes < MaxPushes
    /\ \E b \in Branches, files \in SUBSET TreeFiles : trees' = [trees EXCEPT ![b] = files]
    /\ pushes' = pushes + 1
    /\ UNCHANGED <<address, query>>

BrowseNext ==
    \/ FollowLink \/ TypeAddress \/ Push
    \/ \E k \in QueryKeys : FetchContents(k)

BrowseSpec == BrowseInit /\ [][BrowseNext]_browseVars

-----------------------------------------------------------------------------
(* What the page lists is what the branch of its address holds, all of the   *)
(* root, with the kind of every entry, if nothing was pushed since it was    *)
(* asked for: late answers, other addresses and other branches do not show   *)
(* up in it. (RepoCodePage: the keys of the queries, branch = ref or the     *)
(* default branch; handleGetContents.)                                       *)
ListsItsBranch ==
    LET b == IF address.ref # NoRef THEN address.ref ELSE DefaultBranch
    IN  Shown.data.type = "dir" /\ ~Shown.error /\ Shown.asked = pushes =>
        /\ \A e \in Shown.data.entries : Holds(trees[b], e.path) /\ (e.tree <=> e.path \notin trees[b])
        /\ address.path = <<>> => {e.path : e \in Shown.data.entries} = {SubSeq(f, 1, 1) : f \in trees[b]}
=============================================================================
