# SoftGit in TLA+

SoftGit is a self-hosted git forge: a Go server (HTTP API, SSH, a background
worker) over PostgreSQL and a directory of bare git repositories, and a React
page that talks to the API. This directory holds TLA+ models of the parts of it
whose correctness depends on the *order* of things, the TLC configurations that
check them on small instances, and proofs, checked by TLAPS, that the main
properties hold for every value of the constants.

One fact shapes all of it: **no handler of SoftGit opens a transaction.** Every
handler runs a few SQL statements (and calls of git or of the file system) one
after the other on its own goroutine; other requests come in between, the
client may go away between two statements (they run under `r.Context()`, which
is cancelled then), and most errors of the later statements are discarded. The
models therefore have one action per statement, not one per request. The page
has a fact of its own: what it shows is a cache, filled by answers that come
late, and it decides by that cache what to send.

## 1. Inventory

| Component | State it keeps | Operations | What it shares, and with whom |
|---|---|---|---|
| Repository life cycle (`internal/api/handlers_repo.go`, `internal/git/repository.go`) | table `repositories`, directories `<root>/<owner>/<name>.git` | create, delete, rename, update of description and visibility | every other repository handler looks its row up by `getRepo`; git over HTTP and SSH uses the directory alone |
| Issues (`handlers_features.go`) | tables `issues`, `comments`; counters `open_issues_count`, `comments_count` | create, read, change, comment, list | counters are shown by the repository page |
| Stars (`handlers_repo.go`, `handlers_features.go`, `RepoPage.tsx`) | table `stars`, counter `stars_count`, the query cache of each page | star, unstar, check; the button | the page decides by what it fetched last |
| Accounts (`auth.go`, `handlers_admin.go`) | table `users` | register, change of flags, profile | the middlewares read the flags in each request |
| Sessions and sign-in (`auth.go`, `useAuth.tsx`, `client.ts`) | table `sessions`, the session cookie, the token in local storage, the query `auth/me` | login, logout, 401 handling | every request carries token and cookie |
| Background jobs (`worker.go`, `main.go`) | table `jobs`, the worker goroutine of each server | claim, complete, start, stop | shares the context with `main` |
| Partial updates (`handleUpdateRepo`, `handleUpdateCurrentUser`, `handleAdminUpdateSettings`; `SettingsPage.tsx`, `AdminPage.tsx`) | rows written back whole; the forms and drafts of the pages | load, edit, send, merge, write | two administrators or two tabs of a user |
| Avatars (`handlers_user.go`) | avatar files, column `avatar_url` | upload, delete, serve | two stores, as for a repository |
| Migrations and start-up (`internal/db/db.go`, `main.go`) | table `schema_migrations`, the schema | run at start-up | all servers that start |
| List pages: issues, releases, SSH keys, access tokens, users (`RepoPage.tsx`, `SettingsPage.tsx`, `AdminPage.tsx`; `handlers_features.go`) | one table each; the query of each filter, the form, the mutations under way | list, add, close, revoke, change a flag | the page decides by the list it holds; others change the same rows |
| Navigation and guards (`routes.tsx`, layouts and forms) | the address, `state.from`, what the components know of the user | links, redirects, calls that navigate when they are answered | the query `auth/me`, told to the components later |
| Themes (`themes.ts`, `AppShell.tsx`, `SettingsPage.tsx`) | local storage, the root element, two copies in components | load, toggle, select | other tabs, the device |
| Markdown (`Markdown.tsx`) | the state of one loop over lines | | a function of the text |
| Git operations (`internal/git`, `RepoPage.tsx`) | none of their own (git's object store) | refs, log, tree, blob, archive; the page Code browses them | pushes move the branches meanwhile |
| Git over HTTP and SSH | none of their own | upload-pack, receive-pack | the directory of the life cycle |
| Search, explore, read-only pages, health, router, configuration, password hashing | none, or read once | read-only | |
| Organizations, teams, pull requests, webhooks, transfer | tables without code | answer 501 | |
| Deployment | files | | |

### What is hard, and what correct means

* **Repository life cycle.** Two stores that no transaction spans. Creation
  writes the row first and undoes it if `git init` fails (the error of the undo
  is discarded); deletion removes the directory first and ignores its errors;
  rename moves the directory first and leaves it moved if the UPDATE fails.
  `getRepo` folds case, the unique constraint and the file system do not.
  *Correct*: damage stays with the names it was done to; a history is never
  duplicated, given to another repository by a race, or destroyed by a request
  that meant another repository.
* **Issues and stars.** A counter beside the rows, changed in a second
  statement, clamped at 0 when it falls; a state read and compared before it is
  written; a number chosen in one statement and used in the next. *Correct*:
  numbers have no gap; a counter is right once the requests under way are done,
  and we know exactly what can set it off.
* **The star button.** It sends what the last answer implies, in several tabs,
  while answers are under way. *Correct*: at rest it shows the truth.
* **Accounts.** Counting users and inserting one are two statements; a flag
  change is checked once and written twice. *Correct*: somebody administers the
  instance, and few others do.
* **Jobs.** Claiming and completing are two statements around a shutdown.
  *Correct*: no job is dispatched twice, none that is due is forgotten.
* **Sign-in.** Three places keep the session and change one by one. *Correct*:
  whoever signed out is signed out, and a sign-in survives the answers to
  requests sent before it.
* **Partial updates.** Everything is written back, most of it as it was read
  some time ago: by the handler, or by a form that was filled by an answer.
  *Correct*: who sees the latest state changes what he edited and nothing else.
* **Avatars.** Files are removed, created and written before the row is, and
  another request's files may be those. *Correct*: what the profile names is
  there, and whole.
* **List pages.** Lists are refetched while they are being changed; an answer
  may be older than the change. *Correct*: at rest the page shows the newest rows
  of the table, and a form adds one row.
* **Navigation.** `navigate(from)` races with the rendering that learns of the
  user, and guards answer redirects with redirects. *Correct*: no loops, and a
  sign-in leads where the guard that asked for it said.
* **Migrations.** Servers start at once and stop anywhere. *Correct*: a server
  that serves has the whole schema.
* **Browsing.** Queries of other paths and branches answer late. *Correct*: the
  listing is the one of the address.
* **Themes, Markdown.** A button that decides by a copy; a loop with two flags.
  *Correct*: the button flips what is painted; every line is rendered once.

`PROJECT.json` lists the hazards one by one at their lines, with the properties
that cover them.

## 2. Modules

| Module | Models | Abstract specification |
|---|---|---|
| `RepoLifecycle` | the namespace of one owner: rows, directories, every step of every handler | `HistoryRegistry` |
| `Issues` | the issues of one repository and their counters | |
| `Stars` | the stars of one repository and the pages that show it | |
| `Accounts` | who may administer the instance | |
| `SignIn` | the session of one browser: row, cookie, token and what its tabs show | |
| `JobQueue` | the job rows, the worker and the life of every server | `JobBoard` |
| `Profile` | the row of one user, the profile form in his tabs, clients of the API | |
| `SiteSettings` | the stored settings object, the page of each administrator, scripts | |
| `Avatar` | the avatar files of one user and his `avatar_url` | |
| `Lists` | one of five list pages, its queries and mutations, and its table | |
| `Navigation` | one tab: address, guards, calls that navigate | |
| `Browse` | the page Code of one repository and the listing behind it | |
| `Migrate` | the start of every server | |
| `Themes` | the theme of one tab | |
| `Markdown` | the loop of `renderMarkdown` | the meaning of a text, line by line (`Meaning`) |
| `*_proofs` | the theorems about them (`Parts_proofs`: the nine parts above and their composition; `Markdown_proofs`: the loop) | |
| `MC*` | constants for TLC; `MCParts` runs the nine parts, one at a time | |

All modules of handlers have one shape. `req[h]` (`pc[t]` in `Stars`) is the
request a goroutine is serving: the statement it will run next, and what the
handler has read and keeps in local variables. An action is one statement with
the Go code up to the next one. A statement that can fail has a second action
for that, enabled by the constant `Faults` or by the constraint that refuses
it. A request refused before its first write changes nothing, so it is a
stuttering step and has no action.

**History variables.** Several properties hold "unless something was
disturbed". What counts as disturbed is recorded in a variable (`exposed`,
`drifting`, `mishaps`, `stranded`) that no guard reads: it changes no
behaviour, and says in the model's terms which races and failures the code does
not survive. That makes the properties sharp in both directions: a mutation of
the code that breaks them outside those cases is caught.

### RepoLifecycle

`rows[id]` is the `name` column of row `id`; `disk[n]` is the identity of the
repository *whose history* the directory `n.git` holds, not merely whether it
exists, so that history turning up under the wrong row is visible. Creation:
`CreateInsert`, then `GitInit` or `GitInitRefused` (`default_branch` is checked
only inside `git.Init`, after the INSERT) or `GitInitBreaks`, then `UndoInsert`.
Deletion: `DeleteLookup`, `RemoveAll`, `DeleteRow`. Rename: `RenameLookup`,
`MoveDir`, `UpdateRow`. Each has its failing twin. `Crash` forgets all requests
in flight. `Found(t)` is the set of rows that `LOWER(name) = LOWER($2)` selects:
`QueryRow` takes any of them.

`exposed` gathers the names on which the two stores may disagree for good: a
request stopped half-way on them, two requests in flight shared them, a request
reached its row by another spelling, or they were used together with such a
name. `HistoryRegistry` is what the git root promises whatever becomes of the
table: a history is written once, in one place, may move to a free name, and
does not come back when erased. The refinement mapping `Where` locates the
history of an id on disk.

Left out: other owners (no statement of one owner's request touches another
owner's names, except for the case of `owner`, which behaves like that of
`name`), description and visibility, and the directory half-removed by an
interrupted `os.RemoveAll`.

### Issues

`ReadNumber`/`InsertIssue`/`CountUp`; `ReadState`/`SetState`/`CountUp` or
`CountDown`; `InsertComment`/`Tally`. Number 0 is what the code inserts after a
failed `SELECT MAX`. Issues are deleted only with their repository, which the
module leaves out.

### Stars

A tab has its request (`pc`), what the button shows (`view`) and the fetch of
`isStarred` (`fetch`), split into the server's reading the row (`Check`) and
the page's taking over the answer (`Receive`). `Invalidated` and `Receive`
model TanStack Query from the way the page uses it: invalidating a query
abandons a fetch under way for a new one, except that a query that has no data
yet joins its first fetch. A page that loses its connection in the middle of a
request cancels the statements that remain (`CountFails`), and the answer is
lost (`MutationFails`).

### Accounts

`CountUsers`/`InsertUser` for `handleRegister`; `BeginChange` (both
middlewares and the check of one's own flag), `WriteActive`, `WriteAdmin` for
`handleAdminUpdateUser`. Sessions are left out: every active user may send
requests at any time. No handler deletes a user.

### SignIn

A session is known to the table (`state`), the cookie jar (`cookie`) and the
local storage (`token`); `sign[t]` is a login or logout of tab `t` between two of
these places: `InsertSession`, `TakeCookie`, `TakeToken`, `LoginFetch`, and
`Revoke`, `ClearCookie`, `SignedOut`. `call[c]` is any other request, with the
session it carries, which is the token's and only without one the cookie's
(`Credential`). `Authenticate` decides it by the row as it is then, and the
answer (`Granted`, `Refused`) arrives any time later. `known` and `failed` are
data and error of the query `auth/me`, which like the star button's query is
modelled from how the page uses TanStack Query. A logout revokes the session of
the cookie, not the one the tab used. Users are left out: a tab shows the
session it was told with. So are access tokens and passwords in a header, which
the browser does not send.

### JobQueue

`Claim` and `Complete` are the two UPDATEs of `processJobs`; `Boot`, `Cancel`,
`Stop`, `Exit` and `Crash` the life of `main`. `StartLoop` is separate because
`main` runs `go jobWorker.Start(ctx)`: the `wg.Add` may come after `wg.Wait`.
No code inserts jobs yet; `Enqueue` stands for the producers to come.
`JobBoard` is what the queue promises about a job whatever becomes of the
servers: one server takes it, it alone may finish or drop it, and nobody takes
it a second time. The mapping `Holders` gives the workers that have a job in
hand, which no column tells: `locked_by` still names a server that died.

### Profile and SiteSettings

Both are read, merge and write. In `Profile` the form sends all of its inputs
(`Submit`) and a client some fields (`Patch`); the middleware reads the user
(`ReadUser`), which completes the body, and `WriteUser` writes all of it. The
inputs are set by every answer of `auth/me` that differs from the one before
(`TakeMe`). In `SiteSettings` a page edits a `draft`, a snapshot of what its
query answered, and sends it whole; `LoadCurrent` and `Store` are the two
statements of the handler, and every load may fail and answer the defaults,
which nobody can tell from settings. `edits`, `typed` and `changed` are
histories of what a person meant to change, `rev` and `seen` of the revision a
copy was read at.

### Avatar

Files are directory entries that name inodes, since two handlers may hold one
file open while a third removes it. `BeginAvatar` finds the files, `RemoveOne`
removes them one by one, `CreateFile`, `CopyFile` and `StoreUrl` are the rest of
an upload. A failed removal is ignored, as in the code; any other failure and a
crash leave everything as it is. `alone` and `clash` record who met no other
and whether anybody met somebody who matters.

### Lists

The five pages are five records (`IssuesPage`, ...): which filters they have,
whether they have a form, whether names are unique, what the button of a row
does, and how many rows the handler lists: `Newest` is its ORDER BY and LIMIT
(100 issues, 50 releases, 500 users; keys and tokens have none). Older rows are
on no page: there is no second one, and no property says that a row can be
reached. `ReadShort` is a connection that breaks between two rows, which the
handlers do not notice. `ReadList` and `TakeList` split a fetch where the server reads and where
the page takes over; `Invalidate` says what TanStack Query does to each query
of the page: the shown one is fetched anew unless it joins its first fetch, the
others are marked stale, and the mark goes with the answer that is on its way.
`unaware` records the queries that a change has escaped.

### Navigation

`auth` is what the query knows of the user and `shown` what the components were
last rendered with; `Render` is the task between. `Sends` gathers the guards: to
which pages they send who is where, and `Remembered` what a guard gives the form to
lead back to: of the settings pages always the profile, since `SettingsLayout`
is one guard for all of them (`tokens` stands for those but the profile). A call
(`login`, `register`, `logout`,
`create`) navigates when its answer has been dealt with, wherever the tab is
by then.

### Browse

A path is a sequence of names and a branch a set of files. `LsTree` is what git
answers to `ls-tree <ref> <path>` without a trailing slash: the entry itself.
`Contents` adds the handler's fallback to `cat-file`. Queries are kept by path
and branch (`Key`); `Links` are those of the page, with the addresses they
really name.

### Migrate, Themes, Markdown

`Migrate` has the statements of one transaction per migration and the start and
end of each server; the answer to a COMMIT may be lost. `Themes` has what `applyTheme` stores and paints, and the
header's button with its copy. `Markdown` is one action per kind of line, and
`Meaning` states what the text means without the loop's memory.

### MCParts

These nine modules share no variable. `part` picks the one that moves; the
others rest in one initial state, so that one run checks them all without
mixing their behaviours. `PartsView` tells TLC that states differ by the moving
part only.

## 3. Runs

| Run | Instance | Shows |
|---|---|---|
| `RepoConcurrent` | 2 handlers, 3 names of which 2 differ in case, 2 ids, all failures | `DamageIsContained`, `NoSurpriseAfterFirstWrite`, `NoSharedHistory`, `OnlyItsOwnDeleteDestroys`, refinement of `HistoryRegistry` |
| `RepoSequential` | 1 handler, 4 ids, no failures, weak fairness | `InStep`, `DisagreementIsTransient` |
| `RepoCaseFold` | 1 handler, two spellings | *violation* of `InitCreatesNew` |
| `Issues` | 3 handlers, 2 regular issues and number 0, 2 comments, failures | `Gapless`, `OpenCountExact`, `CommentsCounted` |
| `IssuesLocking` | 2 handlers, no failures | *violation* of `ChosenNumberStaysFree` |
| `Stars` | 2 tabs of one user, 1 of another, failures | `CountExact`, `NeverUndercounts`, `ButtonTruthful` |
| `Accounts` | 3 users, 2 handlers, failures | `SomeoneAdministers`, `FewFounders` |
| `AccountsFirst` | 2 users, 2 handlers, no failures | *violation* of `OnlyFirstRegisteredAdministers` |
| `SignIn` | 2 tabs, 2 sessions, 1 other request in flight, failures | `OneSession`, `StaysOut` |
| `JobQueue` | 2 servers, 3 jobs (more than workers), 2 stops or crashes, failures | refinement of `JobBoard`, `StopWaits`, `DueJobsSettle` |
| `JobQueueDurable` | 1 server, 1 job, one orderly restart, fairness | *violation* of `Durable` |
| `Parts` | one part at a time: 1 tab and 1 client; 1 administrator and 1 script; 2 uploads and 1 deletion; 5 list pages of 2 rows; 3 servers and 3 migrations; 2 branches of 2 files; texts of 6 lines | `SavesOnlyEdits`, `SettingsOnlyEdited`, `AvatarServed`, `ListTruthful`, `EntryCreatedOnce`, `SchemaComplete`, `CommittedOnce`, `SignInReturns`, `RedirectsEnd`, `ListsItsBranch`, `ToggleFlips`, `RendersAll` |

Each passing run also checks the type invariant of its module. The four
violations are disagreements of the code with what its own documents say
(PROJECT.json "findings"). The first three need what their run allows: for one
handler without failures (and, for the first, names spelt as stored) the same
three are theorems.

1. A delete in another spelling removes the row and leaves the directory, and
   the next repository of that name starts with the old history.
2. Issue numbers are chosen by max+1 *without* the locking the schema
   announces: of two creations at once one is answered 500. (Gaps and duplicates
   are excluded all the same: `Gapless`.)
3. Registrations that overlap while the instance is empty all become
   administrators.
4. `main` cancels the context before it waits for the worker, so an orderly
   restart can leave a job `running` for ever.

One more disagreement is plain from the code and has no run. `git ls-tree` with
a path that does not end in a slash lists the entry and not its contents
(`internal/git/repository.go:337`), so that a directory's page links to itself,
and the handler's branch "try as file" (`handlers_repo.go:275`) is reached for a
missing branch only: neither a file nor the README of a repository is ever
shown, while `README.md:19` promises "tree/blob browsing". `LsTree` and
`Contents` in `Browse` are modelled that way; `ListsItsBranch` promises the
whole listing of the root only, and of other paths that the entries shown exist.

Some smaller facts the models settle: only an unstar that overtakes *the
counting of the same user's star* makes `stars_count` wrong, and then too high,
never too low; pressing the star button before the page has its first answer
can leave it wrong; a failed `COUNT(*)` makes the registrant an administrator;
an administrator is protected against taking his own flag, but two can demote
each other at once, and one can deactivate himself while another change of his
is under way. A browser ends up with a live session besides the one it uses
only after a lost message, a discarded error, a login over a live session, two
of them at once or a late 401; and when a login and a logout of two tabs
overlap, the tab that signs out may find itself signed in again with the
session it left: the logout revokes the cookie it was sent with, and the
login's token arrives after it. Nothing else brings it back, not even a failed
UPDATE of the logout. Settings that failed to load are shown as the defaults,
and whoever saves then stores the defaults; two avatar uploads of different
types may leave a profile that names a file the other has removed, until the
next upload that meets no other; a list may miss a change that was made while
its first fetch was under way, and is short, without a word, if the connection
broke while it was read; whoever is sent to sign in from the access tokens or
the SSH keys finds himself on his profile afterwards.

Where a property excludes such a case, it is about the rest: that nothing *but*
the mishap, the older copy or the overlap it names does the damage. The
hazards in PROJECT.json say in their notes which part of a hazard that is:
`ToggleFlips`, `SavesOnlyEdits` and `SettingsOnlyEdited` in particular do not say
that a stale button, two tabs or two administrators do no harm: the models let
them, and they do.

### Bounds, and why they are enough

* *Handlers, tabs.* Every property speaks of at most two requests on the same
  object; two suffice for each race, and three in `Issues` let a third overtake
  both. The theorems hold for any number.
* *Names* (3, two spellings of one): a rename from a name to another with a
  third spelling in between. *Ids* (2; 4 in the sequential run): two
  repositories alive, or one created anew after the other's deletion; creation
  is disabled when they run out, which is why deadlock is not checked there.
* `MaxNumber`, `MaxComments`, `MaxCount`: issue numbers, comments and counters
  stop there, beyond the number of handlers, so that a lost decrement and the
  clamp at 0 both happen. In `Issues` a counter at its bound blocks `CountUp`,
  and everything may be inserted: deadlock is not checked.
* `MaxStops` limits restarts; after the last one the servers stay up. When all
  jobs are done or stranded nothing happens any more, so deadlock is not
  checked. In `Accounts` a run ends when all names are taken and no
  administrator is active.
* In `SignIn` two sessions give the one to sign out of and another to sign in
  with, and one request in flight a late answer to either. Once both sessions
  are used up nobody signs in, so deadlock is not checked.
* `MaxAttempts` is the column's default, 5.
* `Parts`: `MaxRevision` and `MaxStores` are 3, two writes of the row after the
  first, so that one writer overtakes another; what happens after the last is
  not looked at. Two fields or keys give one to edit and one to leave alone. Two
  uploads and a deletion overlap in every order, and one may follow alone; who
  is through does not come again. `MaxRows` 2, `MaxFills` 1 and `MaxOthers` 1:
  two rows, so that a button changes one of them and a duplicate has room;
  `MaxPending` 2 lets mutations overlap, except on the page of issues, where two
  filters take their place (`MaxIssuePending` 1; open and closed, so that closing
  moves a row from one to the other; "all" is the filter of the other pages).
  `IssuesListed` and `ReleasesListed` are 1 of two rows, so that a row behind the
  LIMIT comes up when the newer one leaves; `UsersListed` 2, like the pages
  without LIMIT, shows them all. `MaxHeld` 2: the contents and
  the README; `MaxPushes` 1: old answers and new ones. Three servers and a
  rerunnable migration between two others: a loser of each race, and one that
  comes later. Six lines: a list, a block and a list, each closed or not. All of
  these stop somewhere, so deadlock is not checked. `MaxIssues` is at least 1 and
  at most `MaxRows`: the page of issues begins with a row to act on, and without
  that assumption its type invariant is false. The theorems lift each bound.

Symmetry is used on handlers, ids, users or tabs that the module treats alike,
in runs without liveness properties only.

### Fairness

`RepoSequential`: a handler that has begun runs on (the Go scheduler starves no
goroutine, and no step waits for another request). `JobQueue`: the ticker of
the worker ticks on, so `Worker(s)` is weakly fair; `main` runs on and Docker
restarts a server that ended (`restart: unless-stopped` in
`docker-compose.yml`), so `Process(s)` is. A SIGTERM, a crash and a producer
owe nothing. Nobody owes the star button, a registration or an issue anything,
and those modules have no fairness.

## 4. Proofs

All of it holds for every value of the constants that satisfies the assumptions
in the modules (finite sets of handlers or tabs where something is counted,
`None` and two marker strings distinct from data).

* `RepoLifecycle_proofs`: type correctness, `DamageIsContained`,
  `NoSharedHistory`, `NoSurpriseAfterFirstWrite`. None of these is inductive:
  that a delete on an unexposed name leaves row and directory both absent needs
  to know what it removed half-way. The invariant `IInv` says, per phase of a
  request on unexposed names, what row and directory look like just then
  (`PhaseOK`, `HeldRow`), that such a request works alone (`WorkAlone`), that
  its names are exposed together, that rows have distinct names and ids that
  are unused are nowhere. One lemma per action shows that it is kept; the
  lemmas `Apart` and `Joining` carry the argument that a request without
  exposed names is out of every other request's reach.
  On top of it: the action property `OnlyItsOwnDeleteDestroys`; the refinement
  of `HistoryRegistry`, step by step; and under `Sequential` (one handler, no
  failures, exact spelling) `InStep` and `InitCreatesNew`.
* `Issues_proofs`: `Gapless` (an unsent number is at most one more than the
  greatest one), `CommentsCounted`, `OpenCountExact`. The last needs that
  while nothing has drifted an increment is outstanding only for an open issue
  and by one request, so that the clamp cannot apply. With one handler and no
  failure, `ChosenNumberStaysFree`, and nothing drifts.
* `Stars_proofs`: `CountExact`, `NeverUndercounts`, `ButtonTruthful`.
* `Accounts_proofs`: `SomeoneAdministers`, `FewFounders` (the administrators
  registered so far and those about to be are as many as requests that counted
  nobody); with one handler and no failure, `OnlyFirstRegisteredAdministers`.
* `JobQueue_proofs`: `StopWaits`, the refinement of `JobBoard`, and what it
  means for the columns: `attempts` never passes 1 (`AtMostOnce`). The
  refinement needs that a worker has one job in hand, which is running
  and was dispatched to it: then a step of one server changes the holders of
  that job alone, and a crash drops one job.
* `Markdown_proofs`: `RendersAll` for texts of any length. `Meaning` is a
  recursive function of the whole text, so the proof is by induction, which it
  gets without operator parameters: the library's `WFMin` says that a set of
  numbers has a least one (`Least`), from which follows induction for *sets*
  (`Induction`) and that the function exists (`RenderedExists`). The lemmas on
  one appended line (`PieceAppended`, `RenderedSame`, `RenderedSkips`) say which
  pieces it changes, none but an open list's and an open block's; the invariant
  says what is rendered while a block is open since line `o` (`OpenBlock`), or a
  list is.
* `SignIn_proofs`: `TypeOK`, `OneSession`, `StaysOut`. The invariant says that a
  session anybody names was created (`Seen`); that, without an overlap, a session
  a tab left is written down nowhere it could come back from: neither in the
  token or the cookie, nor in an unfinished login or a fetch of `auth/me` that a
  tab waits for (`LeftAlone`); that without an overlap one tab at most is busy
  (`OneBusy`); that, unless the database failed, a session that was refused has
  ended (`Refusals`); and that without a mishap there is only one that lives
  (`OnlyLive`).
* `Parts_proofs`, part by part:
  * `ToggleFlips`: the root has the class `dark` exactly if a dark theme is
    painted, and the button's list is the list of dark themes.
  * `SchemaComplete`: a server that is at a migration has all before it
    recorded, and a transaction that has recorded may still be refused by the
    key of another. `CommittedOnce` needs more (`CommitInv`): of two servers past
    the statements none is at the other's migration, and who is about to commit
    is at one that the table does not have.
  * `RedirectsEnd`, `SignInReturns`: who wants a page is on the page that is
    remembered for it, at the form that remembers that, or on a call that goes
    there.
  * `SettingsOnlyEdited`, `SavesOnlyEdits`: a copy of the present revision
    agrees with what is stored, except where its owner edited (`Agrees`).
  * `ListsItsBranch`: a query holds what its own branch
    and path answered, and what they answer now if it was asked for since the
    last push (`QueryInv`).
  * `AvatarServed`: who is alone writes the file his type names (`OwnFile`);
    among uploads of one type, once nobody is left who removes files, the file
    of that type is there, and whoever left it unfinished still writes to it
    (`InHand`).
  * `ListTruthful`: while no answer to a mutation is due, a query that was told
    of everything has read, or holds if it is not stale, what the handler would list
    now (`TruthInv`), and whatever that leaves out is older than all it has
    (`OlderAreCut`); `EntryCreatedOnce`: a text is in the form, on its way or a row,
    and not two of them unless an answer was lost (`OnceInv`).
  * Together: the instance `MCParts` moves one part at a time, so each of its
    behaviours is one of each of the nine specifications (`PartsAreParts`), and
    what is proved of the parts holds of it; its type invariant spans them all
    (`PartsKeepTypes`, with one theorem per part).

Only model-checked: the liveness properties `DisagreementIsTransient` and
`DueJobsSettle` (liveness under fairness is out of the prover's reach), and the
four violations, one of which (`Durable`) is a liveness property. Everything
else that a run checks is a theorem. The hypotheses `Sequential` are constants'
values of the runs `RepoSequential` and, but for the second handler,
`IssuesLocking` and `AccountsFirst`: models of them exist.

## 5. Plan

Done: `RepoLifecycle` first, because it is what the program is for; then the
counters, the accounts, the queue, the sign-in; then the nine parts and the
proofs about them, and those about the sign-in; then the type invariants of the
parts, the meaning of Markdown texts, the composition, and what the queue and
the migrations promise (`JobBoard`, `CommittedOnce`). Next, in this order:

1. `handleUpdateRepo` beside `Profile`: the same read, merge and write, from
   clients only, over the row that a rename and a deletion reach as well.
2. Abstract specifications for the counters (`Issues`, `Stars`) and for the
   session of a browser (`SignIn`), with their refinements proved.
3. Pure functions of `internal/git` and `git_http.go` (names, branch names,
   pkt-line lengths) against reference definitions.

## 6. Not modelled, and why

The git program, PostgreSQL and TanStack Query themselves, beyond what the code
uses of them; everything that only reads (search, explore, branches, log,
archive, health, the read-only pages: one fetch and what it answered); git over
HTTP and SSH, which hand the request to git; `handleUpdateRepo`, which no page
calls (see the plan); what answers 501 (organizations, teams, pull requests,
webhooks, transfer) and code without callers (`Merge`, `Transfer`);
configuration, password hashing, the inline part of the Markdown rendering, the
colours of the themes, and deployment but for the restart that fairness rests
on.

## Running

    tlc -workers 2 -config RepoConcurrent.cfg MCRepoLifecycle
    tlapm RepoLifecycle_proofs.tla
