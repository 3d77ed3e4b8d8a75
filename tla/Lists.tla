------------------------------- MODULE Lists --------------------------------
(* The pages that list the rows of a table, add rows with a form and change  *)
(* them with a button: issues, releases, SSH keys, access tokens, and the    *)
(* users of the admin panel. One page of one browser tab, the handlers it    *)
(* calls, and everybody else who changes the same rows. The pages differ in  *)
(* the records below and share the queries and mutations (TanStack Query,    *)
(* external, with the options of main.tsx).                                  *)
EXTENDS Naturals, Sequences, FiniteSets

CONSTANTS IssueFilters,                  \* the filters of the issues that are used
          \* the LIMIT of the handlers that list: 100, 50 and 500
          IssuesListed, ReleasesListed, UsersListed,
          \* bounds of TLC's runs on the issues, the rows of other tables, the
          \* texts typed, the changes of others, the mutations pending at once on
          \* the page of issues and on the others
          MaxIssues, MaxRows, MaxFills, MaxOthers, MaxIssuePending, MaxPending
ASSUME ListsAssumption ==
    /\ IssueFilters \subseteq {"open", "closed", "all"}
    /\ IssuesListed \in Nat /\ ReleasesListed \in Nat /\ UsersListed \in Nat
    /\ MaxIssues \in 1..MaxRows /\ MaxRows \in Nat /\ MaxFills \in Nat /\ MaxOthers \in Nat
    /\ MaxIssuePending \in Nat /\ MaxPending \in Nat

\* filters: the queries of the page; adds: it has a form; unique: what the form
\* names may exist once; button: what the button of a row does; waits: buttons
\* are disabled while one of them is pending; gone: a changed row is not listed
\* and cannot be changed again; most: how many rows are listed (keys and tokens
\* without a LIMIT); limit, pending: the bounds above.
IssuesPage   == [filters |-> IssueFilters, adds |-> TRUE, unique |-> FALSE,
                 button |-> "off", waits |-> FALSE, gone |-> FALSE,
                 most |-> IssuesListed, limit |-> MaxIssues, pending |-> MaxIssuePending]
ReleasesPage == [filters |-> {"all"}, adds |-> TRUE, unique |-> TRUE,
                 button |-> "none", waits |-> FALSE, gone |-> FALSE,
                 most |-> ReleasesListed, limit |-> MaxRows, pending |-> MaxPending]
SSHKeysPage  == [filters |-> {"all"}, adds |-> TRUE, unique |-> TRUE,
                 button |-> "off", waits |-> FALSE, gone |-> TRUE,
                 most |-> MaxRows, limit |-> MaxRows, pending |-> MaxPending]
TokensPage   == [filters |-> {"all"}, adds |-> TRUE, unique |-> FALSE,
                 button |-> "off", waits |-> FALSE, gone |-> TRUE,
                 most |-> MaxRows, limit |-> MaxRows, pending |-> MaxPending]
UsersPage    == [filters |-> {"all"}, adds |-> FALSE, unique |-> FALSE,
                 button |-> "flip", waits |-> TRUE, gone |-> FALSE,
                 most |-> UsersListed, limit |-> MaxRows, pending |-> MaxPending]
ListPages == {IssuesPage, ReleasesPage, SSHKeysPage, TokensPage, UsersPage}

VARIABLES
    page,        \* one of ListPages, never changed
    rows,        \* the table in the order of number or created_at: the text
                 \*   each row was made of (0: somebody else's) and its flag
                 \*   (open, not deleted, active)
    filter,      \* the filter the page shows
    cache,       \* per filter, the list its query holds
    stale,       \* the filters whose list is refetched when they are shown
    request,     \* per filter, its fetch
    fills, fill, \* how many texts were typed, and the one in the form, or 0
    adding,      \* the mutation of the form: its phase and its text
    changing,    \* per row, the mutation of its button and the flag it sets
    unaware,     \* history: the filters whose query was not told of a change
                 \*   since its last answer was read, or got a part of it
    lost,        \* history: texts that became rows without an answer
    others       \* changes of others so far

listsVars == <<page, rows, filter, cache, stale, request, fills, fill, adding,
               changing, unaware, lost, others>>

RowIds == 1..MaxRows
Items == [id : RowIds, on : BOOLEAN]
NoList == [known |-> FALSE, items |-> {}]
ListOf(items) == [known |-> TRUE, items |-> items]
AnyList == [known : BOOLEAN, items : SUBSET Items]
NotFetching == [phase |-> "none", list |-> NoList]
Requested == [phase |-> "sent", list |-> NoList]
NotAdding == [phase |-> "none", text |-> 0]
NotChanging == [phase |-> "none", on |-> FALSE]

ListsTypeOK ==
    /\ page \in ListPages
    /\ rows \in Seq([text : 0..MaxFills, on : BOOLEAN]) /\ Len(rows) <= page.limit
    /\ filter \in page.filters /\ stale \subseteq page.filters /\ unaware \subseteq page.filters
    /\ cache \in [page.filters -> AnyList]
    /\ request \in [page.filters -> [phase : {"none", "sent", "read"}, list : AnyList]]
    /\ fills \in 0..MaxFills /\ fill \in 0..fills /\ lost \subseteq 1..fills
    /\ adding \in [phase : {"none", "sent", "done"}, text : 0..MaxFills]
    /\ changing \in [RowIds -> [phase : {"none", "sent", "done"}, on : BOOLEAN]]
    /\ others \in 0..MaxOthers

\* The page is opened for the first time; somebody's row is there, or none.
ListsInit ==
    /\ page \in ListPages
    /\ rows \in {<<>>, <<[text |-> 0, on |-> TRUE]>>}
    /\ filter \in page.filters \cap {"open", "all"}
    /\ cache = [f \in page.filters |-> NoList]
    /\ request = [f \in page.filters |-> IF f = filter THEN Requested ELSE NotFetching]
    /\ stale = {} /\ unaware = {} /\ lost = {}
    /\ fills = 0 /\ fill = 0 /\ others = 0
    /\ adding = NotAdding
    /\ changing = [i \in RowIds |-> NotChanging]

queryVars == <<filter, cache, stale, request>>
formVars == <<fills, fill, adding>>

\* ---- the handlers that list ----
Live(i) == rows[i].on \/ ~page.gone
Matching(f) ==
    {j \in DOMAIN rows : Live(j) /\ (f = "open" => rows[j].on) /\ (f = "closed" => ~rows[j].on)}

\* ORDER BY number or created_at DESC, up to n rows. What is older is on no page.
Newest(f, n) ==
    {[id |-> i, on |-> rows[i].on] :
        i \in {j \in Matching(f) : Cardinality({k \in Matching(f) : k > j}) < n}}
Listed(f) == Newest(f, page.most)

ReadList(f) ==
    /\ request[f].phase = "sent"
    /\ request' = [request EXCEPT ![f] = [phase |-> "read", list |-> ListOf(Listed(f))]]
    /\ unaware' = unaware \ {f}
    /\ UNCHANGED <<page, rows, filter, cache, stale, formVars, changing, lost, others>>

\* The connection breaks between two rows: rows.Next ends, nobody looks at
\* rows.Err, and what was read so far is answered with 200.
ReadShort(f) ==
    /\ request[f].phase = "sent"
    /\ \E n \in 0..(page.most - 1) :
          request' = [request EXCEPT ![f] = [phase |-> "read", list |-> ListOf(Newest(f, n))]]
    /\ unaware' = unaware \union {f}
    /\ UNCHANGED <<page, rows, filter, cache, stale, formVars, changing, lost, others>>

\* ---- the queries ----
TakeList(f) ==
    /\ request[f].phase = "read"
    /\ cache' = [cache EXCEPT ![f] = request[f].list]
    /\ request' = [request EXCEPT ![f] = NotFetching]
    /\ stale' = stale \ {f}
    /\ UNCHANGED <<page, rows, filter, formVars, changing, unaware, lost, others>>

\* The fetch and its one retry fail; a list that is there stays on the page.
ListFails(f) ==
    /\ request[f] # NotFetching
    /\ request' = [request EXCEPT ![f] = NotFetching]
    /\ unaware' = unaware \union {f}
    /\ UNCHANGED <<page, rows, filter, cache, stale, formVars, changing, lost, others>>

\* Another filter, or the page once more: a list is fetched if there is none,
\* if it is stale or (elapsed) older than 30 seconds.
Show(f) ==
    /\ filter' = f
    /\ \E elapsed \in BOOLEAN :
          request' = IF request[f] = NotFetching /\ (~cache[f].known \/ f \in stale \/ elapsed)
                       THEN [request EXCEPT ![f] = Requested] ELSE request
    /\ UNCHANGED <<page, rows, cache, stale, formVars, changing, unaware, lost, others>>

\* A bug: the key names the filter shown, so that only its query is told.
InvalidateShown ==
    /\ stale' = stale
    /\ request' = [request EXCEPT ![filter] = Requested]
    /\ unaware' = unaware \union {f \in page.filters : request[f] # NotFetching /\ f # filter}

\* invalidateQueries with the prefix of all filters: the query on the page
\* fetches anew, unless its first fetch is under way, which it joins; the others
\* are marked, and one whose fetch is under way forgets the mark with its answer.
Invalidate ==
    LET joins(f) == request[f] # NotFetching /\ (f # filter \/ ~cache[f].known)
    IN  /\ stale' = stale \union (page.filters \ {filter})
        /\ request' = IF joins(filter) THEN request ELSE [request EXCEPT ![filter] = Requested]
        /\ unaware' = unaware \union {f \in page.filters : joins(f)}

\* ---- the form ----
FillIn(t) == /\ page.adds /\ fill' = t
           /\ UNCHANGED <<page, rows, queryVars, adding, changing, unaware, lost, others>>

TypeText ==   \* a new text, or on purpose one that was typed before
    \/ fills < MaxFills /\ fills' = fills + 1 /\ FillIn(fills + 1)
    \/ page.unique /\ UNCHANGED fills /\ \E t \in 1..fills : FillIn(t)

\* A bug: the button is not disabled while the mutation is pending.
SubmitAgain ==
    /\ fill # 0 /\ adding.phase # "sent"
    /\ adding' = [phase |-> "sent", text |-> fill]
    /\ UNCHANGED <<page, rows, queryVars, fills, fill, changing, unaware, lost, others>>

PendingOnes == Cardinality({i \in RowIds : changing[i] # NotChanging})
                 + (IF adding = NotAdding THEN 0 ELSE 1)

SubmitForm ==
    /\ PendingOnes < page.pending
    /\ fill # 0 /\ adding = NotAdding
    /\ adding' = [phase |-> "sent", text |-> fill]
    /\ UNCHANGED <<page, rows, queryVars, fills, fill, changing, unaware, lost, others>>

Exists(t) == \E i \in DOMAIN rows : rows[i].text = t /\ Live(i)

Insert ==   \* one INSERT, refused if the name is taken
    /\ adding.phase = "sent" /\ Len(rows) < page.limit
    /\ ~(page.unique /\ Exists(adding.text))
    /\ rows' = Append(rows, [text |-> adding.text, on |-> TRUE])
    /\ adding' = [adding EXCEPT !.phase = "done"]
    /\ UNCHANGED <<page, queryVars, fills, fill, changing, unaware, lost, others>>

\* onSuccess: the form is emptied, whatever was typed since.
Added ==
    /\ adding.phase = "done"
    /\ adding' = NotAdding /\ fill' = 0
    /\ Invalidate
    /\ UNCHANGED <<page, rows, filter, cache, fills, changing, lost, others>>

AddFails ==   \* 409, 500, or no answer: the text stays in the form
    /\ adding # NotAdding
    /\ adding' = NotAdding
    /\ IF adding.phase = "done"
         THEN lost' = lost \union {adding.text} /\ unaware' = page.filters
         ELSE UNCHANGED <<lost, unaware>>
    /\ UNCHANGED <<page, rows, queryVars, fills, fill, changing, others>>

\* ---- the button of a row ----
PressButton(i) ==
    \E item \in cache[filter].items :
        /\ item.id = i /\ changing[i] = NotChanging /\ PendingOnes < page.pending
        /\ page.button = "flip" \/ (page.button = "off" /\ item.on)
        /\ page.waits => \A j \in RowIds : changing[j] = NotChanging
        /\ changing' = [changing EXCEPT ![i] = [phase |-> "sent", on |-> ~item.on]]
        /\ UNCHANGED <<page, rows, queryVars, formVars, unaware, lost, others>>

ChangeRow(i) ==   \* one UPDATE or DELETE, 404 if the row is gone
    /\ changing[i].phase = "sent" /\ Live(i)
    /\ rows' = [rows EXCEPT ![i].on = changing[i].on]
    /\ changing' = [changing EXCEPT ![i].phase = "done"]
    /\ UNCHANGED <<page, queryVars, formVars, unaware, lost, others>>

Changed(i) ==
    /\ changing[i].phase = "done"
    /\ changing' = [changing EXCEPT ![i] = NotChanging]
    /\ Invalidate
    /\ UNCHANGED <<page, rows, filter, cache, formVars, lost, others>>

ChangeFails(i) ==   \* no onError: the page does nothing
    /\ changing[i] # NotChanging
    /\ changing' = [changing EXCEPT ![i] = NotChanging]
    /\ unaware' = IF changing[i].phase = "done" THEN page.filters ELSE unaware
    /\ UNCHANGED <<page, rows, queryVars, formVars, lost, others>>

\* ---- everybody else, and other tabs ----
OthersChange ==
    /\ others < MaxOthers /\ others' = others + 1
    /\ \/ Len(rows) < page.limit /\ rows' = Append(rows, [text |-> 0, on |-> TRUE])
       \/ \E i \in DOMAIN rows : Live(i) /\ rows' = [rows EXCEPT ![i].on = ~@]
    /\ unaware' = page.filters
    /\ UNCHANGED <<page, queryVars, formVars, changing, lost>>

ListsNext ==
    \/ \E f \in page.filters : ReadList(f) \/ ReadShort(f) \/ TakeList(f) \/ ListFails(f) \/ Show(f)
    \/ TypeText \/ SubmitForm \/ Insert \/ Added \/ AddFails
    \/ \E i \in RowIds : PressButton(i) \/ ChangeRow(i) \/ Changed(i) \/ ChangeFails(i)
    \/ OthersChange

ListsSpec == ListsInit /\ [][ListsNext]_listsVars

-----------------------------------------------------------------------------
(* When nothing is under way the list on the page is what the handler would  *)
(* answer for the filter shown: the newest rows of the table, as many as its *)
(* LIMIT allows, after any sequence of creations, changes and switches of    *)
(* the filter; so a row that is closed makes room for the one that was too   *)
(* old. Except for changes its query was not told of: those of others, those *)
(* whose answer was lost, those answered while the first or an unshown fetch *)
(* of the filter was under way, and a list cut short. (The mutations of the  *)
(* pages invalidate the prefix of all filters.)                              *)
ListTruthful ==
    /\ request[filter] = NotFetching /\ cache[filter].known
    /\ adding = NotAdding /\ \A i \in RowIds : changing[i] = NotChanging
    /\ filter \notin unaware
    => cache[filter].items = Listed(filter)

(* A text in a form becomes one row at most, however often it is submitted,  *)
(* unless an answer was lost; and a key or the tag of a release even then.   *)
(* (Button disables while loading, the form is emptied on success, and the   *)
(* unique constraints refuse the rest with 409.)                             *)
EntryCreatedOnce ==
    \A t \in 1..fills :
        Cardinality({i \in DOMAIN rows : rows[i].text = t /\ (page.unique => Live(i))}) > 1
          => t \in lost /\ ~page.unique
=============================================================================
