------------------------------- MODULE Profile -------------------------------
(* The profile of one user: the row of table users, the form of Settings /   *)
(* Public profile in the tabs of its owner, and clients of the API. The form *)
(* always sends every field, a client only some; handleUpdateCurrentUser     *)
(* fills in what is missing from the row the middleware read before it, and  *)
(* writes back all of them.                                                  *)
EXTENDS Naturals, FiniteSets

CONSTANTS ProfileTabs, ProfileClients,
          ProfileFields, ProfileValues,
          Blank,         \* the empty string
          DisplayName,   \* the field that holds the username at first
          MaxRevision    \* bound of TLC's runs on the updates of the row
ASSUME ProfileAssumption ==
    /\ Blank \in ProfileValues /\ DisplayName \in ProfileFields
    /\ ProfileTabs \cap ProfileClients = {}
    /\ MaxRevision \in Nat

VARIABLES
    row,        \* the fields of the row
    rowRev,     \* how often they were updated (updated_at tells)
    me,         \* per tab, the answer of auth/me it shows, or Unknown
    meFetch,    \* per tab, its fetch of auth/me
    form,       \* per tab, the four inputs
    typed,      \* per tab, history: the inputs typed into since they were set
    update      \* per tab and client, its PATCH /user

profileVars == <<row, rowRev, me, meFetch, form, typed, update>>

Writers == ProfileTabs \union ProfileClients
Fields == [ProfileFields -> ProfileValues]
Partial == UNION {[s -> ProfileValues] : s \in SUBSET ProfileFields}
Answers == [fields : Fields, rev : Nat]
Empty == [f \in ProfileFields |-> Blank]
Unknown == [fields |-> Empty, rev |-> 0]   \* the row's revisions begin at 1
Fetch(phase, answer) == [phase |-> phase, answer |-> answer]
NoFetch == Fetch("none", Unknown)
NoUpdate == [phase |-> "none"]
Written == [phase |-> "written"]
\* sends: the fields of the body, rest: the others; edits: those its sender means to change
\* (history); seen: the revision what he does not edit was read at.
Update == [phase : {"sent", "read"},
           sends : Partial,
           edits : SUBSET ProfileFields,
           rest : Partial, seen : Nat]

ProfileTypeOK ==
    /\ row \in Fields /\ rowRev \in Nat
    /\ me \in [ProfileTabs -> Answers]
    /\ meFetch \in [ProfileTabs -> [phase : {"none", "sent", "read"}, answer : Answers]]
    /\ form \in [ProfileTabs -> Fields]
    /\ typed \in [ProfileTabs -> SUBSET ProfileFields]
    /\ \A w \in Writers : update[w] \in Update \union {NoUpdate, Written}

ProfileInit ==
    /\ \E name \in ProfileValues \ {Blank} : row = [Empty EXCEPT ![DisplayName] = name]
    /\ rowRev = 1
    /\ me = [t \in ProfileTabs |-> Unknown]
    /\ meFetch = [t \in ProfileTabs |-> Fetch("sent", Unknown)]
    /\ form = [t \in ProfileTabs |-> Empty]
    /\ typed = [t \in ProfileTabs |-> {}]
    /\ update = [w \in Writers |-> NoUpdate]

\* The inputs are set to what an answer holds, whatever was typed.
SetForm(t, answer) ==
    /\ form' = [form EXCEPT ![t] = answer.fields]
    /\ typed' = [typed EXCEPT ![t] = {}]

\* SettingsLayout shows the page while auth/me is loading, too.
PageShown(t) == me[t] # Unknown \/ meFetch[t] # NoFetch

OpenProfile(t) ==
    /\ PageShown(t)
    /\ SetForm(t, me[t])
    /\ UNCHANGED <<row, rowRev, me, meFetch, update>>

Type(t) ==
    /\ PageShown(t)
    /\ \E f \in ProfileFields, v \in ProfileValues :
          /\ v # form[t][f]
          /\ form' = [form EXCEPT ![t][f] = v]
          /\ typed' = [typed EXCEPT ![t] = @ \union {f}]
    /\ UNCHANGED <<row, rowRev, me, meFetch, update>>

\* ---- the query auth/me ----
StartFetch(t) ==
    /\ meFetch[t] = NoFetch
    /\ meFetch' = [meFetch EXCEPT ![t] = Fetch("sent", Unknown)]
    /\ UNCHANGED <<row, rowRev, me, form, typed, update>>

ReadMe(t) ==
    /\ meFetch[t].phase = "sent"
    /\ meFetch' = [meFetch EXCEPT ![t] = Fetch("read", [fields |-> row, rev |-> rowRev])]
    /\ UNCHANGED <<row, rowRev, me, form, typed, update>>

\* A bug: the inputs are set only once, when the first answer arrives.
TakeMeOnce(t) ==
    /\ meFetch[t].phase = "read"
    /\ me' = [me EXCEPT ![t] = meFetch[t].answer]
    /\ IF me[t] = Unknown THEN SetForm(t, meFetch[t].answer) ELSE UNCHANGED <<form, typed>>
    /\ meFetch' = [meFetch EXCEPT ![t] = NoFetch]
    /\ UNCHANGED <<row, rowRev, update>>

\* The effect of `user' sets the inputs when the answer is not deeply equal to
\* the one before: the fields, or (touched) another column of the row changed.
TakeMe(t) ==
    /\ meFetch[t].phase = "read"
    /\ me' = [me EXCEPT ![t] = meFetch[t].answer]
    /\ \E touched \in BOOLEAN :
          IF touched \/ me[t] # meFetch[t].answer
            THEN SetForm(t, meFetch[t].answer)
            ELSE UNCHANGED <<form, typed>>
    /\ meFetch' = [meFetch EXCEPT ![t] = NoFetch]
    /\ UNCHANGED <<row, rowRev, update>>

\* Any failure signs the tab out (isError) and leaves the page.
FetchMeFails(t) ==
    /\ meFetch[t] # NoFetch
    /\ me' = [me EXCEPT ![t] = Unknown]
    /\ meFetch' = [meFetch EXCEPT ![t] = NoFetch]
    /\ SetForm(t, Unknown)
    /\ UNCHANGED <<row, rowRev, update>>

\* ---- saving ----
Submit(t) ==   \* the button is disabled while a save is pending
    /\ PageShown(t) /\ update[t] = NoUpdate
    /\ update' = [update EXCEPT ![t] = [phase |-> "sent", sends |-> form[t],
                     edits |-> typed[t], rest |-> <<>>, seen |-> me[t].rev]]
    /\ UNCHANGED <<row, rowRev, me, meFetch, form, typed>>

Patch(c) ==
    /\ update[c] = NoUpdate
    /\ \E f \in ProfileFields : \E v \in ProfileValues \ {row[f]} :
          update' = [update EXCEPT ![c] = [phase |-> "sent", sends |-> [x \in {f} |-> v],
                        edits |-> {f}, rest |-> <<>>, seen |-> 0]]
    /\ UNCHANGED <<row, rowRev, me, meFetch, form, typed>>

\* The middleware reads the user; what the body lacks stays as it was read.
ReadUser(w) ==
    /\ update[w].phase = "sent"
    /\ update' = [update EXCEPT ![w].phase = "read",
                     ![w].rest = [f \in ProfileFields \ DOMAIN update[w].sends |-> row[f]],
                     ![w].seen = IF w \in ProfileClients THEN rowRev ELSE @]
    /\ UNCHANGED <<row, rowRev, me, meFetch, form, typed>>

Merged(u) == [f \in ProfileFields |-> IF f \in DOMAIN u.sends THEN u.sends[f] ELSE u.rest[f]]

WriteUser(w) ==
    /\ update[w].phase = "read"
    /\ row' = Merged(update[w])
    /\ rowRev' = rowRev + 1
    /\ update' = [update EXCEPT ![w] = Written]
    /\ UNCHANGED <<me, meFetch, form, typed>>

\* onSuccess invalidates auth/me and refreshes it: a fetch under way is started
\* anew, but the very first one is joined.
Saved(w) ==
    /\ update[w] = Written
    /\ update' = [update EXCEPT ![w] = NoUpdate]
    /\ meFetch' = IF w \in ProfileTabs /\ ~(me[w] = Unknown /\ meFetch[w] # NoFetch)
                    THEN [meFetch EXCEPT ![w] = Fetch("sent", Unknown)] ELSE meFetch
    /\ UNCHANGED <<row, rowRev, me, form, typed>>

\* A refused or failed UPDATE, or no answer within the client's 30 seconds.
SaveFails(w) ==
    /\ update[w] # NoUpdate
    /\ update' = [update EXCEPT ![w] = NoUpdate]
    /\ UNCHANGED <<row, rowRev, me, meFetch, form, typed>>

ProfileNext ==
    /\ rowRev < MaxRevision   \* the bound: nothing after it is looked at
    /\ \/ \E t \in ProfileTabs :
             \/ OpenProfile(t) \/ Type(t) \/ Submit(t)
             \/ StartFetch(t) \/ ReadMe(t) \/ TakeMe(t) \/ FetchMeFails(t)
       \/ \E c \in ProfileClients : Patch(c)
       \/ \E w \in Writers : ReadUser(w) \/ WriteUser(w) \/ Saved(w) \/ SaveFails(w)

ProfileSpec == ProfileInit /\ [][ProfileNext]_profileVars

-----------------------------------------------------------------------------
(* A save changes a field its sender did not edit only if the profile was    *)
(* updated since the sender read it, or if the form was sent before it had   *)
(* been filled: who sees the latest profile changes what he typed and no     *)
(* more, and a refetch never leaves old values in the inputs.                *)
(* (handleUpdateCurrentUser writes all fields back; SettingsProfilePage      *)
(* sends all four and sets them when the user changes.)                      *)
SavesOnlyEdits ==
    [][\A w \in Writers, f \in ProfileFields :
         WriteUser(w) /\ f \notin update[w].edits /\ update[w].seen = rowRev
           => row'[f] = row[f]]_profileVars
=============================================================================
