---------------------------- MODULE SiteSettings ----------------------------
(* The site settings: one JSON object in table settings, the page Admin /    *)
(* Site settings of several administrators, scripts that use the API, and    *)
(* the handlers that load, merge and store it whole. A load that fails       *)
(* answers with the defaults, and the page cannot tell.                      *)
EXTENDS Naturals

CONSTANTS Admins, Scripts, Keys, SettingValues,
          DefaultValue,   \* of every key
          MaxStores       \* bound of TLC's runs on the revisions of the object
ASSUME SiteSettingsAssumption ==
    /\ DefaultValue \in SettingValues /\ MaxStores \in Nat
    /\ Admins \cap Scripts = {}

VARIABLES
    settings,    \* the stored object; no row yet means the defaults
    storedRev,   \* how often it was stored, from 1
    loaded,      \* per page, `data': the object the query holds, or Nothing
    draft,       \* per page, `form': a snapshot with changes, or Nothing
    changed,     \* per page, history: the keys changed since the snapshot
    saving       \* per page and script, its PATCH

settingsVars == <<settings, storedRev, loaded, draft, changed, saving>>

Objects == [Keys -> SettingValues]
Partials == UNION {[s -> SettingValues] : s \in SUBSET Keys}
Defaults == [k \in Keys |-> DefaultValue]
\* What a page holds, and the revision it is of: 0 if it is of none.
Copy(values, rev) == [values |-> values, rev |-> rev]
Copies == [values : Partials, rev : Nat]
Nothing == Copy(<<>>, 0)
NotSaving == [phase |-> "none"]
Saving == [phase : {"sent", "loaded", "stored"}, body : Copies, edits : SUBSET Keys, current : Copies]

SettingsTypeOK ==
    /\ settings \in Objects /\ storedRev \in Nat
    /\ loaded \in [Admins -> Copies]
    /\ draft \in [Admins -> Copies]
    /\ changed \in [Admins -> SUBSET Keys]
    /\ saving \in [Admins \union Scripts -> Saving \union {NotSaving}]

SettingsInit ==
    /\ settings = Defaults /\ storedRev = 1
    /\ loaded = [a \in Admins |-> Nothing]
    /\ draft = [a \in Admins |-> Nothing]
    /\ changed = [a \in Admins |-> {}]
    /\ saving = [a \in Admins \union Scripts |-> NotSaving]

\* loadInstanceSettings: any error answers the defaults.
LoadResults == {Copy(settings, storedRev), Copy(Defaults, 0)}

\* const values = form || data || {}
Values(a) == IF draft[a] # Nothing THEN draft[a] ELSE loaded[a]

\* The query answers; the draft, once there is one, hides it. (An answer that
\* is old when it arrives is one that was fetched earlier.)
LoadSettings(a) ==
    /\ \E copy \in LoadResults : loaded' = [loaded EXCEPT ![a] = copy]
    /\ UNCHANGED <<settings, storedRev, draft, changed, saving>>

\* The page is left and opened again: its state is new, the query cached.
OpenSettings(a) ==
    /\ draft' = [draft EXCEPT ![a] = Nothing]
    /\ changed' = [changed EXCEPT ![a] = {}]
    /\ UNCHANGED <<settings, storedRev, loaded, saving>>

\* set(key, value). A page whose query failed starts from nothing.
Set(a, k, v) ==
    /\ k \in DOMAIN Values(a).values => v # Values(a).values[k]
    /\ draft' = [draft EXCEPT ![a] =
          Copy([x \in DOMAIN Values(a).values \union {k} |-> IF x = k THEN v ELSE Values(a).values[x]],
               Values(a).rev)]
    /\ changed' = [changed EXCEPT ![a] = @ \union {k}]
    /\ UNCHANGED <<settings, storedRev, loaded, saving>>

SendPatch(w, body, edits) ==
    /\ saving[w] = NotSaving
    /\ saving' = [saving EXCEPT ![w] =
          [phase |-> "sent", body |-> body, edits |-> edits, current |-> Nothing]]
    /\ UNCHANGED <<settings, storedRev, loaded, draft, changed>>

Save(a) == SendPatch(a, Values(a), changed[a])   \* disabled while one is pending
Script(s, k, v) == v # settings[k] /\ SendPatch(s, Copy([x \in {k} |-> v], 0), {k})

\* What is kept of the loaded object: the keys that the body lacks.
Missing(copy, body) ==
    LET keys == Keys \ DOMAIN body.values
    IN  IF keys = {} THEN Nothing ELSE Copy([k \in keys |-> copy.values[k]], copy.rev)

LoadCurrent(a) ==
    /\ saving[a].phase = "sent"
    /\ \E copy \in LoadResults :
          saving' = [saving EXCEPT ![a].phase = "loaded", ![a].current = Missing(copy, saving[a].body)]
    /\ UNCHANGED <<settings, storedRev, loaded, draft, changed>>

\* A bug: the body is merged into the defaults, not into what is stored.
MergeIntoDefaults(s) == [k \in Keys |-> IF k \in DOMAIN s.body.values THEN s.body.values[k] ELSE DefaultValue]

Merge(s) == [k \in Keys |-> IF k \in DOMAIN s.body.values THEN s.body.values[k] ELSE s.current.values[k]]

Store(a) ==
    /\ saving[a].phase = "loaded"
    /\ settings' = Merge(saving[a])
    /\ storedRev' = storedRev + 1
    /\ saving' = [saving EXCEPT ![a] = [phase |-> "stored",
          body |-> Copy(settings', storedRev'), edits |-> {}, current |-> Nothing]]
    /\ UNCHANGED <<loaded, draft, changed>>

\* onSuccess: the draft becomes what was saved, whatever was changed meanwhile.
Stored(a) ==
    /\ saving[a].phase = "stored"
    /\ IF a \in Admins
         THEN /\ draft' = [draft EXCEPT ![a] = saving[a].body]
              /\ changed' = [changed EXCEPT ![a] = {}]
         ELSE UNCHANGED <<draft, changed>>
    /\ saving' = [saving EXCEPT ![a] = NotSaving]
    /\ UNCHANGED <<settings, storedRev, loaded>>

\* The upsert fails, or the answer is lost; the draft stays.
StoreFails(a) ==
    /\ saving[a] # NotSaving
    /\ saving' = [saving EXCEPT ![a] = NotSaving]
    /\ UNCHANGED <<settings, storedRev, loaded, draft, changed>>

SettingsNext ==
    /\ storedRev < MaxStores   \* the bound: nothing after it is looked at
    /\ \/ \E a \in Admins : LoadSettings(a) \/ OpenSettings(a) \/ Save(a)
       \/ \E k \in Keys, v \in SettingValues :
             \/ \E a \in Admins : Set(a, k, v)
             \/ \E s \in Scripts : Script(s, k, v)
       \/ \E w \in Admins \union Scripts :
             LoadCurrent(w) \/ Store(w) \/ Stored(w) \/ StoreFails(w)

SettingsSpec == SettingsInit /\ [][SettingsNext]_settingsVars

-----------------------------------------------------------------------------
(* Storing the settings changes a key the administrator did not change only  *)
(* if the copy he sent of it, or for a key he did not send the one the       *)
(* handler merged into, is not the latest: somebody stored the settings      *)
(* since, or the load had failed and answered the defaults. A page that goes *)
(* on from its own answer stays up to date. (handleAdminUpdateSettings,      *)
(* AdminSettingsPage, which sends its whole snapshot.)                       *)
SettingsOnlyEdited ==
    [][\A a \in Admins \union Scripts, k \in Keys :
         LET copy == IF k \in DOMAIN saving[a].body.values THEN saving[a].body ELSE saving[a].current
         IN  Store(a) /\ k \notin saving[a].edits /\ copy.rev = storedRev
               => settings'[k] = settings[k]]_settingsVars
=============================================================================
