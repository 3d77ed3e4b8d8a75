---------------------------- MODULE Parts_proofs ----------------------------
(***************************************************************************)
(* Theorems about the parts that share no state: themes, migrations,       *)
(* navigation, site settings, the profile, browsing, avatars, lists (the   *)
(* renderer of Markdown has a module of its own); and about all of them    *)
(* together, as TLC checks them.                                           *)
(***************************************************************************)
EXTENDS MCParts, Markdown_proofs, FiniteSetTheorems, TLAPS

(***************************************************************************)
(* THEMES. The root element has the class 'dark' exactly if a dark theme   *)
(* is painted, from the first applyTheme on.                               *)
(***************************************************************************)
ThemesInv == ThemesTypeOK /\ (darkClass <=> painted \in DarkThemes)

LEMMA ThemesInitially == ThemesInit => ThemesInv
  BY DEF ThemesInit, ThemesInv, ThemesTypeOK, ThemeIds, LightThemes, DarkThemes, NoTheme

LEMMA ResolveType ==
  ASSUME ThemesTypeOK, NEW id \in ThemeIds
  PROVE  Resolve(id) \in ThemeIds \ {"system"}
  BY DEF ThemesTypeOK, Resolve, ThemeIds, LightThemes, DarkThemes

LEMMA Painted ==
  ASSUME ThemesTypeOK, NEW id \in ThemeIds, ApplyTheme(id)
  PROVE  /\ painted' = Resolve(id) /\ painted' \in ThemeIds \ {"system"}
         /\ stored' \in ThemeIds
         /\ darkClass' \in BOOLEAN /\ (darkClass' <=> painted' \in DarkThemes)
<1>1. painted' = Resolve(id) /\ stored' = id /\ darkClass' = (Resolve(id) \in DarkThemes)
  BY DEF ApplyTheme
<1>2. darkClass' <=> Resolve(id) \in DarkThemes
  BY <1>1, Zenon
<1>3. darkClass' \in BOOLEAN
  <2>1. (Resolve(id) \in DarkThemes) \in BOOLEAN
    OBVIOUS
  <2> QED BY <1>1, <2>1
<1> QED BY <1>1, <1>2, <1>3, ResolveType

LEMMA ThemesStep == ThemesInv /\ [ThemesNext]_themesVars => ThemesInv'
<1> SUFFICES ASSUME ThemesInv, [ThemesNext]_themesVars PROVE ThemesInv'
  OBVIOUS
<1> USE DEF ThemesInv, ThemesTypeOK
<1>1. StoredThemeId \in ThemeIds
  BY DEF StoredThemeId, ThemeIds, DarkThemes
<1>2. CASE LoadThemes
  BY <1>1, <1>2, Painted DEF LoadThemes
<1>3. CASE ToggleTheme
  <2>1. shellTheme' \in ThemeIds
    BY <1>3 DEF ToggleTheme, ThemeIds, LightThemes, DarkThemes
  <2> QED BY <1>3, <2>1, Painted DEF ToggleTheme
<1>4. CASE OpenAppearance
  BY <1>1, <1>4 DEF OpenAppearance
<1>5. CASE LeaveAppearance
  BY <1>5 DEF LeaveAppearance
<1>6. CASE DeviceFlips
  BY <1>6 DEF DeviceFlips
<1>7. ASSUME NEW id \in ThemeIds, SelectTheme(id) PROVE ThemesInv'
  BY <1>7, Painted DEF SelectTheme
<1>8. ASSUME NEW id \in ThemeIds, OtherTabStores(id) PROVE ThemesInv'
  BY <1>8 DEF OtherTabStores
<1>9. CASE UNCHANGED themesVars
  BY <1>9 DEF themesVars
<1> QED BY <1>2, <1>3, <1>4, <1>5, <1>6, <1>7, <1>8, <1>9 DEF ThemesNext

LEMMA Flips ==
  ThemesInv /\ [ThemesNext]_themesVars
    => [ToggleTheme /\ painted = shellTheme => darkClass' # darkClass]_themesVars
<1> SUFFICES ASSUME ThemesInv, ToggleTheme, painted = shellTheme
             PROVE  darkClass' # darkClass
  OBVIOUS
<1> USE DEF ThemesInv, ThemesTypeOK, ThemeIds, LightThemes, DarkThemes, NoTheme
<1>1. CASE shellTheme \in ToggleKnowsDark
  <2>1. darkClass = TRUE
    BY <1>1 DEF ToggleKnowsDark
  <2>2. shellTheme' = "light" /\ darkClass' = (Resolve("light") \in DarkThemes)
    BY <1>1 DEF ToggleTheme, ApplyTheme
  <2> QED BY <2>1, <2>2 DEF Resolve
<1>2. CASE shellTheme \notin ToggleKnowsDark
  <2>1. darkClass = FALSE
    BY <1>2 DEF ToggleKnowsDark, ToggleTheme
  <2>2. shellTheme' = "dark" /\ darkClass' = (Resolve("dark") \in DarkThemes)
    BY <1>2 DEF ToggleTheme, ApplyTheme
  <2> QED BY <2>1, <2>2 DEF Resolve
<1> QED BY <1>1, <1>2

(* A press of the header's button flips the page between dark and light,    *)
(* whatever other tabs store and the device prefers (AppShell, applyTheme). *)
THEOREM ButtonFlips == ThemesSpec => ToggleFlips
<1>1. ThemesInv /\ [ThemesNext]_themesVars
        => [ToggleTheme /\ painted = shellTheme => darkClass' # darkClass]_themesVars
  BY Flips
<1> QED BY ThemesInitially, ThemesStep, <1>1, PTL DEF ThemesSpec, ToggleFlips

(***************************************************************************)
(* MIGRATIONS. What a server has checked is recorded. What is recorded is  *)
(* a prefix of the migrations, and what a server is about to commit is the *)
(* next one, or one that is recorded already (then the primary key         *)
(* refuses it); only one server is past the statements of a migration.     *)
(***************************************************************************)
Prefix(n) == schema = 1..n /\ recorded = 1..n
MigrateInv ==
  /\ MigrateTypeOK
  /\ \E n \in 0..MigrationCount : Prefix(n)
  /\ \A r \in Replicas :
        /\ 1..(replica[r].migration - 1) \subseteq recorded
        /\ replica[r].pc \in {"apply", "record", "commit"} => replica[r].migration \in Migrations
        /\ replica[r].pc = "up" => replica[r].migration = MigrationCount + 1

LEMMA MigrateInitially == MigrateInit => MigrateInv
<1> SUFFICES ASSUME MigrateInit PROVE MigrateInv
  OBVIOUS
<1> USE MigrateAssumption DEF MigrateInit
<1>1. MigrateTypeOK
  BY DEF MigrateTypeOK, Down, At
<1>2. Prefix(0)
  BY DEF Prefix
<1>3. \A r \in Replicas : replica[r].pc = "down" /\ replica[r].migration = 1
  BY DEF Down, At
<1> QED BY <1>1, <1>2, <1>3 DEF MigrateInv

(***************************************************************************)
(* Every step moves one server, and only a commit changes the database.    *)
(***************************************************************************)
LEMMA MigrateMove ==
  ASSUME MigrateInv, NEW r \in Replicas,
         UNCHANGED <<schema, recorded>>,
         NEW pc \in {"down", "check", "apply", "record", "commit", "up"},
         NEW m \in 1..(MigrationCount + 1),
         replica' = [replica EXCEPT ![r] = At(pc, m)],
         1..(m - 1) \subseteq recorded,
         pc \in {"apply", "record", "commit"} => m \in Migrations,
         pc = "up" => m = MigrationCount + 1
  PROVE  MigrateInv'
<1>1. \A s \in Replicas : replica'[s] = IF s = r THEN At(pc, m) ELSE replica[s]
  BY DEF MigrateInv, MigrateTypeOK
<1>2. MigrateTypeOK'
  BY <1>1 DEF MigrateInv, MigrateTypeOK, At
<1>3. \E n \in 0..MigrationCount : Prefix(n)'
  BY DEF MigrateInv, Prefix
<1>4. ASSUME NEW s \in Replicas
      PROVE  /\ 1..(replica'[s].migration - 1) \subseteq recorded'
             /\ replica'[s].pc \in {"apply", "record", "commit"} => replica'[s].migration \in Migrations
             /\ replica'[s].pc = "up" => replica'[s].migration = MigrationCount + 1
  BY <1>1, <1>4 DEF MigrateInv, At
<1> QED BY <1>2, <1>3, <1>4 DEF MigrateInv, Migrations

LEMMA MigrateCommits ==
  ASSUME MigrateInv, NEW r \in Replicas, CommitMigration(r) PROVE MigrateInv'
<1> DEFINE m == replica[r].migration
<1>1. PICK n \in 0..MigrationCount : Prefix(n)
  BY DEF MigrateInv
<1>2. m \in Migrations /\ 1..(m - 1) \subseteq 1..n
  BY <1>1 DEF MigrateInv, CommitMigration, Prefix
<1>3. m \in 1..n \/ m = n + 1
  <2>1. CASE m = 1
    BY <2>1, MigrateAssumption
  <2>2. CASE m # 1
    <3>1. m - 1 \in 1..(m - 1) /\ m \in Nat
      BY <1>2, <2>2, MigrateAssumption DEF Migrations
    <3>2. m - 1 \in 1..n
      BY <1>2, <3>1
    <3> QED BY <3>1, <3>2
  <2> QED BY <2>1, <2>2
<1>4. schema' = 1..n \union {m} /\ recorded' = 1..n \union {m}
  BY <1>1 DEF CommitMigration, Prefix
<1>5. \E k \in 0..MigrationCount : Prefix(k)'
  <2>1. CASE m \in 1..n
    BY <1>4, <2>1, Zenon DEF Prefix
  <2>2. CASE m = n + 1
    <3>1. n + 1 \in 0..MigrationCount /\ 1..n \union {n + 1} = 1..(n + 1)
      BY <1>2, <2>2, MigrateAssumption DEF Migrations
    <3> QED BY <1>4, <2>2, <3>1 DEF Prefix
  <2> QED BY <1>3, <2>1, <2>2
<1>6. recorded \subseteq recorded' /\ m \in recorded' /\ 1..(m - 1) \subseteq recorded
  BY <1>2, <1>1, <1>4 DEF Prefix
<1>7. PICK next \in {At("check", m + 1), Down} : replica' = [replica EXCEPT ![r] = next]
  BY DEF CommitMigration
<1>8. \A s \in Replicas : replica'[s] = IF s = r THEN next ELSE replica[s]
  BY <1>7 DEF MigrateInv, MigrateTypeOK
<1>9. /\ next.pc \in {"check", "down"} /\ next.migration \in 1..(MigrationCount + 1)
      /\ next \in [pc : {"check", "down"}, migration : 1..(MigrationCount + 1)]
      /\ 1..(next.migration - 1) \subseteq recorded'
  BY <1>2, <1>6, MigrateAssumption DEF At, Down, Migrations
<1>10. MigrateTypeOK'
  <2>1. schema' \subseteq Migrations /\ recorded' \subseteq Migrations
    BY <1>2, <1>4, MigrateAssumption DEF Migrations
  <2> QED BY <2>1, <1>7, <1>9 DEF MigrateInv, MigrateTypeOK
<1>11. ASSUME NEW s \in Replicas
       PROVE  /\ 1..(replica'[s].migration - 1) \subseteq recorded'
              /\ replica'[s].pc \in {"apply", "record", "commit"} => replica'[s].migration \in Migrations
              /\ replica'[s].pc = "up" => replica'[s].migration = MigrationCount + 1
  BY <1>6, <1>8, <1>9 DEF MigrateInv
<1> QED BY <1>5, <1>10, <1>11 DEF MigrateInv, Migrations

LEMMA MigrateStep == MigrateInv /\ [MigrateNext]_migrateVars => MigrateInv'
<1> SUFFICES ASSUME MigrateInv, [MigrateNext]_migrateVars PROVE MigrateInv'
  OBVIOUS
<1>1. CASE UNCHANGED migrateVars
  BY <1>1 DEF migrateVars, MigrateInv, MigrateTypeOK, Prefix, Migrations
<1>2. CASE MigrateNext
  <2>1. PICK r \in Replicas :
           \/ StartServer(r) \/ CheckMigration(r) \/ ApplyMigration(r)
           \/ RecordMigration(r) \/ CommitMigration(r) \/ Serve(r) \/ ServerEnds(r)
    BY <1>2 DEF MigrateNext
  <2> DEFINE m == replica[r].migration
  <2>2. /\ replica[r] = At(replica[r].pc, m) /\ m \in 1..(MigrationCount + 1)
        /\ 1..(m - 1) \subseteq recorded
        /\ replica[r].pc \in {"apply", "record", "commit"} => m \in Migrations
    BY DEF MigrateInv, MigrateTypeOK, At
  <2>3. ASSUME NEW old, NEW to, Moves(r, old, to)
        PROVE  replica' = [replica EXCEPT ![r] = At(to, m)] /\ replica[r].pc = old
    <3>1. replica' = [replica EXCEPT ![r] = [replica[r] EXCEPT !.pc = to]] /\ replica[r].pc = old
      BY <2>3 DEF Moves
    <3>2. [replica[r] EXCEPT !.pc = to] = At(to, m)
      BY DEF MigrateInv, MigrateTypeOK, At
    <3> QED BY <3>1, <3>2
  <2>4. CASE StartServer(r)
    BY <2>2, <2>3, <2>4, MigrateMove DEF StartServer
  <2>5. CASE CheckMigration(r)
    <3>1. CASE m \in recorded
      <4> DEFINE k == m + 1
      <4>1. k \in 1..(MigrationCount + 1) /\ 1..(k - 1) \subseteq recorded
        BY <2>2, <2>5, <3>1, MigrateAssumption DEF CheckMigration, Migrations
      <4>2. UNCHANGED <<schema, recorded>> /\ replica' = [replica EXCEPT ![r] = At("check", k)]
        BY <2>5, <3>1 DEF CheckMigration
      <4> HIDE DEF k
      <4> QED BY <4>1, <4>2, MigrateMove
    <3>2. CASE m \notin recorded
      BY <2>2, <2>5, <3>2, MigrateMove DEF CheckMigration
    <3> QED BY <3>1, <3>2
  <2>6. CASE ApplyMigration(r)
    BY <2>2, <2>3, <2>6, MigrateMove DEF ApplyMigration
  <2>7. CASE RecordMigration(r)
    BY <2>2, <2>3, <2>7, MigrateMove DEF RecordMigration
  <2>8. CASE CommitMigration(r)
    BY <2>8, MigrateCommits
  <2>9. CASE Serve(r)
    BY <2>2, <2>3, <2>9, MigrateMove DEF Serve
  <2>10. CASE ServerEnds(r)
    <3>1. 1 \in 1..(MigrationCount + 1) /\ 1..(1 - 1) \subseteq recorded
      BY MigrateAssumption
    <3> QED BY <2>10, <3>1, MigrateMove DEF ServerEnds, Down
  <2> QED BY <2>1, <2>4, <2>5, <2>6, <2>7, <2>8, <2>9, <2>10
<1> QED BY <1>1, <1>2

LEMMA MigrateComplete == MigrateInv => SchemaComplete
<1> SUFFICES ASSUME MigrateInv PROVE SchemaComplete
  OBVIOUS
<1>1. PICK n \in 0..MigrationCount : Prefix(n)
  BY DEF MigrateInv
<1>2. ASSUME NEW r \in Replicas, replica[r].pc = "up" PROVE schema = Migrations
  <2>1. 1..MigrationCount \subseteq recorded
    <3>1. replica[r].migration - 1 = MigrationCount
      BY <1>2, MigrateAssumption DEF MigrateInv
    <3> QED BY <3>1 DEF MigrateInv
  <2>2. recorded \subseteq Migrations
    BY DEF MigrateInv, MigrateTypeOK
  <2> QED BY <1>1, <2>1, <2>2 DEF Prefix, Migrations
<1> QED BY <1>1, <1>2 DEF SchemaComplete, Prefix

(* For any number of servers that start, fail and restart at any moment,    *)
(* and any number of migrations, the schema is what schema_migrations says, *)
(* and a server that serves has all of it (Migrate of db.go).               *)
THEOREM MigrationsComplete == MigrateSpec => []SchemaComplete
<1> QED BY MigrateInitially, MigrateStep, MigrateComplete, PTL DEF MigrateSpec

(***************************************************************************)
(* That none is committed twice needs more: a transaction that has its row *)
(* is the first of its migration, since the statements wait for whoever is *)
(* past them, and commits what the table does not have.                    *)
(***************************************************************************)
Open(r) == replica[r].pc \in {"record", "commit"}
CommitInv ==
  /\ \A r \in Replicas : replica[r].pc = "commit" => replica[r].migration \notin recorded
  /\ \A q, r \in Replicas :
        q # r /\ Open(q) /\ Open(r) => replica[q].migration # replica[r].migration

LEMMA CommitInvStep == MigrateInv /\ CommitInv /\ [MigrateNext]_migrateVars => CommitInv'
<1> SUFFICES ASSUME MigrateInv, CommitInv, [MigrateNext]_migrateVars PROVE CommitInv'
  OBVIOUS
<1>1. CASE UNCHANGED migrateVars
  BY <1>1 DEF migrateVars, CommitInv, Open
<1>2. ASSUME NEW r \in Replicas, NEW next, replica' = [replica EXCEPT ![r] = next],
             \/ next.pc \notin {"record", "commit"}
             \/ /\ next.migration = replica[r].migration /\ Open(r)
                /\ next.migration \notin recorded,
             UNCHANGED recorded
      PROVE  CommitInv'
  <2>1. \A s \in Replicas : replica'[s] = IF s = r THEN next ELSE replica[s]
    BY <1>2 DEF MigrateInv, MigrateTypeOK
  <2> QED BY <1>2, <2>1 DEF CommitInv, Open
<1>3. ASSUME NEW r \in Replicas, NEW old, NEW to, Moves(r, old, to)
      PROVE  replica' = [replica EXCEPT ![r] = At(to, replica[r].migration)] /\ replica[r].pc = old
  <2>1. replica' = [replica EXCEPT ![r] = [replica[r] EXCEPT !.pc = to]] /\ replica[r].pc = old
    BY <1>3 DEF Moves
  <2>2. [replica[r] EXCEPT !.pc = to] = At(to, replica[r].migration)
    BY DEF MigrateInv, MigrateTypeOK, At
  <2> QED BY <2>1, <2>2
<1>4. ASSUME NEW r \in Replicas, StartServer(r) \/ Serve(r) PROVE CommitInv'
  <2>1. PICK to \in {"check", "up"} :
          replica' = [replica EXCEPT ![r] = At(to, replica[r].migration)] /\ UNCHANGED recorded
    BY <1>3, <1>4 DEF StartServer, Serve
  <2>2. At(to, replica[r].migration).pc \notin {"record", "commit"}
    BY DEF At
  <2> QED BY <1>2, <2>1, <2>2
<1>5. ASSUME NEW r \in Replicas, CheckMigration(r) \/ ServerEnds(r) PROVE CommitInv'
  <2>1. PICK next : /\ replica' = [replica EXCEPT ![r] = next] /\ UNCHANGED recorded
                    /\ next.pc \in {"check", "apply", "down"}
    BY <1>5 DEF CheckMigration, ServerEnds, At, Down
  <2> QED BY <1>2, <2>1
<1>6. ASSUME NEW r \in Replicas, ApplyMigration(r) PROVE CommitInv'
  <2> DEFINE m == replica[r].migration
  <2>1. /\ \A s \in Replicas : replica[s] \notin {At("record", m), At("commit", m)}
        /\ replica' = [replica EXCEPT ![r] = At("record", m)] /\ UNCHANGED recorded
    BY <1>3, <1>6 DEF ApplyMigration
  <2>2. \A s \in Replicas : replica[s] = At(replica[s].pc, replica[s].migration)
    BY DEF MigrateInv, MigrateTypeOK, At
  <2>3. \A s \in Replicas : Open(s) => replica[s].migration # m
    BY <2>1, <2>2 DEF Open
  <2>4. \A s \in Replicas : replica'[s] = IF s = r THEN At("record", m) ELSE replica[s]
    BY <2>1 DEF MigrateInv, MigrateTypeOK
  <2>5. At("record", m).migration = m /\ At("record", m).pc = "record"
    BY DEF At
  <2> QED BY <2>1, <2>3, <2>4, <2>5 DEF CommitInv, Open
<1>7. ASSUME NEW r \in Replicas, RecordMigration(r) PROVE CommitInv'
  <2> DEFINE next == At("commit", replica[r].migration)
  <2>1. /\ replica' = [replica EXCEPT ![r] = next] /\ UNCHANGED recorded
        /\ replica[r].pc = "record" /\ replica[r].migration \notin recorded
    BY <1>3, <1>7 DEF RecordMigration
  <2>2. next.migration = replica[r].migration
    BY DEF At
  <2> QED BY <1>2, <2>1, <2>2 DEF Open
<1>8. ASSUME NEW r \in Replicas, CommitMigration(r) PROVE CommitInv'
  <2> DEFINE m == replica[r].migration
  <2>1. PICK next \in {At("check", m + 1), Down} : replica' = [replica EXCEPT ![r] = next]
    BY <1>8 DEF CommitMigration
  <2>2. recorded' = recorded \union {m} /\ replica[r].pc = "commit"
    BY <1>8 DEF CommitMigration
  <2>3. next.pc \notin {"record", "commit"}
    BY DEF At, Down
  <2>4. \A s \in Replicas : replica'[s] = IF s = r THEN next ELSE replica[s]
    BY <2>1 DEF MigrateInv, MigrateTypeOK
  <2> QED BY <2>2, <2>3, <2>4 DEF CommitInv, Open
<1> QED BY <1>1, <1>4, <1>5, <1>6, <1>7, <1>8 DEF MigrateNext

\* What a commit adds is the next migration: all before it are recorded, and it is not.
LEMMA CommitsNext ==
  ASSUME MigrateInv, CommitInv, NEW r \in Replicas, CommitMigration(r)
  PROVE  recorded' = 1..(Cardinality(recorded) + 1)
<1> DEFINE m == replica[r].migration
<1>1. PICK n \in 0..MigrationCount : recorded = 1..n
  BY DEF MigrateInv, Prefix
<1>2. m \in Nat /\ 1..(m - 1) \subseteq 1..n /\ m \notin 1..n /\ m >= 1
  BY <1>1, MigrateAssumption DEF MigrateInv, CommitInv, CommitMigration, Migrations
<1>3. m = n + 1
  <2>1. CASE m = 1
    BY <1>2, <2>1, MigrateAssumption
  <2>2. CASE m # 1
    <3>1. m - 1 \in 1..(m - 1)
      BY <1>2, <2>2
    <3>2. m - 1 \in 1..n
      BY <1>2, <3>1
    <3> QED BY <1>2, <3>2
  <2> QED BY <2>1, <2>2
<1>4. recorded' = 1..n \union {n + 1}
  BY <1>1, <1>3 DEF CommitMigration
<1>5. 1..n \union {n + 1} = 1..(n + 1)
  BY MigrateAssumption
<1>6. Cardinality(recorded) = n
  BY <1>1, FS_Interval, MigrateAssumption
<1> QED BY <1>4, <1>5, <1>6

(* For any number of servers and migrations, every commit adds the one      *)
(* migration that comes next, and nothing else changes the schema or its    *)
(* table: whoever checked too early is refused by a lock or by the primary  *)
(* key (Migrate of db.go).                                                  *)
THEOREM NoneTwice == MigrateSpec => CommittedOnce
<1>1. MigrateInit => CommitInv
  BY DEF MigrateInit, CommitInv, Open, Down, At
<1>2. MigrateInv /\ CommitInv /\ [MigrateNext]_migrateVars =>
        [IF \E r \in Replicas : CommitMigration(r)
           THEN recorded' = 1..(Cardinality(recorded) + 1)
           ELSE UNCHANGED <<schema, recorded>>]_migrateVars
  BY CommitsNext DEF MigrateNext, StartServer, CheckMigration, ApplyMigration, RecordMigration,
     Serve, ServerEnds
<1> QED BY <1>1, <1>2, CommitInvStep, MigrateInitially, MigrateStep, PTL
        DEF MigrateSpec, CommittedOnce

(***************************************************************************)
(* NAVIGATION. As long as a page is wanted, the tab is on the page that is *)
(* remembered for it or at the form that remembers that, and a call that   *)
(* signs in goes there, too.                                               *)
(***************************************************************************)
Remembers == where = Remembered(wanted) \/ (where = "login" /\ from = Remembered(wanted))
CallsReturn ==
  \A c \in {"login", "register"} : call[c] = NoCall \/ call[c].to = Remembered(wanted)
NavigationInv == NavigationTypeOK /\ (wanted # "none" => Remembers /\ CallsReturn)

LEMMA NavigationInitially == NavigationInit => NavigationInv
  BY DEF NavigationInit, NavigationInv, NavigationTypeOK, NoCall, Call, Whos, SignedIn, Wheres

\* The pages remembered have the guard that remembers them.
LEMMA RememberedOnes ==
  /\ \A p \in Guarded : Remembered(p) \in {"new", "profile"}
  /\ \A p \in {"new", "profile"} : Remembered(p) = p
  BY DEF Guarded, Remembered

\* Where a guard sends to, and from where.
LEMMA GuardSends ==
  ASSUME NavigationTypeOK, NEW to \in Sends
  PROVE  /\ to \in Wheres
         /\ to = "login" => where \in Guarded /\ shown = "out"
         /\ to # "login" => \/ where = "login" /\ shown \in SignedIn /\ to = from
                            \/ where \in {"admin", "register"} /\ to = "home"
  BY DEF NavigationTypeOK, Sends, Wheres, Guarded, SignedIn

LEMMA RedirectStep ==
  ASSUME NavigationInv, Redirect PROVE NavigationInv'
<1> USE DEF NavigationInv, NavigationTypeOK
<1>1. PICK to \in Sends :
        /\ where' = to
        /\ from' = (IF to = "login" THEN Remembered(where) ELSE "home")
        /\ wanted' = (IF to # "login" THEN wanted
                      ELSE IF \E c \in Calls : call[c] # NoCall /\ call[c].to # Remembered(where)
                        THEN "none"
                      ELSE where)
        /\ UNCHANGED <<auth, shown, call>>
  BY DEF Redirect
<1>2. /\ to \in Wheres
      /\ to = "login" => where \in Guarded /\ shown = "out"
      /\ to # "login" => \/ where = "login" /\ shown \in SignedIn /\ to = from
                         \/ where \in {"admin", "register"} /\ to = "home"
  BY GuardSends
<1>3. NavigationTypeOK'
  BY <1>1, <1>2, RememberedOnes
<1>4. CASE to = "login"
  <2>1. wanted' # "none" => \A c \in Calls : call[c] = NoCall \/ call[c].to = Remembered(where)
    BY <1>1, <1>4
  <2> QED BY <1>1, <1>3, <1>4, <2>1 DEF Remembers, CallsReturn, Calls
<1>5. CASE to # "login"
  <2>1. wanted # "none" => to = Remembered(wanted)
    <3>1. wanted # "none" => Remembered(wanted) \in {"new", "profile"}
      BY RememberedOnes
    <3> QED BY <1>2, <1>5, <3>1 DEF Remembers
  <2> QED BY <1>1, <1>3, <1>5, <2>1 DEF Remembers, CallsReturn
<1> QED BY <1>4, <1>5

LEMMA NavigationStep == NavigationInv /\ [NavigationNext]_navigationVars => NavigationInv'
<1> SUFFICES ASSUME NavigationInv, [NavigationNext]_navigationVars PROVE NavigationInv'
  OBVIOUS
<1> USE DEF NavigationInv, NavigationTypeOK
<1>1. CASE Redirect
  BY <1>1, RedirectStep
<1>2. CASE Render
  BY <1>2 DEF Render, Remembers, CallsReturn
<1>3. CASE MeAnswers
  BY <1>3 DEF MeAnswers, Remembers, CallsReturn, Whos, SignedIn
<1>4. ASSUME NEW to \in Wheres, Visit(to) PROVE NavigationInv'
  BY <1>4 DEF Visit
<1>5. ASSUME NEW c \in Calls, NEW to \in Wheres, Submits(c, to),
             wanted # "none" /\ c \in {"login", "register"} => to = Remembered(wanted)
      PROVE  NavigationInv'
  <2>1. call' = [call EXCEPT ![c] = Call("sent", to)] /\ UNCHANGED <<where, from, auth, shown, wanted>>
    BY <1>5 DEF Submits
  <2>2. Call("sent", to) \in [phase : {"none", "sent", "fetch", "done"}, to : Wheres]
    BY DEF Call
  <2>3. \A d \in Calls : call'[d] = IF d = c THEN Call("sent", to) ELSE call[d]
    BY <2>1
  <2> QED BY <1>5, <2>1, <2>2, <2>3 DEF Remembers, CallsReturn, Calls, Call
<1>6. CASE SubmitSignIn
  <2>1. CASE where = "login" /\ Submits("login", from)
    <3>1. wanted # "none" => Remembered(wanted) # "login"
      BY RememberedOnes
    <3> QED BY <1>5, <2>1, <3>1 DEF Remembers, Calls, Wheres
  <2>2. CASE where = "register" /\ Submits("register", "home")
    <3>1. wanted # "none" => Remembered(wanted) \in {"new", "profile"}
      BY RememberedOnes
    <3> QED BY <1>5, <2>2, <3>1 DEF Remembers, Calls, Wheres
  <2> QED BY <1>6, <2>1, <2>2 DEF SubmitSignIn
<1>7. CASE PressSignOut
  BY <1>5, <1>7 DEF PressSignOut, Calls, Wheres
<1>8. CASE SubmitRepository
  BY <1>5, <1>8 DEF SubmitRepository, Calls, Wheres
\* A call that goes on keeps its goal; one that is over has none.
<1>9. ASSUME NEW c \in Calls, NEW phase \in {"fetch", "done"},
             call' = [call EXCEPT ![c].phase = phase], call[c].phase = "sent" \/ call[c].phase = "fetch",
             UNCHANGED <<where, from, shown, wanted>>, auth' \in Whos
      PROVE  NavigationInv'
  <2>1. \A d \in Calls : /\ call'[d].to = call[d].to
                         /\ d # c => call'[d] = call[d]
    BY <1>9
  <2>2. call[c] # NoCall
    BY <1>9 DEF NoCall, Call
  <2> QED BY <1>9, <2>1, <2>2 DEF Remembers, CallsReturn, Calls
<1>10. ASSUME NEW c \in Calls, Accepted(c) PROVE NavigationInv'
  BY <1>9, <1>10 DEF Accepted, Whos
<1>11. ASSUME NEW c \in Calls, Fetched(c) PROVE NavigationInv'
  BY <1>9, <1>11 DEF Fetched, Whos
<1>12. CASE SignedOut
  BY <1>9, <1>12 DEF SignedOut, Calls, Whos
<1>13. CASE Created
  BY <1>9, <1>13 DEF Created, Calls
<1>14. ASSUME NEW c \in Calls, Continue(c) PROVE NavigationInv'
  <2>1. /\ call[c].phase = "done" /\ where' = call[c].to /\ from' = "home"
        /\ call' = [call EXCEPT ![c] = NoCall] /\ UNCHANGED <<auth, shown>>
        /\ wanted' = (IF c \in {"logout", "create"} THEN "none" ELSE wanted)
    BY <1>14 DEF Continue
  <2>2. call[c] # NoCall
    BY <2>1 DEF NoCall, Call
  <2>3. NoCall \in [phase : {"none", "sent", "fetch", "done"}, to : Wheres]
    BY DEF NoCall, Call, Wheres
  <2>4. NavigationTypeOK'
    BY <2>1, <2>3
  <2>5. ASSUME wanted' # "none" PROVE Remembers' /\ CallsReturn'
    <3>1. c \in {"login", "register"} /\ wanted' = wanted
      BY <2>1, <2>5 DEF Calls
    <3>2. call[c].to = Remembered(wanted)
      BY <2>2, <2>5, <3>1 DEF CallsReturn
    <3> QED BY <2>1, <2>5, <3>1, <3>2 DEF Remembers, CallsReturn, Calls
  <2> QED BY <2>4, <2>5
<1>15. ASSUME NEW c \in Calls, CallFails(c) PROVE NavigationInv'
  <2>1. NoCall \in [phase : {"none", "sent", "fetch", "done"}, to : Wheres]
    BY DEF NoCall, Call, Wheres
  <2> QED BY <1>15, <2>1 DEF CallFails, Remembers, CallsReturn, Calls
<1>16. CASE UNCHANGED navigationVars
  BY <1>16 DEF navigationVars, Remembers, CallsReturn
<1> QED BY <1>1, <1>2, <1>3, <1>4, <1>6, <1>7, <1>8, <1>10, <1>11, <1>12, <1>13, <1>14, <1>15, <1>16
        DEF NavigationNext

LEMMA RedirectEnds == NavigationInv /\ Redirect => Sends' = {}
<1> SUFFICES ASSUME NavigationInv, Redirect PROVE Sends' = {}
  OBVIOUS
<1>1. PICK to \in Sends : where' = to /\ shown' = shown
  BY DEF Redirect
<1> QED BY <1>1, GuardSends DEF NavigationInv, NavigationTypeOK, Sends, Guarded, SignedIn

LEMMA Returns == NavigationInv => SignInReturns
<1> SUFFICES ASSUME NavigationInv, shown \in SignedIn, Sends = {}, wanted # "none"
             PROVE  where = Remembered(wanted)
  BY DEF SignInReturns, Remembered, NavigationInv, NavigationTypeOK, Guarded
<1>1. ASSUME where = "login" PROVE FALSE
  BY <1>1 DEF Sends, Guarded
<1> QED BY <1>1 DEF NavigationInv, Remembers

(* A redirect leads to a page that stays (the guards of SettingsLayout,     *)
(* AdminLayout, NewRepoPage, LoginPage and RegisterPage).                   *)
THEOREM NoRedirectLoop == NavigationSpec => RedirectsEnd
<1>1. NavigationInv /\ [NavigationNext]_navigationVars => [Redirect => Sends' = {}]_navigationVars
  BY RedirectEnds
<1> QED BY NavigationInitially, NavigationStep, <1>1, PTL DEF NavigationSpec, RedirectsEnd

(* Who signs in at the form a guard sent him to ends where the guard said:  *)
(* on the new repository, or for all of the settings on the profile, in     *)
(* whatever order the answers, the renderings and the redirects come        *)
(* (LoginPage, and the guards of NewRepoPage and SettingsLayout).           *)
THEOREM SignInGoesBack == NavigationSpec => []SignInReturns
<1> QED BY NavigationInitially, NavigationStep, Returns, PTL DEF NavigationSpec

(***************************************************************************)
(* SITE SETTINGS. Every copy of the settings that a page or a request      *)
(* holds is older than what is stored, or is of it and agrees with it,     *)
(* except for the keys that were changed in it.                            *)
(***************************************************************************)
FreshBut(copy, keys) ==
  /\ copy.rev <= storedRev
  /\ copy.rev = storedRev => \A k \in DOMAIN copy.values \ keys : copy.values[k] = settings[k]
SaveInv(w) ==
  saving[w] # NotSaving =>
    /\ FreshBut(saving[w].body, saving[w].edits) /\ FreshBut(saving[w].current, {})
    /\ saving[w].phase = "loaded" =>
          Keys \ DOMAIN saving[w].body.values \subseteq DOMAIN saving[w].current.values
    /\ saving[w].phase = "stored" => saving[w].edits = {}
SettingsInv ==
  /\ SettingsTypeOK /\ storedRev > 0
  /\ \A a \in Admins : FreshBut(loaded[a], {}) /\ FreshBut(draft[a], changed[a])
  /\ \A w \in Admins \union Scripts : SaveInv(w)

LEMMA PartialType ==
  ASSUME NEW s \in SUBSET Keys, NEW f \in [s -> SettingValues]
  PROVE  f \in Partials
  BY DEF Partials

LEMMA PartialOf ==
  ASSUME NEW f \in Partials
  PROVE  DOMAIN f \subseteq Keys /\ \A k \in DOMAIN f : f[k] \in SettingValues
  BY DEF Partials

LEMMA CopyType ==
  ASSUME NEW values \in Partials, NEW rev \in Nat
  PROVE  /\ Copy(values, rev) \in Copies
         /\ Copy(values, rev).values = values /\ Copy(values, rev).rev = rev
  BY DEF Copy, Copies

LEMMA ObjectType == Objects \subseteq Partials
  BY PartialType DEF Objects

LEMMA NothingType ==
  Nothing \in Copies /\ Nothing.rev = 0 /\ Nothing.values = <<>> /\ DOMAIN Nothing.values = {}
<1>1. <<>> \in [{} -> SettingValues] /\ DOMAIN <<>> = {}
  OBVIOUS
<1>2. <<>> \in Partials
  BY <1>1, PartialType
<1> QED BY <1>1, <1>2, CopyType DEF Nothing

LEMMA SettingsInitially == SettingsInit => SettingsInv
<1> SUFFICES ASSUME SettingsInit PROVE SettingsInv
  OBVIOUS
<1> USE DEF SettingsInit
<1>1. SettingsTypeOK
  BY NothingType, SiteSettingsAssumption DEF SettingsTypeOK, Objects, Defaults
<1>2. \A a \in Admins : FreshBut(loaded[a], {}) /\ FreshBut(draft[a], changed[a])
  BY NothingType DEF FreshBut
<1> QED BY <1>1, <1>2 DEF SettingsInv, SaveInv

\* What a load answers is of the stored object, or of none.
LEMMA LoadResult ==
  ASSUME SettingsInv, NEW copy \in LoadResults
  PROVE  /\ copy \in Copies /\ DOMAIN copy.values = Keys
         /\ copy.rev = 0 \/ (copy.rev = storedRev /\ copy.values = settings)
<1>1. settings \in Objects /\ storedRev \in Nat /\ Defaults \in Objects
  BY SiteSettingsAssumption DEF SettingsInv, SettingsTypeOK, Defaults, Objects
<1>2. DOMAIN settings = Keys /\ DOMAIN Defaults = Keys
  BY <1>1 DEF Objects
<1>3. CASE copy = Copy(settings, storedRev)
  BY <1>1, <1>2, <1>3, ObjectType, CopyType
<1>4. CASE copy = Copy(Defaults, 0)
  BY <1>1, <1>2, <1>4, ObjectType, CopyType
<1> QED BY <1>3, <1>4 DEF LoadResults

\* What is not stored changes nothing about the copies.
LEMMA SavingKept ==
  ASSUME SettingsInv, NEW w \in Admins \union Scripts,
         UNCHANGED <<settings, storedRev>>, saving'[w] = saving[w]
  PROVE  SaveInv(w)'
  BY DEF SettingsInv, SaveInv, FreshBut

LEMMA CopyKept ==
  ASSUME SettingsInv, NEW a \in Admins, UNCHANGED <<settings, storedRev>>
  PROVE  /\ loaded'[a] = loaded[a] => FreshBut(loaded[a], {})'
         /\ draft'[a] = draft[a] /\ changed'[a] = changed[a] => FreshBut(draft[a], changed[a])'
  BY DEF SettingsInv, FreshBut

LEMMA ValuesFresh ==
  ASSUME SettingsInv, NEW a \in Admins
  PROVE  Values(a) \in Copies /\ FreshBut(Values(a), changed[a])
  BY DEF SettingsInv, SettingsTypeOK, Values, FreshBut

LEMMA LoadSettingsStep ==
  ASSUME SettingsInv, NEW b \in Admins, LoadSettings(b)
  PROVE  SettingsInv'
<1>1. PICK copy \in LoadResults : loaded' = [loaded EXCEPT ![b] = copy]
  BY DEF LoadSettings
<1>2. UNCHANGED <<settings, storedRev, draft, changed, saving>>
  BY DEF LoadSettings
<1>3. SettingsTypeOK' /\ storedRev' > 0
  BY <1>1, <1>2, LoadResult DEF SettingsInv, SettingsTypeOK
<1>4. ASSUME NEW a \in Admins PROVE FreshBut(loaded[a], {})'
  <2>1. CASE a = b
    <3>1. loaded'[b] = copy
      BY <1>1 DEF SettingsInv, SettingsTypeOK
    <3> QED BY <2>1, <3>1, <1>2, LoadResult DEF FreshBut, SettingsInv, SettingsTypeOK
  <2>2. CASE a # b
    BY <2>2, <1>1, <1>2, CopyKept DEF SettingsInv, SettingsTypeOK
  <2> QED BY <2>1, <2>2
<1> QED BY <1>2, <1>3, <1>4, SavingKept, CopyKept DEF SettingsInv

\* A page's draft changes: what matters is that it stays fresh but for the keys.
LEMMA DraftStep ==
  ASSUME SettingsInv, NEW b \in Admins, NEW copy \in Copies, NEW keys \in SUBSET Keys,
         FreshBut(copy, keys),
         draft' = [draft EXCEPT ![b] = copy], changed' = [changed EXCEPT ![b] = keys],
         UNCHANGED <<settings, storedRev, loaded>>
  PROVE  /\ draft' \in [Admins -> Copies] /\ changed' \in [Admins -> SUBSET Keys]
         /\ \A a \in Admins : FreshBut(loaded[a], {})' /\ FreshBut(draft[a], changed[a])'
<1>1. draft' \in [Admins -> Copies] /\ changed' \in [Admins -> SUBSET Keys]
  BY DEF SettingsInv, SettingsTypeOK
<1>2. ASSUME NEW a \in Admins PROVE FreshBut(draft[a], changed[a])'
  <2>1. CASE a = b
    <3>1. draft'[b] = copy /\ changed'[b] = keys
      BY DEF SettingsInv, SettingsTypeOK
    <3> QED BY <2>1, <3>1 DEF FreshBut
  <2>2. CASE a # b
    BY <2>2, CopyKept DEF SettingsInv, SettingsTypeOK
  <2> QED BY <2>1, <2>2
<1> QED BY <1>1, <1>2, CopyKept

LEMMA OpenSettingsStep ==
  ASSUME SettingsInv, NEW b \in Admins, OpenSettings(b)
  PROVE  SettingsInv'
<1>1. FreshBut(Nothing, {})
  BY NothingType DEF FreshBut, SettingsInv, SettingsTypeOK
<1>2. /\ draft' \in [Admins -> Copies] /\ changed' \in [Admins -> SUBSET Keys]
      /\ \A a \in Admins : FreshBut(loaded[a], {})' /\ FreshBut(draft[a], changed[a])'
  BY <1>1, NothingType, DraftStep DEF OpenSettings
<1> QED BY <1>2, SavingKept DEF OpenSettings, SettingsInv, SettingsTypeOK

LEMMA SetStep ==
  ASSUME SettingsInv, NEW b \in Admins, NEW k \in Keys, NEW v \in SettingValues, Set(b, k, v)
  PROVE  SettingsInv'
<1> DEFINE old == Values(b)
           new == [x \in DOMAIN old.values \union {k} |-> IF x = k THEN v ELSE old.values[x]]
           keys == changed[b] \union {k}
<1>1. old \in Copies /\ FreshBut(old, changed[b])
  BY ValuesFresh
<1>2. old.values \in Partials /\ old.rev \in Nat
  BY <1>1 DEF Copies
<1>3. DOMAIN old.values \subseteq Keys /\ \A x \in DOMAIN old.values : old.values[x] \in SettingValues
  BY <1>2, PartialOf
<1>4. new \in Partials
  <2>1. new \in [DOMAIN old.values \union {k} -> SettingValues]
    BY <1>3
  <2> QED BY <2>1, <1>3, PartialType
<1>5. Copy(new, old.rev) \in Copies /\ Copy(new, old.rev).values = new /\ Copy(new, old.rev).rev = old.rev
  BY <1>2, <1>4, CopyType
<1>6. FreshBut(Copy(new, old.rev), keys)
  BY <1>1, <1>5 DEF FreshBut
<1>7. keys \in SUBSET Keys /\ changed' = [changed EXCEPT ![b] = keys]
      /\ draft' = [draft EXCEPT ![b] = Copy(new, old.rev)]
      /\ UNCHANGED <<settings, storedRev, loaded, saving>>
  BY DEF Set, SettingsInv, SettingsTypeOK
<1> HIDE DEF new, keys, old
<1>8. /\ draft' \in [Admins -> Copies] /\ changed' \in [Admins -> SUBSET Keys]
      /\ \A a \in Admins : FreshBut(loaded[a], {})' /\ FreshBut(draft[a], changed[a])'
  BY <1>5, <1>6, <1>7, DraftStep
<1> QED BY <1>7, <1>8, SavingKept DEF SettingsInv, SettingsTypeOK

\* A request's record changes and nothing else does.
LEMMA SavingStep ==
  ASSUME SettingsInv, NEW w \in Admins \union Scripts, NEW s \in Saving \union {NotSaving},
         saving' = [saving EXCEPT ![w] = s],
         UNCHANGED <<settings, storedRev, loaded, draft, changed>>,
         SaveInv(w)'
  PROVE  SettingsInv'
<1>1. saving' \in [Admins \union Scripts -> Saving \union {NotSaving}]
  BY DEF SettingsInv, SettingsTypeOK
<1>2. ASSUME NEW x \in Admins \union Scripts, x # w PROVE SaveInv(x)'
  <2>1. saving'[x] = saving[x]
    BY <1>2 DEF SettingsInv, SettingsTypeOK
  <2> QED BY <2>1, SavingKept
<1> QED BY <1>1, <1>2, CopyKept DEF SettingsInv, SettingsTypeOK

LEMMA SendPatchStep ==
  ASSUME SettingsInv, NEW w \in Admins \union Scripts, NEW body \in Copies,
         NEW edits \in SUBSET Keys, FreshBut(body, edits), SendPatch(w, body, edits)
  PROVE  SettingsInv'
<1> DEFINE s == [phase |-> "sent", body |-> body, edits |-> edits, current |-> Nothing]
<1>1. s \in Saving
  BY NothingType DEF Saving
<1>2. saving' = [saving EXCEPT ![w] = s] /\ UNCHANGED <<settings, storedRev, loaded, draft, changed>>
  BY DEF SendPatch
<1>3. saving'[w] = s
  BY <1>2 DEF SettingsInv, SettingsTypeOK
<1>4. SaveInv(w)'
  BY <1>2, <1>3, NothingType DEF SaveInv, FreshBut, SettingsInv, SettingsTypeOK
<1> HIDE DEF s
<1> QED BY <1>1, <1>2, <1>4, SavingStep

LEMMA SaveStep ==
  ASSUME SettingsInv, NEW b \in Admins, Save(b)
  PROVE  SettingsInv'
<1>1. changed[b] \in SUBSET Keys
  BY DEF SettingsInv, SettingsTypeOK
<1> QED BY <1>1, ValuesFresh, SendPatchStep DEF Save

LEMMA ScriptStep ==
  ASSUME SettingsInv, NEW b \in Scripts, NEW k \in Keys, NEW v \in SettingValues, Script(b, k, v)
  PROVE  SettingsInv'
<1> DEFINE f == [x \in {k} |-> v]
<1>1. f \in Partials
  BY PartialType
<1>2. Copy(f, 0) \in Copies /\ Copy(f, 0).rev = 0
  BY <1>1, CopyType
<1>3. FreshBut(Copy(f, 0), {k})
  BY <1>2 DEF FreshBut, SettingsInv, SettingsTypeOK
<1>4. SendPatch(b, Copy(f, 0), {k})
  BY DEF Script
<1> HIDE DEF f
<1> QED BY <1>2, <1>3, <1>4, SendPatchStep

\* What the handler keeps of the object it loaded.
LEMMA MissingFresh ==
  ASSUME SettingsInv, NEW copy \in LoadResults, NEW body \in Copies
  PROVE  /\ Missing(copy, body) \in Copies /\ FreshBut(Missing(copy, body), {})
         /\ Keys \ DOMAIN body.values \subseteq DOMAIN Missing(copy, body).values
<1> DEFINE keys == Keys \ DOMAIN body.values
           rest == [k \in keys |-> copy.values[k]]
<1>1. copy \in Copies /\ DOMAIN copy.values = Keys
      /\ (copy.rev = 0 \/ (copy.rev = storedRev /\ copy.values = settings))
  BY LoadResult
<1>2. copy.values \in Partials /\ copy.rev \in Nat
  BY <1>1 DEF Copies
<1>3. \A k \in Keys : copy.values[k] \in SettingValues
  BY <1>1, <1>2, PartialOf
<1>4. rest \in Partials
  <2>1. rest \in [keys -> SettingValues]
    BY <1>3
  <2> QED BY <2>1, PartialType
<1>5. Copy(rest, copy.rev) \in Copies /\ Copy(rest, copy.rev).values = rest
      /\ Copy(rest, copy.rev).rev = copy.rev
  BY <1>2, <1>4, CopyType
<1>6. CASE keys = {}
  BY <1>6, NothingType DEF Missing, FreshBut, SettingsInv, SettingsTypeOK
<1>7. CASE keys # {}
  <2>1. Missing(copy, body) = Copy(rest, copy.rev)
    BY <1>7 DEF Missing
  <2>2. \A k \in keys : rest[k] = copy.values[k]
    OBVIOUS
  <2> QED BY <2>1, <2>2, <1>1, <1>5 DEF FreshBut, SettingsInv, SettingsTypeOK
<1> QED BY <1>6, <1>7

LEMMA LoadCurrentStep ==
  ASSUME SettingsInv, NEW w \in Admins \union Scripts, LoadCurrent(w)
  PROVE  SettingsInv'
<1>1. saving[w] # NotSaving
  BY DEF LoadCurrent, NotSaving
<1>2. saving[w] \in Saving /\ SaveInv(w)
  BY <1>1 DEF SettingsInv, SettingsTypeOK
<1>3. PICK copy \in LoadResults :
        saving' = [saving EXCEPT ![w].phase = "loaded", ![w].current = Missing(copy, saving[w].body)]
  BY DEF LoadCurrent
<1> DEFINE s == [saving[w] EXCEPT !.phase = "loaded", !.current = Missing(copy, saving[w].body)]
<1>4. saving[w].body \in Copies
  BY <1>2 DEF Saving
<1>5. /\ Missing(copy, saving[w].body) \in Copies /\ FreshBut(Missing(copy, saving[w].body), {})
      /\ Keys \ DOMAIN saving[w].body.values \subseteq DOMAIN Missing(copy, saving[w].body).values
  BY <1>4, MissingFresh
<1>6. /\ s \in Saving /\ s.body = saving[w].body /\ s.edits = saving[w].edits
      /\ s.current = Missing(copy, saving[w].body) /\ s.phase = "loaded"
  BY <1>2, <1>5 DEF Saving
<1>7. saving' = [saving EXCEPT ![w] = s] /\ UNCHANGED <<settings, storedRev, loaded, draft, changed>>
  BY <1>3 DEF LoadCurrent, SettingsInv, SettingsTypeOK
<1>8. saving'[w] = s
  BY <1>7 DEF SettingsInv, SettingsTypeOK
<1> HIDE DEF s
<1>9. SaveInv(w)'
  BY <1>1, <1>2, <1>5, <1>6, <1>7, <1>8 DEF SaveInv, FreshBut
<1> QED BY <1>6, <1>7, <1>9, SavingStep

\* Of every key the request has a value: in its body, or in what it kept.
LEMMA MergeType ==
  ASSUME SettingsInv, NEW w \in Admins \union Scripts, saving[w].phase = "loaded"
  PROVE  /\ Merge(saving[w]) \in Objects
         /\ saving[w] \in Saving /\ SaveInv(w) /\ saving[w] # NotSaving
<1>1. saving[w] # NotSaving
  BY DEF NotSaving
<1>2. saving[w] \in Saving /\ SaveInv(w)
  BY <1>1 DEF SettingsInv, SettingsTypeOK
<1>3. saving[w].body.values \in Partials /\ saving[w].current.values \in Partials
  BY <1>2 DEF Saving, Copies
<1>4. Keys \ DOMAIN saving[w].body.values \subseteq DOMAIN saving[w].current.values
  BY <1>1, <1>2 DEF SaveInv
<1>5. ASSUME NEW k \in Keys
      PROVE  (IF k \in DOMAIN saving[w].body.values THEN saving[w].body.values[k]
              ELSE saving[w].current.values[k]) \in SettingValues
  BY <1>3, <1>4, PartialOf
<1> QED BY <1>1, <1>2, <1>5 DEF Merge, Objects

LEMMA StoreStep ==
  ASSUME SettingsInv, NEW w \in Admins \union Scripts, Store(w)
  PROVE  SettingsInv'
<1> DEFINE n == storedRev + 1
           m == Merge(saving[w])
           s == [phase |-> "stored", body |-> Copy(m, n), edits |-> {}, current |-> Nothing]
<1>1. m \in Objects
  BY MergeType DEF Store
<1>2. storedRev \in Nat /\ n \in Nat /\ n > storedRev /\ n > 0
  BY DEF SettingsInv, SettingsTypeOK
<1>3. settings' = m /\ storedRev' = n /\ saving' = [saving EXCEPT ![w] = s]
      /\ UNCHANGED <<loaded, draft, changed>>
  BY DEF Store
<1> HIDE DEF n, m
<1>4. Copy(m, n) \in Copies /\ Copy(m, n).values = m /\ Copy(m, n).rev = n
  BY <1>1, <1>2, ObjectType, CopyType
<1>5. s \in Saving
  BY <1>4, NothingType DEF Saving
<1>6. SettingsTypeOK' /\ storedRev' > 0
  BY <1>1, <1>2, <1>3, <1>5 DEF SettingsInv, SettingsTypeOK
\* What was fresh is old now.
<1>7. ASSUME NEW copy \in Copies, NEW keys, FreshBut(copy, keys)
      PROVE  copy.rev <= n /\ copy.rev # n
  BY <1>2, <1>7 DEF FreshBut, Copies
<1>8. \A a \in Admins : FreshBut(loaded[a], {})' /\ FreshBut(draft[a], changed[a])'
  <2> TAKE a \in Admins
  <2>1. /\ loaded[a] \in Copies /\ FreshBut(loaded[a], {})
        /\ draft[a] \in Copies /\ FreshBut(draft[a], changed[a])
    BY DEF SettingsInv, SettingsTypeOK
  <2>2. loaded[a].rev <= n /\ loaded[a].rev # n /\ draft[a].rev <= n /\ draft[a].rev # n
    BY <2>1, <1>7
  <2> QED BY <1>3, <2>2 DEF FreshBut
<1>9. ASSUME NEW x \in Admins \union Scripts PROVE SaveInv(x)'
  <2>1. CASE x = w
    <3>1. saving'[w] = s
      BY <1>3 DEF SettingsInv, SettingsTypeOK
    <3>2. s.body = Copy(m, n) /\ s.current = Nothing /\ s.phase # "loaded" /\ s.edits = {}
      OBVIOUS
    <3> HIDE DEF s
    <3> QED BY <2>1, <3>1, <3>2, <1>2, <1>3, <1>4, NothingType DEF SaveInv, FreshBut
  <2>2. CASE x # w /\ saving[x] # NotSaving
    <3>1. saving'[x] = saving[x]
      BY <2>2, <1>3 DEF SettingsInv, SettingsTypeOK
    <3>2. saving[x] \in Saving /\ SaveInv(x)
      BY <2>2 DEF SettingsInv, SettingsTypeOK
    <3>3. /\ saving[x].body \in Copies /\ FreshBut(saving[x].body, saving[x].edits)
          /\ saving[x].current \in Copies /\ FreshBut(saving[x].current, {})
      BY <2>2, <3>2 DEF SaveInv, Saving
    <3>4. /\ saving[x].body.rev <= n /\ saving[x].body.rev # n
          /\ saving[x].current.rev <= n /\ saving[x].current.rev # n
      BY <3>3, <1>7
    <3> QED BY <2>2, <1>3, <3>1, <3>2, <3>4 DEF SaveInv, FreshBut
  <2>3. CASE x # w /\ saving[x] = NotSaving
    BY <2>3, <1>3 DEF SaveInv, SettingsInv, SettingsTypeOK
  <2> QED BY <2>1, <2>2, <2>3
<1> QED BY <1>6, <1>8, <1>9 DEF SettingsInv

LEMMA StoreFailsStep ==
  ASSUME SettingsInv, NEW w \in Admins \union Scripts, StoreFails(w)
  PROVE  SettingsInv'
<1>1. saving' = [saving EXCEPT ![w] = NotSaving]
      /\ UNCHANGED <<settings, storedRev, loaded, draft, changed>>
  BY DEF StoreFails
<1>2. saving'[w] = NotSaving
  BY <1>1 DEF SettingsInv, SettingsTypeOK
<1> QED BY <1>1, <1>2, SavingStep DEF SaveInv

LEMMA StoredStep ==
  ASSUME SettingsInv, NEW w \in Admins \union Scripts, Stored(w)
  PROVE  SettingsInv'
<1>1. saving' = [saving EXCEPT ![w] = NotSaving] /\ UNCHANGED <<settings, storedRev, loaded>>
  BY DEF Stored
<1>2. saving'[w] = NotSaving /\ saving' \in [Admins \union Scripts -> Saving \union {NotSaving}]
  BY <1>1 DEF SettingsInv, SettingsTypeOK
<1>3. \A x \in Admins \union Scripts : SaveInv(x)'
  <2> TAKE x \in Admins \union Scripts
  <2>1. CASE x = w
    BY <2>1, <1>2 DEF SaveInv
  <2>2. CASE x # w
    BY <2>2, <1>1, SavingKept DEF SettingsInv, SettingsTypeOK
  <2> QED BY <2>1, <2>2
<1>4. /\ draft' \in [Admins -> Copies] /\ changed' \in [Admins -> SUBSET Keys]
      /\ \A a \in Admins : FreshBut(loaded[a], {})' /\ FreshBut(draft[a], changed[a])'
  <2>1. CASE w \in Admins
    <3>1. draft' = [draft EXCEPT ![w] = saving[w].body] /\ changed' = [changed EXCEPT ![w] = {}]
      BY <2>1 DEF Stored
    <3>2. saving[w] # NotSaving /\ saving[w].phase = "stored"
      BY DEF Stored, NotSaving
    <3>3. saving[w] \in Saving /\ FreshBut(saving[w].body, saving[w].edits)
      BY <3>2 DEF SettingsInv, SettingsTypeOK, SaveInv
    <3>4. saving[w].body \in Copies
      BY <3>3 DEF Saving
    <3>5. FreshBut(saving[w].body, {})
      BY <3>2, <3>3 DEF SettingsInv, SaveInv
    <3> QED BY <2>1, <3>1, <3>4, <3>5, <1>1, DraftStep
  <2>2. CASE w \notin Admins
    BY <2>2, <1>1, CopyKept DEF Stored, SettingsInv, SettingsTypeOK
  <2> QED BY <2>1, <2>2
<1> QED BY <1>1, <1>2, <1>3, <1>4 DEF SettingsInv, SettingsTypeOK

LEMMA SettingsStep == SettingsInv /\ [SettingsNext]_settingsVars => SettingsInv'
<1> SUFFICES ASSUME SettingsInv, [SettingsNext]_settingsVars PROVE SettingsInv'
  OBVIOUS
<1>1. CASE UNCHANGED settingsVars
  BY <1>1 DEF settingsVars, SettingsInv, SettingsTypeOK, SaveInv, FreshBut
<1>2. CASE SettingsNext
  BY <1>2, LoadSettingsStep, OpenSettingsStep, SaveStep, SetStep, ScriptStep,
     LoadCurrentStep, StoreStep, StoredStep, StoreFailsStep DEF SettingsNext
<1> QED BY <1>1, <1>2

LEMMA StoreKeeps ==
  ASSUME SettingsInv, NEW w \in Admins \union Scripts, NEW k \in Keys, Store(w),
         k \notin saving[w].edits,
         (IF k \in DOMAIN saving[w].body.values THEN saving[w].body ELSE saving[w].current).rev
            = storedRev
  PROVE  settings'[k] = settings[k]
<1>1. saving[w].phase = "loaded" /\ settings' = Merge(saving[w])
  BY DEF Store
<1>2. saving[w] # NotSaving /\ SaveInv(w)
  BY <1>1, MergeType
<1>3. CASE k \in DOMAIN saving[w].body.values
  <2>1. saving[w].body.values[k] = settings[k]
    BY <1>2, <1>3 DEF SaveInv, FreshBut
  <2> QED BY <1>1, <1>3, <2>1 DEF Merge
<1>4. CASE k \notin DOMAIN saving[w].body.values
  <2>1. k \in DOMAIN saving[w].current.values
    BY <1>1, <1>2, <1>4 DEF SaveInv
  <2>2. saving[w].current.values[k] = settings[k]
    BY <1>2, <1>4, <2>1 DEF SaveInv, FreshBut
  <2> QED BY <1>1, <1>4, <2>2 DEF Merge
<1> QED BY <1>3, <1>4

\* Whoever stores the settings from a copy of what is stored now, a whole page
\* or a script's one key merged by the handler, changes only what he edited,
\* for any number of administrators, scripts, keys and values.
THEOREM StoringKeepsTheRest == SettingsSpec => SettingsOnlyEdited
<1>1. SettingsInv /\ [SettingsNext]_settingsVars =>
        [\A a \in Admins \union Scripts, k \in Keys :
           LET copy == IF k \in DOMAIN saving[a].body.values THEN saving[a].body ELSE saving[a].current
           IN  Store(a) /\ k \notin saving[a].edits /\ copy.rev = storedRev
                 => settings'[k] = settings[k]]_settingsVars
  BY StoreKeeps
<1> QED BY <1>1, SettingsInitially, SettingsStep, PTL DEF SettingsSpec, SettingsOnlyEdited

(***************************************************************************)
(* PROFILE. Values read at a revision of the row agree with it, but for    *)
(* the fields edited since, as long as the row is at that revision.        *)
(***************************************************************************)
Agrees(values, rev, edits) ==
  rev <= rowRev /\ (rev = rowRev => \A f \in DOMAIN values \ edits : values[f] = row[f])
TabInv(t) ==
  /\ Agrees(me[t].fields, me[t].rev, {})
  /\ Agrees(meFetch[t].answer.fields, meFetch[t].answer.rev, {})
  /\ Agrees(form[t], me[t].rev, typed[t])
UpdateInv(w) ==
  LET u == update[w]
  IN  u \in Update =>
        /\ Agrees(u.sends, u.seen, u.edits) /\ Agrees(u.rest, u.seen, u.edits)
        /\ w \in ProfileClients => DOMAIN u.sends \subseteq u.edits
        /\ w \notin ProfileClients => DOMAIN u.sends = ProfileFields
        /\ u.phase = "read" => ProfileFields \ DOMAIN u.sends \subseteq DOMAIN u.rest
ProfileInv ==
  /\ ProfileTypeOK /\ rowRev > 0 /\ update = [w \in Writers |-> update[w]]
  /\ \A t \in ProfileTabs : TabInv(t)
  /\ \A w \in Writers : UpdateInv(w)

LEMMA PartOf ==
  ASSUME NEW f \in Partial
  PROVE  DOMAIN f \subseteq ProfileFields /\ \A x \in DOMAIN f : f[x] \in ProfileValues
  BY DEF Partial

LEMMA PartType ==
  ASSUME NEW s \in SUBSET ProfileFields, NEW f \in [s -> ProfileValues]
  PROVE  f \in Partial
  BY DEF Partial

LEMMA NothingMissing == <<>> \in Partial /\ DOMAIN <<>> = {}
<1>1. <<>> \in [{} -> ProfileValues] /\ DOMAIN <<>> = {}
  OBVIOUS
<1> QED BY <1>1, PartType

LEMMA FieldsPartial == Fields \subseteq Partial
  BY PartType DEF Fields

LEMMA EmptyType == Empty \in Fields /\ Unknown \in Answers /\ Unknown.rev = 0 /\ Unknown.fields = Empty
  BY ProfileAssumption DEF Empty, Fields, Unknown, Answers

\* The phase tells an update that is under way.
LEMMA UpdateKinds ==
  /\ NoUpdate \notin Update /\ Written \notin Update /\ NoUpdate # Written
  /\ \A u \in Update : u.phase \in {"sent", "read"}
<1>1. \A u \in Update : u.phase \in {"sent", "read"}
  BY DEF Update
<1>2. NoUpdate.phase = "none" /\ Written.phase = "written"
  BY DEF NoUpdate, Written
<1> QED BY <1>1, <1>2

LEMMA ProfileInitially == ProfileInit => ProfileInv
<1> SUFFICES ASSUME ProfileInit PROVE ProfileInv
  OBVIOUS
<1>1. row \in Fields
  BY ProfileAssumption, EmptyType DEF ProfileInit, Fields
<1>2. NoFetch \in [phase : {"none", "sent", "read"}, answer : Answers]
      /\ Fetch("sent", Unknown) \in [phase : {"none", "sent", "read"}, answer : Answers]
      /\ Fetch("sent", Unknown).answer = Unknown
  BY EmptyType DEF Fetch, NoFetch
<1>3. ProfileTypeOK
  BY <1>1, <1>2, EmptyType DEF ProfileInit, ProfileTypeOK
<1>4. \A t \in ProfileTabs : TabInv(t)
  BY <1>2, EmptyType DEF ProfileInit, TabInv, Agrees
<1>5. \A w \in Writers : UpdateInv(w)
  BY UpdateKinds DEF ProfileInit, UpdateInv
<1> QED BY <1>3, <1>4, <1>5 DEF ProfileInv, ProfileInit

\* What leaves the row alone keeps what agrees with it.
LEMMA UpdateKept ==
  ASSUME ProfileInv, NEW w \in Writers, UNCHANGED <<row, rowRev>>, update'[w] = update[w]
  PROVE  UpdateInv(w)'
  BY DEF ProfileInv, UpdateInv, Agrees

LEMMA TabKept ==
  ASSUME ProfileInv, NEW t \in ProfileTabs, UNCHANGED <<row, rowRev>>,
         me'[t] = me[t], meFetch'[t] = meFetch[t], form'[t] = form[t], typed'[t] = typed[t]
  PROVE  TabInv(t)'
  BY DEF ProfileInv, TabInv, Agrees

\* A step of one tab: its new values have their types and agree with the row.
LEMMA TabStep ==
  ASSUME ProfileInv, NEW t \in ProfileTabs, UNCHANGED <<row, rowRev, update>>,
         NEW a \in Answers, NEW q \in [phase : {"none", "sent", "read"}, answer : Answers],
         NEW g \in Fields, NEW ty \in SUBSET ProfileFields,
         me' = [me EXCEPT ![t] = a], meFetch' = [meFetch EXCEPT ![t] = q],
         form' = [form EXCEPT ![t] = g], typed' = [typed EXCEPT ![t] = ty],
         Agrees(a.fields, a.rev, {}), Agrees(q.answer.fields, q.answer.rev, {}), Agrees(g, a.rev, ty)
  PROVE  ProfileInv'
<1>1. ProfileTypeOK'
  BY DEF ProfileInv, ProfileTypeOK
<1>2. me'[t] = a /\ meFetch'[t] = q /\ form'[t] = g /\ typed'[t] = ty
  BY DEF ProfileInv, ProfileTypeOK
<1>3. TabInv(t)'
  BY <1>2 DEF TabInv, Agrees
<1>4. ASSUME NEW x \in ProfileTabs, x # t PROVE TabInv(x)'
  <2>1. me'[x] = me[x] /\ meFetch'[x] = meFetch[x] /\ form'[x] = form[x] /\ typed'[x] = typed[x]
    BY <1>4 DEF ProfileInv, ProfileTypeOK
  <2> QED BY <2>1, TabKept
<1> QED BY <1>1, <1>3, <1>4, UpdateKept DEF ProfileInv

\* The parts of a tab as they are.
LEMMA TabParts ==
  ASSUME ProfileInv, NEW t \in ProfileTabs
  PROVE  /\ me[t] \in Answers /\ me = [me EXCEPT ![t] = me[t]]
         /\ meFetch[t] \in [phase : {"none", "sent", "read"}, answer : Answers]
         /\ meFetch = [meFetch EXCEPT ![t] = meFetch[t]]
         /\ form[t] \in Fields /\ form = [form EXCEPT ![t] = form[t]]
         /\ typed[t] \in SUBSET ProfileFields /\ typed = [typed EXCEPT ![t] = typed[t]]
         /\ Agrees(me[t].fields, me[t].rev, {})
         /\ Agrees(meFetch[t].answer.fields, meFetch[t].answer.rev, {})
         /\ Agrees(form[t], me[t].rev, typed[t])
  BY DEF ProfileInv, ProfileTypeOK, TabInv

LEMMA UnknownAgrees ==
  ASSUME ProfileInv
  PROVE  Agrees(Unknown.fields, Unknown.rev, {})
  BY EmptyType DEF ProfileInv, ProfileTypeOK, Agrees

LEMMA FetchType ==
  ASSUME NEW a \in Answers, NEW phase \in {"none", "sent", "read"}
  PROVE  /\ Fetch(phase, a) \in [phase : {"none", "sent", "read"}, answer : Answers]
         /\ Fetch(phase, a).answer = a
  BY DEF Fetch

LEMMA AnswerType ==
  ASSUME NEW a \in Answers
  PROVE  a.fields \in Fields /\ a.rev \in Nat
  BY DEF Answers

LEMMA OpenProfileStep ==
  ASSUME ProfileInv, NEW t \in ProfileTabs, OpenProfile(t)
  PROVE  ProfileInv'
<1> DEFINE a == me[t]
           q == meFetch[t]
           g == me[t].fields
           ty == {}
<1>1. /\ form' = [form EXCEPT ![t] = g] /\ typed' = [typed EXCEPT ![t] = ty]
      /\ UNCHANGED <<row, rowRev, me, meFetch, update>>
  BY DEF OpenProfile, SetForm
<1>2. me' = [me EXCEPT ![t] = a] /\ meFetch' = [meFetch EXCEPT ![t] = q]
  BY <1>1, TabParts
<1>3. /\ a \in Answers /\ g \in Fields /\ Agrees(a.fields, a.rev, {}) /\ Agrees(g, a.rev, ty)
      /\ ty \in SUBSET ProfileFields
      /\ q \in [phase : {"none", "sent", "read"}, answer : Answers]
      /\ Agrees(q.answer.fields, q.answer.rev, {})
  BY TabParts, AnswerType
<1>4. UNCHANGED <<row, rowRev, update>>
  BY <1>1
<1> HIDE DEF a, q, g, ty
<1> QED BY <1>1, <1>2, <1>3, <1>4, TabStep

LEMMA TypeStep ==
  ASSUME ProfileInv, NEW t \in ProfileTabs, Type(t)
  PROVE  ProfileInv'
<1>1. PICK f \in ProfileFields, v \in ProfileValues :
        /\ form' = [form EXCEPT ![t][f] = v]
        /\ typed' = [typed EXCEPT ![t] = @ \union {f}]
  BY DEF Type
<1> DEFINE g == [form[t] EXCEPT ![f] = v]
           ty == typed[t] \union {f}
<1>2. form' = [form EXCEPT ![t] = g] /\ typed' = [typed EXCEPT ![t] = ty]
      /\ UNCHANGED <<row, rowRev, me, meFetch, update>>
  BY <1>1 DEF Type
<1>3. g \in Fields /\ ty \in SUBSET ProfileFields
  BY TabParts DEF Fields
<1>4. Agrees(g, me[t].rev, ty)
  BY TabParts DEF Agrees, Fields
<1>5. me' = [me EXCEPT ![t] = me[t]] /\ meFetch' = [meFetch EXCEPT ![t] = meFetch[t]]
  BY <1>2, TabParts
<1>6. /\ me[t] \in Answers /\ Agrees(me[t].fields, me[t].rev, {})
      /\ meFetch[t] \in [phase : {"none", "sent", "read"}, answer : Answers]
      /\ Agrees(meFetch[t].answer.fields, meFetch[t].answer.rev, {})
  BY TabParts
<1> HIDE DEF g, ty
<1> QED BY <1>2, <1>3, <1>4, <1>5, <1>6, TabStep

LEMMA StartFetchStep ==
  ASSUME ProfileInv, NEW t \in ProfileTabs, StartFetch(t)
  PROVE  ProfileInv'
<1> DEFINE q == Fetch("sent", Unknown)
<1>1. q \in [phase : {"none", "sent", "read"}, answer : Answers] /\ q.answer = Unknown
  BY EmptyType, FetchType
<1>2. meFetch' = [meFetch EXCEPT ![t] = q] /\ UNCHANGED <<row, rowRev, me, form, typed, update>>
  BY DEF StartFetch
<1>3. /\ me' = [me EXCEPT ![t] = me[t]] /\ form' = [form EXCEPT ![t] = form[t]]
      /\ typed' = [typed EXCEPT ![t] = typed[t]]
  BY <1>2, TabParts
<1>4. /\ me[t] \in Answers /\ Agrees(me[t].fields, me[t].rev, {})
      /\ form[t] \in Fields /\ typed[t] \in SUBSET ProfileFields /\ Agrees(form[t], me[t].rev, typed[t])
  BY TabParts
<1>5. Agrees(q.answer.fields, q.answer.rev, {})
  BY <1>1, UnknownAgrees
<1> HIDE DEF q
<1> QED BY <1>1, <1>2, <1>3, <1>4, <1>5, TabStep

LEMMA ReadMeStep ==
  ASSUME ProfileInv, NEW t \in ProfileTabs, ReadMe(t)
  PROVE  ProfileInv'
<1> DEFINE a == [fields |-> row, rev |-> rowRev]
           q == Fetch("read", a)
<1>1. a \in Answers /\ Agrees(a.fields, a.rev, {})
  BY DEF ProfileInv, ProfileTypeOK, Answers, Agrees
<1>2. meFetch' = [meFetch EXCEPT ![t] = q] /\ UNCHANGED <<row, rowRev, me, form, typed, update>>
  BY DEF ReadMe
<1> HIDE DEF a
<1>3. q \in [phase : {"none", "sent", "read"}, answer : Answers] /\ q.answer = a
  BY <1>1, FetchType
<1>4. /\ me' = [me EXCEPT ![t] = me[t]] /\ form' = [form EXCEPT ![t] = form[t]]
      /\ typed' = [typed EXCEPT ![t] = typed[t]]
  BY <1>2, TabParts
<1>5. /\ me[t] \in Answers /\ Agrees(me[t].fields, me[t].rev, {})
      /\ form[t] \in Fields /\ typed[t] \in SUBSET ProfileFields /\ Agrees(form[t], me[t].rev, typed[t])
  BY TabParts
<1>6. Agrees(q.answer.fields, q.answer.rev, {})
  BY <1>1, <1>3
<1> HIDE DEF q
<1> QED BY <1>2, <1>3, <1>4, <1>5, <1>6, TabStep

LEMMA TakeMeStep ==
  ASSUME ProfileInv, NEW t \in ProfileTabs, TakeMe(t)
  PROVE  ProfileInv'
<1> DEFINE a == meFetch[t].answer
<1>1. a \in Answers /\ Agrees(a.fields, a.rev, {}) /\ a.fields \in Fields
  BY TabParts, AnswerType
<1>2. NoFetch \in [phase : {"none", "sent", "read"}, answer : Answers] /\ NoFetch.answer = Unknown
  BY EmptyType, FetchType DEF NoFetch
<1>3. /\ me' = [me EXCEPT ![t] = a] /\ meFetch' = [meFetch EXCEPT ![t] = NoFetch]
      /\ UNCHANGED <<row, rowRev, update>>
      /\ \/ form' = [form EXCEPT ![t] = a.fields] /\ typed' = [typed EXCEPT ![t] = {}]
         \/ me[t] = a /\ UNCHANGED <<form, typed>>
  BY DEF TakeMe, SetForm
<1> DEFINE g == IF me[t] = a /\ UNCHANGED <<form, typed>> THEN form[t] ELSE a.fields
           ty == IF me[t] = a /\ UNCHANGED <<form, typed>> THEN typed[t] ELSE {}
<1> HIDE DEF a
<1>4. form' = [form EXCEPT ![t] = g] /\ typed' = [typed EXCEPT ![t] = ty]
  BY <1>3, TabParts
<1>5. g \in Fields /\ ty \in SUBSET ProfileFields /\ Agrees(g, a.rev, ty)
  BY <1>1, TabParts
<1>6. Agrees(NoFetch.answer.fields, NoFetch.answer.rev, {})
  BY <1>2, UnknownAgrees
<1> HIDE DEF g, ty
<1> QED BY <1>1, <1>2, <1>3, <1>4, <1>5, <1>6, TabStep

LEMMA FetchMeFailsStep ==
  ASSUME ProfileInv, NEW t \in ProfileTabs, FetchMeFails(t)
  PROVE  ProfileInv'
<1>1. NoFetch \in [phase : {"none", "sent", "read"}, answer : Answers] /\ NoFetch.answer = Unknown
  BY EmptyType, FetchType DEF NoFetch
<1>2. Unknown \in Answers /\ Unknown.fields \in Fields
  BY EmptyType
<1>3. /\ me' = [me EXCEPT ![t] = Unknown] /\ meFetch' = [meFetch EXCEPT ![t] = NoFetch]
      /\ form' = [form EXCEPT ![t] = Unknown.fields] /\ typed' = [typed EXCEPT ![t] = {}]
      /\ UNCHANGED <<row, rowRev, update>>
  BY DEF FetchMeFails, SetForm
<1> QED BY <1>1, <1>2, <1>3, UnknownAgrees, TabStep

\* A step of one request that leaves the tabs and the row alone.
LEMMA UpdateStep ==
  ASSUME ProfileInv, NEW w \in Writers, NEW u \in Update \union {NoUpdate, Written},
         UNCHANGED <<row, rowRev, me, meFetch, form, typed>>,
         update' = [update EXCEPT ![w] = u], UpdateInv(w)'
  PROVE  ProfileInv'
<1>1. update' = [x \in Writers |-> update'[x]] /\ update'[w] = u
      /\ \A x \in Writers \ {w} : update'[x] = update[x]
  BY DEF ProfileInv
<1>2. ProfileTypeOK'
  BY <1>1 DEF ProfileInv, ProfileTypeOK
<1>3. \A x \in Writers : UpdateInv(x)'
  BY <1>1, UpdateKept
<1>4. \A t \in ProfileTabs : TabInv(t)'
  BY TabKept
<1> QED BY <1>1, <1>2, <1>3, <1>4 DEF ProfileInv

LEMMA SubmitStep ==
  ASSUME ProfileInv, NEW t \in ProfileTabs, Submit(t)
  PROVE  ProfileInv'
<1> DEFINE u == [phase |-> "sent", sends |-> form[t], edits |-> typed[t], rest |-> <<>>, seen |-> me[t].rev]
<1>1. /\ form[t] \in Partial /\ typed[t] \in SUBSET ProfileFields /\ me[t].rev \in Nat
      /\ DOMAIN form[t] = ProfileFields /\ Agrees(form[t], me[t].rev, typed[t])
  BY TabParts, AnswerType, FieldsPartial DEF Fields
<1>2. u \in Update
  BY <1>1, NothingMissing DEF Update
<1>3. update' = [update EXCEPT ![t] = u] /\ UNCHANGED <<row, rowRev, me, meFetch, form, typed>>
      /\ t \in Writers /\ t \notin ProfileClients
  BY ProfileAssumption DEF Submit, Writers
<1>4. update'[t] = u
  BY <1>3 DEF ProfileInv
<1>5. UpdateInv(t)'
  BY <1>1, <1>3, <1>4, NothingMissing DEF UpdateInv, Agrees
<1> HIDE DEF u
<1> QED BY <1>2, <1>3, <1>5, UpdateStep

LEMMA PatchStep ==
  ASSUME ProfileInv, NEW c \in ProfileClients, Patch(c)
  PROVE  ProfileInv'
<1>1. PICK f \in ProfileFields, v \in ProfileValues :
        update' = [update EXCEPT ![c] = [phase |-> "sent", sends |-> [x \in {f} |-> v],
                                         edits |-> {f}, rest |-> <<>>, seen |-> 0]]
  BY DEF Patch
<1> DEFINE sends == [x \in {f} |-> v]
           u == [phase |-> "sent", sends |-> sends, edits |-> {f}, rest |-> <<>>, seen |-> 0]
<1>2. sends \in Partial /\ DOMAIN sends = {f}
  BY PartType
<1> HIDE DEF sends
<1>3. u \in Update
  BY <1>2, NothingMissing DEF Update
<1>4. update' = [update EXCEPT ![c] = u] /\ UNCHANGED <<row, rowRev, me, meFetch, form, typed>> /\ c \in Writers
  BY <1>1 DEF Patch, Writers, sends
<1>5. update'[c] = u
  BY <1>4 DEF ProfileInv
<1>6. rowRev \in Nat /\ rowRev > 0
  BY DEF ProfileInv, ProfileTypeOK
<1>7. UpdateInv(c)'
  BY <1>2, <1>4, <1>5, <1>6, NothingMissing DEF UpdateInv, Agrees
<1> HIDE DEF u
<1> QED BY <1>3, <1>4, <1>7, UpdateStep

LEMMA SaveFailsStep ==
  ASSUME ProfileInv, NEW w \in Writers, SaveFails(w)
  PROVE  ProfileInv'
<1>1. update' = [update EXCEPT ![w] = NoUpdate] /\ UNCHANGED <<row, rowRev, me, meFetch, form, typed>>
  BY DEF SaveFails
<1>2. update'[w] = NoUpdate
  BY <1>1 DEF ProfileInv
<1> QED BY <1>1, <1>2, UpdateKinds, UpdateStep DEF UpdateInv

\* The request under way at a phase of an update is one.
LEMMA UnderWay ==
  ASSUME ProfileInv, NEW w \in Writers, update[w].phase \in {"sent", "read"}
  PROVE  update[w] \in Update /\ UpdateInv(w)
  BY DEF ProfileInv, ProfileTypeOK, NoUpdate, Written

LEMMA ReadUserStep ==
  ASSUME ProfileInv, NEW w \in Writers, ReadUser(w)
  PROVE  ProfileInv'
<1> DEFINE old == update[w]
           rest == [f \in ProfileFields \ DOMAIN old.sends |-> row[f]]
           seen == IF w \in ProfileClients THEN rowRev ELSE old.seen
           u == [old EXCEPT !.phase = "read", !.rest = rest, !.seen = seen]
<1>1. old \in Update /\ UpdateInv(w)
  BY UnderWay DEF ReadUser
<1>2. row \in Fields /\ rowRev \in Nat
  BY DEF ProfileInv, ProfileTypeOK
<1>3. rest \in Partial /\ DOMAIN rest = ProfileFields \ DOMAIN old.sends
      /\ \A f \in DOMAIN rest : rest[f] = row[f]
  BY <1>2, PartType DEF Fields
<1>4. seen \in Nat
  BY <1>1, <1>2 DEF Update
<1>5. update' = [update EXCEPT ![w] = u] /\ UNCHANGED <<row, rowRev, me, meFetch, form, typed>>
  BY DEF ReadUser, ProfileInv
<1> HIDE DEF rest
<1>6. /\ u \in Update /\ u.sends = old.sends /\ u.edits = old.edits
      /\ u.rest = rest /\ u.seen = seen
  BY <1>1, <1>3, <1>4 DEF Update
<1>7. update'[w] = u
  BY <1>5 DEF ProfileInv
<1>8. UpdateInv(w)'
  <2> HIDE DEF u, seen
  <2>1. CASE w \in ProfileClients
    <3>1. seen = rowRev /\ DOMAIN old.sends \subseteq old.edits
      BY <1>1, <2>1 DEF UpdateInv, seen
    <3> QED BY <1>2, <1>3, <1>5, <1>6, <1>7, <2>1, <3>1 DEF UpdateInv, Agrees
  <2>2. CASE w \notin ProfileClients
    <3>1. seen = old.seen /\ DOMAIN old.sends = ProfileFields /\ Agrees(old.sends, old.seen, old.edits)
      BY <1>1, <2>2 DEF UpdateInv, seen
    <3> QED BY <1>3, <1>5, <1>6, <1>7, <2>2, <3>1 DEF UpdateInv, Agrees
  <2> QED BY <2>1, <2>2
<1> HIDE DEF u
<1> QED BY <1>5, <1>6, <1>8, UpdateStep

LEMMA MergedType ==
  ASSUME ProfileInv, NEW w \in Writers, update[w].phase = "read"
  PROVE  Merged(update[w]) \in Fields
<1>1. update[w] \in Update /\ UpdateInv(w)
  BY UnderWay
<1>2. update[w].sends \in Partial /\ update[w].rest \in Partial
  BY <1>1 DEF Update
<1>3. ProfileFields \ DOMAIN update[w].sends \subseteq DOMAIN update[w].rest
  BY <1>1 DEF UpdateInv
<1>4. ASSUME NEW f \in ProfileFields
      PROVE  (IF f \in DOMAIN update[w].sends THEN update[w].sends[f] ELSE update[w].rest[f])
                \in ProfileValues
  BY <1>2, <1>3, PartOf
<1> QED BY <1>4 DEF Merged, Fields

LEMMA WriteUserStep ==
  ASSUME ProfileInv, NEW w \in Writers, WriteUser(w)
  PROVE  ProfileInv'
<1> DEFINE n == rowRev + 1
<1>1. row' \in Fields /\ rowRev' = n /\ update' = [update EXCEPT ![w] = Written]
      /\ UNCHANGED <<me, meFetch, form, typed>>
  BY MergedType DEF WriteUser
<1>2. rowRev \in Nat /\ n \in Nat /\ n > rowRev /\ n > 0
  BY DEF ProfileInv, ProfileTypeOK
<1> HIDE DEF n
<1>3. update' = [x \in Writers |-> update'[x]] /\ update'[w] = Written
      /\ \A x \in Writers \ {w} : update'[x] = update[x]
  BY <1>1 DEF ProfileInv
<1>4. ProfileTypeOK'
  BY <1>1, <1>2, <1>3 DEF ProfileInv, ProfileTypeOK
<1>6. ASSUME NEW t \in ProfileTabs PROVE TabInv(t)'
  <2>1. me[t].rev \in Nat /\ meFetch[t].answer.rev \in Nat
    BY TabParts, AnswerType
  <2>2. me'[t] = me[t] /\ meFetch'[t] = meFetch[t] /\ form'[t] = form[t] /\ typed'[t] = typed[t]
    BY <1>1
  <2> QED BY <2>1, <2>2, <1>1, <1>2, TabParts DEF TabInv, Agrees
<1>7. ASSUME NEW x \in Writers PROVE UpdateInv(x)'
  <2>1. CASE x = w
    BY <2>1, <1>3, UpdateKinds DEF UpdateInv
  <2>2. CASE x # w /\ update[x] \in Update
    <3>1. UpdateInv(x) /\ update'[x] = update[x] /\ update[x].seen \in Nat
      BY <2>2, <1>3 DEF ProfileInv, Update
    <3> QED BY <2>2, <3>1, <1>1, <1>2 DEF UpdateInv, Agrees
  <2>3. CASE x # w /\ update[x] \notin Update
    BY <2>3, <1>3 DEF UpdateInv
  <2> QED BY <2>1, <2>2, <2>3
<1> QED BY <1>1, <1>2, <1>3, <1>4, <1>6, <1>7 DEF ProfileInv

LEMMA SavedStep ==
  ASSUME ProfileInv, NEW w \in Writers, Saved(w)
  PROVE  ProfileInv'
<1>1. update' = [update EXCEPT ![w] = NoUpdate] /\ UNCHANGED <<row, rowRev, me, form, typed>>
      /\ \/ UNCHANGED meFetch
         \/ w \in ProfileTabs /\ meFetch' = [meFetch EXCEPT ![w] = Fetch("sent", Unknown)]
  BY DEF Saved
<1>2. Fetch("sent", Unknown) \in [phase : {"none", "sent", "read"}, answer : Answers]
      /\ Fetch("sent", Unknown).answer = Unknown
  BY EmptyType, FetchType
<1>3. update' = [x \in Writers |-> update'[x]] /\ update'[w] = NoUpdate
      /\ \A x \in Writers \ {w} : update'[x] = update[x]
  BY <1>1 DEF ProfileInv
<1>4. ProfileTypeOK'
  <2>1. meFetch' \in [ProfileTabs -> [phase : {"none", "sent", "read"}, answer : Answers]]
    BY <1>1, <1>2 DEF ProfileInv, ProfileTypeOK
  <2> QED BY <2>1, <1>1, <1>3 DEF ProfileInv, ProfileTypeOK
<1>5. \A x \in Writers : UpdateInv(x)'
  BY <1>1, <1>3, UpdateKept, UpdateKinds DEF UpdateInv
<1>6. ASSUME NEW t \in ProfileTabs PROVE TabInv(t)'
  <2>1. CASE meFetch'[t] = meFetch[t]
    BY <2>1, <1>1, TabKept
  <2>2. CASE meFetch'[t] # meFetch[t]
    <3>1. meFetch'[t] = Fetch("sent", Unknown)
      BY <2>2, <1>1 DEF ProfileInv, ProfileTypeOK
    <3> QED BY <3>1, <1>1, <1>2, UnknownAgrees, TabParts DEF TabInv, Agrees
  <2> QED BY <2>1, <2>2
<1> QED BY <1>1, <1>3, <1>4, <1>5, <1>6 DEF ProfileInv

LEMMA ProfileStep == ProfileInv /\ [ProfileNext]_profileVars => ProfileInv'
<1> SUFFICES ASSUME ProfileInv, [ProfileNext]_profileVars PROVE ProfileInv'
  OBVIOUS
<1>1. CASE UNCHANGED profileVars
  <2>1. ProfileTypeOK' /\ update' = [w \in Writers |-> update'[w]] /\ rowRev' > 0
    BY <1>1 DEF profileVars, ProfileInv, ProfileTypeOK
  <2> QED BY <1>1, <2>1, TabKept, UpdateKept DEF profileVars, ProfileInv
<1>2. CASE ProfileNext
  BY <1>2, OpenProfileStep, TypeStep, SubmitStep, StartFetchStep, ReadMeStep, TakeMeStep,
     FetchMeFailsStep, PatchStep, ReadUserStep, WriteUserStep, SavedStep, SaveFailsStep
  DEF ProfileNext
<1> QED BY <1>1, <1>2

LEMMA WriteKeeps ==
  ASSUME ProfileInv, NEW w \in Writers, NEW f \in ProfileFields, WriteUser(w),
         f \notin update[w].edits, update[w].seen = rowRev
  PROVE  row'[f] = row[f]
<1>1. row' = Merged(update[w]) /\ UpdateInv(w) /\ update[w] \in Update /\ update[w].phase = "read"
  BY UnderWay DEF WriteUser
<1>2. row'[f] = IF f \in DOMAIN update[w].sends THEN update[w].sends[f] ELSE update[w].rest[f]
  BY <1>1 DEF Merged
<1>3. CASE f \in DOMAIN update[w].sends
  BY <1>1, <1>2, <1>3 DEF UpdateInv, Agrees
<1>4. CASE f \notin DOMAIN update[w].sends
  BY <1>1, <1>2, <1>4 DEF UpdateInv, Agrees
<1> QED BY <1>3, <1>4

\* Whoever saves a profile from its latest revision, a tab that sends all the
\* fields of its form or a client whose fields the handler completes, changes
\* what he edited and nothing else, for any number of tabs, clients and fields.
THEOREM SavingKeepsTheRest == ProfileSpec => SavesOnlyEdits
<1>1. ProfileInv /\ [ProfileNext]_profileVars =>
        [\A w \in Writers, f \in ProfileFields :
           WriteUser(w) /\ f \notin update[w].edits /\ update[w].seen = rowRev
             => row'[f] = row[f]]_profileVars
  BY WriteKeeps
<1> QED BY <1>1, ProfileInitially, ProfileStep, PTL DEF ProfileSpec, SavesOnlyEdits

(***************************************************************************)
(* BROWSING. What a query holds came from its own branch and path, and is  *)
(* what git lists there now, if it was asked for since the last push.      *)
(***************************************************************************)
QueryInv(k) ==
  LET q == query[k]
  IN  /\ q.asked \in Nat /\ q.asked <= pushes
      /\ \A e \in q.data.entries : e.path \in Paths
      /\ q.data.type = "dir" /\ ~q.error /\ q.asked = pushes =>
            q.data.entries = LsTree(trees[k.branch], k.path)
BrowseInv ==
  /\ pushes \in Nat /\ trees \in [Branches -> SUBSET TreeFiles]
  /\ address \in Addresses
  /\ query = [k \in QueryKeys |-> query[k]]
  /\ \A k \in QueryKeys : QueryInv(k)

LEMMA FirstName ==
  ASSUME NEW f \in TreeFiles
  PROVE  SubSeq(f, 1, 1) \in UpTo(f) /\ SubSeq(f, 1, 1) \in Paths
<1> DEFINE S == {f[i] : i \in DOMAIN f}
<1>1. f \in Seq(S) /\ f # <<>>
  BY BrowseAssumption
<1> HIDE DEF S
<1>2. Len(f) \in Nat /\ Len(f) >= 1
  BY <1>1
<1>3. SubSeq(f, 1, 1) \in UpTo(f)
  BY <1>2 DEF UpTo
<1> QED BY <1>3 DEF Paths

\* The directories on the way to a directory on the way are on the way.
LEMMA PathsClosed ==
  ASSUME NEW p \in Paths
  PROVE  UpTo(p) \subseteq Paths
<1>1. PICK f \in TreeFiles : p \in UpTo(f)
  BY DEF Paths
<1> DEFINE S == {f[i] : i \in DOMAIN f}
<1>2. f \in Seq(S)
  BY BrowseAssumption
<1> HIDE DEF S
<1>3. PICK n \in 0..Len(f) : p = SubSeq(f, 1, n)
  BY <1>1 DEF UpTo
<1>4. Len(f) \in Nat /\ Len(p) = n
  BY <1>2, <1>3
<1>5. ASSUME NEW m \in 0..n PROVE SubSeq(p, 1, m) = SubSeq(f, 1, m)
  BY <1>2, <1>3, <1>4, <1>5
<1>6. ASSUME NEW m \in 0..n PROVE SubSeq(f, 1, m) \in UpTo(f)
  BY <1>4, <1>6 DEF UpTo
<1> QED BY <1>4, <1>5, <1>6 DEF UpTo, Paths

\* A listing names what the branch holds; of a path other than the root, itself.
LEMMA ListingOf ==
  ASSUME NEW files \in SUBSET TreeFiles, NEW path
  PROVE  /\ \A e \in LsTree(files, path) :
              /\ path \in Paths => e.path \in Paths
              /\ Holds(files, e.path) /\ (e.tree <=> e.path \notin files)
         /\ path = <<>> => {e.path : e \in LsTree(files, path)} = {SubSeq(f, 1, 1) : f \in files}
<1>1. CASE path = <<>>
  <2>1. LsTree(files, path) = {Entry(files, SubSeq(f, 1, 1)) : f \in files}
    BY <1>1 DEF LsTree
  <2>2. ASSUME NEW f \in files
        PROVE  LET e == Entry(files, SubSeq(f, 1, 1))
               IN  /\ e.path = SubSeq(f, 1, 1) /\ e.path \in Paths
                   /\ Holds(files, e.path) /\ (e.tree <=> e.path \notin files)
    BY FirstName DEF Entry, Holds
  <2> QED BY <2>1, <2>2
<1>2. CASE path # <<>>
  <2>1. LsTree(files, path) = {Entry(files, p) : p \in {q \in {path} : Holds(files, q)}}
    BY <1>2 DEF LsTree
  <2>2. /\ Entry(files, path).path = path
        /\ Entry(files, path).tree <=> path \notin files
    BY DEF Entry
  <2> QED BY <1>2, <2>1, <2>2
<1> QED BY <1>1, <1>2

LEMMA RootIsAPath == <<>> \in Paths
<1>1. SubSeq(Readme, 1, 0) \in UpTo(Readme)
  BY BrowseAssumption DEF UpTo
<1>2. SubSeq(Readme, 1, 0) = <<>>
  OBVIOUS
<1> QED BY <1>1, <1>2, BrowseAssumption DEF Paths

LEMMA BrowseInitially == BrowseInit => BrowseInv
<1> SUFFICES ASSUME BrowseInit PROVE BrowseInv
  OBVIOUS
<1>1. pushes = 0 /\ query = [k \in QueryKeys |-> Unasked] /\ trees \in [Branches -> SUBSET TreeFiles]
  BY DEF BrowseInit
<1>2. /\ Unasked.asked = 0 /\ Unasked.data.type = "none" /\ Unasked.data.entries = {}
  BY DEF Unasked, Held, NoData
<1>3. address \in Addresses
  BY RootIsAPath DEF BrowseInit, Addresses
<1> QED BY <1>1, <1>2, <1>3 DEF BrowseInv, QueryInv

LEMMA KeyTypes ==
  ASSUME NEW k \in QueryKeys
  PROVE  k.branch \in Branches /\ k.path \in Paths
<1>1. SubSeq(Readme, 1, 1) \in Paths /\ SubSeq(Readme, 1, 1) = Readme
  <2> DEFINE S == {Readme[i] : i \in DOMAIN Readme}
  <2>1. Readme \in Seq(S) /\ Len(Readme) = 1
    BY BrowseAssumption
  <2> HIDE DEF S
  <2>2. SubSeq(Readme, 1, 1) = Readme
    BY <2>1
  <2> QED BY <2>2, FirstName, BrowseAssumption
<1> QED BY <1>1 DEF QueryKeys

LEMMA FetchStep ==
  ASSUME BrowseInv, NEW k \in QueryKeys, FetchContents(k)
  PROVE  BrowseInv'
<1>1. PICK data \in {Contents(k.branch, k.path), Failed} :
        query' = [query EXCEPT ![k] = Held(IF data = Failed THEN @.data ELSE data, data = Failed, pushes)]
  BY DEF FetchContents
<1> DEFINE q == Held(IF data = Failed THEN query[k].data ELSE data, data = Failed, pushes)
<1>2. query' = [query EXCEPT ![k] = q] /\ UNCHANGED <<trees, pushes, address>>
  BY <1>1 DEF FetchContents
<1>3. q.asked = pushes /\ q.data = (IF data = Failed THEN query[k].data ELSE data)
  BY DEF Held
<1>4. q.error <=> data = Failed
  BY Zenon DEF Held
<1>5. k.branch \in Branches /\ k.path \in Paths
  BY KeyTypes
<1>6. trees[k.branch] \in SUBSET TreeFiles
  BY <1>5 DEF BrowseInv
<1> HIDE DEF q
<1>7. query'[k] = q /\ \A l \in QueryKeys \ {k} : query'[l] = query[l]
  BY <1>2 DEF BrowseInv
<1>8. QueryInv(k)'
  <2>1. CASE data = Failed
    BY <1>2, <1>3, <1>4, <1>7, <2>1 DEF BrowseInv, QueryInv
  <2>2. CASE data # Failed
    <3>1. data = [type |-> "dir", entries |-> LsTree(trees[k.branch], k.path)]
      BY <2>2 DEF Contents
    <3>2. data.type = "dir" /\ data.entries = LsTree(trees[k.branch], k.path)
      BY <3>1
    <3>3. \A e \in LsTree(trees[k.branch], k.path) : e.path \in Paths
      <4> DEFINE files == trees[k.branch]
                 path == k.path
      <4>1. files \in SUBSET TreeFiles /\ path \in Paths
        BY <1>5, <1>6
      <4> HIDE DEF files, path
      <4>2. \A e \in LsTree(files, path) : e.path \in Paths
        BY <4>1, ListingOf
      <4> QED BY <4>2 DEF files, path
    <3> QED BY <1>2, <1>3, <1>7, <2>2, <3>2, <3>3 DEF BrowseInv, QueryInv
  <2> QED BY <2>1, <2>2
<1>9. \A l \in QueryKeys \ {k} : QueryInv(l)'
  BY <1>2, <1>7 DEF BrowseInv, QueryInv
<1>10. query' = [l \in QueryKeys |-> query'[l]]
  BY <1>2 DEF BrowseInv
<1> QED BY <1>2, <1>8, <1>9, <1>10 DEF BrowseInv

LEMMA ShownKey ==
  ASSUME BrowseInv
  PROVE  /\ Key("contents", address.path, Branch) \in QueryKeys
         /\ QueryInv(Key("contents", address.path, Branch))
         /\ Key("contents", address.path, Branch).path = address.path
         /\ Key("contents", address.path, Branch).branch = Branch
         /\ Branch \in Branches
<1>1. Branch \in Branches
  BY BrowseAssumption DEF BrowseInv, Addresses, Branch
<1>2. Key("contents", address.path, Branch) \in QueryKeys
  BY <1>1 DEF BrowseInv, Addresses, Key, QueryKeys
<1> QED BY <1>1, <1>2 DEF BrowseInv, Key

LEMMA BrowseStep == BrowseInv /\ [BrowseNext]_browseVars => BrowseInv'
<1> SUFFICES ASSUME BrowseInv, [BrowseNext]_browseVars PROVE BrowseInv'
  OBVIOUS
<1>1. CASE UNCHANGED <<trees, pushes, query>> /\ address' \in Addresses
  BY <1>1 DEF BrowseInv, QueryInv
<1>2. CASE UNCHANGED browseVars
  BY <1>2, <1>1 DEF browseVars, BrowseInv
<1>3. CASE FollowLink
  <2>1. ASSUME NEW e \in Shown.data.entries PROVE e.path \in Paths
    BY <2>1, ShownKey DEF QueryInv, Shown
  <2>2. UpTo(address.path) \subseteq Paths
    BY PathsClosed DEF BrowseInv, Addresses
  <2>3. <<>> \in Paths
    BY RootIsAPath
  <2>4. Links \subseteq Addresses
    BY <2>1, <2>2, <2>3 DEF Links, Addresses
  <2> QED BY <1>1, <1>3, <2>4 DEF FollowLink
<1>4. CASE TypeAddress
  BY <1>1, <1>4 DEF TypeAddress
<1>5. CASE Push
  <2>1. /\ pushes' = pushes + 1 /\ UNCHANGED <<address, query>>
        /\ trees' \in [Branches -> SUBSET TreeFiles]
    BY <1>5 DEF Push, BrowseInv
  <2>2. ASSUME NEW k \in QueryKeys PROVE QueryInv(k)'
    <3>1. query'[k] = query[k] /\ QueryInv(k)
      BY <2>1 DEF BrowseInv
    <3>2. query[k].asked <= pushes' /\ query[k].asked # pushes'
      BY <2>1, <3>1 DEF BrowseInv, QueryInv
    <3> QED BY <3>1, <3>2 DEF QueryInv
  <2> QED BY <2>1, <2>2 DEF BrowseInv
<1>6. ASSUME NEW k \in QueryKeys, FetchContents(k) PROVE BrowseInv'
  BY <1>6, FetchStep
<1> QED BY <1>2, <1>3, <1>4, <1>5, <1>6 DEF BrowseNext

\* An answer goes where its branch and path say, an error marks it, and a push
\* makes it old: what the page lists is its branch's, in any repository.
THEOREM ListsWhatIsThere == BrowseSpec => []ListsItsBranch
<1>1. BrowseInv => ListsItsBranch
  <2> SUFFICES ASSUME BrowseInv, Shown.data.type = "dir", ~Shown.error, Shown.asked = pushes
      PROVE /\ \A e \in Shown.data.entries : Holds(trees[Branch], e.path)
                                              /\ (e.tree <=> e.path \notin trees[Branch])
            /\ address.path = <<>> =>
                 {e.path : e \in Shown.data.entries} = {SubSeq(f, 1, 1) : f \in trees[Branch]}
    BY DEF ListsItsBranch, Branch
  <2>1. trees[Branch] \in SUBSET TreeFiles
    BY ShownKey DEF BrowseInv
  <2>2. Shown.data.entries = LsTree(trees[Branch], address.path)
    <3> DEFINE k == Key("contents", address.path, Branch)
    <3>1. QueryInv(k) /\ k.path = address.path /\ k.branch = Branch /\ Shown = query[k]
      BY ShownKey DEF Shown
    <3> HIDE DEF k
    <3> QED BY <3>1 DEF QueryInv
  <2> DEFINE files == trees[Branch]
             path == address.path
             entries == Shown.data.entries
  <2>3. files \in SUBSET TreeFiles /\ entries = LsTree(files, path)
    BY <2>1, <2>2
  <2> HIDE DEF files, path, entries
  <2>4. /\ \A e \in entries : Holds(files, e.path) /\ (e.tree <=> e.path \notin files)
        /\ path = <<>> => {e.path : e \in entries} = {SubSeq(f, 1, 1) : f \in files}
    BY <2>3, ListingOf
  <2> QED BY <2>4 DEF files, path, entries
<1> QED BY <1>1, BrowseInitially, BrowseStep, PTL DEF BrowseSpec

(***************************************************************************)
(* AVATARS. Who meets no other writes the file his type names; and among   *)
(* uploads of one type, once nobody is left who removes files, the file of *)
(* that type is there, and whoever left it unfinished still writes to it.  *)
(***************************************************************************)
TaskRecords == [pc : {"new", "remove", "copy", "store", "over"}, type : Types \union {NoType},
                found : SUBSET Types, fd : Uploads \union {NoRequest}]
AvatarTypes ==
  /\ avatarUrl \in Types \union {NoType}
  /\ entry \in [Types -> Uploads \union {NoRequest}]
  /\ content \in [Uploads -> Uploads \union {Unfinished, Mixed}]
  /\ task \in [Requests -> TaskRecords]
  /\ alone \in Requests \union {NoRequest}
  /\ clash \in BOOLEAN
  /\ \A r \in Pending :
        /\ task[r].pc \in {"remove", "copy", "store"}
        /\ r \in Uploads => task[r].type \in Types
        /\ r \in Deletions => task[r].pc = "remove" /\ task[r].type = NoType
        /\ task[r].pc # "remove" => task[r].fd \in Uploads

\* What a request that meets no other has done so far, and in the end.
OwnFile(r) ==
  /\ task[r].pc = "copy" => entry[task[r].type] = task[r].fd /\ content[task[r].fd] = Unfinished
  /\ task[r].pc = "store" => entry[task[r].type] = task[r].fd /\ content[task[r].fd] = r
AloneInv ==
  alone # NoRequest =>
    /\ Pending \subseteq {alone}
    /\ alone \in Pending => OwnFile(alone)
    /\ Resting /\ alone \in Uploads =>
         avatarUrl \in Types /\ entry[avatarUrl] # NoRequest /\ content[entry[avatarUrl]] = alone
    /\ Resting /\ alone \in Deletions => avatarUrl = NoType

\* The type's file is there, and whole or being written.
InHand(x) ==
  /\ entry[x] # NoRequest
  /\ \/ content[entry[x]] # Unfinished
     \/ \E p \in Pending : task[p].pc = "copy" /\ task[p].fd = entry[x]
OneType == \A p, q \in Pending : p = q \/ (task[p].type = task[q].type /\ task[p].type # NoType)
NoClashInv ==
  ~clash =>
    /\ OneType
    /\ (\A p \in Pending : task[p].pc # "remove") => \A p \in Pending : InHand(task[p].type)
    /\ Resting /\ avatarUrl # NoType => InHand(avatarUrl)

AvatarInv == AvatarTypes /\ AloneInv /\ NoClashInv

LEMMA AvatarInitially == AvatarInit => AvatarInv
<1> SUFFICES ASSUME AvatarInit PROVE AvatarInv
  OBVIOUS
<1>1. Fresh \in TaskRecords
  BY DEF Fresh, Task, TaskRecords
<1>2. Pending = {}
  BY DEF AvatarInit, Pending
<1> QED BY <1>1, <1>2 DEF AvatarInit, AvatarInv, AvatarTypes, AloneInv, NoClashInv, OneType, Resting

\* Who is pending after one request's task has changed.
LEMMA PendingAfter ==
  ASSUME AvatarTypes, NEW r \in Requests, NEW t, task' = [task EXCEPT ![r] = t]
  PROVE  /\ task'[r] = t /\ \A p \in Requests \ {r} : task'[p] = task[p]
         /\ t \in {Fresh, Over} => Pending' = Pending \ {r}
         /\ t \notin {Fresh, Over} => Pending' = Pending \union {r}
<1>1. task'[r] = t /\ \A p \in Requests \ {r} : task'[p] = task[p]
  BY DEF AvatarTypes
<1> QED BY <1>1 DEF Pending

LEMMA TaskKinds ==
  /\ Fresh.pc = "new" /\ Over.pc = "over" /\ Over \in TaskRecords
  /\ \A pc, type, found, fd :
        LET t == Task(pc, type, found, fd)
        IN  t.pc = pc /\ t.type = type /\ t.found = found /\ t.fd = fd
BY DEF Fresh, Over, Task, TaskRecords

LEMMA BeginAvatarStep ==
  ASSUME AvatarInv, NEW r \in Requests, BeginAvatar(r)
  PROVE  AvatarInv'
<1>1. PICK x \in IF r \in Uploads THEN Types ELSE {NoType} :
        /\ task[r] = Fresh
        /\ task' = [task EXCEPT ![r] = Task("remove", x, Files, NoRequest)]
        /\ alone' = IF Resting THEN r ELSE NoRequest
        /\ clash' = (clash \/ \E p \in Pending : x = NoType \/ task[p].type # x)
        /\ UNCHANGED <<avatarUrl, entry, content>>
  BY DEF BeginAvatar
<1> DEFINE t == Task("remove", x, Files, NoRequest)
<1>2. t \in TaskRecords /\ t.pc = "remove" /\ t.type = x /\ t \notin {Fresh, Over}
  BY <1>1, TaskKinds DEF Task, TaskRecords, Files
<1> HIDE DEF t
<1>3. /\ task'[r] = t /\ \A p \in Requests \ {r} : task'[p] = task[p]
      /\ Pending' = Pending \union {r}
  BY <1>1, <1>2, PendingAfter DEF AvatarInv, t
<1>4. AvatarTypes'
  <2>1. task' \in [Requests -> TaskRecords]
    BY <1>1, <1>2 DEF AvatarInv, AvatarTypes, t
  <2>2. clash' \in BOOLEAN /\ alone' \in Requests \union {NoRequest}
    BY <1>1
  <2> QED BY <1>1, <1>2, <1>3, <2>1, <2>2, AvatarAssumption DEF AvatarInv, AvatarTypes, Pending, Requests
<1>5. AloneInv'
  BY <1>1, <1>2, <1>3 DEF AvatarInv, AloneInv, Resting, OwnFile
<1>6. NoClashInv'
  <2>1. ~clash' => ~clash /\ \A p \in Pending : x # NoType /\ task[p].type = x
    BY <1>1
  <2>2. \A p \in Pending' : task'[p] = IF p = r THEN t ELSE task[p]
    BY <1>3 DEF Pending
  <2>3. (\A p \in Pending : x # NoType /\ task[p].type = x) => OneType'
    BY <1>2, <1>3, <2>2 DEF OneType
  <2>4. ~Resting' /\ \E p \in Pending' : task'[p].pc = "remove"
    BY <1>2, <1>3 DEF Resting
  <2> QED BY <2>1, <2>3, <2>4 DEF NoClashInv
<1> QED BY <1>4, <1>5, <1>6 DEF AvatarInv

LEMMA RemoveOneStep ==
  ASSUME AvatarInv, NEW r \in Requests, RemoveOne(r)
  PROVE  AvatarInv'
<1>1. PICK x \in task[r].found :
        /\ task[r].pc = "remove"
        /\ task' = [task EXCEPT ![r].found = @ \ {x}]
        /\ entry' \in {[entry EXCEPT ![x] = NoRequest], entry}
        /\ clash' = (clash \/ (entry' = entry /\ entry[x] # NoRequest))
        /\ UNCHANGED <<avatarUrl, content, alone>>
  BY DEF RemoveOne
<1> DEFINE t == [task[r] EXCEPT !.found = @ \ {x}]
<1>2. /\ t \in TaskRecords /\ t.pc = "remove" /\ t.type = task[r].type /\ t.fd = task[r].fd
      /\ t \notin {Fresh, Over} /\ task' = [task EXCEPT ![r] = t]
  BY <1>1, TaskKinds DEF AvatarInv, AvatarTypes, TaskRecords
<1> HIDE DEF t
<1>3. r \in Pending
  BY <1>1, TaskKinds DEF Pending
<1>4. /\ task'[r] = t /\ \A p \in Requests \ {r} : task'[p] = task[p]
      /\ Pending' = Pending
  <2>1. /\ task'[r] = t /\ \A p \in Requests \ {r} : task'[p] = task[p]
        /\ Pending' = Pending \union {r}
    BY <1>2, PendingAfter DEF AvatarInv
  <2> QED BY <1>3, <2>1
<1>5. AvatarTypes'
  <2>1. task' \in [Requests -> TaskRecords]
    BY <1>2 DEF AvatarInv, AvatarTypes
  <2>2. entry' \in [Types -> Uploads \union {NoRequest}]
    BY <1>1 DEF AvatarInv, AvatarTypes
  <2>3. clash' \in BOOLEAN
    BY <1>1 DEF AvatarInv, AvatarTypes
  <2> QED BY <1>1, <1>2, <1>3, <1>4, <2>1, <2>2, <2>3 DEF AvatarInv, AvatarTypes, Pending
<1>6. AloneInv'
  BY <1>1, <1>2, <1>3, <1>4 DEF AvatarInv, AloneInv, Resting, OwnFile
<1>7. NoClashInv'
  <2>1. ~clash' => ~clash
    BY <1>1
  <2>2. OneType => OneType'
    BY <1>2, <1>4 DEF OneType, Pending
  <2>3. ~Resting' /\ \E p \in Pending' : task'[p].pc = "remove"
    BY <1>2, <1>3, <1>4 DEF Resting
  <2> QED BY <2>1, <2>2, <2>3 DEF AvatarInv, NoClashInv
<1> QED BY <1>5, <1>6, <1>7 DEF AvatarInv

LEMMA CreateFileStep ==
  ASSUME AvatarInv, NEW r \in Uploads, CreateFile(r)
  PROVE  AvatarInv'
<1> DEFINE x == task[r].type
           inode == IF entry[x] = NoRequest THEN r ELSE entry[x]
           t == Task("copy", x, {}, inode)
<1>1. /\ task[r].pc = "remove" /\ x # NoType
      /\ entry' = [entry EXCEPT ![x] = inode]
      /\ content' = [content EXCEPT ![inode] = Unfinished]
      /\ task' = [task EXCEPT ![r] = t]
      /\ UNCHANGED <<avatarUrl, alone, clash>>
  BY DEF CreateFile, RemovedAll
<1>2. r \in Requests /\ r \in Pending
  BY <1>1, TaskKinds DEF Pending, Requests
<1>3. x \in Types /\ inode \in Uploads
  BY <1>2 DEF AvatarInv, AvatarTypes
<1>4. /\ t \in TaskRecords /\ t.pc = "copy" /\ t.type = x /\ t.fd = inode
      /\ t \notin {Fresh, Over}
  BY <1>3, TaskKinds DEF Task, TaskRecords
<1> HIDE DEF t, inode
<1>5. /\ task'[r] = t /\ \A p \in Requests \ {r} : task'[p] = task[p]
      /\ Pending' = Pending
  <2>1. /\ task'[r] = t /\ \A p \in Requests \ {r} : task'[p] = task[p]
        /\ Pending' = Pending \union {r}
    BY <1>1, <1>2, <1>4, PendingAfter DEF AvatarInv
  <2> QED BY <1>2, <2>1
<1>6. inode # NoRequest
  BY <1>3, AvatarAssumption DEF Requests
<1>7. /\ entry'[x] = inode /\ content'[inode] = Unfinished
      /\ entry' \in [Types -> Uploads \union {NoRequest}]
      /\ content' \in [Uploads -> Uploads \union {Unfinished, Mixed}]
      /\ task' \in [Requests -> TaskRecords]
  BY <1>1, <1>2, <1>3, <1>4 DEF AvatarInv, AvatarTypes
<1>8. AvatarTypes'
  BY <1>1, <1>2, <1>3, <1>4, <1>5, <1>7, AvatarAssumption DEF AvatarInv, AvatarTypes, Pending
<1>9. AloneInv'
  BY <1>1, <1>2, <1>4, <1>5, <1>7 DEF AvatarInv, AloneInv, Resting, OwnFile
<1>10. NoClashInv'
  <2> SUFFICES ASSUME ~clash PROVE NoClashInv'
    BY <1>1 DEF NoClashInv
  <2>1. OneType /\ OneType'
    BY <1>4, <1>5 DEF AvatarInv, NoClashInv, OneType, Pending
  <2>2. InHand(x)'
    BY <1>2, <1>4, <1>5, <1>6, <1>7 DEF InHand
  <2>3. \A p \in Pending' : task'[p].type = x
    BY <1>2, <1>4, <1>5, <2>1 DEF OneType
  <2> QED BY <1>2, <1>5, <2>1, <2>2, <2>3 DEF NoClashInv, Resting
<1> QED BY <1>8, <1>9, <1>10 DEF AvatarInv

LEMMA CopyFileStep ==
  ASSUME AvatarInv, NEW r \in Uploads, CopyFile(r)
  PROVE  AvatarInv'
<1> DEFINE inode == task[r].fd
           shared == content[inode] # Unfinished
                       \/ \E p \in Pending \ {r} : task[p].fd = inode /\ task[p].pc = "copy"
           t == [task[r] EXCEPT !.pc = "store"]
<1>1. /\ task[r].pc = "copy" /\ task' = [task EXCEPT ![r] = t]
      /\ UNCHANGED <<avatarUrl, entry, alone, clash>>
  BY DEF CopyFile
<1>2. PICK c \in IF shared THEN {r, Mixed} ELSE {r} : content' = [content EXCEPT ![inode] = c]
  BY DEF CopyFile
<1>3. r \in Requests /\ r \in Pending
  BY <1>1, TaskKinds DEF Pending, Requests
<1>4. inode \in Uploads /\ task[r].type \in Types /\ task[r] \in TaskRecords
  BY <1>1, <1>3 DEF AvatarInv, AvatarTypes
<1>5. /\ t \in TaskRecords /\ t.pc = "store" /\ t.type = task[r].type /\ t.fd = inode
      /\ t \notin {Fresh, Over}
  BY <1>4, TaskKinds DEF TaskRecords
<1> HIDE DEF t
<1>6. /\ task'[r] = t /\ \A p \in Requests \ {r} : task'[p] = task[p]
      /\ Pending' = Pending
  <2>1. /\ task'[r] = t /\ \A p \in Requests \ {r} : task'[p] = task[p]
        /\ Pending' = Pending \union {r}
    BY <1>1, <1>3, <1>5, PendingAfter DEF AvatarInv
  <2> QED BY <1>3, <2>1
<1>7. /\ content'[inode] = c /\ c # Unfinished
      /\ \A i \in Uploads \ {inode} : content'[i] = content[i]
      /\ content' \in [Uploads -> Uploads \union {Unfinished, Mixed}]
      /\ task' \in [Requests -> TaskRecords]
  <2>1. content \in [Uploads -> Uploads \union {Unfinished, Mixed}] /\ task \in [Requests -> TaskRecords]
    BY DEF AvatarInv, AvatarTypes
  <2>2. c \in {r, Mixed} /\ Unfinished # Mixed /\ Unfinished # r
    BY AvatarAssumption DEF Requests, Unfinished, Mixed
  <2> QED BY <1>1, <1>2, <1>3, <1>4, <1>5, <2>1, <2>2
<1>8. AvatarTypes'
  BY <1>1, <1>3, <1>4, <1>5, <1>6, <1>7, AvatarAssumption DEF AvatarInv, AvatarTypes, Pending
<1>9. AloneInv'
  <2> SUFFICES ASSUME alone # NoRequest PROVE AloneInv'
    BY <1>1 DEF AloneInv
  <2>1. Pending \subseteq {r} /\ alone = r /\ OwnFile(r)
    BY <1>3 DEF AvatarInv, AloneInv
  <2>2. ~shared
    BY <1>1, <2>1 DEF OwnFile
  <2>3. c = r
    BY <2>2
  <2> HIDE DEF shared
  <2>4. OwnFile(r)'
    BY <1>1, <1>5, <1>6, <1>7, <2>1, <2>3 DEF OwnFile
  <2> QED BY <1>1, <1>3, <1>6, <2>1, <2>4 DEF AloneInv, Resting
<1> HIDE DEF shared
<1>10. NoClashInv'
  <2> SUFFICES ASSUME ~clash PROVE NoClashInv'
    BY <1>1 DEF NoClashInv
  <2>1. OneType'
    BY <1>5, <1>6 DEF AvatarInv, NoClashInv, OneType, Pending
  <2>2. ASSUME NEW y \in Types, InHand(y) PROVE InHand(y)'
    <3>1. entry'[y] = entry[y] /\ entry[y] \in Uploads
      BY <1>1, <2>2 DEF InHand, AvatarInv, AvatarTypes
    <3>2. CASE entry[y] = inode
      BY <1>7, <2>2, <3>1, <3>2 DEF InHand
    <3>3. CASE entry[y] # inode
      BY <1>6, <1>7, <2>2, <3>1, <3>3 DEF InHand, Pending
    <3> QED BY <3>2, <3>3
  <2>3. (\A p \in Pending' : task'[p].pc # "remove") => \A p \in Pending : task[p].pc # "remove"
    BY <1>1, <1>6 DEF Pending
  <2>4. \A p \in Pending : task'[p].type = task[p].type
    BY <1>5, <1>6 DEF Pending
  <2>5. ASSUME \A p \in Pending' : task'[p].pc # "remove", NEW p \in Pending
        PROVE  InHand(task[p].type)'
    <3>1. InHand(task[p].type)
      BY <2>3, <2>5 DEF AvatarInv, NoClashInv
    <3>2. task[p].type \in Types
      BY <1>3, <1>4, <2>5 DEF AvatarInv, NoClashInv, OneType
    <3>3. InHand(task[p].type)'
      <4>1. PICK y \in Types : y = task[p].type /\ InHand(y)
        BY <3>1, <3>2 DEF InHand
      <4>2. task'[p].type = y
        BY <2>4, <2>5, <4>1
      <4>3. InHand(y)'
        BY <2>2, <4>1
      <4> QED BY <4>2, <4>3 DEF InHand
    <3> QED BY <3>3
  <2> QED BY <1>3, <1>6, <2>1, <2>5 DEF NoClashInv, Resting
<1> QED BY <1>8, <1>9, <1>10 DEF AvatarInv

LEMMA StoreUrlStep ==
  ASSUME AvatarInv, NEW r \in Requests, StoreUrl(r)
  PROVE  AvatarInv'
<1>1. /\ task[r].pc = "store" \/ (task[r].pc = "remove" /\ r \in Deletions)
      /\ avatarUrl' = task[r].type /\ task' = [task EXCEPT ![r] = Over]
      /\ clash' = (clash /\ alone # r)
      /\ UNCHANGED <<entry, content, alone>>
  BY DEF StoreUrl, RemovedAll
<1>2. r \in Pending /\ task[r].type \in Types \union {NoType} /\ Over \in TaskRecords
  BY <1>1, TaskKinds DEF AvatarInv, AvatarTypes, Pending, TaskRecords
<1>3. /\ task'[r] = Over /\ \A p \in Requests \ {r} : task'[p] = task[p]
      /\ Pending' = Pending \ {r}
  BY <1>1, PendingAfter DEF AvatarInv
<1>4. AvatarTypes'
  <2>1. task' \in [Requests -> TaskRecords] /\ clash' \in BOOLEAN
    BY <1>1, <1>2 DEF AvatarInv, AvatarTypes
  <2> QED BY <1>1, <1>2, <1>3, <2>1 DEF AvatarInv, AvatarTypes, Pending
<1>5. AloneInv'
  <2> SUFFICES ASSUME alone # NoRequest PROVE AloneInv'
    BY <1>1 DEF AloneInv
  <2>1. Pending = {r} /\ alone = r /\ OwnFile(r)
    BY <1>2 DEF AvatarInv, AloneInv
  <2>2. CASE r \in Uploads
    <3>1. task[r].pc = "store" /\ task[r].type \in Types /\ task[r].fd \in Uploads
      BY <1>1, <1>2, <2>2, AvatarAssumption DEF AvatarInv, AvatarTypes
    <3> QED BY <1>1, <1>3, <2>1, <2>2, <3>1, AvatarAssumption DEF AloneInv, OwnFile, Requests
  <2>3. CASE r \in Deletions
    BY <1>1, <1>2, <1>3, <2>1, <2>3, AvatarAssumption DEF AvatarInv, AvatarTypes, AloneInv
  <2> QED BY <2>2, <2>3 DEF Requests
<1>6. NoClashInv'
  <2>1. CASE ~clash
    <3>1. OneType /\ OneType'
      BY <1>3, <2>1 DEF AvatarInv, NoClashInv, OneType, Pending
    <3>2. CASE r \in Deletions
      <4>1. Pending = {r} /\ avatarUrl' = NoType
        BY <1>1, <1>2, <3>1, <3>2 DEF AvatarInv, AvatarTypes, OneType
      <4> QED BY <1>3, <3>1, <4>1 DEF NoClashInv
    <3>3. CASE r \notin Deletions
      <4>1. task[r].pc = "store"
        BY <1>1, <3>3
      <4>2. ASSUME NEW y \in Types, InHand(y) PROVE InHand(y)'
        BY <1>1, <1>3, <4>1, <4>2 DEF InHand, Pending
      <4>3. ASSUME \A p \in Pending' : task'[p].pc # "remove", NEW p \in Pending
            PROVE  \A y \in Types \union {NoType} : y = task[p].type => y \in Types /\ InHand(y)'
        <5>1. \A q \in Pending : task[q].pc # "remove"
          BY <1>3, <4>1, <4>3 DEF Pending
        <5>2. InHand(task[p].type)
          BY <2>1, <5>1, <4>3 DEF AvatarInv, NoClashInv
        <5>3. task[r].type \in Types
          BY <1>2, <3>3 DEF AvatarInv, AvatarTypes, Requests
        <5>4. task[p].type \in Types
          BY <1>2, <3>1, <5>3, <4>3 DEF OneType
        <5> QED BY <4>2, <5>2, <5>4
      <4>4. ASSUME \A p \in Pending' : task'[p].pc # "remove", NEW p \in Pending'
            PROVE  InHand(task[p].type)'
        <5>1. p \in Pending /\ task'[p] = task[p]
          BY <1>3, <4>4 DEF Pending
        <5>2. PICK y \in Types \union {NoType} : y = task[p].type
          BY <5>1 DEF AvatarInv, AvatarTypes, Pending, TaskRecords
        <5>3. InHand(y)' /\ task'[p].type = y
          BY <4>3, <4>4, <5>1, <5>2
        <5> QED BY <5>2, <5>3 DEF InHand
      <4>5. ASSUME Resting' PROVE InHand(avatarUrl)'
        <5>1. PICK y \in Types \union {NoType} : y = task[r].type
          BY <1>2
        <5>2. InHand(y)'
          BY <1>2, <4>3, <4>5, <5>1 DEF Resting
        <5> QED BY <1>1, <5>1, <5>2 DEF InHand
      <4> QED BY <3>1, <4>4, <4>5 DEF NoClashInv
    <3> QED BY <3>2, <3>3
  <2>2. CASE clash /\ alone = r
    <3>1. Pending' = {}
      BY <1>2, <1>3, <2>2, AvatarAssumption DEF AvatarInv, AloneInv, Requests
    <3>2. avatarUrl' # NoType => InHand(avatarUrl)'
      <4>1. r \in Uploads => content'[entry'[avatarUrl']] = r /\ entry'[avatarUrl'] # NoRequest
        BY <1>1, <1>5, <2>2, <3>1, AvatarAssumption DEF AloneInv, Resting, Requests
      <4>2. r \in Deletions => avatarUrl' = NoType
        BY <1>1, <1>5, <2>2, <3>1, AvatarAssumption DEF AloneInv, Resting, Requests
      <4>3. r # Unfinished
        BY AvatarAssumption
      <4> QED BY <4>1, <4>2, <4>3 DEF InHand, Requests
    <3> QED BY <3>1, <3>2 DEF NoClashInv, OneType, Resting
  <2>3. CASE clash /\ alone # r
    BY <1>1, <2>3 DEF NoClashInv
  <2> QED BY <2>1, <2>2, <2>3 DEF AvatarInv, AvatarTypes
<1> QED BY <1>4, <1>5, <1>6 DEF AvatarInv

LEMMA AvatarStep == AvatarInv /\ [AvatarNext]_avatarVars => AvatarInv'
<1> SUFFICES ASSUME AvatarInv, [AvatarNext]_avatarVars PROVE AvatarInv'
  OBVIOUS
<1>1. ASSUME NEW r \in Requests, AvatarFails(r) PROVE AvatarInv'
  <2>1. /\ task' = [task EXCEPT ![r] = Over] /\ alone' = NoRequest /\ clash' = TRUE
        /\ UNCHANGED <<avatarUrl, entry, content>>
    BY <1>1 DEF AvatarFails
  <2>2. /\ task'[r] = Over /\ \A p \in Requests \ {r} : task'[p] = task[p]
        /\ Pending' = Pending \ {r}
    BY <2>1, PendingAfter DEF AvatarInv
  <2>3. task' \in [Requests -> TaskRecords]
    BY <2>1, TaskKinds DEF AvatarInv, AvatarTypes
  <2> QED BY <2>1, <2>2, <2>3 DEF AvatarInv, AvatarTypes, AloneInv, NoClashInv, Pending
<1>2. CASE AvatarCrash
  <2>1. /\ task' = [r \in Requests |-> IF r \in Pending THEN Over ELSE task[r]]
        /\ alone' = NoRequest /\ clash' = TRUE
        /\ UNCHANGED <<avatarUrl, entry, content>>
    BY <1>2 DEF AvatarCrash
  <2>2. Pending' = {}
    BY <2>1 DEF Pending
  <2>3. task' \in [Requests -> TaskRecords]
    BY <2>1, TaskKinds DEF AvatarInv, AvatarTypes
  <2> QED BY <2>1, <2>2, <2>3 DEF AvatarInv, AvatarTypes, AloneInv, NoClashInv
<1>3. CASE UNCHANGED avatarVars
  BY <1>3 DEF avatarVars, AvatarInv, AvatarTypes, AloneInv, NoClashInv, OneType, InHand, OwnFile,
              Resting, Pending
<1> QED BY <1>1, <1>2, <1>3, BeginAvatarStep, RemoveOneStep, CreateFileStep, CopyFileStep, StoreUrlStep
        DEF AvatarNext

\* Files first and the row last: in any number of overlapping requests, and after
\* failures and crashes, what the profile names is there once nobody clashes.
THEOREM AvatarNamesAFile == AvatarSpec => []AvatarServed
<1>1. AvatarInv => AvatarServed
  <2> SUFFICES ASSUME AvatarInv, Resting PROVE AvatarServed
    BY DEF AvatarServed
  <2>1. ~clash /\ avatarUrl # NoType => InHand(avatarUrl)
    BY DEF AvatarInv, NoClashInv
  <2>2. InHand(avatarUrl) => entry[avatarUrl] # NoRequest /\ content[entry[avatarUrl]] # Unfinished
    BY DEF InHand, Resting
  <2>3. alone \in Uploads \union Deletions => alone # NoRequest
    BY AvatarAssumption DEF Requests
  <2>4. alone \in Uploads => avatarUrl \in Types
    BY <2>3 DEF AvatarInv, AloneInv
  <2>5. alone \in Uploads => avatarUrl # NoType
    BY <2>4, AvatarAssumption
  <2> QED BY <2>1, <2>2, <2>3, <2>5 DEF AvatarInv, AloneInv, AvatarServed
<1> QED BY <1>1, AvatarInitially, AvatarStep, PTL DEF AvatarSpec
(***************************************************************************)
(* LISTS. While no answer to a mutation is due, a query that was told of   *)
(* everything has read, or holds if it is not stale, the rows of its       *)
(* filter; and the one shown is being fetched if it is stale.              *)
(***************************************************************************)
RowRecords == [text : Nat, on : BOOLEAN]
ListsTypes ==
  /\ rows \in Seq(RowRecords) /\ fills \in Nat /\ fill \in 0..fills
  /\ \A i \in DOMAIN rows : rows[i].text <= fills
  /\ adding.phase # "none" => adding.text \in 1..fills
  /\ filter \in page.filters
  /\ cache = [f \in page.filters |-> cache[f]] /\ request = [f \in page.filters |-> request[f]]
  /\ changing \in [RowIds -> [phase : {"none", "sent", "done"}, on : BOOLEAN]]

AnswerDue == adding.phase = "done" \/ \E i \in RowIds : changing[i].phase = "done"
QueryTruthful(f) ==
  /\ request[f].phase = "read" => request[f].list = ListOf(Listed(f))
  /\ request[f] = NotFetching /\ cache[f].known /\ f \notin stale => cache[f].items = Listed(f)
TruthInv ==
  /\ ~AnswerDue => \A f \in page.filters \ unaware : QueryTruthful(f)
  /\ filter \in stale /\ filter \notin unaware => request[filter] # NotFetching

\* The rows a text became; and, unless an answer was lost, a text that became
\* one is not in the form any more, but for the answer that empties it.
Made(t) == {i \in DOMAIN rows : rows[i].text = t /\ (page.unique => Live(i))}
OnceInv ==
  /\ \A t \in 1..fills : \A i, j \in Made(t) : i = j \/ (t \in lost /\ ~page.unique)
  /\ ~page.unique =>
       \A t \in (1..fills) \ lost : Made(t) # {} =>
          /\ fill = t => adding.phase = "done" /\ adding.text = t
          /\ adding.phase = "sent" => adding.text # t

ListsInv == ListsTypes /\ TruthInv /\ OnceInv

LEMMA ListsInitially == ListsInit => ListsInv
<1> SUFFICES ASSUME ListsInit PROVE ListsInv
  OBVIOUS
<1>1. NotFetching.phase = "none" /\ Requested.phase = "sent" /\ NoList.known = FALSE
      /\ NotAdding.phase = "none" /\ NotChanging.phase = "none"
      /\ NotChanging \in [phase : {"none", "sent", "done"}, on : BOOLEAN]
  BY DEF NotFetching, Requested, NoList, NotAdding, NotChanging
<1>2. rows \in Seq(RowRecords) /\ \A i \in DOMAIN rows : rows[i].text = 0
  <2> DEFINE r == [text |-> 0, on |-> TRUE]
  <2>1. r \in RowRecords /\ r.text = 0 /\ rows \in {<<>>, <<r>>}
    BY DEF ListsInit, RowRecords
  <2> HIDE DEF r
  <2>2. <<r>> \in Seq(RowRecords) /\ DOMAIN <<r>> = {1} /\ <<r>>[1] = r
    BY <2>1
  <2>3. <<>> \in Seq(RowRecords) /\ DOMAIN <<>> = {}
    OBVIOUS
  <2> QED BY <2>1, <2>2, <2>3
<1>3. ListsTypes
  BY <1>1, <1>2 DEF ListsInit, ListsTypes
<1>4. TruthInv
  BY <1>1 DEF ListsInit, TruthInv, QueryTruthful
<1>5. OnceInv
  BY <1>1, <1>2 DEF ListsInit, OnceInv, Made
<1> QED BY <1>3, <1>4, <1>5 DEF ListsInv

\* A row more, and a row's flag.
LEMMA RowsAppended ==
  ASSUME rows \in Seq(RowRecords), NEW r \in RowRecords, rows' = Append(rows, r)
  PROVE  /\ rows' \in Seq(RowRecords)
         /\ DOMAIN rows' = DOMAIN rows \union {Len(rows) + 1} /\ Len(rows) + 1 \notin DOMAIN rows
         /\ rows'[Len(rows) + 1] = r /\ \A j \in DOMAIN rows : rows'[j] = rows[j]
OBVIOUS

LEMMA RowsFlagged ==
  ASSUME rows \in Seq(RowRecords), NEW i, NEW b \in BOOLEAN, rows' = [rows EXCEPT ![i].on = b]
  PROVE  /\ rows' \in Seq(RowRecords) /\ DOMAIN rows' = DOMAIN rows
         /\ \A j \in DOMAIN rows : rows'[j].text = rows[j].text
         /\ \A j \in DOMAIN rows \ {i} : rows'[j] = rows[j]
<1>1. DOMAIN rows' = DOMAIN rows /\ Len(rows) \in Nat /\ DOMAIN rows = 1..Len(rows)
  OBVIOUS
<1>2. \A j \in DOMAIN rows : rows[j] \in RowRecords
  OBVIOUS
<1>3. \A j \in DOMAIN rows \ {i} : rows'[j] = rows[j]
  OBVIOUS
<1>4. i \in DOMAIN rows => rows'[i] = [rows[i] EXCEPT !.on = b]
  OBVIOUS
<1>5. i \in DOMAIN rows => rows'[i] \in RowRecords /\ rows'[i].text = rows[i].text
  BY <1>2, <1>4 DEF RowRecords
<1>6. rows' = [j \in 1..Len(rows) |-> rows'[j]]
  BY <1>1
<1>7. rows' \in [1..Len(rows) -> RowRecords]
  BY <1>1, <1>2, <1>3, <1>5, <1>6
<1>8. rows' \in Seq(RowRecords)
  BY <1>1, <1>7
<1> QED BY <1>1, <1>3, <1>5, <1>8

\* A step after which no rows are more, and the form has not moved.
LEMMA OnceKept ==
  ASSUME OnceInv, \A t \in 1..fills : Made(t)' \subseteq Made(t), UNCHANGED <<page, fills, fill, adding>>,
         lost \subseteq lost'
  PROVE  OnceInv'
BY DEF OnceInv

\* What an invalidation leaves true of the queries.
LEMMA InvalidateKeeps ==
  ASSUME ListsInv, Invalidate, UNCHANGED <<page, rows, filter, cache>>
  PROVE  /\ TruthInv'
         /\ request' = [f \in page.filters |-> request'[f]]
<1>1. filter \in page.filters /\ request = [f \in page.filters |-> request[f]]
  BY DEF ListsInv, ListsTypes
<1>2. Requested.phase = "sent" /\ Requested # NotFetching /\ NotFetching.phase = "none"
  BY DEF Requested, NotFetching
<1> DEFINE joins(f) == request[f] # NotFetching /\ (f # filter \/ ~cache[f].known)
<1>3. /\ stale' = stale \union (page.filters \ {filter})
      /\ request' = IF joins(filter) THEN request ELSE [request EXCEPT ![filter] = Requested]
      /\ unaware' = unaware \union {f \in page.filters : joins(f)}
  BY DEF Invalidate
<1>4. request' = [f \in page.filters |-> request'[f]]
  BY <1>1, <1>3
<1>5. request'[filter] # NotFetching
  BY <1>1, <1>2, <1>3
<1>6. ASSUME NEW f \in page.filters \ unaware' PROVE QueryTruthful(f)'
  <2>1. ~joins(f) /\ f \in page.filters
    BY <1>3, <1>6
  <2>2. CASE f = filter
    <3>1. request'[f] = Requested
      BY <1>1, <1>3, <2>1, <2>2
    <3> QED BY <1>2, <3>1 DEF QueryTruthful
  <2>3. CASE f # filter
    <3>1. request'[f] = NotFetching /\ f \in stale'
      BY <1>1, <1>3, <2>1, <2>3
    <3> QED BY <1>2, <3>1 DEF QueryTruthful
  <2> QED BY <2>2, <2>3
<1> QED BY <1>4, <1>5, <1>6 DEF TruthInv

\* The queries' own steps change no row and no mutation.
LEMMA QueriesStep ==
  ASSUME ListsInv, NEW f \in page.filters,
         ReadList(f) \/ ReadShort(f) \/ TakeList(f) \/ ListFails(f) \/ Show(f)
  PROVE  ListsInv'
<1> DEFINE read == [phase |-> "read", list |-> ListOf(Listed(f))]
<1>1. /\ Requested.phase = "sent" /\ Requested # NotFetching /\ NotFetching.phase = "none"
      /\ read.phase = "read" /\ read.list = ListOf(Listed(f)) /\ read # NotFetching
      /\ ListOf(Listed(f)).items = Listed(f)
  BY DEF Requested, NotFetching, ListOf
<1>2. /\ UNCHANGED <<page, rows, fills, fill, adding, changing, lost>>
      /\ \A t : Made(t)' = Made(t)
      /\ Listed(f)' = Listed(f) /\ \A g \in page.filters : Listed(g)' = Listed(g)
      /\ AnswerDue' <=> AnswerDue
  <2>1. UNCHANGED <<page, rows, fills, fill, adding, changing, lost>>
    BY DEF ReadList, ReadShort, TakeList, ListFails, Show, formVars
  <2> QED BY <2>1 DEF Made, Live, Listed, Newest, Matching, AnswerDue
<1>3. OnceInv'
  BY <1>2, OnceKept DEF ListsInv
<1> HIDE DEF read
<1>4. CASE ReadList(f)
  <2>1. /\ request' = [request EXCEPT ![f] = read] /\ unaware' = unaware \ {f}
        /\ UNCHANGED <<filter, cache, stale>>
    BY <1>4 DEF ReadList, read
  <2>2. request'[f] = read /\ \A g \in page.filters \ {f} : request'[g] = request[g]
    BY <2>1 DEF ListsInv, ListsTypes
  <2>3. ListsTypes'
    BY <1>2, <2>1 DEF ListsInv, ListsTypes
  <2>4. ASSUME ~AnswerDue, NEW g \in page.filters \ unaware' PROVE QueryTruthful(g)'
    BY <1>1, <1>2, <2>1, <2>2, <2>4 DEF ListsInv, TruthInv, QueryTruthful
  <2>5. filter \in stale /\ filter \notin unaware' => request'[filter] # NotFetching
    BY <1>1, <2>1, <2>2 DEF ListsInv, ListsTypes, TruthInv
  <2>6. TruthInv'
    BY <1>2, <2>1, <2>4, <2>5 DEF TruthInv
  <2> QED BY <1>3, <2>3, <2>6 DEF ListsInv
<1>5. CASE TakeList(f)
  <2>1. /\ request[f].phase = "read"
        /\ cache' = [cache EXCEPT ![f] = request[f].list]
        /\ request' = [request EXCEPT ![f] = NotFetching]
        /\ stale' = stale \ {f} /\ UNCHANGED <<filter, unaware>>
    BY <1>5 DEF TakeList
  <2>2. /\ request'[f] = NotFetching /\ \A g \in page.filters \ {f} : request'[g] = request[g]
        /\ cache'[f] = request[f].list /\ \A g \in page.filters \ {f} : cache'[g] = cache[g]
    BY <2>1 DEF ListsInv, ListsTypes
  <2>3. ListsTypes'
    BY <1>2, <2>1 DEF ListsInv, ListsTypes
  <2>4. ASSUME ~AnswerDue, NEW g \in page.filters \ unaware PROVE QueryTruthful(g)'
    <3>1. QueryTruthful(g)
      BY <2>4 DEF ListsInv, TruthInv
    <3>2. CASE g = f
      BY <1>1, <1>2, <2>1, <2>2, <3>1, <3>2 DEF QueryTruthful
    <3>3. CASE g # f
      BY <1>2, <2>1, <2>2, <3>1, <3>3 DEF QueryTruthful
    <3> QED BY <3>2, <3>3
  <2>5. TruthInv'
    BY <1>2, <2>1, <2>2, <2>4 DEF ListsInv, ListsTypes, TruthInv
  <2> QED BY <1>3, <2>3, <2>5 DEF ListsInv
<1>6. CASE ListFails(f)
  <2>1. /\ request' = [request EXCEPT ![f] = NotFetching] /\ unaware' = unaware \union {f}
        /\ UNCHANGED <<filter, cache, stale>>
    BY <1>6 DEF ListFails
  <2>2. request'[f] = NotFetching /\ \A g \in page.filters \ {f} : request'[g] = request[g]
    BY <2>1 DEF ListsInv, ListsTypes
  <2>3. ListsTypes'
    BY <1>2, <2>1 DEF ListsInv, ListsTypes
  <2>4. ASSUME ~AnswerDue, NEW g \in page.filters \ unaware' PROVE QueryTruthful(g)'
    BY <1>2, <2>1, <2>2, <2>4 DEF ListsInv, TruthInv, QueryTruthful
  <2>5. TruthInv'
    BY <1>2, <2>1, <2>2, <2>4 DEF ListsInv, ListsTypes, TruthInv
  <2> QED BY <1>3, <2>3, <2>5 DEF ListsInv
<1>7. CASE Show(f)
  <2>1. PICK elapsed \in BOOLEAN :
          request' = IF request[f] = NotFetching /\ (~cache[f].known \/ f \in stale \/ elapsed)
                       THEN [request EXCEPT ![f] = Requested] ELSE request
    BY <1>7 DEF Show
  <2>2. filter' = f /\ UNCHANGED <<cache, stale, unaware>>
    BY <1>7 DEF Show
  <2>3. /\ request'[f] \in {Requested, request[f]} /\ (f \in stale => request'[f] # NotFetching)
        /\ \A g \in page.filters \ {f} : request'[g] = request[g]
        /\ request' = [g \in page.filters |-> request'[g]]
    BY <1>1, <2>1 DEF ListsInv, ListsTypes
  <2>4. ListsTypes'
    BY <1>2, <2>2, <2>3 DEF ListsInv, ListsTypes
  <2>5. ASSUME ~AnswerDue, NEW g \in page.filters \ unaware PROVE QueryTruthful(g)'
    <3>1. QueryTruthful(g)
      BY <2>5 DEF ListsInv, TruthInv
    <3>2. request'[g] = request[g] \/ request'[g] = Requested
      BY <2>3, <2>5
    <3> QED BY <1>1, <1>2, <2>2, <3>1, <3>2 DEF QueryTruthful
  <2>6. TruthInv'
    BY <1>2, <2>2, <2>3, <2>5 DEF TruthInv
  <2> QED BY <1>3, <2>4, <2>6 DEF ListsInv
<1>8. CASE ReadShort(f)
  <2>1. PICK n \in 0..(page.most - 1) :
          request' = [request EXCEPT ![f] = [phase |-> "read", list |-> ListOf(Newest(f, n))]]
    BY <1>8 DEF ReadShort
  <2>2. /\ unaware' = unaware \union {f} /\ UNCHANGED <<filter, cache, stale>>
        /\ request' = [g \in page.filters |-> request'[g]]
        /\ \A g \in page.filters \ {f} : request'[g] = request[g]
    BY <1>8, <2>1 DEF ReadShort, ListsInv, ListsTypes
  <2>3. ListsTypes'
    BY <1>2, <2>2 DEF ListsInv, ListsTypes
  <2>4. ASSUME ~AnswerDue, NEW g \in page.filters \ unaware' PROVE QueryTruthful(g)'
    BY <1>2, <2>2, <2>4 DEF ListsInv, TruthInv, QueryTruthful
  <2>5. TruthInv'
    BY <1>2, <2>2, <2>4 DEF ListsInv, ListsTypes, TruthInv
  <2> QED BY <1>3, <2>3, <2>5 DEF ListsInv
<1> QED BY <1>4, <1>5, <1>6, <1>7, <1>8

\* Steps that leave the queries alone: either nothing they show has changed, or
\* an answer is due, or they are not told.
LEMMA QueriesAlone ==
  ASSUME ListsInv, UNCHANGED <<page, filter, cache, stale, request>>, unaware \subseteq unaware',
         \/ UNCHANGED rows /\ (AnswerDue => AnswerDue' \/ unaware' = page.filters)
         \/ AnswerDue'
         \/ unaware' = page.filters
  PROVE  TruthInv'
<1>1. filter \in stale /\ filter \notin unaware' => request[filter] # NotFetching
  BY DEF ListsInv, TruthInv
<1>2. ASSUME ~AnswerDue', NEW f \in page.filters \ unaware' PROVE QueryTruthful(f)'
  <2>1. UNCHANGED rows /\ ~AnswerDue
    BY <1>2
  <2>2. Listed(f)' = Listed(f)
    BY <2>1 DEF Listed, Newest, Matching, Live
  <2>3. QueryTruthful(f)
    BY <1>2, <2>1 DEF ListsInv, TruthInv
  <2> QED BY <2>2, <2>3 DEF QueryTruthful
<1> QED BY <1>1, <1>2 DEF TruthInv

LEMMA FormSteps ==
  ASSUME ListsInv, TypeText \/ SubmitForm \/ Insert \/ Added \/ AddFails
  PROVE  ListsInv'
<1>0. NotAdding.phase = "none"
  BY DEF NotAdding
<1>1. CASE TypeText
  <2>1. /\ page.adds /\ UNCHANGED <<page, rows, queryVars, adding, changing, unaware, lost, others>>
        /\ \/ fills' = fills + 1 /\ fill' = fills + 1
           \/ page.unique /\ fills' = fills /\ fill' \in 1..fills
    BY <1>1 DEF TypeText, FillIn
  <2>2. \A t : Made(t)' = Made(t)
    BY <2>1 DEF Made, Live
  <2>3. /\ fills \in Nat /\ fills' \in Nat /\ fills <= fills' /\ fill' \in 0..fills'
        /\ 1..fills' \subseteq (1..fills) \union {fills + 1}
    BY <2>1 DEF ListsInv, ListsTypes
  <2>4. ListsTypes'
    <3>1. /\ rows \in Seq(RowRecords) /\ \A i \in DOMAIN rows : rows[i].text \in Nat /\ rows[i].text <= fills
      <4>1. rows \in Seq(RowRecords) /\ \A i \in DOMAIN rows : rows[i].text <= fills
        BY DEF ListsInv, ListsTypes
      <4>2. \A i \in DOMAIN rows : rows[i] \in RowRecords
        BY <4>1
      <4> QED BY <4>1, <4>2 DEF RowRecords
    <3>2. \A i \in DOMAIN rows : rows[i].text <= fills'
      BY <2>3, <3>1
    <3>3. adding.phase # "none" => adding.text \in 1..fills'
      BY <2>3 DEF ListsInv, ListsTypes
    <3> QED BY <2>1, <2>3, <3>1, <3>2, <3>3 DEF ListsInv, ListsTypes, queryVars
  <2>5. OnceInv'
    <3>1. Made(fills + 1) = {}
      <4> SUFFICES ASSUME NEW i \in DOMAIN rows, rows[i].text = fills + 1 PROVE FALSE
        BY DEF Made
      <4>1. fills + 1 <= fills
        BY DEF ListsInv, ListsTypes
      <4> QED BY <2>3, <4>1
    <3>2. page.unique => \A t \in 1..fills' : \A i, j \in Made(t) : i = j
      BY <2>3, <3>1 DEF ListsInv, OnceInv
    <3>3. ASSUME ~page.unique, NEW t \in 1..fills' PROVE
            /\ \A i, j \in Made(t) : i = j \/ t \in lost
            /\ t \notin lost /\ Made(t) # {} => fill' # t /\ (adding.phase = "sent" => adding.text # t)
      <4>1. fill' = fills + 1
        BY <2>1, <3>3
      <4>2. CASE t \in 1..fills
        BY <2>3, <3>3, <4>1, <4>2 DEF ListsInv, OnceInv
      <4>3. CASE t = fills + 1
        BY <3>1, <4>3
      <4> QED BY <2>3, <4>2, <4>3
    <3> QED BY <2>1, <2>2, <3>2, <3>3 DEF OnceInv
  <2>6. TruthInv'
    BY <2>1, QueriesAlone DEF queryVars, AnswerDue
  <2> QED BY <2>4, <2>5, <2>6 DEF ListsInv
<1>2. CASE SubmitForm
  <2>1. /\ fill # 0 /\ adding = NotAdding /\ adding' = [phase |-> "sent", text |-> fill]
        /\ UNCHANGED <<page, rows, queryVars, fills, fill, changing, unaware, lost, others>>
    BY <1>2 DEF SubmitForm
  <2>2. \A t : Made(t)' = Made(t)
    BY <2>1 DEF Made, Live
  <2>3. ListsTypes'
    BY <2>1 DEF ListsInv, ListsTypes, queryVars
  <2>4. OnceInv'
    BY <1>0, <2>1, <2>2 DEF ListsInv, OnceInv
  <2>5. TruthInv'
    BY <1>0, <2>1, QueriesAlone DEF queryVars, AnswerDue
  <2> QED BY <2>3, <2>4, <2>5 DEF ListsInv
<1>3. CASE Insert
  <2> DEFINE r == [text |-> adding.text, on |-> TRUE]
             n == Len(rows) + 1
  <2>1. /\ adding.phase = "sent" /\ adding'.phase = "done" /\ adding'.text = adding.text
        /\ ~(page.unique /\ Exists(adding.text)) /\ rows' = Append(rows, r)
        /\ UNCHANGED <<page, queryVars, fills, fill, changing, unaware, lost, others>>
    BY <1>3 DEF Insert
  <2>2. PICK t \in 1..fills : t = adding.text
    BY <2>1 DEF ListsInv, ListsTypes
  <2>10. fills \in Nat /\ r \in RowRecords /\ r.text = t /\ r.on = TRUE
    BY <2>2 DEF ListsInv, ListsTypes, RowRecords
  <2>3. adding'.phase = "done" /\ adding'.text = t
    BY <2>1, <2>2
  <2> HIDE DEF r, n
  <2>4. /\ rows' \in Seq(RowRecords) /\ DOMAIN rows' = DOMAIN rows \union {n} /\ n \notin DOMAIN rows
        /\ rows'[n] = r /\ \A j \in DOMAIN rows : rows'[j] = rows[j]
    BY <2>1, <2>10, RowsAppended DEF ListsInv, ListsTypes, n
  <2>5. ListsTypes'
    BY <2>1, <2>2, <2>10, <2>3, <2>4 DEF ListsInv, ListsTypes, queryVars
  <2>6. ASSUME NEW s \in 1..fills, NEW j \in Made(s)' PROVE j \in Made(s) \/ (s = t /\ j = n)
    <3>1. j \in (DOMAIN rows \union {n}) /\ rows'[j].text = s /\ (page.unique => rows'[j].on \/ ~page.gone)
      BY <2>1, <2>4, <2>6 DEF Made, Live
    <3>2. CASE j = n
      BY <2>10, <2>4, <3>1, <3>2
    <3>3. CASE j # n
      BY <2>4, <3>1, <3>3 DEF Made, Live
    <3> QED BY <3>2, <3>3
  <2>7. Made(t) = {} \/ (t \in lost /\ ~page.unique)
    BY <2>1, <2>2 DEF ListsInv, OnceInv, Made, Exists
  <2>8. OnceInv'
    <3>1. \A s \in 1..fills : \A i, j \in Made(s)' : i = j \/ (s \in lost /\ ~page.unique)
      BY <2>6, <2>7 DEF ListsInv, OnceInv
    <3>2. ASSUME ~page.unique, NEW s \in (1..fills) \ lost, Made(s)' # {}, fill = s PROVE s = t
      BY <2>1, <2>6, <3>2 DEF ListsInv, OnceInv
    <3> QED BY <2>1, <2>3, <3>1, <3>2 DEF OnceInv
  <2>9. TruthInv'
    BY <2>1, <2>3, QueriesAlone DEF queryVars, AnswerDue
  <2> QED BY <2>5, <2>8, <2>9 DEF ListsInv
<1>4. CASE Added
  <2>1. /\ adding' = NotAdding /\ fill' = 0 /\ Invalidate
        /\ UNCHANGED <<page, rows, filter, cache, fills, changing, lost, others>>
    BY <1>4 DEF Added
  <2>2. \A t : Made(t)' = Made(t)
    BY <2>1 DEF Made, Live
  <2>3. OnceInv'
    BY <1>0, <2>1, <2>2 DEF ListsInv, OnceInv
  <2>4. TruthInv' /\ request' = [f \in page.filters |-> request'[f]]
    BY <2>1, InvalidateKeeps
  <2>5. ListsTypes'
    BY <1>0, <2>1, <2>4 DEF ListsInv, ListsTypes
  <2> QED BY <2>3, <2>4, <2>5 DEF ListsInv
<1>5. CASE AddFails
  <2>1. /\ adding' = NotAdding
        /\ IF adding.phase = "done"
             THEN lost' = lost \union {adding.text} /\ unaware' = page.filters
             ELSE UNCHANGED <<lost, unaware>>
        /\ UNCHANGED <<page, rows, queryVars, fills, fill, changing, others>>
    BY <1>5 DEF AddFails
  <2>2. \A t : Made(t)' = Made(t)
    BY <2>1 DEF Made, Live
  <2>3. ListsTypes'
    BY <1>0, <2>1 DEF ListsInv, ListsTypes, queryVars
  <2>4. OnceInv'
    BY <1>0, <2>1, <2>2 DEF ListsInv, OnceInv
  <2>5. TruthInv'
    <3>1. CASE adding.phase = "done"
      <4>1. \A f \in page.filters : f \in unaware'
        BY <2>1, <3>1
      <4> QED BY <2>1, <4>1 DEF TruthInv, ListsInv, ListsTypes, queryVars
    <3>2. CASE adding.phase # "done"
      BY <2>1, <3>2, QueriesAlone DEF queryVars, AnswerDue
    <3> QED BY <3>1, <3>2
  <2> QED BY <2>3, <2>4, <2>5 DEF ListsInv
<1> QED BY <1>1, <1>2, <1>3, <1>4, <1>5

LEMMA ButtonSteps ==
  ASSUME ListsInv, NEW i \in RowIds, PressButton(i) \/ ChangeRow(i) \/ Changed(i) \/ ChangeFails(i)
  PROVE  ListsInv'
<1>0. NotChanging \in [phase : {"none", "sent", "done"}, on : BOOLEAN] /\ NotChanging.phase = "none"
  BY DEF NotChanging
<1>1. UNCHANGED <<page, filter, cache, fills, fill, adding, lost>>
  BY DEF PressButton, ChangeRow, Changed, ChangeFails, queryVars, formVars
<1>2. CASE PressButton(i)
  <2>1. PICK item \in cache[filter].items :
          /\ changing[i] = NotChanging
          /\ changing' = [changing EXCEPT ![i] = [phase |-> "sent", on |-> ~item.on]]
          /\ UNCHANGED <<page, rows, queryVars, formVars, unaware, lost, others>>
    BY <1>2 DEF PressButton
  <2>2. ListsTypes'
    BY <1>1, <2>1 DEF ListsInv, ListsTypes, queryVars
  <2>3. OnceInv'
    BY <1>1, <2>1, OnceKept DEF ListsInv, Made, Live
  <2>4. AnswerDue => AnswerDue'
    BY <1>0, <1>1, <2>1 DEF ListsInv, ListsTypes, AnswerDue
  <2>5. TruthInv'
    BY <2>1, <2>4, QueriesAlone DEF queryVars
  <2> QED BY <2>2, <2>3, <2>5 DEF ListsInv
<1>3. CASE ChangeRow(i)
  <2> DEFINE b == changing[i].on
  <2>1. /\ Live(i) /\ rows' = [rows EXCEPT ![i].on = b]
        /\ changing' = [changing EXCEPT ![i].phase = "done"]
        /\ UNCHANGED <<page, queryVars, formVars, unaware, lost, others>>
    BY <1>3 DEF ChangeRow
  <2>2. b \in BOOLEAN
    BY DEF ListsInv, ListsTypes
  <2> HIDE DEF b
  <2>3. /\ rows' \in Seq(RowRecords) /\ DOMAIN rows' = DOMAIN rows
        /\ \A j \in DOMAIN rows : rows'[j].text = rows[j].text
        /\ \A j \in DOMAIN rows \ {i} : rows'[j] = rows[j]
    BY <2>1, <2>2, RowsFlagged DEF ListsInv, ListsTypes
  <2>4. ListsTypes' /\ changing'[i].phase = "done"
    <3>1. /\ changing' \in [RowIds -> [phase : {"none", "sent", "done"}, on : BOOLEAN]]
          /\ changing'[i].phase = "done"
      BY <2>1 DEF ListsInv, ListsTypes
    <3>2. \A j \in DOMAIN rows' : rows'[j].text <= fills
      BY <2>3 DEF ListsInv, ListsTypes
    <3> QED BY <1>1, <2>1, <2>3, <3>1, <3>2 DEF ListsInv, ListsTypes, queryVars, formVars
  <2>5. \A t \in 1..fills : Made(t)' \subseteq Made(t)
    BY <1>1, <2>1, <2>3 DEF Made, Live
  <2>6. OnceInv'
    BY <1>1, <2>5, OnceKept DEF ListsInv
  <2>7. TruthInv'
    BY <2>1, <2>4, QueriesAlone DEF queryVars, AnswerDue
  <2> QED BY <2>4, <2>6, <2>7 DEF ListsInv
<1>4. CASE Changed(i)
  <2>1. /\ changing' = [changing EXCEPT ![i] = NotChanging] /\ Invalidate
        /\ UNCHANGED <<page, rows, filter, cache, formVars, lost, others>>
    BY <1>4 DEF Changed
  <2>2. TruthInv' /\ request' = [f \in page.filters |-> request'[f]]
    BY <2>1, InvalidateKeeps
  <2>3. ListsTypes'
    BY <1>0, <1>1, <2>1, <2>2 DEF ListsInv, ListsTypes
  <2>4. OnceInv'
    BY <1>1, <2>1, OnceKept DEF ListsInv, Made, Live
  <2> QED BY <2>2, <2>3, <2>4 DEF ListsInv
<1>5. CASE ChangeFails(i)
  <2>1. /\ changing' = [changing EXCEPT ![i] = NotChanging]
        /\ unaware' = IF changing[i].phase = "done" THEN page.filters ELSE unaware
        /\ UNCHANGED <<page, rows, queryVars, formVars, lost, others>>
    BY <1>5 DEF ChangeFails
  <2>2. ListsTypes'
    BY <1>0, <1>1, <2>1 DEF ListsInv, ListsTypes, queryVars
  <2>3. OnceInv'
    BY <1>1, <2>1, OnceKept DEF ListsInv, Made, Live
  <2>4. TruthInv'
    <3>1. CASE changing[i].phase = "done"
      <4>1. \A f \in page.filters : f \in unaware'
        BY <2>1, <3>1
      <4> QED BY <2>1, <4>1 DEF TruthInv, ListsInv, ListsTypes, queryVars
    <3>2. CASE changing[i].phase # "done"
      <4>1. AnswerDue => AnswerDue'
        BY <1>1, <2>1, <3>2 DEF ListsInv, ListsTypes, AnswerDue
      <4> QED BY <2>1, <3>2, <4>1, QueriesAlone DEF queryVars
    <3> QED BY <3>1, <3>2
  <2> QED BY <2>2, <2>3, <2>4 DEF ListsInv
<1> QED BY <1>2, <1>3, <1>4, <1>5

LEMMA OthersStep ==
  ASSUME ListsInv, OthersChange
  PROVE  ListsInv'
<1>1. /\ unaware' = page.filters
      /\ UNCHANGED <<page, queryVars, formVars, changing, lost>>
  BY DEF OthersChange
<1>2. TruthInv'
  BY <1>1 DEF TruthInv, ListsInv, ListsTypes, queryVars
<1>3. CASE rows' = Append(rows, [text |-> 0, on |-> TRUE])
  <2> DEFINE r == [text |-> 0, on |-> TRUE]
  <2>1. r \in RowRecords /\ r.text = 0 /\ rows' = Append(rows, r)
    BY <1>3 DEF RowRecords
  <2> HIDE DEF r
  <2>2. /\ rows' \in Seq(RowRecords) /\ rows'[Len(rows) + 1] = r
        /\ DOMAIN rows' = DOMAIN rows \union {Len(rows) + 1} /\ Len(rows) + 1 \notin DOMAIN rows
        /\ \A j \in DOMAIN rows : rows'[j] = rows[j]
    BY <2>1, RowsAppended DEF ListsInv, ListsTypes
  <2>3. ListsTypes'
    BY <1>1, <2>1, <2>2 DEF ListsInv, ListsTypes, queryVars, formVars
  <2>4. \A t \in 1..fills : Made(t)' \subseteq Made(t)
    BY <1>1, <2>1, <2>2 DEF Made, Live
  <2> QED BY <1>1, <1>2, <2>3, <2>4, OnceKept DEF ListsInv, formVars
<1>4. ASSUME NEW i \in DOMAIN rows, Live(i), rows' = [rows EXCEPT ![i].on = ~@]
      PROVE  ListsInv'
  <2> DEFINE b == ~rows[i].on
  <2>1. b \in BOOLEAN /\ rows' = [rows EXCEPT ![i].on = b]
    BY <1>4
  <2> HIDE DEF b
  <2>2. /\ rows' \in Seq(RowRecords) /\ DOMAIN rows' = DOMAIN rows
        /\ \A j \in DOMAIN rows : rows'[j].text = rows[j].text
        /\ \A j \in DOMAIN rows \ {i} : rows'[j] = rows[j]
    BY <2>1, RowsFlagged DEF ListsInv, ListsTypes
  <2>3. ListsTypes'
    BY <1>1, <2>2 DEF ListsInv, ListsTypes, queryVars, formVars
  <2>4. \A t \in 1..fills : Made(t)' \subseteq Made(t)
    BY <1>1, <1>4, <2>2 DEF Made, Live
  <2> QED BY <1>1, <1>2, <2>3, <2>4, OnceKept DEF ListsInv, formVars
<1> QED BY <1>3, <1>4 DEF OthersChange

LEMMA ListsStep == ListsInv /\ [ListsNext]_listsVars => ListsInv'
<1>1. ListsInv /\ UNCHANGED listsVars => ListsInv'
  <2> SUFFICES ASSUME ListsInv, UNCHANGED listsVars PROVE ListsInv'
    OBVIOUS
  <2>1. ListsTypes'
    BY DEF listsVars, ListsInv, ListsTypes
  <2>2. TruthInv'
    BY QueriesAlone DEF listsVars, AnswerDue
  <2>3. OnceInv'
    BY OnceKept DEF listsVars, ListsInv, Made, Live
  <2> QED BY <2>1, <2>2, <2>3 DEF ListsInv
<1> QED BY <1>1, QueriesStep, FormSteps, ButtonSteps, OthersStep DEF ListsNext

\* What Listed leaves out is older than all it has: a LIMIT cuts the end.
LEMMA OlderAreCut ==
  ASSUME NEW f, NEW n \in Nat, rows \in Seq(RowRecords), NEW i \in Matching(f), NEW j \in Matching(f),
         [id |-> i, on |-> rows[i].on] \in Newest(f, n),
         [id |-> j, on |-> rows[j].on] \notin Newest(f, n)
  PROVE  j < i
<1> DEFINE Above(k) == {l \in Matching(f) : l > k}
<1>1. /\ Matching(f) \subseteq 1..Len(rows) /\ Len(rows) \in Nat
      /\ IsFiniteSet(Matching(f)) /\ i \in Nat /\ j \in Nat
  <2>1. Matching(f) \subseteq 1..Len(rows) /\ Len(rows) \in Nat
    BY DEF Matching
  <2>2. IsFiniteSet(1..Len(rows))
    BY <2>1, FS_Interval
  <2>3. IsFiniteSet(Matching(f))
    BY <2>1, <2>2, FS_Subset
  <2>4. i \in 1..Len(rows) /\ j \in 1..Len(rows)
    BY <2>1
  <2> QED BY <2>1, <2>3, <2>4
<1>2. IsFiniteSet(Above(i)) /\ IsFiniteSet(Above(j))
  BY <1>1, FS_Subset
<1>3. Cardinality(Above(i)) < n
  <2>1. PICK k \in Matching(f) :
          Cardinality(Above(k)) < n /\ [id |-> i, on |-> rows[i].on] = [id |-> k, on |-> rows[k].on]
    BY DEF Newest
  <2>2. k = i
    BY <2>1
  <2> QED BY <2>1, <2>2
<1>4. ~(Cardinality(Above(j)) < n)
  BY DEF Newest
<1>5. ASSUME i <= j PROVE FALSE
  <2>1. Above(j) \subseteq Above(i)
    BY <1>1, <1>5
  <2>2. Cardinality(Above(j)) <= Cardinality(Above(i)) /\ Cardinality(Above(i)) \in Nat
        /\ Cardinality(Above(j)) \in Nat
    BY <1>2, <2>1, FS_Subset, FS_CardinalityType
  <2> HIDE DEF Above
  <2> QED BY <1>3, <1>4, <2>2
<1> QED BY <1>1, <1>5

\* Every mutation tells all queries of its page, the one that may read too early
\* is the one that knows it: the list shown is what the handler would answer, the
\* newest rows up to its LIMIT (OlderAreCut), for any LIMIT and any number of
\* rows, filters, texts and changes.
THEOREM ListsTell == ListsSpec => []ListTruthful
<1>1. ListsInv => ListTruthful
  <2> SUFFICES ASSUME ListsInv, request[filter] = NotFetching, cache[filter].known,
                      adding = NotAdding, \A i \in RowIds : changing[i] = NotChanging,
                      filter \notin unaware
      PROVE cache[filter].items = Listed(filter)
    BY DEF ListTruthful
  <2>1. ~AnswerDue
    BY DEF AnswerDue, NotAdding, NotChanging
  <2>2. filter \in page.filters /\ filter \notin stale
    BY DEF ListsInv, ListsTypes, TruthInv
  <2> QED BY <2>1, <2>2 DEF ListsInv, TruthInv, QueryTruthful
<1> QED BY <1>1, ListsInitially, ListsStep, PTL DEF ListsSpec

\* A text is in the form, on its way, or a row, and not two of them unless an
\* answer was lost; where names are unique no two rows have one, ever.
THEOREM FormsAddOnce == ListsSpec => []EntryCreatedOnce
<1>1. ListsInv => EntryCreatedOnce
  <2> SUFFICES ASSUME ListsInv, NEW t \in 1..fills, Cardinality(Made(t)) > 1
      PROVE t \in lost /\ ~page.unique
    BY DEF EntryCreatedOnce, Made
  <2>1. ASSUME \A i, j \in Made(t) : i = j PROVE FALSE
    <3>1. CASE Made(t) = {}
      BY <3>1, FS_EmptySet
    <3>2. ASSUME NEW i \in Made(t) PROVE FALSE
      <4>1. Made(t) = {i}
        BY <2>1, <3>2
      <4> QED BY <4>1, FS_Singleton
    <3> QED BY <3>1, <3>2
  <2> QED BY <2>1 DEF ListsInv, OnceInv
<1> QED BY <1>1, ListsInitially, ListsStep, PTL DEF ListsSpec

(***************************************************************************)
(* TYPES. Seven invariants include the types of their part; what git's     *)
(* answers and the rows listed are takes a look at the handlers.           *)
(***************************************************************************)
LEMMA ThemesTypes == ThemesSpec => []ThemesTypeOK
<1>1. ThemesInv => ThemesTypeOK
  BY DEF ThemesInv
<1> QED BY <1>1, ThemesInitially, ThemesStep, PTL DEF ThemesSpec

LEMMA MigrateTypes == MigrateSpec => []MigrateTypeOK
<1>1. MigrateInv => MigrateTypeOK
  BY DEF MigrateInv
<1> QED BY <1>1, MigrateInitially, MigrateStep, PTL DEF MigrateSpec

LEMMA NavigationTypes == NavigationSpec => []NavigationTypeOK
<1>1. NavigationInv => NavigationTypeOK
  BY DEF NavigationInv
<1> QED BY <1>1, NavigationInitially, NavigationStep, PTL DEF NavigationSpec

LEMMA SettingsTypes == SettingsSpec => []SettingsTypeOK
<1>1. SettingsInv => SettingsTypeOK
  BY DEF SettingsInv
<1> QED BY <1>1, SettingsInitially, SettingsStep, PTL DEF SettingsSpec

LEMMA ProfileTypes == ProfileSpec => []ProfileTypeOK
<1>1. ProfileInv => ProfileTypeOK
  BY DEF ProfileInv
<1> QED BY <1>1, ProfileInitially, ProfileStep, PTL DEF ProfileSpec

LEMMA AvatarKinds == AvatarSpec => []AvatarTypeOK
<1>1. AvatarInv => AvatarTypeOK
  BY DEF AvatarInv, AvatarTypes, AvatarTypeOK, TaskRecords
<1> QED BY <1>1, AvatarInitially, AvatarStep, PTL DEF AvatarSpec

\* What the handler answers is a listing.
LEMMA ContentsType ==
  ASSUME BrowseTypeOK, NEW b \in Branches, NEW p \in Paths
  PROVE  Contents(b, p) \in Listings /\ Failed \in Listings
<1>1. trees[b] \in SUBSET TreeFiles
  BY DEF BrowseTypeOK
<1>2. LsTree(trees[b], p) \in SUBSET [path : Paths, tree : BOOLEAN]
  <2>1. ASSUME NEW f \in trees[b] PROVE SubSeq(f, 1, 1) \in Paths
    BY <1>1, <2>1, FirstName
  <2>2. ASSUME NEW q \in Paths PROVE Entry(trees[b], q) \in [path : Paths, tree : BOOLEAN]
    BY DEF Entry
  <2>3. CASE p = <<>>
    BY <2>1, <2>2, <2>3 DEF LsTree
  <2>4. CASE p # <<>>
    BY <2>2, <2>4 DEF LsTree
  <2> QED BY <2>3, <2>4
<1> QED BY <1>2 DEF Contents, Failed, Listings

LEMMA BrowseKinds == BrowseSpec => []BrowseTypeOK
<1>1. BrowseInit => BrowseTypeOK
  <2>1. <<>> \in Paths
    BY RootIsAPath
  <2> QED BY <2>1, BrowseAssumption
          DEF BrowseInit, BrowseTypeOK, Addresses, Unasked, Held, NoData, Listings
<1>2. BrowseInv /\ BrowseTypeOK /\ [BrowseNext]_browseVars => BrowseTypeOK'
  <2> SUFFICES ASSUME BrowseInv, BrowseTypeOK, [BrowseNext]_browseVars PROVE BrowseTypeOK'
    OBVIOUS
  <2>1. BrowseInv'
    BY BrowseStep
  <2>2. ASSUME NEW k \in QueryKeys, FetchContents(k) PROVE BrowseTypeOK'
    <3>1. PICK data \in {Contents(k.branch, k.path), Failed} :
            query' = [query EXCEPT ![k] =
              Held(IF data = Failed THEN query[k].data ELSE data, data = Failed, pushes)]
      BY <2>2 DEF FetchContents
    <3>2. data \in Listings
      BY KeyTypes, ContentsType
    <3>3. Held(IF data = Failed THEN query[k].data ELSE data, data = Failed, pushes)
            \in [data : Listings, error : BOOLEAN, asked : Nat]
      BY <3>2 DEF Held, BrowseTypeOK
    <3> HIDE DEF Held
    <3> QED BY <2>2, <3>1, <3>3 DEF BrowseTypeOK, FetchContents
  <2>3. CASE UNCHANGED query
    BY <2>1, <2>3 DEF BrowseTypeOK, BrowseInv
  <2> QED BY <2>2, <2>3 DEF BrowseNext, FollowLink, TypeAddress, Push, browseVars
<1> QED BY <1>1, <1>2, BrowseInitially, BrowseStep, PTL DEF BrowseSpec

TypedRows == [text : 0..MaxFills, on : BOOLEAN]

LEMMA PageType ==
  ASSUME page \in ListPages
  PROVE  page.limit \in 1..MaxRows
  BY ListsAssumption DEF ListPages, IssuesPage, ReleasesPage, SSHKeysPage, TokensPage, UsersPage

LEMMA ListedType ==
  ASSUME ListsTypeOK, NEW f, NEW n
  PROVE  ListOf(Newest(f, n)) \in AnyList
<1>1. page.limit \in 1..MaxRows /\ MaxRows \in Nat /\ Len(rows) <= page.limit
      /\ rows \in Seq(TypedRows)
  BY PageType, ListsAssumption DEF ListsTypeOK, TypedRows
<1>2. ASSUME NEW i \in DOMAIN rows PROVE [id |-> i, on |-> rows[i].on] \in Items
  <2>1. rows[i] \in TypedRows
    BY <1>1, <1>2
  <2>2. rows[i].on \in BOOLEAN
    BY <2>1 DEF TypedRows
  <2>3. i \in 1..MaxRows
    BY <1>1, <1>2
  <2> QED BY <2>2, <2>3 DEF Items, RowIds
<1>3. Newest(f, n) \in SUBSET Items
  BY <1>2 DEF Newest, Matching
<1> QED BY <1>3 DEF ListOf, AnyList

LEMMA ListsTypesInitially == ListsInit => ListsTypeOK
<1> SUFFICES ASSUME ListsInit PROVE ListsTypeOK
  OBVIOUS
<1>1. NoList \in AnyList /\ NotAdding \in [phase : {"none", "sent", "done"}, text : 0..MaxFills]
      /\ NotChanging \in [phase : {"none", "sent", "done"}, on : BOOLEAN]
  BY ListsAssumption DEF NoList, AnyList, NotAdding, NotChanging
<1>2. {NotFetching, Requested} \subseteq [phase : {"none", "sent", "read"}, list : AnyList]
  BY <1>1 DEF NotFetching, Requested
<1>3. rows \in Seq(TypedRows) /\ Len(rows) <= page.limit
  <2> DEFINE r == [text |-> 0, on |-> TRUE]
  <2>1. r \in TypedRows /\ rows \in {<<>>, <<r>>}
    BY ListsAssumption DEF ListsInit, TypedRows
  <2> HIDE DEF r
  <2>2. <<r>> \in Seq(TypedRows) /\ Len(<<r>>) = 1
    BY <2>1
  <2>3. <<>> \in Seq(TypedRows) /\ Len(<<>>) = 0
    OBVIOUS
  <2>4. page.limit \in 1..MaxRows /\ MaxRows \in Nat
    BY PageType, ListsAssumption DEF ListsInit
  <2>5. CASE rows = <<>>
    BY <2>3, <2>4, <2>5
  <2>6. CASE rows = <<r>>
    BY <2>2, <2>4, <2>6
  <2> QED BY <2>1, <2>5, <2>6
<1> QED BY <1>1, <1>2, <1>3, ListsAssumption DEF ListsInit, ListsTypeOK, TypedRows

LEMMA RowsFlaggedType ==
  ASSUME rows \in Seq(TypedRows), NEW i, NEW b \in BOOLEAN, rows' = [rows EXCEPT ![i].on = b]
  PROVE  rows' \in Seq(TypedRows) /\ Len(rows') = Len(rows)
<1>1. PICK n \in Nat : n = Len(rows) /\ DOMAIN rows = 1..n
  OBVIOUS
<1>2. ASSUME NEW j \in 1..n PROVE rows'[j] \in TypedRows
  <2>1. rows[j] \in TypedRows
    BY <1>1
  <2>2. rows'[j] = IF j = i THEN [rows[j] EXCEPT !.on = b] ELSE rows[j]
    BY <1>1
  <2>3. [rows[j] EXCEPT !.on = b] \in TypedRows
    BY <2>1 DEF TypedRows
  <2> QED BY <2>1, <2>2, <2>3
<1>3. rows' = [j \in 1..n |-> rows'[j]]
  BY <1>1
<1>4. rows' \in [1..n -> TypedRows]
  BY <1>2, <1>3
<1> QED BY <1>1, <1>4

LEMMA InvalidateType ==
  ASSUME ListsTypeOK, Invalidate, UNCHANGED <<page, filter>>
  PROVE  /\ stale' \subseteq page.filters /\ unaware' \subseteq page.filters
         /\ request' \in [page.filters -> [phase : {"none", "sent", "read"}, list : AnyList]]
<1>1. Requested \in [phase : {"none", "sent", "read"}, list : AnyList]
  BY DEF Requested, NoList, AnyList
<1> QED BY <1>1 DEF Invalidate, ListsTypeOK

LEMMA ListsTypesStep ==
  ListsInv /\ ListsTypeOK /\ [ListsNext]_listsVars => ListsTypeOK'
<1> SUFFICES ASSUME ListsInv, ListsTypeOK, [ListsNext]_listsVars PROVE ListsTypeOK'
  OBVIOUS
<1> USE DEF queryVars, formVars
<1>1. /\ NotAdding \in [phase : {"none", "sent", "done"}, text : 0..MaxFills]
      /\ NotChanging \in [phase : {"none", "sent", "done"}, on : BOOLEAN]
      /\ {NotFetching, Requested} \subseteq [phase : {"none", "sent", "read"}, list : AnyList]
      /\ MaxFills \in Nat /\ MaxOthers \in Nat
      /\ rows \in Seq(TypedRows)
  BY ListsAssumption
     DEF NoList, AnyList, NotAdding, NotChanging, NotFetching, Requested, ListsTypeOK, TypedRows
<1>2. ASSUME NEW f \in page.filters, ReadList(f) PROVE ListsTypeOK'
  BY <1>2, ListedType DEF ReadList, Listed, ListsTypeOK
<1>3. ASSUME NEW f \in page.filters, TakeList(f) PROVE ListsTypeOK'
  BY <1>1, <1>3 DEF TakeList, ListsTypeOK
<1>4. ASSUME NEW f \in page.filters, ListFails(f) PROVE ListsTypeOK'
  BY <1>1, <1>4 DEF ListFails, ListsTypeOK
<1>5. ASSUME NEW f \in page.filters, Show(f) PROVE ListsTypeOK'
  <2>1. request' \in [page.filters -> [phase : {"none", "sent", "read"}, list : AnyList]]
    BY <1>1, <1>5 DEF Show, ListsTypeOK
  <2> QED BY <1>5, <2>1 DEF Show, ListsTypeOK
<1>6. CASE TypeText
  <2>1. fills' \in 0..MaxFills /\ fills' >= fills /\ fill' \in 0..fills'
    BY <1>1, <1>6 DEF TypeText, FillIn, ListsTypeOK
  <2>2. UNCHANGED <<page, rows, filter, cache, stale, request, adding, changing, unaware, lost, others>>
    BY <1>6 DEF TypeText, FillIn
  <2>3. lost' \subseteq 1..fills'
    BY <1>1, <2>1, <2>2 DEF ListsTypeOK
  <2> QED BY <2>1, <2>2, <2>3 DEF ListsTypeOK
<1>7. CASE SubmitForm
  BY <1>1, <1>7 DEF SubmitForm, ListsTypeOK
<1>8. CASE Insert
  <2>1. [text |-> adding.text, on |-> TRUE] \in TypedRows /\ Len(rows) < page.limit
        /\ page.limit \in Nat
    BY <1>8, PageType, ListsAssumption DEF Insert, ListsTypeOK, TypedRows
  <2>2. rows' = Append(rows, [text |-> adding.text, on |-> TRUE])
    BY <1>8 DEF Insert
  <2>3. rows' \in Seq(TypedRows) /\ Len(rows') <= page.limit
    BY <1>1, <2>1, <2>2
  <2> QED BY <1>8, <2>3 DEF Insert, ListsTypeOK, TypedRows
<1>9. CASE Added
  <2>1. Invalidate /\ fill' = 0 /\ adding' = NotAdding
        /\ UNCHANGED <<page, rows, filter, cache, fills, changing, lost, others>>
    BY <1>9 DEF Added
  <2> QED BY <1>1, <2>1, InvalidateType DEF ListsTypeOK
<1>10. CASE AddFails
  <2>1. lost' \subseteq 1..fills /\ unaware' \subseteq page.filters
    <3>1. CASE adding.phase = "done"
      BY <1>10, <3>1 DEF AddFails, ListsTypeOK, ListsInv, ListsTypes
    <3>2. CASE adding.phase # "done"
      BY <1>10, <3>2 DEF AddFails, ListsTypeOK
    <3> QED BY <3>1, <3>2
  <2> QED BY <1>1, <1>10, <2>1 DEF AddFails, ListsTypeOK
<1>11. ASSUME NEW i \in RowIds, PressButton(i) PROVE ListsTypeOK'
  <2>1. PICK b \in BOOLEAN : changing' = [changing EXCEPT ![i] = [phase |-> "sent", on |-> b]]
    BY <1>11 DEF PressButton
  <2>2. changing' \in [RowIds -> [phase : {"none", "sent", "done"}, on : BOOLEAN]]
    BY <2>1 DEF ListsTypeOK
  <2> QED BY <1>11, <2>2 DEF PressButton, ListsTypeOK
<1>12. ASSUME NEW i \in RowIds, ChangeRow(i) PROVE ListsTypeOK'
  <2>1. rows' = [rows EXCEPT ![i].on = changing[i].on] /\ changing[i].on \in BOOLEAN
    BY <1>12 DEF ChangeRow, ListsTypeOK
  <2>2. rows' \in Seq(TypedRows) /\ Len(rows') = Len(rows)
    BY <1>1, <2>1, RowsFlaggedType
  <2> QED BY <1>12, <2>2 DEF ChangeRow, ListsTypeOK, TypedRows
<1>13. ASSUME NEW i \in RowIds, Changed(i) PROVE ListsTypeOK'
  <2>1. Invalidate /\ changing' = [changing EXCEPT ![i] = NotChanging]
        /\ UNCHANGED <<page, rows, filter, cache, fills, fill, adding, lost, others>>
    BY <1>13 DEF Changed
  <2> QED BY <1>1, <2>1, InvalidateType DEF ListsTypeOK
<1>14. ASSUME NEW i \in RowIds, ChangeFails(i) PROVE ListsTypeOK'
  BY <1>1, <1>14 DEF ChangeFails, ListsTypeOK
<1>15. CASE OthersChange
  <2>1. others' \in 0..MaxOthers /\ unaware' = page.filters
        /\ UNCHANGED <<page, filter, cache, stale, request, fills, fill, adding, changing, lost>>
    BY <1>1, <1>15 DEF OthersChange, ListsTypeOK
  <2>2. rows' \in Seq(TypedRows) /\ Len(rows') <= page.limit
    <3>1. CASE Len(rows) < page.limit /\ rows' = Append(rows, [text |-> 0, on |-> TRUE])
      <4>1. [text |-> 0, on |-> TRUE] \in TypedRows /\ page.limit \in Nat
        BY <1>1, PageType, ListsAssumption DEF TypedRows, ListsTypeOK
      <4> QED BY <1>1, <3>1, <4>1
    <3>2. ASSUME NEW i \in DOMAIN rows, rows' = [rows EXCEPT ![i].on = ~@]
          PROVE  rows' \in Seq(TypedRows) /\ Len(rows') <= page.limit
      <4>1. rows' = [rows EXCEPT ![i].on = ~rows[i].on] /\ (~rows[i].on) \in BOOLEAN
        BY <3>2
      <4> QED BY <1>1, <4>1, RowsFlaggedType DEF ListsTypeOK
    <3> QED BY <1>15, <3>1, <3>2 DEF OthersChange
  <2> QED BY <2>1, <2>2 DEF ListsTypeOK, TypedRows
<1>16. CASE UNCHANGED listsVars
  BY <1>16 DEF listsVars, ListsTypeOK
<1>17. ASSUME NEW f \in page.filters, ReadShort(f) PROVE ListsTypeOK'
  BY <1>17, ListedType DEF ReadShort, ListsTypeOK
<1> QED BY <1>2, <1>3, <1>4, <1>5, <1>6, <1>7, <1>8, <1>9, <1>10, <1>11, <1>12, <1>13, <1>14,
           <1>15, <1>16, <1>17 DEF ListsNext

LEMMA ListsKinds == ListsSpec => []ListsTypeOK
  BY ListsInitially, ListsStep, ListsTypesInitially, ListsTypesStep, PTL DEF ListsSpec

(***************************************************************************)
(* TOGETHER. The instance that TLC checks moves one part at a time; each   *)
(* part behaves in it as its own specification says, so that what holds of *)
(* the parts holds of it, for every value of the constants.                *)
(***************************************************************************)
\* Every behaviour of the instance is one of each of the nine specifications: the
\* parts that rest stutter, and no part's step touches another's variables.
THEOREM PartsAreParts ==
  PartsSpec => /\ ThemesSpec /\ MarkdownSpec /\ ProfileSpec /\ AvatarSpec /\ SettingsSpec
               /\ ListsSpec /\ MigrateSpec /\ NavigationSpec /\ BrowseSpec
<1>1. PartsInit => /\ ThemesInit /\ MarkdownInit /\ ProfileInit /\ AvatarInit /\ SettingsInit
                   /\ ListsInit /\ MigrateInit /\ NavigationInit /\ BrowseInit
  BY DEF PartsInit
<1>2. ASSUME [PartsNext]_partsVars
      PROVE  /\ [ThemesNext]_themesVars /\ [MarkdownNext]_mdVars /\ [ProfileNext]_profileVars
             /\ [AvatarNext]_avatarVars /\ [SettingsNext]_settingsVars /\ [ListsNext]_listsVars
             /\ [MigrateNext]_migrateVars /\ [NavigationNext]_navigationVars
             /\ [BrowseNext]_browseVars
  BY <1>2 DEF PartsNext, partsVars
<1> QED BY <1>1, <1>2, PTL DEF PartsSpec, ThemesSpec, MarkdownSpec, ProfileSpec, AvatarSpec,
           SettingsSpec, ListsSpec, MigrateSpec, NavigationSpec, BrowseSpec

\* Each handler and page writes values of its types only, the one that moves and
\* those that rest.
THEOREM PartsKeepTypes == PartsSpec => []PartsTypeOK
<1> DEFINE Names == {"themes", "markdown", "profile", "avatar", "settings", "lists", "migrate",
                     "navigation", "browse"}
<1>1. PartsInit => part \in Names
  BY DEF PartsInit
<1>2. part \in Names /\ [PartsNext]_partsVars => (part \in Names)'
  BY DEF PartsNext, partsVars
<1>3. /\ part \in Names
      /\ ThemesTypeOK /\ MarkdownTypeOK /\ ProfileTypeOK /\ AvatarTypeOK /\ SettingsTypeOK
      /\ ListsTypeOK /\ MigrateTypeOK /\ NavigationTypeOK /\ BrowseTypeOK
      => PartsTypeOK
  BY DEF PartsTypeOK
<1> HIDE DEF Names
<1> QED BY <1>1, <1>2, <1>3, PartsAreParts, ThemesTypes, MarkdownTypes, ProfileTypes, AvatarKinds,
           SettingsTypes, ListsKinds, MigrateTypes, NavigationTypes, BrowseKinds, PTL DEF PartsSpec
=============================================================================
