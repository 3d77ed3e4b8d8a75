\* Nine parts, one at a time: see the bounds below.
CONSTANTS
  \* Markdown: texts of up to six lines
  MaxLines = 6
  \* Profile: one tab and one client, two fields, two updates of the row
  ProfileTabs = {tab}
  ProfileClients = {client}
  ProfileFields = {name, bio}
  ProfileValues = {blank, text}
  Blank = blank
  DisplayName = name
  MaxRevision = 3
  \* Avatar: two uploads and a deletion
  Uploads = {up1, up2}
  Deletions = {del1}
  Types = {png, jpg}
  \* SiteSettings: one administrator's page and one script, two keys
  Admins = {admin}
  Scripts = {script}
  Keys = {key1, key2}
  SettingValues = {0, 1}
  DefaultValue = 0
  MaxStores = 3
  \* Lists: two filters, two issues with one mutation at once, two rows with two;
  \* one issue and one release are listed, two of all others
  IssueFilters = {"open", "closed"}
  IssuesListed = 1
  ReleasesListed = 1
  UsersListed = 2
  MaxIssues = 2
  MaxRows = 2
  MaxFills = 1
  MaxOthers = 1
  MaxIssuePending = 1
  MaxPending = 2
  \* Migrate: three servers, three migrations, one of them rerunnable
  Replicas = {r1, r2, r3}
  MigrationCount = 3
  Rerunnable = {2}
  \* Browse: two branches, one push, two queries held
  Branches = {"main", "dev"}
  DefaultBranch = "main"
  TreeFiles <- MCFiles
  Readme <- MCReadme
  MaxPushes = 1
  MaxHeld = 2
SPECIFICATION PartsSpec
VIEW PartsView
CHECK_DEADLOCK FALSE
INVARIANTS
  PartsTypeOK
  RendersAll
  AvatarServed
  ListTruthful
  EntryCreatedOnce
  SchemaComplete
  SignInReturns
  ListsItsBranch
PROPERTIES
  ToggleFlips
  SavesOnlyEdits
  SettingsOnlyEdited
  RedirectsEnd
  CommittedOnce
