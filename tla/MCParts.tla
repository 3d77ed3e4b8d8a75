------------------------------ MODULE MCParts ------------------------------
(* The parts that share no state with one another, as one instance for TLC:  *)
(* a behaviour is one of one part, the others rest in an initial state.      *)
EXTENDS Themes, Markdown, Profile, Avatar, SiteSettings, Lists, Migrate, Navigation, Browse

VARIABLE part   \* the part that moves, never changed

partsVars == <<part, themesVars, mdVars, profileVars, avatarVars, settingsVars, listsVars,
               migrateVars, navigationVars, browseVars>>

\* What TLC tells states by: the others never move, so that their variables say
\* nothing more.
PartsView ==
    <<part, CASE part = "themes"     -> themesVars
              [] part = "markdown"   -> mdVars
              [] part = "profile"    -> profileVars
              [] part = "avatar"     -> avatarVars
              [] part = "settings"   -> settingsVars
              [] part = "lists"      -> listsVars
              [] part = "migrate"    -> migrateVars
              [] part = "navigation" -> navigationVars
              [] part = "browse"     -> browseVars>>

\* Constants of Browse
MCFiles == {<<"readme">>, <<"src", "main">>}
MCReadme == <<"readme">>

(* Every part keeps to its types. *)
PartsTypeOK ==
    CASE part = "themes"     -> ThemesTypeOK
      [] part = "markdown"   -> MarkdownTypeOK
      [] part = "profile"    -> ProfileTypeOK
      [] part = "avatar"     -> AvatarTypeOK
      [] part = "settings"   -> SettingsTypeOK
      [] part = "lists"      -> ListsTypeOK
      [] part = "migrate"    -> MigrateTypeOK
      [] part = "navigation" -> NavigationTypeOK
      [] part = "browse"     -> BrowseTypeOK

\* A part that rests is in one of its initial states only; the repository to
\* browse is empty or full, pushes make it anything else. (Their types hold of
\* initial states; stated here, TLC has all values in full before it begins.)
PartsInit ==
    /\ part \in {"themes", "markdown", "profile", "avatar", "settings", "lists", "migrate",
                 "navigation", "browse"}
    /\ ThemesInit /\ (part # "themes" => stored = NoTheme /\ ~prefersDark)
    /\ MarkdownInit /\ AvatarInit /\ SettingsInit /\ MigrateInit
    /\ ProfileInit /\ (part # "profile" => row[DisplayName] = CHOOSE v \in ProfileValues : v # Blank)
    /\ ListsInit /\ (part # "lists" => page = ReleasesPage /\ rows = <<>>)
    /\ NavigationInit /\ (part # "navigation" => where = "home" /\ auth = "out")
    /\ BrowseInit /\ trees[DefaultBranch] \in {{}, IF part = "browse" THEN TreeFiles ELSE {}}
    /\ ThemesTypeOK /\ MarkdownTypeOK /\ ProfileTypeOK /\ AvatarTypeOK /\ SettingsTypeOK
    /\ ListsTypeOK /\ MigrateTypeOK /\ NavigationTypeOK /\ BrowseTypeOK

PartsNext ==
    \/ part = "themes" /\ ThemesNext
         /\ UNCHANGED <<part, mdVars, profileVars, avatarVars, settingsVars, listsVars,
                        migrateVars, navigationVars, browseVars>>
    \/ part = "markdown" /\ MarkdownNext
         /\ UNCHANGED <<part, themesVars, profileVars, avatarVars, settingsVars, listsVars,
                        migrateVars, navigationVars, browseVars>>
    \/ part = "profile" /\ ProfileNext
         /\ UNCHANGED <<part, themesVars, mdVars, avatarVars, settingsVars, listsVars,
                        migrateVars, navigationVars, browseVars>>
    \/ part = "avatar" /\ AvatarNext
         /\ UNCHANGED <<part, themesVars, mdVars, profileVars, settingsVars, listsVars,
                        migrateVars, navigationVars, browseVars>>
    \/ part = "settings" /\ SettingsNext
         /\ UNCHANGED <<part, themesVars, mdVars, profileVars, avatarVars, listsVars,
                        migrateVars, navigationVars, browseVars>>
    \/ part = "lists" /\ ListsNext
         /\ UNCHANGED <<part, themesVars, mdVars, profileVars, avatarVars, settingsVars,
                        migrateVars, navigationVars, browseVars>>
    \/ part = "migrate" /\ MigrateNext
         /\ UNCHANGED <<part, themesVars, mdVars, profileVars, avatarVars, settingsVars,
                        listsVars, navigationVars, browseVars>>
    \/ part = "navigation" /\ NavigationNext
         /\ UNCHANGED <<part, themesVars, mdVars, profileVars, avatarVars, settingsVars,
                        listsVars, migrateVars, browseVars>>
    \/ part = "browse" /\ BrowseNext
         /\ UNCHANGED <<part, themesVars, mdVars, profileVars, avatarVars, settingsVars,
                        listsVars, migrateVars, navigationVars>>

PartsSpec == PartsInit /\ [][PartsNext]_partsVars
=============================================================================
