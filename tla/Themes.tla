------------------------------- MODULE Themes -------------------------------
(* The themes of one browser tab: what localStorage names, what applyTheme   *)
(* painted on the root element, and the two components that keep a copy of   *)
(* the theme of their own: the button in the header, whose state is read     *)
(* once when the page loads, and the page Settings / Appearance.             *)
(* External: another tab that stores a theme, and the preference of the      *)
(* device, which is looked at by applyTheme and never listened to.           *)

LightThemes == {"light", "sepia", "solarized-light"}
DarkThemes == {"dark", "dim", "high-contrast", "nord", "solarized-dark",
               "dracula", "github-dark", "monokai"}
ThemeIds == LightThemes \union DarkThemes \union {"system"}

NoTheme == "none"   \* nothing, or nothing known, is stored; no such page is open

\* The ids the header's button takes for dark ones.
ToggleKnowsDark == {"dark", "dim", "dracula", "nord", "monokai",
                    "github-dark", "solarized-dark", "high-contrast"}

VARIABLES
    stored,        \* localStorage softgit_theme
    painted,       \* the theme whose variables are set on :root
    darkClass,     \* the root element has the class 'dark'
    shellTheme,    \* state `theme' of AppShell
    marked,        \* state `themeId' of the Appearance page, if it is open
    prefersDark    \* the device prefers a dark scheme

themesVars == <<stored, painted, darkClass, shellTheme, marked, prefersDark>>

ThemesTypeOK ==
    /\ stored \in ThemeIds \union {NoTheme}
    /\ painted \in (ThemeIds \ {"system"}) \union {NoTheme}
    /\ darkClass \in BOOLEAN
    /\ shellTheme \in ThemeIds \union {NoTheme}
    /\ marked \in ThemeIds \union {NoTheme}
    /\ prefersDark \in BOOLEAN

ThemesInit ==
    /\ stored \in ThemeIds \union {NoTheme}
    /\ painted = NoTheme /\ darkClass = FALSE
    /\ shellTheme = NoTheme /\ marked = NoTheme
    /\ prefersDark \in BOOLEAN

StoredThemeId == IF stored = NoTheme THEN "dark" ELSE stored

\* `system' stands for the theme `dark' or `light'.
Resolve(id) == IF id # "system" THEN id ELSE IF prefersDark THEN "dark" ELSE "light"

\* A bug: the class of the theme before is not removed.
ApplyThemeKeepsClass(id) ==
    /\ painted' = Resolve(id)
    /\ darkClass' = (darkClass \/ Resolve(id) \in DarkThemes)
    /\ stored' = id

\* Clears what any theme set, then sets the variables and the class of id.
ApplyTheme(id) ==
    /\ painted' = Resolve(id)
    /\ darkClass' = (Resolve(id) \in DarkThemes)
    /\ stored' = id

\* The page is loaded or reloaded: main.tsx and the effect of AppShell.
LoadThemes ==
    /\ ApplyTheme(StoredThemeId)
    /\ shellTheme' = StoredThemeId
    /\ marked' = NoTheme
    /\ UNCHANGED prefersDark

\* The header's button. It decides by its own state, not by what is painted.
ToggleTheme ==
    /\ shellTheme # NoTheme
    /\ shellTheme' = IF shellTheme \in ToggleKnowsDark THEN "light" ELSE "dark"
    /\ ApplyTheme(shellTheme')
    /\ UNCHANGED <<marked, prefersDark>>

OpenAppearance ==
    /\ shellTheme # NoTheme /\ marked = NoTheme
    /\ marked' = StoredThemeId
    /\ UNCHANGED <<stored, painted, darkClass, shellTheme, prefersDark>>

SelectTheme(id) ==
    /\ marked # NoTheme
    /\ marked' = id
    /\ ApplyTheme(id)
    /\ UNCHANGED <<shellTheme, prefersDark>>

LeaveAppearance ==
    /\ marked # NoTheme
    /\ marked' = NoTheme
    /\ UNCHANGED <<stored, painted, darkClass, shellTheme, prefersDark>>

DeviceFlips ==
    /\ prefersDark' = ~prefersDark
    /\ UNCHANGED <<stored, painted, darkClass, shellTheme, marked>>

OtherTabStores(id) ==
    /\ stored' = id
    /\ UNCHANGED <<painted, darkClass, shellTheme, marked, prefersDark>>

ThemesNext ==
    \/ LoadThemes \/ ToggleTheme
    \/ OpenAppearance \/ LeaveAppearance
    \/ DeviceFlips
    \/ \E id \in ThemeIds : SelectTheme(id) \/ OtherTabStores(id)

ThemesSpec == ThemesInit /\ [][ThemesNext]_themesVars

-----------------------------------------------------------------------------
(* A press of the header's button turns a dark page light and a light one    *)
(* dark, whatever other tabs stored and whatever the device prefers by now,  *)
(* as long as the page shows what the button last set: no theme was selected *)
(* under Settings since. (AppShell.tsx 85-96, applyTheme. The button does    *)
(* not know what `system' stands for, so that its first press there may show *)
(* no change: the property speaks of named themes.)                          *)
ToggleFlips == [][ToggleTheme /\ painted = shellTheme => darkClass' # darkClass]_themesVars
=============================================================================
