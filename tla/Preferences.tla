---------------------------- MODULE Preferences ----------------------------
(***************************************************************************)
(* Language, theme and the width of the sidebar: what is chosen, what is   *)
(* painted, and what the browser keeps.  The text of a language is a chunk *)
(* that has to be loaded; English stands in for one that cannot be.        *)
(***************************************************************************)
EXTENDS Naturals, FiniteSets

CONSTANTS Languages,     \* SUPPORTED_LANGUAGES
          English,       \* "en"
          MaxChoices     \* bound: choices, reloads and changes of the system

ASSUME LanguagesAssumption == English \in Languages /\ MaxChoices \in Nat

VARIABLES lang,          \* the language that is chosen
          translations,  \* the language of the text that is painted, or "none"
          ready,         \* whether anything has been painted
          loads,         \* the loads under way; `cancelled` when the language changed since
          chunks,        \* the texts that are in memory
          theme,         \* "light", "dark" or "system"
          systemDark,    \* what the system prefers
          painted,       \* "light" or "dark": what the page is painted in
          collapsed,     \* whether the sidebar is narrow
          stored,        \* localStorage
          choices        \* counts what MaxChoices bounds

theText == <<lang, translations, ready, loads, chunks>>
theLook == <<theme, systemDark, painted>>
prefVars == <<theText, theLook, collapsed, stored, choices>>

THEME_CYCLE == <<"light", "dark", "system">>
Themes == {THEME_CYCLE[i] : i \in DOMAIN THEME_CYCLE}
nextTheme(current) == THEME_CYCLE[((CHOOSE i \in DOMAIN THEME_CYCLE : THEME_CYCLE[i] = current) % 3) + 1]

resolvedTheme(chosen, dark) == IF chosen # "system" THEN chosen ELSE IF dark THEN "dark" ELSE "light"

Text == Languages \cup {"none"}
Load == [lang : Languages, cancelled : BOOLEAN]
Selections == [lang : Text, theme : Themes, collapsed : BOOLEAN]
NothingStored == [lang |-> "none", theme |-> "system", collapsed |-> FALSE]

Fresh(l) == [lang |-> l, cancelled |-> FALSE]

\* What the page opens with: what is stored, else the language of the browser.
OpensWith(kept, dark) ==
    /\ IF kept.lang \in Languages THEN lang' = kept.lang ELSE lang' \in Languages
    /\ translations' = "none" /\ ready' = FALSE /\ chunks' = {} /\ loads' = {Fresh(lang')}
    /\ theme' = kept.theme /\ painted' = resolvedTheme(kept.theme, dark) /\ collapsed' = kept.collapsed

PrefInit ==
    /\ lang \in Languages /\ translations = "none" /\ ready = FALSE /\ chunks = {}
    /\ loads = {Fresh(lang)}
    /\ systemDark \in BOOLEAN /\ theme = "system" /\ painted = resolvedTheme("system", systemDark)
    /\ collapsed = FALSE /\ stored = NothingStored /\ choices = 0

Choice == choices < MaxChoices /\ choices' = choices + 1

(***************************************************************************)
(* The language.                                                           *)
(***************************************************************************)
\* As a bug: a load that is too late is painted all the same.
Hears(load) == TRUE

StillWanted(load) == ~load.cancelled

\* loadTranslations() brings the chunk, goes on to English, or has nothing at all.
LoadEnds(load) ==
    /\ load \in loads
    /\ \/ /\ loads' = loads \ {load} /\ chunks' = chunks \cup {load.lang}
          /\ IF StillWanted(load) THEN translations' = load.lang /\ ready' = TRUE
                                  ELSE UNCHANGED <<translations, ready>>
       \/ /\ load.lang \notin chunks /\ load.lang # English
          /\ loads' = (loads \ {load}) \cup {[load EXCEPT !.lang = English]}
          /\ UNCHANGED <<translations, ready, chunks>>
       \/ /\ load.lang \notin chunks /\ load.lang = English
          /\ loads' = loads \ {load} /\ UNCHANGED chunks
          /\ IF StillWanted(load) THEN translations' = "none" /\ ready' = TRUE
                                  ELSE UNCHANGED <<translations, ready>>
    /\ UNCHANGED <<lang, theLook, collapsed, stored, choices>>

\* The choice is stored before it is made: when the browser refuses, it is not made.
SetLang(l) ==
    /\ Choice
    /\ ready /\ l # lang
    /\ \/ UNCHANGED <<lang, loads, stored>>
       \/ /\ stored' = [stored EXCEPT !.lang = l] /\ lang' = l
          /\ loads' = {[load EXCEPT !.cancelled = TRUE] : load \in loads} \cup {Fresh(l)}
    /\ UNCHANGED <<translations, ready, chunks, theLook, collapsed>>

(***************************************************************************)
(* The theme and the sidebar: painted at once, and stored if the browser   *)
(* lets it.                                                                *)
(***************************************************************************)
MayStore(kept) == stored' \in {stored, kept}

ToggleTheme ==
    /\ Choice
    /\ ready /\ theme' = nextTheme(theme) /\ painted' = resolvedTheme(theme', systemDark)
    /\ MayStore([stored EXCEPT !.theme = theme'])
    /\ UNCHANGED <<theText, systemDark, collapsed>>

SystemTurns ==
    /\ Choice
    /\ systemDark' = ~systemDark /\ painted' = resolvedTheme(theme, systemDark')
    /\ IF painted' # painted THEN MayStore([stored EXCEPT !.theme = theme]) ELSE UNCHANGED stored
    /\ UNCHANGED <<theText, theme, collapsed>>

ToggleSidebar ==
    /\ Choice
    /\ ready /\ collapsed' = ~collapsed /\ MayStore([stored EXCEPT !.collapsed = collapsed'])
    /\ UNCHANGED <<theText, theLook>>

ReloadPage ==
    /\ Choice
    /\ OpensWith(stored, systemDark)
    /\ UNCHANGED <<systemDark, stored>>

PrefNext ==
    \/ ToggleTheme \/ SystemTurns \/ ToggleSidebar \/ ReloadPage
    \/ \E load \in loads : LoadEnds(load)
    \/ \E l \in Languages : SetLang(l)

PrefSpec == PrefInit /\ [][PrefNext]_prefVars
(***************************************************************************)
(* What is promised of a choice.                                           *)
(***************************************************************************)
PrefTypeOK ==
    /\ lang \in Languages /\ translations \in Text /\ ready \in BOOLEAN /\ chunks \subseteq Languages
    /\ loads \subseteq Load /\ theme \in Themes /\ systemDark \in BOOLEAN
    /\ painted \in {"light", "dark"} /\ collapsed \in BOOLEAN /\ stored \in Selections
    /\ choices \in 0..MaxChoices

\* Once nothing is being loaded for it, the page is in the language that was chosen last or in
\* the one that stands in for it, however the loads overtook each other (i18n/index.tsx:172-184).
TextIsOfTheLanguage ==
    ready /\ (\A load \in loads : load.cancelled) => translations \in {lang, English, "none"}

\* The first screen is only blank while the text for it is on its way (i18n/index.tsx:221).
BlankEnds == ready \/ \E load \in loads : ~load.cancelled

\* The page is painted in the theme that was chosen, or in what the system prefers now
\* (theme.tsx:60-81).
PaintedAsChosen == painted = resolvedTheme(theme, systemDark)

\* What a reload opens with is the language that was chosen last (i18n/index.tsx:191-196).
LanguageIsKept == stored.lang \in {lang, "none"}
=============================================================================
