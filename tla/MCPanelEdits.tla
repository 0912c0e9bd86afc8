--------------------------- MODULE MCPanelEdits ---------------------------
(***************************************************************************)
(* The forms and dialogs of the panel in one instance: the panel shows one *)
(* of them, chosen as it opens, and the variables of the others rest at    *)
(* one fixed initial value.                                                *)
(***************************************************************************)
EXTENDS ProviderForm, RouteForm, Templates, Dialogs, GeneralSettings, Taxonomy,
        AlertsEditor, OptionList, Palette, ApiKeys, Backups, Shell, Preferences, TLC

CONSTANTS t1, t2, t3, l1, l2

VARIABLE screen          \* the page that is shown

TheZones == <<"", "UTC", "Europe">>
TheDomains == [i \in LabelIds |-> IF i = l1 THEN "prod" ELSE "test"]

Opt(value, text, disabled) == [value |-> value, text |-> text, disabled |-> disabled]
OneOption == <<Opt("x", <<"a">>, FALSE)>>
TheLists ==
    {<<>>, OneOption, <<Opt("z", <<"b">>, TRUE)>>,
     <<Opt("x", <<"a">>, FALSE), Opt("y", <<"a", "b">>, FALSE), Opt("z", <<"b">>, TRUE)>>,
     <<Opt("z", <<"b">>, TRUE), Opt("y", <<"a", "a">>, FALSE),
       Opt("v", <<"b">>, TRUE), Opt("x", <<"a", "b">>, FALSE)>>}

TheEntries == <<"home">>
TheActions == <<"new">>
TheEndpoints == {<<>>, <<"web">>, <<"web", "git">>}
TheHosts == {<<>>, <<"npm">>}
TheRank == [none |-> [item \in {"home", "web", "git", "npm", "new"} |-> -1],
            w |-> [home |-> -1, web |-> 0, git |-> -1, npm |-> 1, new |-> 2]]
TheLimit == [searching \in BOOLEAN |-> IF searching THEN 2 ELSE 1]

\* An old file that is sealed under a phrase nobody would get past the form today, an older
\* one that asks for a phrase its secrets were never sealed under, and a plain one of the
\* data that is there.
TheFiles == {[holds |-> [data |-> "old", secrets |-> TRUE], sealed |-> "weak"],
             [holds |-> [data |-> "old", secrets |-> TRUE], sealed |-> "in clear"],
             [holds |-> [data |-> "own", secrets |-> FALSE], sealed |-> None]}

\* Ids and names of labels are interchangeable, so l1 and "prod" are the first that are taken;
\* a template names l1 at most, where no service uses it.
FirstLabels ==
    /\ labelsAt[l1] \in {"prod", None} /\ (labelsAt[l1] = None => labelsAt[l2] = None)
    /\ namedAt \subseteq {l1} \ usersAt

Rests(shown) == screen # shown

PanelInit ==
    /\ screen \in {"integration form", "route form", "templates", "dialogs", "settings", "taxonomy",
                  "alert rules", "select", "palette", "API keys", "backups", "shell", "preferences"}
    /\ FormInit /\ (Rests("integration form") => formHost = "dialog")
    /\ RouteFormInit /\ (Rests("route form") => editing = None /\ live = Integrations)
    /\ TemplatesInit /\ freshIds = {t1} /\ (Rests("templates") => shelf[t2].tunnelled)
    /\ DialogsInit /\ (Rests("dialogs") => host = "page")
    /\ SettingsInit /\ (Rests("settings") => ~settingsAt.reconcile.on)
    /\ TaxonomyInit
    /\ IF Rests("taxonomy") THEN ~domainsTab /\ \A i \in LabelIds : labelsAt[i] = None
       ELSE FirstLabels
    /\ EditorInit /\ (Rests("alert rules") => \A w \in Hooks : rulesAt[w] = None)
    /\ OptionsInit /\ (Rests("select") => options = OneOption /\ current = "x")
    /\ PaletteInit /\ (Rests("palette") => endpointsAt = <<>> /\ hostsAt = <<>>)
    /\ KeysInit
    /\ BackupsInit
    /\ ShellInit /\ (Rests("shell") => page = "settings")
    /\ PrefInit /\ (Rests("preferences") => lang = English /\ ~systemDark)

PanelNext ==
    \/ /\ screen = "integration form" /\ FormNext
       /\ UNCHANGED <<screen, routeFormVars, templateVars, dialogVars, settingVars,
                      taxonomyVars, ruleVars, optionVars, paletteVars, keyVars, backupVars,
                      shellVars, prefVars>>
    \/ /\ screen = "route form" /\ RouteFormNext
       /\ UNCHANGED <<screen, formVars, templateVars, dialogVars, settingVars, taxonomyVars,
                      ruleVars, optionVars, paletteVars, keyVars, backupVars, shellVars,
                      prefVars>>
    \/ /\ screen = "templates" /\ TemplatesNext
       /\ UNCHANGED <<screen, formVars, routeFormVars, dialogVars, settingVars,
                      taxonomyVars, ruleVars, optionVars, paletteVars, keyVars, backupVars,
                      shellVars, prefVars>>
    \/ /\ screen = "dialogs" /\ DialogsNext
       /\ UNCHANGED <<screen, formVars, routeFormVars, templateVars, settingVars,
                      taxonomyVars, ruleVars, optionVars, paletteVars, keyVars, backupVars,
                      shellVars, prefVars>>
    \/ /\ screen = "settings" /\ SettingsNext
       /\ UNCHANGED <<screen, formVars, routeFormVars, templateVars, dialogVars,
                      taxonomyVars, ruleVars, optionVars, paletteVars, keyVars, backupVars,
                      shellVars, prefVars>>
    \/ /\ screen = "taxonomy" /\ TaxonomyNext
       /\ UNCHANGED <<screen, formVars, routeFormVars, templateVars, dialogVars,
                      settingVars, ruleVars, optionVars, paletteVars, keyVars, backupVars,
                      shellVars, prefVars>>
    \/ /\ screen = "alert rules" /\ EditorNext
       /\ UNCHANGED <<screen, formVars, routeFormVars, templateVars, dialogVars,
                      settingVars, taxonomyVars, optionVars, paletteVars, keyVars,
                      backupVars, shellVars, prefVars>>
    \/ /\ screen = "select" /\ OptionsNext
       /\ UNCHANGED <<screen, formVars, routeFormVars, templateVars, dialogVars,
                      settingVars, taxonomyVars, ruleVars, paletteVars, keyVars, backupVars,
                      shellVars, prefVars>>
    \/ /\ screen = "palette" /\ PaletteNext
       /\ UNCHANGED <<screen, formVars, routeFormVars, templateVars, dialogVars,
                      settingVars, taxonomyVars, ruleVars, optionVars, keyVars, backupVars,
                      shellVars, prefVars>>
    \/ /\ screen = "API keys" /\ KeysNext
       /\ UNCHANGED <<screen, formVars, routeFormVars, templateVars, dialogVars,
                      settingVars, taxonomyVars, ruleVars, optionVars, paletteVars,
                      backupVars, shellVars, prefVars>>
    \/ /\ screen = "backups" /\ BackupsNext
       /\ UNCHANGED <<screen, formVars, routeFormVars, templateVars, dialogVars,
                      settingVars, taxonomyVars, ruleVars, optionVars, paletteVars, keyVars,
                      shellVars, prefVars>>
    \/ /\ screen = "shell" /\ ShellNext
       /\ UNCHANGED <<screen, formVars, routeFormVars, templateVars, dialogVars,
                      settingVars, taxonomyVars, ruleVars, optionVars, paletteVars, keyVars,
                      backupVars, prefVars>>
    \/ /\ screen = "preferences" /\ PrefNext
       /\ UNCHANGED <<screen, formVars, routeFormVars, templateVars, dialogVars,
                      settingVars, taxonomyVars, ruleVars, optionVars, paletteVars, keyVars,
                      backupVars, shellVars>>

panelVars == <<screen, formVars, routeFormVars, templateVars, dialogVars, settingVars,
               taxonomyVars, ruleVars, optionVars, paletteVars, keyVars, backupVars,
               shellVars, prefVars>>

PanelSpec == PanelInit /\ [][PanelNext]_panelVars

\* The pages keep their types.
TypeOK ==
    /\ FormTypeOK
    /\ RouteFormTypeOK
    /\ TemplatesTypeOK
    /\ DialogsTypeOK
    /\ SettingsTypeOK
    /\ TaxonomyTypeOK
    /\ EditorTypeOK
    /\ OptionsTypeOK
    /\ PaletteTypeOK
    /\ KeysTypeOK
    /\ BackupsTypeOK
    /\ ShellTypeOK
    /\ PrefTypeOK

\* At rest the templates, the names with what is counted on them, the rules, the API keys and
\* what a restore has written are shown as the server has them (Templates.tsx:207,
\* TaxonomyTab.tsx:160, AlertsEditor.tsx:111-114, ApiKeysTab.tsx:63 and 72,
\* RestoreSection.tsx:58-77, DataTab.tsx:33).
PagesCatchUp == ShelfIsListed /\ CountsCatchUp /\ RulesCatchUp /\ KeysCatchUp /\ ListsFollowRestore

\* A form leads to what it still asks for, lets through only what can be published and
\* stored, and gives a route or a template back as it came.
FormsAreSound ==
    /\ NameBeforeLaterSteps /\ StepExists /\ MissingIsReachable
    /\ WhatPassesIsSound /\ UntouchedIsKept /\ TemplateGivesItBack
    /\ StoredIsSound

\* Under a stack of dialogs the page does not scroll and nobody waits unheard; a key moves to
\* what can be picked, and a list is only called empty once it was read.
BoxesAndListsAreSound ==
    /\ PageIsLockedUnderBoxes /\ NobodyWaitsForever
    /\ MovesLandOnEnabled /\ NothingFoundIsTrue

\* What is said of a secret is true: it is in the clipboard, or in no file that may be given away.
SecretsAreKept == CopiedIsTrue /\ PlainHasNoSecrets

\* One box of the frame at a time and each chord by its own time; the text is of the language
\* that was chosen last, the colours of the theme, and a reload opens with both.
FrameIsSound ==
    /\ OneBoxOfTheFrame /\ OwnTimeOnly
    /\ TextIsOfTheLanguage /\ BlankEnds /\ PaintedAsChosen /\ LanguageIsKept

\* Every screen where something is edited is sound, however it came to be what it is
\* (ProviderFormStep.tsx:127, ExposeModal.tsx:365, GeneralTab.tsx:42, _internal.ts:22,
\* Select.tsx:181-187, CommandPalette.tsx:110, ApiKeysTab.tsx:105, backup.py:136,
\* Layout.tsx:105-124, i18n/index.tsx:172-184, theme.tsx:60-81).
ScreensAreSound == FormsAreSound /\ BoxesAndListsAreSound /\ SecretsAreKept /\ FrameIsSound

\* The row that is lit is one of the list, and the keys - arrows or letters - reach them all
\* (GeneralTab.tsx:288, Select.tsx:190-204, CommandPalette.tsx:233-243).
RowsAreReached == MarkedIsListed /\ TypingReachesAll /\ ArrowsGoRound

\* No step does what the screen does not say: typed work goes by a yes or a save that was
\* made, an answer closes its own row only, a copy is a copy, "nothing uses it" is true, one
\* Escape closes one box, a yes is one that was given, what is written over is what was asked
\* about, a sealed file is opened by its own phrase, and no page is taken from under its dialog
\* (ProviderModal.tsx:106, TemplateModal.tsx:188, GeneralTab.tsx:84, TaxonomyTab.tsx:121 and
\* 440, AlertsEditor.tsx:102, useModalDialog.ts:47, ConfirmDialog.tsx:93,
\* RestoreSection.tsx:141, backup.py:350, Layout.tsx:117-131).
StepsKeepTheirWord ==
    /\ NothingTypedIsLost /\ TypedIsAskedAbout /\ OthersKeepTheirs /\ ReadKeepsTheEdit
    /\ RenameClosesItsOwn /\ CopyIsFaithful /\ UnusedIsTrue
    /\ OneEscapeOneBox /\ YesIsMeant
    /\ ReplacedAsTold /\ SealedNeedsItsPhrase /\ StaysUnderItsDialog
=============================================================================
