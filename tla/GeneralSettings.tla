-------------------------- MODULE GeneralSettings --------------------------
(***************************************************************************)
(* The general tab of the settings.  Each card keeps what is typed in it   *)
(* and is mounted anew, with what the server holds, when a setting of its  *)
(* own changes; the cards share one save.  The health checks and the       *)
(* reconciliation have a switch, an interval and a number of days; the     *)
(* policy on the public target is checked before it is sent; the timezone  *)
(* is picked in a list filtered by what is typed.                          *)
(***************************************************************************)
EXTENDS Integers, Sequences, FiniteSets, SequencesExt, Queries

CONSTANTS Days,          \* the greatest interval and number of days
          Zones,         \* names of timezones, a sequence
          MaxDraftEdits, \* bound: fields edited
          MaxSaves       \* bound: saves sent

ASSUME SettingsAssumption ==
    Days \in Nat /\ Days >= 2 /\ MaxDraftEdits \in Nat /\ MaxSaves \in Nat

VARIABLES settingsAt,    \* the settings at the server, by card
          settingsQ,     \* the query ['settings']
          drafts,        \* what is typed in each card that is mounted
          zoneText, zoneValue, zoneOpen, activeIndex, \* the list of timezones
          savings,       \* the save under way, or None
          unsure,        \* whether the answer to a save was lost
          draftEdits, saves   \* count what the bounds bound

zoneList == <<zoneText, zoneValue, zoneOpen, activeIndex>>
settingCounts == <<draftEdits, saves>>
settingVars == <<settingsAt, settingsQ, drafts, zoneList, savings, unsure, settingCounts>>

SwitchCards == {"health", "reconcile"}
SettingCards == SwitchCards \cup {"policy"}
Default == 2
NaN == -1
Raw == {NaN, 0, Default, Days + 1}     \* what a number field may hold

\* 0 is off.
StoredAs(card) ==
    IF card = "policy" THEN {"server first", "proxy first"}
    ELSE [on : BOOLEAN, every : 0..Days, days : 1..Days]
AllSettings == [health : StoredAs("health"), reconcile : StoredAs("reconcile"), policy : StoredAs("policy")]
ASSUME NoneIsNoSetting == None \notin AllSettings

Draft(card) ==
    IF card = "policy" THEN {"server first", "proxy first", "unknown word"}
    ELSE [on : BOOLEAN, every : Raw \cup 1..Days, days : Raw \cup 1..Days]

\* What a card starts from.
SeedOf(card, stored) ==
    IF card = "policy" THEN stored[card]
    ELSE [stored[card] EXCEPT !.every = IF @ = 0 THEN Default ELSE @]

(***************************************************************************)
(* What is sent.                                                           *)
(***************************************************************************)
\* As a bug: nothing keeps a number above zero.
ClampAbove(raw) == IF raw = NaN THEN Default ELSE IF raw > Days THEN Days ELSE raw

clampInt(raw) == CASE raw = NaN -> Default
                   [] raw = 0 -> 1
                   [] raw > Days -> Days
                   [] OTHER -> raw

Sent(card) ==
    LET draft == drafts[card]
    IN  IF card = "policy" THEN draft
        ELSE [on |-> draft.on, every |-> IF draft.on THEN clampInt(draft.every) ELSE 0, days |-> clampInt(draft.days)]
priorityInvalid == drafts["policy"] = "unknown word"

CardsMounted == settingsQ.data # None /\ ~settingsQ.error

SettingsInit ==
    /\ settingsAt \in [health : {[on |-> TRUE, every |-> 1, days |-> 1]},
                       reconcile : {[on |-> on, every |-> IF on THEN Default ELSE 0, days |-> 1] : on \in BOOLEAN},
                       policy : {"server first"}]
    /\ settingsQ = Asked(Unasked) /\ drafts = [card \in SettingCards |-> None]
    /\ zoneText = "" /\ zoneValue = "" /\ zoneOpen = FALSE /\ activeIndex = 1
    /\ savings = None /\ unsure = FALSE /\ draftEdits = 0 /\ saves = 0

\* As a bug: one key over the settings of all the cards.
ReseededTogether(card, before, after) == before = None \/ before # after

\* The key of a card changes.
Reseeded(card, before, after) == before = None \/ before[card] # after[card]

\* A failed reading shows its error in place of the cards.
SettingsLand ==
    /\ settingsQ.ask = "asked"
    /\ \/ /\ settingsQ' = Landed(settingsAt)
          /\ drafts' = [card \in SettingCards |->
                IF drafts[card] = None \/ Reseeded(card, settingsQ.data, settingsAt)
                THEN SeedOf(card, settingsAt) ELSE drafts[card]]
          /\ UNCHANGED zoneList
       \/ /\ settingsQ' = Failed(settingsQ) /\ drafts' = [card \in SettingCards |-> None]
          /\ zoneText' = "" /\ zoneValue' = "" /\ zoneOpen' = FALSE /\ activeIndex' = 1
    /\ UNCHANGED <<settingsAt, savings, unsure, settingCounts>>

SettingsRetry ==
    /\ settingsQ.error /\ settingsQ.ask = "idle" /\ settingsQ' = Asked(settingsQ)
    /\ UNCHANGED <<settingsAt, drafts, zoneList, savings, unsure, settingCounts>>

EditCard(card) ==
    /\ CardsMounted /\ draftEdits < MaxDraftEdits /\ draftEdits' = draftEdits + 1
    /\ \E draft \in Draft(card) \ {drafts[card]} :
          /\ card \in SwitchCards =>
                Cardinality({field \in {"on", "every", "days"} : draft[field] # drafts[card][field]}) = 1
          /\ card \in SwitchCards /\ draft.every # drafts[card].every => draft.on /\ draft.every \in Raw
          /\ card \in SwitchCards /\ draft.days # drafts[card].days => draft.days \in Raw
          /\ drafts' = [drafts EXCEPT ![card] = draft]
    /\ UNCHANGED <<settingsAt, settingsQ, zoneList, savings, unsure, saves>>

SaveCard(card) ==
    /\ CardsMounted /\ savings = None /\ saves < MaxSaves /\ saves' = saves + 1
    /\ card = "policy" => ~priorityInvalid
    /\ savings' = [card |-> card, values |-> Sent(card), at |-> "sent"]
    /\ UNCHANGED <<settingsAt, settingsQ, drafts, zoneList, unsure, draftEdits>>

ServeSave ==
    /\ savings # None /\ savings.at = "sent"
    /\ \/ savings' = [savings EXCEPT !.at = "failed"] /\ UNCHANGED <<settingsAt, unsure>>
       \/ /\ settingsAt' = [settingsAt EXCEPT ![savings.card] = savings.values]
          /\ \E at \in {"done", "failed"} :
                savings' = [savings EXCEPT !.at = at] /\ unsure' = (unsure \/ at = "failed")
    /\ UNCHANGED <<settingsQ, drafts, zoneList, settingCounts>>

CardSaveLands ==
    /\ savings # None /\ savings.at # "sent" /\ savings' = None
    /\ settingsQ' = IF savings.at = "done" THEN Asked(settingsQ) ELSE settingsQ
    /\ UNCHANGED <<settingsAt, drafts, zoneList, unsure, settingCounts>>

(***************************************************************************)
(* The list of timezones.                                                  *)
(***************************************************************************)
\* Nothing typed since the last choice: the whole list, the browser's zone first.
Fits(zone) == zoneText \in {"", zoneValue} \/ (zoneText = "E" /\ zone = "Europe")
ZoneOptions == SelectSeq(Zones, Fits)
Lesser(m, n) == IF m < n THEN m ELSE n
Greater(m, n) == IF m < n THEN n ELSE m

\* As a bug: what is typed leaves the row that is marked where it was.
KeepIndex == activeIndex

\* The row marked in a list that was filtered anew.
FreshIndex == 1

TypeZone ==
    /\ CardsMounted /\ draftEdits < MaxDraftEdits /\ draftEdits' = draftEdits + 1
    /\ \E text \in {"", "E", "xx"} : text # zoneText /\ zoneText' = text
    /\ zoneOpen' = TRUE /\ activeIndex' = FreshIndex
    /\ UNCHANGED <<settingsAt, settingsQ, drafts, zoneValue, savings, unsure, saves>>

MoveZone ==
    /\ CardsMounted /\ draftEdits < MaxDraftEdits /\ draftEdits' = draftEdits + 1
    /\ \/ zoneOpen' = TRUE /\ activeIndex' = Lesser(Len(ZoneOptions), activeIndex + 1)
       \/ activeIndex' = Greater(1, activeIndex - 1) /\ UNCHANGED zoneOpen
    /\ UNCHANGED <<settingsAt, settingsQ, drafts, zoneText, zoneValue, savings, unsure, saves>>

ChooseZone ==
    /\ CardsMounted /\ draftEdits < MaxDraftEdits /\ draftEdits' = draftEdits + 1
    /\ zoneOpen /\ activeIndex \in DOMAIN ZoneOptions
    /\ zoneText' = ZoneOptions[activeIndex] /\ zoneValue' = zoneText' /\ zoneOpen' = FALSE /\ activeIndex' = 1
    /\ UNCHANGED <<settingsAt, settingsQ, drafts, savings, unsure, saves>>

LeaveZone ==
    /\ zoneOpen /\ zoneOpen' = FALSE
    /\ UNCHANGED <<settingsAt, settingsQ, drafts, zoneText, zoneValue, activeIndex, savings, unsure, settingCounts>>

SettingsNext ==
    \/ SettingsLand \/ SettingsRetry \/ ServeSave \/ CardSaveLands
    \/ \E card \in SettingCards : EditCard(card) \/ SaveCard(card)
    \/ TypeZone \/ MoveZone \/ ChooseZone \/ LeaveZone

SettingsSpec == SettingsInit /\ [][SettingsNext]_settingVars

(***************************************************************************)
(* What the tab promises.                                                  *)
(***************************************************************************)
SettingsTypeOK ==
    /\ \A card \in SettingCards : drafts[card] = None \/ drafts[card] \in Draft(card)
    /\ settingsQ.ask \in {"idle", "asked"} 
    /\ zoneOpen \in BOOLEAN /\ unsure \in BOOLEAN
    /\ savings = None \/ savings.card \in SettingCards
    /\ draftEdits \in 0..MaxDraftEdits /\ saves \in 0..MaxSaves

\* Whatever is typed, no number of the two clamped cards reaches the server that it
\* would refuse, and an interval of none only with the switch off (GeneralTab.tsx:42);
\* the time-out of the public address is not clamped, and no part of this (647).
StoredIsSound ==
    /\ \A card \in SettingCards : settingsAt[card] \in StoredAs(card)
    /\ \A card \in SwitchCards : (settingsAt[card].every = 0) = ~settingsAt[card].on

\* Saving a card, and reading the settings after it, leaves what is typed in the
\* others (GeneralTab.tsx:84).
OthersKeepTheirs ==
    [][\A card \in SettingCards : settingsQ.ask = "asked" /\ settingsQ'.ask = "idle" /\ ~settingsQ'.error
          /\ drafts[card] # None /\ settingsAt[card] = settingsQ.data[card] => drafts'[card] = drafts[card]]_settingVars

\* The row that is marked is a row of the list, unless the list has none, and a zone that was
\* chosen is one the server knows (GeneralTab.tsx:288).
MarkedIsListed ==
    /\ activeIndex \in DOMAIN ZoneOptions \/ ZoneOptions = <<>> \/ activeIndex = 0
    /\ activeIndex \in 0..Len(Zones) /\ zoneValue \in ToSet(Zones)
=============================================================================
