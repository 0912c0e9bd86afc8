------------------------------ MODULE Palette ------------------------------
(***************************************************************************)
(* The command palette: pages, services, integrations and actions matched  *)
(* against what is typed.  The services and the integrations are read when *)
(* it opens and may arrive, or fail, at any key.  An item is a model value *)
(* and the score of a text against it a number, -1 for none.               *)
(***************************************************************************)
EXTENDS Integers, FiniteSets, SequencesExt, Queries

CONSTANTS Entries, Actions, \* the items of the program, in order
          EndpointLists,    \* the lists of services the server may have
          HostLists,        \* the lists of integrations
          Texts,            \* what can be typed
          Rank,             \* the score of each text against each item: -1..2
          LIMIT             \* how many services or integrations are shown, by whether a text is typed

ASSUME NoneIsNoList == None \notin EndpointLists \cup HostLists

VARIABLES endpointsAt, hostsAt, \* the server
          endpoints, hosts,     \* the queries ['services'] and ['providers']
          opened,               \* whether the palette is
          typedText, activeRow  \* the text, and the row the keys have reached

paletteVars == <<endpointsAt, hostsAt, endpoints, hosts, opened, typedText, activeRow>>

Given(query) == IF query.data = None THEN <<>> ELSE query.data

\* What a text finds of a group: the better scores first, in the order of the group.
Ranked(items) ==
    IF typedText = "" THEN items
    ELSE LET Scored(n) == SelectSeq(items, LAMBDA item : Rank[typedText][item] = n)
         IN  Scored(0) \o Scored(1) \o Scored(2)
Shortened(items) == SubSeq(items, 1, IF Len(items) < LIMIT[typedText # ""] THEN Len(items) ELSE LIMIT[typedText # ""])

flat == Ranked(Entries) \o Shortened(Ranked(Given(endpoints))) \o Shortened(Ranked(Given(hosts))) \o Ranked(Actions)

\* As a bug: the row stays where it was when the list has shrunk.
RowAsLeft == activeRow

\* The row that is lit, 0 when there is none.
litIndex == LET count == Len(flat) IN IF activeRow > count THEN count ELSE activeRow

listsPending == \E query \in {endpoints, hosts} : Pending(query) /\ query.ask = "asked"
listsFailed == endpoints.error \/ hosts.error

\* As a bug: a list that has not arrived is taken for an empty one.
SaysOnlyFailures == IF listsFailed THEN "unread" ELSE "nothing found"

EmptySays == IF listsFailed THEN "unread" ELSE IF listsPending THEN "loading" ELSE "nothing found"

PaletteInit ==
    /\ endpointsAt \in EndpointLists /\ hostsAt \in HostLists
    /\ endpoints = Unasked /\ hosts = Unasked
    /\ opened = FALSE /\ typedText = "" /\ activeRow = 1

\* What was read within half a minute is not read again.
OpenPalette ==
    /\ ~opened /\ opened' = TRUE /\ typedText' = "" /\ activeRow' = 1
    /\ endpoints' \in {Asked(endpoints)} \cup {query \in {endpoints} : Usable(query)}
    /\ hosts' \in {Asked(hosts)} \cup {query \in {hosts} : Usable(query)}
    /\ UNCHANGED <<endpointsAt, hostsAt>>

\* Escape, or a row that is picked: it is run as the palette closes.
ClosePalette ==
    /\ opened /\ opened' = FALSE
    /\ UNCHANGED <<endpointsAt, hostsAt, endpoints, hosts, typedText, activeRow>>

ListArrives ==
    /\ \/ endpoints.ask = "asked" /\ endpoints' \in {Landed(endpointsAt), Failed(endpoints)} /\ UNCHANGED hosts
       \/ hosts.ask = "asked" /\ hosts' \in {Landed(hostsAt), Failed(hosts)} /\ UNCHANGED endpoints
    /\ UNCHANGED <<endpointsAt, hostsAt, opened, typedText, activeRow>>

TypeQuery(text) ==
    /\ opened /\ text # typedText /\ typedText' = text /\ activeRow' = 1
    /\ UNCHANGED <<endpointsAt, hostsAt, endpoints, hosts, opened>>

\* As a bug: the keys go on from where they were, past the end of a list that became shorter.
GoesOn(step) == IF step = 1 THEN (activeRow % Len(flat)) + 1 ELSE ((activeRow - 2) % Len(flat)) + 1

Arrow(step) == IF step = 1 THEN (litIndex % Len(flat)) + 1 ELSE ((litIndex - 2) % Len(flat)) + 1

\* The arrows, which go round; Home and End; the pointer.
MoveRow ==
    /\ opened
    /\ IF Len(flat) = 0 THEN activeRow' = 1
       ELSE activeRow' \in {Arrow(1), Arrow(-1)} \cup 1..Len(flat)
    /\ UNCHANGED <<endpointsAt, hostsAt, endpoints, hosts, opened, typedText>>

RetryLists ==
    /\ opened /\ listsFailed
    /\ endpoints' = IF endpoints.error THEN Asked(endpoints) ELSE endpoints
    /\ hosts' = IF hosts.error THEN Asked(hosts) ELSE hosts
    /\ UNCHANGED <<endpointsAt, hostsAt, opened, typedText, activeRow>>

\* The server's lists change, and the page under the palette reads either of them again, or
\* none: it may not show it, or what it had read again joined a first fetch.
EstateChanges ==
    /\ endpointsAt' \in EndpointLists /\ hostsAt' \in HostLists
    /\ endpoints' \in {endpoints, Asked(endpoints)} /\ hosts' \in {hosts, Asked(hosts)}
    /\ UNCHANGED <<opened, typedText, activeRow>>

PaletteNext ==
    \/ OpenPalette \/ ClosePalette \/ ListArrives \/ MoveRow \/ RetryLists \/ EstateChanges
    \/ \E text \in Texts \cup {""} : TypeQuery(text)

PaletteSpec == PaletteInit /\ [][PaletteNext]_paletteVars

(***************************************************************************)
(* What the palette promises.                                              *)
(***************************************************************************)
PaletteTypeOK ==
    /\ endpoints \in Query(EndpointLists) /\ hosts \in Query(HostLists) /\ opened \in BOOLEAN
    /\ typedText \in Texts \cup {""}

\* "No matches" is only said of lists that were read: not of one that is on its way, and
\* not of one that failed (CommandPalette.tsx:110-117).
NothingFoundIsTrue ==
    opened /\ flat = <<>> /\ EmptySays = "nothing found" =>
        endpoints.data # None /\ hosts.data # None /\ ~listsFailed

\* No item is listed twice; the arrows undo each other and go on from the row that is lit, a row
\* of the list, whatever the list became since the last key (CommandPalette.tsx:233-243).
ArrowsGoRound ==
    opened /\ flat # <<>> =>
        /\ IsInjective(flat) /\ litIndex \in DOMAIN flat
        /\ Arrow(1) = (IF litIndex = Len(flat) THEN 1 ELSE litIndex + 1)
        /\ Arrow(-1) = (IF litIndex = 1 THEN Len(flat) ELSE litIndex - 1)
=============================================================================
