------------------------------- MODULE Journal -------------------------------
(***************************************************************************)
(* The journal in the settings: a page of the log, asked by page and       *)
(* level, and the live view over it, which a stream of events feeds.  A    *)
(* stream starts at what is logged after it was opened, is opened again    *)
(* once, and then gives way to polling the page.  (A page that was read    *)
(* before is shown as it was until it is read again; here the last page    *)
(* that was read stays, as it does the first time.)                        *)
(***************************************************************************)
EXTENDS Integers, FiniteSets, SequencesExt, Queries

CONSTANTS PerPage,       \* entries on a page
          LIVE_CAP,      \* entries that the live view keeps
          LevelOfEntry,  \* the level of each entry, by id
          MaxSwitches, MaxReads \* bounds: switching on, readings and clearings

VARIABLES journalAt,     \* the server: the ids of the entries
          lastLogged,    \* the server: the last id given
          stream,        \* the connection: what the server read to, and what is on its way
          page, level, logsQ, \* the page asked, and the query of it
          live, liveState, liveEntries,
          retried,       \* whether the stream was opened again
          opened,        \* how often it was, since the switch was turned on
          clearing,      \* the question and the request that empty the log
          switches, logReads \* count what the bounds bound

journalServer == <<journalAt, lastLogged>>
journalPage == <<page, level, logsQ>>
journalLive == <<stream, live, liveState, liveEntries, retried, opened, switches>>
journalVars == <<journalServer, journalPage, journalLive, clearing, logReads>>

EntryIds == DOMAIN LevelOfEntry

ASSUME JournalAssumption == EntryIds = 1..Len(LevelOfEntry) /\ Len(LevelOfEntry) \in Nat \ {0}

Levels == {LevelOfEntry[e] : e \in EntryIds}
Newest(ids) == SetToSortSeq(ids, >)
Largest(ids) == IF ids = {} THEN 0 ELSE Newest(ids)[1]

(***************************************************************************)
(* A page of the log, newest first.                                        *)
(***************************************************************************)
Kept(ids) == {e \in ids : level = None \/ LevelOfEntry[e] = level}
PagesOf(n) == IF n = 0 THEN 1 ELSE (n + PerPage - 1) \div PerPage
LogsPage ==
    LET all == Newest(Kept(journalAt))
        first == (page - 1) * PerPage + 1
    IN  [items |-> SubSeq(all, first, IF first + PerPage - 1 < Len(all) THEN first + PerPage - 1 ELSE Len(all)),
         total |-> Len(all), pages |-> PagesOf(Len(all))]

pages == IF logsQ.data = None THEN 1 ELSE logsQ.data.pages
PageItems == IF logsQ.data = None THEN <<>> ELSE logsQ.data.items

\* As a bug: what the live view has is on the page as well.
WholePage == PageItems
FromPage == SelectSeq(PageItems, LAMBDA e : e \notin ToSet(liveEntries))

\* The list that is shown: what came live, then the page.
LogRows == SelectSeq(liveEntries \o FromPage, LAMBDA e : e \in Kept(EntryIds))

Closed == [at |-> "closed", last |-> 0, coming |-> <<>>]
Streaming == stream.at # "closed"
polling == live /\ liveState = "fallback"
\* No question covers the journal.
Free == clearing # "asking"

JournalInit ==
    /\ journalAt = {1} /\ lastLogged = 1 /\ stream = Closed
    /\ page = 1 /\ level = None /\ logsQ = Asked(Unasked)
    /\ live = FALSE /\ liveState = "idle" /\ liveEntries = <<>> /\ retried = FALSE /\ opened = 0
    /\ clearing = "idle" /\ switches = 0 /\ logReads = 0

LogSomething ==
    /\ lastLogged + 1 \in EntryIds /\ lastLogged' = lastLogged + 1 /\ journalAt' = journalAt \cup {lastLogged'}
    /\ UNCHANGED <<journalPage, journalLive, clearing, logReads>>

ReadLogs ==
    /\ logReads < MaxReads /\ logReads' = logReads + 1 /\ logsQ' = Asked(logsQ)

LogsLand ==
    /\ logsQ.ask = "asked" /\ logsQ' \in {Landed(LogsPage), Failed(logsQ)}
    /\ UNCHANGED <<journalServer, page, level, journalLive, clearing, logReads>>

\* The poll of the fallback, or the button.
RefreshLogs ==
    /\ logsQ.ask = "idle" /\ (polling \/ Free) /\ ReadLogs
    /\ UNCHANGED <<journalServer, page, level, journalLive, clearing>>

TurnPage ==
    /\ Free /\ logReads < MaxReads /\ logReads' = logReads + 1
    /\ \/ page > 1 /\ page' = page - 1
       \/ page < pages /\ page' = page + 1
    /\ logsQ' = Asked(logsQ)
    /\ UNCHANGED <<journalServer, level, journalLive, clearing>>

changeLevel ==
    /\ Free /\ ReadLogs /\ level' \in (Levels \cup {None}) \ {level} /\ page' = 1
    /\ UNCHANGED <<journalServer, journalLive, clearing>>

(***************************************************************************)
(* The live view.                                                          *)
(***************************************************************************)
OpenStream(times) == stream' = [at |-> "connecting", last |-> 0, coming |-> <<>>] /\ opened' = times

SwitchOn ==
    /\ Free /\ ~live /\ switches < MaxSwitches /\ switches' = switches + 1
    /\ live' = TRUE /\ liveState' = "connecting" /\ retried' = FALSE
    /\ OpenStream(1)
    /\ UNCHANGED <<journalServer, journalPage, liveEntries, clearing, logReads>>

\* As a bug: what came live stays.
KeepsLive == liveEntries
LiveAfterOff == <<>>

SwitchOff ==
    /\ Free /\ live /\ live' = FALSE /\ liveState' = "idle" /\ stream' = Closed
    /\ liveEntries' = LiveAfterOff /\ logsQ' \in Reread(logsQ)
    /\ UNCHANGED <<journalServer, page, level, retried, opened, switches, clearing, logReads>>

\* The server sends what is logged from here on.
StreamOpens ==
    /\ stream.at = "connecting" /\ liveState' = "open"
    /\ stream' = [stream EXCEPT !.at = "open", !.last = Largest(journalAt)]
    /\ UNCHANGED <<journalServer, journalPage, live, liveEntries, retried, opened, switches, clearing, logReads>>

\* A tick of the server.
StreamReads ==
    /\ stream.at = "open"
    /\ LET new == {e \in journalAt : e > stream.last}
       IN  new # {} /\ stream' = [stream EXCEPT !.last = Largest(new), !.coming = @ \o SetToSortSeq(new, <)]
    /\ UNCHANGED <<journalServer, journalPage, live, liveState, liveEntries, retried, opened, switches, clearing, logReads>>

AddLive(e) ==
    LET more == IF e \in ToSet(liveEntries) THEN liveEntries ELSE <<e>> \o liveEntries
    IN  SubSeq(more, 1, IF Len(more) < LIVE_CAP THEN Len(more) ELSE LIVE_CAP)

StreamMessage ==
    /\ Streaming /\ stream.coming # <<>>
    /\ stream' = [stream EXCEPT !.coming = Tail(@)] /\ liveEntries' = AddLive(Head(stream.coming))
    /\ UNCHANGED <<journalServer, journalPage, live, liveState, retried, opened, switches, clearing, logReads>>

\* As a bug: the stream is opened again whenever it ends.
AlwaysAgain == TRUE
OpensAgain == ~retried

\* The credential changed, the server restarted, or it could not be reached.
StreamEnds ==
    /\ Streaming
    /\ IF OpensAgain
       THEN retried' = TRUE /\ liveState' = "connecting" /\ OpenStream(opened + 1)
       ELSE liveState' = "fallback" /\ stream' = Closed /\ UNCHANGED <<retried, opened>>
    /\ UNCHANGED <<journalServer, journalPage, live, liveEntries, switches, clearing, logReads>>

(***************************************************************************)
(* Clearing.  The server logs that it was done.                            *)
(***************************************************************************)
requestClear ==
    /\ clearing = "idle" /\ logReads < MaxReads /\ logReads' = logReads + 1
    /\ (IF logsQ.data = None THEN 0 ELSE logsQ.data.total) + Len(liveEntries) > 0
    /\ clearing' = "asking"
    /\ UNCHANGED <<journalServer, journalPage, journalLive>>

AnswerClear ==
    /\ clearing = "asking" /\ clearing' \in {"idle", "sent"}
    /\ UNCHANGED <<journalServer, journalPage, journalLive, logReads>>

ServeClear ==
    /\ clearing = "sent"
    /\ \/ clearing' = "failed" /\ UNCHANGED journalServer
       \/ /\ lastLogged + 1 \in EntryIds /\ lastLogged' = lastLogged + 1 /\ journalAt' = {lastLogged'}
          /\ clearing' \in {"done", "failed"}
    /\ UNCHANGED <<journalPage, journalLive, logReads>>

ClearLands ==
    /\ clearing \in {"done", "failed"} /\ clearing' = "idle"
    /\ IF clearing = "done" THEN logsQ' \in Reread(logsQ) /\ page' = 1 /\ liveEntries' = <<>>
       ELSE UNCHANGED <<logsQ, page, liveEntries>>
    /\ UNCHANGED <<journalServer, level, stream, live, liveState, retried, opened, switches, logReads>>

JournalNext ==
    \/ LogSomething \/ LogsLand \/ RefreshLogs \/ TurnPage \/ changeLevel
    \/ SwitchOn \/ SwitchOff \/ StreamOpens \/ StreamReads \/ StreamMessage \/ StreamEnds
    \/ requestClear \/ AnswerClear \/ ServeClear \/ ClearLands

JournalSpec == JournalInit /\ [][JournalNext]_journalVars

(***************************************************************************)
(* What the journal promises.                                              *)
(***************************************************************************)
JournalTypeOK ==
    /\ journalAt \subseteq 1..lastLogged /\ lastLogged \in EntryIds /\ level \in Levels \cup {None}
    /\ liveState \in {"idle", "connecting", "open", "fallback"} /\ (live <=> liveState # "idle")

\* The page that is asked exists, and the live view keeps no more than it may
\* (LogsTab.tsx:91 and 354).
PagesFit ==
    /\ page \in 1..PagesOf(Cardinality(EntryIds))
    /\ ToSet(liveEntries) \subseteq EntryIds /\ Len(liveEntries) <= LIVE_CAP

\* No entry is told twice, though the live view and a page that was read since both have
\* it (LogsTab.tsx:170).
EachEntryOnce == Cardinality(ToSet(LogRows)) = Len(LogRows)

\* A stream is opened once more at most per switch-on, and the journal polls instead: a
\* server that accepts and drops is not connected to in a loop (LogsTab.tsx:99).
OneReconnect == opened <= 2 /\ (live => Streaming \/ polling)

\* Switched off, the journal is the page that was last read (LogsTab.tsx:138).
OffIsThePage == ~live /\ logsQ.data # None => ToSet(LogRows) \subseteq ToSet(PageItems)
=============================================================================
