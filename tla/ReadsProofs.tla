---------------------------- MODULE ReadsProofs ----------------------------
EXTENDS MCPanelReads, FiniteSetTheorems, WellFoundedInduction, TLAPS

(***************************************************************************)
(* The stream of the journal, for a log of any length and any number of    *)
(* switches: it is opened a second time only once `retried` is set, and    *)
(* turning the switch on is all that clears that mark.                     *)
(***************************************************************************)

Connection == stream = [at |-> stream.at, last |-> stream.last, coming |-> stream.coming]

Reconnects ==
    /\ Connection
    /\ opened \in 0..2 /\ (~retried => opened \in 0..1)
    /\ live => Streaming \/ liveState = "fallback"

\* What a connection becomes is still one.
LEMMA ReadTo ==
    ASSUME Connection, NEW last
    PROVE  [stream EXCEPT !.last = last] = [at |-> stream.at, last |-> last, coming |-> stream.coming]
<1> DEFINE same == [at |-> stream.at, last |-> stream.last, coming |-> stream.coming]
<1>1. [same EXCEPT !.last = last] = [at |-> stream.at, last |-> last, coming |-> stream.coming]
  OBVIOUS
<1> QED BY <1>1 DEF Connection

LEMMA ComingIs ==
    ASSUME Connection, NEW coming
    PROVE  [stream EXCEPT !.coming = coming] = [at |-> stream.at, last |-> stream.last, coming |-> coming]
<1> DEFINE same == [at |-> stream.at, last |-> stream.last, coming |-> stream.coming]
<1>1. [same EXCEPT !.coming = coming] = [at |-> stream.at, last |-> stream.last, coming |-> coming]
  OBVIOUS
<1> QED BY <1>1 DEF Connection

LEMMA OpensAt ==
    ASSUME Connection, NEW last
    PROVE  [stream EXCEPT !.at = "open", !.last = last] = [at |-> "open", last |-> last, coming |-> stream.coming]
<1> DEFINE same == [at |-> stream.at, last |-> stream.last, coming |-> stream.coming]
           open == [stream EXCEPT !.at = "open"]
<1>1. [same EXCEPT !.at = "open"] = [at |-> "open", last |-> stream.last, coming |-> stream.coming]
  OBVIOUS
<1>2. open = [at |-> "open", last |-> stream.last, coming |-> stream.coming]
  BY <1>1 DEF Connection
<1>3. [[at |-> "open", last |-> stream.last, coming |-> stream.coming] EXCEPT !.last = last]
         = [at |-> "open", last |-> last, coming |-> stream.coming]
  OBVIOUS
<1>4. [stream EXCEPT !.at = "open", !.last = last] = [open EXCEPT !.last = last]
  OBVIOUS
<1> HIDE DEF open
<1> QED BY <1>2, <1>3, <1>4

LEMMA ReadsMore ==
    ASSUME Connection, NEW last, NEW coming
    PROVE  [stream EXCEPT !.last = last, !.coming = coming] = [at |-> stream.at, last |-> last, coming |-> coming]
<1> DEFINE read == [stream EXCEPT !.last = last]
<1>1. read = [at |-> stream.at, last |-> last, coming |-> stream.coming]
  BY ReadTo
<1>2. [[at |-> stream.at, last |-> last, coming |-> stream.coming] EXCEPT !.coming = coming]
         = [at |-> stream.at, last |-> last, coming |-> coming]
  OBVIOUS
<1>3. [stream EXCEPT !.last = last, !.coming = coming] = [read EXCEPT !.coming = coming]
  OBVIOUS
<1> HIDE DEF read
<1> QED BY <1>1, <1>2, <1>3

\* The journal opens with the switch off.
LEMMA ReconnectsAtFirst == JournalInit => Reconnects
BY DEF JournalInit, Reconnects, Connection, Closed

\* No step breaks it.
LEMMA ReconnectsStays == Reconnects /\ [JournalNext]_journalVars => Reconnects'
<1> SUFFICES ASSUME Reconnects, [JournalNext]_journalVars
             PROVE  Reconnects'
  OBVIOUS
<1>1. CASE \/ LogSomething \/ LogsLand \/ RefreshLogs \/ TurnPage \/ changeLevel
           \/ requestClear \/ AnswerClear \/ ServeClear \/ ClearLands \/ UNCHANGED journalVars
  <2>1. UNCHANGED <<stream, live, liveState, retried, opened>>
    BY <1>1 DEF LogSomething, LogsLand, RefreshLogs, TurnPage, changeLevel, requestClear,
                AnswerClear, ServeClear, ClearLands, journalVars, journalLive
  <2> QED BY <2>1 DEF Reconnects, Connection, Streaming
<1>2. CASE SwitchOn
  <2>1. stream' = [at |-> "connecting", last |-> 0, coming |-> <<>>] /\ opened' = 1
    BY <1>2 DEF SwitchOn, OpenStream
  <2> QED BY <2>1 DEF Reconnects, Connection, Streaming
<1>3. CASE SwitchOff
  BY <1>3 DEF SwitchOff, Closed, Reconnects, Connection
<1>4. CASE StreamOpens
  <2>1. PICK last : stream' = [stream EXCEPT !.at = "open", !.last = last]
    BY <1>4 DEF StreamOpens
  <2>2. stream' = [at |-> "open", last |-> last, coming |-> stream.coming]
    BY <2>1, OpensAt DEF Reconnects
  <2>3. UNCHANGED <<live, retried, opened>>
    BY <1>4 DEF StreamOpens
  <2> QED BY <2>2, <2>3 DEF Reconnects, Connection, Streaming
<1>5. CASE StreamReads
  <2>1. PICK last, coming : stream' = [stream EXCEPT !.last = last, !.coming = coming]
    BY <1>5 DEF StreamReads
  <2>2. stream' = [at |-> stream.at, last |-> last, coming |-> coming]
    BY <2>1, ReadsMore DEF Reconnects
  <2>3. UNCHANGED <<live, liveState, retried, opened>>
    BY <1>5 DEF StreamReads
  <2> QED BY <2>2, <2>3 DEF Reconnects, Connection, Streaming
<1>6. CASE StreamMessage
  <2>1. stream' = [stream EXCEPT !.coming = Tail(@)]
    BY <1>6 DEF StreamMessage
  <2>2. stream' = [at |-> stream.at, last |-> stream.last, coming |-> Tail(stream.coming)]
    BY <2>1, ComingIs DEF Reconnects
  <2>3. UNCHANGED <<live, liveState, retried, opened>>
    BY <1>6 DEF StreamMessage
  <2> QED BY <2>2, <2>3 DEF Reconnects, Connection, Streaming
<1>7. CASE StreamEnds
  <2>1. CASE retried
    <3>1. liveState' = "fallback" /\ stream' = Closed /\ UNCHANGED <<live, retried, opened>>
      BY <1>7, <2>1 DEF StreamEnds, OpensAgain
    <3> QED BY <2>1, <3>1 DEF Reconnects, Connection, Closed
  <2>2. CASE ~retried
    <3>1. /\ retried' = TRUE /\ UNCHANGED live
          /\ stream' = [at |-> "connecting", last |-> 0, coming |-> <<>>] /\ opened' = opened + 1
      BY <1>7, <2>2 DEF StreamEnds, OpensAgain, OpenStream
    <3>2. opened' \in 0..2
      BY <2>2, <3>1 DEF Reconnects
    <3> QED BY <3>1, <3>2 DEF Reconnects, Connection, Streaming
  <2> QED BY <2>1, <2>2
<1> QED BY <1>1, <1>2, <1>3, <1>4, <1>5, <1>6, <1>7 DEF JournalNext

\* The stream is opened once more at most each time the switch is turned on, and the
\* journal is polled instead (LogsTab.tsx:99).
THEOREM StreamIsNotLooped == JournalSpec => []OneReconnect
<1>1. Reconnects => OneReconnect
  BY DEF Reconnects, OneReconnect, polling
<1> QED BY <1>1, ReconnectsAtFirst, ReconnectsStays, PTL DEF JournalSpec

\* Only what is on streams, and only what is off is idle.
JournalTyped == JournalTypeOK /\ live \in BOOLEAN /\ (Streaming => live)

LEMMA JournalTypedStays == Reconnects /\ JournalTyped /\ [JournalNext]_journalVars => JournalTyped'
<1> SUFFICES ASSUME Reconnects, JournalTyped, [JournalNext]_journalVars PROVE JournalTyped'
  OBVIOUS
<1>1. ASSUME UNCHANGED <<stream, live, liveState>>,
             UNCHANGED level \/ level' \in Levels \cup {None},
             \/ UNCHANGED journalServer
             \/ lastLogged' = lastLogged + 1 /\ lastLogged' \in EntryIds /\ journalAt' \subseteq journalAt \cup {lastLogged'}
      PROVE  JournalTyped'
  <2>1. journalAt' \subseteq 1..lastLogged' /\ lastLogged' \in EntryIds
    <3>1. lastLogged \in Nat \ {0} /\ lastLogged \in EntryIds /\ journalAt \subseteq 1..lastLogged
      BY JournalAssumption DEF JournalTyped, JournalTypeOK
    <3>2. CASE UNCHANGED journalServer
      BY <3>1, <3>2 DEF journalServer
    <3>3. CASE lastLogged' = lastLogged + 1 /\ lastLogged' \in EntryIds /\ journalAt' \subseteq journalAt \cup {lastLogged'}
      <4>1. 1..lastLogged \cup {lastLogged'} \subseteq 1..lastLogged'
        BY <3>1, <3>3
      <4> QED BY <3>1, <3>3, <4>1
    <3> QED BY <1>1, <3>2, <3>3
  <2> QED BY <1>1, <2>1 DEF JournalTyped, JournalTypeOK, Streaming
<1>2. CASE LogSomething
  BY <1>1, <1>2 DEF LogSomething, journalPage, journalLive
<1>3. CASE LogsLand \/ RefreshLogs \/ TurnPage \/ requestClear \/ AnswerClear \/ ClearLands \/ UNCHANGED journalVars
  BY <1>1, <1>3 DEF LogsLand, RefreshLogs, TurnPage, requestClear, AnswerClear, ClearLands, journalVars, journalPage, journalLive
<1>4. CASE changeLevel
  BY <1>1, <1>4 DEF changeLevel, journalLive
<1>5. CASE ServeClear
  BY <1>1, <1>5 DEF ServeClear, journalPage, journalLive
<1>6. ASSUME UNCHANGED <<journalServer, level>>, live' \in BOOLEAN,
             liveState' \in {"idle", "connecting", "open", "fallback"}, live' <=> liveState' # "idle",
             Streaming' => live'
      PROVE  JournalTyped'
  BY <1>6 DEF JournalTyped, JournalTypeOK, journalServer
<1>7. CASE SwitchOn
  BY <1>6, <1>7 DEF SwitchOn, journalPage
<1>8. CASE SwitchOff
  <2>1. ~Streaming'
    BY <1>8 DEF SwitchOff, Streaming, Closed
  <2> QED BY <1>6, <1>8, <2>1 DEF SwitchOff
<1>9. CASE StreamOpens
  <2>1. Streaming
    BY <1>9 DEF StreamOpens, Streaming
  <2> QED BY <1>6, <1>9, <2>1 DEF StreamOpens, journalPage, JournalTyped
<1>10. CASE StreamReads
  <2>1. Streaming
    BY <1>10 DEF StreamReads, Streaming
  <2> QED BY <1>6, <1>10, <2>1 DEF StreamReads, journalPage, JournalTyped, JournalTypeOK
<1>11. CASE StreamMessage
  BY <1>6, <1>11 DEF StreamMessage, journalPage, JournalTyped, JournalTypeOK
<1>12. CASE StreamEnds
  <2>1. live /\ UNCHANGED <<journalServer, level, live>> /\ liveState' \in {"connecting", "fallback"}
    BY <1>12 DEF StreamEnds, journalPage, JournalTyped
  <2> QED BY <1>6, <2>1 DEF JournalTyped
<1> QED BY <1>2, <1>3, <1>4, <1>5, <1>7, <1>8, <1>9, <1>10, <1>11, <1>12 DEF JournalNext

\* The log holds entries that were given an id, and the switch and the state of the live
\* view say one thing.
THEOREM JournalTypeCorrect == JournalSpec => []JournalTypeOK
<1>1. JournalInit => JournalTyped
  <2> SUFFICES ASSUME JournalInit PROVE JournalTyped
    OBVIOUS
  <2>1. 1 \in EntryIds /\ {1} \subseteq 1..1
    BY JournalAssumption
  <2>2. ~Streaming
    BY DEF JournalInit, Streaming, Closed
  <2> QED BY <2>1, <2>2 DEF JournalInit, JournalTyped, JournalTypeOK
<1>2. JournalTyped => JournalTypeOK
  BY DEF JournalTyped
<1> QED BY <1>1, <1>2, ReconnectsAtFirst, ReconnectsStays, JournalTypedStays, PTL DEF JournalSpec

(***************************************************************************)
(* The search of the drawer, for every set of integrations and any number  *)
(* of openings.  What a drawer searches does not depend on the drawers     *)
(* that were open before it: of all integrations, only the one searched    *)
(* last has anything typed, and it is what `search` holds.                 *)
(***************************************************************************)

TypedFor(id) == IF search.id = id THEN [hosts |-> search.hosts, records |-> search.records] ELSE Blank

OneSearch ==
    /\ kept \subseteq Inspected
    /\ typed = [id \in Inspected |-> TypedFor(id)]

\* Nothing is typed before the first drawer.
LEMMA OneSearchAtFirst == InspectorInit => OneSearch
<1> SUFFICES ASSUME InspectorInit
             PROVE  OneSearch
  OBVIOUS
<1>1. kept \subseteq Inspected
  BY DEF InspectorInit
<1>2. \A id : TypedFor(id) = Blank
  BY DEF InspectorInit, TypedFor, Blank
<1>3. typed = [id \in Inspected |-> Blank]
  BY DEF InspectorInit
<1> QED BY <1>1, <1>2, <1>3 DEF OneSearch

\* Typing over one table leaves the search of the other, and forgets those of any
\* other integration.
LEMMA TypingKeepsOneSearch ==
    ASSUME OneSearch, NEW table \in Tables, NEW text, TypeSearch(table, text)
    PROVE  OneSearch'
<1>1. inspectId \in Inspected /\ Open
  BY DEF TypeSearch, SearchBox, Open, OneSearch
<1>2. search' = setSearch(table, text)
  BY DEF TypeSearch
<1>3. search'.id = inspectId
  BY <1>2 DEF setSearch
<1>4. typed' = [id \in Inspected |-> IF id = inspectId THEN [typed[id] EXCEPT ![table] = text] ELSE Blank]
  BY DEF TypeSearch
<1>5. [typed[inspectId] EXCEPT ![table] = text] = [hosts |-> search'.hosts, records |-> search'.records]
  <2> DEFINE now == [hosts |-> search.hosts, records |-> search.records]
  <2>1. typed[inspectId] = IF search.id = inspectId THEN now ELSE Blank
    BY <1>1 DEF OneSearch, TypedFor
  <2> PICK over : over = typed[inspectId]
    OBVIOUS
  <2>2. CASE table = "hosts" /\ search.id = inspectId
    <3>1. search' = [id |-> inspectId, hosts |-> text, records |-> search.records]
      BY <1>2, <2>2 DEF setSearch
    <3>2. over = [hosts |-> search.hosts, records |-> search.records]
      BY <2>1, <2>2
    <3>3. [over EXCEPT ![table] = text] = [hosts |-> text, records |-> search.records]
      BY <2>2, <3>2
    <3> QED BY <3>1, <3>3
  <2>3. CASE table = "hosts" /\ search.id # inspectId
    <3>1. search' = [id |-> inspectId, hosts |-> text, records |-> ""]
      BY <1>2, <2>3 DEF setSearch
    <3>2. PICK none : none = ""
      OBVIOUS
    <3>3. over = [hosts |-> none, records |-> none]
      BY <2>1, <2>3, <3>2 DEF Blank
    <3>4. [over EXCEPT ![table] = text] = [hosts |-> text, records |-> none]
      BY <2>3, <3>3
    <3> QED BY <3>1, <3>2, <3>4
  <2>4. CASE table = "records" /\ search.id = inspectId
    <3>1. search' = [id |-> inspectId, hosts |-> search.hosts, records |-> text]
      BY <1>2, <2>4 DEF setSearch
    <3>2. over = [hosts |-> search.hosts, records |-> search.records]
      BY <2>1, <2>4
    <3>3. [over EXCEPT ![table] = text] = [hosts |-> search.hosts, records |-> text]
      BY <2>4, <3>2
    <3> QED BY <3>1, <3>3
  <2>5. CASE table = "records" /\ search.id # inspectId
    <3>1. search' = [id |-> inspectId, hosts |-> "", records |-> text]
      BY <1>2, <2>5 DEF setSearch
    <3>2. PICK none : none = ""
      OBVIOUS
    <3>3. over = [hosts |-> none, records |-> none]
      BY <2>1, <2>5, <3>2 DEF Blank
    <3>4. [over EXCEPT ![table] = text] = [hosts |-> none, records |-> text]
      BY <2>5, <3>3
    <3> QED BY <3>1, <3>2, <3>4
  <2> QED BY <2>2, <2>3, <2>4, <2>5 DEF Tables
<1>6. typed' = [id \in Inspected |-> TypedFor(id)']
  BY <1>1, <1>3, <1>4, <1>5 DEF TypedFor
<1>7. kept' \subseteq Inspected
  BY DEF TypeSearch, OneSearch
<1> QED BY <1>6, <1>7 DEF OneSearch

\* No step breaks it.
LEMMA OneSearchStays == OneSearch /\ [InspectorNext]_inspectorVars => OneSearch'
<1> SUFFICES ASSUME OneSearch, [InspectorNext]_inspectorVars
             PROVE  OneSearch'
  OBVIOUS
<1>1. CASE \/ CloseInspector
           \/ \E id \in Inspected : Inspect(id)
           \/ \E id \in Inspected, part \in {"health"} \cup Tables : DetailLands(id, part)
           \/ \E part \in {"health"} \cup Tables : RetryDetail(part)
           \/ UNCHANGED inspectorVars
  <2>1. UNCHANGED <<kept, search, typed>>
    BY <1>1 DEF CloseInspector, Inspect, DetailLands, RetryDetail, inspectorVars
  <2> QED BY <2>1 DEF OneSearch, TypedFor
<1>2. ASSUME NEW id \in Inspected, Lost(id)
      PROVE  OneSearch'
  BY <1>2 DEF Lost, OneSearch, TypedFor
<1>3. ASSUME NEW table \in Tables, NEW text \in Terms \cup {""}, TypeSearch(table, text)
      PROVE  OneSearch'
  BY <1>3, TypingKeepsOneSearch
<1> QED BY <1>1, <1>2, <1>3 DEF InspectorNext

\* Each table of a drawer is searched for what was typed over it in this drawer,
\* and for nothing when nothing was (ProviderInspector.tsx:98-102).
THEOREM DrawersAreSearchedAsTyped == InspectorSpec => []SearchedAsTyped
<1>1. OneSearch => SearchedAsTyped
  <2> SUFFICES ASSUME OneSearch, Open, NEW table \in Tables
               PROVE  searchOf(table) = typed[inspectId][table]
    BY DEF SearchedAsTyped
  <2> DEFINE now == [hosts |-> search.hosts, records |-> search.records]
  <2>1. typed[inspectId] = IF search.id = inspectId THEN now ELSE Blank
    BY DEF Open, OneSearch, TypedFor
  <2>2. now["hosts"] = search["hosts"] /\ now["records"] = search["records"]
    OBVIOUS
  <2>3. Blank["hosts"] = "" /\ Blank["records"] = ""
    BY DEF Blank
  <2>4. now[table] = search[table] /\ Blank[table] = ""
    BY <2>2, <2>3 DEF Tables
  <2> QED BY <2>1, <2>4 DEF searchOf
<1> QED BY <1>1, OneSearchAtFirst, OneSearchStays, PTL DEF InspectorSpec

(***************************************************************************)
(* Docker in the settings, for every set of endpoints and containers and   *)
(* any number of requests: what is ticked can be a route, and a deletion   *)
(* names the endpoint that its question did, from the answer to the        *)
(* request the server takes.                                               *)
(***************************************************************************)

\* What happens to the endpoints leaves the containers alone.
LEMMA ContainersAreLeftAlone ==
    ASSUME \/ EndpointsLand \/ ImportListsLand \/ RetryDocker \/ ChooseInForm
           \/ AddEndpoint \/ SetDefault \/ AskDelete \/ AnswerDelete \/ Discover
           \/ requestImport \/ AnswerContainers \/ UNCHANGED dockerVars
           \/ \E w \in dockerWrites : ServeEndpoint(w) \/ EndpointAnswered(w) \/ ImportedContainers(w)
    PROVE  UNCHANGED <<found, ticked>>
BY DEF EndpointsLand, ImportListsLand, RetryDocker, ChooseInForm, AddEndpoint, SetDefault, AskDelete,
       AnswerDelete, Discover, requestImport, AnswerContainers, ServeEndpoint, EndpointAnswered,
       ImportedContainers, dockerVars, dockerFound

\* Only containers of the last discovery that have a port are ticked
\* (useDockerDiscovery.ts:115 and 126).
THEOREM TickedCanAlwaysBeRoutes == DockerSpec => []TickedCanBeRoutes
<1>1. DockerInit => TickedCanBeRoutes
  BY DEF DockerInit, TickedCanBeRoutes
<1>2. TickedCanBeRoutes /\ [DockerNext]_dockerVars => TickedCanBeRoutes'
  <2> SUFFICES ASSUME TickedCanBeRoutes, [DockerNext]_dockerVars
               PROVE  TickedCanBeRoutes'
    OBVIOUS
  <2>1. CASE DiscoveryLands
    BY <2>1 DEF DiscoveryLands, TicksAfter, TickedCanBeRoutes
  <2>2. CASE TickContainers
    BY <2>2 DEF TickContainers, selectable, allSelected, TickedCanBeRoutes
  <2>3. CASE UNCHANGED <<found, ticked>>
    BY <2>3 DEF TickedCanBeRoutes
  <2> QED BY <2>1, <2>2, <2>3, ContainersAreLeftAlone DEF DockerNext
<1> QED BY <1>1, <1>2, PTL DEF DockerSpec

(***************************************************************************)
(* What a deletion names.                                                  *)
(***************************************************************************)
\* The fields of a request.
Fields(w) == w = [op |-> w.op, id |-> w.id, at |-> w.at, told |-> w.told]
NamesIt == \A w \in dockerWrites : Fields(w) /\ (w.op = "delete" => w.id = w.told)

\* A request sent for another purpose than a deletion, or for the one that is answered.
LEMMA RequestNamesIt ==
    ASSUME NamesIt, NEW op, NEW id, op = "delete" => id = asked.id, DockerWrite(op, id)
    PROVE  NamesIt'
<1> DEFINE sent == [op |-> op, id |-> id, at |-> "sent", told |-> IF op = "delete" THEN asked.id ELSE None]
<1>1. dockerWrites' = dockerWrites \cup {sent}
  BY DEF DockerWrite
<1>2. Fields(sent) /\ (sent.op = "delete" => sent.id = sent.told)
  BY DEF Fields
<1> QED BY <1>1, <1>2 DEF NamesIt, Fields

\* The server answers about the endpoint that it was asked about.
LEMMA ServerNamesIt ==
    ASSUME NamesIt, NEW w \in dockerWrites, ServeEndpoint(w)
    PROVE  NamesIt'
<1>1. Fields(w) /\ (w.op = "delete" => w.id = w.told)
  BY DEF NamesIt
<1>2. CASE dockerWrites' = (dockerWrites \ {w}) \cup {[w EXCEPT !.at = "failed"]}
  <2>1. [w EXCEPT !.at = "failed"] = [op |-> w.op, id |-> w.id, at |-> "failed", told |-> w.told]
    BY <1>1 DEF Fields
  <2> QED BY <1>1, <1>2, <2>1 DEF NamesIt, Fields
<1>3. ASSUME NEW id, w.op = "delete" => id = w.id,
             NEW at, dockerWrites' = (dockerWrites \ {w}) \cup {[w EXCEPT !.at = at, !.id = id]}
      PROVE  NamesIt'
  <2> DEFINE next == [w EXCEPT !.at = at, !.id = id]
             same == [op |-> w.op, id |-> w.id, at |-> w.at, told |-> w.told]
  <2>1. next = [op |-> w.op, id |-> id, at |-> at, told |-> w.told]
    <3> DEFINE met == [w EXCEPT !.at = at]
    <3>1. w = same
      BY <1>1 DEF Fields
    <3>2. [same EXCEPT !.at = at] = [op |-> w.op, id |-> w.id, at |-> at, told |-> w.told]
      OBVIOUS
    <3>3. met = [op |-> w.op, id |-> w.id, at |-> at, told |-> w.told]
      BY <3>1, <3>2
    <3>4. next = [met EXCEPT !.id = id]
      OBVIOUS
    <3>5. [[op |-> w.op, id |-> w.id, at |-> at, told |-> w.told] EXCEPT !.id = id]
            = [op |-> w.op, id |-> id, at |-> at, told |-> w.told]
      OBVIOUS
    <3> HIDE DEF met
    <3> QED BY <3>3, <3>4, <3>5
  <2> QED BY <1>1, <1>3, <2>1 DEF NamesIt, Fields
<1> QED BY <1>2, <1>3 DEF ServeEndpoint

\* No step breaks it.
LEMMA NamesItStays == NamesIt /\ [DockerNext]_dockerVars => NamesIt'
<1> SUFFICES ASSUME NamesIt, [DockerNext]_dockerVars
             PROVE  NamesIt'
  OBVIOUS
<1>1. CASE AddEndpoint \/ SetDefault
  BY <1>1, RequestNamesIt DEF AddEndpoint, SetDefault
<1>2. CASE AnswerDelete
  <2>1. CASE UNCHANGED <<dockerWrites, dockerCallCount>>
    BY <2>1 DEF NamesIt, Fields
  <2>2. CASE DockerWrite("delete", EndpointOf(asked))
    BY <2>2, RequestNamesIt DEF EndpointOf
  <2> QED BY <1>2, <2>1, <2>2 DEF AnswerDelete
<1>3. CASE AnswerContainers
  <2>1. CASE UNCHANGED <<dockerWrites, dockerCallCount>>
    BY <2>1 DEF NamesIt, Fields
  <2>2. CASE DockerWrite("import", [ids |-> ticked \cap found.ids, domain |-> effectiveDomain, proxy |-> proxyChosen])
    BY <2>2, RequestNamesIt
  <2> QED BY <1>3, <2>1, <2>2 DEF AnswerContainers
<1>4. ASSUME NEW w \in dockerWrites, ServeEndpoint(w)
      PROVE  NamesIt'
  BY <1>4, ServerNamesIt
<1>5. ASSUME NEW w \in dockerWrites, EndpointAnswered(w) \/ ImportedContainers(w)
      PROVE  NamesIt'
  BY <1>5 DEF EndpointAnswered, ImportedContainers, NamesIt, Fields
<1>6. CASE \/ EndpointsLand \/ ImportListsLand \/ RetryDocker \/ ChooseInForm \/ AskDelete
           \/ Discover \/ DiscoveryLands \/ TickContainers \/ requestImport \/ UNCHANGED dockerVars
  <2>1. UNCHANGED dockerWrites
    BY <1>6 DEF EndpointsLand, ImportListsLand, RetryDocker, ChooseInForm, AskDelete, Discover,
                DiscoveryLands, TickContainers, requestImport, dockerVars, dockerCalls
  <2> QED BY <2>1 DEF NamesIt, Fields
<1> QED BY <1>1, <1>2, <1>3, <1>4, <1>5, <1>6 DEF DockerNext

\* The endpoint that a request deletes is the one its question named
\* (DockerSection.tsx:71).
THEOREM DeletionsNameTheirs == DockerSpec => []DeletesWhatWasNamed
<1>1. DockerInit => NamesIt
  BY DEF DockerInit, NamesIt
<1>2. NamesIt => DeletesWhatWasNamed
  BY DEF NamesIt, DeletesWhatWasNamed
<1> QED BY <1>1, <1>2, NamesItStays, PTL DEF DockerSpec

(***************************************************************************)
(* The manual checks of the integrations page, for every set of            *)
(* integrations and any number of switches: a fresh one counts, and none   *)
(* is forgotten while its integration exists.                              *)
(*                                                                         *)
(* The scores are computed when something lands and not when time passes,  *)
(* so that a fresh check counts is an invariant of all the events that     *)
(* can bring one: what they compute is what is stored then, and time only  *)
(* takes checks out.                                                       *)
(***************************************************************************)

Checks == [report : Reports, fresh : BOOLEAN]
ChecksAreStored == storedDiagnostics \in [Rated -> Checks \cup {None}]

\* The store keeps its type.
LEMMA ChecksStayStored == ChecksAreStored /\ [HealthNext]_ratedVars => ChecksAreStored'
<1> SUFFICES ASSUME ChecksAreStored, [HealthNext]_ratedVars
             PROVE  ChecksAreStored'
  OBVIOUS
<1>1. ASSUME NEW id \in Rated, NEW report \in Reports, StoreDiagnostics(id, report)
      PROVE  ChecksAreStored'
  <2>1. [report |-> report, fresh |-> TRUE] \in Checks
    BY DEF Checks
  <2> QED BY <1>1, <2>1 DEF StoreDiagnostics, ChecksAreStored
<1>2. ASSUME NEW id \in Rated, HalfAnHourPasses(id)
      PROVE  ChecksAreStored'
  <2>1. storedDiagnostics[id] \in Checks
    BY <1>2 DEF HalfAnHourPasses, ChecksAreStored
  <2>2. [storedDiagnostics[id] EXCEPT !.fresh = FALSE] \in Checks
    BY <2>1 DEF Checks
  <2>3. storedDiagnostics' = [storedDiagnostics EXCEPT ![id] = [storedDiagnostics[id] EXCEPT !.fresh = FALSE]]
    BY <1>2 DEF HalfAnHourPasses
  <2> QED BY <2>2, <2>3 DEF ChecksAreStored
<1>3. CASE Reload
  BY <1>3 DEF Reload, restoreDiagnostics, diagnostics, DiagnosticsOf, ChecksAreStored
<1>4. CASE RatedListLands \/ TunnelsLand \/ AutoLands \/ (\E id \in Rated : Turned(id)) \/ UNCHANGED ratedVars
  <2>1. UNCHANGED storedDiagnostics
    BY <1>4 DEF RatedListLands, TunnelsLand, AutoLands, Turned, ratedVars
  <2> QED BY <2>1 DEF ChecksAreStored
<1> QED BY <1>1, <1>2, <1>3, <1>4 DEF HealthNext

(***************************************************************************)
(* A fresh check counts.                                                   *)
(***************************************************************************)
\* What computes the scores counts what is fresh.
LEMMA ComputedCounts ==
    ASSUME ComputeSignals(storedDiagnostics', ratedList')
    PROVE  FreshCheckCounts'
BY DEF ComputeSignals, FreshCheckCounts, isDiagnosticsFresh, diagnostics

\* What leaves the list, the checks and the scores alone leaves it so,
LEMMA UnchangedCounts ==
    ASSUME FreshCheckCounts, UNCHANGED <<ratedList, storedDiagnostics, counted>>
    PROVE  FreshCheckCounts'
BY DEF FreshCheckCounts, isDiagnosticsFresh, diagnostics, DiagnosticsOf, FreshIn, ListedIn

\* and a check that grows old leaves the others alone.
LEMMA OldCheckCountsNot ==
    ASSUME ChecksAreStored, FreshCheckCounts, NEW id \in Rated, HalfAnHourPasses(id)
    PROVE  FreshCheckCounts'
<1>1. storedDiagnostics[id] \in Checks
  BY DEF HalfAnHourPasses, ChecksAreStored
<1>2. storedDiagnostics' = [storedDiagnostics EXCEPT ![id] = [storedDiagnostics[id] EXCEPT !.fresh = FALSE]]
  BY DEF HalfAnHourPasses
<1>3. storedDiagnostics'[id].fresh = FALSE
  BY <1>1, <1>2 DEF ChecksAreStored, Checks
<1>4. \A other \in Rated : other # id => storedDiagnostics'[other] = storedDiagnostics[other]
  BY <1>2 DEF ChecksAreStored
<1>5. UNCHANGED <<ratedList, counted>>
  BY DEF HalfAnHourPasses
<1> SUFFICES ASSUME NEW other \in ListedIn(ratedList), isDiagnosticsFresh(other)'
             PROVE  other \in counted
  BY <1>5 DEF FreshCheckCounts, ListedIn
<1>6. other \in Rated /\ diagnostics'[other] # None /\ diagnostics'[other].fresh
  BY DEF isDiagnosticsFresh, FreshIn
<1>7. diagnostics'[other] = storedDiagnostics'[other] /\ diagnostics[other] = storedDiagnostics[other]
  BY <1>5, <1>6 DEF diagnostics, DiagnosticsOf, ListedIn
<1>8. other # id
  BY <1>3, <1>6, <1>7
<1>9. isDiagnosticsFresh(other)
  BY <1>4, <1>6, <1>7, <1>8 DEF isDiagnosticsFresh, FreshIn
<1> QED BY <1>9 DEF FreshCheckCounts

\* A manual check counts from its answer until its half hour is over at least, in the
\* score of the integration it was made of (Providers.tsx:252-273).
THEOREM FreshChecksCount == HealthSpec => []FreshCheckCounts
<1>1. HealthInit => ChecksAreStored /\ FreshCheckCounts
  BY DEF HealthInit, ChecksAreStored, FreshCheckCounts, ListedIn
<1>2. ChecksAreStored /\ FreshCheckCounts /\ [HealthNext]_ratedVars => FreshCheckCounts'
  <2> SUFFICES ASSUME ChecksAreStored, FreshCheckCounts, [HealthNext]_ratedVars
               PROVE  FreshCheckCounts'
    OBVIOUS
  <2>1. CASE RatedListLands
    <3>1. ComputeSignals(storedDiagnostics', ratedList')
      BY <2>1 DEF RatedListLands, ComputeSignals
    <3> QED BY <3>1, ComputedCounts
  <2>2. CASE TunnelsLand
    <3>1. UNCHANGED <<ratedList, storedDiagnostics>>
      BY <2>2 DEF TunnelsLand
    <3>2. CASE UNCHANGED counted
      BY <3>1, <3>2, UnchangedCounts
    <3>3. CASE ComputeSignals(storedDiagnostics, ratedList)
      BY <3>1, <3>3, ComputedCounts
    <3> QED BY <2>2, <3>2, <3>3 DEF TunnelsLand
  <2>3. CASE AutoLands
    <3>1. UNCHANGED <<ratedList, storedDiagnostics>>
      BY <2>3 DEF AutoLands
    <3>2. CASE UNCHANGED counted
      BY <3>1, <3>2, UnchangedCounts
    <3>3. CASE ComputeSignals(storedDiagnostics, ratedList)
      BY <3>1, <3>3, ComputedCounts
    <3> QED BY <2>3, <3>2, <3>3 DEF AutoLands
  <2>4. CASE Reload
    BY <2>4 DEF Reload, FreshCheckCounts, ListedIn
  <2>5. ASSUME NEW id \in Rated, NEW report \in Reports, StoreDiagnostics(id, report)
        PROVE  FreshCheckCounts'
    <3>1. ComputeSignals(storedDiagnostics', ratedList')
      BY <2>5 DEF StoreDiagnostics
    <3> QED BY <3>1, ComputedCounts
  <2>6. ASSUME NEW id \in Rated, HalfAnHourPasses(id)
        PROVE  FreshCheckCounts'
    BY <2>6, OldCheckCountsNot
  <2>7. CASE (\E id \in Rated : Turned(id)) \/ UNCHANGED ratedVars
    <3>1. UNCHANGED <<ratedList, storedDiagnostics, counted>>
      BY <2>7 DEF Turned, ratedVars
    <3> QED BY <3>1, UnchangedCounts
  <2> QED BY <2>1, <2>2, <2>3, <2>4, <2>5, <2>6, <2>7 DEF HealthNext
<1> QED BY <1>1, <1>2, ChecksStayStored, PTL DEF HealthSpec

(***************************************************************************)
(* No check is forgotten.                                                  *)
(***************************************************************************)
\* What the page has of an integration that exists, the store has, and the page has
\* it as long as the list that is read is empty, missing, or has the integration.
LEMMA ShownIsStored ==
    ASSUME NEW id \in Rated
    PROVE  /\ diagnostics[id] # None => diagnostics[id] = storedDiagnostics[id]
           /\ diagnostics[id] # None /\ UNCHANGED ratedList => diagnostics'[id] = storedDiagnostics'[id]
           /\ ListedIn(ratedList)' = {} \/ id \in ListedIn(ratedList)' => diagnostics'[id] = storedDiagnostics'[id]
BY DEF diagnostics, DiagnosticsOf, ListedIn

LastKept == \A id \in Rated : ratedAt[id] # "gone" /\ diagnostics[id] # None => diagnostics'[id] # None

\* When an integration was last checked is not forgotten while the server has it, by a
\* reload or by a list that has not arrived or no longer fits (Providers.tsx:101-106).
THEOREM LastChecksAreKept == HealthSpec => LastCheckIsKept
<1>1. HealthInit => ChecksAreStored
  BY DEF HealthInit, ChecksAreStored
<1>2. ChecksAreStored /\ [HealthNext]_ratedVars => [LastKept]_ratedVars
  <2> SUFFICES ASSUME ChecksAreStored, HealthNext,
                      NEW id \in Rated, ratedAt[id] # "gone", diagnostics[id] # None
               PROVE  diagnostics'[id] # None
    BY DEF LastKept
  <2>1. storedDiagnostics[id] # None
    BY ShownIsStored
  <2>2. CASE RatedListLands
    <3>1. ListedIn(ratedList)' = {} \/ id \in ListedIn(ratedList)'
      BY <2>2 DEF RatedListLands, ListedIn
    <3>2. storedDiagnostics' = storedDiagnostics
      BY <2>2 DEF RatedListLands
    <3> QED BY <2>1, <3>1, <3>2, ShownIsStored
  <2>3. CASE TunnelsLand \/ AutoLands \/ (\E other \in Rated : Turned(other))
    <3>1. UNCHANGED <<ratedList, storedDiagnostics>>
      BY <2>3 DEF TunnelsLand, AutoLands, Turned
    <3> QED BY <2>1, <3>1, ShownIsStored
  <2>4. CASE Reload
    <3>1. storedDiagnostics'[id] = diagnostics[id] /\ ListedIn(ratedList)' = {}
      BY <2>4 DEF Reload, restoreDiagnostics, diagnostics, DiagnosticsOf, ListedIn
    <3> QED BY <3>1, ShownIsStored
  <2>5. ASSUME NEW other \in Rated, NEW report \in Reports, StoreDiagnostics(other, report)
        PROVE  diagnostics'[id] # None
    <3>1. [report |-> report, fresh |-> TRUE] \in [report : Reports, fresh : BOOLEAN]
      OBVIOUS
    <3>2. storedDiagnostics'[id] # None
      BY <2>1, <2>5, <3>1, NoneIsNoCheck DEF StoreDiagnostics, ChecksAreStored
    <3>3. UNCHANGED ratedList
      BY <2>5 DEF StoreDiagnostics
    <3> QED BY <3>2, <3>3, ShownIsStored
  <2>6. ASSUME NEW other \in Rated, HalfAnHourPasses(other)
        PROVE  diagnostics'[id] # None
    <3>1. [storedDiagnostics[other] EXCEPT !.fresh = FALSE] \in Checks
      BY <2>6 DEF HalfAnHourPasses, ChecksAreStored, Checks
    <3>2. storedDiagnostics' = [storedDiagnostics EXCEPT ![other] = [storedDiagnostics[other] EXCEPT !.fresh = FALSE]]
      BY <2>6 DEF HalfAnHourPasses
    <3>3. storedDiagnostics'[id] # None
      BY <2>1, <3>1, <3>2, NoneIsNoCheck DEF ChecksAreStored, Checks
    <3>4. UNCHANGED ratedList
      BY <2>6 DEF HalfAnHourPasses
    <3> QED BY <3>3, <3>4, ShownIsStored
  <2> QED BY <2>2, <2>3, <2>4, <2>5, <2>6 DEF HealthNext
<1>3. ([][LastKept]_ratedVars) <=> LastCheckIsKept
  BY DEF LastKept, LastCheckIsKept
<1> QED BY <1>1, <1>2, <1>3, ChecksStayStored, PTL DEF HealthSpec

(***************************************************************************)
(* The import of scanned rows, for every set of names and zones and any    *)
(* number of scans: the rows stay those of the question, from the click to *)
(* the request.                                                            *)
(***************************************************************************)
ImportAsTold(import) ==
    /\ import = [payload |-> import.payload, rows |-> import.rows, told |-> import.told, at |-> import.at]
    /\ import.told = describe(import.rows)
    /\ \A r \in import.payload : r.host \in Keys(import.rows)

RowsAsTold ==
    /\ asking # None => asking.told = describe(asking.rows)
    /\ importing # None => ImportAsTold(importing)

\* The server's answer changes neither the rows nor what was told of them.
LEMMA ServedAsTold ==
    ASSUME NEW import, ImportAsTold(import), NEW at
    PROVE  ImportAsTold([import EXCEPT !.at = at])
<1>1. [import EXCEPT !.at = at] = [payload |-> import.payload, rows |-> import.rows, told |-> import.told, at |-> at]
  <2> DEFINE same == [payload |-> import.payload, rows |-> import.rows, told |-> import.told, at |-> import.at]
  <2>1. [same EXCEPT !.at = at] = [payload |-> import.payload, rows |-> import.rows, told |-> import.told, at |-> at]
    OBVIOUS
  <2> QED BY <2>1 DEF ImportAsTold
<1> QED BY <1>1 DEF ImportAsTold

LEMMA RowsStayTold == RowsAsTold /\ [SyncNext]_syncVars => RowsAsTold'
<1> SUFFICES ASSUME RowsAsTold, [SyncNext]_syncVars
             PROVE  RowsAsTold'
  OBVIOUS
<1>1. CASE \/ TrackedLand \/ Scan \/ ScanLands \/ SelectAll \/ ChooseZones
           \/ (\E row \in syncRows : toggleRow(row)) \/ Elsewhere \/ UNCHANGED syncVars
  <2>1. UNCHANGED <<asking, importing>>
    BY <1>1 DEF TrackedLand, Scan, ScanLands, SelectAll, ChooseZones, toggleRow, Elsewhere, SyncRests, syncVars
  <2> QED BY <2>1 DEF RowsAsTold, ImportAsTold
<1>2. CASE AskImport
  <2>1. PICK rows : asking' = [scan |-> scanResult, rows |-> rows, told |-> describe(rows)]
    BY <1>2 DEF AskImport
  <2>2. asking'.told = describe(asking'.rows) /\ UNCHANGED importing
    BY <1>2, <2>1 DEF AskImport
  <2> QED BY <2>2 DEF RowsAsTold, ImportAsTold
<1>3. CASE AnswerImport
  <2>1. CASE UNCHANGED importing
    BY <1>3, <2>1 DEF AnswerImport, RowsAsTold, ImportAsTold
  <2>2. CASE importing' = [payload |-> payloadFor(asking.scan, RowsAsked(asking)), rows |-> RowsAsked(asking),
                           told |-> asking.told, at |-> "sent"]
    <3>1. /\ importing'.rows = asking.rows /\ importing'.told = asking.told
          /\ importing'.payload = payloadFor(asking.scan, asking.rows)
      BY <2>2 DEF RowsAsked
    <3>2. \A r \in importing'.payload : r.host \in Keys(importing'.rows)
      BY <3>1 DEF payloadFor, Keys
    <3>3. importing' = [payload |-> importing'.payload, rows |-> importing'.rows, told |-> importing'.told, at |-> importing'.at]
      BY <2>2
    <3>4. importing'.told = describe(importing'.rows)
      BY <1>3, <3>1 DEF AnswerImport, RowsAsTold
    <3> QED BY <1>3, <3>2, <3>3, <3>4 DEF AnswerImport, RowsAsTold, ImportAsTold
  <2> QED BY <1>3, <2>1, <2>2 DEF AnswerImport
<1>4. CASE ServeImportRows
  <2>1. PICK at : importing' = [importing EXCEPT !.at = at]
    BY <1>4 DEF ServeImportRows
  <2>2. UNCHANGED asking /\ importing # None
    BY <1>4 DEF ServeImportRows
  <2>3. ImportAsTold(importing')
    BY <2>1, <2>2, ServedAsTold DEF RowsAsTold
  <2> QED BY <2>2, <2>3 DEF RowsAsTold, ImportAsTold
<1>5. CASE ImportRowsLand
  BY <1>5 DEF ImportRowsLand, RowsAsTold
<1> QED BY <1>1, <1>2, <1>3, <1>4, <1>5 DEF SyncNext

\* What an import sends is what the question told of, though a scan or another window may
\* have changed the rows while it was open (SyncSection.tsx:194).
THEOREM ImportsAreAsTold == SyncSpec => []QuestionToldIt
<1>1. SyncInit => RowsAsTold
  BY DEF SyncInit, RowsAsTold
<1>2. RowsAsTold => QuestionToldIt
  BY DEF RowsAsTold, ImportAsTold, QuestionToldIt
<1> QED BY <1>1, <1>2, RowsStayTold, PTL DEF SyncSpec

(***************************************************************************)
(* The dialog that publishes a name, for any number of edits, saves and    *)
(* requests, in a page that keeps it and in one that takes it away.  A     *)
(* review is only reached with a verdict, and the form cannot change under *)
(* it; what was stored and not told is on its way to be told, or was       *)
(* answered with a failure.                                                *)
(***************************************************************************)
ReviewIsOfForm == step = "review" => verdict # None /\ (verdict.late \/ verdict.of = entry)
TakenAway == ~keepsIt /\ ~showing => step = "configure" /\ \A s \in out : ~s.mine
ToldOrOnItsWay ==
    unlisted => halfSaved \/ \E s \in out : s.kind \in {"save", "labels"} /\ s.at = "done"

ExposeInv == ExposeTypeOK /\ ReviewIsOfForm /\ TakenAway /\ ToldOrOnItsWay

\* A button of the dialog that is open sends a request.
LEMMA SendKeepsExpose ==
    ASSUME ExposeInv, NEW kind \in Kind, Send(kind), showing,
           UNCHANGED <<theForm, theServerRoute, theReview, theDialogShown, step, turns>>,
           saves' \in 0..MaxSaves
    PROVE  ExposeInv'
<1>1. UNCHANGED <<entry, before, stored, unlisted, halfSaved, verdict, plan, keepsIt, showing,
                  parting, step, turns>>
  BY DEF theForm, theServerRoute, theReview, theDialogShown
<1>2. PICK s \in Sending : out' = out \cup {s}
  <2> DEFINE request == [kind |-> kind, sent |-> entry, new |-> before = None, mine |-> TRUE, at |-> "sent"]
  <2>1. entry \in Entry /\ (before = None) \in BOOLEAN
    BY DEF ExposeInv, ExposeTypeOK
  <2>2. \A new \in BOOLEAN : [kind |-> kind, sent |-> entry, new |-> new, mine |-> TRUE, at |-> "sent"] \in Sending
    BY <2>1 DEF Sending
  <2>3. request \in Sending
    BY <2>1, <2>2
  <2>4. out' = out \cup {request}
    BY DEF Send
  <2> HIDE DEF request
  <2> QED BY <2>3, <2>4
<1>3. ExposeTypeOK'
  BY <1>1, <1>2 DEF ExposeInv, ExposeTypeOK
<1> QED BY <1>1, <1>2, <1>3 DEF ExposeInv, ReviewIsOfForm, TakenAway, ToldOrOnItsWay

LEMMA ServeKeepsExpose ==
    ASSUME ExposeInv, NEW s \in out, Serve(s) PROVE ExposeInv'
<1>1. UNCHANGED <<entry, before, verdict, plan, keepsIt, showing, parting, step, turns, saves>>
  BY DEF Serve, theForm, theReview, theDialogShown, exposeCounts
<1>2. s \in Sending /\ s.at = "sent" /\ s.sent \in Entry
  BY DEF ExposeInv, ExposeTypeOK, Sending, Serve
<1> DEFINE answer(at) == [s EXCEPT !.at = at]
<1>3. \A at \in {"failed", "blocked", "done"} :
         /\ answer(at) \in Sending /\ answer(at).kind = s.kind
         /\ answer(at).mine = s.mine /\ answer(at).at = at
  BY <1>2 DEF Sending
<1> HIDE DEF answer
<1>4. PICK t \in Sending :
         /\ t.mine = s.mine
         /\ out' = (out \ {s}) \cup {t}
         /\ \/ UNCHANGED <<stored, unlisted, halfSaved>>
            \/ /\ stored' \in Entry /\ unlisted' = TRUE
               /\ \/ UNCHANGED halfSaved /\ t.kind \in {"save", "labels"} /\ t.at = "done"
                  \/ halfSaved' = TRUE
  <2>1. CASE \E at \in {"failed", "blocked", "done"} :
                out' = (out \ {s}) \cup {answer(at)} /\ UNCHANGED theServerRoute
    BY <1>3, <2>1 DEF theServerRoute
  <2>2. CASE s.kind = "dryrun" /\ stored # None /\ UNCHANGED theServerRoute
             /\ out' = (out \ {s}) \cup {[s EXCEPT !.at = "done", !.sent = stored]}
    <3> DEFINE t == [s EXCEPT !.at = "done", !.sent = stored]
    <3>1. stored \in Entry
      BY <2>2 DEF ExposeInv, ExposeTypeOK
    <3>2. t \in Sending /\ t.mine = s.mine
      BY <1>2, <3>1 DEF Sending
    <3> QED BY <2>2, <3>2 DEF theServerRoute
  <2>3. CASE /\ IsStored(s) /\ stored' = AfterWrite(s) /\ unlisted' = TRUE
             /\ \/ out' = (out \ {s}) \cup {answer("done")} /\ UNCHANGED halfSaved
                \/ out' = (out \ {s}) \cup {answer("failed")} /\ halfSaved' = TRUE
    <3>1. s.kind \in {"save", "labels"} /\ (s.kind = "labels" => stored # None)
      BY <2>3 DEF IsStored
    <3>2. stored' \in Entry
      BY <1>2, <2>3, <3>1 DEF AfterWrite, ExposeInv, ExposeTypeOK, Entry
    <3> QED BY <1>3, <2>3, <3>1, <3>2
  <2> QED BY <2>1, <2>2, <2>3 DEF Serve, answer
<1>5. ExposeTypeOK'
  BY <1>1, <1>4 DEF ExposeInv, ExposeTypeOK
<1>6. ToldOrOnItsWay'
  BY <1>2, <1>4 DEF ExposeInv, ToldOrOnItsWay
<1> QED BY <1>1, <1>4, <1>5, <1>6 DEF ExposeInv, ReviewIsOfForm, TakenAway

LEMMA PreflightKeepsExpose ==
    ASSUME ExposeInv, NEW s \in out, PreflightLands(s) PROVE ExposeInv'
<1>1. UNCHANGED <<entry, before, stored, unlisted, halfSaved, plan, keepsIt, showing, parting, turns, saves>>
  BY DEF PreflightLands, theForm, theServerRoute, theDialogShown, exposeCounts
<1>2. /\ s \in Sending /\ s.kind = "preflight" /\ s.at \in {"done", "blocked", "failed"}
      /\ s.sent \in Entry /\ out' = out \ {s}
  BY DEF PreflightLands, ExposeInv, ExposeTypeOK, Sending
<1>3. \/ UNCHANGED <<step, verdict>>
      \/ /\ s.mine /\ step' = "review" /\ s.at # "failed"
         /\ verdict' = [said |-> s.at, of |-> s.sent, late |-> s.sent # entry]
  BY DEF PreflightLands, StepAfterChecks
<1>4. CASE UNCHANGED <<step, verdict>>
  BY <1>1, <1>2, <1>4 DEF ExposeInv, ExposeTypeOK, ReviewIsOfForm, TakenAway, ToldOrOnItsWay
<1>5. CASE /\ s.mine /\ step' = "review" /\ s.at # "failed"
           /\ verdict' = [said |-> s.at, of |-> s.sent, late |-> s.sent # entry]
  <2>1. verdict' \in Verdict /\ verdict'.of = s.sent /\ (verdict'.late <=> s.sent # entry)
    BY <1>2, <1>5 DEF Verdict
  <2>2. verdict' # None
    BY <2>1, ExposeAssumption
  <2>3. ExposeTypeOK'
    BY <1>1, <1>2, <1>5, <2>1 DEF ExposeInv, ExposeTypeOK
  <2>4. ReviewIsOfForm'
    BY <1>1, <2>1, <2>2 DEF ReviewIsOfForm
  <2>5. TakenAway'
    BY <1>1, <1>5 DEF ExposeInv, TakenAway
  <2>6. ToldOrOnItsWay'
    BY <1>1, <1>2 DEF ExposeInv, ToldOrOnItsWay
  <2> QED BY <2>3, <2>4, <2>5, <2>6 DEF ExposeInv
<1> QED BY <1>3, <1>4, <1>5

LEMMA SaveKeepsExpose ==
    ASSUME ExposeInv, NEW s \in out, SaveLands(s) PROVE ExposeInv'
<1>1. UNCHANGED <<entry, before, stored, verdict, plan, keepsIt, showing, parting, turns, saves>>
  BY DEF SaveLands, theForm, theReview, theDialogShown, exposeCounts
<1>2. out' = out \ {s}
  BY DEF SaveLands
<1>3. \/ s.at = "failed" /\ UNCHANGED <<step, unlisted, halfSaved>>
      \/ /\ unlisted' = FALSE /\ halfSaved' = FALSE
         /\ step' = IF s.mine THEN "done" ELSE step
  BY DEF SaveLands, ToldOf
<1>4. ExposeTypeOK'
  BY <1>1, <1>2, <1>3 DEF ExposeInv, ExposeTypeOK
<1>5. ReviewIsOfForm' /\ TakenAway'
  BY <1>1, <1>2, <1>3 DEF ExposeInv, ReviewIsOfForm, TakenAway
<1>6. ToldOrOnItsWay'
  BY <1>2, <1>3 DEF ExposeInv, ToldOrOnItsWay
<1> QED BY <1>4, <1>5, <1>6 DEF ExposeInv

LEMMA OthersKeepExpose ==
    ASSUME ExposeInv, NEW s \in out, DryRunLands(s) \/ TemplateLands(s) PROVE ExposeInv'
<1>1. UNCHANGED <<entry, before, stored, unlisted, halfSaved, verdict, keepsIt, showing, parting, step, turns, saves>>
  BY DEF DryRunLands, TemplateLands, theForm, theServerRoute, theReview, theDialogShown, exposeCounts
<1>2. out' = out \ {s} /\ s.kind \in {"dryrun", "template"}
  BY DEF DryRunLands, TemplateLands
<1>3. plan' \in Entry \cup {None}
  BY DEF DryRunLands, TemplateLands, theReview, ExposeInv, ExposeTypeOK, Sending
<1>4. ExposeTypeOK'
  BY <1>1, <1>2, <1>3 DEF ExposeInv, ExposeTypeOK
<1> QED BY <1>1, <1>2, <1>4 DEF ExposeInv, ReviewIsOfForm, TakenAway, ToldOrOnItsWay

\* Editing, going back, giving up and opening the dialog again.
LEMMA FormKeepsExpose ==
    ASSUME ExposeInv, EditEntry \/ GoBack \/ RequestClose \/ ConfirmClose \/ ReopenDialog
    PROVE  ExposeInv'
<1> USE DEF ExposeInv
<1>1. CASE EditEntry
  <2>1. UNCHANGED <<before, stored, unlisted, halfSaved, verdict, plan, keepsIt, showing, parting, step, out, saves>>
        /\ entry' \in Entry /\ step = "configure"
    BY <1>1 DEF EditEntry, theServerRoute, theReview, theDialogShown
  <2>2. turns' \in 0..MaxTurns
    BY <1>1, ExposeAssumption DEF EditEntry, ExposeTypeOK
  <2> QED BY <2>1, <2>2 DEF ExposeTypeOK, ReviewIsOfForm, TakenAway, ToldOrOnItsWay
<1>2. CASE GoBack
  <2>1. UNCHANGED <<entry, before, stored, unlisted, halfSaved, verdict, plan, keepsIt, showing, parting, out, turns, saves>>
    BY <1>2 DEF GoBack, theForm, theServerRoute, theReview, theDialogShown, exposeCounts
  <2>2. step' = "configure"
    BY <1>2 DEF GoBack
  <2> QED BY <2>1, <2>2 DEF ExposeTypeOK, ReviewIsOfForm, TakenAway, ToldOrOnItsWay
<1>3. CASE HandleClose
  <2>1. UNCHANGED <<before, stored, unlisted, halfSaved, keepsIt, turns, saves>>
    BY <1>3 DEF HandleClose, theServerRoute, exposeCounts
  <2>2. /\ step' = "configure" /\ showing' = FALSE /\ parting' = FALSE /\ verdict' = None /\ plan' = None
        /\ entry' = seedEntry /\ seedEntry \in Entry
    BY <1>3 DEF HandleClose, seedEntry, blankEntry, Entry, ExposeTypeOK
  <2>3. out' = LeftBehind
    BY <1>3 DEF HandleClose
  <2>4. /\ out' \subseteq Sending /\ (~keepsIt => \A s \in out' : ~s.mine)
        /\ \A s \in out : s.kind \in {"save", "labels"} =>
              \E t \in out' : t.kind = s.kind /\ t.at = s.at
    <3>1. CASE keepsIt
      BY <2>3, <3>1 DEF LeftBehind, ExposeTypeOK
    <3>2. CASE ~keepsIt
      <4>1. \A s \in out : /\ [s EXCEPT !.mine = FALSE] \in Sending
                           /\ [s EXCEPT !.mine = FALSE].mine = FALSE
                           /\ [s EXCEPT !.mine = FALSE].kind = s.kind
                           /\ [s EXCEPT !.mine = FALSE].at = s.at
        BY DEF ExposeTypeOK, Sending
      <4> QED BY <2>3, <3>2, <4>1 DEF LeftBehind
    <3> QED BY <3>1, <3>2
  <2>5. ExposeTypeOK'
    BY <2>1, <2>2, <2>4 DEF ExposeTypeOK
  <2>6. ReviewIsOfForm' /\ TakenAway'
    BY <2>1, <2>2, <2>4 DEF ReviewIsOfForm, TakenAway
  <2>7. ToldOrOnItsWay'
    BY <2>1, <2>4 DEF ToldOrOnItsWay
  <2> QED BY <2>5, <2>6, <2>7
<1>4. CASE /\ parting' \in BOOLEAN
           /\ UNCHANGED <<theForm, theServerRoute, theReview, keepsIt, showing, step, out, exposeCounts>>
  <2>1. UNCHANGED <<entry, before, stored, unlisted, halfSaved, verdict, plan, keepsIt, showing, step, out, turns, saves>>
    BY <1>4 DEF theForm, theServerRoute, theReview, exposeCounts
  <2> QED BY <1>4, <2>1 DEF ExposeTypeOK, ReviewIsOfForm, TakenAway, ToldOrOnItsWay
<1>5. CASE ReopenDialog
  <2>1. UNCHANGED <<stored, unlisted, halfSaved, verdict, plan, keepsIt, parting, step, out, turns, saves>>
        /\ ~showing /\ showing' = TRUE
    BY <1>5 DEF ReopenDialog, theServerRoute, theReview, exposeCounts
  <2>2. before' \in Entry \cup {None}
    BY <1>5 DEF ReopenDialog, ExposeTypeOK
  <2>3. entry' \in Entry /\ (keepsIt => entry' = entry)
    BY <1>5, <2>2 DEF ReopenDialog, blankEntry, Entry, ExposeTypeOK
  <2>4. ExposeTypeOK'
    BY <2>1, <2>2, <2>3 DEF ExposeTypeOK
  <2> QED BY <2>1, <2>3, <2>4 DEF ReviewIsOfForm, TakenAway, ToldOrOnItsWay
<1> QED BY <1>1, <1>2, <1>3, <1>4, <1>5 DEF RequestClose, ConfirmClose

LEMMA ButtonsKeepExpose ==
    ASSUME ExposeInv,
           \/ HandleContinue \/ SaveLabels \/ HandleSaveTemplate
           \/ RerunPreflight \/ RunDryRun \/ HandleSave
    PROVE  ExposeInv'
<1>1. saves \in 0..MaxSaves
  BY DEF ExposeInv, ExposeTypeOK
<1>2. CASE HandleContinue
  BY <1>1, <1>2, SendKeepsExpose DEF HandleContinue, CanContinue, Opened, Kind, exposeCounts
<1>3. CASE SaveLabels
  BY <1>1, <1>3, SendKeepsExpose, ExposeAssumption DEF SaveLabels, CanSaveLabels, Opened, Kind
<1>4. CASE HandleSaveTemplate
  BY <1>1, <1>4, SendKeepsExpose DEF HandleSaveTemplate, Opened, Kind, exposeCounts
<1>5. CASE RerunPreflight
  BY <1>1, <1>5, SendKeepsExpose DEF RerunPreflight, CanReview, Opened, Kind, exposeCounts
<1>6. CASE RunDryRun
  BY <1>1, <1>6, SendKeepsExpose DEF RunDryRun, Opened, Kind, exposeCounts
<1>7. CASE HandleSave
  BY <1>1, <1>7, SendKeepsExpose, ExposeAssumption DEF HandleSave, CanSave, CanReview, Opened, Kind
<1> QED BY <1>2, <1>3, <1>4, <1>5, <1>6, <1>7

THEOREM ExposeIsInductive == ExposeSpec => []ExposeInv
<1>1. ExposeInit => ExposeInv
  <2> SUFFICES ASSUME ExposeInit PROVE ExposeInv
    OBVIOUS
  <2>1. stored \in Entry \cup {None} /\ before = stored
    BY DEF ExposeInit, Entry
  <2>2. entry \in Entry
    BY <2>1 DEF ExposeInit, seedEntry, blankEntry, Entry
  <2>3. turns \in 0..MaxTurns /\ saves \in 0..MaxSaves
    BY ExposeAssumption DEF ExposeInit
  <2>4. ExposeTypeOK
    BY <2>1, <2>2, <2>3 DEF ExposeInit, ExposeTypeOK
  <2> QED BY <2>4 DEF ExposeInit, ExposeInv, ReviewIsOfForm, TakenAway, ToldOrOnItsWay
<1>2. ExposeInv /\ [ExposeNext]_exposeVars => ExposeInv'
  <2>1. ASSUME ExposeInv, ExposeNext PROVE ExposeInv'
    BY <2>1, FormKeepsExpose, ButtonsKeepExpose, ServeKeepsExpose, PreflightKeepsExpose,
       SaveKeepsExpose, OthersKeepExpose DEF ExposeNext
  <2>2. ASSUME ExposeInv, UNCHANGED exposeVars PROVE ExposeInv'
    <3>1. UNCHANGED <<entry, before, stored, unlisted, halfSaved, verdict, plan, keepsIt, showing, parting,
                      step, out, turns, saves>>
      BY <2>2 DEF exposeVars, theForm, theServerRoute, theReview, theDialogShown, exposeCounts
    <3> QED
      BY <2>2, <3>1 DEF ExposeInv, ExposeTypeOK, ReviewIsOfForm, TakenAway, ToldOrOnItsWay
  <2> QED BY <2>1, <2>2
<1> QED BY <1>1, <1>2, PTL DEF ExposeSpec

\* Whatever the order the answers come in, the dialog's state is well typed.
THEOREM ExposeTypeCorrect == ExposeSpec => []ExposeTypeOK
BY ExposeIsInductive, PTL DEF ExposeInv

\* Once no write is under way the list was told of all that was stored, but for a save that
\* was answered with a failure (ExposeModal.tsx:512-514 and 555-557).
THEOREM SavesAreListed == ExposeSpec => []WritesAreListed
<1>1. ExposeInv => WritesAreListed
  BY DEF ExposeInv, ToldOrOnItsWay, WritesAreListed
<1> QED BY <1>1, ExposeIsInductive, PTL

SavesWhatPassed ==
    \A sending \in out' \ out : sending.kind = "save" /\ sending.at = "sent" /\ sending.mine =>
        /\ step = "review" /\ verdict # None /\ verdict.said = "done"
        /\ verdict.late \/ verdict.of = sending.sent

\* A save sends the form the checks have passed, or one that was edited behind them: only
\* the button of the review sends one, the review has a verdict, of the form unless it came
\* late, and what a check has blocked cannot be saved.
THEOREM SavesAreChecked == ExposeSpec => SavedWasChecked
<1>1. ASSUME ExposeInv, ExposeNext PROVE SavesWhatPassed
  <2> SUFFICES ASSUME NEW s \in out' \ out, s.kind = "save", s.at = "sent", s.mine
               PROVE  /\ step = "review" /\ verdict # None /\ verdict.said = "done"
                      /\ verdict.late \/ verdict.of = s.sent
    BY DEF SavesWhatPassed
  <2>1. CASE HandleSave
    <3>1. step = "review" /\ s.sent = entry
      BY <2>1 DEF HandleSave, Send, CanSave, CanReview, Opened
    <3>2. verdict # None /\ (verdict.late \/ verdict.of = entry)
      BY <1>1, <3>1 DEF ExposeInv, ReviewIsOfForm
    <3>3. verdict \in Verdict /\ verdict.said # "blocked"
      BY <1>1, <2>1, <3>2 DEF HandleSave, CanSave, ExposeInv, ExposeTypeOK
    <3> QED BY <3>1, <3>2, <3>3 DEF Verdict
  <2>2. CASE \E kind \in {"preflight", "labels", "dryrun", "template"} : Send(kind)
    BY <2>2 DEF Send
  <2>3. ASSUME NEW t \in out, Serve(t) PROVE FALSE
    <3>1. t \in Sending
      BY <1>1 DEF ExposeInv, ExposeTypeOK
    <3>2. \A at \in {"failed", "blocked", "done"} : [t EXCEPT !.at = at].at = at
      BY <3>1 DEF Sending
    <3>3. [t EXCEPT !.at = "done", !.sent = stored].at = "done"
      BY <3>1 DEF Sending
    <3> QED BY <2>3, <3>2, <3>3 DEF Serve
  <2>4. CASE out' \subseteq out
    BY <2>4
  <2>5. CASE HandleClose
    <3>1. \A t \in out : [t EXCEPT !.mine = FALSE].mine = FALSE
      BY <1>1 DEF ExposeInv, ExposeTypeOK, Sending
    <3> QED BY <2>5, <3>1 DEF HandleClose, LeftBehind
  <2> QED
    BY <1>1, <2>1, <2>2, <2>3, <2>4, <2>5
    DEF ExposeNext, EditEntry, HandleContinue, SaveLabels, HandleSaveTemplate, GoBack, RerunPreflight,
        RunDryRun, RequestClose, ConfirmClose, ReopenDialog, PreflightLands, SaveLands,
        DryRunLands, TemplateLands
<1>2. ExposeInv /\ [ExposeNext]_exposeVars => [SavesWhatPassed]_exposeVars
  BY <1>1
<1>3. ([][SavesWhatPassed]_exposeVars) <=> SavedWasChecked
  BY DEF SavesWhatPassed, SavedWasChecked
<1> QED BY <1>2, <1>3, ExposeIsInductive, PTL DEF ExposeSpec

(***************************************************************************)
(* The rows of the monitoring page, for every set of services and any      *)
(* number of checks: what they show is what the server holds, unless it    *)
(* was not read since a check wrote, and whoever wrote has it read again.  *)
(***************************************************************************)
StatusIs(query) == query = [data |-> query.data, error |-> query.error, ask |-> query.ask]
CheckIs(c) == c = [ids |-> c.ids, n |-> c.n, at |-> c.at, found |-> c.found, enabled |-> c.enabled]

\* No check has written that its answer is not told of yet, and none that it was not.
NoneToTell == ~unshown /\ \A c \in checksOut : c.at # "done"

ShowsTheServer ==
    /\ StatusIs(statusQ) /\ \A c \in checksOut : CheckIs(c)
    /\ NoneToTell /\ statusQ.ask = "idle" /\ Usable(statusQ) => statusQ.data = statusAt

\* What becomes of a query keeps its fields.
LEMMA QueryStaysOne ==
    ASSUME NEW query, StatusIs(query)
    PROVE  /\ StatusIs(Asked(query)) /\ Asked(query).ask = "asked"
           /\ StatusIs(Failed(query)) /\ Failed(query).error = TRUE
<1> DEFINE same == [data |-> query.data, error |-> query.error, ask |-> query.ask]
           asked1 == [same EXCEPT !.ask = "asked"]
<1>1. asked1 = [data |-> query.data, error |-> query.error, ask |-> "asked"]
  OBVIOUS
<1>2. Asked(query) = [data |-> query.data, error |-> query.error /\ query.data # None, ask |-> "asked"]
  <2>1. Asked(query) = [asked1 EXCEPT !.error = @ /\ query.data # None]
    BY DEF Asked, StatusIs
  <2> HIDE DEF asked1
  <2> QED BY <1>1, <2>1
<1>3. Failed(query) = [data |-> query.data, error |-> TRUE, ask |-> "idle"]
  <2> DEFINE failed1 == [same EXCEPT !.error = TRUE]
  <2>1. failed1 = [data |-> query.data, error |-> TRUE, ask |-> query.ask]
    <3>1. \A error : [same EXCEPT !.error = error] = [data |-> query.data, error |-> error, ask |-> query.ask]
      OBVIOUS
    <3> HIDE DEF same
    <3> QED BY <3>1
  <2>2. Failed(query) = [failed1 EXCEPT !.ask = "idle"]
    BY DEF Failed, StatusIs
  <2> HIDE DEF failed1
  <2> QED BY <2>1, <2>2
<1> QED BY <1>2, <1>3 DEF StatusIs

LEMMA LandedIsOne ==
    ASSUME NEW answer
    PROVE  StatusIs(Landed(answer)) /\ Landed(answer).data = answer
BY DEF StatusIs, Landed

\* The server's answer to a check, on both its ends.
Found(c, at, result, enabled) == [c EXCEPT !.at = at, !.found = result, !.enabled = enabled]

LEMMA ServedCheckIs ==
    ASSUME NEW c, CheckIs(c), NEW at, NEW result, NEW enabled, NEW served,
           served = [c EXCEPT !.at = at] \/ served = Found(c, at, result, enabled)
    PROVE  CheckIs(served) /\ served.at = at
<1> DEFINE same == [ids |-> c.ids, n |-> c.n, at |-> c.at, found |-> c.found, enabled |-> c.enabled]
           told == [same EXCEPT !.at = at]
           with == [told EXCEPT !.found = result]
<1>1. told = [ids |-> c.ids, n |-> c.n, at |-> at, found |-> c.found, enabled |-> c.enabled]
  OBVIOUS
<1>2. with = [ids |-> c.ids, n |-> c.n, at |-> at, found |-> result, enabled |-> c.enabled]
  <2> HIDE DEF told
  <2> QED BY <1>1
<1>3. [with EXCEPT !.enabled = enabled] = [ids |-> c.ids, n |-> c.n, at |-> at, found |-> result, enabled |-> enabled]
  <2> HIDE DEF with
  <2> QED BY <1>2
<1>4. served = told \/ served = [with EXCEPT !.enabled = enabled]
  BY DEF CheckIs, Found
<1> HIDE DEF told, with
<1> QED BY <1>1, <1>3, <1>4 DEF CheckIs

LEMMA RowsStayTrue == ShowsTheServer /\ [MonNext]_monVars => ShowsTheServer'
<1> SUFFICES ASSUME ShowsTheServer, [MonNext]_monVars PROVE ShowsTheServer'
  OBVIOUS
<1>s. StatusIs(statusQ) /\ \A c \in checksOut : CheckIs(c)
  BY DEF ShowsTheServer
<1>1. CASE StatusLand
  <2>1. UNCHANGED <<statusAt, checksOut>>
    BY <1>1 DEF StatusLand, monServer
  <2>2. CASE statusQ' = Landed(statusAt)
    BY <1>s, <2>1, <2>2, LandedIsOne DEF ShowsTheServer
  <2>3. CASE statusQ' = Failed(statusQ)
    <3>1. StatusIs(statusQ') /\ statusQ'.error = TRUE
      BY <1>s, <2>3, QueryStaysOne
    <3> QED BY <1>s, <2>1, <3>1 DEF ShowsTheServer, Usable
  <2> QED BY <1>1, <2>2, <2>3 DEF StatusLand
<1>2. CASE Poll
  <2>1. UNCHANGED <<statusAt, checksOut>> /\ statusQ' = Asked(statusQ)
    BY <1>2 DEF Poll, monServer, monMeasured
  <2>2. StatusIs(statusQ') /\ statusQ'.ask = "asked"
    BY <1>s, <2>1, QueryStaysOne
  <2> QED BY <1>s, <2>1, <2>2 DEF ShowsTheServer
<1>3. ASSUME NEW ids, SendCheck(ids), UNCHANGED <<monServer, monReads, unshown>> PROVE ShowsTheServer'
  <2> DEFINE sent == [ids |-> ids, n |-> checksSent', at |-> "sent", found |-> None, enabled |-> 0]
  <2>1. CheckIs(sent) /\ sent.at = "sent"
    BY DEF CheckIs
  <2>2. checksOut' = checksOut \cup {sent} /\ UNCHANGED <<statusAt, statusQ, unshown>>
    BY <1>3 DEF SendCheck, monServer, monReads
  <2> HIDE DEF sent
  <2>3. NoneToTell' => NoneToTell
    BY <2>2 DEF NoneToTell
  <2> QED BY <1>s, <2>1, <2>2, <2>3 DEF ShowsTheServer
<1>4. ASSUME NEW c \in checksOut, ServeCheck(c) PROVE ShowsTheServer'
  <2>1. UNCHANGED statusQ /\ c.at = "sent" /\ CheckIs(c)
    BY <1>4, <1>s DEF ServeCheck, monReads
  <2>2. CASE /\ checksOut' = (checksOut \ {c}) \cup {[c EXCEPT !.at = "failed"]}
             /\ UNCHANGED <<statusAt, unshown>> \/ unshown' = TRUE
    <3> DEFINE failed == [c EXCEPT !.at = "failed"]
    <3>f. CheckIs(failed) /\ failed.at = "failed"
      <4>1. \A served : served = failed => CheckIs(served) /\ served.at = "failed"
        BY <2>1, ServedCheckIs
      <4> QED BY <4>1
    <3>1. \A d \in checksOut' : CheckIs(d)
      BY <1>s, <2>2, <3>f
    <3>2. NoneToTell' => NoneToTell /\ UNCHANGED statusAt
      BY <2>1, <2>2 DEF NoneToTell
    <3> QED BY <2>1, <3>1, <3>2 DEF ShowsTheServer
  <2>3. ASSUME NEW result, NEW enabled,
               checksOut' = (checksOut \ {c}) \cup {[c EXCEPT !.at = "done", !.found = result, !.enabled = enabled]}
        PROVE  ShowsTheServer'
    <3> DEFINE done == [c EXCEPT !.at = "done", !.found = result, !.enabled = enabled]
    <3>1. CheckIs(done) /\ done.at = "done"
      <4>1. done = Found(c, "done", result, enabled)
        BY DEF Found
      <4> HIDE DEF done
      <4> QED BY <2>1, <4>1, ServedCheckIs
    <3>2. checksOut' = (checksOut \ {c}) \cup {done}
      BY <2>3
    <3> HIDE DEF done
    <3> QED BY <1>s, <2>1, <3>1, <3>2 DEF ShowsTheServer, NoneToTell
  <2> QED BY <1>4, <2>2, <2>3 DEF ServeCheck
<1>5. ASSUME NEW c \in checksOut, CheckLands(c) PROVE ShowsTheServer'
  <2>1. checksOut' = checksOut \ {c} /\ UNCHANGED statusAt
    BY <1>5 DEF CheckLands, monServer
  <2>2. CASE c.at = "done"
    <3>1. statusQ' = Asked(statusQ) \/ (c.ids = Watched /\ statusQ' = statusQ /\ statusQ.ask = "idle")
      BY <1>5, <2>2 DEF CheckLands, StatusAfter, Reread
    <3>2. CASE statusQ' = Asked(statusQ)
      <4>1. StatusIs(statusQ') /\ statusQ'.ask = "asked"
        BY <1>s, <3>2, QueryStaysOne
      <4> QED BY <1>s, <2>1, <4>1 DEF ShowsTheServer
    <3>3. CASE c.ids = Watched /\ statusQ' = statusQ /\ statusQ.ask = "idle"
      <4>1. unshown'
        BY <1>5, <2>2, <3>3 DEF CheckLands
      <4> QED BY <1>s, <2>1, <3>3, <4>1 DEF ShowsTheServer, NoneToTell
    <3> QED BY <3>1, <3>2, <3>3
  <2>3. CASE c.at # "done"
    <3>1. UNCHANGED <<statusQ, unshown>>
      BY <1>5, <2>3 DEF CheckLands, monReads
    <3> QED BY <1>s, <2>1, <2>3, <3>1 DEF ShowsTheServer, NoneToTell
  <2> QED BY <2>2, <2>3
<1>6. CASE HistoryLand \/ TimePasses \/ UNCHANGED monVars
  <2>1. UNCHANGED <<statusAt, checksOut, statusQ, unshown>>
    BY <1>6 DEF HistoryLand, TimePasses, monVars, monServer, monReads, monMeasured
  <2> QED BY <1>s, <2>1 DEF ShowsTheServer, NoneToTell
<1>7. CASE CheckAll \/ \E s \in Watched : CheckOne(s)
  BY <1>3, <1>7 DEF CheckAll, CheckOne
<1> QED BY <1>1, <1>2, <1>4, <1>5, <1>6, <1>7 DEF MonNext

\* At rest, a route that was just checked shows what the check found, from the next read on
\* when the answer was lost or met the first fetch (useServiceProbes.ts:57-64).
THEOREM RowsShowTheirChecks == MonSpec => []RowsFollowChecks
<1>1. MonInit => ShowsTheServer
  <2> SUFFICES ASSUME MonInit PROVE ShowsTheServer
    OBVIOUS
  <2>1. StatusIs(Unasked)
    BY DEF StatusIs, Unasked
  <2>2. StatusIs(statusQ) /\ statusQ.ask = "asked" /\ checksOut = {}
    BY <2>1, QueryStaysOne DEF MonInit
  <2> QED BY <2>2 DEF ShowsTheServer
<1>2. ShowsTheServer => RowsFollowChecks
  BY DEF ShowsTheServer, RowsFollowChecks, NoneToTell
<1> QED BY <1>1, <1>2, RowsStayTrue, PTL DEF MonSpec

(***************************************************************************)
(* The rows of a scan, for every set of names and any number of imports:   *)
(* what the page knows of the services is what the server tracks, unless   *)
(* an import has changed that and is not told of yet.                      *)
(***************************************************************************)
\* What is scanned, asked about and imported.
QuestionIs(question) ==
    /\ question.scan.records \subseteq Records
    /\ question.rows \subseteq Rows /\ IsFiniteSet(question.rows)

ImportTyped ==
    /\ scanResult # None => scanResult.records \subseteq Records
    /\ asking # None => QuestionIs(asking) /\ importing = None
    /\ importing # None => importing \in Imports

LEMMA RowsAreRows ==
    ASSUME scanResult # None => scanResult.records \subseteq Records
    PROVE  syncRows \subseteq Rows /\ IsFiniteSet(syncRows)
<1>1. CASE scanResult = None
  BY <1>1, FS_EmptySet DEF syncRows
<1>2. CASE scanResult # None
  <2> DEFINE H == {r.host : r \in scanResult.records}
             rowOf == [h \in H |-> buildRow(h)]
  <2>1. H \subseteq Hosts
    BY <1>2 DEF Records
  <2>2. \A h \in H : buildRow(h) \in Rows
    <3> SUFFICES ASSUME NEW h \in H PROVE buildRow(h) \in Rows
      OBVIOUS
    <3> DEFINE status == CASE ~known(h) -> "new" [] linkable(h) -> "link" [] OTHER -> "exists"
    <3>1. status \in {"new", "link", "exists"}
      OBVIOUS
    <3>2. ZoneOfHost[h] \in Zones
      BY <2>1 DEF Zones
    <3>3. buildRow(h) = [key |-> h, zone |-> ZoneOfHost[h], declared |-> ZoneOfHost[h] \in scanResult.declared,
                         status |-> status, unimportable |-> h \in Apexes]
      BY DEF buildRow
    <3> HIDE DEF status
    <3> QED BY <2>1, <3>1, <3>2, <3>3 DEF Rows
  <2>3. syncRows = {buildRow(h) : h \in H}
    BY <1>2 DEF syncRows
  <2>4. IsFiniteSet(H)
    BY <2>1, SyncAssumption, FS_Subset
  <2>5. rowOf \in Surjection(H, syncRows)
    BY <2>3 DEF Surjection
  <2> QED BY <2>2, <2>3, <2>4, <2>5, FS_Surjection
<1> QED BY <1>1, <1>2

LEMMA RowsAreCounted ==
    ASSUME NEW rows, IsFiniteSet(rows) PROVE describe(rows) \in [created : Nat, linked : Nat]
<1>1. \A part \in SUBSET rows : Cardinality(part) \in Nat
  BY FS_Subset, FS_CardinalityType
<1> QED BY <1>1 DEF describe

LEMMA ImportStaysTyped == RowsAsTold /\ ImportTyped /\ [SyncNext]_syncVars => ImportTyped'
<1> SUFFICES ASSUME RowsAsTold, ImportTyped, [SyncNext]_syncVars PROVE ImportTyped'
  OBVIOUS
<1>1. CASE UNCHANGED <<scanResult, asking, importing>>
  BY <1>1 DEF ImportTyped, QuestionIs
<1>2. CASE ScanLands
  <2>1. UNCHANGED <<asking, importing>>
    BY <1>2 DEF ScanLands
  <2>2. ASSUME NEW kinds \in SUBSET Kinds, scanResult' = ScanAnswer(kinds)
        PROVE  scanResult'.records \subseteq Records
    BY <2>2 DEF ScanAnswer, Records
  <2> QED BY <1>1, <1>2, <2>1, <2>2 DEF ScanLands, ImportTyped, QuestionIs
<1>3. CASE AskImport
  <2>1. PICK rows \in {visibleImportable, chosenRows} \ {{}} :
           asking' = [scan |-> scanResult, rows |-> rows, told |-> describe(rows)]
    BY <1>3 DEF AskImport
  <2>2. syncRows \subseteq Rows /\ IsFiniteSet(syncRows)
    BY RowsAreRows DEF ImportTyped
  <2>3. rows \subseteq syncRows
    BY DEF visibleImportable, chosenRows, visibleRows, inDeclared
  <2>4. rows \subseteq Rows /\ IsFiniteSet(rows)
    BY <2>2, <2>3, FS_Subset
  <2>5. scanResult # None
    BY <2>1, <2>3 DEF syncRows
  <2>6. /\ asking'.scan = scanResult /\ asking'.rows = rows
        /\ importing = None /\ UNCHANGED <<scanResult, importing>>
    BY <1>3, <2>1 DEF AskImport
  <2> QED BY <2>4, <2>5, <2>6 DEF ImportTyped, QuestionIs
<1>4. CASE AnswerImport
  <2>1. asking # None /\ asking' = None /\ UNCHANGED scanResult
    BY <1>4 DEF AnswerImport
  <2>2. CASE UNCHANGED importing
    BY <2>1, <2>2 DEF ImportTyped
  <2>3. CASE importing' = [payload |-> payloadFor(asking.scan, RowsAsked(asking)), rows |-> RowsAsked(asking),
                           told |-> asking.told, at |-> "sent"]
    <3>1. asking.told \in [created : Nat, linked : Nat]
      BY <2>1, RowsAreCounted DEF RowsAsTold, ImportTyped, QuestionIs
    <3>2. payloadFor(asking.scan, RowsAsked(asking)) \subseteq Records
      BY <2>1 DEF payloadFor, ImportTyped, QuestionIs
    <3>3. RowsAsked(asking) \subseteq Rows
      BY <2>1 DEF RowsAsked, ImportTyped, QuestionIs
    <3>4. importing' \in Imports
      BY <2>3, <3>1, <3>2, <3>3 DEF Imports
    <3> QED BY <2>1, <3>4 DEF ImportTyped
  <2> QED BY <1>4, <2>2, <2>3 DEF AnswerImport
<1>5. CASE ServeImportRows
  <2>1. PICK at \in {"done", "failed"} : importing' = [importing EXCEPT !.at = at]
    BY <1>5 DEF ServeImportRows
  <2>2. importing \in Imports /\ asking = None /\ UNCHANGED <<scanResult, asking>>
    BY <1>5 DEF ServeImportRows, ImportTyped
  <2>3. importing' \in Imports
    BY <2>1, <2>2 DEF Imports
  <2> QED BY <2>2, <2>3 DEF ImportTyped
<1>6. CASE ImportRowsLand
  BY <1>6 DEF ImportRowsLand, ImportTyped, QuestionIs
<1>7. CASE \/ TrackedLand \/ Scan \/ SelectAll \/ ChooseZones
           \/ (\E row \in syncRows : toggleRow(row)) \/ Elsewhere \/ UNCHANGED syncVars
  BY <1>1, <1>7 DEF TrackedLand, Scan, SelectAll, ChooseZones, toggleRow, Elsewhere, SyncRests, syncVars
<1> QED BY <1>2, <1>3, <1>4, <1>5, <1>6, <1>7 DEF SyncNext

ImportToTell == importing # None /\ importing.at = "done"

KnowsTheServices ==
    /\ StatusIs(trackedQ)
    /\ ~ImportToTell /\ trackedQ.ask = "idle" /\ Usable(trackedQ) /\ ~unseen => trackedQ.data = trackedAt

LEMMA ServicesStayKnown == ImportTyped /\ KnowsTheServices /\ [SyncNext]_syncVars => KnowsTheServices'
<1> SUFFICES ASSUME ImportTyped, KnowsTheServices, [SyncNext]_syncVars PROVE KnowsTheServices'
  OBVIOUS
<1>s. StatusIs(trackedQ)
  BY DEF KnowsTheServices
<1>1. CASE TrackedLand
  <2>1. UNCHANGED <<trackedAt, importing>>
    BY <1>1 DEF TrackedLand
  <2>2. CASE trackedQ' = Landed(trackedAt)
    BY <2>1, <2>2, LandedIsOne DEF KnowsTheServices
  <2>3. CASE trackedQ' = Failed(trackedQ)
    <3>1. StatusIs(trackedQ') /\ trackedQ'.error = TRUE
      BY <1>s, <2>3, QueryStaysOne
    <3> QED BY <3>1 DEF KnowsTheServices, Usable
  <2> QED BY <1>1, <2>2, <2>3 DEF TrackedLand
<1>2. CASE UNCHANGED <<trackedAt, unseen, trackedQ, importing>>
  BY <1>2 DEF KnowsTheServices, ImportToTell
<1>3. CASE AnswerImport
  <2>1. UNCHANGED <<trackedAt, unseen, trackedQ>>
    BY <1>3 DEF AnswerImport, syncServer
  <2>2. CASE importing' = [payload |-> payloadFor(asking.scan, RowsAsked(asking)), rows |-> RowsAsked(asking),
                           told |-> asking.told, at |-> "sent"]
    <3>1. importing = None
      BY <1>3 DEF AnswerImport, ImportTyped
    <3> QED BY <1>s, <2>1, <2>2, <3>1 DEF KnowsTheServices, ImportToTell
  <2> QED BY <1>2, <1>3, <2>1, <2>2 DEF AnswerImport
<1>4. CASE ServeImportRows
  <2>1. UNCHANGED trackedQ /\ importing \in Imports /\ importing.at = "sent"
    BY <1>4 DEF ServeImportRows, ImportTyped
  <2>2. CASE UNCHANGED syncServer
    BY <1>s, <2>1, <2>2, SyncAssumption DEF KnowsTheServices, ImportToTell, syncServer
  <2>3. CASE importing' = [importing EXCEPT !.at = "failed"] /\ unseen' = TRUE
    BY <1>s, <2>1, <2>3 DEF KnowsTheServices
  <2>4. CASE importing' = [importing EXCEPT !.at = "done"]
    <3>1. importing' \in Imports /\ importing'.at = "done"
      BY <2>1, <2>4 DEF Imports
    <3>2. ImportToTell'
      BY <3>1, SyncAssumption DEF ImportToTell
    <3> QED BY <1>s, <2>1, <3>2 DEF KnowsTheServices
  <2> QED BY <1>4, <2>2, <2>3, <2>4 DEF ServeImportRows
<1>5. CASE ImportRowsLand
  <2>1. importing' = None /\ importing # None /\ UNCHANGED trackedAt
    BY <1>5 DEF ImportRowsLand
  <2>2. CASE trackedQ' = Asked(trackedQ)
    BY <1>s, <2>2, QueryStaysOne DEF KnowsTheServices
  <2>3. CASE importing.at # "done" /\ UNCHANGED <<trackedQ, unseen>>
    BY <1>s, <2>1, <2>3 DEF KnowsTheServices, ImportToTell
  <2>4. CASE UNCHANGED trackedQ /\ unseen' = TRUE
    BY <1>s, <2>4 DEF KnowsTheServices
  <2> QED BY <1>5, <2>2, <2>3, <2>4 DEF ImportRowsLand, ReadAfterImport, Reread
<1>6. CASE Elsewhere
  BY <1>6, <1>s DEF Elsewhere, KnowsTheServices
<1>7. CASE \/ Scan \/ ScanLands \/ SelectAll \/ ChooseZones
           \/ (\E row \in syncRows : toggleRow(row)) \/ AskImport \/ UNCHANGED syncVars
  BY <1>2, <1>7 DEF Scan, ScanLands, SelectAll, ChooseZones, toggleRow, AskImport, SyncRests, syncVars, syncServer
<1> QED BY <1>1, <1>3, <1>4, <1>5, <1>6, <1>7 DEF SyncNext

\* At rest, no row offers to create what the server tracks, from the next read on when the
\* answer to an import was lost or met the first fetch of the services (syncRows.ts:181).
THEOREM NothingIsOfferedTwice == SyncSpec => []OffersNothingTwice
<1>1. SyncInit => RowsAsTold /\ ImportTyped /\ KnowsTheServices
  <2> SUFFICES ASSUME SyncInit PROVE RowsAsTold /\ ImportTyped /\ KnowsTheServices
    OBVIOUS
  <2>1. StatusIs(Unasked)
    BY DEF StatusIs, Unasked
  <2>2. StatusIs(trackedQ) /\ trackedQ.ask = "asked"
    BY <2>1, QueryStaysOne DEF SyncInit
  <2> QED BY <2>2 DEF SyncInit, RowsAsTold, ImportTyped, KnowsTheServices
<1>2. KnowsTheServices => OffersNothingTwice
  <2> SUFFICES ASSUME KnowsTheServices, importing = None, trackedQ.ask = "idle", Usable(trackedQ), ~unseen,
                      NEW row \in syncRows, row.status = "new"
               PROVE  trackedAt[row.key] = None
    BY DEF OffersNothingTwice
  <2>1. trackedQ.data = trackedAt /\ trackedQ.data # None
    BY DEF KnowsTheServices, ImportToTell, Usable
  <2>2. PICK h : row = buildRow(h)
    BY DEF syncRows
  <2>3. row.key = h /\ ~known(h)
    BY <2>2 DEF buildRow
  <2> QED BY <2>1, <2>3 DEF known, trackServices
<1> QED BY <1>1, <1>2, RowsStayTold, ImportStaysTyped, ServicesStayKnown, PTL DEF SyncSpec

(***************************************************************************)
(* The default endpoint of the Docker section, for every finite set of     *)
(* endpoints and any number of requests.                                   *)
(***************************************************************************)
OfEndpoints(w) == w.op \in {"add", "default", "delete"}

\* No request has changed the endpoints that its answer is not told of yet.
NoneChanged == \A w \in dockerWrites : OfEndpoints(w) => w.at # "done"

ListsTheDefault ==
    /\ endpointsAt \subseteq Endpoints /\ (endpointsAt = {} => defaultAt = None)
    /\ StatusIs(endpointsQ)
    /\ \A w \in dockerWrites : w.op \in {"add", "default", "delete", "import"}
    /\ NoneChanged /\ endpointsQ.ask = "idle" /\ Usable(endpointsQ) /\ ~lostAnswer
         => endpointsQ.data = EndpointList

\* The elements of a finite set, in some order, are a sequence.
LEMMA SetAsSeq ==
    ASSUME NEW S, IsFiniteSet(S) PROVE SetToSeq(S) \in Seq(S)
<1>1. Cardinality(S) \in Nat /\ ExistsBijection(1..Cardinality(S), S)
  BY FS_CardinalityType
<1>2. PICK f \in [1..Cardinality(S) -> S] : IsInjective(f)
  BY <1>1 DEF ExistsBijection, Bijection, Injection, IsInjective
<1>3. SetToSeq(S) \in [1..Cardinality(S) -> S]
  BY <1>2 DEF SetToSeq
<1> QED BY <1>1, <1>3

LEMMA DefaultIsFirst ==
    ASSUME endpointsAt \subseteq Endpoints, endpointsAt = {} => defaultAt = None
    PROVE  FirstOf(EndpointList) = defaultAt
<1>1. CASE endpointsAt = {}
  BY <1>1 DEF FirstOf, EndpointList
<1>2. CASE endpointsAt # {}
  <2> DEFINE rest == SetToSeq(endpointsAt \ {defaultAt})
  <2>1. rest \in Seq(endpointsAt \ {defaultAt})
    BY DiscoveryAssumption, FS_Subset, SetAsSeq
  <2>2. EndpointList = <<defaultAt>> \o rest
    BY <1>2 DEF EndpointList
  <2> HIDE DEF rest
  <2>3. EndpointList # <<>> /\ Head(EndpointList) = defaultAt
    BY <2>1, <2>2
  <2> QED BY <2>3 DEF FirstOf
<1> QED BY <1>1, <1>2

\* A request is sent.
LEMMA SentListsTheDefault ==
    ASSUME ListsTheDefault, NEW op \in {"add", "default", "delete", "import"}, NEW id, DockerWrite(op, id),
           UNCHANGED <<dockerServer, endpointsQ, lostAnswer>>
    PROVE  ListsTheDefault'
<1> DEFINE sent == [op |-> op, id |-> id, at |-> "sent", told |-> IF op = "delete" THEN asked.id ELSE None]
<1>1. dockerWrites' = dockerWrites \cup {sent}
  BY DEF DockerWrite
<1>2. sent.op = op /\ sent.at = "sent"
  OBVIOUS
<1> HIDE DEF sent
<1>3. NoneChanged' => NoneChanged
  BY <1>1 DEF NoneChanged, OfEndpoints
<1>4. UNCHANGED <<endpointsAt, defaultAt, EndpointList>>
  BY DEF dockerServer, EndpointList
<1> QED BY <1>1, <1>2, <1>3, <1>4 DEF ListsTheDefault

\* The server's answer to a request.
Changed(w, at, id) == [w EXCEPT !.at = at, !.id = id]

LEMMA AnswerIsRequest ==
    ASSUME NEW w, Fields(w), NEW at, NEW id, NEW next,
           next = [w EXCEPT !.at = at] \/ next = Changed(w, at, id)
    PROVE  next.op = w.op /\ next.at = at
<1> DEFINE same == [op |-> w.op, id |-> w.id, at |-> w.at, told |-> w.told]
           met == [same EXCEPT !.at = at]
<1>1. met = [op |-> w.op, id |-> w.id, at |-> at, told |-> w.told]
  OBVIOUS
<1>2. [met EXCEPT !.id = id] = [op |-> w.op, id |-> id, at |-> at, told |-> w.told]
  <2> HIDE DEF met
  <2> QED BY <1>1
<1>3. next = met \/ next = [met EXCEPT !.id = id]
  BY DEF Fields, Changed
<1> HIDE DEF met
<1> QED BY <1>1, <1>2, <1>3

LEMMA ServedListsTheDefault ==
    ASSUME NamesIt, ListsTheDefault, NEW w \in dockerWrites, ServeEndpoint(w)
    PROVE  ListsTheDefault'
<1>1. /\ Fields(w) /\ w.op \in {"add", "default", "delete"} /\ w.at = "sent" /\ UNCHANGED endpointsQ
      /\ StatusIs(endpointsQ) /\ \A v \in dockerWrites : v.op \in {"add", "default", "delete", "import"}
  BY DEF NamesIt, ServeEndpoint, dockerReads, ListsTheDefault
<1>2. CASE dockerWrites' = (dockerWrites \ {w}) \cup {[w EXCEPT !.at = "failed"]} /\ UNCHANGED <<dockerServer, lostAnswer>>
  <2> DEFINE next == [w EXCEPT !.at = "failed"]
  <2>1. next.op = w.op /\ next.at = "failed"
    <3>1. \A v : v = next => v.op = w.op /\ v.at = "failed"
      BY <1>1, AnswerIsRequest
    <3> QED BY <3>1
  <2> HIDE DEF next
  <2>2. dockerWrites' = (dockerWrites \ {w}) \cup {next}
    BY <1>2 DEF next
  <2>3. NoneChanged' => NoneChanged
    BY <1>1, <2>2 DEF NoneChanged, OfEndpoints
  <2>4. UNCHANGED <<endpointsAt, defaultAt, EndpointList>>
    BY <1>2 DEF dockerServer, EndpointList
  <2> QED BY <1>1, <1>2, <2>1, <2>2, <2>3, <2>4 DEF ListsTheDefault
<1>3. ASSUME NEW id \in IF w.op = "add" THEN Endpoints \ endpointsAt ELSE endpointsAt \cap {w.id},
             w.op = "delete" => endpointsAt # {id}, endpointsAt' = EndpointsAfter(w, id),
             NEW at \in {"done", "failed"},
             dockerWrites' = (dockerWrites \ {w}) \cup {[w EXCEPT !.at = at, !.id = id]},
             lostAnswer' = (lostAnswer \/ at = "failed")
      PROVE  ListsTheDefault'
  <2> DEFINE next == [w EXCEPT !.at = at, !.id = id]
  <2>1. next = Changed(w, at, id)
    BY DEF Changed
  <2> HIDE DEF next
  <2>2. next.op = w.op /\ next.at = at
    BY <1>1, <2>1, AnswerIsRequest
  <2>3. dockerWrites' = (dockerWrites \ {w}) \cup {next}
    BY <1>3 DEF next
  <2>4. endpointsAt' \subseteq Endpoints /\ endpointsAt' # {}
    BY <1>1, <1>3 DEF EndpointsAfter, ListsTheDefault
  <2>5. NoneChanged' => lostAnswer'
    BY <1>1, <1>3, <2>2, <2>3 DEF NoneChanged, OfEndpoints
  <2> QED BY <1>1, <2>2, <2>3, <2>4, <2>5 DEF ListsTheDefault
<1> QED BY <1>2, <1>3 DEF ServeEndpoint

LEMMA DefaultStaysListed == NamesIt /\ ListsTheDefault /\ [DockerNext]_dockerVars => ListsTheDefault'
<1> SUFFICES ASSUME NamesIt, ListsTheDefault, [DockerNext]_dockerVars PROVE ListsTheDefault'
  OBVIOUS
<1>s. StatusIs(endpointsQ)
  BY DEF ListsTheDefault
<1>1. CASE UNCHANGED <<dockerServer, endpointsQ, dockerWrites, lostAnswer>>
  BY <1>1 DEF ListsTheDefault, NoneChanged, dockerServer, EndpointList
<1>2. ASSUME UNCHANGED dockerServer, dockerWrites' \subseteq dockerWrites,
             endpointsQ' = Asked(endpointsQ)
      PROVE  ListsTheDefault'
  <2>1. StatusIs(endpointsQ') /\ endpointsQ'.ask = "asked"
    BY <1>s, <1>2, QueryStaysOne
  <2> QED BY <1>2, <2>1 DEF ListsTheDefault, dockerServer
<1>3. CASE EndpointsLand
  <2>1. UNCHANGED <<endpointsAt, defaultAt, dockerWrites, lostAnswer, EndpointList>>
    BY <1>3 DEF EndpointsLand, dockerServer, dockerCalls, EndpointList
  <2>2. CASE endpointsQ' = Landed(EndpointList)
    BY <2>1, <2>2, LandedIsOne DEF ListsTheDefault
  <2>3. CASE endpointsQ' = Failed(endpointsQ)
    <3>1. StatusIs(endpointsQ') /\ endpointsQ'.error = TRUE
      BY <1>s, <2>3, QueryStaysOne
    <3> QED BY <2>1, <3>1 DEF ListsTheDefault, Usable
  <2> QED BY <1>3, <2>2, <2>3 DEF EndpointsLand
<1>4. CASE RetryDocker
  BY <1>1, <1>2, <1>4 DEF RetryDocker, dockerCalls
<1>5. CASE AddEndpoint \/ SetDefault
  BY <1>5, SentListsTheDefault DEF AddEndpoint, SetDefault, dockerReads
<1>6. CASE AnswerDelete
  BY <1>1, <1>6, SentListsTheDefault DEF AnswerDelete, dockerReads
<1>7. CASE AnswerContainers
  BY <1>1, <1>7, SentListsTheDefault DEF AnswerContainers, dockerReads
<1>8. ASSUME NEW w \in dockerWrites, ServeEndpoint(w) PROVE ListsTheDefault'
  BY <1>8, ServedListsTheDefault
<1>9. ASSUME NEW w \in dockerWrites, EndpointAnswered(w) \/ ImportedContainers(w) PROVE ListsTheDefault'
  <2>1. UNCHANGED dockerServer /\ dockerWrites' = dockerWrites \ {w}
    BY <1>9 DEF EndpointAnswered, ImportedContainers
  <2>2. CASE endpointsQ' = Asked(endpointsQ)
    BY <1>2, <2>1, <2>2
  <2>3. CASE UNCHANGED <<endpointsQ, lostAnswer>> /\ (OfEndpoints(w) => w.at # "done")
    <3>1. NoneChanged' => NoneChanged
      BY <2>1, <2>3 DEF NoneChanged, OfEndpoints
    <3> QED BY <2>1, <2>3, <3>1 DEF ListsTheDefault, dockerServer, EndpointList
  <2>4. CASE EndpointAnswered(w) /\ w.at = "done" /\ w.op = "add" /\ endpointsQ' = endpointsQ
             /\ endpointsQ.ask = "idle"
    <3>1. lostAnswer'
      BY <2>4 DEF EndpointAnswered
    <3> QED BY <2>1, <2>4, <3>1 DEF ListsTheDefault, dockerServer
  <2>5. CASE EndpointAnswered(w) /\ w.at = "done"
    <3>1. endpointsQ' \in EndpointsAgain(w)
      BY <2>5 DEF EndpointAnswered
    <3>2. endpointsQ' = Asked(endpointsQ) \/ (w.op = "add" /\ endpointsQ' = endpointsQ /\ endpointsQ.ask = "idle")
      BY <3>1 DEF EndpointsAgain, Reread
    <3> QED BY <2>2, <2>4, <2>5, <3>2
  <2> QED BY <1>9, <2>3, <2>5 DEF EndpointAnswered, ImportedContainers, OfEndpoints, dockerReads
<1>10. CASE \/ ImportListsLand \/ ChooseInForm \/ AskDelete \/ Discover \/ DiscoveryLands
            \/ TickContainers \/ requestImport \/ UNCHANGED dockerVars
  BY <1>1, <1>10 DEF ImportListsLand, ChooseInForm, AskDelete, Discover, DiscoveryLands, TickContainers,
                     requestImport, dockerVars, dockerReads, dockerCalls
<1> QED BY <1>3, <1>4, <1>5, <1>6, <1>7, <1>8, <1>9, <1>10 DEF DockerNext

\* At rest, while no endpoint was chosen, the section uses the default of the server
\* (useDockerDiscovery.ts:43).
THEOREM TheDefaultIsUsed == DockerSpec => []DefaultIsUsed
<1>1. DockerInit => NamesIt /\ ListsTheDefault
  <2> SUFFICES ASSUME DockerInit PROVE NamesIt /\ ListsTheDefault
    OBVIOUS
  <2>1. StatusIs(Unasked)
    BY DEF StatusIs, Unasked
  <2>2. StatusIs(endpointsQ) /\ endpointsQ.ask = "asked"
    BY <2>1, QueryStaysOne DEF DockerInit
  <2> QED BY <2>2 DEF DockerInit, NamesIt, ListsTheDefault
<1>2. ListsTheDefault => DefaultIsUsed
  <2> SUFFICES ASSUME ListsTheDefault, endpointsQ.ask = "idle", Usable(endpointsQ), ~lostAnswer,
                      \A w \in dockerWrites : w.op = "import", dockerEndpointId = None
               PROVE  effectiveEndpointId = defaultAt
    BY DEF DefaultIsUsed
  <2>1. endpointsQ.data = EndpointList
    BY DEF ListsTheDefault, NoneChanged, OfEndpoints
  <2>2. FirstOf(EndpointList) = defaultAt
    BY DefaultIsFirst DEF ListsTheDefault
  <2> QED BY <2>1, <2>2 DEF effectiveEndpointId, dockerEndpoints, Usable
<1> QED BY <1>1, <1>2, NamesItStays, DefaultStaysListed, PTL DEF DockerSpec

(***************************************************************************)
(* The first page, for every set of answers: what is kept of its queries,  *)
(* and what its tiles, lists and badges say of them.                       *)
(***************************************************************************)
\* A query that waits for nothing has data or an error, and what the tab keeps of a list
\* the page has too.
DashInv ==
    /\ dash = [src \in Sources |-> dash[src]]
    /\ cache = [src \in CachedSources |-> cache[src]]
    /\ DashTypeOK
    /\ \A src \in Sources : dash[src].ask = "idle" => ~Pending(dash[src])
    /\ \A src \in CachedSources : cache[src] # None => dash[src].data # None

\* What the steps of a query make of one with these answers.
LEMMA QueryStaysOf ==
    ASSUME NEW Data, NEW query \in Query(Data)
    PROVE  /\ Asked(query) \in Query(Data) /\ Asked(query).data = query.data
           /\ Asked(query).ask = "asked"
           /\ Failed(query) \in Query(Data) /\ Failed(query).data = query.data
           /\ Failed(query).error /\ Failed(query).ask = "idle"
BY DEF Query, Asked, Failed

LEMMA LandedIsOf ==
    ASSUME NEW Data, NEW answer \in Data, None \notin Data
    PROVE  /\ Landed(answer) \in Query(Data) /\ Landed(answer).data = answer
           /\ Landed(answer).ask = "idle" /\ ~Pending(Landed(answer))
BY DEF Query, Landed, Pending

LEMMA UnaskedIsOf ==
    ASSUME NEW Data
    PROVE  Unasked \in Query(Data) /\ Unasked.data = None
BY DEF Query, Unasked

LEMMA KeptIsOf ==
    ASSUME NEW Data, NEW list \in Data \cup {None}
    PROVE  /\ [Unasked EXCEPT !.data = list] \in Query(Data)
           /\ [Unasked EXCEPT !.data = list].data = list
BY DEF Query, Unasked

\* One query of the page is another, and what the tab keeps is as it was or the new answer.
LEMMA DashStaysOf ==
    ASSUME DashInv, NEW src \in Sources, NEW query \in Query(Answers[src]),
           dash' = [dash EXCEPT ![src] = query], query.ask = "idle" => ~Pending(query),
           \/ UNCHANGED cache /\ (dash[src].data # None => query.data # None)
           \/ /\ src \in CachedSources /\ query.data # None /\ query.data \in Answers[src]
              /\ cache' = [cache EXCEPT ![src] = query.data],
           authMode' \in {"open", "password"}, again' \in 0..MaxAgain, refusals' \in 0..MaxRefusals
    PROVE  DashInv'
<1>1. /\ dash' = [o \in Sources |-> dash'[o]]
      /\ \A o \in Sources : dash'[o] = IF o = src THEN query ELSE dash[o]
  BY DEF DashInv
<1>2. /\ cache' = [o \in CachedSources |-> cache'[o]]
      /\ \A o \in CachedSources : \/ cache'[o] = cache[o]
                                  \/ o = src /\ cache'[o] = query.data /\ query.data \in Answers[o]
  BY DEF DashInv
<1>3. CachedSources \subseteq Sources
  BY DEF CachedSources, Sources
<1>4. DashTypeOK'
  BY <1>1, <1>2, <1>3 DEF DashInv, DashTypeOK
<1>5. \A o \in Sources : dash'[o].ask = "idle" => ~Pending(dash'[o])
  BY <1>1 DEF DashInv
<1>6. \A o \in CachedSources : cache'[o] # None => dash'[o].data # None
  <2> SUFFICES ASSUME NEW o \in CachedSources, cache'[o] # None
               PROVE  dash'[o].data # None
    OBVIOUS
  <2>1. CASE o # src
    BY <2>1, <1>1, <1>2, <1>3 DEF DashInv
  <2>2. CASE o = src
    BY <2>2, <1>1, <1>2, <1>3 DEF DashInv
  <2> QED BY <2>1, <2>2
<1> QED BY <1>1, <1>2, <1>4, <1>5, <1>6 DEF DashInv

LEMMA DashInvAtFirst == DashInit => DashInv
<1> SUFFICES ASSUME DashInit PROVE DashInv
  OBVIOUS
<1>1. \A src \in CachedSources : cache[src] = None
  BY DEF DashInit
<1>2. \A src \in Sources :
         dash[src] \in Query(Answers[src]) /\ (dash[src].ask = "idle" => ~Pending(dash[src]))
  <2> TAKE src \in Sources
  <2>1. CASE dash[src] = Asked(Unasked)
    BY <2>1, UnaskedIsOf, QueryStaysOf
  <2>2. ASSUME NEW a \in Answers[src], dash[src] = Landed(a)
        PROVE  dash[src] \in Query(Answers[src]) /\ ~Pending(dash[src])
    BY <2>2, LandedIsOf, DashAssumption
  <2> QED BY <2>1, <2>2 DEF DashInit
<1>3. dash = [src \in Sources |-> dash[src]]
  BY DEF DashInit
<1>4. DashTypeOK
  BY <1>1, <1>2, DashAssumption DEF DashInit, DashTypeOK
<1> QED BY <1>1, <1>2, <1>3, <1>4 DEF DashInit, DashInv

LEMMA DashInvStays == DashInv /\ [DashNext]_dashVars => DashInv'
<1> SUFFICES ASSUME DashInv, [DashNext]_dashVars PROVE DashInv'
  OBVIOUS
<1>t. /\ \A src \in Sources : dash[src] \in Query(Answers[src]) /\ None \notin Answers[src]
      /\ again \in 0..MaxAgain /\ refusals \in 0..MaxRefusals /\ MaxAgain \in Nat /\ MaxRefusals \in Nat
      /\ CachedSources \subseteq Sources
  BY DashAssumption DEF DashInv, DashTypeOK, CachedSources, Sources
<1>a. ASSUME Again PROVE again' \in 0..MaxAgain
  BY <1>a, <1>t DEF Again
<1>1. ASSUME NEW src \in Sources, Arrives(src)
      PROVE  DashInv'
  <2>1. PICK answer \in Answers[src] :
           /\ dash' = [dash EXCEPT ![src] = Landed(answer)]
           /\ \/ UNCHANGED cache
              \/ src \in CachedSources /\ cache' = [cache EXCEPT ![src] = answer]
    BY <1>1 DEF Arrives
  <2>2. /\ Landed(answer) \in Query(Answers[src]) /\ Landed(answer).data = answer
        /\ ~Pending(Landed(answer)) /\ answer # None
    BY <1>t, LandedIsOf
  <2>3. UNCHANGED <<authMode, again, refusals>>
    BY <1>1 DEF Arrives
  <2> QED BY <2>1, <2>2, <2>3, DashStaysOf DEF DashInv, DashTypeOK
<1>2. ASSUME NEW src \in Sources, Refused(src)
      PROVE  DashInv'
  <2>1. dash' = [dash EXCEPT ![src] = Failed(dash[src])] /\ UNCHANGED <<cache, authMode, again>>
    BY <1>2 DEF Refused, DashInv
  <2>2. refusals' \in 0..MaxRefusals
    BY <1>2, <1>t DEF Refused
  <2>3. /\ Failed(dash[src]) \in Query(Answers[src]) /\ Failed(dash[src]).data = dash[src].data
        /\ ~Pending(Failed(dash[src]))
    BY <1>t, QueryStaysOf DEF Pending
  <2> QED BY <2>1, <2>2, <2>3, DashStaysOf DEF DashInv, DashTypeOK
<1>3. ASSUME NEW src \in Sources, ReadAgain(src)
      PROVE  DashInv'
  <2>1. dash' = [dash EXCEPT ![src] = Asked(dash[src])] /\ UNCHANGED <<cache, authMode, refusals>>
    BY <1>3 DEF ReadAgain, DashInv
  <2>2. again' \in 0..MaxAgain
    BY <1>3, <1>a DEF ReadAgain
  <2>3. /\ Asked(dash[src]) \in Query(Answers[src]) /\ Asked(dash[src]).data = dash[src].data
        /\ Asked(dash[src]).ask = "asked"
    BY <1>t, QueryStaysOf
  <2> QED BY <2>1, <2>2, <2>3, DashStaysOf DEF DashInv, DashTypeOK
<1>4. CASE DashRetry
  <2>1. PICK srcs : dash' = [src \in Sources |-> IF src \in srcs /\ dash[src].ask = "idle"
                                                   THEN Asked(dash[src]) ELSE dash[src]]
    BY <1>4 DEF DashRetry
  <2>2. UNCHANGED <<cache, authMode, refusals>> /\ again' \in 0..MaxAgain
    BY <1>4, <1>a DEF DashRetry
  <2>3. \A src \in Sources : dash'[src] = dash[src] \/ dash'[src] = Asked(dash[src])
    BY <2>1
  <2>4. \A src \in Sources : /\ dash'[src] \in Query(Answers[src]) /\ dash'[src].data = dash[src].data
                             /\ (dash'[src].ask = "idle" => ~Pending(dash'[src]))
    <3> TAKE src \in Sources
    <3>1. CASE dash'[src] = dash[src]
      BY <3>1, <1>t DEF DashInv
    <3>2. CASE dash'[src] = Asked(dash[src])
      BY <3>2, <1>t, QueryStaysOf
    <3> QED BY <2>3, <3>1, <3>2
  <2>5. dash' = [src \in Sources |-> dash'[src]]
    BY <2>1
  <2>6. DashTypeOK'
    BY <2>2, <2>4 DEF DashInv, DashTypeOK
  <2>7. cache' = [src \in CachedSources |-> cache'[src]]
    BY <2>2 DEF DashInv
  <2>8. \A src \in CachedSources : cache'[src] # None => dash'[src].data # None
    BY <2>2, <2>4, <1>t DEF DashInv
  <2> HIDE <1>4
  <2> QED BY <2>4, <2>5, <2>6, <2>7, <2>8 DEF DashInv
<1>5. CASE ReloadDashboard
  <2>1. dash' = OpensWithKept(cache) /\ UNCHANGED <<cache, authMode, refusals>> /\ again' \in 0..MaxAgain
    BY <1>5, <1>a DEF ReloadDashboard
  <2>2. ASSUME NEW src \in Sources
        PROVE  /\ dash'[src] \in Query(Answers[src]) /\ dash'[src].ask = "asked"
               /\ src \in CachedSources => dash'[src].data = cache[src]
    <3>1. CASE src \in CachedSources
      <4>1. cache[src] \in Answers[src] \cup {None}
        BY <3>1 DEF DashInv, DashTypeOK
      <4> DEFINE list == [Unasked EXCEPT !.data = cache[src]]
      <4>2. dash'[src] = Asked(list)
        BY <2>1, <3>1 DEF OpensWithKept
      <4>3. list \in Query(Answers[src]) /\ list.data = cache[src]
        BY <4>1, KeptIsOf
      <4> HIDE DEF list
      <4>4. Asked(list) \in Query(Answers[src]) /\ Asked(list).data = list.data /\ Asked(list).ask = "asked"
        BY <4>3, QueryStaysOf
      <4> QED BY <4>2, <4>3, <4>4
    <3>2. CASE src \notin CachedSources
      <4>1. dash'[src] = Asked(Unasked)
        BY <2>1, <3>2 DEF OpensWithKept
      <4> QED BY <3>2, <4>1, UnaskedIsOf, QueryStaysOf
    <3> QED BY <3>1, <3>2
  <2>3. dash' = [src \in Sources |-> dash'[src]]
    BY <2>1 DEF OpensWithKept
  <2>4. DashTypeOK'
    BY <2>1, <2>2 DEF DashInv, DashTypeOK
  <2>5. cache' = [src \in CachedSources |-> cache'[src]]
    BY <2>1 DEF DashInv
  <2>6. \A src \in CachedSources : cache'[src] # None => dash'[src].data # None
    BY <2>1, <2>2, <1>t
  <2>7. \A src \in Sources : dash'[src].ask = "idle" => ~Pending(dash'[src])
    BY <2>2
  <2> QED BY <2>3, <2>4, <2>5, <2>6, <2>7 DEF DashInv
<1>6. CASE UNCHANGED dashVars
  BY <1>6 DEF dashVars, DashInv, DashTypeOK
<1> QED BY <1>1, <1>2, <1>3, <1>4, <1>5, <1>6 DEF DashNext

\* The queries of the first page, and what the tab keeps, keep their types.
THEOREM DashTypeCorrect == DashSpec => []DashTypeOK
<1>1. DashInv => DashTypeOK
  BY DEF DashInv
<1> QED BY <1>1, DashInvAtFirst, DashInvStays, PTL DEF DashSpec

\* A list the tab has kept is not lost, by a reload or by an answer (Dashboard.tsx:138-154).
THEOREM KeptListsAreShown == DashSpec => KeptListsStay
<1>1. DashInv /\ DashInv' /\ [DashNext]_dashVars =>
        [\A src \in CachedSources : cache[src] # None => dash'[src].data # None]_dashVars
  <2> SUFFICES ASSUME DashInv, DashInv', DashNext, NEW src \in CachedSources, cache[src] # None
               PROVE  cache'[src] # None
    BY DEF DashInv
  <2>1. CASE UNCHANGED cache
    BY <2>1
  <2>2. ASSUME NEW o \in Sources, Arrives(o)
        PROVE  cache'[src] # None
    <3>1. PICK answer \in Answers[o] : UNCHANGED cache \/ cache' = [cache EXCEPT ![o] = answer]
      BY <2>2 DEF Arrives
    <3>2. answer # None
      BY DashAssumption
    <3> QED BY <3>1, <3>2 DEF DashInv
  <2> QED BY <2>1, <2>2 DEF DashNext, Refused, ReadAgain, DashRetry, ReloadDashboard
<1> QED BY <1>1, DashInvAtFirst, DashInvStays, PTL DEF DashSpec, KeptListsStay

\* What the first page says of its queries, in one formula.
DashSays ==
    /\ DashIsNoAllClear /\ SkeletonsEnd /\ FirstIsAskedForTwice
    /\ CapIsMarked /\ LastDataIsShown /\ BadgesAgree

\* The sum of what is in the tiles, the lists, the badges and the banner of the first page
\* is of one piece (Dashboard.tsx:192-213, NeedsAttention.tsx:31-52).
THEOREM FirstPageAgrees == DashSpec => []DashSays
<1>1. DashInv => DashSays
  <2> SUFFICES ASSUME DashInv PROVE DashSays
    OBVIOUS
  <2>1. DashIsNoAllClear
    <3>1. AttentionSays = "all clear" => attentionItems = {} /\ Ready("services") /\ Ready("providers")
      BY DEF AttentionSays, attentionIncomplete, CachedSources
    <3>2. IsError("certificates") <=> "certificates unknown" \in attentionItems
      BY DEF attentionItems
    <3>3. TileSays("certificates") = "dash" => IsError("certificates")
      BY DEF TileSays, TileFailed, TileLoading
    <3>4. /\ TileSays("services") = "dash" => ~Ready("services")
          /\ TileSays("providers") = "dash" => ~Ready("providers")
      BY DEF TileSays, TileFailed, TileLoading, servicesUnknown, providersUnknown
    <3> QED BY <3>1, <3>2, <3>3, <3>4 DEF DashIsNoAllClear
  <2>2. SkeletonsEnd
    <3>1. \A src \in Sources : dash[src].data = None /\ ~IsError(src) => dash[src].ask = "asked"
      BY DEF DashInv, DashTypeOK, Query, Pending, IsError
    <3> QED BY <3>1 DEF SkeletonsEnd, AttentionSays, attentionLoading, ActivitySays, GlanceSays, TileSays, TileLoading,
               TileFailed, servicesUnknown, providersUnknown, logsUnknown, Ready, IsError, Pending, CachedSources, Sources
  <2>3. FirstIsAskedForTwice
    <3>1. Ready("providers") => Says("providers", "none") \/ Says("providers", "some")
      BY DashAssumption DEF DashInv, DashTypeOK, Query, Ready, Says, Sources
    <3>2. GlanceSays = "empty" <=> Ready("providers") /\ ~Says("providers", "some")
      BY DashAssumption DEF GlanceSays, TileLoading, providersUnknown, Ready, Says
    <3>3. "no integrations" \in attentionItems <=> Says("providers", "none")
      BY DEF attentionItems
    <3> QED BY <3>1, <3>2, <3>3, DashAssumption DEF FirstIsAskedForTwice, Ready, Says
  <2>4. CapIsMarked
    <3> SUFFICES ASSUME Ready("today"), ~logsTodayCapped
                 PROVE  logsToday = dash["today"].data.today
      BY DEF CapIsMarked, TileSays, TileLoading, TileFailed, logsUnknown
    <3>1. dash["today"].data \in Answers["today"]
      BY DEF DashInv, DashTypeOK, Query, Ready, Sources
    <3>2. /\ dash["today"].data.total \in Nat /\ TODAY_LOGS_SAMPLE \in Nat
          /\ dash["today"].data.today \in 0..dash["today"].data.total
      BY <3>1, DashAssumption
    <3> QED BY <3>2 DEF logsTodayCapped, logsToday, todayItems, logsUnknown
  <2>5. LastDataIsShown
    <3>1. /\ Ready("services") \/ Ready("stats") => TileSays("services") = "figure"
          /\ Ready("providers") => TileSays("providers") = "figure"
      BY DEF TileSays, TileLoading, TileFailed, servicesUnknown, providersUnknown
    <3>2. OfflineSays = "last data" => hasSomeData
      BY DEF OfflineSays
    <3> QED BY <3>1, <3>2 DEF LastDataIsShown, hasSomeData, CachedSources
  <2>6. BadgesAgree
    BY DashAssumption
       DEF BadgesAgree, monitoringAlert, certificatesAlert, certificatesBadge, certExpiryKnown, attentionItems, Says, Ready
  <2> QED BY <2>1, <2>2, <2>3, <2>4, <2>5, <2>6 DEF DashSays
<1> QED BY <1>1, DashInvAtFirst, DashInvStays, PTL DEF DashSpec

(***************************************************************************)
(* The types of the reading pages, for every value of their constants.     *)
(***************************************************************************)
Facts == {"long", "short", "empty"}
Parts == {"health"} \cup Tables

LEMMA DetailsStayOf ==
    ASSUME details \in [Inspected -> [Parts -> Query(Facts)]],
           NEW id \in Inspected, NEW part \in Parts, NEW query \in Query(Facts),
           details' = [details EXCEPT ![id][part] = query]
    PROVE  details' \in [Inspected -> [Parts -> Query(Facts)]]
<1>1. details[id] \in [Parts -> Query(Facts)]
  OBVIOUS
<1>2. [details[id] EXCEPT ![part] = query] \in [Parts -> Query(Facts)]
  BY <1>1
<1>3. details' = [details EXCEPT ![id] = [details[id] EXCEPT ![part] = query]]
  OBVIOUS
<1> QED BY <1>2, <1>3

InspectorTyped ==
    /\ kept \subseteq Inspected /\ inspectId \in Inspected \cup {None} /\ search.id \in Inspected \cup {None}
    /\ details \in [Inspected -> [Parts -> Query(Facts)]]

LEMMA InspectorStaysTyped == InspectorTyped /\ [InspectorNext]_inspectorVars => InspectorTyped'
<1> SUFFICES ASSUME InspectorTyped, [InspectorNext]_inspectorVars PROVE InspectorTyped'
  OBVIOUS
<1>q. \A id \in Inspected, part \in Parts :
         /\ details[id][part] \in Query(Facts)
         /\ Asked(details[id][part]) \in Query(Facts) /\ Failed(details[id][part]) \in Query(Facts)
  BY QueryStaysOf DEF InspectorTyped
<1>1. CASE CloseInspector \/ UNCHANGED inspectorVars
  BY <1>1 DEF CloseInspector, inspectorVars, InspectorTyped
<1>2. ASSUME NEW id \in Inspected, Inspect(id)
      PROVE  InspectorTyped'
  <2> DEFINE shown == [part \in Parts |-> IF part \in EnabledFor(id) THEN Asked(details[id][part]) ELSE details[id][part]]
  <2>1. details' = [details EXCEPT ![id] = shown]
    BY <1>2 DEF Inspect, InspectorTyped
  <2>2. shown \in [Parts -> Query(Facts)]
    BY <1>q
  <2>3. details' \in [Inspected -> [Parts -> Query(Facts)]]
    BY <2>1, <2>2 DEF InspectorTyped
  <2> QED BY <1>2, <2>3 DEF Inspect, InspectorTyped
<1>3. ASSUME NEW id \in Inspected, Lost(id)
      PROVE  InspectorTyped'
  BY <1>3 DEF Lost, InspectorTyped
<1>4. ASSUME NEW id \in Inspected, NEW part \in Parts, DetailLands(id, part)
      PROVE  InspectorTyped'
  <2>1. PICK answer \in Facts : \/ details' = [details EXCEPT ![id][part] = Landed(answer)]
                                \/ details' = [details EXCEPT ![id][part] = Failed(@)]
    BY <1>4 DEF DetailLands, Facts
  <2>2. Landed(answer) \in Query(Facts)
    BY DEF Landed, Query
  <2>3. PICK query \in Query(Facts) : details' = [details EXCEPT ![id][part] = query]
    BY <2>1, <2>2, <1>q
  <2>4. details' \in [Inspected -> [Parts -> Query(Facts)]]
    BY <2>3, DetailsStayOf DEF InspectorTyped
  <2> QED BY <1>4, <2>4 DEF DetailLands, InspectorTyped
<1>5. ASSUME NEW table \in Tables, NEW text \in Terms \cup {""}, TypeSearch(table, text)
      PROVE  InspectorTyped'
  <2>1. inspectId \in Inspected
    BY <1>5 DEF TypeSearch, SearchBox, Open, InspectorTyped
  <2>2. search'.id = inspectId
    BY <1>5 DEF TypeSearch, setSearch
  <2> QED BY <1>5, <2>1, <2>2 DEF TypeSearch, InspectorTyped
<1>6. ASSUME NEW part \in Parts, RetryDetail(part)
      PROVE  InspectorTyped'
  <2>1. inspectId \in Inspected
    BY <1>6 DEF RetryDetail, Open, InspectorTyped
  <2>2. details' = [details EXCEPT ![inspectId][part] = Asked(@)]
    BY <1>6 DEF RetryDetail
  <2>3. PICK query \in Query(Facts) : details' = [details EXCEPT ![inspectId][part] = query]
    BY <2>1, <2>2, <1>q
  <2>4. details' \in [Inspected -> [Parts -> Query(Facts)]]
    BY <2>1, <2>3, DetailsStayOf DEF InspectorTyped
  <2> QED BY <1>6, <2>4 DEF RetryDetail, InspectorTyped
<1> QED BY <1>1, <1>2, <1>3, <1>4, <1>5, <1>6 DEF InspectorNext, Parts

\* The drawer of an integration keeps its types.
THEOREM InspectorTypeCorrect == InspectorSpec => []InspectorTypeOK
<1>1. InspectorInit => InspectorTyped
  <2> SUFFICES ASSUME InspectorInit PROVE InspectorTyped
    OBVIOUS
  <2> DEFINE unread == [part \in Parts |-> Unasked]
  <2>1. unread \in [Parts -> Query(Facts)]
    BY UnaskedIsOf
  <2>2. details = [id \in Inspected |-> unread]
    BY DEF InspectorInit, Parts
  <2>3. details \in [Inspected -> [Parts -> Query(Facts)]]
    <3> HIDE DEF unread
    <3> QED BY <2>1, <2>2
  <2>4. kept \subseteq Inspected /\ inspectId \in Inspected \cup {None} /\ search.id \in Inspected \cup {None}
    BY DEF InspectorInit
  <2> QED BY <2>3, <2>4 DEF InspectorTyped
<1>2. InspectorTyped => InspectorTypeOK
  BY DEF InspectorTyped, InspectorTypeOK, HealthShows, Facts, Parts
<1> QED BY <1>1, <1>2, InspectorStaysTyped, PTL DEF InspectorSpec

Tracked == TrackedAs \cup {None}

SyncTyped ==
    /\ trackedAt \in [Hosts -> Tracked] /\ trackedQ \in Query([Hosts -> Tracked])
    /\ declaredAt \subseteq Zones /\ selectedRows \subseteq Hosts
    /\ zoneFilter \in Zones \cup {None}

LEMMA SyncStaysTyped == ImportTyped /\ SyncTyped /\ [SyncNext]_syncVars => SyncTyped'
<1> SUFFICES ASSUME ImportTyped, SyncTyped, [SyncNext]_syncVars PROVE SyncTyped'
  OBVIOUS
<1>q. Asked(trackedQ) \in Query([Hosts -> Tracked]) /\ Failed(trackedQ) \in Query([Hosts -> Tracked])
  BY QueryStaysOf DEF SyncTyped
<1>r. \A row \in syncRows : row.key \in Hosts /\ row.zone \in Zones
  BY RowsAreRows DEF ImportTyped, Rows
<1>v. inDeclared \subseteq syncRows /\ visibleRows \subseteq syncRows /\ visibleImportable \subseteq syncRows
  BY DEF visibleImportable, visibleRows, inDeclared
<1>1. CASE TrackedLand
  <2>1. Landed(trackedAt) \in Query([Hosts -> Tracked])
    BY DEF SyncTyped, Landed, Query
  <2> QED BY <1>1, <1>q, <2>1 DEF TrackedLand, SyncTyped, syncPage
<1>2. CASE Scan \/ AskImport \/ AnswerImport \/ UNCHANGED syncVars
  BY <1>2 DEF Scan, AskImport, AnswerImport, syncServer, syncPage, syncVars, SyncTyped
<1>3. CASE ScanLands
  BY <1>3 DEF ScanLands, syncServer, SyncTyped
<1>4. CASE SelectAll
  <2>1. Keys(visibleImportable) \subseteq Hosts
    BY <1>r, <1>v DEF Keys
  <2> QED BY <1>4, <2>1 DEF SelectAll, SyncRests, syncServer, SyncTyped
<1>5. ASSUME NEW row \in syncRows, toggleRow(row)
      PROVE  SyncTyped'
  BY <1>5, <1>r DEF toggleRow, SyncRests, syncServer, SyncTyped
<1>6. CASE ChooseZones
  <2>1. {row.zone : row \in inDeclared} \subseteq Zones
    BY <1>r, <1>v
  <2>2. zoneFilter' \in Zones \cup {None}
    BY <1>6, <2>1 DEF ChooseZones, SyncTyped
  <2> QED BY <1>6, <2>2 DEF ChooseZones, SyncRests, syncServer, SyncTyped
<1>7. CASE ServeImportRows
  <2>1. CASE UNCHANGED syncServer
    BY <1>7, <2>1 DEF ServeImportRows, syncServer, syncPage, SyncTyped
  <2>2. CASE /\ trackedAt' = [h \in Hosts |-> AfterImport(h)]
             /\ declaredAt' = declaredAt \cup {ZoneOfHost[h] : h \in {g \in Hosts : trackedAt[g] = None /\ trackedAt'[g] # None}}
    <3>1. \A h \in Hosts : AfterImport(h) \in Tracked
      BY DEF AfterImport, Tracked, TrackedAs, SyncTyped
    <3>2. declaredAt' \subseteq Zones
      BY <2>2 DEF Zones, SyncTyped
    <3> QED BY <1>7, <2>2, <3>1, <3>2 DEF ServeImportRows, syncPage, SyncTyped
  <2> QED BY <1>7, <2>1, <2>2 DEF ServeImportRows
<1>8. CASE ImportRowsLand
  <2>1. trackedQ' \in {trackedQ, Asked(trackedQ)}
    BY <1>8 DEF ImportRowsLand, ReadAfterImport, Reread
  <2> QED BY <1>8, <1>q, <2>1 DEF ImportRowsLand, syncPage, SyncTyped
<1>9. CASE Elsewhere
  <2>1. PICK h \in Hosts : trackedAt' = [trackedAt EXCEPT ![h] = IF @ = None THEN "full" ELSE None]
    BY <1>9 DEF Elsewhere
  <2>2. trackedAt' \in [Hosts -> Tracked]
    BY <2>1 DEF SyncTyped, Tracked, TrackedAs
  <2> QED BY <1>9, <2>2 DEF Elsewhere, syncPage, SyncTyped
<1> QED BY <1>1, <1>2, <1>3, <1>4, <1>5, <1>6, <1>7, <1>8, <1>9 DEF SyncNext

\* The rows of a scan keep their types.
THEOREM SyncTypeCorrect == SyncSpec => []SyncTypeOK
<1>1. SyncInit => RowsAsTold /\ ImportTyped /\ SyncTyped
  <2> SUFFICES ASSUME SyncInit PROVE RowsAsTold /\ ImportTyped /\ SyncTyped
    OBVIOUS
  <2>1. Asked(Unasked) \in Query([Hosts -> Tracked])
    BY UnaskedIsOf, QueryStaysOf
  <2>2. trackedAt \in [Hosts -> Tracked]
    BY DEF SyncInit, Tracked, TrackedAs
  <2> QED BY <2>1, <2>2 DEF SyncInit, RowsAsTold, ImportTyped, SyncTyped
<1>2. SyncTyped => SyncTypeOK
  BY DEF SyncTyped, SyncTypeOK, Tracked
<1> QED BY <1>1, <1>2, RowsStayTold, ImportStaysTyped, SyncStaysTyped, PTL DEF SyncSpec

EndpointRefs == Endpoints \cup {None}

\* What the section reads and chooses, and what it is told of a new endpoint.
DockerTyped ==
    /\ endpointsAt \subseteq Endpoints
    /\ IF endpointsAt = {} THEN defaultAt = None ELSE defaultAt \in endpointsAt
    /\ endpointsQ \in Query(Seq(Endpoints)) /\ domainsQ \in Query({Domains})
    /\ dockerEndpointId \in EndpointRefs /\ dockerDomain \in ToSet(Domains) \cup {None}
    /\ \A w \in dockerWrites : w.op = "add" => w.id \in EndpointRefs
    /\ found.ported \subseteq found.ids /\ found.ids \subseteq Containers

\* There is a well-founded order of the numbers, so a set of them has a smallest.
LEMMA OrderOfNat ==
    \E R : IsWellFoundedOn(R, Nat) /\ \A x, y \in Nat : x < y => <<x, y>> \in R
<1>1. IsWellFoundedOn(OpToRel(<, Nat), Nat)
  BY NatLessThanWellFounded
<1>2. \A x, y \in Nat : x < y => <<x, y>> \in OpToRel(<, Nat)
  BY DEF OpToRel
<1> QED BY <1>1, <1>2

LEMMA SmallestNat ==
    ASSUME NEW T, T \subseteq Nat, T # {}
    PROVE  \E n \in T : \A m \in T : n <= m
<1>1. PICK R : IsWellFoundedOn(R, Nat) /\ \A x, y \in Nat : x < y => <<x, y>> \in R
  BY OrderOfNat
<1>w. IsWellFoundedOn(R, Nat)
  BY <1>1
<1>2. PICK n \in T : \A m \in T : ~ (<<m, n>> \in R)
  BY <1>w, WFMin
<1>3. \A m \in T : ~(m < n)
  BY <1>1, <1>2
<1> QED BY <1>3

LEMMA EndpointsAreListed ==
    ASSUME DockerTyped PROVE EndpointList \in Seq(Endpoints)
<1>1. CASE endpointsAt = {}
  BY <1>1 DEF EndpointList
<1>2. CASE endpointsAt # {}
  <2> DEFINE rest == SetToSeq(endpointsAt \ {defaultAt})
  <2>1. rest \in Seq(endpointsAt \ {defaultAt})
    BY DiscoveryAssumption, FS_Subset, SetAsSeq DEF DockerTyped
  <2>2. rest \in Seq(Endpoints) /\ defaultAt \in Endpoints
    BY <1>2, <2>1 DEF DockerTyped
  <2> HIDE DEF rest
  <2>3. <<defaultAt>> \o rest \in Seq(Endpoints)
    BY <2>2
  <2> QED BY <1>2, <2>3 DEF EndpointList, rest
<1> QED BY <1>1, <1>2

LEMMA ChoicesAreListed ==
    ASSUME DockerTyped
    PROVE  /\ ToSet(dockerEndpoints) \subseteq Endpoints /\ effectiveEndpointId \in EndpointRefs
           /\ ToSet(domains) \subseteq ToSet(Domains) /\ effectiveDomain \in ToSet(Domains) \cup {None}
<1>1. dockerEndpoints \in Seq(Endpoints)
  BY DEF dockerEndpoints, DockerTyped, Query
<1>2. domains = <<>> \/ domains = Domains
  BY DEF domains, DockerTyped, Query
<1>3. domains \in Seq(ToSet(Domains))
  <2>1. Domains \in Seq(ToSet(Domains)) /\ <<>> \in Seq(ToSet(Domains))
    BY DiscoveryAssumption
  <2> QED BY <1>2, <2>1
<1>4. ToSet(dockerEndpoints) \subseteq Endpoints /\ ToSet(domains) \subseteq ToSet(Domains)
  BY <1>1, <1>3 DEF ToSet
<1>5. FirstOf(dockerEndpoints) \in EndpointRefs
  BY <1>1 DEF FirstOf, EndpointRefs
<1>6. FirstOf(domains) \in ToSet(Domains) \cup {None}
  BY <1>3 DEF FirstOf
<1> QED BY <1>4, <1>5, <1>6 DEF effectiveEndpointId, effectiveDomain, DockerTyped, EndpointRefs

LEMMA DockerStaysTyped == NamesIt /\ DockerTyped /\ [DockerNext]_dockerVars => DockerTyped'
<1> SUFFICES ASSUME NamesIt, DockerTyped, [DockerNext]_dockerVars PROVE DockerTyped'
  OBVIOUS
<1>q. /\ Asked(endpointsQ) \in Query(Seq(Endpoints)) /\ Failed(endpointsQ) \in Query(Seq(Endpoints))
      /\ Asked(domainsQ) \in Query({Domains}) /\ Failed(domainsQ) \in Query({Domains})
  BY QueryStaysOf DEF DockerTyped
<1>c. /\ ToSet(dockerEndpoints) \subseteq Endpoints /\ ToSet(domains) \subseteq ToSet(Domains)
  BY ChoicesAreListed
<1>w. ASSUME NEW op, NEW id, DockerWrite(op, id), op = "add" => id = None
      PROVE  \A w \in dockerWrites' : w.op = "add" => w.id \in EndpointRefs
  <2> DEFINE sent == [op |-> op, id |-> id, at |-> "sent", told |-> IF op = "delete" THEN asked.id ELSE None]
  <2>1. dockerWrites' = dockerWrites \cup {sent}
    BY <1>w DEF DockerWrite
  <2>2. sent.op = op /\ sent.id = id
    OBVIOUS
  <2> HIDE DEF sent
  <2> QED BY <1>w, <2>1, <2>2 DEF DockerTyped, EndpointRefs
<1>1. CASE EndpointsLand
  <2>1. Landed(EndpointList) \in Query(Seq(Endpoints))
    BY EndpointsAreListed DEF Landed, Query
  <2> QED BY <1>1, <1>q, <2>1 DEF EndpointsLand, dockerServer, dockerForm, dockerFound, dockerCalls, DockerTyped
<1>2. CASE ImportListsLand
  <2>1. Landed(Domains) \in Query({Domains})
    BY DEF Landed, Query
  <2> QED BY <1>2, <1>q, <2>1 DEF ImportListsLand, dockerServer, dockerForm, dockerFound, dockerCalls, DockerTyped
<1>3. CASE RetryDocker
  BY <1>3, <1>q DEF RetryDocker, dockerServer, dockerForm, dockerFound, dockerCalls, DockerTyped
<1>4. CASE ChooseInForm
  BY <1>4, <1>c DEF ChooseInForm, dockerServer, dockerReads, dockerFound, dockerCalls, DockerTyped, EndpointRefs
<1>5. CASE AddEndpoint
  BY <1>5, <1>w DEF AddEndpoint, dockerServer, dockerReads, dockerForm, dockerFound, DockerTyped
<1>6. CASE SetDefault
  BY <1>6, <1>w DEF SetDefault, dockerServer, dockerReads, dockerForm, dockerFound, DockerTyped
<1>7. CASE AnswerDelete
  <2>1. \A w \in dockerWrites' : w.op = "add" => w.id \in EndpointRefs
    BY <1>7, <1>w DEF AnswerDelete, DockerTyped
  <2> QED BY <1>7, <2>1 DEF AnswerDelete, dockerServer, dockerReads, dockerForm, dockerFound, DockerTyped
<1>8. CASE AnswerContainers
  <2>1. \A w \in dockerWrites' : w.op = "add" => w.id \in EndpointRefs
    BY <1>8, <1>w DEF AnswerContainers, DockerTyped
  <2> QED BY <1>8, <2>1 DEF AnswerContainers, dockerServer, dockerReads, dockerForm, dockerFound, DockerTyped
<1>9. ASSUME NEW w \in dockerWrites, ServeEndpoint(w)
      PROVE  DockerTyped'
  <2>w. Fields(w) /\ (w.op = "add" => w.id \in EndpointRefs)
    BY DEF NamesIt, DockerTyped
  <2>1. CASE dockerWrites' = (dockerWrites \ {w}) \cup {[w EXCEPT !.at = "failed"]} /\ UNCHANGED <<dockerServer, lostAnswer>>
    <3> DEFINE next == [w EXCEPT !.at = "failed"]
    <3>1. next.op = w.op /\ next.id = w.id
      <4> DEFINE same == [op |-> w.op, id |-> w.id, at |-> w.at, told |-> w.told]
      <4>1. [same EXCEPT !.at = "failed"] = [op |-> w.op, id |-> w.id, at |-> "failed", told |-> w.told]
        OBVIOUS
      <4>2. next = [same EXCEPT !.at = "failed"]
        BY <2>w DEF Fields
      <4> HIDE DEF same, next
      <4> QED BY <4>1, <4>2
    <3> HIDE DEF next
    <3>2. dockerWrites' = (dockerWrites \ {w}) \cup {next}
      BY <2>1 DEF next
    <3>3. \A v \in dockerWrites' : v.op = "add" => v.id \in EndpointRefs
      BY <2>w, <3>1, <3>2 DEF DockerTyped
    <3> QED BY <1>9, <2>1, <3>3 DEF ServeEndpoint, dockerServer, dockerReads, dockerForm, dockerFound, DockerTyped
  <2>2. ASSUME NEW id \in IF w.op = "add" THEN Endpoints \ endpointsAt ELSE endpointsAt \cap {w.id},
               w.op = "delete" => endpointsAt # {id}, endpointsAt' = EndpointsAfter(w, id),
               defaultAt' = IF w.op = "default" THEN id
                            ELSE IF defaultAt \in endpointsAt' THEN defaultAt
                            ELSE CHOOSE e \in endpointsAt' : \A g \in endpointsAt' : e <= g,
               NEW at \in {"done", "failed"},
               dockerWrites' = (dockerWrites \ {w}) \cup {[w EXCEPT !.at = at, !.id = id]}
        PROVE  DockerTyped'
    <3>1. id \in Endpoints
      BY <2>2 DEF DockerTyped
    <3>2. endpointsAt' \subseteq Endpoints /\ endpointsAt' # {} /\ (w.op = "default" => id \in endpointsAt')
      BY <1>9, <2>2, <3>1 DEF EndpointsAfter, DockerTyped, ServeEndpoint
    <3>3. \E e \in endpointsAt' : \A g \in endpointsAt' : e <= g
      BY <3>2, DiscoveryAssumption, SmallestNat
    <3>4. (CHOOSE e \in endpointsAt' : \A g \in endpointsAt' : e <= g) \in endpointsAt'
      BY <3>3
    <3>5. defaultAt' \in endpointsAt'
      BY <2>2, <3>2, <3>4
    <3> DEFINE next == [w EXCEPT !.at = at, !.id = id]
    <3>6. next.id = id
      <4> DEFINE same == [op |-> w.op, id |-> w.id, at |-> w.at, told |-> w.told]
                 met == [same EXCEPT !.at = at]
      <4>1. met = [op |-> w.op, id |-> w.id, at |-> at, told |-> w.told]
        OBVIOUS
      <4>2. [met EXCEPT !.id = id] = [op |-> w.op, id |-> id, at |-> at, told |-> w.told]
        <5> HIDE DEF met
        <5> QED BY <4>1
      <4>3. next = [met EXCEPT !.id = id]
        BY <2>w DEF Fields
      <4> HIDE DEF met, next
      <4> QED BY <4>2, <4>3
    <3> HIDE DEF next
    <3>7. dockerWrites' = (dockerWrites \ {w}) \cup {next}
      BY <2>2 DEF next
    <3>8. \A v \in dockerWrites' : v.op = "add" => v.id \in EndpointRefs
      BY <3>1, <3>6, <3>7 DEF DockerTyped, EndpointRefs
    <3> QED BY <1>9, <3>2, <3>5, <3>8 DEF ServeEndpoint, dockerReads, dockerForm, dockerFound, DockerTyped
  <2> QED BY <1>9, <2>1, <2>2 DEF ServeEndpoint
<1>10. ASSUME NEW w \in dockerWrites, EndpointAnswered(w)
       PROVE  DockerTyped'
  <2>1. dockerEndpointId' \in EndpointRefs
    BY <1>10 DEF EndpointAnswered, DockerTyped, EndpointRefs
  <2>2. endpointsQ' \in {endpointsQ, Asked(endpointsQ)}
    BY <1>10 DEF EndpointAnswered, EndpointsAgain, Reread
  <2> QED BY <1>10, <1>q, <2>1, <2>2 DEF EndpointAnswered, dockerServer, dockerFound, DockerTyped
<1>11. ASSUME NEW w \in dockerWrites, ImportedContainers(w)
       PROVE  DockerTyped'
  BY <1>11 DEF ImportedContainers, dockerServer, dockerReads, dockerForm, dockerFound, DockerTyped
<1>12. CASE DiscoveryLands
  <2>1. found'.ported \subseteq found'.ids /\ found'.ids \subseteq Containers
    BY <1>12 DEF DiscoveryLands, DockerTyped
  <2> QED BY <1>12, <2>1 DEF DiscoveryLands, dockerServer, dockerReads, dockerForm, dockerCalls, DockerTyped
<1>13. CASE Discover \/ TickContainers \/ AskDelete \/ requestImport \/ UNCHANGED dockerVars
  BY <1>13 DEF Discover, TickContainers, AskDelete, requestImport, dockerVars, dockerServer, dockerReads, dockerForm,
               dockerFound, dockerCalls, DockerTyped
<1> QED BY <1>1, <1>2, <1>3, <1>4, <1>5, <1>6, <1>7, <1>8, <1>9, <1>10, <1>11, <1>12, <1>13 DEF DockerNext

\* The Docker section keeps its types: what it chooses is an endpoint or a domain that was
\* read, and one that lists endpoints lists the default.
THEOREM DockerTypeCorrect == DockerSpec => []DockerTypeOK
<1>1. DockerInit => NamesIt /\ DockerTyped
  <2> SUFFICES ASSUME DockerInit PROVE NamesIt /\ DockerTyped
    OBVIOUS
  <2>1. Asked(Unasked) \in Query(Seq(Endpoints)) /\ Asked(Unasked) \in Query({Domains})
    BY UnaskedIsOf, QueryStaysOf
  <2>2. endpointsAt \subseteq Endpoints /\ (IF endpointsAt = {} THEN defaultAt = None ELSE defaultAt \in endpointsAt)
    BY DEF DockerInit
  <2> QED BY <2>1, <2>2 DEF DockerInit, NamesIt, DockerTyped, EndpointRefs, NothingFound
<1>2. DockerTyped => DockerTypeOK
  BY ChoicesAreListed DEF DockerTyped, DockerTypeOK, EndpointRefs
<1> QED BY <1>1, <1>2, NamesItStays, DockerStaysTyped, PTL DEF DockerSpec

CheckStates == {"sent", "done", "failed"}

MonTyped ==
    /\ statusAt \in [Watched -> Statuses \cup {"disabled"}] /\ clock \in 0..MaxTime
    /\ checkingId \in Watched \cup {None} /\ checksSent \in 0..MaxChecks /\ unshown \in BOOLEAN
    /\ \A c \in checksOut : CheckIs(c) /\ c.at \in CheckStates /\ c.n \in 1..MaxChecks

\* What the server makes of a check is the same check.
LEMMA ServedCheckKeeps ==
    ASSUME NEW c, CheckIs(c), NEW at, NEW result, NEW enabled, NEW served,
           served = [c EXCEPT !.at = at] \/ served = Found(c, at, result, enabled)
    PROVE  CheckIs(served) /\ served.at = at /\ served.n = c.n
<1> DEFINE same == [ids |-> c.ids, n |-> c.n, at |-> c.at, found |-> c.found, enabled |-> c.enabled]
           told == [same EXCEPT !.at = at]
           with == [told EXCEPT !.found = result]
<1>1. told = [ids |-> c.ids, n |-> c.n, at |-> at, found |-> c.found, enabled |-> c.enabled]
  OBVIOUS
<1>2. with = [ids |-> c.ids, n |-> c.n, at |-> at, found |-> result, enabled |-> c.enabled]
  <2> HIDE DEF told
  <2> QED BY <1>1
<1>3. [with EXCEPT !.enabled = enabled] = [ids |-> c.ids, n |-> c.n, at |-> at, found |-> result, enabled |-> enabled]
  <2> HIDE DEF with
  <2> QED BY <1>2
<1>4. served = told \/ served = [with EXCEPT !.enabled = enabled]
  BY DEF CheckIs, Found
<1> HIDE DEF told, with
<1> QED BY <1>1, <1>3, <1>4 DEF CheckIs

LEMMA MonStaysTyped == MonTyped /\ [MonNext]_monVars => MonTyped'
<1> SUFFICES ASSUME MonTyped, [MonNext]_monVars PROVE MonTyped'
  OBVIOUS
<1>1. CASE StatusLand \/ HistoryLand \/ Poll \/ UNCHANGED monVars
  BY <1>1 DEF StatusLand, HistoryLand, Poll, monVars, monServer, monMeasured, MonTyped
<1>2. CASE TimePasses
  BY <1>2, MonAssumption DEF TimePasses, monMeasured, MonTyped
<1>3. ASSUME NEW ids, SendCheck(ids), UNCHANGED <<monServer, unshown>>, checkingId' \in Watched \cup {None}
      PROVE  MonTyped'
  <2> DEFINE sent == [ids |-> ids, n |-> checksSent', at |-> "sent", found |-> None, enabled |-> 0]
  <2>1. checksSent' \in 1..MaxChecks /\ checksOut' = checksOut \cup {sent}
    BY <1>3, MonAssumption DEF SendCheck, MonTyped
  <2>2. CheckIs(sent) /\ sent.at = "sent" /\ sent.n = checksSent'
    BY DEF CheckIs
  <2> HIDE DEF sent
  <2>3. checksSent' \in 0..MaxChecks
    BY <2>1, MonAssumption
  <2>4. UNCHANGED <<statusAt, clock>>
    BY <1>3 DEF monServer
  <2> QED BY <1>3, <2>1, <2>2, <2>3, <2>4 DEF MonTyped, CheckStates
<1>4. CASE CheckAll \/ \E s \in Watched : CheckOne(s)
  <2>1. CASE CheckAll
    <3>1. checkingId' \in Watched \cup {None}
      BY <2>1 DEF CheckAll, MonTyped
    <3> QED BY <1>3, <2>1, <3>1 DEF CheckAll
  <2>2. ASSUME NEW s \in Watched, CheckOne(s) PROVE MonTyped'
    BY <1>3, <2>2 DEF CheckOne
  <2> QED BY <1>4, <2>1, <2>2
<1>5. ASSUME NEW c \in checksOut, ServeCheck(c) PROVE MonTyped'
  <2>c. CheckIs(c) /\ c.n \in 1..MaxChecks
    BY DEF MonTyped
  <2>u. UNCHANGED <<clock, checkingId, checksSent>>
    BY <1>5 DEF ServeCheck
  <2>1. ASSUME NEW served, CheckIs(served), served.at \in CheckStates, served.n = c.n,
               checksOut' = (checksOut \ {c}) \cup {served}
        PROVE  \A d \in checksOut' : CheckIs(d) /\ d.at \in CheckStates /\ d.n \in 1..MaxChecks
    BY <2>c, <2>1 DEF MonTyped
  <2>v. unshown' \in BOOLEAN
    BY <1>5 DEF ServeCheck, MonTyped
  <2>s. statusAt' \in [Watched -> Statuses \cup {"disabled"}]
    <3>1. CASE UNCHANGED statusAt
      BY <3>1 DEF MonTyped
    <3>2. ASSUME NEW result \in [Probed(c.ids) -> {"ok", "error"}],
                 statusAt' = [s \in Watched |-> IF s \in Probed(c.ids) THEN result[s] ELSE statusAt[s]]
          PROVE  statusAt' \in [Watched -> Statuses \cup {"disabled"}]
      BY <3>2 DEF MonTyped, Statuses
    <3> QED BY <1>5, <3>1, <3>2 DEF ServeCheck
  <2>2. CASE checksOut' = (checksOut \ {c}) \cup {[c EXCEPT !.at = "failed"]}
    <3>1. \A served : served = [c EXCEPT !.at = "failed"] => CheckIs(served) /\ served.at = "failed" /\ served.n = c.n
      BY <2>c, ServedCheckKeeps
    <3>2. \A d \in checksOut' : CheckIs(d) /\ d.at \in CheckStates /\ d.n \in 1..MaxChecks
      BY <2>1, <2>2, <3>1 DEF CheckStates
    <3> QED BY <2>u, <2>v, <2>s, <3>2 DEF MonTyped
  <2>3. ASSUME NEW result, NEW enabled,
               checksOut' = (checksOut \ {c}) \cup {[c EXCEPT !.at = "done", !.found = result, !.enabled = enabled]}
        PROVE  MonTyped'
    <3> DEFINE done == [c EXCEPT !.at = "done", !.found = result, !.enabled = enabled]
    <3>1. CheckIs(done) /\ done.at = "done" /\ done.n = c.n
      <4>1. done = Found(c, "done", result, enabled)
        BY DEF Found
      <4> HIDE DEF done
      <4> QED BY <2>c, <4>1, ServedCheckKeeps
    <3>2. checksOut' = (checksOut \ {c}) \cup {done}
      BY <2>3
    <3> HIDE DEF done
    <3>3. \A d \in checksOut' : CheckIs(d) /\ d.at \in CheckStates /\ d.n \in 1..MaxChecks
      BY <2>1, <3>1, <3>2 DEF CheckStates
    <3> QED BY <2>u, <2>v, <2>s, <3>3 DEF MonTyped
  <2> QED BY <1>5, <2>2, <2>3 DEF ServeCheck
<1>6. ASSUME NEW c \in checksOut, CheckLands(c) PROVE MonTyped'
  <2>1. checksOut' = checksOut \ {c} /\ UNCHANGED <<statusAt, clock, checksSent>> /\ checkingId' \in {checkingId, None}
    BY <1>6 DEF CheckLands, monServer
  <2>2. unshown' \in BOOLEAN
    BY <1>6 DEF CheckLands, MonTyped
  <2> QED BY <2>1, <2>2 DEF MonTyped
<1> QED BY <1>1, <1>2, <1>4, <1>5, <1>6 DEF MonNext

\* The monitoring page keeps its types.
THEOREM MonTypeCorrect == MonSpec => []MonTypeOK
<1>1. MonInit => MonTyped
  <2> SUFFICES ASSUME MonInit PROVE MonTyped
    OBVIOUS
  <2>1. statusAt \in [Watched -> Statuses \cup {"disabled"}]
    <3>1. {"unknown", "disabled"} \subseteq Statuses \cup {"disabled"}
      BY DEF Statuses
    <3>2. statusAt \in [Watched -> {"unknown", "disabled"}]
      BY DEF MonInit
    <3> QED BY <3>1, <3>2
  <2>2. 0 \in 0..MaxTime /\ 0 \in 0..MaxChecks
    BY MonAssumption
  <2>3. unshown \in BOOLEAN /\ checksOut = {} /\ checkingId = None /\ clock = 0 /\ checksSent = 0
    BY DEF MonInit
  <2> QED BY <2>1, <2>2, <2>3 DEF MonTyped
<1>2. MonTyped => MonTypeOK
  BY DEF MonTyped, MonTypeOK, CheckStates
<1> QED BY <1>1, <1>2, MonStaysTyped, PTL DEF MonSpec

(***************************************************************************)
(* The certificates, for every set of stores: what a row holds, and what   *)
(* the counters, the badge and the filters make of the rows.               *)
(***************************************************************************)
DayOrNone == Int \cup {None}
CertRows == [store : Stores, expires : DayOrNone, remaining_days : DayOrNone, days_remaining : DayOrNone]

\* The rows of an answer: a row of the expiry route that has no days has no date.
ListOfRows == {rows \in SUBSET CertRows : IsFiniteSet(rows)}
ExpiryAnswers ==
    {answer \in [rows : ListOfRows, unread : SUBSET Stores] :
        /\ \A row \in answer.rows : row.days_remaining = None => row.expires = None
        /\ \A row \in answer.rows : row.store \notin answer.unread}

CertsInv ==
    /\ storesAt \in [Stores -> [enabled : BOOLEAN, expires : DayOrNone]]
    /\ \A s \in Stores : storesAt[s].expires \in Dates[s]
    /\ today \in 0..MaxDay
    /\ certStatus \in CERT_BUCKETS \cup {"all"} /\ certStore \in Stores \cup {"all"}
    /\ expiryQ \in Query(ExpiryAnswers) /\ certsQ \in Query(ListOfRows)

\* The rows that are answered of some of the stores.
LEMMA RowsOfStores ==
    ASSUME CertsInv, NEW of \in SUBSET Stores, NEW day \in Int
    PROVE  /\ \A s \in of : ExpiryRow(s, day) \in CertRows /\ CertificateRow(s, day) \in CertRows
           /\ \A s \in of : ExpiryRow(s, day) = [store |-> s, expires |-> storesAt[s].expires,
                                     remaining_days |-> Told(s, day), days_remaining |-> Left(s, day)]
           /\ \A s \in of : Left(s, day) = None => storesAt[s].expires = None
           /\ {CertificateRow(s, day) : s \in of} \in ListOfRows
           /\ {ExpiryRow(s, day) : s \in of} \in ListOfRows
<1>1. \A s \in of : /\ storesAt[s].expires \in DayOrNone
                    /\ Left(s, day) \in DayOrNone /\ Told(s, day) \in DayOrNone
                    /\ Left(s, day) = None => storesAt[s].expires = None
  BY CertsAssumption DEF CertsInv, Left, Told, DayOrNone
<1>2. \A s \in of : CertificateRow(s, day) \in CertRows
  BY <1>1 DEF CertificateRow, CertRows, DayOrNone
<1>3. \A s \in of : ExpiryRow(s, day) = [store |-> s, expires |-> storesAt[s].expires,
                              remaining_days |-> Told(s, day), days_remaining |-> Left(s, day)]
  BY DEF ExpiryRow, CertificateRow
<1>4. \A s \in of : ExpiryRow(s, day) \in CertRows
  BY <1>1, <1>3 DEF CertRows
<1>5. IsFiniteSet(of)
  BY CertsAssumption, FS_Subset
<1>6. IsFiniteSet({CertificateRow(s, day) : s \in of})
  <2> DEFINE rowOf == [s \in of |-> CertificateRow(s, day)]
  <2>1. rowOf \in Surjection(of, {CertificateRow(s, day) : s \in of})
    BY DEF Surjection
  <2> QED BY <1>5, <2>1, FS_Surjection
<1>7. IsFiniteSet({ExpiryRow(s, day) : s \in of})
  <2> DEFINE rowOf == [s \in of |-> ExpiryRow(s, day)]
  <2>1. rowOf \in Surjection(of, {ExpiryRow(s, day) : s \in of})
    BY DEF Surjection
  <2> QED BY <1>5, <2>1, FS_Surjection
<1> QED BY <1>1, <1>2, <1>3, <1>4, <1>6, <1>7 DEF ListOfRows

LEMMA CertsInvAtFirst == CertsInit => CertsInv
<1> SUFFICES ASSUME CertsInit PROVE CertsInv
  OBVIOUS
<1>1. \A s \in Stores : storesAt[s].enabled \in BOOLEAN /\ storesAt[s].expires \in DayOrNone
  BY CertsAssumption DEF CertsInit, DayOrNone
<1>2. \A s \in Stores : storesAt[s] \in [enabled : BOOLEAN, expires : DayOrNone]
  <2> SUFFICES ASSUME NEW s \in Stores PROVE storesAt[s] \in [enabled : BOOLEAN, expires : DayOrNone]
    OBVIOUS
  <2>1. storesAt[s] \in [enabled : {TRUE}, expires : UNION {Dates[o] : o \in Stores}]
    BY DEF CertsInit
  <2> QED BY <2>1, <1>1
<1>3. storesAt \in [Stores -> [enabled : BOOLEAN, expires : DayOrNone]]
  BY <1>2 DEF CertsInit
<1>4. Asked(Unasked) \in Query(ExpiryAnswers) /\ Unasked \in Query(ListOfRows)
  BY DEF Query, Asked, Unasked
<1>5. today \in 0..MaxDay
  BY CertsAssumption DEF CertsInit
<1> QED BY <1>3, <1>4, <1>5 DEF CertsInit, CertsInv

\* What the two reads of the page become.
LEMMA CertReadsStay ==
    ASSUME NEW Data, NEW query \in Query(Data)
    PROVE  /\ Asked(query) \in Query(Data) /\ Failed(query) \in Query(Data)
           /\ \A answer \in Data : Landed(answer) \in Query(Data)
BY DEF Query, Asked, Failed, Landed

LEMMA CertsInvStays == CertsInv /\ [CertsNext]_certVars => CertsInv'
<1> SUFFICES ASSUME CertsInv, [CertsNext]_certVars PROVE CertsInv'
  OBVIOUS
<1>t. today \in Int
  BY CertsAssumption DEF CertsInv
<1>1. CASE ExpiryLands
  <2>1. ASSUME NEW unread \in SUBSET EnabledStores
        PROVE  [rows |-> {ExpiryRow(s, today) : s \in EnabledStores \ unread}, unread |-> unread] \in ExpiryAnswers
    <3> DEFINE read == EnabledStores \ unread
               rows == {ExpiryRow(s, today) : s \in read}
    <3>1. read \in SUBSET Stores /\ unread \in SUBSET Stores
      BY DEF EnabledStores
    <3>2. /\ rows \in ListOfRows
          /\ \A s \in read : ExpiryRow(s, today) = [store |-> s, expires |-> storesAt[s].expires,
                                     remaining_days |-> Told(s, today), days_remaining |-> Left(s, today)]
          /\ \A s \in read : Left(s, today) = None => storesAt[s].expires = None
      <4> HIDE DEF read
      <4> QED BY <1>t, <3>1, RowsOfStores, Zenon
    <3>3. \A row \in rows : \E s \in read : row = ExpiryRow(s, today)
      OBVIOUS
    <3>4. \A row \in rows : row.store \in read /\ (row.days_remaining = None => row.expires = None)
      <4> HIDE DEF rows, read
      <4> QED BY <3>2, <3>3
    <3> DEFINE answer == [rows |-> rows, unread |-> unread]
    <3>5. answer.rows = rows /\ answer.unread = unread
      OBVIOUS
    <3>6. answer \in [rows : ListOfRows, unread : SUBSET Stores]
      BY <3>1, <3>2
    <3> HIDE DEF rows, answer
    <3>7. \A row \in answer.rows : row.store \notin answer.unread /\ (row.days_remaining = None => row.expires = None)
      BY <3>4, <3>5
    <3>8. answer \in ExpiryAnswers
      BY <3>6, <3>7 DEF ExpiryAnswers
    <3> QED BY <3>8 DEF answer, rows
  <2>2. expiryQ' \in Query(ExpiryAnswers)
    BY <1>1, <2>1, CertReadsStay DEF ExpiryLands, CertsInv
  <2>3. certsQ' \in Query(ListOfRows)
    BY <1>1, CertReadsStay DEF ExpiryLands, ReadIfFailed, CertsInv
  <2> QED BY <1>1, <2>2, <2>3 DEF ExpiryLands, certFilters, CertsInv
<1>2. CASE CertsLand
  <2>1. ASSUME NEW unread \in SUBSET EnabledStores
        PROVE  {CertificateRow(s, today) : s \in EnabledStores \ unread} \in ListOfRows
    <3>1. EnabledStores \ unread \in SUBSET Stores
      BY DEF EnabledStores
    <3> QED BY <1>t, <3>1, RowsOfStores
  <2>2. certsQ' \in Query(ListOfRows)
    BY <1>2, <2>1, CertReadsStay DEF CertsLand, CertsInv
  <2> QED BY <1>2, <2>2 DEF CertsLand, certFilters, CertsInv
<1>3. CASE RefreshCerts
  BY <1>3, CertReadsStay DEF RefreshCerts, certFilters, CertsInv
<1>4. CASE \E bucket \in Filters : SetStatus(bucket)
  BY <1>4, CertsAssumption DEF SetStatus, certQueries, CertsInv
<1>5. CASE SetStore
  <2>1. providerOptions \subseteq Stores
    BY DEF providerOptions, certRows, CertsInv, Query, ExpiryAnswers, ListOfRows, CertRows
  <2> QED BY <1>5, <2>1 DEF SetStore, certQueries, CertsInv
<1>6. CASE clearFilters
  BY <1>6 DEF clearFilters, certQueries, CertsInv
<1>7. CASE DayPasses
  BY <1>7, CertsAssumption DEF DayPasses, certQueries, certFilters, CertsInv
<1>8. ASSUME NEW s \in Stores, StoreSwitched(s) PROVE CertsInv'
  <2>1. today' \in 0..MaxDay
    BY <1>8, CertsAssumption DEF StoreSwitched, CertsInv
  <2>2. /\ storesAt' \in [Stores -> [enabled : BOOLEAN, expires : DayOrNone]]
        /\ \A o \in Stores : storesAt'[o].expires = storesAt[o].expires
    BY <1>8 DEF StoreSwitched, CertsInv
  <2> QED BY <1>8, <2>1, <2>2 DEF StoreSwitched, certQueries, certFilters, CertsInv
<1>9. CASE StoresLand \/ UNCHANGED certVars
  BY <1>9 DEF StoresLand, certVars, certQueries, certFilters, CertsInv
<1> QED BY <1>1, <1>2, <1>3, <1>4, <1>5, <1>6, <1>7, <1>8, <1>9 DEF CertsNext

\* The filters, the clock and the dates keep their types, and a store that could not be
\* read is not one of the stores whose certificates are listed.
THEOREM CertsTypeCorrect == CertsSpec => []CertsTypeOK
<1>1. CertsInv => CertsTypeOK
  <2>1. CertsInv /\ expiryQ.data # None => \A row \in expiryQ.data.rows : row.store \notin expiryQ.data.unread
    BY DEF CertsInv, Query, ExpiryAnswers
  <2> QED BY <2>1 DEF CertsInv, CertsTypeOK
<1> QED BY <1>1, CertsInvAtFirst, CertsInvStays, PTL DEF CertsSpec

\* A certificate is counted by its date, whichever of the two routes answered.
THEOREM CertsAreCountedByDate == CertsSpec => []CountedByDate
<1>1. CertsInv => CountedByDate
  <2> SUFFICES ASSUME CertsInv, NEW s \in Stores
               PROVE  /\ certDays(CertificateRow(s, today), today) = Left(s, today)
                      /\ certDays(ExpiryRow(s, today), today) = Left(s, today)
    BY DEF CountedByDate
  <2>1. today \in Int /\ storesAt[s].expires \in DayOrNone
    BY CertsAssumption DEF CertsInv
  <2>2. CertificateRow(s, today) = [store |-> s, expires |-> storesAt[s].expires,
                                    remaining_days |-> Told(s, today), days_remaining |-> None]
    BY DEF CertificateRow
  <2>3. ExpiryRow(s, today) = [store |-> s, expires |-> storesAt[s].expires,
                               remaining_days |-> Told(s, today), days_remaining |-> Left(s, today)]
    BY <2>1, RowsOfStores
  <2>4. certDays(CertificateRow(s, today), today) = Left(s, today)
    BY <2>1, <2>2, CertsAssumption DEF certDays, Left, Told, DayOrNone
  <2>5. certDays(ExpiryRow(s, today), today) = Left(s, today)
    BY <2>1, <2>3, CertsAssumption DEF certDays, Left, Told, DayOrNone
  <2> QED BY <2>4, <2>5
<1> QED BY <1>1, CertsInvAtFirst, CertsInvStays, PTL DEF CertsSpec

\* The badge of the sidebar says of an answer what the counters of the page say of it: what
\* needs renewal is what is expired, critical or expiring, and no row is two of these.
THEOREM BadgesAgreeWithCounters == CertsSpec => []BadgeAgrees
<1>1. CertsInv => BadgeAgrees
  <2> SUFFICES ASSUME CertsInv, expiryQ.data # None,
                      NEW rows, rows = expiryQ.data.rows
               PROVE  /\ certificateUrgency(rows).expired = countBuckets(rows, "expired")
                      /\ certificateUrgency(rows).soon = countBuckets(rows, "critical") + countBuckets(rows, "expiring")
    BY DEF BadgeAgrees
  <2> DEFINE in(bucket) == {row \in rows : certBucket(certDays(row, today)) = bucket}
             soon == {row \in rows : row.days_remaining # None /\ row.days_remaining <= WARN_DAYS}
  <2>1. /\ IsFiniteSet(rows) /\ rows \subseteq CertRows
        /\ \A row \in rows : row.days_remaining = None => row.expires = None
    BY DEF CertsInv, Query, ExpiryAnswers, ListOfRows
  <2>2. \A row \in rows : /\ row.days_remaining \in DayOrNone
                          /\ certDays(row, today) = row.days_remaining
    BY <2>1 DEF certDays, CertRows
  <2>3. \A row \in rows : certBucket(certDays(row, today)) \in {"expired", "critical", "expiring"}
                          <=> row.days_remaining # None /\ row.days_remaining <= WARN_DAYS
    <3> SUFFICES ASSUME NEW row \in rows, NEW days \in DayOrNone
                 PROVE  certBucket(days) \in {"expired", "critical", "expiring"} <=> days # None /\ days <= WARN_DAYS
      BY <2>2
    <3>1. CASE days = None
      BY <3>1 DEF certBucket
    <3>2. CASE days # None
      <4>1. days \in Int
        BY <3>2 DEF DayOrNone
      <4> QED BY <3>2, <4>1, CertsAssumption DEF certBucket
    <3> QED BY <3>1, <3>2
  <2>4. soon = (in("expired") \cup in("critical")) \cup in("expiring")
    BY <2>3
  <2>5. \A bucket : IsFiniteSet(in(bucket)) /\ Cardinality(in(bucket)) \in Nat
    BY <2>1, FS_Subset, FS_CardinalityType
  <2>6. /\ IsFiniteSet(in("expired") \cup in("critical"))
        /\ Cardinality(in("expired") \cup in("critical")) = Cardinality(in("expired")) + Cardinality(in("critical"))
    <3>1. in("expired") \cap in("critical") = {}
      OBVIOUS
    <3> DEFINE E == in("expired")
               C == in("critical")
    <3>2. /\ IsFiniteSet(E) /\ IsFiniteSet(C) /\ E \cap C = {}
          /\ Cardinality(E) \in Nat /\ Cardinality(C) \in Nat
      BY <2>5, <3>1, Zenon
    <3> HIDE DEF E, C
    <3>3. IsFiniteSet(E \cup C) /\ Cardinality(E \cup C) = Cardinality(E) + Cardinality(C)
      BY <3>2, FS_Union, FS_EmptySet
    <3> QED BY <3>3 DEF E, C
  <2>7. Cardinality(soon) = (Cardinality(in("expired")) + Cardinality(in("critical"))) + Cardinality(in("expiring"))
    <3>1. (in("expired") \cup in("critical")) \cap in("expiring") = {}
      OBVIOUS
    <3> DEFINE EC == in("expired") \cup in("critical")
               X == in("expiring")
    <3>2. /\ IsFiniteSet(EC) /\ IsFiniteSet(X) /\ EC \cap X = {}
          /\ Cardinality(EC) \in Nat /\ Cardinality(X) \in Nat
      BY <2>5, <2>6, <3>1, FS_CardinalityType, Zenon
    <3>3. soon = EC \cup X
      BY <2>4
    <3> HIDE DEF EC, X, soon
    <3>4. Cardinality(soon) = Cardinality(EC) + Cardinality(X)
      BY <3>2, <3>3, FS_Union, FS_EmptySet
    <3> QED BY <2>6, <3>4 DEF EC, X
  <2>8. /\ \A bucket : countBuckets(rows, bucket) = Cardinality(in(bucket))
        /\ expiring_soon_count(rows) = Cardinality(soon)
    BY DEF countBuckets, expiring_soon_count
  <2> HIDE DEF in, soon
  <2> QED BY <2>5, <2>7, <2>8 DEF certificateUrgency
<1> QED BY <1>1, CertsInvAtFirst, CertsInvStays, PTL DEF CertsSpec

\* A row that is hidden is hidden by a filter that can be seen: a filter of one store hides
\* a row only when there is another store, and then the filter is shown.
THEOREM HiddenRowsAreExplained == CertsSpec => []HiddenByAFilterSeen
<1>1. CertsInv => HiddenByAFilterSeen
  <2> SUFFICES ASSUME CertsInv, filtered # certRows, certStatus = "all"
               PROVE  activeProviderFilter # "all" /\ FilterShown
    BY DEF HiddenByAFilterSeen
  <2>1. IsFiniteSet(certRows)
    BY FS_EmptySet DEF certRows, CertsInv, Query, ExpiryAnswers, ListOfRows
  <2>2. PICK row \in certRows : activeProviderFilter \notin {"all", row.store}
    BY DEF filtered
  <2>3. activeProviderFilter \in providerOptions
    BY <2>2 DEF activeProviderFilter, resolveProviderFilter
  <2>4. IsFiniteSet(providerOptions)
    <3> DEFINE storeOf == [r \in certRows |-> r.store]
    <3>1. storeOf \in Surjection(certRows, providerOptions)
      BY DEF Surjection, providerOptions
    <3> QED BY <2>1, <3>1, FS_Surjection
  <2>5. {activeProviderFilter} \cup {row.store} \in SUBSET providerOptions
    BY <2>2, <2>3 DEF providerOptions
  <2>6. Cardinality({activeProviderFilter} \cup {row.store}) = 2
    <3>1. IsFiniteSet({activeProviderFilter}) /\ Cardinality({activeProviderFilter}) = 1
      BY FS_Singleton
    <3>2. row.store \notin {activeProviderFilter}
      BY <2>2
    <3> QED BY <3>1, <3>2, FS_AddElement, SMTT(60)
  <2>7. Cardinality({activeProviderFilter} \cup {row.store}) <= Cardinality(providerOptions)
    BY <2>4, <2>5, FS_Subset
  <2>8. Cardinality(providerOptions) \in Nat
    BY <2>4, FS_CardinalityType
  <2> QED BY <2>2, <2>6, <2>7, <2>8 DEF FilterShown
<1> QED BY <1>1, CertsInvAtFirst, CertsInvStays, PTL DEF CertsSpec

(***************************************************************************)
(* The verdicts, for every set of integrations: a score is -1 or between 0 *)
(* and 100, and the places that say what it means agree.                   *)
(***************************************************************************)
\* A manual check is a verdict and the numbers of what it blames.
LEMMA ReportsAreCounts ==
    \A r \in Reports : r.ok \in BOOLEAN /\ r.health \in BOOLEAN /\ r.blocking \in Nat /\ r.warnings \in Nat
<1>1. ASSUME NEW n \in Nat, NEW checks, DOMAIN checks = 1..n, NEW blocking
      PROVE  FailedOf(checks, blocking) \in Nat
  <2>1. IsFiniteSet(1..n)
    BY FS_Interval
  <2> DEFINE failed == {i \in DOMAIN checks : checkFailed(checks[i]) /\ (checks[i] = "danger" <=> blocking)}
  <2>2. IsFiniteSet(failed)
    BY <1>1, <2>1, FS_Subset
  <2> QED BY <2>2, FS_CardinalityType DEF FailedOf
<1>2. ASSUME NEW ok \in BOOLEAN, NEW health \in BOOLEAN, NEW n \in Nat, NEW checks, DOMAIN checks = 1..n
      PROVE  /\ Report(ok, checks, health).ok \in BOOLEAN /\ Report(ok, checks, health).health \in BOOLEAN
             /\ Report(ok, checks, health).blocking \in Nat /\ Report(ok, checks, health).warnings \in Nat
  BY <1>1, <1>2 DEF Report
<1>3. /\ DOMAIN <<"success", "skipped">> = 1..2 /\ DOMAIN [i \in 1..5 |-> "warning"] = 1..5
      /\ DOMAIN <<"danger">> = 1..1
  OBVIOUS
<1> QED BY <1>2, <1>3 DEF Reports

HealthInv ==
    /\ ratedAt \in [Rated -> {"gone", "off", "on"}]
    /\ ratedList \in [Rated -> {"gone", "off", "on"}] \cup {None}
    /\ ChecksAreStored
    /\ tunnelHealth \in [Rated -> TunnelStatuses \cup {None}] \cup {None}
    /\ autoHealth \in [Rated -> {"healthy", "unhealthy", None}] \cup {None}
    /\ counted \subseteq ListedIn(ratedList)
    /\ \A id \in counted : storedDiagnostics[id] # None

\* What computes the scores counts only what is listed and stored.
LEMMA CountedIsStored ==
    ASSUME NEW checks, NEW list, ComputeSignals(checks, list)
    PROVE  counted' \subseteq ListedIn(list) /\ \A id \in counted' : checks[id] # None
BY DEF ComputeSignals, FreshIn, DiagnosticsOf, ListedIn

LEMMA HealthInvStays == HealthInv /\ [HealthNext]_ratedVars => HealthInv'
<1> SUFFICES ASSUME HealthInv, [HealthNext]_ratedVars PROVE HealthInv'
  OBVIOUS
<1>s. ChecksAreStored'
  BY ChecksStayStored DEF HealthInv
<1>1. CASE RatedListLands
  <2>1. counted' \subseteq ListedIn(ratedAt) /\ \A id \in counted' : storedDiagnostics[id] # None
    BY <1>1, CountedIsStored DEF RatedListLands
  <2> QED BY <1>1, <1>s, <2>1 DEF RatedListLands, HealthInv, ListedIn
<1>2. ASSUME UNCHANGED counted \/ ComputeSignals(storedDiagnostics, ratedList),
             UNCHANGED <<ratedAt, ratedList, storedDiagnostics>>,
             tunnelHealth' \in [Rated -> TunnelStatuses \cup {None}] \cup {None},
             autoHealth' \in [Rated -> {"healthy", "unhealthy", None}] \cup {None}
      PROVE  HealthInv'
  <2>1. counted' \subseteq ListedIn(ratedList) /\ \A id \in counted' : storedDiagnostics[id] # None
    BY <1>2, CountedIsStored DEF HealthInv
  <2> QED BY <1>2, <1>s, <2>1 DEF HealthInv, ListedIn
<1>3. CASE TunnelsLand
  BY <1>2, <1>3 DEF TunnelsLand, HealthInv
<1>4. CASE AutoLands
  BY <1>2, <1>4 DEF AutoLands, HealthInv
<1>5. CASE Reload
  BY <1>5, <1>s DEF Reload, HealthInv, ListedIn
<1>6. ASSUME NEW id \in Rated, HalfAnHourPasses(id) PROVE HealthInv'
  <2>1. storedDiagnostics[id] \in Checks
    BY <1>6 DEF HalfAnHourPasses, HealthInv, ChecksAreStored
  <2>2. [storedDiagnostics[id] EXCEPT !.fresh = FALSE] \in Checks
    BY <2>1 DEF Checks
  <2>3. storedDiagnostics' = [storedDiagnostics EXCEPT ![id] = [storedDiagnostics[id] EXCEPT !.fresh = FALSE]]
    BY <1>6 DEF HalfAnHourPasses
  <2>4. \A other \in counted : storedDiagnostics'[other] # None
    BY <2>2, <2>3, NoneIsNoCheck DEF HealthInv, ChecksAreStored, Checks, ListedIn
  <2> QED BY <1>6, <1>s, <2>4 DEF HalfAnHourPasses, HealthInv, ListedIn
<1>7. ASSUME NEW id \in Rated, Turned(id) PROVE HealthInv'
  <2>1. ratedAt' \in [Rated -> {"gone", "off", "on"}]
    BY <1>7 DEF Turned, HealthInv
  <2> QED BY <1>7, <1>s, <2>1 DEF Turned, HealthInv, ListedIn
<1>8. ASSUME NEW id \in Rated, NEW report \in Reports, StoreDiagnostics(id, report) PROVE HealthInv'
  <2>1. counted' \subseteq ListedIn(ratedList) /\ \A other \in counted' : storedDiagnostics'[other] # None
    BY <1>8, CountedIsStored DEF StoreDiagnostics
  <2> QED BY <1>8, <1>s, <2>1 DEF StoreDiagnostics, HealthInv, ListedIn
<1>9. CASE UNCHANGED ratedVars
  BY <1>9, <1>s DEF ratedVars, HealthInv, ListedIn
<1> QED BY <1>1, <1>3, <1>4, <1>5, <1>6, <1>7, <1>8, <1>9 DEF HealthNext

LEMMA HealthInvHolds == HealthSpec => []HealthInv
<1>1. HealthInit => HealthInv
  BY DEF HealthInit, HealthInv, ChecksAreStored, ListedIn
<1> QED BY <1>1, HealthInvStays, PTL DEF HealthSpec

\* What is measured of an integration, and the score it has of it.
Measures(diag, tunnel, auto) ==
    /\ diag \in Reports \cup {None} /\ tunnel \in TunnelStatuses \cup {None}
    /\ auto \in {"healthy", "unhealthy", None}

LEMMA MeasuresAreKnown ==
    ASSUME HealthInv, NEW id \in ListedIn(ratedList)
    PROVE  Measures(diagOf(id), tunnelHealthById(id), autoHealthById(id)) /\ id \in Rated
<1>1. id \in Rated
  BY DEF ListedIn
<1>2. diagOf(id) \in Reports \cup {None}
  <2>1. CASE id \notin counted
    BY <2>1 DEF diagOf
  <2>2. CASE id \in counted
    <3>1. diagnostics[id] = storedDiagnostics[id] /\ storedDiagnostics[id] \in Checks
      BY <1>1, <2>2 DEF diagnostics, DiagnosticsOf, HealthInv, ChecksAreStored
    <3> QED BY <2>2, <3>1 DEF diagOf, Checks
  <2> QED BY <2>1, <2>2
<1> QED BY <1>1, <1>2 DEF Measures, HealthInv, tunnelHealthById, autoHealthById

LEMMA ScoreIsHeld ==
    ASSUME NEW diag, NEW tunnel, NEW auto, Measures(diag, tunnel, auto)
    PROVE  getHealthScore(diag, tunnel, auto) \in -1..100
<1>1. Charged(diag, auto) \in Int
  BY ReportsAreCounts DEF Measures, Charged
<1>2. WithTunnel(Charged(diag, auto), tunnel) \in Int
  <2> DEFINE charged == Charged(diag, auto)
  <2>1. charged \in Int
    BY <1>1
  <2> HIDE DEF charged
  <2>2. WithTunnel(charged, tunnel) \in Int
    BY <2>1 DEF WithTunnel
  <2> QED BY <2>2 DEF charged
<1> QED BY <1>2 DEF getHealthScore

\* A check that blames something counts, unless the tunnel itself says it is healthy.
LEMMA BlameIsCounted ==
    ASSUME NEW diag, NEW tunnel, NEW auto, Measures(diag, tunnel, auto), tunnel # "healthy",
           \/ diag # None /\ (diag.blocking > 0 \/ ~diag.ok)
           \/ diag = None /\ (tunnel \in {"down", "degraded"} \/ auto = "unhealthy")
    PROVE  getHealthScore(diag, tunnel, auto) \in 0..79
<1>1. /\ Charged(diag, auto) \in Int
      /\ tunnel \notin {"down", "degraded"} => Charged(diag, auto) < 80
      /\ diag # None => Charged(diag, auto) < 80
  BY ReportsAreCounts DEF Measures, Charged
<1>2. WithTunnel(Charged(diag, auto), tunnel) \in Int /\ WithTunnel(Charged(diag, auto), tunnel) < 80
  <2> DEFINE charged == Charged(diag, auto)
  <2>1. charged \in Int /\ (tunnel \notin {"down", "degraded"} => charged < 80)
    BY <1>1
  <2> HIDE DEF charged
  <2>2. WithTunnel(charged, tunnel) \in Int /\ WithTunnel(charged, tunnel) < 80
    BY <2>1 DEF WithTunnel
  <2> QED BY <2>2 DEF charged
<1>3. ~(diag = None /\ tunnel = None /\ auto = None)
  BY NoneIsNoStatus DEF TunnelStatuses
<1> QED BY <1>2, <1>3 DEF getHealthScore

\* The page of the integrations keeps its types; no integration is both one of the issues
\* and one of the healthy.
THEOREM HealthTypeCorrect == HealthSpec => []HealthTypeOK
<1>1. HealthInv => HealthTypeOK
  <2> SUFFICES ASSUME HealthInv PROVE HealthTypeOK
    OBVIOUS
  <2>1. \A id \in counted : diagnostics[id] # None
    BY DEF HealthInv, diagnostics, DiagnosticsOf, ListedIn
  <2>2. issues \cap healthyOnes = {}
    BY DEF issues, healthyOnes
  <2>3. \A id \in ListedIn(ratedList) : Score(id) \in -1..100
    BY MeasuresAreKnown, ScoreIsHeld DEF Score
  <2> QED BY <2>1, <2>2, <2>3 DEF HealthTypeOK, HealthInv
<1> QED BY <1>1, HealthInvHolds, PTL

\* Whichever part of the page says it, the verdict of an integration is one: the chip, the
\* badge, the filters and the alert of its card.
THEOREM VerdictsAgree == HealthSpec => []OneVerdict
<1>1. HealthInv => OneVerdict
  <2> SUFFICES ASSUME HealthInv, NEW id \in ListedIn(ratedList)
               PROVE  LET chip == getOperationalStatus(Enabled(id), Score(id))
                      IN  /\ healthTone[ScoreSeverity(Enabled(id), Score(id))] = chip
                          /\ id \in matchesFocus("issues") <=> chip \in {"warning", "danger"}
                          /\ id \in matchesFocus("healthy") <=> chip = "success"
                          /\ Enabled(id) /\ CardReport(id) = "danger" /\ tunnelHealthById(id) # "healthy"
                             => id \in matchesFocus("issues")
    BY DEF OneVerdict
  <2>1. Measures(diagOf(id), tunnelHealthById(id), autoHealthById(id)) /\ Score(id) \in -1..100
    BY MeasuresAreKnown, ScoreIsHeld DEF Score
  <2> DEFINE on == Enabled(id)
             score == Score(id)
             chip == getOperationalStatus(on, score)
  <2>2. on \in BOOLEAN /\ score \in -1..100
    BY <2>1 DEF Enabled
  <2>3. /\ id \in matchesFocus("issues") <=> getProviderSeverity(on, score) \in {"degraded", "error"}
        /\ id \in matchesFocus("healthy") <=> getProviderSeverity(on, score) = "healthy"
    BY DEF matchesFocus, issues, healthyOnes, severityOf
  <2>4. on /\ CardReport(id) = "danger" /\ tunnelHealthById(id) # "healthy" => score \in 0..79
    <3> SUFFICES ASSUME CardReport(id) = "danger", tunnelHealthById(id) # "healthy" PROVE score \in 0..79
      OBVIOUS
    <3> DEFINE diag == diagOf(id)
               tunnel == tunnelHealthById(id)
               auto == autoHealthById(id)
    <3>1. \/ diag # None /\ (diag.blocking > 0 \/ ~diag.ok)
          \/ diag = None /\ (tunnel \in {"down", "degraded"} \/ auto = "unhealthy")
      BY <2>1, ReportsAreCounts, NoneIsNoStatus DEF CardReport, Measures
    <3>2. Measures(diag, tunnel, auto) /\ tunnel # "healthy" /\ score = getHealthScore(diag, tunnel, auto)
      BY <2>1 DEF Score
    <3> HIDE DEF diag, tunnel, auto, score
    <3> QED BY <3>1, <3>2, BlameIsCounted
  <2> HIDE DEF on, score
  <2>5. /\ healthTone[ScoreSeverity(on, score)] = chip
        /\ getProviderSeverity(on, score) \in {"degraded", "error"} <=> chip \in {"warning", "danger"}
        /\ getProviderSeverity(on, score) = "healthy" <=> chip = "success"
    BY <2>2 DEF healthTone, ScoreSeverity, getOperationalStatus, getProviderSeverity
  <2>6. on /\ score \in 0..79 => getProviderSeverity(on, score) \in {"degraded", "error"}
    BY DEF getProviderSeverity
  <2> QED BY <2>3, <2>4, <2>5, <2>6 DEF on, score
<1> QED BY <1>1, HealthInvHolds, PTL

(***************************************************************************)
(* The instance of the reading pages: whichever page is shown, each of     *)
(* them behaves as its own specification says.                             *)
(***************************************************************************)
LEMMA PagesStepAlone ==
    ASSUME [PanelNext]_panelVars
    PROVE  /\ [ExposeNext]_exposeVars /\ [CertsNext]_certVars /\ [MonNext]_monVars
           /\ [SyncNext]_syncVars /\ [DockerNext]_dockerVars /\ [JournalNext]_journalVars
           /\ [HealthNext]_ratedVars /\ [InspectorNext]_inspectorVars /\ [DashNext]_dashVars
BY DEF PanelNext, panelVars

LEMMA PagesRunAlone ==
    PanelSpec => /\ ExposeSpec /\ CertsSpec /\ MonSpec /\ SyncSpec
                 /\ DockerSpec /\ JournalSpec /\ HealthSpec /\ InspectorSpec /\ DashSpec
<1>1. PanelInit => /\ ExposeInit /\ CertsInit /\ MonInit /\ SyncInit
                   /\ DockerInit /\ JournalInit /\ HealthInit /\ InspectorInit /\ DashInit
  BY DEF PanelInit
<1> QED BY <1>1, PagesStepAlone, PTL
        DEF PanelSpec, ExposeSpec, CertsSpec, MonSpec, SyncSpec, DockerSpec, JournalSpec, HealthSpec, InspectorSpec, DashSpec

\* Every page keeps its types.
THEOREM PagesAreTyped == PanelSpec => []TypeOK
BY PagesRunAlone, ExposeTypeCorrect, CertsTypeCorrect, MonTypeCorrect, SyncTypeCorrect, DockerTypeCorrect,
   JournalTypeCorrect, HealthTypeCorrect, InspectorTypeCorrect, DashTypeCorrect, PTL DEF TypeOK

\* Two places of a page that say the same thing agree, in every state of it.
THEOREM PagesSayOneThing == PanelSpec => []FiguresAgree
<1>1. CountedByDate /\ BadgeAgrees /\ HiddenByAFilterSeen /\ OneVerdict /\ FreshCheckCounts /\ DashSays => FiguresAgree
  BY DEF FiguresAgree, DashSays
<1> QED BY <1>1, PagesRunAlone, CertsAreCountedByDate, BadgesAgreeWithCounters, HiddenRowsAreExplained,
           VerdictsAgree, FreshChecksCount, FirstPageAgrees, PTL

\* What a page sends is what it told the operator, however the answers are ordered, and a
\* stream is asked for a second time, not a third.
THEOREM PagesSendWhatTheySaid == PanelSpec => []AsAsked
BY PagesRunAlone, ImportsAreAsTold, DeletionsNameTheirs, TickedCanAlwaysBeRoutes,
   DrawersAreSearchedAsTyped, StreamIsNotLooped, PTL DEF AsAsked

\* A check is neither gone around nor forgotten, on any page.
THEOREM PagesKeepChecks == PanelSpec => ChecksAreKept
BY PagesRunAlone, SavesAreChecked, LastChecksAreKept, KeptListsAreShown, PTL DEF ChecksAreKept

\* At rest, each page shows what the last write left.
THEOREM PagesAreCaughtUp == PanelSpec => []PagesCatchUp
BY PagesRunAlone, SavesAreListed, RowsShowTheirChecks, NothingIsOfferedTwice, TheDefaultIsUsed, PTL
DEF PagesCatchUp

=============================================================================
