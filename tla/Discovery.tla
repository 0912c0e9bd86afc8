------------------------------ MODULE Discovery ------------------------------
(***************************************************************************)
(* Docker in the settings: the endpoints, what a discovery found at one of *)
(* them, the containers that are ticked, and their import after a          *)
(* question.  The question is asked, and the import is sent, by two        *)
(* different renderings of the section: the request is made of what the    *)
(* section holds when the question is answered.                            *)
(***************************************************************************)
EXTENDS Naturals, FiniteSets, SequencesExt, Queries

CONSTANTS Endpoints,     \* ids of endpoints
          Containers,    \* ids of containers
          Domains,       \* a sequence of domains, or <<>>
          MaxDockerCalls \* bound: requests that were sent

ASSUME DiscoveryAssumption ==
    /\ IsFiniteSet(Endpoints) /\ Endpoints \subseteq Nat
    /\ Domains \in Seq(ToSet(Domains))

VARIABLES endpointsAt,   \* the server: the ids of its endpoints
          defaultAt,     \* the server: the default endpoint, or None
          endpointsQ, proxiesQ, domainsQ, \* the queries: endpoints, integrations, domains
          dockerEndpointId, dockerDomain, proxyChosen, \* the form, None for what it starts with
          found,         \* dockerContainers: of which containers, and who has a port
          ticked,        \* selectedDockerIds
          discovering,   \* the endpoint asked, or None
          asked,         \* the question that is open, or None
          dockerWrites,  \* the requests under way, one of each kind at most
          lostAnswer,    \* whether the list missed a request: its answer was lost, or joined a first read
          dockerCallCount \* counts what MaxDockerCalls bounds

dockerServer == <<endpointsAt, defaultAt>>
dockerReads == <<endpointsQ, proxiesQ, domainsQ>>
dockerForm == <<dockerEndpointId, dockerDomain, proxyChosen>>
dockerFound == <<found, ticked, discovering>>
dockerCalls == <<dockerWrites, lostAnswer, dockerCallCount>>
dockerVars == <<dockerServer, dockerReads, dockerForm, dockerFound, asked, dockerCalls>>

dockerEndpoints == IF endpointsQ.data = None THEN <<>> ELSE endpointsQ.data
domains == IF domainsQ.data = None THEN <<>> ELSE domainsQ.data
FirstOf(list) == IF list = <<>> THEN None ELSE Head(list)

effectiveEndpointId == IF dockerEndpointId # None THEN dockerEndpointId ELSE FirstOf(dockerEndpoints)
selectedEndpoint == IF effectiveEndpointId \in ToSet(dockerEndpoints) THEN effectiveEndpointId ELSE None
effectiveDomain == IF dockerDomain # None THEN dockerDomain ELSE FirstOf(domains)

NothingFound == [at |-> None, ids |-> {}, ported |-> {}]
selectable == found.ported
allSelected == selectable # {} /\ selectable \subseteq ticked
providersUnread == Pending(proxiesQ) \/ proxiesQ.error
\* The integrations could not be read, so none of them could be chosen.
blindToProviders == providersUnread /\ ~proxyChosen

Writing(op) == \E w \in dockerWrites : w.op = op
\* The section shows its endpoints.
EndpointsShown == asked = None /\ ~Pending(endpointsQ) /\ ~endpointsQ.error /\ dockerEndpoints # <<>>

DockerInit ==
    /\ endpointsAt \in {{}} \cup {{e} : e \in Endpoints}
    /\ defaultAt \in IF endpointsAt = {} THEN {None} ELSE endpointsAt
    /\ endpointsQ = Asked(Unasked) /\ proxiesQ = Asked(Unasked) /\ domainsQ = Asked(Unasked)
    /\ dockerEndpointId = None /\ dockerDomain = None /\ proxyChosen = FALSE
    /\ found = NothingFound /\ ticked = {} /\ discovering = None
    /\ asked = None /\ dockerWrites = {} /\ lostAnswer = FALSE /\ dockerCallCount = 0

\* The server lists its default first; the order of the others decides nothing here.
EndpointList ==
    IF endpointsAt = {} THEN <<>> ELSE <<defaultAt>> \o SetToSeq(endpointsAt \ {defaultAt})

EndpointsLand ==
    /\ endpointsQ.ask = "asked" /\ endpointsQ' \in {Landed(EndpointList), Failed(endpointsQ)}
    /\ UNCHANGED <<dockerServer, proxiesQ, domainsQ, dockerForm, dockerFound, asked, dockerCalls>>

\* The integrations matter by whether they were read.
ImportListsLand ==
    /\ \/ proxiesQ.ask = "asked" /\ proxiesQ' \in {Landed("read"), Failed(proxiesQ)} /\ UNCHANGED domainsQ
       \/ domainsQ.ask = "asked" /\ domainsQ' \in {Landed(Domains), Failed(domainsQ)} /\ UNCHANGED proxiesQ
    /\ UNCHANGED <<dockerServer, endpointsQ, dockerForm, dockerFound, asked, dockerCalls>>

\* The two alerts: the endpoints that failed, or the lists that an import needs.
RetryDocker ==
    /\ asked = None
    /\ \/ endpointsQ.error /\ endpointsQ.ask = "idle" /\ endpointsQ' = Asked(endpointsQ) /\ UNCHANGED <<proxiesQ, domainsQ>>
       \/ /\ EndpointsShown /\ (proxiesQ.error \/ domainsQ.error)
          /\ \A q \in {proxiesQ, domainsQ} : q.error => q.ask = "idle"
          /\ proxiesQ' = (IF proxiesQ.error THEN Asked(proxiesQ) ELSE proxiesQ)
          /\ domainsQ' = (IF domainsQ.error THEN Asked(domainsQ) ELSE domainsQ)
          /\ UNCHANGED endpointsQ
    /\ UNCHANGED <<dockerServer, dockerForm, dockerFound, asked, dockerCalls>>

ChooseInForm ==
    /\ EndpointsShown
    /\ \/ \E e \in ToSet(dockerEndpoints) \ {effectiveEndpointId} : dockerEndpointId' = e /\ UNCHANGED <<dockerDomain, proxyChosen>>
       \/ \E d \in ToSet(domains) \ {effectiveDomain} : dockerDomain' = d /\ UNCHANGED <<dockerEndpointId, proxyChosen>>
       \/ proxiesQ.data # None /\ proxyChosen' = ~proxyChosen /\ UNCHANGED <<dockerEndpointId, dockerDomain>>
    /\ UNCHANGED <<dockerServer, dockerReads, dockerFound, asked, dockerCalls>>

(***************************************************************************)
(* The endpoints.                                                          *)
(***************************************************************************)
DockerWrite(op, id) ==
    /\ ~Writing(op) /\ dockerCallCount < MaxDockerCalls /\ dockerCallCount' = dockerCallCount + 1
    /\ dockerWrites' = dockerWrites \cup {[op |-> op, id |-> id, at |-> "sent", told |-> IF op = "delete" THEN asked.id ELSE None]}

AddEndpoint ==
    /\ asked = None /\ DockerWrite("add", None)
    /\ UNCHANGED <<dockerServer, dockerReads, dockerForm, dockerFound, asked, lostAnswer>>

SetDefault ==
    /\ EndpointsShown /\ effectiveEndpointId # None /\ DockerWrite("default", effectiveEndpointId)
    /\ UNCHANGED <<dockerServer, dockerReads, dockerForm, dockerFound, asked, lostAnswer>>

AskDelete ==
    /\ EndpointsShown /\ selectedEndpoint # None /\ ~Writing("delete")
    /\ asked' = [to |-> "delete", id |-> selectedEndpoint]
    /\ UNCHANGED <<dockerServer, dockerReads, dockerForm, dockerFound, dockerCalls>>

\* As a bug: the endpoint is the one selected when the question is answered.
SelectedNow(question) == selectedEndpoint

EndpointOf(question) == question.id

AnswerDelete ==
    /\ asked # None /\ asked.to = "delete" /\ asked' = None
    /\ UNCHANGED <<dockerWrites, dockerCallCount>> \/ DockerWrite("delete", EndpointOf(asked))
    /\ UNCHANGED <<dockerServer, dockerReads, dockerForm, dockerFound, lostAnswer>>

EndpointsAfter(w, id) ==
    CASE w.op = "add" -> endpointsAt \cup {id} [] w.op = "delete" -> endpointsAt \ {id} [] OTHER -> endpointsAt

\* The first endpoint is the default, and the last one is not deleted.
ServeEndpoint(w) ==
    /\ w.op \in {"add", "default", "delete"} /\ w.at = "sent"
    /\ \/ dockerWrites' = (dockerWrites \ {w}) \cup {[w EXCEPT !.at = "failed"]} /\ UNCHANGED <<dockerServer, lostAnswer>>
       \/ \E id \in IF w.op = "add" THEN Endpoints \ endpointsAt ELSE endpointsAt \cap {w.id} :
            /\ w.op = "delete" => endpointsAt # {id}
            /\ endpointsAt' = EndpointsAfter(w, id)
            /\ defaultAt' = IF w.op = "default" THEN id
                            ELSE IF defaultAt \in endpointsAt' THEN defaultAt
                            ELSE CHOOSE e \in endpointsAt' : \A g \in endpointsAt' : e <= g
            /\ \E at \in {"done", "failed"} :
                 /\ dockerWrites' = (dockerWrites \ {w}) \cup {[w EXCEPT !.at = at, !.id = id]}
                 /\ lostAnswer' = (lostAnswer \/ at = "failed")
    /\ UNCHANGED <<dockerReads, dockerForm, dockerFound, asked, dockerCallCount>>

\* As a bug: a deletion only forgets the choice.
KeepsTheList(w) == IF w.op = "delete" THEN {endpointsQ} ELSE {Asked(endpointsQ)}

\* An endpoint can be added before there is a list.
EndpointsAgain(w) == IF w.op = "add" THEN Reread(endpointsQ) ELSE {Asked(endpointsQ)}

EndpointAnswered(w) ==
    /\ w.op \in {"add", "default", "delete"} /\ w.at \in {"done", "failed"}
    /\ dockerWrites' = dockerWrites \ {w}
    /\ IF w.at = "failed" THEN UNCHANGED <<endpointsQ, dockerEndpointId, lostAnswer>>
       ELSE /\ endpointsQ' \in EndpointsAgain(w)
            /\ lostAnswer' = (lostAnswer \/ (w.op = "add" /\ endpointsQ'.ask = "idle"))
            /\ dockerEndpointId' = CASE w.op = "add" -> w.id [] w.op = "delete" -> None [] OTHER -> dockerEndpointId
    /\ UNCHANGED <<dockerServer, proxiesQ, domainsQ, dockerDomain, proxyChosen, dockerFound, asked, dockerCallCount>>

(***************************************************************************)
(* Discovery.                                                              *)
(***************************************************************************)
Discover ==
    /\ EndpointsShown /\ effectiveEndpointId # None /\ discovering = None /\ dockerCallCount < MaxDockerCalls
    /\ discovering' = effectiveEndpointId /\ dockerCallCount' = dockerCallCount + 1
    /\ UNCHANGED <<dockerServer, dockerReads, dockerForm, found, ticked, asked, dockerWrites, lostAnswer>>

\* As a bug: what was ticked stays so.
KeepsTicks(answer) == ticked \cup answer.ported

TicksAfter(answer) == answer.ported

DiscoveryLands ==
    /\ discovering # None /\ discovering' = None
    /\ \/ \E ids \in SUBSET Containers : \E ported \in SUBSET ids :
            /\ discovering \in endpointsAt
            /\ found' = [at |-> discovering, ids |-> ids, ported |-> ported] /\ ticked' = TicksAfter(found')
       \/ UNCHANGED <<found, ticked>>
    /\ UNCHANGED <<dockerServer, dockerReads, dockerForm, asked, dockerCalls>>

\* A box of the table, or the one over it.
TickContainers ==
    /\ EndpointsShown /\ selectable # {}
    /\ \/ \E c \in selectable : ticked' = IF c \in ticked THEN ticked \ {c} ELSE ticked \cup {c}
       \/ ticked' = IF allSelected THEN {} ELSE selectable
    /\ UNCHANGED <<dockerServer, dockerReads, dockerForm, found, discovering, asked, dockerCalls>>

(***************************************************************************)
(* The import.                                                             *)
(***************************************************************************)
requestImport ==
    /\ asked = None /\ ticked # {} /\ effectiveDomain # None /\ ~Writing("import")
    /\ asked' = [to |-> "import", count |-> Cardinality(ticked), domain |-> effectiveDomain, blind |-> blindToProviders]
    /\ UNCHANGED <<dockerServer, dockerReads, dockerForm, dockerFound, dockerCalls>>

\* The request is made of the section as it is now.
AnswerContainers ==
    /\ asked # None /\ asked.to = "import" /\ asked' = None
    /\ \/ UNCHANGED <<dockerWrites, dockerCallCount>>
       \/ DockerWrite("import", [ids |-> ticked \cap found.ids, domain |-> effectiveDomain, proxy |-> proxyChosen])
    /\ UNCHANGED <<dockerServer, dockerReads, dockerForm, dockerFound, lostAnswer>>

\* The import tells what became of each container, and the section keeps its list.
ImportedContainers(w) ==
    /\ w.op = "import" /\ w.at = "sent" /\ dockerWrites' = dockerWrites \ {w}
    /\ UNCHANGED <<dockerServer, dockerReads, dockerForm, dockerFound, asked, lostAnswer, dockerCallCount>>

DockerNext ==
    \/ EndpointsLand \/ ImportListsLand \/ RetryDocker \/ ChooseInForm
    \/ AddEndpoint \/ SetDefault \/ AskDelete \/ AnswerDelete
    \/ \E w \in dockerWrites : ServeEndpoint(w) \/ EndpointAnswered(w) \/ ImportedContainers(w)
    \/ Discover \/ DiscoveryLands \/ TickContainers \/ requestImport \/ AnswerContainers

DockerSpec == DockerInit /\ [][DockerNext]_dockerVars

(***************************************************************************)
(* What the section promises.                                              *)
(***************************************************************************)
DockerTypeOK ==
    /\ endpointsAt \subseteq Endpoints /\ defaultAt \in endpointsAt \cup {None}
    /\ dockerEndpointId \in Endpoints \cup {None} /\ effectiveDomain \in ToSet(Domains) \cup {None}
    /\ found.ported \subseteq found.ids /\ found.ids \subseteq Containers

\* Only containers of the last discovery that have a port are ticked, so an import never
\* sends one that cannot be a route (useDockerDiscovery.ts:115 and 126).
TickedCanBeRoutes == ticked \subseteq found.ported

\* The endpoint that is deleted is the one that the question named, though another may
\* have been added, and selected, while it was open (DockerSection.tsx:71).
DeletesWhatWasNamed == \A w \in dockerWrites : w.op = "delete" => w.id = w.told

\* At rest, while no endpoint was chosen, the one the section shows, tests and asks is
\* the default of the server, unless an answer was lost or met the first fetch of the list
\* (useDockerDiscovery.ts:43).
DefaultIsUsed ==
    /\ endpointsQ.ask = "idle" /\ Usable(endpointsQ) /\ ~lostAnswer
    /\ \A w \in dockerWrites : w.op = "import"
    => (dockerEndpointId = None => effectiveEndpointId = defaultAt)
=============================================================================
