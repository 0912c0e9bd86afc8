------------------------------ MODULE Taxonomy ------------------------------
(***************************************************************************)
(* The tags and environments, and the domains, of the settings: a list of  *)
(* names, the form that adds one, the row being renamed (labels only), and *)
(* a deletion whose question tells what uses the name, which is read from  *)
(* two other lists.  A label is known by its id, a domain by its name.     *)
(***************************************************************************)
EXTENDS Naturals, FiniteSets, Queries

CONSTANTS LabelIds,      \* ids of labels
          LabelNames,    \* names, as the server compares them
          DomainOf,      \* the name that a row is of, in the list of domains
          MaxWrites      \* bound: requests that were sent

ASSUME TaxonomyAssumption == MaxWrites \in Nat

VARIABLES domainsTab,    \* whether this is the list of domains
          labelsAt,      \* the labels at the server
          usersAt, namedAt, \* the ids that a service uses, that a template names
          labelsQ, usersQ, namedQ, \* the queries: the list, the services, the templates
          newName,       \* the form that adds one
          renaming,      \* the row being renamed, or None
          dropping,      \* the question about a deletion, or None
          writes,        \* the requests under way
          lostWrite,     \* whether a list missed a request: its answer was lost, or joined a first read
          writeCount     \* counts what MaxWrites bounds

theRows == <<newName, renaming, dropping>>
theServer == <<domainsTab, labelsAt, usersAt, namedAt, lostWrite>>
theUses == <<usersQ, namedQ>>
taxonomyVars == <<theServer, labelsQ, theUses, theRows, writes, writeCount>>

LabelMaps == [LabelIds -> LabelNames \cup {None}]
LabelWrites == [op : {"add", "rename", "drop"}, id : LabelIds \cup {None}, name : LabelNames \cup {None},
                at : {"sent", "done", "failed"}]

LabelsListed == IF labelsQ.data = None THEN {} ELSE {i \in LabelIds : labelsQ.data[i] # None}
LabelsShown == IF labelsQ.error THEN {} ELSE LabelsListed
usageFailed == usersQ.error \/ namedQ.error
usageUnknown == Pending(usersQ) \/ Pending(namedQ) \/ usageFailed
dependents(i) == \E uses \in {usersQ.data, namedQ.data} \ {None} : i \in uses

Waiting(op) == \E w \in writes : w.op = op
\* Whether the name is one of a label listed but i.
ListedName(name, i) == \E j \in LabelsListed \ {i} : labelsQ.data[j] = name

TaxonomyInit ==
    /\ domainsTab \in BOOLEAN
    /\ labelsAt \in [LabelIds -> LabelNames \cup {None}]
    /\ \A i, j \in LabelIds : i # j /\ labelsAt[i] # None => labelsAt[i] # labelsAt[j]
    /\ domainsTab => \A i \in LabelIds : labelsAt[i] \in {None, DomainOf[i]}
    /\ usersAt \in SUBSET {i \in LabelIds : labelsAt[i] # None}
    /\ namedAt \in SUBSET {i \in LabelIds : labelsAt[i] # None}
    /\ labelsQ = Asked(Unasked) /\ usersQ = Asked(Unasked) /\ namedQ = Asked(Unasked)
    /\ newName = None /\ renaming = None /\ dropping = None
    /\ writes = {} /\ lostWrite = FALSE /\ writeCount = 0

LabelsLand ==
    /\ labelsQ.ask = "asked" /\ labelsQ' \in {Landed(labelsAt), Failed(labelsQ)}
    /\ UNCHANGED <<theServer, theUses, theRows, writes, writeCount>>

UsersLand ==
    /\ \/ usersQ.ask = "asked" /\ usersQ' \in {Landed(usersAt), Failed(usersQ)} /\ UNCHANGED namedQ
       \/ namedQ.ask = "asked" /\ namedQ' \in {Landed(namedAt), Failed(namedQ)} /\ UNCHANGED usersQ
    /\ UNCHANGED <<theServer, labelsQ, theRows, writes, writeCount>>

TaxonomyRetry ==
    /\ dropping = None
    /\ \/ labelsQ.error /\ labelsQ.ask = "idle" /\ labelsQ' = Asked(labelsQ) /\ UNCHANGED theUses
       \/ /\ usageFailed /\ usersQ.ask = "idle" /\ namedQ.ask = "idle"
          /\ usersQ' = Asked(usersQ) /\ namedQ' = Asked(namedQ) /\ UNCHANGED labelsQ
    /\ UNCHANGED <<theServer, theRows, writes, writeCount>>

Write(op, i, name) ==
    /\ writeCount < MaxWrites /\ writeCount' = writeCount + 1
    /\ writes' = writes \cup {[op |-> op, id |-> i, name |-> name, at |-> "sent"]}

(***************************************************************************)
(* Adding and renaming.                                                    *)
(***************************************************************************)
TypeName ==
    /\ dropping = None /\ newName' \in (LabelNames \cup {None}) \ {newName}
    /\ UNCHANGED <<theServer, labelsQ, theUses, renaming, dropping, writes, writeCount>>

AddLabel ==
    /\ dropping = None /\ newName # None /\ ~ListedName(newName, None) /\ ~Waiting("add")
    /\ Write("add", None, newName)
    /\ UNCHANGED <<theServer, labelsQ, theUses, theRows>>

\* As a bug: a pencil works while a renaming is under way.
PencilAlways == TRUE

\* Whether the pencils work.
PencilWorks == ~Waiting("rename") /\ ~Waiting("drop")

StartRename(i) ==
    /\ ~domainsTab /\ dropping = None /\ i \in LabelsShown /\ PencilWorks
    /\ renaming' = [id |-> i, name |-> labelsQ.data[i]]
    /\ UNCHANGED <<theServer, labelsQ, theUses, newName, dropping, writes, writeCount>>

\* Typing, or Escape.
EditRename ==
    /\ dropping = None /\ renaming # None /\ renaming.id \in LabelsShown
    /\ renaming' \in {[renaming EXCEPT !.name = name] : name \in LabelNames \ {renaming.name}} \cup {None}
    /\ UNCHANGED <<theServer, labelsQ, theUses, newName, dropping, writes, writeCount>>

SaveRename ==
    /\ dropping = None /\ renaming # None /\ renaming.id \in LabelsShown
    /\ ~ListedName(renaming.name, renaming.id) /\ ~Waiting("rename")
    /\ Write("rename", renaming.id, renaming.name)
    /\ UNCHANGED <<theServer, labelsQ, theUses, theRows>>

(***************************************************************************)
(* Deleting.                                                               *)
(***************************************************************************)
\* As a bug: a list that could not be read counts as a list of nothing.
UnreadIsEmpty(i) == IF dependents(i) THEN "in use" ELSE "unused"

\* What the question says.
UsageTold(i) == IF usageUnknown THEN "unknown" ELSE IF dependents(i) THEN "in use" ELSE "unused"

AskDrop(i) ==
    /\ dropping = None /\ i \in LabelsShown /\ ~Waiting("drop")
    /\ IF renaming = None THEN TRUE ELSE renaming.id # i
    /\ dropping' = [id |-> i, says |-> UsageTold(i)]
    /\ UNCHANGED <<theServer, labelsQ, theUses, newName, renaming, writes, writeCount>>

AnswerDrop ==
    /\ dropping # None /\ dropping' = None
    /\ UNCHANGED <<writes, writeCount>> \/ Write("drop", dropping.id, None)
    /\ UNCHANGED <<theServer, labelsQ, theUses, newName, renaming>>

(***************************************************************************)
(* The server: no two labels have one name, and no label is used that has  *)
(* gone - a template is read without those it still names; a service and a *)
(* template keep the name of their domain.  (An id is taken again here,    *)
(* which a server never does: it only adds behaviours.)                    *)
(***************************************************************************)
TakenName(w) == \E j \in LabelIds \ {w.id} : labelsAt[j] = w.name
FreeIds(name) == {i \in LabelIds : labelsAt[i] = None /\ (domainsTab => DomainOf[i] = name)}

LabelsAfter(w) ==
    CASE w.op = "add" -> IF TakenName(w) THEN {} ELSE {[labelsAt EXCEPT ![i] = w.name] : i \in FreeIds(w.name)}
      [] w.op = "rename" -> IF TakenName(w) \/ labelsAt[w.id] = None THEN {} ELSE {[labelsAt EXCEPT ![w.id] = w.name]}
      [] w.op = "drop" -> IF labelsAt[w.id] = None THEN {} ELSE {[labelsAt EXCEPT ![w.id] = None]}

ServeWrite(w) ==
    LET answer(at) == writes' = (writes \ {w}) \cup {[w EXCEPT !.at = at]}
    IN  /\ w.at = "sent"
        /\ \/ answer("failed") /\ UNCHANGED <<labelsAt, usersAt, namedAt, lostWrite>>
           \/ /\ labelsAt' \in LabelsAfter(w)
              /\ LET gone == IF w.op = "drop" /\ ~domainsTab THEN {w.id} ELSE {}
                 IN  usersAt' = usersAt \ gone /\ namedAt' = namedAt \ gone
              /\ \/ answer("done") /\ UNCHANGED lostWrite
                 \/ answer("failed") /\ lostWrite' = TRUE
    /\ UNCHANGED <<domainsTab, labelsQ, theUses, theRows, writeCount>>

\* As a bug: the services are not read again.
ListOnly == FALSE

\* invalidate() reads the services again, and the templates never; the tab of the
\* domains has no need to.
ReadsUsersAgain == ~domainsTab

\* The form and the rows are there before every list has been read (Queries).
WriteLands(w) ==
    /\ w.at # "sent" /\ writes' = writes \ {w}
    /\ IF w.at = "done"
       THEN /\ labelsQ' \in Reread(labelsQ)
            /\ usersQ' \in IF ReadsUsersAgain THEN Reread(usersQ) ELSE {usersQ}
            /\ lostWrite' = \/ lostWrite \/ labelsQ'.ask = "idle"
                            \/ ReadsUsersAgain /\ usersQ'.ask = "idle"
            /\ newName' = IF w.op = "add" THEN None ELSE newName
            /\ renaming' = IF w.op = "rename" THEN None ELSE renaming
       ELSE UNCHANGED <<labelsQ, usersQ, lostWrite, newName, renaming>>
    /\ UNCHANGED <<domainsTab, labelsAt, usersAt, namedAt, namedQ, dropping, writeCount>>

TaxonomyNext ==
    \/ LabelsLand \/ UsersLand \/ TaxonomyRetry \/ TypeName \/ AddLabel \/ EditRename \/ SaveRename \/ AnswerDrop
    \/ \E i \in LabelIds : StartRename(i) \/ AskDrop(i)
    \/ \E w \in writes : ServeWrite(w) \/ WriteLands(w)

TaxonomySpec == TaxonomyInit /\ [][TaxonomyNext]_taxonomyVars

(***************************************************************************)
(* What the tabs promise.                                                  *)
(***************************************************************************)
TaxonomyTypeOK ==
    /\ labelsAt \in LabelMaps /\ usersAt \subseteq LabelIds /\ namedAt \subseteq LabelIds
    /\ labelsQ \in Query(LabelMaps) /\ usersQ \in Query(SUBSET LabelIds) /\ namedQ \in Query(SUBSET LabelIds)
    /\ newName \in LabelNames \cup {None}
    /\ renaming \in [id : LabelIds, name : LabelNames] \cup {None}
    /\ dropping \in [id : LabelIds, says : {"unknown", "in use", "unused"}] \cup {None}
    /\ \A w \in writes : w \in LabelWrites
    /\ lostWrite \in BOOLEAN /\ writeCount \in 0..MaxWrites

\* A deletion is put as harmless only when nothing uses the name, so far as the
\* lists have been read since the last change (TaxonomyTab.tsx:121, DnsTab.tsx:69).
UnusedIsTrue ==
    [][dropping = None /\ dropping' # None /\ dropping'.says = "unused" =>
          dropping'.id \notin usersAt \cup namedAt]_taxonomyVars

\* The answer to a renaming closes the row it renamed, and no other
\* (TaxonomyTab.tsx:440).
RenameClosesItsOwn ==
    [][\A w \in writes \ writes' : w.op = "rename" /\ w.at = "done" /\ renaming # None => renaming.id = w.id]_taxonomyVars

\* At rest the tags and the services they are counted on are those of the server, unless
\* the answer to a request was lost, or came during the first read of one of the lists.
\* (The templates a tag is counted on are not read again: TaxonomyTab.tsx:160-163.)
CountsCatchUp ==
    ~domainsTab /\ writes = {} /\ ~lostWrite /\ labelsQ.ask = "idle" /\ usersQ.ask = "idle"
    /\ Usable(labelsQ) /\ Usable(usersQ) => labelsQ.data = labelsAt /\ usersQ.data = usersAt
=============================================================================
