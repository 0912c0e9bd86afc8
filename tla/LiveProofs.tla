----------------------------- MODULE LiveProofs -----------------------------
(***************************************************************************)
(* The pages that list what the server holds, for any number of cards,     *)
(* rows, rules and requests: the lists catch up, whatever order answers    *)
(* and reads come in, and no step takes back what was there for something  *)
(* else.  Each page is proved about alone first; MCPanelLive shows one of  *)
(* them at a time.                                                         *)
(***************************************************************************)
EXTENDS MCPanelLive, TLAPS

\* What becomes of a query is a query.
LEMMA QueriesStay ==
    ASSUME NEW Data, NEW query \in Query(Data)
    PROVE  /\ Asked(query) \in Query(Data) /\ Asked(query).ask = "asked"
           /\ Failed(query) \in Query(Data) /\ ~Usable(Failed(query))
           /\ Asked(query).data = query.data
           /\ Asked(query).error = (query.error /\ query.data # None)
BY DEF Query, Asked, Failed, Usable

LEMMA LandedIsQuery ==
    ASSUME NEW Data, NEW answer \in Data
    PROVE  /\ Landed(answer) \in Query(Data) /\ Landed(answer).data = answer
           /\ Landed(answer).ask = "idle" /\ Landed(answer).error = FALSE
BY DEF Query, Landed

LEMMA FirstRead ==
    ASSUME NEW Data
    PROVE  /\ Asked(Unasked) \in Query(Data) /\ ~Usable(Asked(Unasked))
           /\ Asked(Unasked).data = None
<1>1. Unasked \in Query(Data) /\ Unasked.data = None
  BY DEF Unasked, Query
<1> HIDE DEF Unasked
<1> QED BY <1>1, QueriesStay DEF Usable

(***************************************************************************)
(* The integrations page.                                                  *)
(***************************************************************************)
Deletions == {call \in calls : call.op \in {"delete", "force"}}

\* No change was made that the page has not been told of yet.
CardsToldOf == \A call \in calls : call.at # "ok"

ListIsKnown == CardsToldOf /\ Usable(list) /\ list.ask = "idle" /\ ~lost => list.data = hosts

\* A card whose deletion is under way is held, for one deletion; while the
\* first question is on the screen, none is.
CardsHeld ==
    /\ \A call \in Deletions : call.id \in busy["delete"]
    /\ \A call, other \in Deletions : call.id = other.id => call = other
    /\ question # None => IF question.kind = "delete" THEN question.id \notin busy["delete"]
                          ELSE /\ question.id \in busy["delete"]
                               /\ \A call \in Deletions : call.id # question.id

CardsInv == IntegrationsTypeOK /\ ListIsKnown /\ CardsHeld

CallType == [op : {"test", "validate", "on", "off", "delete", "force"}, id : Ids,
             at : {"sent", "ok", "refused", "conflict"}, watched : BOOLEAN]

LEMMA RequestIs ==
    ASSUME NEW op \in {"test", "validate", "on", "off", "delete", "force"}, NEW id \in Ids
    PROVE  /\ Request(op, id) \in CallType
           /\ Request(op, id).op = op /\ Request(op, id).id = id /\ Request(op, id).at = "sent"
BY DEF Request, CallType

\* One mark more, or one less.
LEMMA MarksAre ==
    ASSUME busy \in [Kinds -> SUBSET Ids], NEW kind \in Kinds, NEW id \in Ids
    PROVE  /\ Start(kind, id) \in [Kinds -> SUBSET Ids] /\ End(kind, id) \in [Kinds -> SUBSET Ids]
           /\ Start(kind, id)[kind] = busy[kind] \cup {id} /\ End(kind, id)[kind] = busy[kind] \ {id}
           /\ \A other \in Kinds \ {kind} : Start(kind, id)[other] = busy[other]
                                            /\ End(kind, id)[other] = busy[other]
BY DEF Start, End

\* What the page does that is no deletion and nothing at the server: the calls that
\* leave or come are of another kind, and the list is read again if one brought a change.
LEMMA OtherCards ==
    ASSUME CardsInv, UNCHANGED <<hosts, question, lost, changes>>,
           list' \in Query(Rows), list'.ask = "asked" \/ list' = list,
           refresh' \in ((SUBSET Ids) \ {{}}) \cup {None},
           busy' \in [Kinds -> SUBSET Ids], busy'["delete"] = busy["delete"],
           calls' \subseteq CallType, Deletions' = Deletions,
           list' = list => \A call \in calls \ calls' : call.at # "ok"
    PROVE  CardsInv'
<1>1. IntegrationsTypeOK'
  BY DEF CardsInv, IntegrationsTypeOK, CallType
<1>2. ListIsKnown'
  BY DEF CardsInv, ListIsKnown, CardsToldOf
<1>3. CardsHeld'
  BY DEF CardsInv, CardsHeld
<1> QED BY <1>1, <1>2, <1>3 DEF CardsInv

LEMMA CardsInit == IntegrationsInit => CardsInv
<1> SUFFICES ASSUME IntegrationsInit PROVE CardsInv
  OBVIOUS
<1>1. list \in Query(Rows) /\ ~Usable(list) /\ hosts \in Rows
  BY FirstRead DEF IntegrationsInit, Rows
<1>2. IntegrationsTypeOK
  <2>1. busy \in [Kinds -> SUBSET Ids] /\ changes \in 0..MaxChanges
    BY IntegrationsAssumption DEF IntegrationsInit
  <2>2. refresh = None /\ calls = {} /\ question = None /\ lost = FALSE
    BY DEF IntegrationsInit
  <2> QED BY <1>1, <2>1, <2>2 DEF IntegrationsTypeOK
<1>3. ListIsKnown /\ CardsHeld
  BY <1>1 DEF IntegrationsInit, ListIsKnown, CardsHeld, Deletions
<1> QED BY <1>2, <1>3 DEF CardsInv

LEMMA ChecksKeepCards ==
    ASSUME CardsInv, NEW id \in Ids,
           \/ TestConnection(id) \/ ValidateCard(id) \/ ToggleEnabled(id)
           \/ TestLands(id) \/ CardValidated(id) \/ RoundLands(id)
    PROVE  CardsInv'
<1>1. /\ busy \in [Kinds -> SUBSET Ids] /\ list \in Query(Rows) /\ calls \subseteq CallType
      /\ refresh \in ((SUBSET Ids) \ {{}}) \cup {None}
  BY DEF CardsInv, IntegrationsTypeOK, CallType
<1>2. "test" \in Kinds \ {"delete"} /\ "validate" \in Kinds \ {"delete"} /\ "toggle" \in Kinds \ {"delete"}
      /\ "delete" \in Kinds
  BY DEF Kinds
<1>3. Asked(list) \in Query(Rows) /\ Asked(list).ask = "asked"
  BY <1>1, QueriesStay
<1>4. ASSUME NEW op \in {"test", "validate", "on", "off"}, calls' = calls \cup {Request(op, id)}
      PROVE  /\ calls' \subseteq CallType /\ Deletions' = Deletions
             /\ calls \ calls' = {}
  BY <1>1, <1>4, RequestIs DEF Deletions
<1>5. ASSUME NEW op \in {"test", "validate"}, calls' = calls \ {Request(op, id)}
      PROVE  /\ calls' \subseteq CallType /\ Deletions' = Deletions
             /\ \A call \in calls \ calls' : call.at # "ok"
  BY <1>1, <1>5, RequestIs DEF Deletions
<1>6. CASE TestConnection(id)
  <2>1. calls' = calls \cup {Request("test", id)}
        /\ UNCHANGED <<hosts, list, refresh, question, lost, changes>> /\ busy' = Start("test", id)
    BY <1>6 DEF TestConnection, Begin
  <2> QED BY <1>1, <1>2, <1>4, <2>1, MarksAre, OtherCards
<1>7. CASE ValidateCard(id)
  <2>1. calls' = calls \cup {Request("validate", id)}
        /\ UNCHANGED <<hosts, list, refresh, question, lost, changes>> /\ busy' = Start("validate", id)
    BY <1>7 DEF ValidateCard, Begin
  <2> QED BY <1>1, <1>2, <1>4, <2>1, MarksAre, OtherCards
<1>8. CASE ToggleEnabled(id)
  <2>1. PICK op \in {"on", "off"} : calls' = calls \cup {Request(op, id)}
    BY <1>8 DEF ToggleEnabled, Begin
  <2>2. UNCHANGED <<hosts, list, refresh, question, lost, changes>> /\ busy' = Start("toggle", id)
    BY <1>8 DEF ToggleEnabled
  <2> QED BY <1>1, <1>2, <1>4, <2>1, <2>2, MarksAre, OtherCards
<1>9. CASE TestLands(id)
  <2>1. calls' = calls \ {Request("test", id)} /\ list' = Asked(list)
        /\ UNCHANGED <<hosts, refresh, question, lost, changes>> /\ busy' = End("test", id)
    BY <1>9 DEF TestLands
  <2> QED BY <1>1, <1>2, <1>3, <1>5, <2>1, MarksAre, OtherCards
<1>10. CASE CardValidated(id)
  <2>1. calls' = calls \ {Request("validate", id)}
        /\ UNCHANGED <<hosts, list, refresh, question, lost, changes>> /\ busy' = End("validate", id)
    BY <1>10 DEF CardValidated
  <2> QED BY <1>1, <1>2, <1>5, <2>1, MarksAre, OtherCards
<1>11. CASE RoundLands(id)
  <2>1. /\ UNCHANGED <<hosts, calls, question, lost, changes>> /\ busy' = End("test", id)
        /\ list' \in {list, Asked(list)} /\ refresh' \in ((SUBSET Ids) \ {{}}) \cup {None}
    BY <1>1, <1>11 DEF RoundLands
  <2>2. Deletions' = Deletions
    BY <2>1 DEF Deletions
  <2> QED BY <1>1, <1>2, <1>3, <2>1, <2>2, MarksAre, OtherCards
<1> QED BY <1>6, <1>7, <1>8, <1>9, <1>10, <1>11

LEMMA ListKeepsCards ==
    ASSUME CardsInv, ListLands \/ ListRetry \/ HandleRefresh
    PROVE  CardsInv'
<1>1. /\ busy \in [Kinds -> SUBSET Ids] /\ list \in Query(Rows) /\ calls \subseteq CallType
      /\ refresh \in ((SUBSET Ids) \ {{}}) \cup {None} /\ hosts \in Rows
  BY DEF CardsInv, IntegrationsTypeOK, CallType
<1>2. Asked(list) \in Query(Rows) /\ Asked(list).ask = "asked"
  BY <1>1, QueriesStay
<1>3. CASE ListLands
  <2>1. UNCHANGED <<hosts, busy, refresh, calls, question, lost, changes>>
        /\ list' \in {Landed(hosts), Failed(list)}
    BY <1>3 DEF ListLands
  <2>2. list' \in Query(Rows) /\ (Usable(list') => list'.data = hosts)
    <3>1. CASE list' = Landed(hosts)
      BY <1>1, <3>1, LandedIsQuery
    <3>2. CASE list' = Failed(list)
      BY <1>1, <3>2, QueriesStay
    <3> QED BY <2>1, <3>1, <3>2
  <2>3. IntegrationsTypeOK'
    BY <2>1, <2>2 DEF CardsInv, IntegrationsTypeOK
  <2>4. ListIsKnown' /\ CardsHeld'
    BY <2>1, <2>2 DEF CardsInv, ListIsKnown, CardsHeld, Deletions
  <2> QED BY <2>3, <2>4 DEF CardsInv
<1>4. CASE ListRetry
  <2>1. UNCHANGED <<hosts, busy, refresh, calls, question, lost, changes>> /\ list' = Asked(list)
    BY <1>4 DEF ListRetry
  <2>2. Deletions' = Deletions
    BY <2>1 DEF Deletions
  <2> QED BY <1>1, <1>2, <2>1, <2>2, OtherCards
<1>5. CASE HandleRefresh
  <2>1. CardsOn \subseteq Ids /\ "test" \in Kinds /\ "delete" \in Kinds
    BY DEF CardsOn, Cards, Kinds
  <2>2. /\ UNCHANGED <<hosts, calls, question, lost, changes>>
        /\ list' \in {list, Asked(list)} /\ refresh' \in ((SUBSET Ids) \ {{}}) \cup {None}
        /\ busy' \in {busy, [busy EXCEPT !["test"] = @ \cup CardsOn]}
    <3>1. CASE CardsOn = {}
      BY <1>1, <1>5, <3>1 DEF HandleRefresh
    <3>2. CASE CardsOn # {}
      <4>1. CardsOn \in (SUBSET Ids) \ {{}}
        BY <2>1, <3>2
      <4> HIDE DEF CardsOn
      <4> QED BY <1>5, <3>2, <4>1 DEF HandleRefresh
    <3> QED BY <3>1, <3>2
  <2>3. busy' \in [Kinds -> SUBSET Ids] /\ busy'["delete"] = busy["delete"]
    BY <1>1, <2>1, <2>2
  <2>4. Deletions' = Deletions
    BY <2>2 DEF Deletions
  <2> QED BY <1>1, <1>2, <2>2, <2>3, <2>4, OtherCards
<1> QED BY <1>3, <1>4, <1>5

\* The switches, and the server.
LEMMA ToggleKeepsCards ==
    ASSUME CardsInv, NEW call \in calls, ToggleLands(call) PROVE CardsInv'
<1>1. /\ busy \in [Kinds -> SUBSET Ids] /\ list \in Query(Rows) /\ calls \subseteq CallType
      /\ refresh \in ((SUBSET Ids) \ {{}}) \cup {None} /\ call \in CallType
  BY DEF CardsInv, IntegrationsTypeOK, CallType
<1>2. /\ calls' = calls \ {call} /\ busy' = End("toggle", call.id) /\ call.op \in {"on", "off"}
      /\ UNCHANGED <<hosts, refresh, question, lost, changes>>
      /\ list' = IF call.at = "ok" THEN Asked(list) ELSE list
  BY DEF ToggleLands
<1>3. Asked(list) \in Query(Rows) /\ Asked(list).ask = "asked"
  BY <1>1, QueriesStay
<1>4. busy' \in [Kinds -> SUBSET Ids] /\ busy'["delete"] = busy["delete"]
  BY <1>1, <1>2, MarksAre DEF Kinds, CallType
<1>5. Deletions' = Deletions /\ calls' \subseteq CallType
  BY <1>1, <1>2 DEF Deletions
<1>6. CASE call.at = "ok"
  <2>1. list' # list \/ list'.ask = "asked"
    BY <1>2, <1>3, <1>6
  <2>2. IntegrationsTypeOK'
    BY <1>1, <1>2, <1>3, <1>4, <1>6 DEF CardsInv, IntegrationsTypeOK
  <2>3. ListIsKnown'
    BY <1>2, <1>3, <1>6 DEF ListIsKnown
  <2>4. CardsHeld'
    BY <1>2, <1>4, <1>5 DEF CardsInv, CardsHeld
  <2> QED BY <2>2, <2>3, <2>4 DEF CardsInv
<1>7. CASE call.at # "ok"
  BY <1>1, <1>2, <1>4, <1>5, <1>7, OtherCards
<1> QED BY <1>6, <1>7

\* An answer, as `calls` keeps it.
LEMMA AnsweredIs ==
    ASSUME NEW call \in CallType, NEW at \in {"ok", "refused", "conflict"}
    PROVE  /\ [call EXCEPT !.at = at] \in CallType
           /\ [call EXCEPT !.at = at].op = call.op /\ [call EXCEPT !.at = at].id = call.id
           /\ [call EXCEPT !.at = at].at = at
BY DEF CallType

LEMMA ServeKeepsCards ==
    ASSUME CardsInv, NEW call \in calls, Serve(call) PROVE CardsInv'
<1>1. /\ calls \subseteq CallType /\ call \in CallType /\ hosts \in Rows /\ call.id \in Ids
      /\ changes \in 0..MaxChanges
  BY DEF CardsInv, IntegrationsTypeOK, CallType
<1>2. UNCHANGED <<list, busy, refresh, question>> /\ call.at = "sent"
  BY DEF Serve
<1> DEFINE answered(at) == calls' = (calls \ {call}) \cup {[call EXCEPT !.at = at]}
           written(row) == hosts' = [hosts EXCEPT ![call.id] = row]
           made(row) == /\ changes < MaxChanges /\ changes' = changes + 1
                        /\ written(row)
                        /\ \/ answered("ok") /\ UNCHANGED lost
                           \/ answered("refused") /\ lost' = TRUE
<1>3. PICK at \in {"ok", "refused", "conflict"} :
        /\ answered(at)
        /\ \/ UNCHANGED <<hosts, lost, changes>> /\ at # "ok"
           \/ /\ changes < MaxChanges /\ changes' = changes + 1
              /\ \E row \in {"gone", "off", "on"} : written(row)
              /\ (at = "ok" /\ UNCHANGED lost) \/ (at = "refused" /\ lost' = TRUE)
  <2>1. \/ answered("refused") /\ UNCHANGED <<hosts, lost, changes>>
        \/ call.op \in {"on", "off"} /\ made(call.op)
        \/ answered("conflict") /\ UNCHANGED <<hosts, lost, changes>>
        \/ made("gone")
    BY DEF Serve
  <2>2. \/ answered("refused") /\ UNCHANGED <<hosts, lost, changes>>
        \/ answered("conflict") /\ UNCHANGED <<hosts, lost, changes>>
        \/ \E row \in {"gone", "off", "on"} : made(row)
    <3> HIDE DEF made, answered, written
    <3> QED BY <2>1
  <2>3. CASE answered("refused") /\ UNCHANGED <<hosts, lost, changes>>
    <3> HIDE DEF answered
    <3> QED BY <2>3
  <2>4. CASE answered("conflict") /\ UNCHANGED <<hosts, lost, changes>>
    <3> HIDE DEF answered
    <3> QED BY <2>4
  <2>5. CASE \E row \in {"gone", "off", "on"} : made(row)
    <3> HIDE DEF answered, written
    <3>1. PICK row \in {"gone", "off", "on"} : made(row)
      BY <2>5
    <3>2. CASE answered("ok") /\ UNCHANGED lost
      BY <3>1, <3>2
    <3>3. CASE answered("refused") /\ lost' = TRUE
      BY <3>1, <3>3
    <3> QED BY <3>1, <3>2, <3>3
  <2> QED BY <2>2, <2>3, <2>4, <2>5
<1> DEFINE told == [call EXCEPT !.at = at]
<1>4. told \in CallType /\ told.op = call.op /\ told.id = call.id /\ told.at = at
  BY <1>1, AnsweredIs
<1>5. calls' = (calls \ {call}) \cup {told}
  BY <1>3
<1> HIDE DEF told, answered, made
<1>6. IntegrationsTypeOK'
  <2>1. hosts' \in Rows
    <3>1. CASE \E row \in {"gone", "off", "on"} : hosts' = [hosts EXCEPT ![call.id] = row]
      BY <1>1, <3>1 DEF Rows
    <3>2. CASE UNCHANGED hosts
      BY <1>1, <3>2
    <3> QED BY <1>3, <3>1, <3>2
  <2>3. lost' \in BOOLEAN
    BY <1>3 DEF CardsInv, IntegrationsTypeOK
  <2>4. changes' \in 0..MaxChanges
    <3>1. CASE UNCHANGED changes
      BY <1>1, <3>1
    <3>2. CASE changes < MaxChanges /\ changes' = changes + 1
      BY <1>1, <3>2, IntegrationsAssumption
    <3> QED BY <1>3, <3>1, <3>2
  <2>2. calls' \subseteq CallType
    BY <1>1, <1>4, <1>5
  <2> QED BY <1>2, <2>1, <2>2, <2>3, <2>4 DEF CardsInv, IntegrationsTypeOK, CallType
<1>7. ListIsKnown'
  <2>1. CASE at = "ok" \/ lost'
    BY <1>4, <1>5, <2>1 DEF ListIsKnown, CardsToldOf
  <2>2. CASE at # "ok" /\ ~lost'
    <3>1. UNCHANGED <<hosts, lost>>
      BY <1>3, <2>2
    <3>2. CardsToldOf' => CardsToldOf
      BY <1>2, <1>5 DEF CardsToldOf
    <3> QED BY <1>2, <3>1, <3>2 DEF CardsInv, ListIsKnown
  <2> QED BY <2>1, <2>2
<1>8. CardsHeld'
  <2>1. \A other \in Deletions' : other = told \/ other \in Deletions
    BY <1>5 DEF Deletions
  <2>2. told \in Deletions' => call \in Deletions
    BY <1>4 DEF Deletions
  <2>3. \A other \in Deletions' : other = told \/ other # call
    BY <1>5 DEF Deletions
  <2> QED BY <1>2, <1>4, <2>1, <2>2, <2>3 DEF CardsInv, CardsHeld
<1> QED BY <1>6, <1>7, <1>8 DEF CardsInv

(***************************************************************************)
(* The deletions.                                                          *)
(***************************************************************************)
\* Sending one leaves the others what they are, but for who watches them.
LEMMA SentDeletion ==
    ASSUME calls \subseteq CallType, NEW op \in {"delete", "force"}, NEW id \in Ids, SendDeletion(op, id),
           CardsHeld, \A call \in Deletions : call.id # id
    PROVE  /\ calls' \subseteq CallType /\ (CardsToldOf' => CardsToldOf)
           /\ \A call, other \in Deletions' : call.id = other.id => call = other
           /\ \A call \in Deletions' : call.id = id \/ \E other \in Deletions : other.id = call.id
<1> DEFINE new == Request(op, id)
           Unwatched(call) == [call EXCEPT !.watched = FALSE]
<1>1. new \in CallType /\ new.op = op /\ new.id = id /\ new.at = "sent"
  BY RequestIs
<1>2. \A call \in calls : /\ Unwatched(call) \in CallType /\ Unwatched(call).op = call.op
                          /\ Unwatched(call).id = call.id /\ Unwatched(call).at = call.at
  BY DEF CallType
<1>3. calls' = {Unwatched(call) : call \in calls} \cup {new}
  BY DEF SendDeletion
<1> HIDE DEF new, Unwatched
<1>4. calls' \subseteq CallType
  BY <1>1, <1>2, <1>3
<1>5. CardsToldOf' => CardsToldOf
  BY <1>2, <1>3 DEF CardsToldOf
<1>6. \A call \in Deletions' : call = new \/ \E other \in Deletions : call = Unwatched(other) /\ call.id = other.id
  BY <1>2, <1>3 DEF Deletions
<1>7. ASSUME NEW call \in Deletions', NEW other \in Deletions', call.id = other.id
      PROVE  call = other
  <2>1. CASE call = new \/ other = new
    BY <1>1, <1>6, <1>7, <2>1
  <2>2. CASE call # new /\ other # new
    <3>1. PICK c \in Deletions : call = Unwatched(c) /\ call.id = c.id
      BY <1>6, <2>2
    <3>2. PICK d \in Deletions : other = Unwatched(d) /\ other.id = d.id
      BY <1>6, <2>2
    <3>3. c = d
      BY <1>7, <3>1, <3>2 DEF CardsHeld
    <3> QED BY <3>1, <3>2, <3>3
  <2> QED BY <2>1, <2>2
<1>8. \A call \in Deletions' : call.id = id \/ \E other \in Deletions : other.id = call.id
  BY <1>1, <1>6
<1> QED BY <1>4, <1>5, <1>7, <1>8

LEMMA QuestionsKeepCards ==
    ASSUME CardsInv, \/ \E id \in Ids : AskDelete(id)
                     \/ \E yes \in BOOLEAN : AnswerDelete(yes) \/ AnswerForce(yes)
    PROVE  CardsInv'
<1>1. /\ busy \in [Kinds -> SUBSET Ids] /\ calls \subseteq CallType /\ "delete" \in Kinds
      /\ (question # None => question \in [kind : {"delete", "force"}, id : Ids])
  BY DEF CardsInv, IntegrationsTypeOK, CallType, Kinds
<1>2. ASSUME NEW id \in Ids, AskDelete(id)
      PROVE  CardsInv'
  <2>1. /\ question' = [kind |-> "delete", id |-> id] /\ id \notin busy["delete"]
        /\ UNCHANGED <<hosts, list, busy, refresh, calls, lost, changes>>
    BY <1>2 DEF AskDelete
  <2>2. IntegrationsTypeOK'
    BY <2>1 DEF CardsInv, IntegrationsTypeOK
  <2>3. ListIsKnown' /\ CardsHeld'
    BY <2>1 DEF CardsInv, ListIsKnown, CardsToldOf, CardsHeld, Deletions
  <2> QED BY <2>2, <2>3 DEF CardsInv
<1>3. ASSUME NEW yes \in BOOLEAN, ~yes, AnswerDelete(yes) \/ AnswerForce(yes)
      PROVE  CardsInv'
  <2>1. /\ question # None /\ question' = None
        /\ UNCHANGED <<hosts, list, refresh, calls, lost, changes>>
        /\ \/ UNCHANGED busy
           \/ question.kind = "force" /\ busy' = End("delete", question.id)
    BY <1>3 DEF AnswerDelete, AnswerForce
  <2>2. busy' \in [Kinds -> SUBSET Ids] /\ (\/ busy'["delete"] = busy["delete"]
                                               \/ /\ question.kind = "force"
                                                  /\ busy'["delete"] = busy["delete"] \ {question.id})
    <3>1. CASE UNCHANGED busy
      <4>1. busy' = busy
        BY <3>1
      <4> QED BY <1>1, <4>1
    <3>2. CASE question.kind = "force" /\ busy' = End("delete", question.id)
      <4>1. question.id \in Ids
        BY <1>1, <2>1
      <4> QED BY <1>1, <3>2, <4>1, MarksAre
    <3> QED BY <2>1, <3>1, <3>2
  <2>3. IntegrationsTypeOK'
    BY <2>1, <2>2 DEF CardsInv, IntegrationsTypeOK
  <2>4. ListIsKnown'
    BY <2>1 DEF CardsInv, ListIsKnown, CardsToldOf
  <2>5. CardsHeld'
    BY <2>1, <2>2 DEF CardsInv, CardsHeld, Deletions
  <2> QED BY <2>3, <2>4, <2>5 DEF CardsInv
<1>4. ASSUME NEW yes \in BOOLEAN, yes, AnswerDelete(yes) \/ AnswerForce(yes)
      PROVE  CardsInv'
  <2>1. PICK op \in {"delete", "force"} :
        /\ question # None /\ question.kind = op /\ question' = None
        /\ SendDeletion(op, question.id)
        /\ UNCHANGED <<hosts, list, refresh, lost, changes>>
        /\ busy' = IF op = "delete" THEN Start("delete", question.id) ELSE busy
    BY <1>4 DEF AnswerDelete, AnswerForce
  <2> DEFINE id == question.id
  <2>2. id \in Ids /\ \A call \in Deletions : call.id # id
    BY <1>1, <2>1 DEF CardsInv, CardsHeld
  <2>3. /\ calls' \subseteq CallType /\ (CardsToldOf' => CardsToldOf)
        /\ \A call, other \in Deletions' : call.id = other.id => call = other
        /\ \A call \in Deletions' : call.id = id \/ \E other \in Deletions : other.id = call.id
    BY <1>1, <2>1, <2>2, SentDeletion DEF CardsInv
  <2>4. busy' \in [Kinds -> SUBSET Ids] /\ busy'["delete"] = busy["delete"] \cup {id}
    BY <1>1, <2>1, <2>2, MarksAre DEF CardsInv, CardsHeld
  <2>5. IntegrationsTypeOK'
    BY <2>1, <2>3, <2>4 DEF CardsInv, IntegrationsTypeOK, CallType
  <2>6. ListIsKnown'
    BY <2>1, <2>3 DEF CardsInv, ListIsKnown
  <2>7. CardsHeld'
    BY <2>1, <2>3, <2>4 DEF CardsInv, CardsHeld
  <2> QED BY <2>5, <2>6, <2>7 DEF CardsInv
<1> QED BY <1>2, <1>3, <1>4

LEMMA DeletionsKeepCards ==
    ASSUME CardsInv, NEW call \in calls, DeleteLands(call) \/ ForceLands(call)
    PROVE  CardsInv'
<1>1. /\ busy \in [Kinds -> SUBSET Ids] /\ calls \subseteq CallType /\ "delete" \in Kinds
      /\ (question # None => question \in [kind : {"delete", "force"}, id : Ids])
      /\ call \in CallType /\ call.id \in Ids /\ list \in Query(Rows)
  BY DEF CardsInv, IntegrationsTypeOK, CallType, Kinds
<1>2. /\ calls' = calls \ {call} /\ call.op \in {"delete", "force"}
      /\ UNCHANGED <<hosts, refresh, lost, changes>>
  BY DEF DeleteLands, ForceLands
<1>3. call \in Deletions /\ Deletions' = Deletions \ {call} /\ call.id \in busy["delete"]
      /\ \A other \in Deletions' : other.id # call.id
  BY <1>2 DEF Deletions, CardsInv, CardsHeld
<1>4. CASE DeleteLands(call) /\ call.at = "conflict"
  <2>1. /\ question' = [kind |-> "force", id |-> call.id] /\ UNCHANGED list
        /\ busy' = IF question # None /\ question.kind = "force" THEN End("delete", question.id) ELSE busy
    BY <1>4 DEF DeleteLands
  <2>2. question # None /\ question.kind = "force" => \A other \in Deletions : other.id # question.id
    BY DEF CardsInv, CardsHeld
  <2>3. /\ busy' \in [Kinds -> SUBSET Ids]
        /\ \/ busy'["delete"] = busy["delete"]
           \/ busy'["delete"] = busy["delete"] \ {question.id} /\ \A other \in Deletions : other.id # question.id
    BY <1>1, <2>1, <2>2, MarksAre
  <2>4. IntegrationsTypeOK'
    BY <1>1, <1>2, <2>1, <2>3 DEF CardsInv, IntegrationsTypeOK
  <2>5. ListIsKnown'
    BY <1>2, <1>4, <2>1 DEF CardsInv, ListIsKnown, CardsToldOf
  <2>6. CardsHeld'
    BY <1>3, <2>1, <2>3 DEF CardsInv, CardsHeld
  <2> QED BY <2>4, <2>5, <2>6 DEF CardsInv
<1>5. CASE ~(DeleteLands(call) /\ call.at = "conflict")
  <2>1. /\ UNCHANGED question /\ list' = IF call.at = "ok" THEN Asked(list) ELSE list
        /\ busy' = End("delete", call.id) \/ busy' = busy
    BY <1>5 DEF DeleteLands, ForceLands
  <2>2. list' \in Query(Rows) /\ (call.at = "ok" => list'.ask = "asked")
    BY <1>1, <2>1, QueriesStay
  <2>3. /\ busy' \in [Kinds -> SUBSET Ids]
        /\ busy'["delete"] \in {busy["delete"], busy["delete"] \ {call.id}}
    BY <1>1, <2>1, MarksAre
  <2>4. IntegrationsTypeOK'
    BY <1>1, <1>2, <2>1, <2>2, <2>3 DEF CardsInv, IntegrationsTypeOK
  <2>5. ListIsKnown'
    BY <1>2, <2>1, <2>2 DEF CardsInv, ListIsKnown, CardsToldOf
  <2>6. CardsHeld'
    BY <1>3, <2>1, <2>3 DEF CardsInv, CardsHeld
  <2> QED BY <2>4, <2>5, <2>6 DEF CardsInv
<1> QED BY <1>4, <1>5

LEMMA CardsStay == CardsInv /\ [IntegrationsNext]_integrationsVars => CardsInv'
<1> SUFFICES ASSUME CardsInv, [IntegrationsNext]_integrationsVars PROVE CardsInv'
  OBVIOUS
<1>1. CASE UNCHANGED integrationsVars
  BY <1>1 DEF integrationsVars, CardsInv, IntegrationsTypeOK, ListIsKnown, CardsToldOf, CardsHeld, Deletions
<1>2. CASE ListRetry \/ HandleRefresh \/ ListLands
  BY <1>2, ListKeepsCards
<1>3. CASE \E id \in Ids : \/ TestConnection(id) \/ ValidateCard(id) \/ ToggleEnabled(id)
                           \/ TestLands(id) \/ CardValidated(id) \/ RoundLands(id)
  BY <1>3, ChecksKeepCards
<1>4. CASE \/ \E id \in Ids : AskDelete(id)
           \/ \E yes \in BOOLEAN : AnswerDelete(yes) \/ AnswerForce(yes)
  BY <1>4, QuestionsKeepCards
<1>5. CASE \E call \in calls : ToggleLands(call) \/ DeleteLands(call) \/ ForceLands(call) \/ Serve(call)
  BY <1>5, ToggleKeepsCards, DeletionsKeepCards, ServeKeepsCards
<1> QED BY <1>1, <1>2, <1>3, <1>4, <1>5 DEF IntegrationsNext, Answers

LEMMA CardsImply == CardsInv => IntegrationsTypeOK /\ ListCatchesUp /\ HeldWhileAsked
<1> SUFFICES ASSUME CardsInv PROVE ListCatchesUp /\ HeldWhileAsked
  BY DEF CardsInv
<1>1. ListCatchesUp
  BY DEF CardsInv, ListIsKnown, CardsToldOf, ListCatchesUp
<1>2. HeldWhileAsked
  BY DEF CardsInv, CardsHeld, Deletions, HeldWhileAsked
<1> QED BY <1>1, <1>2


(***************************************************************************)
(* The endpoints page.                                                     *)
(***************************************************************************)
Ops == {"on", "off", "delete", "check"}
SentType == [op : Ops, ids : (SUBSET Services) \ {{}}, bulk : BOOLEAN, at : {"sent", "done", "failed"}]
Question == [op : Ops, ids : (SUBSET Services) \ {{}}, bulk : BOOLEAN]

AskedWell == asking # None => asking \in Question

\* Nothing was changed that the page has not been told of yet: a check is answered as it lands.
ChecksAwait == \A call \in sent : call.op = "check" => call.at = "sent"
RowsToldOf == \A call \in sent : call.at # "done"
RowsAreKnown == RowsToldOf /\ Usable(rows) /\ rows.ask = "idle" /\ ~unheard => rows.data = server

\* A row that is marked busy is waited for.
BusyIsAwaited == \A s \in acting : \E call \in sent : s \in call.ids

RowsInv == ServiceListTypeOK /\ AskedWell /\ ChecksAwait /\ RowsAreKnown /\ BusyIsAwaited

LEMMA RowsInit == ServiceListInit => RowsInv
<1> SUFFICES ASSUME ServiceListInit PROVE RowsInv
  OBVIOUS
<1>1. rows \in Query([Services -> Row]) /\ ~Usable(rows) /\ server \in [Services -> Row]
  BY FirstRead DEF ServiceListInit, Row
<1>2. ServiceListTypeOK
  <2>1. pushes \in 0..MaxPushes /\ mode \in {"all", "disabled"} /\ run = None /\ unheard = FALSE
    BY ServiceListAssumption DEF ServiceListInit
  <2>2. selected = {} /\ acting = {} /\ sent = {}
    BY DEF ServiceListInit
  <2> QED BY <1>1, <2>1, <2>2 DEF ServiceListTypeOK
<1>3. AskedWell /\ ChecksAwait /\ RowsAreKnown /\ BusyIsAwaited
  BY <1>1 DEF ServiceListInit, AskedWell, ChecksAwait, RowsAreKnown, BusyIsAwaited
<1> QED BY <1>2, <1>3 DEF RowsInv

\* What becomes of the page's own state only: the tab, the selection, the question.
LEMMA OwnStateKeepsRows ==
    ASSUME RowsInv, UNCHANGED <<acting, sent, theServer>>,
           rows' \in Query([Services -> Row]), rows' = rows \/ rows'.ask = "asked",
           mode' \in {"all", "disabled"}, selected' \subseteq Services,
           run' \in (SUBSET Services) \cup {None}, AskedWell'
    PROVE  RowsInv'
<1>1. ServiceListTypeOK'
  BY DEF RowsInv, ServiceListTypeOK, theServer
<1>2. ChecksAwait' /\ BusyIsAwaited'
  BY DEF RowsInv, ChecksAwait, BusyIsAwaited
<1>3. RowsAreKnown'
  BY DEF RowsInv, RowsAreKnown, RowsToldOf, theServer
<1> QED BY <1>1, <1>2, <1>3 DEF RowsInv

LEMMA ListingKeepsRows ==
    ASSUME RowsInv, \/ RowsLand \/ RowsRetry \/ SetMode \/ ToggleSelect \/ RunEnds
    PROVE  RowsInv'
<1>1. /\ rows \in Query([Services -> Row]) /\ server \in [Services -> Row] /\ Visible \subseteq Services
      /\ mode \in {"all", "disabled"} /\ selected \subseteq Services /\ run \in (SUBSET Services) \cup {None}
  BY DEF RowsInv, ServiceListTypeOK, Visible, Listed
<1>2. Asked(rows) \in Query([Services -> Row]) /\ Asked(rows).ask = "asked"
  BY <1>1, QueriesStay
<1>3. CASE RowsLand
  <2>1. UNCHANGED <<mode, selected, acting, asking, sent, run, theServer>> /\ rows' \in {Landed(server), Failed(rows)}
    BY <1>3 DEF RowsLand
  <2>2. rows' \in Query([Services -> Row]) /\ (Usable(rows') => rows'.data = server)
    <3>1. CASE rows' = Landed(server)
      BY <1>1, <3>1, LandedIsQuery
    <3>2. CASE rows' = Failed(rows)
      BY <1>1, <3>2, QueriesStay
    <3> QED BY <2>1, <3>1, <3>2
  <2>3. ServiceListTypeOK'
    BY <2>1, <2>2 DEF RowsInv, ServiceListTypeOK, theServer
  <2>4. AskedWell' /\ ChecksAwait' /\ BusyIsAwaited'
    BY <2>1 DEF RowsInv, AskedWell, ChecksAwait, BusyIsAwaited
  <2>5. RowsAreKnown'
    BY <2>1, <2>2 DEF RowsAreKnown, theServer
  <2> QED BY <2>3, <2>4, <2>5 DEF RowsInv
<1>4. CASE RowsRetry \/ RunEnds
  <2>1. /\ rows' = Asked(rows) /\ UNCHANGED <<mode, acting, asking, sent, theServer>>
        /\ selected' \subseteq Services /\ run' \in (SUBSET Services) \cup {None}
    BY <1>1, <1>4 DEF RowsRetry, RunEnds
  <2>2. AskedWell'
    BY <2>1 DEF RowsInv, AskedWell
  <2> QED BY <1>1, <1>2, <2>1, <2>2, OwnStateKeepsRows
<1>5. CASE SetMode \/ ToggleSelect
  <2>1. UNCHANGED <<rows, acting, asking, sent, run, theServer>> /\ mode' \in {"all", "disabled"}
    BY <1>1, <1>5 DEF SetMode, ToggleSelect
  <2>2. selected' \subseteq Services
    <3>1. CASE SetMode
      BY <1>1, <3>1 DEF SetMode
    <3>2. CASE ToggleSelect
      <4> HIDE DEF Visible
      <4> QED BY <1>1, <3>2 DEF ToggleSelect
    <3> QED BY <1>5, <3>1, <3>2
  <2>3. AskedWell'
    BY <2>1 DEF RowsInv, AskedWell
  <2> QED BY <1>1, <2>1, <2>2, <2>3, OwnStateKeepsRows
<1> QED BY <1>3, <1>4, <1>5

LEMMA QuestionsKeepRows ==
    ASSUME RowsInv, \/ \E s \in Services : HandleToggleStatus(s) \/ HandleDelete(s)
                    \/ \E op \in Ops : HandleBulk(op)
    PROVE  RowsInv'
<1>1. /\ Selected \subseteq Services /\ rows \in Query([Services -> Row])
      /\ mode \in {"all", "disabled"} /\ selected \subseteq Services /\ run \in (SUBSET Services) \cup {None}
  BY DEF RowsInv, ServiceListTypeOK, Selected, Listed
<1>2. PICK op \in Ops, ids \in (SUBSET Services) \ {{}}, bulk \in BOOLEAN : Ask(op, ids, bulk)
  <2>1. CASE \E s \in Services : HandleToggleStatus(s)
    BY <2>1 DEF HandleToggleStatus, Ops
  <2>2. CASE \E s \in Services : HandleDelete(s)
    BY <2>2 DEF HandleDelete, Ops
  <2>3. CASE \E op \in Ops : HandleBulk(op)
    <3>1. PICK op \in Ops : Selected # {} /\ Ask(op, Selected, TRUE)
      BY <2>3 DEF HandleBulk
    <3>2. Selected \in (SUBSET Services) \ {{}}
      BY <1>1, <3>1
    <3> QED BY <3>1, <3>2
  <2> QED BY <2>1, <2>2, <2>3
<1>3. asking' = [op |-> op, ids |-> ids, bulk |-> bulk]
      /\ UNCHANGED <<rows, mode, selected, acting, sent, run, theServer>>
  BY <1>2 DEF Ask
<1>4. AskedWell'
  BY <1>3 DEF AskedWell, Question
<1> QED BY <1>1, <1>3, <1>4, OwnStateKeepsRows

\* One request more, and its rows marked.
LEMMA SendingKeepsRows ==
    ASSUME RowsInv, NEW op \in Ops, NEW ids \in (SUBSET Services) \ {{}}, NEW bulk \in BOOLEAN,
           SendRequest(op, ids, bulk), acting' = acting \cup ids, AskedWell',
           run' \in (SUBSET Services) \cup {None}, UNCHANGED <<rows, mode, selected, theServer>>
    PROVE  RowsInv'
<1> DEFINE new == Call(op, ids, bulk)
<1>1. new \in SentType /\ new.at = "sent" /\ new.ids = ids
  BY DEF Call, SentType
<1>2. sent' = sent \cup {new}
  BY DEF SendRequest
<1> HIDE DEF new
<1>3. ServiceListTypeOK'
  BY <1>1, <1>2 DEF RowsInv, ServiceListTypeOK, SentType, Ops, theServer
<1>4. ChecksAwait'
  BY <1>1, <1>2 DEF RowsInv, ChecksAwait
<1>5. RowsAreKnown'
  BY <1>2 DEF RowsInv, RowsAreKnown, RowsToldOf, theServer
<1>6. BusyIsAwaited'
  BY <1>1, <1>2 DEF RowsInv, BusyIsAwaited
<1> QED BY <1>3, <1>4, <1>5, <1>6 DEF RowsInv

LEMMA RequestsKeepRows ==
    ASSUME RowsInv, \/ \E yes \in BOOLEAN : Settle(yes)
                    \/ \E s \in Services : CheckService(s) \/ RunCheck(s)
    PROVE  RowsInv'
<1>1. /\ rows \in Query([Services -> Row]) /\ "check" \in Ops
      /\ mode \in {"all", "disabled"} /\ selected \subseteq Services /\ run \in (SUBSET Services) \cup {None}
  BY DEF RowsInv, ServiceListTypeOK, Ops
<1>2. ASSUME NEW yes \in BOOLEAN, Settle(yes)
      PROVE  RowsInv'
  <2>1. asking \in Question /\ asking' = None /\ UNCHANGED <<rows, mode, selected, theServer>> /\ AskedWell'
    BY <1>2 DEF Settle, RowsInv, AskedWell
  <2>2. asking.op \in Ops /\ asking.ids \in (SUBSET Services) \ {{}} /\ asking.bulk \in BOOLEAN
    BY <2>1 DEF Question
  <2>3. CASE ~yes \/ asking.op = "check"
    <3>1. UNCHANGED <<acting, sent>> /\ run' \in (SUBSET Services) \cup {None}
      BY <1>1, <1>2, <2>2, <2>3 DEF Settle
    <3> QED BY <1>1, <2>1, <3>1, OwnStateKeepsRows
  <2>4. CASE yes /\ asking.op # "check"
    <3>1. SendRequest(asking.op, asking.ids, asking.bulk) /\ acting' = acting \cup asking.ids /\ UNCHANGED run
      BY <1>2, <2>4 DEF Settle
    <3> QED BY <1>1, <2>1, <2>2, <3>1, SendingKeepsRows
  <2> QED BY <2>3, <2>4
<1>3. ASSUME NEW s \in Services, CheckService(s) \/ RunCheck(s)
      PROVE  RowsInv'
  <2>1. PICK bulk \in BOOLEAN : SendRequest("check", {s}, bulk)
    BY <1>3 DEF CheckService, RunCheck
  <2>2. acting' = acting \cup {s} /\ UNCHANGED <<rows, mode, selected, asking, theServer>>
        /\ run' \in (SUBSET Services) \cup {None} /\ {s} \in (SUBSET Services) \ {{}}
    BY <1>1, <1>3 DEF CheckService, RunCheck
  <2>3. AskedWell'
    BY <2>2 DEF RowsInv, AskedWell
  <2> QED BY <1>1, <2>1, <2>2, <2>3, SendingKeepsRows
<1> QED BY <1>2, <1>3

\* One request less, its rows released, and the list read again if it changed something.
LEMMA AnswersKeepRows ==
    ASSUME RowsInv, NEW call \in sent, CheckLands(call) \/ PushLands(call)
    PROVE  RowsInv'
<1>1. /\ rows \in Query([Services -> Row]) /\ sent \subseteq SentType /\ call \in SentType
      /\ selected \subseteq Services
  BY DEF RowsInv, ServiceListTypeOK, SentType, Ops
<1>2. Asked(rows) \in Query([Services -> Row]) /\ Asked(rows).ask = "asked"
  BY <1>1, QueriesStay
<1>3. /\ sent' = sent \ {call} /\ acting' = acting \ call.ids
      /\ UNCHANGED <<mode, asking, run, theServer>>
      /\ rows' = Asked(rows) \/ (rows' = rows /\ call.at # "done")
  <2>1. CASE CheckLands(call)
    BY <2>1 DEF CheckLands, RowsInv, ChecksAwait
  <2>2. CASE PushLands(call)
    BY <2>2 DEF PushLands, Freed, AfterPush
  <2> QED BY <2>1, <2>2
<1>4. selected' \subseteq Services
  BY <1>1 DEF CheckLands, PushLands
<1>5. ServiceListTypeOK'
  BY <1>1, <1>2, <1>3, <1>4 DEF RowsInv, ServiceListTypeOK, theServer
<1>6. AskedWell' /\ ChecksAwait'
  BY <1>3 DEF RowsInv, AskedWell, ChecksAwait
<1>7. RowsAreKnown'
  BY <1>2, <1>3 DEF RowsInv, RowsAreKnown, RowsToldOf, theServer
<1>8. BusyIsAwaited'
  BY <1>3 DEF RowsInv, BusyIsAwaited
<1> QED BY <1>5, <1>6, <1>7, <1>8 DEF RowsInv

LEMMA ServingKeepsRows ==
    ASSUME RowsInv, NEW call \in sent, ServeList(call) PROVE RowsInv'
<1>1. /\ server \in [Services -> Row] /\ sent \subseteq SentType /\ call \in SentType
      /\ pushes \in 0..MaxPushes /\ unheard \in BOOLEAN
  BY DEF RowsInv, ServiceListTypeOK, SentType, Ops
<1>2. UNCHANGED <<rows, mode, selected, acting, asking, run>> /\ call.at = "sent" /\ call.op # "check"
  BY DEF ServeList
<1> DEFINE answer(at) == sent' = (sent \ {call}) \cup {[call EXCEPT !.at = at]}
           written == server' \in [Services -> Row]
<1>3. PICK at \in {"done", "failed"} :
        /\ answer(at)
        /\ \/ UNCHANGED <<server, unheard, pushes>>
           \/ /\ pushes < MaxPushes /\ pushes' = pushes + 1 /\ written
              /\ (at = "done" /\ UNCHANGED unheard) \/ (at = "failed" /\ unheard' = TRUE)
        /\ at = "failed" \/ ~UNCHANGED pushes
  <2>1. CASE answer("failed") /\ UNCHANGED <<server, unheard, pushes>>
    <3> HIDE DEF answer
    <3> QED BY <2>1
  <2>2. CASE ~(answer("failed") /\ UNCHANGED <<server, unheard, pushes>>)
    <3>1. pushes < MaxPushes /\ pushes' = pushes + 1
      BY <2>2 DEF ServeList, theServer
    <3>2. written
      <4> DEFINE to == IF call.op = "delete" THEN "gone" ELSE call.op
      <4>1. to \in Row
        BY <1>1, <1>2 DEF SentType, Ops, Row
      <4>2. PICK ids : server' = [s \in Services |-> IF s \in ids /\ server[s] # "gone" THEN to ELSE server[s]]
        BY <2>2 DEF ServeList, theServer
      <4> HIDE DEF to
      <4> QED BY <1>1, <4>1, <4>2
    <3>3. (answer("done") /\ UNCHANGED unheard) \/ (answer("failed") /\ unheard' = TRUE)
      BY <2>2 DEF ServeList, theServer
    <3>4. pushes' # pushes
      BY <1>1, <3>1, ServiceListAssumption
    <3> HIDE DEF answer, written
    <3>5. CASE answer("done") /\ UNCHANGED unheard
      BY <3>1, <3>2, <3>4, <3>5
    <3>6. CASE answer("failed") /\ unheard' = TRUE
      BY <3>1, <3>2, <3>6
    <3> QED BY <3>3, <3>5, <3>6
  <2> QED BY <2>1, <2>2
<1> DEFINE told == [call EXCEPT !.at = at]
<1>4. told \in SentType /\ told.op = call.op /\ told.ids = call.ids /\ told.at = at
  BY <1>1 DEF SentType
<1>5. sent' = (sent \ {call}) \cup {told}
  BY <1>3
<1> HIDE DEF told, answer
<1>6. ServiceListTypeOK'
  <2>1. server' \in [Services -> Row] /\ unheard' \in BOOLEAN
    BY <1>1, <1>3
  <2>2. pushes' \in 0..MaxPushes
    <3> HIDE DEF written
    <3>1. CASE UNCHANGED pushes
      BY <1>1, <3>1
    <3>2. CASE pushes < MaxPushes /\ pushes' = pushes + 1
      BY <1>1, <3>2, ServiceListAssumption
    <3> QED BY <1>3, <3>1, <3>2
  <2>3. sent' \subseteq SentType
    BY <1>1, <1>4, <1>5
  <2> QED BY <1>2, <2>1, <2>2, <2>3 DEF RowsInv, ServiceListTypeOK, SentType, Ops
<1>7. AskedWell' /\ ChecksAwait'
  BY <1>2, <1>4, <1>5 DEF RowsInv, AskedWell, ChecksAwait
<1>8. RowsAreKnown'
  <2>1. CASE at = "done" \/ unheard'
    BY <1>4, <1>5, <2>1 DEF RowsAreKnown, RowsToldOf
  <2>2. CASE at # "done" /\ ~unheard'
    <3>1. UNCHANGED <<server, unheard>>
      BY <1>3, <2>2
    <3>2. RowsToldOf' => RowsToldOf
      BY <1>2, <1>5 DEF RowsToldOf
    <3> QED BY <1>2, <3>1, <3>2 DEF RowsInv, RowsAreKnown
  <2> QED BY <2>1, <2>2
<1>9. BusyIsAwaited'
  BY <1>2, <1>4, <1>5 DEF RowsInv, BusyIsAwaited
<1> QED BY <1>6, <1>7, <1>8, <1>9 DEF RowsInv

LEMMA RowsStay == RowsInv /\ [ServiceListNext]_serviceListVars => RowsInv'
<1> SUFFICES ASSUME RowsInv, [ServiceListNext]_serviceListVars PROVE RowsInv'
  OBVIOUS
<1>1. CASE UNCHANGED serviceListVars
  BY <1>1 DEF serviceListVars, theServer, RowsInv, ServiceListTypeOK, AskedWell, ChecksAwait, RowsAreKnown,
              RowsToldOf, BusyIsAwaited
<1>2. CASE RowsLand \/ RowsRetry \/ SetMode \/ ToggleSelect \/ RunEnds
  BY <1>2, ListingKeepsRows
<1>3. CASE \/ \E s \in Services : HandleToggleStatus(s) \/ HandleDelete(s)
           \/ \E op \in {"on", "off", "delete", "check"} : HandleBulk(op)
  BY <1>3, QuestionsKeepRows DEF Ops
<1>4. CASE \/ \E yes \in BOOLEAN : Settle(yes)
           \/ \E s \in Services : CheckService(s) \/ RunCheck(s)
  BY <1>4, RequestsKeepRows
<1>5. CASE \E call \in sent : CheckLands(call) \/ PushLands(call) \/ ServeList(call)
  BY <1>5, AnswersKeepRows, ServingKeepsRows
<1> QED BY <1>1, <1>2, <1>3, <1>4, <1>5 DEF ServiceListNext

LEMMA RowsImply == RowsInv => ServiceListTypeOK /\ RowsCatchUp /\ RowsFreedAtLast
<1> SUFFICES ASSUME RowsInv PROVE RowsCatchUp /\ RowsFreedAtLast
  BY DEF RowsInv
<1>1. RowsCatchUp
  BY DEF RowsInv, RowsAreKnown, RowsToldOf, RowsCatchUp
<1>2. RowsFreedAtLast
  BY DEF RowsInv, BusyIsAwaited, RowsFreedAtLast
<1> QED BY <1>1, <1>2


(***************************************************************************)
(* The notifications tab.                                                  *)
(***************************************************************************)
HookTable == [HookIds -> Rule \cup {None}]
TargetTable == [TargetKinds -> SUBSET AllTargets]
Scoped(rule) == rule.scope = "all" <=> rule.ref = None

\* Two rules that differ in their switch alone.
SameRule(rule, other) ==
    /\ rule.scope = other.scope /\ rule.ref = other.ref
    /\ rule.down = other.down /\ rule.integration = other.integration

HooksTyped ==
    /\ HooksTypeOK /\ hooksAt \in HookTable /\ targetsAt \in TargetTable
    /\ hooksList \in Query(HookTable) /\ targetsList \in Query(TargetTable)

RulesScoped ==
    /\ \A i \in HookIds : hooksAt[i] # None => Scoped(hooksAt[i])
    /\ \A i \in HooksListed : Scoped(Hook(i))
    /\ \A c \in changing : c.op \in {"add", "rule"} => Scoped(c.body)
    /\ \A c \in changing : c.at = "read" => c.row \in Rule /\ Scoped(c.row)

\* An id no webhook has had yet is nowhere.
FreshAreNew ==
    /\ \A i \in freshHooks : hooksAt[i] = None /\ i \notin HooksListed /\ i # wiping
    /\ \A c \in changing : c.op # "add" => c.id \in HookIds \ freshHooks

Edits == {c \in changing : c.op = "rule"}
OneEdit ==
    /\ \A c, other \in Edits : c = other
    /\ updating = "sent" <=> Edits # {}

\* The row an edit was made from is what the server holds, until it is served; so is the
\* list, until it has to be read again.
EditsAreFresh ==
    ~missedHook => \A c \in Edits : c.at \in {"sent", "read"} /\ hooksAt[c.id] # None
                                       => SameRule(c.was, hooksAt[c.id])
ListIsFresh ==
    ~missedHook /\ updating # "reading" /\ ~hooksList.error /\ (\A c \in Edits : c.at # "done")
        => \A i \in HooksListed : hooksAt[i] # None => SameRule(Hook(i), hooksAt[i])

HooksInv == HooksTyped /\ RulesScoped /\ FreshAreNew /\ OneEdit /\ EditsAreFresh /\ ListIsFresh

\* What the tab knows of targets, and the form of a new webhook.
LEMMA TargetIs ==
    ASSUME targetsList \in Query(TargetTable), NEW scope \in Scopes, ~scopeUnavailable(scope)
    PROVE  /\ firstRefFor(scope) \in AllTargets \cup {None}
           /\ scope = "all" <=> firstRefFor(scope) = None
<1>1. \A kind \in TargetKinds : EnabledTargets(kind) \subseteq AllTargets
  BY DEF Query, TargetTable, EnabledTargets
<1>2. CASE scope = "all"
  BY <1>2 DEF firstRefFor, TargetKinds
<1>3. CASE scope # "all"
  <2>1. scope \in TargetKinds /\ EnabledTargets(scope) # {}
    BY <1>3 DEF Scopes, TargetKinds, scopeUnavailable
  <2> DEFINE first == CHOOSE x \in EnabledTargets(scope) : TRUE
  <2>2. first \in EnabledTargets(scope)
    BY <2>1
  <2>3. firstRefFor(scope) = first
    BY <2>1 DEF firstRefFor
  <2> HIDE DEF first
  <2> QED BY <1>1, <1>3, <2>1, <2>2, <2>3, HooksAssumption
<1> QED BY <1>2, <1>3

LEMMA FormIs ==
    ASSUME NEW form \in AddForm, NEW scope \in Scopes, NEW ref \in AllTargets \cup {None}
    PROVE  /\ [form EXCEPT !.scope = scope, !.ref = ref] \in AddForm
           /\ [form EXCEPT !.ref = ref] \in AddForm
           /\ [form EXCEPT !.filled = ~@] \in AddForm
<1> DEFINE next == [form EXCEPT !.scope = scope]
<1>1. next \in AddForm
  BY DEF AddForm
<1>2. [form EXCEPT !.scope = scope, !.ref = ref] = [next EXCEPT !.ref = ref]
  OBVIOUS
<1> HIDE DEF next
<1>3. [next EXCEPT !.ref = ref] \in AddForm
  BY <1>1 DEF AddForm
<1> QED BY <1>2, <1>3 DEF AddForm

LEMMA NewRuleIs ==
    ASSUME adding \in AddForm, canAdd
    PROVE  NewRule \in Rule /\ Scoped(NewRule)
BY DEF AddForm, canAdd, NewRule, Rule, Scoped

\* A patch of a rule that watches something watches something.
LEMMA PatchedIs ==
    ASSUME targetsList \in Query(TargetTable), NEW rule \in Rule, Scoped(rule), NEW patch \in Patches(rule)
    PROVE  Patched(rule, patch) \in Rule /\ Scoped(Patched(rule, patch))
<1>1. DOMAIN rule = {"on", "scope", "ref", "down", "integration"}
  BY DEF Rule
<1>2. CASE \E scope \in Scopes \ {rule.scope} : ~scopeUnavailable(scope) /\ patch = [scope |-> scope]
  <2>1. PICK scope \in Scopes \ {rule.scope} : ~scopeUnavailable(scope) /\ patch = [scope |-> scope]
    BY <1>2
  <2> DEFINE next == [field \in DOMAIN rule |-> IF field \in DOMAIN patch THEN patch[field] ELSE rule[field]]
             ref == firstRefFor(scope)
             last == [on |-> rule.on, scope |-> scope, ref |-> ref, down |-> rule.down,
                      integration |-> rule.integration /\ scope # "service"]
  <2>2. DOMAIN patch = {"scope"} /\ patch.scope = scope
    BY <2>1
  <2>3. next = [on |-> rule.on, scope |-> scope, ref |-> rule.ref, down |-> rule.down, integration |-> rule.integration]
    BY <1>1, <2>2
  <2>4. Patched(rule, patch) = [next EXCEPT !.ref = ref, !.integration = @ /\ scope # "service"]
    BY <2>1, <2>2 DEF Patched
  <2>5. ref \in AllTargets \cup {None} /\ (scope = "all" <=> ref = None)
    BY <2>1, TargetIs
  <2> HIDE DEF next, ref
  <2>6. Patched(rule, patch) = last
    BY <2>3, <2>4
  <2>7. last \in Rule /\ Scoped(last)
    BY <2>5 DEF Rule, Scoped
  <2> QED BY <2>6, <2>7
<1>3. CASE rule.scope \in TargetKinds /\ \E x \in EnabledTargets(rule.scope) : patch = [ref |-> x]
  <2>1. PICK x \in EnabledTargets(rule.scope) : patch = [ref |-> x]
    BY <1>3
  <2>2. x \in AllTargets
    BY <1>3, <2>1 DEF EnabledTargets, Query, TargetTable
  <2>3. DOMAIN patch = {"ref"} /\ patch.ref = x
    BY <2>1
  <2>4. Patched(rule, patch) = [on |-> rule.on, scope |-> rule.scope, ref |-> x, down |-> rule.down,
                                integration |-> rule.integration]
    BY <1>1, <2>3 DEF Patched
  <2> QED BY <1>3, <2>2, <2>4, HooksAssumption DEF Rule, Scoped, TargetKinds
<1>4. CASE patch = [down |-> ~rule.down]
  <2>1. DOMAIN patch = {"down"} /\ patch.down = ~rule.down
    BY <1>4
  <2>2. Patched(rule, patch) = [on |-> rule.on, scope |-> rule.scope, ref |-> rule.ref, down |-> ~rule.down,
                                integration |-> rule.integration]
    BY <1>1, <2>1 DEF Patched
  <2> QED BY <2>2 DEF Rule, Scoped
<1>5. CASE patch = [integration |-> ~rule.integration]
  <2>1. DOMAIN patch = {"integration"} /\ patch.integration = ~rule.integration
    BY <1>5
  <2>2. Patched(rule, patch) = [on |-> rule.on, scope |-> rule.scope, ref |-> rule.ref, down |-> rule.down,
                                integration |-> ~rule.integration]
    BY <1>1, <2>1 DEF Patched
  <2> QED BY <2>2 DEF Rule, Scoped
<1> QED BY <1>2, <1>3, <1>4, <1>5 DEF Patches

LEMMA SwitchedIs ==
    ASSUME NEW rule \in Rule, NEW on \in BOOLEAN
    PROVE  [rule EXCEPT !.on = on] \in Rule /\ SameRule([rule EXCEPT !.on = on], rule)
           /\ (Scoped([rule EXCEPT !.on = on]) <=> Scoped(rule))
BY DEF Rule, SameRule, Scoped


LEMMA HooksBegin == HooksInit => HooksInv
<1> SUFFICES ASSUME HooksInit PROVE HooksInv
  OBVIOUS
<1> DEFINE first == [on |-> TRUE, scope |-> "all", ref |-> None, down |-> TRUE, integration |-> TRUE]
<1>1. first \in Rule /\ Scoped(first)
  BY DEF Rule, Scopes, Scoped
<1>2. PICK i \in HookIds : freshHooks = {i} /\ hooksAt = [j \in HookIds |-> IF j = i THEN None ELSE first]
  BY DEF HooksInit
<1> HIDE DEF first
<1>3. hooksAt \in HookTable /\ \A j \in HookIds : hooksAt[j] # None => hooksAt[j] = first
  BY <1>1, <1>2 DEF HookTable
<1>4. targetsAt \in TargetTable
  BY HooksAssumption DEF HooksInit, TargetTable, TargetKinds
<1>5. hooksList \in Query(HookTable) /\ targetsList \in Query(TargetTable) /\ hooksList.data = None
  BY FirstRead DEF HooksInit
<1>6. HooksTypeOK
  <2>1. adding \in AddForm
    BY DEF HooksInit, blankAdd, AddForm, Scopes
  <2>2. changing = {} /\ updating = None /\ toggling = None /\ testingId = None /\ testSent = FALSE
        /\ wiping = None /\ missedHook = FALSE /\ changeCount \in 0..MaxHookChanges
    BY HooksAssumption DEF HooksInit
  <2>3. outcome \in [HookIds -> {None, "ok", "ko"}]
    BY DEF HooksInit
  <2>4. \A j \in HookIds : hooksAt[j] = None \/ hooksAt[j] \in Rule
    BY <1>3 DEF HookTable
  <2> QED BY <1>2, <2>1, <2>2, <2>3, <2>4 DEF HooksTypeOK
<1>7. HooksTyped
  BY <1>3, <1>4, <1>5, <1>6 DEF HooksTyped
<1>8. HooksListed = {} /\ changing = {} /\ Edits = {} /\ updating = None /\ wiping = None
  BY <1>5 DEF HooksListed, HooksInit, Edits
<1>9. RulesScoped
  BY <1>1, <1>3, <1>8 DEF RulesScoped
<1>10. FreshAreNew /\ OneEdit /\ EditsAreFresh /\ ListIsFresh
  BY <1>2, <1>8, HooksAssumption DEF FreshAreNew, OneEdit, EditsAreFresh, ListIsFresh
<1> QED BY <1>7, <1>9, <1>10 DEF HooksInv

\* What touches no rule: the form, the tests, the questions, and reads that are asked for.
LEMMA OwnStateKeepsHooks ==
    ASSUME HooksInv, UNCHANGED <<theHooks, changing, theHold>>, HooksTypeOK',
           hooksList' \in Query(HookTable), hooksList'.data = hooksList.data,
           hooksList.error /\ hooksList.data # None => hooksList'.error,
           targetsList' \in Query(TargetTable), wiping' \in {wiping, None} \cup HooksListed
    PROVE  HooksInv'
<1>1. HooksTyped'
  BY DEF HooksInv, HooksTyped, theHooks
<1>2. HooksListed' = HooksListed /\ (\A i : Hook(i)' = Hook(i)) /\ Edits' = Edits
  BY DEF HooksListed, Hook, Edits
<1>3. RulesScoped' /\ OneEdit' /\ EditsAreFresh'
  BY <1>2 DEF HooksInv, RulesScoped, OneEdit, EditsAreFresh, theHooks, theHold
<1>5. FreshAreNew'
  <2>1. None \notin freshHooks
    BY HooksAssumption DEF HooksInv, HooksTyped, HooksTypeOK
  <2> QED BY <1>2, <2>1 DEF HooksInv, FreshAreNew, theHooks
<1>4. ListIsFresh'
  <2>1. hooksList.data = None => HooksListed = {}
    BY DEF HooksListed
  <2> QED BY <1>2, <2>1 DEF HooksInv, ListIsFresh, theHooks, theHold
<1> QED BY <1>1, <1>3, <1>4, <1>5 DEF HooksInv

LEMMA QuietKeepsHooks ==
    ASSUME HooksInv, \/ TargetsLand \/ HooksRetry \/ EditAdd \/ TestAnswers
                     \/ \E i \in HookIds : TestHook(i) \/ AskHookDelete(i)
                     \/ AnswerHookDelete /\ UNCHANGED changing /\ UNCHANGED changeCount
    PROVE  HooksInv'
<1>1. /\ HooksTypeOK /\ hooksList \in Query(HookTable) /\ targetsList \in Query(TargetTable)
      /\ targetsAt \in TargetTable /\ adding \in AddForm /\ outcome \in [HookIds -> {None, "ok", "ko"}]
      /\ testingId \in HookIds \cup {None} /\ changeCount \in 0..MaxHookChanges
  BY DEF HooksInv, HooksTyped, HooksTypeOK
<1>2. CASE TargetsLand
  <2>1. UNCHANGED <<theHooks, hooksList, adding, changing, theHold, theTests, wiping, changeCount>>
        /\ targetsList' \in {Landed(targetsAt), Failed(targetsList)}
    BY <1>2 DEF TargetsLand
  <2>2. targetsList' \in Query(TargetTable)
    <3>1. CASE targetsList' = Landed(targetsAt)
      BY <1>1, <3>1, LandedIsQuery
    <3>2. CASE targetsList' = Failed(targetsList)
      BY <1>1, <3>2, QueriesStay
    <3> QED BY <2>1, <3>1, <3>2
  <2>3. HooksTypeOK'
    BY <1>1, <2>1 DEF HooksTypeOK, theHooks, theHold, theTests
  <2> QED BY <1>1, <2>1, <2>2, <2>3, OwnStateKeepsHooks
<1>3. CASE HooksRetry
  <2>1. UNCHANGED <<theHooks, targetsList, adding, changing, theHold, theTests, wiping, changeCount>>
        /\ hooksList' = Asked(hooksList)
    BY <1>3 DEF HooksRetry
  <2>2. hooksList' \in Query(HookTable) /\ hooksList'.data = hooksList.data
        /\ (hooksList.error /\ hooksList.data # None => hooksList'.error)
    BY <1>1, <2>1, QueriesStay
  <2>3. HooksTypeOK'
    BY <1>1, <2>1 DEF HooksTypeOK, theHooks, theHold, theTests
  <2> QED BY <1>1, <2>1, <2>2, <2>3, OwnStateKeepsHooks
<1>4. CASE EditAdd
  <2>1. UNCHANGED <<theHooks, hooksList, targetsList, changing, theHold, theTests, wiping, changeCount>>
    BY <1>4 DEF EditAdd
  <2>2. adding' \in AddForm
    <3>1. CASE adding' = [adding EXCEPT !.filled = ~@]
      BY <1>1, <3>1, FormIs DEF Scopes
    <3>2. CASE \E scope \in Scopes \ {adding.scope} :
                 ~scopeUnavailable(scope) /\ adding' = [adding EXCEPT !.scope = scope, !.ref = firstRefFor(scope)]
      <4>1. PICK scope \in Scopes : /\ ~scopeUnavailable(scope)
                                    /\ adding' = [adding EXCEPT !.scope = scope, !.ref = firstRefFor(scope)]
        BY <3>2
      <4> DEFINE ref == firstRefFor(scope)
      <4>2. ref \in AllTargets \cup {None} /\ adding' = [adding EXCEPT !.scope = scope, !.ref = ref]
        BY <1>1, <4>1, TargetIs
      <4> HIDE DEF ref
      <4> QED BY <1>1, <4>2, FormIs
    <3>3. CASE adding.scope \in TargetKinds /\ \E x \in EnabledTargets(adding.scope) : adding' = [adding EXCEPT !.ref = x]
      <4>1. PICK x \in EnabledTargets(adding.scope) : adding' = [adding EXCEPT !.ref = x]
        BY <3>3
      <4>2. x \in AllTargets /\ "all" \in Scopes
        BY <1>1, <3>3, <4>1 DEF EnabledTargets, Query, TargetTable, Scopes
      <4> QED BY <1>1, <4>1, <4>2, FormIs
    <3> QED BY <1>4, <3>1, <3>2, <3>3 DEF EditAdd
  <2>3. HooksTypeOK'
    BY <1>1, <2>1, <2>2 DEF HooksTypeOK, theHooks, theHold, theTests
  <2> QED BY <1>1, <2>1, <2>3, OwnStateKeepsHooks
<1>5. CASE TestAnswers
  <2>1. UNCHANGED <<theHooks, hooksList, targetsList, adding, changing, theHold, wiping, changeCount>>
    BY <1>5 DEF TestAnswers
  <2>2. testSent' \in BOOLEAN /\ testingId' \in HookIds \cup {None} /\ outcome' \in [HookIds -> {None, "ok", "ko"}]
    BY <1>1, <1>5 DEF TestAnswers
  <2>3. HooksTypeOK'
    BY <1>1, <2>1, <2>2 DEF HooksTypeOK, theHooks, theHold
  <2> QED BY <1>1, <2>1, <2>3, OwnStateKeepsHooks
<1>6. ASSUME NEW i \in HookIds, TestHook(i) \/ AskHookDelete(i)
      PROVE  HooksInv'
  <2>1. UNCHANGED <<theHooks, hooksList, targetsList, adding, changing, theHold, outcome>>
        /\ testSent' \in BOOLEAN /\ {testingId', wiping'} \subseteq HookIds \cup {None}
        /\ wiping' \in {wiping} \cup HooksListed
    BY <1>1, <1>6 DEF TestHook, AskHookDelete, theTests, HooksTypeOK, HooksShown
  <2>2. changeCount' \in 0..MaxHookChanges
    BY <1>1, <1>6, HooksAssumption DEF TestHook, AskHookDelete
  <2>3. HooksTypeOK'
    BY <1>1, <2>1, <2>2 DEF HooksTypeOK, theHooks, theHold
  <2> QED BY <1>1, <2>1, <2>3, OwnStateKeepsHooks
<1>7. CASE AnswerHookDelete /\ UNCHANGED changing /\ UNCHANGED changeCount
  <2>1. UNCHANGED <<theHooks, hooksList, targetsList, adding, changing, theHold, theTests, changeCount>> /\ wiping' = None
    BY <1>7 DEF AnswerHookDelete
  <2>2. HooksTypeOK'
    BY <1>1, <2>1 DEF HooksTypeOK, theHooks, theHold, theTests
  <2> QED BY <1>1, <2>1, <2>2, OwnStateKeepsHooks
<1> QED BY <1>2, <1>3, <1>4, <1>5, <1>6, <1>7

LEMMA LandingKeepsHooks ==
    ASSUME HooksInv, HooksLand PROVE HooksInv'
<1>1. /\ HooksTypeOK /\ hooksList \in Query(HookTable) /\ hooksAt \in HookTable
      /\ {updating, toggling} \subseteq {None, "sent", "reading"}
  BY DEF HooksInv, HooksTyped, HooksTypeOK
<1>2. /\ hooksList' \in {Landed(hooksAt), Failed(hooksList)}
      /\ updating' = IF updating = "reading" THEN None ELSE updating
      /\ toggling' = IF toggling = "reading" THEN None ELSE toggling
      /\ UNCHANGED <<theHooks, targetsList, adding, changing, theTests, wiping, changeCount>>
  BY DEF HooksLand
<1>3. /\ hooksList' \in Query(HookTable)
      /\ \/ hooksList'.data = hooksAt
         \/ hooksList'.data = hooksList.data /\ hooksList'.error
  <2>1. CASE hooksList' = Landed(hooksAt)
    BY <1>1, <2>1, LandedIsQuery
  <2>2. CASE hooksList' = Failed(hooksList)
    <3>1. hooksList'.data = hooksList.data /\ hooksList'.error
      BY <1>1, <2>2 DEF Failed, Query
    <3> QED BY <1>1, <2>2, <3>1, QueriesStay
  <2> QED BY <1>2, <2>1, <2>2
<1>4. updating' # "reading" /\ {updating', toggling'} \subseteq {None, "sent", "reading"}
      /\ (updating' = "sent" <=> updating = "sent")
  BY <1>1, <1>2, HooksAssumption
<1>5. HooksTypeOK'
  BY <1>1, <1>2, <1>4 DEF HooksTypeOK, theHooks, theTests
<1>6. HooksTyped'
  BY <1>2, <1>3, <1>5 DEF HooksInv, HooksTyped, theHooks
<1>7. \A i \in HooksListed' : \/ hooksAt[i] # None /\ Hook(i)' = hooksAt[i]
                              \/ i \in HooksListed /\ Hook(i)' = Hook(i)
  BY <1>3 DEF HooksListed, Hook
<1>8. Edits' = Edits
  BY <1>2 DEF Edits
<1>9. RulesScoped'
  BY <1>2, <1>7 DEF HooksInv, RulesScoped, theHooks, HooksListed
<1>10. FreshAreNew'
  BY <1>2, <1>7 DEF HooksInv, FreshAreNew, theHooks
<1>11. OneEdit' /\ EditsAreFresh'
  BY <1>2, <1>4, <1>8 DEF HooksInv, OneEdit, EditsAreFresh, theHooks
<1>12. ListIsFresh'
  <2>1. CASE hooksList'.data = hooksAt
    BY <1>2, <2>1 DEF ListIsFresh, HooksListed, Hook, SameRule, theHooks
  <2>2. CASE hooksList'.error
    BY <2>2 DEF ListIsFresh
  <2> QED BY <1>3, <2>1, <2>2
<1> QED BY <1>6, <1>9, <1>10, <1>11, <1>12 DEF HooksInv


\* One change more.  The rule an edit sends is made from the row that is listed.
LEMMA ChangeKeepsHooks ==
    ASSUME HooksInv, NEW op \in {"add", "rule", "toggle", "delete"}, NEW i \in HookIds \cup {None},
           NEW body \in Rule, NEW was \in Rule, Change(op, i, body, was),
           op # "add" => i \in HookIds \ freshHooks, op \in {"add", "rule"} => Scoped(body),
           IF op = "rule" THEN /\ updating = None /\ updating' = "sent"
                               /\ i \in HooksShown /\ was = Hook(i)
                          ELSE UNCHANGED updating,
           toggling' \in {toggling, "sent"}, wiping' \in {wiping, None},
           UNCHANGED <<theHooks, hooksList, targetsList, adding, theTests>>
    PROVE  HooksInv'
<1> DEFINE new == [op |-> op, id |-> i, body |-> body, was |-> was, row |-> None, at |-> "sent"]
<1>1. new \in HookChanges /\ new.op = op /\ new.id = i /\ new.body = body /\ new.was = was /\ new.at = "sent"
  BY DEF HookChanges
<1>2. changing' = changing \cup {new} /\ changeCount' \in 0..MaxHookChanges
  BY HooksAssumption DEF Change, HooksInv, HooksTyped, HooksTypeOK
<1> HIDE DEF new
<1>3. HooksTypeOK'
  BY <1>1, <1>2 DEF HooksInv, HooksTyped, HooksTypeOK, theHooks, theTests
<1>4. HooksTyped'
  BY <1>3 DEF HooksInv, HooksTyped, theHooks
<1>5. HooksListed' = HooksListed /\ \A j : Hook(j)' = Hook(j)
  BY DEF HooksListed, Hook
<1>6. RulesScoped'
  BY <1>1, <1>2, <1>5 DEF HooksInv, RulesScoped, theHooks
<1>7. FreshAreNew'
  <2>1. None \notin freshHooks
    BY HooksAssumption DEF HooksInv, HooksTyped, HooksTypeOK
  <2> QED BY <1>1, <1>2, <1>5, <2>1 DEF HooksInv, FreshAreNew, theHooks
<1>8. CASE op = "rule"
  <2>1. Edits = {} /\ Edits' = {new}
    BY <1>1, <1>2, <1>8, HooksAssumption DEF HooksInv, OneEdit, Edits
  <2>2. OneEdit'
    BY <1>8, <2>1 DEF OneEdit
  <2>3. updating # "reading" /\ ~hooksList.error /\ i \in HooksListed
    BY <1>8, HooksAssumption DEF HooksShown
  <2>4. EditsAreFresh'
    BY <1>1, <1>8, <2>1, <2>3 DEF HooksInv, ListIsFresh, EditsAreFresh, theHooks
  <2>5. ListIsFresh'
    BY <1>5, <2>1, <2>3 DEF HooksInv, ListIsFresh, theHooks
  <2> QED BY <1>4, <1>6, <1>7, <2>2, <2>4, <2>5 DEF HooksInv
<1>9. CASE op # "rule"
  <2>1. Edits' = Edits
    BY <1>1, <1>2, <1>9 DEF Edits
  <2>2. OneEdit' /\ EditsAreFresh' /\ ListIsFresh'
    BY <1>5, <1>9, <2>1 DEF HooksInv, OneEdit, EditsAreFresh, ListIsFresh, theHooks
  <2> QED BY <1>4, <1>6, <1>7, <2>2 DEF HooksInv
<1> QED BY <1>8, <1>9

LEMMA SendingKeepsHooks ==
    ASSUME HooksInv, \/ SubmitNew
                     \/ \E i \in HookIds : UpdateRule(i) \/ ToggleHook(i)
                     \/ AnswerHookDelete
    PROVE  HooksInv'
<1>1. /\ hooksList \in Query(HookTable) /\ targetsList \in Query(TargetTable) /\ adding \in AddForm
      /\ wiping \in HookIds \cup {None}
  BY DEF HooksInv, HooksTyped, HooksTypeOK
<1>2. \A i \in HooksShown : /\ i \in HookIds \ freshHooks /\ i \in HooksListed
                            /\ Hook(i) \in Rule /\ Scoped(Hook(i))
  BY <1>1 DEF HooksShown, HooksListed, HooksInv, RulesScoped, FreshAreNew, Hook, Query, HookTable
<1>3. CASE SubmitNew
  <2>1. NewRule \in Rule /\ Scoped(NewRule)
    BY <1>1, <1>3, NewRuleIs DEF SubmitNew
  <2> HIDE DEF NewRule
  <2> QED BY <1>3, <2>1, ChangeKeepsHooks DEF SubmitNew, theHold
<1>4. ASSUME NEW i \in HookIds, UpdateRule(i)
      PROVE  HooksInv'
  <2>1. PICK patch \in Patches(Hook(i)) : Change("rule", i, Patched(Hook(i), patch), Hook(i))
    BY <1>4 DEF UpdateRule
  <2>2. /\ i \in HooksShown /\ updating = None /\ updating' = "sent"
        /\ UNCHANGED <<theHooks, hooksList, targetsList, adding, toggling, theTests, wiping>>
    BY <1>4 DEF UpdateRule
  <2> DEFINE was == Hook(i)
             body == Patched(was, patch)
  <2>3. was \in Rule /\ Scoped(was) /\ i \in HookIds \ freshHooks
    BY <1>2, <2>2
  <2>4. body \in Rule /\ Scoped(body)
    <3> HIDE DEF was
    <3>1. patch \in Patches(was)
      BY <2>1 DEF was
    <3> QED BY <1>1, <2>3, <3>1, PatchedIs
  <2>5. Change("rule", i, body, was)
    BY <2>1
  <2>6. was = Hook(i)
    OBVIOUS
  <2> HIDE DEF was, body
  <2> QED BY <2>2, <2>3, <2>4, <2>5, <2>6, ChangeKeepsHooks
<1>5. ASSUME NEW i \in HookIds, ToggleHook(i)
      PROVE  HooksInv'
  <2> DEFINE was == Hook(i)
             body == [was EXCEPT !.on = ~@]
  <2>1. /\ i \in HooksShown /\ toggling' = "sent" /\ Change("toggle", i, body, was)
        /\ UNCHANGED <<theHooks, hooksList, targetsList, adding, updating, theTests, wiping>>
    BY <1>5 DEF ToggleHook
  <2>2. was \in Rule /\ i \in HookIds \ freshHooks
    BY <1>2, <2>1
  <2> HIDE DEF was
  <2>3. body \in Rule
    BY <2>2 DEF Rule
  <2> HIDE DEF body
  <2> QED BY <2>1, <2>2, <2>3, ChangeKeepsHooks
<1>6. CASE AnswerHookDelete
  <2>1. CASE UNCHANGED <<changing, changeCount>>
    BY <1>6, <2>1, QuietKeepsHooks
  <2>2. CASE ~UNCHANGED <<changing, changeCount>>
    <3> DEFINE rule == [on |-> FALSE, scope |-> "all", ref |-> None, down |-> FALSE, integration |-> FALSE]
    <3>1. /\ wiping # None /\ wiping' = None /\ Change("delete", wiping, rule, rule)
          /\ UNCHANGED <<theHooks, hooksList, targetsList, adding, theHold, theTests>>
      BY <1>6, <2>2 DEF AnswerHookDelete
    <3>2. rule \in Rule
      BY DEF Rule, Scopes
    <3>3. wiping \in HookIds \ freshHooks
      BY <1>1, <3>1 DEF HooksInv, FreshAreNew
    <3> HIDE DEF rule
    <3> QED BY <3>1, <3>2, <3>3, ChangeKeepsHooks DEF theHold
  <2> QED BY <2>1, <2>2
<1> QED BY <1>3, <1>4, <1>5, <1>6

\* What the server makes of a change.
LEMMA ServedIs ==
    ASSUME HooksInv, NEW c \in changing, NEW next \in HooksAfter(c), c.op \in Updates => c.at = "read"
    PROVE  /\ next \in HookTable
           /\ \A i \in HookIds : next[i] # None => Scoped(next[i])
           /\ \A i \in HookIds : hooksAt[i] = None => next[i] = None \/ i \in freshHooks
           /\ \A i \in HookIds : hooksAt[i] # None /\ next[i] # None /\ ~Crossed(c)
                                 /\ ~(c.op = "rule" /\ c.id = i) => SameRule(hooksAt[i], next[i])
<1>1. /\ hooksAt \in HookTable /\ c \in HookChanges /\ freshHooks \subseteq HookIds
      /\ \A i \in freshHooks : hooksAt[i] = None
      /\ \A i \in HookIds : hooksAt[i] # None => hooksAt[i] \in Rule /\ Scoped(hooksAt[i])
  BY DEF HooksInv, HooksTyped, HooksTypeOK, FreshAreNew, RulesScoped, HookTable
<1>2. \A i \in HookIds : SameRule(hooksAt[i], hooksAt[i])
  BY DEF SameRule
<1>3. c.body \in Rule /\ c.op \in {"add", "rule", "toggle", "delete"}
  BY <1>1 DEF HookChanges
<1>4. CASE c.op = "add"
  <2>1. PICK i \in freshHooks : next = [hooksAt EXCEPT ![i] = c.body]
    BY <1>4 DEF HooksAfter
  <2>2. Scoped(c.body)
    BY <1>4 DEF HooksInv, RulesScoped
  <2>3. next \in HookTable
    BY <1>1, <1>3, <2>1 DEF HookTable
  <2>4. \A j \in HookIds : next[j] = IF j = i THEN c.body ELSE hooksAt[j]
    BY <1>1, <2>1 DEF HookTable
  <2> QED BY <1>1, <1>2, <1>4, <2>1, <2>2, <2>3, <2>4
<1>6. CASE c.op # "add" /\ hooksAt[c.id] = None
  <2>1. next = hooksAt
    BY <1>6 DEF HooksAfter
  <2> QED BY <1>1, <1>2, <2>1
<1>5. CASE c.op # "add" /\ hooksAt[c.id] # None
  <2>1. hooksAt[c.id] # None /\ c.id \in HookIds
    BY <1>5 DEF HooksInv, FreshAreNew
  <2>2. hooksAt[c.id] \in Rule /\ Scoped(hooksAt[c.id])
    BY <1>1, <2>1
  <2>3. PICK to : next = [hooksAt EXCEPT ![c.id] = to]
                  /\ (to = None \/ (to \in Rule /\ Scoped(to)
                                    /\ (c.op = "rule" \/ Crossed(c) \/ SameRule(hooksAt[c.id], to))))
    <3>1. CASE c.op = "delete"
      BY <1>5, <2>1, <3>1 DEF HooksAfter
    <3>2. CASE c.op = "rule"
      <4> DEFINE to == [c.body EXCEPT !.on = c.row.on]
      <4>1. c.row.on \in BOOLEAN /\ Scoped(c.body)
        BY <3>2 DEF Rule, HooksInv, RulesScoped, Updates
      <4>2. to \in Rule /\ Scoped(to)
        BY <1>3, <4>1, SwitchedIs
      <4>3. next = [hooksAt EXCEPT ![c.id] = to]
        BY <1>5, <2>1, <3>2 DEF HooksAfter, Merged
      <4> HIDE DEF to
      <4> QED BY <3>2, <4>2, <4>3
    <3>3. CASE c.op = "toggle"
      <4> DEFINE to == [c.row EXCEPT !.on = c.body.on]
      <4>1. c.body.on \in BOOLEAN /\ c.row \in Rule /\ Scoped(c.row)
        BY <1>3, <3>3 DEF Rule, HooksInv, RulesScoped, Updates
      <4>2. to \in Rule /\ Scoped(to) /\ SameRule(to, c.row)
        BY <4>1, SwitchedIs
      <4>3. next = [hooksAt EXCEPT ![c.id] = to]
        BY <1>5, <2>1, <3>3 DEF HooksAfter, Merged
      <4>4. Crossed(c) \/ hooksAt[c.id] = c.row
        BY <2>1, <3>3 DEF Crossed, Updates
      <4> HIDE DEF to
      <4> QED BY <4>2, <4>3, <4>4 DEF SameRule
    <3> QED BY <1>3, <1>5, <3>1, <3>2, <3>3
  <2>4. next \in HookTable
    BY <1>1, <2>1, <2>3 DEF HookTable
  <2>5. \A j \in HookIds : next[j] = IF j = c.id THEN to ELSE hooksAt[j]
    BY <1>1, <2>1, <2>3 DEF HookTable
  <2> QED BY <1>1, <1>2, <2>1, <2>3, <2>4, <2>5
<1> QED BY <1>4, <1>5, <1>6


\* The server reads a row it will write.
LEMMA ReadingKeepsHooks ==
    ASSUME HooksInv, NEW c \in changing, ReadHook(c) PROVE HooksInv'
<1> DEFINE row == hooksAt[c.id]
           told == [c EXCEPT !.row = row, !.at = "read"]
<1>1. /\ c \in HookChanges /\ c.at = "sent" /\ c.op \in Updates /\ c.id \in HookIds
      /\ row \in Rule /\ Scoped(row) /\ changing' = (changing \ {c}) \cup {told}
      /\ UNCHANGED <<theHooks, hooksList, targetsList, adding, theHold, theTests, wiping, changeCount>>
  BY DEF ReadHook, HooksInv, HooksTyped, HooksTypeOK, FreshAreNew, RulesScoped, Updates
<1> HIDE DEF row
<1>2. told \in HookChanges /\ told.op = c.op /\ told.id = c.id /\ told.body = c.body /\ told.was = c.was
      /\ told.row = row /\ told.at = "read"
  BY <1>1 DEF HookChanges
<1> HIDE DEF told
<1>3. HooksTypeOK'
  BY <1>1, <1>2 DEF HooksInv, HooksTyped, HooksTypeOK, theHooks, theHold, theTests
<1>4. HooksTyped'
  BY <1>1, <1>3 DEF HooksInv, HooksTyped, theHooks
<1>5. HooksListed' = HooksListed /\ \A i : Hook(i)' = Hook(i)
  BY <1>1 DEF HooksListed, Hook
<1>6. RulesScoped' /\ FreshAreNew'
  BY <1>1, <1>2, <1>5 DEF HooksInv, RulesScoped, FreshAreNew, theHooks
<1>7. Edits' = {IF e = c THEN told ELSE e : e \in Edits}
  BY <1>1, <1>2 DEF Edits
<1>8. OneEdit'
  BY <1>1, <1>7 DEF HooksInv, OneEdit, theHold
<1>9. EditsAreFresh' /\ ListIsFresh'
  BY <1>1, <1>2, <1>5, <1>7 DEF HooksInv, EditsAreFresh, ListIsFresh, theHooks, theHold
<1> QED BY <1>4, <1>6, <1>8, <1>9 DEF HooksInv

LEMMA ServingKeepsHooks ==
    ASSUME HooksInv, NEW c \in changing, ServeHook(c) PROVE HooksInv'
<1> DEFINE answer(at) == changing' = (changing \ {c}) \cup {[c EXCEPT !.at = at]}
<1>1. c \in HookChanges /\ c.at \in {"sent", "read"}
      /\ UNCHANGED <<targetsAt, hooksList, targetsList, adding, theHold, theTests, wiping, changeCount>>
  BY DEF ServeHook, HooksInv, HooksTyped, HooksTypeOK
<1>2. PICK at \in {"done", "failed"} :
        /\ answer(at)
        /\ \/ UNCHANGED <<hooksAt, freshHooks, missedHook>> /\ at = "failed"
           \/ /\ hooksAt' \in HooksAfter(c) /\ freshHooks' = {i \in freshHooks : hooksAt'[i] = None}
              /\ c.op \in Updates => c.at = "read"
              /\ \/ at = "done" /\ missedHook' = (missedHook \/ Crossed(c))
                 \/ at = "failed" /\ missedHook' = TRUE
  <2>1. \/ answer("failed") /\ UNCHANGED <<hooksAt, freshHooks, missedHook>>
        \/ /\ hooksAt' \in HooksAfter(c) /\ freshHooks' = {i \in freshHooks : hooksAt'[i] = None}
           /\ c.op \in Updates => c.at = "read"
           /\ \/ answer("done") /\ missedHook' = (missedHook \/ Crossed(c))
              \/ answer("failed") /\ missedHook' = TRUE
    BY DEF ServeHook
  <2> HIDE DEF answer
  <2> QED BY <2>1
<1> DEFINE told == [c EXCEPT !.at = at]
<1>3. told \in HookChanges /\ told.op = c.op /\ told.id = c.id /\ told.body = c.body /\ told.row = c.row /\ told.at = at
  BY <1>1 DEF HookChanges
<1>4. changing' = (changing \ {c}) \cup {told}
  BY <1>2
<1> HIDE DEF told, answer
<1>5. /\ hooksAt' \in HookTable /\ freshHooks' \subseteq freshHooks /\ missedHook' \in BOOLEAN
      /\ (~missedHook' => ~missedHook)
      /\ \A i \in freshHooks' : hooksAt'[i] = None
      /\ \A i \in HookIds : hooksAt'[i] # None => Scoped(hooksAt'[i])
      /\ \A i \in HookIds : hooksAt[i] = None => hooksAt'[i] = None \/ i \in freshHooks
      /\ \A i \in HookIds : hooksAt[i] # None /\ hooksAt'[i] # None /\ ~missedHook'
                            /\ ~(c.op = "rule" /\ c.id = i) => SameRule(hooksAt[i], hooksAt'[i])
  <2>1. CASE UNCHANGED <<hooksAt, freshHooks, missedHook>>
    BY <2>1 DEF HooksInv, HooksTyped, HooksTypeOK, FreshAreNew, RulesScoped, SameRule
  <2>2. CASE hooksAt' \in HooksAfter(c) /\ freshHooks' = {i \in freshHooks : hooksAt'[i] = None}
             /\ (c.op \in Updates => c.at = "read") /\ missedHook' \in BOOLEAN
             /\ (~missedHook' => ~missedHook /\ ~Crossed(c))
    <3>1. missedHook \in BOOLEAN
      BY DEF HooksInv, HooksTyped, HooksTypeOK
    <3>2. freshHooks' \subseteq freshHooks /\ (\A i \in freshHooks' : hooksAt'[i] = None)
      BY <2>2
    <3>4. /\ hooksAt' \in HookTable
          /\ \A i \in HookIds : hooksAt'[i] # None => Scoped(hooksAt'[i])
          /\ \A i \in HookIds : hooksAt[i] = None => hooksAt'[i] = None \/ i \in freshHooks
          /\ \A i \in HookIds : hooksAt[i] # None /\ hooksAt'[i] # None /\ ~Crossed(c)
                                /\ ~(c.op = "rule" /\ c.id = i) => SameRule(hooksAt[i], hooksAt'[i])
      BY <2>2, ServedIs
    <3> QED BY <2>2, <3>2, <3>4
  <2>3. missedHook \in BOOLEAN /\ Crossed(c) \in BOOLEAN
    BY DEF HooksInv, HooksTyped, HooksTypeOK, Crossed
  <2>4. ~UNCHANGED <<hooksAt, freshHooks, missedHook>> => missedHook' \in BOOLEAN /\ (~missedHook' => ~missedHook /\ ~Crossed(c))
    BY <1>2, <2>3
  <2> QED BY <1>2, <2>1, <2>2, <2>4
<1>6. HooksTypeOK'
  BY <1>1, <1>3, <1>4, <1>5 DEF HooksInv, HooksTyped, HooksTypeOK, HookTable, theHold, theTests
<1>7. HooksTyped'
  BY <1>1, <1>5, <1>6 DEF HooksInv, HooksTyped
<1>8. HooksListed' = HooksListed /\ \A i : Hook(i)' = Hook(i)
  BY <1>1 DEF HooksListed, Hook
<1>9. RulesScoped'
  BY <1>3, <1>4, <1>5, <1>8 DEF HooksInv, RulesScoped
<1>10. FreshAreNew'
  BY <1>1, <1>3, <1>4, <1>5, <1>8 DEF HooksInv, FreshAreNew
<1>11. HooksListed \subseteq HookIds \ freshHooks /\ \A e \in Edits : e.id \in HookIds \ freshHooks
  BY DEF HooksInv, FreshAreNew, HooksListed, Edits
<1>12. CASE c.op = "rule"
  <2>1. Edits = {c} /\ Edits' = {told}
    BY <1>3, <1>4, <1>12 DEF HooksInv, OneEdit, Edits
  <2>2. OneEdit' /\ EditsAreFresh'
    BY <1>1, <1>3, <2>1 DEF HooksInv, OneEdit, EditsAreFresh, theHold
  <2>3. ListIsFresh'
    <3>1. CASE at = "done" \/ missedHook'
      BY <1>3, <2>1, <3>1 DEF ListIsFresh
    <3>2. CASE at # "done" /\ ~missedHook'
      <4>1. UNCHANGED <<hooksAt, missedHook>>
        BY <1>2, <3>2
      <4> QED BY <1>1, <1>8, <2>1, <4>1 DEF HooksInv, ListIsFresh, theHold
    <3> QED BY <3>1, <3>2
  <2> QED BY <1>7, <1>9, <1>10, <2>2, <2>3 DEF HooksInv
<1>13. CASE c.op # "rule"
  <2>1. Edits' = Edits
    BY <1>3, <1>4, <1>13 DEF Edits
  <2>2. OneEdit'
    BY <1>1, <2>1 DEF HooksInv, OneEdit, theHold
  <2>3. \A i \in HookIds \ freshHooks : hooksAt'[i] # None =>
           hooksAt[i] # None /\ (~missedHook' => SameRule(hooksAt[i], hooksAt'[i]))
    BY <1>5, <1>13
  <2>4. EditsAreFresh'
    BY <1>5, <1>11, <2>1, <2>3 DEF HooksInv, EditsAreFresh, SameRule
  <2>5. ListIsFresh'
    BY <1>1, <1>5, <1>8, <1>11, <2>1, <2>3 DEF HooksInv, ListIsFresh, SameRule, theHold
  <2> QED BY <1>7, <1>9, <1>10, <2>2, <2>4, <2>5 DEF HooksInv
<1> QED BY <1>12, <1>13

LEMMA AnswersKeepHooks ==
    ASSUME HooksInv, NEW c \in changing, HookAnswer(c) PROVE HooksInv'
<1>1. /\ c \in HookChanges /\ c.at \in {"done", "failed"} /\ changing' = changing \ {c}
      /\ hooksList' \in {hooksList, Asked(hooksList)} /\ (c.at # "done" => hooksList' = hooksList)
      /\ adding' \in {adding, blankAdd}
      /\ updating' = HeldBy("rule", updating, c) /\ toggling' = HeldBy("toggle", toggling, c)
      /\ UNCHANGED <<theHooks, targetsList, theTests, wiping, changeCount>>
  BY DEF HookAnswer, Reread, HooksInv, HooksTyped, HooksTypeOK
<1>2. /\ hooksList \in Query(HookTable) /\ {updating, toggling} \subseteq {None, "sent", "reading"}
      /\ adding \in AddForm /\ blankAdd \in AddForm
  BY DEF HooksInv, HooksTyped, HooksTypeOK, AddForm, blankAdd, Scopes
<1>3. /\ hooksList' \in Query(HookTable) /\ hooksList'.data = hooksList.data
      /\ (hooksList.error /\ hooksList.data # None => hooksList'.error)
  BY <1>1, <1>2, QueriesStay
<1>4. {updating', toggling'} \subseteq {None, "sent", "reading"}
  BY <1>1, <1>2 DEF HeldBy, AfterAnswer
<1>5. HooksTypeOK'
  BY <1>1, <1>2, <1>4 DEF HooksInv, HooksTyped, HooksTypeOK, theHooks, theTests
<1>6. HooksTyped'
  BY <1>1, <1>3, <1>5 DEF HooksInv, HooksTyped, theHooks
<1>7. HooksListed' = HooksListed /\ \A i : Hook(i)' = Hook(i)
  BY <1>3 DEF HooksListed, Hook
<1>8. RulesScoped' /\ FreshAreNew'
  BY <1>1, <1>7 DEF HooksInv, RulesScoped, FreshAreNew, theHooks
<1>9. HooksListed # {} => hooksList.data # None
  BY DEF HooksListed
<1>10. CASE c.op = "rule"
  <2>1. Edits = {c} /\ Edits' = {} /\ updating = "sent"
    BY <1>1, <1>10 DEF HooksInv, OneEdit, Edits
  <2>2. updating' = IF c.at = "done" THEN "reading" ELSE None
    BY <1>1, <1>10 DEF HeldBy, AfterAnswer
  <2>3. OneEdit' /\ EditsAreFresh'
    BY <2>1, <2>2, HooksAssumption DEF OneEdit, EditsAreFresh
  <2>4. ListIsFresh'
    <3>1. CASE c.at = "done"
      BY <2>2, <3>1 DEF ListIsFresh
    <3>2. CASE c.at # "done"
      BY <1>1, <1>7, <2>1, <3>2 DEF HooksInv, ListIsFresh, theHooks
    <3> QED BY <3>1, <3>2
  <2> QED BY <1>6, <1>8, <2>3, <2>4 DEF HooksInv
<1>11. CASE c.op # "rule"
  <2>1. Edits' = Edits /\ updating' = updating
    BY <1>1, <1>11 DEF Edits, HeldBy
  <2>2. OneEdit' /\ EditsAreFresh'
    BY <1>1, <2>1 DEF HooksInv, OneEdit, EditsAreFresh, theHooks
  <2>3. ListIsFresh'
    BY <1>1, <1>3, <1>7, <1>9, <2>1 DEF HooksInv, ListIsFresh, theHooks
  <2> QED BY <1>6, <1>8, <2>2, <2>3 DEF HooksInv
<1> QED BY <1>10, <1>11

LEMMA HooksStay == HooksInv /\ [HooksNext]_hookVars => HooksInv'
<1> SUFFICES ASSUME HooksInv, [HooksNext]_hookVars PROVE HooksInv'
  OBVIOUS
<1>1. CASE UNCHANGED hookVars
  <2>1. HooksTypeOK'
    BY <1>1 DEF hookVars, theHooks, theHold, theTests, HooksInv, HooksTyped, HooksTypeOK
  <2>2. UNCHANGED <<theHooks, changing, theHold, hooksList, targetsList, wiping>>
    BY <1>1 DEF hookVars
  <2>3. hooksList' \in Query(HookTable) /\ targetsList' \in Query(TargetTable)
    BY <2>2 DEF HooksInv, HooksTyped
  <2> QED BY <2>1, <2>2, <2>3, OwnStateKeepsHooks
<1>2. CASE HooksLand
  BY <1>2, LandingKeepsHooks
<1>3. CASE \/ TargetsLand \/ HooksRetry \/ EditAdd \/ TestAnswers
           \/ \E i \in HookIds : TestHook(i) \/ AskHookDelete(i)
  BY <1>3, QuietKeepsHooks
<1>4. CASE \/ SubmitNew \/ AnswerHookDelete
           \/ \E i \in HookIds : UpdateRule(i) \/ ToggleHook(i)
  BY <1>4, SendingKeepsHooks
<1>5. CASE \E c \in changing : ReadHook(c) \/ ServeHook(c) \/ HookAnswer(c)
  BY <1>5, ReadingKeepsHooks, ServingKeepsHooks, AnswersKeepHooks
<1> QED BY <1>1, <1>2, <1>3, <1>4, <1>5 DEF HooksNext

LEMMA HooksImply == HooksInv => HooksTypeOK /\ ScopedOnSomething
BY DEF HooksInv, HooksTyped, RulesScoped, Scoped, ScopedOnSomething

\* An edit that is served meets the rule it was made from.
EditKeepsTheRest ==
    \A c \in changing : c.op = "rule" /\ c.at = "read" /\ hooksAt' # hooksAt /\ ~missedHook
          /\ c \notin changing' /\ hooksAt[c.id] # None =>
          [c.was EXCEPT !.on = hooksAt[c.id].on] = hooksAt[c.id]

LEMMA HooksKeepTheRest == HooksInv => EditKeepsTheRest
<1> SUFFICES ASSUME HooksInv, NEW c \in Edits, c.at = "read", ~missedHook, hooksAt[c.id] # None
             PROVE  [c.was EXCEPT !.on = hooksAt[c.id].on] = hooksAt[c.id]
  BY DEF EditKeepsTheRest, Edits
<1>1. c \in HookChanges /\ c.id \in HookIds
  BY DEF HooksInv, HooksTyped, HooksTypeOK, FreshAreNew, Edits
<1>2. c.was \in Rule /\ hooksAt[c.id] \in Rule
  BY <1>1 DEF HookChanges, HooksInv, HooksTyped, HooksTypeOK
<1>3. SameRule(c.was, hooksAt[c.id])
  BY DEF HooksInv, EditsAreFresh
<1> DEFINE at == hooksAt[c.id]
           was == c.was
<1> HIDE DEF at, was
<1>4. ASSUME was \in Rule, at \in Rule, SameRule(was, at)
      PROVE  [was EXCEPT !.on = at.on] = at
  BY <1>4 DEF Rule, SameRule
<1> QED BY <1>2, <1>3, <1>4 DEF at, was


(***************************************************************************)
(* The gate.                                                               *)
(***************************************************************************)
Guards == [password : BOOLEAN, session : BOOLEAN, setup : BOOLEAN]
Statuses == [auth_required : BOOLEAN, authenticated : BOOLEAN, setup_required : BOOLEAN]
LoginForms == [password : BOOLEAN, loading : BOOLEAN, cooldown : 0..MaxCooldown,
               error : {None, "invalid", "rate_limited", "other"}]
PassForms == [current : {"blank", "right", "wrong"}, next : {"blank", "weak", "sound"}, same : BOOLEAN]

AtLogin == Usable(gateQ) /\ gateQ.data.auth_required /\ ~gateQ.data.authenticated

GateTyped ==
    /\ gateQ \in Query(Statuses) /\ wizardOn \in BOOLEAN
    /\ gateHeard # None => gateHeard \in Statuses /\ gateQ.ask = "asked"

\* The sign-in page is left as it is found by who comes back to it: blank.
FormsTyped ==
    /\ loginForm \in LoginForms /\ passForm \in PassForms
    /\ ~AtLogin => loginForm = BlankLogin

AccessInv ==
    /\ guardAt \in Guards /\ GateTyped /\ FormsTyped /\ tries \in 0..MaxTries
    /\ signing \in {None, "sent", "ok", "invalid", "rate_limited", "other"}

LEMMA ScreenIs ==
    ASSUME NEW query \in Query(Statuses), NEW marked \in BOOLEAN
    PROVE  /\ ScreenOf(query, marked) = "login"
                  <=> Usable(query) /\ query.data.auth_required /\ ~query.data.authenticated
           /\ marked => ScreenOf(query, marked) # "app"
<1>1. Usable(query) => query.data \in Statuses
  BY DEF Usable, Query
<1>2. CASE Pending(query)
  BY <1>2 DEF ScreenOf, Pending, Usable
<1>3. CASE ~Pending(query) /\ ~Usable(query)
  BY <1>3 DEF ScreenOf
<1>4. CASE Usable(query)
  <2>1. query.data.auth_required \in BOOLEAN /\ query.data.authenticated \in BOOLEAN /\ ~Pending(query)
    BY <1>1, <1>4 DEF Statuses, Pending, Usable
  <2>2. CASE query.data.auth_required /\ ~query.data.authenticated
    BY <1>4, <2>1, <2>2 DEF ScreenOf
  <2>3. CASE ~(query.data.auth_required /\ ~query.data.authenticated)
    BY <1>4, <2>1, <2>3 DEF ScreenOf, InSetup
  <2> QED BY <2>2, <2>3
<1> QED BY <1>2, <1>3, <1>4

LEMMA LoginIsShown == GateTyped => (Screen = "login" <=> AtLogin)
BY ScreenIs DEF GateTyped, Screen, AtLogin

LEMMA StatusIs == ASSUME NEW guard \in Guards PROVE Status(guard) \in Statuses
BY DEF Guards, Status, Statuses

LEMMA BlankIs == BlankLogin \in LoginForms /\ BlankPass \in PassForms
BY AccessAssumption DEF BlankLogin, LoginForms, BlankPass, PassForms

\* Asking again changes neither what is known nor the screen.
LEMMA AskingKeepsGate ==
    ASSUME GateTyped, AskGate, wizardOn' \in BOOLEAN PROVE GateTyped' /\ (AtLogin' <=> AtLogin)
<1>1. gateQ' \in Query(Statuses) /\ gateQ'.data = gateQ.data
      /\ gateQ'.error = (gateQ.error /\ gateQ.data # None) /\ gateHeard' = None
  BY QueriesStay DEF GateTyped, AskGate
<1> QED BY <1>1 DEF GateTyped, AtLogin, Usable

LEMMA AccessBegins == AccessInit \/ AccessRests => AccessInv
<1>1. ASSUME AccessInit PROVE AccessInv
  <2>1. gateQ \in Query(Statuses) /\ ~Usable(gateQ)
    BY <1>1, FirstRead DEF AccessInit
  <2>2. GateTyped
    BY <1>1, <2>1 DEF AccessInit, GateTyped
  <2>3. FormsTyped
    BY <1>1, BlankIs DEF AccessInit, FormsTyped
  <2> QED BY <1>1, <2>2, <2>3, AccessAssumption DEF AccessInit, AccessInv, Guards
<1>2. ASSUME AccessRests PROVE AccessInv
  <2>1. guardAt \in Guards /\ tries \in 0..MaxTries /\ signing = None
    BY <1>2, AccessAssumption DEF AccessRests, Guards
  <2>2. gateQ \in Query(Statuses)
    BY <1>2, <2>1, StatusIs, LandedIsQuery DEF AccessRests
  <2>3. GateTyped
    BY <1>2, <2>2 DEF AccessRests, GateTyped
  <2>4. FormsTyped
    BY <1>2, BlankIs DEF AccessRests, FormsTyped
  <2> QED BY <2>1, <2>3, <2>4 DEF AccessInv
<1> QED BY <1>1, <1>2

\* The server, and the requests: no form changes, and the gate asks again at most.
LEMMA CallsKeepAccess ==
    ASSUME AccessInv, guardAt' \in Guards, UNCHANGED formVars, tries' \in 0..MaxTries,
           signing' \in {None, "sent", "ok", "invalid", "rate_limited", "other"}, wizardOn' \in BOOLEAN,
           AskGate \/ UNCHANGED gateVars
    PROVE  AccessInv'
<1>1. GateTyped' /\ (AtLogin' <=> AtLogin)
  BY AskingKeepsGate DEF AccessInv, GateTyped, gateVars, AtLogin
<1> QED BY <1>1 DEF AccessInv, FormsTyped, formVars

LEMMA RequestsKeepAccess ==
    ASSUME AccessInv, \/ RetryGate \/ ServeSignIn \/ StartWizard \/ WizardPassword \/ WizardIntegration
                      \/ FinishWizard \/ CallPage \/ ServePage \/ PageLands \/ SignOut \/ SignOutLands
                      \/ SavePass \/ ServePass \/ SessionEnds
    PROVE  AccessInv'
<1>1. /\ guardAt \in Guards /\ tries \in 0..MaxTries /\ wizardOn \in BOOLEAN
      /\ signing \in {None, "sent", "ok", "invalid", "rate_limited", "other"}
  BY DEF AccessInv, GateTyped
<1>2. Try => tries' \in 0..MaxTries
  BY <1>1, AccessAssumption DEF Try
<1>3. guardAt' \in Guards
  <2>1. \A session, setup \in BOOLEAN : [password |-> TRUE, session |-> session, setup |-> setup] \in Guards
    BY DEF Guards
  <2>2. [guardAt EXCEPT !.session = TRUE] \in Guards /\ [guardAt EXCEPT !.session = FALSE] \in Guards
        /\ [guardAt EXCEPT !.setup = FALSE] \in Guards
    BY <1>1 DEF Guards
  <2>3. CASE ServePass
    BY <1>1, <2>1, <2>3 DEF ServePass
  <2>4. CASE WizardPassword \/ SessionEnds
    BY <1>1, <2>1, <2>2, <2>4 DEF WizardPassword, SessionEnds
  <2>5. CASE ServeSignIn \/ WizardIntegration \/ FinishWizard \/ SignOutLands
    BY <1>1, <2>2, <2>5 DEF ServeSignIn, WizardIntegration, FinishWizard, SignOutLands
  <2>6. CASE \/ RetryGate \/ StartWizard \/ CallPage \/ ServePage \/ PageLands \/ SignOut \/ SavePass
    BY <1>1, <2>6 DEF RetryGate, StartWizard, CallPage, ServePage, PageLands, SignOut, SavePass
  <2> QED BY <2>3, <2>4, <2>5, <2>6
<1>4. UNCHANGED formVars /\ tries' \in 0..MaxTries /\ wizardOn' \in BOOLEAN
      /\ (AskGate \/ UNCHANGED gateVars)
  BY <1>1, <1>2 DEF RetryGate, ServeSignIn, StartWizard, WizardPassword, WizardIntegration, FinishWizard,
                    CallPage, ServePage, PageLands, SignOut, SignOutLands, SavePass, ServePass, SessionEnds
<1>5. signing' \in {None, "sent", "ok", "invalid", "rate_limited", "other"}
  BY <1>1 DEF RetryGate, ServeSignIn, StartWizard, WizardPassword, WizardIntegration, FinishWizard, callVars,
              CallPage, ServePage, PageLands, SignOut, SignOutLands, SavePass, ServePass, SessionEnds
<1> QED BY <1>3, <1>4, <1>5, CallsKeepAccess

LEMMA GateKeepsAccess ==
    ASSUME AccessInv, ServeGate \/ LandGate PROVE AccessInv'
<1>1. /\ guardAt \in Guards /\ tries \in 0..MaxTries /\ gateQ \in Query(Statuses)
      /\ wizardOn \in BOOLEAN /\ loginForm \in LoginForms /\ passForm \in PassForms
  BY DEF AccessInv, GateTyped, FormsTyped
<1>2. CASE ServeGate
  <2>1. gateHeard' \in Statuses /\ UNCHANGED <<guardAt, gateQ, wizardOn, formVars, callVars, tries>>
        /\ gateQ.ask = "asked"
    BY <1>1, <1>2, StatusIs DEF ServeGate
  <2> QED BY <2>1 DEF AccessInv, GateTyped, FormsTyped, formVars, callVars, AtLogin
<1>3. CASE LandGate
  <2>1. /\ UNCHANGED <<guardAt, wizardOn, callVars>> /\ gateHeard \in Statuses /\ gateHeard' = None
        /\ gateQ' \in {Landed(gateHeard), Failed(gateQ)}
        /\ IF gateQ.data = None THEN UNCHANGED formVars ELSE FormsFollow(ScreenOf(gateQ', wizardOn))
    BY <1>3 DEF LandGate, AccessInv, GateTyped
  <2>2. gateQ' \in Query(Statuses)
    <3>1. CASE gateQ' = Landed(gateHeard)
      BY <2>1, <3>1, LandedIsQuery
    <3>2. CASE gateQ' = Failed(gateQ)
      BY <1>1, <3>2, QueriesStay
    <3> QED BY <2>1, <3>1, <3>2
  <2>3. GateTyped'
    BY <1>1, <2>1, <2>2 DEF GateTyped
  <2>4. tries' \in 0..MaxTries
    BY <1>1, <1>3, AccessAssumption DEF LandGate, Try
  <2>5. FormsTyped'
    <3>1. CASE gateQ.data = None
      <4>1. ~AtLogin /\ UNCHANGED formVars
        BY <2>1, <3>1 DEF AtLogin, Usable
      <4> QED BY <1>1, <4>1 DEF AccessInv, FormsTyped, formVars
    <3>2. CASE gateQ.data # None
      <4> DEFINE screenThen == ScreenOf(gateQ', wizardOn)
      <4>1. screenThen = "login" <=> AtLogin'
        BY <1>1, <2>2, ScreenIs DEF AtLogin
      <4> HIDE DEF screenThen
      <4>2. FormsFollow(screenThen)
        BY <2>1, <3>2 DEF screenThen
      <4>3. /\ loginForm' = IF screenThen = "login" THEN loginForm ELSE BlankLogin
            /\ passForm' \in {passForm, BlankPass}
        BY <4>2 DEF FormsFollow
      <4> QED BY <1>1, <4>1, <4>3, BlankIs DEF FormsTyped
    <3> QED BY <3>1, <3>2
  <2> QED BY <2>1, <2>3, <2>4, <2>5 DEF AccessInv, callVars
<1> QED BY <1>2, <1>3

LEMMA FormsKeepAccess ==
    ASSUME AccessInv, TypePassword \/ SignIn \/ SignInLands \/ Second \/ TypePass \/ PassLands PROVE AccessInv'
<1>1. /\ guardAt \in Guards /\ tries \in 0..MaxTries /\ GateTyped /\ wizardOn \in BOOLEAN
      /\ loginForm \in LoginForms /\ passForm \in PassForms /\ (~AtLogin => loginForm = BlankLogin)
      /\ signing \in {None, "sent", "ok", "invalid", "rate_limited", "other"}
      /\ (Screen = "login" <=> AtLogin)
  BY LoginIsShown DEF AccessInv, GateTyped, FormsTyped
<1>2. /\ UNCHANGED <<guardAt, wizardOn>> /\ (AskGate \/ UNCHANGED gateVars)
      /\ UNCHANGED tries \/ Try
  BY DEF TypePassword, SignIn, SignInLands, Second, TypePass, PassLands
<1>3. tries' \in 0..MaxTries
  BY <1>1, <1>2, AccessAssumption DEF Try
<1>4. GateTyped' /\ (AtLogin' <=> AtLogin)
  BY <1>1, <1>2, AskingKeepsGate DEF GateTyped, gateVars, AtLogin
<1>5. signing' \in {None, "sent", "ok", "invalid", "rate_limited", "other"}
  BY <1>1 DEF TypePassword, SignIn, SignInLands, Second, TypePass, PassLands, callVars
<1>6. passForm' \in PassForms
  BY <1>1, BlankIs DEF TypePassword, SignIn, SignInLands, Second, TypePass, PassLands, PassForms
<1>7. loginForm' \in LoginForms /\ (AtLogin \/ loginForm' = loginForm)
  <2>1. CASE TypePassword
    <3>1. AtLogin /\ loginForm' \in {[loginForm EXCEPT !.password = ~@], [loginForm EXCEPT !.error = None]}
      BY <1>1, <2>1 DEF TypePassword
    <3> QED BY <1>1, <3>1 DEF LoginForms
  <2>2. CASE SignIn
    <3> DEFINE next == [loginForm EXCEPT !.loading = TRUE]
    <3>1. next \in LoginForms
      BY <1>1 DEF LoginForms
    <3>2. AtLogin /\ loginForm' = [next EXCEPT !.error = None]
      BY <1>1, <2>2 DEF SignIn
    <3> HIDE DEF next
    <3> QED BY <3>1, <3>2 DEF LoginForms
  <2>3. CASE SignInLands
    <3>1. CASE Screen # "login"
      BY <1>1, <2>3, <3>1 DEF SignInLands
    <3>2. CASE Screen = "login"
      <4>1. PICK wait \in 0..MaxCooldown :
              loginForm' = [loginForm EXCEPT !.loading = FALSE, !.cooldown = wait,
                                             !.error = IF signing = "ok" THEN @ ELSE signing]
        BY <2>3, <3>2 DEF SignInLands, StillLoading
      <4> DEFINE error == IF signing = "ok" THEN loginForm.error ELSE signing
                 one == [loginForm EXCEPT !.loading = FALSE]
                 two == [one EXCEPT !.cooldown = wait]
      <4>2. error \in {None, "invalid", "rate_limited", "other"}
        BY <1>1, <2>3 DEF SignInLands, LoginForms
      <4>3. one \in LoginForms
        BY <1>1 DEF LoginForms
      <4>4. loginForm' = [two EXCEPT !.error = error]
        BY <4>1
      <4> HIDE DEF one, error
      <4>5. two \in LoginForms
        BY <4>3 DEF LoginForms
      <4> HIDE DEF two
      <4>6. loginForm' \in LoginForms
        BY <4>2, <4>4, <4>5 DEF LoginForms
      <4> QED BY <1>1, <3>2, <4>6
    <3> QED BY <3>1, <3>2
  <2>4. CASE Second
    <3>1. loginForm.cooldown \in 0..MaxCooldown /\ loginForm.cooldown > 0
          /\ loginForm' = [loginForm EXCEPT !.cooldown = CountDown(loginForm.cooldown)]
      BY <1>1, <2>4 DEF Second, LoginForms
    <3>2. CountDown(loginForm.cooldown) \in 0..MaxCooldown
      BY <3>1, AccessAssumption DEF CountDown
    <3>3. AtLogin
      BY <1>1, <3>1 DEF BlankLogin
    <3> QED BY <1>1, <3>1, <3>2, <3>3 DEF LoginForms
  <2>5. CASE TypePass \/ PassLands
    BY <1>1, <2>5 DEF TypePass, PassLands
  <2> QED BY <2>1, <2>2, <2>3, <2>4, <2>5
<1>8. FormsTyped'
  BY <1>1, <1>4, <1>6, <1>7 DEF FormsTyped
<1> QED BY <1>1, <1>2, <1>3, <1>4, <1>5, <1>8 DEF AccessInv

LEMMA AccessStays == AccessInv /\ [AccessNext]_accessVars => AccessInv'
<1> SUFFICES ASSUME AccessInv, [AccessNext]_accessVars PROVE AccessInv'
  OBVIOUS
<1>1. CASE UNCHANGED accessVars
  BY <1>1 DEF accessVars, gateVars, formVars, callVars, AccessInv, GateTyped, FormsTyped, AtLogin
<1>2. CASE ServeGate \/ LandGate
  BY <1>2, GateKeepsAccess
<1>3. CASE TypePassword \/ SignIn \/ SignInLands \/ Second \/ TypePass \/ PassLands
  BY <1>3, FormsKeepAccess
<1>4. CASE \/ RetryGate \/ ServeSignIn \/ StartWizard \/ WizardPassword \/ WizardIntegration
           \/ FinishWizard \/ CallPage \/ ServePage \/ PageLands \/ SignOut \/ SignOutLands
           \/ SavePass \/ ServePass \/ SessionEnds
  BY <1>4, RequestsKeepAccess
<1> QED BY <1>1, <1>2, <1>3, <1>4 DEF AccessNext

LEMMA AccessImplies == AccessInv => AccessTypeOK
<1> SUFFICES ASSUME AccessInv PROVE AccessTypeOK
  OBVIOUS
<1>1. gateQ.ask \in {"idle", "asked"} /\ (gateHeard # None => gateQ.ask = "asked")
  BY DEF AccessInv, GateTyped, Query
<1>2. Screen # "login" => loginForm = BlankLogin
  BY LoginIsShown DEF AccessInv, FormsTyped
<1>3. loginForm.cooldown \in 0..MaxCooldown /\ loginForm.error \in {None, "invalid", "rate_limited", "other"}
      /\ passForm \in PassForms
  BY DEF AccessInv, FormsTyped, LoginForms
<1> QED BY <1>1, <1>2, <1>3 DEF AccessInv, AccessTypeOK, Guards, PassForms

\* A wizard that goes on is not taken off the screen for the pages.
SetupGoesOn == Screen = "setup" /\ wizardOn /\ wizardOn' => Screen' # "app"

LEMMA WizardGoesOn == AccessInv' => SetupGoesOn
BY ScreenIs DEF AccessInv, GateTyped, SetupGoesOn, Screen

(***************************************************************************)
(* The report of the drawer.                                               *)
(***************************************************************************)
AnswersSaySomething == \A read \in reads : read.at = "done" => read.answer # None
PushHasRoom == pushing # None /\ pushing.at = "sent" => seen < MaxSeen
DriftInv == DriftTypeOK /\ AnswersSaySomething /\ PushHasRoom

LEMMA DriftBegins == DriftInit => DriftInv
<1> SUFFICES ASSUME DriftInit PROVE DriftInv
  OBVIOUS
<1>1. DriftTypeOK
  <2>1. seen \in 0..MaxSeen /\ report = None /\ failure = FALSE /\ result = FALSE /\ pushing = None
    BY DriftAssumption DEF DriftInit
  <2>2. drawer = "shut" /\ reads = {}
    BY DEF DriftInit
  <2> QED BY <2>1, <2>2 DEF DriftTypeOK
<1>2. AnswersSaySomething /\ PushHasRoom
  BY DEF DriftInit, AnswersSaySomething, PushHasRoom
<1> QED BY <1>1, <1>2 DEF DriftInv

\* A check more is one that is watched, and nothing of the others but the watch changes.
LEMMA CheckIs ==
    ASSUME reads \subseteq Reads, AnswersSaySomething, CheckDrift
    PROVE  reads' \subseteq Reads /\ AnswersSaySomething' /\ IsChecking' /\ failure' = FALSE
<1> DEFINE new == [at |-> "sent", answer |-> None, watched |-> TRUE]
           Unwatched(read) == [read EXCEPT !.watched = FALSE]
<1>1. new \in Reads /\ new.at = "sent" /\ new.watched = TRUE
  BY DEF Reads
<1>2. \A read \in reads : /\ Unwatched(read) \in Reads /\ Unwatched(read).at = read.at
                          /\ Unwatched(read).answer = read.answer
  BY DEF Reads
<1>3. reads' = {Unwatched(read) : read \in reads} \cup {new} /\ failure' = FALSE
  BY DEF CheckDrift
<1> HIDE DEF new, Unwatched
<1> QED BY <1>1, <1>2, <1>3 DEF AnswersSaySomething, IsChecking

\* The answer of the server to a check.
LEMMA ReadIs ==
    ASSUME NEW read \in Reads, NEW answer \in Report \cup {None}
    PROVE  LET told == [read EXCEPT !.at = IF answer = None THEN "failed" ELSE "done", !.answer = answer]
           IN  /\ told \in Reads /\ told.watched = read.watched /\ told.answer = answer
               /\ told.at = IF answer = None THEN "failed" ELSE "done"
<1> DEFINE at == IF answer = None THEN "failed" ELSE "done"
           one == [read EXCEPT !.at = at]
           two == [one EXCEPT !.answer = answer]
<1>1. one \in Reads /\ one.at = at /\ one.watched = read.watched
  BY DEF Reads
<1>2. two = [read EXCEPT !.at = at, !.answer = answer]
  OBVIOUS
<1> HIDE DEF one
<1>3. two \in Reads /\ two.at = one.at /\ two.watched = one.watched /\ two.answer = answer
  BY <1>1 DEF Reads
<1> HIDE DEF two
<1> QED BY <1>1, <1>2, <1>3

BlankByPush ==
    drawer # "shut" /\ drawer' # "shut" /\ Body # "empty" /\ Body' = "empty" => pushing # None /\ pushing' = None

LEMMA DriftStays ==
    ASSUME DriftInv, [DriftNext]_driftVars PROVE DriftInv' /\ BlankByPush
<1>1. /\ seen \in 0..MaxSeen /\ report \in Report \cup {None} /\ failure \in BOOLEAN /\ result \in BOOLEAN
      /\ drawer \in {"shut", "open", "asking"} /\ reads \subseteq Reads /\ pushing \in Push \cup {None}
  BY DEF DriftInv, DriftTypeOK
<1>2. Body = "empty" <=> report = None /\ ~IsChecking /\ ~failure
  BY DEF Body
<1>3. Body' = "empty" <=> report' = None /\ ~IsChecking' /\ ~failure'
  BY DEF Body
<1>4. CASE UNCHANGED driftVars
  BY <1>4 DEF driftVars, DriftInv, DriftTypeOK, AnswersSaySomething, PushHasRoom, BlankByPush, Body, IsChecking
<1>5. CASE OpenDrift
  <2>1. drawer = "shut" /\ drawer' = "open" /\ UNCHANGED <<seen, report, result, pushing>>
        /\ (CheckDrift \/ UNCHANGED <<reads, failure>>)
    BY <1>5 DEF OpenDrift
  <2>2. reads' \subseteq Reads /\ AnswersSaySomething' /\ failure' \in BOOLEAN
    BY <1>1, <2>1, CheckIs DEF DriftInv, AnswersSaySomething
  <2> QED BY <1>1, <2>1, <2>2 DEF DriftInv, DriftTypeOK, PushHasRoom, BlankByPush
<1>6. CASE Recheck
  <2>1. UNCHANGED <<seen, report, result, drawer, pushing>> /\ CheckDrift
    BY <1>6 DEF Recheck
  <2>2. reads' \subseteq Reads /\ AnswersSaySomething' /\ failure' = FALSE /\ IsChecking'
    BY <1>1, <2>1, CheckIs DEF DriftInv
  <2> QED BY <1>1, <1>3, <2>1, <2>2 DEF DriftInv, DriftTypeOK, PushHasRoom, BlankByPush
<1>7. CASE CloseDrawer \/ HandleReconcile
  <2>1. UNCHANGED <<seen, report, failure, result, reads, pushing>> /\ drawer' \in {"shut", "open", "asking"}
    BY <1>7 DEF CloseDrawer, HandleReconcile
  <2>2. IsChecking' = IsChecking
    BY <2>1 DEF IsChecking
  <2> QED BY <1>1, <1>2, <1>3, <2>1, <2>2 DEF DriftInv, DriftTypeOK, AnswersSaySomething, PushHasRoom, BlankByPush
<1>8. ASSUME NEW op \in {"switch", "edit", "reconcile"}, StartPush(op)
      PROVE  DriftInv' /\ BlankByPush
  <2>1. /\ UNCHANGED <<seen, report, failure, result, reads>> /\ drawer' \in {drawer, "open"}
        /\ seen < MaxSeen /\ pushing' = [op |-> op, at |-> "sent", after |-> None]
    BY <1>8 DEF StartPush
  <2>2. pushing' \in Push
    BY <2>1 DEF Push
  <2>3. IsChecking' = IsChecking
    BY <2>1 DEF IsChecking
  <2> QED BY <1>1, <1>2, <1>3, <2>1, <2>2, <2>3 DEF DriftInv, DriftTypeOK, AnswersSaySomething, PushHasRoom, BlankByPush
<1>9. CASE PushServed
  <2>1. UNCHANGED <<report, failure, result, drawer, reads>> /\ pushing \in Push /\ pushing.at = "sent" /\ seen < MaxSeen
    BY <1>1, <1>9 DEF PushServed, DriftInv, PushHasRoom
  <2>2. pushing' \in Push /\ pushing'.at # "sent" /\ seen' \in 0..MaxSeen
    <3>1. CASE pushing' = [pushing EXCEPT !.at = "failed"] /\ UNCHANGED seen
      BY <1>1, <2>1, <3>1 DEF Push
    <3>2. CASE ~(pushing' = [pushing EXCEPT !.at = "failed"] /\ UNCHANGED seen)
      <4>6. seen' = seen + 1
        BY <1>9, <3>2 DEF PushServed
      <4>1. seen' = seen + 1 /\ seen' \in 0..MaxSeen
        BY <1>1, <2>1, <4>6, DriftAssumption
      <4>2. PICK after \in Report \cup {None} : pushing' = [pushing EXCEPT !.at = "done", !.after = after]
        BY <1>9, <3>2, <4>1 DEF PushServed, Report
      <4> DEFINE one == [pushing EXCEPT !.at = "done"]
      <4>3. one \in Push /\ one.at = "done"
        BY <2>1 DEF Push
      <4>4. pushing' = [one EXCEPT !.after = after]
        BY <4>2
      <4> HIDE DEF one
      <4>5. pushing' \in Push /\ pushing'.at = "done"
        BY <4>3, <4>4 DEF Push
      <4> QED BY <4>1, <4>5
    <3> QED BY <3>1, <3>2
  <2>3. IsChecking' = IsChecking
    BY <2>1 DEF IsChecking
  <2> QED BY <1>1, <1>2, <1>3, <2>1, <2>2, <2>3 DEF DriftInv, DriftTypeOK, AnswersSaySomething, PushHasRoom, BlankByPush
<1>10. CASE PushLanded
  <2>1. UNCHANGED <<seen, drawer, reads>> /\ pushing \in Push /\ pushing # None /\ pushing' = None
    BY <1>1, <1>10 DEF PushLanded
  <2>2. report' \in Report \cup {None} /\ failure' \in BOOLEAN /\ result' \in BOOLEAN
    BY <1>1, <1>10, <2>1 DEF PushLanded, forgetDrift, Push
  <2> QED BY <1>1, <2>1, <2>2 DEF DriftInv, DriftTypeOK, AnswersSaySomething, PushHasRoom, BlankByPush
<1>11. ASSUME NEW read \in reads, ReadServed(read)
       PROVE  DriftInv' /\ BlankByPush
  <2>1. PICK answer \in Report \cup {None} :
          reads' = (reads \ {read}) \cup
              {[read EXCEPT !.at = IF answer = None THEN "failed" ELSE "done", !.answer = answer]}
    BY <1>1, <1>11 DEF ReadServed, Report
  <2> DEFINE told == [read EXCEPT !.at = IF answer = None THEN "failed" ELSE "done", !.answer = answer]
  <2>2. told \in Reads /\ told.watched = read.watched /\ told.answer = answer
        /\ told.at = IF answer = None THEN "failed" ELSE "done"
    BY <1>1, ReadIs
  <2>3. reads' = (reads \ {read}) \cup {told}
    BY <2>1
  <2> HIDE DEF told
  <2>4. UNCHANGED <<seen, report, failure, result, drawer, pushing>>
    BY <1>11 DEF ReadServed
  <2>5. IsChecking' <=> IsChecking
    BY <2>2, <2>3 DEF IsChecking
  <2>6. AnswersSaySomething'
    BY <2>2, <2>3 DEF DriftInv, AnswersSaySomething
  <2>7. reads' \subseteq Reads
    BY <1>1, <2>2, <2>3
  <2> QED BY <1>1, <1>2, <1>3, <2>4, <2>5, <2>6, <2>7 DEF DriftInv, DriftTypeOK, PushHasRoom, BlankByPush
<1>12. ASSUME NEW read \in reads, ReadLands(read)
       PROVE  DriftInv' /\ BlankByPush
  <2>1. /\ reads' = reads \ {read} /\ UNCHANGED <<seen, result, drawer, pushing>>
        /\ IF read.at = "failed" THEN failure' = TRUE /\ UNCHANGED report
                                 ELSE report' = read.answer /\ UNCHANGED failure
    BY <1>12 DEF ReadLands, KeptOfAFailure
  <2>2. read \in Reads /\ read.at \in {"done", "failed"} /\ (read.at = "done" => read.answer # None)
    BY <1>1, <1>12 DEF ReadLands, Reads, DriftInv, AnswersSaySomething
  <2>3. report' \in Report \cup {None} /\ failure' \in BOOLEAN /\ ~(report' = None /\ ~failure')
    BY <1>1, <2>1, <2>2 DEF Reads
  <2> QED BY <1>1, <1>3, <2>1, <2>3 DEF DriftInv, DriftTypeOK, AnswersSaySomething, PushHasRoom, BlankByPush
<1> QED BY <1>4, <1>5, <1>6, <1>7, <1>8, <1>9, <1>10, <1>11, <1>12 DEF DriftNext


(***************************************************************************)
(* The pages together.                                                     *)
(***************************************************************************)
PanelInv == CardsInv /\ RowsInv /\ HooksInv /\ AccessInv /\ DriftInv

LEMMA PanelBegins == PanelInit => PanelInv
BY CardsInit, RowsInit, HooksBegin, AccessBegins, DriftBegins DEF PanelInit, PanelInv

\* One page steps, the others rest.
PageSteps ==
    /\ [IntegrationsNext]_integrationsVars /\ [ServiceListNext]_serviceListVars
    /\ [HooksNext]_hookVars /\ [AccessNext]_accessVars /\ [DriftNext]_driftVars

LEMMA PanelStepsPages == [PanelNext]_panelVars => PageSteps
<1> SUFFICES ASSUME [PanelNext]_panelVars PROVE PageSteps
  OBVIOUS
<1>1. \/ IntegrationsNext /\ UNCHANGED <<serviceListVars, hookVars, accessVars, driftVars>>
      \/ ServiceListNext /\ UNCHANGED <<integrationsVars, hookVars, accessVars, driftVars>>
      \/ HooksNext /\ UNCHANGED <<integrationsVars, serviceListVars, accessVars, driftVars>>
      \/ AccessNext /\ UNCHANGED <<integrationsVars, serviceListVars, hookVars, driftVars>>
      \/ DriftNext /\ UNCHANGED <<integrationsVars, serviceListVars, hookVars, accessVars>>
      \/ UNCHANGED <<integrationsVars, serviceListVars, hookVars, accessVars, driftVars>>
  BY DEF PanelNext, panelVars
<1> QED BY <1>1 DEF PageSteps

LEMMA PanelStays == PanelInv /\ [PanelNext]_panelVars => PanelInv'
<1> SUFFICES ASSUME PanelInv, [PanelNext]_panelVars PROVE PanelInv'
  OBVIOUS
<1>1. /\ [IntegrationsNext]_integrationsVars /\ [ServiceListNext]_serviceListVars
      /\ [HooksNext]_hookVars /\ [AccessNext]_accessVars /\ [DriftNext]_driftVars
  BY PanelStepsPages DEF PageSteps
<1>2. CardsInv' /\ RowsInv'
  BY <1>1, CardsStay, RowsStay DEF PanelInv
<1>3. HooksInv' /\ AccessInv' /\ DriftInv'
  BY <1>1, HooksStay, AccessStays, DriftStays DEF PanelInv
<1> QED BY <1>2, <1>3 DEF PanelInv

LEMMA PanelKeepsInv == PanelSpec => []PanelInv
BY PanelBegins, PanelStays, PTL DEF PanelSpec

\* The pages keep their types, for any number of cards, rows, webhooks, requests and tries.
THEOREM LivePagesKeepTypes == PanelSpec => []TypeOK
<1>1. PanelInv => TypeOK
  BY CardsImply, RowsImply, HooksImply, AccessImplies DEF PanelInv, TypeOK, DriftInv
<1> QED BY <1>1, PanelKeepsInv, PTL

\* Whatever order answers and reads come in: at rest the lists are those of the server and no
\* row is left busy, a card stays held while the second question about it is on the screen, and
\* no rule of a webhook watches "a provider" without saying which.
THEOREM LivePagesAreSound == PanelSpec => []PagesAreSound
<1>1. PanelInv => PagesAreSound
  BY CardsImply, RowsImply, HooksImply DEF PanelInv, PagesAreSound
<1> QED BY <1>1, PanelKeepsInv, PTL

(***************************************************************************)
(* What no step takes back.                                                *)
(***************************************************************************)
LEMMA StepsTakeNothingBack ==
    PanelInv /\ PanelInv' /\ [PanelNext]_panelVars => /\ [EditKeepsTheRest]_hookVars
                                                      /\ [SetupGoesOn]_accessVars
                                                      /\ [BlankByPush]_driftVars
<1> SUFFICES ASSUME PanelInv, PanelInv', [PanelNext]_panelVars
             PROVE  EditKeepsTheRest /\ SetupGoesOn /\ BlankByPush
  OBVIOUS
<1>1. [DriftNext]_driftVars
  BY PanelStepsPages DEF PageSteps
<1> QED BY <1>1, HooksKeepTheRest, WizardGoesOn, DriftStays DEF PanelInv

LEMMA NothingIsTakenBackIs ==
    [][EditKeepsTheRest]_hookVars /\ [][SetupGoesOn]_accessVars /\ [][BlankByPush]_driftVars
        <=> NothingIsTakenBack
BY DEF EditKeepsTheRest, SetupGoesOn, BlankByPush, EditsKeepTheRest, WizardIsKept, BlankOnlyByPush, NothingIsTakenBack

\* An edit of a webhook's rule, made from a row that may be old, reverts no edit before it; a
\* wizard under way is not cut by what it does itself; and the drawer goes blank only when a push
\* has dropped what it showed.
THEOREM LivePagesTakeNothingBack == PanelSpec => NothingIsTakenBack
<1>1. PanelSpec => [][EditKeepsTheRest]_hookVars /\ [][SetupGoesOn]_accessVars /\ [][BlankByPush]_driftVars
  BY PanelKeepsInv, StepsTakeNothingBack, PTL DEF PanelSpec
<1> QED BY <1>1, NothingIsTakenBackIs

=============================================================================
