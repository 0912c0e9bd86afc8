---------------------------- MODULE AlertsProofs ----------------------------
(***************************************************************************)
(* Theorems about the health cycle, for every set of services, webhooks    *)
(* and rules, every backoff and every bound.                               *)
(*                                                                         *)
(* The inductive invariant is IInv: the types, and for each rule that      *)
(* counts as alerted without its alert having left, the line that is still *)
(* to be sent; for each queued message, the count of its posts from both   *)
(* sides.                                                                  *)
(***************************************************************************)
EXTENDS Alerts, TLAPS

\* In the loop that sends the alerts of a rule, a latch whose alert has not
\* left yet still has its line in the outbox.
LineRemains ==
    Unlocked =>
        \A r \in Rules :
            mem[r].sent # None /\ ~mem[r].told /\ phase = Sending(r.kind) =>
                \E l \in outbox[r.hook] : l.rule = r /\ l.word # "RECOVERED"

\* The lines in the outbox are those of the kind being sent.
LinesOfTheTurn == \A h \in Hooks : \A l \in outbox[h] : phase = Sending(l.rule.kind)

\* A queued message was posted at least once per attempt, and once more when
\* the answer to a post is not written down yet.
PostsSuffice ==
    \A i \in Slots : queue[i] # None =>
        queue[i].posts >= queue[i].attempt
            + (IF reply # None /\ reply.row = i /\ ~reply.refused THEN 1 ELSE 0)

\* An answer that says the message arrived is one of a post that was made.
OkIsNoRefusal == reply # None => ~(reply.ok /\ reply.refused)

\* The rows whose answer is awaited are written in the same phase.
ReplyInRetry == reply # None => phase = "retry"

LatchInv == LatchIsEarned /\ LineRemains /\ LinesOfTheTurn /\ RestartForgetsNothing

PostInv == ReplyInRetry /\ OkIsNoRefusal /\ PostsAreCounted /\ PostsSuffice

IInv ==
    /\ TypeOK
    /\ LatchInv
    /\ PostInv

----------------------------------------------------------------------------
(* Types.                                                                  *)

\* An absent age stays absent, and an age stays an age.
LEMMA OlderAge ==
    ASSUME NEW age \in Ages
    PROVE  Older(age) \in Ages /\ (Older(age) = None <=> age = None)
<1>1. CASE age = None
  BY <1>1, NoneAssumption, AgeAssumption DEF Older, Ages
<1>2. CASE age \in 0..MaxAge
  <2>1. age # None /\ age \in Nat
    BY <1>2, NoneAssumption, AgeAssumption
  <2>2. Older(age) \in 0..MaxAge
    BY <1>2, AgeAssumption DEF Older
  <2> QED BY <2>1, <2>2, NoneAssumption, AgeAssumption DEF Ages
<1> QED BY <1>1, <1>2 DEF Ages

\* The latches keep their type as they age, and what they say.
LEMMA AgedLatches ==
    ASSUME NEW L \in [Rules -> Latches]
    PROVE  /\ Aged(L) \in [Rules -> Latches]
           /\ \A r \in Rules : /\ Aged(L)[r].told = L[r].told
                               /\ Aged(L)[r].sent = None <=> L[r].sent = None
                               /\ Aged(L)[r].since = None <=> L[r].since = None
<1>1. ASSUME NEW r \in Rules
      PROVE  /\ Aged(L)[r] \in Latches
             /\ Aged(L)[r].told = L[r].told
             /\ Aged(L)[r].sent = None <=> L[r].sent = None
             /\ Aged(L)[r].since = None <=> L[r].since = None
  <2>1. L[r] \in Latches
    OBVIOUS
  <2>2. /\ L[r].since \in Ages /\ L[r].sent \in Ages /\ L[r].told \in BOOLEAN
        /\ L[r] = [since |-> L[r].since, sent |-> L[r].sent, told |-> L[r].told]
    BY <2>1 DEF Latches
  <2>3. Aged(L)[r] = [since |-> Older(L[r].since), sent |-> Older(L[r].sent),
                      told |-> L[r].told]
    BY <2>2 DEF Aged
  <2>4. /\ Older(L[r].since) \in Ages /\ (Older(L[r].since) = None <=> L[r].since = None)
        /\ Older(L[r].sent) \in Ages /\ (Older(L[r].sent) = None <=> L[r].sent = None)
    BY <2>2, OlderAge
  <2> QED BY <2>2, <2>3, <2>4 DEF Latches
<1> QED BY <1>1 DEF Aged

\* Time brings a queued message nearer to its next post and changes nothing
\* else of it.
LEMMA NearerMessage ==
    ASSUME NEW m \in Messages \cup {None}
    PROVE  /\ Nearer(m) \in Messages \cup {None}
           /\ m # None => /\ Nearer(m) # None
                          /\ Nearer(m).posts = m.posts
                          /\ Nearer(m).attempt = m.attempt
                          /\ Nearer(m).hook = m.hook
           /\ m = None => Nearer(m) = None
<1>1. CASE m = None
  BY <1>1 DEF Nearer
<1>2. CASE m \in Messages
  <2>1. CASE m.wait > 0 /\ m # None
    <3>1. Nearer(m) = [m EXCEPT !.wait = @ - 1]
      BY <2>1 DEF Nearer
    <3>2. Nearer(m) \in Messages
      BY <1>2, <2>1, <3>1 DEF Messages
    <3>3. /\ Nearer(m).posts = m.posts
          /\ Nearer(m).attempt = m.attempt
          /\ Nearer(m).hook = m.hook
      BY <1>2, <3>1 DEF Messages
    <3> QED BY <2>1, <3>2, <3>3, NoneAssumption
  <2>2. CASE ~(m.wait > 0 /\ m # None)
    <3>1. Nearer(m) = m
      BY <2>2 DEF Nearer
    <3> QED BY <1>2, <3>1
  <2> QED BY <2>1, <2>2
<1> QED BY <1>1, <1>2

\* A message the webhook's new URL leaves behind keeps its counts.
LEMMA LeftBehindMessage ==
    ASSUME NEW h \in Hooks, NEW m \in Messages \cup {None}
    PROVE  /\ LeftBehind(m, h) \in Messages \cup {None}
           /\ m # None => /\ LeftBehind(m, h) # None
                          /\ LeftBehind(m, h).posts = m.posts
                          /\ LeftBehind(m, h).attempt = m.attempt
           /\ m = None => LeftBehind(m, h) = None
<1>1. CASE m # None /\ m.hook = h
  <2>1. LeftBehind(m, h) = [m EXCEPT !.former = TRUE] /\ m \in Messages
    BY <1>1 DEF LeftBehind
  <2>2. /\ LeftBehind(m, h) \in Messages
        /\ LeftBehind(m, h).posts = m.posts
        /\ LeftBehind(m, h).attempt = m.attempt
    BY <2>1 DEF Messages
  <2> QED BY <1>1, <2>2, NoneAssumption
<1>2. CASE ~(m # None /\ m.hook = h)
  BY <1>2 DEF LeftBehind
<1> QED BY <1>1, <1>2

\* The invariant holds at the start: no latch is held and nothing is queued.
LEMMA InitIInv == Init => IInv
<1> SUFFICES ASSUME Init PROVE IInv
  OBVIOUS
<1>1. TypeOK
  BY RuleAssumption, NoneAssumption, AgeAssumption
     DEF Init, TypeOK, Latches, Clear, Ages, NoLines, Lines, Phases, Resources
<1>2. \A r \in Rules : mem[r] = Clear /\ saved[r] = Clear
  BY DEF Init
<1>3. LatchInv
  BY <1>2 DEF Init, NoLines, LatchInv, LatchIsEarned, LineRemains, LinesOfTheTurn,
              RestartForgetsNothing, Clear
<1>4. PostInv
  BY DEF Init, PostInv, ReplyInRetry, OkIsNoRefusal, PostsAreCounted, PostsSuffice
<1> QED BY <1>1, <1>3, <1>4 DEF IInv

----------------------------------------------------------------------------
(* Types.                                                                  *)

\* A row is queued for its first retry, and a refused one for a later tier.
LEMMA MessageTypes ==
    /\ \A h \in Hooks : Queued(h) \in Messages
    /\ \A m \in Messages : Rescheduled(m) \in Messages \cup {None}
<1>1. /\ Len(Backoff) \in Nat /\ 1 \in 1..Len(Backoff) /\ Backoff[1] \in Nat
      /\ \A k \in 1..Len(Backoff) : Backoff[k] \in Nat
  BY BackoffAssumption
<1>2. ASSUME NEW h \in Hooks PROVE Queued(h) \in Messages
  BY <1>1 DEF Queued, Messages, Bound
<1>3. ASSUME NEW m \in Messages PROVE Rescheduled(m) \in Messages \cup {None}
  <2>1. CASE m.attempt + 1 >= MaxAttempts
    BY <2>1 DEF Rescheduled
  <2>2. CASE ~(m.attempt + 1 >= MaxAttempts)
    <3>1. m.attempt + 1 \in 1..Len(Backoff)
      BY <1>1, <2>2 DEF Messages, MaxAttempts
    <3>2. Backoff[m.attempt + 1] \in Nat
      BY <1>1, <3>1
    <3> QED BY <2>2, <3>1, <3>2 DEF Rescheduled, Messages
  <2> QED BY <2>1, <2>2
<1> QED BY <1>2, <1>3

\* The latches computed by a round of alerts are latches.
LEMMA LookedTypes ==
    ASSUME TypeOK, NEW kind \in Kinds
    PROVE  Looked(kind) \in [Rules -> Latches]
<1>1. 0 \in Ages /\ None \in Ages
  BY AgeAssumption DEF Ages
<1>2. ASSUME NEW r \in Rules PROVE mem[r] \in Latches
  BY DEF TypeOK
<1>3. Clear \in Latches
  BY <1>1 DEF Clear, Latches
<1>4. ASSUME NEW r \in Rules, r \in Rows(kind) PROVE Latched(r) \in Latches
  <2>1. policy[r].down \in BOOLEAN
    BY <1>4, PolicyAssumption DEF Rows, TypeOK
  <2>2. Since(r) \in Ages
    BY <1>1, <1>2 DEF Since, Latches
  <2>3. CASE ~Failing(r)
    BY <1>3, <2>3 DEF Latched
  <2>4. CASE Failing(r) /\ ~policy[r].down
    BY <1>2, <2>4 DEF Latched
  <2>5. CASE Failing(r) /\ policy[r].down
    <3>1. Latched(r) = [since |-> Since(r),
                        sent  |-> IF Raises(r) \/ Reminds(r) THEN 0 ELSE mem[r].sent,
                        told  |-> mem[r].told]
      BY <2>5 DEF Latched
    <3>2. mem[r].sent \in Ages /\ mem[r].told \in BOOLEAN
      BY <1>2 DEF Latches
    <3> QED BY <1>1, <2>2, <3>1, <3>2 DEF Latches
  <2> QED BY <2>1, <2>3, <2>4, <2>5
<1> QED BY <1>2, <1>3, <1>4 DEF Looked

\* So are those of rules that are told or released.
LEMMA MarkedTypes ==
    ASSUME TypeOK, NEW rules
    PROVE  /\ Tell(rules) => mem' \in [Rules -> Latches]
           /\ Release(rules) => mem' \in [Rules -> Latches]
<1>1. ASSUME NEW r \in Rules PROVE mem[r] \in Latches
  BY DEF TypeOK
<1>2. None \in Ages
  BY DEF Ages
<1>3. Tell(rules) => mem' \in [Rules -> Latches]
  BY <1>1 DEF Tell, Latches
<1>4. Release(rules) => mem' \in [Rules -> Latches]
  BY <1>1, <1>2 DEF Release, Latches
<1> QED BY <1>3, <1>4

\* What is spent stays counted, and never goes down.
LEMMA SpendTypes ==
    ASSUME TypeOK, NEW what \in Resources, Spend(what)
    PROVE  /\ spent' \in [Resources -> Nat]
           /\ spent'[what] = spent[what] + 1
           /\ \A w \in Resources : w # what => spent'[w] = spent[w]
BY DEF Spend, TypeOK

\* The latches are saved, or the save is lost to a locked database.
LEMMA SaveTypes ==
    ASSUME TypeOK, Save
    PROVE  saved' \in [Rules -> Latches] /\ spent' \in [Resources -> Nat]
BY SpendTypes DEF Save, TypeOK, Resources

\* Every step of the cycle keeps the types.
LEMMA CycleTypes == TypeOK /\ CycleStep => TypeOK'
<1> SUFFICES ASSUME TypeOK, CycleStep PROVE TypeOK'
  OBVIOUS
<1> USE DEF world, Phases
<1>1. CASE StartCycle
  <2>1. mem' \in [Rules -> Latches] /\ saved' \in [Rules -> Latches]
    BY <1>1, AgedLatches DEF StartCycle, TypeOK
  <2>2. queue' \in [Slots -> Messages \cup {None}]
    BY <1>1, NearerMessage DEF StartCycle, TypeOK
  <2>3. /\ DOMAIN probes' \subseteq Services
        /\ \A s \in DOMAIN probes' : probes'[s].now \in {"ok", "error"}
    BY <1>1 DEF StartCycle, Measured
  <2> QED BY <1>1, <2>1, <2>2, <2>3 DEF StartCycle, TypeOK
<1>2. ASSUME NEW moves \in BOOLEAN, Record(moves) PROVE TypeOK'
  <2>1. status' \in [Services -> {"unknown", "ok", "error"}]
    BY <1>2 DEF Record, TypeOK
  <2>2. changed' \in BOOLEAN /\ batch' \subseteq Slots /\ phase' \in Phases
    BY <1>2 DEF Record, TypeOK, Due
  <2> QED BY <1>2, <2>1, <2>2 DEF Record, TypeOK
<1>3. ASSUME NEW i \in Slots, NEW ok \in BOOLEAN, PostAgain(i, ok) PROVE TypeOK'
  <2>1. queue[i] \in Messages
    BY <1>3 DEF PostAgain, TypeOK
  <2>2. [queue[i] EXCEPT !.posts = @ + 1] \in Messages
    BY <2>1 DEF Messages
  <2>3. queue' \in [Slots -> Messages \cup {None}]
    BY <1>3, <2>2 DEF PostAgain, TypeOK
  <2>4. [row |-> i, ok |-> ok, refused |-> FALSE] \in Replies
    BY DEF Replies
  <2>5. [row |-> i, ok |-> FALSE, refused |-> TRUE] \in Replies
    BY DEF Replies
  <2>6. reply' \in Replies /\ batch' \subseteq Slots
    BY <1>3, <2>4, <2>5 DEF PostAgain, TypeOK
  <2> QED BY <1>3, <2>3, <2>6 DEF PostAgain, TypeOK
<1>4. ASSUME NEW i \in Slots, PostGone(i) PROVE TypeOK'
  BY <1>4 DEF PostGone, TypeOK
<1>5. CASE WriteOutcome
  <2>1. reply.row \in Slots
    BY <1>5 DEF WriteOutcome, TypeOK, Replies
  <2>2. queue' \in [Slots -> Messages \cup {None}]
    BY <1>5, <2>1, MessageTypes DEF WriteOutcome, TypeOK
  <2>3. spent' \in [Resources -> Nat]
    BY <1>5, SpendTypes DEF WriteOutcome, TypeOK, Resources
  <2> QED BY <1>5, <2>2, <2>3 DEF WriteOutcome, TypeOK
<1>14. CASE CycleBreaks
  <2>1. spent' \in [Resources -> Nat]
    BY <1>14, SpendTypes DEF CycleBreaks, Resources
  <2> QED BY <1>14, <2>1 DEF CycleBreaks, TypeOK
<1>6. CASE Persist
  BY <1>6, SaveTypes DEF Persist, TypeOK
<1>7. CASE SkipGlobal
  BY <1>7 DEF SkipGlobal, TypeOK
<1>8. ASSUME NEW kind \in Kinds, Fire(kind) PROVE TypeOK'
  <2>1. outbox' \in [Hooks -> SUBSET Lines]
    BY <1>8 DEF Fire, Gathered
  <2>2. phase' \in Phases
    BY <1>8 DEF Fire, AfterLook, After, Sending
  <2> QED BY <1>8, <2>1, <2>2, LookedTypes DEF Fire, TypeOK
<1>9. ASSUME NEW kind \in Kinds, SaveSent(kind) PROVE TypeOK'
  BY <1>9, SaveTypes DEF SaveSent, After, TypeOK
<1>10. ASSUME NEW kind \in Kinds, NEW h \in Hooks, Delivered(kind, h) PROVE TypeOK'
  BY <1>10, MarkedTypes DEF Delivered, SentNext, TypeOK
<1>11. ASSUME NEW kind \in Kinds, NEW h \in Hooks, Refused(kind, h) PROVE TypeOK'
  <2>1. queue' \in [Slots -> Messages \cup {None}]
    BY <1>11, MessageTypes DEF Refused, Enqueue, Free, TypeOK
  <2>2. mem' \in [Rules -> Latches]
    BY <1>11, MarkedTypes DEF Refused
  <2> QED BY <1>11, <2>1, <2>2 DEF Refused, SentNext, TypeOK
<1>12. ASSUME NEW kind \in Kinds, NEW h \in Hooks, Unsent(kind, h) PROVE TypeOK'
  <2>1. spent' \in [Resources -> Nat]
    BY <1>12, SpendTypes DEF Unsent, TypeOK, Resources
  <2>2. mem' \in [Rules -> Latches]
    BY <1>12, MarkedTypes DEF Unsent
  <2> QED BY <1>12, <2>1, <2>2 DEF Unsent, SentNext, TypeOK
<1>13. ASSUME NEW kind \in Kinds, NEW h \in Hooks, LogRaises(kind, h) PROVE TypeOK'
  <2>1. spent' \in [Resources -> Nat]
    BY <1>13, SpendTypes DEF LogRaises, Resources
  <2>2. queue' \in [Slots -> Messages \cup {None}]
    BY <1>13, MessageTypes DEF LogRaises, Enqueue, Free, TypeOK
  <2>3. mem' \in [Rules -> Latches]
    BY <1>13, MarkedTypes DEF LogRaises, TypeOK
  <2>4. outbox' \in [Hooks -> SUBSET Lines] /\ phase' \in Phases
    BY <1>13 DEF LogRaises, NoLines, After
  <2> QED BY <1>13, <2>1, <2>2, <2>3, <2>4 DEF LogRaises, TypeOK
<1> QED
  BY <1>1, <1>2, <1>3, <1>4, <1>5, <1>6, <1>7, <1>8, <1>9, <1>10, <1>11, <1>12, <1>13, <1>14
     DEF CycleStep

\* So does everything that happens around it.
LEMMA SurroundingsTypes == TypeOK /\ Surroundings => TypeOK'
<1> SUFFICES ASSUME TypeOK, Surroundings PROVE TypeOK'
  OBVIOUS
<1> USE DEF cycle
<1>1. ASSUME NEW s \in Services, Flip(s) PROVE TypeOK'
  BY <1>1, SpendTypes DEF Flip, TypeOK, Resources
<1>2. ASSUME NEW s \in Services, CheckNow(s) PROVE TypeOK'
  <2>1. spent' \in [Resources -> Nat]
    BY <1>2, SpendTypes DEF CheckNow, Resources
  <2>2. status' \in [Services -> {"unknown", "ok", "error"}]
    BY <1>2 DEF CheckNow, Measured, TypeOK
  <2> QED BY <1>2, <2>1, <2>2 DEF CheckNow, TypeOK
<1>3. ASSUME NEW s \in Services, NEW to \in {"enabled", "disabled", "gone"}, SetLife(s, to)
      PROVE TypeOK'
  BY <1>3, SpendTypes DEF SetLife, TypeOK, Resources
<1>4. ASSUME NEW r \in Rules, NEW p \in Policies \cup {None}, SetPolicy(r, p) PROVE TypeOK'
  BY <1>4, SpendTypes DEF SetPolicy, TypeOK, Resources
<1>5. ASSUME NEW h \in Hooks, MendHook(h) PROVE TypeOK'
  <2>1. spent' \in [Resources -> Nat]
    BY <1>5, SpendTypes DEF MendHook, Resources
  <2>2. queue' \in [Slots -> Messages \cup {None}]
    BY <1>5, LeftBehindMessage DEF MendHook, TypeOK
  <2> QED BY <1>5, <2>1, <2>2 DEF MendHook, TypeOK
<1>6. ASSUME NEW h \in Hooks, DeleteHook(h) PROVE TypeOK'
  BY <1>6, SpendTypes DEF DeleteHook, TypeOK, Resources
<1>7. ASSUME NEW h \in Hooks, Crash(h) PROVE TypeOK'
  <2>1. spent' \in [Resources -> Nat]
    BY <1>7, SpendTypes DEF Crash, Resources
  <2> QED BY <1>7, <2>1 DEF Crash, TypeOK, NoLines, Phases
<1> QED BY <1>1, <1>2, <1>3, <1>4, <1>5, <1>6, <1>7 DEF Surroundings

----------------------------------------------------------------------------
(* The latches.                                                            *)

\* A step that leaves the latches and the outbox alone, and does not enter
\* the loop that sends, keeps the invariant.
LEMMA LatchesAlone ==
    ASSUME TypeOK, LatchInv, Unlocked' => Unlocked,
           UNCHANGED <<mem, saved, outbox>>,
           phase' = phase \/ (\A kind \in Kinds : phase # Sending(kind) /\ phase' # Sending(kind))
    PROVE  LatchInv'
<1>1. \A r \in Rules : r.kind \in Kinds
  BY RuleAssumption DEF Kinds
<1>2. LinesOfTheTurn'
  BY RuleAssumption DEF LatchInv, LinesOfTheTurn, Kinds, TypeOK, Lines
<1> QED
  BY <1>1, <1>2 DEF LatchInv, LatchIsEarned, LineRemains, RestartForgetsNothing

\* What the round of alerts of one kind does to a latch: a rule that counts
\* as alerted without having been told has a line among those to send.
LEMMA LookedLatches ==
    ASSUME TypeOK, LatchInv, Unlocked, NEW kind \in Kinds, phase = kind,
           NEW r \in Rules
    PROVE  /\ r.kind # kind => Looked(kind)[r] = mem[r]
           /\ r.kind = kind =>
                \/ Looked(kind)[r] = Clear
                \/ /\ r \in Rows(kind)
                   /\ Looked(kind)[r].sent # None => \/ Looked(kind)[r].told
                                                     \/ Raises(r) \/ Reminds(r)
<1>1. r.kind # kind => Looked(kind)[r] = mem[r]
  BY DEF Looked
<1>2. CASE r.kind = kind /\ r \notin Rows(kind)
  BY <1>1, <1>2 DEF Looked
<1>3. CASE r.kind = kind /\ r \in Rows(kind)
  <2>1. Looked(kind)[r] = Latched(r)
    BY <1>3 DEF Looked
  <2>2. mem[r].sent # None => mem[r].told
    BY <1>3 DEF LatchInv, LatchIsEarned, Sending, Kinds
  <2>3. policy[r].down \in BOOLEAN
    BY <1>3, PolicyAssumption DEF Rows, TypeOK
  <2>4. CASE ~Failing(r)
    BY <1>3, <2>1, <2>4 DEF Latched
  <2>5. CASE Failing(r) /\ ~policy[r].down
    BY <1>3, <2>1, <2>2, <2>5 DEF Latched
  <2>6. CASE Failing(r) /\ policy[r].down
    <3>1. Latched(r) = [since |-> Since(r),
                        sent  |-> IF Raises(r) \/ Reminds(r) THEN 0 ELSE mem[r].sent,
                        told  |-> mem[r].told]
      BY <2>6 DEF Latched
    <3> QED BY <1>3, <2>1, <2>2, <3>1
  <2> QED BY <2>3, <2>4, <2>5, <2>6
<1> QED BY <1>1, <1>2, <1>3

\* Nothing is un-spent, and a step that spends a lock is out of the promise.
LEMMA LocksOnlyGrow ==
    ASSUME TypeOK, NEW what \in Resources, Spend(what)
    PROVE  /\ Unlocked' => Unlocked
           /\ what = "locks" => ~Unlocked'
<1>1. spent["locks"] \in Nat
  BY DEF TypeOK, Resources
<1>2. what = "locks" => spent'["locks"] = spent["locks"] + 1
  BY SpendTypes
<1>3. what # "locks" => spent'["locks"] = spent["locks"]
  BY SpendTypes DEF Resources
<1> QED BY <1>1, <1>2, <1>3 DEF Unlocked

\* As long as nothing was locked, what is in memory is saved.
LEMMA SaveLatches ==
    ASSUME TypeOK, Save
    PROVE  Unlocked' => Unlocked /\ saved' = mem
BY LocksOnlyGrow DEF Save, Unlocked, Resources

\* The round of alerts puts the line of every latch it sets in the outbox.
LEMMA FireLatches ==
    ASSUME TypeOK, LatchInv, NEW kind \in Kinds, Fire(kind)
    PROVE  LatchInv'
<1>a. LinesOfTheTurn'
  <2> SUFFICES ASSUME NEW h \in Hooks, NEW l \in outbox'[h]
               PROVE  phase' = Sending(l.rule.kind)
    BY DEF LinesOfTheTurn
  <2>1. l.rule \in Rows(kind)
    BY DEF Fire, Gathered
  <2>2. l.rule.kind = kind
    BY <2>1 DEF Rows
  <2>3. phase' = Sending(kind)
    BY <2>1 DEF Fire, AfterLook
  <2> QED BY <2>2, <2>3
<1> SUFFICES ASSUME Unlocked PROVE LatchInv'
  BY <1>a DEF Fire, Unlocked, LatchInv, LatchIsEarned, LineRemains, RestartForgetsNothing
<1>1. /\ phase = kind /\ mem' = Looked(kind) /\ outbox' = Gathered(kind)
      /\ saved' = saved /\ spent' = spent
      /\ phase' \in AfterLook(kind)
  BY DEF Fire
<1>2. ASSUME NEW r \in Rules
      PROVE  /\ mem'[r].sent # None /\ phase' # Sending(r.kind) => mem'[r].told
             /\ mem'[r] # Clear /\ phase' # Sending(r.kind) => saved'[r] = mem'[r]
             /\ mem'[r].sent # None /\ ~mem'[r].told /\ phase' = Sending(r.kind) =>
                    \E l \in outbox'[r.hook] : l.rule = r /\ l.word # "RECOVERED"
  <2>1. r.kind \in Kinds /\ r.hook \in Hooks
    BY RuleAssumption DEF Kinds
  <2>2. phase # Sending(r.kind)
    BY <1>1, <2>1 DEF Sending, Kinds
  <2>3. CASE r.kind # kind
    <3>1. mem'[r] = mem[r] /\ phase' # Sending(r.kind)
      BY <1>1, <2>1, <2>3, LookedLatches DEF Sending, AfterLook, After, Kinds
    <3> QED BY <1>1, <2>2, <3>1 DEF LatchInv, LatchIsEarned, RestartForgetsNothing
  <2>4. CASE r.kind = kind /\ Looked(kind)[r] = Clear
    BY <1>1, <2>4 DEF Clear
  <2>5. CASE /\ r.kind = kind /\ r \in Rows(kind)
             /\ Looked(kind)[r].sent # None => \/ Looked(kind)[r].told
                                               \/ Raises(r) \/ Reminds(r)
    <3>1. phase' = Sending(kind)
      BY <1>1, <2>5 DEF AfterLook
    <3>2. ASSUME Raises(r) \/ Reminds(r)
          PROVE  \E l \in outbox'[r.hook] : l.rule = r /\ l.word # "RECOVERED"
      <4>1. CASE Raises(r)
        <5>1. PICK l \in Lines : l.rule = r /\ l.word = "DOWN"
          <6>1. [rule |-> r, word |-> "DOWN"] \in Lines
            BY DEF Lines
          <6> QED BY <6>1
        <5>2. l \in Gathered(kind)[r.hook]
          BY <2>1, <2>5, <4>1, <5>1 DEF Gathered
        <5> QED BY <1>1, <5>1, <5>2
      <4>2. CASE Reminds(r)
        <5>1. PICK l \in Lines : l.rule = r /\ l.word = "REMINDER"
          <6>1. [rule |-> r, word |-> "REMINDER"] \in Lines
            BY DEF Lines
          <6> QED BY <6>1
        <5>2. l \in Gathered(kind)[r.hook]
          BY <2>1, <2>5, <4>2, <5>1 DEF Gathered
        <5> QED BY <1>1, <5>1, <5>2
      <4> QED BY <3>2, <4>1, <4>2
    <3> QED BY <1>1, <2>5, <3>1, <3>2
  <2> QED BY <1>1, <2>3, <2>4, <2>5, LookedLatches
<1>3. \A r \in Rules : saved'[r].sent # None => saved'[r].told
  BY <1>1 DEF LatchInv, LatchIsEarned
<1> QED
  BY <1>a, <1>2, <1>3 DEF LatchInv, LatchIsEarned, LineRemains, RestartForgetsNothing

\* Sending the message of one webhook tells or releases the rules it carries,
\* and leaves the lines of the other webhooks in the outbox.
LEMMA SendLatches ==
    ASSUME TypeOK, LatchInv, NEW kind \in Kinds, NEW h \in Hooks,
           Turn(kind, h), SentNext(h), saved' = saved, Unlocked' => Unlocked,
           Tell(Carried(h)) \/ Release(Carried(h))
    PROVE  LatchInv'
<1>a. LinesOfTheTurn'
  BY DEF LatchInv, LinesOfTheTurn, SentNext, TypeOK
<1> SUFFICES ASSUME Unlocked PROVE LatchInv'
  BY <1>a DEF LatchInv, LatchIsEarned, LineRemains, RestartForgetsNothing
<1>1. phase = Sending(kind) /\ phase' = phase
  BY DEF Turn, SentNext
<1>2. ASSUME NEW r \in Rules
      PROVE  /\ mem'[r].sent # None /\ phase' # Sending(r.kind) => mem'[r].told
             /\ mem'[r] # Clear /\ phase' # Sending(r.kind) => saved'[r] = mem'[r]
             /\ mem'[r].sent # None /\ ~mem'[r].told /\ phase' = Sending(r.kind) =>
                    \E l \in outbox'[r.hook] : l.rule = r /\ l.word # "RECOVERED"
  <2>1. r.hook \in Hooks /\ mem[r] \in Latches /\ r.kind \in Kinds
    BY RuleAssumption DEF TypeOK, Kinds
  <2>2. CASE r \in Carried(h)
    <3>1. phase = Sending(r.kind)
      BY <2>2 DEF Carried, LatchInv, LinesOfTheTurn
    <3>2. mem'[r].sent # None => mem'[r].told
      <4>1. CASE Tell(Carried(h))
        <5>1. mem'[r] = [mem[r] EXCEPT !.told = TRUE]
          BY <2>2, <4>1 DEF Tell
        <5> QED BY <2>1, <5>1 DEF Latches
      <4>2. CASE Release(Carried(h))
        <5>1. mem'[r] = [mem[r] EXCEPT !.sent = None, !.told = FALSE]
          BY <2>2, <4>2 DEF Release
        <5> QED BY <2>1, <5>1 DEF Latches
      <4> QED BY <4>1, <4>2
    <3> QED BY <1>1, <3>1, <3>2
  <2>3. CASE r \notin Carried(h)
    <3>1. mem'[r] = mem[r]
      BY <2>3 DEF Tell, Release
    <3>2. CASE phase # Sending(r.kind)
      BY <1>1, <3>1, <3>2 DEF LatchInv, LatchIsEarned, RestartForgetsNothing
    <3>3. CASE phase = Sending(r.kind) /\ mem[r].sent # None /\ ~mem[r].told
      <4>1. PICK l \in outbox[r.hook] : l.rule = r /\ l.word # "RECOVERED"
        BY <3>3 DEF LatchInv, LineRemains
      <4>2. r.hook # h
        BY <2>3, <4>1 DEF Carried
      <4>3. outbox'[r.hook] = outbox[r.hook]
        BY <2>1, <4>2 DEF SentNext, TypeOK
      <4> QED BY <1>1, <3>3, <4>1, <4>3
    <3> QED BY <1>1, <3>1, <3>2, <3>3
  <2> QED BY <2>2, <2>3
<1>3. \A r \in Rules : saved'[r].sent # None => saved'[r].told
  BY DEF LatchInv, LatchIsEarned
<1> QED
  BY <1>a, <1>2, <1>3 DEF LatchInv, LatchIsEarned, LineRemains, RestartForgetsNothing

\* Every step of the cycle keeps what the latches promise.
LEMMA CycleLatches == TypeOK /\ LatchInv /\ ReplyInRetry /\ CycleStep => LatchInv'
<1> SUFFICES ASSUME TypeOK, LatchInv, ReplyInRetry, CycleStep PROVE LatchInv'
  OBVIOUS
<1> USE DEF Sending, Kinds
<1>1. CASE StartCycle
  <2>1. /\ mem' = Aged(mem) /\ saved' = Aged(saved)
        /\ phase = "idle" /\ phase' = "probed"
        /\ outbox' = outbox /\ spent' = spent
    BY <1>1 DEF StartCycle
  <2>2. \A r \in Rules :
            /\ mem'[r].told = mem[r].told /\ saved'[r].told = saved[r].told
            /\ mem'[r].sent = None <=> mem[r].sent = None
            /\ saved'[r].sent = None <=> saved[r].sent = None
    BY <2>1, AgedLatches DEF TypeOK
  <2>3. \A r \in Rules : saved[r] = mem[r] => saved'[r] = mem'[r]
    BY <2>1 DEF Aged
  <2>4. ASSUME NEW r \in Rules, mem[r] = Clear PROVE mem'[r] = Clear
    <3>1. mem'[r] = [Clear EXCEPT !.since = Older(@), !.sent = Older(@)]
      BY <2>1, <2>4 DEF Aged
    <3>2. Older(None) = None
      BY OlderAge DEF Ages
    <3> QED BY <3>1, <3>2 DEF Clear
  <2>5. LinesOfTheTurn'
    BY <2>1, RuleAssumption DEF LatchInv, LinesOfTheTurn, TypeOK, Lines
  <2>6. LatchIsEarned' /\ LineRemains'
    BY <2>1, <2>2, RuleAssumption DEF LatchInv, LatchIsEarned, LineRemains, Unlocked
  <2>7. RestartForgetsNothing'
    BY <2>1, <2>3, <2>4 DEF LatchInv, RestartForgetsNothing, Unlocked
  <2> QED BY <2>5, <2>6, <2>7 DEF LatchInv
<1>2. ASSUME NEW moves \in BOOLEAN, Record(moves) PROVE LatchInv'
  BY <1>2, LatchesAlone DEF Record, Unlocked
<1>3. ASSUME NEW i \in Slots, NEW ok \in BOOLEAN, PostAgain(i, ok) PROVE LatchInv'
  BY <1>3, LatchesAlone DEF PostAgain, Unlocked
<1>4. ASSUME NEW i \in Slots, PostGone(i) PROVE LatchInv'
  BY <1>4, LatchesAlone DEF PostGone, Unlocked
<1>5. CASE WriteOutcome
  <2>1. Unlocked' => Unlocked
    BY <1>5, LocksOnlyGrow DEF WriteOutcome, Unlocked, Resources
  <2> QED BY <1>5, <2>1, LatchesAlone DEF WriteOutcome
<1>14. CASE CycleBreaks
  <2>1. Unlocked' => Unlocked
    BY <1>14, LocksOnlyGrow DEF CycleBreaks, Resources
  <2> QED BY <1>14, <2>1, LatchesAlone DEF CycleBreaks
<1>6. CASE Persist
  <2>1. /\ mem' = mem /\ phase = "retry" /\ phase' = "global" /\ outbox' = outbox
        /\ Unlocked' => Unlocked /\ saved' = mem
    BY <1>6, SaveLatches DEF Persist
  <2>2. LinesOfTheTurn'
    BY <2>1, RuleAssumption DEF LatchInv, LinesOfTheTurn, TypeOK, Lines
  <2> QED BY <2>1, <2>2, RuleAssumption
          DEF LatchInv, LatchIsEarned, LineRemains, RestartForgetsNothing, Unlocked
<1>7. CASE SkipGlobal
  BY <1>7, LatchesAlone DEF SkipGlobal, Unlocked
<1>8. ASSUME NEW kind \in Kinds, Fire(kind) PROVE LatchInv'
  BY <1>8, FireLatches
<1>9. ASSUME NEW kind \in Kinds, SaveSent(kind) PROVE LatchInv'
  <2>1. /\ mem' = mem /\ phase = Sending(kind) /\ phase' = After(kind)
        /\ outbox' = outbox /\ outbox = NoLines
        /\ Unlocked' => Unlocked /\ saved' = mem
    BY <1>9, SaveLatches DEF SaveSent
  <2>2. LinesOfTheTurn'
    BY <2>1 DEF LinesOfTheTurn, NoLines
  <2>3. ASSUME Unlocked, NEW r \in Rules, mem[r].sent # None PROVE mem[r].told
    BY <2>1, <2>3, RuleAssumption DEF LatchInv, LatchIsEarned, LineRemains, NoLines
  <2>4. \A r \in Rules : phase' # Sending(r.kind)
    BY <2>1 DEF After
  <2> QED BY <2>1, <2>2, <2>3, <2>4
          DEF LatchInv, LatchIsEarned, LineRemains, RestartForgetsNothing, Unlocked
<1>10. ASSUME NEW kind \in Kinds, NEW h \in Hooks, Delivered(kind, h) PROVE LatchInv'
  BY <1>10, SendLatches DEF Delivered, Unlocked
<1>11. ASSUME NEW kind \in Kinds, NEW h \in Hooks, Refused(kind, h) PROVE LatchInv'
  BY <1>11, SendLatches DEF Refused, Unlocked
<1>12. ASSUME NEW kind \in Kinds, NEW h \in Hooks, Unsent(kind, h) PROVE LatchInv'
  <2>1. Unlocked' => Unlocked
    BY <1>12, LocksOnlyGrow DEF Unsent, Unlocked, Resources
  <2> QED BY <1>12, <2>1, SendLatches DEF Unsent
<1>13. ASSUME NEW kind \in Kinds, NEW h \in Hooks, LogRaises(kind, h) PROVE LatchInv'
  <2>1. ~Unlocked'
    BY <1>13, LocksOnlyGrow DEF LogRaises, Resources
  <2>2. LinesOfTheTurn'
    BY <1>13 DEF LogRaises, LinesOfTheTurn, NoLines
  <2> QED BY <2>1, <2>2 DEF LatchInv, LatchIsEarned, LineRemains, RestartForgetsNothing
<1> QED
  BY <1>1, <1>2, <1>3, <1>4, <1>5, <1>6, <1>7, <1>8, <1>9, <1>10, <1>11, <1>12, <1>13, <1>14
     DEF CycleStep

\* Neither the operator nor a restart breaks it.
LEMMA SurroundingsLatches == TypeOK /\ LatchInv /\ Surroundings => LatchInv'
<1> SUFFICES ASSUME TypeOK, LatchInv, Surroundings PROVE LatchInv'
  OBVIOUS
<1> USE DEF cycle
<1>1. ASSUME NEW s \in Services, Flip(s) PROVE LatchInv'
  BY <1>1, LatchesAlone, LocksOnlyGrow DEF Flip, Resources
<1>2. ASSUME NEW s \in Services, CheckNow(s) PROVE LatchInv'
  BY <1>2, LatchesAlone, LocksOnlyGrow DEF CheckNow, Resources
<1>3. ASSUME NEW s \in Services, NEW to \in {"enabled", "disabled", "gone"}, SetLife(s, to)
      PROVE LatchInv'
  BY <1>3, LatchesAlone, LocksOnlyGrow DEF SetLife, Resources
<1>4. ASSUME NEW r \in Rules, NEW p \in Policies \cup {None}, SetPolicy(r, p) PROVE LatchInv'
  BY <1>4, LatchesAlone, LocksOnlyGrow DEF SetPolicy, Resources
<1>5. ASSUME NEW h \in Hooks, MendHook(h) PROVE LatchInv'
  BY <1>5, LatchesAlone, LocksOnlyGrow DEF MendHook, Resources
<1>6. ASSUME NEW h \in Hooks, DeleteHook(h) PROVE LatchInv'
  BY <1>6, LatchesAlone, LocksOnlyGrow DEF DeleteHook, Resources
<1>7. ASSUME NEW h \in Hooks, Crash(h) PROVE LatchInv'
  <2>1. /\ mem' = saved /\ saved' = saved /\ phase' = "idle" /\ outbox' = NoLines
        /\ Unlocked' => Unlocked
    BY <1>7, LocksOnlyGrow DEF Crash, Resources
  <2>2. LinesOfTheTurn'
    BY <2>1 DEF LinesOfTheTurn, NoLines
  <2>3. \A r \in Rules : phase' # Sending(r.kind)
    BY <2>1 DEF Sending
  <2> QED BY <2>1, <2>2, <2>3
          DEF LatchInv, LatchIsEarned, LineRemains, RestartForgetsNothing
<1> QED BY <1>1, <1>2, <1>3, <1>4, <1>5, <1>6, <1>7 DEF Surroundings

----------------------------------------------------------------------------
(* The queue.                                                              *)

\* The interruptions only grow.
LEMMA InterruptionsKept ==
    ASSUME TypeOK, UNCHANGED spent
    PROVE  Interruptions \in Nat /\ Interruptions' = Interruptions
BY DEF TypeOK, Resources, Interruptions

LEMMA InterruptionsGrow ==
    ASSUME TypeOK, NEW what \in Resources, Spend(what)
    PROVE  /\ Interruptions \in Nat /\ Interruptions' \in Nat
           /\ Interruptions' >= Interruptions
           /\ what \in {"crashes", "locks"} => Interruptions' = Interruptions + 1
<1>1. /\ spent["crashes"] \in Nat /\ spent["locks"] \in Nat
      /\ spent'["crashes"] \in Nat /\ spent'["locks"] \in Nat
  BY SpendTypes DEF TypeOK, Resources
<1>2. \A w \in Resources : spent'[w] = IF w = what THEN spent[w] + 1 ELSE spent[w]
  BY SpendTypes
<1>3. CASE what = "crashes"
  BY <1>1, <1>2, <1>3 DEF Interruptions, Resources
<1>4. CASE what = "locks"
  BY <1>1, <1>2, <1>4 DEF Interruptions, Resources
<1>5. CASE what \notin {"crashes", "locks"}
  BY <1>1, <1>2, <1>5 DEF Interruptions, Resources
<1> QED BY <1>3, <1>4, <1>5

\* A step that leaves the queue and the awaited answer alone keeps the counts.
LEMMA PostsAlone ==
    ASSUME TypeOK, PostInv, UNCHANGED <<queue, reply>>,
           Interruptions \in Nat, Interruptions' \in Nat, Interruptions' >= Interruptions,
           reply # None => phase' = phase
    PROVE  PostInv'
<1>1. \A i \in Slots : queue[i] # None => queue[i].posts \in Nat /\ queue[i].attempt \in Nat
  BY DEF TypeOK, Messages
<1> QED BY <1>1 DEF PostInv, ReplyInRetry, OkIsNoRefusal, PostsAreCounted, PostsSuffice

\* Queueing one more message, posted once, keeps them.
LEMMA EnqueuedPosts ==
    ASSUME TypeOK, PostInv, NEW h \in Hooks, Enqueue(h), reply' = reply, reply = None,
           Interruptions \in Nat, Interruptions' \in Nat, Interruptions' >= Interruptions
    PROVE  PostInv'
<1>1. PICK i \in Free : queue' = [queue EXCEPT ![i] = Queued(h)]
  BY DEF Enqueue
<1>3. ReplyInRetry'
  BY DEF ReplyInRetry
<1>4. ASSUME NEW j \in Slots, queue'[j] # None
      PROVE  /\ queue'[j].posts <= queue'[j].attempt + Interruptions
             /\ queue'[j].posts >= queue'[j].attempt
  <2>1. CASE j = i
    <3>1. queue'[j] = Queued(h)
      BY <1>1, <2>1 DEF TypeOK, Free
    <3>2. queue'[j].posts = 1 /\ queue'[j].attempt = 1
      BY <3>1 DEF Queued
    <3> QED BY <3>2
  <2>2. CASE j # i
    <3>1. queue'[j] = queue[j] /\ queue[j] \in Messages
      BY <1>1, <1>4, <2>2 DEF TypeOK, Free
    <3> QED BY <1>4, <3>1 DEF PostInv, PostsAreCounted, PostsSuffice, Messages
  <2> QED BY <2>1, <2>2
<1>5. \A j \in Slots : queue'[j] # None => queue'[j].posts \in Nat /\ queue'[j].attempt \in Nat
  <2>1. queue' \in [Slots -> Messages \cup {None}]
    BY <1>1, MessageTypes DEF TypeOK
  <2> QED BY <2>1 DEF Messages
<1> QED
  BY <1>3, <1>4, <1>5 DEF PostInv, OkIsNoRefusal, PostsAreCounted, PostsSuffice

\* Saving the latches, or failing to.
LEMMA SavePosts ==
    ASSUME TypeOK, Save
    PROVE  Interruptions \in Nat /\ Interruptions' \in Nat /\ Interruptions' >= Interruptions
BY InterruptionsKept, InterruptionsGrow DEF Save, Resources

\* Every step of the cycle keeps the counts.
LEMMA CyclePosts == TypeOK /\ PostInv /\ CycleStep => PostInv'
<1> SUFFICES ASSUME TypeOK, PostInv, CycleStep PROVE PostInv'
  OBVIOUS
<1> USE DEF Sending, Kinds
<1>a. /\ Interruptions \in Nat
      /\ UNCHANGED spent => Interruptions' = Interruptions
  BY InterruptionsKept DEF TypeOK, Resources, Interruptions
<1>b. ASSUME NEW i \in Slots, queue[i] # None
      PROVE  queue[i] \in Messages /\ queue[i].posts \in Nat /\ queue[i].attempt \in Nat
  BY <1>b DEF TypeOK, Messages
<1>1. CASE StartCycle
  <2>1. /\ queue' = [i \in Slots |-> Nearer(queue[i])]
        /\ reply' = reply /\ spent' = spent /\ phase = "idle"
    BY <1>1 DEF StartCycle
  <2>2. reply = None
    BY <2>1 DEF PostInv, ReplyInRetry
  <2>3. \A i \in Slots : queue'[i] # None =>
            /\ queue[i] # None
            /\ queue'[i].posts = queue[i].posts /\ queue'[i].attempt = queue[i].attempt
    BY <2>1, NearerMessage DEF TypeOK
  <2> QED BY <1>a, <2>1, <2>2, <2>3
           DEF PostInv, ReplyInRetry, OkIsNoRefusal, PostsAreCounted, PostsSuffice
<1>2. ASSUME NEW moves \in BOOLEAN, Record(moves) PROVE PostInv'
  BY <1>a, <1>2, PostsAlone DEF Record, PostInv, ReplyInRetry
<1>3. ASSUME NEW i \in Slots, NEW ok \in BOOLEAN, PostAgain(i, ok) PROVE PostInv'
  <2>1. /\ reply = None /\ phase = "retry" /\ phase' = phase /\ spent' = spent
        /\ queue[i] # None /\ reply' # None /\ reply'.row = i
    <3>1. \/ reply' = [row |-> i, ok |-> ok, refused |-> FALSE]
          \/ reply' = [row |-> i, ok |-> FALSE, refused |-> TRUE]
      BY <1>3 DEF PostAgain
    <3>2. [row |-> i, ok |-> ok, refused |-> FALSE] \in Replies
      BY DEF Replies
    <3>3. [row |-> i, ok |-> FALSE, refused |-> TRUE] \in Replies
      BY DEF Replies
    <3>4. reply' # None
      BY <3>1, <3>2, <3>3, NoneAssumption
    <3>5. reply'.row = i
      BY <3>1
    <3> QED BY <1>3, <3>4, <3>5 DEF PostAgain
  <2>2. CASE Postable(queue[i])
    <3>1. /\ queue' = [queue EXCEPT ![i].posts = @ + 1]
          /\ reply'.refused = FALSE
      BY <1>3, <2>2 DEF PostAgain
    <3>2. /\ queue'[i].posts = queue[i].posts + 1
          /\ queue'[i].attempt = queue[i].attempt
      <4>1. queue'[i] = [queue[i] EXCEPT !.posts = @ + 1]
        BY <3>1 DEF TypeOK
      <4> QED BY <1>b, <2>1, <4>1 DEF Messages
    <3>3. \A j \in Slots : j # i => queue'[j] = queue[j]
      BY <3>1 DEF TypeOK
    <3>4. PostsAreCounted'
      BY <1>a, <1>b, <2>1, <3>2, <3>3 DEF PostInv, PostsAreCounted
    <3>5. PostsSuffice'
      BY <1>a, <1>b, <2>1, <3>1, <3>2, <3>3 DEF PostInv, PostsSuffice
    <3> QED BY <2>1, <3>1, <3>4, <3>5 DEF PostInv, ReplyInRetry, OkIsNoRefusal
  <2>3. CASE ~Postable(queue[i])
    <3>1. queue' = queue /\ reply'.refused = TRUE
      BY <1>3, <2>3 DEF PostAgain
    <3>5. reply'.ok = FALSE
      BY <1>3, <2>3 DEF PostAgain
    <3>2. PostsAreCounted'
      BY <1>a, <1>b, <2>1, <3>1 DEF PostInv, PostsAreCounted
    <3>3. PostsSuffice'
      BY <1>a, <1>b, <2>1, <3>1 DEF PostInv, PostsSuffice
    <3> QED BY <2>1, <3>2, <3>3, <3>5 DEF PostInv, ReplyInRetry, OkIsNoRefusal
  <2> QED BY <2>2, <2>3
<1>4. ASSUME NEW i \in Slots, PostGone(i) PROVE PostInv'
  BY <1>a, <1>4, PostsAlone DEF PostGone
<1>5. CASE WriteOutcome
  <2>1. /\ reply # None /\ reply' = None
        /\ \/ queue' = [queue EXCEPT ![reply.row] =
                        IF @ = None \/ reply.ok \/ reply.refused THEN None ELSE Rescheduled(@)]
           \/ /\ queue[reply.row] # None /\ ~reply.refused
              /\ queue' = [queue EXCEPT ![reply.row] = Rescheduled(@)]
    BY <1>5 DEF WriteOutcome, TypeOK, PostInv, Replies, OkIsNoRefusal
  <2>2. reply.row \in Slots /\ reply.refused \in BOOLEAN
    BY <2>1 DEF TypeOK, Replies
  <2>5. Interruptions' \in Nat /\ Interruptions' >= Interruptions
    BY <1>a, <1>5, InterruptionsGrow DEF WriteOutcome, Resources
  <2>3. ASSUME NEW i \in Slots, queue'[i] # None
        PROVE  /\ queue'[i].posts <= queue'[i].attempt + Interruptions
               /\ queue'[i].posts >= queue'[i].attempt
    <3>1. CASE i # reply.row
      <4>1. queue'[i] = queue[i]
        BY <2>1, <2>2, <3>1 DEF TypeOK
      <4> QED BY <1>a, <1>b, <2>3, <3>1, <4>1
               DEF PostInv, OkIsNoRefusal, PostsAreCounted, PostsSuffice
    <3>2. CASE i = reply.row
      <4>1. /\ queue[i] # None /\ ~reply.refused
            /\ queue'[i] = Rescheduled(queue[i])
        BY <2>1, <2>2, <2>3, <3>2 DEF TypeOK
      <4>2. queue'[i] = [queue[i] EXCEPT !.attempt = @ + 1,
                                         !.wait = Backoff[queue[i].attempt + 1]]
        BY <2>3, <4>1 DEF Rescheduled
      <4>3. queue'[i].posts = queue[i].posts /\ queue'[i].attempt = queue[i].attempt + 1
        BY <1>b, <4>1, <4>2 DEF Messages
      <4> QED
        BY <1>a, <1>b, <2>1, <3>2, <4>1, <4>3
         DEF PostInv, OkIsNoRefusal, PostsAreCounted, PostsSuffice
    <3> QED BY <3>1, <3>2
  <2>4. ASSUME NEW i \in Slots, queue'[i] # None
        PROVE  queue'[i].posts \in Nat /\ queue'[i].attempt \in Nat
    BY <1>5, <2>4, CycleTypes DEF TypeOK, Messages
  <2> QED
    BY <1>a, <2>1, <2>3, <2>4, <2>5
     DEF PostInv, ReplyInRetry, OkIsNoRefusal, PostsAreCounted, PostsSuffice,
                                        OkIsNoRefusal
<1>14. CASE CycleBreaks
  <2>1. queue' = queue /\ reply' = None /\ Interruptions' = Interruptions + 1
    BY <1>14, InterruptionsGrow DEF CycleBreaks, Resources
  <2> QED BY <1>a, <1>b, <2>1
           DEF PostInv, ReplyInRetry, OkIsNoRefusal, PostsAreCounted, PostsSuffice,
                                  OkIsNoRefusal
<1>6. CASE Persist
  BY <1>6, SavePosts, PostsAlone DEF Persist
<1>7. CASE SkipGlobal
  BY <1>a, <1>7, PostsAlone DEF SkipGlobal, PostInv, ReplyInRetry
<1>8. ASSUME NEW kind \in Kinds, Fire(kind) PROVE PostInv'
  BY <1>a, <1>8, PostsAlone DEF Fire, PostInv, ReplyInRetry
<1>9. ASSUME NEW kind \in Kinds, SaveSent(kind) PROVE PostInv'
  BY <1>9, SavePosts, PostsAlone DEF SaveSent, PostInv, ReplyInRetry
<1>10. ASSUME NEW kind \in Kinds, NEW h \in Hooks, Delivered(kind, h) PROVE PostInv'
  BY <1>a, <1>10, PostsAlone DEF Delivered, SentNext
<1>11. ASSUME NEW kind \in Kinds, NEW h \in Hooks, Refused(kind, h) PROVE PostInv'
  <2>1. reply = None
    BY <1>11 DEF Refused, Turn, PostInv, ReplyInRetry
  <2> QED BY <1>a, <1>11, <2>1, EnqueuedPosts DEF Refused
<1>12. ASSUME NEW kind \in Kinds, NEW h \in Hooks, Unsent(kind, h) PROVE PostInv'
  <2>1. Interruptions' \in Nat /\ Interruptions' >= Interruptions
    BY <1>a, <1>12, InterruptionsGrow DEF Unsent, Resources
  <2> QED BY <1>a, <1>12, <2>1, PostsAlone DEF Unsent, SentNext
<1>13. ASSUME NEW kind \in Kinds, NEW h \in Hooks, LogRaises(kind, h) PROVE PostInv'
  <2>1. reply = None
    BY <1>13 DEF LogRaises, Turn, PostInv, ReplyInRetry
  <2>2. Interruptions' \in Nat /\ Interruptions' >= Interruptions
    BY <1>a, <1>13, InterruptionsGrow DEF LogRaises, Resources
  <2>3. CASE Enqueue(h)
    BY <1>a, <1>13, <2>1, <2>2, <2>3, EnqueuedPosts DEF LogRaises
  <2>4. CASE UNCHANGED queue
    BY <1>a, <1>13, <2>1, <2>2, <2>4, PostsAlone DEF LogRaises
  <2> QED BY <1>13, <2>3, <2>4 DEF LogRaises
<1> QED
  BY <1>1, <1>2, <1>3, <1>4, <1>5, <1>6, <1>7, <1>8, <1>9, <1>10, <1>11, <1>12, <1>13, <1>14
     DEF CycleStep

\* A restart may forget the outcome of one post; nothing else around the
\* cycle touches the counts.
LEMMA SurroundingsPosts == TypeOK /\ PostInv /\ Surroundings => PostInv'
<1> SUFFICES ASSUME TypeOK, PostInv, Surroundings PROVE PostInv'
  OBVIOUS
<1> USE DEF cycle
<1>b. \A i \in Slots : queue[i] # None =>
          queue[i] \in Messages /\ queue[i].posts \in Nat /\ queue[i].attempt \in Nat
  BY DEF TypeOK, Messages
<1>1. ASSUME NEW s \in Services, Flip(s) PROVE PostInv'
  BY <1>1, PostsAlone, InterruptionsGrow DEF Flip, Resources
<1>2. ASSUME NEW s \in Services, CheckNow(s) PROVE PostInv'
  BY <1>2, PostsAlone, InterruptionsGrow DEF CheckNow, Resources
<1>3. ASSUME NEW s \in Services, NEW to \in {"enabled", "disabled", "gone"}, SetLife(s, to)
      PROVE PostInv'
  BY <1>3, PostsAlone, InterruptionsGrow DEF SetLife, Resources
<1>4. ASSUME NEW r \in Rules, NEW p \in Policies \cup {None}, SetPolicy(r, p) PROVE PostInv'
  BY <1>4, PostsAlone, InterruptionsGrow DEF SetPolicy, Resources
<1>5. ASSUME NEW h \in Hooks, MendHook(h) PROVE PostInv'
  <2>1. /\ queue' = [i \in Slots |-> LeftBehind(queue[i], h)]
        /\ reply' = reply /\ phase' = phase
    BY <1>5 DEF MendHook
  <2>2. /\ Interruptions \in Nat /\ Interruptions' \in Nat
        /\ Interruptions' >= Interruptions
    BY <1>5, InterruptionsGrow DEF MendHook, Resources
  <2>3. \A i \in Slots : queue'[i] # None =>
            /\ queue[i] # None
            /\ queue'[i].posts = queue[i].posts /\ queue'[i].attempt = queue[i].attempt
    BY <2>1, LeftBehindMessage DEF TypeOK
  <2> QED BY <1>b, <2>1, <2>2, <2>3
           DEF PostInv, ReplyInRetry, OkIsNoRefusal, PostsAreCounted, PostsSuffice
<1>6. ASSUME NEW h \in Hooks, DeleteHook(h) PROVE PostInv'
  <2>1. /\ \A i \in Slots : queue'[i] # None => queue'[i] = queue[i]
        /\ reply' = reply /\ phase' = phase
    BY <1>6 DEF DeleteHook
  <2>2. /\ Interruptions \in Nat /\ Interruptions' \in Nat
        /\ Interruptions' >= Interruptions
    BY <1>6, InterruptionsGrow DEF DeleteHook, Resources
  <2> QED BY <1>b, <2>1, <2>2
           DEF PostInv, ReplyInRetry, OkIsNoRefusal, PostsAreCounted, PostsSuffice
<1>7. ASSUME NEW h \in Hooks, Crash(h) PROVE PostInv'
  <2>1. queue' = queue /\ reply' = None
    BY <1>7 DEF Crash
  <2>2. Interruptions' = Interruptions + 1 /\ Interruptions \in Nat
    BY <1>7, InterruptionsGrow DEF Crash, Resources
  <2> QED BY <1>b, <2>1, <2>2
           DEF PostInv, ReplyInRetry, OkIsNoRefusal, PostsAreCounted, PostsSuffice
<1> QED BY <1>1, <1>2, <1>3, <1>4, <1>5, <1>6, <1>7 DEF Surroundings

----------------------------------------------------------------------------
(* The theorems.                                                           *)

\* Every step, or stutter, keeps the invariant.
LEMMA NextIInv == IInv /\ [Next]_vars => IInv'
<1> SUFFICES ASSUME IInv, [Next]_vars PROVE IInv'
  OBVIOUS
<1>1. CASE CycleStep
  BY <1>1, CycleTypes, CycleLatches, CyclePosts DEF IInv, PostInv
<1>2. CASE Surroundings
  BY <1>2, SurroundingsTypes, SurroundingsLatches, SurroundingsPosts DEF IInv
<1>3. CASE UNCHANGED vars
  <2>1. TypeOK'
    BY <1>3 DEF IInv, TypeOK, vars, world, cycle
  <2>2. LatchInv'
    BY <1>3 DEF IInv, LatchInv, LatchIsEarned, LineRemains, LinesOfTheTurn,
                RestartForgetsNothing, Unlocked, vars, world, cycle
  <2>3. PostInv'
    BY <1>3 DEF IInv, PostInv, ReplyInRetry, OkIsNoRefusal, PostsAreCounted, PostsSuffice,
                Interruptions, vars, world, cycle
  <2> QED BY <2>1, <2>2, <2>3 DEF IInv
<1> QED BY <1>1, <1>2, <1>3 DEF Next

\* The invariant holds in every reachable state.
THEOREM AlertsInvariant == Spec => []IInv
BY InitIInv, NextIInv, PTL DEF Spec

\* Every variable of the health cycle keeps its type.
THEOREM AlertsTypeCorrect == Spec => []TypeOK
<1>1. IInv => TypeOK
  BY DEF IInv
<1> QED BY <1>1, AlertsInvariant, PTL

\* No latch, in memory or on disk, silences an alert that neither left nor is
\* queued, as long as no write was refused by a locked database.
THEOREM LatchesAreEarned == Spec => []LatchIsEarned
<1>1. IInv => LatchIsEarned
  BY DEF IInv, LatchInv
<1> QED BY <1>1, AlertsInvariant, PTL

\* A restart repeats no alert and forgets no delay, outside the loop that
\* sends the alerts of the rule.
THEOREM RestartsForgetNothing == Spec => []RestartForgetsNothing
<1>1. IInv => RestartForgetsNothing
  BY DEF IInv, LatchInv
<1> QED BY <1>1, AlertsInvariant, PTL

\* A queued message is posted at most once more than its attempts for each
\* time the process was killed or a write met a locked database.
THEOREM RetriesAreCounted == Spec => []PostsAreCounted
<1>1. IInv => PostsAreCounted
  BY DEF IInv, PostInv
<1> QED BY <1>1, AlertsInvariant, PTL

\* What a step may do to a queued message: it is dropped only when it was
\* delivered, when its webhook or its URL is gone, or when the backoff has no
\* tier left.
LEMMA DroppedWhenDone ==
    ASSUME IInv, Next, NEW i \in Slots, queue[i] # None, queue'[i] = None
    PROVE  \/ reply # None /\ reply.row = i /\ (reply.ok \/ reply.refused)
           \/ queue[i].hook \notin hooks'
           \/ queue[i].posts >= MaxAttempts
<1>1. /\ queue \in [Slots -> Messages \cup {None}] /\ queue[i] \in Messages
      /\ reply \in Replies \cup {None}
  BY DEF IInv, TypeOK
<1>2. CASE StartCycle
  BY <1>1, <1>2, NearerMessage DEF StartCycle
<1>3. CASE WriteOutcome
  <2>1. /\ reply # None /\ reply.row = i
        /\ \/ queue'[i] = IF reply.ok \/ reply.refused THEN None ELSE Rescheduled(queue[i])
           \/ reply.ok
    BY <1>1, <1>3 DEF WriteOutcome
  <2>2. CASE ~reply.ok /\ ~reply.refused
    <3>1. Rescheduled(queue[i]) = None
      BY <2>1, <2>2
    <3>2. CASE queue[i].attempt + 1 >= MaxAttempts
      BY <1>1, <2>1, <2>2, <3>2, BackoffAssumption
         DEF IInv, PostInv, PostsSuffice, Messages, MaxAttempts
    <3>3. CASE ~(queue[i].attempt + 1 >= MaxAttempts)
      <4>1. queue[i].attempt + 1 \in 1..Len(Backoff)
        BY <1>1, <3>3, BackoffAssumption DEF Messages, MaxAttempts
      <4>2. Backoff[queue[i].attempt + 1] \in Nat
        BY <4>1, BackoffAssumption
      <4>3. Rescheduled(queue[i]) \in Messages
        BY <1>1, <3>3, <4>1, <4>2 DEF Rescheduled, Messages
      <4> QED BY <3>1, <4>3, NoneAssumption
    <3> QED BY <3>2, <3>3
  <2> QED BY <2>1, <2>2
<1>4. ASSUME NEW j \in Slots, NEW ok \in BOOLEAN, PostAgain(j, ok) PROVE FALSE
  <2>1. queue' = queue \/ queue' = [queue EXCEPT ![j].posts = @ + 1]
    BY <1>4 DEF PostAgain
  <2>2. CASE queue' = [queue EXCEPT ![j].posts = @ + 1] /\ j = i
    <3>1. queue'[i] = [queue[i] EXCEPT !.posts = @ + 1]
      BY <1>1, <2>2
    <3>2. queue'[i] \in Messages
      BY <1>1, <3>1 DEF Messages
    <3> QED BY <3>2, NoneAssumption
  <2> QED BY <1>1, <2>1, <2>2
<1>5. ASSUME NEW h \in Hooks, Enqueue(h) PROVE FALSE
  <2>1. PICK j \in Free : queue' = [queue EXCEPT ![j] = Queued(h)]
    BY <1>5 DEF Enqueue
  <2>2. Queued(h) # None
    BY MessageTypes, NoneAssumption
  <2> QED BY <1>1, <2>1, <2>2 DEF Free
<1>6. ASSUME NEW h \in Hooks, DeleteHook(h) PROVE queue[i].hook \notin hooks'
  BY <1>6 DEF DeleteHook
<1>7. CASE CycleStep /\ ~StartCycle /\ ~WriteOutcome
  <2>1. \/ UNCHANGED queue
        \/ \E h \in Hooks : Enqueue(h)
        \/ \E j \in Slots, ok \in BOOLEAN : PostAgain(j, ok)
    BY <1>7 DEF CycleStep, Record, PostGone, CycleBreaks, Persist, SkipGlobal, Fire, SaveSent,
                Delivered, Refused, Unsent, LogRaises
  <2> QED BY <1>4, <1>5, <2>1
<1>8. CASE Surroundings
  <2>1. UNCHANGED queue \/ \E h \in Hooks : DeleteHook(h) \/ MendHook(h)
    BY <1>8 DEF Surroundings, Flip, CheckNow, SetLife, SetPolicy, Crash
  <2>2. ASSUME NEW h \in Hooks, MendHook(h) PROVE queue'[i] # None
    BY <1>1, <2>2, LeftBehindMessage DEF MendHook
  <2> QED BY <1>6, <2>1, <2>2
<1> QED BY <1>2, <1>3, <1>7, <1>8 DEF Next

\* No queued message is given up before every tier of the backoff was tried.
THEOREM NoMessageGivenUpEarly == Spec => NothingGivenUpEarly
<1>1. IInv /\ [Next]_vars =>
        [\A i \in Slots : queue[i] # None /\ queue'[i] = None =>
            \/ reply # None /\ reply.row = i /\ (reply.ok \/ reply.refused)
            \/ queue[i].hook \notin hooks'
            \/ queue[i].posts >= MaxAttempts]_vars
  BY DroppedWhenDone
<1> QED BY <1>1, AlertsInvariant, PTL DEF Spec, NothingGivenUpEarly
=============================================================================
