------------------------------- MODULE Alerts -------------------------------
(***************************************************************************)
(* The health cycle of app/scheduler.py: probe the enabled services, write *)
(* what was found, post again the notifications that are due, persist the  *)
(* alert state, then raise the alerts -- first those of the webhooks       *)
(* (_fire_global_webhook), then those of the services                      *)
(* (_fire_service_webhooks) -- and persist it again.                       *)
(*                                                                         *)
(* An alert is remembered by two latches per rule: since when the service  *)
(* is seen down, and when the alert was sent.  They live in memory and are *)
(* saved in the table scheduler_state; a notification that could not be    *)
(* sent is queued in webhook_delivery_log.  Around the cycle, the services *)
(* go up and down, an operator edits rules, webhooks and services or asks  *)
(* for a check, and the process is killed and started again.               *)
(*                                                                         *)
(* Time is counted in health-check intervals: the delay of a rule, the age *)
(* of a latch and the wait of a queued message are numbers of cycles.      *)
(*                                                                         *)
(* An operator that is called a slip is used by nothing: PROJECT.json      *)
(* names the property that notices it in the place of the one below it.    *)
(***************************************************************************)
EXTENDS Naturals, FiniteSets, Sequences

CONSTANTS
    None,
    Services,   \* the monitored services, by id
    Hooks,      \* the webhooks, by id; each has a URL of its own
    Rules,      \* [kind, hook, service]: the pairs an alert is keyed by
    Policies,   \* [down, up, delay, repeat]: what a rule may ask for
    Backoff,    \* the retry delays, _WEBHOOK_RETRY_BACKOFF
    MaxAge,     \* ages saturate here; above every delay and repeat
    Slots,      \* the places of the queue of the instance
    Flips,      \* how often a service may go up or down
    Edits,      \* how many edits the operator makes
    Crashes,    \* how often the process is killed
    Checks,     \* how often the operator asks for a check
    Locks       \* how often SQLite answers "database is locked"

ASSUME BackoffAssumption == Backoff \in Seq(Nat) /\ Len(Backoff) \in Nat \ {0}
ASSUME AgeAssumption == MaxAge \in Nat
ASSUME RuleAssumption ==
    Rules \subseteq [kind : {"global", "service"}, hook : Hooks, service : Services]
ASSUME PolicyAssumption ==
    Policies \subseteq [down : BOOLEAN, up : BOOLEAN, delay : 0..MaxAge, repeat : 0..MaxAge]
ASSUME BoundAssumption == {Flips, Edits, Crashes, Checks, Locks} \subseteq Nat

VARIABLES
    reach,      \* the services that accept a connection
    status,     \* services.status
    life,       \* a service is enabled, disabled or gone
    policy,     \* what each rule asks for; None when it has no row
    hooks,      \* the webhooks that exist
    usable,     \* the webhooks whose URL Apprise accepts
    phase,      \* where the cycle is
    probes,     \* what the probes of this cycle found
    changed,    \* whether this cycle saw anything change
    mem,        \* the latches in memory
    saved,      \* the latches in scheduler_state
    outbox,     \* the lines still to send, per webhook
    queue,      \* webhook_delivery_log, the pending rows
    batch,      \* the due rows this cycle has yet to post again
    reply,      \* the answer to the row just posted, not yet written down
    spent       \* what is used up of the bounds

world == <<reach, status, life, policy, hooks, usable>>
cycle == <<phase, probes, changed, outbox, batch, reply>>
vars == <<world, cycle, mem, saved, queue, spent>>

----------------------------------------------------------------------------
(* State.                                                                  *)

Phases == {"idle", "probed", "retry", "global", "globalSend", "service", "serviceSend"}

Ages == (0..MaxAge) \cup {None}

\* `told` is a history variable: the alert of the latch `sent` was delivered
\* or is in the queue.  It is set and cleared with the latch.
Latches == [since : Ages, sent : Ages, told : BOOLEAN]
Clear == [since |-> None, sent |-> None, told |-> FALSE]

Lines == [rule : Rules, word : {"DOWN", "REMINDER", "RECOVERED"}]
NoLines == [h \in Hooks |-> {}]

\* `bound`: the row carries its webhook_id, which is NULL otherwise.  `former`:
\* the webhook has been given another URL since, which the row does not follow.
\* `posts` is a history variable, how often the message was posted.
MaxAttempts == Len(Backoff) + 1
Messages == [hook : Hooks, bound : BOOLEAN, former : BOOLEAN,
             attempt : 1..Len(Backoff), wait : Nat, posts : Nat]

\* The answer to a post; `refused` when the URL of the row is unusable.
Replies == [row : Slots, ok : BOOLEAN, refused : BOOLEAN]

\* No value the program computes with is the absent one.
ASSUME NoneAssumption ==
    /\ None \notin Nat /\ None \notin Policies
    /\ None \notin Messages /\ None \notin Replies

Resources == {"flips", "edits", "crashes", "checks", "locks"}
Left(what) == spent[what] < CASE what = "flips"   -> Flips
                              [] what = "edits"   -> Edits
                              [] what = "crashes" -> Crashes
                              [] what = "checks"  -> Checks
                              [] what = "locks"   -> Locks
Spend(what) == Left(what) /\ spent' = [spent EXCEPT ![what] = @ + 1]

\* One health-check interval goes by.
Older(age) == IF age \in 0..MaxAge /\ age < MaxAge THEN age + 1 ELSE age
Aged(latches) ==
    [r \in Rules |-> [latches[r] EXCEPT !.since = Older(@), !.sent = Older(@)]]
Nearer(m) == IF m # None /\ m.wait > 0 THEN [m EXCEPT !.wait = @ - 1] ELSE m

Measured(s) == IF s \in reach THEN "ok" ELSE "error"
Enabled(s) == life[s] = "enabled"

Init ==
    /\ reach \in SUBSET Services
    /\ status = [s \in Services |-> "unknown"]
    /\ life = [s \in Services |-> "enabled"]
    /\ policy \in [Rules -> Policies]
    /\ hooks = Hooks
    /\ usable \in SUBSET Hooks
    /\ phase = "idle" /\ probes = [s \in {} |-> "ok"] /\ changed = FALSE
    /\ mem = [r \in Rules |-> Clear] /\ saved = mem
    /\ outbox = NoLines
    /\ queue = [i \in Slots |-> None] /\ batch = {} /\ reply = None
    /\ spent = [what \in Resources |-> 0]

----------------------------------------------------------------------------
(* The cycle: probe, write, post again, save.                              *)

\* The interval job starts: it reads the enabled services and probes them
\* with no transaction open.
StartCycle ==
    /\ phase = "idle"
    /\ mem' = Aged(mem) /\ saved' = Aged(saved)
    /\ queue' = [i \in Slots |-> Nearer(queue[i])]
    /\ probes' = [s \in {s \in Services : Enabled(s)} |->
                    [was |-> status[s], now |-> Measured(s)]]
    /\ changed' = FALSE
    /\ phase' = "probed"
    /\ UNCHANGED <<world, outbox, batch, reply, spent>>

\* A slip: a message on its last attempt is not selected.
DueBeforeLast == {i \in Slots : /\ queue[i] # None /\ queue[i].wait = 0
                                /\ queue[i].attempt < Len(Backoff)}
Due == {i \in Slots : queue[i] # None /\ queue[i].wait = 0}

\* The burst of writes.  A service deleted since the probe breaks the foreign
\* key of uptime_events: everything is rolled back and the cycle ends there.
\* `moves`: whether a provider changed state (_run_provider_health_checks).
Record(moves) ==
    /\ phase = "probed"
    /\ IF \E s \in DOMAIN probes : life[s] = "gone"
       THEN /\ phase' = "idle"
            /\ UNCHANGED <<status, changed, batch>>
       ELSE /\ status' = [s \in Services |->
                            IF s \in DOMAIN probes THEN probes[s].now ELSE status[s]]
            /\ changed' = (moves \/ \E s \in DOMAIN probes : probes[s].was # probes[s].now)
            /\ batch' = Due
            /\ phase' = "retry"
    /\ UNCHANGED <<reach, life, policy, hooks, usable, probes, mem, saved, outbox, queue, reply,
                   spent>>

\* Apprise still accepts the URL of the row.
Postable(m) == m.hook \in usable /\ ~m.former

\* _run_webhook_retry posts a due row of its list, ...
PostAgain(i, ok) ==
    /\ phase = "retry" /\ reply = None
    /\ i \in batch
    /\ queue[i] # None
    /\ IF Postable(queue[i])
       THEN /\ reply' = [row |-> i, ok |-> ok, refused |-> FALSE]
            /\ queue' = [queue EXCEPT ![i].posts = @ + 1]
       ELSE /\ ~ok
            /\ reply' = [row |-> i, ok |-> FALSE, refused |-> TRUE]
            /\ UNCHANGED queue
    /\ batch' = batch \ {i}
    /\ UNCHANGED <<world, phase, probes, changed, outbox, mem, saved, spent>>

\* ... or one that went with its webhook since the list was read: what it
\* writes afterwards meets no row.
PostGone(i) ==
    /\ phase = "retry" /\ reply = None
    /\ i \in batch
    /\ queue[i] = None
    /\ batch' = batch \ {i}
    /\ UNCHANGED <<world, phase, probes, changed, outbox, reply, mem, saved, queue, spent>>

\* Three slips in the rescheduling: the last tier is never reached, the bound
\* is one too far, the attempts are not counted.
GivenUpEarly(m) ==
    IF m.attempt + 1 >= Len(Backoff) THEN None
    ELSE [m EXCEPT !.attempt = @ + 1, !.wait = Backoff[m.attempt + 1]]
GivenUpLate(m) ==
    IF m.attempt + 1 > MaxAttempts THEN None
    ELSE [m EXCEPT !.attempt = @ + 1, !.wait = Backoff[m.attempt]]
NeverGivenUp(m) == [m EXCEPT !.wait = Backoff[m.attempt]]

\* A row whose last attempt failed is given up; the others wait for the tier
\* their attempt has reached.
Rescheduled(m) ==
    IF m.attempt + 1 >= MaxAttempts THEN None
    ELSE [m EXCEPT !.attempt = @ + 1, !.wait = Backoff[m.attempt + 1]]

\* The outcome of one row is written and committed.  Rows that are settled,
\* `delivered` or `failed`, leave the model: only a page and the purge read
\* them again.  A message that arrived counts as a failed attempt where the
\* line that says so meets a locked database: the handler around the post
\* catches that too, and reschedules.
WriteOutcome ==
    /\ phase = "retry" /\ reply # None
    /\ \/ /\ queue' = [queue EXCEPT ![reply.row] =
                          IF @ = None \/ reply.ok \/ reply.refused THEN None ELSE Rescheduled(@)]
          /\ UNCHANGED spent
       \/ /\ reply.ok /\ queue[reply.row] # None
          /\ queue' = [queue EXCEPT ![reply.row] = Rescheduled(@)]
          /\ Spend("locks")
    /\ reply' = None
    /\ UNCHANGED <<world, phase, probes, changed, outbox, batch, mem, saved>>

\* A write outside every handler meets a locked database, in the burst or
\* behind a post: what was not committed is rolled back, the exception leaves
\* run_health_checks, and a row that was posted keeps its attempt.
CycleBreaks ==
    /\ phase \in {"probed", "retry"}
    /\ Spend("locks")
    /\ phase' = "idle" /\ batch' = {} /\ reply' = None
    /\ UNCHANGED <<world, probes, changed, outbox, mem, saved, queue>>

\* _save_scheduler_state logs what stops it and returns.
Save == \/ saved' = mem /\ UNCHANGED spent
        \/ Spend("locks") /\ UNCHANGED saved

Persist ==
    /\ phase = "retry" /\ reply = None /\ batch = {}
    /\ Save
    /\ phase' = "global"
    /\ UNCHANGED <<world, probes, changed, outbox, batch, reply, mem, queue>>

----------------------------------------------------------------------------
(* The alerts.  Both functions compute the latches of all their rules      *)
(* first, gathering one message per URL, then send the messages one by     *)
(* one, then save.                                                         *)

\* The rows of the query, within the scope of their webhook.  One query asks
\* for webhooks that alert on something, the other for any rule.
Rows(kind) == {r \in Rules : /\ r.kind = kind
                             /\ policy[r] # None
                             /\ kind = "global" => policy[r].down \/ policy[r].up
                             /\ r.hook \in hooks
                             /\ Enabled(r.service)}

Failing(r) == status[r.service] = "error"
Since(r) == IF mem[r].since = None THEN 0 ELSE mem[r].since

Raises(r) ==
    /\ Failing(r) /\ policy[r].down
    /\ mem[r].sent = None
    /\ Since(r) >= policy[r].delay

Reminds(r) ==
    /\ Failing(r) /\ policy[r].down
    /\ mem[r].sent # None
    /\ r.kind = "global" /\ policy[r].repeat > 0
    /\ mem[r].sent >= policy[r].repeat

Recovers(r) ==
    /\ status[r.service] = "ok" /\ policy[r].up
    /\ mem[r].since # None \/ mem[r].sent # None

\* The latches of a rule after its row was looked at.
Latched(r) ==
    CASE ~Failing(r)      -> Clear
      [] Failing(r) /\ ~policy[r].down -> mem[r]
      [] Failing(r) /\ policy[r].down ->
            [since |-> Since(r),
             sent  |-> IF Raises(r) \/ Reminds(r) THEN 0 ELSE mem[r].sent,
             told  |-> mem[r].told]

\* Rules without a row lose their latches.
Looked(kind) ==
    [r \in Rules |-> IF r.kind # kind THEN mem[r]
                     ELSE IF r \in Rows(kind) THEN Latched(r) ELSE Clear]

Gathered(kind) ==
    [h \in Hooks |-> {l \in Lines :
        /\ l.rule \in Rows(kind) /\ l.rule.hook = h
        /\ \/ l.word = "DOWN" /\ Raises(l.rule)
           \/ l.word = "REMINDER" /\ Reminds(l.rule)
           \/ l.word = "RECOVERED" /\ Recovers(l.rule)}]

Sending(kind) == IF kind = "global" THEN "globalSend" ELSE "serviceSend"
After(kind) == IF kind = "global" THEN "service" ELSE "idle"

\* Without a row the function returns before it saves; a webhook whose rows
\* are all out of scope is one it does not return for.
AfterLook(kind) ==
    IF Rows(kind) # {} THEN {Sending(kind)}
    ELSE IF kind = "global" THEN {After(kind), Sending(kind)}
    ELSE {After(kind)}

Fire(kind) ==
    /\ phase = kind
    /\ kind = "global" => changed
    /\ mem' = Looked(kind)
    /\ outbox' = Gathered(kind)
    /\ phase' \in AfterLook(kind)
    /\ UNCHANGED <<world, probes, changed, batch, reply, saved, queue, spent>>

\* `if changed: _fire_global_webhook()`.
SkipGlobal ==
    /\ phase = "global" /\ ~changed
    /\ phase' = "service"
    /\ UNCHANGED <<world, probes, changed, outbox, batch, reply, mem, saved, queue, spent>>

\* The rules whose latch a message carries (keys_by_url), and whether the
\* message names its webhook (webhook_id_by_url).
Carried(h) == {r \in Rules : \E l \in outbox[h] : l.rule = r /\ l.word # "RECOVERED"}
Bound(h) == Carried(h) # {}

Tell(rules) == mem' = [r \in Rules |-> IF r \in rules THEN [mem[r] EXCEPT !.told = TRUE] ELSE mem[r]]
\* A slip: the latch of a message that was not sent stays.
KeepLatch(rules) == mem' = [r \in Rules |-> mem[r]]
Release(rules) ==
    mem' = [r \in Rules |-> IF r \in rules THEN [mem[r] EXCEPT !.sent = None, !.told = FALSE]
                            ELSE mem[r]]

Queued(h) == [hook |-> h, bound |-> Bound(h), former |-> FALSE, attempt |-> 1,
              wait |-> Backoff[1], posts |-> 1]
Free == {i \in Slots : queue[i] = None}
Enqueue(h) == \E i \in Free : queue' = [queue EXCEPT ![i] = Queued(h)]

SentNext(h) == outbox' = [outbox EXCEPT ![h] = {}] /\ UNCHANGED phase

Turn(kind, h) ==
    /\ phase = Sending(kind)
    /\ outbox[h] # {}

Delivered(kind, h) ==
    /\ Turn(kind, h)
    /\ h \in usable
    /\ Tell(Carried(h))
    /\ SentNext(h)
    /\ UNCHANGED <<world, probes, changed, batch, reply, saved, queue, spent>>

\* The send fails and the message is queued.  A message that names no webhook
\* is queued whether its webhook still exists or not.
Refused(kind, h) ==
    /\ Turn(kind, h)
    /\ h \in usable
    /\ Bound(h) => h \in hooks
    /\ Enqueue(h)
    /\ Tell(Carried(h))
    /\ SentNext(h)
    /\ UNCHANGED <<world, probes, changed, batch, reply, saved, spent>>

\* Nothing left and nothing is queued: the URL is no Apprise URL, or the row
\* cannot be written -- its webhook is gone, or the database is locked.
Unsent(kind, h) ==
    /\ Turn(kind, h)
    /\ \/ h \notin usable /\ UNCHANGED spent
       \/ h \in usable /\ Bound(h) /\ h \notin hooks /\ UNCHANGED spent
       \/ h \in usable /\ Spend("locks")
    /\ Release(Carried(h))
    /\ SentNext(h)
    /\ UNCHANGED <<world, probes, changed, batch, reply, saved, queue>>

\* The line that logs a failed or an impossible delivery meets a locked database and raises:
\* the exception leaves the loop over the URLs, and the save.
LogRaises(kind, h) ==
    /\ Turn(kind, h)
    /\ Spend("locks")
    /\ \/ h \in usable /\ (Bound(h) => h \in hooks) /\ Enqueue(h) /\ Tell(Carried(h))
       \/ h \notin usable /\ UNCHANGED <<queue, mem>>
    /\ outbox' = NoLines
    /\ phase' = After(kind)
    /\ UNCHANGED <<world, probes, changed, batch, reply, saved>>

\* A slip: the latches are not saved after the sends.
SentUnsaved(kind) ==
    /\ phase = Sending(kind)
    /\ outbox = NoLines
    /\ phase' = After(kind)
    /\ UNCHANGED <<world, probes, changed, outbox, batch, reply, mem, saved, queue, spent>>

SaveSent(kind) ==
    /\ phase = Sending(kind)
    /\ outbox = NoLines
    /\ Save
    /\ phase' = After(kind)
    /\ UNCHANGED <<world, probes, changed, outbox, batch, reply, mem, queue>>

----------------------------------------------------------------------------
(* What happens around the cycle.                                          *)

\* A service starts or stops accepting connections.
Flip(s) ==
    /\ Spend("flips")
    /\ reach' = IF s \in reach THEN reach \ {s} ELSE reach \cup {s}
    /\ UNCHANGED <<status, life, policy, hooks, usable, cycle, mem, saved, queue>>

\* The check an operator asks for writes the status and raises no alert.
CheckNow(s) ==
    /\ life[s] # "gone"
    /\ status[s] # Measured(s)
    /\ Spend("checks")
    /\ status' = [status EXCEPT ![s] = Measured(s)]
    /\ UNCHANGED <<reach, life, policy, hooks, usable, cycle, mem, saved, queue>>

SetLife(s, to) ==
    /\ life[s] # "gone" /\ life[s] # to
    /\ Spend("edits")
    /\ life' = [life EXCEPT ![s] = to]
    /\ UNCHANGED <<reach, status, policy, hooks, usable, cycle, mem, saved, queue>>

SetPolicy(r, p) ==
    /\ r.hook \in hooks /\ life[r.service] # "gone"
    /\ policy[r] # p
    /\ Spend("edits")
    /\ policy' = [policy EXCEPT ![r] = p]
    /\ UNCHANGED <<reach, status, life, hooks, usable, cycle, mem, saved, queue>>

\* A stored URL that Apprise refuses is replaced by one it accepts.  The rows
\* in the queue keep the URL they were written with.
LeftBehind(m, h) == IF m # None /\ m.hook = h THEN [m EXCEPT !.former = TRUE] ELSE m
MendHook(h) ==
    /\ h \in hooks \ usable
    /\ Spend("edits")
    /\ usable' = usable \cup {h}
    /\ queue' = [i \in Slots |-> LeftBehind(queue[i], h)]
    /\ UNCHANGED <<reach, status, life, policy, hooks, cycle, mem, saved>>

\* The queued messages that name the webhook go with it.
DeleteHook(h) ==
    /\ h \in hooks
    /\ Spend("edits")
    /\ hooks' = hooks \ {h}
    /\ queue' = [i \in Slots |-> IF queue[i] # None /\ queue[i].hook = h /\ queue[i].bound
                                 THEN None ELSE queue[i]]
    /\ UNCHANGED <<reach, status, life, policy, usable, cycle, mem, saved>>

\* The process is killed and started again, perhaps with an Apprise that no
\* longer knows the scheme of some URL: the latches are the saved ones.
Crash(h) ==
    /\ Spend("crashes")
    /\ mem' = saved
    /\ phase' = "idle" /\ probes' = [s \in {} |-> "ok"] /\ changed' = FALSE
    /\ outbox' = NoLines /\ batch' = {} /\ reply' = None
    /\ usable' \in {usable, usable \ {h}}
    /\ UNCHANGED <<reach, status, life, policy, hooks, saved, queue>>

Kinds == {"global", "service"}

CycleStep ==
    \/ StartCycle
    \/ \E moves \in BOOLEAN : Record(moves)
    \/ \E i \in Slots, ok \in BOOLEAN : PostAgain(i, ok)
    \/ \E i \in Slots : PostGone(i)
    \/ WriteOutcome
    \/ CycleBreaks
    \/ Persist
    \/ SkipGlobal
    \/ \E kind \in Kinds : Fire(kind) \/ SaveSent(kind)
    \/ \E kind \in Kinds, h \in Hooks :
          Delivered(kind, h) \/ Refused(kind, h) \/ Unsent(kind, h) \/ LogRaises(kind, h)

Surroundings ==
    \/ \E s \in Services : Flip(s) \/ CheckNow(s)
    \/ \E s \in Services, to \in {"enabled", "disabled", "gone"} : SetLife(s, to)
    \/ \E r \in Rules, p \in Policies \cup {None} : SetPolicy(r, p)
    \/ \E h \in Hooks : MendHook(h) \/ DeleteHook(h) \/ Crash(h)

Next == CycleStep \/ Surroundings

Spec == Init /\ [][Next]_vars

\* The scheduler runs the job again after each interval and a running cycle
\* goes on: every call it makes returns.
FairSpec == Spec /\ WF_vars(CycleStep)

----------------------------------------------------------------------------
(* Properties.                                                             *)

\* Every variable has its type.
TypeOK ==
    /\ reach \subseteq Services /\ hooks \subseteq Hooks /\ usable \subseteq Hooks
    /\ status \in [Services -> {"unknown", "ok", "error"}]
    /\ life \in [Services -> {"enabled", "disabled", "gone"}]
    /\ policy \in [Rules -> Policies \cup {None}]
    /\ phase \in Phases /\ changed \in BOOLEAN
    /\ DOMAIN probes \subseteq Services
    /\ \A s \in DOMAIN probes : probes[s].now \in {"ok", "error"}
    /\ mem \in [Rules -> Latches] /\ saved \in [Rules -> Latches]
    /\ outbox \in [Hooks -> SUBSET Lines]
    /\ queue \in [Slots -> Messages \cup {None}]
    /\ batch \subseteq Slots
    /\ reply \in Replies \cup {None}
    /\ spent \in [Resources -> Nat]

Unlocked == spent["locks"] = 0

\* A latch never silences an alert nobody was sent: outside the loop that is
\* sending it, a rule that counts as alerted -- in memory, and in what a
\* restart would load -- had its alert delivered or queued
\* (_try_send_apprise and its two callers).
LatchIsEarned ==
    Unlocked =>
        \A r \in Rules :
            /\ mem[r].sent # None /\ phase # Sending(r.kind) => mem[r].told
            /\ saved[r].sent # None => saved[r].told

\* A restart neither repeats an alert nor starts a delay again: outside the
\* loop that sends the alerts of a rule, what memory holds of it was saved
\* (_save_scheduler_state, called once before the alerts and once after each
\* of the two loops).
RestartForgetsNothing ==
    Unlocked =>
        \A r \in Rules :
            mem[r] # Clear /\ phase # Sending(r.kind) => saved[r] = mem[r]

\* How often the outcome of a post may have been lost.
Interruptions == spent["crashes"] + spent["locks"]

\* A queued message is posted once per attempt, and once more at most for
\* each time the process was killed, or the database was locked, before the
\* outcome was written (_run_webhook_retry commits per row).
PostsAreCounted ==
    \A i \in Slots : queue[i] # None =>
        queue[i].posts <= queue[i].attempt + Interruptions
                            + (IF reply # None /\ reply.row = i THEN 1 ELSE 0)

\* A message leaves the queue because it was delivered, because its webhook
\* was deleted or its URL became unusable, or after every tier of the backoff.
NothingGivenUpEarly ==
    [][\A i \in Slots : queue[i] # None /\ queue'[i] = None =>
            \/ reply # None /\ reply.row = i /\ (reply.ok \/ reply.refused)
            \/ queue[i].hook \notin hooks'
            \/ queue[i].posts >= MaxAttempts]_vars

\* Every queued message is settled in the end.
EveryDeliverySettles == \A i \in Slots : []<>(queue[i] = None)

Outage(r) == r \in Rows(r.kind) /\ policy[r].down /\ r.hook \in usable /\ Failing(r)

\* A service that stays down under a rule that asks for it is announced in
\* the end, whatever the delay, the restarts and the edits before.
OutageIsAnnounced ==
    \A r \in Rules : r.kind = "service" => (Outage(r) ~> (mem[r].told \/ ~Outage(r)))
=============================================================================
