# A TLA+ development of Vauxtra

Vauxtra keeps a table of services in SQLite and publishes each of them on reverse
proxies and DNS servers; a scheduler watches the services and raises alerts. This
directory models the three places where that is hard:

- **what becomes of the routes of a service** when a request is a chain of provider calls
  any of which may be refused (`Providers`, `Publication`);
- **what becomes of an alert** when the process may be killed, the database locked and the
  notification refused between any two steps (`Alerts`);
- **what the panel shows and sends** when the operator, the answers to the requests under way, the reads of react-query and another browser interleave (27 modules of pages, forms
  and dialogs, and `Wizard`, over `Queries`). The panel is the larger part of the program.

All paths below are those of the repository. Lines are given per definition in
`PROJECT.json`, under `map`.

## Inventory

| Part | State it keeps | Operations | Hard because |
|---|---|---|---|
| Service routes, `app/api/services.py` | `services`, `service_push_targets` | POST, PUT, PATCH, DELETE, bulk enable/disable/delete, manual checks | many provider calls and two transactions per request; check-then-write on the host name |
| Push, withhold, withdraw, `app/api/sync.py` | none of its own; writes `npm_host_id`, `dns_ip` | push, withdraw, withhold, extras, drift, reconcile, scan, import | reads the row once and calls providers for seconds afterwards; every failure must be told |
| Health cycle, `run_health_checks` | `services.status`, `uptime_events` | probe, write, retry, persist, alert | writes after probing without a transaction; a row may be gone by then |
| Alerts, `_fire_global_webhook`, `_fire_service_webhooks` | four dictionaries in memory, saved in `scheduler_state` | raise, remind, recover, release, save | latches set before the send, saved after it; crashes, edits and failures in between |
| Retry queue, `_try_send_apprise`, `_run_webhook_retry` | `webhook_delivery_log` | queue, post again, reschedule, give up | post and outcome are two steps; webhooks are deleted and edited meanwhile |
| Dynamic DNS, `_run_dns_auto_updates` | failures counted in memory | detect, update, break the circuit | counter across cycles, edits in between |
| Reconcile, `run_auto_reconcile`, `reconcile_service` | a lock per run | drift check, push | works on a list read at its start |
| NPM synchronisation, `_sync_npm_statuses` | `services.enabled` | copy NPM's flag onto rows | races with a switch in progress |
| Certificates, `_run_cert_expiry_alerts` | one level and one time per certificate, memory only | alert once per level | forgotten by a restart |
| Webhook routes, `app/api/webhooks.py` | `webhooks`, `webhook_targets`, `service_alerts` | CRUD, rules of a service, test | edits under a running cycle |
| Providers, `app/providers/*` | the external stores | list, create, update, toggle, delete | ids, upserts, suspensions and lost answers differ per product |
| Provider routes, `app/api/providers.py` | `providers` | CRUD, deletion with withdrawal | partial failure over many services |
| Public target, `app/public_target.py` | none | resolve, detect | the answer changes over time |
| Database, `app/db.py`, `app/models.py` | every table | migrations, cascades, indexes, one writer | the busy timeout is an exception in the middle of a handler |
| Authentication, settings, backup, templates, tags, environments, Docker discovery, metrics, MCP bridge | rows of their own | CRUD and reads | sequential; nothing that interleaves with the above beyond a row being gone |

The panel (`frontend/src`) runs in a browser. It is single-threaded, but every request is
a pair of moments, the click and the landing of the answer, and anything may happen
between the two.

| Part of the panel | State it keeps | Operations | Hard because |
|---|---|---|---|
| Boot gate, sign-in, wizard, `App.tsx`, `Login.tsx`, `Setup.tsx` | the answer of `/auth/me`, a mark in `sessionStorage`, the steps of the wizard | check, sign in and out, change the password, connect, scan, import, restore, finish | the wizard's own requests end the setup for the server half way; a 401 of any request asks the gate again; scans overlap |
| Integrations page, `Providers.tsx` | the list, four sets of busy ids, the run of "Check all", the last manual checks | test, validate, switch, delete with a second question, score | switches and reads land in any order; scores are memoised over a clock |
| Integration form and drawer, `ProviderFormStep.tsx`, `ProviderModal.tsx`, `ProviderInspector.tsx` | a draft, a step, a verdict; one search per table and integration | pick a type, fill in, validate, save; search | the same form in two hosts; step numbers outlive their type |
| Endpoints page and drift drawer, `Services.tsx`, `DriftDrawer.tsx` | the list, ticks, busy rows, a loop of checks, a report per service | switch, delete, check, reconcile, one or many | ids fixed at the click, rows that go meanwhile, reports a push makes obsolete |
| Route form, expose dialog, templates, `ServiceForm.tsx`, `ExposeModal.tsx`, `TemplateModal.tsx` | a draft, the answers of preflight and dry run, what was saved | edit, check, review, save, push, label, copy | the form stays open to edits while requests are out |
| Dialogs, `useModalDialog.ts`, `ConfirmDialog.tsx`, `Modal.tsx`, `Drawer.tsx` | a stack in a module variable, the focus, the scroll lock, one pending promise | open, key, click, close, `confirm()` | one key is heard by every open dialog in the order of their effects |
| Settings: cards, tags, domains, webhooks, rules of a service, scan and import, Docker, journal | drafts over what was read | edit, save, rename, delete, test, import, stream | a refetch in the middle of an edit; questions that outlive what they describe; a stream that drops |
| Monitoring and certificates | the answers of two routes each | poll, check, count, filter | the same figure computed in two places |
| Select and command palette | a highlight over a list that may change | keys, typing | lists land while they are open |
| API keys, export and restore, `ApiKeysTab.tsx`, `settings/data` | a secret shown once, a copy under way, a file read, the question about it | create, copy, revoke; export plain or sealed, restore, reset | answers of two keys and of the clipboard cross; what is written over is decided at the click and sent after a question |
| Dashboard, `Dashboard.tsx` | seven queries, two lists kept over a reload | read, count, reload | the same figure read in three ways, each of which may fail |
| Frame, language, theme, `Layout.tsx`, `i18n/index.tsx`, `theme.tsx` | a chord, the boxes of the frame, the language and its texts, the theme, what is stored of them | keys, links, choose, load, reload | a chord's time ends after the next has begun; loads of texts overtake one another |

How they meet: the routes call the push and withdrawal functions in process; both call
the providers over HTTP and share the database, whose single writer is the only lock
between two requests. The scheduler runs in the same process, in its own thread, calls
`_push_service_row` from its reconcile job, and reads whatever rows the routes leave. The
routes and the alert cycle meet in `services.enabled` and `services.status` and in the
webhook tables alone, which is why they are two models.

What makes each part correct: a route that no row stands behind was named in an error; a
service shown as off is dark; an answer without errors means the service is served; two
rows never claim one name; every request ends; an alert is silenced by nothing but an
alert that left; a restart neither repeats nor forgets; a queued message is posted as
often as its attempts say and no fewer; an outage that lasts is announced. For the panel: at
rest a page shows what the server holds, whatever order the answers came in; nothing spins
for ever; a question is answered once, a yes is meant, and what is sent is what the
question told; typed work goes only by a save that was made or a yes; two figures of one
thing agree.

The panel meets the other two parts only through the HTTP routes. Its modules keep beside
each page the part of the server it reads and writes (`hosts`, `server`, and the variables ending in `At`), as a
store that serves a request, refuses it, or serves it and loses the answer; what a route
does inside is in `Publication` and `Alerts`.

## Modules

### `Providers`

The external stores. `hosts[p]` is what proxy `p` lists and `recs[d]` the records of DNS
server `d`. The constants say which product behaves how:

| Constant | Products | Meaning |
|---|---|---|
| `Suspending` | NPM, Zoraxy | `toggle_host` exists |
| `HostKeyed` | Zoraxy, Cloudflare Tunnel | `HOST_ID_IS_HOSTNAME`: the id of a host is its name |
| `Upsert` | Cloudflare, Cloudflare Tunnel, PowerDNS, deSEC | adding replaces what the name had; updating a name-keyed host adds the new name before it drops the old one |
| `NumIds` | NPM | the numbers a host may get |
| `Faults` | | how many calls may go wrong in one behaviour |

A faulty call either did nothing or did everything and lost its answer; the handler
sees an exception (or `False`) in both cases. This is `_refused` and the `except` blocks.

### `Publication`

POST, PUT, DELETE, push and the bulk switches, for services in `proxy_dns` mode.
A request is a **session** (`ses[s]`): the row as it was read (`old`), the body or the
pushed row (`new`), the running value of `npm_host_id` (`hid`) and what was last written
of it (`saved`), whether `errors` is non-empty (`err`), and `todo`, the **tasks** it has
left. A task is one provider call, one transaction, or one decision between two calls. It
carries a **stage**; tasks run in the order of their stages, and tasks of one stage in any
order, since the code takes the extra targets in whatever order SQL returns them. The
stages are those of the code: of a PUT, 10 proxy, 20 DNS, 30 UPDATE, 40-45 withdrawal of
stale targets, 60 commit, 70 switch, 80 commit, 90 extras, 100-120 their push or
withdrawal. Between two tasks any other session may run, which is exactly what a
threadpool of handlers does.

- *Plans* (`PublishPlan`, `WithdrawPlan`, `WithholdPlan`, `PutProxyPlan`, `PutDnsPlan`,
  `SwitchPlan`, `FlipPlan`) are the loops of the code: which call to make on which target.
- *Call actions* (`FindHost`, `RenewHost`, `CreateNewHost`, ... , `QuitRecord`,
  `CheckKept`) are one call with both outcomes; a follow-up call (`After`) is part of
  the plan when the code makes it depend on the answer.
- *Row actions* (`InsertRow`, `WriteRow`, `CommitRow`, `Settle`, `RemoveRow`) are the
  transactions. `writer` is the session whose transaction is open. From the UPDATE of a
  PUT on, and in a whole push, a successful call is journalled on the connection of the
  request (`add_log(..., conn)`), which takes the writer lock (`Reply`); `GiveUp` is the
  busy timeout, an exception in the middle of the handler.
- `reported` collects `<<provider, name>>` for every error of a call: in the answer, or in the
  journal at the call, as a POST does (`services.py:1272`, 1289), so that a 409, which drops
  the errors it met, has said them. Its own line names the providers whose calls succeeded
  (`sent`, `PublishedOn`); one that failed after it was carried out is only in the line of the
  failure. An address that could not be detected is an error about every DNS server it was
  for (`Untargeted`). `unsaid`
  collects the two places where the code leaves something behind and says nothing by
  design or by a swallowed outcome: `DNSProvider.update_rewrite`
  (`app/providers/base.py:145`) and a listing that fails during a withdrawal. They are
  history variables; nothing reads them but properties.
- A finished session keeps its request, row id and `err` until the next request starts, as
  the answer that `CleanAnswerConverges` is about.

### `Alerts`

The health cycle from the probes to the save after the alerts. `mem` and `saved` are the
two pairs of latches (`since`, `sent`) per rule, in memory and in `scheduler_state`;
`outbox` is what the loop over the URLs has still to send; `queue` the pending rows of
`webhook_delivery_log`; `batch` and `reply` the inside of the retry loop. `phase` is the
program counter of the job, and everything else (`Flip`, `CheckNow`, `SetLife`,
`SetPolicy`, `MendHook`, `DeleteHook`, `Crash`) may happen between any two of its steps.

| Code | Actions |
|---|---|
| `run_health_checks` | `StartCycle`, `Record`, `SkipGlobal` |
| `_run_webhook_retry` | `PostAgain`, `PostGone`, `WriteOutcome` |
| `_save_scheduler_state` | `Persist`, `SaveSent`; either may meet a locked database, and goes on unsaved |
| a locked database while an outcome is written (777-807) | `CycleBreaks`: the cycle ends, a row that was posted keeps its count and is posted again |
| `_fire_global_webhook`, `_fire_service_webhooks` | `Fire(kind)` |
| `_try_send_apprise` | `Delivered`, `Refused`, `Unsent`, `LogRaises` |
| `_check_one` and `check_all` | `CheckNow` |
| service, rule and webhook routes | `SetLife`, `SetPolicy`, `MendHook`, `DeleteHook` |
| kill, `_load_scheduler_state` | `Crash` |

Time is counted in health-check intervals: `StartCycle` ages every latch and brings every
queued message one interval nearer. Ages saturate at `MaxAge`, which no delay or reminder
exceeds. `told` and `posts` are history variables, and `spent` counts what the instance allows
of flips, edits, crashes, checks and locks.

### The panel

`Queries` is what the pages use of react-query: a query is its last data, whether its last
fetch failed, and the fetch under way (`idle`, `asked`, with what an invalidation does
to either). Every page's reads are such records; `Landed`, `Failed`, `Asked` and `Reread`
are its operations. `Reread` is what an
answer's invalidation makes of a query that is shown: it is asked for again, whether idle or under
way; but a first read is not cancelled by it, and its answer, older than the write, is kept.
A read lands in the model as the server answers it, so that case is an idle query that misses
the invalidation; the pages remember it (`lost`, `missedHook`, `unheard` and their like).
The modules of the pages follow one scheme: the server's part, the
queries, React state, and a set of requests each with a stage (`at`) from the click
(`sent`) to the moment its answer reaches the page (`done`, `failed`). There is an action
per handler, one for the server serving a request, and one per landing
(`onSuccess`/`onError`/`onSettled` with the invalidations they make). A request whose
answer was lost is one that the server served and the page sees fail.

| Module | Code | What the state is |
|---|---|---|
| `Wizard` | `App.tsx`, `Setup.tsx`, `components/features/setup`, `lib/setupSession.ts` | the gate (`auth`), the cookie, the mark (`store`), the steps (`setup`), the requests (`calls`) and the scans under way |
| `Access` | `App.tsx`, `Login.tsx`, `SecurityTab.tsx`, `api/client.ts` | the status as answered and as landed (`gateHeard`, `gateQ`), both forms, the count-down, a page's request |
| `Integrations` | `Providers.tsx`, `useProviderMutations.ts` | `list`, the busy ids per kind, `refresh` (the ids "Check all" waits for), `calls`, the question |
| `ProviderHealth` | `Providers.tsx`, `providerHealth.ts` | the three readings behind a score and the checks that were `counted` in it |
| `Inspector` | `ProviderInspector.tsx` | the drawer's queries and searches, told apart by integration |
| `ProviderForm` | `ProviderFormStep.tsx`, `ProviderModal.tsx` | the draft by field, step, mode, verdict, and posts that know whether their form is still there |
| `ServiceList`, `DriftReport` | `Services.tsx`, `DriftDrawer.tsx` | list, ticks, `acting`, requests, the bulk loop (`run`); a report as the number of pushes it has seen |
| `RouteForm` | `ServiceForm.tsx`, `_internal.ts` | the draft of a route, what is wrong with it, the payload of a save and of a template |
| `Expose` | `ExposeModal.tsx` | the stage of the dialog, what preflight and dry run were about and whether their answer was late, saves, labels; whether a dialog that is closed is kept (the dashboard) or taken away (the list) |
| `Templates` | `Templates.tsx`, `TemplateModal.tsx` | the shelf, the filter, the dialog in the address, copies |
| `Dialogs`, `Promises` | `useModalDialog.ts`, `ConfirmDialog.tsx` | the stack in the order of effects, a key on its way through it, focus, scroll lock, the pending `confirm()` |
| `GeneralSettings`, `Taxonomy`, `Webhooks`, `AlertsEditor` | the tabs and editors of those names | drafts over a query, saves, questions; an update of a webhook is a read and a write of the whole row, as the server makes it, and two may cross |
| `SyncRows`, `Discovery`, `Journal` | `SyncSection.tsx`, `DockerSection.tsx`, `LogsTab.tsx` | scans, ticks and imports; the stream, its one reconnect, its polling |
| `Monitoring`, `Certificates` | `uptime.ts`, `useServiceProbes.ts`, `certificates.ts` and their pages | queries and the arithmetic of bars and buckets |
| `OptionList`, `Palette` | `Select.tsx`, `CommandPalette.tsx` | the list, the highlight, what was typed |
| `ApiKeys`, `Backups` | `ApiKeysTab.tsx`, `settings/data`, `app/api/backup.py` | the keys and the secret shown once, the clipboard; the files on the disk with the phrase they are sealed with, none, or secrets in clear as old ones have them, what the database holds, the question |
| `Dashboard` | `Dashboard.tsx`, `Sidebar.tsx` | the seven queries behind the first page and the badges |
| `Shell`, `Preferences` | `Layout.tsx`, `i18n/index.tsx`, `theme.tsx` | the page, the boxes over it, the chord and its timers; language, texts, theme, what is stored |

`Promises` is the abstract specification of `confirm()`: a call is answered once, with yes
or no, and a second call answers the first with no. `Dialogs` implements it, with
`answers <- told` (`KeepsThePromise`): however the dialogs over and under the question are
opened, closed or unmounted, nobody's promise is dropped and nobody's is settled twice.

`Integrations`, `ServiceList`, `Webhooks`, `Access` and `DriftReport` are instantiated
together in `MCPanelLive`; the thirteen modules of forms, dialogs and the frame in `MCPanelEdits`;
the nine of reading and importing in `MCPanelReads`; `Wizard` runs on its own. The panel shows
one page at a time, so a variable `screen`, chosen as the panel opens, says which, and the
variables of the other pages rest at one fixed initial value. The pages of one instance
share a run, and do not multiply its states.

### Instances and slips

`MCPublication`, `MCAlerts` and the three `MCPanel*` modules hold the instances. Operators
introduced by "As a bug" (slips) stand before the definition they imitate, are used by
nothing, and show that a property notices that mistake: with the definition replaced by its
slip, TLC finds the property violated. `PROJECT.json` lists one per property of a
run. The conjuncts of the composite properties of the panel have a slip each, and were
tried in the same way.

## Runs

| Run | Instance | What it shows |
|---|---|---|
| `PubProxies` | NPM, Zoraxy, Cloudflare Tunnel; one service, four requests, one fault | `NoSilentOrphan`, `DisabledIsDark`, `CleanAnswerConverges`, and `SuspensionKeepsTheHost` |
| `PubDns` | AdGuard and Cloudflare, two names, two addresses, detected addresses; three requests, one fault | the same three on records |
| `PubApart` | NPM and AdGuard; two services, two sessions never on one service, three requests, one fault | orphans and darkness across requests that race for a name |
| `PubRace` | the same, sessions on anything, with the busy timeout | `UniqueHosts`, `WithdrawalPublishesNothing`, `TypeOK` |
| `PubEnds` | two sessions, no fault | `EveryRequestEnds` |
| `AlertCycle` | a service, a webhook, a rule of each kind; two flips, and one edit, crash, check and lock | the latches and the queue |
| `AlertLive` | the same without checks and locks, under fairness | `EveryDeliverySettles`, `OutageIsAnnounced` |
| `Wiz` | one name to import, one request beside two scans, one upset (a reload, a failed read, a change from elsewhere) | the screen is what the gate and the scans said; a setup is neither cut short nor forgotten; the gate settles |
| `PanelLive` | two integrations, two services, two webhooks, a password, a report | lists catch up, what spins stops, no answer takes something back |
| `PanelEdits` | the forms and dialogs, two or three of everything | forms and boxes are sound, typed work is kept, a yes is meant, `confirm()` keeps its promise |
| `PanelReads` | the reading and importing pages, two of everything | figures agree, what is sent is what was told, what is shown in an order tells each item once |
| `EditWhileOff` | NPM and Zoraxy, one service | a disagreement between the code and what it says of itself (below) |

The properties of the panel's runs are conjunctions of named parts, each defined with its
page and stated there:

- `Wiz`: `ScreenIsTrue` (`WizardIsGated`, `AllClearIsEarned`), `SetupIsKept`
  (`WizardIsFinished`, `NothingClearedEarly`), `GateSettles` (`ExpiredIsShown`, `FinishLeaves`).
- `PanelLive`: `PagesAreSound` (`ListCatchesUp`, `HeldWhileAsked`, `RowsCatchUp`,
  `RowsFreedAtLast`, `ScopedOnSomething`), `WaitsEnd` (`RefreshEnds`, `BulkCheckEnds`,
  `TestsEnd`, `DoorOpensAgain`, `RefusedIsTold`), `NothingIsTakenBack` (`EditsKeepTheRest`,
  `WizardIsKept`, `BlankOnlyByPush`).
- `PanelEdits`: `PagesCatchUp` (`ShelfIsListed`, `CountsCatchUp`, `RulesCatchUp`,
  `KeysCatchUp`, `ListsFollowRestore`), `ScreensAreSound` (`FormsAreSound` with
  `NameBeforeLaterSteps`, `StepExists`, `MissingIsReachable`, `WhatPassesIsSound`,
  `UntouchedIsKept`, `TemplateGivesItBack`, `StoredIsSound`; `BoxesAndListsAreSound` with
  `PageIsLockedUnderBoxes`, `NobodyWaitsForever`, `MovesLandOnEnabled`, `NothingFoundIsTrue`;
  `SecretsAreKept` with `CopiedIsTrue`, `PlainHasNoSecrets`; `FrameIsSound` with
  `OneBoxOfTheFrame`, `OwnTimeOnly`, `TextIsOfTheLanguage`, `BlankEnds`, `PaintedAsChosen`,
  `LanguageIsKept`), `RowsAreReached` (`MarkedIsListed`, `TypingReachesAll`, `ArrowsGoRound`),
  `StepsKeepTheirWord` (`NothingTypedIsLost`, `TypedIsAskedAbout`, `OthersKeepTheirs`,
  `ReadKeepsTheEdit`, `RenameClosesItsOwn`, `CopyIsFaithful`, `UnusedIsTrue`,
  `OneEscapeOneBox`, `YesIsMeant`, `ReplacedAsTold`, `SealedNeedsItsPhrase`,
  `StaysUnderItsDialog`), `KeepsThePromise`.
- `PanelReads`: `PagesCatchUp` (`WritesAreListed`, `RowsFollowChecks`,
  `OffersNothingTwice`, `DefaultIsUsed`), `FiguresAgree` (`CountedByDate`, `BadgeAgrees`,
  `HiddenByAFilterSeen`, `OneVerdict`, `FreshCheckCounts`, and of the first page
  `DashIsNoAllClear`, `SkeletonsEnd`, `FirstIsAskedForTwice`, `CapIsMarked`, `LastDataIsShown`,
  `BadgesAgree`), `ItemsToldOnce` (`BarsAddUp`, `TimelineTellsAll`, `EachEntryOnce`,
  `OffIsThePage`, `PagesFit`), `AsAsked` (`QuestionToldIt`, `DeletesWhatWasNamed`,
  `TickedCanBeRoutes`, `SearchedAsTyped`, `OneReconnect`), `ChecksAreKept` (`SavedWasChecked`,
  `LastCheckIsKept`, `KeptListsStay`).

**Bounds.** `Requests` is what makes a long sequence: four requests are enough for
create, disable, edit, enable or delete, and every transition of a row is one of these;
three suffice where two sessions interleave, the third having made the row. One fault per
behaviour is the case that a handler has to survive and that a test can hardly place; two
names and two addresses make every comparison of the code come out both ways. In `Alerts`
two flips give up-down-up, `MaxAge` 1 tells "not yet" from "long enough" for a delay of
one cycle and a reminder each cycle, and two tiers of backoff tell the first retry from
the last. Hosts, addresses and sessions are symmetric in `Publication`, where no property
of a symmetric run is a liveness property; the liveness runs use no symmetry.

In the panel two of a thing are what a mix-up needs (the answer of one landing on the
other), and two requests under way are what an overtaking needs; the changes of the server
(`MaxChanges`, `MaxPushes`, `MaxHookChanges`, `MaxSyncCalls`, ...) are bounded because a page
must be compared with a server that comes to rest. Two or three edits of a form make it
leave and come back to what it held. Copies of templates try two names, so that the second is
taken as well as the first. Lists of the select box have between no and four options,
with disabled ones at either end. A certificate may be past, at the limit, or unreadable;
the window of a day is one unit wide with two bars, and the clock goes twice as far, so that a
point may fall on each edge and out of the window.
The scan starts with one name tracked or not and the other new; another window may make
either come or go. Of the watched services one starts unknown, the other unknown or
disabled. In the wizard up to `MaxCalls` requests may be under way. The busy mark is component state, so a
screen that was left and opened again sends a second one of its kind beside the first. The run
has one request, beside two scans and with a reload or a failed read anywhere; what
requests that overlap do to each other is in the proofs, which hold of any number. For the same
reason the saves of templates, rules and names are one each in `PanelEdits`
(`MaxPosted`, `MaxRuleSaves`, `MaxWrites`): an answer is overtaken there by reads and by the
changes of another browser, and answers that overtake one another are in the proofs.
`FirstLabels` starts the page of names with the first of two interchangeable ids and names, and
with a template that names the first one at most, where no service does.
`Importable` is the part of `Names` that the import accepts. Each bound is a constant of
its module, named there.

`CHECK_DEADLOCK FALSE` in the `Pub*` runs: the requests of a behaviour are bounded and a
server that gets none is at rest. That none waits for ever *in* a request is
`EveryRequestEnds`. The runs of the panel are at rest when the bounded edits and requests
have been spent. The alert cycle never stops and is checked for deadlock.

**Edits.** `Allowed` restricts the edits of an instance. Every passing run of `Publication`
uses `RoutineEdit`, which leaves out the two kinds of edit for which the code is known to
break a property (`RoleSwap`, `PublishesWhileOff`); `EditWhileOff` lets in the second.
So the passing runs say: these are the *only* edits that break it, within the bounds. The
theorems take `Allowed` as it comes.

**Overlap.** Nothing in the code keeps two requests on one service apart, and most of what
a request promises is lost when they overlap: each works on the row it read. `PubApart`
therefore asks for the orphan and darkness properties when two requests are on two
services, and `PubRace` asks for what must survive any interleaving.

**Lost answers.** A page that the server changed without its hearing of it shows the old
list until something has it read again. The catch-up properties are therefore stated for
pages that were told (`lost`, `unheard`, `missedHook`, `unseen` and their like remember that
one was not); what must hold even then, such as a row being released, is stated without. An
answer that joins the first read of a list is one of them: the invalidation is lost on a
query that has no data yet, and the list that lands is older than the write. So is a check
that was carried out and whose answer was lost, after which nothing is read
(`useServiceProbes.ts:62`, `Monitoring.tsx:225`): the rows stay as they were until the next poll.
And an update of a webhook that crossed a switch of the same one at the server (below).

**Fairness.** `FairSpec` of `Publication` is weak fairness of each handler's next step:
each provider call has a timeout and each wait for the writer ends when its holder commits.
The start of requests is not fair. `FairSpec` of `Alerts` is weak fairness of `CycleStep`:
APScheduler runs the job after each interval and every call in it returns. The outside
world, edits and crashes are not fair; they are bounded. In the panel only what runs
without the operator is fair: the requests of "Check all" (`IntegrationsFairness`) and of
the bulk check (`ServiceListFairness`, the loop in the page) are answered or fail, as every
request of a browser does in the end; a test of a webhook is (`HooksFairness`); the status of the gate, the
sign-in and a page's request are served and land, and the second hand of the count-down
runs (`AccessFairness`). In `Wizard` the check of the caller lands and a panel on the screen
goes on polling. No click is fair.

## Findings

- **A PUT may publish a suspended service** (`EditWhileOff`). A PUT that moves a suspended
  service to another proxy and leaves it disabled creates its host there
  (`services.py:1658`) and never suspends it: the switch block runs on a change of the flag
  only. The row is off, the answer holds no error, the host serves.

Divergences met while modelling for which no run is kept.

In the server:

- Promoting an extra DNS server while renaming: the block that moves the record works on the
  former primary; the list of stale targets leaves the new primary out
  (`services.py:1826`). The old record on the promoted server stays, silently.
- A push holds the writer across its provider calls: `_push_service_row` journals as it goes
  and commits at its end. A POST that has published meanwhile gives up its INSERT after the
  15 s of `db.py:30`; only `IntegrityError` is caught (`services.py:1335`) and its host and
  records have no row and no report.
- A webhook's delay is looked at only when something changes (`scheduler.py:410`): an outage
  longer than the delay is announced at the next change of any service or provider, or never.
- A webhook that asks for recoveries only gets none: `scheduler.py:892` leaves no trace of
  the outage.
- `update_rewrite` answers success when the old record could not be deleted (`base.py:145`; the
  model counts it as `unsaid`). A withdrawal takes one of several records of a name
  (`sync.py:515`). Two overlapping PUTs each write the `npm_host_id` they ended with
  (`services.py:1776`). A push whose service is deleted meanwhile publishes it again, and so
  does `run_auto_reconcile`, which walks a list read at its start (`scheduler.py:191`). With a
  detected address the primary DNS server gets the address of the body and the extras the
  detected one.
- A message with RECOVERED lines only is queued with a NULL `webhook_id` and survives the
  deletion its webhook's route says takes it along (`webhooks.py:385-387`). `add_log` meeting a
  locked database inside `_try_send_apprise` ends the loop over the URLs and leaves the latches
  of the others held. An outage shorter than its delay is announced as recovered though nothing
  was raised. A queued DOWN may arrive after the RECOVERED that was sent at once
  (`scheduler.py:738`).
- An INSERT that gives up after the busy timeout is not an `IntegrityError`: the POST answers 500 and
  its 409 journal is never written (`services.py:1335`). `PubApart` with `Impatient` set
  refutes `NoSilentOrphan`; the runs of that property take patient writers.
- A provider call that raises, rather than answering nothing, is in `errors` alone
  (`services.py:1270`, 1287), which a 409 drops. The proxies and DNS servers modelled
  catch the errors of their requests and answer `None` or `False`, which is journalled at once.
- When the outcome of a post cannot be written (`scheduler.py:777-807`: the UPDATE raises, is taken for a
  failed post, and the second UPDATE raises out of `run_health_checks`) the message was sent, its
  attempt is not counted, and it is sent again. `PostsAreCounted` allows one post per such lock.
- Two updates of one webhook under way at once write every column from the row each has read
  (`webhooks.py:311`, 333-353, no transaction): a switch may put an older rule back, and an
  edit of the rule an older switch. `EditsKeepTheRest` excepts the crossing.
- A restore writes a value that is not sealed as it is (`backup.py:333-336`): a file of version 7 brings
  its webhook URLs in clear, whatever passphrase is typed (`tests/test_webhook_secrets.py:408-430`).
  `SealedNeedsItsPhrase` is about what was sealed.
- A comment of `backup.py:307-308` says that a restore rewrites the admin's password hash; the
  code keeps it (`backup.py:375-381`).

In the panel, gate and wizard:

- `AuthGate` shows the boot error whenever a read of the status has failed, even with an answer
  in hand (`App.tsx:117`), so the warning of `SecurityTab.tsx:56-68` is never seen. A 401
  on the password and sign-out routes does not ask the gate (`client.ts:24`).
- Ticks of a scan survive a later one that overlapped it (`Setup.tsx:212`).
- The green tick of the import screen may stand without a scan, to which `Setup.tsx:250-251`
  says that a scan that never ran has no right. Send an integration from its form, leave the
  form before the answer, and reach the import screen while the list in the cache is still the
  empty one: the effect (264) marks the visit as scanned, `loadImportableServices` returns
  without a scan, and the list that lands afterwards makes no effect run again.
  `AllClearIsEarned` allows for this one case (`skipped`).
- The late answer of a `createProvider` that was cancelled resets the form and moves the wizard
  back to its list. The summary of the last screen follows `skipPassword`, not what the
  server has. Two reads of a backup file may overlap, and a restore may reach a server that is
  no longer empty (`RestoreStep.tsx:88`).

Integrations:

- An edit made while a validation is under way is given the verdict on the former values
  (`ProviderFormStep.tsx:165` says a verdict is about the values it was given); the late answer
  of a save closes whichever form is open then (`ProviderModal.tsx:111`; the dialog of
  templates does the same). A tunnel's `extra` is merged from the row as it was when the dialog
  opened.
- One observer serves all deletions: when another one is sent while a forced deletion is under
  way, the callbacks of the first are dropped and its card stays held
  (`Providers.tsx:501-511`). Of two tests of one card, its own and that of "Check all", the first
  to end releases the mark while the other is still open, against the comment of 77-87.
- A failed manual check reads as "healthy" when the connector of the tunnel is; a stale manual
  check feeds the score until something else changes, because the signals are memoised without
  the clock (104-105).
- A search in the drawer goes on filtering a table that shrank below the size at which the box is
  shown.

Routes:

- One set of busy rows serves checks, switches and bulk actions alike, so the first to end
  releases the row for all. A save of a row writes every column from the row as it was
  listed. A report that was dropped by a push may come back by an answer that was under way
  (`Services.tsx:239-242`).
- A target hidden by the kind of exposure may keep the former one's proxy
  (`ServiceForm.tsx:864-866`, 517-525); a `dns_only` route keeps the extra proxies that are
  hidden.
- An edit made behind a pending preflight is saved unchecked (`README.md:53`,
  `ExposeModal.tsx:566-567`), and the dry run may be of other values than the save. A create
  whose push failed leaves a row the list is not told of, and each retry then gets 409. Edits
  made while labels are saved are dropped by the answer. On the dashboard the dialog is always
  mounted (`Dashboard.tsx:409`): checks that answer after it was closed put the closed form in review
  (`ExposeModal.tsx:480-483`), and opened again it offers to save a form they were not of.
  `SavedWasChecked` excepts such a late verdict (`late`), and nothing else.
- A template whose deletion lands while its dialog is open takes the typed work along; one id
  marks all deletions.

Settings and the rest:

- Renaming or deleting a name reads its list and the services again, never the templates
  (`TaxonomyTab.tsx:160-163`): the count of templates beside a name stays as it was first read, and
  `CountsCatchUp` is about services. The time-out of the public address is not clamped to
  its bounds (`GeneralTab.tsx:647`), and `StoredIsSound` leaves it out. A copy under way while a
  second key is created marks the second as copied; `CopiedIsTrue` excepts it (`overtook`).
- The edit of a webhook whose answer was lost is reverted by the next; a second test takes
  over the callbacks of the first (`WebhooksTab.tsx:207`).
- A failed read after a save unmounts every card of the general tab with what is typed in
  them (`GeneralTab.tsx:121`, against the comment of 84-92). A number clamped to what is stored
  leaves the unclamped text in its field.
- Edits of the alert rules made while a save is pending are dropped by its answer; a webhook
  deleted meanwhile makes the save refused.
- Zones and flags of the import are those of the scan until the next one; a row "in need of its
  record" whose service went creates a service. The Docker import is built from the section as it
  is when the question is answered, so a list landing under it sends what the question did not
  name (`en.json:1477-1478`); containers stay listed after the endpoint has changed.
- While polling, the journal is not newest first (`en.json:1561`, `LogsTab.tsx:163-177`), and
  its total counts live entries twice (179); entries between the end of a stream and its
  reopening never reach the live view; a page number may exceed the pages after a purge.
- The Retry button of "failed" on the certificates page is not held while a read runs
  (299-311 against 184-187). A check of all may overwrite a newer measure of one row
  (`useServiceProbes.ts:24`).
- A second API key replaces the secret of the first on the screen, copied or not
  (`ApiKeysTab.tsx:57`); the answer of a sealed export empties the phrase that was typed for the
  next (`ExportSection.tsx:66`). "All clear" on the dashboard may come before the
  certificates have been read.
- Shift+Tab on the box itself leaves the dialog (`useModalDialog.ts:22`, 107-118). Rows of the
  palette are lit by position, so a landing list moves the light to another item. A select whose
  value is no option shows the first one.

## Proofs

`PublicationProofs` proves `TypeOK` for every behaviour of `Publication`, whatever the
services, providers, sessions, bodies, edits and bounds (`TypeCorrect`). `TypeOK` is not
inductive: a handler that writes `x.new` to the row `x.sid` is type correct because it has
been given a body and has read, or just inserted, that row. The strengthening is
`SessionsOK`, a theorem of its own (`SessionsStayGrounded`): a session has read the row, been
given the body or learned the id that its remaining tasks need, and the extra targets of a
POST still have its INSERT before them. There is a lemma per plan (a plan of a row of the
right type is a set of well-formed tasks), one per store operation, and one per action.

`SessionProofs` proves `UniqueHosts`. It is not inductive for one reason: a PUT meets the
unique index at its UPDATE but others see its row only at its commit, with withdrawals from
providers in between. `NamesInv` says what bridges the two: `NameHeld`, a session that has
checked its name and not committed has the writer, and no other row has the name; and
`EditShape`, nothing that ends a transaction is queued before a commit, so the writer is not
let go on the way. `StepNames` reduces every action to four facts about the session that
moves; a session without a commit to come (`Undecided`) satisfies three of them trivially,
and one whose calls only lead to other calls (`Gentle`) keeps them (`CallNames`). The cases
with content are the INSERT, the UPDATE, the commit and the timeout of a write.

It also proves `WithdrawalPublishesNothing`, whatever other requests run beside the withdrawal. A step is not enough to see it: the task that runs was queued by an earlier one.
`DimInv` says it of the work a session has left. A session that withdraws has dark tasks only
(calls that can but take down, and transactions that publish nothing), and no push or
DELETE has a task that takes up another row, which could find it switched on. There is a
lemma per plan and one per follow-up call (`Follows`); what a store does under a dark call is
`Darker`.

`AlertsProofs` proves the four state properties and the action property of `AlertCycle` for
any set of services, webhooks, rules and policies, any backoff and any number of flips,
edits, crashes, checks and locks. The inductive invariant has three parts:

- the types;
- `LatchInv`: while a loop sends, a rule whose latch is set and whose alert is not told has
  a line in the outbox (`LineRemains`), and the lines in the outbox are those of the loop
  whose turn it is (`LinesOfTheTurn`); with `RestartForgetsNothing` this is what makes
  `LatchIsEarned` survive a save and a crash, neither of which is true of it alone;
- `PostInv`: a reply belongs to the retry phase, a row is posted at most once per attempt,
  crash and lock, and at least once per attempt (`PostsSuffice`), from which
  `NothingGivenUpEarly` follows.

The latch properties are stated for executions without a locked log (`Unlocked`): with one
they are false, see above.

`AnswerProofs` proves `CleanAnswerConverges` where requests come one at a time (`Alone`, true
of the runs that check it; two requests that overlap may undo each other's work, and then no
answer says what is). The services, providers, sizes, failing calls and earlier edits are
arbitrary, so the push may start from any leftovers. The invariant has two parts:

- `HostsOK`, a theorem of its own that needs no `Alone` (`HostsStayDistinct`): a proxy tells its
  hosts apart by id and by name, a name is the id where the proxy keys on names, and nothing is
  off where nothing can be suspended. Without it a resume by id might switch on another host
  than the one the name finds.
- `AnswersInv`: as long as a push or a POST has met no error, each target of the row it is
  about is served already, or there is a task left that leads there (`OnTheWay`), and the task
  fits the name and the host it was made for (`Fits`). Of a POST the row is its body until the
  INSERT (`About`). When the tasks are used up, only "served" remains.

In the panel:

- `WizardProofs` proves `TypeOK`, `ScreenIsTrue` and `SetupIsKept` for any number of requests and
  scans under way. Every step that draws goes through `Render`, so one lemma says what a
  drawing keeps, and each action hands it a sound state. The invariant has four parts: `World`
  (the server and this browser), `Marks` (what the gate is read off), `View` (what is mounted:
  a screen of the import knows its scan, a visit that has not scanned has room to, a request
  is heard by a mounted wizard only) and `Queued` (one request of a kind that its screen still
  marks, any number that a remount has let go; an end of the setup
  that was confirmed is one at the server). `Queued` is what `SetupIsKept` needs: the mark is
  cleared on the strength of an answer, so the answer must still be true when it lands.
- `EditsProofs` proves of `MCPanelEdits`, for every value of its constants, `TypeOK`,
  `PagesCatchUp`, `ScreensAreSound`, `StepsKeepTheirWord` and the refinement
  `KeepsThePromise`. Each page is proved about on its own specification first, from an
  inductive invariant of its own:
  - questions: `OnePending`, those whose promise is pending are those without an answer, and
    there is at most one, the one the question on the screen came from. Each step then is a
    step of `Promises` (a question, or a settling by the dialog that leaves) or leaves its
    variable alone; `YesIsMeant` rests on the same;
  - stack: `StackInv` adds that no box is twice on the stack, that a key on its way is heard by
    boxes in the order of their effects, that each box holds one lock (`LockedAsStacked`) and
    knows where the focus came from. Without the last two the page would be unlocked by the
    wrong dialog, and `OneEscapeOneBox` needs the order;
  - templates: `TemplatesInv`, what is on its way has the shape of a request and its body is one
    that a form can send (`Submitted`), and `ReadIsTrue`, a list that is neither being read nor
    owed a read is the server's. `CopyIsFaithful` also needs that there is a free name within
    `NameMax`: the tries are more than the names that are taken (`NamesAreFew`, by cardinality);
  - route form: `RouteFormInv`, what is stored came out of `buildPayload`. The three
    properties are equations between conversions; there is a lemma per mode of exposure;
  - integration form: `FormInv`, one call of each kind is on its way, the name was given before
    a later step (`NameWasGiven`) and the step is one of its type (`StepIsOfTheType`), also for
    the answers that are of a form that is gone;
  - settings: `SoundAs` of what is on its way; labels: `CountsAreListed`, `UsesAreKnown`,
    `RenamedIsOpen`; rules: `RulesAreListed`; keys: `KeysAreListed`, `CopyIsShown`; backups:
    `ExportsAreClean`, `NoOpenSecrets`, `ListsAreOfTheData`; lists: a move of any width lands on
    an enabled row (`MovedIs`); frame and preferences: `ShellInv`, `PrefInv`.

  `ScreensStepAlone` and `ScreensRunAlone` carry them to the instance.
- `ReadsProofs` proves of `MCPanelReads`, for every value of its constants, `TypeOK`, `AsAsked`
  (with `OneReconnect`), `ChecksAreKept`, `PagesCatchUp` and `FiguresAgree`. Each page is proved about on its own
  specification first:
  - journal: `Reconnects` counts the connections left to a switch-on;
  - drawer: `OneSearch`, each table remembers one search for the integration it was typed over,
    though the drawer is one for all;
  - Docker: `NamesIt`, every write under way has the shape of a request and a deletion is of what
    its question named; `ListsTheDefault`, a list that is neither being read nor owed a read
    puts the default endpoint first;
  - scores: `ChecksAreStored` says what `sessionStorage` can hold, and a lemma for each place
    where scores are computed says that they count what is fresh (`FreshChecksCount`) and that
    score, chip and filter give one verdict (`VerdictsAgree`);
  - certificates: each is in the bucket of its date, and the badge counts what the counters do;
  - dashboard: what a tile says is of the answer it waits for, and the lists a reload finds are
    those that were shown (`FirstPageAgrees`, `KeptListsAreShown`);
  - expose dialog: `ExposeInv`, a review is of the form on the screen or its verdict came late
    (`ReviewIsOfForm`), a dialog that was taken away hears nothing (`TakenAway`), and of what was
    stored the list was told, or the answer that tells it is on its way (`ToldOrOnItsWay`);
  - monitoring: `ShowsTheServer`, the rows are the server's unless a check that wrote has its
    answer still to land, or the read is under way or failed;
  - import: `RowsAsTold`, what is asked and sent is described by its own rows from the click to
    the request; `KnowsTheServices`, which says of the list of services what `ShowsTheServer` says
    of the rows, and needs the types of what is under way (`ImportTyped`).

  Then `PagesStepAlone` and `PagesRunAlone` carry them to the instance: the page on the screen
  takes its own steps and the variables of the others rest.
- `LiveProofs` proves of `MCPanelLive`, for every value of its constants, `TypeOK`,
  `PagesAreSound` and `NothingIsTakenBack` (`PanelInv`, one part per page):
  - integrations: `ListIsKnown`, a list that was read is the server's unless a change was
    answered that the page has not heard of; `CardsHeld`, a card is held for one deletion, and
    the first question about a card is only open while none is under way, without which a yes to
    it could send a second;
  - endpoints: `RowsAreKnown`, the same of the rows; `BusyIsAwaited`, a busy row belongs to a
    request that frees it;
  - webhooks: `EditsAreFresh`, the row an edit was made from differs from the server's in its
    switch alone; this needs `OneEdit` (the hold), `ListIsFresh` (the list is the server's unless an
    edit was made since, which the hold outlives), an exception for what crossed a switch, and `FreshAreNew` (an id is not used twice);
  - gate: `FormsTyped`, the sign-in page is blank wherever it is not on the screen;
  - drawer: `AnswersSaySomething` and `PushHasRoom`.

Assumptions: the ones the modules declare for their constants
(the kinds of provider are subsets of the providers, `None` and `Nobody` are none of the
values and no stage of a request, what can be watched is of a kind, bounds are natural numbers,
the backoff is a non-empty sequence of natural numbers, the endpoints, the templates and the
scanned names are finitely many, the default rule is a rule and English a language, an address
that is detected is one of the addresses, and "in clear" is no passphrase), and `Alone` where a theorem states it.

Model-checked only:

- liveness: `EveryRequestEnds`, `EveryDeliverySettles`, `OutageIsAnnounced`, `GateSettles`,
  `WaitsEnd`;
- `NoSilentOrphan` and `DisabledIsDark`: they hold of the routine edits of one request at a time
  only, and their invariant is a case distinction over everything a PUT may leave behind;
- `SuspensionKeepsTheHost`, which is false of several services that fight over one host and is
  checked where there is one;
- `ItemsToldOnce`: sums and concatenations over folds, which need an induction over data;
- `RowsAreReached`: the rows are computed by filters and a sort of sequences
  (`SelectSeq`, `SortSeq`), whose results are defined by recursion.

## What the models leave out

Publication: the tunnel exposure mode, labels and environments, the bulk delete, origins
(scheme, address, port), certificates, access lists, disabled or deleted providers, zones.
Alerts: which of several webhooks share a URL (each has its own), the limit of 20 rows per
retry pass and the branch for rows already beyond their attempts (no row gets there), the
wording of messages, settled rows and their purge, and the other kinds of notification. Hazards of the server that no model reaches yet: the
reconcile loop on a stale list (`scheduler.py:191`), the copy of NPM's flags during a switch
(`services.py:50`), the breaker of dynamic DNS (`scheduler.py:558`), the bulk delete in one
transaction (`services.py:2439`) and the probes with the writer held (`services.py:2207`).

Panel: what the dashboard only links to; formatting and plural forms; a `localStorage` that
throws (`i18n/index.tsx:194`); `SuggestInput`; "Test all" of the webhooks;
text search and the saved view of the endpoints page; suffixes of names in the import. Texts
are reduced to what their rules tell apart, and a request to what it changes. Two pages on the
screen at once are modelled only where one sits in the other (a form or a drawer over its
page); the cache they share outlives a page, so a page that opens on old data starts
from a read that has landed. The retries of react-query are folded into one failure.

Everything the inventory lists with no module is named in `PROJECT.json` with the
reason.

## Plan

1. `Reconcile`: drift check, `reconcile_service`, `run_auto_reconcile` and the NPM status
   synchronisation as further sessions over the state of `Publication`; a clean reconcile
   leaves no drift, and a reconcile loop settles when nothing else moves.
2. `DnsAuto`: dynamic DNS with its circuit breaker, against an abstract counter of
   consecutive failures.
3. `ProviderRoutes`: deletion of a provider with its withdrawals, and the bulk delete over
   several services in one transaction, with the writer held by `check_all`.
4. The tunnel exposure mode of services in `Publication`.
5. `Alerts` with two services on one webhook and two webhooks on one URL; certificates.
6. An abstract publisher (a route is absent, served or suspended, and an operation either
   moves it or reports) that `Publication` with one session refines, and an abstract
   delivery queue that `Alerts` refines.
7. An abstract list (a page shows some past state of the server and, at rest, the present
   one) that `Integrations`, `ServiceList`, `Templates` and `Taxonomy` refine.
8. Proofs: `DisabledIsDark` and `NoSilentOrphan`, then the refinements' safety part.
