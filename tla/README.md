# CloudVisor in TLA+

CloudVisor is a cloud-security platform: Python services that list the resources
of customers' cloud accounts, judge them against policies, keep findings and
notify people, behind an API gateway and Next.js applications. This directory
models the parts of it whose correctness depends on the order of things:
replicas, background tasks, requests and Kafka consumers on the server's side,
locks with a time to live, database sessions that write back what they read a
while ago; and in the browser, edits on a flat store that must stay a tree, saves
that fail or cross, tabs that share cookies, answers that arrive for yesterday's
selection. Nine components have a module each. Six of them implement an abstract
specification, a module of its own that says in a page what the component promises.
TLC checks small instances; TLAPS proves the properties of eight components for all
instances: safety, five of the refinements, that two components meet at the
specification they share, and, from the fairness assumed, liveness.

Paths below are relative to the repository's root; `connector/` stands for
`services/connector/app/`, `alert/` for `services/alert/app/`, `cspm/` for
`services/security/cspm/`, `policy/` for `services/policy/app/`, `auth/` for
`services/auth/app/` and `web/` for `apps/web/src/`.

## 1. Inventory

### Components, their state and their operations

| component | state it keeps | operations | modelled by |
|---|---|---|---|
| Connector: circuit breaker (`connector/services/circuit_breaker.py`, `retry.py`, `resilience.py`) | in-memory circuit state, counters, time of the last change; one per provider operation | `call`, `reset`, the transitions; retries inside one call | `CircuitBreaker` |
| Connector: accounts and sync scheduler (`connector/api/routes/accounts.py`, `services/account_service.py`, `scheduler/sync_scheduler.py`) | account rows in PostgreSQL; schedule hashes and sync locks in Redis | create, patch, sync now, delete, rotate; monitor loop, `trigger_sync`, start and stop | `SyncScheduler` |
| Connector: discovery (`connector/services/discovery.py`, `producers/resource_events.py`) | resource rows with a miss count; `resource.*` topics | full discovery, upsert, freshness sweep, delete events | `Discovery` |
| Connector: realtime consumers (`connector/consumers/`) | one task per account, a watchdog | start, stop, restart, poll of the provider's queue | no |
| Alert: findings (`alert/services/findings.py`, `consumers/finding_events.py`) | finding rows, history rows | ingest, deduplicate, reopen, resolve, suppress, accept, note, resource deleted | `FindingLifecycle` |
| Alert: notifications (`alert/services/notifications.py`, `notifiers/`) | deduplication keys, notification log | send to the matching channels, rate limit, retry | `FindingLifecycle` |
| Alert: suppressions, incidents, metrics | rule and incident rows | CRUD, `check_suppression`, sums | a choice of `FindingLifecycle` |
| CSPM: scans (`cspm/app/services/scan_executor.py`, `routes.py`) | findings, postures, compliance results, snapshots, scan records | `run_scan` at startup, daily and on request; `update_finding_status` | `CspmScan` |
| CSPM: drift, IAM, IaC, attack paths, correlation, policies, reports | result rows | analyses of a loaded snapshot | no |
| Policy (`policy/`) | rules, exceptions, evaluation cache in Redis | evaluate, CRUD, consumer of `resource.*` | the cache and the answer, in `CspmScan` |
| Auth (`services/auth`) | users, sessions, refresh tokens, MFA secrets, API keys | login, refresh, logout, revoke; MFA, SSO, invitations | the first four, in `WebSession` |
| Web: session (`web/hooks/use-auth.tsx`, `lib/api/`) | cookies shared by the tabs, a user per tab | load, login, logout, a call that refreshes and is made again | `WebSession` |
| Web: workflow builder (`web/entities/workflows`, `features/workflows`, `utils/reactFlow.ts`) | a flat list of nodes, a list of edges, the definition, properties | insert and delete at an edge, triggers, open, serialize, parse | `WorkflowGraph`, which implements `WorkflowTree` |
| Web: workflow editor (`web/widgets/workflow-builder`, `manual-run-workflow`) | working copy, unsaved and unsynced marks, selection, debounced forms | type, select, save, reread, leave, run | `WorkflowEditor` |
| Web: scope and queries (`web/stores/scope.ts`, `hooks/use-*.ts`, `components/layout/header.tsx`) | the persisted scope, React Query's cache, a WebSocket | list, connect and delete accounts, select, fetch, invalidate, poll, reconnect | `ScopedQueries` |
| Graph (`services/graph`) | Neo4j asset nodes with counters | consumers of `resource.*` and `finding.*`, queries | no |
| API gateway (`services/api`) | WebSocket connections, rate-limit windows | proxy, fan-out | no |
| Copilot, AI router | conversations | prompts to language models | no |
| Keep bridge (`services/keep`) | none (a Kafka position) | push `alert.created` to the alert UI | no |
| other pages, `apps/admin-web`, `apps/landing`, `packages/*`, `infra/*` | - | rendering, forms, charts, types, deployment | no |

### Interaction

    provider APIs --(circuit breaker, retry)-- Discovery --> connector rows
                                                   |               |
      SyncScheduler starts every sync -------------+               | SQL
                                                   | resource.*    v
                                                   v           CspmScan --HTTP--> Policy
                                        Graph, Policy, Alert       |
                                                   ^               v
                                                   +--finding.created / finding.raw
                                            FindingLifecycle --> channels, alert.created --> Keep

      browser tabs --cookies-- WebSession --HTTP--> gateway --> auth (sessions)
           |                                           |
           +-- ScopedQueries <-- WebSocket events -----+--> connector, CSPM, alert
           +-- WorkflowEditor (working copy, saves, runs) --PUT, run--> workflow server
                     +-- WorkflowGraph (its shape, its stored form)

PostgreSQL is shared by row: the CSPM service reads the connector's table
directly. Redis holds the scheduler's keys, the notification keys and the policy
cache, each with a TTL. Kafka offsets are committed automatically, so a crash
loses messages and nothing is redelivered on purpose. Every SQLAlchemy session
writes an attribute back only if its value differs from the one loaded, and no
row has a version column; this is why the models keep, for every handler, the
*view* it read.

### Behaviours that are hard, and what must hold

* **Breaker.** Outcomes arrive in whatever state the circuit has by then. It must
  open only on recorded failures, let nobody through while it cools down, leave
  `OPEN` eventually, and every call must return.
* **Scheduler.** A lock nobody owns (its value is always `"1"`), a TTL, replicas
  that clear locks when they start, tombstoned rows. Two syncs should not
  overlap; a deleted account should fall silent; a live one should be polled.
* **Discovery.** Partial listings look like deletions. A resource may be deleted
  only after `Threshold` consecutive misses, the announcement must follow the
  commit, and consumers must converge.
* **Findings.** Transitions are validated against a row read earlier. Row, date
  and audit trail must agree; a persisting violation must not stay resolved.
* **Scans.** Nothing separates two scans of an organization. Violations must be
  reported, repaired ones resolved, users' decisions kept.

* **Workflow builder.** Every edit patches two flat lists in place, and what is
  saved is rebuilt from one of them. The lists must stay a drawing of one tree.
* **Workflow editor.** Forms write late, saves are answered late, fail or cross, and
  what is read back replaces the copy. No edit may vanish unnoticed, a clean mark
  must mean stored, a run must execute what is shown.
* **Session.** Tabs refresh one cookie, each on its own; a rotation commits twice.
  A login must keep exactly one session, and a logout must leave none.
* **Scope.** Answers arrive after the selection changed; events are lost with the
  socket. What is shown must belong to the selection and must become current.

`PROJECT.json` lists each hazard at its line with the properties that cover it.

## 2. Modules and their correspondence to the code

An action is a stretch of code between two `await`s that matter to somebody else.
Operators whose comment starts with *Faulty* or *A slip* are mutations that show
which property notices which mistake; no specification uses them.

**`CircuitBreaker`.** `state`, the counters `total`, `failed` and `rejected`, and
`age` (the time since the last change) are `CircuitBreakerMetrics`; `pc` and
`attempt` say of each caller whether it is admitted and how often it retried. `Call` is the code of `call` before the wrapped function
starts: `OpenAndReject`, `Reject`, `Probe` and `Admit` are the exits of
`_check_state_transition`. `Finish` is the code behind it, `Cancel` a task
cancelled while it waits (`sync_scheduler.py:157`, `205`), which leaves no outcome,
since `call` catches `Exception` only; `Retry` and `Return` are `retry_async` and
`resilient_call`. The error rate is compared as a fraction
(`ThresholdNum/ThresholdDen`), so no arithmetic is rounded.

**`SyncScheduler`.** One account. `row` is the row with its tombstone, `schedule`
the Redis hash (`unseeded` until the monitor gives it a `last_sync_at`, then
`waiting` or `due`), `lock` the lock key. The lock records in the model which
task set it, which the code cannot know: no guard reads it, only properties do.
`task` holds the monitor of each replica and its requests; `view` and `base` are
the two sessions that may hold the row at once, since the monitor's session
stays open during the sync and flushes a second time (`Flush`). `breached` is a
history variable. `start` is how far a replica that does not run is with `start()`:
`_clear_stale_locks` and `_restore_schedules_from_db` take their stages one await at
a time (`Restart`), beside the other replicas, and may fail or be cut off by a
crash in each. `FindUnseeded` and `Seed` are the HGETALL and the HSET of a tick that
finds no `last_sync_at`.

**`Discovery`.** `db` holds each resource's row: whether it is stored, its
freshness, misses and deleted mark; `view` is what a consumer of the topics
believes to exist; `sync` is the progress of each running sync.
`List` and `ListFails` are the two ends of `list_resources` (a type that fails
inside it leaves a partial list that looks complete), `Upsert` one commit,
`SweepRead`/`SweepWrite`/`EmitDeleted` the three stretches of
`_mark_missing_as_deleted`. `Faults` selects which failures occur.

**`FindingLifecycle`.** One fingerprint and one channel. `Sight` looks the row up;
`Insert`, `InsertFails` and `SeenAgain` are the ends of `ingest_finding`;
`AlreadyNotified`, `NotNotified`, `MarkNotified`, `Send` and `SendLost` spell out
the EXISTS, SETEX, deliver sequence; `RequestStatus`/`CommitStatus` and
`RequestNote`/`CommitNote` are the REST routes; `ResourceDeleted` the automatic
resolution. The bound on the audit trail is that only its newest entry is kept,
which is what the property compares. Newest is the latest timestamp, and
`_record_history` takes it before the awaited commit: `Record` therefore chooses,
when a newest entry is committed, which of the entries others still hold are stamped
before it (`overtaken`). That is every order of stamps and commits and needs no
clock; that the clocks of two replicas agree is assumed.

**`CspmScan`.** One resource, rule and control. `List` is a round of scheduled scans
that lists the organization, which it does only if some resource of it is not
deleted (`cspm/main.py:173-182`); its scan comes later, when it is its turn. `Start`
loads the resources,
`Evaluate` asks the policy service (and its 300-second memory of violations),
`Read` and `Write`/`WriteFails` are one batch, `ReadFindings`, `ReadResult` and
`CommitResult` are `_update_compliance_results`. `Written` says which status a
scan leaves, `Recorded` which compliance rows.

**`WorkflowTree` and `WorkflowGraph`.** The abstract module is what the user
believes to edit: slots (the root, the branches of a condition, the body of a
foreach) with sequences of nodes. The detailed one is the store: `nodes` and
`edges` as drawn, `properties` (the triggers) and `definition`, rebuilt by
`updateDefinition` from `nodes` alone after every edit. `processWorkflowV2` and
what it calls draw a definition (`reactFlow.ts`, recursive as there),
`processForeach`/`processCondition` read the flat list back,
`addNodeBetween`, `addTriggerBetween` and `deleteNodes` are the three edits with
their slicing by index and their repair of edges, `updateSelectedNodeData` the form's
write of an `if`, and `Reload` is a save (`getYamlWorkflowDefinition`) followed by
opening what was stored (`parseWorkflow`, `initializeWorkflow`). A stored entry
carries its `if`, the condition it introduces and whether under an alias, and
`parseEntry` reads every combination of them: an `if` that names the alias of a
condition met before puts the task there and stays in its data (`ifs`); an entry with
any other `if` loses the condition it carries. When `validateDefinition` throws on
such an `if` (`Unreadable`, see 6), the lists have changed already and `definition` and
`deployable` stay behind; `rebuilt` is what they would have become. `onNodesChange`,
`onEdgesChange` and `onConnect` are what the user does on the canvas itself, with
the library's default keys: they change the lists and leave the definition alone until
the next edit rebuilds it; `byHand` counts them since the lists were last drawn. (`onDrop`
is wired too, but no toolbox that is rendered can be dragged from,
`ReactFlowEditor.tsx:90`.) `Tree == INSTANCE WorkflowTree WITH kids <- rebuilt.kids`
is the refinement mapping, and `EditsTheTree` a property of the run: `Tree!Spec` with
two exceptions, which it names. A step is its role, a number and its `if`; the rest of
its data is left out, and with it what `validateStepPure` says of names and
parameters. Names are taken to be distinct, which the code does not enforce (6).

**`WorkflowEditor`.** The same page seen along the other axis: a workflow is one
value per node, and each edit makes a new value, so that it can be followed.
`doc` is the working copy, `changes` and `synced` the store's two marks, `pending`
the debounced writes, `saves` and `fetch` the requests, `waiting` the run that
waits. A save carries `Stored(doc)`: the serialization
(`getYamlWorkflowDefinition`) writes nothing for the nodes of `Dropped`, such as the
tasks of a false branch or the filter values of a trigger. What the marks and the runs
are held to is therefore the stored form of the working copy, and no more. A step's form writes only
after its pause; a trigger's writes the properties at once and its node after the
pause (`Triggers`), and either late write goes to the node selected by then. Adding or
deleting a node moves the selection. `Store` and `Reject` are the workflow server, which is not in this
repository. `blame` is a history variable: the accidents after which the code
gives no guarantee, each set by the one action that is the accident; the
properties are about everything else.

**`WebSession`.** `live`, `opened` and `login` are the session rows and the login each
goes back to; `jar` the cookies of the browser (`fresh`: the JWT has not lapsed);
`at` where each tab or call is. A refresh is `refresh_tokens` (the check),
`invalidates` (the first commit, which ends the old session), `_create_session` (the
second, which opens the next), and `set_auth_cookies` or `lose` (the answer); the
service may `crash` before either commit, and what others do between the two finds
no active session. `apiFetch`, `refreshUser`, `login_`, `logout` are the routes and
functions of these names; `lostReply` loses the answer of a login or logout, and a
logout may not reach the server. With the default settings the JWT and the cookies
`cv_access` and `cv_session` have the same hour: `hourPasses` is that lapse, after
which `cv_refresh` alone is left, and `lapses` that of a shorter JWT. `signed` and `began` are
histories; `blame` as above.

**`ScopedQueries`.** `scope` is the zustand store, `lists` the account lists being
fetched (`loader`, or a connection or deletion), `cache` the entries of two
families of queries by key: the CSPM findings, keyed by the whole scope and
refetched on demand, and the console's, keyed by `accountIds` and polled. The query
library is external and modelled from its use: `invalidateQueries` marks every
entry of a family stale and asks the one on screen again, calling back an answer
under way unless it is the first. `setAccounts`, `selectProvider`, `loads`,
`onSuccess`, `onmessage` and `connect` are the functions of the source.

**The abstract modules.** Each leaves out how its promise is kept. The refinement
mapping is an `INSTANCE` in the detailed module, and the property that stands for
it, `...!Spec` of the instance, is checked and proved.

| abstract | implemented by | what it promises | the mapping |
|---|---|---|---|
| `ProviderGate` | `CircuitBreaker` (`OpenProtects`) | a gate that shuts only when a failure was seen, admits nobody while shut, opens on trial for one caller once it has rested, and decides the trial by its first outcome; whoever is inside may also give up without one | `GateOf(state)`, the callers inside, which kinds of outcome the counters hold, whether `age` has reached the timeout |
| `AccountSyncs` | `SyncScheduler` (`SyncsAsPromised`) | only a live account gets new work; only workers and deletions change its record; a sync begins where none runs and gives back its own lock, except while *robbed* | who has something to do, who deletes, who holds the lock; `robbed` is `breached` |
| `FindingCase` | `FindingLifecycle` (`CaseIsKept`) | every status written was decided along an edge of the state machine from a status the case had; status, date and entry are written at once; where the newest entry may tell another status, that is known | `Plans`: what each task's view makes it decide; `silent` is the history variable `astray` (the three gaps that `HistoryFollowsRow` names), `late` is `overtaken` |
| `DecidedStatus` | `CspmScan` (`DecisionsKept`) | a scan reports what it read as absent, reopens what it read as resolved, resolves what it read as open, or nothing; a finding is inserted once; users ask for changes of what exists | `Judgements` of the scans, computed from what they read and evaluated; `Wishes` of the requests |
| `TokenChain` | `WebSession` (`SessionsChain`) | a session comes from a login, or takes the place of one that was active when its token was shown; what has ended stays ended | `Claims`: the sessions being exchanged |
| `WorkflowTree` | `WorkflowGraph` (`EditsTheTree`) | each edit inserts or deletes one node of a tree, a reload keeps what the stored form can say | `kids` of what was rebuilt from the nodes |

In `FindingCase` and `DecidedStatus` the decision and its write are two steps with
anything in between, for that is what the code does: they say what holds of a
stale writer, not that there is none.

`SyncScheduler` and `Discovery` meet in `AccountSyncs`: the scheduler implements it,
and `Discovery`, whose module knows neither locks nor schedules, needs of it that two
syncs never overlap (4). Otherwise the service modules are not composed: their
interfaces are the Kafka topics and the shared table, and each module lets its environment do all that the
other side may do (`CspmScan!Change` for `Discovery`, `FindingLifecycle!Sight` at
any time for the scans, `ScopedQueries!Change` for both). `WorkflowEditor` and
`WorkflowGraph` divide one page: the first abstracts a workflow's shape, the second
its time.

## 3. Runs

Deadlock checking is off only where the system really may stop: `SyncScheduler`
after a row is gone, `Discovery` after the account is deleted, `WebSession` when
the sessions of its bound are used up and no tab has anything to do, and
`ScopedQueries` when the inputs of its bound are used up. Elsewhere it is on.

| run | asks | bounds, and why they suffice |
|---|---|---|
| `breaker` | the circuit under racing callers, and that it is left again | 3 callers: a probe, its rival and a late outcome; 4 requests reach the volume threshold and pass it; 1 retry |
| `scheduler` | lock, schedule, deleted and live accounts, with every fault on | 1 replica with its monitor and a request beside it: the lock is always between two tasks; 1 crash, of a running replica or of one that starts over an account that was there before it (a second crash, in the restart after the first, is left to the proofs, for any number of crashes). The authentication threshold is 2 (the code's is 3): the first error keeps the status, the second stops the polling, and counts above say nothing new. The outcome `error` is left out: it is `partial` but for the name it writes. Several replicas are left to the proofs, where their number is arbitrary |
| `discovery` | grace period, order of commit and event, convergence, under all six faults and the deletion of the account | 2 resources, threshold 3 (the code's), 2 changes, 2 faults, one sync at a time |
| `findings` | the row, its history, reopening, announcing | 2 ingestions and 1 user: three writers, so that two commit in the reverse order of their stamps while a third reads; 1 fault |
| `cspm` | findings and verdicts while scans overlap | 2 scans that repeat for ever, 1 user, 1 change of the resource, 1 fault; the organization has no other resource, so that rounds pass it by when this one is gone |
| `cspm_overlap` | `ComplianceFollows`, expected to fail | 2 scans, no fault, no user; other resources keep the rounds coming |
| `wf_graph` | that the flat lists are the tree, and survive a save | 3 steps of 4 roles at every edge, in every nesting of up to three, beside 2 triggers: one container in another with a task in it, and two containers side by side. One task has a typed `if`, beside those that a reload leaves in tasks. One change by hand between two loads, while the workflow has one step: every node and edge of an empty workflow, a task or a container is removed, and every connection drawn |
| `wf_save` | `SavePreservesTasks`, expected to fail | actions and conditions only |
| `wf_editor` | marks, edits, runs, what the page settles on | 2 nodes, a step whose form writes late and a trigger whose form writes twice and whose values are not stored; 2 saves, which can cross; 2 edits, the second invalid |
| `wf_run` | `SavedBeforeRun`, expected to fail | 1 save, 1 edit |
| `session` | sessions, cookies and users of one browser | 2 tabs and a call: three parties to a refresh; 3 sessions: a login and two rotations, or two logins and one |
| `scope` | scope, answers, invalidations, events | 2 providers, one with 2 accounts; 1 connection or deletion beside the loader; 3 inputs (a change, a selection and a fault, in any order) |

What the passing runs show:

* `OpenProtects`, `OpenIsLeft`: however outcomes overtake each other,
  the breaker is a `ProviderGate`: it opens on a failure that was counted, only the
  timeout or an operator ends the cool-down, the first outcome decides a half-open
  period, and the circuit is left again.
* `LockIsOurs`: the lock protocol is right *except* for TTL expiry, rescheduling and
  a replica's start. The three exceptions are named by `breached`, which only they
  can set. `SyncsAsPromised` (the scheduler implements `AccountSyncs`, so that a
  deleted account gets no new work) and `SchedulerKeepsUp` (no lock blocks for ever,
  a deleted account loses its schedule for good, a scheduled one is synced again and
  again) hold with all faults on.
* `FreshnessOK`, `DeletedAfterGrace`, `ForgottenDuly`: no row is deleted, and no
  consumer told so, before `Threshold` syncs in a row missed the resource and the
  deletion was committed. `Converges`: once the cloud rests, consumers believe what
  exists, unless an upsert failed, an event was lost or the connector died between
  the two, which the code never repairs.
* `RecordsFollow`, `CaseIsKept`, `ViolationIsActedOn`: stale writers may leave the
  state machine, but each decided along it from a status the finding had; they never
  leave a resolved finding without a date, and the newest entry tells the status
  unless one of three gaps was met: a resolution without an entry, a note or the entry
  of a creation stamped after a change it had not seen, and a change that was stamped
  before the newest entry and committed after it. A persisting violation reopens and
  is announced.
* `DecisionsKept`, `ScansCatchUp`, `StateOK`: no status is written that was not
  decided from one that was read; collisions, outages and crashes delay a scan's
  result and never lose it; the compliance verdict follows as long as its
  row is unique and the organization has a resource, without which nothing scans it.
* `GraphAgrees`, `EditsTheTree`, `SavesAreFaithful`: whatever is inserted and deleted
  where, drawing what the nodes rebuild to gives the screen, and that is the definition
  unless validating it throws; each edit is one of the abstract tree; a workflow that
  the stored form can say comes back as it was, and any workflow is stored after the
  first save as it will be after the second, every `if` included. Changes by hand on the
  canvas break the agreement, which the next load restores.
* `CleanMeansStored`, `EditsAccounted`, `RunsWhatIsShown`, `NothingGoesBack`,
  `SettlesOnServer`: apart from the accidents `blame` names (a save that failed or was
  overtaken by an edit, crossing saves, a form whose node was deselected, a reread over
  unsaved edits, another user, leaving the builder), a clean mark means that the server has the
  stored form of the working copy, a run executes the stored form of what is shown, no
  edit is lost, and neither the page nor the server goes back to an older edit of any
  node. (What the stored form leaves out is shown, not marked and not stored: `wf_save`.)
* `SessionsChain`, `OnePerLogin`, `StaysSignedIn`, `SignedOut`, `LoadEnds`: sessions
  come from a login or from a claim and from nothing else; unless two refreshes
  overlap or something fails, a login keeps one session and the browser its token or
  the exchange that replaces it, between the two commits of a rotation too; lapsing
  tokens, the idle hour that takes `cv_access` and `cv_session` included, take no user
  from a page that was loaded (a page loaded after such an hour starts without one,
  6); a logout leaves nothing; and a page never waits for ever, whatever fails.
* `ScopeIsKnown`, `SettledIsServer`, `FindingsAreScoped`, `ShowsWhatIsDue`,
  `ConsoleCatchesUp`: the scope stays within the list, late answers never show another
  selection's findings, an invalidation that can act is never lost, and the polled
  page repairs lost events.

### Fairness

Requests, users, manual scans, faults and changes owe nothing. Fair are: a
handler or sync that has started (asyncio runs it and each provider call has a
timeout), the scheduler's monitor (`while self._running`, every 30 s), the
restart of a crashed replica (the orchestrator), the polling interval and the
expiry of Redis keys, the breaker's clock, the daily loop of the CSPM service
as long as it lists the organization (which has a resource, and there are no more
organizations than a round takes: 50, in no order, so that with more of them one
may be left out for ever),
and, for `Converges`, that syncs recur; faults are bounded, so that they cease. `ViolationIsActedOn` assumes that a violation which persists is sighted again,
for every scan reports it again. In the browser fair are: a timer that was set
(`setTimeout` of a form, the `refetchInterval` of the console, in a page that
has the focus, for React Query polls no hidden tab), a request, which is
answered or fails, and the continuation that takes the answer. Every condition is
weak fairness.

Weak fairness of a step that is never enabled says nothing. Each liveness property
therefore begins with a conjunct of its own, `[]...GoesOn`: whenever a fair step is
due, it is `ENABLED`, so that no handler, request, timer or key is stuck. The rest
of the property is what comes of it in the end.

## 4. Proofs

| module | theorems | the strengthening |
|---|---|---|
| `CircuitBreakerProofs` | `TypeCorrect`, `CountersFitHolds`, `OpenProtectsHolds`, `GateHasGrounds`, `OpenIsLeftInTime` | the conjunction of the invariants is inductive: the type invariant bounds the counters that the evidence compares |
| `SyncSchedulerProofs` | `TypeCorrect`, `LockIsOursHolds`, `SyncsArePromised`, `DeletedQuiet`, `LockIsFreedInTime`, `SchedulerKeepsItsPromise` | overlap alone is not inductive; that holders own the lock is, and the lock has at most one owner |
| `DiscoveryProofs` | `TypeCorrect`, `FreshnessHolds`, `GraceHolds`, `ForgottenDulyHolds`, `LockedDiscovery`, `ConsumersConverge`, `LockedDiscoveryConverges` | what a sync's pending decisions claim about the rows it read, and that a miss count is a count of consecutive misses; all but the first have the hypothesis `[]OneAtATime` (no two syncs overlap), and the two about grace say nothing of histories in which an upsert failed. For convergence: `Told`, what consumers believe in has a live row, or a sync is about to give it one or to announce its deletion; `Whole`, a sync about to write has decided on every live row it did not list; `Apart`, what it deletes it did not list |
| `FindingLifecycleProofs` | `TypeCorrect`, `RecordsFollowHolds`, `CaseKept`, `CaseIsEnough`, `ViolationsAreActedOn` | what the view of a task may claim: a commit's entry matches its view, a request's target is an edge from its view, the creation's entry still tells the status as long as nothing else was recorded |
| `CspmScanProofs` | `StateIsOK`, `DecisionsAreKept`, `OnlyStaleScansStrayHolds`, `OneRowWithoutOverlap`, `VerdictsLandWithoutOverlap`, `ScansDoCatchUp` | `RoomLeft`: rows plus scans that will insert never exceed the scans; `SeenStays`: a row that was read remains. `OneRowWithoutOverlap` and `VerdictsLandWithoutOverlap` have the hypothesis `[]OneRecorder` (no two scans are at once between reading a control's row and committing it), with which what a scan has seen is what there is |
| `WorkflowEditorProofs` | `TypeCorrect`, `CleanIsStored`, `EditsAreKept`, `RunsAreShown`, `NoEditIsUndone`, `PageSettles` | `SaveIsKnown`: while nothing has gone wrong at most one save is in flight, and it carries what is stored or the changes mark is still up; `DroppedIsAbsent`: what the stored form leaves out is never stored; `LastEdit`: a form that is about to write holds the last edit of its node; `Forward`: what is stored is no newer than what a save carries, that than the working copy, and that than what a form will write; `ClosedIsSettled`: a builder left with nothing under way finds everything as it was |
| `WebSessionProofs` | `TypeCorrect`, `OneSessionPerLogin`, `UserStaysSignedIn`, `LogoutIsComplete`, `SessionsAreAChain`, `ChainKeepsOne`, `NoOverlapNoRace`, `LoadsEnd` | `Alone` and `CheckedIsTheOne`: without an overlap one client exchanges tokens at a time, and the session it found is the only one of its login; `FineNow`: while nothing has gone wrong there is at most one active session, the cookies are of it, and whoever is denied belongs to a browser that signed out; `EndedIsIn`, `EndedIsGone`: between the two commits of a rotation no session is active, and the browser shows the token being exchanged |
| `ScopedQueriesProofs` | `TypeCorrect`, `ScopeOfTheList`, `ListSettles`, `ScopesKeptApart`, `NothingOldIsShown`, `ConsoleDoesCatchUp` | statements about every cache entry, shown or not: what it holds and waits for is of its key (`AllGood`), is fresh or marked old (`AllFresh`), and an old one on screen is being asked for (`ShownWaits`); a list that is awaited is current or somebody is to blame |

All hold for every value of the constants that satisfies the module's
assumptions and the hypotheses named above, with every fault and bound left as a
parameter. Each proof has the same shape: the initial states, one lemma per action or
group of actions, with a step per conjunct the action can disturb, a lemma per
action property, and a last line of temporal reasoning.

**Refinements.** `OpenProtectsHolds`, `SyncsArePromised`, `CaseKept`,
`DecisionsAreKept` and `SessionsAreAChain` show that the initial states map to
initial states and that every step maps to a step of the abstract specification or to
none. There is a lemma per group of actions, which says what the group does to the
mapped variables, and most rest on the inductive invariant: that a commit is one of
`FindingCase` needs that the view it was decided from was a view of the row
(`Sound`), and that a sync's end is one of `AccountSyncs` needs that it owns the
lock. The fairness of a specification is not used there.

**What a promise is worth.** Three theorems are about the abstract specifications
alone, and hold of whatever implements them. `GateHasGrounds`: a `ProviderGate` is
shut on evidence and on trial with a clean slate. `CaseIsEnough`: keeping a
`FindingCase` is enough for `RecordsFollow`; nothing else that the service does
matters to it. `ChainKeepsOne`: a `TokenChain` whose clients never exchange sessions
of one login at the same time (`NoRace`) has one active session per login. Its
inductive invariant ties each claim to the only session its login can have, so that
the successor finds the place empty. `NoOverlapNoRace` discharges the hypothesis as
long as no two exchanges overlap; when they do, the code indeed opens two (6).

**Composition.** The theorems about `Discovery` need that two syncs of an account
never overlap, which is not its own doing. `UnderTheLock` says that its syncs run
inside those of an `AccountSyncs` that is not robbed; `LockSuffices` derives
`[]OneAtATime` from it, by an invariant of the abstract module alone (`Exclusive`),
and `LockedDiscovery` the grace period and the order of announcements.
`SyncsArePromised` is the other half: the scheduler is such an `AccountSyncs`, for
any number of replicas. What stays assumed is that nothing robs a lock, and the
scheduler's run shows by which three steps one is robbed.

**Liveness.** Nine theorems derive the long run of every component from the weak
fairness of its specification. The argument is the same each time: the inputs that
are bounded (faults, crashes, changes, edits) cease; from then on each thing under
way goes through finitely many stages, and is kept in none by what the others do; so
it gets to its end, and what it leaves then stays. A stage is left by one lemma
(`Leaves`, `Moves` and the like): the steps that may come between keep the stage,
the fair step ends it, temporal logic does the rest.

Two kinds of hypotheses are stated, and neither is about what the program decides:

* `[]...GoesOn`, that a fair step is `ENABLED` when it is due. The provers cannot
  expand `ENABLED`. It is the first conjunct of the property itself, so that the run
  of the module checks it together with what the theorem concludes.
* Instances of one law of temporal logic: what is true of each of finitely many things
  from some time on, is true of all of them from some time on. It holds in every
  behaviour, of any program. Its proof is an induction over the set with temporal
  formulas in the induction hypothesis, which the language has no function or set to
  put into. The instances are named: that bounded counters stop (`FaultsPassTogether`
  of three modules, `CrashesPassTogether`, `ChangesPassTogether`,
  `InputsPassTogether`, `NewsPassTogether`, `AgesPassTogether`,
  `AttemptsPassTogether`, `MissesPassTogether`), and that replicas, tasks, monitors, scans,
  saves and requests come to rest (`ReplicasStartTogether`, `TasksFinishTogether`,
  `SeedsPassTogether`, `ScansRefreshTogether`, `SavesRestTogether`, `RequestsEndTogether`). `LoadsEnd` and
  `LockIsFreedInTime` need none.

`OpenIsLeftInTime` supposes a caller and `ConsumersConverge` a sync to run, without
which both are false; the latter also `[]OneAtATime`, which
`LockedDiscoveryConverges` again replaces by the lock.

Checked by TLC only: the `...GoesOn` conjuncts, as said, and `WorkflowGraph` with
its refinement of `WorkflowTree`, whose operators are recursive as the code's are,
and whose properties (`GraphAgrees`, `SavesAreFaithful`, `EditsTheTree`) are about
what a recursive definition computes.

## 5. Disagreements the runs show

1. **A compliance verdict freezes** (`cspm_overlap`). Two overlapping first scans
   insert the control twice; from then on `scalar_one_or_none` raises, the error
   is logged, and the verdict never changes (`scan_executor.py:451`).
   `OneRowWithoutOverlap` proves that only this overlap brings it about, and
   `VerdictsLandWithoutOverlap` that without it every scan's verdict ends in the row.
2. **Saving a workflow drops tasks** (`wf_save`). Only the true branch of a
   condition and the first task of a foreach are written (`parser.ts:347`, `:502`),
   validation lets the rest through, and `parser.ts:19-20` promises to preserve "all
   workflow properties, conditions, and relationships".
3. **A run executes what was stored before a failed save** (`wf_run`).
   `updateWorkflow` answers `null` for an error, `saveWorkflow` clears the changes
   anyway (`workflow-builder.tsx:207`), and the run waits for nothing else (the shortest
   trace: an edit, save and run, the save is refused, the end of the save starts the
   run; `lastRun.by` tells such a run from one that leaving the builder released);
   `useWorkflowRun.ts:207`: "Ensures all changes are saved to prevent data loss".

## 6. Disagreements met while modelling, without a run

Sequential or simple enough to see, or outside the models' cut:

* Breaker: `failure_window_seconds` (`circuit_breaker.py:73`) is never read, so
  counters do not age. The success of a call admitted before the circuit opened
  may return in `HALF_OPEN` and closes it although no probe has succeeded: admit
  A; other calls fail and open the circuit; the timeout passes and B probes; A
  succeeds; closed (`:160`, `:188`).
* Scheduler: a starting replica clears live locks (`sync_scheduler.py:79`) while
  the architecture document deploys two replicas. An account that was
  disconnected cannot be connected again (the unique constraint ignores
  `deleted_at`, `cloud_account.py:72`); a creation whose connectivity check fails
  answers 400 with the row committed; rotation stores the new credentials before
  it validates them. Deleting an AWS account calls a
  method that does not exist (`accounts.py:254`). A rotation that read `active`
  keeps an `auth_failed` written meanwhile (`account_service.py:231`), so the
  account stays unpolled with good credentials. The monitor's session, which stays
  open during the sync, writes status and error count a second time after the lock
  was released (`:497`), over what another sync or a rotation wrote meanwhile.
* Discovery: a failed upsert makes misses non-consecutive; a crash between commit
  and emit loses `resource.deleted` for good (later sweeps skip deleted rows).
* Findings: of two concurrent reopenings `regression_count` may lose one; automatic
  resolution writes no history (the instructions, line 877, ask for it); an entry is
  stamped before its commit (`findings.py:566`, `:292`) and the trail is sorted by
  stamps (`:357`), so of two racing changes the one that stays in the row may be told
  as the older; the creation's entry is stamped after the row is committed (`:141`,
  `:145`), so that a change made in between is told as the older one;
  `EXISTS` and `SETEX` are two calls, so two sightings may both notify;
  `bulk_suppress` selects `in_progress` findings whose transition is invalid and
  skips them silently; the REST routes build a `FindingService` without Kafka, so
  changes by users emit no event.
* CSPM: an outage of the policy service reads as "no violations" and resolves open
  findings until the next scan; a scan whose batch collides stays `running`,
  because its session can no longer be used; findings of deleted resources are
  never resolved; once an organization's last resource is deleted, its compliance
  verdicts stay what they are unless somebody starts a scan; beyond 50 organizations a
  round leaves some out, and an exception in one organization's turn ends the round
  (`cspm/main.py:173-209`); a scan that read `open` overwrites a suppression.
* Events: the alert service encodes `finding.created` twice and the graph's
  consumer has no guard per message, so its loop ends; `resource.discovered`
  resets the finding counters of a node.
* Realtime consumers: the manager checks for a running task, awaits, and registers
  afterwards, so two starts run two consumers (`manager.py:104`, `:176`).
* Auth: one MFA backup code can be used twice at once (`auth_service.py:300-304`).
* Scheduler, locks: a `PATCH` of the polling interval deletes the lock of a sync that
  runs (`sync_scheduler.py:192`), so a second one starts beside it, although `:245`
  promises "distributed locking to prevent concurrent syncs"; `breached` in
  `LockIsOurs` is this exception among others. The schedule key's TTL of seven days
  is set by `schedule_account` only (`:186`), so it is uptime that exhausts it and
  not the "downtime" of `:184`, and polling stops (`ScheduleExpires`).
* Discovery: a sync in flight when the account is deleted announces resources again
  behind their `resource.deleted` events (`accounts.py:302`, against `:213-214`). A
  query that caches known resources compares the rows' cloud account id with the
  account's UUID (`sync_scheduler.py:531`), so the cache stays empty and every sync is
  a full one.
* Findings: a commit validated against an older row goes from `resolved` to
  `in_progress` (`findings.py:276`), against "Validate all state transitions"
  (`Instructions/backend_Instructions.md:876`). A consumer that leaves its loop on an
  error is never restarted (`finding_events.py:81`).
* Builder: two conditions of one name with several tasks each share an alias, and a
  reload puts the tasks of the second under the first; names are not validated.
  A condition at the top over two tasks of one kind is stored with an alias that the
  second names in its `if`; opened again, that `if` is looked up from a task that
  `flattenSequence` does not list, because it does not descend into branches
  (`validate-mustache-ui-builder.ts:28-34`, `:175-190`), and `updateDefinition` throws
  "Current step not found in the sequence": the page says that it failed to load, goes
  on showing and editing the lists, and a save stores the definition that stayed
  behind. Any variable in a field of a task under such a condition has the same
  effect, unless a step that is listed has the task's name. An `if` without variables on
  the task that carries a condition makes the parser take the entry for a plain step
  (`parser.ts:214-231`), and the condition is lost. What is removed or connected by
  hand on the canvas (`workflow-store.ts:550-604`) neither changes the definition nor
  counts as a change; a step then inserted before a container's end node is drawn and
  not in the definition.
  The filter values of an alert trigger are serialized from `alert[key]`
  (`parser.ts:542-547`) and lost. `getNextEdge` of a condition answers the second
  edge (`workflow-store.ts:759-767`).
* Editor: a debounced write that fires with nothing selected leaves the editor
  unsynced, and Save stays disabled until another edit. A trigger's late write replaces
  the properties of a step selected meanwhile (`TriggerEditor.tsx:32-37`). A save of what
  the stored form cannot say clears the mark like any other. What is edited while a save
  is in flight is marked as saved; what is read back after a save replaces it; the
  first of two saves to end clears `isSaving` for both. The standalone YAML editor
  swallows a failed save the same way (`WorkflowYAMLEditorStandalone.tsx:68-109`).
* Session: two refreshes with one cookie may open two sessions, against
  `auth_service.py:354`; the loser of an overlap clears `cv_session` and drops the
  user. An answer lost, or a failure between the two commits, leaves a cookie without
  a session. A logout whose access token is missing, as after an idle hour, ends
  nothing; with one that
  lapsed, the route clears the cookies on an answer its exception replaces
  (`auth.py:205-207`). `cv_session` and `cv_access` live an hour, so after an idle hour
  a reload signs out a browser whose `cv_refresh` has thirty days. The `expires_at` of
  a session is never checked. Logging out in one tab leaves the user on screen in
  the others. Any error of `/auth/me` costs a rotation. The comments of `cookies.py`
  speak of `Path=/auth/refresh` and 900 seconds, the code sets `/` and 3600.
* Scope: `hasSavedValidScope` looks for `accountIds` at the top of what zustand persists
  under `state`, so the selection is lost at every load. `setAccounts` compares ids
  only, so a renamed account keeps its name. Told that no account is connected, the
  loader falls back to CSPM posture rows, which no deletion removes
  (`cspm/app/routes.py:392-440`). The console's keys hold `accountIds` only, so the one
  account of a provider may show what was fetched for the whole provider
  (`use-connector.ts:6-7`: "All hooks are scope-aware"). For the scope of a provider
  `filterByScope` takes every account of the provider, in `accountIds` or not, so
  `FindingsAreScoped` promises no more. The socket's events invalidate
  the console's keys and not the CSPM ones; reconnecting refetches nothing, and
  without `cv_session` it never reconnects. An invalidation that meets a first fetch,
  or the fetch of a page no longer open, is lost. `useToggleRule` swallows errors, so its rollback
  never runs. The cleanup of `use-aiops-websocket.ts` clears the retry timer before
  it disconnects, and the disconnect sets another.

## 7. What is not modelled, and why

The implementation is 118 thousand lines of TypeScript beside the Python of the
services, and most of it renders: pages, forms, tables, charts, API wrappers
and types, whose state is one component's and whose order of events does not
matter. The modules map the stores, hooks and algorithms that are left, a few
thousand lines; a larger share of the whole could only be had by naming lines
that no definition translates.

Prompts, SDK wrappers and Vault calls keep no state of their own.
CSPM's analysers (IAM, IaC, attack paths, drift) are long sequential functions over
data; their control is straight-line and their tests reach it. Rego policies are
evaluated by an external engine: models see a verdict. Scores, SLA arithmetic,
metrics, pagination and formatting are left out.

Within the modelled parts: sync progress snapshots and credentials, enrichment and
the per-channel rate limiter (a lost delivery stands for it), scan records and
posture snapshots, and all keys but one (accounts, fingerprints,
resources-with-a-rule do not interact except in the batch commit, whose collision is
modelled); the values of a workflow's steps, positions on the canvas, validation
messages, what the assistant adds, the YAML panel and its debounce; registration,
organizations, MFA and password changes; queries other than the two families, which
are keyed and invalidated in one of the two ways.

## 8. What is left

1. `RealtimeConsumers`: start, stop and watchdog; one consumer per account, and that
   one that died is restarted (`manager.py:104`, `:176`).
2. `EventPipeline`: discovery and finding events in one partitioned log, consumed by
   graph, policy and alert with automatic offset commits; counters of a node agree
   with its findings once quiet. It would compose abstractions of `Discovery` and
   `FindingLifecycle`.
3. Abstract specifications for `WorkflowEditor` (one draft, saves that carry its
   stored form) and `ScopedQueries` (answers that belong to what was asked), and the two
   halves of a workflow save joined.
4. The standalone YAML editor beside the builder, on one workflow.
