# TrustPulse: TLA+ models and proofs

TrustPulse (`src/trustpulse`) decides whether an action of a web session is
allowed. A browser SDK (`sdk/src`) collects behavioural features and sends them
as telemetry; a FastAPI backend (`backend/app`) stores them, learns a baseline
per subject and device, and answers `POST /risk/evaluate` with `ALLOW`,
`STEP_UP`, `BLOCK` or `ISOLATE`. This directory models the SDK's telemetry
pipeline and the backend's ingestion, learning and decision paths, checks them
with TLC and proves their safety properties with TLAPS. Paths below are relative
to `src/trustpulse/backend/app` unless they start with `sdk/`.

## 1. Inventory

| Component | State | Operations | What makes it correct |
|---|---|---|---|
| Policy and scoring (`engines/policy`, `engines/action`, `engines/risk`) | none (settings) | action risk, fusion, `decide` | monotone in evidence and risk; isolation only on correlated evidence |
| Risk evaluation (`services/risk_service.py`) | the request's local state; action, assessment and decision rows | `evaluate` | no flapping within the cooldown; an open incident isolates; terminal sessions stay terminal |
| Sessions (`services/session_service.py`, `repositories/sessions.py`) | row: status, SDK binding, last seen | register, reactivate, PATCH status, bind, touch | status changes only by the operation that is meant to change it |
| Incidents (`services/incident_service.py`) | rows OPEN / RESOLVED | create (by ISOLATE), list, resolve | open incident and session status agree |
| Telemetry ingestion (`services/telemetry_service.py`) | event rows | batch: check, store, refuse, commit | one verdict per event, in sequence, of the bound SDK instance, never falsely acknowledged |
| Redis state (`core/redis.py`) | decision state, replay markers, sequence numbers, rate counters, queue; or their in-memory fallback | get/set with TTL, setnx, incr, rpush/lpop | outside the database transaction: agrees with it after failures |
| Behavioural engines (`engines/behavioral`) | none | anomaly, drift, similarity | evidence, never a decision |
| Baseline learning (`services/behavioral_service.py`, `engines/behavioral/baseline.py`) | candidate, trusted and previous baseline per profile | rolling update, promotion | no lost observation, none learned twice or without being stored; promotion only when backed; no deadlock |
| Telemetry worker (`workers`) | queue, transaction of a job | push, pop, process, commit | a job is processed at most once and the queue is drained |
| SDK pipeline (`sdk/src/telemetry`, `transport`, `session`, `TrustPulse.ts`) | queue, sequence, session id, lifecycle state | track, flush, retry, beacon, pause, resume, destroy, change session | a packet is in one place, and accounted for at the server if acknowledged; one timer; nothing stays in the queue |
| SDK collectors, features, privacy, utilities | per-collector buffers | DOM callbacks | sequential, unit-testable |
| Authentication, audit, metrics, health, migrations, example | rows and counters no guard reads | | not modelled |

Interaction: each API request runs in its own asyncio task with its own
database transaction (READ COMMITTED), awaits between its steps, and reads and
writes Redis at once, outside that transaction. Requests on one session
therefore interleave at every await, see the row they loaded first
(SQLAlchemy's identity map) and leave Redis as it is when they roll back. The
in-memory fallback of Redis is lost with the process.

Hard behaviours, each with its line in `PROJECT.json` under `hazards`: stale rows
and a stale decision state across awaits; Redis written before a commit that
may fail; markers and numbers that outlive a rolled-back batch; the commit
order of overlapping batches; lost updates and lock waits on a shared profile; a
job queued before its batch commits; expiry and restart; rounding at the policy's
thresholds; the SDK's timer, hidden page, retries and lost answers, in any order.

## 2. Modules

| Module | What it is |
|---|---|
| `TrustPolicy` | pure operators: `ActionRisk`, evidence codes, fused score with its rounding, `Decide`, `ApplyHysteresis` |
| `RiskScoring` | one evaluation of any evidence and action; the policy alone |
| `RiskEvaluation` | concurrent requests on one session: evaluations, registrations, PATCHes, incident resolution, time, restart; implements `SessionGuard` |
| `SessionGuard` | abstract: the status of a session and its incidents, changed one request at a time |
| `TelemetryLedger` | abstract: an event log in which an event gets one verdict and keeps it |
| `TelemetryIngest` | concurrent telemetry batches of one session, implementing `TelemetryLedger` |
| `BaselineLearning` | batches of several sessions and the worker, updating the profiles of several tenants |
| `SdkTelemetry` | one SDK instance with its page, its network and the server's checks |
| `MCRiskScoring`, `MCRiskEvaluation`, `MCTelemetryIngest`, `MCBaselineLearning`, `MCSdkTelemetry` | constants for TLC |
| `TrustPolicyProofs`, `RiskScoringProofs`, `RiskEvaluationProofs`, `TelemetryIngestProofs`, `BaselineLearningProofs`, `SdkTelemetryProofs` | theorems |

Operators whose comment begins with "Mutant:" are plausible bugs in the action
that follows them; nothing in the specifications uses them. Each property of a
passing run is violated when its mutant (`PROJECT.json`, `mutants`) takes the
place of the real definition.

### TrustPolicy and RiskScoring

Scores are integers, signals in hundredths. `Composite` is the weighted sum in
ten-thousandths; `RoundedScores` is `round(100 * composite)`, and on an exact
half both neighbours, since the float sum may fall on either side and `round`
goes to the even one. An action is a base risk and an amount; the base `BLANK`
is a type of white space, which the schema admits and the engine judges MEDIUM
before it looks at the amount. The behavioural engines are abstracted to what they
report (`Evidence`); `Gatherable` is what `get_behavioral_evidence` and
`_device_evidence` can report together: without a trusted baseline no score and
no drift, with one a named device is a known device. A failure of the anomaly
engine is evidence with a score of 0.5. Texts, confidence levels and rule ids
are left out; no decision depends on them. The family the code calls `ACTION`
is `AMOUNT` here, as ACTION is a word of TLA+.

### RiskEvaluation

| Action | Code |
|---|---|
| `BeginEvaluate` | `evaluate`, session lookup and early answers (404, 429, terminal) |
| `ReadIncidents` | `get_open_incidents` |
| `DecideAction` | evidence, score, `get_decision_state`, `decide`, `_apply_hysteresis` |
| `PublishDecision` | rows flushed, `set_decision_state` |
| `CommitDecision` | reaction (ISOLATE: incident and status; BLOCK: status ACTIVE) and commit |
| `BeginPatch`, `CommitPatch` | `PATCH /sessions/{id}/status` |
| `BeginRegister`, `CommitRegister` | `POST /sessions` |
| `Abort` | an exception before the commit: the database rolls back, Redis does not |
| `ResolveIncident` | `POST /incidents/{id}/resolve` |
| `Tick`, `Restart` | time and TTL of the decision state; restart of the process |

A handler writes a status only if it differs from the one it *loaded*, as the
ORM emits only changed columns: a BLOCK of a handler that loaded ACTIVE leaves
the status alone, one that loaded PAUSED sets ACTIVE over whatever is committed
by then. `since`, `overtaken`, `released` and `watched` are history variables.
An evaluation's evidence is a member of `Assessments`, chosen anew each time.

`SessionGuard` says what these handlers amount to: atomic changes of the status
and the incidents. `GuardSpec` maps the committed rows to it, and whether
requests may overlap (`~Serial`) to its `Overlap`, which is what the guard pays
for handlers that act on the row they loaded: they may revive a session, or
isolate one that has ended, and do nothing else that they should not.

### TelemetryIngest

A handler takes its batch packet by packet: `Load` (session row), then
`Screen` (rate limit, replay marker, sequence number) or `Refuse` (rejected and
stored as such, before its marker), then `Store` or `RefuseTag` (the comparison
of its integrity tag raises: rejected, with its marker and number set), and one
`Commit` at the end or a `Fail`. The row
object is kept no longer than a packet, so each packet loads it anew.
`update_last_seen` locks the session row until the transaction ends
(`HoldsRow`), and an insert waits for another transaction that holds the same
event id. Redis is the in-memory fallback: with an external server the call
`setnx(..., ex=...)` raises a TypeError and every packet is refused. A
DEGRADED event (failed advisory checksum) is stored and counted like a VALID
one and is VALID here. The verdict of the schema, time stamp and size checks is a
free choice in `Refuse`. A packet that names another session than the header
(`foreign`, one of the batches in `Misdirected`) is refused before the rate
counter sees it. `left` is a history variable: the events whose marker stays
behind when their batch fails or their number regresses.

`TelemetryLedger` says what a client may rely on: an event gets one verdict,
when a batch is committed, and keeps it. `LedgerSpec` maps its log to the
committed rows; everything else of an ingestion is a stutter.

### BaselineLearning

| Action | Code |
|---|---|
| `Send`, `Accept`, `Refuse` | `ingest_batch`, `_validate_and_persist`; the checks themselves are in `TelemetryIngest` |
| `Enqueue` | `_enqueue_or_process`, asynchronous: `queue_depth`, `queue_push` or skip |
| `ReadProfile`, `InsertProfile` | `get_or_create` of the profile repository |
| `UpdateProfile` | `update_baselines`: rolling update, `can_promote_to_trusted`, promotion |
| `Commit`, `Fail` | the end of a batch's or of the worker's transaction |
| `PopJob` | `queue_pop` and `_process` of the worker |
| `ExpireQueue`, `Restart` | TTL of the queue; restart of the process |

A baseline is its `observation_count` (0 for null): the count decides about
promotion, the statistics decide nothing here. The setting
`TELEMETRY_ASYNC_PROCESSING` is chosen in `Init`: with it the worker learns,
without it the handler does, in the transaction of its batch. A transaction
loads the profile (`seen`), writes its own version (`mine`) and locks what it
wrote: `Accept` the session row (`update_last_seen`), `UpdateProfile` and
`InsertProfile` the profile row. An insert that meets a committed row violates
the unique index; the caller swallows the exception, and the transaction is
`unusable` from then on. `learnt`, `absorbed`, `promotions` and `undone` are
history variables: what committed transactions learned, and what was rolled back.

### SdkTelemetry

| Action | Code |
|---|---|
| `Activity` | a DOM event in an active collector |
| `Tick`, `FlushNow` | `harvestAndDispatch`, from the interval timer and from `flush()` |
| `Hide` | `flushViaBeaconOrFetch`, on `visibilitychange` and `pagehide` |
| `Ingest`, `Answer` | the server: one packet of a request, its commit |
| `RunOn`, `CommitOrphan`, `RollBackOrphan` | the same at the server, and its rollback, for a request whose connection the client has lost |
| `Succeed`, `BeRefused`, `BackOff`, `Retry`, `GiveUp` | `sendBatch` after its awaits, `RetryManager.delay`; the loop of `flushQueue` |
| `Start`, `Pause`, `Resume`, `Stop`, `Destroy` | the methods of `TrustPulse` with those of `TelemetryManager` and the collectors |
| `UpdateSession` | `updateSession`: new id, numbers from 1, the client's header unchanged |

JavaScript runs to the next `await`, so that an action is all that happens up to
there. `calls[Flush]` is the batch loop's call (its step is `isFlushing`), the
members of `Strays` are calls nobody waits for, which a hidden page makes when
the browser takes no beacon. A beacon carries no public key, so its packets are
gone. When a call loses its connection (`Abandoned`), the route does not notice:
the request runs on among `orphans` and commits or fails later, while the client
retries it and may be answered "duplicate" meanwhile. `fate` is a history
variable that follows each packet: live, answered or gone (evicted, refused,
dropped, beaconed or given up); `refused`, `rolledBack` and `switched` are others.
The server's part repeats the session, replay and sequence checks that
`TelemetryIngest` models in full, as much as decides about the SDK's promises.

## 3. Runs

| Run | Bounds | Shows |
|---|---|---|
| `scoring` | 20 anomaly scores on both sides of every threshold, 4 feature sets, all actions and devices | isolation is corroborated; worse anomaly or riskier action is never judged milder |
| `risk_serial` | 1 request, 3 incidents, cooldowns 4 and 2, TTL 6 | decisions do not flap, terminal sessions are left by PATCH only, an open incident means ISOLATED, through rollback, expiry and restart; the requests implement the strict `SessionGuard` |
| `risk_concurrent` | 2 requests, 2 incidents, cooldowns 2 and 1, TTL 3 | an incident open throughout isolates; the only ways to a flap and to a revival; the requests implement `SessionGuard` with `Overlap` |
| `risk_flap`, `risk_revival` | as `risk_concurrent` | the serial guarantees are lost with two requests |
| `risk_reisolation` | as `risk_serial` | a held ISOLATE isolates a session again, under a new incident, that was released and whose incident was resolved |
| `ingest` | 2 batches at once, 3 sent, 3 events of 2 SDK instances, 1 batch that may be misdirected, rate limit 1 | the log refines `TelemetryLedger`; sequence, binding and session state are enforced; a replay marker without a row is accounted for |
| `ingest_lost` | as `ingest`, rate limit 2 | a resent event is refused as a duplicate of nothing |
| `learning` | 2 batches at once and the worker, 3 batches sent, 6 events of 4 sessions in 2 tenants, queue of 1, promotion from 2 observations | what is learned is stored, once; one writer loses no observation; trusted baselines are backed; no wait cycle; a transaction becomes unusable only by a second writer; the worker waits for no row, each of its jobs ends, and it comes back to its queue |
| `learning_unusable` | as `learning`, with the shipped 5 observations and confidences 30 < 80 | a baseline update takes its batch down |
| `sdk` | 3 packets, queue of 1 or 2, batches of 1, 1 retry, 1 stray call, 1 abandoned request, 1 disturbance (stray call or session change) | a packet is in one place, an answered one is accounted for, it is refused only if overtaken or after a session change, one timer, a destroyed instance is silent, every call ends, packets get out |
| `sdk_requeue` | as `sdk`, no disturbance | a batch whose retries are used up is dropped |

The bounds suffice because each hazard needs at most two handlers at once: one
that read and one that wrote meanwhile (a third incident or batch gives room
for a repetition). In `learning`, two sessions of one subject and device share a
profile and two tenants keep two queues, of which the worker drains one; events
without features, with a bad checksum, of a session without a subject and of
another session than the header's are each present. The confidence is raised to
80 and the minimum lowered to 2, so that promotions happen; `learning_unusable`
uses the shipped values. In `sdk`, three packets over a queue of one or two let
a packet be evicted, one be sent and one be retried at the same time; a second
retry, stray call or abandoned request repeats the first. A request is abandoned
only while a disturbance is still to come, and the session changes only before
the last packet is built: afterwards nothing tells the difference but the state
space. In `ingest` a limit of 1 lets one packet of a batch in and refuses the
next until the minute is over, whatever order the batches come in. The cooldowns
keep the order of the shipped 15 < 60 < 120 seconds; only that order matters
(`SerialNoFlap` is proved from it). The runs set `LowConfidenceMax` to 50: with the shipped 30 the isolation rule never
fires (section 5) and the isolating half of the code would not be exercised.
`scoring` disables the deadlock check, as an evaluated decision has no
successor; the learning runs do, as the system stops when `MaxBatches` are done.
Requests and incidents are symmetric in the runs with more than one.

Liveness and fairness. `WorkerDrainsQueue` assumes weak fairness of the worker
(`PopJob \/ Learn(Worker)`): it is one task of the event loop that only awaits
calls that end, and its exceptions are caught. `Fail` is not fair: the worker
comes back whether its jobs fail or not. No fairness of the handlers is assumed,
so the queue may fill and expire at any time. The worker waits for no row a
handler holds, as in the asynchronous mode no handler writes a profile.
`PacketsGetOut` assumes that the interval timer fires while it is set
(`WF Tick`) and that each call makes progress (`WF Send(c)` per call): a fetch
is answered or fails, a back-off ends. User, page and application are not fair.
The property lets go when the instance leaves the running state: a paused one
keeps its queue, a stopped one too.

## 4. Disagreements with comments and documents

Six runs end in a violation; `PROJECT.json` quotes the lines under `findings`.
(1) Overlapping evaluations flap in spite of the hysteresis, which reads and
writes the decision state without a lock. (2) A handler that loaded a PAUSED
session revives it after it was terminated. (3) A hysteresis hold of ISOLATE
isolates again, under a new incident, a session whose incident was resolved and
which was released. (4) A replay
marker outlives its rolled-back batch, and the resent events are lost. (5) A
baseline update that fails on the profile's unique index is swallowed but makes
the transaction of its batch unusable. (6) The SDK never puts a failed batch
back, as `sendBatch` answers `retryable: false` on every path.

Two more need no run, as they are plain in the code: `destroy()` clears the queue,
where `docs/API_REFERENCE.md:39` and `sdk/README.md:277` speak of a final beacon;
and a beacon carries no public key, so the server refuses it with 401 while the
SDK counts it as sent.

## 5. Proofs

For every value of the constants:

* `TypeCorrect`, `ScoringTypeCorrect`: type correctness.
* `OpenIncidentAlwaysIsolates`: by `Watching`, which adds to the property that an
  evaluation past its incident query found one open if it has watched one since
  it began, and that watched incidents are still open. Resolution removes an
  incident from both sides.
* `FlapNeedsOvertaking`: from `HoldBacked` (as long as nothing was overtaken, Redis
  holds a strict decision no older than the last one published), for a durable
  Redis and `HoldCooldown <= DecisionTTL`. Without either the decision state can
  vanish within the cooldown.
* `RevivedOnlyFromPausedRead`: from `Loaded`, what a handler can have loaded.
* `SerialTerminalLeftOnlyByPatch`, `SerialOpenIncidentMeansIsolated`, `SerialNoFlap`:
  for one request at a time (`Serial`), from `Fresh` (what a handler loaded is
  still true) and `Held` (Redis backs both cooldowns, a decision that waits to
  be published respects them). `Serial` is needed: runs `risk_flap` and
  `risk_revival` violate two of them without it.
* `RequestsImplementGuard`: the refinement of `SessionGuard`, from `Knowledge` (what
  a handler can have loaded, that a session once seen exists, and `Fresh` for one
  request at a time). `CommitRefines` is the step that matters: a commit, which
  writes a status only where it differs from the loaded one, is one change of the
  guard or none. `SerialOpenIncidentMeansIsolated` is then proved of the guard
  (`GuardKeepsIsolated`) and carried over.
* `IsolationAlwaysCorroborated`: whatever the settings.
* `HysteresisOnlyTightens`: hysteresis never answers milder than the policy, holds
  nothing but the previous decision, and lets go after both cooldowns.
  `HoldRenewsItself` is its price: the hold is stored with a fresh time stamp, so
  that a client which polls at shorter intervals is held as long as it polls.
* `ShippedPolicyIsolatesOnIncidentOnly` and `IsolationNeedsItsRule`: evidence of
  deviating behaviour scores at least 43, so with `LOW_CONFIDENCE_MAX` = 30 the
  isolation rule is dead; as only an ISOLATE decision opens incidents, the
  shipped backend opens none and isolates a session by PATCH only.
* `ColdStartIsJudgedByTheAction`: between the thresholds GUARDED and MODERATE, as
  shipped, the cold start score leaves the decision to the action's risk alone.
  With `ShippedNeverPromotes` (below) no shipped baseline becomes trusted, so this is
  how the shipped backend judges every session without an open incident.
* `LowRiskAllowed`: without an incident the policy allows every LOW action.
* `MoreAnomalyIsNeverMilder`, `RiskierActionIsNeverMilder`: `Decide` is a table of
  action risk and score (`PolicyTable`); a worse score of the same features only
  lowers the fused score, through the rounding (`RoundingMonotone`), and keeps the
  evidence families (`SameFamilies`). The second assumes GUARDED <= MODERATE <=
  HIGH: with crossed thresholds it is false. A blank type counts as the MEDIUM
  action without an amount that the engine takes it for: by its amount it would
  be judged milder than a LOW catalog action of 100,000.

`TelemetryIngest`, for any number of handlers, events, instances and batches:

* `TypeCorrect`, strengthened by `AtHand` (who checks a packet has one).
* `AcceptedLateOnlyIfJustEnded` from `SeenInv`, `AdmittedInOrder` from `SequenceInv`
  (while Redis remembers, the last number of an instance bounds those of all its
  events that are stored or about to be).
* `OneInstance` from `BindingInv`: unless batches raced for the binding, what each
  open batch accepted, and what it will bind, agrees with the committed binding.
* `IngestionImplementsLedger`: the refinement, step by step, from `LogInv` (no
  open batch holds an event that has a row, no two hold the same); with it
  `AcknowledgedIsStored` carries over from the ledger.
* `MarkersAreAccountedFor` from the invariant itself and `DoneInv` (an idle handler
  holds nothing). A commit turns what its handler accepted or refused into rows, a
  failure or a regression moves the markers to `left`; nothing else can strand one.

`BaselineLearning`, for any number of handlers, sessions and tenants:

* `TypeCorrect`, with `AtHand` and finiteness of what a transaction learned.
* `NoDeadlock` from `LockInv`: a batch's rows are of its header's session, two
  batches with rows are of two sessions, a batch that wrote a profile has a row. So
  who waits for a session holds nothing and nobody waits for it. Without the
  session header (`Addressed`) it fails.
* `TrustedAlwaysBacked` from `BackedInv`, which counts for every row, loaded or
  written, no more observations than were committed. `ShippedNeverPromotes` is the
  case SessionConfidence < PromoteMin.
* `NoUpdateLost` from `RowInv` and `ExactInv`: the only writer's loaded row is the
  committed one plus what it learned since.
* `UnusableTakesTwo` from `AloneInv`: while one session alone learns into a profile,
  nobody has inserted the row that its transaction is about to insert.
* `WorkerIsNotBlocked` and `JobsEnd`, the safety half of `WorkerDrainsQueue`: the
  worker waits for no row, and each of its steps takes the oldest job or brings
  the one it has nearer to its end.
* `NothingLearnedTwice`, `OnlyStoredIsLearned` from `OnceInv`: in the asynchronous
  mode an event is queued, at the worker or learned from, one of them at most,
  unless its batch was rolled back; and whichever it is, its batch is past the
  enqueueing, so that nobody queues it again (`Settled`).

`SdkTelemetry`, for any queue sizes, retries, batches, packets and stray calls:

* `LifecycleAlwaysConsistent`: the property is inductive as it stands;
  `TypeCorrect` uses it (an interval is never cleared below zero).
* `DestroyedStaysSilent`, an action property, from both.
* `EveryCallEnds`, the safety half of `PacketsGetOut`, from `WithinInv` (the
  server is never past the end of a call's batch): each step of a call settles its packets, or leaves it
  fewer attempts or fewer steps of its attempt.
* `EachPacketSentOnce` from `PlaceInv`: ids increase along the queue, those in a
  batch are below those in the queue, all places are disjoint, and a packet is
  live exactly if it has a place.
* `AnsweredAlwaysAccountedFor` from `AccountInv`: every marker at the server is
  settled (stored, refused or rolled back) or held by a call or an abandoned
  request, and what the server has gone through of a batch is marked or refused.
* `RefusedNeedsOvertaking` from `NumberInv` and `CalmInv`: without a session change
  a packet's number is its id, refused ones are below the last one, which is
  marked. Undisturbed, packets leave in order, an unmarked one is above the last
  number, and a refused one was given up.

Assumptions: `SettingsAssumption` (scores and thresholds in 0 .. 100, cooldowns
natural, in no particular order) and `RiskAssumption`, `ScoringAssumption`,
`IngestAssumption`, `LearningAssumption`, `SdkAssumption` on the types of the
other constants; TLC evaluates them in every run.

Only model-checked: the two liveness properties, `WorkerDrainsQueue` and
`PacketsGetOut`. Liveness under fairness is out of the prover's reach, as is
induction over data. What the theorems above leave open of them is that the fair
steps are enabled and the count-down of `JobsEnd` and `EveryCallEnds` therefore
runs out.

## 6. Not modelled, and why

`PROJECT.json` lists every component with its status. Authentication and tenancy
are one read-only lookup per request, and every query is filtered by tenant, so
one tenant and one session are modelled (several where they share something: a profile,
the worker). Audit, action and assessment rows, metrics and logs are written and
never read by a guard. The float statistics of the behavioural engines and the
SDK's collectors, features and privacy filters are sequential arithmetic.
Also left out:

* the tenant's rate counter, which refuses a request at its door before it
  changes anything else;
* refused events as evidence: `RiskScoring` and `RiskEvaluation` take any evidence
  that can be gathered, whatever event it came from;
* the values of a baseline; `rollback_trusted_baseline` and `rollback_in_memory`,
  which nothing calls;
* in the SDK, the size limit and contents of packets, the duplicate check (ids
  never repeat) and the dropped-events counter, stale packets, initialisation;
* migrations, scripts, the bundled output and the example application.

## 7. What is left

1. `TelemetryIngest` composed with `RiskEvaluation`: refused events as evidence,
   and the tenant's shared rate counter.
2. Several `SdkTelemetry` instances (tabs) against `TelemetryIngest` instead of the
   short server of `SdkTelemetry`.
3. The statistics of the baseline (Welford updates, z-scores) over bounded
   fixed-point inputs, against a reference definition.
