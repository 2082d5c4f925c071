--------------------------- MODULE RiskEvaluation ----------------------------
(***************************************************************************)
(* One session of one tenant, and the API requests that act on it: risk    *)
(* evaluations, registrations and status updates run as concurrent request *)
(* handlers over a database row, the session's incidents and the decision  *)
(* state in Redis.                                                         *)
(*                                                                         *)
(* A handler has one database transaction and awaits between its steps. It *)
(* keeps the row it loaded first (SQLAlchemy's identity map: a later       *)
(* SELECT does not refresh it) and writes a column only if it assigns it a *)
(* value other than the loaded one, when the transaction is committed.     *)
(* Redis is written at once and is not part of the transaction.            *)
(*                                                                         *)
(* Every query is filtered by tenant and session, so another session's     *)
(* requests touch none of this state. Audit, action and assessment rows,   *)
(* last_seen_at and session_version are written and never read by a guard. *)
(***************************************************************************)
EXTENDS TrustPolicy

CONSTANTS
    Requests,      \* the requests that can be in progress at once
    Incidents,     \* incident ids; bounds how many are ever created
    Assessments,   \* what the evidence and the action of an evaluation come to
    DecisionTTL,   \* settings.REDIS_DECISION_STATE_TTL_SECONDS (120)
    DurableRedis   \* FALSE: the in-memory fallback, lost with the process

ASSUME RiskAssumption ==
    /\ Assessments \subseteq
           [confidence : 0 .. 100, risk : ActionRiskLevel, codes : SUBSET STRING]
    /\ DecisionTTL \in Nat
    /\ DurableRedis \in BOOLEAN

Statuses == {"ACTIVE", "PAUSED", "TERMINATED", "ISOLATED"}
Terminal == {"TERMINATED", "ISOLATED"}

VARIABLES
    status,     \* the committed row's status, "ABSENT" when there is no row
    incident,   \* the committed incidents
    cache,      \* the decision state in Redis and its age
    req,        \* the local state of each request handler
    since,      \* history: ticks since a decision of each kind was published
    overtaken,  \* history: a looser decision was published over a strict one in its cooldown
    released    \* history: the session was PATCHed out of ISOLATED

vars == <<status, incident, cache, req, since, overtaken, released>>

NoState == [decision |-> "NONE", age |-> 0]

\* step: where the handler is. seen: the status it loaded. open: it found an
\* open incident. decision, rule: what it will answer and by which kind of rule.
\* target: the status a PATCH asks for. watched: history, the incidents that
\* have been open ever since the request began.
Idle == [step |-> "idle", seen |-> "ABSENT", open |-> FALSE, decision |-> "NONE",
         rule |-> "policy", target |-> "ABSENT", watched |-> {}]

Open == {i \in Incidents : incident[i] = "OPEN"}

Init ==
    /\ status = "ABSENT"
    /\ incident = [i \in Incidents |-> "NONE"]
    /\ cache = NoState
    /\ req = [r \in Requests |-> Idle]
    /\ since = [strict |-> HoldCooldown, stepUp |-> EscalationCooldown]
    /\ overtaken = FALSE
    /\ released = FALSE

history == <<since, overtaken, released>>

-----------------------------------------------------------------------------
(* POST /risk/evaluate *)

\* The session is looked up. For a session that is unknown (404), terminal
\* (ISOLATE, nothing recorded) or over its rate limit (429) the request ends
\* here and changes nothing.
BeginEvaluate(r) ==
    /\ req[r].step = "idle"
    /\ status \in Statuses \ Terminal
    /\ req' = [req EXCEPT ![r] = [Idle EXCEPT !.step = "loaded", !.seen = status,
                                              !.watched = Open]]
    /\ UNCHANGED <<status, incident, cache, history>>

ReadIncidents(r) ==
    /\ req[r].step = "loaded"
    /\ req' = [req EXCEPT ![r].step = "assessing", ![r].open = Open # {}]
    /\ UNCHANGED <<status, incident, cache, history>>

\* With the evidence gathered, the previous decision is read from Redis, the
\* policy decides and the hysteresis rule may hold the previous decision.
DecideAction(r) ==
    /\ req[r].step = "assessing"
    /\ \E a \in Assessments :
         LET policy == Decide(a.confidence, a.risk, a.codes, req[r].open)
             final  == ApplyHysteresis(cache.decision, cache.age, policy)
         IN req' = [req EXCEPT ![r].step = "decided", ![r].decision = final,
                               ![r].rule = IF final = policy THEN "policy"
                                                             ELSE "hysteresis-hold"]
    /\ UNCHANGED <<status, incident, cache, history>>

\* Mutant: a held decision keeps its old time stamp.
HoldKeepsStamp(r) ==
    /\ req[r].step = "decided"
    /\ req' = [req EXCEPT ![r].step = "published"]
    /\ cache' = IF req[r].rule = "hysteresis-hold" THEN cache
                ELSE [decision |-> req[r].decision, age |-> 0]
    /\ since' = [strict |-> IF req[r].decision \in Strict THEN 0 ELSE since.strict,
                 stepUp |-> IF req[r].decision = "STEP_UP" THEN 0 ELSE since.stepUp]
    /\ overtaken' = (req[r].decision \in Loose /\ (overtaken \/ since.strict < HoldCooldown))
    /\ UNCHANGED <<status, incident, released>>

\* The rows are flushed, then the decision state is set in Redis with a fresh
\* time stamp, held decisions included.
PublishDecision(r) ==
    /\ req[r].step = "decided"
    /\ req' = [req EXCEPT ![r].step = "published"]
    /\ cache' = [decision |-> req[r].decision, age |-> 0]
    /\ since' = [strict |-> IF req[r].decision \in Strict THEN 0 ELSE since.strict,
                 stepUp |-> IF req[r].decision = "STEP_UP" THEN 0 ELSE since.stepUp]
    /\ overtaken' = (req[r].decision \in Loose /\ (overtaken \/ since.strict < HoldCooldown))
    /\ UNCHANGED <<status, incident, released>>

\* Opens an incident.
OpensIncident ==
    \E i \in Incidents : incident[i] = "NONE" /\ incident' = [incident EXCEPT ![i] = "OPEN"]

\* Mutant: ISOLATE opens the incident and leaves the session's status.
IncidentWithoutIsolation(r) ==
    /\ req[r].step = "published"
    /\ req' = [req EXCEPT ![r] = Idle]
    /\ IF req[r].decision = "ISOLATE" THEN OpensIncident ELSE UNCHANGED incident
    /\ status' = IF req[r].decision = "BLOCK" /\ req[r].seen # "ACTIVE" THEN "ACTIVE" ELSE status
    /\ UNCHANGED <<cache, history>>

\* Mutant: BLOCK writes the status unconditionally.
BlockAlwaysWrites(r) ==
    /\ req[r].step = "published"
    /\ req' = [req EXCEPT ![r] = Idle]
    /\ IF req[r].decision = "ISOLATE" THEN OpensIncident ELSE UNCHANGED incident
    /\ status' = CASE req[r].decision = "ISOLATE" -> "ISOLATED"
                   [] req[r].decision = "BLOCK"   -> "ACTIVE"
                   [] OTHER                       -> status
    /\ released' = (req[r].decision # "ISOLATE" /\ released)
    /\ UNCHANGED <<cache, since, overtaken>>

\* The reaction and the commit: ISOLATE opens an incident and isolates the
\* session, BLOCK sets the session ACTIVE, which is an UPDATE only if the
\* handler had loaded another status.
CommitDecision(r) ==
    /\ req[r].step = "published"
    /\ req' = [req EXCEPT ![r] = Idle]
    /\ \/ /\ req[r].decision = "ISOLATE"
          /\ OpensIncident
          /\ status' = "ISOLATED"
          /\ released' = FALSE
       \/ /\ req[r].decision = "BLOCK"
          /\ status' = IF req[r].seen = "ACTIVE" THEN status ELSE "ACTIVE"
          /\ UNCHANGED <<incident, released>>
       \/ /\ req[r].decision \in Loose
          /\ UNCHANGED <<status, incident, released>>
    /\ UNCHANGED <<cache, since, overtaken>>

-----------------------------------------------------------------------------
(* PATCH /sessions/{id}/status and POST /sessions *)

\* Any status may be asked for, from any status; 404 for an unknown session.
BeginPatch(r) ==
    /\ req[r].step = "idle"
    /\ status # "ABSENT"
    /\ \E s \in Statuses :
         req' = [req EXCEPT ![r] = [Idle EXCEPT !.step = "patching", !.seen = status,
                                                !.target = s]]
    /\ UNCHANGED <<status, incident, cache, history>>

CommitPatch(r) ==
    /\ req[r].step = "patching"
    /\ req' = [req EXCEPT ![r] = Idle]
    /\ status' = IF req[r].target = req[r].seen THEN status ELSE req[r].target
    /\ released' = (status' # "ISOLATED" /\ (released \/ status = "ISOLATED"))
    /\ UNCHANGED <<incident, cache, since, overtaken>>

\* Mutant: a terminal session can be registered again.
RegisterAnyInactive(r) ==
    /\ req[r].step = "idle"
    /\ status # "ACTIVE"
    /\ req' = [req EXCEPT ![r] = [Idle EXCEPT !.step = "registering", !.seen = status]]
    /\ UNCHANGED <<status, incident, cache, history>>

\* A registration creates the row or reactivates a PAUSED session. An ACTIVE
\* session is returned as it is (or refused with 409 if another SDK instance
\* holds it), a terminal one is refused with 409: no status changes.
BeginRegister(r) ==
    /\ req[r].step = "idle"
    /\ status \in {"ABSENT", "PAUSED"}
    /\ req' = [req EXCEPT ![r] = [Idle EXCEPT !.step = "registering", !.seen = status]]
    /\ UNCHANGED <<status, incident, cache, history>>

\* The unique index on (tenant, session_id) refuses the insert of a row that
\* another registration created meanwhile.
CommitRegister(r) ==
    /\ req[r].step = "registering"
    /\ req' = [req EXCEPT ![r] = Idle]
    /\ status' = IF req[r].seen = "ABSENT" /\ status # "ABSENT" THEN status ELSE "ACTIVE"
    /\ UNCHANGED <<incident, cache, history>>

\* Any exception before the commit: the transaction is rolled back, Redis is not.
Abort(r) ==
    /\ req[r].step # "idle"
    /\ req' = [req EXCEPT ![r] = Idle]
    /\ UNCHANGED <<status, incident, cache, history>>

-----------------------------------------------------------------------------
(* POST /incidents/{id}/resolve, time, and the process *)

\* The route always asks for RESOLVED, and the session's status stays as it is.
ResolveIncident(i) ==
    /\ incident[i] = "OPEN"
    /\ incident' = [incident EXCEPT ![i] = "RESOLVED"]
    /\ req' = [r \in Requests |-> [req[r] EXCEPT !.watched = @ \ {i}]]
    /\ UNCHANGED <<status, cache, history>>

Min2(a, b) == IF a < b THEN a ELSE b

\* Mutant: the decision state is stored without its TTL.
TickWithoutExpiry ==
    /\ cache' = IF cache.decision = "NONE" THEN NoState ELSE [cache EXCEPT !.age = @ + 1]
    /\ since' = [strict |-> Min2(since.strict + 1, HoldCooldown),
                 stepUp |-> Min2(since.stepUp + 1, EscalationCooldown)]
    /\ UNCHANGED <<status, incident, req, overtaken, released>>

\* Time passes; the decision state expires after its TTL.
Tick ==
    /\ cache' = IF cache.decision = "NONE" \/ cache.age + 1 >= DecisionTTL THEN NoState
                ELSE [cache EXCEPT !.age = @ + 1]
    /\ since' = [strict |-> Min2(since.strict + 1, HoldCooldown),
                 stepUp |-> Min2(since.stepUp + 1, EscalationCooldown)]
    /\ UNCHANGED <<status, incident, req, overtaken, released>>

\* The API process restarts: requests in progress are gone, and so is the
\* in-memory fallback.
Restart ==
    /\ req' = [r \in Requests |-> Idle]
    /\ cache' = IF DurableRedis THEN cache ELSE NoState
    /\ UNCHANGED <<status, incident, history>>

Evaluation(r) ==
    \/ BeginEvaluate(r) \/ ReadIncidents(r) \/ DecideAction(r)
    \/ PublishDecision(r) \/ CommitDecision(r)

SessionUpdate(r) ==
    \/ BeginPatch(r) \/ CommitPatch(r) \/ BeginRegister(r) \/ CommitRegister(r)

Next ==
    \/ \E r \in Requests : Evaluation(r) \/ SessionUpdate(r) \/ Abort(r)
    \/ \E i \in Incidents : ResolveIncident(i)
    \/ Tick
    \/ Restart

Spec == Init /\ [][Next]_vars

-----------------------------------------------------------------------------
(* Properties *)

Steps == {"idle", "loaded", "assessing", "decided", "published", "patching", "registering"}

TypeOK ==
    /\ status \in Statuses \cup {"ABSENT"}
    /\ incident \in [Incidents -> {"NONE", "OPEN", "RESOLVED"}]
    /\ cache \in [decision : Decisions \cup {"NONE"}, age : 0 .. DecisionTTL]
    /\ req \in [Requests ->
           [step : Steps, seen : Statuses \cup {"ABSENT"}, open : BOOLEAN,
            decision : Decisions \cup {"NONE"}, rule : {"policy", "hysteresis-hold"},
            target : Statuses \cup {"ABSENT"}, watched : SUBSET Incidents]]
    /\ since \in [strict : 0 .. HoldCooldown, stepUp : 0 .. EscalationCooldown]
    /\ overtaken \in BOOLEAN
    /\ released \in BOOLEAN

\* Request r reaches its decision in this step.
Decides(r) == req[r].step = "assessing" /\ req'[r].step = "decided"

(***************************************************************************)
(* "Hysteresis: enforce cooldowns to prevent allow/block/allow flapping":  *)
(* within the cooldown after a BLOCK or ISOLATE no evaluation decides      *)
(* ALLOW or STEP_UP, and within the shorter one after a STEP_UP none       *)
(* decides ALLOW, whatever was rolled back or restarted in between.        *)
(***************************************************************************)
NoFlap ==
    [][\A r \in Requests : Decides(r) =>
          /\ since.strict < HoldCooldown => req'[r].decision \in Strict
          /\ since.stepUp < EscalationCooldown => req'[r].decision # "ALLOW"]_vars

(***************************************************************************)
(* With concurrent evaluations a strict decision can be forgotten in one   *)
(* way only: an evaluation that decided before it was published stores its *)
(* own looser decision over it.                                            *)
(***************************************************************************)
FlapOnlyAfterOvertaking ==
    [][\A r \in Requests :
          Decides(r) /\ since.strict < HoldCooldown /\ req'[r].decision \in Loose
              => overtaken]_vars

\* The state behind it: the decision state in Redis still holds a strict
\* decision no older than the cooldown counts from.
HoldBacked ==
    since.strict < HoldCooldown /\ ~overtaken =>
        cache.decision \in Strict /\ cache.age <= since.strict

(***************************************************************************)
(* "Any active security incident isolates the session": an evaluation      *)
(* during the whole of which one incident was open decides ISOLATE, in     *)
(* whatever order it read the session, the incidents and Redis.            *)
(***************************************************************************)
OpenIncidentIsolates ==
    \A r \in Requests :
        req[r].watched # {} /\ req[r].step \in {"decided", "published"} =>
            req[r].decision = "ISOLATE"

\* The session and its incidents as one object, changed by one step of a request.
Guard == INSTANCE SessionGuard WITH Overlap <- \E r, q \in Requests : r # q

(***************************************************************************)
(* Whatever is rolled back, restarted or resolved in between, what becomes *)
(* of the session and its incidents is what atomic requests would do: an   *)
(* incident is opened with the isolation and closed once, and, without     *)
(* overlapping requests, nothing but a PATCH leaves a terminal state.      *)
(***************************************************************************)
GuardSpec == Guard!Spec

\* The session leaves a terminal state, and request r ends from `step`.
Revived == status \in Terminal /\ status' \notin Terminal
Ends(r, step) == req[r].step = step /\ req'[r].step = "idle"

(***************************************************************************)
(* A session that is TERMINATED or ISOLATED leaves that state only by a    *)
(* PATCH: registering it and evaluating it never revive it ("Raised when   *)
(* an operation targets a session in a terminal state").                   *)
(***************************************************************************)
TerminalLeftOnlyByPatch ==
    [][Revived => \E r \in Requests : Ends(r, "patching")]_vars

(***************************************************************************)
(* With concurrent requests it is also revived by a handler that had       *)
(* loaded the row while it was PAUSED, and by nothing else.                *)
(***************************************************************************)
RevivalOnlyFromPausedRead ==
    [][Revived => \E r \in Requests :
           \/ Ends(r, "patching")
           \/ req[r].seen = "PAUSED" /\ (Ends(r, "published") \/ Ends(r, "registering"))]_vars

(***************************************************************************)
(* While an incident is open the session stays isolated, unless an         *)
(* operator has released it with a PATCH.                                  *)
(***************************************************************************)
OpenIncidentMeansIsolated == Open # {} /\ ~released => status = "ISOLATED"

\* Request r isolates again, at its commit, a session that a PATCH had released.
Reisolates(r) == Ends(r, "published") /\ released /\ ~released'

(***************************************************************************)
(* "ISOLATE requires an open incident OR critically low confidence PLUS    *)
(* multiple independent compromise signals": once an incident has been     *)
(* resolved and the session released, an evaluation isolates the session   *)
(* and opens another incident only if it found one open, or if the policy  *)
(* itself says so of the evidence.                                         *)
(***************************************************************************)
ReisolationIsJustified ==
    [][\A r \in Requests :
          Reisolates(r) /\ (\E i \in Incidents : incident[i] = "RESOLVED")
              => req[r].open \/ req[r].rule = "policy"]_vars
==============================================================================
