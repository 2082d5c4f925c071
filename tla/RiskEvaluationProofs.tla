------------------------ MODULE RiskEvaluationProofs -------------------------
(***************************************************************************)
(* What RiskEvaluation guarantees for every number of requests, incidents  *)
(* and assessments and for all settings.                                   *)
(***************************************************************************)
EXTENDS RiskEvaluation, TrustPolicyProofs

USE DEF Statuses, Terminal, Steps, NoState, Idle

RequestRecord ==
    [step : Steps, seen : Statuses \cup {"ABSENT"}, open : BOOLEAN,
     decision : Decisions \cup {"NONE"}, rule : {"policy", "hysteresis-hold"},
     target : Statuses \cup {"ABSENT"}, watched : SUBSET Incidents]

LEMMA ReqType == TypeOK => req \in [Requests -> RequestRecord]
BY DEF TypeOK, RequestRecord

LEMMA DecidedRecord ==
    ASSUME NEW q \in RequestRecord, NEW d \in Decisions, NEW u \in {"policy", "hysteresis-hold"}
    PROVE  [q EXCEPT !.step = "decided", !.decision = d, !.rule = u] \in RequestRecord
<1>1. [q EXCEPT !.step = "decided"] \in RequestRecord
    BY DEF RequestRecord
<1>2. \A p \in RequestRecord : [p EXCEPT !.decision = d] \in RequestRecord
    BY DEF RequestRecord
<1>3. \A p \in RequestRecord : [p EXCEPT !.rule = u] \in RequestRecord
    BY DEF RequestRecord
<1> QED BY <1>1, <1>2, <1>3

\* Whatever an evaluation comes to, its decision is one of the four.
LEMMA FinalType ==
    ASSUME TypeOK, NEW r \in Requests, NEW a \in Assessments
    PROVE  LET policy == Decide(a.confidence, a.risk, a.codes, req[r].open)
               final  == ApplyHysteresis(cache.decision, cache.age, policy)
           IN /\ final \in Decisions
              /\ req[r].open => final = "ISOLATE"
              /\ cache.decision \in Strict /\ cache.age < HoldCooldown => final \in Strict
<1> DEFINE policy == Decide(a.confidence, a.risk, a.codes, req[r].open)
<1>1. a.confidence \in 0 .. 100 /\ a.risk \in ActionRiskLevel
    BY RiskAssumption
<1>2. req[r].open \in BOOLEAN /\ cache.decision \in Decisions \cup {"NONE"} /\ cache.age \in Nat
    BY RiskAssumption DEF TypeOK
<1>3. policy \in Decisions
    BY <1>1, <1>2, DecideType
<1>4. req[r].open => policy = "ISOLATE"
    BY DEF Decide
<1> HIDE DEF policy
<1>5. LET f == ApplyHysteresis(cache.decision, cache.age, policy) IN
        /\ f \in Decisions
        /\ policy = "ISOLATE" => f = "ISOLATE"
        /\ cache.decision \in Strict /\ cache.age < HoldCooldown => f \in Strict
    BY <1>2, <1>3, HysteresisHolds
<1> QED BY <1>4, <1>5 DEF policy

-----------------------------------------------------------------------------
\* Type correctness.
LEMMA TypeStep == TypeOK /\ [Next]_vars => TypeOK'
<1> SUFFICES ASSUME TypeOK, [Next]_vars PROVE TypeOK'
    OBVIOUS
<1> USE RiskAssumption, SettingsAssumption
<1>0. CASE UNCHANGED vars
    BY <1>0 DEF TypeOK, vars
<1>1. ASSUME NEW r \in Requests, BeginEvaluate(r) PROVE TypeOK'
    BY <1>1 DEF TypeOK, BeginEvaluate, history, Open
<1>2. ASSUME NEW r \in Requests, ReadIncidents(r) PROVE TypeOK'
    <2> DEFINE found == Open # {}
    <2>1. found \in BOOLEAN
        OBVIOUS
    <2>2. req' = [req EXCEPT ![r].step = "assessing", ![r].open = found]
        BY <1>2 DEF ReadIncidents
    <2> HIDE DEF found
    <2>3. \A q \in RequestRecord : [q EXCEPT !.step = "assessing", !.open = found] \in RequestRecord
        BY <2>1 DEF RequestRecord
    <2>4. req' \in [Requests -> RequestRecord]
        BY <2>2, <2>3, ReqType
    <2> QED BY <1>2, <2>4 DEF TypeOK, ReadIncidents, history, RequestRecord
<1>3. ASSUME NEW r \in Requests, DecideAction(r) PROVE TypeOK'
    <2>1. PICK a \in Assessments :
            LET policy == Decide(a.confidence, a.risk, a.codes, req[r].open)
                final  == ApplyHysteresis(cache.decision, cache.age, policy)
            IN req' = [req EXCEPT ![r].step = "decided", ![r].decision = final,
                                  ![r].rule = IF final = policy THEN "policy"
                                                                ELSE "hysteresis-hold"]
        BY <1>3 DEF DecideAction
    <2> DEFINE policy == Decide(a.confidence, a.risk, a.codes, req[r].open)
               final  == ApplyHysteresis(cache.decision, cache.age, policy)
    <2>2. final \in Decisions
        BY FinalType
    <2> DEFINE rule == IF final = policy THEN "policy" ELSE "hysteresis-hold"
    <2>3. rule \in {"policy", "hysteresis-hold"}
        OBVIOUS
    <2> HIDE DEF final, rule
    <2>4. req' = [req EXCEPT ![r].step = "decided", ![r].decision = final, ![r].rule = rule]
        BY <2>1 DEF final, rule
    <2>5. \A q \in RequestRecord :
            [q EXCEPT !.step = "decided", !.decision = final, !.rule = rule] \in RequestRecord
        BY <2>2, <2>3, DecidedRecord
    <2>6. req' \in [Requests -> RequestRecord]
        BY <2>4, <2>5, ReqType
    <2> QED BY <1>3, <2>6 DEF TypeOK, DecideAction, history, RequestRecord
<1>4. ASSUME NEW r \in Requests, PublishDecision(r) PROVE TypeOK'
    BY <1>4 DEF TypeOK, PublishDecision, Strict, Loose
<1>5. ASSUME NEW r \in Requests, CommitDecision(r) PROVE TypeOK'
    BY <1>5 DEF TypeOK, CommitDecision, OpensIncident
<1>6. ASSUME NEW r \in Requests, BeginPatch(r) PROVE TypeOK'
    <2>1. PICK s \in Statuses :
            req' = [req EXCEPT ![r] = [Idle EXCEPT !.step = "patching", !.seen = status,
                                                   !.target = s]]
        BY <1>6 DEF BeginPatch
    <2>2. req' \in [Requests -> RequestRecord]
        BY <2>1, TypeOK DEF TypeOK, RequestRecord
    <2> QED BY <1>6, <2>2 DEF TypeOK, BeginPatch, history, RequestRecord
<1>7. ASSUME NEW r \in Requests, CommitPatch(r) PROVE TypeOK'
    BY <1>7 DEF TypeOK, CommitPatch
<1>8. ASSUME NEW r \in Requests, BeginRegister(r) PROVE TypeOK'
    BY <1>8 DEF TypeOK, BeginRegister, history
<1>9. ASSUME NEW r \in Requests, CommitRegister(r) PROVE TypeOK'
    BY <1>9 DEF TypeOK, CommitRegister, history
<1>10. ASSUME NEW r \in Requests, Abort(r) PROVE TypeOK'
    BY <1>10 DEF TypeOK, Abort, history
<1>11. ASSUME NEW i \in Incidents, ResolveIncident(i) PROVE TypeOK'
    <2>1. \A r \in Requests : [req[r] EXCEPT !.watched = @ \ {i}] \in RequestRecord
        BY DEF TypeOK, RequestRecord
    <2>2. req' \in [Requests -> RequestRecord]
        BY <1>11, <2>1 DEF ResolveIncident
    <2> QED BY <1>11, <2>2 DEF TypeOK, ResolveIncident, history, RequestRecord
<1>12. CASE Tick
    BY <1>12 DEF TypeOK, Tick, Min2
<1>13. CASE Restart
    BY <1>13 DEF TypeOK, Restart, history
<1> QED BY <1>0, <1>1, <1>2, <1>3, <1>4, <1>5, <1>6, <1>7, <1>8, <1>9, <1>10, <1>11,
           <1>12, <1>13 DEF Next, Evaluation, SessionUpdate

LEMMA TypeInit == Init => TypeOK
<1> SUFFICES ASSUME Init PROVE TypeOK
    OBVIOUS
<1>1. HoldCooldown \in Nat /\ EscalationCooldown \in Nat /\ DecisionTTL \in Nat
    BY RiskAssumption, SettingsAssumption
<1>2. Idle \in RequestRecord
    BY DEF RequestRecord
<1>3. req \in [Requests -> RequestRecord]
    BY <1>2 DEF Init
<1>4. cache \in [decision : Decisions \cup {"NONE"}, age : 0 .. DecisionTTL]
    BY <1>1 DEF Init
<1>5. since \in [strict : 0 .. HoldCooldown, stepUp : 0 .. EscalationCooldown]
    BY <1>1 DEF Init
<1> QED BY <1>3, <1>4, <1>5 DEF Init, TypeOK, RequestRecord

\* Every variable keeps its type.
THEOREM TypeCorrect == Spec => []TypeOK
BY TypeInit, TypeStep, PTL DEF Spec

-----------------------------------------------------------------------------
\* The incidents that an evaluation has had under its eyes are open still, the
\* evaluation knows of one once it has read them, and decides accordingly.
Watching ==
    \A r \in Requests :
        /\ req[r].watched \subseteq Open
        /\ req[r].step = "assessing" /\ req[r].watched # {} => req[r].open
        /\ req[r].step \in {"decided", "published"} /\ req[r].watched # {}
             => req[r].decision = "ISOLATE"

LEMMA WatchingStep == TypeOK /\ Watching /\ [Next]_vars => Watching'
<1> SUFFICES ASSUME TypeOK, Watching, [Next]_vars PROVE Watching'
    OBVIOUS
<1> USE DEF TypeOK
<1>0. CASE UNCHANGED vars
    BY <1>0 DEF Watching, vars, Open
<1>1. ASSUME NEW r \in Requests, BeginEvaluate(r) PROVE Watching'
    BY <1>1 DEF Watching, BeginEvaluate, history, Open
<1>2. ASSUME NEW r \in Requests, ReadIncidents(r) PROVE Watching'
    <2>1. Open' = Open
        BY <1>2 DEF ReadIncidents, Open
    <2>2. req'[r].watched = req[r].watched /\ (req'[r].open <=> Open # {}) /\ req'[r].step = "assessing"
        BY <1>2 DEF ReadIncidents
    <2>3. \A q \in Requests : q # r => req'[q] = req[q]
        BY <1>2 DEF ReadIncidents
    <2> QED BY <2>1, <2>2, <2>3 DEF Watching
<1>3. ASSUME NEW r \in Requests, DecideAction(r) PROVE Watching'
    <2>1. Open' = Open
        BY <1>3 DEF DecideAction, Open
    <2>2. /\ req'[r].watched = req[r].watched /\ req'[r].step = "decided"
          /\ req[r].open => req'[r].decision = "ISOLATE"
        BY <1>3, FinalType DEF DecideAction
    <2>3. \A q \in Requests : q # r => req'[q] = req[q]
        BY <1>3 DEF DecideAction
    <2>4. req[r].step = "assessing"
        BY <1>3 DEF DecideAction
    <2> QED BY <2>1, <2>2, <2>3, <2>4 DEF Watching
<1>4. ASSUME NEW r \in Requests, PublishDecision(r) PROVE Watching'
    BY <1>4 DEF Watching, PublishDecision, Open
<1>5. ASSUME NEW r \in Requests, CommitDecision(r) PROVE Watching'
    <2>1. Open \subseteq Open'
        BY <1>5 DEF CommitDecision, OpensIncident, Open
    <2> QED BY <1>5, <2>1 DEF Watching, CommitDecision
<1>6. ASSUME NEW r \in Requests, BeginPatch(r) PROVE Watching'
    BY <1>6 DEF Watching, BeginPatch, history, Open
<1>7. ASSUME NEW r \in Requests, CommitPatch(r) PROVE Watching'
    BY <1>7 DEF Watching, CommitPatch, Open
<1>8. ASSUME NEW r \in Requests, BeginRegister(r) PROVE Watching'
    BY <1>8 DEF Watching, BeginRegister, history, Open
<1>9. ASSUME NEW r \in Requests, CommitRegister(r) PROVE Watching'
    BY <1>9 DEF Watching, CommitRegister, history, Open
<1>10. ASSUME NEW r \in Requests, Abort(r) PROVE Watching'
    BY <1>10 DEF Watching, Abort, history, Open
<1>11. ASSUME NEW i \in Incidents, ResolveIncident(i) PROVE Watching'
    <2>1. Open' = Open \ {i}
        BY <1>11 DEF ResolveIncident, Open
    <2>2. \A r \in Requests : /\ req'[r].watched = req[r].watched \ {i}
                              /\ req'[r].step = req[r].step
                              /\ req'[r].open = req[r].open
                              /\ req'[r].decision = req[r].decision
        BY <1>11 DEF ResolveIncident
    <2> HIDE DEF TypeOK
    <2> QED BY <2>1, <2>2 DEF Watching
<1>12. CASE Tick
    BY <1>12 DEF Watching, Tick, Open
<1>13. CASE Restart
    BY <1>13 DEF Watching, Restart, history, Open
<1> QED BY <1>0, <1>1, <1>2, <1>3, <1>4, <1>5, <1>6, <1>7, <1>8, <1>9, <1>10, <1>11,
           <1>12, <1>13 DEF Next, Evaluation, SessionUpdate

\* An evaluation during the whole of which one incident was open decides ISOLATE,
\* whatever its assessment, the decision state and the other requests.
THEOREM OpenIncidentAlwaysIsolates == Spec => []OpenIncidentIsolates
<1>1. Init => Watching
    BY DEF Init, Watching
<1>2. Watching => OpenIncidentIsolates
    BY DEF Watching, OpenIncidentIsolates
<1> QED BY <1>1, <1>2, TypeCorrect, WatchingStep, PTL DEF Spec

-----------------------------------------------------------------------------
\* The decision that is about to be published is one of the four.
Decided == \A r \in Requests : req[r].step \in {"decided", "published"} => req[r].decision \in Decisions

LEMMA DecidedStep == TypeOK /\ Decided /\ [Next]_vars => Decided'
<1> SUFFICES ASSUME TypeOK, Decided, [Next]_vars PROVE Decided'
    OBVIOUS
<1> USE DEF TypeOK, Decided
<1>0. CASE UNCHANGED vars
    BY <1>0 DEF vars
<1>1. ASSUME NEW r \in Requests, Evaluation(r) PROVE Decided'
    <2>1. CASE DecideAction(r)
        <3>1. req'[r].decision \in Decisions
            BY <2>1, FinalType DEF DecideAction
        <3>2. \A q \in Requests : q # r => req'[q] = req[q]
            BY <2>1 DEF DecideAction
        <3> QED BY <3>1, <3>2
    <2>2. CASE BeginEvaluate(r)
        BY <2>2 DEF BeginEvaluate
    <2>3. CASE ReadIncidents(r)
        BY <2>3 DEF ReadIncidents
    <2>4. CASE PublishDecision(r)
        BY <2>4 DEF PublishDecision
    <2>5. CASE CommitDecision(r)
        BY <2>5 DEF CommitDecision
    <2> QED BY <1>1, <2>1, <2>2, <2>3, <2>4, <2>5 DEF Evaluation
<1>2. ASSUME NEW r \in Requests, SessionUpdate(r) \/ Abort(r) PROVE Decided'
    <2>1. CASE BeginPatch(r)
        BY <2>1 DEF BeginPatch
    <2>2. CASE BeginRegister(r)
        BY <2>2 DEF BeginRegister
    <2>3. CASE CommitPatch(r) \/ CommitRegister(r) \/ Abort(r)
        BY <2>3 DEF CommitPatch, CommitRegister, Abort
    <2> QED BY <1>2, <2>1, <2>2, <2>3 DEF SessionUpdate
<1>3. ASSUME NEW i \in Incidents, ResolveIncident(i) PROVE Decided'
    <2>1. \A r \in Requests : req'[r].step = req[r].step /\ req'[r].decision = req[r].decision
        BY <1>3 DEF ResolveIncident
    <2> QED BY <2>1
<1>4. CASE Tick \/ Restart
    BY <1>4 DEF Tick, Restart
<1> QED BY <1>0, <1>1, <1>2, <1>3, <1>4 DEF Next

\* HoldBacked is inductive when the decision state outlives the cooldown.
LEMMA HoldBackedStep ==
    ASSUME DurableRedis, HoldCooldown <= DecisionTTL
    PROVE  TypeOK /\ Decided /\ HoldBacked /\ [Next]_vars => HoldBacked'
<1> SUFFICES ASSUME TypeOK, Decided, HoldBacked, [Next]_vars PROVE HoldBacked'
    OBVIOUS
<1> USE RiskAssumption, SettingsAssumption DEF TypeOK, HoldBacked
<1>1. CASE UNCHANGED <<cache, since, overtaken>>
    BY <1>1
<1>2. ASSUME NEW r \in Requests, PublishDecision(r) PROVE HoldBacked'
    <2>1. req[r].decision \in Decisions
        BY <1>2 DEF PublishDecision, Decided
    <2>2. CASE req[r].decision \in Strict
        BY <1>2, <2>2 DEF PublishDecision, Strict, Loose
    <2>3. CASE req[r].decision \in Loose
        BY <1>2, <2>3 DEF PublishDecision, Strict, Loose
    <2> QED BY <2>1, <2>2, <2>3 DEF Decisions, Strict, Loose
<1>3. CASE Tick
    <2> SUFFICES ASSUME since'.strict < HoldCooldown, ~overtaken'
                 PROVE  cache'.decision \in Strict /\ cache'.age <= since'.strict
        OBVIOUS
    <2>1. since'.strict = since.strict + 1 /\ since.strict < HoldCooldown
        BY <1>3 DEF Tick, Min2
    <2>2. cache.decision \in Strict /\ cache.age <= since.strict
        BY <1>3, <2>1 DEF Tick
    <2>3. cache' = [cache EXCEPT !.age = @ + 1]
        BY <1>3, <2>1, <2>2 DEF Tick, Strict
    <2> QED BY <2>1, <2>2, <2>3
<1>4. CASE Restart
    BY <1>4 DEF Restart, history
<1> QED BY <1>1, <1>2, <1>3, <1>4 DEF Next, vars, Evaluation, SessionUpdate, BeginEvaluate,
        ReadIncidents, DecideAction, CommitDecision, BeginPatch, CommitPatch, BeginRegister,
        CommitRegister, Abort, ResolveIncident, history

\* An evaluation reaches its decision in DecideAction and in no other step.
LEMMA DecidesOnlyThere ==
    ASSUME TypeOK, Next, NEW r \in Requests, Decides(r) PROVE DecideAction(r)
<1>1. req[r].step = "assessing" /\ req'[r].step = "decided"
    BY DEF Decides
<1>2. ASSUME NEW q \in Requests, SessionUpdate(q) \/ Abort(q) PROVE req'[q].step # "decided"
    <2>1. CASE BeginPatch(q)
        BY <2>1 DEF TypeOK, BeginPatch
    <2>2. CASE BeginRegister(q)
        BY <2>2 DEF TypeOK, BeginRegister
    <2>3. CASE CommitPatch(q)
        BY <2>3 DEF TypeOK, CommitPatch, Idle
    <2>4. CASE CommitRegister(q)
        BY <2>4 DEF TypeOK, CommitRegister, Idle
    <2>5. CASE Abort(q)
        BY <2>5 DEF TypeOK, Abort, Idle
    <2> QED BY <1>2, <2>1, <2>2, <2>3, <2>4, <2>5 DEF SessionUpdate
<1>3. \A q \in Requests : (SessionUpdate(q) \/ Abort(q)) /\ q # r => req'[r] = req[r]
    BY DEF TypeOK, SessionUpdate, BeginPatch, CommitPatch, BeginRegister, CommitRegister, Abort
<1>4. ASSUME NEW q \in Requests, Evaluation(q), q # r PROVE FALSE
    <2>1. CASE BeginEvaluate(q)
        BY <1>1, <1>4, <2>1 DEF TypeOK, BeginEvaluate
    <2>2. CASE ReadIncidents(q)
        BY <1>1, <1>4, <2>2 DEF TypeOK, ReadIncidents
    <2>3. CASE DecideAction(q)
        BY <1>1, <1>4, <2>3 DEF TypeOK, DecideAction
    <2>4. CASE PublishDecision(q)
        BY <1>1, <1>4, <2>4 DEF TypeOK, PublishDecision
    <2>5. CASE CommitDecision(q)
        BY <1>1, <1>4, <2>5 DEF TypeOK, CommitDecision
    <2> QED BY <1>4, <2>1, <2>2, <2>3, <2>4, <2>5 DEF Evaluation
<1>5. ~BeginEvaluate(r) /\ ~ReadIncidents(r) /\ ~PublishDecision(r) /\ ~CommitDecision(r)
    BY <1>1 DEF BeginEvaluate, ReadIncidents, PublishDecision, CommitDecision
<1>6. ~Tick /\ ~Restart /\ \A i \in Incidents : ~ResolveIncident(i)
    BY <1>1 DEF TypeOK, Tick, Restart, ResolveIncident
<1> QED BY <1>1, <1>2, <1>3, <1>4, <1>5, <1>6 DEF Next, Evaluation

\* With a Redis that survives the process and a decision state that outlives the
\* cooldown, an evaluation falls below a strict decision within its cooldown
\* only after another evaluation has overtaken that decision.
THEOREM FlapNeedsOvertaking ==
    ASSUME DurableRedis, HoldCooldown <= DecisionTTL
    PROVE  Spec => FlapOnlyAfterOvertaking
<1>1. Init => HoldBacked /\ Decided
    BY SettingsAssumption DEF Init, HoldBacked, Decided
<1>2. TypeOK /\ HoldBacked /\ [Next]_vars =>
        [\A r \in Requests : Decides(r) /\ since.strict < HoldCooldown
                               /\ req'[r].decision \in Loose => overtaken]_vars
    <2> SUFFICES ASSUME TypeOK, HoldBacked, Next, NEW r \in Requests, Decides(r),
                        since.strict < HoldCooldown, ~overtaken
                 PROVE  req'[r].decision \notin Loose
        OBVIOUS
    <2>1. DecideAction(r)
        BY DecidesOnlyThere
    <2>2. cache.decision \in Strict /\ cache.age < HoldCooldown
        BY RiskAssumption, SettingsAssumption DEF HoldBacked, TypeOK
    <2>3. req'[r].decision \in Strict
        BY <2>1, <2>2, FinalType DEF DecideAction, TypeOK
    <2> QED BY <2>3 DEF Strict, Loose
<1> QED BY <1>1, <1>2, TypeCorrect, DecidedStep, HoldBackedStep, PTL
        DEF Spec, FlapOnlyAfterOvertaking

-----------------------------------------------------------------------------
\* What a handler has loaded: an evaluation a session that is not terminal, a
\* registration one that is absent or paused.
Loaded ==
    \A r \in Requests :
        /\ req[r].step \in {"loaded", "assessing", "decided", "published"} =>
               req[r].seen \in {"ACTIVE", "PAUSED"}
        /\ req[r].step = "registering" => req[r].seen \in {"ABSENT", "PAUSED"}

LEMMA LoadedStep == TypeOK /\ Loaded /\ [Next]_vars => Loaded'
<1> SUFFICES ASSUME TypeOK, Loaded, [Next]_vars PROVE Loaded'
    OBVIOUS
<1> USE DEF TypeOK, Loaded
<1>0. CASE UNCHANGED vars
    BY <1>0 DEF vars
<1>1. ASSUME NEW r \in Requests, Evaluation(r) PROVE Loaded'
    <2>1. CASE BeginEvaluate(r)
        BY <2>1 DEF BeginEvaluate, Statuses, Terminal
    <2>2. CASE ReadIncidents(r)
        BY <2>2 DEF ReadIncidents
    <2>3. CASE DecideAction(r)
        <3>1. /\ req[r].step = "assessing" /\ req'[r].step = "decided"
              /\ req'[r].seen = req[r].seen
            BY <2>3 DEF DecideAction
        <3>2. \A q \in Requests : q # r => req'[q] = req[q]
            BY <2>3 DEF DecideAction
        <3> QED BY <3>1, <3>2
    <2>4. CASE PublishDecision(r)
        BY <2>4 DEF PublishDecision
    <2>5. CASE CommitDecision(r)
        BY <2>5 DEF CommitDecision, Idle
    <2> QED BY <1>1, <2>1, <2>2, <2>3, <2>4, <2>5 DEF Evaluation
<1>2. ASSUME NEW r \in Requests, SessionUpdate(r) \/ Abort(r) PROVE Loaded'
    <2>1. CASE BeginPatch(r)
        BY <2>1 DEF BeginPatch
    <2>2. CASE BeginRegister(r)
        BY <2>2 DEF BeginRegister
    <2>3. CASE CommitPatch(r) \/ CommitRegister(r) \/ Abort(r)
        BY <2>3 DEF CommitPatch, CommitRegister, Abort, Idle
    <2> QED BY <1>2, <2>1, <2>2, <2>3 DEF SessionUpdate
<1>3. ASSUME NEW i \in Incidents, ResolveIncident(i) PROVE Loaded'
    <2>1. \A r \in Requests : req'[r].step = req[r].step /\ req'[r].seen = req[r].seen
        BY <1>3 DEF ResolveIncident
    <2> QED BY <2>1
<1>4. CASE Tick \/ Restart
    BY <1>4 DEF Tick, Restart, Idle
<1> QED BY <1>0, <1>1, <1>2, <1>3, <1>4 DEF Next

\* A terminal session is revived by a PATCH or by a handler that had loaded the
\* row while it was PAUSED, in no other way and whatever runs at the same time.
THEOREM RevivedOnlyFromPausedRead == Spec => RevivalOnlyFromPausedRead
<1>1. Init => Loaded
    BY DEF Init, Loaded, Idle
<1>2. TypeOK /\ Loaded /\ [Next]_vars =>
        [Revived => \E r \in Requests :
           \/ Ends(r, "patching")
           \/ req[r].seen = "PAUSED" /\ (Ends(r, "published") \/ Ends(r, "registering"))]_vars
    <2> SUFFICES ASSUME TypeOK, Loaded, Next, Revived
                 PROVE  \E r \in Requests :
                          \/ Ends(r, "patching")
                          \/ req[r].seen = "PAUSED" /\ (Ends(r, "published") \/ Ends(r, "registering"))
        OBVIOUS
    <2> USE DEF TypeOK, Terminal, Revived
    <2>1. ASSUME NEW r \in Requests, CommitPatch(r) PROVE Ends(r, "patching")
        BY <2>1 DEF CommitPatch, Ends, Idle
    <2>2. ASSUME NEW r \in Requests, CommitDecision(r)
          PROVE  req[r].seen = "PAUSED" /\ Ends(r, "published")
        BY <2>2 DEF CommitDecision, Ends, Idle, Loaded
    <2>3. ASSUME NEW r \in Requests, CommitRegister(r)
          PROVE  req[r].seen = "PAUSED" /\ Ends(r, "registering")
        BY <2>3 DEF CommitRegister, Ends, Idle, Loaded
    <2>4. PICK r \in Requests : CommitPatch(r) \/ CommitDecision(r) \/ CommitRegister(r)
        BY DEF Next, Evaluation, SessionUpdate, BeginEvaluate, ReadIncidents, DecideAction,
               PublishDecision, BeginPatch, BeginRegister, Abort, ResolveIncident, Tick, Restart
    <2> QED BY <2>1, <2>2, <2>3, <2>4
<1> QED BY <1>1, <1>2, TypeCorrect, LoadedStep, PTL DEF Spec, RevivalOnlyFromPausedRead

-----------------------------------------------------------------------------
\* One request at a time: what the handler in progress has loaded is still true.
Serial == \A r, q \in Requests : r = q
Fresh == \A r \in Requests : req[r].step # "idle" => req[r].seen = status

LEMMA FreshStep ==
    ASSUME Serial PROVE TypeOK /\ Fresh /\ [Next]_vars => Fresh'
<1> SUFFICES ASSUME TypeOK, Fresh, [Next]_vars PROVE Fresh'
    OBVIOUS
<1> USE DEF TypeOK, Fresh
<1>0. CASE UNCHANGED vars
    BY <1>0 DEF vars
<1>1. ASSUME NEW r \in Requests, Evaluation(r) PROVE Fresh'
    <2>1. CASE BeginEvaluate(r)
        BY <2>1 DEF BeginEvaluate
    <2>2. CASE ReadIncidents(r)
        BY <2>2 DEF ReadIncidents
    <2>3. CASE DecideAction(r)
        <3>1. /\ req[r].step = "assessing" /\ req'[r].seen = req[r].seen /\ status' = status
            BY <2>3 DEF DecideAction
        <3>2. \A q \in Requests : q # r => req'[q] = req[q]
            BY <2>3 DEF DecideAction
        <3> QED BY <3>1, <3>2
    <2>4. CASE PublishDecision(r)
        BY <2>4 DEF PublishDecision
    <2>5. CASE CommitDecision(r)
        BY <2>5 DEF CommitDecision, Idle, Serial
    <2> QED BY <1>1, <2>1, <2>2, <2>3, <2>4, <2>5 DEF Evaluation
<1>2. ASSUME NEW r \in Requests, SessionUpdate(r) \/ Abort(r) PROVE Fresh'
    <2>1. CASE BeginPatch(r)
        BY <2>1 DEF BeginPatch
    <2>2. CASE BeginRegister(r)
        BY <2>2 DEF BeginRegister
    <2>3. CASE CommitPatch(r) \/ CommitRegister(r) \/ Abort(r)
        BY <2>3 DEF CommitPatch, CommitRegister, Abort, Idle, Serial
    <2> QED BY <1>2, <2>1, <2>2, <2>3 DEF SessionUpdate
<1>3. ASSUME NEW i \in Incidents, ResolveIncident(i) PROVE Fresh'
    <2>1. \A r \in Requests : req'[r].step = req[r].step /\ req'[r].seen = req[r].seen
        BY <1>3 DEF ResolveIncident
    <2> QED BY <1>3, <2>1 DEF ResolveIncident
<1>4. CASE Tick \/ Restart
    BY <1>4 DEF Tick, Restart, Idle
<1> QED BY <1>0, <1>1, <1>2, <1>3, <1>4 DEF Next

\* When requests on a session do not overlap, a terminal session is left by a
\* PATCH only.
THEOREM SerialTerminalLeftOnlyByPatch ==
    ASSUME Serial PROVE Spec => TerminalLeftOnlyByPatch
<1>1. Init => Loaded /\ Fresh
    BY DEF Init, Loaded, Fresh, Idle
<1>2. TypeOK /\ Loaded /\ Fresh /\ [Next]_vars =>
        [Revived => \E r \in Requests : Ends(r, "patching")]_vars
    <2> SUFFICES ASSUME TypeOK, Loaded, Fresh, Next, Revived
                 PROVE  \E r \in Requests : Ends(r, "patching")
        OBVIOUS
    <2> USE DEF TypeOK, Terminal, Revived
    <2>1. ASSUME NEW r \in Requests, CommitPatch(r) PROVE Ends(r, "patching")
        BY <2>1 DEF CommitPatch, Ends, Idle
    <2>2. ASSUME NEW r \in Requests, CommitDecision(r) PROVE FALSE
        BY <2>2 DEF CommitDecision, Loaded, Fresh
    <2>3. ASSUME NEW r \in Requests, CommitRegister(r) PROVE FALSE
        BY <2>3 DEF CommitRegister, Loaded, Fresh
    <2>4. PICK r \in Requests : CommitPatch(r) \/ CommitDecision(r) \/ CommitRegister(r)
        BY DEF Next, Evaluation, SessionUpdate, BeginEvaluate, ReadIncidents, DecideAction,
               PublishDecision, BeginPatch, BeginRegister, Abort, ResolveIncident, Tick, Restart
    <2> QED BY <2>1, <2>2, <2>3, <2>4
<1> QED BY <1>1, <1>2, TypeCorrect, LoadedStep, FreshStep, PTL DEF Spec, TerminalLeftOnlyByPatch

-----------------------------------------------------------------------------
\* A handler that has loaded a row knows that there is one, and a PATCH asks for
\* a status.
Present ==
    \A r \in Requests :
        /\ req[r].step # "idle" /\ req[r].seen # "ABSENT" => status # "ABSENT"
        /\ req[r].step = "patching" => req[r].seen # "ABSENT" /\ req[r].target \in Statuses

LEMMA PresentStep == TypeOK /\ Present /\ [Next]_vars => Present'
<1> SUFFICES ASSUME TypeOK, Present, [Next]_vars PROVE Present'
    OBVIOUS
<1> USE DEF TypeOK, Present
<1>0. CASE UNCHANGED vars
    BY <1>0 DEF vars
<1>1. ASSUME NEW r \in Requests, Evaluation(r) PROVE Present'
    <2>1. CASE BeginEvaluate(r)
        BY <2>1 DEF BeginEvaluate
    <2>2. CASE ReadIncidents(r)
        BY <2>2 DEF ReadIncidents
    <2>3. CASE DecideAction(r)
        <3>1. /\ req[r].step = "assessing" /\ req'[r].step = "decided"
              /\ req'[r].seen = req[r].seen /\ status' = status
            BY <2>3 DEF DecideAction
        <3>2. \A q \in Requests : q # r => req'[q] = req[q]
            BY <2>3 DEF DecideAction
        <3> QED BY <3>1, <3>2
    <2>4. CASE PublishDecision(r)
        BY <2>4 DEF PublishDecision
    <2>5. CASE CommitDecision(r)
        BY <2>5 DEF CommitDecision
    <2> QED BY <1>1, <2>1, <2>2, <2>3, <2>4, <2>5 DEF Evaluation
<1>2. ASSUME NEW r \in Requests, SessionUpdate(r) \/ Abort(r) PROVE Present'
    <2>1. CASE BeginPatch(r)
        <3>1. status' = status /\ status # "ABSENT"
            BY <2>1 DEF BeginPatch
        <3>2. req'[r].seen # "ABSENT" /\ req'[r].target \in Statuses
            BY <2>1 DEF BeginPatch
        <3>3. \A q \in Requests : q # r => req'[q] = req[q]
            BY <2>1 DEF BeginPatch
        <3> QED BY <3>1, <3>2, <3>3
    <2>2. CASE BeginRegister(r)
        BY <2>2 DEF BeginRegister
    <2>3. CASE CommitPatch(r)
        BY <2>3 DEF CommitPatch
    <2>4. CASE CommitRegister(r) \/ Abort(r)
        BY <2>4 DEF CommitRegister, Abort
    <2> QED BY <1>2, <2>1, <2>2, <2>3, <2>4 DEF SessionUpdate
<1>3. ASSUME NEW i \in Incidents, ResolveIncident(i) PROVE Present'
    <2>1. \A r \in Requests : /\ req'[r].step = req[r].step /\ req'[r].seen = req[r].seen
                              /\ req'[r].target = req[r].target
        BY <1>3 DEF ResolveIncident
    <2> QED BY <1>3, <2>1 DEF ResolveIncident
<1>4. CASE Tick \/ Restart
    BY <1>4 DEF Tick, Restart
<1> QED BY <1>0, <1>1, <1>2, <1>3, <1>4 DEF Next

\* What the handlers know of the row, when they may overlap and when they may not.
Knowledge == Loaded /\ Present /\ (Serial => Fresh)

LEMMA KnowledgeStep == TypeOK /\ Knowledge /\ [Next]_vars => Knowledge'
BY LoadedStep, PresentStep, FreshStep DEF Knowledge

\* Each commit of a handler is one step of the guard, or none.
LEMMA CommitRefines ==
    ASSUME TypeOK, Knowledge, NEW r \in Requests,
           CommitDecision(r) \/ CommitPatch(r) \/ CommitRegister(r)
    PROVE  Guard!Next \/ UNCHANGED Guard!vars
<1> USE DEF TypeOK
<1> DEFINE overlap == \E p, q \in Requests : p # q
<1>1. overlap \/ Fresh
    BY DEF Knowledge, Serial
<1>2. CASE CommitDecision(r)
    <2>1. req[r].seen \in {"ACTIVE", "PAUSED"} /\ status # "ABSENT"
        BY <1>2 DEF CommitDecision, Knowledge, Loaded, Present
    <2>2. overlap \/ status \in {"ACTIVE", "PAUSED"}
        BY <1>1, <1>2, <2>1 DEF CommitDecision, Fresh
    <2>3. CASE req[r].decision = "ISOLATE"
        <3>1. PICK i \in Incidents :
                incident[i] = "NONE" /\ incident' = [incident EXCEPT ![i] = "OPEN"]
            BY <1>2, <2>3 DEF CommitDecision, OpensIncident, Loose
        <3>2. status' = "ISOLATED" /\ released' = FALSE
            BY <1>2, <2>3 DEF CommitDecision, Loose
        <3>3. Guard!Isolate(i)
            BY <2>1, <2>2, <3>1, <3>2 DEF Guard!Isolate, Guard!Live
        <3> QED BY <3>3 DEF Guard!Next
    <2>4. CASE req[r].decision # "ISOLATE" /\ status' = status
        BY <1>2, <2>4 DEF CommitDecision, Guard!vars
    <2>5. CASE req[r].decision # "ISOLATE" /\ status' # status
        <3>1. status' = "ACTIVE" /\ UNCHANGED <<incident, released>>
            BY <1>2, <2>5 DEF CommitDecision
        <3> QED BY <2>2, <3>1 DEF Guard!Next, Guard!Activate, Guard!Live
    <2> QED BY <2>3, <2>4, <2>5
<1>3. CASE CommitPatch(r)
    <2>1. status # "ABSENT" /\ req[r].target \in Statuses
        BY <1>3 DEF CommitPatch, Knowledge, Present
    <2>2. status' \in Statuses
        BY <1>3, <2>1 DEF CommitPatch
    <2>3. Guard!Set(status')
        BY <1>3, <2>1 DEF CommitPatch, Guard!Set
    <2> QED BY <2>2, <2>3 DEF Guard!Next, Guard!Statuses
<1>4. CASE CommitRegister(r)
    <2>1. req[r].seen \in {"ABSENT", "PAUSED"} /\ UNCHANGED <<incident, released>>
        BY <1>4 DEF CommitRegister, Knowledge, Loaded, history
    <2>2. CASE req[r].seen = "ABSENT" /\ status # "ABSENT"
        BY <1>4, <2>1, <2>2 DEF CommitRegister, Guard!vars
    <2>3. CASE ~(req[r].seen = "ABSENT" /\ status # "ABSENT")
        <3>1. status' = "ACTIVE"
            BY <1>4, <2>3 DEF CommitRegister
        <3>2. overlap \/ status \in {"ABSENT", "PAUSED"}
            BY <1>1, <1>4, <2>1 DEF CommitRegister, Fresh
        <3> QED BY <2>1, <3>1, <3>2 DEF Guard!Next, Guard!Activate, Guard!Live
    <2> QED BY <2>2, <2>3
<1> QED BY <1>2, <1>3, <1>4

\* The handlers implement the session guard: every step of theirs is one atomic
\* change of the session and its incidents, or changes neither, for any number of
\* requests. When requests do not overlap the guard is the strict one, under which
\* only a PATCH leaves a terminal state.
THEOREM RequestsImplementGuard == Spec => GuardSpec
<1>1. Init => Knowledge /\ Guard!Init
    BY DEF Init, Knowledge, Loaded, Present, Fresh, Idle, Guard!Init
<1>2. TypeOK /\ Knowledge /\ [Next]_vars => [Guard!Next]_(Guard!vars)
    <2> SUFFICES ASSUME TypeOK, Knowledge, [Next]_vars
                 PROVE  Guard!Next \/ UNCHANGED Guard!vars
        BY DEF Guard!vars
    <2>1. CASE UNCHANGED <<status, incident, released>>
        BY <2>1 DEF Guard!vars
    <2>2. ASSUME NEW r \in Requests, CommitDecision(r) \/ CommitPatch(r) \/ CommitRegister(r)
          PROVE  Guard!Next \/ UNCHANGED Guard!vars
        BY <2>2, CommitRefines
    <2>3. ASSUME NEW i \in Incidents, ResolveIncident(i) PROVE Guard!Next
        <3>1. Guard!Close(i)
            BY <2>3 DEF ResolveIncident, Guard!Close, history
        <3> QED BY <3>1 DEF Guard!Next
    <2> QED BY <2>1, <2>2, <2>3 DEF Next, vars, Evaluation, SessionUpdate, history,
               BeginEvaluate, ReadIncidents, DecideAction, PublishDecision, BeginPatch,
               BeginRegister, Abort, Tick, Restart
<1> QED BY <1>1, <1>2, TypeCorrect, KnowledgeStep, PTL DEF Spec, GuardSpec, Guard!Spec

\* The strict guard keeps a session with an open incident isolated.
LEMMA GuardKeepsIsolated ==
    ASSUME TypeOK, Guard!OpenMeansIsolated, [Guard!Next]_(Guard!vars)
    PROVE  Guard!OpenMeansIsolated'
<1> USE DEF Guard!OpenMeansIsolated
<1>1. CASE UNCHANGED Guard!vars
    BY <1>1 DEF Guard!vars
<1>2. CASE Guard!Activate
    BY <1>2 DEF Guard!Activate, Guard!Live
<1>3. ASSUME NEW i \in Incidents, Guard!Isolate(i) PROVE Guard!OpenMeansIsolated'
    BY <1>3 DEF Guard!Isolate
<1>4. ASSUME NEW i \in Incidents, Guard!Close(i) PROVE Guard!OpenMeansIsolated'
    BY <1>4 DEF Guard!Close, TypeOK
<1>5. ASSUME NEW s \in Statuses, Guard!Set(s) PROVE Guard!OpenMeansIsolated'
    BY <1>5 DEF Guard!Set
<1> QED BY <1>1, <1>2, <1>3, <1>4, <1>5 DEF Guard!Next, Guard!Statuses

\* When requests on a session do not overlap, a session with an open incident is
\* isolated until an operator releases it: the guard keeps it so, and the handlers
\* implement the guard.
THEOREM SerialOpenIncidentMeansIsolated ==
    ASSUME Serial PROVE Spec => []OpenIncidentMeansIsolated
<1>1. Guard!Init => Guard!OpenMeansIsolated
    BY DEF Guard!Init, Guard!OpenMeansIsolated
<1>2. TypeOK /\ Guard!OpenMeansIsolated /\ [Guard!Next]_(Guard!vars) => Guard!OpenMeansIsolated'
    BY GuardKeepsIsolated
<1>3. Guard!OpenMeansIsolated => OpenIncidentMeansIsolated
    BY DEF Guard!OpenMeansIsolated, OpenIncidentMeansIsolated, Open, Serial
<1> QED BY <1>1, <1>2, <1>3, RequestsImplementGuard, TypeCorrect, PTL DEF GuardSpec, Guard!Spec

-----------------------------------------------------------------------------
\* The two cooldowns and the TTL are ordered, and Redis outlives the process.
Remembered == DurableRedis /\ EscalationCooldown <= HoldCooldown /\ HoldCooldown <= DecisionTTL

\* What the decision state guarantees when requests do not overlap: it backs
\* both cooldowns, and a decision that waits to be published respects them.
Held ==
    /\ ~overtaken /\ HoldBacked
    /\ since.stepUp < EscalationCooldown =>
           cache.decision \in Strict \cup {"STEP_UP"} /\ cache.age <= since.stepUp
    /\ \A r \in Requests : req[r].step = "decided" =>
           /\ req[r].decision \in Loose => since.strict >= HoldCooldown
           /\ req[r].decision = "ALLOW" => since.stepUp >= EscalationCooldown

\* An evaluation that decides while Held keeps to both cooldowns.
LEMMA HeldDecides ==
    ASSUME Remembered, TypeOK, Held, NEW r \in Requests, DecideAction(r)
    PROVE  /\ req'[r].decision \in Loose => since.strict >= HoldCooldown
           /\ req'[r].decision = "ALLOW" => since.stepUp >= EscalationCooldown
<1>1. PICK policy \in Decisions :
            req'[r].decision = ApplyHysteresis(cache.decision, cache.age, policy)
    <2>1. PICK a \in Assessments :
            req'[r].decision = ApplyHysteresis(cache.decision, cache.age,
                                   Decide(a.confidence, a.risk, a.codes, req[r].open))
        BY DEF DecideAction, TypeOK
    <2>2. a.confidence \in 0 .. 100 /\ a.risk \in ActionRiskLevel /\ req[r].open \in BOOLEAN
        BY RiskAssumption DEF TypeOK
    <2>3. Decide(a.confidence, a.risk, a.codes, req[r].open) \in Decisions
        BY <2>2, DecideType
    <2> QED BY <2>1, <2>3
<1>2. since.strict \in Int /\ since.stepUp \in Int /\ cache.age \in Int
    BY RiskAssumption, SettingsAssumption DEF TypeOK
<1>3. HoldCooldown \in Int /\ EscalationCooldown \in Int /\ EscalationCooldown <= HoldCooldown
    BY SettingsAssumption DEF Remembered
<1>4. ASSUME since.strict < HoldCooldown PROVE req'[r].decision \notin Loose
    <2>1. cache.decision \in Strict /\ cache.age < HoldCooldown
        BY <1>2, <1>3, <1>4 DEF Held, HoldBacked
    <2> QED BY <1>1, <2>1 DEF ApplyHysteresis, Strict, Loose, Decisions
<1>5. ASSUME since.stepUp < EscalationCooldown PROVE req'[r].decision # "ALLOW"
    <2>1. /\ cache.decision \in Strict \cup {"STEP_UP"}
          /\ cache.age < EscalationCooldown /\ cache.age < HoldCooldown
        BY <1>2, <1>3, <1>5 DEF Held
    <2> QED BY <1>1, <2>1 DEF ApplyHysteresis, Strict, Loose, Decisions
<1> QED BY <1>2, <1>3, <1>4, <1>5

LEMMA HeldStep ==
    ASSUME Serial, Remembered
    PROVE  TypeOK /\ Decided /\ Held /\ [Next]_vars => Held'
<1> SUFFICES ASSUME TypeOK, Decided, Held, [Next]_vars PROVE Held'
    OBVIOUS
<1>0. HoldBacked'
    BY HoldBackedStep DEF Held, Remembered
<1> USE RiskAssumption, SettingsAssumption DEF TypeOK
<1>1. CASE UNCHANGED vars
    BY <1>0, <1>1 DEF vars, Held
<1>2. ASSUME NEW r \in Requests, Evaluation(r) PROVE Held'
    <2>1. CASE BeginEvaluate(r)
        BY <1>0, <2>1 DEF BeginEvaluate, Held, history
    <2>2. CASE ReadIncidents(r)
        BY <1>0, <2>2 DEF ReadIncidents, Held, history
    <2>3. CASE DecideAction(r)
        <3>1. /\ req'[r].decision \in Loose => since.strict >= HoldCooldown
              /\ req'[r].decision = "ALLOW" => since.stepUp >= EscalationCooldown
            BY <2>3, HeldDecides
        <3>2. UNCHANGED <<cache, since, overtaken>>
            BY <2>3 DEF DecideAction, history
        <3>3. \A q \in Requests : q # r => req'[q] = req[q]
            BY <2>3 DEF DecideAction
        <3> HIDE DEF TypeOK
        <3> QED BY <1>0, <3>1, <3>2, <3>3 DEF Held
    <2>4. CASE PublishDecision(r)
        <3>1. /\ req[r].step = "decided" /\ req[r].decision \in Decisions
              /\ cache' = [decision |-> req[r].decision, age |-> 0]
            BY <2>4 DEF PublishDecision, Decided
        <3>2. ~overtaken'
            BY <2>4, <3>1 DEF PublishDecision, Held
        <3>3. \A q \in Requests : req'[q].step # "decided"
            BY <2>4 DEF PublishDecision, Serial
        <3>4. since'.stepUp < EscalationCooldown =>
                cache'.decision \in Strict \cup {"STEP_UP"} /\ cache'.age <= since'.stepUp
            BY <2>4, <3>1 DEF PublishDecision, Held, Strict, Decisions
        <3> HIDE DEF TypeOK
        <3> QED BY <1>0, <3>2, <3>3, <3>4 DEF Held
    <2>5. CASE CommitDecision(r)
        BY <1>0, <2>5 DEF CommitDecision, Idle, Held
    <2> QED BY <1>2, <2>1, <2>2, <2>3, <2>4, <2>5 DEF Evaluation
<1>3. ASSUME NEW r \in Requests, SessionUpdate(r) \/ Abort(r) PROVE Held'
    <2>1. CASE BeginPatch(r)
        BY <1>0, <2>1 DEF BeginPatch, Held, history
    <2>2. CASE BeginRegister(r)
        BY <1>0, <2>2 DEF BeginRegister, Held, history
    <2>3. CASE CommitPatch(r) \/ CommitRegister(r) \/ Abort(r)
        BY <1>0, <2>3 DEF CommitPatch, CommitRegister, Abort, Idle, Held, history
    <2> QED BY <1>3, <2>1, <2>2, <2>3 DEF SessionUpdate
<1>4. ASSUME NEW i \in Incidents, ResolveIncident(i) PROVE Held'
    <2>1. /\ UNCHANGED <<cache, since, overtaken>>
          /\ \A r \in Requests : req'[r].step = req[r].step /\ req'[r].decision = req[r].decision
        BY <1>4 DEF ResolveIncident, history
    <2> HIDE DEF TypeOK
    <2> QED BY <1>0, <2>1 DEF Held
<1>5. CASE Tick
    <2>1. UNCHANGED <<req, overtaken>>
        BY <1>5 DEF Tick
    <2>2. since.strict >= HoldCooldown => since'.strict >= HoldCooldown
        BY <1>5 DEF Tick, Min2
    <2>3. since.stepUp >= EscalationCooldown => since'.stepUp >= EscalationCooldown
        BY <1>5 DEF Tick, Min2
    <2>4. ASSUME since'.stepUp < EscalationCooldown
          PROVE  cache'.decision \in Strict \cup {"STEP_UP"} /\ cache'.age <= since'.stepUp
        <3>1. since'.stepUp = since.stepUp + 1 /\ since.stepUp < EscalationCooldown
            BY <1>5, <2>4 DEF Tick, Min2
        <3>2. cache.decision \in Strict \cup {"STEP_UP"} /\ cache.age <= since.stepUp
            BY <3>1 DEF Held
        <3>3. EscalationCooldown <= DecisionTTL
            BY DEF Remembered
        <3>4. cache' = [cache EXCEPT !.age = @ + 1]
            BY <1>5, <2>4, <3>1, <3>2, <3>3 DEF Tick, Strict
        <3> QED BY <3>1, <3>2, <3>4
    <2> HIDE DEF TypeOK
    <2> QED BY <1>0, <2>1, <2>2, <2>3, <2>4 DEF Held
<1>6. CASE Restart
    BY <1>0, <1>6 DEF Restart, Idle, Held, history, Remembered
<1> QED BY <1>1, <1>2, <1>3, <1>4, <1>5, <1>6 DEF Next

\* When requests on a session do not overlap, Redis survives the process and the
\* settings are ordered as shipped, the hysteresis comment holds: no evaluation
\* flaps, through expiries, rollbacks and restarts.
THEOREM SerialNoFlap ==
    ASSUME Serial, Remembered PROVE Spec => NoFlap
<1>1. Init => Held /\ Decided
    BY SettingsAssumption DEF Init, Held, HoldBacked, Decided, Idle
<1>2. TypeOK /\ Held /\ [Next]_vars =>
        [\A r \in Requests : Decides(r) =>
          /\ since.strict < HoldCooldown => req'[r].decision \in Strict
          /\ since.stepUp < EscalationCooldown => req'[r].decision # "ALLOW"]_vars
    <2> SUFFICES ASSUME TypeOK, Held, Next, NEW r \in Requests, Decides(r)
                 PROVE  /\ since.strict < HoldCooldown => req'[r].decision \in Strict
                        /\ since.stepUp < EscalationCooldown => req'[r].decision # "ALLOW"
        OBVIOUS
    <2>1. DecideAction(r)
        BY DecidesOnlyThere
    <2>2. req'[r].decision \in Decisions
        BY <2>1, FinalType DEF DecideAction, TypeOK
    <2>3. since.strict \in Int /\ since.stepUp \in Int /\ HoldCooldown \in Int
          /\ EscalationCooldown \in Int
        BY SettingsAssumption DEF TypeOK
    <2> QED BY <2>1, <2>2, <2>3, HeldDecides DEF Decisions, Strict, Loose
<1> QED BY <1>1, <1>2, TypeCorrect, DecidedStep, HeldStep, PTL DEF Spec, NoFlap

-----------------------------------------------------------------------------
\* No incident, and nothing that could open one.
NothingIsolates ==
    /\ incident = [i \in Incidents |-> "NONE"]
    /\ cache.decision # "ISOLATE"
    /\ \A r \in Requests : ~req[r].open /\ req[r].decision # "ISOLATE"

\* When the isolation rule fires for no assessment, as under the shipped settings
\* (RiskScoringProofs: ShippedPolicyIsolatesOnIncidentOnly), no incident is ever
\* opened and no evaluation isolates a session: nothing else creates incidents.
THEOREM IsolationNeedsItsRule ==
    ASSUME \A a \in Assessments : ~Isolates(a.confidence, a.risk, a.codes)
    PROVE  Spec => []NothingIsolates
<1>1. Init => NothingIsolates
    BY DEF Init, NothingIsolates, NoState, Idle
<1>2. TypeOK /\ NothingIsolates /\ [Next]_vars => NothingIsolates'
    <2> SUFFICES ASSUME TypeOK, NothingIsolates, [Next]_vars PROVE NothingIsolates'
        OBVIOUS
    <2> USE DEF TypeOK, NothingIsolates
    <2>0. CASE UNCHANGED vars
        BY <2>0 DEF vars
    <2>1. ASSUME NEW r \in Requests, Evaluation(r) PROVE NothingIsolates'
        <3>1. CASE DecideAction(r)
            <4>1. PICK a \in Assessments :
                    req'[r].decision = ApplyHysteresis(cache.decision, cache.age,
                                           Decide(a.confidence, a.risk, a.codes, req[r].open))
                BY <3>1 DEF DecideAction
            <4>2. a.confidence \in 0 .. 100 /\ a.risk \in ActionRiskLevel
                BY RiskAssumption
            <4>3. FirstMatch(a.confidence, a.risk).decision # "ISOLATE"
                BY <4>2, FirstMatchExists DEF Matching
            <4>4. Decide(a.confidence, a.risk, a.codes, req[r].open) # "ISOLATE"
                BY <4>3 DEF Decide
            <4>5. req'[r].decision # "ISOLATE"
                BY <4>1, <4>4 DEF ApplyHysteresis
            <4>6. UNCHANGED <<incident, cache>> /\ req'[r].open = req[r].open
                BY <3>1 DEF DecideAction
            <4>7. \A q \in Requests : q # r => req'[q] = req[q]
                BY <3>1 DEF DecideAction
            <4> HIDE DEF TypeOK
            <4> QED BY <4>5, <4>6, <4>7
        <3>2. CASE BeginEvaluate(r)
            BY <3>2 DEF BeginEvaluate, Idle
        <3>3. CASE ReadIncidents(r)
            <4>1. Open = {}
                BY DEF Open
            <4> QED BY <3>3, <4>1 DEF ReadIncidents
        <3>4. CASE PublishDecision(r)
            BY <3>4 DEF PublishDecision
        <3>5. CASE CommitDecision(r)
            BY <3>5 DEF CommitDecision, Idle
        <3> QED BY <2>1, <3>1, <3>2, <3>3, <3>4, <3>5 DEF Evaluation
    <2>2. ASSUME NEW r \in Requests, SessionUpdate(r) \/ Abort(r) PROVE NothingIsolates'
        <3>1. CASE BeginPatch(r)
            BY <3>1 DEF BeginPatch, Idle
        <3>2. CASE BeginRegister(r)
            BY <3>2 DEF BeginRegister, Idle
        <3>3. CASE CommitPatch(r) \/ CommitRegister(r) \/ Abort(r)
            BY <3>3 DEF CommitPatch, CommitRegister, Abort, Idle
        <3> QED BY <2>2, <3>1, <3>2, <3>3 DEF SessionUpdate
    <2>3. ASSUME NEW i \in Incidents, ResolveIncident(i) PROVE NothingIsolates'
        BY <2>3 DEF ResolveIncident
    <2>4. CASE Tick
        BY <2>4 DEF Tick, NoState
    <2>5. CASE Restart
        BY <2>5 DEF Restart, NoState, Idle
    <2> QED BY <2>0, <2>1, <2>2, <2>3, <2>4, <2>5 DEF Next
<1> QED BY <1>1, <1>2, TypeCorrect, PTL DEF Spec
==============================================================================
