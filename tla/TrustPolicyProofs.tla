-------------------------- MODULE TrustPolicyProofs --------------------------
(***************************************************************************)
(* Facts about the policy and the hysteresis rule, for all settings.       *)
(***************************************************************************)
EXTENDS TrustPolicy, TLAPS

\* For every confidence and risk level some permissive rule applies, and one of
\* those has the lowest priority number: decide() never falls through its table.
LEMMA FirstMatchExists ==
    ASSUME NEW c \in 0 .. 100, NEW risk \in ActionRiskLevel
    PROVE  /\ FirstMatch(c, risk) \in Matching(c, risk)
           /\ \A q \in Matching(c, risk) : FirstMatch(c, risk).priority <= q.priority
<1> USE SettingsAssumption
<1> SUFFICES \E r \in Matching(c, risk) : \A q \in Matching(c, risk) : r.priority <= q.priority
    BY DEF FirstMatch
<1>1. CASE risk = "LOW"
    <2>1. Rule("LOW", 1, 0, "ALLOW") \in Matching(c, risk)
        BY <1>1 DEF Matching, Rules, Rule
    <2>2. \A q \in Matching(c, risk) : 1 <= q.priority
        BY <1>1 DEF Matching, Rules, Rule
    <2> QED BY <2>1, <2>2 DEF Rule
<1>2. CASE risk = "MEDIUM"
    <2>1. CASE c >= GuardedThreshold
        <3>1. Rule("MEDIUM", 2, GuardedThreshold, "ALLOW") \in Matching(c, risk)
            BY <1>2, <2>1 DEF Matching, Rules, Rule
        <3>2. \A q \in Matching(c, risk) : 2 <= q.priority
            BY <1>2 DEF Matching, Rules, Rule
        <3> QED BY <3>1, <3>2 DEF Rule
    <2>2. CASE c < GuardedThreshold
        <3>1. Rule("MEDIUM", 3, 0, "STEP_UP") \in Matching(c, risk)
            BY <1>2 DEF Matching, Rules, Rule
        <3>2. \A q \in Matching(c, risk) : 3 <= q.priority
            BY <1>2, <2>2 DEF Matching, Rules, Rule
        <3> QED BY <3>1, <3>2 DEF Rule
    <2> QED BY <2>1, <2>2
<1>3. CASE risk = "HIGH"
    <2>1. CASE c >= ModerateThreshold
        <3>1. Rule("HIGH", 2, ModerateThreshold, "ALLOW") \in Matching(c, risk)
            BY <1>3, <2>1 DEF Matching, Rules, Rule
        <3>2. \A q \in Matching(c, risk) : 2 <= q.priority
            BY <1>3 DEF Matching, Rules, Rule
        <3> QED BY <3>1, <3>2 DEF Rule
    <2>2. CASE c < ModerateThreshold /\ c >= GuardedThreshold
        <3>1. Rule("HIGH", 3, GuardedThreshold, "STEP_UP") \in Matching(c, risk)
            BY <1>3, <2>2 DEF Matching, Rules, Rule
        <3>2. \A q \in Matching(c, risk) : 3 <= q.priority
            BY <1>3, <2>2 DEF Matching, Rules, Rule
        <3> QED BY <3>1, <3>2 DEF Rule
    <2>3. CASE c < ModerateThreshold /\ c < GuardedThreshold
        <3>1. Rule("HIGH", 4, 0, "BLOCK") \in Matching(c, risk)
            BY <1>3 DEF Matching, Rules, Rule
        <3>2. \A q \in Matching(c, risk) : 4 <= q.priority
            BY <1>3, <2>3 DEF Matching, Rules, Rule
        <3> QED BY <3>1, <3>2 DEF Rule
    <2> QED BY <2>1, <2>2, <2>3
<1>4. CASE risk = "CRITICAL"
    <2>1. CASE c >= HighThreshold
        <3>1. Rule("CRITICAL", 2, HighThreshold, "ALLOW") \in Matching(c, risk)
            BY <1>4, <2>1 DEF Matching, Rules, Rule
        <3>2. \A q \in Matching(c, risk) : 2 <= q.priority
            BY <1>4 DEF Matching, Rules, Rule
        <3> QED BY <3>1, <3>2 DEF Rule
    <2>2. CASE c < HighThreshold /\ c >= ModerateThreshold
        <3>1. Rule("CRITICAL", 3, ModerateThreshold, "STEP_UP") \in Matching(c, risk)
            BY <1>4, <2>2 DEF Matching, Rules, Rule
        <3>2. \A q \in Matching(c, risk) : 3 <= q.priority
            BY <1>4, <2>2 DEF Matching, Rules, Rule
        <3> QED BY <3>1, <3>2 DEF Rule
    <2>3. CASE c < HighThreshold /\ c < ModerateThreshold
        <3>1. Rule("CRITICAL", 4, 0, "BLOCK") \in Matching(c, risk)
            BY <1>4 DEF Matching, Rules, Rule
        <3>2. \A q \in Matching(c, risk) : 4 <= q.priority
            BY <1>4, <2>3 DEF Matching, Rules, Rule
        <3> QED BY <3>1, <3>2 DEF Rule
    <2> QED BY <2>1, <2>2, <2>3
<1> QED BY <1>1, <1>2, <1>3, <1>4 DEF ActionRiskLevel

\* The table of the policy, as the first matching row answers it.
Permitted(c, risk) ==
    IF risk = "LOW" THEN "ALLOW"
    ELSE IF risk = "MEDIUM" THEN IF c >= GuardedThreshold THEN "ALLOW" ELSE "STEP_UP"
    ELSE IF risk = "HIGH"
         THEN IF c >= ModerateThreshold THEN "ALLOW"
              ELSE IF c >= GuardedThreshold THEN "STEP_UP" ELSE "BLOCK"
    ELSE IF c >= HighThreshold THEN "ALLOW"
         ELSE IF c >= ModerateThreshold THEN "STEP_UP" ELSE "BLOCK"

LEMMA PolicyTable ==
    ASSUME NEW c \in 0 .. 100, NEW risk \in ActionRiskLevel
    PROVE  FirstMatch(c, risk).decision = Permitted(c, risk)
<1> DEFINE r == FirstMatch(c, risk)
<1>1. /\ r \in Rules /\ r.risk = risk /\ r.decision # "ISOLATE" /\ c >= r.min
      /\ \A q \in Rules : q.risk = risk /\ q.decision # "ISOLATE" /\ c >= q.min
                            => r.priority <= q.priority
    BY FirstMatchExists DEF Matching
<1> SUFFICES r.decision = Permitted(c, risk)
    OBVIOUS
<1> USE SettingsAssumption
<1> HIDE DEF r
<1>2. CASE risk = "LOW"
    BY <1>1, <1>2 DEF Rules, Rule, Permitted
<1>3. CASE risk = "MEDIUM"
    <2>1. Rule("MEDIUM", 2, GuardedThreshold, "ALLOW") \in Rules
        BY DEF Rules
    <2>2. c >= GuardedThreshold => r.priority <= 2
        BY <1>1, <1>3, <2>1 DEF Rule
    <2>3. r \in {Rule("MEDIUM", 2, GuardedThreshold, "ALLOW"), Rule("MEDIUM", 3, 0, "STEP_UP")}
        BY <1>1, <1>3 DEF Rules, Rule
    <2> QED BY <1>1, <1>3, <2>2, <2>3 DEF Rule, Permitted
<1>4. CASE risk = "HIGH"
    <2>1. /\ Rule("HIGH", 2, ModerateThreshold, "ALLOW") \in Rules
          /\ Rule("HIGH", 3, GuardedThreshold, "STEP_UP") \in Rules
        BY DEF Rules
    <2>2. /\ c >= ModerateThreshold => r.priority <= 2
          /\ c >= GuardedThreshold => r.priority <= 3
        BY <1>1, <1>4, <2>1 DEF Rule
    <2>3. r \in {Rule("HIGH", 2, ModerateThreshold, "ALLOW"),
                 Rule("HIGH", 3, GuardedThreshold, "STEP_UP"), Rule("HIGH", 4, 0, "BLOCK")}
        BY <1>1, <1>4 DEF Rules, Rule
    <2> QED BY <1>1, <1>4, <2>2, <2>3 DEF Rule, Permitted
<1>5. CASE risk = "CRITICAL"
    <2>1. /\ Rule("CRITICAL", 2, HighThreshold, "ALLOW") \in Rules
          /\ Rule("CRITICAL", 3, ModerateThreshold, "STEP_UP") \in Rules
        BY DEF Rules
    <2>2. /\ c >= HighThreshold => r.priority <= 2
          /\ c >= ModerateThreshold => r.priority <= 3
        BY <1>1, <1>5, <2>1 DEF Rule
    <2>3. r \in {Rule("CRITICAL", 2, HighThreshold, "ALLOW"),
                 Rule("CRITICAL", 3, ModerateThreshold, "STEP_UP"),
                 Rule("CRITICAL", 4, 0, "BLOCK")}
        BY <1>1, <1>5 DEF Rules, Rule
    <2> QED BY <1>1, <1>5, <2>2, <2>3 DEF Rule, Permitted
<1> QED BY <1>2, <1>3, <1>4, <1>5 DEF ActionRiskLevel

\* The policy answers with one of the four decisions.
LEMMA DecideType ==
    ASSUME NEW c \in 0 .. 100, NEW risk \in ActionRiskLevel, NEW codes, NEW open \in BOOLEAN
    PROVE  Decide(c, risk, codes, open) \in Decisions
<1>1. FirstMatch(c, risk) \in Rules
    BY FirstMatchExists DEF Matching
<1>2. FirstMatch(c, risk).decision \in Decisions
    BY <1>1 DEF Rules, Rule, Decisions
<1> QED BY <1>2 DEF Decide, Decisions

\* An action of LOW risk is never blocked on its own: with no open incident it is
\* allowed at every confidence and whatever the evidence.
THEOREM LowRiskAllowed ==
    ASSUME NEW c \in 0 .. 100, NEW codes
    PROVE  Decide(c, "LOW", codes, FALSE) = "ALLOW"
<1>1. FirstMatch(c, "LOW") \in Matching(c, "LOW")
    BY FirstMatchExists DEF ActionRiskLevel
<1>2. FirstMatch(c, "LOW").decision = "ALLOW"
    BY <1>1 DEF Matching, Rules, Rule
<1>3. ~Isolates(c, "LOW", codes)
    BY DEF Isolates, Rules, Rule
<1> QED BY <1>2, <1>3 DEF Decide

\* The hysteresis rule answers with what the policy says or with the previous
\* decision, keeps an ISOLATE, and within its cooldown never loosens a strict
\* decision.
LEMMA HysteresisHolds ==
    ASSUME NEW previous \in Decisions \cup {"NONE"}, NEW age \in Nat, NEW d \in Decisions
    PROVE  LET f == ApplyHysteresis(previous, age, d) IN
             /\ f \in Decisions
             /\ d = "ISOLATE" => f = "ISOLATE"
             /\ previous \in Strict /\ age < HoldCooldown => f \in Strict
BY SettingsAssumption DEF ApplyHysteresis, Decisions, Strict, Loose
\* The order of the decisions, from mild to strict.
Severity(d) == IF d = "ALLOW" THEN 0 ELSE IF d = "STEP_UP" THEN 1 ELSE IF d = "BLOCK" THEN 2 ELSE 3

\* A hold only tightens: hysteresis never answers milder than the policy, holds
\* nothing but the decision before, and lets go once both cooldowns have passed.
THEOREM HysteresisOnlyTightens ==
    ASSUME NEW previous \in Decisions \cup {"NONE"}, NEW age \in Nat, NEW d \in Decisions
    PROVE  LET f == ApplyHysteresis(previous, age, d) IN
             /\ Severity(f) >= Severity(d)
             /\ f \in {d, previous}
             /\ age >= HoldCooldown /\ age >= EscalationCooldown => f = d
<1> DEFINE f == ApplyHysteresis(previous, age, d)
<1>1. CASE previous \in Strict /\ d \in Loose /\ age < HoldCooldown
    <2>1. f = previous
        BY <1>1 DEF ApplyHysteresis
    <2>2. Severity(previous) >= 2 /\ Severity(d) <= 1
        BY <1>1 DEF Severity, Strict, Loose
    <2>3. Severity(previous) \in Int /\ Severity(d) \in Int
        BY DEF Severity
    <2> QED BY <1>1, <2>1, <2>2, <2>3, SettingsAssumption
<1>2. CASE /\ ~(previous \in Strict /\ d \in Loose /\ age < HoldCooldown)
           /\ previous = "STEP_UP" /\ d = "ALLOW" /\ age < EscalationCooldown
    <2>1. f = "STEP_UP"
        BY <1>2 DEF ApplyHysteresis
    <2> QED BY <1>2, <2>1, SettingsAssumption DEF Severity
<1>3. CASE /\ ~(previous \in Strict /\ d \in Loose /\ age < HoldCooldown)
           /\ ~(previous = "STEP_UP" /\ d = "ALLOW" /\ age < EscalationCooldown)
    <2>1. f = d
        BY <1>3 DEF ApplyHysteresis
    <2> QED BY <2>1 DEF Severity
<1> QED BY <1>1, <1>2, <1>3

\* Each hold stores the held decision with a fresh time stamp: a client that asks
\* again no later after it than it asked before is held again, and so for as long
\* as it polls.
THEOREM HoldRenewsItself ==
    ASSUME NEW previous \in Decisions, NEW age \in Nat, NEW d \in Decisions,
           ApplyHysteresis(previous, age, d) # d, NEW later \in Nat, later <= age
    PROVE  LET held == ApplyHysteresis(previous, age, d) IN
             held = previous /\ ApplyHysteresis(held, later, d) = held
<1>1. CASE previous \in Strict /\ d \in Loose /\ age < HoldCooldown
    <2>1. ApplyHysteresis(previous, age, d) = previous
        BY <1>1 DEF ApplyHysteresis
    <2>2. later < HoldCooldown
        BY <1>1, SettingsAssumption
    <2> QED BY <1>1, <2>1, <2>2 DEF ApplyHysteresis
<1>2. CASE /\ ~(previous \in Strict /\ d \in Loose /\ age < HoldCooldown)
           /\ previous = "STEP_UP" /\ d = "ALLOW" /\ age < EscalationCooldown
    <2>1. ApplyHysteresis(previous, age, d) = "STEP_UP"
        BY <1>2 DEF ApplyHysteresis
    <2>2. later < EscalationCooldown
        BY <1>2, SettingsAssumption
    <2> QED BY <1>2, <2>1, <2>2 DEF ApplyHysteresis, Strict
<1> QED BY <1>1, <1>2 DEF ApplyHysteresis
==============================================================================
