-------------------------- MODULE BaselineLearning ---------------------------
(***************************************************************************)
(* Learning of behavioural baselines from accepted telemetry. Each tenant  *)
(* has one profile here (one subject on one named device). By default the  *)
(* batch handler updates the profile in its own transaction; with          *)
(* TELEMETRY_ASYNC_PROCESSING it appends a job to the tenant's queue in    *)
(* Redis and the background worker updates the profile in another one.     *)
(*                                                                         *)
(* A baseline is abstracted to its observation_count, 0 standing for a     *)
(* baseline that is null. Transactions are those of PostgreSQL at READ     *)
(* COMMITTED: an UPDATE locks its row until the end of the transaction and *)
(* changes only the columns that were assigned. Redis is the in-memory     *)
(* fallback, as in TelemetryIngest: a call to it never suspends.           *)
(***************************************************************************)
EXTENDS Integers, Sequences, FiniteSets

CONSTANTS
    Handlers,           \* the telemetry batches that can be in progress at once
    Worker,             \* the background worker of the process
    Events,
    Sessions,
    Tenants,
    Batches,            \* [header, packets]: the session header and the events sent
    SessionOf,          \* the session an event names
    TenantOf,           \* the tenant of a session
    Anonymous,          \* sessions that were registered without a subject
    Featureless,        \* events without a numeric feature (a bare session_stop)
    Degraded,           \* events whose advisory checksum does not match
    WorkerTenant,       \* the tenant whose queue the worker drains ("system")
    QueueMax,           \* TELEMETRY_QUEUE_MAX_SIZE (10,000)
    SessionConfidence,  \* what both callers pass: COLD_START_CONFIDENCE (30)
    PromoteMin,         \* BASELINE_PROMOTE_MIN_CONFIDENCE (80)
    MinObservations,    \* MIN_TRUSTED_OBSERVATIONS (5)
    MaxBatches          \* bounds how many batches are ever sent

ASSUME LearningAssumption ==
    /\ Worker \notin Handlers
    /\ Sessions # {}
    /\ SessionOf \in [Events -> Sessions]
    /\ TenantOf \in [Sessions -> Tenants]
    /\ Batches \subseteq [header : Sessions, packets : Seq(Events)]
    /\ Anonymous \subseteq Sessions
    /\ WorkerTenant \in Tenants
    /\ QueueMax \in Nat
    /\ SessionConfidence \in Nat /\ PromoteMin \in Nat
    /\ MinObservations \in Nat \ {0}
    /\ MaxBatches \in Nat

VARIABLES
    async,      \* the setting TELEMETRY_ASYNC_PROCESSING, chosen at the start
    profile,    \* the committed profile row of each tenant
    stored,     \* the events with a committed row, accepted
    marker,     \* the event ids with a replay marker in Redis
    jobs,       \* the telemetry queue of each tenant in Redis
    tx,         \* the transaction of each handler and of the worker
    learnt,     \* history: how often each event went into a committed candidate
    absorbed,   \* history: the observations each profile was given in committed updates
    promotions, \* history: the promotions of each profile in committed updates
    undone,     \* history: events accepted by a batch that was rolled back
    sent        \* the batches sent so far

vars == <<async, profile, stored, marker, jobs, tx, learnt, absorbed, promotions, undone, sent>>
database == <<profile, stored>>
history == <<learnt, absorbed, promotions, undone>>

Procs == Handlers \cup {Worker}

\* The row before its insert, and as inserted. confidence and the timestamps
\* are left out, observation_count is that of the candidate.
NoProfile == [exists |-> FALSE, candidate |-> 0, trusted |-> 0, previous |-> 0, version |-> 1]
NewProfile == [NoProfile EXCEPT !.exists = TRUE]

\* todo: the packets left. rows: the events inserted. seen: the profile as
\* loaded. mine: the row as written, wrote: it was. learned: the events that
\* went into mine, promoted: its promotions. unusable: a flush has failed.
Idle(s) == [step |-> "idle", header |-> s, todo |-> <<>>, rows |-> {}, seen |-> NoProfile,
            mine |-> NoProfile, wrote |-> FALSE, learned |-> {}, promoted |-> 0,
            unusable |-> FALSE]

Done == Idle(CHOOSE s \in Sessions : TRUE)

Init ==
    /\ async \in BOOLEAN
    /\ profile = [t \in Tenants |-> NoProfile]
    /\ stored = {}
    /\ marker = {}
    /\ jobs = [t \in Tenants |-> <<>>]
    /\ tx = [p \in Procs |-> Done]
    /\ learnt = [e \in Events |-> 0]
    /\ absorbed = [t \in Tenants |-> 0]
    /\ promotions = [t \in Tenants |-> 0]
    /\ undone = {}
    /\ sent = 0

Packet(p) == Head(tx[p].todo)
Tenant(p) == TenantOf[tx[p].header]

NextPacket(q) == [q EXCEPT !.step = "packet", !.todo = Tail(@), !.seen = NoProfile]

\* Locks: the session row of an accepted event (last_seen_at), the profile row.
HoldsSession(p, s) == \E e \in tx[p].rows : SessionOf[e] = s
HoldsProfile(p, t) == tx[p].wrote /\ Tenant(p) = t

-----------------------------------------------------------------------------
(* A telemetry batch *)

Send(h) ==
    /\ tx[h].step = "idle"
    /\ \E b \in Batches :
         tx' = [tx EXCEPT ![h] = [Idle(b.header) EXCEPT !.step = "packet", !.todo = b.packets]]
    /\ sent < MaxBatches /\ sent' = sent + 1
    /\ UNCHANGED <<async, database, marker, jobs, history>>

\* Mutant: the session header is not compared with the packet's session.
AddressedToAnySession(h) == SessionOf[Packet(h)] \in Sessions

\* The SDK sends its session id as a header; packets of another one are refused.
Addressed(h) == SessionOf[Packet(h)] = tx[h].header

\* Mutant: last_seen_at is updated without a row lock.
AcceptWithoutLock(h) ==
    /\ tx[h].step = "packet" /\ tx[h].todo # <<>> /\ Addressed(h) /\ ~tx[h].unusable
    /\ LET e == Packet(h) IN
         /\ e \notin marker \cup stored
         /\ marker' = marker \cup {e}
         /\ tx' = [tx EXCEPT ![h].step = "learn", ![h].rows = @ \cup {e}]
    /\ UNCHANGED <<async, database, jobs, history, sent>>

\* A packet passes its checks (modelled in TelemetryIngest), its event is
\* inserted and last_seen_at updated, which waits for another batch on the session.
Accept(h) ==
    /\ tx[h].step = "packet" /\ tx[h].todo # <<>> /\ Addressed(h) /\ ~tx[h].unusable
    /\ LET e == Packet(h) IN
         /\ e \notin marker \cup stored
         /\ \A g \in Handlers \ {h} : ~HoldsSession(g, SessionOf[e]) /\ e \notin tx[g].rows
         /\ marker' = marker \cup {e}
         /\ tx' = [tx EXCEPT ![h].step = "learn", ![h].rows = @ \cup {e}]
    /\ UNCHANGED <<async, database, jobs, history, sent>>

\* A packet is refused, by one of the checks or as its event id is a duplicate.
Refuse(h) ==
    /\ tx[h].step = "packet" /\ tx[h].todo # <<>>
    /\ tx' = [tx EXCEPT ![h] = NextPacket(@)]
    /\ UNCHANGED <<async, database, marker, jobs, history, sent>>

\* The queue of a tenant, first in first out.
QueuePush(t, e) == [jobs EXCEPT ![t] = Append(@, e)]
QueuePop(t) == [jobs EXCEPT ![t] = Tail(@)]
QueueDepth(t) == Len(jobs[t])

\* Mutant: the limit of the queue is compared off by one.
EnqueueOffByOne(h) ==
    /\ async /\ h \in Handlers /\ tx[h].step = "learn"
    /\ LET t == Tenant(h) IN
         jobs' = IF QueueDepth(t) <= QueueMax THEN QueuePush(t, Packet(h)) ELSE jobs
    /\ tx' = [tx EXCEPT ![h] = NextPacket(@)]
    /\ UNCHANGED <<async, database, marker, history, sent>>

\* Mutant: when the queue is full the handler updates the baseline itself.
EnqueueOrUpdate(h) ==
    /\ async /\ h \in Handlers /\ tx[h].step = "learn"
    /\ LET t == Tenant(h) IN
         IF QueueDepth(t) < QueueMax
         THEN jobs' = QueuePush(t, Packet(h)) /\ tx' = [tx EXCEPT ![h] = NextPacket(@)]
         ELSE jobs' = jobs /\ tx' = [tx EXCEPT ![h].step = "insert"]
    /\ UNCHANGED <<async, database, marker, history, sent>>

\* _enqueue_or_process, asynchronous: a full queue skips the learning. The job
\* keeps the payload and the tenant, not the result of the integrity check.
Enqueue(h) ==
    /\ async /\ h \in Handlers /\ tx[h].step = "learn"
    /\ LET t == Tenant(h) IN
         jobs' = IF QueueDepth(t) < QueueMax THEN QueuePush(t, Packet(h)) ELSE jobs
    /\ tx' = [tx EXCEPT ![h] = NextPacket(@)]
    /\ UNCHANGED <<async, database, marker, history, sent>>

-----------------------------------------------------------------------------
(* update_baseline_from_event, by a handler or by the worker *)

Learns(p) == tx[p].step = "learn" /\ (p = Worker \/ ~async)

\* A session without a subject has no profile. Otherwise the profile is loaded:
\* the transaction's own row, if it wrote one.
ReadProfile(p) ==
    /\ Learns(p)
    /\ LET seen == IF tx[p].wrote THEN tx[p].mine ELSE profile[Tenant(p)] IN
         tx' = IF tx[p].header \in Anonymous THEN [tx EXCEPT ![p] = NextPacket(@)]
               ELSE [tx EXCEPT ![p].seen = seen,
                               ![p].step = IF seen.exists THEN "update" ELSE "insert"]
    /\ UNCHANGED <<async, database, marker, jobs, history, sent>>

\* get_or_create found no row and inserts one. An insert waits for a transaction
\* that has inserted the same row; if that one is committed, the unique index is
\* violated. The caller swallows the exception, but the transaction is lost.
InsertProfile(p) ==
    /\ tx[p].step = "insert"
    /\ \/ /\ profile[Tenant(p)].exists
          /\ tx' = [tx EXCEPT ![p] = [NextPacket(@) EXCEPT !.unusable = TRUE]]
       \/ /\ ~profile[Tenant(p)].exists
          /\ \A q \in Procs \ {p} : ~HoldsProfile(q, Tenant(p))
          /\ tx' = [tx EXCEPT ![p].seen = NewProfile, ![p].mine = NewProfile,
                              ![p].wrote = TRUE, ![p].step = "update"]
    /\ UNCHANGED <<async, database, marker, jobs, history, sent>>

\* The observation_count of update_rolling_baseline; an absent baseline becomes
\* one of a single observation.
Rolled(count) == count + 1

\* Mutant: the minimum number of observations is not asked for.
PromotableAnyCount(e, count) ==
    (async \/ e \notin Degraded) /\ SessionConfidence >= PromoteMin

\* can_promote_to_trusted, as both callers use it: no incident, no suspicious
\* action; the policy allows learning unless the handler saw a bad checksum.
Promotable(e, count) ==
    /\ async \/ e \notin Degraded
    /\ SessionConfidence >= PromoteMin
    /\ count >= MinObservations

\* The profile of update_baselines: the loaded row with a new candidate, written
\* over what is committed by now; a promotion also writes the other columns.
WithCandidate(row, seen) == [row EXCEPT !.candidate = Rolled(seen.candidate)]

WithTrusted(row, seen) ==
    [row EXCEPT !.trusted = IF seen.trusted = 0 THEN Rolled(seen.candidate)
                            ELSE Rolled(seen.trusted),
                !.previous = IF seen.trusted = 0 THEN @ ELSE seen.trusted,
                !.version = seen.version + 1]

\* Without a feature the profile is left alone. The UPDATE waits for the lock.
UpdateProfile(p) ==
    /\ tx[p].step = "update"
    /\ LET e == Packet(p)  seen == tx[p].seen  next == NextPacket(tx[p])
           row == IF tx[p].wrote THEN tx[p].mine ELSE profile[Tenant(p)]
           promote == Promotable(e, Rolled(seen.candidate)) IN
         \/ /\ e \in Featureless
            /\ tx' = [tx EXCEPT ![p] = next]
         \/ /\ e \notin Featureless
            /\ \A q \in Procs \ {p} : ~HoldsProfile(q, Tenant(p))
            /\ tx' = [tx EXCEPT ![p] = [next EXCEPT
                   !.mine = IF promote THEN WithTrusted(WithCandidate(row, seen), seen)
                            ELSE WithCandidate(row, seen),
                   !.wrote = TRUE,
                   !.learned = @ \cup {e},
                   !.promoted = IF promote THEN @ + 1 ELSE @]]
    /\ UNCHANGED <<async, database, marker, jobs, history, sent>>

-----------------------------------------------------------------------------
(* The end of a transaction *)

\* What a committed transaction learned, for the history.
Recorded(p) ==
    LET t == Tenant(p)  new == tx[p].learned IN
    /\ learnt' = [e \in Events |-> IF e \in new THEN learnt[e] + 1 ELSE learnt[e]]
    /\ absorbed' = [absorbed EXCEPT ![t] = @ + Cardinality(new)]
    /\ promotions' = [promotions EXCEPT ![t] = @ + tx[p].promoted]

Commit(p) ==
    /\ tx[p].step = "packet" /\ tx[p].todo = <<>> /\ ~tx[p].unusable
    /\ profile' = IF tx[p].wrote THEN [profile EXCEPT ![Tenant(p)] = tx[p].mine] ELSE profile
    /\ stored' = stored \cup tx[p].rows
    /\ tx' = [tx EXCEPT ![p] = Done]
    /\ Recorded(p)
    /\ UNCHANGED <<async, marker, jobs, undone, sent>>

\* Mutant: the update commits the transaction it was handed.
LearnInOwnTransaction(p) ==
    /\ tx[p].step # "idle"
    /\ profile' = IF tx[p].wrote THEN [profile EXCEPT ![Tenant(p)] = tx[p].mine] ELSE profile
    /\ tx' = [tx EXCEPT ![p] = Done]
    /\ undone' = undone \cup tx[p].rows
    /\ Recorded(p)
    /\ UNCHANGED <<async, stored, marker, jobs, sent>>

\* Mutant: an exception ends the worker's loop.
FailForGood(p) ==
    /\ tx[p].step \notin {"idle", "dead"}
    /\ tx' = [tx EXCEPT ![p] = IF p = Worker THEN [Done EXCEPT !.step = "dead"] ELSE Done]
    /\ undone' = undone \cup tx[p].rows
    /\ UNCHANGED <<async, database, marker, jobs, learnt, absorbed, promotions, sent>>

\* Mutant: the worker takes up a failed job again.
FailRetries(p) ==
    /\ tx[p].step # "idle"
    /\ tx' = [tx EXCEPT ![p] = IF p = Worker /\ tx[p].todo # <<>>
                               THEN [Idle(tx[p].header) EXCEPT !.step = "learn", !.todo = tx[p].todo]
                               ELSE Done]
    /\ undone' = undone \cup tx[p].rows
    /\ UNCHANGED <<async, database, marker, jobs, learnt, absorbed, promotions, sent>>

\* An exception, 429, or a transaction that is unusable: everything is rolled
\* back. A batch's answer is an error; a job of the worker is gone.
Fail(p) ==
    /\ tx[p].step # "idle"
    /\ tx' = [tx EXCEPT ![p] = Done]
    /\ undone' = undone \cup tx[p].rows
    /\ UNCHANGED <<async, database, marker, jobs, learnt, absorbed, promotions, sent>>

-----------------------------------------------------------------------------
(* The worker, time, and the process *)

\* Mutant: the job is read and left in the queue until it is processed.
PeekJob ==
    /\ async /\ tx[Worker].step = "idle" /\ jobs[WorkerTenant] # <<>>
    /\ LET e == Head(jobs[WorkerTenant]) IN
         tx' = [tx EXCEPT ![Worker] =
                   [Idle(SessionOf[e]) EXCEPT !.step = "learn", !.todo = <<e>>]]
    /\ UNCHANGED <<async, database, marker, jobs, history, sent>>

\* queue_pop of the worker's own tenant, then _process.
PopJob ==
    /\ async /\ tx[Worker].step = "idle" /\ jobs[WorkerTenant] # <<>>
    /\ LET e == Head(jobs[WorkerTenant]) IN
         tx' = [tx EXCEPT ![Worker] =
                   [Idle(SessionOf[e]) EXCEPT !.step = "learn", !.todo = <<e>>]]
    /\ jobs' = QueuePop(WorkerTenant)
    /\ UNCHANGED <<async, database, marker, history, sent>>

\* A queue expires as a whole, 10 minutes after the last push.
ExpireQueue(t) ==
    /\ jobs[t] # <<>>
    /\ jobs' = [jobs EXCEPT ![t] = <<>>]
    /\ UNCHANGED <<async, database, marker, tx, history, sent>>

\* The process restarts: its transactions and the in-memory state are gone.
Restart ==
    /\ tx' = [p \in Procs |-> Done]
    /\ undone' = undone \cup UNION {tx[p].rows : p \in Procs}
    /\ marker' = {}
    /\ jobs' = [t \in Tenants |-> <<>>]
    /\ UNCHANGED <<async, database, learnt, absorbed, promotions, sent>>

Learn(p) == ReadProfile(p) \/ InsertProfile(p) \/ UpdateProfile(p) \/ Commit(p)

Handle(h) == Send(h) \/ Accept(h) \/ Refuse(h) \/ Enqueue(h)

Next ==
    \/ \E h \in Handlers : Handle(h)
    \/ \E p \in Procs : Learn(p) \/ Fail(p)
    \/ PopJob
    \/ \E t \in Tenants : ExpireQueue(t)
    \/ Restart

Spec == Init /\ [][Next]_vars

\* The worker is a task of the event loop and each of its awaits ends.
WorkerFairness == WF_vars(PopJob \/ Learn(Worker))

FairSpec == Spec /\ WorkerFairness
-----------------------------------------------------------------------------
(* Properties *)

Baselines == [exists : BOOLEAN, candidate : Nat, trusted : Nat, previous : Nat, version : Nat]

TypeOK ==
    /\ async \in BOOLEAN
    /\ profile \in [Tenants -> Baselines]
    /\ stored \subseteq Events
    /\ marker \subseteq Events
    /\ jobs \in [Tenants -> Seq(Events)]
    /\ \A t \in Tenants : Len(jobs[t]) <= QueueMax
    /\ tx \in [Procs ->
          [step : {"idle", "packet", "learn", "insert", "update"}, header : Sessions,
           todo : Seq(Events), rows : SUBSET Events, seen : Baselines, mine : Baselines,
           wrote : BOOLEAN, learned : SUBSET Events, promoted : Nat, unusable : BOOLEAN]]
    /\ learnt \in [Events -> Nat]
    /\ absorbed \in [Tenants -> Nat]
    /\ promotions \in [Tenants -> Nat]
    /\ undone \subseteq Events
    /\ sent \in 0 .. MaxBatches

(***************************************************************************)
(* No observation and no promotion is lost by overlapping updates of a     *)
(* profile, as long as only one session learns into it: the batches of one *)
(* session queue up at its row, which each of them locks before it reads   *)
(* the profile, and the worker is alone. (Two sessions of a subject and a  *)
(* device share a profile, and no lock: see NeverUnusable.)                *)
(***************************************************************************)
Learners(t) == {s \in Sessions \ Anonymous : TenantOf[s] = t}

OneWriter(t) == async \/ \A r, s \in Learners(t) : r = s

OneWriterLosesNothing ==
    \A t \in Tenants : OneWriter(t) =>
        profile[t].candidate = absorbed[t] /\ profile[t].version = 1 + promotions[t]

(***************************************************************************)
(* "Valid telemetry is persisted; baselines update": what went into a      *)
(* candidate is stored. Only the asynchronous path, which queues the job   *)
(* before the batch commits, can learn from an event of a batch that is    *)
(* still open or was rolled back.                                          *)
(***************************************************************************)
LearnedIsStored ==
    \A e \in Events : learnt[e] > 0 =>
        \/ e \in stored
        \/ async /\ (e \in undone \/ \E h \in Handlers : e \in tx[h].rows)

(***************************************************************************)
(* An event goes into a candidate at most once, through retries, failed    *)
(* batches, restarts and the queue, unless it was queued, its batch was    *)
(* rolled back and the client sent it again.                               *)
(***************************************************************************)
LearnedOnce ==
    \A e \in Events : learnt[e] <= 1 \/ (async /\ e \in undone)

(***************************************************************************)
(* "The TRUSTED baseline is only promoted after a guarded gate": whatever  *)
(* overlaps, a profile with a trusted baseline was given the minimum of    *)
(* observations, all of them committed, and the confidence the callers     *)
(* pass reached the gate's threshold. As shipped it does not (30 < 80).    *)
(***************************************************************************)
TrustedIsBacked ==
    \A t \in Tenants : profile[t].trusted > 0 =>
        absorbed[t] >= MinObservations /\ SessionConfidence >= PromoteMin

(***************************************************************************)
(* Transactions never wait in a cycle, of any length, as no chain of waits *)
(* is longer than two: a batch locks the row of one session, then the      *)
(* profile, and nothing else, and the worker locks the profile only.       *)
(***************************************************************************)
WaitsForSession(p, q) ==
    /\ p \in Handlers /\ q \in Handlers
    /\ tx[p].step = "packet" /\ tx[p].todo # <<>> /\ Addressed(p)
    /\ ~HoldsSession(p, SessionOf[Packet(p)]) /\ HoldsSession(q, SessionOf[Packet(p)])

WaitsForProfile(p, q) ==
    tx[p].step \in {"insert", "update"} /\ ~tx[p].wrote /\ HoldsProfile(q, Tenant(p))

Waits(p, q) == p # q /\ (WaitsForSession(p, q) \/ WaitsForProfile(p, q))

NoLockCycle ==
    \A p, q \in Procs : Waits(p, q) =>
        \A r \in Procs : Waits(q, r) => \A x \in Procs : ~Waits(r, x)

(***************************************************************************)
(* "Consumes validated telemetry jobs": jobs do not wait for ever in the   *)
(* queue of the worker's tenant while the worker is idle, and from every   *)
(* job, failed or not, it comes back to the queue.                         *)
(***************************************************************************)
Working == tx[Worker].step # "idle"

WorkerDrainsQueue ==
    /\ []<>(Working \/ jobs[WorkerTenant] = <<>>)
    /\ []<>~Working

(***************************************************************************)
(* The safety half of it: the worker waits for no lock, as in its mode no  *)
(* handler writes a profile.                                               *)
(***************************************************************************)
WorkerNeverWaits == \A q \in Procs : ~Waits(Worker, q)

StepsLeft(q) == CASE q.step = "idle" -> 0 [] q.step = "packet" -> 1 [] q.step = "update" -> 2
                  [] q.step = "insert" -> 3 [] q.step = "learn" -> 4

(***************************************************************************)
(* And a job takes it a bounded number of steps: whatever the batches, the *)
(* queue and the process do, the worker is left alone, takes the oldest    *)
(* job, or comes nearer to the end of the one it has.                      *)
(***************************************************************************)
WorkerProgress ==
    [][\/ tx'[Worker] = tx[Worker]
       \/ ~Working /\ jobs[WorkerTenant] = tx'[Worker].todo \o jobs'[WorkerTenant]
       \/ StepsLeft(tx'[Worker]) < StepsLeft(tx[Worker])]_vars

(***************************************************************************)
(* "Baseline update failure must not fail telemetry ingestion": the update *)
(* leaves the transaction of its batch usable.                             *)
(***************************************************************************)
NeverUnusable == \A h \in Handlers : ~tx[h].unusable

(***************************************************************************)
(* It takes two sessions that share a profile and update it at once: the   *)
(* batches of one session queue up at its row before they look for the     *)
(* profile, and the worker is alone.                                       *)
(***************************************************************************)
UnusableNeedsTwoWriters == \A p \in Procs : tx[p].unusable => ~OneWriter(Tenant(p))
=============================================================================
