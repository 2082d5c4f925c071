----------------------------- MODULE SdkTelemetry -----------------------------
(***************************************************************************)
(* The telemetry pipeline of the browser SDK: the lifecycle of an instance,*)
(* the packets harvested from the collectors, the bounded queue, the batch *)
(* loop with its retries, the dispatch when the page is hidden, and the    *)
(* checks of the ingestion that decide what becomes of a packet.           *)
(*                                                                         *)
(* JavaScript runs one callback at a time: an action is what runs between  *)
(* two awaits. A packet's features are left out, its event id is a number  *)
(* (EventIdGenerator never repeats one, so the queue's duplicate check is  *)
(* left out). The session is taken to stay active and packets to be fresh. *)
(* The server handles a batch packet by packet, so that two requests of    *)
(* the instance interleave there, as in TelemetryIngest, among them those  *)
(* the client has given up waiting for. (The lock on the session's row,    *)
(* for which a packet that is to be stored waits while another request has *)
(* it, is left out: every order it admits is among these.)                 *)
(***************************************************************************)
EXTENDS Integers, Sequences

CONSTANTS
    Flush,          \* the sendBatch call of the batch loop (flushQueue)
    Strays,         \* bound: the fire-and-forget calls that can be in progress
    Sessions,
    Header,         \* the session of the configuration: the client's header
    QueueSizes,     \* the values of maxQueueSize (500)
    BatchSize,      \* batchSize (10, up to 100)
    MaxRetries,     \* maxRetries (3)
    ServerMax,      \* MAX_BATCH_PACKETS of the server (50)
    Orphans,        \* bound: the requests the server still works on for no one
    MaxPackets,     \* bounds the packets ever built
    MaxDisturbances \* bounds the fire-and-forget calls and session changes, and when
                    \* requests are abandoned: while one of these is yet to come

ASSUME SdkAssumption ==
    /\ Flush \notin Strays
    /\ Header \in Sessions
    /\ QueueSizes \subseteq Nat \ {0} /\ BatchSize \in Nat \ {0}
    /\ MaxRetries \in Nat /\ ServerMax \in Nat
    /\ MaxPackets \in Nat /\ MaxDisturbances \in Nat

VARIABLES
    status,     \* TrustPulse.status
    collecting, \* the collectors: off, on (active), or paused (active and paused)
    activity,   \* a collector holds samples
    intervals,  \* the interval timers that are running
    timer,      \* timerId is set
    listening,  \* the handlers of visibilitychange and pagehide are registered
    sid, seq,   \* SessionManager.sessionId, NonceManager.currentSequence
    switched,   \* history: the application has changed the session
    made,       \* the packets built so far
    maxSize,    \* TelemetryQueue.maxSize, chosen at the start
    queue,      \* TelemetryQueue.queue
    calls,      \* the sendBatch calls; isFlushing is calls[Flush].step # "idle"
    seen,       \* server: the event ids with a replay marker
    last,       \* server: the last sequence number of the instance in Header
    accepted,   \* server: the packets stored as accepted
    refused,    \* history: packets refused for their session or their number
    rolledBack, \* history: packets whose acceptance was rolled back
    orphans,    \* server: the requests whose connection the client has lost
    fate,       \* history: of each packet; gone is dropped, refused, beaconed or given up
    disturbed   \* history: the fire-and-forget calls and session changes so far

lifecycle == <<status, collecting, intervals, timer, listening>>
harvest == <<activity, seq, made>>
session == <<sid, switched>>
server == <<seen, last, accepted, refused, rolledBack, orphans>>
vars == <<lifecycle, harvest, session, maxSize, queue, calls, server, fate, disturbed>>

Calls == {Flush} \cup Strays
Packets == 1 .. MaxPackets
IdsOf(batch) == {batch[i].id : i \in DOMAIN batch}

\* at, pending: what the server has gone through and is about to store.
NoCall == [step |-> "idle", batch |-> <<>>, attempt |-> 0, at |-> 0, pending |-> {}]
NoRequest == [batch |-> <<>>, at |-> 0, pending |-> {}]
Sending(batch) == [NoCall EXCEPT !.step = "sent", !.batch = batch]

Init ==
    /\ status = "ready" /\ collecting = "off" /\ activity = FALSE
    /\ intervals = 0 /\ timer = FALSE /\ listening = FALSE
    /\ sid = Header /\ switched = FALSE /\ seq = 0 /\ made = 0
    /\ maxSize \in QueueSizes /\ queue = <<>>
    /\ calls = [c \in Calls |-> NoCall]
    /\ seen = {} /\ last = 0 /\ accepted = {} /\ refused = {} /\ rolledBack = {}
    /\ orphans = [o \in Orphans |-> NoRequest]
    /\ fate = [p \in Packets |-> "none"]
    /\ disturbed = 0

-----------------------------------------------------------------------------
(* Collecting *)

\* A user event, in a collector that is active and not paused.
Activity ==
    /\ collecting = "on" /\ activity' = TRUE
    /\ made < MaxPackets
    /\ UNCHANGED <<maxSize, lifecycle, seq, made, session, queue, calls, server, fate, disturbed>>

\* buildTelemetryPacket resets the samples. Without activity it builds a packet
\* for a lifecycle event only.
Builds(stop) == activity \/ stop

Build(stop) ==
    /\ Builds(stop) => made < MaxPackets
    /\ activity' = FALSE
    /\ seq' = IF Builds(stop) THEN seq + 1 ELSE seq
    /\ made' = IF Builds(stop) THEN made + 1 ELSE made

Built == [id |-> made + 1, sid |-> sid, seq |-> seq + 1]

\* TelemetryQueue.enqueue: the oldest packet leaves a full queue.
Evicts(stop) == Builds(stop) /\ Len(queue) >= maxSize

\* Mutant: a full queue grows.
EnqueuedUnbounded(stop) == IF ~Builds(stop) THEN queue ELSE Append(queue, Built)

Enqueued(stop) ==
    IF ~Builds(stop) THEN queue
    ELSE IF Evicts(stop) THEN Append(Tail(queue), Built) ELSE Append(queue, Built)

\* The packets that leave the SDK in a step, and what becomes of them.
Harvested(stop, gone, how) ==
    fate' = [p \in Packets |->
        IF p \in gone THEN how
        ELSE IF Evicts(stop) /\ p = Head(queue).id THEN "gone"
        ELSE IF Builds(stop) /\ p = made + 1 THEN "live" ELSE fate[p]]

Least(m, n) == IF m <= n THEN m ELSE n

\* dequeueBatch, and what it leaves.
Dequeued(q, n) == SubSeq(q, 1, Least(n, Len(q)))

\* Mutant: slice instead of splice.
LeftAll(q, n) == q

Left(q, n) == SubSeq(q, Least(n, Len(q)) + 1, Len(q))

\* harvestAndDispatch up to its first await: a packet is built and queued, and
\* the batch loop starts, unless it is running or there is nothing to send.
HarvestAndDispatch ==
    /\ Build(FALSE)
    /\ Harvested(FALSE, {}, "live")
    /\ IF calls[Flush].step # "idle" \/ Enqueued(FALSE) = <<>>
       THEN queue' = Enqueued(FALSE) /\ UNCHANGED calls
       ELSE /\ queue' = Left(Enqueued(FALSE), BatchSize)
            /\ calls' = [calls EXCEPT ![Flush] = Sending(Dequeued(Enqueued(FALSE), BatchSize))]
    /\ UNCHANGED <<maxSize, lifecycle, session, server, disturbed>>

\* The interval timer fires.
Tick == intervals > 0 /\ HarvestAndDispatch

\* The application calls flush().
FlushNow == status # "destroyed" /\ HarvestAndDispatch

\* The browser takes the batch as a beacon. It carries no public key, so that the
\* server refuses it.
SendBeacon(batch) ==
    /\ Harvested(TRUE, IdsOf(batch), "gone")
    /\ UNCHANGED <<calls, disturbed>>

\* flushViaBeaconOrFetch, when the page is hidden: a session_stop is built and a
\* double batch goes out as a beacon or, when the browser does not take it, in a
\* call of its own.
Hide ==
    /\ listening
    /\ Build(TRUE)
    /\ LET batch == Dequeued(Enqueued(TRUE), 2 * BatchSize) IN
         /\ queue' = Left(Enqueued(TRUE), 2 * BatchSize)
         /\ \/ SendBeacon(batch)
            \/ /\ Harvested(TRUE, {}, "live")
               /\ \E c \in Strays :
                    calls[c].step = "idle" /\ calls' = [calls EXCEPT ![c] = Sending(batch)]
               /\ disturbed < MaxDisturbances /\ disturbed' = disturbed + 1
    /\ UNCHANGED <<maxSize, lifecycle, session, server>>

-----------------------------------------------------------------------------
(* The server *)

New(p) == p.sid = Header /\ p.id \notin seen
InTurn(p) == New(p) /\ p.seq > last

\* A packet that names another session, a known event id or a number that is
\* not above the last one is rejected; the markers of the others are set.
Check(p) ==
    /\ seen' = IF New(p) THEN seen \cup {p.id} ELSE seen
    /\ last' = IF InTurn(p) THEN p.seq ELSE last
    /\ refused' = IF p.sid = Header /\ (p.id \in seen \/ p.seq > last) THEN refused
                  ELSE refused \cup {p.id}

\* The next packet of a request, and the request after it.
NextOf(r) == r.batch[r.at + 1]
Checked(r) ==
    [r EXCEPT !.at = r.at + 1,
              !.pending = IF InTurn(NextOf(r)) THEN r.pending \cup {NextOf(r).id} ELSE r.pending]

Ingest(c) ==
    /\ calls[c].step = "sent" /\ calls[c].at < Len(calls[c].batch)
    /\ Len(calls[c].batch) <= ServerMax
    /\ Check(NextOf(calls[c]))
    /\ calls' = [calls EXCEPT ![c] = Checked(calls[c])]
    /\ UNCHANGED <<maxSize, lifecycle, harvest, session, queue, accepted, rolledBack, orphans, fate, disturbed>>

\* Mutant: the route answers without a commit.
AnswerUncommitted(c) ==
    /\ calls[c].step = "sent" /\ calls[c].at = Len(calls[c].batch)
    /\ calls' = [calls EXCEPT ![c].step = "ok", ![c].pending = {}]
    /\ UNCHANGED <<maxSize, lifecycle, harvest, session, queue, server, fate, disturbed>>

\* The transaction commits and the answer is a 2xx, whatever was rejected.
Answer(c) ==
    /\ calls[c].step = "sent" /\ calls[c].at = Len(calls[c].batch)
    /\ accepted' = accepted \cup calls[c].pending
    /\ calls' = [calls EXCEPT ![c].step = "ok", ![c].pending = {}]
    /\ UNCHANGED <<maxSize, lifecycle, harvest, session, queue, seen, last, refused, rolledBack, orphans, fate, disturbed>>

\* A request whose connection is lost runs on, beside its own retry, and commits
\* or fails like any other: the route does not look at the connection.
RunOn(o) ==
    /\ orphans[o].at < Len(orphans[o].batch)
    /\ Len(orphans[o].batch) <= ServerMax
    /\ Check(NextOf(orphans[o]))
    /\ orphans' = [orphans EXCEPT ![o] = Checked(orphans[o])]
    /\ UNCHANGED <<maxSize, lifecycle, harvest, session, queue, calls, accepted, rolledBack, fate, disturbed>>

CommitOrphan(o) ==
    /\ orphans[o].batch # <<>> /\ orphans[o].at = Len(orphans[o].batch)
    /\ accepted' = accepted \cup orphans[o].pending
    /\ orphans' = [orphans EXCEPT ![o] = NoRequest]
    /\ UNCHANGED <<maxSize, lifecycle, harvest, session, queue, calls, seen, last, refused, rolledBack, fate, disturbed>>

RollBackOrphan(o) ==
    /\ orphans[o].batch # <<>>
    /\ rolledBack' = rolledBack \cup orphans[o].pending
    /\ orphans' = [orphans EXCEPT ![o] = NoRequest]
    /\ UNCHANGED <<maxSize, lifecycle, harvest, session, queue, calls, seen, last, accepted, refused, fate, disturbed>>

-----------------------------------------------------------------------------
(* sendBatch, after its awaits. A request that does not change the server is *)
(* answered when the answer is received.                                     *)

\* The call ends. The batch loop goes on with what is queued by now.
End(c, how) ==
    /\ fate' = [p \in Packets |-> IF p \in IdsOf(calls[c].batch) THEN how ELSE fate[p]]
    /\ IF c = Flush /\ queue # <<>>
       THEN /\ calls' = [calls EXCEPT ![c] = Sending(Dequeued(queue, BatchSize))]
            /\ queue' = Left(queue, BatchSize)
       ELSE calls' = [calls EXCEPT ![c] = NoCall] /\ UNCHANGED queue

\* requeue: the batch goes to the front, the newest packets leave a full queue.
Requeue(c) ==
    LET all == calls[c].batch \o queue
        cut == IdsOf(SubSeq(all, maxSize + 1, Len(all))) IN
    /\ queue' = SubSeq(all, 1, Least(maxSize, Len(all)))
    /\ fate' = [p \in Packets |-> IF p \in cut THEN "gone" ELSE fate[p]]
    /\ calls' = [calls EXCEPT ![c] = NoCall]

\* What a call that gives up answers: retryable is false on every path.
RetryableAtEnd == FALSE

Succeed(c) ==
    /\ calls[c].step = "ok" /\ End(c, "answered")
    /\ UNCHANGED <<maxSize, lifecycle, harvest, session, server, disturbed>>

\* The batch is refused as a whole: 401, or 422 when it is too large.
BeRefused(c) ==
    /\ calls[c].step = "sent" /\ calls[c].at = 0 /\ End(c, "gone")
    /\ UNCHANGED <<maxSize, lifecycle, harvest, session, server, disturbed>>

\* The connection is lost, or a gateway answers 5xx, while the server works on
\* the request.
Abandoned(c) ==
    /\ calls[c].step = "sent" /\ disturbed < MaxDisturbances
    /\ \E o \in Orphans :
         /\ orphans[o] = NoRequest
         /\ orphans' = [orphans EXCEPT ![o] = [batch |-> calls[c].batch, at |-> calls[c].at,
                                               pending |-> calls[c].pending]]

\* The server answers 429 or 5xx: what the batch stored is rolled back, its markers
\* and its sequence number stay. Or the request has not reached the server, or is
\* abandoned there, or the answer to a committed batch is lost.
Fails(c) ==
    /\ calls[c].step \in {"sent", "ok"}
    /\ \/ rolledBack' = rolledBack \cup calls[c].pending /\ UNCHANGED orphans
       \/ Abandoned(c) /\ UNCHANGED rolledBack
    /\ UNCHANGED <<maxSize, lifecycle, harvest, session, seen, last, accepted, refused, disturbed>>

\* Mutant: the retries are not counted.
BackOffUncounted(c) ==
    /\ Fails(c) /\ calls[c].attempt < MaxRetries
    /\ calls' = [calls EXCEPT ![c].step = "backoff", ![c].at = 0, ![c].pending = {}]
    /\ UNCHANGED <<queue, fate>>

BackOff(c) ==
    /\ Fails(c) /\ calls[c].attempt < MaxRetries
    /\ calls' = [calls EXCEPT ![c].step = "backoff", ![c].attempt = @ + 1,
                              ![c].at = 0, ![c].pending = {}]
    /\ UNCHANGED <<queue, fate>>

\* The retries are used up.
GivesUp(c) == Fails(c) /\ calls[c].attempt >= MaxRetries

\* Mutant: a call that gives up leaves isFlushing set.
StayFlushing(c) ==
    /\ GivesUp(c)
    /\ fate' = [p \in Packets |-> IF p \in IdsOf(calls[c].batch) THEN "gone" ELSE fate[p]]
    /\ calls' = [calls EXCEPT ![c] = [NoCall EXCEPT !.step = "stuck"]]
    /\ UNCHANGED queue

GiveUp(c) ==
    /\ GivesUp(c)
    /\ IF c = Flush /\ RetryableAtEnd THEN Requeue(c) ELSE End(c, "gone")

Retry(c) ==
    /\ calls[c].step = "backoff"
    /\ calls' = [calls EXCEPT ![c].step = "sent"]
    /\ UNCHANGED <<maxSize, lifecycle, harvest, session, queue, server, fate, disturbed>>

-----------------------------------------------------------------------------
(* The lifecycle of the instance *)

idleParts == <<maxSize, seq, made, session, calls, server, disturbed>>

\* A collector's start(): one that is active returns at once and stays paused.
Started(c) == IF c = "off" THEN "on" ELSE c

\* TelemetryManager.start. Listeners that are registered are not added twice.
StartManager ==
    /\ collecting' = Started(collecting)
    /\ listening' = TRUE
    /\ timer' = TRUE /\ intervals' = intervals + 1

\* Mutant: a running instance starts again.
StartAgain ==
    /\ status # "destroyed" /\ intervals < 2
    /\ status' = "running" /\ StartManager
    /\ UNCHANGED <<activity, queue, fate, idleParts>>

\* Mutant: starting resets the sequence numbers, as a new session does.
StartResets ==
    /\ status \notin {"destroyed", "running"}
    /\ status' = "running" /\ StartManager /\ seq' = 0
    /\ UNCHANGED <<activity, queue, fate, maxSize, made, session, calls, server, disturbed>>

Start ==
    /\ status \notin {"destroyed", "running"}
    /\ status' = "running" /\ StartManager
    /\ UNCHANGED <<activity, queue, fate, idleParts>>

ClearInterval ==
    /\ intervals' = IF timer THEN intervals - 1 ELSE intervals
    /\ timer' = FALSE

Pause ==
    /\ status = "running"
    /\ status' = "paused" /\ collecting' = "paused"
    /\ ClearInterval
    /\ UNCHANGED <<listening, activity, queue, fate, idleParts>>

\* TelemetryManager.resume: an interval that runs is kept.
ResumeManager ==
    /\ collecting' = "on"
    /\ intervals' = IF timer THEN intervals ELSE intervals + 1
    /\ timer' = TRUE

Resume ==
    /\ status = "paused"
    /\ status' = "running" /\ ResumeManager
    /\ UNCHANGED <<listening, activity, queue, fate, idleParts>>

\* TelemetryManager.stop: the collectors drop their samples.
StopManager ==
    /\ ClearInterval
    /\ collecting' = "off" /\ activity' = FALSE
    /\ listening' = FALSE

Stop ==
    /\ status \notin {"stopped", "destroyed"}
    /\ status' = "stopped" /\ StopManager
    /\ UNCHANGED <<queue, fate, idleParts>>

ClearQueue ==
    /\ queue' = <<>>
    /\ fate' = [p \in Packets |-> IF p \in IdsOf(queue) THEN "gone" ELSE fate[p]]

\* Mutant: destroy does not clear the queue.
DestroyKeepsQueue ==
    /\ status' = "destroyed" /\ StopManager
    /\ UNCHANGED <<queue, fate, idleParts>>

\* destroy stops the manager and clears the queue; a call in progress goes on.
Destroy ==
    /\ status' = "destroyed" /\ StopManager
    /\ ClearQueue
    /\ UNCHANGED idleParts

\* updateSession: the numbers start again, the client's header does not change.
\* (Bound: a change after the last packet would be seen by nothing.)
UpdateSession ==
    /\ sid' \in Sessions /\ switched' = TRUE
    /\ seq' = 0
    /\ made < MaxPackets
    /\ disturbed < MaxDisturbances /\ disturbed' = disturbed + 1
    /\ UNCHANGED <<maxSize, lifecycle, activity, made, queue, calls, server, fate>>

Send(c) ==
    Ingest(c) \/ Answer(c) \/ Succeed(c) \/ BackOff(c) \/ Retry(c) \/ GiveUp(c) \/ BeRefused(c)

Next ==
    \/ Activity \/ Tick \/ FlushNow \/ Hide
    \/ \E c \in Calls : Send(c)
    \/ \E o \in Orphans : RunOn(o) \/ CommitOrphan(o) \/ RollBackOrphan(o)
    \/ Start \/ Pause \/ Resume \/ Stop \/ Destroy \/ UpdateSession

Spec == Init /\ [][Next]_vars

\* The page stays open: timers fire, and a request is answered or fails.
Fairness ==
    /\ WF_vars(Tick)
    /\ \A c \in Calls : WF_vars(Send(c))

FairSpec == Spec /\ Fairness
-----------------------------------------------------------------------------
(* Properties *)

Packet == [id : Packets, sid : Sessions, seq : Nat \ {0}]

TypeOK ==
    /\ status \in {"ready", "running", "paused", "stopped", "destroyed"}
    /\ collecting \in {"off", "on", "paused"}
    /\ activity \in BOOLEAN /\ timer \in BOOLEAN /\ listening \in BOOLEAN
    /\ intervals \in Nat
    /\ sid \in Sessions /\ switched \in BOOLEAN /\ seq \in Nat /\ made \in 0 .. MaxPackets
    /\ queue \in Seq(Packet) /\ maxSize \in QueueSizes /\ Len(queue) <= maxSize
    /\ calls \in [Calls ->
          [step : {"idle", "sent", "ok", "backoff"},
           batch : Seq(Packet), attempt : 0 .. MaxRetries, at : Nat, pending : SUBSET Packets]]
    /\ seen \subseteq Packets /\ last \in Nat
    /\ accepted \subseteq Packets /\ refused \subseteq Packets /\ rolledBack \subseteq Packets
    /\ orphans \in [Orphans -> [batch : Seq(Packet), at : Nat, pending : SUBSET Packets]]
    /\ fate \in [Packets ->
          {"none", "live", "answered", "gone"}]
    /\ disturbed \in 0 .. MaxDisturbances

(***************************************************************************)
(* A packet that was built is in exactly one place, the queue or one batch,*)
(* until its batch ends or it is dropped, and is never sent again by a     *)
(* second call: whatever the timer, flush(), a hidden page, the retries of *)
(* two calls and a restart of the instance do in between.                  *)
(***************************************************************************)
Places(p) ==
    {<<"queue", i>> : i \in {i \in DOMAIN queue : queue[i].id = p}} \cup
    UNION {{<<c, i>> : i \in {i \in DOMAIN calls[c].batch : calls[c].batch[i].id = p}} :
             c \in Calls}

EachPacketOnce ==
    \A p \in Packets :
        IF fate[p] = "live" THEN \E x \in Places(p) : Places(p) = {x} ELSE Places(p) = {}

(***************************************************************************)
(* A packet that was answered with a 2xx has not vanished: it is stored,   *)
(* or refused for its session or its number, or the server has it marked   *)
(* and rolled its acceptance back, or is still to decide on a request that *)
(* the client gave up on. (The answer to a retry says "duplicate" while    *)
(* the first request is uncommitted, which is why the last two remain.)    *)
(***************************************************************************)
AnsweredIsAccountedFor ==
    \A p \in Packets : fate[p] = "answered" =>
        \/ p \in accepted \cup refused \cup rolledBack
        \/ \E o \in Orphans : p \in orphans[o].pending

(***************************************************************************)
(* A packet that is still being sent, or that was answered, is refused for *)
(* its session or its number only after the application has changed the    *)
(* session, or because the request of a hidden page brought a later packet *)
(* to the server first. The batch loop alone never makes a number regress, *)
(* whatever its retries, abandoned requests and restarts of the instance   *)
(* do in between.                                                          *)
(***************************************************************************)
RefusedOnlyIfOvertaken ==
    \A p \in refused : fate[p] \in {"live", "answered"} =>
        switched \/ (disturbed > 0 /\ \E q \in seen : q > p)

(***************************************************************************)
(* Exactly one interval timer runs while the instance is running, none     *)
(* otherwise; a page that is hidden reaches a running or paused instance   *)
(* only, and a destroyed one holds nothing. (A running instance may still  *)
(* be collecting nothing: start() after pause() leaves its collectors so.) *)
(***************************************************************************)
LifecycleConsistent ==
    /\ intervals = IF status = "running" THEN 1 ELSE 0
    /\ timer <=> intervals = 1
    /\ listening <=> status \in {"running", "paused"}
    /\ collecting = "off" <=> ~listening
    /\ status = "paused" => collecting = "paused"
    /\ status = "destroyed" => queue = <<>> /\ ~activity

(***************************************************************************)
(* Once destroyed, an instance builds nothing and sends no batch but the   *)
(* ones that are in progress.                                              *)
(***************************************************************************)
DestroyedSendsNothingNew ==
    [][status = "destroyed" =>
         /\ made' = made /\ status' = "destroyed"
         /\ \A c \in Calls : IdsOf(calls'[c].batch) \subseteq IdsOf(calls[c].batch)]_vars

(***************************************************************************)
(* While the instance runs, every packet that is queued or being sent gets *)
(* out (answered, refused, evicted or, after the bounded retries, given up)*)
(* and once the user is quiet, as MaxPackets makes him in the end, the     *)
(* queue and the batches are empty.                                        *)
(***************************************************************************)
Pending == \E p \in Packets : fate[p] = "live"

PacketsGetOut == Pending ~> (~Pending \/ status # "running")

(***************************************************************************)
(* The safety half of it, for every call, those of a hidden page included: *)
(* a step of a call settles what becomes of each packet of its batch, or   *)
(* keeps the batch and comes nearer to the end of the attempt, or begins   *)
(* one of its bounded retries.                                             *)
(***************************************************************************)
Ahead(q) ==
    CASE q.step = "backoff" -> Len(q.batch) + 3
      [] q.step = "sent"    -> Len(q.batch) - q.at + 2
      [] q.step = "ok"      -> 1
      [] OTHER              -> 0

CallsEnd ==
    [][\A c \in Calls : calls[c].step # "idle" /\ calls'[c] # calls[c] =>
         LET old == calls[c]  new == calls'[c] IN
         \/ \A p \in IdsOf(old.batch) : fate'[p] \in {"answered", "gone"}
         \/ /\ new.batch = old.batch
            /\ \/ new.attempt \in old.attempt + 1 .. MaxRetries
               \/ new.attempt = old.attempt /\ Ahead(new) \in 0 .. Ahead(old) - 1]_vars

(***************************************************************************)
(* "Puts unacknowledged packets back at the front of the queue following a *)
(* transient transport failure": no packet of a call whose last retry has  *)
(* failed is gone.                                                         *)
(***************************************************************************)
UndeliveredIsBuffered ==
    [][\A c \in Calls :
          GivesUp(c) => \A p \in IdsOf(calls[c].batch) : fate'[p] # "gone"]_vars
=============================================================================
