-------------------------- MODULE SdkTelemetryProofs --------------------------
(***************************************************************************)
(* What SdkTelemetry guarantees for every queue and batch size, number of  *)
(* retries, number of packets and of fire-and-forget calls.                *)
(***************************************************************************)
EXTENDS SdkTelemetry, SequenceTheorems, TLAPS

USE SdkAssumption DEF SdkAssumption

Call ==
    [step : {"idle", "sent", "ok", "backoff"},
     batch : Seq(Packet), attempt : 0 .. MaxRetries, at : Nat, pending : SUBSET Packets]

LEMMA CallsType == TypeOK => calls \in [Calls -> Call]
BY DEF TypeOK, Call

LEMMA NoCallFields ==
    /\ NoCall \in Call
    /\ NoCall.step = "idle" /\ NoCall.batch = <<>> /\ NoCall.at = 0 /\ NoCall.pending = {}
BY DEF NoCall, Call

LEMMA SendingFields ==
    ASSUME NEW batch \in Seq(Packet)
    PROVE  /\ Sending(batch) \in Call
           /\ Sending(batch).step = "sent" /\ Sending(batch).batch = batch
           /\ Sending(batch).at = 0 /\ Sending(batch).pending = {}
BY NoCallFields DEF Sending, Call

-----------------------------------------------------------------------------
(* The queue *)

\* A batch is the front of the queue, what is left is the rest of it.
LEMMA Split ==
    ASSUME NEW q \in Seq(Packet), NEW n \in Nat
    PROVE  LET k == Least(n, Len(q)) IN
             /\ k \in 0 .. Len(q)
             /\ Dequeued(q, n) \in Seq(Packet) /\ Left(q, n) \in Seq(Packet)
             /\ Len(Dequeued(q, n)) = k /\ Len(Left(q, n)) = Len(q) - k
             /\ \A i \in 1 .. k : Dequeued(q, n)[i] = q[i]
             /\ \A i \in 1 .. Len(q) - k : Left(q, n)[i] = q[k + i]
<1> DEFINE k == Least(n, Len(q))
<1>1. Len(q) \in Nat /\ k \in Nat /\ k <= Len(q)
    BY DEF Least
<1> HIDE DEF k
<1>2. \A i \in 1 .. k : q[i] \in Packet
    BY <1>1
<1>3. \A i \in k + 1 .. Len(q) : q[i] \in Packet
    BY <1>1
<1>4. /\ SubSeq(q, 1, k) \in Seq(Packet)
      /\ Len(SubSeq(q, 1, k)) = k
      /\ \A i \in 1 .. k : SubSeq(q, 1, k)[i] = q[i]
    BY <1>1, <1>2, SubSeqProperties
<1>5. /\ SubSeq(q, k + 1, Len(q)) \in Seq(Packet)
      /\ Len(SubSeq(q, k + 1, Len(q))) = IF k + 1 <= Len(q) THEN Len(q) - (k + 1) + 1 ELSE 0
      /\ \A i \in 1 .. Len(q) - (k + 1) + 1 :
           SubSeq(q, k + 1, Len(q))[i] = q[(k + 1) + i - 1]
    <2>1. k + 1 \in Int /\ Len(q) \in Int
        BY <1>1
    <2> QED BY <1>3, <2>1, SubSeqProperties
<1>6. Dequeued(q, n) = SubSeq(q, 1, k) /\ Left(q, n) = SubSeq(q, k + 1, Len(q))
    BY DEF Dequeued, Left, k
<1>7. \A i \in 1 .. Len(q) - k : SubSeq(q, k + 1, Len(q))[i] = q[k + i]
    BY <1>1, <1>5
<1> QED BY <1>1, <1>4, <1>5, <1>6, <1>7 DEF k

LEMMA BuiltType ==
    ASSUME TypeOK, NEW stop \in BOOLEAN, Build(stop), Builds(stop)
    PROVE  /\ Built \in Packet /\ Built.id = made + 1
           /\ Built.sid = sid /\ Built.seq = seq + 1
           /\ made + 1 \in Packets
<1>1. made \in Nat /\ made < MaxPackets /\ sid \in Sessions /\ seq \in Nat
    BY DEF TypeOK, Build
<1>2. made + 1 \in Packets
    BY <1>1 DEF Packets
<1> QED BY <1>1, <1>2 DEF Built, Packet

\* The queue after a harvest: the oldest packet has left it when it was full,
\* and the packet that was built, if any, is at its end.
LEMMA EnqueuedShape ==
    ASSUME TypeOK, NEW stop \in BOOLEAN, Build(stop)
    PROVE  LET k == IF Evicts(stop) THEN 1 ELSE 0
               b == IF Builds(stop) THEN 1 ELSE 0
               e == Enqueued(stop) IN
             /\ k \in 0 .. Len(queue)
             /\ e \in Seq(Packet) /\ Len(e) = Len(queue) - k + b /\ Len(e) <= maxSize
             /\ \A i \in 1 .. Len(queue) - k : e[i] = queue[i + k]
             /\ Builds(stop) => e[Len(e)] = Built
             /\ Evicts(stop) => queue # <<>> /\ Head(queue) = queue[1]
<1>1. queue \in Seq(Packet) /\ Len(queue) \in Nat /\ maxSize \in Nat \ {0} /\ Len(queue) <= maxSize
    BY DEF TypeOK
<1>2. CASE ~Builds(stop)
    BY <1>1, <1>2 DEF Enqueued, Evicts
<1>3. CASE Builds(stop) /\ ~Evicts(stop)
    <2>1. Built \in Packet
        BY <1>3, BuiltType
    <2>2. Len(queue) < maxSize
        BY <1>1, <1>3 DEF Evicts
    <2>3. Enqueued(stop) = Append(queue, Built)
        BY <1>3 DEF Enqueued
    <2> QED BY <1>1, <1>3, <2>1, <2>2, <2>3, AppendProperties
<1>4. CASE Builds(stop) /\ Evicts(stop)
    <2>1. Built \in Packet
        BY <1>4, BuiltType
    <2>2. queue # <<>>
        BY <1>1, <1>4 DEF Evicts
    <2>3. /\ Tail(queue) \in Seq(Packet) /\ Len(Tail(queue)) = Len(queue) - 1
          /\ \A i \in 1 .. Len(Tail(queue)) : Tail(queue)[i] = queue[i + 1]
        BY <1>1, <2>2, HeadTailProperties
    <2>4. Len(queue) >= 1
        BY <1>1, <2>2
    <2> DEFINE t == Tail(queue)
    <2> HIDE DEF t
    <2>5. /\ Append(t, Built) \in Seq(Packet) /\ Len(Append(t, Built)) = Len(t) + 1
          /\ \A i \in 1 .. Len(t) : Append(t, Built)[i] = t[i]
          /\ Append(t, Built)[Len(t) + 1] = Built
        BY <2>1, <2>3, AppendProperties DEF t
    <2>6. Enqueued(stop) = Append(t, Built)
        BY <1>4 DEF Enqueued, t
    <2>7. Len(t) = Len(queue) - 1 /\ \A i \in 1 .. Len(t) : t[i] = queue[i + 1]
        BY <2>3 DEF t
    <2>8. Head(queue) = queue[1]
        OBVIOUS
    <2>9. Enqueued(stop)[Len(Enqueued(stop))] = Built
        BY <1>1, <2>5, <2>6, <2>7
    <2>10. Len(Enqueued(stop)) = Len(queue)
        BY <1>1, <2>4, <2>5, <2>6, <2>7
    <2>11. \A i \in 1 .. Len(queue) - 1 : Enqueued(stop)[i] = queue[i + 1]
        BY <2>5, <2>6, <2>7
    <2> QED BY <1>1, <1>4, <2>2, <2>4, <2>5, <2>6, <2>8, <2>9, <2>10, <2>11
<1> QED BY <1>2, <1>3, <1>4 DEF Evicts

-----------------------------------------------------------------------------
(* What each step makes of the call it belongs to *)

Request == [batch : Seq(Packet), at : Nat, pending : SUBSET Packets]

\* The server's side of a step that goes through the packet p.
LEMMA CheckFields ==
    ASSUME TypeOK, NEW p \in Packet, Check(p)
    PROVE  /\ p.id \in Packets /\ p.seq \in Nat /\ p.sid \in Sessions
           /\ seen \subseteq seen' /\ seen' \subseteq seen \cup {p.id}
           /\ last' \in {last, p.seq}
           /\ refused \subseteq refused' /\ refused' \subseteq refused \cup {p.id}
           /\ p.id \in seen' \cup refused'
BY DEF Check, New, InTurn, Packet

LEMMA IngestFields ==
    ASSUME TypeOK, NEW c \in Calls, Ingest(c)
    PROVE  LET p == NextOf(calls[c]) IN
             /\ calls[c].step = "sent" /\ calls[c].at < Len(calls[c].batch)
             /\ calls[c].at + 1 \in DOMAIN calls[c].batch /\ p \in Packet
             /\ p = calls[c].batch[calls[c].at + 1] /\ Check(p)
             /\ \E n \in Call :
                  /\ calls' = [calls EXCEPT ![c] = n]
                  /\ n.step = "sent" /\ n.batch = calls[c].batch /\ n.at = calls[c].at + 1
                  /\ n.attempt = calls[c].attempt
                  /\ n.pending = IF InTurn(p) THEN calls[c].pending \cup {p.id} ELSE calls[c].pending
<1> DEFINE q == calls[c]
           p == NextOf(q)
           more == IF InTurn(p) THEN q.pending \cup {p.id} ELSE q.pending
           up == q.at + 1
           n == [q EXCEPT !.at = up, !.pending = more]
<1>1. q \in Call /\ calls \in [Calls -> Call]
    BY CallsType
<1>2. q.step = "sent" /\ q.at < Len(q.batch) /\ Check(p)
    BY DEF Ingest
<1>3. q.at \in Nat /\ q.batch \in Seq(Packet) /\ q.pending \in SUBSET Packets
    BY <1>1 DEF Call
<1>4. up \in Nat /\ q.at + 1 \in DOMAIN q.batch /\ p \in Packet /\ p = q.batch[q.at + 1]
    BY <1>2, <1>3 DEF NextOf
<1>5. p.id \in Packets
    BY <1>4 DEF Packet
<1>6. more \in SUBSET Packets
    BY <1>3, <1>5
<1>7. calls' = [calls EXCEPT ![c] = n]
    BY <1>1 DEF Ingest, Checked
<1> HIDE DEF q, more, up
<1>8. /\ n \in Call /\ n.step = q.step /\ n.batch = q.batch /\ n.at = up /\ n.pending = more
      /\ n.attempt = q.attempt
    BY <1>1, <1>4, <1>6 DEF Call
<1> HIDE DEF n
<1>9. \E m \in Call :
        /\ calls' = [calls EXCEPT ![c] = m]
        /\ m.step = "sent" /\ m.batch = q.batch /\ m.at = up /\ m.pending = more
        /\ m.attempt = q.attempt
    BY <1>2, <1>7, <1>8
<1> QED BY <1>2, <1>4, <1>9 DEF q, more, up

LEMMA OrphansType == TypeOK => orphans \in [Orphans -> Request]
BY DEF TypeOK, Request

LEMMA NoRequestFields ==
    NoRequest \in Request /\ NoRequest.batch = <<>> /\ NoRequest.at = 0 /\ NoRequest.pending = {}
BY DEF NoRequest, Request

\* A request that no one waits for goes through one more packet.
LEMMA RunOnFields ==
    ASSUME TypeOK, NEW o \in Orphans, RunOn(o)
    PROVE  LET p == NextOf(orphans[o]) IN
             /\ orphans[o].at < Len(orphans[o].batch)
             /\ orphans[o].at + 1 \in DOMAIN orphans[o].batch /\ p \in Packet
             /\ p = orphans[o].batch[orphans[o].at + 1] /\ Check(p)
             /\ \E n \in Request :
                  /\ orphans' = [orphans EXCEPT ![o] = n]
                  /\ n.batch = orphans[o].batch /\ n.at = orphans[o].at + 1
                  /\ n.pending = IF InTurn(p) THEN orphans[o].pending \cup {p.id}
                                 ELSE orphans[o].pending
<1> DEFINE q == orphans[o]
           p == NextOf(q)
           more == IF InTurn(p) THEN q.pending \cup {p.id} ELSE q.pending
           up == q.at + 1
           n == [q EXCEPT !.at = up, !.pending = more]
<1>1. q \in Request /\ orphans \in [Orphans -> Request]
    BY OrphansType
<1>2. q.at < Len(q.batch) /\ Check(p)
    BY DEF RunOn
<1>3. q.at \in Nat /\ q.batch \in Seq(Packet) /\ q.pending \in SUBSET Packets
    BY <1>1 DEF Request
<1>4. up \in Nat /\ q.at + 1 \in DOMAIN q.batch /\ p \in Packet /\ p = q.batch[q.at + 1]
    BY <1>2, <1>3 DEF NextOf
<1>5. p.id \in Packets
    BY <1>4 DEF Packet
<1>6. more \in SUBSET Packets
    BY <1>3, <1>5
<1>7. orphans' = [orphans EXCEPT ![o] = n]
    BY <1>1 DEF RunOn, Checked
<1> HIDE DEF q, more, up
<1>8. n \in Request /\ n.batch = q.batch /\ n.at = up /\ n.pending = more
    BY <1>1, <1>4, <1>6 DEF Request
<1> HIDE DEF n
<1>9. \E m \in Request :
        /\ orphans' = [orphans EXCEPT ![o] = m]
        /\ m.batch = q.batch /\ m.at = up /\ m.pending = more
    BY <1>7, <1>8
<1> QED BY <1>2, <1>4, <1>9 DEF q, more, up

LEMMA AnswerFields ==
    ASSUME TypeOK, NEW c \in Calls, Answer(c)
    PROVE  \E n \in Call :
             /\ calls' = [calls EXCEPT ![c] = n]
             /\ n.step = "ok" /\ n.batch = calls[c].batch /\ n.at = calls[c].at /\ n.pending = {}
             /\ n.attempt = calls[c].attempt
<1> DEFINE q == calls[c]
           step == "ok"
           n == [q EXCEPT !.step = step, !.pending = {}]
<1>1. q \in Call /\ calls' = [calls EXCEPT ![c] = n]
    BY CallsType DEF Answer
<1> HIDE DEF q
<1>2. /\ n \in Call /\ n.step = "ok" /\ n.batch = q.batch /\ n.at = q.at /\ n.pending = {}
      /\ n.attempt = q.attempt
    BY <1>1 DEF Call
<1> HIDE DEF n
<1> QED BY <1>1, <1>2 DEF q

LEMMA BackOffFields ==
    ASSUME TypeOK, NEW c \in Calls, BackOff(c)
    PROVE  \E n \in Call :
             /\ calls' = [calls EXCEPT ![c] = n]
             /\ n.step = "backoff" /\ n.batch = calls[c].batch /\ n.at = 0 /\ n.pending = {}
             /\ n.attempt = calls[c].attempt + 1
<1> DEFINE q == calls[c]
           up == q.attempt + 1
           n == [q EXCEPT !.step = "backoff", !.attempt = up, !.at = 0, !.pending = {}]
<1>1. q \in Call /\ calls' = [calls EXCEPT ![c] = n] /\ q.attempt < MaxRetries
    BY CallsType DEF BackOff
<1>2. up \in 0 .. MaxRetries
    BY <1>1 DEF Call
<1> HIDE DEF q, up
<1>3. /\ n \in Call /\ n.step = "backoff" /\ n.batch = q.batch /\ n.at = 0 /\ n.pending = {}
      /\ n.attempt = up
    BY <1>1, <1>2 DEF Call
<1> HIDE DEF n
<1> QED BY <1>1, <1>3 DEF q, up

LEMMA RetryFields ==
    ASSUME TypeOK, NEW c \in Calls, Retry(c)
    PROVE  \E n \in Call :
             /\ calls' = [calls EXCEPT ![c] = n]
             /\ n.step = "sent" /\ n.batch = calls[c].batch /\ n.at = calls[c].at
             /\ n.pending = calls[c].pending /\ n.attempt = calls[c].attempt
<1> DEFINE q == calls[c]
           n == [q EXCEPT !.step = "sent"]
<1>1. q \in Call /\ calls' = [calls EXCEPT ![c] = n]
    BY CallsType DEF Retry
<1> HIDE DEF q
<1>2. /\ n \in Call /\ n.step = "sent" /\ n.batch = q.batch /\ n.at = q.at
      /\ n.pending = q.pending /\ n.attempt = q.attempt
    BY <1>1 DEF Call
<1> HIDE DEF n
<1> QED BY <1>1, <1>2 DEF q

\* The queue q goes on without its front, which the call c takes.
Takes(c, q, n) ==
    /\ queue' = Left(q, n)
    /\ calls' = [calls EXCEPT ![c] = Sending(Dequeued(q, n))]

\* A call that ends frees its batch and may take another one from the queue.
LEMMA EndShape ==
    ASSUME NEW c, NEW how, End(c, how)
    PROVE  \/ Takes(Flush, queue, BatchSize) /\ c = Flush
           \/ queue' = queue /\ calls' = [calls EXCEPT ![c] = NoCall]
BY DEF End, Takes

\* What a step of the call may do to what the server holds for the client: roll
\* it back, or go on with it for no one.
Dropped(c) ==
    \/ rolledBack' = rolledBack \cup calls[c].pending /\ UNCHANGED orphans
    \/ /\ rolledBack' = rolledBack /\ calls[c].step = "sent"
       /\ disturbed < MaxDisturbances
       /\ \E o \in Orphans, n \in Request :
            /\ orphans[o] = NoRequest /\ orphans' = [orphans EXCEPT ![o] = n]
            /\ n.batch = calls[c].batch /\ n.at = calls[c].at /\ n.pending = calls[c].pending

LEMMA FailsDrops ==
    ASSUME TypeOK, NEW c \in Calls, Fails(c)
    PROVE  Dropped(c)
<1>1. calls[c].batch \in Seq(Packet) /\ calls[c].at \in Nat /\ calls[c].pending \in SUBSET Packets
    BY CallsType DEF Call
<1> DEFINE n == [batch |-> calls[c].batch, at |-> calls[c].at, pending |-> calls[c].pending]
<1>2. /\ n \in Request
      /\ n.batch = calls[c].batch /\ n.at = calls[c].at /\ n.pending = calls[c].pending
    BY <1>1 DEF Request
<1>3. CASE rolledBack' = rolledBack \cup calls[c].pending /\ UNCHANGED orphans
    BY <1>3 DEF Dropped
<1>4. CASE Abandoned(c) /\ UNCHANGED rolledBack
    <2>1. \E o \in Orphans : orphans[o] = NoRequest /\ orphans' = [orphans EXCEPT ![o] = n]
        BY <1>4 DEF Abandoned
    <2> HIDE DEF n
    <2> QED BY <1>2, <1>4, <2>1 DEF Dropped, Abandoned
<1> QED BY <1>3, <1>4 DEF Fails

\* The ways a call ends; requeue is not one of them.
LEMMA Ends ==
    ASSUME NEW c, Succeed(c) \/ BeRefused(c) \/ GiveUp(c)
    PROVE  /\ \E how \in {"answered", "gone"} :
                End(c, how) /\ (how = "answered" => calls[c].step = "ok")
           /\ UNCHANGED <<maxSize, lifecycle, harvest, session, seen, last, accepted, refused, disturbed>>
           /\ Fails(c) \/ (UNCHANGED server /\ (calls[c].step = "ok" \/ calls[c].at = 0))
           /\ calls[c].step \in {"sent", "ok"}
BY DEF Succeed, BeRefused, GiveUp, GivesUp, Fails, RetryableAtEnd, server

\* A harvest adds to the queue; then the batch loop or a hidden page may take
\* from it, or a beacon.
LEMMA HarvestShape ==
    ASSUME HarvestAndDispatch
    PROVE  /\ Build(FALSE) /\ Harvested(FALSE, {}, "live")
           /\ \/ queue' = Enqueued(FALSE) /\ calls' = calls
              \/ Takes(Flush, Enqueued(FALSE), BatchSize) /\ calls[Flush].step = "idle"
           /\ UNCHANGED <<maxSize, lifecycle, session, server, disturbed>>
BY DEF HarvestAndDispatch, Takes

LEMMA HideShape ==
    ASSUME Hide
    PROVE  /\ Build(TRUE)
           /\ \/ /\ queue' = Left(Enqueued(TRUE), 2 * BatchSize) /\ calls' = calls
                 /\ Harvested(TRUE, IdsOf(Dequeued(Enqueued(TRUE), 2 * BatchSize)), "gone")
                 /\ disturbed' = disturbed
              \/ /\ \E c \in Strays :
                      Takes(c, Enqueued(TRUE), 2 * BatchSize) /\ calls[c].step = "idle"
                 /\ Harvested(TRUE, {}, "live")
                 /\ disturbed < MaxDisturbances /\ disturbed' = disturbed + 1
           /\ listening /\ UNCHANGED <<maxSize, lifecycle, session, server>>
BY DEF Hide, SendBeacon, Takes

LEMMA TakesType ==
    ASSUME TypeOK, NEW c \in Calls, NEW q \in Seq(Packet), NEW n \in Nat, Takes(c, q, n)
    PROVE  /\ calls' \in [Calls -> Call]
           /\ queue' \in Seq(Packet) /\ Len(queue') <= Len(q)
<1>1. Dequeued(q, n) \in Seq(Packet) /\ Left(q, n) \in Seq(Packet) /\ Len(Left(q, n)) <= Len(q)
    BY Split
<1>2. Sending(Dequeued(q, n)) \in Call
    BY <1>1, SendingFields
<1> QED BY <1>1, <1>2, CallsType DEF Takes

-----------------------------------------------------------------------------
(* Types *)

CallsOK == calls \in [Calls -> Call]

QueueOK == queue \in Seq(Packet) /\ maxSize \in QueueSizes /\ Len(queue) <= maxSize

FateOK == fate \in [Packets -> {"none", "live", "answered", "gone"}]

InstanceOK ==
    /\ status \in {"ready", "running", "paused", "stopped", "destroyed"}
    /\ collecting \in {"off", "on", "paused"}
    /\ timer \in BOOLEAN /\ listening \in BOOLEAN

HarvestOK == activity \in BOOLEAN /\ seq \in Nat /\ made \in 0 .. MaxPackets

ServerOK ==
    /\ seen \subseteq Packets /\ last \in Nat
    /\ accepted \subseteq Packets /\ refused \subseteq Packets /\ rolledBack \subseteq Packets
    /\ orphans \in [Orphans -> Request]

SessionOK == sid \in Sessions /\ switched \in BOOLEAN /\ disturbed \in 0 .. MaxDisturbances

Typed == InstanceOK /\ HarvestOK /\ ServerOK /\ SessionOK /\ QueueOK /\ CallsOK /\ FateOK

LEMMA TypeParts == TypeOK <=> Typed /\ intervals \in Nat
BY DEF Typed, TypeOK, InstanceOK, HarvestOK, ServerOK, SessionOK, QueueOK, CallsOK, FateOK, Call, Request

LEMMA TypePartsNext == TypeOK' <=> Typed' /\ intervals' \in Nat
BY DEF Typed, TypeOK, InstanceOK, HarvestOK, ServerOK, SessionOK, QueueOK, CallsOK, FateOK, Call, Request

LEMMA BuildType ==
    ASSUME TypeOK, NEW stop \in BOOLEAN, Build(stop)
    PROVE  HarvestOK'
<1>1. seq \in Nat /\ made \in Nat /\ made <= MaxPackets
    BY DEF TypeOK
<1>2. activity' \in BOOLEAN
    BY DEF Build
<1>3. seq' \in Nat /\ made' \in 0 .. MaxPackets
    <2>1. CASE Builds(stop)
        <3>1. made < MaxPackets /\ seq' = seq + 1 /\ made' = made + 1
            BY <2>1, Zenon DEF Build
        <3> QED BY <1>1, <3>1
    <2>2. CASE ~Builds(stop)
        <3>1. seq' = seq /\ made' = made
            BY <2>2, Zenon DEF Build
        <3> QED BY <1>1, <3>1
    <2> QED BY <2>1, <2>2
<1> QED BY <1>2, <1>3 DEF HarvestOK

LEMMA HarvestedType ==
    ASSUME TypeOK, NEW stop, NEW gone, NEW how \in {"live", "gone"}, Harvested(stop, gone, how)
    PROVE  FateOK'
BY DEF TypeOK, Harvested, FateOK

LEMMA EndType ==
    ASSUME TypeOK, NEW c \in Calls, NEW how \in {"answered", "gone"}, End(c, how),
           UNCHANGED maxSize
    PROVE  QueueOK' /\ CallsOK' /\ FateOK'
<1>1. FateOK'
    BY DEF TypeOK, End, FateOK
<1>2. QueueOK' /\ CallsOK'
    <2>1. CASE Takes(Flush, queue, BatchSize) /\ c = Flush
        <3>1. queue \in Seq(Packet) /\ BatchSize \in Nat
            BY DEF TypeOK
        <3>2. calls' \in [Calls -> Call] /\ queue' \in Seq(Packet) /\ Len(queue') <= Len(queue)
            BY <2>1, <3>1, TakesType
        <3>3. Len(queue) \in Nat /\ Len(queue') \in Nat /\ maxSize \in Nat
            BY <3>1, <3>2 DEF TypeOK
        <3> QED BY <3>2, <3>3 DEF TypeOK, QueueOK, CallsOK
    <2>2. CASE queue' = queue /\ calls' = [calls EXCEPT ![c] = NoCall]
        BY <2>2, CallsType, NoCallFields DEF TypeOK, QueueOK, CallsOK
    <2> QED BY <2>1, <2>2, EndShape
<1> QED BY <1>1, <1>2

\* The steps that harvest.
LEMMA HarvestType ==
    ASSUME TypeOK, NEW stop \in BOOLEAN, Build(stop), UNCHANGED maxSize,
           NEW n \in Nat, NEW c \in Calls,
           \/ queue' = Enqueued(stop) /\ calls' = calls
           \/ queue' = Left(Enqueued(stop), n) /\ calls' = calls
           \/ Takes(c, Enqueued(stop), n)
    PROVE  QueueOK' /\ CallsOK'
<1> DEFINE e == Enqueued(stop)
<1>1. e \in Seq(Packet) /\ Len(e) <= maxSize
    BY EnqueuedShape
<1> HIDE DEF e
<1>2. Left(e, n) \in Seq(Packet) /\ Len(Left(e, n)) <= Len(e)
    <2>1. /\ Least(n, Len(e)) \in 0 .. Len(e) /\ Left(e, n) \in Seq(Packet)
          /\ Len(Left(e, n)) = Len(e) - Least(n, Len(e))
        BY <1>1, Split
    <2>2. Len(e) \in Nat
        BY <1>1
    <2> QED BY <2>1, <2>2
<1>3. CallsOK' /\ queue' \in Seq(Packet) /\ Len(queue') <= Len(e)
    <2>1. CASE queue' = e /\ calls' = calls
        BY <1>1, <2>1, CallsType DEF CallsOK
    <2>2. CASE queue' = Left(e, n) /\ calls' = calls
        BY <1>2, <2>2, CallsType DEF CallsOK
    <2>3. CASE Takes(c, e, n)
        BY <1>1, <2>3, TakesType DEF CallsOK
    <2> QED BY <2>1, <2>2, <2>3 DEF e
<1>4. Len(e) \in Nat /\ Len(queue') \in Nat /\ maxSize \in Nat
    BY <1>1, <1>3 DEF TypeOK
<1> QED BY <1>1, <1>3, <1>4 DEF TypeOK, QueueOK

-----------------------------------------------------------------------------
(* The lifecycle *)

\* The server works on a request that no one waits for.
OrphanMoves == \E o \in Orphans : RunOn(o) \/ CommitOrphan(o) \/ RollBackOrphan(o)

LEMMA OrphanLeavesClient ==
    ASSUME OrphanMoves
    PROVE  UNCHANGED <<maxSize, lifecycle, harvest, session, queue, calls, fate, disturbed>>
BY DEF OrphanMoves, RunOn, CommitOrphan, RollBackOrphan

LEMMA SendKeepsLifecycle ==
    ASSUME NEW c \in Calls, Send(c)
    PROVE  UNCHANGED <<lifecycle, harvest, session, maxSize, disturbed>>
<1>1. CASE Ingest(c)
    BY <1>1 DEF Ingest
<1>2. CASE Answer(c)
    BY <1>2 DEF Answer
<1>3. CASE Succeed(c) \/ BeRefused(c) \/ GiveUp(c)
    BY <1>3, Ends
<1>4. CASE BackOff(c)
    BY <1>4 DEF BackOff, Fails
<1>5. CASE Retry(c)
    BY <1>5 DEF Retry
<1> QED BY <1>1, <1>2, <1>3, <1>4, <1>5 DEF Send

LEMMA SendKeepsEmpty ==
    ASSUME NEW c \in Calls, Send(c), queue = <<>>
    PROVE  queue' = <<>>
<1>1. CASE Ingest(c)
    BY <1>1 DEF Ingest
<1>2. CASE Answer(c)
    BY <1>2 DEF Answer
<1>3. CASE Succeed(c) \/ BeRefused(c) \/ GiveUp(c)
    <2>1. PICK how \in {"answered", "gone"} : End(c, how)
        BY <1>3, Ends
    <2> QED BY <2>1 DEF End
<1>4. CASE BackOff(c)
    BY <1>4 DEF BackOff, Fails
<1>5. CASE Retry(c)
    BY <1>5 DEF Retry
<1> QED BY <1>1, <1>2, <1>3, <1>4, <1>5 DEF Send

LEMMA LifecycleInit == Init => LifecycleConsistent
BY DEF Init, LifecycleConsistent

LEMMA LifecycleStep == LifecycleConsistent /\ [Next]_vars => LifecycleConsistent'
<1> SUFFICES ASSUME LifecycleConsistent, [Next]_vars PROVE LifecycleConsistent'
    OBVIOUS
<1> USE DEF lifecycle
\* A step of a living instance that changes its samples or its queue only.
<1>a. ASSUME UNCHANGED lifecycle, status # "destroyed" PROVE LifecycleConsistent'
    BY <1>a DEF LifecycleConsistent
<1>1. CASE Activity
    <2>1. status # "destroyed"
        BY <1>1 DEF Activity, LifecycleConsistent
    <2> QED BY <1>1, <1>a, <2>1 DEF Activity
<1>2. CASE Tick
    <2>1. status # "destroyed"
        BY <1>2 DEF Tick, LifecycleConsistent
    <2> QED BY <1>2, <1>a, <2>1, HarvestShape DEF Tick
<1>3. CASE FlushNow
    BY <1>3, <1>a, HarvestShape DEF FlushNow
<1>4. CASE Hide
    <2>1. status # "destroyed"
        BY <1>4 DEF Hide, SendBeacon, LifecycleConsistent
    <2> QED BY <1>4, <1>a, <2>1, HideShape
<1>5. ASSUME NEW c \in Calls, Send(c) PROVE LifecycleConsistent'
    BY <1>5, SendKeepsLifecycle, SendKeepsEmpty DEF LifecycleConsistent, harvest
<1>6. CASE Start
    BY <1>6 DEF Start, StartManager, Started, LifecycleConsistent
<1>7. CASE Pause
    BY <1>7 DEF Pause, ClearInterval, LifecycleConsistent
<1>8. CASE Resume
    BY <1>8 DEF Resume, ResumeManager, LifecycleConsistent
<1>9. CASE Stop
    BY <1>9 DEF Stop, StopManager, ClearInterval, LifecycleConsistent
<1>10. CASE Destroy
    BY <1>10 DEF Destroy, ClearQueue, StopManager, ClearInterval, LifecycleConsistent
<1>11. CASE UpdateSession
    BY <1>11 DEF UpdateSession, LifecycleConsistent
<1>12. CASE UNCHANGED vars
    BY <1>12 DEF vars, harvest, LifecycleConsistent
<1>13. CASE OrphanMoves
    BY <1>13, OrphanLeavesClient DEF harvest, LifecycleConsistent
<1> QED
    BY <1>1, <1>2, <1>3, <1>4, <1>5, <1>6, <1>7, <1>8, <1>9, <1>10, <1>11, <1>12, <1>13
    DEF Next, OrphanMoves

\* Exactly one interval timer runs while the instance runs, whatever order start,
\* pause, resume, stop and destroy are called in, a page that is hidden reaches
\* a running or paused instance only and a destroyed one holds nothing.
THEOREM LifecycleAlwaysConsistent == Spec => []LifecycleConsistent
<1> QED BY LifecycleInit, LifecycleStep, PTL DEF Spec

-----------------------------------------------------------------------------
(* Types are kept *)

LEMMA TypeInit == Init => TypeOK
<1> SUFFICES ASSUME Init PROVE TypeOK
    OBVIOUS
<1>1. CallsOK
    BY NoCallFields DEF Init, CallsOK
<1>2. QueueOK
    BY DEF Init, QueueOK
<1>3. FateOK
    BY DEF Init, FateOK
<1>4. InstanceOK /\ intervals \in Nat
    BY DEF Init, InstanceOK
<1>5. HarvestOK
    <2>1. activity \in BOOLEAN
        BY DEF Init
    <2>2. seq \in Nat /\ made \in 0 .. MaxPackets
        BY DEF Init
    <2> QED BY <2>1, <2>2 DEF HarvestOK
<1>6. ServerOK
    BY NoRequestFields DEF Init, ServerOK
<1>7. SessionOK
    <2>1. switched \in BOOLEAN
        BY DEF Init
    <2>2. sid \in Sessions /\ disturbed \in 0 .. MaxDisturbances
        BY DEF Init
    <2> QED BY <2>1, <2>2 DEF SessionOK
<1> QED BY <1>1, <1>2, <1>3, <1>4, <1>5, <1>6, <1>7, TypeParts DEF Typed

LEMMA CheckKeepsTypes ==
    ASSUME TypeOK, NEW p \in Packet, Check(p), UNCHANGED <<accepted, rolledBack>>,
           orphans' \in [Orphans -> Request]
    PROVE  ServerOK'
<1>1. ServerOK
    BY TypeParts DEF Typed
<1> QED BY <1>1, CheckFields DEF ServerOK

LEMMA SendKeepsTypes ==
    ASSUME TypeOK, NEW c \in Calls, Send(c)
    PROVE  ServerOK' /\ QueueOK' /\ CallsOK' /\ FateOK'
<1> TypeOK /\ Typed
    BY TypeParts
<1> USE DEF Typed
<1>a. UNCHANGED <<maxSize, disturbed>>
    BY SendKeepsLifecycle
<1>b. calls[c] \in Call /\ calls[c].pending \subseteq Packets
    BY CallsType DEF Call
\* A step that keeps the queue.
<1>q. ASSUME UNCHANGED <<queue, fate>>, \E n \in Call : calls' = [calls EXCEPT ![c] = n]
      PROVE  QueueOK' /\ CallsOK' /\ FateOK'
    BY <1>a, <1>q DEF QueueOK, CallsOK, FateOK
<1>1. CASE Ingest(c)
    <2> DEFINE p == NextOf(calls[c])
    <2>1. p \in Packet /\ Check(p) /\ \E n \in Call : calls' = [calls EXCEPT ![c] = n]
        BY <1>1, IngestFields
    <2>2. UNCHANGED <<queue, fate, accepted, rolledBack, orphans>>
        BY <1>1 DEF Ingest
    <2> HIDE DEF p
    <2>3. ServerOK'
        BY <2>1, <2>2, CheckKeepsTypes, OrphansType
    <2> QED BY <1>q, <2>1, <2>2, <2>3
<1>2. CASE Answer(c)
    <2>1. UNCHANGED <<queue, fate, seen, last, refused, rolledBack, orphans>>
          /\ accepted' = accepted \cup calls[c].pending
        BY <1>2 DEF Answer
    <2>2. ServerOK'
        BY <1>b, <2>1 DEF ServerOK
    <2>3. \E n \in Call : calls' = [calls EXCEPT ![c] = n]
        BY <1>2, AnswerFields
    <2> QED BY <1>q, <2>1, <2>2, <2>3
\* The server rolls back, or goes on with the request for no one.
<1>f. ASSUME Fails(c) PROVE ServerOK'
    <2>1. rolledBack' \subseteq Packets /\ orphans' \in [Orphans -> Request]
        BY <1>b, <1>f, FailsDrops DEF Dropped, ServerOK
    <2> QED BY <1>f, <2>1 DEF Fails, ServerOK
<1>3. CASE Succeed(c) \/ BeRefused(c) \/ GiveUp(c)
    <2>1. PICK how \in {"answered", "gone"} : End(c, how)
        BY <1>3, Ends
    <2>2. ServerOK'
        BY <1>3, <1>f, Ends DEF ServerOK, server
    <2> QED BY <1>a, <2>1, <2>2, EndType
<1>4. CASE BackOff(c)
    <2>1. UNCHANGED <<queue, fate>> /\ Fails(c)
        BY <1>4 DEF BackOff
    <2>2. \E n \in Call : calls' = [calls EXCEPT ![c] = n]
        BY <1>4, BackOffFields
    <2> QED BY <1>f, <1>q, <2>1, <2>2
<1>5. CASE Retry(c)
    <2>1. UNCHANGED <<queue, fate, server>>
        BY <1>5 DEF Retry
    <2>2. ServerOK'
        BY <2>1 DEF ServerOK, server
    <2>3. \E n \in Call : calls' = [calls EXCEPT ![c] = n]
        BY <1>5, RetryFields
    <2> QED BY <1>q, <2>1, <2>2, <2>3
<1> QED BY <1>1, <1>2, <1>3, <1>4, <1>5 DEF Send

LEMMA OrphanKeepsTypes ==
    ASSUME TypeOK, OrphanMoves
    PROVE  ServerOK'
<1>1. ServerOK
    BY TypeParts DEF Typed
<1>2. PICK o \in Orphans : RunOn(o) \/ CommitOrphan(o) \/ RollBackOrphan(o)
    BY DEF OrphanMoves
<1>3. CASE RunOn(o)
    <2> DEFINE p == NextOf(orphans[o])
    <2>1. p \in Packet /\ Check(p) /\ \E n \in Request : orphans' = [orphans EXCEPT ![o] = n]
        BY <1>3, RunOnFields
    <2>2. UNCHANGED <<accepted, rolledBack>> /\ orphans' \in [Orphans -> Request]
        BY <1>1, <1>3, <2>1 DEF RunOn, ServerOK
    <2> HIDE DEF p
    <2> QED BY <2>1, <2>2, CheckKeepsTypes
<1>4. CASE CommitOrphan(o) \/ RollBackOrphan(o)
    <2>1. orphans[o].pending \subseteq Packets
        BY OrphansType DEF Request
    <2>2. orphans' \in [Orphans -> Request]
        BY <1>1, <1>4, NoRequestFields DEF CommitOrphan, RollBackOrphan, ServerOK
    <2> QED BY <1>1, <1>4, <2>1, <2>2 DEF CommitOrphan, RollBackOrphan, ServerOK
<1> QED BY <1>2, <1>3, <1>4

LEMMA TypeStep == TypeOK /\ LifecycleConsistent' /\ [Next]_vars => TypeOK'
<1> SUFFICES ASSUME TypeOK, LifecycleConsistent', [Next]_vars PROVE TypeOK'
    OBVIOUS
<1>n. intervals' \in Nat
    BY DEF LifecycleConsistent
<1>t. Typed
    BY TypeParts
<1> SUFFICES Typed'
    BY <1>n, TypePartsNext
<1> USE <1>t DEF Typed
<1>s. ASSUME UNCHANGED server PROVE ServerOK'
    BY <1>s DEF ServerOK, server
<1>i. ASSUME UNCHANGED lifecycle PROVE InstanceOK'
    BY <1>i DEF InstanceOK, lifecycle
<1>h. ASSUME UNCHANGED harvest PROVE HarvestOK'
    BY <1>h DEF HarvestOK, harvest
<1>d. ASSUME UNCHANGED <<session, disturbed>> PROVE SessionOK'
    BY <1>d DEF SessionOK, session
<1>m. ASSUME UNCHANGED <<queue, maxSize, calls, fate>> PROVE QueueOK' /\ CallsOK' /\ FateOK'
    BY <1>m DEF QueueOK, CallsOK, FateOK
<1>f. Flush \in Calls /\ Strays \subseteq Calls
    BY DEF Calls
\* A step that harvests, then takes from the queue with some call.
<1>v. ASSUME HarvestAndDispatch PROVE Typed'
    <2>1. /\ Build(FALSE) /\ Harvested(FALSE, {}, "live")
          /\ UNCHANGED <<maxSize, lifecycle, session, server, disturbed>>
        BY <1>v, HarvestShape
    <2>2. QueueOK' /\ CallsOK'
        BY <1>f, <1>v, <2>1, HarvestShape, HarvestType
    <2>3. HarvestOK' /\ FateOK'
        BY <2>1, BuildType, HarvestedType
    <2> QED BY <1>s, <1>i, <1>d, <2>1, <2>2, <2>3
<1>1. CASE Activity
    <2>1. HarvestOK'
        BY <1>1 DEF Activity, HarvestOK
    <2> QED BY <1>1, <1>s, <1>i, <1>d, <1>m, <2>1 DEF Activity
<1>2. CASE Tick \/ FlushNow
    BY <1>2, <1>v DEF Tick, FlushNow
<1>3. CASE Hide
    <2>1. Build(TRUE) /\ UNCHANGED <<maxSize, lifecycle, session, server>>
        BY <1>3, HideShape
    <2>2. FateOK' /\ SessionOK'
        <3>1. \E gone : \E how \in {"live", "gone"} : Harvested(TRUE, gone, how)
            BY <1>3, HideShape
        <3>2. disturbed' \in 0 .. MaxDisturbances
            <4>1. disturbed' = disturbed \/ (disturbed < MaxDisturbances /\ disturbed' = disturbed + 1)
                BY <1>3, HideShape
            <4>2. disturbed \in Nat /\ disturbed <= MaxDisturbances
                BY DEF SessionOK
            <4> QED BY <4>1, <4>2
        <3> QED BY <2>1, <3>1, <3>2, HarvestedType DEF SessionOK, session
    <2>3. QueueOK' /\ CallsOK'
        <3>1. 2 * BatchSize \in Nat
            OBVIOUS
        <3>2. \E c \in Calls :
                \/ queue' = Left(Enqueued(TRUE), 2 * BatchSize) /\ calls' = calls
                \/ Takes(c, Enqueued(TRUE), 2 * BatchSize)
            BY <1>f, <1>3, HideShape
        <3> DEFINE n == 2 * BatchSize
        <3> HIDE DEF n
        <3> QED BY <2>1, <3>1, <3>2, HarvestType DEF n
    <2>4. HarvestOK'
        BY <2>1, BuildType
    <2> QED BY <1>s, <1>i, <2>1, <2>2, <2>3, <2>4
<1>4. ASSUME NEW c \in Calls, Send(c) PROVE Typed'
    BY <1>4, <1>i, <1>h, <1>d, SendKeepsLifecycle, SendKeepsTypes
<1>5. CASE Start
    <2>1. InstanceOK'
        BY <1>5 DEF Start, StartManager, Started, InstanceOK
    <2>2. HarvestOK'
        BY <1>5 DEF Start, idleParts, HarvestOK
    <2> QED BY <1>5, <1>s, <1>d, <1>m, <2>1, <2>2 DEF Start, idleParts
<1>6. CASE Pause
    <2>1. InstanceOK'
        BY <1>6 DEF Pause, ClearInterval, InstanceOK
    <2>2. HarvestOK'
        BY <1>6 DEF Pause, idleParts, HarvestOK
    <2> QED BY <1>6, <1>s, <1>d, <1>m, <2>1, <2>2 DEF Pause, idleParts
<1>7. CASE Resume
    <2>1. InstanceOK'
        BY <1>7 DEF Resume, ResumeManager, InstanceOK
    <2>2. HarvestOK'
        BY <1>7 DEF Resume, ResumeManager, idleParts, HarvestOK
    <2> QED BY <1>7, <1>s, <1>d, <1>m, <2>1, <2>2 DEF Resume, ResumeManager, idleParts
<1>8. CASE Stop
    <2>1. InstanceOK'
        BY <1>8 DEF Stop, StopManager, ClearInterval, InstanceOK
    <2>2. HarvestOK'
        BY <1>8 DEF Stop, StopManager, idleParts, HarvestOK
    <2> QED BY <1>8, <1>s, <1>d, <1>m, <2>1, <2>2 DEF Stop, idleParts
<1>9. CASE Destroy
    <2>1. InstanceOK'
        BY <1>9 DEF Destroy, ClearQueue, StopManager, ClearInterval, InstanceOK
    <2>2. HarvestOK'
        BY <1>9 DEF Destroy, ClearQueue, StopManager, idleParts, HarvestOK
    <2>3. QueueOK' /\ CallsOK' /\ FateOK'
        BY <1>9 DEF Destroy, ClearQueue, idleParts, QueueOK, CallsOK, FateOK
    <2> QED BY <1>9, <1>s, <1>d, <2>1, <2>2, <2>3 DEF Destroy, ClearQueue, idleParts
<1>10. CASE UpdateSession
    <2>1. HarvestOK' /\ SessionOK'
        BY <1>10 DEF UpdateSession, HarvestOK, SessionOK
    <2> QED BY <1>10, <1>s, <1>i, <1>m, <2>1 DEF UpdateSession
<1>11. CASE UNCHANGED vars
    BY <1>11, <1>s, <1>i, <1>h, <1>d, <1>m DEF vars
<1>12. CASE OrphanMoves
    BY <1>12, <1>i, <1>h, <1>d, <1>m, OrphanLeavesClient, OrphanKeepsTypes
<1> QED
    BY <1>1, <1>2, <1>3, <1>4, <1>5, <1>6, <1>7, <1>8, <1>9, <1>10, <1>11, <1>12
    DEF Next, OrphanMoves

\* The queue never holds more packets than it may, a call never counts more
\* attempts than it has, and every variable keeps its type.
THEOREM TypeCorrect == Spec => []TypeOK
<1> QED BY TypeInit, TypeStep, LifecycleAlwaysConsistent, PTL DEF Spec

-----------------------------------------------------------------------------
(* Where the packets are *)

\* A call in progress keeps its batch, or it ends.
LEMMA SendShape ==
    ASSUME TypeOK, NEW c \in Calls, Send(c)
    PROVE  /\ calls[c].step # "idle"
           /\ \/ /\ queue' = queue /\ fate' = fate
                 /\ \E n \in Call : /\ calls' = [calls EXCEPT ![c] = n]
                                    /\ n.batch = calls[c].batch /\ n.step # "idle"
              \/ \E how \in {"answered", "gone"} : End(c, how)
<1>1. CASE Ingest(c)
    <2>1. \E n \in Call : /\ calls' = [calls EXCEPT ![c] = n]
                          /\ n.batch = calls[c].batch /\ n.step = "sent"
        BY <1>1, IngestFields
    <2> QED BY <1>1, <2>1 DEF Ingest
<1>2. CASE Answer(c)
    BY <1>2, AnswerFields DEF Answer
<1>3. CASE Succeed(c) \/ BeRefused(c) \/ GiveUp(c)
    BY <1>3, Ends
<1>4. CASE BackOff(c)
    BY <1>4, BackOffFields DEF BackOff, Fails
<1>5. CASE Retry(c)
    BY <1>5, RetryFields DEF Retry
<1> QED BY <1>1, <1>2, <1>3, <1>4, <1>5 DEF Send

Held(c) == IdsOf(calls[c].batch)

LEMMA HeldNext ==
    ASSUME TypeOK, NEW c \in Calls, NEW n \in Call, calls' = [calls EXCEPT ![c] = n]
    PROVE  Held(c)' = IdsOf(n.batch) /\ \A d \in Calls \ {c} : Held(d)' = Held(d)
BY CallsType DEF Held, IdsOf

LEMMA NothingHeld == IdsOf(<<>>) = {}
BY DEF IdsOf

DestroyedStep ==
    status = "destroyed" =>
         /\ made' = made /\ status' = "destroyed"
         /\ \A c \in Calls : IdsOf(calls'[c].batch) \subseteq IdsOf(calls[c].batch)

LEMMA DestroyedHolds == TypeOK /\ LifecycleConsistent /\ [Next]_vars => DestroyedStep
<1> SUFFICES ASSUME TypeOK, LifecycleConsistent, [Next]_vars, status = "destroyed"
             PROVE  /\ made' = made /\ status' = "destroyed"
                    /\ \A d \in Calls : IdsOf(calls'[d].batch) \subseteq IdsOf(calls[d].batch)
    BY DEF DestroyedStep
<1>1. intervals = 0 /\ ~listening /\ collecting = "off" /\ queue = <<>>
    BY DEF LifecycleConsistent
<1>2. ASSUME NEW c \in Calls, Send(c)
      PROVE  /\ made' = made /\ status' = "destroyed"
             /\ \A d \in Calls : IdsOf(calls'[d].batch) \subseteq IdsOf(calls[d].batch)
    <2>1. made' = made /\ status' = "destroyed"
        BY <1>2, SendKeepsLifecycle DEF lifecycle, harvest
    <2>2. \E n \in Call : /\ calls' = [calls EXCEPT ![c] = n]
                          /\ n.batch \in {calls[c].batch, <<>>}
        <3>1. CASE \E how \in {"answered", "gone"} : End(c, how)
            BY <1>1, <3>1, NoCallFields DEF End
        <3> QED BY <1>2, <3>1, SendShape
    <2>3. PICK n \in Call : /\ calls' = [calls EXCEPT ![c] = n]
                            /\ n.batch \in {calls[c].batch, <<>>}
        BY <2>2
    <2>4. \A d \in Calls : calls'[d].batch \in {calls[d].batch, <<>>}
        BY <2>3, CallsType
    <2> QED BY <2>1, <2>4, NothingHeld
<1>3. CASE UNCHANGED <<status, made, calls>>
    BY <1>3
<1>4. CASE Activity \/ Tick \/ FlushNow \/ Hide
    BY <1>1, <1>4 DEF Activity, Tick, FlushNow, Hide, SendBeacon
<1>5. CASE Start \/ Pause \/ Resume \/ Stop
    BY <1>5 DEF Start, Pause, Resume, ResumeManager, Stop
<1>6. CASE Destroy
    BY <1>6 DEF Destroy, ClearQueue, idleParts
<1>7. CASE UpdateSession
    BY <1>3, <1>7 DEF UpdateSession, lifecycle
<1>8. CASE UNCHANGED vars
    BY <1>3, <1>8 DEF vars, lifecycle, harvest
<1>9. CASE OrphanMoves
    BY <1>3, <1>9, OrphanLeavesClient DEF lifecycle, harvest
<1> QED BY <1>2, <1>4, <1>5, <1>6, <1>7, <1>8, <1>9 DEF Next, OrphanMoves

\* Once destroyed, an instance builds nothing and no call takes a batch: what is
\* in progress ends, whatever the application calls afterwards.
THEOREM DestroyedStaysSilent == Spec => DestroyedSendsNothingNew
<1>1. Spec => [][DestroyedStep]_vars
    BY DestroyedHolds, LifecycleAlwaysConsistent, TypeCorrect, PTL DEF Spec
<1> QED BY <1>1 DEF DestroyedSendsNothingNew, DestroyedStep

-----------------------------------------------------------------------------
(* Packets stay in the order they were built in *)

Increasing(s) == \A i, j \in DOMAIN s : i < j => s[i].id < s[j].id

Before(s, t) == \A x \in IdsOf(s), y \in IdsOf(t) : x < y

LEMMA IdsType ==
    ASSUME NEW q \in Seq(Packet)
    PROVE  /\ IdsOf(q) \subseteq Packets
           /\ \A x : x \in IdsOf(q) <=> \E i \in 1 .. Len(q) : x = q[i].id
<1>1. DOMAIN q = 1 .. Len(q) /\ \A i \in 1 .. Len(q) : q[i] \in Packet
    OBVIOUS
<1>2. \A i \in 1 .. Len(q) : q[i].id \in Packets
    BY <1>1 DEF Packet
<1> QED BY <1>1, <1>2 DEF IdsOf

LEMMA SplitOrdered ==
    ASSUME NEW q \in Seq(Packet), NEW n \in Nat, Increasing(q)
    PROVE  /\ Increasing(Dequeued(q, n)) /\ Increasing(Left(q, n))
           /\ Before(Dequeued(q, n), Left(q, n))
           /\ IdsOf(q) = IdsOf(Dequeued(q, n)) \cup IdsOf(Left(q, n))
<1> DEFINE d == Dequeued(q, n)
           r == Left(q, n)
           k == Least(n, Len(q))
<1>1. /\ k \in 0 .. Len(q)
      /\ d \in Seq(Packet) /\ r \in Seq(Packet)
      /\ Len(d) = k /\ Len(r) = Len(q) - k
      /\ \A i \in 1 .. k : d[i] = q[i]
      /\ \A i \in 1 .. Len(q) - k : r[i] = q[k + i]
    BY Split
<1>2. Len(q) \in Nat /\ k \in Nat /\ k <= Len(q)
    BY <1>1
<1> HIDE DEF d, r, k
<1>3. \A i, j \in 1 .. Len(q) : i < j => q[i].id < q[j].id
    BY DEF Increasing
<1>4. Increasing(d)
    <2>1. DOMAIN d = 1 .. k
        BY <1>1
    <2> QED BY <1>1, <1>2, <1>3, <2>1 DEF Increasing
<1>5. Increasing(r)
    <2>1. DOMAIN r = 1 .. Len(q) - k
        BY <1>1
    <2>2. ASSUME NEW i \in 1 .. Len(q) - k, NEW j \in 1 .. Len(q) - k, i < j
          PROVE  r[i].id < r[j].id
        <3>1. k + i \in 1 .. Len(q) /\ k + j \in 1 .. Len(q) /\ k + i < k + j
            BY <1>2, <2>2
        <3> QED BY <1>1, <1>3, <3>1
    <2> QED BY <2>1, <2>2 DEF Increasing
<1>6. Before(d, r)
    <2> SUFFICES ASSUME NEW x \in IdsOf(d), NEW y \in IdsOf(r) PROVE x < y
        BY DEF Before
    <2>1. PICK i \in 1 .. k : x = d[i].id
        BY <1>1, IdsType
    <2>2. PICK j \in 1 .. Len(q) - k : y = r[j].id
        BY <1>1, IdsType
    <2>3. i \in 1 .. Len(q) /\ k + j \in 1 .. Len(q) /\ i < k + j
        BY <1>2
    <2> QED BY <1>1, <1>3, <2>1, <2>2, <2>3
<1>7. IdsOf(q) = IdsOf(d) \cup IdsOf(r)
    <2>1. ASSUME NEW x \in IdsOf(q) PROVE x \in IdsOf(d) \cup IdsOf(r)
        <3>1. PICK i \in 1 .. Len(q) : x = q[i].id
            BY IdsType
        <3>2. CASE i <= k
            <4>1. i \in 1 .. k
                BY <1>2, <3>2
            <4>2. x = d[i].id
                BY <1>1, <3>1, <4>1
            <4> QED BY <1>1, <4>1, <4>2, IdsType
        <3>3. CASE i > k
            <4>1. i - k \in 1 .. Len(q) - k /\ k + (i - k) = i
                BY <1>2, <3>3
            <4>2. x = r[i - k].id
                BY <1>1, <3>1, <4>1
            <4> QED BY <1>1, <4>1, <4>2, IdsType
        <3> QED BY <1>2, <3>2, <3>3
    <2>2. ASSUME NEW x \in IdsOf(d) PROVE x \in IdsOf(q)
        <3>1. PICK i \in 1 .. k : x = d[i].id
            BY <1>1, IdsType
        <3>2. i \in 1 .. Len(q) /\ x = q[i].id
            BY <1>1, <1>2, <3>1
        <3> QED BY <3>2, IdsType
    <2>3. ASSUME NEW x \in IdsOf(r) PROVE x \in IdsOf(q)
        <3>1. PICK i \in 1 .. Len(q) - k : x = r[i].id
            BY <1>1, IdsType
        <3>2. k + i \in 1 .. Len(q) /\ x = q[k + i].id
            BY <1>1, <1>2, <3>1
        <3> QED BY <3>2, IdsType
    <2> QED BY <2>1, <2>2, <2>3
<1> QED BY <1>4, <1>5, <1>6, <1>7 DEF d, r

\* What has left a full queue, what was built.
Evicted(stop) == IF Evicts(stop) THEN {Head(queue).id} ELSE {}
Added(stop) == IF Builds(stop) THEN {made + 1} ELSE {}

LEMMA EnqueuedOrdered ==
    ASSUME TypeOK, NEW stop \in BOOLEAN, Build(stop),
           Increasing(queue), \A x \in IdsOf(queue) : x <= made
    PROVE  /\ Increasing(Enqueued(stop))
           /\ IdsOf(Enqueued(stop)) = (IdsOf(queue) \ Evicted(stop)) \cup Added(stop)
           /\ Evicted(stop) \subseteq IdsOf(queue)
<1> DEFINE k == IF Evicts(stop) THEN 1 ELSE 0
           b == IF Builds(stop) THEN 1 ELSE 0
           e == Enqueued(stop)
           m == Len(queue) - k
<1>1. /\ k \in 0 .. Len(queue)
      /\ e \in Seq(Packet) /\ Len(e) = Len(queue) - k + b /\ Len(e) <= maxSize
      /\ \A i \in 1 .. Len(queue) - k : e[i] = queue[i + k]
      /\ Builds(stop) => e[Len(e)] = Built
      /\ Evicts(stop) => queue # <<>> /\ Head(queue) = queue[1]
    BY EnqueuedShape
<1>2. /\ queue \in Seq(Packet) /\ Len(queue) \in Nat /\ made \in Nat
      /\ k \in {0, 1} /\ b \in {0, 1} /\ m \in Nat
    BY <1>1 DEF TypeOK
<1>3. Builds(stop) => b = 1 /\ Added(stop) = {made + 1} /\ Built.id = made + 1
    BY BuiltType DEF Added
<1>4. ~Builds(stop) => b = 0 /\ Added(stop) = {}
    BY DEF Added
<1>5. /\ Evicts(stop) => k = 1 /\ Evicted(stop) = {Head(queue).id}
      /\ ~Evicts(stop) => k = 0 /\ Evicted(stop) = {}
    BY DEF Evicted
<1>6. /\ Len(e) = m + b /\ \A i \in 1 .. m : e[i] = queue[i + k]
      /\ Len(queue) = m + k
    BY <1>1, <1>2
<1> HIDE DEF k, b, e, m
<1>7. \A i \in 1 .. m : i + k \in 1 .. Len(queue)
    BY <1>2, <1>6
<1>8. \A i, j \in 1 .. Len(queue) : i < j => queue[i].id < queue[j].id
    BY DEF Increasing
<1>9. \A i \in 1 .. Len(queue) : queue[i].id \in Packets /\ queue[i].id <= made
    BY <1>2, IdsType
<1>p. \A x \in Packets : x \in Nat
    BY DEF Packets
<1>10. Increasing(e)
    <2> SUFFICES ASSUME NEW i \in 1 .. m + b, NEW j \in 1 .. m + b, i < j
                 PROVE  e[i].id < e[j].id
        BY <1>1, <1>6 DEF Increasing
    <2>1. i \in 1 .. m /\ e[i].id = queue[i + k].id /\ i + k \in 1 .. Len(queue)
        BY <1>2, <1>6, <1>7
    <2>2. CASE j \in 1 .. m
        <3>1. e[j] = queue[j + k] /\ j + k \in 1 .. Len(queue)
            BY <1>6, <1>7, <2>2
        <3>2. i + k < j + k
            BY <1>2
        <3> QED BY <1>8, <2>1, <3>1, <3>2
    <2>3. CASE j \notin 1 .. m
        <3>1. b = 1 /\ j = m + 1
            BY <1>2, <2>3
        <3>2. Builds(stop)
            BY <1>4, <3>1
        <3>3. e[j].id = made + 1
            BY <1>1, <1>3, <1>6, <3>1, <3>2
        <3>4. queue[i + k].id \in Nat /\ queue[i + k].id <= made
            BY <1>9, <1>p, <2>1
        <3> QED BY <1>2, <2>1, <3>3, <3>4
    <2> QED BY <2>2, <2>3
<1>11. Evicted(stop) \subseteq IdsOf(queue)
    <2>1. CASE Evicts(stop)
        <3>1. 1 \in 1 .. Len(queue) /\ Head(queue) = queue[1]
            BY <1>1, <1>2, <2>1
        <3> QED BY <1>2, <1>5, <2>1, <3>1, IdsType
    <2> QED BY <1>5, <2>1
<1>12. ASSUME NEW x \in IdsOf(e) PROVE x \in (IdsOf(queue) \ Evicted(stop)) \cup Added(stop)
    <2>1. PICK i \in 1 .. m + b : x = e[i].id
        BY <1>1, <1>6, IdsType
    <2>2. CASE i \in 1 .. m
        <3>1. x = queue[i + k].id /\ i + k \in 1 .. Len(queue)
            BY <1>6, <1>7, <2>1, <2>2
        <3>2. x \in IdsOf(queue)
            BY <1>2, <3>1, IdsType
        <3>3. CASE Evicts(stop)
            <4>1. k = 1 /\ 1 \in 1 .. Len(queue) /\ 1 < i + k /\ Evicted(stop) = {queue[1].id}
                BY <1>1, <1>2, <1>5, <2>2, <3>1, <3>3
            <4>2. queue[1].id < x
                BY <1>8, <3>1, <4>1
            <4>3. queue[1].id \in Nat /\ x \in Nat
                BY <1>9, <1>p, <3>1, <4>1
            <4> QED BY <3>2, <4>1, <4>2, <4>3
        <3> QED BY <1>5, <3>2, <3>3
    <2>3. CASE i \notin 1 .. m
        <3>1. b = 1 /\ i = m + 1
            BY <1>2, <2>3
        <3>2. Builds(stop)
            BY <1>4, <3>1
        <3> QED BY <1>1, <1>3, <1>6, <2>1, <3>1, <3>2
    <2> QED BY <2>2, <2>3
<1>13. ASSUME NEW x \in IdsOf(queue) \ Evicted(stop) PROVE x \in IdsOf(e)
    <2>1. PICK i \in 1 .. Len(queue) : x = queue[i].id
        BY <1>2, IdsType
    <2>2. i - k \in 1 .. m /\ (i - k) + k = i
        <3>1. CASE Evicts(stop)
            <4>1. i # 1
                BY <1>1, <1>5, <2>1, <3>1
            <4> QED BY <1>2, <1>5, <1>6, <3>1, <4>1
        <3>2. CASE ~Evicts(stop)
            BY <1>2, <1>5, <1>6, <3>2
        <3> QED BY <3>1, <3>2
    <2>3. e[i - k] = queue[i]
        BY <1>6, <2>2
    <2>4. i - k \in 1 .. Len(e)
        BY <1>2, <1>6, <2>2
    <2> QED BY <1>1, <2>1, <2>3, <2>4, IdsType
<1>14. ASSUME NEW x \in Added(stop) PROVE x \in IdsOf(e)
    <2>1. Builds(stop)
        BY <1>4, <1>14
    <2>2. Len(e) \in 1 .. Len(e) /\ x = e[Len(e)].id
        BY <1>1, <1>2, <1>3, <1>6, <1>14, <2>1
    <2> QED BY <1>1, <2>2, IdsType
<1> QED BY <1>10, <1>11, <1>12, <1>13, <1>14 DEF e

-----------------------------------------------------------------------------
(* Every packet is in one place *)

\* The queue q holds packets with increasing numbers, up to m, above those that
\* are being sent, and no packet is in two batches.
Ordered(q, m) ==
    /\ Increasing(q) /\ \A x \in IdsOf(q) : x <= m
    /\ \A c \in Calls : /\ Increasing(calls[c].batch)
                        /\ Before(calls[c].batch, q)
                        /\ \A x \in Held(c) : x <= m
    /\ \A c, d \in Calls : c # d => Held(c) \cap Held(d) = {}

IdleHoldsNothing == \A c \in Calls : calls[c].step = "idle" => calls[c].batch = <<>>

\* A packet is live as long as it is somewhere.
Somewhere(p, q) == p \in IdsOf(q) \/ \E c \in Calls : p \in Held(c)

LiveIsSomewhere == \A p \in Packets : fate[p] = "live" <=> Somewhere(p, queue)

PlaceInv == Ordered(queue, made) /\ IdleHoldsNothing /\ LiveIsSomewhere

LEMMA CallTypes ==
    ASSUME TypeOK, NEW c \in Calls
    PROVE  calls[c] \in Call /\ calls[c].batch \in Seq(Packet) /\ Held(c) \subseteq Packets
<1>1. calls[c] \in Call /\ calls[c].batch \in Seq(Packet)
    BY CallsType DEF Call
<1> QED BY <1>1, IdsType DEF Held

LEMMA PacketNumbers == \A p \in Packets : p \in Nat
BY DEF Packets

LEMMA HarvestOrdered ==
    ASSUME TypeOK, NEW stop \in BOOLEAN, Build(stop), Ordered(queue, made)
    PROVE  Ordered(Enqueued(stop), made') /\ Enqueued(stop) \in Seq(Packet)
<1> DEFINE e == Enqueued(stop)
<1>1. /\ Increasing(e) /\ e \in Seq(Packet)
      /\ IdsOf(e) = (IdsOf(queue) \ Evicted(stop)) \cup Added(stop)
    BY EnqueuedOrdered, EnqueuedShape DEF Ordered
<1>2. \A x \in IdsOf(e) : x \in IdsOf(queue) \/ (x = made + 1 /\ Builds(stop))
    <2>1. \A x \in Added(stop) : x = made + 1 /\ Builds(stop)
        BY DEF Added
    <2> QED BY <1>1, <2>1
<1>3. made \in Nat /\ (made' = IF Builds(stop) THEN made + 1 ELSE made)
    BY DEF TypeOK, Build
<1>4. made' \in Nat /\ made <= made' /\ (Builds(stop) => made' = made + 1)
    BY <1>3
<1>5. IdsOf(queue) \subseteq Packets
    BY IdsType DEF TypeOK
<1> HIDE DEF e
<1>6. \A x \in IdsOf(e) : x <= made'
    BY <1>2, <1>3, <1>4, <1>5, PacketNumbers DEF Ordered
<1>7. ASSUME NEW c \in Calls
      PROVE  Before(calls[c].batch, e) /\ \A x \in Held(c) : x <= made'
    <2>1. \A x \in Held(c) : x \in Nat /\ x <= made
        BY CallTypes, PacketNumbers DEF Ordered
    <2>2. \A x \in Held(c), y \in IdsOf(queue) : x < y
        BY DEF Ordered, Before, Held
    <2>3. \A x \in Held(c), y \in IdsOf(e) : x < y
        BY <1>2, <1>3, <2>1, <2>2
    <2>4. \A x \in Held(c) : x <= made'
        BY <1>3, <1>4, <2>1
    <2> QED BY <2>3, <2>4 DEF Before, Held
<1> QED BY <1>1, <1>6, <1>7 DEF e, Ordered

\* A call takes the front of a queue, whatever it held before.
LEMMA TakesOrdered ==
    ASSUME TypeOK, NEW c \in Calls, NEW q \in Seq(Packet), NEW n \in Nat,
           Ordered(q, made'), Takes(c, q, n)
    PROVE  /\ Ordered(queue, made)'
           /\ IdsOf(q) = Held(c)' \cup IdsOf(queue')
           /\ \A d \in Calls \ {c} : Held(d)' = Held(d)
<1> DEFINE b == Dequeued(q, n)
<1>1. b \in Seq(Packet) /\ Left(q, n) \in Seq(Packet)
    BY Split
<1>2. /\ Increasing(b) /\ Increasing(queue') /\ Before(b, queue')
      /\ IdsOf(q) = IdsOf(b) \cup IdsOf(queue')
    BY SplitOrdered DEF Takes, Ordered
<1>3. Sending(b) \in Call /\ Sending(b).batch = b /\ calls' = [calls EXCEPT ![c] = Sending(b)]
    BY <1>1, SendingFields DEF Takes
<1> HIDE DEF b
<1>4. /\ Held(c)' = IdsOf(b) /\ calls'[c].batch = b
      /\ \A d \in Calls \ {c} : Held(d)' = Held(d) /\ calls'[d] = calls[d]
    BY <1>3, HeldNext, CallsType
<1>5. ASSUME NEW d \in Calls
      PROVE  /\ Increasing(calls'[d].batch) /\ Before(calls'[d].batch, queue')
             /\ \A x \in Held(d)' : x <= made'
    <2>1. CASE d = c
        BY <1>2, <1>4, <2>1 DEF Ordered
    <2>2. CASE d # c
        <3>1. \A x \in IdsOf(calls[d].batch), y \in IdsOf(q) : x < y
            BY DEF Ordered, Before
        <3>2. Before(calls[d].batch, queue')
            BY <1>2, <3>1 DEF Before
        <3> QED BY <1>4, <2>2, <3>2 DEF Ordered
    <2> QED BY <2>1, <2>2
<1>6. ASSUME NEW d \in Calls \ {c} PROVE Held(d)' \cap Held(c)' = {}
    <2>1. \A x \in Held(d), y \in IdsOf(q) : x < y
        BY DEF Ordered, Before, Held
    <2>2. \A x \in Held(d) : x \in Nat
        BY CallTypes, PacketNumbers
    <2>3. \A x \in Held(d) : x \notin IdsOf(q)
        BY <2>1, <2>2
    <2> QED BY <1>2, <1>4, <2>3
<1>7. \A d, f \in Calls : d # f => Held(d)' \cap Held(f)' = {}
    BY <1>4, <1>6 DEF Ordered
<1>8. \A x \in IdsOf(queue') : x <= made'
    BY <1>2 DEF Ordered
<1> QED BY <1>2, <1>4, <1>5, <1>7, <1>8 DEF Ordered

\* What a harvest makes of the packets, before one is taken from the queue.
LEMMA HarvestedLive ==
    ASSUME TypeOK, PlaceInv, NEW stop \in BOOLEAN, Build(stop),
           NEW gone, NEW how \in {"live", "gone"}, gone = {} \/ how = "gone",
           Harvested(stop, gone, how)
    PROVE  \A p \in Packets :
             fate'[p] = "live" <=> p \notin gone /\ Somewhere(p, Enqueued(stop))
<1> SUFFICES ASSUME NEW p \in Packets
             PROVE  fate'[p] = "live" <=> p \notin gone /\ Somewhere(p, Enqueued(stop))
    OBVIOUS
<1>1. /\ IdsOf(Enqueued(stop)) = (IdsOf(queue) \ Evicted(stop)) \cup Added(stop)
      /\ Evicted(stop) \subseteq IdsOf(queue)
    BY EnqueuedOrdered DEF PlaceInv, Ordered
<1>2. fate'[p] = IF p \in gone THEN how
                 ELSE IF p \in Evicted(stop) THEN "gone"
                 ELSE IF p \in Added(stop) THEN "live" ELSE fate[p]
    BY DEF Harvested, Evicted, Added
<1>3. made \in Nat /\ (\A x \in IdsOf(queue) : x \in Nat /\ x <= made)
    BY IdsType, PacketNumbers DEF TypeOK, PlaceInv, Ordered
<1>4. p \in Evicted(stop) => p \notin Added(stop)
    BY <1>1, <1>3 DEF Added
<1>5. p \in Evicted(stop) => \A c \in Calls : p \notin Held(c)
    <2> SUFFICES ASSUME p \in IdsOf(queue), NEW c \in Calls, p \in Held(c) PROVE FALSE
        BY <1>1
    <2>1. p < p /\ p \in Nat
        BY PacketNumbers DEF PlaceInv, Ordered, Before, Held
    <2> QED BY <2>1
<1>6. fate[p] = "live" <=> Somewhere(p, queue)
    BY DEF PlaceInv, LiveIsSomewhere
<1> QED BY <1>1, <1>2, <1>4, <1>5, <1>6 DEF Somewhere

LEMMA PlaceInit == Init => PlaceInv
<1> SUFFICES ASSUME Init PROVE PlaceInv
    OBVIOUS
<1>1. queue = <<>> /\ \A c \in Calls : calls[c].batch = <<>> /\ Held(c) = {}
    BY NoCallFields, NothingHeld DEF Init, Held
<1>2. IdsOf(queue) = {} /\ DOMAIN <<>> = {}
    BY <1>1, NothingHeld
<1>3. Ordered(queue, made)
    BY <1>1, <1>2 DEF Ordered, Increasing, Before
<1>4. LiveIsSomewhere
    BY <1>1, <1>2 DEF LiveIsSomewhere, Somewhere, Init
<1> QED BY <1>1, <1>3, <1>4 DEF PlaceInv, IdleHoldsNothing

\* A step of a call that keeps its batch.
LEMMA SameBatch ==
    ASSUME TypeOK, PlaceInv, UNCHANGED <<queue, fate, made>>, NEW c \in Calls, NEW n \in Call,
           calls' = [calls EXCEPT ![c] = n], n.batch = calls[c].batch, n.step # "idle"
    PROVE  PlaceInv'
<1>1. \A d \in Calls : calls'[d].batch = calls[d].batch /\ Held(d)' = Held(d)
    BY CallsType DEF Held
<1>2. \A d \in Calls : calls'[d].step = "idle" => calls[d].step = "idle"
    BY CallsType
<1>3. Ordered(queue, made)'
    BY <1>1 DEF PlaceInv, Ordered
<1>4. LiveIsSomewhere'
    BY <1>1 DEF PlaceInv, LiveIsSomewhere, Somewhere
<1> QED BY <1>1, <1>2, <1>3, <1>4 DEF PlaceInv, IdleHoldsNothing

LEMMA EndKeepsPlaces ==
    ASSUME TypeOK, PlaceInv, made' = made, NEW c \in Calls,
           NEW how \in {"answered", "gone"}, End(c, how)
    PROVE  PlaceInv'
<1>1. \A p \in Packets : fate'[p] = IF p \in Held(c) THEN how ELSE fate[p]
    BY DEF End, Held
<1>2. \A p \in Packets : p \in Held(c) =>
        p \notin IdsOf(queue) /\ \A d \in Calls \ {c} : p \notin Held(d)
    <2>1. \A x \in Held(c), y \in IdsOf(queue) : x < y
        BY DEF PlaceInv, Ordered, Before, Held
    <2>2. \A p \in Packets : ~(p < p)
        BY PacketNumbers
    <2> QED BY <2>1, <2>2 DEF PlaceInv, Ordered
<1>3. \A p \in Packets : fate'[p] = "live" <=>
        p \in IdsOf(queue) \/ \E d \in Calls \ {c} : p \in Held(d)
    BY <1>1, <1>2 DEF PlaceInv, LiveIsSomewhere, Somewhere
<1>4. CASE Takes(Flush, queue, BatchSize) /\ c = Flush
    <2>1. queue \in Seq(Packet) /\ BatchSize \in Nat
        BY DEF TypeOK
    <2>2. Ordered(queue, made')
        BY DEF PlaceInv
    <2>3. /\ Ordered(queue, made)'
          /\ IdsOf(queue) = Held(c)' \cup IdsOf(queue')
          /\ \A d \in Calls \ {c} : Held(d)' = Held(d)
        BY <1>4, <2>1, <2>2, TakesOrdered
    <2>4. LiveIsSomewhere'
        BY <1>3, <2>3 DEF LiveIsSomewhere, Somewhere
    <2>5. IdleHoldsNothing'
        <3>1. Dequeued(queue, BatchSize) \in Seq(Packet)
            BY <2>1, Split
        <3>2. Sending(Dequeued(queue, BatchSize)).step = "sent"
            BY <3>1, SendingFields
        <3> QED BY <1>4, <3>2, CallsType DEF PlaceInv, IdleHoldsNothing, Takes
    <2> QED BY <2>3, <2>4, <2>5 DEF PlaceInv
<1>5. CASE queue' = queue /\ calls' = [calls EXCEPT ![c] = NoCall]
    <2>1. /\ calls'[c].batch = <<>> /\ Held(c)' = {}
          /\ \A d \in Calls \ {c} : Held(d)' = Held(d) /\ calls'[d] = calls[d]
        BY <1>5, HeldNext, NoCallFields, NothingHeld, CallsType
    <2>2. LiveIsSomewhere'
        BY <1>3, <1>5, <2>1 DEF LiveIsSomewhere, Somewhere
    <2>3. IdleHoldsNothing'
        BY <2>1 DEF PlaceInv, IdleHoldsNothing
    <2>4. Increasing(<<>>) /\ Before(<<>>, queue)
        BY NothingHeld DEF Increasing, Before
    <2>5. Ordered(queue, made)'
        <3>1. \A d \in Calls : /\ Increasing(calls'[d].batch) /\ Before(calls'[d].batch, queue)
                               /\ \A x \in Held(d)' : x <= made
            BY <2>1, <2>4 DEF PlaceInv, Ordered
        <3>2. \A d, f \in Calls : d # f => Held(d)' \cap Held(f)' = {}
            BY <2>1 DEF PlaceInv, Ordered
        <3> QED BY <1>5, <3>1, <3>2 DEF PlaceInv, Ordered
    <2> QED BY <2>2, <2>3, <2>5 DEF PlaceInv
<1> QED BY <1>4, <1>5, EndShape

\* An idle call takes from the queue that a harvest leaves.
LEMMA HarvestKeepsPlaces ==
    ASSUME TypeOK, PlaceInv, NEW stop \in BOOLEAN, Build(stop), Harvested(stop, {}, "live"),
           NEW c \in Calls, NEW n \in Nat,
           \/ queue' = Enqueued(stop) /\ calls' = calls
           \/ Takes(c, Enqueued(stop), n) /\ calls[c].step = "idle"
    PROVE  PlaceInv'
<1> DEFINE e == Enqueued(stop)
<1>1. Ordered(e, made') /\ e \in Seq(Packet)
    BY HarvestOrdered DEF PlaceInv
<1>2. \A p \in Packets : fate'[p] = "live" <=> Somewhere(p, e)
    BY HarvestedLive
<1> HIDE DEF e
<1>3. CASE queue' = e /\ calls' = calls
    <2>1. \A d \in Calls : Held(d)' = Held(d)
        BY <1>3 DEF Held
    <2>2. Ordered(queue, made)'
        BY <1>1, <1>3, <2>1 DEF Ordered
    <2>3. LiveIsSomewhere'
        BY <1>2, <1>3, <2>1 DEF LiveIsSomewhere, Somewhere
    <2>4. IdleHoldsNothing'
        BY <1>3 DEF PlaceInv, IdleHoldsNothing
    <2> QED BY <2>2, <2>3, <2>4 DEF PlaceInv
<1>4. CASE Takes(c, e, n) /\ calls[c].step = "idle"
    <2>1. /\ Ordered(queue, made)'
          /\ IdsOf(e) = Held(c)' \cup IdsOf(queue')
          /\ \A d \in Calls \ {c} : Held(d)' = Held(d)
        BY <1>1, <1>4, TakesOrdered
    <2>2. Held(c) = {}
        BY <1>4, NothingHeld DEF PlaceInv, IdleHoldsNothing, Held
    <2>3. LiveIsSomewhere'
        BY <1>2, <2>1, <2>2 DEF LiveIsSomewhere, Somewhere
    <2>4. IdleHoldsNothing'
        <3>1. Dequeued(e, n) \in Seq(Packet)
            BY <1>1, Split
        <3>2. Sending(Dequeued(e, n)).step = "sent"
            BY <3>1, SendingFields
        <3> QED BY <1>4, <3>2, CallsType DEF PlaceInv, IdleHoldsNothing, Takes
    <2> QED BY <2>1, <2>3, <2>4 DEF PlaceInv
<1> QED BY <1>3, <1>4 DEF e

\* A beacon takes from the queue that a harvest leaves.
LEMMA BeaconKeepsPlaces ==
    ASSUME TypeOK, PlaceInv, NEW stop \in BOOLEAN, Build(stop), NEW n \in Nat,
           Harvested(stop, IdsOf(Dequeued(Enqueued(stop), n)), "gone"),
           queue' = Left(Enqueued(stop), n), calls' = calls
    PROVE  PlaceInv'
<1> DEFINE e == Enqueued(stop)
           b == Dequeued(e, n)
<1>1. Ordered(e, made') /\ e \in Seq(Packet)
    BY HarvestOrdered DEF PlaceInv
<1>2. \A p \in Packets : fate'[p] = "live" <=> p \notin IdsOf(b) /\ Somewhere(p, e)
    BY HarvestedLive
<1>3. queue' = Left(e, n)
    OBVIOUS
<1> HIDE DEF e
<1>4. /\ Increasing(queue') /\ Before(b, queue')
      /\ IdsOf(e) = IdsOf(b) \cup IdsOf(queue')
    BY <1>1, <1>3, SplitOrdered DEF Ordered
<1> HIDE DEF b
<1>5. \A d \in Calls : Held(d)' = Held(d)
    BY DEF Held
<1>6. \A p \in Packets : p \in IdsOf(b) => p \notin IdsOf(queue') /\ \A d \in Calls : p \notin Held(d)
    <2>1. \A p \in Packets : ~(p < p)
        BY PacketNumbers
    <2>2. \A d \in Calls : \A x \in Held(d), y \in IdsOf(e) : x < y
        BY <1>1 DEF Ordered, Before, Held
    <2> QED BY <1>4, <2>1, <2>2 DEF Before
<1>7. LiveIsSomewhere'
    BY <1>2, <1>4, <1>5, <1>6 DEF LiveIsSomewhere, Somewhere
<1>8. IdleHoldsNothing'
    BY DEF PlaceInv, IdleHoldsNothing
<1>9. Ordered(queue, made)'
    <2>1. \A d \in Calls : Increasing(calls[d].batch) /\ Before(calls[d].batch, queue')
                           /\ \A x \in Held(d) : x <= made'
        BY <1>1, <1>4 DEF Ordered, Before
    <2>2. \A d, f \in Calls : d # f => Held(d) \cap Held(f) = {}
        BY <1>1 DEF Ordered
    <2>3. \A x \in IdsOf(queue') : x <= made'
        BY <1>1, <1>4 DEF Ordered
    <2> QED BY <1>4, <1>5, <2>1, <2>2, <2>3 DEF Ordered
<1> QED BY <1>7, <1>8, <1>9 DEF PlaceInv

LEMMA PlaceStep == TypeOK /\ PlaceInv /\ [Next]_vars => PlaceInv'
<1> SUFFICES ASSUME TypeOK, PlaceInv, [Next]_vars PROVE PlaceInv'
    OBVIOUS
<1>f. Flush \in Calls /\ Strays \subseteq Calls /\ BatchSize \in Nat /\ 2 * BatchSize \in Nat
    BY DEF Calls
\* A step that moves no packet.
<1>s. ASSUME UNCHANGED <<queue, calls, fate, made>> PROVE PlaceInv'
    BY <1>s DEF PlaceInv, Ordered, IdleHoldsNothing, LiveIsSomewhere, Somewhere, Held
<1>1. CASE Activity
    BY <1>1, <1>s DEF Activity
<1>2. CASE Tick \/ FlushNow
    <2>1. HarvestAndDispatch
        BY <1>2 DEF Tick, FlushNow
    <2> QED BY <1>f, <2>1, HarvestShape, HarvestKeepsPlaces
<1>3. CASE Hide
    <2> DEFINE n == 2 * BatchSize
    <2>1. n \in Nat
        BY <1>f
    <2>2. Build(TRUE)
        BY <1>3, HideShape
    <2>3. \/ /\ queue' = Left(Enqueued(TRUE), n) /\ calls' = calls
             /\ Harvested(TRUE, IdsOf(Dequeued(Enqueued(TRUE), n)), "gone")
          \/ \E c \in Strays : /\ Takes(c, Enqueued(TRUE), n) /\ calls[c].step = "idle"
                               /\ Harvested(TRUE, {}, "live")
        BY <1>3, HideShape
    <2> HIDE DEF n
    <2> QED BY <1>f, <2>1, <2>2, <2>3, HarvestKeepsPlaces, BeaconKeepsPlaces
<1>4. ASSUME NEW c \in Calls, Send(c) PROVE PlaceInv'
    <2>1. made' = made
        BY <1>4, SendKeepsLifecycle DEF harvest
    <2> QED BY <1>4, <2>1, SendShape, SameBatch, EndKeepsPlaces
<1>5. CASE Start \/ Pause \/ Resume \/ Stop
    BY <1>5, <1>s DEF Start, Pause, Resume, ResumeManager, Stop, idleParts
<1>6. CASE Destroy
    <2>1. /\ queue' = <<>> /\ UNCHANGED <<calls, made>>
          /\ \A p \in Packets : fate'[p] = IF p \in IdsOf(queue) THEN "gone" ELSE fate[p]
        BY <1>6 DEF Destroy, ClearQueue, idleParts
    <2>2. IdsOf(queue') = {} /\ (\A c \in Calls : Held(c)' = Held(c)) /\ DOMAIN <<>> = {}
        BY <2>1, NothingHeld DEF Held
    <2>3. Ordered(queue, made)'
        BY <2>1, <2>2 DEF PlaceInv, Ordered, Increasing, Before
    <2>4. \A p \in Packets : p \in IdsOf(queue) => \A c \in Calls : p \notin Held(c)
        <3>1. \A p \in Packets : ~(p < p)
            BY PacketNumbers
        <3> QED BY <3>1 DEF PlaceInv, Ordered, Before, Held
    <2>5. LiveIsSomewhere'
        BY <2>1, <2>2, <2>4 DEF PlaceInv, LiveIsSomewhere, Somewhere
    <2> QED BY <2>1, <2>3, <2>5 DEF PlaceInv, IdleHoldsNothing
<1>7. CASE UpdateSession
    BY <1>7, <1>s DEF UpdateSession
<1>8. CASE UNCHANGED vars
    BY <1>8, <1>s DEF vars, harvest
<1>9. CASE OrphanMoves
    BY <1>9, <1>s, OrphanLeavesClient DEF harvest
<1> QED BY <1>1, <1>2, <1>3, <1>4, <1>5, <1>6, <1>7, <1>8, <1>9 DEF Next, OrphanMoves

LEMMA PlaceIsOnce == TypeOK /\ PlaceInv => EachPacketOnce
<1> SUFFICES ASSUME TypeOK, PlaceInv, NEW p \in Packets
             PROVE  IF fate[p] = "live" THEN \E x \in Places(p) : Places(p) = {x}
                                        ELSE Places(p) = {}
    BY DEF EachPacketOnce
<1> DEFINE InQueue(i) == i \in DOMAIN queue /\ queue[i].id = p
           InBatch(c, i) == i \in DOMAIN calls[c].batch /\ calls[c].batch[i].id = p
<1>1. \A x : x \in Places(p) <=>
        (\E i : InQueue(i) /\ x = <<"queue", i>>) \/
        (\E c \in Calls : \E i : InBatch(c, i) /\ x = <<c, i>>)
    BY DEF Places
<1>2. (\E i : InQueue(i)) <=> p \in IdsOf(queue)
    BY DEF IdsOf
<1>3. \A c \in Calls : (\E i : InBatch(c, i)) <=> p \in Held(c)
    BY DEF Held, IdsOf
<1>4. (\E x : x \in Places(p)) <=> fate[p] = "live"
    <2> HIDE DEF InQueue, InBatch
    <2>1. (\E x : x \in Places(p)) <=> p \in IdsOf(queue) \/ \E c \in Calls : p \in Held(c)
        BY <1>1, <1>2, <1>3
    <2> QED BY <2>1 DEF PlaceInv, LiveIsSomewhere, Somewhere
<1>n. p \in Nat
    BY PacketNumbers
<1>5. \A i, j : InQueue(i) /\ InQueue(j) => i = j
    <2>1. DOMAIN queue \subseteq Nat
        BY DEF TypeOK
    <2> QED BY <1>n, <2>1 DEF PlaceInv, Ordered, Increasing
<1>6. ASSUME NEW c \in Calls PROVE \A i, j : InBatch(c, i) /\ InBatch(c, j) => i = j
    <2>1. DOMAIN calls[c].batch \subseteq Nat
        BY CallTypes
    <2> QED BY <1>n, <2>1 DEF PlaceInv, Ordered, Increasing
<1>7. \A c \in Calls : p \in Held(c) => p \notin IdsOf(queue)
    BY <1>n DEF PlaceInv, Ordered, Before, Held
<1>8. \A c, d \in Calls : p \in Held(c) /\ p \in Held(d) => c = d
    BY DEF PlaceInv, Ordered
<1> HIDE DEF InQueue, InBatch
<1>9. \A x, y \in Places(p) : x = y
    BY <1>1, <1>2, <1>3, <1>5, <1>6, <1>7, <1>8
<1> QED BY <1>4, <1>9

\* A packet that was built is in the queue or in one batch, once, until its batch
\* ends or it is dropped, and in none afterwards: nothing is sent by two calls,
\* for every queue and batch size and any number of retries and calls.
THEOREM EachPacketSentOnce == Spec => []EachPacketOnce
<1>1. Spec => []PlaceInv
    BY PlaceInit, PlaceStep, TypeCorrect, PTL DEF Spec
<1> QED BY <1>1, PlaceIsOnce, TypeCorrect, PTL

-----------------------------------------------------------------------------
(* A call comes to its end *)

\* A call that waits for its next attempt has the whole batch before it, and the
\* server is never past the end of a batch.
Within(q) == q.at <= Len(q.batch) /\ (q.step = "backoff" => q.at = 0)

WithinInv == \A c \in Calls : Within(calls[c])

LEMMA NewWithin ==
    Within(NoCall) /\ \A q \in Seq(Packet), n \in Nat : Within(Sending(Dequeued(q, n)))
<1>1. ASSUME NEW b \in Seq(Packet) PROVE Within(Sending(b))
    <2>1. Len(b) \in Nat
        OBVIOUS
    <2> QED BY <2>1, SendingFields DEF Within
<1>2. Within(NoCall)
    BY NoCallFields DEF Within
<1>3. \A q \in Seq(Packet), n \in Nat : Dequeued(q, n) \in Seq(Packet)
    BY Split
<1> QED BY <1>1, <1>2, <1>3

\* What a step makes of its call, unless the call ends.
LEMMA CallGoesOn ==
    ASSUME TypeOK, NEW c \in Calls, Within(calls[c]),
           Ingest(c) \/ Answer(c) \/ BackOff(c) \/ Retry(c)
    PROVE  \E n \in Call :
             /\ calls' = [calls EXCEPT ![c] = n]
             /\ Within(n) /\ n.batch = calls[c].batch
             /\ \/ n.attempt \in calls[c].attempt + 1 .. MaxRetries
                \/ n.attempt = calls[c].attempt /\ Ahead(n) \in 0 .. Ahead(calls[c]) - 1
<1> DEFINE q == calls[c]
<1>1. q \in Call
    BY CallsType
<1>2. Len(q.batch) \in Nat /\ q.at \in Nat /\ q.attempt \in 0 .. MaxRetries
    BY <1>1 DEF Call
<1>3. q.at <= Len(q.batch)
    BY DEF Within
<1>4. CASE Ingest(c)
    <2>1. PICK n \in Call :
            /\ calls' = [calls EXCEPT ![c] = n]
            /\ n.step = "sent" /\ n.batch = q.batch /\ n.at = q.at + 1 /\ n.attempt = q.attempt
        BY <1>4, IngestFields
    <2>2. q.step = "sent" /\ q.at < Len(q.batch)
        BY <1>4 DEF Ingest
    <2>3. Ahead(n) = Len(q.batch) - (q.at + 1) + 2 /\ Ahead(q) = Len(q.batch) - q.at + 2
        BY <2>1, <2>2 DEF Ahead
    <2> HIDE DEF q
    <2>4. Ahead(n) \in 0 .. Ahead(q) - 1
        BY <1>2, <2>2, <2>3
    <2>5. Within(n)
        BY <1>2, <2>1, <2>2 DEF Within
    <2> QED BY <2>1, <2>4, <2>5 DEF q
<1>5. CASE Answer(c)
    <2>1. PICK n \in Call :
            /\ calls' = [calls EXCEPT ![c] = n]
            /\ n.step = "ok" /\ n.batch = q.batch /\ n.at = q.at /\ n.attempt = q.attempt
        BY <1>5, AnswerFields
    <2>2. q.step = "sent" /\ q.at = Len(q.batch)
        BY <1>5 DEF Answer
    <2>3. Ahead(n) = 1 /\ Ahead(q) = Len(q.batch) - q.at + 2
        BY <2>1, <2>2 DEF Ahead
    <2> HIDE DEF q
    <2>4. Ahead(n) \in 0 .. Ahead(q) - 1
        BY <1>2, <2>2, <2>3
    <2>5. Within(n)
        BY <1>2, <1>3, <2>1 DEF Within
    <2> QED BY <2>1, <2>4, <2>5 DEF q
<1>6. CASE BackOff(c)
    <2>1. PICK n \in Call :
            /\ calls' = [calls EXCEPT ![c] = n]
            /\ n.step = "backoff" /\ n.batch = q.batch /\ n.at = 0 /\ n.attempt = q.attempt + 1
        BY <1>6, BackOffFields
    <2>2. n.attempt \in q.attempt + 1 .. MaxRetries
        BY <1>2, <2>1 DEF Call
    <2>3. Within(n)
        BY <1>2, <2>1 DEF Within
    <2> QED BY <2>1, <2>2, <2>3
<1>7. CASE Retry(c)
    <2>1. PICK n \in Call :
            /\ calls' = [calls EXCEPT ![c] = n]
            /\ n.step = "sent" /\ n.batch = q.batch /\ n.at = q.at /\ n.attempt = q.attempt
        BY <1>7, RetryFields
    <2>2. q.step = "backoff" /\ q.at = 0
        BY <1>7 DEF Retry, Within
    <2>3. Ahead(n) = Len(q.batch) - q.at + 2 /\ Ahead(q) = Len(q.batch) + 3
        BY <2>1, <2>2 DEF Ahead
    <2> HIDE DEF q
    <2>4. Ahead(n) \in 0 .. Ahead(q) - 1
        BY <1>2, <2>2, <2>3
    <2>5. Within(n)
        BY <1>2, <1>3, <2>1 DEF Within
    <2> QED BY <2>1, <2>4, <2>5 DEF q
<1> QED BY <1>4, <1>5, <1>6, <1>7

\* The packets of a batch that ends have met their fate.
LEMMA EndSettles ==
    ASSUME TypeOK, NEW c \in Calls, NEW how \in {"answered", "gone"}, End(c, how)
    PROVE  \A p \in IdsOf(calls[c].batch) : fate'[p] \in {"answered", "gone"}
<1>1. IdsOf(calls[c].batch) \subseteq Packets
    BY CallTypes, IdsType
<1> QED BY <1>1 DEF End

\* A step of no call leaves the calls in progress alone and may begin one.
LEMMA OthersLeaveCalls ==
    ASSUME TypeOK, Next, \A d \in Calls : ~Send(d)
    PROVE  \/ calls' = calls
           \/ \E d \in Calls, q \in Seq(Packet), n \in Nat :
                 calls[d].step = "idle" /\ calls' = [calls EXCEPT ![d] = Sending(Dequeued(q, n))]
<1>f. Flush \in Calls /\ Strays \subseteq Calls /\ BatchSize \in Nat /\ 2 * BatchSize \in Nat
    BY DEF Calls
<1>1. CASE Tick \/ FlushNow
    <2>0. HarvestAndDispatch
        BY <1>1 DEF Tick, FlushNow
    <2>1. /\ Build(FALSE)
          /\ \/ calls' = calls
             \/ Takes(Flush, Enqueued(FALSE), BatchSize) /\ calls[Flush].step = "idle"
        BY <2>0, HarvestShape
    <2>2. Enqueued(FALSE) \in Seq(Packet)
        BY <2>1, EnqueuedShape
    <2> QED BY <1>f, <2>1, <2>2 DEF Takes
<1>2. CASE Hide
    <2>1. /\ Build(TRUE)
          /\ \/ calls' = calls
             \/ \E c \in Strays : Takes(c, Enqueued(TRUE), 2 * BatchSize) /\ calls[c].step = "idle"
        BY <1>2, HideShape
    <2>2. Enqueued(TRUE) \in Seq(Packet)
        BY <2>1, EnqueuedShape
    <2> QED BY <1>f, <2>1, <2>2 DEF Takes
<1>3. CASE Activity \/ Start \/ Pause \/ Resume \/ Stop \/ Destroy \/ UpdateSession
    BY <1>3 DEF Activity, Start, Pause, Resume, ResumeManager, Stop, Destroy, ClearQueue, UpdateSession, idleParts
<1>4. CASE OrphanMoves
    BY <1>4, OrphanLeavesClient
<1> QED BY <1>1, <1>2, <1>3, <1>4 DEF Next, OrphanMoves

LEMMA WithinStep == TypeOK /\ WithinInv /\ [Next]_vars => WithinInv'
<1> SUFFICES ASSUME TypeOK, WithinInv, Next PROVE WithinInv'
    BY DEF WithinInv, vars
<1>t. calls \in [Calls -> Call] /\ queue \in Seq(Packet) /\ BatchSize \in Nat
    BY CallsType DEF TypeOK
\* One call is replaced.
<1>n. ASSUME NEW c \in Calls, NEW n, Within(n), calls' = [calls EXCEPT ![c] = n]
      PROVE  WithinInv'
    <2>1. \A d \in Calls : calls'[d] = IF d = c THEN n ELSE calls[d]
        BY <1>t, <1>n
    <2> QED BY <1>n, <2>1 DEF WithinInv
<1>1. ASSUME NEW c \in Calls, Send(c) PROVE WithinInv'
    <2>1. CASE Ingest(c) \/ Answer(c) \/ BackOff(c) \/ Retry(c)
        <3>1. \E n \in Call : calls' = [calls EXCEPT ![c] = n] /\ Within(n)
            BY <2>1, CallGoesOn DEF WithinInv
        <3> QED BY <1>n, <3>1
    <2>2. CASE Succeed(c) \/ BeRefused(c) \/ GiveUp(c)
        <3>1. \E how : End(c, how)
            BY <2>2, Ends
        <3>2. \E n : calls' = [calls EXCEPT ![c] = n] /\ Within(n)
            BY <1>t, <3>1, EndShape, NewWithin DEF Takes
        <3> QED BY <1>n, <3>2
    <2> QED BY <1>1, <2>1, <2>2 DEF Send
<1>2. CASE \A d \in Calls : ~Send(d)
    <2>1. \/ calls' = calls
          \/ \E d \in Calls : \E n : calls' = [calls EXCEPT ![d] = n] /\ Within(n)
        BY <1>2, OthersLeaveCalls, NewWithin
    <2> QED BY <1>n, <2>1 DEF WithinInv
<1> QED BY <1>1, <1>2

\* Every call comes to an end that settles what becomes of its packets: between
\* two steps of it the attempts it has left, or the steps of its attempt, grow
\* fewer, whatever the server and the other calls do.
THEOREM EveryCallEnds == Spec => CallsEnd
<1>1. Init => WithinInv
    BY NoCallFields, NewWithin DEF Init, WithinInv
<1>2. TypeOK /\ WithinInv /\ [Next]_vars =>
        [\A c \in Calls : calls[c].step # "idle" /\ calls'[c] # calls[c] =>
         LET old == calls[c]  new == calls'[c] IN
         \/ \A p \in IdsOf(old.batch) : fate'[p] \in {"answered", "gone"}
         \/ /\ new.batch = old.batch
            /\ \/ new.attempt \in old.attempt + 1 .. MaxRetries
               \/ new.attempt = old.attempt /\ Ahead(new) \in 0 .. Ahead(old) - 1]_vars
    <2> SUFFICES ASSUME TypeOK, WithinInv, Next, NEW c \in Calls,
                        calls[c].step # "idle", calls'[c] # calls[c]
                 PROVE  \/ \A p \in IdsOf(calls[c].batch) : fate'[p] \in {"answered", "gone"}
                        \/ /\ calls'[c].batch = calls[c].batch
                           /\ \/ calls'[c].attempt \in calls[c].attempt + 1 .. MaxRetries
                              \/ /\ calls'[c].attempt = calls[c].attempt
                                 /\ Ahead(calls'[c]) \in 0 .. Ahead(calls[c]) - 1
        OBVIOUS
    <2>t. calls \in [Calls -> Call]
        BY CallsType
    <2>1. PICK d \in Calls : Send(d)
        <3>1. CASE \A e \in Calls : ~Send(e)
            <4>1. calls'[c] = calls[c]
                BY <2>t, <3>1, OthersLeaveCalls
            <4> QED BY <4>1
        <3> QED BY <3>1
    <2>2. d = c
        <3>1. \E n : calls' = [calls EXCEPT ![d] = n]
            BY <2>1, SendShape, EndShape DEF Takes
        <3> QED BY <2>t, <3>1
    <2>3. CASE Ingest(c) \/ Answer(c) \/ BackOff(c) \/ Retry(c)
        BY <2>t, <2>3, CallGoesOn DEF WithinInv
    <2>4. CASE Succeed(c) \/ BeRefused(c) \/ GiveUp(c)
        BY <2>4, Ends, EndSettles
    <2> QED BY <2>1, <2>2, <2>3, <2>4 DEF Send
<1> QED BY <1>1, <1>2, TypeCorrect, WithinStep, PTL DEF Spec, CallsEnd
-----------------------------------------------------------------------------
(* What a 2xx means *)

\* A packet that the server has marked or refused: it is settled or in the hands
\* of a request that no one waits for, or a call is still in progress with it.
Decided(x) ==
    x \in accepted \cup refused \cup rolledBack \/ \E o \in Orphans : x \in orphans[o].pending

Known(x) == Decided(x) \/ \E c \in Calls : x \in calls[c].pending

\* A request has gone through the front of its batch: what it met there is in the
\* set done, and what it is about to store is among it.
Passed(r, done) ==
    /\ \A i \in DOMAIN r.batch : i <= r.at => r.batch[i].id \in done
    /\ \A x \in r.pending : \E i \in DOMAIN r.batch : i <= r.at /\ r.batch[i].id = x

Met == seen \cup refused

AccountInv ==
    /\ \A x \in seen : Known(x)
    /\ \A c \in Calls :
         /\ Passed(calls[c], Met)
         /\ calls[c].step = "ok" => calls[c].at = Len(calls[c].batch) /\ calls[c].pending = {}
    /\ \A o \in Orphans : Passed(orphans[o], Met)
    /\ \A p \in Packets : fate[p] = "answered" => p \in Met

LEMMA PassedMore ==
    ASSUME NEW r, NEW n, NEW done, NEW more, Passed(r, done), done \subseteq more,
           n.batch = r.batch, n.at = r.at, n.pending = r.pending
    PROVE  Passed(n, more)
BY DEF Passed

LEMMA PassedNone ==
    ASSUME NEW n, n.batch \in Seq(Packet), n.at = 0, n.pending = {}
    PROVE  \A done : Passed(n, done)
<1>1. \A i \in DOMAIN n.batch : ~(i <= 0)
    OBVIOUS
<1> QED BY <1>1 DEF Passed

LEMMA PassedOne ==
    ASSUME NEW r, NEW n, NEW done, NEW more, Passed(r, done), done \subseteq more,
           r.batch \in Seq(Packet), r.at \in Nat, r.at + 1 \in DOMAIN r.batch,
           n.batch = r.batch, n.at = r.at + 1, r.batch[r.at + 1].id \in more,
           n.pending \subseteq r.pending \cup {r.batch[r.at + 1].id}
    PROVE  Passed(n, more)
<1>1. \A i \in DOMAIN r.batch : i <= r.at + 1 <=> (i <= r.at \/ i = r.at + 1)
    OBVIOUS
<1> DEFINE j == r.at + 1
<1>2. j \in DOMAIN r.batch /\ n.at = j /\ (\A i \in DOMAIN r.batch : i <= j <=> (i <= r.at \/ i = j))
    BY <1>1
<1> HIDE DEF j
<1>3. r.batch[j].id \in more /\ n.pending \subseteq r.pending \cup {r.batch[j].id}
    BY DEF j
<1>4. \A i \in DOMAIN n.batch : i <= n.at => n.batch[i].id \in more
    BY <1>2, <1>3 DEF Passed
<1>5. ASSUME NEW x \in n.pending PROVE \E i \in DOMAIN n.batch : i <= n.at /\ n.batch[i].id = x
    <2>1. CASE x \in r.pending
        BY <1>2, <2>1 DEF Passed
    <2>2. CASE x = r.batch[j].id
        BY <1>2, <2>2
    <2> QED BY <1>3, <1>5, <2>1, <2>2
<1> QED BY <1>4, <1>5 DEF Passed

\* What a packet that is checked becomes.
LEMMA CheckedIsKnown ==
    ASSUME TypeOK, NEW p \in Packet, Check(p)
    PROVE  /\ Met \subseteq Met' /\ p.id \in Met'
           /\ \A x \in seen' : x \in seen \/ x \in refused' \/ (InTurn(p) /\ x = p.id)
BY CheckFields DEF Met, Check, InTurn, New

LEMMA KnownKept ==
    ASSUME TypeOK, NEW c \in Calls, NEW n, calls' = [calls EXCEPT ![c] = n],
           accepted \subseteq accepted', refused \subseteq refused', rolledBack \subseteq rolledBack',
           \A o \in Orphans : orphans[o].pending \subseteq orphans'[o].pending,
           NEW x, Known(x), x \in calls[c].pending => Known(x)'
    PROVE  Known(x)'
<1>1. CASE Decided(x)
    BY <1>1 DEF Known, Decided
<1>2. CASE \E d \in Calls : x \in calls[d].pending
    <2>1. PICK d \in Calls : x \in calls[d].pending
        BY <1>2
    <2>2. CASE d = c
        BY <2>1, <2>2
    <2>3. CASE d # c
        <3>1. calls'[d] = calls[d]
            BY <2>3, CallsType
        <3> QED BY <2>1, <3>1 DEF Known
    <2> QED BY <2>2, <2>3
<1> QED BY <1>1, <1>2 DEF Known

\* What the server held for a call that fails is rolled back or has gone over to
\* a request of no one.
LEMMA DroppedIsKnown ==
    ASSUME TypeOK, NEW c \in Calls, Fails(c)
    PROVE  /\ rolledBack \subseteq rolledBack'
           /\ \A o \in Orphans : orphans[o].pending \subseteq orphans'[o].pending
           /\ \A x \in calls[c].pending : Decided(x)'
<1>1. CASE rolledBack' = rolledBack \cup calls[c].pending /\ UNCHANGED orphans
    BY <1>1 DEF Decided
<1>2. CASE /\ rolledBack' = rolledBack
           /\ \E o \in Orphans, n \in Request :
                /\ orphans[o] = NoRequest /\ orphans' = [orphans EXCEPT ![o] = n]
                /\ n.pending = calls[c].pending
    <2>1. PICK o \in Orphans, n \in Request :
            /\ orphans[o] = NoRequest /\ orphans' = [orphans EXCEPT ![o] = n]
            /\ n.pending = calls[c].pending
        BY <1>2
    <2>2. orphans'[o] = n /\ \A d \in Orphans \ {o} : orphans'[d] = orphans[d]
        BY <2>1, OrphansType
    <2> QED BY <1>2, <2>1, <2>2, NoRequestFields DEF Decided
<1> QED BY <1>1, <1>2, FailsDrops DEF Dropped

\* The requests of no one, after a step of a call.
LEMMA SendKeepsOrphans ==
    ASSUME TypeOK, NEW c \in Calls, Send(c)
    PROVE  \A o \in Orphans :
             \/ orphans'[o] = orphans[o]
             \/ /\ orphans'[o].batch = calls[c].batch /\ orphans'[o].at = calls[c].at
                /\ orphans'[o].pending = calls[c].pending
<1>1. CASE Fails(c)
    <2>1. CASE UNCHANGED orphans
        BY <2>1
    <2>2. ASSUME NEW o \in Orphans, NEW n \in Request, orphans' = [orphans EXCEPT ![o] = n],
                 n.batch = calls[c].batch, n.at = calls[c].at, n.pending = calls[c].pending
          PROVE  \A d \in Orphans :
                   \/ orphans'[d] = orphans[d]
                   \/ /\ orphans'[d].batch = calls[c].batch /\ orphans'[d].at = calls[c].at
                      /\ orphans'[d].pending = calls[c].pending
        <3>1. orphans'[o] = n /\ \A d \in Orphans \ {o} : orphans'[d] = orphans[d]
            BY <2>2, OrphansType
        <3> QED BY <2>2, <3>1
    <2> QED BY <1>1, <2>1, <2>2, FailsDrops DEF Dropped
<1>2. CASE UNCHANGED orphans
    BY <1>2
<1> QED BY <1>1, <1>2, Ends DEF Send, Ingest, Answer, BackOff, Retry, server

\* Only a packet that is gone through changes the marks and the refusals.
LEMMA SendKeepsMarks ==
    ASSUME NEW c \in Calls, Send(c), ~Ingest(c)
    PROVE  UNCHANGED <<seen, last, refused>>
BY Ends DEF Send, Answer, BackOff, Fails, Retry, server

LEMMA SendKeepsKnown ==
    ASSUME TypeOK, AccountInv, NEW c \in Calls, Send(c)
    PROVE  \A x \in seen' : Known(x)'
<1>q. calls[c] \in Call /\ calls \in [Calls -> Call]
    BY CallsType
<1>1. CASE Ingest(c)
    <2> DEFINE p == NextOf(calls[c])
    <2>1. /\ p \in Packet /\ Check(p)
          /\ \E n \in Call :
               /\ calls' = [calls EXCEPT ![c] = n]
               /\ n.pending = IF InTurn(p) THEN calls[c].pending \cup {p.id} ELSE calls[c].pending
        BY <1>1, IngestFields
    <2>2. PICK n \in Call :
               /\ calls' = [calls EXCEPT ![c] = n]
               /\ n.pending = IF InTurn(p) THEN calls[c].pending \cup {p.id} ELSE calls[c].pending
        BY <2>1
    <2> HIDE DEF p
    <2>3. UNCHANGED <<accepted, rolledBack, orphans>> /\ calls'[c] = n
        BY <1>1, <1>q, <2>2 DEF Ingest
    <2>4. \A x \in n.pending : Known(x)'
        BY <2>3 DEF Known
    <2>5. refused \subseteq refused'
        BY <2>1, CheckFields
    <2> SUFFICES ASSUME NEW x \in seen' PROVE Known(x)'
        OBVIOUS
    <2>6. CASE x \in seen
        <3>1. Known(x)
            BY <2>6 DEF AccountInv
        <3>2. x \in calls[c].pending => Known(x)'
            BY <2>2, <2>4
        <3> QED BY <2>2, <2>3, <2>5, <3>1, <3>2, KnownKept
    <2>7. CASE x \in refused'
        BY <2>7 DEF Known, Decided
    <2>8. CASE InTurn(p) /\ x = p.id
        BY <2>2, <2>4, <2>8
    <2> QED BY <2>1, <2>6, <2>7, <2>8, CheckedIsKnown
\* A step that marks no packet.
<1>s. ASSUME NEW n, calls' = [calls EXCEPT ![c] = n], seen' = seen,
             accepted \subseteq accepted', refused \subseteq refused', rolledBack \subseteq rolledBack',
             \A o \in Orphans : orphans[o].pending \subseteq orphans'[o].pending,
             \A x \in calls[c].pending : Known(x)'
      PROVE  \A x \in seen' : Known(x)'
    <2> SUFFICES ASSUME NEW x \in seen PROVE Known(x)'
        BY <1>s
    <2>1. Known(x) /\ (x \in calls[c].pending => Known(x)')
        BY <1>s DEF AccountInv
    <2> QED BY <1>s, <2>1, KnownKept
<1>2. CASE Answer(c)
    <2>1. \A x \in calls[c].pending : Known(x)'
        BY <1>2 DEF Answer, Known, Decided
    <2>2. \E n : calls' = [calls EXCEPT ![c] = n]
        BY <1>2, AnswerFields
    <2> QED BY <1>2, <1>s, <2>1, <2>2 DEF Answer
<1>3. CASE Succeed(c) \/ BeRefused(c) \/ GiveUp(c)
    <2>1. \E n : calls' = [calls EXCEPT ![c] = n]
        <3>1. \E how : End(c, how)
            BY <1>3, Ends
        <3> QED BY <3>1, EndShape DEF Takes
    <2>2. UNCHANGED <<seen, accepted, refused>>
        BY <1>3, Ends
    <2>3. CASE Fails(c)
        BY <1>s, <2>1, <2>2, <2>3, DroppedIsKnown DEF Known
    <2>4. CASE UNCHANGED server /\ (calls[c].step = "ok" \/ calls[c].at = 0)
        <3>1. calls[c].pending = {}
            <4>1. calls[c].batch \in Seq(Packet)
                BY CallTypes
            <4>2. \A i \in DOMAIN calls[c].batch : ~(i <= 0)
                BY <4>1
            <4> QED BY <2>4, <4>2 DEF AccountInv, Passed
        <3> QED BY <1>s, <2>1, <2>4, <3>1 DEF server
    <2> QED BY <1>3, <2>3, <2>4, Ends
<1>4. CASE BackOff(c)
    <2>1. \E n : calls' = [calls EXCEPT ![c] = n]
        BY <1>4, BackOffFields
    <2>2. Fails(c) /\ UNCHANGED <<seen, accepted, refused>>
        BY <1>4 DEF BackOff, Fails
    <2> QED BY <1>s, <2>1, <2>2, DroppedIsKnown DEF Known
<1>5. CASE Retry(c)
    <2>1. PICK n \in Call : /\ calls' = [calls EXCEPT ![c] = n]
                            /\ n.pending = calls[c].pending
        BY <1>5, RetryFields
    <2>2. calls'[c] = n
        BY <1>q, <2>1
    <2>3. \A x \in calls[c].pending : Known(x)'
        BY <2>1, <2>2 DEF Known
    <2> QED BY <1>5, <1>s, <2>1, <2>3 DEF Retry, server
<1> QED BY <1>1, <1>2, <1>3, <1>4, <1>5 DEF Send

\* What the steps of the client that are of no call leave alone.
LEMMA ClientStep ==
    ASSUME TypeOK, [Next]_vars, \A c \in Calls : ~Send(c), ~OrphanMoves
    PROVE  /\ UNCHANGED server
           /\ \A p \in Packets : fate'[p] = "answered" => fate[p] = "answered"
           /\ \A c \in Calls :
                \/ calls'[c] = calls[c]
                \/ /\ calls[c].step = "idle" /\ calls'[c].step = "sent" /\ calls'[c].at = 0
                   /\ calls'[c].pending = {} /\ calls'[c].batch \in Seq(Packet)
<1>1. UNCHANGED server
    BY HarvestShape, HideShape
    DEF Next, vars, OrphanMoves, Activity, Tick, FlushNow, Start, Pause, Resume, ResumeManager,
        Stop, Destroy, UpdateSession, idleParts
<1>2. \A p \in Packets : fate'[p] = "answered" => fate[p] = "answered"
    <2>a. ASSUME NEW stop, NEW gone, NEW how \in {"live", "gone"}, Harvested(stop, gone, how)
          PROVE  \A p \in Packets : fate'[p] = "answered" => fate[p] = "answered"
        BY <2>a DEF Harvested, TypeOK
    <2>1. CASE Tick \/ FlushNow
        BY <2>1, <2>a, HarvestShape DEF Tick, FlushNow
    <2>2. CASE Hide
        BY <2>2, <2>a, HideShape
    <2>3. CASE Destroy
        BY <2>3 DEF Destroy, ClearQueue
    <2>4. CASE UNCHANGED fate
        BY <2>4
    <2> QED BY <2>1, <2>2, <2>3, <2>4
        DEF Next, vars, OrphanMoves, Activity, Start, Pause, Resume, Stop, UpdateSession
<1>3. CASE calls' = calls
    BY <1>1, <1>2, <1>3
<1>4. ASSUME NEW d \in Calls, NEW q \in Seq(Packet), NEW n \in Nat,
             calls[d].step = "idle", calls' = [calls EXCEPT ![d] = Sending(Dequeued(q, n))]
      PROVE  \A c \in Calls :
                \/ calls'[c] = calls[c]
                \/ /\ calls[c].step = "idle" /\ calls'[c].step = "sent" /\ calls'[c].at = 0
                   /\ calls'[c].pending = {} /\ calls'[c].batch \in Seq(Packet)
    <2>1. Dequeued(q, n) \in Seq(Packet)
        BY Split
    <2>2. calls'[d] = Sending(Dequeued(q, n)) /\ \A c \in Calls \ {d} : calls'[c] = calls[c]
        BY <1>4, CallsType
    <2> QED BY <1>4, <2>1, <2>2, SendingFields
<1>5. CASE UNCHANGED vars
    BY <1>3, <1>5 DEF vars
<1> QED BY <1>1, <1>2, <1>3, <1>4, <1>5, OthersLeaveCalls

LEMMA AccountInit == Init => AccountInv
<1> SUFFICES ASSUME Init PROVE AccountInv
    OBVIOUS
<1>1. seen = {} /\ \A p \in Packets : fate[p] # "answered"
    BY DEF Init
<1>2. \A c \in Calls : calls[c] = NoCall
    BY DEF Init
<1>3. \A o \in Orphans : orphans[o] = NoRequest
    BY DEF Init
<1>4. <<>> \in Seq(Packet)
    OBVIOUS
<1>5. \A done : Passed(NoCall, done) /\ Passed(NoRequest, done)
    BY <1>4, NoCallFields, NoRequestFields, PassedNone
<1> QED BY <1>1, <1>2, <1>3, <1>5, NoCallFields DEF AccountInv

\* A call that keeps its batch, and a call that ends.
LEMMA SendKeepsPassed ==
    ASSUME TypeOK, AccountInv, NEW c \in Calls, Send(c)
    PROVE  /\ Met \subseteq Met'
           /\ \A d \in Calls :
                /\ Passed(calls'[d], Met')
                /\ calls'[d].step = "ok" => calls'[d].at = Len(calls'[d].batch) /\ calls'[d].pending = {}
           /\ \A p \in Packets : fate'[p] = "answered" => p \in Met'
<1>t. calls[c] \in Call /\ calls[c].batch \in Seq(Packet) /\ calls[c].at \in Nat /\ calls \in [Calls -> Call]
    BY CallsType DEF Call
<1>m. Met \subseteq Met'
    BY IngestFields, CheckedIsKnown, SendKeepsMarks DEF Met
<1>p. Passed(calls[c], Met)
    BY DEF AccountInv
\* One call is replaced.
<1>n. ASSUME NEW n, calls' = [calls EXCEPT ![c] = n], Passed(n, Met'),
             n.step = "ok" => n.at = Len(n.batch) /\ n.pending = {}
      PROVE  \A d \in Calls :
                /\ Passed(calls'[d], Met')
                /\ calls'[d].step = "ok" => calls'[d].at = Len(calls'[d].batch) /\ calls'[d].pending = {}
    <2>1. calls'[c] = n /\ \A d \in Calls \ {c} : calls'[d] = calls[d]
        BY <1>n, <1>t
    <2>2. \A d \in Calls : Passed(calls[d], Met')
        BY <1>m, PassedMore DEF AccountInv
    <2> QED BY <1>n, <2>1, <2>2 DEF AccountInv
<1>f. UNCHANGED fate => \A p \in Packets : fate'[p] = "answered" => p \in Met'
    BY <1>m DEF AccountInv
<1>1. CASE Ingest(c)
    <2>1. /\ NextOf(calls[c]) = calls[c].batch[calls[c].at + 1] /\ NextOf(calls[c]) \in Packet
          /\ Check(NextOf(calls[c])) /\ calls[c].at + 1 \in DOMAIN calls[c].batch
          /\ \E n \in Call :
               /\ calls' = [calls EXCEPT ![c] = n]
               /\ n.step = "sent" /\ n.batch = calls[c].batch /\ n.at = calls[c].at + 1
               /\ n.pending \subseteq calls[c].pending \cup {NextOf(calls[c]).id}
        BY <1>1, IngestFields
    <2>2. NextOf(calls[c]).id \in Met'
        BY <2>1, CheckedIsKnown
    <2>3. \E n \in Call : calls' = [calls EXCEPT ![c] = n] /\ n.step = "sent" /\ Passed(n, Met')
        <3>1. PICK n \in Call :
                /\ calls' = [calls EXCEPT ![c] = n]
                /\ n.step = "sent" /\ n.batch = calls[c].batch /\ n.at = calls[c].at + 1
                /\ n.pending \subseteq calls[c].pending \cup {NextOf(calls[c]).id}
            BY <2>1
        <3>2. /\ n.pending \subseteq calls[c].pending \cup {calls[c].batch[calls[c].at + 1].id}
              /\ calls[c].batch[calls[c].at + 1].id \in Met'
            BY <2>1, <2>2, <3>1
        <3>3. Passed(n, Met')
            BY <1>m, <1>p, <1>t, <2>1, <3>1, <3>2, PassedOne
        <3> QED BY <3>1, <3>3
    <2> QED BY <1>1, <1>f, <1>m, <1>n, <2>3 DEF Ingest
<1>2. CASE Answer(c)
    <2>1. PICK n \in Call :
             /\ calls' = [calls EXCEPT ![c] = n]
             /\ n.step = "ok" /\ n.batch = calls[c].batch /\ n.at = calls[c].at /\ n.pending = {}
        BY <1>2, AnswerFields
    <2>2. Passed(n, Met')
        BY <1>m, <1>p, <2>1 DEF Passed
    <2> QED BY <1>2, <1>f, <1>m, <1>n, <2>1, <2>2 DEF Answer
<1>3. CASE Succeed(c) \/ BeRefused(c) \/ GiveUp(c)
    <2>1. PICK how \in {"answered", "gone"} : End(c, how) /\ (how = "answered" => calls[c].step = "ok")
        BY <1>3, Ends
    <2>2. \E n : calls' = [calls EXCEPT ![c] = n] /\ Passed(n, Met') /\ n.step # "ok"
        <3>1. queue \in Seq(Packet) /\ BatchSize \in Nat
            BY DEF TypeOK
        <3>2. Dequeued(queue, BatchSize) \in Seq(Packet) /\ <<>> \in Seq(Packet)
            BY <3>1, Split
        <3> DEFINE s == Sending(Dequeued(queue, BatchSize))
        <3>3. Passed(s, Met') /\ s.step # "ok"
            BY <3>2, SendingFields, PassedNone
        <3>4. Passed(NoCall, Met') /\ NoCall.step # "ok"
            BY <3>2, NoCallFields, PassedNone
        <3> HIDE DEF s
        <3>5. calls' = [calls EXCEPT ![c] = s] \/ calls' = [calls EXCEPT ![c] = NoCall]
            BY <2>1, EndShape DEF Takes, s
        <3> QED BY <3>3, <3>4, <3>5
    <2>3. ASSUME NEW p \in Packets, fate'[p] = "answered" PROVE p \in Met'
        <3>1. fate'[p] = IF p \in IdsOf(calls[c].batch) THEN how ELSE fate[p]
            BY <2>1 DEF End
        <3>2. CASE p \in IdsOf(calls[c].batch)
            <4>1. calls[c].at = Len(calls[c].batch)
                BY <2>1, <2>3, <3>1, <3>2 DEF AccountInv
            <4>2. PICK i \in DOMAIN calls[c].batch : p = calls[c].batch[i].id
                BY <3>2 DEF IdsOf
            <4>3. i <= calls[c].at
                BY <1>t, <4>1
            <4> QED BY <1>m, <1>p, <4>2, <4>3 DEF Passed
        <3>3. CASE p \notin IdsOf(calls[c].batch)
            BY <1>m, <2>3, <3>1, <3>3 DEF AccountInv
        <3> QED BY <3>2, <3>3
    <2> QED BY <1>m, <1>n, <2>2, <2>3
<1>4. CASE BackOff(c)
    <2>1. PICK n \in Call :
             /\ calls' = [calls EXCEPT ![c] = n]
             /\ n.step = "backoff" /\ n.batch = calls[c].batch /\ n.at = 0 /\ n.pending = {}
        BY <1>4, BackOffFields
    <2>2. Passed(n, Met')
        BY <1>t, <2>1, PassedNone
    <2> QED BY <1>4, <1>f, <1>m, <1>n, <2>1, <2>2 DEF BackOff
<1>5. CASE Retry(c)
    <2>1. PICK n \in Call :
             /\ calls' = [calls EXCEPT ![c] = n]
             /\ n.step = "sent" /\ n.batch = calls[c].batch /\ n.at = calls[c].at
             /\ n.pending = calls[c].pending
        BY <1>5, RetryFields
    <2>2. Passed(n, Met')
        BY <1>m, <1>p, <2>1, PassedMore
    <2> QED BY <1>5, <1>f, <1>m, <1>n, <2>1, <2>2 DEF Retry
<1> QED BY <1>1, <1>2, <1>3, <1>4, <1>5 DEF Send

\* A request that no one waits for goes on, is stored or rolled back.
LEMMA OrphanKeepsAccount ==
    ASSUME TypeOK, AccountInv, OrphanMoves
    PROVE  AccountInv'
<1>1. UNCHANGED <<calls, fate>>
    BY OrphanLeavesClient
<1>2. PICK o \in Orphans : RunOn(o) \/ CommitOrphan(o) \/ RollBackOrphan(o)
    BY DEF OrphanMoves
<1>t. orphans \in [Orphans -> Request] /\ orphans[o].batch \in Seq(Packet) /\ orphans[o].at \in Nat
    BY OrphansType DEF Request
<1>3. CASE RunOn(o)
    <2> DEFINE p == NextOf(orphans[o])
    <2>1. /\ p = orphans[o].batch[orphans[o].at + 1] /\ p \in Packet
          /\ Check(p) /\ orphans[o].at + 1 \in DOMAIN orphans[o].batch
          /\ \E n \in Request :
               /\ orphans' = [orphans EXCEPT ![o] = n]
               /\ n.batch = orphans[o].batch /\ n.at = orphans[o].at + 1
               /\ n.pending = IF InTurn(p) THEN orphans[o].pending \cup {p.id} ELSE orphans[o].pending
        BY <1>3, RunOnFields
    <2>2. PICK n \in Request :
            /\ orphans' = [orphans EXCEPT ![o] = n]
            /\ n.batch = orphans[o].batch /\ n.at = orphans[o].at + 1
            /\ n.pending = IF InTurn(p) THEN orphans[o].pending \cup {p.id} ELSE orphans[o].pending
        BY <2>1
    <2>3. Met \subseteq Met' /\ p.id \in Met' /\ refused \subseteq refused'
        BY <2>1, CheckFields, CheckedIsKnown
    <2>4. orphans'[o] = n /\ \A d \in Orphans \ {o} : orphans'[d] = orphans[d]
        BY <1>t, <2>2
    <2>5. Passed(n, Met')
        <3>1. n.pending \subseteq orphans[o].pending \cup {orphans[o].batch[orphans[o].at + 1].id}
            BY <2>1, <2>2
        <3>2. orphans[o].batch[orphans[o].at + 1].id \in Met' /\ Passed(orphans[o], Met)
            BY <2>1, <2>3 DEF AccountInv
        <3> QED BY <1>t, <2>1, <2>2, <2>3, <3>1, <3>2, PassedOne
    <2> HIDE DEF p
    <2>6. UNCHANGED <<accepted, rolledBack>> /\ (\A x \in n.pending : Decided(x)')
        BY <1>3, <2>4 DEF RunOn, Decided
    <2>7. \A d \in Orphans : orphans[d].pending \subseteq orphans'[d].pending
        BY <2>2, <2>4
    <2>8. \A x : Known(x) => Known(x)'
        BY <1>1, <2>3, <2>6, <2>7 DEF Known, Decided
    <2>9. \A x \in seen' : x \in seen \/ x \in refused' \/ (InTurn(p) /\ x = p.id)
        BY <2>1, CheckedIsKnown
    <2>10. \A x \in seen' : Known(x)'
        <3>1. \A x \in refused' : Decided(x)'
            BY DEF Decided
        <3>2. InTurn(p) => p.id \in n.pending
            BY <2>2
        <3>3. \A x \in seen : Known(x)
            BY DEF AccountInv
        <3>4. \A x : Decided(x)' => Known(x)'
            BY DEF Known
        <3> QED BY <2>6, <2>8, <2>9, <3>1, <3>2, <3>3, <3>4
    <2>11. /\ \A c \in Calls : Passed(calls[c], Met')
           /\ \A d \in Orphans : Passed(orphans[d], Met')
        BY <2>3, PassedMore DEF AccountInv
    <2> QED BY <1>1, <2>3, <2>4, <2>5, <2>10, <2>11 DEF AccountInv
<1>4. CASE CommitOrphan(o) \/ RollBackOrphan(o)
    <2>1. /\ UNCHANGED <<seen, refused>> /\ Met' = Met
          /\ orphans' = [orphans EXCEPT ![o] = NoRequest]
        BY <1>4 DEF CommitOrphan, RollBackOrphan, Met
    <2>2. orphans'[o] = NoRequest /\ \A d \in Orphans \ {o} : orphans'[d] = orphans[d]
        BY <1>t, <2>1
    <2>3. /\ accepted \subseteq accepted' /\ rolledBack \subseteq rolledBack'
          /\ orphans[o].pending \subseteq accepted' \cup rolledBack'
        BY <1>4 DEF CommitOrphan, RollBackOrphan
    <2>4. \A x : Decided(x) => Decided(x)'
        BY <2>1, <2>2, <2>3 DEF Decided
    <2>5. \A x \in seen' : Known(x)'
        BY <1>1, <2>1, <2>4 DEF AccountInv, Known
    <2>6. Passed(NoRequest, Met')
        <3>1. <<>> \in Seq(Packet)
            OBVIOUS
        <3> QED BY <3>1, NoRequestFields, PassedNone
    <2> QED BY <1>1, <2>1, <2>2, <2>5, <2>6 DEF AccountInv
<1> QED BY <1>2, <1>3, <1>4

LEMMA AccountStep == TypeOK /\ PlaceInv /\ AccountInv /\ [Next]_vars => AccountInv'
<1> SUFFICES ASSUME TypeOK, PlaceInv, AccountInv, [Next]_vars PROVE AccountInv'
    OBVIOUS
<1>1. ASSUME NEW c \in Calls, Send(c) PROVE AccountInv'
    <2>1. \A o \in Orphans : Passed(orphans'[o], Met')
        <3>1. Met \subseteq Met'
            BY <1>1, SendKeepsPassed
        <3> SUFFICES ASSUME NEW o \in Orphans PROVE Passed(orphans'[o], Met')
            OBVIOUS
        <3>2. /\ orphans'[o].batch \in {orphans[o].batch, calls[c].batch}
              /\ \/ orphans'[o] = orphans[o]
                 \/ /\ orphans'[o].batch = calls[c].batch /\ orphans'[o].at = calls[c].at
                    /\ orphans'[o].pending = calls[c].pending
            BY <1>1, SendKeepsOrphans
        <3>3. Passed(orphans[o], Met) /\ Passed(calls[c], Met)
            BY DEF AccountInv
        <3> QED BY <3>1, <3>2, <3>3, PassedMore
    <2> QED BY <1>1, <2>1, SendKeepsKnown, SendKeepsPassed DEF AccountInv
<1>2. CASE OrphanMoves
    BY <1>2, OrphanKeepsAccount
<1>3. CASE ~OrphanMoves /\ \A c \in Calls : ~Send(c)
    <2>1. /\ UNCHANGED server
          /\ \A p \in Packets : fate'[p] = "answered" => fate[p] = "answered"
          /\ \A c \in Calls :
                \/ calls'[c] = calls[c]
                \/ /\ calls[c].step = "idle" /\ calls'[c].step = "sent" /\ calls'[c].at = 0
                   /\ calls'[c].pending = {} /\ calls'[c].batch \in Seq(Packet)
        BY <1>3, ClientStep
    <2>2. Met' = Met
        BY <2>1 DEF server, Met
    <2>3. \A c \in Calls : calls[c].pending \subseteq calls'[c].pending
        <3> SUFFICES ASSUME NEW c \in Calls, calls[c].step = "idle" PROVE calls[c].pending = {}
            BY <2>1
        <3>1. calls[c].batch = <<>> /\ DOMAIN <<>> = {}
            BY DEF PlaceInv, IdleHoldsNothing
        <3> QED BY <3>1 DEF AccountInv, Passed
    <2>4. \A x \in seen' : Known(x)'
        BY <2>1, <2>3 DEF server, AccountInv, Known, Decided
    <2>5. ASSUME NEW c \in Calls
          PROVE  /\ Passed(calls'[c], Met')
                 /\ calls'[c].step = "ok" => calls'[c].at = Len(calls'[c].batch) /\ calls'[c].pending = {}
        <3>1. CASE calls'[c] = calls[c]
            BY <2>2, <3>1 DEF AccountInv
        <3>2. CASE calls'[c].step = "sent" /\ calls'[c].at = 0 /\ calls'[c].pending = {}
                   /\ calls'[c].batch \in Seq(Packet)
            BY <3>2, PassedNone
        <3> QED BY <2>1, <3>1, <3>2
    <2>6. \A o \in Orphans : Passed(orphans'[o], Met')
        BY <2>1, <2>2 DEF server, AccountInv
    <2> QED BY <2>1, <2>2, <2>4, <2>5, <2>6 DEF AccountInv
<1> QED BY <1>1, <1>2, <1>3

\* A packet whose batch was answered with a 2xx is stored or refused, or was
\* rolled back with its marker left, or is in the hands of a request that the
\* client has given up on and the server goes on with: whatever is retried,
\* abandoned, beaconed or restarted in between.
THEOREM AnsweredAlwaysAccountedFor == Spec => []AnsweredIsAccountedFor
<1>1. Spec => []PlaceInv
    BY PlaceInit, PlaceStep, TypeCorrect, PTL DEF Spec
<1>2. Spec => []AccountInv
    BY <1>1, AccountInit, AccountStep, TypeCorrect, PTL DEF Spec
<1>3. TypeOK /\ PlaceInv /\ AccountInv => AnsweredIsAccountedFor
    <2> SUFFICES ASSUME TypeOK, PlaceInv, AccountInv, NEW p \in Packets, fate[p] = "answered"
                 PROVE  Decided(p)
        BY DEF AnsweredIsAccountedFor, Decided
    <2>1. p \in seen \cup refused
        BY DEF AccountInv, Met
    <2>2. CASE p \in seen
        <3>1. ASSUME NEW c \in Calls, p \in calls[c].pending PROVE FALSE
            <4>1. p \in Held(c)
                BY <3>1 DEF AccountInv, Passed, Held, IdsOf
            <4> QED BY <4>1 DEF PlaceInv, LiveIsSomewhere, Somewhere
        <3> QED BY <2>2, <3>1 DEF AccountInv, Known
    <2>3. CASE p \in refused
        BY <2>3 DEF Decided
    <2> QED BY <2>1, <2>2, <2>3
<1> QED BY <1>1, <1>2, <1>3, TypeCorrect, PTL

-----------------------------------------------------------------------------
(* What a refusal means *)

\* Without a change of the session a packet's sequence number is its own number.
OwnBatch(s) == \A i \in DOMAIN s : s[i].sid = Header /\ s[i].seq = s[i].id

\* Every packet has its own number, wherever it is, and what the server has refused
\* is below the last one, which it has marked.
Numbered ==
    /\ sid = Header /\ seq = made
    /\ OwnBatch(queue)
    /\ \A c \in Calls : OwnBatch(calls[c].batch)
    /\ \A o \in Orphans : OwnBatch(orphans[o].batch)
    /\ last = 0 \/ last \in seen
    /\ \A p \in refused : p < last

NumberInv == ~switched => Numbered

LEMMA NumberInit == Init => NumberInv
<1> SUFFICES ASSUME Init PROVE Numbered
    BY DEF NumberInv
<1>1. DOMAIN <<>> = {} /\ queue = <<>>
    BY DEF Init
<1>2. (\A c \in Calls : calls[c].batch = <<>>) /\ (\A o \in Orphans : orphans[o].batch = <<>>)
    BY NoCallFields, NoRequestFields DEF Init
<1>3. OwnBatch(<<>>)
    BY <1>1 DEF OwnBatch
<1>4. sid = Header /\ seq = made /\ last = 0 /\ refused = {}
    BY DEF Init
<1> QED BY <1>1, <1>2, <1>3, <1>4 DEF Numbered

LEMMA SplitOwn ==
    ASSUME NEW q \in Seq(Packet), NEW n \in Nat, OwnBatch(q)
    PROVE  OwnBatch(Dequeued(q, n)) /\ OwnBatch(Left(q, n))
<1> DEFINE d == Dequeued(q, n)
           r == Left(q, n)
           k == Least(n, Len(q))
<1>1. /\ k \in 0 .. Len(q)
      /\ d \in Seq(Packet) /\ r \in Seq(Packet)
      /\ Len(d) = k /\ Len(r) = Len(q) - k
      /\ \A i \in 1 .. k : d[i] = q[i]
      /\ \A i \in 1 .. Len(q) - k : r[i] = q[k + i]
    BY Split
<1> HIDE DEF d, r, k
<1>2. \A i \in 1 .. Len(q) : q[i].sid = Header /\ q[i].seq = q[i].id
    BY DEF OwnBatch
<1>3. Len(q) \in Nat /\ k \in Nat /\ k <= Len(q)
    BY <1>1
<1>4. \A i \in 1 .. k : i \in 1 .. Len(q) /\ d[i] = q[i]
    BY <1>1, <1>3
<1>5. \A i \in 1 .. Len(q) - k : k + i \in 1 .. Len(q) /\ r[i] = q[k + i]
    BY <1>1, <1>3
<1>6. DOMAIN d = 1 .. k /\ DOMAIN r = 1 .. Len(q) - k
    BY <1>1
<1>7. OwnBatch(d)
    BY <1>2, <1>4, <1>6 DEF OwnBatch
<1>8. OwnBatch(r)
    BY <1>2, <1>5, <1>6 DEF OwnBatch
<1> QED BY <1>7, <1>8 DEF d, r

LEMMA EnqueuedOwn ==
    ASSUME TypeOK, NEW stop \in BOOLEAN, Build(stop), Numbered
    PROVE  OwnBatch(Enqueued(stop))
<1> DEFINE k == IF Evicts(stop) THEN 1 ELSE 0
           b == IF Builds(stop) THEN 1 ELSE 0
           e == Enqueued(stop)
           m == Len(queue) - k
<1>1. /\ k \in 0 .. Len(queue)
      /\ e \in Seq(Packet) /\ Len(e) = Len(queue) - k + b
      /\ \A i \in 1 .. Len(queue) - k : e[i] = queue[i + k]
      /\ Builds(stop) => e[Len(e)] = Built
    BY EnqueuedShape
<1>2. /\ queue \in Seq(Packet) /\ Len(queue) \in Nat /\ m \in Nat /\ k \in Nat
      /\ b \in {0, 1} /\ (b = 1 => Builds(stop)) /\ Len(e) = m + b
      /\ \A i \in 1 .. m : e[i] = queue[i + k]
      /\ Len(queue) = m + k
    BY <1>1 DEF TypeOK
<1> HIDE DEF k, b, e, m
<1> SUFFICES ASSUME NEW i \in 1 .. m + b PROVE e[i].sid = Header /\ e[i].seq = e[i].id
    BY <1>1, <1>2 DEF OwnBatch, e
<1>3. CASE i \in 1 .. m
    <2>1. i + k \in DOMAIN queue /\ e[i] = queue[i + k]
        BY <1>2, <1>3
    <2> QED BY <2>1 DEF Numbered, OwnBatch
<1>4. CASE i \notin 1 .. m
    <2>1. b = 1 /\ i = m + 1
        BY <1>2, <1>4
    <2>2. e[i] = Built /\ Builds(stop)
        BY <1>1, <1>2, <2>1
    <2>3. Built.id = made + 1 /\ Built.sid = sid /\ Built.seq = seq + 1
        BY <2>2, BuiltType
    <2> QED BY <2>2, <2>3 DEF Numbered
<1> QED BY <1>3, <1>4

\* The server goes through a packet that has its own number.
LEMMA CheckNumbers ==
    ASSUME TypeOK, NEW p \in Packet, Check(p), p.sid = Header, p.seq = p.id,
           last = 0 \/ last \in seen, \A x \in refused : x < last
    PROVE  /\ last' = 0 \/ last' \in seen'
           /\ \A x \in refused' : x < last'
           /\ \A x \in refused' : x \in refused \/ (x = p.id /\ p.id \notin seen /\ p.id < last)
<1>1. last \in Nat /\ (\A x \in refused : x \in Nat) /\ p.id \in Nat /\ p.id # 0
    BY PacketNumbers DEF TypeOK, Packet, Packets
<1>2. last' = last \/ (last' = p.id /\ last < p.id /\ p.id \in seen')
    BY DEF Check, InTurn, New
<1>3. last' = last => last' = 0 \/ last' \in seen'
    BY CheckFields
<1>4. \A x \in refused' : x \in refused \/ (x = p.id /\ p.id \notin seen /\ p.id < last)
    <2> SUFFICES ASSUME p.id \notin seen, ~(p.seq > last) PROVE p.id < last
        BY DEF Check
    <2> QED BY <1>1
<1>5. \A x \in refused' : x < last'
    <2> SUFFICES ASSUME NEW x \in refused' PROVE x < last'
        OBVIOUS
    <2>1. x < last /\ x \in Nat
        BY <1>1, <1>4
    <2> QED BY <1>1, <1>2, <2>1
<1> QED BY <1>2, <1>3, <1>4, <1>5

\* What is in the queue, the calls and the requests after a step of a call.
LEMMA SendKeepsNumbers ==
    ASSUME TypeOK, Numbered, NEW c \in Calls, Send(c)
    PROVE  Numbered'
<1>t. calls \in [Calls -> Call] /\ queue \in Seq(Packet) /\ BatchSize \in Nat
    BY CallsType DEF TypeOK
<1>1. sid' = Header /\ seq' = made'
    BY SendKeepsLifecycle DEF Numbered, harvest, session
<1>2. OwnBatch(queue') /\ \A d \in Calls : OwnBatch(calls'[d].batch)
    <2>n. ASSUME NEW n, calls' = [calls EXCEPT ![c] = n], OwnBatch(n.batch)
          PROVE  \A d \in Calls : OwnBatch(calls'[d].batch)
        <3>1. calls'[c] = n /\ \A d \in Calls \ {c} : calls'[d] = calls[d]
            BY <1>t, <2>n
        <3> QED BY <2>n, <3>1 DEF Numbered
    <2>1. CASE /\ queue' = queue
               /\ \E n \in Call : calls' = [calls EXCEPT ![c] = n] /\ n.batch = calls[c].batch
        <3>1. PICK n \in Call : calls' = [calls EXCEPT ![c] = n] /\ n.batch = calls[c].batch
            BY <2>1
        <3>2. OwnBatch(n.batch) /\ OwnBatch(queue)
            BY <3>1 DEF Numbered
        <3> QED BY <2>1, <2>n, <3>1, <3>2
    <2>2. CASE \E how \in {"answered", "gone"} : End(c, how)
        <3>1. /\ OwnBatch(Dequeued(queue, BatchSize)) /\ OwnBatch(Left(queue, BatchSize))
              /\ Dequeued(queue, BatchSize) \in Seq(Packet)
            BY <1>t, Split, SplitOwn DEF Numbered
        <3> DEFINE s == Sending(Dequeued(queue, BatchSize))
        <3>2. OwnBatch(s.batch)
            BY <3>1, SendingFields
        <3>3. OwnBatch(NoCall.batch)
            <4>1. DOMAIN <<>> = {}
                OBVIOUS
            <4> QED BY <4>1, NoCallFields DEF OwnBatch
        <3> HIDE DEF s
        <3>4. CASE queue' = Left(queue, BatchSize) /\ calls' = [calls EXCEPT ![c] = s]
            BY <2>n, <3>1, <3>2, <3>4
        <3>5. CASE queue' = queue /\ calls' = [calls EXCEPT ![c] = NoCall]
            BY <2>n, <3>3, <3>5 DEF Numbered
        <3> QED BY <2>2, <3>4, <3>5, EndShape DEF Takes, s
    <2> QED BY <2>1, <2>2, SendShape
<1>3. \A o \in Orphans : OwnBatch(orphans'[o].batch)
    BY SendKeepsOrphans DEF Numbered
<1>4. (last' = 0 \/ last' \in seen') /\ \A p \in refused' : p < last'
    <2>1. CASE Ingest(c)
        <3> DEFINE p == NextOf(calls[c])
        <3>1. /\ calls[c].at + 1 \in DOMAIN calls[c].batch /\ p \in Packet
              /\ p = calls[c].batch[calls[c].at + 1] /\ Check(p)
            BY <2>1, IngestFields
        <3>2. p.sid = Header /\ p.seq = p.id
            BY <3>1 DEF Numbered, OwnBatch
        <3> HIDE DEF p
        <3> QED BY <3>1, <3>2, CheckNumbers DEF Numbered
    <2>2. CASE ~Ingest(c)
        BY <2>2, SendKeepsMarks DEF Numbered
    <2> QED BY <2>1, <2>2
<1> QED BY <1>1, <1>2, <1>3, <1>4 DEF Numbered

\* What is in the requests of no one after one of their steps.
LEMMA OrphanShape ==
    ASSUME TypeOK, OrphanMoves
    PROVE  \A o \in Orphans : orphans'[o].batch \in {orphans[o].batch, <<>>}
<1>1. PICK o \in Orphans : RunOn(o) \/ CommitOrphan(o) \/ RollBackOrphan(o)
    BY DEF OrphanMoves
<1>2. CASE RunOn(o)
    <2>1. PICK n \in Request : orphans' = [orphans EXCEPT ![o] = n] /\ n.batch = orphans[o].batch
        BY <1>2, RunOnFields
    <2> QED BY <2>1, OrphansType
<1>3. CASE CommitOrphan(o) \/ RollBackOrphan(o)
    <2>1. orphans' = [orphans EXCEPT ![o] = NoRequest]
        BY <1>3 DEF CommitOrphan, RollBackOrphan
    <2> QED BY <2>1, OrphansType, NoRequestFields
<1> QED BY <1>1, <1>2, <1>3

LEMMA OrphanKeepsNumbers ==
    ASSUME TypeOK, Numbered, OrphanMoves
    PROVE  Numbered'
<1>1. sid' = Header /\ seq' = made' /\ UNCHANGED <<queue, calls>>
    BY OrphanLeavesClient DEF Numbered, harvest, session
<1>2. \A o \in Orphans : OwnBatch(orphans'[o].batch)
    <2>1. DOMAIN <<>> = {}
        OBVIOUS
    <2>2. OwnBatch(<<>>)
        BY <2>1 DEF OwnBatch
    <2>3. \A o \in Orphans : OwnBatch(orphans[o].batch)
        BY DEF Numbered
    <2> QED BY <2>2, <2>3, OrphanShape
<1>3. PICK o \in Orphans : RunOn(o) \/ CommitOrphan(o) \/ RollBackOrphan(o)
    BY DEF OrphanMoves
<1>4. (last' = 0 \/ last' \in seen') /\ \A p \in refused' : p < last'
    <2>1. CASE RunOn(o)
        <3> DEFINE p == NextOf(orphans[o])
        <3>1. /\ orphans[o].at + 1 \in DOMAIN orphans[o].batch /\ p \in Packet
              /\ p = orphans[o].batch[orphans[o].at + 1] /\ Check(p)
            BY <2>1, RunOnFields
        <3>2. p.sid = Header /\ p.seq = p.id
            BY <3>1 DEF Numbered, OwnBatch
        <3> HIDE DEF p
        <3> QED BY <3>1, <3>2, CheckNumbers DEF Numbered
    <2>2. CASE CommitOrphan(o) \/ RollBackOrphan(o)
        BY <2>2 DEF CommitOrphan, RollBackOrphan, Numbered
    <2> QED BY <1>3, <2>1, <2>2
<1> QED BY <1>1, <1>2, <1>4 DEF Numbered

\* A harvest and what is taken from the queue after it.
LEMMA HarvestKeepsNumbers ==
    ASSUME TypeOK, Numbered, NEW stop \in BOOLEAN, Build(stop), NEW n \in Nat, NEW c \in Calls,
           UNCHANGED <<session, server>>,
           \/ queue' = Enqueued(stop) /\ calls' = calls
           \/ queue' = Left(Enqueued(stop), n) /\ calls' = calls
           \/ Takes(c, Enqueued(stop), n)
    PROVE  Numbered'
<1> DEFINE e == Enqueued(stop)
<1>1. OwnBatch(e) /\ e \in Seq(Packet)
    BY EnqueuedOwn, EnqueuedShape
<1> HIDE DEF e
<1>2. OwnBatch(Dequeued(e, n)) /\ OwnBatch(Left(e, n)) /\ Dequeued(e, n) \in Seq(Packet)
    BY <1>1, SplitOwn, Split
<1>3. OwnBatch(queue')
    BY <1>1, <1>2 DEF Takes, e
<1>4. \A d \in Calls : OwnBatch(calls'[d].batch)
    <2>1. CASE calls' = calls
        BY <2>1 DEF Numbered
    <2>2. CASE Takes(c, e, n)
        <3>1. calls' = [calls EXCEPT ![c] = Sending(Dequeued(e, n))]
            BY <2>2 DEF Takes
        <3>2. /\ calls'[c] = Sending(Dequeued(e, n))
              /\ \A d \in Calls \ {c} : calls'[d] = calls[d]
            BY <3>1, CallsType
        <3> QED BY <1>2, <3>2, SendingFields DEF Numbered
    <2> QED BY <2>1, <2>2 DEF e
<1>5. sid' = Header /\ seq' = made'
    <2>1. seq = made /\ sid' = sid
        BY DEF Numbered, session
    <2>2. CASE Builds(stop)
        BY <2>1, <2>2, Zenon DEF Build, Numbered
    <2>3. CASE ~Builds(stop)
        BY <2>1, <2>3, Zenon DEF Build, Numbered
    <2> QED BY <2>2, <2>3
<1> QED BY <1>3, <1>4, <1>5 DEF Numbered, server

LEMMA NumberStep == TypeOK /\ NumberInv /\ [Next]_vars => NumberInv'
<1> SUFFICES ASSUME TypeOK, NumberInv, [Next]_vars, ~switched'
             PROVE  Numbered'
    BY DEF NumberInv
<1>f. Calls = {Flush} \cup Strays /\ BatchSize \in Nat /\ 2 * BatchSize \in Nat
    BY DEF Calls
<1>n. UNCHANGED session => Numbered
    BY DEF NumberInv, session
\* A step that moves no packet, but may clear the queue.
<1>s. ASSUME UNCHANGED <<server, calls, session, seq, made>>, queue' \in {queue, <<>>}
      PROVE  Numbered'
    <2>1. DOMAIN <<>> = {}
        OBVIOUS
    <2>2. OwnBatch(<<>>)
        BY <2>1 DEF OwnBatch
    <2> QED BY <1>n, <1>s, <2>2 DEF Numbered, server, session
<1>1. CASE Activity
    BY <1>1, <1>s DEF Activity
<1>2. CASE Tick \/ FlushNow
    <2>1. HarvestAndDispatch
        BY <1>2 DEF Tick, FlushNow
    <2> QED BY <1>f, <1>n, <2>1, HarvestShape, HarvestKeepsNumbers
<1>3. CASE Hide
    <2> DEFINE n == 2 * BatchSize
    <2>1. n \in Nat
        BY <1>f
    <2>2. /\ Build(TRUE) /\ UNCHANGED <<session, server>>
          /\ \/ queue' = Left(Enqueued(TRUE), n) /\ calls' = calls
             \/ \E c \in Strays : Takes(c, Enqueued(TRUE), n)
        BY <1>3, HideShape
    <2> HIDE DEF n
    <2> QED BY <1>f, <1>n, <2>1, <2>2, HarvestKeepsNumbers
<1>4. ASSUME NEW c \in Calls, Send(c) PROVE Numbered'
    BY <1>4, <1>n, SendKeepsLifecycle, SendKeepsNumbers
<1>5. CASE OrphanMoves
    BY <1>5, <1>n, OrphanLeavesClient, OrphanKeepsNumbers
<1>6. CASE Start \/ Pause \/ Resume \/ Stop
    BY <1>6, <1>s DEF Start, Pause, Resume, ResumeManager, Stop, idleParts
<1>7. CASE Destroy
    BY <1>7, <1>s DEF Destroy, ClearQueue, idleParts
<1>8. CASE UpdateSession
    BY <1>8 DEF UpdateSession
<1>9. CASE UNCHANGED vars
    BY <1>9, <1>s DEF vars, harvest
<1> QED BY <1>1, <1>2, <1>3, <1>4, <1>5, <1>6, <1>7, <1>8, <1>9 DEF Next, OrphanMoves

\* While nothing has disturbed the batch loop, a packet that is still to be sent is
\* above the last number unless the server has it marked, and no request, the one
\* of the loop nor one that is abandoned, can bring a later packet before it.
Unmarked(y) == fate[y] = "live" /\ y \notin seen

Ready(b) ==
    /\ Increasing(b) /\ \A x \in IdsOf(b) : x <= made
    /\ \A y \in Packets : Unmarked(y) => y \in IdsOf(b) \/ \A x \in IdsOf(b) : x < y

Calm ==
    /\ ~switched
    /\ \A c \in Strays : calls[c].step = "idle"
    /\ last <= made
    /\ \A y \in Packets : Unmarked(y) => last < y
    /\ \A p \in refused : fate[p] \notin {"live", "answered"}
    /\ \A o \in Orphans : Ready(orphans[o].batch)

CalmInv == disturbed = 0 => Calm

LEMMA NothingReady == Ready(<<>>)
<1>1. DOMAIN <<>> = {}
    OBVIOUS
<1> QED BY <1>1, NothingHeld DEF Ready, Increasing

LEMMA CalmInit == Init => CalmInv
<1> SUFFICES ASSUME Init PROVE Calm
    BY DEF CalmInv
<1>1. (\A c \in Strays : calls[c] = NoCall) /\ (\A o \in Orphans : orphans[o] = NoRequest)
    BY DEF Init, Calls
<1>2. \A o \in Orphans : Ready(orphans[o].batch)
    BY <1>1, NothingReady, NoRequestFields
<1>3. \A y \in Packets : ~Unmarked(y)
    BY DEF Init, Unmarked
<1>4. ~switched /\ last <= made /\ refused = {}
    BY DEF Init
<1> QED BY <1>1, <1>2, <1>3, <1>4, NoCallFields DEF Calm

\* The batch of the loop is in front of everything that is still to be sent.
LEMMA LoopReady ==
    ASSUME TypeOK, PlaceInv, Calm
    PROVE  Ready(calls[Flush].batch)
<1>f. Flush \in Calls /\ Calls = {Flush} \cup Strays
    BY DEF Calls
<1>1. Increasing(calls[Flush].batch) /\ \A x \in IdsOf(calls[Flush].batch) : x <= made
    BY <1>f DEF PlaceInv, Ordered, Held
<1>2. \A c \in Strays : Held(c) = {}
    BY <1>f, NothingHeld DEF Calm, PlaceInv, IdleHoldsNothing, Held
<1>3. \A y \in Packets : Unmarked(y) => y \in IdsOf(queue) \/ y \in Held(Flush)
    BY <1>f, <1>2 DEF Unmarked, PlaceInv, LiveIsSomewhere, Somewhere
<1>4. \A y \in IdsOf(queue), x \in Held(Flush) : x < y
    BY <1>f DEF PlaceInv, Ordered, Before, Held
<1> QED BY <1>1, <1>3, <1>4 DEF Ready, Held

\* A batch that is ready stays so while what is still to be sent grows fewer.
LEMMA ReadyKept ==
    ASSUME NEW b, Ready(b), made' = made,
           \A y \in Packets : Unmarked(y)' => Unmarked(y)
    PROVE  /\ Increasing(b) /\ \A x \in IdsOf(b) : x <= made'
           /\ \A y \in Packets : Unmarked(y)' => y \in IdsOf(b) \/ \A x \in IdsOf(b) : x < y
BY DEF Ready

\* The server goes through the next packet of a ready batch.
LEMMA CheckKeepsCalm ==
    ASSUME TypeOK, AccountInv, Numbered, Calm, UNCHANGED <<fate, made>>,
           NEW b \in Seq(Packet), NEW j \in DOMAIN b, Check(b[j]),
           b[j].sid = Header, b[j].seq = b[j].id, Ready(b),
           \A i \in DOMAIN b : i < j => b[i].id \in Met
    PROVE  /\ last' <= made'
           /\ \A y \in Packets : Unmarked(y)' => Unmarked(y) /\ last' < y
           /\ \A x \in refused' : fate'[x] \notin {"live", "answered"}
<1> DEFINE p == b[j]
<1>1. p \in Packet /\ p.id \in IdsOf(b) /\ DOMAIN b = 1 .. Len(b) /\ Len(b) \in Nat
    BY DEF IdsOf
<1>2. p.id \in Packets /\ p.id \in Nat /\ last \in Nat /\ made \in Nat
    BY <1>1, PacketNumbers DEF Packet, TypeOK
<1>3. p.id <= made
    BY <1>1 DEF Ready
<1>4. /\ last' \in {last, p.id} /\ seen \subseteq seen' /\ Check(p)
      /\ last' = p.id /\ last' # last => p.id \in seen'
    BY <1>1, CheckFields DEF Check, InTurn, New
<1>5. ASSUME NEW y \in Packets, Unmarked(y) PROVE y = p.id \/ p.id < y
    <2>1. y \notin Met
        BY <1>5 DEF Met, Unmarked, Calm
    <2>2. CASE y \in IdsOf(b)
        <3>1. PICK i \in DOMAIN b : y = b[i].id
            BY <2>2 DEF IdsOf
        <3>2. ~(i < j)
            BY <2>1, <3>1
        <3>3. i = j \/ j < i
            BY <1>1, <3>2
        <3> QED BY <3>1, <3>3 DEF Ready, Increasing
    <2>3. CASE \A x \in IdsOf(b) : x < y
        BY <1>1, <2>3
    <2> QED BY <1>5, <2>2, <2>3 DEF Ready
<1>6. ASSUME NEW y \in Packets, Unmarked(y)' PROVE Unmarked(y) /\ last' < y
    <2>1. Unmarked(y) /\ y \notin seen'
        BY <1>4, <1>6 DEF Unmarked
    <2>2. last < y
        BY <2>1 DEF Calm
    <2>3. last' = last \/ (last' = p.id /\ y # p.id)
        BY <1>4, <2>1
    <2> QED BY <1>5, <2>1, <2>2, <2>3
<1>7. ASSUME NEW x \in refused' PROVE fate'[x] \notin {"live", "answered"}
    <2>1. x \in refused \/ (x = p.id /\ p.id \notin seen /\ p.id < last)
        BY <1>1, <1>7, CheckNumbers DEF Numbered
    <2>2. CASE x \in refused
        BY <2>2 DEF Calm
    <2>3. CASE x \notin refused /\ x = p.id /\ p.id \notin seen /\ p.id < last
        <3>1. fate[x] # "answered"
            BY <1>2, <2>3 DEF AccountInv, Met
        <3>2. fate[x] # "live"
            <4>1. ~(last < p.id)
                BY <1>2, <2>3
            <4> QED BY <1>2, <2>3, <4>1 DEF Calm, Unmarked
        <3> QED BY <3>1, <3>2
    <2> QED BY <2>1, <2>2, <2>3
<1>8. last' <= made'
    BY <1>2, <1>3, <1>4 DEF Calm
<1> QED BY <1>6, <1>7, <1>8

\* A step of the loop's call.
LEMMA SendKeepsCalm ==
    ASSUME TypeOK, PlaceInv, AccountInv, Numbered, Calm, Send(Flush)
    PROVE  Calm'
<1>f. Flush \in Calls /\ Flush \notin Strays /\ Strays \subseteq Calls
    BY DEF Calls
<1>1. UNCHANGED <<switched, made>>
    BY <1>f, SendKeepsLifecycle DEF session, harvest
<1>2. \A c \in Strays : calls'[c].step = "idle"
    <2>1. \E n : calls' = [calls EXCEPT ![Flush] = n]
        BY <1>f, SendShape, EndShape DEF Takes
    <2> QED BY <1>f, <2>1, CallsType DEF Calm
<1>3. /\ last' <= made'
      /\ \A y \in Packets : Unmarked(y)' => Unmarked(y) /\ last' < y
      /\ \A x \in refused' : fate'[x] \notin {"live", "answered"}
    <2>1. CASE Ingest(Flush)
        <3> DEFINE b == calls[Flush].batch
                   j == calls[Flush].at + 1
        <3>1. j \in DOMAIN b /\ NextOf(calls[Flush]) = b[j] /\ Check(b[j])
            BY <1>f, <2>1, IngestFields
        <3>2. UNCHANGED fate /\ b \in Seq(Packet) /\ calls[Flush].at \in Nat
            BY <1>f, <2>1, CallTypes DEF Ingest, Call
        <3>3. b[j].sid = Header /\ b[j].seq = b[j].id
            BY <1>f, <3>1 DEF Numbered, OwnBatch
        <3>4. \A i \in DOMAIN b : i < j => b[i].id \in Met
            <4>1. \A i \in DOMAIN b : i < j => i <= calls[Flush].at
                BY <3>2
            <4> QED BY <1>f, <4>1 DEF AccountInv, Passed
        <3>5. Ready(b)
            BY LoopReady
        <3> HIDE DEF b, j
        <3> QED BY <1>1, <3>1, <3>2, <3>3, <3>4, <3>5, CheckKeepsCalm
    <2>2. CASE ~Ingest(Flush)
        <3>1. UNCHANGED <<seen, last, refused>>
            BY <1>f, <2>2, SendKeepsMarks
        <3>2. ASSUME NEW p \in Packets
              PROVE  /\ fate'[p] = "live" => fate[p] = "live"
                     /\ fate'[p] = "answered" => fate[p] \in {"live", "answered"}
            <4>1. CASE fate' = fate
                BY <4>1
            <4>2. CASE \E how \in {"answered", "gone"} : End(Flush, how)
                <5>1. PICK how \in {"answered", "gone"} : End(Flush, how)
                    BY <4>2
                <5>2. fate'[p] = IF p \in Held(Flush) THEN how ELSE fate[p]
                    BY <5>1 DEF End, Held
                <5>3. p \in Held(Flush) => fate[p] = "live"
                    BY <1>f DEF PlaceInv, LiveIsSomewhere, Somewhere
                <5> QED BY <5>2, <5>3
            <4> QED BY <1>f, <4>1, <4>2, SendShape
        <3>3. \A x \in refused : x \in Packets
            BY DEF TypeOK
        <3> QED BY <1>1, <3>1, <3>2, <3>3 DEF Calm, Unmarked
    <2> QED BY <2>1, <2>2
<1>4. ASSUME NEW o \in Orphans PROVE Ready(orphans[o].batch)'
    <2>1. orphans'[o].batch \in {orphans[o].batch, calls[Flush].batch}
        BY <1>f, SendKeepsOrphans
    <2>2. Ready(orphans[o].batch) /\ Ready(calls[Flush].batch)
        BY LoopReady DEF Calm
    <2> QED BY <1>1, <1>3, <2>1, <2>2, ReadyKept DEF Ready
<1> QED BY <1>1, <1>2, <1>3, <1>4 DEF Calm

LEMMA OrphanKeepsCalm ==
    ASSUME TypeOK, AccountInv, Numbered, Calm, OrphanMoves
    PROVE  Calm'
<1>1. UNCHANGED <<switched, made, fate, calls>>
    BY OrphanLeavesClient DEF session, harvest
<1>2. PICK o \in Orphans : RunOn(o) \/ CommitOrphan(o) \/ RollBackOrphan(o)
    BY DEF OrphanMoves
<1>3. /\ last' <= made'
      /\ \A y \in Packets : Unmarked(y)' => Unmarked(y) /\ last' < y
      /\ \A x \in refused' : fate'[x] \notin {"live", "answered"}
    <2>1. CASE RunOn(o)
        <3> DEFINE b == orphans[o].batch
                   j == orphans[o].at + 1
        <3>1. j \in DOMAIN b /\ NextOf(orphans[o]) = b[j] /\ Check(b[j])
            BY <2>1, RunOnFields
        <3>2. b \in Seq(Packet) /\ orphans[o].at \in Nat
            BY OrphansType DEF Request
        <3>3. b[j].sid = Header /\ b[j].seq = b[j].id
            BY <3>1 DEF Numbered, OwnBatch
        <3>4. \A i \in DOMAIN b : i < j => b[i].id \in Met
            <4>1. \A i \in DOMAIN b : i < j => i <= orphans[o].at
                BY <3>2
            <4> QED BY <4>1 DEF AccountInv, Passed
        <3>5. Ready(b)
            BY DEF Calm
        <3> HIDE DEF b, j
        <3> QED BY <1>1, <3>1, <3>2, <3>3, <3>4, <3>5, CheckKeepsCalm
    <2>2. CASE CommitOrphan(o) \/ RollBackOrphan(o)
        <3>1. UNCHANGED <<seen, last, refused>>
            BY <2>2 DEF CommitOrphan, RollBackOrphan
        <3> QED BY <1>1, <3>1 DEF Calm, Unmarked
    <2> QED BY <1>2, <2>1, <2>2
<1>4. ASSUME NEW d \in Orphans PROVE Ready(orphans[d].batch)'
    <2>1. orphans'[d].batch \in {orphans[d].batch, <<>>}
        BY OrphanShape
    <2>2. Ready(orphans[d].batch) /\ Ready(<<>>)
        BY NothingReady DEF Calm
    <2> QED BY <1>1, <1>3, <2>1, <2>2, ReadyKept DEF Ready
<1> QED BY <1>1, <1>3, <1>4 DEF Calm

\* A step that leaves the server alone: what it builds is above everything.
LEMMA ClientKeepsCalm ==
    ASSUME TypeOK, Numbered, Calm, UNCHANGED <<server, switched>>,
           made' = made \/ made' = made + 1,
           \A y \in Packets :
             /\ fate'[y] = "live" => fate[y] = "live" \/ (y = made + 1 /\ made' = made + 1)
             /\ fate'[y] = "answered" => fate[y] = "answered",
           \A c \in Strays : calls'[c].step = "idle"
    PROVE  Calm'
<1>1. made \in Nat /\ last \in Nat /\ (\A y \in Packets : y \in Nat)
    BY PacketNumbers DEF TypeOK
<1>2. UNCHANGED <<seen, last, refused, orphans>>
    BY DEF server
<1>3. last' <= made' /\ made <= made'
    BY <1>1, <1>2 DEF Calm
<1>4. \A y \in Packets : Unmarked(y)' => Unmarked(y) \/ (y = made + 1 /\ made' = made + 1)
    BY <1>2 DEF Unmarked
<1>5. \A y \in Packets : Unmarked(y)' => last' < y
    BY <1>1, <1>2, <1>4 DEF Calm
<1>6. ASSUME NEW p \in refused PROVE fate'[p] \notin {"live", "answered"}
    <2>1. p \in Packets /\ p < last
        BY DEF TypeOK, Numbered
    <2>2. p # made + 1
        BY <1>1, <2>1 DEF Calm
    <2> QED BY <2>1, <2>2 DEF Calm
<1>7. ASSUME NEW o \in Orphans PROVE Ready(orphans[o].batch)'
    <2> DEFINE b == orphans[o].batch
    <2>1. Ready(b) /\ b \in Seq(Packet)
        BY OrphansType DEF Calm, Request
    <2> HIDE DEF b
    <2>2. \A x \in IdsOf(b) : x \in Nat /\ x <= made
        BY <1>1, <2>1, IdsType DEF Ready
    <2>3. \A x \in IdsOf(b) : x <= made'
        BY <1>1, <1>3, <2>2
    <2>4. ASSUME NEW y \in Packets, Unmarked(y)' PROVE y \in IdsOf(b) \/ \A x \in IdsOf(b) : x < y
        <3>1. CASE Unmarked(y)
            BY <2>1, <3>1 DEF Ready
        <3>2. CASE y = made + 1
            BY <1>1, <2>2, <3>2
        <3> QED BY <1>4, <2>4, <3>1, <3>2
    <2>5. Increasing(b)
        BY <2>1 DEF Ready
    <2>6. orphans'[o].batch = b
        BY <1>2 DEF b
    <2> QED BY <2>3, <2>4, <2>5, <2>6 DEF Ready
<1> QED BY <1>2, <1>3, <1>5, <1>6, <1>7 DEF Calm

\* What a harvest makes of the packets.
LEMMA HarvestFate ==
    ASSUME TypeOK, NEW stop \in BOOLEAN, Build(stop),
           NEW gone, NEW how \in {"live", "gone"}, gone = {} \/ how = "gone",
           Harvested(stop, gone, how)
    PROVE  /\ made' = made \/ made' = made + 1
           /\ \A y \in Packets :
                /\ fate'[y] = "live" => fate[y] = "live" \/ (y = made + 1 /\ made' = made + 1)
                /\ fate'[y] = "answered" => fate[y] = "answered"
<1>1. made' = IF Builds(stop) THEN made + 1 ELSE made
    BY Zenon DEF Build
<1>2. ASSUME NEW y \in Packets
      PROVE  /\ fate'[y] = "live" => fate[y] = "live" \/ (y = made + 1 /\ made' = made + 1)
             /\ fate'[y] = "answered" => fate[y] = "answered"
    <2>1. fate'[y] = IF y \in gone THEN how
                     ELSE IF Evicts(stop) /\ y = Head(queue).id THEN "gone"
                     ELSE IF Builds(stop) /\ y = made + 1 THEN "live" ELSE fate[y]
        BY DEF Harvested
    <2> QED BY <1>1, <2>1
<1> QED BY <1>1, <1>2

LEMMA CalmStep ==
    TypeOK /\ PlaceInv /\ AccountInv /\ NumberInv /\ CalmInv /\ [Next]_vars => CalmInv'
<1> SUFFICES ASSUME TypeOK, PlaceInv, AccountInv, NumberInv, CalmInv, [Next]_vars, disturbed' = 0
             PROVE  Calm'
    BY DEF CalmInv
<1>f. Calls = {Flush} \cup Strays /\ Flush \notin Strays /\ BatchSize \in Nat /\ 2 * BatchSize \in Nat
    BY DEF Calls
<1>d. disturbed \in Nat /\ disturbed + 1 # 0
    BY DEF TypeOK
<1>n. disturbed' = disturbed => Calm /\ Numbered
    BY DEF CalmInv, NumberInv, Calm
\* A step that builds nothing and begins no call.
<1>s. ASSUME UNCHANGED <<disturbed, server, calls, switched, made>>,
             \A p \in Packets : fate'[p] = fate[p] \/ fate'[p] = "gone"
      PROVE  Calm'
    <2>1. Calm /\ Numbered
        BY <1>n, <1>s
    <2>2. \A c \in Strays : calls'[c].step = "idle"
        BY <1>s, <2>1 DEF Calm
    <2>3. \A y \in Packets :
             /\ fate'[y] = "live" => fate[y] = "live" \/ (y = made + 1 /\ made' = made + 1)
             /\ fate'[y] = "answered" => fate[y] = "answered"
        BY <1>s
    <2> QED BY <1>s, <2>1, <2>2, <2>3, ClientKeepsCalm
<1>1. CASE Activity
    BY <1>1, <1>s DEF Activity, session
<1>2. CASE Tick \/ FlushNow
    <2>1. HarvestAndDispatch
        BY <1>2 DEF Tick, FlushNow
    <2>2. /\ Build(FALSE) /\ Harvested(FALSE, {}, "live")
          /\ calls' = calls \/ Takes(Flush, Enqueued(FALSE), BatchSize)
          /\ UNCHANGED <<session, server, disturbed>>
        BY <2>1, HarvestShape
    <2>3. Calm /\ Numbered /\ UNCHANGED switched
        BY <1>n, <2>2 DEF session
    <2>4. \A c \in Strays : calls'[c].step = "idle"
        BY <1>f, <2>2, <2>3, CallsType DEF Takes, Calm
    <2>5. /\ made' = made \/ made' = made + 1
          /\ \A y \in Packets :
                /\ fate'[y] = "live" => fate[y] = "live" \/ (y = made + 1 /\ made' = made + 1)
                /\ fate'[y] = "answered" => fate[y] = "answered"
        BY <2>2, HarvestFate
    <2> QED BY <2>2, <2>3, <2>4, <2>5, ClientKeepsCalm
<1>3. CASE Hide
    <2>1. disturbed' = disturbed \/ disturbed' = disturbed + 1
        BY <1>3, HideShape
    <2>2. disturbed' = disturbed /\ disturbed' # disturbed + 1
        BY <1>d, <2>1
    <2>3. /\ Build(TRUE) /\ UNCHANGED <<session, server>> /\ calls' = calls
          /\ \E gone : Harvested(TRUE, gone, "gone")
        BY <1>3, <2>2, HideShape
    <2>4. Calm /\ Numbered /\ UNCHANGED switched
        BY <1>n, <2>2, <2>3 DEF session
    <2>5. /\ made' = made \/ made' = made + 1
          /\ \A y \in Packets :
                /\ fate'[y] = "live" => fate[y] = "live" \/ (y = made + 1 /\ made' = made + 1)
                /\ fate'[y] = "answered" => fate[y] = "answered"
        BY <2>3, HarvestFate
    <2>6. \A c \in Strays : calls'[c].step = "idle"
        BY <2>3, <2>4 DEF Calm
    <2> QED BY <2>3, <2>4, <2>5, <2>6, ClientKeepsCalm
<1>4. ASSUME NEW c \in Calls, Send(c) PROVE Calm'
    <2>1. Calm /\ Numbered
        BY <1>4, <1>n, SendKeepsLifecycle
    <2>2. c = Flush
        BY <1>f, <1>4, <2>1, SendShape DEF Calm
    <2> QED BY <1>4, <2>1, <2>2, SendKeepsCalm
<1>5. CASE OrphanMoves
    BY <1>5, <1>n, OrphanLeavesClient, OrphanKeepsCalm
<1>6. CASE Start \/ Pause \/ Resume \/ Stop
    BY <1>6, <1>s DEF Start, Pause, Resume, ResumeManager, Stop, idleParts, session
<1>7. CASE Destroy
    <2>1. UNCHANGED idleParts /\ \A p \in Packets : fate'[p] = fate[p] \/ fate'[p] = "gone"
        BY <1>7 DEF Destroy, ClearQueue
    <2> QED BY <1>s, <2>1 DEF idleParts, session
<1>8. CASE UpdateSession
    BY <1>8, <1>d DEF UpdateSession
<1>9. CASE UNCHANGED vars
    BY <1>9, <1>s DEF vars, harvest, session
<1> QED BY <1>1, <1>2, <1>3, <1>4, <1>5, <1>6, <1>7, <1>8, <1>9 DEF Next, OrphanMoves

\* A packet that is still being sent or was answered is refused for its session or
\* its number only after a change of the session, or when the request of a hidden
\* page brought a later packet first: the batch loop, its retries, the requests it
\* abandons and a restart of the instance never make a number regress.
THEOREM RefusedNeedsOvertaking == Spec => []RefusedOnlyIfOvertaken
<1>1. Spec => []PlaceInv
    BY PlaceInit, PlaceStep, TypeCorrect, PTL DEF Spec
<1>2. Spec => []AccountInv
    BY <1>1, AccountInit, AccountStep, TypeCorrect, PTL DEF Spec
<1>3. Spec => []NumberInv
    BY NumberInit, NumberStep, TypeCorrect, PTL DEF Spec
<1>4. Spec => []CalmInv
    BY <1>1, <1>2, <1>3, CalmInit, CalmStep, TypeCorrect, PTL DEF Spec
<1>5. TypeOK /\ NumberInv /\ CalmInv => RefusedOnlyIfOvertaken
    <2> SUFFICES ASSUME TypeOK, NumberInv, CalmInv, NEW p \in refused,
                        fate[p] \in {"live", "answered"}, ~switched
                 PROVE  disturbed > 0 /\ \E q \in seen : q > p
        BY DEF RefusedOnlyIfOvertaken
    <2>1. disturbed # 0
        BY DEF CalmInv, Calm
    <2>2. disturbed \in Nat /\ p \in Packets /\ last \in Nat /\ seen \subseteq Packets
        BY DEF TypeOK
    <2>3. p \in Nat
        BY <2>2, PacketNumbers
    <2>4. p < last /\ (last = 0 \/ last \in seen)
        BY DEF NumberInv, Numbered
    <2>5. last > p /\ last \in seen
        BY <2>2, <2>3, <2>4
    <2>6. disturbed > 0
        BY <2>1, <2>2
    <2> QED BY <2>5, <2>6
<1> QED BY <1>3, <1>4, <1>5, TypeCorrect, PTL
=============================================================================
