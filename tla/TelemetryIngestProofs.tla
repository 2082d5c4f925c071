------------------------ MODULE TelemetryIngestProofs -------------------------
(***************************************************************************)
(* What TelemetryIngest guarantees for every number of handlers, events    *)
(* and SDK instances and for every session limit.                          *)
(***************************************************************************)
EXTENDS TelemetryIngest, SequenceTheorems, TLAPS

USE IngestAssumption

BatchRecord ==
    [step : {"idle", "load", "check", "store"}, todo : Seq(Events),
     foreign : BOOLEAN, seen : {"ABSENT", "LIVE", "TERMINAL"},
     bound : Instances \cup {None}, binds : Instances \cup {None},
     valid : SUBSET Events, refused : SUBSET Events, late : BOOLEAN]

LEMMA IdleRecord == Idle \in BatchRecord
BY DEF Idle, BatchRecord

\* A packet is at hand from the lookup of its session to the verdict.
AtHand == \A r \in Requests : req[r].step \in {"check", "store"} => req[r].todo # <<>>

LEMMA NextPacketRecord ==
    ASSUME NEW q \in BatchRecord, q.todo # <<>>
    PROVE  NextPacket(q) \in BatchRecord
<1>1. Tail(q.todo) \in Seq(Events)
    BY HeadTailProperties DEF BatchRecord
<1>2. \A p \in BatchRecord : [p EXCEPT !.step = "load"] \in BatchRecord
    BY DEF BatchRecord
<1>3. [q EXCEPT !.step = "load", !.todo = Tail(@)] \in BatchRecord
    BY <1>1 DEF BatchRecord
<1>4. \A p \in BatchRecord : [p EXCEPT !.seen = "ABSENT", !.bound = None] \in BatchRecord
    BY DEF BatchRecord
<1>5. \A p \in BatchRecord : [p EXCEPT !.late = FALSE] \in BatchRecord
    BY DEF BatchRecord
<1> QED BY <1>3, <1>4, <1>5 DEF NextPacket

LEMMA PacketType ==
    ASSUME TypeOK, NEW r \in Requests, req[r].todo # <<>>
    PROVE  /\ Packet(r) \in Events
           /\ Instance[Packet(r)] \in Instances
           /\ SeqNo[Packet(r)] \in Nat
           /\ NextPacket(req[r]) \in BatchRecord
<1>1. req[r] \in BatchRecord
    BY DEF TypeOK, BatchRecord
<1>2. req[r].todo \in Seq(Events)
    BY <1>1 DEF BatchRecord
<1>3. Head(req[r].todo) \in Events
    BY <1>2, HeadTailProperties
<1> QED BY <1>1, <1>3, NextPacketRecord DEF Packet

-----------------------------------------------------------------------------
\* Type correctness, with the packet that is at hand.
TypeInv == TypeOK /\ AtHand

\* A step that changes the records of the handlers only where it should.
LEMMA RecordsKept ==
    ASSUME TypeInv, NEW r \in Requests, NEW q \in BatchRecord,
           q.step \in {"check", "store"} => q.todo # <<>>,
           req' = [req EXCEPT ![r] = q]
    PROVE  req' \in [Requests -> BatchRecord] /\ AtHand'
<1>1. req \in [Requests -> BatchRecord]
    BY DEF TypeInv, TypeOK, BatchRecord
<1>2. \A s \in Requests : req'[s] = IF s = r THEN q ELSE req[s]
    BY <1>1
<1> QED BY <1>1, <1>2 DEF TypeInv, AtHand

-----------------------------------------------------------------------------
\* What a step of a handler makes of its record, for the invariants below:
\* the step, the packets left and the fields they speak of.
LEMMA NextPacketFields ==
    ASSUME NEW q \in BatchRecord
    PROVE  LET n == NextPacket(q) IN
             /\ n.step = "load" /\ n.seen = "ABSENT" /\ n.bound = None /\ n.late = FALSE
             /\ n.todo = Tail(q.todo)
             /\ n.binds = q.binds /\ n.valid = q.valid /\ n.refused = q.refused
BY DEF NextPacket, BatchRecord

\* The record of a handler that starts on its batch.
Fresh(q) ==
    /\ q.step = "load" /\ q.seen = "ABSENT" /\ q.bound = None /\ q.binds = None
    /\ q.valid = {} /\ q.refused = {}

LEMMA SendFields ==
    ASSUME NEW r \in Requests, Send(r)
    PROVE  \E q \in BatchRecord : req' = [req EXCEPT ![r] = q] /\ Fresh(q)
<1>1. PICK b \in Batches, f \in BOOLEAN :
        req' = [req EXCEPT ![r] = [Idle EXCEPT !.step = "load", !.todo = b, !.foreign = f]]
    BY DEF Send
<1> DEFINE q == [Idle EXCEPT !.step = "load", !.todo = b, !.foreign = f]
<1>2. q \in BatchRecord /\ Fresh(q)
    BY DEF Idle, BatchRecord, Fresh
<1>3. req' = [req EXCEPT ![r] = q]
    BY <1>1
<1> HIDE DEF q
<1> QED BY <1>2, <1>3

\* A packet is refused at its checks or, once it is marked, for its tag.
Refused(r) == Refuse(r) \/ RefuseTag(r)

LEMMA RefuseFields ==
    ASSUME TypeInv, NEW r \in Requests, Refused(r)
    PROVE  \E n \in BatchRecord :
             /\ req' = [req EXCEPT ![r] = n]
             /\ n.step = "load" /\ n.seen = "ABSENT" /\ n.bound = None
             /\ n.binds = req[r].binds /\ n.valid = req[r].valid
             /\ n.refused = IF row[Packet(r)] = "NONE" /\ Packet(r) \notin req[r].valid
                            THEN req[r].refused \cup {Packet(r)} ELSE req[r].refused
<1>0. TypeOK /\ req[r] \in BatchRecord /\ req[r].todo # <<>>
    BY DEF Refused, Refuse, RefuseTag, TypeInv, TypeOK, AtHand, BatchRecord
<1> DEFINE e == Packet(r)
           m == NextPacket(req[r])
           out == m.refused \cup {e}
           n == IF row[e] = "NONE" /\ e \notin m.valid THEN [m EXCEPT !.refused = out] ELSE m
<1>1. e \in Events /\ m \in BatchRecord
    BY <1>0, PacketType
<1>2. /\ m.step = "load" /\ m.seen = "ABSENT" /\ m.bound = None
      /\ m.binds = req[r].binds /\ m.valid = req[r].valid /\ m.refused = req[r].refused
    BY <1>0, NextPacketFields
<1>3. req' = [req EXCEPT ![r] = n]
    BY DEF Refused, Refuse, RefuseTag, RecordRejected
<1> HIDE DEF m, e
<1>4. out \in SUBSET Events
    BY <1>1 DEF BatchRecord
<1> HIDE DEF out
<1>5. LET x == [m EXCEPT !.refused = out] IN
        /\ x \in BatchRecord /\ x.step = m.step /\ x.seen = m.seen /\ x.bound = m.bound
        /\ x.binds = m.binds /\ x.valid = m.valid /\ x.refused = out
    BY <1>1, <1>4 DEF BatchRecord
<1>6. /\ n \in BatchRecord
      /\ n.step = "load" /\ n.seen = "ABSENT" /\ n.bound = None
      /\ n.binds = req[r].binds /\ n.valid = req[r].valid
      /\ n.refused = IF row[e] = "NONE" /\ e \notin req[r].valid
                     THEN req[r].refused \cup {e} ELSE req[r].refused
    BY <1>1, <1>2, <1>5 DEF out
<1> HIDE DEF n
<1> QED BY <1>3, <1>6 DEF e

LEMMA StoreFields ==
    ASSUME TypeInv, NEW r \in Requests, Store(r)
    PROVE  \E n \in BatchRecord :
             /\ req' = [req EXCEPT ![r] = n]
             /\ n.step = "load" /\ n.seen = "ABSENT" /\ n.bound = None
             /\ n.binds = IF req[r].bound = None THEN Instance[Packet(r)] ELSE req[r].binds
             /\ n.valid = req[r].valid \cup {Packet(r)} /\ n.refused = req[r].refused
<1>0. TypeOK /\ req[r] \in BatchRecord /\ req[r].todo # <<>>
    BY DEF Store, TypeInv, TypeOK, AtHand, BatchRecord
<1> DEFINE e == Packet(r)
           m == NextPacket(req[r])
           in == m.valid \cup {e}
           b == BindSdkInstance(r)
           n == [m EXCEPT !.valid = in, !.binds = b]
<1>1. e \in Events /\ Instance[e] \in Instances /\ m \in BatchRecord
    BY <1>0, PacketType
<1>2. /\ m.step = "load" /\ m.seen = "ABSENT" /\ m.bound = None
      /\ m.binds = req[r].binds /\ m.valid = req[r].valid /\ m.refused = req[r].refused
    BY <1>0, NextPacketFields
<1>3. req' = [req EXCEPT ![r] = n]
    BY DEF Store
<1>b. b = IF req[r].bound = None THEN Instance[e] ELSE m.binds
    BY <1>2 DEF BindSdkInstance
<1> HIDE DEF m, e, b
<1>4. in \in SUBSET Events /\ b \in Instances \cup {None}
    BY <1>1, <1>b DEF BatchRecord
<1> HIDE DEF in
<1>5. /\ n \in BatchRecord /\ n.step = m.step /\ n.seen = m.seen /\ n.bound = m.bound
      /\ n.binds = b /\ n.valid = in /\ n.refused = m.refused
    BY <1>1, <1>4 DEF BatchRecord
<1> HIDE DEF n
<1> QED BY <1>2, <1>3, <1>5, <1>b DEF e, in

LEMMA LoadFields ==
    ASSUME TypeInv, NEW r \in Requests, Load(r)
    PROVE  \E n \in BatchRecord :
             /\ req' = [req EXCEPT ![r] = n]
             /\ n.step = "check" /\ n.seen = session /\ n.todo = req[r].todo
             /\ n.bound = IF req[r].binds = None THEN binding ELSE req[r].binds
             /\ n.binds = req[r].binds /\ n.valid = req[r].valid /\ n.refused = req[r].refused
             /\ n.late = req[r].late
<1> DEFINE b == IF req[r].binds = None THEN binding ELSE req[r].binds
           n == [req[r] EXCEPT !.step = "check", !.seen = session, !.bound = b]
<1>0. req[r] \in BatchRecord
    BY DEF TypeInv, TypeOK, BatchRecord
<1>1. b \in Instances \cup {None} /\ session \in {"ABSENT", "LIVE", "TERMINAL"}
    BY <1>0 DEF TypeInv, TypeOK, BatchRecord
<1>2. req' = [req EXCEPT ![r] = n]
    BY DEF Load
<1> HIDE DEF b
<1>3. /\ n \in BatchRecord
      /\ n.step = "check" /\ n.seen = session /\ n.todo = req[r].todo /\ n.bound = b
      /\ n.binds = req[r].binds /\ n.valid = req[r].valid /\ n.refused = req[r].refused
      /\ n.late = req[r].late
    BY <1>0, <1>1 DEF BatchRecord
<1> HIDE DEF n
<1> QED BY <1>2, <1>3 DEF b

\* A packet that passes the checks is stored next, any other is done with.
LEMMA ScreenFields ==
    ASSUME TypeInv, NEW r \in Requests, Screen(r)
    PROVE  \E n \in BatchRecord :
             /\ req' = [req EXCEPT ![r] = n]
             /\ n.binds = req[r].binds /\ n.valid = req[r].valid /\ n.refused = req[r].refused
             /\ \/ /\ n.step = "load" /\ n.seen = "ABSENT" /\ n.bound = None
                   /\ UNCHANGED lastSeq
                \/ /\ n.step = "store" /\ n.seen = req[r].seen /\ n.bound = req[r].bound
                   /\ n.todo = req[r].todo /\ n.late = req[r].late
                   /\ SeqNo[Packet(r)] > lastSeq[Instance[Packet(r)]]
                   /\ lastSeq' = [lastSeq EXCEPT ![Instance[Packet(r)]] = SeqNo[Packet(r)]]
<1>0. TypeOK /\ req[r] \in BatchRecord /\ req[r].todo # <<>>
    BY DEF Screen, TypeInv, TypeOK, AtHand, BatchRecord
<1> DEFINE m == NextPacket(req[r])
           k == [req[r] EXCEPT !.step = "store"]
<1>1. /\ m \in BatchRecord /\ m.step = "load" /\ m.seen = "ABSENT" /\ m.bound = None
      /\ m.binds = req[r].binds /\ m.valid = req[r].valid /\ m.refused = req[r].refused
    BY <1>0, PacketType, NextPacketFields
<1>2. /\ k \in BatchRecord /\ k.step = "store" /\ k.seen = req[r].seen /\ k.bound = req[r].bound
      /\ k.binds = req[r].binds /\ k.valid = req[r].valid /\ k.refused = req[r].refused
      /\ k.todo = req[r].todo /\ k.late = req[r].late
    BY <1>0 DEF BatchRecord
<1>3. \/ req' = [req EXCEPT ![r] = m] /\ UNCHANGED lastSeq
      \/ /\ req' = [req EXCEPT ![r] = k]
         /\ SeqNo[Packet(r)] > lastSeq[Instance[Packet(r)]]
         /\ lastSeq' = [lastSeq EXCEPT ![Instance[Packet(r)]] = SeqNo[Packet(r)]]
    BY <1>0 DEF Screen
<1> HIDE DEF m, k
<1> QED BY <1>1, <1>2, <1>3

LEMMA EndSessionFields ==
    ASSUME TypeInv, EndSession
    PROVE  /\ req' \in [Requests -> BatchRecord]
           /\ \A r \in Requests :
                /\ req'[r].step = req[r].step /\ req'[r].seen = req[r].seen
                /\ req'[r].todo = req[r].todo /\ req'[r].bound = req[r].bound
                /\ req'[r].binds = req[r].binds /\ req'[r].valid = req[r].valid
                /\ req'[r].refused = req[r].refused
                /\ req'[r].seen = "LIVE" => req'[r].late
<1> DEFINE ended(r) == [req[r] EXCEPT !.late = req[r].seen = "LIVE"]
<1>1. ASSUME NEW r \in Requests
      PROVE  /\ ended(r) \in BatchRecord
             /\ ended(r).step = req[r].step /\ ended(r).seen = req[r].seen
             /\ ended(r).todo = req[r].todo /\ ended(r).bound = req[r].bound
             /\ ended(r).binds = req[r].binds /\ ended(r).valid = req[r].valid
             /\ ended(r).refused = req[r].refused
             /\ ended(r).late = (req[r].seen = "LIVE")
    <2> DEFINE late == req[r].seen = "LIVE"
    <2>1. req[r] \in BatchRecord /\ late \in BOOLEAN
        BY DEF TypeInv, TypeOK, BatchRecord
    <2> HIDE DEF late
    <2>2. LET x == [req[r] EXCEPT !.late = late] IN
            /\ x \in BatchRecord
            /\ x.step = req[r].step /\ x.seen = req[r].seen
            /\ x.todo = req[r].todo /\ x.bound = req[r].bound
            /\ x.binds = req[r].binds /\ x.valid = req[r].valid
            /\ x.refused = req[r].refused
            /\ x.late = late
        BY <2>1 DEF BatchRecord
    <2> QED BY <2>2 DEF late
<1>2. req' = [r \in Requests |-> ended(r)]
    BY DEF EndSession
<1> HIDE DEF ended
<1> QED BY <1>1, <1>2

-----------------------------------------------------------------------------
(* Type correctness *)

LEMMA TypeStep == TypeInv /\ [Next]_vars => TypeInv'
<1> SUFFICES ASSUME TypeInv, [Next]_vars PROVE TypeInv'
    OBVIOUS
<1> USE DEF redis, history
<1>a. TypeOK
    BY DEF TypeInv
<1>b. ASSUME req' \in [Requests -> BatchRecord] PROVE
        req' \in [Requests -> [step : {"idle", "load", "check", "store"}, todo : Seq(Events),
            foreign : BOOLEAN, seen : {"ABSENT", "LIVE", "TERMINAL"},
            bound : Instances \cup {None}, binds : Instances \cup {None},
            valid : SUBSET Events, refused : SUBSET Events, late : BOOLEAN]]
    BY <1>b DEF BatchRecord
<1>c. req \in [Requests -> BatchRecord]
    BY <1>a DEF TypeOK, BatchRecord
<1>0. CASE UNCHANGED vars
    BY <1>0 DEF TypeInv, TypeOK, AtHand, vars
<1>1. ASSUME NEW r \in Requests, Send(r) PROVE TypeInv'
    <2>1. PICK q \in BatchRecord : req' = [req EXCEPT ![r] = q] /\ Fresh(q)
        BY <1>1, SendFields
    <2>2. q \in BatchRecord /\ q.step = "load"
        BY <2>1 DEF Fresh
    <2>3. req' \in [Requests -> BatchRecord] /\ AtHand'
        BY <2>1, <2>2, RecordsKept
    <2>4. sent' \in 0 .. MaxBatches
        BY <1>1, <1>a DEF Send, TypeOK
    <2> QED BY <1>1, <1>a, <1>b, <2>3, <2>4 DEF TypeInv, TypeOK, Send
<1>2. ASSUME NEW r \in Requests, Load(r) PROVE TypeInv'
    <2>1. req[r].todo # <<>>
        BY <1>2 DEF Load
    <2>2. req' \in [Requests -> BatchRecord] /\ AtHand'
        BY <1>2, <2>1, LoadFields, RecordsKept
    <2> QED BY <1>2, <1>a, <1>b, <2>2 DEF TypeInv, TypeOK, Load
<1>3. ASSUME NEW r \in Requests, Screen(r) PROVE TypeInv'
    <2>1. req[r].step = "check" /\ req[r].todo # <<>>
        BY <1>3 DEF Screen, TypeInv, AtHand
    <2>2. Packet(r) \in Events /\ Instance[Packet(r)] \in Instances /\ SeqNo[Packet(r)] \in Nat
        BY <1>a, <2>1, PacketType
    <2>3. req' \in [Requests -> BatchRecord] /\ AtHand'
        BY <1>3, <2>1, ScreenFields, RecordsKept
    <2>4. budget' \in 0 .. SessionLimit
        BY <1>3, <1>a DEF Screen, TypeOK
    <2>5. marker' \subseteq Events
        BY <1>3, <1>a, <2>2 DEF Screen, TypeOK
    <2>6. lastSeq' \in [Instances -> Nat]
        <3>1. lastSeq' \in {lastSeq, [lastSeq EXCEPT ![Instance[Packet(r)]] = SeqNo[Packet(r)]]}
            BY <1>3, Zenon DEF Screen
        <3> QED BY <3>1, <2>2, <1>a DEF TypeOK
    <2> QED BY <1>3, <1>a, <1>b, <2>3, <2>4, <2>5, <2>6 DEF TypeInv, TypeOK, Screen
<1>4. ASSUME NEW r \in Requests, Refused(r) PROVE TypeInv'
    <2>1. req' \in [Requests -> BatchRecord] /\ AtHand'
        BY <1>4, RefuseFields, RecordsKept
    <2>2. budget' \in 0 .. SessionLimit
        BY <1>4, <1>a DEF Refused, Refuse, RefuseTag, TypeOK
    <2> QED BY <1>4, <1>a, <1>b, <2>1, <2>2 DEF TypeInv, TypeOK, Refused, Refuse, RefuseTag
<1>5. ASSUME NEW r \in Requests, Store(r) PROVE TypeInv'
    <2>1. req' \in [Requests -> BatchRecord] /\ AtHand'
        BY <1>5, StoreFields, RecordsKept
    <2> QED BY <1>5, <1>a, <1>b, <2>1 DEF TypeInv, TypeOK, Store
<1>6. ASSUME NEW r \in Requests, Commit(r) PROVE TypeInv'
    <2>0. req[r] \in BatchRecord
        BY <1>c
    <2>1. req' \in [Requests -> BatchRecord] /\ AtHand'
        <3>1. req' = [req EXCEPT ![r] = Idle] /\ Idle.step = "idle"
            BY <1>6 DEF Commit, Idle
        <3> QED BY <3>1, IdleRecord, RecordsKept
    <2>2. binding' \in Instances \cup {None} /\ raced' \in BOOLEAN
        BY <1>6, <1>a, <2>0 DEF Commit, TypeOK, BatchRecord
    <2>3. row' \in [Events -> {"NONE", "VALID", "REJECTED"}]
        BY <1>6, <1>a DEF Commit, TypeOK
    <2>4. told' \subseteq Events
        BY <1>6, <1>a, <2>0 DEF Commit, TypeOK, BatchRecord
    <2> QED BY <1>6, <1>a, <1>b, <2>1, <2>2, <2>3, <2>4 DEF TypeInv, TypeOK, Commit
<1>7. ASSUME NEW r \in Requests, Fail(r) PROVE TypeInv'
    <2>1. req' \in [Requests -> BatchRecord] /\ AtHand'
        <3>1. req' = [req EXCEPT ![r] = Idle] /\ Idle.step = "idle"
            BY <1>7 DEF Fail, Idle
        <3> QED BY <3>1, IdleRecord, RecordsKept
    <2> QED BY <1>7, <1>a, <1>b, <2>1 DEF TypeInv, TypeOK, Fail
<1>8. CASE Register
    BY <1>8, <1>a DEF TypeInv, TypeOK, AtHand, Register
<1>9. CASE EndSession
    <2>1. req' \in [Requests -> BatchRecord] /\ AtHand'
        BY <1>9, EndSessionFields DEF TypeInv, AtHand
    <2> QED BY <1>9, <1>a, <1>b, <2>1 DEF TypeInv, TypeOK, EndSession
<1>10. CASE ReviveSession
    BY <1>10, <1>a DEF TypeInv, TypeOK, AtHand, ReviveSession
<1>11. CASE NewMinute
    BY <1>11, <1>a DEF TypeInv, TypeOK, AtHand, NewMinute
<1>12. ASSUME NEW e \in Events, ExpireMarker(e) PROVE TypeInv'
    BY <1>12, <1>a DEF TypeInv, TypeOK, AtHand, ExpireMarker
<1>13. ASSUME NEW i \in Instances, ExpireSequence(i) PROVE TypeInv'
    BY <1>13, <1>a DEF TypeInv, TypeOK, AtHand, ExpireSequence
<1>14. CASE Restart
    <2>1. req' \in [Requests -> BatchRecord] /\ AtHand'
        <3>1. req' = [r \in Requests |-> Idle] /\ Idle.step = "idle"
            BY <1>14 DEF Restart, Idle
        <3> QED BY <3>1, IdleRecord DEF AtHand
    <2> QED BY <1>14, <1>a, <1>b, <2>1 DEF TypeInv, TypeOK, Restart
<1> HIDE DEF redis, history
<1> QED BY <1>0, <1>1, <1>2, <1>3, <1>4, <1>5, <1>6, <1>7, <1>8, <1>9, <1>10, <1>11, <1>12,
           <1>13, <1>14 DEF Next, Batch, Refused

LEMMA TypeInit == Init => TypeInv
<1> SUFFICES ASSUME Init PROVE TypeInv
    OBVIOUS
<1>1. req \in [Requests -> BatchRecord] /\ Idle.step = "idle"
    BY IdleRecord DEF Init, Idle
<1>2. AtHand
    BY <1>1 DEF AtHand, Init
<1>3. budget \in 0 .. SessionLimit /\ sent \in 0 .. MaxBatches
    BY DEF Init
<1>4. TypeOK
    BY <1>1, <1>3 DEF Init, TypeOK, BatchRecord
<1> QED BY <1>2, <1>4 DEF TypeInv

\* Every state of the ingestion is well typed: in particular a session's budget
\* is never overdrawn, and a handler that is checking or storing has a packet.
THEOREM TypeCorrect == Spec => []TypeOK
<1>1. Spec => []TypeInv
    BY TypeInit, TypeStep, PTL DEF Spec
<1>2. TypeInv => TypeOK
    BY DEF TypeInv
<1> QED BY <1>1, <1>2, PTL

-----------------------------------------------------------------------------
(* The status of the session *)

\* A packet is stored only after its session was seen live, and a handler that
\* has seen it live knows when it has ended.
SeenInv ==
    \A r \in Requests :
        /\ req[r].step = "store" => req[r].seen = "LIVE"
        /\ req[r].seen = "LIVE" /\ session = "TERMINAL" => req[r].late

LEMMA SeenStep == TypeInv /\ SeenInv /\ [Next]_vars => SeenInv'
<1> SUFFICES ASSUME TypeInv, SeenInv, [Next]_vars PROVE SeenInv'
    OBVIOUS
<1> USE DEF redis, history
<1>t. req \in [Requests -> BatchRecord]
    BY DEF TypeInv, TypeOK, BatchRecord
<1>i. Idle.step = "idle" /\ Idle.seen = "ABSENT"
    BY DEF Idle
<1>0. CASE UNCHANGED vars
    BY <1>0 DEF SeenInv, vars
<1>1. ASSUME NEW r \in Requests, Send(r) PROVE SeenInv'
    <2>1. PICK q \in BatchRecord : req' = [req EXCEPT ![r] = q] /\ Fresh(q)
        BY <1>1, SendFields
    <2>2. q.seen = "ABSENT" /\ q.step = "load"
        BY <2>1 DEF Fresh
    <2>3. req' = [req EXCEPT ![r] = q]
        BY <2>1
    <2> QED BY <1>1, <1>t, <2>2, <2>3 DEF SeenInv, Send
<1>2. ASSUME NEW r \in Requests, Load(r) PROVE SeenInv'
    <2>1. PICK n \in BatchRecord :
            req' = [req EXCEPT ![r] = n] /\ n.step = "check" /\ n.seen = session
        BY <1>2, LoadFields
    <2> QED BY <1>2, <1>t, <2>1 DEF SeenInv, Load
<1>3. ASSUME NEW r \in Requests, Screen(r) PROVE SeenInv'
    <2>1. PICK n \in BatchRecord :
            /\ req' = [req EXCEPT ![r] = n]
            /\ \/ n.seen = "ABSENT" /\ n.step = "load"
               \/ n.seen = req[r].seen /\ n.late = req[r].late
        BY <1>3, ScreenFields
    <2>2. req[r].seen = "LIVE" /\ session' = session
        BY <1>3 DEF Screen, Refusable
    <2> QED BY <1>t, <2>1, <2>2 DEF SeenInv
<1>4. ASSUME NEW r \in Requests, Refused(r) PROVE SeenInv'
    <2>1. PICK n \in BatchRecord :
            req' = [req EXCEPT ![r] = n] /\ n.step = "load" /\ n.seen = "ABSENT"
        BY <1>4, RefuseFields
    <2> QED BY <1>4, <1>t, <2>1 DEF SeenInv, Refused, Refuse, RefuseTag
<1>5. ASSUME NEW r \in Requests, Store(r) PROVE SeenInv'
    <2>1. PICK n \in BatchRecord :
            req' = [req EXCEPT ![r] = n] /\ n.step = "load" /\ n.seen = "ABSENT"
        BY <1>5, StoreFields
    <2> QED BY <1>5, <1>t, <2>1 DEF SeenInv, Store
<1>6. ASSUME NEW r \in Requests, Commit(r) \/ Fail(r) PROVE SeenInv'
    BY <1>6, <1>t, <1>i DEF SeenInv, Commit, Fail
<1>7. CASE EndSession
    BY <1>7, EndSessionFields DEF SeenInv
<1>8. CASE Register \/ ReviveSession
    BY <1>8 DEF SeenInv, Register, ReviveSession
<1>9. CASE NewMinute \/ (\E e \in Events : ExpireMarker(e)) \/ \E i \in Instances : ExpireSequence(i)
    BY <1>9 DEF SeenInv, NewMinute, ExpireMarker, ExpireSequence
<1>10. CASE Restart
    BY <1>10, <1>i DEF SeenInv, Restart
<1> HIDE DEF redis, history
<1> QED BY <1>0, <1>1, <1>2, <1>3, <1>4, <1>5, <1>6, <1>7, <1>8, <1>9, <1>10
        DEF Next, Batch, Refused

\* Only storing adds to the accepted events of a handler.
LEMMA AcceptsByStore ==
    ASSUME TypeInv, [Next]_vars, NEW r \in Requests, NEW e \in Events, Accepts(r, e)
    PROVE  req[r].step = "store" /\ session' = session /\ Packet(r) = e
<1> USE DEF redis, history
<1>t. req \in [Requests -> BatchRecord]
    BY DEF TypeInv, TypeOK, BatchRecord
<1>i. Idle.valid = {}
    BY DEF Idle
<1>a. e \in req'[r].valid /\ e \notin req[r].valid
    BY DEF Accepts
<1>s. ASSUME NEW s \in Requests, NEW n, req' = [req EXCEPT ![s] = n], n.valid = req[s].valid
      PROVE  FALSE
    BY <1>a, <1>s, <1>t
<1>0. CASE UNCHANGED vars
    BY <1>0, <1>a DEF vars
<1>1. ASSUME NEW s \in Requests, Send(s) PROVE FALSE
    <2>1. PICK q \in BatchRecord : req' = [req EXCEPT ![s] = q] /\ Fresh(q)
        BY <1>1, SendFields
    <2>2. q.valid = {}
        BY <2>1 DEF Fresh
    <2>3. req' = [req EXCEPT ![s] = q]
        BY <2>1
    <2> QED BY <1>a, <1>t, <2>2, <2>3
<1>2. ASSUME NEW s \in Requests, Load(s) PROVE FALSE
    BY <1>2, <1>s, LoadFields
<1>3. ASSUME NEW s \in Requests, Screen(s) PROVE FALSE
    BY <1>3, <1>s, ScreenFields
<1>4. ASSUME NEW s \in Requests, Refused(s) PROVE FALSE
    BY <1>4, <1>s, RefuseFields
<1>5. ASSUME NEW s \in Requests, Store(s)
      PROVE  req[r].step = "store" /\ session' = session /\ Packet(r) = e
    <2>1. PICK n \in BatchRecord :
            req' = [req EXCEPT ![s] = n] /\ n.valid = req[s].valid \cup {Packet(s)}
        BY <1>5, StoreFields
    <2>2. s = r /\ e = Packet(r)
        BY <1>a, <1>t, <2>1
    <2> QED BY <1>5, <2>2 DEF Store
<1>6. ASSUME NEW s \in Requests, Commit(s) \/ Fail(s) PROVE FALSE
    BY <1>6, <1>a, <1>t, <1>i DEF Commit, Fail
<1>7. CASE EndSession
    BY <1>7, <1>a, EndSessionFields
<1>8. CASE Register \/ ReviveSession
    BY <1>8, <1>a DEF Register, ReviveSession
<1>9. CASE NewMinute \/ (\E f \in Events : ExpireMarker(f)) \/ \E i \in Instances : ExpireSequence(i)
    BY <1>9, <1>a DEF NewMinute, ExpireMarker, ExpireSequence
<1>10. CASE Restart
    BY <1>10, <1>a, <1>i DEF Restart
<1> HIDE DEF redis, history
<1> QED BY <1>0, <1>1, <1>2, <1>3, <1>4, <1>5, <1>6, <1>7, <1>8, <1>9, <1>10
        DEF Next, Batch, Refused

\* "Session existence and state": however many batches overlap, an event is
\* accepted for a terminal session only if the session ended after the check.
THEOREM AcceptedLateOnlyIfJustEnded == Spec => AcceptedLateOnlyInProgress
<1>1. Init => TypeInv /\ SeenInv
    BY TypeInit DEF Init, SeenInv, Idle
<1>2. TypeInv /\ SeenInv /\ [Next]_vars => (TypeInv /\ SeenInv)'
    BY TypeStep, SeenStep
<1>3. TypeInv /\ SeenInv /\ [Next]_vars =>
        [\A r \in Requests, e \in Events :
            session = "TERMINAL" /\ Accepts(r, e) => req[r].late]_vars
    BY AcceptsByStore DEF SeenInv
<1> QED BY <1>1, <1>2, <1>3, PTL DEF Spec, AcceptedLateOnlyInProgress


-----------------------------------------------------------------------------
(* The sequence numbers *)

\* As long as Redis remembers, the last number of an instance bounds those of
\* all its events that are stored or about to be.
SequenceInv ==
    ~forgot => \A f \in Events :
        row[f] = "VALID" \/ Pending(f) => SeqNo[f] <= lastSeq[Instance[f]]

LEMMA SequenceStep == TypeInv /\ SequenceInv /\ [Next]_vars => SequenceInv'
<1> SUFFICES ASSUME TypeInv, SequenceInv, [Next]_vars, ~forgot', NEW f \in Events,
                    (row[f] = "VALID" \/ Pending(f))'
             PROVE  SeqNo[f] <= lastSeq'[Instance[f]]
    BY DEF SequenceInv
<1> USE DEF redis, history
<1>t. req \in [Requests -> BatchRecord] /\ lastSeq \in [Instances -> Nat]
    BY DEF TypeInv, TypeOK, BatchRecord
<1>f. SeqNo[f] \in Nat /\ Instance[f] \in Instances
    OBVIOUS
<1>i. Idle.step = "idle" /\ Idle.valid = {}
    BY DEF Idle
<1>p. ASSUME ~forgot, row[f] = "VALID" \/ Pending(f), UNCHANGED lastSeq
      PROVE  SeqNo[f] <= lastSeq'[Instance[f]]
    BY <1>p DEF SequenceInv
\* A step that stores nothing for another event than the one at hand.
<1>s. ASSUME NEW r \in Requests, NEW n, req' = [req EXCEPT ![r] = n], row' = row,
             n.valid \subseteq req[r].valid, n.step # "store"
      PROVE  row[f] = "VALID" \/ Pending(f)
    BY <1>s, <1>t DEF Pending, Uncommitted, Packet
<1>0. CASE UNCHANGED vars
    BY <1>0, <1>p DEF vars, Pending, Uncommitted, Packet
<1>1. ASSUME NEW r \in Requests, Send(r) PROVE SeqNo[f] <= lastSeq'[Instance[f]]
    <2>1. PICK q \in BatchRecord : req' = [req EXCEPT ![r] = q] /\ Fresh(q)
        BY <1>1, SendFields
    <2>2. q.valid = {} /\ q.step = "load"
        BY <2>1 DEF Fresh
    <2>3. req' = [req EXCEPT ![r] = q]
        BY <2>1
    <2>4. row[f] = "VALID" \/ Pending(f)
        BY <1>1, <1>t, <2>2, <2>3 DEF Pending, Uncommitted, Packet, Send
    <2> QED BY <1>1, <1>p, <2>4 DEF Send
<1>2. ASSUME NEW r \in Requests, Load(r) PROVE SeqNo[f] <= lastSeq'[Instance[f]]
    <2>1. row[f] = "VALID" \/ Pending(f)
        BY <1>2, <1>s, LoadFields DEF Load
    <2> QED BY <1>2, <1>p, <2>1 DEF Load
<1>3. ASSUME NEW r \in Requests, Screen(r) PROVE SeqNo[f] <= lastSeq'[Instance[f]]
    <2> DEFINE e == Packet(r)
    <2>0. row' = row /\ ~forgot
        BY <1>3 DEF Screen
    <2>1. PICK n \in BatchRecord :
             /\ req' = [req EXCEPT ![r] = n] /\ n.valid = req[r].valid
             /\ \/ n.step = "load" /\ UNCHANGED lastSeq
                \/ /\ n.step = "store" /\ n.todo = req[r].todo
                   /\ SeqNo[e] > lastSeq[Instance[e]]
                   /\ lastSeq' = [lastSeq EXCEPT ![Instance[e]] = SeqNo[e]]
        BY <1>3, ScreenFields
    <2>2. CASE n.step = "load" /\ UNCHANGED lastSeq
        BY <2>0, <2>1, <2>2, <1>s, <1>p
    <2>3. CASE /\ n.step = "store" /\ n.todo = req[r].todo
               /\ SeqNo[e] > lastSeq[Instance[e]]
               /\ lastSeq' = [lastSeq EXCEPT ![Instance[e]] = SeqNo[e]]
        <3>1. e \in Events
            <4>1. req[r].todo # <<>>
                BY <1>3 DEF Screen, TypeInv, AtHand
            <4> QED BY <4>1, PacketType DEF TypeInv
        <3>2. row[f] = "VALID" \/ Pending(f) \/ f = e
            BY <2>0, <2>1, <2>3, <1>t DEF Pending, Uncommitted, Packet
        <3>3. CASE f = e
            BY <2>3, <3>1, <3>3, <1>t
        <3>4. CASE row[f] = "VALID" \/ Pending(f)
            <4>1. SeqNo[f] <= lastSeq[Instance[f]]
                BY <2>0, <3>4 DEF SequenceInv
            <4>2. Instance[e] \in Instances /\ SeqNo[e] \in Nat
                BY <3>1
            <4>3. lastSeq[Instance[f]] \in Nat /\ lastSeq'[Instance[f]] =
                    IF Instance[f] = Instance[e] THEN SeqNo[e] ELSE lastSeq[Instance[f]]
                BY <2>3, <4>2, <1>f, <1>t
            <4> QED BY <2>3, <4>1, <4>2, <4>3, <1>f
        <3> QED BY <3>2, <3>3, <3>4
    <2> QED BY <2>1, <2>2, <2>3
<1>4. ASSUME NEW r \in Requests, Refused(r) PROVE SeqNo[f] <= lastSeq'[Instance[f]]
    <2>1. row[f] = "VALID" \/ Pending(f)
        BY <1>4, <1>s, RefuseFields DEF Refused, Refuse, RefuseTag
    <2> QED BY <1>4, <1>p, <2>1 DEF Refused, Refuse, RefuseTag
<1>5. ASSUME NEW r \in Requests, Store(r) PROVE SeqNo[f] <= lastSeq'[Instance[f]]
    <2>1. PICK n \in BatchRecord :
            /\ req' = [req EXCEPT ![r] = n]
            /\ n.step = "load" /\ n.valid = req[r].valid \cup {Packet(r)}
        BY <1>5, StoreFields
    <2>2. row[f] = "VALID" \/ Pending(f)
        BY <1>5, <2>1, <1>t DEF Pending, Uncommitted, Packet, Store
    <2> QED BY <1>5, <1>p, <2>2 DEF Store
<1>6. ASSUME NEW r \in Requests, Commit(r) PROVE SeqNo[f] <= lastSeq'[Instance[f]]
    <2>1. row'[f] = "VALID" => row[f] = "VALID" \/ f \in req[r].valid
        BY <1>6 DEF Commit
    <2>2. row[f] = "VALID" \/ Pending(f)
        BY <1>6, <1>t, <1>i, <2>1 DEF Pending, Uncommitted, Packet, Commit
    <2> QED BY <1>6, <1>p, <2>2 DEF Commit
<1>7. ASSUME NEW r \in Requests, Fail(r) PROVE SeqNo[f] <= lastSeq'[Instance[f]]
    <2>1. row[f] = "VALID" \/ Pending(f)
        BY <1>7, <1>s, <1>i DEF Fail
    <2> QED BY <1>7, <1>p, <2>1 DEF Fail
<1>8. CASE EndSession
    <2>1. row[f] = "VALID" \/ Pending(f)
        BY <1>8, EndSessionFields DEF EndSession, Pending, Uncommitted, Packet
    <2> QED BY <1>8, <1>p, <2>1 DEF EndSession
<1>9. CASE Register \/ ReviveSession \/ NewMinute \/ \E e \in Events : ExpireMarker(e)
    BY <1>9, <1>p DEF Register, ReviveSession, NewMinute, ExpireMarker, Pending, Uncommitted, Packet
<1>10. CASE (\E j \in Instances : ExpireSequence(j)) \/ Restart
    BY <1>10 DEF ExpireSequence, Restart
<1> HIDE DEF redis, history
<1> QED BY <1>0, <1>1, <1>2, <1>3, <1>4, <1>5, <1>6, <1>7, <1>8, <1>9, <1>10
        DEF Next, Batch, Refused

\* Only a packet that passes the checks is about to be stored, and its number
\* is above the last one.
LEMMA AdmitsAbove ==
    ASSUME TypeInv, [Next]_vars, NEW r \in Requests, NEW e \in Events, Admits(r, e)
    PROVE  SeqNo[e] > lastSeq[Instance[e]]
<1> USE DEF redis, history
<1>t. req \in [Requests -> BatchRecord]
    BY DEF TypeInv, TypeOK, BatchRecord
<1>i. Idle.step = "idle"
    BY DEF Idle
<1>a. req[r].step = "check" /\ req'[r].step = "store" /\ Packet(r) = e
    BY DEF Admits
<1>s. ASSUME NEW s \in Requests, NEW n, req' = [req EXCEPT ![s] = n], n.step # "store"
      PROVE  FALSE
    BY <1>a, <1>s, <1>t
<1>0. CASE UNCHANGED vars
    BY <1>0, <1>a DEF vars
<1>1. ASSUME NEW s \in Requests, Send(s) PROVE FALSE
    <2>1. PICK q \in BatchRecord : req' = [req EXCEPT ![s] = q] /\ Fresh(q)
        BY <1>1, SendFields
    <2>2. q.step # "store"
        BY <2>1 DEF Fresh
    <2> QED BY <2>1, <2>2, <1>s
<1>2. ASSUME NEW s \in Requests, Load(s) PROVE FALSE
    BY <1>2, <1>s, LoadFields
<1>3. ASSUME NEW s \in Requests, Screen(s) PROVE SeqNo[e] > lastSeq[Instance[e]]
    <2>1. PICK n \in BatchRecord :
             /\ req' = [req EXCEPT ![s] = n]
             /\ n.step = "load" \/ SeqNo[Packet(s)] > lastSeq[Instance[Packet(s)]]
        BY <1>3, ScreenFields
    <2>2. s = r
        BY <2>1, <1>a, <1>t
    <2> QED BY <2>1, <2>2, <1>a, <1>t
<1>4. ASSUME NEW s \in Requests, Refused(s) PROVE FALSE
    BY <1>4, <1>s, RefuseFields
<1>5. ASSUME NEW s \in Requests, Store(s) PROVE FALSE
    BY <1>5, <1>s, StoreFields
<1>6. ASSUME NEW s \in Requests, Commit(s) \/ Fail(s) PROVE FALSE
    BY <1>6, <1>s, <1>i DEF Commit, Fail
<1>7. CASE EndSession
    BY <1>7, <1>a, EndSessionFields
<1>8. CASE Register \/ ReviveSession
    BY <1>8, <1>a DEF Register, ReviveSession
<1>9. CASE NewMinute \/ (\E f \in Events : ExpireMarker(f)) \/ \E i \in Instances : ExpireSequence(i)
    BY <1>9, <1>a DEF NewMinute, ExpireMarker, ExpireSequence
<1>10. CASE Restart
    BY <1>10, <1>a, <1>i DEF Restart
<1> HIDE DEF redis, history
<1> QED BY <1>0, <1>1, <1>2, <1>3, <1>4, <1>5, <1>6, <1>7, <1>8, <1>9, <1>10
        DEF Next, Batch, Refused

\* "Sequence monotonicity": until Redis forgets, an event that passes the check
\* has a number above those of all events of its instance, whatever overlaps.
THEOREM AdmittedInOrder == Spec => InOrder
<1> DEFINE Ordered ==
        \A r \in Requests, e, f \in Events :
            /\ ~forgot /\ Admits(r, e) /\ Instance[f] = Instance[e]
            /\ row[f] = "VALID" \/ Pending(f)
            => SeqNo[f] < SeqNo[e]
<1>1. Init => TypeInv /\ SequenceInv
    BY TypeInit DEF Init, SequenceInv, Pending, Uncommitted, Idle
<1>2. TypeInv /\ SequenceInv /\ [Next]_vars => (TypeInv /\ SequenceInv)'
    BY TypeStep, SequenceStep
<1>3. ASSUME TypeInv, SequenceInv, [Next]_vars PROVE Ordered
    <2> SUFFICES ASSUME NEW r \in Requests, NEW e \in Events, NEW f \in Events,
                        ~forgot, Admits(r, e), Instance[f] = Instance[e],
                        row[f] = "VALID" \/ Pending(f)
                 PROVE  SeqNo[f] < SeqNo[e]
        OBVIOUS
    <2>1. SeqNo[f] <= lastSeq[Instance[f]]
        BY <1>3 DEF SequenceInv
    <2>2. SeqNo[e] > lastSeq[Instance[e]]
        BY <1>3, AdmitsAbove
    <2>3. lastSeq[Instance[e]] \in Nat /\ SeqNo[e] \in Nat /\ SeqNo[f] \in Nat
        BY <1>3 DEF TypeInv, TypeOK
    <2> QED BY <2>1, <2>2, <2>3
<1>4. TypeInv /\ SequenceInv /\ [Next]_vars => [Ordered]_vars
    BY <1>3
<1> QED BY <1>1, <1>2, <1>4, PTL DEF Spec, InOrder

-----------------------------------------------------------------------------
(* The SDK instance of the session *)

\* What a handler knows of the binding b of the committed row. Its transaction
\* sees the binding it assigned, if it did: the events it accepted are of that
\* instance, and it assigns one only where it found none.
Binds(q, b) == IF q.binds = None THEN b ELSE q.binds

BoundTo(q, b) ==
    /\ \A e \in q.valid : Instance[e] = Binds(q, b)
    /\ q.bound # None => q.bound = Binds(q, b)
    /\ q.step \in {"check", "store"} /\ Binds(q, q.bound) = None => q.valid = {}
    /\ q.step \in {"check", "store"} /\ q.binds # None => q.bound = q.binds
    /\ q.step = "store" => q.bound \in {None, Instance[Head(q.todo)]}

\* Nothing is known of a session that is not registered.
Unregistered ==
    session = "ABSENT" =>
        /\ binding = None
        /\ \A e \in Events : row[e] # "VALID"
        /\ \A r \in Requests : req[r].seen = "ABSENT" /\ req[r].bound = None
                               /\ req[r].binds = None /\ req[r].valid = {}

BindingInv ==
    /\ OneInstanceUnlessRaced
    /\ ~raced => \A r \in Requests : BoundTo(req[r], binding)
    /\ Unregistered

LEMMA BindingStep == TypeInv /\ SeenInv /\ BindingInv /\ [Next]_vars => BindingInv'
<1> SUFFICES ASSUME TypeInv, SeenInv, BindingInv, [Next]_vars PROVE BindingInv'
    OBVIOUS
<1> USE DEF redis, history
<1>t. req \in [Requests -> BatchRecord]
    BY DEF TypeInv, TypeOK, BatchRecord
<1>i. /\ Idle.step = "idle" /\ Idle.valid = {} /\ Idle.bound = None /\ Idle.binds = None
      /\ Idle.seen = "ABSENT"
    BY DEF Idle
\* A step of one handler that leaves the committed rows alone.
<1>s. ASSUME NEW r \in Requests, NEW n, req' = [req EXCEPT ![r] = n],
             UNCHANGED <<session, binding, row, raced>>,
             ~raced => BoundTo(n, binding),
             session = "ABSENT" => n.seen = "ABSENT" /\ n.bound = None /\ n.binds = None
                                   /\ n.valid = {}
      PROVE  BindingInv'
    <2>1. OneInstanceUnlessRaced'
        BY <1>s DEF BindingInv, OneInstanceUnlessRaced
    <2>2. (~raced => \A s \in Requests : BoundTo(req[s], binding))'
        <3> SUFFICES ASSUME ~raced, NEW s \in Requests PROVE BoundTo(req'[s], binding)
            BY <1>s
        <3>1. BoundTo(req[s], binding)
            BY DEF BindingInv
        <3>2. (req'[s] = n /\ s = r) \/ req'[s] = req[s]
            BY <1>s, <1>t
        <3> QED BY <1>s, <3>1, <3>2
    <2>3. Unregistered'
        BY <1>s, <1>t DEF BindingInv, Unregistered
    <2> QED BY <2>1, <2>2, <2>3 DEF BindingInv
<1>0. CASE UNCHANGED vars
    <2>1. UNCHANGED <<session, binding, row, req, raced>>
        BY <1>0 DEF vars
    <2> QED BY <2>1 DEF BindingInv, OneInstanceUnlessRaced, Unregistered
<1>1. ASSUME NEW r \in Requests, Send(r) PROVE BindingInv'
    <2>1. PICK q \in BatchRecord : req' = [req EXCEPT ![r] = q] /\ Fresh(q)
        BY <1>1, SendFields
    <2>2. q.step = "load" /\ q.valid = {} /\ q.bound = None /\ q.binds = None /\ q.seen = "ABSENT"
        BY <2>1 DEF Fresh
    <2>3. BoundTo(q, binding)
        BY <2>2 DEF BoundTo
    <2>4. req' = [req EXCEPT ![r] = q] /\ UNCHANGED <<session, binding, row, raced>>
        BY <1>1, <2>1 DEF Send
    <2> QED BY <2>2, <2>3, <2>4, <1>s
<1>2. ASSUME NEW r \in Requests, Load(r) PROVE BindingInv'
    <2>1. PICK n \in BatchRecord :
             /\ req' = [req EXCEPT ![r] = n]
             /\ n.step = "check" /\ n.seen = session
             /\ n.bound = Binds(req[r], binding)
             /\ n.binds = req[r].binds /\ n.valid = req[r].valid
        BY <1>2, LoadFields DEF Binds
    <2>2. UNCHANGED <<session, binding, row, raced>>
        BY <1>2 DEF Load
    <2>3. ASSUME ~raced PROVE BoundTo(n, binding)
        <3>1. BoundTo(req[r], binding)
            BY <2>3 DEF BindingInv
        <3>2. \A e \in n.valid : Instance[e] = n.bound /\ Instance[e] # None
            <4>1. n.valid \subseteq Events
                BY DEF BatchRecord
            <4> QED BY <2>1, <3>1, <4>1 DEF BoundTo
        <3> QED BY <2>1, <3>1, <3>2 DEF BoundTo, Binds
    <2>4. session = "ABSENT" => n.seen = "ABSENT" /\ n.bound = None /\ n.binds = None
                                /\ n.valid = {}
        BY <2>1 DEF BindingInv, Unregistered, Binds
    <2> QED BY <2>1, <2>2, <2>3, <2>4, <1>s
<1>3. ASSUME NEW r \in Requests, Screen(r) PROVE BindingInv'
    <2>0. req[r].step = "check" /\ req[r].seen = "LIVE" /\ req[r].bound \in {None, Instance[Packet(r)]}
        BY <1>3 DEF Screen, Refusable
    <2>1. PICK n \in BatchRecord :
             /\ req' = [req EXCEPT ![r] = n]
             /\ n.binds = req[r].binds /\ n.valid = req[r].valid
             /\ \/ n.step = "load" /\ n.bound = None
                \/ n.step = "store" /\ n.bound = req[r].bound /\ n.todo = req[r].todo
        BY <1>3, ScreenFields
    <2>2. UNCHANGED <<session, binding, row, raced>>
        BY <1>3 DEF Screen
    <2>3. ASSUME ~raced PROVE BoundTo(n, binding)
        <3>1. BoundTo(req[r], binding)
            BY <2>3 DEF BindingInv
        <3> QED BY <2>0, <2>1, <3>1 DEF BoundTo, Binds, Packet
    <2>4. session # "ABSENT"
        BY <2>0 DEF BindingInv, Unregistered
    <2> QED BY <2>1, <2>2, <2>3, <2>4, <1>s
<1>4. ASSUME NEW r \in Requests, Refused(r) PROVE BindingInv'
    <2>1. PICK n \in BatchRecord :
             /\ req' = [req EXCEPT ![r] = n]
             /\ n.step = "load" /\ n.seen = "ABSENT" /\ n.bound = None
             /\ n.binds = req[r].binds /\ n.valid = req[r].valid
        BY <1>4, RefuseFields
    <2>2. UNCHANGED <<session, binding, row, raced>>
        BY <1>4 DEF Refused, Refuse, RefuseTag
    <2>3. ASSUME ~raced PROVE BoundTo(n, binding)
        <3>1. BoundTo(req[r], binding)
            BY <2>3 DEF BindingInv
        <3> QED BY <2>1, <3>1 DEF BoundTo, Binds
    <2>4. session = "ABSENT" => n.binds = None /\ n.valid = {}
        BY <2>1 DEF BindingInv, Unregistered
    <2> QED BY <2>1, <2>2, <2>3, <2>4, <1>s
<1>5. ASSUME NEW r \in Requests, Store(r) PROVE BindingInv'
    <2> DEFINE e == Packet(r)
    <2>0. req[r].step = "store" /\ req[r].seen = "LIVE" /\ session # "ABSENT"
        BY <1>5 DEF Store, SeenInv, BindingInv, Unregistered
    <2>1. PICK n \in BatchRecord :
             /\ req' = [req EXCEPT ![r] = n]
             /\ n.step = "load" /\ n.bound = None
             /\ n.binds = IF req[r].bound = None THEN Instance[e] ELSE req[r].binds
             /\ n.valid = req[r].valid \cup {e}
        BY <1>5, StoreFields
    <2>2. UNCHANGED <<session, binding, row, raced>>
        BY <1>5 DEF Store
    <2>e. Instance[e] \in Instances /\ Instance[e] # None
        <3>1. req[r].todo # <<>>
            BY <2>0 DEF TypeInv, AtHand
        <3> QED BY <3>1, PacketType DEF TypeInv
    <2>3. ASSUME ~raced PROVE BoundTo(n, binding)
        <3>1. BoundTo(req[r], binding)
            BY <2>3 DEF BindingInv
        <3>2. CASE req[r].bound = None
            <4>1. n.valid = {e} /\ Binds(n, binding) = Instance[e]
                BY <2>0, <2>1, <2>e, <3>1, <3>2 DEF BoundTo, Binds
            <4> QED BY <2>1, <4>1 DEF BoundTo
        <3>3. CASE req[r].bound # None
            <4>1. Binds(n, binding) = Binds(req[r], binding)
                BY <2>1, <3>3 DEF Binds
            <4>2. Instance[e] = req[r].bound
                BY <2>0, <3>1, <3>3 DEF BoundTo, Packet
            <4> QED BY <2>1, <3>1, <3>3, <4>1, <4>2 DEF BoundTo
        <3> QED BY <3>2, <3>3
    <2> QED BY <2>0, <2>1, <2>2, <2>3, <1>s
<1>6. ASSUME NEW r \in Requests, Commit(r) PROVE BindingInv'
    <2>1. /\ \A f \in Events : row'[f] = "VALID" => f \in req[r].valid \/ row[f] = "VALID"
          /\ binding' = Binds(req[r], binding)
          /\ req' = [req EXCEPT ![r] = Idle]
          /\ raced' = (raced \/ (req[r].binds # None /\ binding # None /\ binding # req[r].binds))
          /\ session' = session
        BY <1>6 DEF Commit, Binds
    <2>2. ASSUME ~raced'
          PROVE  ~raced /\ (binding = None \/ binding' = binding)
        BY <2>1, <2>2 DEF Binds
    <2>3. OneInstanceUnlessRaced'
        <3> SUFFICES ASSUME ~raced', NEW f \in Events, row'[f] = "VALID"
                     PROVE  binding' = Instance[f]
            BY DEF OneInstanceUnlessRaced
        <3>1. ~raced /\ (binding = None \/ binding' = binding)
            BY <2>2
        <3>2. CASE f \in req[r].valid
            BY <2>1, <3>1, <3>2 DEF BindingInv, BoundTo
        <3>3. CASE row[f] = "VALID"
            <4>1. binding = Instance[f] /\ Instance[f] # None
                BY <3>1, <3>3 DEF BindingInv, OneInstanceUnlessRaced
            <4> QED BY <3>1, <4>1
        <3> QED BY <2>1, <3>2, <3>3
    <2>4. (~raced => \A s \in Requests : BoundTo(req[s], binding))'
        <3> SUFFICES ASSUME ~raced', NEW s \in Requests PROVE BoundTo(req'[s], binding')
            OBVIOUS
        <3>1. ~raced /\ (binding = None \/ binding' = binding)
            BY <2>2
        <3>2. CASE s = r
            BY <2>1, <3>2, <1>t, <1>i DEF BoundTo
        <3>3. CASE s # r
            <4>1. req'[s] = req[s] /\ BoundTo(req[s], binding)
                BY <2>1, <3>1, <3>3, <1>t DEF BindingInv
            <4>2. CASE binding' = binding
                BY <4>1, <4>2
            <4>3. CASE binding = None
                <5>1. CASE req[s].binds # None
                    BY <4>1, <5>1 DEF BoundTo, Binds
                <5>2. CASE req[s].binds = None
                    <6>1. req[s].valid \subseteq Events
                        BY <1>t DEF BatchRecord
                    <6>2. req[s].valid = {} /\ req[s].bound = None
                        BY <4>1, <4>3, <5>2, <6>1 DEF BoundTo, Binds
                    <6> QED BY <4>1, <5>2, <6>2 DEF BoundTo
                <5> QED BY <5>1, <5>2
            <4> QED BY <3>1, <4>2, <4>3
        <3> QED BY <3>2, <3>3
    <2>5. Unregistered'
        BY <2>1, <1>t, <1>i DEF BindingInv, Unregistered, Binds
    <2> QED BY <2>3, <2>4, <2>5 DEF BindingInv
<1>7. ASSUME NEW r \in Requests, Fail(r) PROVE BindingInv'
    <2>1. BoundTo(Idle, binding)
        BY <1>i DEF BoundTo
    <2>2. req' = [req EXCEPT ![r] = Idle] /\ UNCHANGED <<session, binding, row, raced>>
        BY <1>7 DEF Fail
    <2> QED BY <2>1, <2>2, <1>i, <1>s
<1>8. CASE Register
    <2>1. /\ session = "ABSENT" /\ session' = "LIVE" /\ UNCHANGED <<row, req, raced>>
          /\ Unregistered
        BY <1>8 DEF Register, BindingInv
    <2>2. OneInstanceUnlessRaced'
        BY <2>1 DEF OneInstanceUnlessRaced, Unregistered
    <2>3. ASSUME NEW s \in Requests, ~raced PROVE BoundTo(req[s], binding')
        BY <2>1, <2>3 DEF BindingInv, BoundTo, Unregistered
    <2>4. Unregistered'
        BY <2>1 DEF Unregistered
    <2> QED BY <2>1, <2>2, <2>3, <2>4 DEF BindingInv
<1>9. CASE EndSession
    <2>1. session' # "ABSENT" /\ UNCHANGED <<binding, row, raced>>
        BY <1>9 DEF EndSession
    <2>2. ASSUME NEW s \in Requests, ~raced PROVE BoundTo(req'[s], binding)
        <3>1. BoundTo(req[s], binding)
            BY <2>2 DEF BindingInv
        <3>2. /\ req'[s].step = req[s].step /\ req'[s].bound = req[s].bound
              /\ req'[s].binds = req[s].binds /\ req'[s].valid = req[s].valid
              /\ req'[s].todo = req[s].todo
            BY <1>9, EndSessionFields
        <3> QED BY <3>1, <3>2 DEF BoundTo, Binds
    <2> QED BY <2>1, <2>2 DEF BindingInv, OneInstanceUnlessRaced, Unregistered
<1>10. CASE ReviveSession \/ NewMinute \/ (\E e \in Events : ExpireMarker(e))
              \/ \E j \in Instances : ExpireSequence(j)
    <2>1. /\ UNCHANGED <<binding, row, req, raced>>
          /\ session' = session \/ session' # "ABSENT"
        BY <1>10 DEF ReviveSession, NewMinute, ExpireMarker, ExpireSequence
    <2> QED BY <2>1 DEF BindingInv, OneInstanceUnlessRaced, Unregistered
<1>11. CASE Restart
    <2>1. BoundTo(Idle, binding)
        BY <1>i DEF BoundTo
    <2>2. req' = [s \in Requests |-> Idle] /\ UNCHANGED <<session, binding, row, raced>>
        BY <1>11 DEF Restart
    <2> QED BY <2>1, <2>2, <1>i DEF BindingInv, OneInstanceUnlessRaced, Unregistered
<1> HIDE DEF redis, history
<1> QED BY <1>0, <1>1, <1>2, <1>3, <1>4, <1>5, <1>6, <1>7, <1>8, <1>9, <1>10, <1>11
        DEF Next, Batch, Refused

\* "Tenant/binding": for any number of overlapping batches, every accepted event
\* is of the instance the session is bound to, until a binding is overwritten.
THEOREM OneInstance == Spec => []OneInstanceUnlessRaced
<1>1. Init => TypeInv /\ SeenInv /\ BindingInv
    <2> SUFFICES ASSUME Init PROVE TypeInv /\ SeenInv /\ BindingInv
        OBVIOUS
    <2>1. \A r \in Requests : req[r] = Idle
        BY DEF Init
    <2>2. /\ Idle.step = "idle" /\ Idle.valid = {} /\ Idle.bound = None /\ Idle.binds = None
          /\ Idle.seen = "ABSENT"
        BY DEF Idle
    <2>3. SeenInv
        BY <2>1, <2>2 DEF SeenInv
    <2>4. \A r \in Requests : BoundTo(req[r], binding)
        BY <2>1, <2>2 DEF BoundTo
    <2>5. OneInstanceUnlessRaced /\ Unregistered
        BY <2>1, <2>2 DEF Init, OneInstanceUnlessRaced, Unregistered
    <2> QED BY TypeInit, <2>3, <2>4, <2>5 DEF BindingInv
<1>2. TypeInv /\ SeenInv /\ BindingInv /\ [Next]_vars => (TypeInv /\ SeenInv /\ BindingInv)'
    BY TypeStep, SeenStep, BindingStep
<1>3. BindingInv => OneInstanceUnlessRaced
    BY DEF BindingInv
<1> QED BY <1>1, <1>2, <1>3, PTL DEF Spec

-----------------------------------------------------------------------------
(* The event log is a ledger *)

Holds(r) == req[r].valid \cup req[r].refused

\* What a handler is about to store has no verdict yet, has one verdict with this
\* handler, and is in no other handler's hands.
LogInv ==
    \A r \in Requests :
        /\ \A e \in Holds(r) : row[e] = "NONE"
        /\ req[r].valid \cap req[r].refused = {}
        /\ \A q \in Requests \ {r} : Holds(r) \cap Holds(q) = {}

LEMMA LogStep == TypeInv /\ LogInv /\ [Next]_vars => LogInv'
<1> SUFFICES ASSUME TypeInv, LogInv, [Next]_vars PROVE LogInv'
    OBVIOUS
<1> USE DEF redis, history
<1>t. req \in [Requests -> BatchRecord]
    BY DEF TypeInv, TypeOK, BatchRecord
<1>i. Idle.valid = {} /\ Idle.refused = {}
    BY DEF Idle
\* A step that gives a handler nothing new.
<1>s. ASSUME NEW r \in Requests, NEW n, req' = [req EXCEPT ![r] = n], row' = row,
             n.valid \subseteq req[r].valid, n.refused \subseteq req[r].refused
      PROVE  LogInv'
    BY <1>s, <1>t DEF LogInv, Holds
<1>0. CASE UNCHANGED vars
    BY <1>0 DEF LogInv, Holds, vars
<1>1. ASSUME NEW r \in Requests, Send(r) PROVE LogInv'
    <2>1. PICK q \in BatchRecord : req' = [req EXCEPT ![r] = q] /\ Fresh(q)
        BY <1>1, SendFields
    <2>2. q.valid = {} /\ q.refused = {}
        BY <2>1 DEF Fresh
    <2>3. req' = [req EXCEPT ![r] = q] /\ row' = row
        BY <1>1, <2>1 DEF Send
    <2> QED BY <2>2, <2>3, <1>s
<1>2. ASSUME NEW r \in Requests, Load(r) PROVE LogInv'
    BY <1>2, <1>s, LoadFields DEF Load
<1>3. ASSUME NEW r \in Requests, Screen(r) PROVE LogInv'
    BY <1>3, <1>s, ScreenFields DEF Screen
<1>4. ASSUME NEW r \in Requests, Refused(r) PROVE LogInv'
    <2> DEFINE e == Packet(r)
    <2>1. PICK n \in BatchRecord :
             /\ req' = [req EXCEPT ![r] = n]
             /\ n.valid = req[r].valid
             /\ n.refused = IF row[e] = "NONE" /\ e \notin req[r].valid
                            THEN req[r].refused \cup {e} ELSE req[r].refused
        BY <1>4, RefuseFields
    <2>2. row' = row /\ \A q \in Requests \ {r} : e \notin Holds(q)
        BY <1>4 DEF Refused, Refuse, RefuseTag, RecordRejected, Holds
    <2> HIDE DEF e
    <2> QED BY <2>1, <2>2, <1>t DEF LogInv, Holds
<1>5. ASSUME NEW r \in Requests, Store(r) PROVE LogInv'
    <2> DEFINE e == Packet(r)
    <2>1. PICK n \in BatchRecord :
             /\ req' = [req EXCEPT ![r] = n]
             /\ n.valid = req[r].valid \cup {e} /\ n.refused = req[r].refused
        BY <1>5, StoreFields
    <2>2. /\ row' = row /\ row[e] = "NONE" /\ e \notin req[r].refused
          /\ \A q \in Requests \ {r} : e \notin Holds(q)
        BY <1>5 DEF Store, Holds, HoldsRow
    <2> HIDE DEF e
    <2> QED BY <2>1, <2>2, <1>t DEF LogInv, Holds
<1>6. ASSUME NEW r \in Requests, Commit(r) PROVE LogInv'
    <2>1. /\ req' = [req EXCEPT ![r] = Idle]
          /\ \A e \in Events : e \notin Holds(r) => row'[e] = row[e]
        BY <1>6 DEF Commit, Holds
    <2>2. \A q \in Requests : Holds(q) \subseteq Events
        BY <1>t DEF Holds, BatchRecord
    <2>3. \A q \in Requests \ {r} : \A e \in Holds(q) : row'[e] = "NONE"
        BY <2>1, <2>2 DEF LogInv
    <2>4. \A q \in Requests : Holds(q)' = IF q = r THEN {} ELSE Holds(q)
        BY <2>1, <1>t, <1>i DEF Holds
    <2>5. \A q \in Requests : req'[q].valid \cap req'[q].refused = {}
        BY <2>1, <1>t, <1>i DEF LogInv
    <2> QED BY <2>3, <2>4, <2>5 DEF LogInv
<1>7. ASSUME NEW r \in Requests, Fail(r) PROVE LogInv'
    BY <1>7, <1>s, <1>i DEF Fail
<1>8. CASE EndSession
    <2>1. \A r \in Requests : Holds(r)' = Holds(r) /\ req'[r].valid = req[r].valid
                              /\ req'[r].refused = req[r].refused
        BY <1>8, EndSessionFields DEF Holds
    <2> QED BY <1>8, <2>1 DEF LogInv, EndSession
<1>9. CASE Register \/ ReviveSession \/ NewMinute \/ (\E e \in Events : ExpireMarker(e))
             \/ \E j \in Instances : ExpireSequence(j)
    BY <1>9 DEF LogInv, Holds, Register, ReviveSession, NewMinute, ExpireMarker, ExpireSequence
<1>10. CASE Restart
    BY <1>10, <1>i DEF LogInv, Holds, Restart
<1> HIDE DEF redis, history
<1> QED BY <1>0, <1>1, <1>2, <1>3, <1>4, <1>5, <1>6, <1>7, <1>8, <1>9, <1>10
        DEF Next, Batch, Refused

\* The commit of a batch records its verdicts.
LEMMA CommitRecords ==
    ASSUME TypeInv, LogInv, NEW r \in Requests, Commit(r)
    PROVE  Ledger!Next
<1> DEFINE V == req[r].valid
           R == req[r].refused
<1>1. V \subseteq Events /\ R \subseteq Events
    BY DEF TypeInv, TypeOK, BatchRecord
<1>2. V \in SUBSET Ledger!Undecided /\ R \in SUBSET Ledger!Undecided
    BY <1>1 DEF LogInv, Holds, Ledger!Undecided
<1>3. V \cap R = {}
    BY DEF LogInv
<1>4. row' = [e \in Events |-> IF e \in V THEN "VALID" ELSE IF e \in R THEN "REJECTED" ELSE row[e]]
    BY DEF Commit
<1>5. told' \in {told, told \cup V}
    BY DEF Commit
<1> HIDE DEF V, R
<1>6. Ledger!Record(V, R)
    BY <1>4, <1>5 DEF Ledger!Record
<1> QED BY <1>2, <1>3, <1>6 DEF Ledger!Next

\* The event log is a ledger: for any number of handlers and events, an event
\* gets one verdict, keeps it, and is reported as accepted only when it is valid.
THEOREM IngestionImplementsLedger == Spec => LedgerSpec
<1>1. Init => TypeInv /\ LogInv /\ Ledger!Init
    <2> SUFFICES ASSUME Init PROVE TypeInv /\ LogInv /\ Ledger!Init
        OBVIOUS
    <2>1. \A r \in Requests : Holds(r) = {} /\ req[r].valid = {}
        BY DEF Init, Idle, Holds
    <2>2. LogInv
        BY <2>1 DEF LogInv
    <2>3. Ledger!Init
        BY DEF Init, Ledger!Init
    <2> QED BY TypeInit, <2>2, <2>3
<1>2. TypeInv /\ LogInv /\ [Next]_vars => (TypeInv /\ LogInv)'
    BY TypeStep, LogStep
<1>3. TypeInv /\ LogInv /\ [Next]_vars => [Ledger!Next]_(Ledger!vars)
    <2> SUFFICES ASSUME TypeInv, LogInv, [Next]_vars
                 PROVE  Ledger!Next \/ UNCHANGED <<row, told>>
        BY DEF Ledger!vars
    <2> USE DEF redis, history
    <2>1. CASE UNCHANGED vars
        BY <2>1 DEF vars
    <2>2. ASSUME NEW r \in Requests, Commit(r) PROVE Ledger!Next
        BY <2>2, CommitRecords
    <2>3. ASSUME NEW r \in Requests,
                 Send(r) \/ Load(r) \/ Screen(r) \/ Refused(r) \/ Store(r) \/ Fail(r)
          PROVE  UNCHANGED <<row, told>>
        BY <2>3 DEF Send, Load, Screen, Refused, Refuse, RefuseTag, Store, Fail
    <2>4. CASE Register \/ EndSession \/ ReviveSession \/ NewMinute \/ Restart
        BY <2>4 DEF Register, EndSession, ReviveSession, NewMinute, Restart
    <2>5. CASE (\E e \in Events : ExpireMarker(e)) \/ \E i \in Instances : ExpireSequence(i)
        BY <2>5 DEF ExpireMarker, ExpireSequence
    <2> HIDE DEF redis, history
    <2> QED BY <2>1, <2>2, <2>3, <2>4, <2>5 DEF Next, Batch, Refused
<1> QED BY <1>1, <1>2, <1>3, PTL DEF Spec, LedgerSpec, Ledger!Spec

\* A step of the ledger keeps every verdict, so what was acknowledged stays stored.
LEMMA LedgerKeepsAcked ==
    ASSUME told \subseteq Events, Ledger!AckedIsStored, [Ledger!Next]_(Ledger!vars)
    PROVE  (told \subseteq Events /\ Ledger!AckedIsStored)'
<1>1. CASE UNCHANGED Ledger!vars
    BY <1>1 DEF Ledger!vars, Ledger!AckedIsStored
<1>2. CASE Ledger!Next
    <2>1. PICK V, R \in SUBSET Ledger!Undecided : V \cap R = {} /\ Ledger!Record(V, R)
        BY <1>2 DEF Ledger!Next
    <2>2. \A e \in told : e \notin V \cup R
        BY <2>1 DEF Ledger!AckedIsStored, Ledger!Undecided
    <2>3. \A e \in Events : row'[e] = IF e \in V THEN "VALID"
                                      ELSE IF e \in R THEN "REJECTED" ELSE row[e]
        BY <2>1 DEF Ledger!Record
    <2>4. told' \subseteq told \cup V /\ V \subseteq Events
        BY <2>1 DEF Ledger!Record, Ledger!Undecided
    <2> QED BY <2>2, <2>3, <2>4 DEF Ledger!AckedIsStored
<1> QED BY <1>1, <1>2

\* What a client was told is accepted is stored as valid, from then on.
THEOREM AcknowledgedIsStored == Spec => []Ledger!AckedIsStored
<1>1. Ledger!Init => told \subseteq Events /\ Ledger!AckedIsStored
    BY DEF Ledger!Init, Ledger!AckedIsStored
<1>2. /\ told \subseteq Events /\ Ledger!AckedIsStored
      /\ [Ledger!Next]_(Ledger!vars)
      => (told \subseteq Events /\ Ledger!AckedIsStored)'
    BY LedgerKeepsAcked
<1> QED BY <1>1, <1>2, IngestionImplementsLedger, PTL DEF LedgerSpec, Ledger!Spec
-----------------------------------------------------------------------------
(* The replay markers *)

\* A handler that is done with its batch has nothing in its hands.
DoneInv ==
    \A r \in Requests : req[r].step = "idle" => req[r].valid = {} /\ req[r].refused = {}

LEMMA DoneStep == TypeInv /\ DoneInv /\ [Next]_vars => DoneInv'
<1> SUFFICES ASSUME TypeInv, DoneInv, [Next]_vars PROVE DoneInv'
    OBVIOUS
<1>t. req \in [Requests -> BatchRecord]
    BY DEF TypeInv, TypeOK, BatchRecord
\* A step of one handler that ends empty-handed, or does not end.
<1>s. ASSUME NEW r \in Requests, NEW n, req' = [req EXCEPT ![r] = n],
             n.step # "idle" \/ (n.valid = {} /\ n.refused = {})
      PROVE  DoneInv'
    BY <1>s, <1>t DEF DoneInv
<1>0. CASE UNCHANGED vars
    BY <1>0 DEF DoneInv, vars
<1>1. ASSUME NEW r \in Requests, Send(r) PROVE DoneInv'
    <2>1. PICK q \in BatchRecord : req' = [req EXCEPT ![r] = q] /\ Fresh(q)
        BY <1>1, SendFields
    <2>2. q.step # "idle"
        BY <2>1 DEF Fresh
    <2> QED BY <2>1, <2>2, <1>s
<1>2. ASSUME NEW r \in Requests, Load(r) PROVE DoneInv'
    BY <1>2, <1>s, LoadFields
<1>3. ASSUME NEW r \in Requests, Screen(r) PROVE DoneInv'
    BY <1>3, <1>s, ScreenFields
<1>4. ASSUME NEW r \in Requests, Refused(r) PROVE DoneInv'
    BY <1>4, <1>s, RefuseFields
<1>5. ASSUME NEW r \in Requests, Store(r) PROVE DoneInv'
    BY <1>5, <1>s, StoreFields
<1>6. ASSUME NEW r \in Requests, Commit(r) \/ Fail(r) PROVE DoneInv'
    BY <1>6, <1>s DEF Commit, Fail, Idle
<1>7. CASE EndSession
    BY <1>7, EndSessionFields DEF DoneInv
<1>8. CASE Register \/ ReviveSession \/ NewMinute \/ (\E e \in Events : ExpireMarker(e))
             \/ \E j \in Instances : ExpireSequence(j)
    BY <1>8 DEF DoneInv, Register, ReviveSession, NewMinute, ExpireMarker, ExpireSequence
<1>9. CASE Restart
    BY <1>9 DEF DoneInv, Restart, Idle
<1> QED BY <1>0, <1>1, <1>2, <1>3, <1>4, <1>5, <1>6, <1>7, <1>8, <1>9 DEF Next, Batch, Refused

\* What a handler may still commit.
InHands(q) == Uncommitted(q) \cup q.refused

\* One marker stays accounted for when its event keeps its row and its handler,
\* or has been left behind.
LEMMA MarkerStep ==
    TypeInv /\ DoneInv /\ MarkersAccountedFor /\ [Next]_vars => MarkersAccountedFor'
<1> SUFFICES ASSUME TypeInv, DoneInv, MarkersAccountedFor, [Next]_vars,
                    NEW e \in Events, e \in marker', e \notin left'
             PROVE  (row[e] # "NONE" \/ Held(e))'
    <2>1. TypeInv /\ [Next]_vars => marker' \subseteq Events
        BY TypeStep DEF TypeInv, TypeOK
    <2> QED BY <2>1 DEF MarkersAccountedFor
<1> USE DEF redis, history
<1>t. req \in [Requests -> BatchRecord]
    BY DEF TypeInv, TypeOK, BatchRecord
<1>i. Idle.step = "idle" /\ Idle.valid = {} /\ Idle.refused = {}
    BY DEF Idle
<1>m. e \in marker /\ e \notin left => row[e] # "NONE" \/ Held(e)
    BY DEF MarkersAccountedFor
\* A step of one handler that takes nothing out of its hands.
<1>s. ASSUME NEW r \in Requests, NEW n, req' = [req EXCEPT ![r] = n],
             UNCHANGED <<row, left>>, e \in marker,
             \A f \in Events : f \in InHands(req[r]) => f \in InHands(n)
      PROVE  (row[e] # "NONE" \/ Held(e))'
    <2>1. CASE row[e] # "NONE"
        BY <1>s, <2>1
    <2>2. CASE Held(e)
        <3>1. PICK q \in Requests : e \in InHands(req[q])
            BY <2>2 DEF Held, Pending, InHands
        <3>2. e \in InHands(req'[q])
            BY <1>s, <1>t, <3>1
        <3> QED BY <3>2 DEF Held, Pending, InHands, Uncommitted
    <2> QED BY <1>s, <1>m, <2>1, <2>2
<1>0. CASE UNCHANGED vars
    BY <1>0, <1>m DEF vars, Held, Pending, Uncommitted
<1>1. ASSUME NEW r \in Requests, Send(r) PROVE (row[e] # "NONE" \/ Held(e))'
    <2>1. PICK q \in BatchRecord : req' = [req EXCEPT ![r] = q] /\ Fresh(q)
        BY <1>1, SendFields
    <2>2. req[r].step = "idle" /\ UNCHANGED <<row, left, marker>>
        BY <1>1 DEF Send
    <2>3. \A f \in Events : f \in InHands(req[r]) => f \in InHands(q)
        BY <2>2 DEF DoneInv, InHands, Uncommitted
    <2>4. req' = [req EXCEPT ![r] = q]
        BY <2>1
    <2> QED BY <2>2, <2>3, <2>4, <1>s
<1>2. ASSUME NEW r \in Requests, Load(r) PROVE (row[e] # "NONE" \/ Held(e))'
    <2>1. PICK n \in BatchRecord :
            /\ req' = [req EXCEPT ![r] = n]
            /\ n.valid = req[r].valid /\ n.refused = req[r].refused
        BY <1>2, LoadFields
    <2>2. req[r].step # "store" /\ UNCHANGED <<row, left, marker>>
        BY <1>2 DEF Load
    <2>3. \A f \in Events : f \in InHands(req[r]) => f \in InHands(n)
        BY <2>1, <2>2 DEF InHands, Uncommitted
    <2> QED BY <2>1, <2>2, <2>3, <1>s
<1>3. ASSUME NEW r \in Requests, Screen(r) PROVE (row[e] # "NONE" \/ Held(e))'
    <2>0. req[r].step = "check" /\ UNCHANGED row
        BY <1>3 DEF Screen
    <2>1. PICK n \in BatchRecord :
             /\ req' = [req EXCEPT ![r] = n]
             /\ n.valid = req[r].valid /\ n.refused = req[r].refused
             /\ n.step = "store" => n.todo = req[r].todo
        BY <1>3, ScreenFields
    <2>2. \/ UNCHANGED <<marker, left>>
          \/ marker' = marker \cup {Packet(r)} /\ left' = left \cup {Packet(r)}
          \/ /\ marker' = marker \cup {Packet(r)} /\ UNCHANGED left
             /\ req' = [req EXCEPT ![r].step = "store"]
        BY <1>3 DEF Screen
    <2>3. \A f \in Events : f \in InHands(req[r]) => f \in InHands(n)
        BY <2>0, <2>1 DEF InHands, Uncommitted
    <2>4. CASE e \in marker /\ UNCHANGED left
        BY <2>0, <2>1, <2>3, <2>4, <1>s
    <2>5. CASE e \in marker /\ left' = left \cup {Packet(r)}
        <3>1. CASE row[e] # "NONE"
            BY <2>0, <3>1
        <3>2. CASE Held(e)
            <4>1. PICK q \in Requests : e \in InHands(req[q])
                BY <3>2 DEF Held, Pending, InHands
            <4>2. e \in InHands(req'[q])
                BY <2>1, <2>3, <1>t, <4>1
            <4> QED BY <4>2 DEF Held, Pending, InHands, Uncommitted
        <3> QED BY <1>m, <2>5, <3>1, <3>2
    <2>6. CASE e \notin marker
        <3>1. e = Packet(r) /\ req' = [req EXCEPT ![r].step = "store"]
            BY <2>2, <2>6
        <3>2. e \in InHands(req'[r])
            BY <3>1, <1>t DEF InHands, Uncommitted, Packet, BatchRecord
        <3> QED BY <3>2 DEF Held, Pending, InHands, Uncommitted
    <2> QED BY <2>2, <2>4, <2>5, <2>6
<1>4. ASSUME NEW r \in Requests, Refused(r) PROVE (row[e] # "NONE" \/ Held(e))'
    <2> DEFINE p == Packet(r)
    <2>1. PICK n \in BatchRecord :
             /\ req' = [req EXCEPT ![r] = n]
             /\ n.valid = req[r].valid
             /\ n.refused = IF row[p] = "NONE" /\ p \notin req[r].valid
                            THEN req[r].refused \cup {p} ELSE req[r].refused
        BY <1>4, RefuseFields
    <2>2. UNCHANGED <<row, left, marker>>
        BY <1>4 DEF Refused, Refuse, RefuseTag
    <2>3. ASSUME NEW f \in Events, f \in InHands(req[r])
          PROVE  f \in InHands(n) \/ (f = p /\ row[p] # "NONE")
        BY <2>1, <2>3 DEF InHands, Uncommitted, Packet
    <2>4. CASE row[e] # "NONE"
        BY <2>2, <2>4
    <2>5. CASE row[e] = "NONE"
        <3>1. PICK q \in Requests : e \in InHands(req[q])
            BY <1>m, <2>2, <2>5 DEF Held, Pending, InHands
        <3>2. e \in InHands(req'[q])
            BY <1>t, <2>1, <2>3, <2>5, <3>1
        <3> QED BY <3>2 DEF Held, Pending, InHands, Uncommitted
    <2> QED BY <2>4, <2>5
<1>5. ASSUME NEW r \in Requests, Store(r) PROVE (row[e] # "NONE" \/ Held(e))'
    <2>1. PICK n \in BatchRecord :
            /\ req' = [req EXCEPT ![r] = n]
            /\ n.valid = req[r].valid \cup {Packet(r)} /\ n.refused = req[r].refused
        BY <1>5, StoreFields
    <2>2. UNCHANGED <<row, left, marker>>
        BY <1>5 DEF Store
    <2>3. \A f \in Events : f \in InHands(req[r]) => f \in InHands(n)
        BY <2>1 DEF InHands, Uncommitted, Packet
    <2> QED BY <2>1, <2>2, <2>3, <1>s
<1>6. ASSUME NEW r \in Requests, Commit(r) PROVE (row[e] # "NONE" \/ Held(e))'
    <2>1. /\ req' = [req EXCEPT ![r] = Idle] /\ req[r].step = "load"
          /\ row'[e] = IF e \in req[r].valid THEN "VALID"
                       ELSE IF e \in req[r].refused THEN "REJECTED" ELSE row[e]
          /\ UNCHANGED <<left, marker>>
        BY <1>6 DEF Commit
    <2>2. CASE row[e] # "NONE"
        BY <2>1, <2>2
    <2>3. CASE Held(e)
        <3>1. PICK q \in Requests : e \in InHands(req[q])
            BY <2>3 DEF Held, Pending, InHands
        <3>2. CASE q = r
            BY <2>1, <3>1, <3>2 DEF InHands, Uncommitted
        <3>3. CASE q # r
            <4>1. e \in InHands(req'[q])
                BY <2>1, <1>t, <3>1, <3>3
            <4> QED BY <4>1 DEF Held, Pending, InHands, Uncommitted
        <3> QED BY <3>2, <3>3
    <2> QED BY <1>m, <2>1, <2>2, <2>3
<1>7. ASSUME NEW r \in Requests, Fail(r) PROVE (row[e] # "NONE" \/ Held(e))'
    <2>1. /\ req' = [req EXCEPT ![r] = Idle]
          /\ UNCHANGED <<row, marker>>
          /\ left' = left \cup (marker \cap InHands(req[r]))
        BY <1>7 DEF Fail, InHands
    <2>2. CASE row[e] # "NONE"
        BY <2>1, <2>2
    <2>3. CASE Held(e)
        <3>1. PICK q \in Requests : e \in InHands(req[q])
            BY <2>3 DEF Held, Pending, InHands
        <3>2. q # r
            BY <2>1, <3>1
        <3>3. e \in InHands(req'[q])
            BY <2>1, <1>t, <3>1, <3>2
        <3> QED BY <3>3 DEF Held, Pending, InHands, Uncommitted
    <2> QED BY <1>m, <2>1, <2>2, <2>3
<1>8. CASE EndSession
    <2>1. UNCHANGED <<row, marker, left>>
        BY <1>8 DEF EndSession
    <2>2. \A r \in Requests : /\ req'[r].step = req[r].step /\ req'[r].todo = req[r].todo
                              /\ req'[r].valid = req[r].valid
                              /\ req'[r].refused = req[r].refused
        BY <1>8, EndSessionFields
    <2>3. Held(e) => Held(e)'
        BY <2>2 DEF Held, Pending, InHands, Uncommitted
    <2> QED BY <1>m, <2>1, <2>3
<1>9. CASE Register \/ ReviveSession \/ NewMinute \/ \E j \in Instances : ExpireSequence(j)
    BY <1>9, <1>m DEF Register, ReviveSession, NewMinute, ExpireSequence, Held, Pending, Uncommitted
<1>10. ASSUME NEW f \in Events, ExpireMarker(f) PROVE (row[e] # "NONE" \/ Held(e))'
    <2>1. /\ marker' = marker \ {f} /\ left' = left \ {f}
          /\ UNCHANGED <<row, req>>
        BY <1>10 DEF ExpireMarker
    <2> QED BY <2>1, <1>m DEF Held, Pending, InHands, Uncommitted
<1>11. CASE Restart
    BY <1>11 DEF Restart
<1> HIDE DEF redis, history
<1> QED BY <1>0, <1>1, <1>2, <1>3, <1>4, <1>5, <1>6, <1>7, <1>8, <1>9, <1>10, <1>11
        DEF Next, Batch, Refused

\* Whatever batches overlap, fail, are resent or outlive their markers: a replay
\* marker without a row is of an event about to be stored, or was left behind by
\* a failed batch or a regressed number.
THEOREM MarkersAreAccountedFor == Spec => []MarkersAccountedFor
<1>1. Init => TypeInv /\ DoneInv /\ MarkersAccountedFor
    BY TypeInit DEF Init, Idle, DoneInv, MarkersAccountedFor
<1>2. TypeInv /\ DoneInv /\ MarkersAccountedFor /\ [Next]_vars
      => (TypeInv /\ DoneInv /\ MarkersAccountedFor)'
    BY TypeStep, DoneStep, MarkerStep
<1> QED BY <1>1, <1>2, PTL DEF Spec
===============================================================================
