------------------------ MODULE BaselineLearningProofs ------------------------
(***************************************************************************)
(* What BaselineLearning guarantees for every number of handlers, events,  *)
(* sessions and tenants and for all settings, with or without the          *)
(* asynchronous worker.                                                    *)
(***************************************************************************)
EXTENDS BaselineLearning, SequenceTheorems, FiniteSetTheorems, TLAPS

USE LearningAssumption

Steps == {"idle", "packet", "learn", "insert", "update"}

Transaction ==
    [step : Steps, header : Sessions, todo : Seq(Events), rows : SUBSET Events,
     seen : Baselines, mine : Baselines, wrote : BOOLEAN, learned : SUBSET Events,
     promoted : Nat, unusable : BOOLEAN]

LEMMA BaselineTypes == NoProfile \in Baselines /\ NewProfile \in Baselines
BY DEF NoProfile, NewProfile, Baselines

LEMMA IdleFields ==
    ASSUME NEW s \in Sessions
    PROVE  /\ Idle(s) \in Transaction
           /\ Idle(s).step = "idle" /\ Idle(s).header = s /\ Idle(s).todo = <<>>
           /\ Idle(s).rows = {} /\ Idle(s).seen = NoProfile /\ Idle(s).mine = NoProfile
           /\ Idle(s).wrote = FALSE /\ Idle(s).learned = {} /\ Idle(s).promoted = 0
           /\ Idle(s).unusable = FALSE
BY BaselineTypes DEF Idle, Transaction, Steps

LEMMA DoneFields ==
    /\ Done \in Transaction
    /\ Done.step = "idle" /\ Done.todo = <<>> /\ Done.rows = {} /\ Done.seen = NoProfile
    /\ Done.mine = NoProfile /\ Done.wrote = FALSE /\ Done.learned = {} /\ Done.promoted = 0
    /\ Done.unusable = FALSE
<1>1. (CHOOSE s \in Sessions : TRUE) \in Sessions
    OBVIOUS
<1> QED BY <1>1, IdleFields DEF Done

\* The packet at hand, from its acceptance to the end of the update.
Learning == {"learn", "insert", "update"}

AtHand == \A p \in Procs : tx[p].step \in Learning => tx[p].todo # <<>>

FiniteLearned == \A p \in Procs : IsFiniteSet(tx[p].learned)

TypeInv == TypeOK /\ AtHand /\ FiniteLearned

LEMMA TxType == TypeOK => tx \in [Procs -> Transaction]
BY DEF TypeOK, Transaction, Steps

LEMMA PacketType ==
    ASSUME TypeOK, NEW p \in Procs, tx[p].todo # <<>>
    PROVE  Packet(p) \in Events /\ SessionOf[Packet(p)] \in Sessions /\ Tail(tx[p].todo) \in Seq(Events)
<1>1. tx[p].todo \in Seq(Events)
    BY TxType DEF Transaction
<1>2. Head(tx[p].todo) \in Events /\ Tail(tx[p].todo) \in Seq(Events)
    BY <1>1, HeadTailProperties
<1> QED BY <1>2 DEF Packet

LEMMA TenantType ==
    ASSUME TypeOK, NEW p \in Procs
    PROVE  tx[p].header \in Sessions /\ Tenant(p) \in Tenants /\ profile[Tenant(p)] \in Baselines
<1>1. tx[p].header \in Sessions
    BY TxType DEF Transaction
<1>2. Tenant(p) \in Tenants
    BY <1>1 DEF Tenant
<1> QED BY <1>1, <1>2 DEF TypeOK

-----------------------------------------------------------------------------
(* What each step makes of the transaction it belongs to *)

\* Fields of the record n that are as in the transaction q.
Same(n, q) == n.header = q.header /\ n.mine = q.mine /\ n.wrote = q.wrote
              /\ n.learned = q.learned /\ n.promoted = q.promoted

LEMMA NextPacketFields ==
    ASSUME TypeOK, NEW p \in Procs, tx[p].todo # <<>>
    PROVE  LET n == NextPacket(tx[p]) IN
             /\ n \in Transaction
             /\ n.step = "packet" /\ n.todo = Tail(tx[p].todo) /\ n.seen = NoProfile
             /\ Same(n, tx[p]) /\ n.rows = tx[p].rows /\ n.unusable = tx[p].unusable
<1> DEFINE q == tx[p]
           rest == Tail(q.todo)
           none == NoProfile
           n == [q EXCEPT !.step = "packet", !.todo = rest, !.seen = none]
<1>1. q \in Transaction /\ rest \in Seq(Events) /\ none \in Baselines
    BY TxType, PacketType, BaselineTypes
<1>2. NextPacket(q) = n
    BY DEF NextPacket
<1> HIDE DEF rest, none, q
<1>3. /\ n \in Transaction
      /\ n.step = "packet" /\ n.todo = rest /\ n.seen = none
      /\ Same(n, q) /\ n.rows = q.rows /\ n.unusable = q.unusable
    BY <1>1 DEF Transaction, Steps, Same
<1> HIDE DEF n
<1> QED BY <1>2, <1>3 DEF rest, none, q

LEMMA SendFields ==
    ASSUME TypeOK, NEW h \in Handlers, Send(h)
    PROVE  \E n \in Transaction :
             /\ tx' = [tx EXCEPT ![h] = n]
             /\ n.step = "packet" /\ n.rows = {} /\ n.wrote = FALSE /\ n.learned = {}
             /\ n.promoted = 0 /\ n.unusable = FALSE
<1>1. PICK b \in Batches :
        tx' = [tx EXCEPT ![h] = [Idle(b.header) EXCEPT !.step = "packet", !.todo = b.packets]]
    BY DEF Send
<1>2. b.header \in Sessions /\ b.packets \in Seq(Events)
    OBVIOUS
<1> DEFINE q == Idle(b.header)
           todo == b.packets
           n == [q EXCEPT !.step = "packet", !.todo = todo]
<1>3. /\ q \in Transaction /\ q.rows = {} /\ q.wrote = FALSE /\ q.learned = {}
      /\ q.promoted = 0 /\ q.unusable = FALSE
    BY <1>2, IdleFields
<1>4. tx' = [tx EXCEPT ![h] = n]
    BY <1>1
<1>5. todo \in Seq(Events)
    BY <1>2
<1> HIDE DEF q, todo
<1>6. /\ n \in Transaction
      /\ n.step = "packet" /\ n.rows = {} /\ n.wrote = FALSE /\ n.learned = {}
      /\ n.promoted = 0 /\ n.unusable = FALSE
    BY <1>3, <1>5 DEF Transaction, Steps
<1> HIDE DEF n
<1> QED BY <1>4, <1>6

LEMMA AcceptFields ==
    ASSUME TypeOK, NEW h \in Handlers, Accept(h)
    PROVE  \E n \in Transaction :
             /\ tx' = [tx EXCEPT ![h] = n]
             /\ n.step = "learn" /\ n.todo = tx[h].todo /\ n.rows = tx[h].rows \cup {Packet(h)}
             /\ Same(n, tx[h]) /\ n.unusable = tx[h].unusable
<1>0. tx[h].todo # <<>> /\ h \in Procs
    BY DEF Accept, Procs
<1> DEFINE q == tx[h]
           in == q.rows \cup {Packet(h)}
           n == [q EXCEPT !.step = "learn", !.rows = in]
<1>1. q \in Transaction /\ Packet(h) \in Events
    BY <1>0, TxType, PacketType
<1>2. in \in SUBSET Events
    BY <1>1 DEF Transaction
<1>3. tx' = [tx EXCEPT ![h] = n]
    BY DEF Accept
<1> HIDE DEF q, in
<1>4. /\ n \in Transaction /\ n.step = "learn" /\ n.todo = q.todo /\ n.rows = in /\ Same(n, q)
      /\ n.unusable = q.unusable
    BY <1>1, <1>2 DEF Transaction, Steps, Same
<1> HIDE DEF n
<1> QED BY <1>3, <1>4 DEF q, in

LEMMA ReadFields ==
    ASSUME TypeInv, NEW p \in Procs, ReadProfile(p)
    PROVE  \E n \in Transaction :
             /\ tx' = [tx EXCEPT ![p] = n]
             /\ n.rows = tx[p].rows /\ Same(n, tx[p]) /\ n.unusable = tx[p].unusable
             /\ \/ n.step = "packet" /\ n.todo = Tail(tx[p].todo)
                \/ /\ n.step \in {"insert", "update"} /\ n.todo = tx[p].todo
                   /\ tx[p].header \notin Anonymous
                   /\ n.seen = IF tx[p].wrote THEN tx[p].mine ELSE profile[Tenant(p)]
                   /\ n.step = "insert" => ~n.seen.exists
                   /\ n.step = "update" => n.seen.exists
<1>0. TypeOK /\ tx[p].todo # <<>>
    BY DEF TypeInv, AtHand, ReadProfile, Learns, Learning
<1> DEFINE q == tx[p]
           seen == IF q.wrote THEN q.mine ELSE profile[Tenant(p)]
           step == IF seen.exists THEN "update" ELSE "insert"
           n == [q EXCEPT !.seen = seen, !.step = step]
<1>1. q \in Transaction
    BY <1>0, TxType
<1>2. seen \in Baselines /\ step \in {"insert", "update"}
    BY <1>0, <1>1, TenantType DEF Transaction
<1>3. \/ tx' = [tx EXCEPT ![p] = NextPacket(q)]
      \/ tx' = [tx EXCEPT ![p] = n] /\ q.header \notin Anonymous
    BY DEF ReadProfile
<1>4. /\ step = "insert" => ~seen.exists
      /\ step = "update" => seen.exists
    OBVIOUS
<1> HIDE DEF step
<1>5. n \in Transaction /\ n.step = step /\ n.todo = q.todo /\ n.rows = q.rows /\ n.seen = seen
        /\ Same(n, q) /\ n.unusable = q.unusable
    <2> HIDE DEF q, seen
    <2> QED BY <1>1, <1>2 DEF Transaction, Steps, Same
<1> HIDE DEF n
<1>6. CASE tx' = [tx EXCEPT ![p] = NextPacket(q)]
    BY <1>0, <1>6, NextPacketFields
<1>7. CASE tx' = [tx EXCEPT ![p] = n] /\ q.header \notin Anonymous
    BY <1>2, <1>4, <1>5, <1>7
<1> QED BY <1>3, <1>6, <1>7

LEMMA InsertFields ==
    ASSUME TypeInv, NEW p \in Procs, InsertProfile(p)
    PROVE  \E n \in Transaction :
             /\ tx' = [tx EXCEPT ![p] = n]
             /\ n.rows = tx[p].rows /\ n.header = tx[p].header
             /\ n.learned = tx[p].learned /\ n.promoted = tx[p].promoted
             /\ \/ /\ profile[Tenant(p)].exists
                   /\ n.step = "packet" /\ n.todo = Tail(tx[p].todo)
                   /\ Same(n, tx[p])
                \/ /\ ~profile[Tenant(p)].exists
                   /\ \A q \in Procs \ {p} : ~HoldsProfile(q, Tenant(p))
                   /\ n.step = "update" /\ n.todo = tx[p].todo
                   /\ n.seen = NewProfile /\ n.mine = NewProfile /\ n.wrote = TRUE
                   /\ n.unusable = tx[p].unusable
<1>0. TypeOK /\ tx[p].todo # <<>> /\ tx[p] \in Transaction
    BY TxType DEF TypeInv, AtHand, InsertProfile, Learning
<1> DEFINE q == tx[p]
           new == NewProfile
           m == NextPacket(q)
           k == [m EXCEPT !.unusable = TRUE]
           n == [q EXCEPT !.seen = new, !.mine = new, !.wrote = TRUE, !.step = "update"]
<1>1. \/ profile[Tenant(p)].exists /\ tx' = [tx EXCEPT ![p] = k]
      \/ /\ ~profile[Tenant(p)].exists /\ tx' = [tx EXCEPT ![p] = n]
         /\ \A r \in Procs \ {p} : ~HoldsProfile(r, Tenant(p))
    BY DEF InsertProfile
<1>2. /\ k \in Transaction /\ k.step = "packet" /\ k.todo = Tail(q.todo)
      /\ k.rows = q.rows /\ Same(k, q)
    <2>1. /\ m \in Transaction /\ m.step = "packet" /\ m.todo = Tail(q.todo)
          /\ m.rows = q.rows /\ Same(m, q)
        BY <1>0, NextPacketFields
    <2> HIDE DEF m
    <2>2. /\ k \in Transaction /\ k.step = m.step /\ k.todo = m.todo
          /\ k.rows = m.rows /\ Same(k, m)
        BY <2>1 DEF Transaction, Same
    <2> QED BY <2>1, <2>2 DEF Same
<1>3. new \in Baselines
    BY BaselineTypes
<1>4. /\ n \in Transaction /\ n.step = "update" /\ n.todo = q.todo /\ n.rows = q.rows
      /\ n.header = q.header /\ n.learned = q.learned /\ n.promoted = q.promoted
      /\ n.seen = new /\ n.mine = new /\ n.wrote = TRUE /\ n.unusable = q.unusable
    <2> HIDE DEF new, q
    <2> QED BY <1>0, <1>3 DEF Transaction, Steps, q
<1> HIDE DEF n, k
<1>5. CASE profile[Tenant(p)].exists /\ tx' = [tx EXCEPT ![p] = k]
    BY <1>2, <1>5 DEF Same
<1>6. CASE /\ ~profile[Tenant(p)].exists /\ tx' = [tx EXCEPT ![p] = n]
           /\ \A r \in Procs \ {p} : ~HoldsProfile(r, Tenant(p))
    BY <1>4, <1>6
<1> QED BY <1>1, <1>5, <1>6

\* The row as it is written over by an update.
Base(p) == IF tx[p].wrote THEN tx[p].mine ELSE profile[Tenant(p)]

Promotes(p) == Promotable(Packet(p), Rolled(tx[p].seen.candidate))

Written(p) == IF Promotes(p) THEN WithTrusted(WithCandidate(Base(p), tx[p].seen), tx[p].seen)
              ELSE WithCandidate(Base(p), tx[p].seen)

LEMMA WrittenFields ==
    ASSUME TypeInv, NEW p \in Procs
    PROVE  /\ Written(p) \in Baselines
           /\ Written(p).exists = Base(p).exists
           /\ Written(p).candidate = tx[p].seen.candidate + 1
           /\ Promotes(p) => Written(p).version = tx[p].seen.version + 1
           /\ ~Promotes(p) => /\ Written(p).version = Base(p).version
                              /\ Written(p).trusted = Base(p).trusted
<1>1. Base(p) \in Baselines /\ tx[p].seen \in Baselines
    BY TxType, TenantType DEF TypeInv, Base, Transaction
<1> DEFINE b == Base(p)
           s == tx[p].seen
           c == WithCandidate(b, s)
<1>b. b \in Baselines /\ s \in Baselines
    BY <1>1
<1> HIDE DEF b, s
<1>c. s.candidate + 1 \in Nat
    BY <1>b DEF Baselines
<1>2. /\ c \in Baselines /\ c.candidate = s.candidate + 1 /\ c.exists = b.exists
      /\ c.version = b.version /\ c.trusted = b.trusted
    BY <1>b, <1>c DEF WithCandidate, Rolled, Baselines
<1> HIDE DEF c
<1> DEFINE w == WithTrusted(c, s)
           trusted == IF s.trusted = 0 THEN Rolled(s.candidate) ELSE Rolled(s.trusted)
           previous == IF s.trusted = 0 THEN c.previous ELSE s.trusted
           version == s.version + 1
<1>3. trusted \in Nat /\ previous \in Nat /\ version \in Nat
    BY <1>b, <1>2 DEF Rolled, Baselines
<1>4. w = [c EXCEPT !.trusted = trusted, !.previous = previous, !.version = version]
    BY DEF WithTrusted
<1> HIDE DEF trusted, previous, version
<1>5. /\ w \in Baselines /\ w.candidate = c.candidate /\ w.exists = c.exists /\ w.version = version
    BY <1>2, <1>3, <1>4 DEF Baselines
<1> HIDE DEF w
<1>6. Written(p) = IF Promotes(p) THEN w ELSE c
    BY DEF Written, w, c, b, s
<1> QED BY <1>2, <1>5, <1>6 DEF b, s, version

LEMMA UpdateFields ==
    ASSUME TypeInv, NEW p \in Procs, UpdateProfile(p)
    PROVE  \E n \in Transaction :
             /\ tx' = [tx EXCEPT ![p] = n]
             /\ n.rows = tx[p].rows /\ n.header = tx[p].header
             /\ n.step = "packet" /\ n.todo = Tail(tx[p].todo) /\ n.unusable = tx[p].unusable
             /\ \/ Same(n, tx[p])
                \/ /\ \A q \in Procs \ {p} : ~HoldsProfile(q, Tenant(p))
                   /\ n.mine = Written(p) /\ n.wrote = TRUE
                   /\ n.learned = tx[p].learned \cup {Packet(p)}
                   /\ n.promoted = IF Promotes(p) THEN tx[p].promoted + 1 ELSE tx[p].promoted
<1>0. TypeOK /\ tx[p].todo # <<>> /\ tx[p] \in Transaction /\ Packet(p) \in Events
    BY TxType, PacketType DEF TypeInv, AtHand, UpdateProfile, Learning
<1> DEFINE q == tx[p]
           m == NextPacket(q)
           row == Written(p)
           new == m.learned \cup {Packet(p)}
           num == IF Promotes(p) THEN m.promoted + 1 ELSE m.promoted
           n == [m EXCEPT !.mine = row, !.wrote = TRUE, !.learned = new, !.promoted = num]
<1>1. /\ m \in Transaction /\ m.step = "packet" /\ m.todo = Tail(q.todo)
      /\ m.rows = q.rows /\ Same(m, q) /\ m.unusable = q.unusable
    BY <1>0, NextPacketFields
<1>2. \/ tx' = [tx EXCEPT ![p] = m]
      \/ tx' = [tx EXCEPT ![p] = n] /\ \A r \in Procs \ {p} : ~HoldsProfile(r, Tenant(p))
    BY DEF UpdateProfile, Written, Promotes, Base
<1>3. row \in Baselines /\ new \in SUBSET Events /\ num \in Nat
    BY <1>0, <1>1, WrittenFields DEF Transaction
<1> HIDE DEF row, new, num, m
<1>4. /\ n \in Transaction /\ n.step = m.step /\ n.todo = m.todo /\ n.rows = m.rows
      /\ n.header = m.header /\ n.mine = row /\ n.wrote = TRUE /\ n.learned = new
      /\ n.promoted = num /\ n.unusable = m.unusable
    BY <1>1, <1>3 DEF Transaction
<1> HIDE DEF n
<1>5. CASE tx' = [tx EXCEPT ![p] = m]
    BY <1>1, <1>5 DEF Same
<1>6. CASE tx' = [tx EXCEPT ![p] = n] /\ \A r \in Procs \ {p} : ~HoldsProfile(r, Tenant(p))
    BY <1>1, <1>4, <1>6 DEF Same, row, new, num
<1> QED BY <1>2, <1>5, <1>6

LEMMA PopFields ==
    ASSUME TypeOK, PopJob
    PROVE  \E n \in Transaction :
             /\ tx' = [tx EXCEPT ![Worker] = n]
             /\ n.step = "learn" /\ n.rows = {} /\ n.wrote = FALSE /\ n.learned = {}
             /\ n.promoted = 0 /\ n.unusable = FALSE /\ n.todo = <<Head(jobs[WorkerTenant])>>
<1>1. jobs[WorkerTenant] \in Seq(Events) /\ jobs[WorkerTenant] # <<>>
    BY DEF TypeOK, PopJob, QueuePop
<1> DEFINE e == Head(jobs[WorkerTenant])
           q == Idle(SessionOf[e])
           todo == <<e>>
           n == [q EXCEPT !.step = "learn", !.todo = todo]
<1>2. e \in Events
    BY <1>1, HeadTailProperties
<1>3. /\ q \in Transaction /\ q.rows = {} /\ q.wrote = FALSE /\ q.learned = {}
      /\ q.promoted = 0 /\ q.unusable = FALSE
    BY <1>2, IdleFields
<1>4. todo \in Seq(Events)
    BY <1>2
<1>5. tx' = [tx EXCEPT ![Worker] = n]
    BY DEF PopJob, QueuePop
<1> HIDE DEF q, todo
<1>6. /\ n \in Transaction
      /\ n.step = "learn" /\ n.rows = {} /\ n.wrote = FALSE /\ n.learned = {}
      /\ n.promoted = 0 /\ n.unusable = FALSE /\ n.todo = todo
    BY <1>3, <1>4 DEF Transaction, Steps
<1> HIDE DEF n
<1> QED BY <1>5, <1>6 DEF todo

-----------------------------------------------------------------------------
(* Type correctness *)

LEMMA RecordsKept ==
    ASSUME TypeInv, NEW p \in Procs, NEW n \in Transaction,
           n.step \in Learning => n.todo # <<>>, IsFiniteSet(n.learned),
           tx' = [tx EXCEPT ![p] = n]
    PROVE  tx' \in [Procs -> Transaction] /\ AtHand' /\ FiniteLearned'
<1>1. tx \in [Procs -> Transaction]
    BY TxType DEF TypeInv
<1>2. \A q \in Procs : tx'[q] = IF q = p THEN n ELSE tx[q]
    BY <1>1
<1> QED BY <1>1, <1>2 DEF TypeInv, AtHand, FiniteLearned

LEMMA JobsKept ==
    ASSUME TypeOK, NEW t \in Tenants, NEW q \in Seq(Events), Len(q) <= QueueMax,
           jobs' = [jobs EXCEPT ![t] = q]
    PROVE  jobs' \in [Tenants -> Seq(Events)] /\ \A u \in Tenants : Len(jobs'[u]) <= QueueMax
BY DEF TypeOK

LEMMA AddedTo ==
    ASSUME NEW S, NEW f \in [S -> Nat], NEW x \in S, NEW c \in Nat
    PROVE  LET g == [f EXCEPT ![x] = @ + c] IN
             g \in [S -> Nat] /\ \A u \in S : g[u] = IF u = x THEN f[u] + c ELSE f[u]
<1> DEFINE g == [f EXCEPT ![x] = @ + c]
<1>1. \A u \in S : g[u] = IF u = x THEN f[u] + c ELSE f[u]
    OBVIOUS
<1>2. \A u \in S : f[u] \in Nat /\ f[u] + c \in Nat
    OBVIOUS
<1>3. \A u \in S : g[u] \in Nat
    BY <1>1, <1>2
<1>4. g = [u \in S |-> g[u]]
    OBVIOUS
<1> HIDE DEF g
<1>5. g \in [S -> Nat]
    BY <1>3, <1>4
<1> QED BY <1>1, <1>5 DEF g

LEMMA TypeStep == TypeInv /\ [Next]_vars => TypeInv'
<1> SUFFICES ASSUME TypeInv, [Next]_vars PROVE TypeInv'
    OBVIOUS
<1> USE DEF database, history
<1>a. TypeOK
    BY DEF TypeInv
<1>b. ASSUME tx' \in [Procs -> Transaction] PROVE
        tx' \in [Procs ->
          [step : {"idle", "packet", "learn", "insert", "update"}, header : Sessions,
           todo : Seq(Events), rows : SUBSET Events, seen : Baselines, mine : Baselines,
           wrote : BOOLEAN, learned : SUBSET Events, promoted : Nat, unusable : BOOLEAN]]
    BY <1>b DEF Transaction, Steps
<1>c. tx \in [Procs -> Transaction]
    BY <1>a, TxType
<1>e. IsFiniteSet({})
    BY FS_EmptySet
<1>f. \A p \in Procs : IsFiniteSet(tx[p].learned)
    BY DEF TypeInv, FiniteLearned
<1>h. Handlers \subseteq Procs /\ Worker \in Procs
    BY DEF Procs
<1>d. ASSUME NEW p \in Procs, tx' = [tx EXCEPT ![p] = Done]
      PROVE  tx' \in [Procs -> Transaction] /\ AtHand' /\ FiniteLearned'
    <2>1. Done.step \notin Learning
        BY DoneFields DEF Learning
    <2> QED BY <1>d, <1>e, <2>1, DoneFields, RecordsKept
<1>0. CASE UNCHANGED vars
    BY <1>0 DEF TypeInv, TypeOK, AtHand, FiniteLearned, vars, Packet
<1>1. ASSUME NEW h \in Handlers, Send(h) PROVE TypeInv'
    <2>1. tx' \in [Procs -> Transaction] /\ AtHand' /\ FiniteLearned'
        <3>1. PICK n \in Transaction :
                tx' = [tx EXCEPT ![h] = n] /\ n.step = "packet" /\ n.learned = {}
            BY <1>1, <1>a, SendFields
        <3>2. h \in Procs /\ n.step \notin Learning
            BY <3>1, <1>h DEF Learning
        <3> QED BY <3>1, <3>2, <1>e, RecordsKept
    <2>2. sent' \in 0 .. MaxBatches
        <3>1. sent < MaxBatches /\ sent' = sent + 1
            BY <1>1 DEF Send
        <3>2. sent \in 0 .. MaxBatches
            BY <1>a DEF TypeOK
        <3> QED BY <3>1, <3>2
    <2> QED BY <1>1, <1>a, <1>b, <2>1, <2>2 DEF TypeInv, TypeOK, Send
<1>2. ASSUME NEW h \in Handlers, Accept(h) PROVE TypeInv'
    <2>0. h \in Procs /\ tx[h].todo # <<>>
        BY <1>2, <1>h DEF Accept
    <2>1. tx' \in [Procs -> Transaction] /\ AtHand' /\ FiniteLearned'
        BY <1>2, <1>a, <1>f, <2>0, AcceptFields, RecordsKept DEF Same
    <2>2. marker' \subseteq Events
        BY <1>2, <1>a, <2>0, PacketType DEF Accept, TypeOK
    <2> QED BY <1>2, <1>a, <1>b, <2>1, <2>2 DEF TypeInv, TypeOK, Accept
<1>n. ASSUME NEW p \in Procs, tx[p].todo # <<>>, tx' = [tx EXCEPT ![p] = NextPacket(tx[p])]
      PROVE  tx' \in [Procs -> Transaction] /\ AtHand' /\ FiniteLearned'
    <2>1. /\ NextPacket(tx[p]) \in Transaction /\ NextPacket(tx[p]).step = "packet"
          /\ NextPacket(tx[p]).learned = tx[p].learned
        BY <1>n, <1>a, NextPacketFields DEF Same
    <2> QED BY <1>n, <1>f, <2>1, RecordsKept DEF Learning
<1>3. ASSUME NEW h \in Handlers, Refuse(h) PROVE TypeInv'
    <2>1. tx' \in [Procs -> Transaction] /\ AtHand' /\ FiniteLearned'
        BY <1>3, <1>h, <1>n DEF Refuse
    <2> QED BY <1>3, <1>a, <1>b, <2>1 DEF TypeInv, TypeOK, Refuse
<1>4. ASSUME NEW h \in Handlers, Enqueue(h) PROVE TypeInv'
    <2>0. h \in Procs /\ tx[h].todo # <<>>
        BY <1>4, <1>h DEF Enqueue, TypeInv, AtHand, Learning
    <2>1. tx' \in [Procs -> Transaction] /\ AtHand' /\ FiniteLearned'
        BY <1>4, <2>0, <1>n DEF Enqueue, QueuePush, QueueDepth
    <2>2. jobs' \in [Tenants -> Seq(Events)] /\ \A u \in Tenants : Len(jobs'[u]) <= QueueMax
        <3> DEFINE t == Tenant(h)
                   q == Append(jobs[t], Packet(h))
        <3>1. Packet(h) \in Events /\ t \in Tenants /\ jobs[t] \in Seq(Events)
            BY <1>a, <2>0, PacketType, TenantType DEF TypeOK
        <3>2. CASE Len(jobs[t]) < QueueMax
            <4>1. q \in Seq(Events) /\ Len(q) <= QueueMax
                BY <3>1, <3>2, AppendProperties
            <4>2. jobs' = [jobs EXCEPT ![t] = q]
                BY <1>4, <3>2 DEF Enqueue, QueuePush, QueueDepth
            <4> HIDE DEF t, q
            <4> QED BY <1>a, <3>1, <4>1, <4>2, JobsKept
        <3>3. CASE ~(Len(jobs[t]) < QueueMax)
            BY <1>4, <1>a, <3>3 DEF Enqueue, QueuePush, QueueDepth, TypeOK
        <3> QED BY <3>2, <3>3
    <2> QED BY <1>4, <1>a, <1>b, <2>1, <2>2 DEF TypeInv, TypeOK, Enqueue, QueuePush, QueueDepth
<1>5. ASSUME NEW p \in Procs, ReadProfile(p) PROVE TypeInv'
    <2>0. tx[p].todo # <<>>
        BY <1>5 DEF TypeInv, AtHand, ReadProfile, Learns, Learning
    <2>1. tx' \in [Procs -> Transaction] /\ AtHand' /\ FiniteLearned'
        BY <1>5, <1>f, <2>0, ReadFields, RecordsKept DEF Same, Learning
    <2> QED BY <1>5, <1>a, <1>b, <2>1 DEF TypeInv, TypeOK, ReadProfile
<1>6. ASSUME NEW p \in Procs, InsertProfile(p) PROVE TypeInv'
    <2>0. tx[p].todo # <<>>
        BY <1>6 DEF TypeInv, AtHand, InsertProfile, Learning
    <2>1. tx' \in [Procs -> Transaction] /\ AtHand' /\ FiniteLearned'
        BY <1>6, <1>f, <2>0, InsertFields, RecordsKept DEF Learning
    <2> QED BY <1>6, <1>a, <1>b, <2>1 DEF TypeInv, TypeOK, InsertProfile
<1>7. ASSUME NEW p \in Procs, UpdateProfile(p) PROVE TypeInv'
    <2>1. IsFiniteSet(tx[p].learned \cup {Packet(p)})
        BY <1>f, FS_AddElement
    <2>2. tx' \in [Procs -> Transaction] /\ AtHand' /\ FiniteLearned'
        <3>1. PICK n \in Transaction :
                 /\ tx' = [tx EXCEPT ![p] = n]
                 /\ n.step = "packet"
                 /\ n.learned = tx[p].learned \/ n.learned = tx[p].learned \cup {Packet(p)}
            BY <1>7, UpdateFields DEF Same
        <3>2. IsFiniteSet(n.learned) /\ n.step \notin Learning
            BY <3>1, <1>f, <2>1 DEF Learning
        <3> QED BY <3>1, <3>2, RecordsKept
    <2> QED BY <1>7, <1>a, <1>b, <2>2 DEF TypeInv, TypeOK, UpdateProfile
<1>8. ASSUME NEW p \in Procs, Commit(p) PROVE TypeInv'
    <2> DEFINE t == Tenant(p)
    <2>0. tx[p] \in Transaction /\ t \in Tenants /\ tx[p].learned \in SUBSET Events
        BY <1>a, <1>c, TenantType DEF Transaction
    <2>1. tx' \in [Procs -> Transaction] /\ AtHand' /\ FiniteLearned'
        BY <1>8, <1>d DEF Commit
    <2>2. profile' \in [Tenants -> Baselines] /\ stored' \subseteq Events
        BY <1>8, <1>a, <2>0 DEF Commit, TypeOK, Transaction
    <2>3. learnt' \in [Events -> Nat]
        BY <1>8, <1>a DEF Commit, Recorded, TypeOK
    <2>4. Cardinality(tx[p].learned) \in Nat /\ tx[p].promoted \in Nat
        BY <1>f, <2>0, FS_CardinalityType DEF Transaction
    <2>c. /\ absorbed' = [absorbed EXCEPT ![t] = @ + Cardinality(tx[p].learned)]
          /\ promotions' = [promotions EXCEPT ![t] = @ + tx[p].promoted]
        BY <1>8 DEF Commit, Recorded
    <2>k. absorbed \in [Tenants -> Nat] /\ promotions \in [Tenants -> Nat]
        BY <1>a DEF TypeOK
    <2>5. absorbed' \in [Tenants -> Nat]
        <3> DEFINE c == Cardinality(tx[p].learned)
        <3>1. c \in Nat /\ absorbed' = [absorbed EXCEPT ![t] = @ + c]
            BY <2>4, <2>c
        <3> HIDE DEF c, t
        <3> QED BY <2>0, <3>1, <2>k, AddedTo
    <2>6. promotions' \in [Tenants -> Nat]
        <3> DEFINE c == tx[p].promoted
        <3>1. c \in Nat /\ promotions' = [promotions EXCEPT ![t] = @ + c]
            BY <2>4, <2>c
        <3> HIDE DEF c, t
        <3> QED BY <2>0, <3>1, <2>k, AddedTo
    <2> QED BY <1>8, <1>a, <1>b, <2>1, <2>2, <2>3, <2>5, <2>6 DEF TypeInv, TypeOK, Commit
<1>9. ASSUME NEW p \in Procs, Fail(p) PROVE TypeInv'
    <2>1. tx' \in [Procs -> Transaction] /\ AtHand' /\ FiniteLearned'
        BY <1>9, <1>d DEF Fail
    <2>2. undone' \subseteq Events
        BY <1>9, <1>a, <1>c DEF Fail, TypeOK, Transaction
    <2> QED BY <1>9, <1>a, <1>b, <2>1, <2>2 DEF TypeInv, TypeOK, Fail
<1>10. CASE PopJob
    <2>1. tx' \in [Procs -> Transaction] /\ AtHand' /\ FiniteLearned'
        <3>1. PICK n \in Transaction :
                 /\ tx' = [tx EXCEPT ![Worker] = n]
                 /\ n.learned = {} /\ n.todo = <<Head(jobs[WorkerTenant])>>
            BY <1>10, <1>a, PopFields
        <3>2. n.todo # <<>>
            BY <3>1
        <3> QED BY <3>1, <3>2, <1>e, <1>h, RecordsKept
    <2>2. jobs' \in [Tenants -> Seq(Events)] /\ \A u \in Tenants : Len(jobs'[u]) <= QueueMax
        <3> DEFINE q == jobs[WorkerTenant]
        <3>1. q \in Seq(Events) /\ q # <<>> /\ Len(q) <= QueueMax
            BY <1>10, <1>a DEF PopJob, QueuePop, TypeOK
        <3>2. Tail(q) \in Seq(Events) /\ Len(Tail(q)) <= QueueMax
            BY <3>1, HeadTailProperties, LenProperties
        <3>3. jobs' = [jobs EXCEPT ![WorkerTenant] = Tail(q)]
            BY <1>10 DEF PopJob, QueuePop
        <3> HIDE DEF q
        <3> QED BY <1>a, <3>2, <3>3, JobsKept
    <2> QED BY <1>10, <1>a, <1>b, <2>1, <2>2 DEF TypeInv, TypeOK, PopJob, QueuePop
<1>11. ASSUME NEW t \in Tenants, ExpireQueue(t) PROVE TypeInv'
    <2>1. <<>> \in Seq(Events) /\ Len(<<>>) <= QueueMax
        BY EmptySeq
    <2>2. jobs' \in [Tenants -> Seq(Events)] /\ \A u \in Tenants : Len(jobs'[u]) <= QueueMax
        BY <1>11, <1>a, <2>1, JobsKept DEF ExpireQueue
    <2> QED BY <1>11, <1>a, <2>2 DEF TypeInv, TypeOK, AtHand, FiniteLearned, ExpireQueue, Packet
<1>12. CASE Restart
    <2>1. tx' \in [Procs -> Transaction] /\ AtHand' /\ FiniteLearned'
        BY <1>12, <1>e, DoneFields DEF Restart, AtHand, FiniteLearned, Learning
    <2>2. undone' \subseteq Events
        BY <1>12, <1>a, <1>c DEF Restart, TypeOK, Transaction
    <2>3. jobs' \in [Tenants -> Seq(Events)] /\ \A u \in Tenants : Len(jobs'[u]) <= QueueMax
        BY <1>12, EmptySeq DEF Restart
    <2> QED BY <1>12, <1>a, <1>b, <2>1, <2>2, <2>3 DEF TypeInv, TypeOK, Restart
<1> HIDE DEF database, history
<1> QED BY <1>0, <1>1, <1>2, <1>3, <1>4, <1>5, <1>6, <1>7, <1>8, <1>9, <1>10, <1>11, <1>12
        DEF Next, Handle, Learn

LEMMA TypeInit == Init => TypeInv
<1> SUFFICES ASSUME Init PROVE TypeInv
    OBVIOUS
<1>1. tx \in [Procs -> Transaction] /\ AtHand /\ FiniteLearned
    BY DoneFields, FS_EmptySet DEF Init, AtHand, FiniteLearned, Learning
<1>2. jobs \in [Tenants -> Seq(Events)] /\ \A t \in Tenants : Len(jobs[t]) <= QueueMax
    BY EmptySeq DEF Init
<1>3. profile \in [Tenants -> Baselines]
    BY BaselineTypes DEF Init
<1>4. sent \in 0 .. MaxBatches
    BY DEF Init
<1> QED BY <1>1, <1>2, <1>3, <1>4 DEF Init, TypeInv, TypeOK, Transaction, Steps

\* Every state is well typed: no queue of jobs outgrows its limit.
THEOREM TypeCorrect == Spec => []TypeOK
<1>1. Spec => []TypeInv
    BY TypeInit, TypeStep, PTL DEF Spec
<1>2. TypeInv => TypeOK
    BY DEF TypeInv
<1> QED BY <1>1, <1>2, PTL

-----------------------------------------------------------------------------
(* Rows and locks *)

\* The transaction q of a batch: its events are of its session, marked in Redis
\* (m) and not yet stored (d). What it learns is among them, the packet at hand
\* as well. In the asynchronous mode (a) it learns nothing itself.
TidyBatch(q, a, m, d) ==
    /\ \A e \in q.rows : SessionOf[e] = q.header /\ e \in m /\ e \notin d
    /\ q.step \in Learning => Head(q.todo) \in q.rows /\ Head(q.todo) \notin q.learned
    /\ q.learned \subseteq q.rows
    /\ q.wrote => q.rows # {}
    /\ a => ~q.wrote /\ q.learned = {} /\ q.step \notin {"insert", "update"}
    /\ q.step = "idle" => q.rows = {}

\* The transaction q of the worker, which has one event and no row of the log.
TidyJob(q, a) ==
    /\ q.rows = {}
    /\ ~a => q.step = "idle"
    /\ q.step = "idle" => ~q.wrote /\ q.learned = {}
    /\ q.step \in Learning => q.learned = {} /\ Tail(q.todo) = <<>>
    /\ q.step = "packet" => q.todo = <<>>

\* Two batches with accepted events are of two sessions.
Apart ==
    \A g, h \in Handlers : g # h =>
        tx[g].rows = {} \/ tx[h].rows = {} \/ tx[g].header # tx[h].header

LockInv ==
    /\ \A h \in Handlers : TidyBatch(tx[h], async, marker, stored)
    /\ TidyJob(tx[Worker], async)
    /\ Apart

\* Learning(p) is entered from a packet and left with the next one.
LEMMA LearningSteps ==
    /\ "learn" \in Learning /\ "insert" \in Learning /\ "update" \in Learning
    /\ "packet" \notin Learning /\ "idle" \notin Learning
BY DEF Learning

LEMMA DoneIsTidy ==
    ASSUME NEW a, NEW m, NEW d
    PROVE  TidyBatch(Done, a, m, d) /\ TidyJob(Done, a)
BY DoneFields, LearningSteps DEF TidyBatch, TidyJob

\* A step of one transaction that takes no new row.
LEMMA LocksKept ==
    ASSUME TypeInv, LockInv, NEW p \in Procs, NEW n, tx' = [tx EXCEPT ![p] = n],
           UNCHANGED <<async, stored>>, marker \subseteq marker',
           n.rows \subseteq tx[p].rows, n.rows = {} \/ n.header = tx[p].header,
           p \in Handlers => TidyBatch(n, async, marker, stored),
           p = Worker => TidyJob(n, async)
    PROVE  LockInv'
<1>1. tx \in [Procs -> Transaction]
    BY TxType DEF TypeInv
<1>2. Handlers \subseteq Procs /\ Worker \in Procs
    BY DEF Procs
<1>3. \A q \in Procs : tx'[q] = IF q = p THEN n ELSE tx[q]
    BY <1>1
<1>4. ASSUME NEW h \in Handlers PROVE TidyBatch(tx'[h], async', marker', stored')
    <2>1. TidyBatch(tx'[h], async, marker, stored)
        BY <1>2, <1>3 DEF LockInv
    <2> QED BY <2>1 DEF TidyBatch
<1>5. TidyJob(tx'[Worker], async')
    BY <1>2, <1>3 DEF LockInv
<1>6. Apart'
    <2> SUFFICES ASSUME NEW g \in Handlers, NEW h \in Handlers, g # h
                 PROVE tx'[g].rows = {} \/ tx'[h].rows = {} \/ tx'[g].header # tx'[h].header
        BY DEF Apart
    <2>1. tx[g].rows = {} \/ tx[h].rows = {} \/ tx[g].header # tx[h].header
        BY DEF LockInv, Apart
    <2> QED BY <2>1, <1>2, <1>3
<1> QED BY <1>4, <1>5, <1>6 DEF LockInv

\* The end of the transaction of a worker or a handler.
LEMMA TidyNext ==
    ASSUME TypeInv, LockInv, NEW p \in Procs, NEW n, tx[p].todo # <<>>,
           n.step = "packet", n.todo = Tail(tx[p].todo), n.rows = tx[p].rows,
           Same(n, tx[p]), tx[p].step \in Learning \/ p \in Handlers
    PROVE  /\ n.header = tx[p].header
           /\ p \in Handlers => TidyBatch(n, async, marker, stored)
           /\ p = Worker => TidyJob(n, async)
<1>1. Worker \notin Handlers
    OBVIOUS
<1> QED BY <1>1, LearningSteps DEF LockInv, TidyBatch, TidyJob, Same

LEMMA LockStep == TypeInv /\ LockInv /\ [Next]_vars => LockInv'
<1> SUFFICES ASSUME TypeInv, LockInv, [Next]_vars PROVE LockInv'
    OBVIOUS
<1> USE DEF database, history
<1>a. TypeOK
    BY DEF TypeInv
<1>c. tx \in [Procs -> Transaction]
    BY <1>a, TxType
<1>h. Handlers \subseteq Procs /\ Worker \in Procs /\ Worker \notin Handlers
    BY DEF Procs
<1>w. \A p \in Procs : p \notin Handlers => p = Worker
    BY DEF Procs
<1>0. CASE UNCHANGED vars
    <2>1. UNCHANGED <<tx, async, marker, stored>>
        BY <1>0 DEF vars
    <2> QED BY <2>1 DEF LockInv, Apart
<1>1. ASSUME NEW h \in Handlers, Send(h) PROVE LockInv'
    <2>1. PICK n \in Transaction :
             /\ tx' = [tx EXCEPT ![h] = n]
             /\ n.step = "packet" /\ n.rows = {} /\ n.wrote = FALSE /\ n.learned = {}
        BY <1>1, <1>a, SendFields
    <2>2. TidyBatch(n, async, marker, stored)
        BY <2>1, LearningSteps DEF TidyBatch
    <2>3. UNCHANGED <<async, marker, stored>>
        BY <1>1 DEF Send
    <2> QED BY <2>1, <2>2, <2>3, <1>h, LocksKept
<1>2. ASSUME NEW h \in Handlers, Accept(h) PROVE LockInv'
    <2> DEFINE e == Packet(h)
    <2>1. PICK n \in Transaction :
             /\ tx' = [tx EXCEPT ![h] = n]
             /\ n.step = "learn" /\ n.todo = tx[h].todo /\ n.rows = tx[h].rows \cup {e}
             /\ Same(n, tx[h])
        BY <1>2, <1>a, AcceptFields
    <2>2. /\ SessionOf[e] = tx[h].header /\ e \notin marker \cup stored
          /\ marker' = marker \cup {e} /\ UNCHANGED <<async, stored>>
          /\ tx[h].step = "packet" /\ e = Head(tx[h].todo)
          /\ \A g \in Handlers \ {h} : ~\E f \in tx[g].rows : SessionOf[f] = SessionOf[e]
        BY <1>2 DEF Accept, Addressed, HoldsSession, Packet
    <2> HIDE DEF e
    <2>3. \A q \in Procs : tx'[q] = IF q = h THEN n ELSE tx[q]
        BY <2>1, <1>c
    <2>4. TidyBatch(n, async', marker', stored')
        <3>1. TidyBatch(tx[h], async, marker, stored)
            BY DEF LockInv
        <3>2. n.header = tx[h].header /\ n.wrote = tx[h].wrote /\ n.learned = tx[h].learned
            BY <2>1 DEF Same
        <3> QED BY <2>1, <2>2, <3>1, <3>2 DEF TidyBatch
    <2>5. ASSUME NEW g \in Handlers PROVE TidyBatch(tx'[g], async', marker', stored')
        <3>1. CASE g = h
            BY <2>3, <2>4, <3>1, <1>h
        <3>2. CASE g # h
            <4>1. tx'[g] = tx[g] /\ TidyBatch(tx[g], async, marker, stored)
                BY <2>3, <3>2, <1>h DEF LockInv
            <4> QED BY <4>1, <2>2 DEF TidyBatch
        <3> QED BY <3>1, <3>2
    <2>6. TidyJob(tx'[Worker], async')
        BY <2>2, <2>3, <1>h DEF LockInv
    <2>7. \A g \in Handlers \ {h} : tx[g].rows = {} \/ tx[g].header # n.header
        <3> SUFFICES ASSUME NEW g \in Handlers \ {h}, NEW f \in tx[g].rows
                     PROVE  tx[g].header # n.header
            OBVIOUS
        <3>1. SessionOf[f] = tx[g].header
            BY DEF LockInv, TidyBatch
        <3> QED BY <2>1, <2>2, <3>1 DEF Same
    <2>8. Apart'
        <3> SUFFICES ASSUME NEW f \in Handlers, NEW g \in Handlers, f # g
                     PROVE tx'[f].rows = {} \/ tx'[g].rows = {} \/ tx'[f].header # tx'[g].header
            BY DEF Apart
        <3>1. tx[f].rows = {} \/ tx[g].rows = {} \/ tx[f].header # tx[g].header
            BY DEF LockInv, Apart
        <3> QED BY <2>3, <2>7, <3>1, <1>h
    <2> QED BY <2>5, <2>6, <2>8 DEF LockInv
<1>3. ASSUME NEW h \in Handlers, Refuse(h) \/ Enqueue(h) PROVE LockInv'
    <2>0. /\ tx[h].todo # <<>> /\ tx' = [tx EXCEPT ![h] = NextPacket(tx[h])]
          /\ UNCHANGED <<async, marker, stored>>
        BY <1>3 DEF Refuse, Enqueue, TypeInv, AtHand, Learning, Procs
    <2>1. /\ NextPacket(tx[h]).step = "packet" /\ NextPacket(tx[h]).todo = Tail(tx[h].todo)
          /\ NextPacket(tx[h]).rows = tx[h].rows /\ Same(NextPacket(tx[h]), tx[h])
        BY <1>a, <1>h, <2>0, NextPacketFields
    <2> QED BY <2>0, <2>1, <1>h, TidyNext, LocksKept
<1>4. ASSUME NEW p \in Procs, ReadProfile(p) PROVE LockInv'
    <2>0. /\ tx[p].step = "learn" /\ tx[p].todo # <<>> /\ UNCHANGED <<async, marker, stored>>
          /\ p = Worker \/ ~async
        BY <1>4 DEF ReadProfile, Learns, TypeInv, AtHand, Learning
    <2>1. PICK n \in Transaction :
             /\ tx' = [tx EXCEPT ![p] = n]
             /\ n.rows = tx[p].rows /\ Same(n, tx[p])
             /\ \/ n.step = "packet" /\ n.todo = Tail(tx[p].todo)
                \/ n.step \in {"insert", "update"} /\ n.todo = tx[p].todo
        BY <1>4, ReadFields
    <2>2. CASE n.step = "packet" /\ n.todo = Tail(tx[p].todo)
        BY <2>0, <2>1, <2>2, LearningSteps, TidyNext, LocksKept
    <2>3. CASE n.step \in {"insert", "update"} /\ n.todo = tx[p].todo
        <3>1. /\ p \in Handlers => TidyBatch(n, async, marker, stored)
              /\ p = Worker => TidyJob(n, async)
            BY <2>0, <2>1, <2>3, <1>h, LearningSteps DEF LockInv, TidyBatch, TidyJob, Same
        <3> QED BY <2>0, <2>1, <3>1, LocksKept DEF Same
    <2> QED BY <2>1, <2>2, <2>3
<1>5. ASSUME NEW p \in Procs, InsertProfile(p) PROVE LockInv'
    <2>0. /\ tx[p].step = "insert" /\ tx[p].todo # <<>> /\ UNCHANGED <<async, marker, stored>>
        BY <1>5 DEF InsertProfile, TypeInv, AtHand, Learning
    <2>1. PICK n \in Transaction :
             /\ tx' = [tx EXCEPT ![p] = n]
             /\ n.rows = tx[p].rows /\ n.header = tx[p].header /\ n.learned = tx[p].learned
             /\ \/ n.step = "packet" /\ n.todo = Tail(tx[p].todo) /\ Same(n, tx[p])
                \/ n.step = "update" /\ n.todo = tx[p].todo
        BY <1>5, InsertFields
    <2>2. CASE n.step = "packet" /\ n.todo = Tail(tx[p].todo) /\ Same(n, tx[p])
        BY <2>0, <2>1, <2>2, LearningSteps, TidyNext, LocksKept
    <2>3. CASE n.step = "update" /\ n.todo = tx[p].todo
        <3>1. /\ p \in Handlers => TidyBatch(n, async, marker, stored)
              /\ p = Worker => TidyJob(n, async)
            BY <2>0, <2>1, <2>3, <1>h, LearningSteps DEF LockInv, TidyBatch, TidyJob
        <3> QED BY <2>0, <2>1, <3>1, LocksKept
    <2> QED BY <2>1, <2>2, <2>3
<1>6. ASSUME NEW p \in Procs, UpdateProfile(p) PROVE LockInv'
    <2>0. /\ tx[p].step = "update" /\ tx[p].todo # <<>> /\ UNCHANGED <<async, marker, stored>>
        BY <1>6 DEF UpdateProfile, TypeInv, AtHand, Learning
    <2>1. PICK n \in Transaction :
             /\ tx' = [tx EXCEPT ![p] = n]
             /\ n.rows = tx[p].rows /\ n.header = tx[p].header
             /\ n.step = "packet" /\ n.todo = Tail(tx[p].todo)
             /\ \/ Same(n, tx[p])
                \/ n.learned = tx[p].learned \cup {Packet(p)}
        BY <1>6, UpdateFields
    <2>2. CASE Same(n, tx[p])
        BY <2>0, <2>1, <2>2, LearningSteps, TidyNext, LocksKept
    <2>3. CASE n.learned = tx[p].learned \cup {Packet(p)}
        <3>1. /\ p \in Handlers => TidyBatch(n, async, marker, stored)
              /\ p = Worker => TidyJob(n, async)
            BY <2>0, <2>1, <2>3, <1>h, LearningSteps DEF LockInv, TidyBatch, TidyJob, Packet
        <3> QED BY <2>0, <2>1, <3>1, LocksKept
    <2> QED BY <2>1, <2>2, <2>3
<1>7. ASSUME NEW p \in Procs, Commit(p) PROVE LockInv'
    <2>1. /\ tx' = [tx EXCEPT ![p] = Done] /\ UNCHANGED <<async, marker>>
          /\ stored' = stored \cup tx[p].rows
        BY <1>7 DEF Commit
    <2>2. \A q \in Procs : tx'[q] = IF q = p THEN Done ELSE tx[q]
        BY <2>1, <1>c
    <2>3. ASSUME NEW g \in Handlers PROVE TidyBatch(tx'[g], async', marker', stored')
        <3>1. CASE g = p
            BY <2>2, <3>1, DoneIsTidy
        <3>2. CASE g # p
            <4>1. tx'[g] = tx[g] /\ TidyBatch(tx[g], async, marker, stored)
                BY <2>2, <3>2, <1>h DEF LockInv
            <4>2. tx[g].rows \cap tx[p].rows = {}
                <5>1. CASE p = Worker
                    BY <5>1 DEF LockInv, TidyJob
                <5>2. CASE p \in Handlers
                    BY <3>2, <5>2 DEF LockInv, TidyBatch, Apart
                <5> QED BY <5>1, <5>2, <1>w
            <4> QED BY <2>1, <4>1, <4>2 DEF TidyBatch
        <3> QED BY <3>1, <3>2
    <2>4. TidyJob(tx'[Worker], async')
        BY <2>1, <2>2, <1>h, DoneIsTidy DEF LockInv
    <2>5. Apart'
        <3> SUFFICES ASSUME NEW f \in Handlers, NEW g \in Handlers, f # g
                     PROVE tx'[f].rows = {} \/ tx'[g].rows = {} \/ tx'[f].header # tx'[g].header
            BY DEF Apart
        <3>1. tx[f].rows = {} \/ tx[g].rows = {} \/ tx[f].header # tx[g].header
            BY DEF LockInv, Apart
        <3> QED BY <2>2, <3>1, <1>h, DoneFields
    <2> QED BY <2>3, <2>4, <2>5 DEF LockInv
<1>8. ASSUME NEW p \in Procs, Fail(p) PROVE LockInv'
    <2>1. tx' = [tx EXCEPT ![p] = Done] /\ UNCHANGED <<async, marker, stored>>
        BY <1>8 DEF Fail
    <2> QED BY <2>1, DoneFields, DoneIsTidy, LocksKept
<1>9. CASE PopJob
    <2>1. PICK n \in Transaction :
             /\ tx' = [tx EXCEPT ![Worker] = n]
             /\ n.step = "learn" /\ n.rows = {} /\ n.wrote = FALSE /\ n.learned = {}
             /\ n.todo = <<Head(jobs[WorkerTenant])>>
        BY <1>9, <1>a, PopFields
    <2>2. Tail(n.todo) = <<>>
        BY <2>1
    <2>3. async /\ UNCHANGED <<async, marker, stored>>
        BY <1>9 DEF PopJob
    <2>4. TidyJob(n, async)
        BY <2>1, <2>2, <2>3 DEF TidyJob
    <2> QED BY <2>1, <2>3, <2>4, <1>h, LocksKept
<1>10. ASSUME NEW t \in Tenants, ExpireQueue(t) PROVE LockInv'
    <2>1. UNCHANGED <<tx, async, marker, stored>>
        BY <1>10 DEF ExpireQueue
    <2> QED BY <2>1 DEF LockInv, Apart
<1>11. CASE Restart
    <2>1. \A q \in Procs : tx'[q] = Done
        BY <1>11 DEF Restart
    <2> QED BY <2>1, <1>h, DoneFields, DoneIsTidy DEF LockInv, Apart
<1> HIDE DEF database, history
<1> QED BY <1>0, <1>1, <1>2, <1>3, <1>4, <1>5, <1>6, <1>7, <1>8, <1>9, <1>10, <1>11
        DEF Next, Handle, Learn

LEMMA LockInit == Init => LockInv
<1> SUFFICES ASSUME Init PROVE LockInv
    OBVIOUS
<1>1. \A p \in Procs : tx[p] = Done
    BY DEF Init
<1>2. Handlers \subseteq Procs /\ Worker \in Procs
    BY DEF Procs
<1> QED BY <1>1, <1>2, DoneFields, DoneIsTidy DEF LockInv, Apart

\* Transactions never wait in a cycle of any length, for any number of handlers
\* and in both modes: no chain of waits has more than two links.
THEOREM NoDeadlock == Spec => []NoLockCycle
<1>1. TypeInv /\ LockInv => NoLockCycle
    <2> SUFFICES ASSUME TypeInv, LockInv, NEW p \in Procs, NEW q \in Procs, NEW r \in Procs,
                        NEW s \in Procs, Waits(p, q), Waits(q, r), Waits(r, s)
                 PROVE  FALSE
        BY DEF NoLockCycle
    \* Who waits for a session holds no row, so no profile; its holder has one.
    <2>1. ASSUME NEW x \in Procs, NEW y \in Procs, WaitsForSession(x, y)
          PROVE  /\ x \in Handlers /\ y \in Handlers
                 /\ tx[x].rows = {} /\ tx[x].header = tx[y].header /\ tx[y].rows # {}
        <3>1. x \in Handlers /\ y \in Handlers
            BY <2>1 DEF WaitsForSession
        <3>2. SessionOf[Packet(x)] = tx[x].header
            BY <2>1 DEF WaitsForSession, Addressed
        <3>3. tx[x].rows = {}
            BY <2>1, <3>1, <3>2 DEF WaitsForSession, HoldsSession, LockInv, TidyBatch
        <3>4. \E e \in tx[y].rows : SessionOf[e] = tx[x].header /\ SessionOf[e] = tx[y].header
            BY <2>1, <3>1, <3>2 DEF WaitsForSession, HoldsSession, LockInv, TidyBatch
        <3> QED BY <3>1, <3>3, <3>4
    <2>2. ASSUME NEW x \in Procs, NEW y \in Procs, WaitsForProfile(x, y)
          PROVE  ~tx[x].wrote /\ tx[y].wrote /\ (y \in Handlers => tx[y].rows # {})
        BY <2>2 DEF WaitsForProfile, HoldsProfile, LockInv, TidyBatch
    \* So whoever is waited for waits for a profile only, and its holder for nothing.
    <2>3. ASSUME NEW x \in Procs, NEW y \in Procs, NEW z \in Procs, Waits(x, y), Waits(y, z)
          PROVE  WaitsForProfile(y, z)
        BY <2>1, <2>2, <2>3 DEF Waits
    <2> QED BY <2>2, <2>3
<1> QED BY <1>1, TypeInit, LockInit, TypeStep, LockStep, PTL DEF Spec

-----------------------------------------------------------------------------
(* The trusted baseline *)

\* What is in the row r came from no more than k committed observations.
Backed(r, k) ==
    /\ r.candidate <= k
    /\ r.trusted > 0 => k >= MinObservations /\ SessionConfidence >= PromoteMin

\* The observations of a tenant's profile (f) with those the transaction q adds.
Known(q, f) == f[TenantOf[q.header]] + Cardinality(q.learned)

BackedTx(q, f) ==
    /\ q.wrote => Backed(q.mine, Known(q, f))
    /\ q.step = "update" => Backed(q.seen, Known(q, f))

BackedInv ==
    /\ \A t \in Tenants : Backed(profile[t], absorbed[t])
    /\ \A p \in Procs : BackedTx(tx[p], absorbed)

LEMMA BackedByMore ==
    ASSUME NEW r \in Baselines, NEW k \in Nat, NEW j \in Nat, k <= j, Backed(r, k)
    PROVE  Backed(r, j)
BY DEF Backed, Baselines

LEMMA KnownType ==
    ASSUME TypeInv, NEW p \in Procs
    PROVE  /\ absorbed \in [Tenants -> Nat]
           /\ Cardinality(tx[p].learned) \in Nat
           /\ Known(tx[p], absorbed) \in Nat
           /\ Known(tx[p], absorbed) = absorbed[Tenant(p)] + Cardinality(tx[p].learned)
           /\ Tenant(p) \in Tenants
<1>1. Cardinality(tx[p].learned) \in Nat
    BY FS_CardinalityType DEF TypeInv, FiniteLearned
<1>2. Tenant(p) \in Tenants /\ absorbed \in [Tenants -> Nat]
    BY TenantType DEF TypeInv, TypeOK
<1>3. Known(tx[p], absorbed) = absorbed[Tenant(p)] + Cardinality(tx[p].learned)
    BY DEF Known, Tenant
<1> QED BY <1>1, <1>2, <1>3

LEMMA BackedKept ==
    ASSUME TypeInv, BackedInv, NEW p \in Procs, NEW n, tx' = [tx EXCEPT ![p] = n],
           UNCHANGED <<profile, absorbed>>, BackedTx(n, absorbed)
    PROVE  BackedInv'
<1>1. \A q \in Procs : tx'[q] = IF q = p THEN n ELSE tx[q]
    BY TxType DEF TypeInv
<1> QED BY <1>1 DEF BackedInv

LEMMA BackedStep == TypeInv /\ LockInv /\ BackedInv /\ [Next]_vars => BackedInv'
<1> SUFFICES ASSUME TypeInv, LockInv, BackedInv, [Next]_vars PROVE BackedInv'
    OBVIOUS
<1> USE DEF database, history
<1>a. TypeOK
    BY DEF TypeInv
<1>c. tx \in [Procs -> Transaction]
    BY <1>a, TxType
<1>h. Handlers \subseteq Procs /\ Worker \in Procs /\ Worker \notin Handlers
    BY DEF Procs
<1>d. \A f : BackedTx(Done, f)
    BY DoneFields DEF BackedTx
\* A step to the next packet, or of a transaction that writes nothing.
<1>n. ASSUME NEW p \in Procs, NEW n, tx' = [tx EXCEPT ![p] = n], UNCHANGED <<profile, absorbed>>,
             n.step # "update", Same(n, tx[p])
      PROVE  BackedInv'
    <2>1. BackedTx(n, absorbed)
        BY <1>n DEF BackedInv, BackedTx, Same, Known
    <2> QED BY <1>n, <2>1, BackedKept
<1>0. CASE UNCHANGED vars
    <2>1. UNCHANGED <<tx, profile, absorbed>>
        BY <1>0 DEF vars
    <2> QED BY <2>1 DEF BackedInv
<1>1. ASSUME NEW h \in Handlers, Send(h) PROVE BackedInv'
    <2>1. PICK n \in Transaction :
             tx' = [tx EXCEPT ![h] = n] /\ n.step = "packet" /\ n.wrote = FALSE
        BY <1>1, <1>a, SendFields
    <2>2. BackedTx(n, absorbed)
        BY <2>1 DEF BackedTx
    <2>3. UNCHANGED <<profile, absorbed>>
        BY <1>1 DEF Send
    <2> QED BY <2>1, <2>2, <2>3, <1>h, BackedKept
<1>2. ASSUME NEW h \in Handlers, Accept(h) PROVE BackedInv'
    <2>1. PICK n \in Transaction :
             tx' = [tx EXCEPT ![h] = n] /\ n.step = "learn" /\ Same(n, tx[h])
        BY <1>2, <1>a, AcceptFields
    <2>2. UNCHANGED <<profile, absorbed>>
        BY <1>2 DEF Accept
    <2> QED BY <2>1, <2>2, <1>h, <1>n
<1>3. ASSUME NEW h \in Handlers, Refuse(h) \/ Enqueue(h) PROVE BackedInv'
    <2>0. /\ tx[h].todo # <<>> /\ tx' = [tx EXCEPT ![h] = NextPacket(tx[h])]
          /\ UNCHANGED <<profile, absorbed>>
        BY <1>3 DEF Refuse, Enqueue, TypeInv, AtHand, Learning, Procs
    <2>1. NextPacket(tx[h]).step = "packet" /\ Same(NextPacket(tx[h]), tx[h])
        BY <1>a, <1>h, <2>0, NextPacketFields
    <2> QED BY <2>0, <2>1, <1>h, <1>n
<1>4. ASSUME NEW p \in Procs, ReadProfile(p) PROVE BackedInv'
    <2>0. UNCHANGED <<profile, absorbed>>
        BY <1>4 DEF ReadProfile
    <2>1. PICK n \in Transaction :
             /\ tx' = [tx EXCEPT ![p] = n] /\ Same(n, tx[p])
             /\ \/ n.step = "packet"
                \/ n.seen = IF tx[p].wrote THEN tx[p].mine ELSE profile[Tenant(p)]
        BY <1>4, ReadFields
    <2>2. CASE n.step = "packet"
        BY <2>0, <2>1, <2>2, <1>n
    <2>3. CASE n.seen = IF tx[p].wrote THEN tx[p].mine ELSE profile[Tenant(p)]
        <3>1. Known(n, absorbed) = Known(tx[p], absorbed)
            BY <2>1 DEF Same, Known
        <3>2. tx[p].wrote => Backed(tx[p].mine, Known(tx[p], absorbed))
            BY DEF BackedInv, BackedTx
        <3>3. Backed(profile[Tenant(p)], Known(tx[p], absorbed))
            <4>1. /\ absorbed[Tenant(p)] \in Nat /\ Known(tx[p], absorbed) \in Nat
                  /\ absorbed[Tenant(p)] <= Known(tx[p], absorbed)
                BY KnownType
            <4>2. profile[Tenant(p)] \in Baselines /\ Backed(profile[Tenant(p)], absorbed[Tenant(p)])
                BY <1>a, TenantType DEF BackedInv
            <4> QED BY <4>1, <4>2, BackedByMore
        <3>4. BackedTx(n, absorbed)
            BY <2>1, <2>3, <3>1, <3>2, <3>3 DEF BackedTx, Same
        <3> QED BY <2>0, <2>1, <3>4, BackedKept
    <2> QED BY <2>1, <2>2, <2>3
<1>5. ASSUME NEW p \in Procs, InsertProfile(p) PROVE BackedInv'
    <2>0. UNCHANGED <<profile, absorbed>>
        BY <1>5 DEF InsertProfile
    <2>1. PICK n \in Transaction :
             /\ tx' = [tx EXCEPT ![p] = n]
             /\ n.header = tx[p].header /\ n.learned = tx[p].learned
             /\ \/ n.step = "packet" /\ Same(n, tx[p])
                \/ n.seen = NewProfile /\ n.mine = NewProfile
        BY <1>5, InsertFields
    <2>2. CASE n.step = "packet" /\ Same(n, tx[p])
        BY <2>0, <2>1, <2>2, <1>n
    <2>3. CASE n.seen = NewProfile /\ n.mine = NewProfile
        <3>1. Known(n, absorbed) \in Nat
            BY <2>1, KnownType DEF Known
        <3>2. Backed(NewProfile, Known(n, absorbed))
            BY <3>1 DEF Backed, NewProfile, NoProfile
        <3>3. BackedTx(n, absorbed)
            BY <2>3, <3>2 DEF BackedTx
        <3> QED BY <2>0, <2>1, <3>3, BackedKept
    <2> QED BY <2>1, <2>2, <2>3
<1>6. ASSUME NEW p \in Procs, UpdateProfile(p) PROVE BackedInv'
    <2> DEFINE k == Known(tx[p], absorbed)
               c == tx[p].seen.candidate
    <2>0. UNCHANGED <<profile, absorbed>> /\ tx[p].step = "update"
        BY <1>6 DEF UpdateProfile
    <2>1. PICK n \in Transaction :
             /\ tx' = [tx EXCEPT ![p] = n]
             /\ n.header = tx[p].header /\ n.step = "packet"
             /\ \/ Same(n, tx[p])
                \/ n.mine = Written(p) /\ n.learned = tx[p].learned \cup {Packet(p)}
        BY <1>6, UpdateFields
    <2>2. CASE Same(n, tx[p])
        BY <2>0, <2>1, <2>2, <1>n
    <2>3. CASE n.mine = Written(p) /\ n.learned = tx[p].learned \cup {Packet(p)}
        <3>1. Packet(p) \notin tx[p].learned
            BY <2>0, <1>h, LearningSteps DEF LockInv, TidyBatch, TidyJob, Packet, Procs
        <3>2. Cardinality(n.learned) = Cardinality(tx[p].learned) + 1
            BY <2>3, <3>1, FS_AddElement DEF TypeInv, FiniteLearned
        <3>3. k \in Nat /\ Known(n, absorbed) = k + 1
            <4>1. Known(n, absorbed) = absorbed[Tenant(p)] + Cardinality(n.learned)
                BY <2>1 DEF Known, Tenant
            <4>2. /\ absorbed[Tenant(p)] \in Nat /\ Cardinality(tx[p].learned) \in Nat
                  /\ k = absorbed[Tenant(p)] + Cardinality(tx[p].learned)
                BY KnownType
            <4> HIDE DEF k
            <4> QED BY <3>2, <4>1, <4>2
        <3>4. c \in Nat /\ c <= k
            <4>1. tx[p].seen \in Baselines
                BY <1>c DEF Transaction
            <4>2. Backed(tx[p].seen, k)
                BY <2>0 DEF BackedInv, BackedTx
            <4> QED BY <4>1, <4>2 DEF Backed, Baselines
        <3>5. Base(p) \in Baselines /\ Backed(Base(p), k)
            <4>1. CASE tx[p].wrote
                BY <4>1, <1>c DEF BackedInv, BackedTx, Base, Transaction
            <4>2. CASE ~tx[p].wrote
                <5>1. /\ absorbed[Tenant(p)] \in Nat /\ k \in Nat
                      /\ absorbed[Tenant(p)] <= k
                    BY KnownType
                <5>2. /\ profile[Tenant(p)] \in Baselines
                      /\ Backed(profile[Tenant(p)], absorbed[Tenant(p)])
                    BY <1>a, TenantType DEF BackedInv
                <5> QED BY <4>2, <5>1, <5>2, BackedByMore DEF Base
            <4> QED BY <4>1, <4>2
        <3>6. /\ Written(p).candidate = c + 1
              /\ ~Promotes(p) => Written(p).trusted = Base(p).trusted
            BY WrittenFields
        <3>7. Promotes(p) => SessionConfidence >= PromoteMin /\ c + 1 >= MinObservations
            BY DEF Promotes, Promotable, Rolled
        <3> HIDE DEF k, c
        <3>8. Backed(Written(p), k + 1)
            <4>1. CASE Promotes(p)
                BY <3>3, <3>4, <3>6, <3>7, <4>1 DEF Backed
            <4>2. CASE ~Promotes(p)
                BY <3>3, <3>4, <3>5, <3>6, <4>2 DEF Backed, Baselines
            <4> QED BY <4>1, <4>2
        <3>9. BackedTx(n, absorbed)
            BY <2>1, <2>3, <3>3, <3>8 DEF BackedTx
        <3> QED BY <2>0, <2>1, <3>9, BackedKept
    <2> QED BY <2>1, <2>2, <2>3
<1>7. ASSUME NEW p \in Procs, Commit(p) PROVE BackedInv'
    <2> DEFINE t == Tenant(p)
               c == Cardinality(tx[p].learned)
    <2>1. /\ tx' = [tx EXCEPT ![p] = Done]
          /\ profile' = IF tx[p].wrote THEN [profile EXCEPT ![t] = tx[p].mine] ELSE profile
          /\ absorbed' = [absorbed EXCEPT ![t] = @ + c]
        BY <1>7 DEF Commit, Recorded
    <2>2. t \in Tenants /\ c \in Nat /\ absorbed \in [Tenants -> Nat]
        BY KnownType
    <2>3. Known(tx[p], absorbed) = absorbed[t] + c
        BY KnownType
    <2> HIDE DEF c, t
    <2>4. \A u \in Tenants : absorbed'[u] = IF u = t THEN absorbed[u] + c ELSE absorbed[u]
        BY <2>1, <2>2, AddedTo
    <2>5. \A u \in Tenants : absorbed[u] \in Nat /\ absorbed'[u] \in Nat /\ absorbed[u] <= absorbed'[u]
        BY <2>2, <2>4
    <2>6. ASSUME NEW u \in Tenants PROVE Backed(profile'[u], absorbed'[u])
        <3>1. profile[u] \in Baselines /\ Backed(profile[u], absorbed[u])
            BY <1>a DEF TypeOK, BackedInv
        <3>2. Backed(profile[u], absorbed'[u])
            BY <2>5, <3>1, BackedByMore
        <3>3. CASE u = t /\ tx[p].wrote
            <4>1. profile'[u] = tx[p].mine /\ absorbed'[u] = Known(tx[p], absorbed)
                BY <2>1, <2>2, <2>3, <2>4, <3>3, <1>a DEF TypeOK
            <4> QED BY <3>3, <4>1 DEF BackedInv, BackedTx
        <3>4. CASE ~(u = t /\ tx[p].wrote)
            <4>1. profile'[u] = profile[u]
                BY <2>1, <2>2, <3>4, <1>a DEF TypeOK
            <4> QED BY <3>2, <4>1
        <3> QED BY <3>3, <3>4
    <2>7. ASSUME NEW q \in Procs PROVE BackedTx(tx'[q], absorbed')
        <3>1. CASE q = p
            BY <2>1, <3>1, <1>c, <1>d
        <3>2. CASE q # p
            <4>1. tx'[q] = tx[q] /\ BackedTx(tx[q], absorbed)
                BY <2>1, <3>2, <1>c DEF BackedInv
            <4>2. /\ Known(tx[q], absorbed) \in Nat /\ Known(tx[q], absorbed') \in Nat
                  /\ Known(tx[q], absorbed) <= Known(tx[q], absorbed')
                <5>1. /\ Cardinality(tx[q].learned) \in Nat /\ Tenant(q) \in Tenants
                    BY KnownType
                <5> QED BY <5>1, <2>5 DEF Known, Tenant
            <4>3. tx[q].mine \in Baselines /\ tx[q].seen \in Baselines
                BY <1>c DEF Transaction
            <4> QED BY <4>1, <4>2, <4>3, BackedByMore DEF BackedTx
        <3> QED BY <3>1, <3>2
    <2> QED BY <2>6, <2>7 DEF BackedInv
<1>8. ASSUME NEW p \in Procs, Fail(p) PROVE BackedInv'
    <2>1. tx' = [tx EXCEPT ![p] = Done] /\ UNCHANGED <<profile, absorbed>>
        BY <1>8 DEF Fail
    <2> QED BY <2>1, <1>d, BackedKept
<1>9. CASE PopJob
    <2>1. PICK n \in Transaction :
             tx' = [tx EXCEPT ![Worker] = n] /\ n.step = "learn" /\ n.wrote = FALSE
        BY <1>9, <1>a, PopFields
    <2>2. BackedTx(n, absorbed)
        BY <2>1 DEF BackedTx
    <2>3. UNCHANGED <<profile, absorbed>>
        BY <1>9 DEF PopJob
    <2> QED BY <2>1, <2>2, <2>3, <1>h, BackedKept
<1>10. ASSUME NEW t \in Tenants, ExpireQueue(t) PROVE BackedInv'
    <2>1. UNCHANGED <<tx, profile, absorbed>>
        BY <1>10 DEF ExpireQueue
    <2> QED BY <2>1 DEF BackedInv
<1>11. CASE Restart
    <2>1. (\A q \in Procs : tx'[q] = Done) /\ UNCHANGED <<profile, absorbed>>
        BY <1>11 DEF Restart
    <2> QED BY <2>1, <1>d DEF BackedInv
<1> HIDE DEF database, history
<1> QED BY <1>0, <1>1, <1>2, <1>3, <1>4, <1>5, <1>6, <1>7, <1>8, <1>9, <1>10, <1>11
        DEF Next, Handle, Learn

LEMMA BackedInit == Init => BackedInv
<1> SUFFICES ASSUME Init PROVE BackedInv
    OBVIOUS
<1>1. \A t \in Tenants : Backed(profile[t], absorbed[t])
    BY DEF Init, Backed, NoProfile
<1>2. \A p \in Procs : BackedTx(tx[p], absorbed)
    BY DoneFields DEF Init, BackedTx
<1> QED BY <1>1, <1>2 DEF BackedInv

\* "The TRUSTED baseline is only promoted after a guarded gate": for all settings
\* and however updates overlap, a trusted baseline had the observations and the
\* confidence that the gate asks for.
THEOREM TrustedAlwaysBacked == Spec => []TrustedIsBacked
<1>1. Init => TypeInv /\ LockInv /\ BackedInv
    BY TypeInit, LockInit, BackedInit
<1>2. TypeInv /\ LockInv /\ BackedInv /\ [Next]_vars => (TypeInv /\ LockInv /\ BackedInv)'
    BY TypeStep, LockStep, BackedStep
<1>3. BackedInv => TrustedIsBacked
    BY DEF BackedInv, TrustedIsBacked, Backed
<1> QED BY <1>1, <1>2, <1>3, PTL DEF Spec

\* As shipped (30 against 80) no profile ever has a trusted baseline: the gate's
\* confidence is a constant of the callers, below the threshold.
THEOREM ShippedNeverPromotes ==
    ASSUME SessionConfidence < PromoteMin
    PROVE  Spec => [](\A t \in Tenants : profile[t].trusted = 0)
<1>1. TypeOK /\ TrustedIsBacked => \A t \in Tenants : profile[t].trusted = 0
    <2> SUFFICES ASSUME TypeOK, TrustedIsBacked, NEW t \in Tenants PROVE profile[t].trusted = 0
        OBVIOUS
    <2>1. profile[t].trusted \in Nat
        BY DEF TypeOK, Baselines
    <2>2. ~(SessionConfidence >= PromoteMin)
        OBVIOUS
    <2> QED BY <2>1, <2>2 DEF TrustedIsBacked
<1> QED BY <1>1, TypeCorrect, TrustedAlwaysBacked, PTL

-----------------------------------------------------------------------------
(* Overlapping updates *)

\* Who has a profile's row, or is about to write it.
Writing(q) == q.wrote \/ q.step \in {"insert", "update"}

\* What holds of any transaction q, r being the committed row of its profile.
Sound(q, r) ==
    /\ ~q.wrote => q.learned = {} /\ q.promoted = 0
    /\ q.wrote => q.mine.exists /\ q.header \notin Anonymous
    /\ q.step = "insert" => ~q.wrote
    /\ q.step \in {"insert", "update"} => q.header \notin Anonymous
    /\ q.step = "update" /\ ~q.wrote => r.exists

\* The row r is NoProfile until it exists, then only changes.
Vacant(r) == ~r.exists => r = NoProfile

RowInv ==
    /\ \A t \in Tenants : Vacant(profile[t])
    /\ \A p \in Procs : Sound(tx[p], profile[Tenant(p)])

\* The row r counts n observations and v promotions.
Counts(r, n, v) == r.candidate = n /\ r.version = 1 + v

\* The transaction q counts what is committed and what it adds.
ExactTx(q, n, v) ==
    /\ q.wrote => Counts(q.mine, n + Cardinality(q.learned), v + q.promoted)
    /\ q.step = "update" => Counts(q.seen, n + Cardinality(q.learned), v + q.promoted)

ExactInv ==
    \A t \in Tenants : OneWriter(t) =>
        /\ Counts(profile[t], absorbed[t], promotions[t])
        /\ \A p \in Procs : Tenant(p) = t => ExactTx(tx[p], absorbed[t], promotions[t])

\* The writer of a profile that only one session learns into is alone.
LEMMA WriterIsAlone ==
    ASSUME TypeInv, LockInv, RowInv, NEW p \in Procs, NEW q \in Procs, p # q,
           Tenant(p) = Tenant(q), OneWriter(Tenant(p)), tx[p].wrote, Writing(tx[q])
    PROVE  FALSE
<1>h. Worker \notin Handlers
    OBVIOUS
<1>u. tx[q].wrote \/ tx[q].step \in {"insert", "update"}
    BY DEF Writing
<1>1. CASE async
    <2>1. \A h \in Handlers : ~tx[h].wrote /\ tx[h].step \notin {"insert", "update"}
        BY <1>1 DEF LockInv, TidyBatch
    <2> QED BY <1>u, <2>1 DEF Procs
<1>2. CASE ~async
    <2>1. p \in Handlers /\ q \in Handlers
        BY <1>2, <1>u DEF LockInv, TidyJob, Procs
    <2>2. tx[p].rows # {} /\ tx[q].rows # {}
        BY <1>u, <2>1, LearningSteps DEF LockInv, TidyBatch
    <2>3. tx[p].header \notin Anonymous /\ tx[q].header \notin Anonymous
        BY <1>u DEF RowInv, Sound
    <2>4. tx[p].header \in Learners(Tenant(p)) /\ tx[q].header \in Learners(Tenant(p))
        BY <2>3, TenantType DEF TypeInv, Learners, Tenant
    <2>5. tx[p].header = tx[q].header
        BY <1>2, <2>4 DEF OneWriter
    <2> QED BY <2>1, <2>2, <2>5 DEF LockInv, Apart
<1> QED BY <1>1, <1>2

\* A step of one transaction, without a commit.
LEMMA ExactKept ==
    ASSUME TypeInv, RowInv, ExactInv, NEW p \in Procs, NEW n, tx' = [tx EXCEPT ![p] = n],
           UNCHANGED <<async, profile, absorbed, promotions>>, n.header \in Sessions,
           Sound(n, profile[TenantOf[n.header]]),
           OneWriter(TenantOf[n.header]) =>
               ExactTx(n, absorbed[TenantOf[n.header]], promotions[TenantOf[n.header]])
    PROVE  RowInv' /\ ExactInv'
<1>1. \A q \in Procs : tx'[q] = IF q = p THEN n ELSE tx[q]
    BY TxType DEF TypeInv
<1>2. \A q \in Procs : Tenant(q)' = IF q = p THEN TenantOf[n.header] ELSE Tenant(q)
    BY <1>1 DEF Tenant
<1>3. \A t \in Tenants : OneWriter(t)' <=> OneWriter(t)
    BY DEF OneWriter, Learners
<1>4. RowInv'
    BY <1>1, <1>2 DEF RowInv
<1>5. ExactInv'
    <2> SUFFICES ASSUME NEW t \in Tenants, OneWriter(t), NEW q \in Procs, Tenant(q)' = t
                 PROVE  /\ Counts(profile[t], absorbed[t], promotions[t])
                        /\ ExactTx(tx'[q], absorbed[t], promotions[t])
        <3>1. \A t \in Tenants : OneWriter(t) => Counts(profile[t], absorbed[t], promotions[t])
            BY DEF ExactInv
        <3> QED BY <1>3, <3>1 DEF ExactInv
    <2>1. CASE q = p
        BY <1>1, <1>2, <2>1 DEF ExactInv
    <2>2. CASE q # p
        BY <1>1, <1>2, <2>2 DEF ExactInv
    <2> QED BY <2>1, <2>2
<1> QED BY <1>4, <1>5

LEMMA ExactStep ==
    TypeInv /\ LockInv /\ RowInv /\ ExactInv /\ [Next]_vars => RowInv' /\ ExactInv'
<1> SUFFICES ASSUME TypeInv, LockInv, RowInv, ExactInv, [Next]_vars PROVE RowInv' /\ ExactInv'
    OBVIOUS
<1> USE DEF database, history
<1>a. TypeOK
    BY DEF TypeInv
<1>c. tx \in [Procs -> Transaction]
    BY <1>a, TxType
<1>h. Handlers \subseteq Procs /\ Worker \in Procs /\ Worker \notin Handlers
    BY DEF Procs
<1>d. \A r, n, v : Sound(Done, r) /\ ExactTx(Done, n, v)
    BY DoneFields DEF Sound, ExactTx
<1>z. \A n \in Transaction : n.header \in Sessions
    BY DEF Transaction
<1>e. Cardinality({}) = 0
    BY FS_EmptySet
\* A step to or from a packet, which keeps what the transaction has written.
<1>n. ASSUME NEW p \in Procs, NEW n \in Transaction, tx' = [tx EXCEPT ![p] = n],
             UNCHANGED <<async, profile, absorbed, promotions>>,
             n.step \notin {"insert", "update"}, Same(n, tx[p])
      PROVE  RowInv' /\ ExactInv'
    <2>1. TenantOf[n.header] = Tenant(p) /\ Tenant(p) \in Tenants
        BY <1>n, <1>a, TenantType DEF Same, Tenant
    <2>2. Sound(n, profile[Tenant(p)])
        BY <1>n DEF RowInv, Sound, Same
    <2>3. OneWriter(Tenant(p)) => ExactTx(n, absorbed[Tenant(p)], promotions[Tenant(p)])
        BY <1>n, <2>1 DEF ExactInv, ExactTx, Same
    <2> QED BY <1>n, <1>z, <2>1, <2>2, <2>3, ExactKept
\* A transaction that has written nothing begins.
<1>m. ASSUME NEW p \in Procs, NEW n \in Transaction, tx' = [tx EXCEPT ![p] = n],
             UNCHANGED <<async, profile, absorbed, promotions>>,
             n.step \notin {"insert", "update"}, n.wrote = FALSE, n.learned = {}, n.promoted = 0
      PROVE  RowInv' /\ ExactInv'
    <2>1. \A r, k, v : Sound(n, r) /\ ExactTx(n, k, v)
        BY <1>m DEF Sound, ExactTx
    <2> QED BY <1>m, <1>z, <2>1, ExactKept
<1>0. CASE UNCHANGED vars
    <2>1. UNCHANGED <<async, tx, profile, absorbed, promotions>>
        BY <1>0 DEF vars
    <2> QED BY <2>1 DEF RowInv, ExactInv, OneWriter, Learners, Tenant
<1>1. ASSUME NEW h \in Handlers, Send(h) PROVE RowInv' /\ ExactInv'
    <2>1. PICK n \in Transaction :
             /\ tx' = [tx EXCEPT ![h] = n]
             /\ n.step = "packet" /\ n.wrote = FALSE /\ n.learned = {} /\ n.promoted = 0
        BY <1>1, <1>a, SendFields
    <2>2. UNCHANGED <<async, profile, absorbed, promotions>>
        BY <1>1 DEF Send
    <2> QED BY <2>1, <2>2, <1>h, <1>m
<1>2. ASSUME NEW h \in Handlers, Accept(h) PROVE RowInv' /\ ExactInv'
    <2>1. PICK n \in Transaction :
             tx' = [tx EXCEPT ![h] = n] /\ n.step = "learn" /\ Same(n, tx[h])
        BY <1>2, <1>a, AcceptFields
    <2>2. UNCHANGED <<async, profile, absorbed, promotions>>
        BY <1>2 DEF Accept
    <2> QED BY <2>1, <2>2, <1>h, <1>n
<1>3. ASSUME NEW h \in Handlers, Refuse(h) \/ Enqueue(h) PROVE RowInv' /\ ExactInv'
    <2>0. /\ tx[h].todo # <<>> /\ tx' = [tx EXCEPT ![h] = NextPacket(tx[h])]
          /\ UNCHANGED <<async, profile, absorbed, promotions>>
        BY <1>3 DEF Refuse, Enqueue, TypeInv, AtHand, Learning, Procs
    <2>1. /\ NextPacket(tx[h]) \in Transaction
          /\ NextPacket(tx[h]).step = "packet" /\ Same(NextPacket(tx[h]), tx[h])
        BY <1>a, <1>h, <2>0, NextPacketFields
    <2> QED BY <2>0, <2>1, <1>h, <1>n
<1>4. ASSUME NEW p \in Procs, ReadProfile(p) PROVE RowInv' /\ ExactInv'
    <2> DEFINE t == Tenant(p)
    <2>0. UNCHANGED <<async, profile, absorbed, promotions>>
        BY <1>4 DEF ReadProfile
    <2>1. PICK n \in Transaction :
             /\ tx' = [tx EXCEPT ![p] = n] /\ Same(n, tx[p])
             /\ \/ n.step = "packet"
                \/ /\ n.step \in {"insert", "update"} /\ tx[p].header \notin Anonymous
                   /\ n.seen = IF tx[p].wrote THEN tx[p].mine ELSE profile[t]
                   /\ n.step = "insert" => ~n.seen.exists
                   /\ n.step = "update" => n.seen.exists
        BY <1>4, ReadFields
    <2>2. CASE n.step = "packet"
        BY <2>0, <2>1, <2>2, <1>n
    <2>3. CASE /\ n.step \in {"insert", "update"} /\ tx[p].header \notin Anonymous
               /\ n.seen = IF tx[p].wrote THEN tx[p].mine ELSE profile[t]
               /\ n.step = "insert" => ~n.seen.exists
               /\ n.step = "update" => n.seen.exists
        <3>1. TenantOf[n.header] = t /\ t \in Tenants
            BY <2>1, <1>a, TenantType DEF Same, Tenant
        <3>2. Sound(tx[p], profile[t])
            BY DEF RowInv
        <3>3. Sound(n, profile[t])
            BY <2>1, <2>3, <3>2 DEF Sound, Same
        <3>4. ASSUME OneWriter(t) PROVE ExactTx(n, absorbed[t], promotions[t])
            <4>1. ExactTx(tx[p], absorbed[t], promotions[t]) /\ Counts(profile[t], absorbed[t], promotions[t])
                BY <3>1, <3>4 DEF ExactInv
            <4>2. CASE tx[p].wrote
                BY <2>1, <2>3, <4>1, <4>2 DEF ExactTx, Same
            <4>3. CASE ~tx[p].wrote
                <5>1. n.learned = {} /\ n.promoted = 0 /\ ~n.wrote /\ n.seen = profile[t]
                    BY <2>1, <2>3, <3>2, <4>3 DEF Sound, Same
                <5>2. absorbed[t] \in Nat /\ promotions[t] \in Nat
                    BY <1>a, <3>1 DEF TypeOK
                <5>3. absorbed[t] + Cardinality(n.learned) = absorbed[t]
                        /\ promotions[t] + n.promoted = promotions[t]
                    BY <1>e, <5>1, <5>2
                <5> QED BY <4>1, <5>1, <5>3 DEF ExactTx
            <4> QED BY <4>2, <4>3
        <3> QED BY <2>0, <2>1, <1>z, <3>1, <3>3, <3>4, ExactKept
    <2> QED BY <2>1, <2>2, <2>3
<1>5. ASSUME NEW p \in Procs, InsertProfile(p) PROVE RowInv' /\ ExactInv'
    <2> DEFINE t == Tenant(p)
    <2>0. UNCHANGED <<async, profile, absorbed, promotions>> /\ tx[p].step = "insert"
        BY <1>5 DEF InsertProfile
    <2>1. PICK n \in Transaction :
             /\ tx' = [tx EXCEPT ![p] = n]
             /\ n.header = tx[p].header /\ n.learned = tx[p].learned /\ n.promoted = tx[p].promoted
             /\ \/ n.step = "packet" /\ Same(n, tx[p])
                \/ /\ ~profile[t].exists
                   /\ n.step = "update" /\ n.seen = NewProfile /\ n.mine = NewProfile /\ n.wrote = TRUE
        BY <1>5, InsertFields
    <2>2. CASE n.step = "packet" /\ Same(n, tx[p])
        BY <2>0, <2>1, <2>2, <1>n
    <2>3. CASE /\ ~profile[t].exists
               /\ n.step = "update" /\ n.seen = NewProfile /\ n.mine = NewProfile /\ n.wrote = TRUE
        <3>1. TenantOf[n.header] = t /\ t \in Tenants
            BY <2>1, <1>a, TenantType DEF Tenant
        <3>2. Sound(tx[p], profile[t])
            BY DEF RowInv
        <3>3. n.learned = {} /\ n.promoted = 0 /\ n.header \notin Anonymous
            BY <2>0, <2>1, <3>2 DEF Sound
        <3>4. NewProfile.exists /\ NewProfile.candidate = 0 /\ NewProfile.version = 1
            BY DEF NewProfile, NoProfile
        <3>5. Sound(n, profile[t])
            BY <2>3, <3>3, <3>4 DEF Sound
        <3>6. ASSUME OneWriter(t) PROVE ExactTx(n, absorbed[t], promotions[t])
            <4>1. profile[t] = NoProfile
                BY <2>3, <3>1 DEF RowInv, Vacant
            <4>2. absorbed[t] = 0 /\ 1 = 1 + promotions[t]
                BY <3>1, <3>6, <4>1 DEF ExactInv, Counts, NoProfile
            <4>3. promotions[t] = 0
                BY <1>a, <3>1, <4>2 DEF TypeOK
            <4> QED BY <1>e, <2>3, <3>3, <3>4, <4>2, <4>3 DEF ExactTx, Counts
        <3> QED BY <2>0, <2>1, <1>z, <3>1, <3>5, <3>6, ExactKept
    <2> QED BY <2>1, <2>2, <2>3
<1>6. ASSUME NEW p \in Procs, UpdateProfile(p) PROVE RowInv' /\ ExactInv'
    <2> DEFINE t == Tenant(p)
    <2>0. UNCHANGED <<async, profile, absorbed, promotions>> /\ tx[p].step = "update"
        BY <1>6 DEF UpdateProfile
    <2>1. PICK n \in Transaction :
             /\ tx' = [tx EXCEPT ![p] = n]
             /\ n.header = tx[p].header /\ n.step = "packet"
             /\ \/ Same(n, tx[p])
                \/ /\ n.mine = Written(p) /\ n.wrote = TRUE
                   /\ n.learned = tx[p].learned \cup {Packet(p)}
                   /\ n.promoted = IF Promotes(p) THEN tx[p].promoted + 1 ELSE tx[p].promoted
        BY <1>6, UpdateFields
    <2>2. CASE Same(n, tx[p])
        BY <2>0, <2>1, <2>2, <1>n
    <2>3. CASE /\ n.mine = Written(p) /\ n.wrote = TRUE
               /\ n.learned = tx[p].learned \cup {Packet(p)}
               /\ n.promoted = IF Promotes(p) THEN tx[p].promoted + 1 ELSE tx[p].promoted
        <3>1. TenantOf[n.header] = t /\ t \in Tenants
            BY <2>1, <1>a, TenantType DEF Tenant
        <3>2. Sound(tx[p], profile[t])
            BY DEF RowInv
        <3>3. Base(p).exists
            BY <2>0, <3>2 DEF Sound, Base
        <3>4. /\ Written(p).exists /\ Written(p).candidate = tx[p].seen.candidate + 1
              /\ Written(p).version = IF Promotes(p) THEN tx[p].seen.version + 1 ELSE Base(p).version
            BY <3>3, WrittenFields
        <3>5. Sound(n, profile[t])
            BY <2>0, <2>1, <2>3, <3>2, <3>4 DEF Sound
        <3>6. ASSUME OneWriter(t) PROVE ExactTx(n, absorbed[t], promotions[t])
            <4> DEFINE c == Cardinality(tx[p].learned)
                       m == tx[p].promoted
                       a == absorbed[t]
                       v == promotions[t]
            <4>1. c \in Nat /\ m \in Nat /\ a \in Nat /\ v \in Nat
                BY <1>a, <1>c, <3>1, KnownType DEF TypeOK, Transaction
            <4>2. Packet(p) \notin tx[p].learned
                BY <2>0, <1>h, LearningSteps DEF LockInv, TidyBatch, TidyJob, Packet, Procs
            <4>3. Cardinality(n.learned) = c + 1
                BY <2>3, <4>2, FS_AddElement DEF TypeInv, FiniteLearned
            <4>4. ExactTx(tx[p], a, v) /\ Counts(profile[t], a, v)
                BY <3>1, <3>6 DEF ExactInv
            <4>5. tx[p].seen.candidate = a + c /\ tx[p].seen.version = 1 + (v + m)
                BY <2>0, <4>4 DEF ExactTx, Counts
            <4>6. Base(p).version = 1 + (v + m)
                <5>1. CASE tx[p].wrote
                    BY <4>4, <5>1 DEF ExactTx, Counts, Base
                <5>2. CASE ~tx[p].wrote
                    <6>1. m = 0 /\ Base(p) = profile[t]
                        BY <3>2, <5>2 DEF Sound, Base
                    <6> HIDE DEF m, v
                    <6> QED BY <4>1, <4>4, <6>1 DEF Counts
                <5> QED BY <5>1, <5>2
            <4>7. n.promoted = IF Promotes(p) THEN m + 1 ELSE m
                BY <2>3
            <4> HIDE DEF c, m, a, v
            <4>8. Counts(n.mine, a + Cardinality(n.learned), v + n.promoted)
                <5>1. n.mine.candidate = a + Cardinality(n.learned)
                    BY <2>3, <3>4, <4>1, <4>3, <4>5
                <5>2. n.mine.version = 1 + (v + n.promoted)
                    BY <2>3, <3>4, <4>1, <4>5, <4>6, <4>7
                <5> QED BY <5>1, <5>2 DEF Counts
            <4> QED BY <2>1, <4>8 DEF ExactTx, a, v
        <3> QED BY <2>0, <2>1, <1>z, <3>1, <3>5, <3>6, ExactKept
    <2> QED BY <2>1, <2>2, <2>3
<1>7. ASSUME NEW p \in Procs, Commit(p) PROVE RowInv' /\ ExactInv'
    <2> DEFINE t == Tenant(p)
               c == Cardinality(tx[p].learned)
               m == tx[p].promoted
    <2>1. /\ tx' = [tx EXCEPT ![p] = Done] /\ async' = async
          /\ profile' = IF tx[p].wrote THEN [profile EXCEPT ![t] = tx[p].mine] ELSE profile
          /\ absorbed' = [absorbed EXCEPT ![t] = @ + c]
          /\ promotions' = [promotions EXCEPT ![t] = @ + m]
        BY <1>7 DEF Commit, Recorded
    <2>2. /\ t \in Tenants /\ c \in Nat /\ m \in Nat
          /\ absorbed \in [Tenants -> Nat] /\ promotions \in [Tenants -> Nat]
        BY <1>a, <1>c, KnownType DEF TypeOK, Transaction
    <2>s. Sound(tx[p], profile[t])
        BY DEF RowInv
    <2>e. ~tx[p].wrote => c = 0 /\ m = 0
        BY <1>e, <2>s DEF Sound
    <2>o. OneWriter(t) => Counts(profile[t], absorbed[t], promotions[t])
                          /\ ExactTx(tx[p], absorbed[t], promotions[t])
        BY <2>2 DEF ExactInv
    <2>x. OneWriter(t) /\ tx[p].wrote => Counts(tx[p].mine, absorbed[t] + c, promotions[t] + m)
        BY <2>o DEF ExactTx
    <2>y. /\ \A u \in Tenants : absorbed'[u] = IF u = t THEN absorbed[u] + c ELSE absorbed[u]
          /\ \A u \in Tenants : promotions'[u] = IF u = t THEN promotions[u] + m ELSE promotions[u]
        <3> HIDE DEF t, c, m
        <3> QED BY <2>1, <2>2, AddedTo
    <2>p. \A u \in Tenants : profile'[u] = IF u = t /\ tx[p].wrote THEN tx[p].mine ELSE profile[u]
        BY <2>1, <2>2, <1>a DEF TypeOK
    <2>q. \A q \in Procs : tx'[q] = IF q = p THEN Done ELSE tx[q]
        BY <2>1, <1>c
    <2>3. RowInv'
        <3>1. \A u \in Tenants : Vacant(profile'[u])
            BY <2>p, <2>s DEF RowInv, Vacant, Sound
        <3>2. ASSUME NEW q \in Procs PROVE Sound(tx'[q], profile'[Tenant(q)'])
            <4>1. CASE q = p
                BY <2>q, <4>1, <1>d
            <4>2. CASE q # p
                <5>1. tx'[q] = tx[q] /\ Tenant(q)' = Tenant(q) /\ Tenant(q) \in Tenants
                    BY <2>q, <4>2, <1>a, TenantType DEF Tenant
                <5>2. profile[Tenant(q)].exists => profile'[Tenant(q)].exists
                    BY <2>p, <2>s, <5>1 DEF Sound
                <5> QED BY <5>1, <5>2 DEF RowInv, Sound
            <4> QED BY <4>1, <4>2
        <3> QED BY <3>1, <3>2 DEF RowInv
    <2>4. ASSUME NEW u \in Tenants, OneWriter(u)
          PROVE  /\ Counts(profile'[u], absorbed'[u], promotions'[u])
                 /\ \A q \in Procs : Tenant(q)' = u => ExactTx(tx'[q], absorbed'[u], promotions'[u])
        <3>0. absorbed[u] \in Nat /\ promotions[u] \in Nat
            BY <2>2
        <3>1. Counts(profile[u], absorbed[u], promotions[u])
            BY <2>4 DEF ExactInv
        <3>2. Counts(profile'[u], absorbed'[u], promotions'[u])
            <4> HIDE DEF t, c, m
            <4>1. CASE u = t /\ tx[p].wrote
                BY <2>x, <2>y, <2>p, <2>4, <4>1
            <4>2. CASE u = t /\ ~tx[p].wrote
                BY <2>y, <2>p, <2>e, <3>0, <3>1, <4>2
            <4>3. CASE u # t
                BY <2>y, <2>p, <3>1, <4>3
            <4> QED BY <4>1, <4>2, <4>3
        <3>3. ASSUME NEW q \in Procs, Tenant(q)' = u
              PROVE  ExactTx(tx'[q], absorbed'[u], promotions'[u])
            <4>1. CASE q = p
                BY <2>q, <4>1, <1>d
            <4>2. CASE q # p
                <5>1. tx'[q] = tx[q] /\ Tenant(q) = u
                    BY <2>q, <3>3, <4>2 DEF Tenant
                <5>2. ExactTx(tx[q], absorbed[u], promotions[u])
                    BY <2>4, <5>1 DEF ExactInv
                <5>3. CASE u = t /\ tx[p].wrote
                    <6>1. ~Writing(tx[q])
                        BY <2>4, <4>2, <5>1, <5>3, WriterIsAlone
                    <6> QED BY <5>1, <6>1 DEF ExactTx, Writing
                <5>4. CASE ~(u = t /\ tx[p].wrote)
                    <6>1. absorbed'[u] = absorbed[u] /\ promotions'[u] = promotions[u]
                        <7> HIDE DEF t, c, m
                        <7> QED BY <2>y, <2>e, <3>0, <5>4
                    <6> QED BY <5>1, <5>2, <6>1
                <5> QED BY <5>3, <5>4
            <4> QED BY <4>1, <4>2
        <3> QED BY <3>2, <3>3
    <2>5. \A u \in Tenants : OneWriter(u)' <=> OneWriter(u)
        BY <2>1 DEF OneWriter, Learners
    <2> QED BY <2>3, <2>4, <2>5 DEF ExactInv
<1>8. ASSUME NEW p \in Procs, Fail(p) PROVE RowInv' /\ ExactInv'
    <2>1. tx' = [tx EXCEPT ![p] = Done] /\ UNCHANGED <<async, profile, absorbed, promotions>>
        BY <1>8 DEF Fail
    <2> QED BY <2>1, <1>d, <1>z, DoneFields, ExactKept
<1>9. CASE PopJob
    <2>1. PICK n \in Transaction :
             /\ tx' = [tx EXCEPT ![Worker] = n]
             /\ n.step = "learn" /\ n.wrote = FALSE /\ n.learned = {} /\ n.promoted = 0
        BY <1>9, <1>a, PopFields
    <2>2. UNCHANGED <<async, profile, absorbed, promotions>>
        BY <1>9 DEF PopJob
    <2> QED BY <2>1, <2>2, <1>h, <1>m
<1>10. ASSUME NEW t \in Tenants, ExpireQueue(t) PROVE RowInv' /\ ExactInv'
    <2>1. UNCHANGED <<async, tx, profile, absorbed, promotions>>
        BY <1>10 DEF ExpireQueue
    <2> QED BY <2>1 DEF RowInv, ExactInv, OneWriter, Learners, Tenant
<1>11. CASE Restart
    <2>1. (\A q \in Procs : tx'[q] = Done) /\ UNCHANGED <<async, profile, absorbed, promotions>>
        BY <1>11 DEF Restart
    <2> QED BY <2>1, <1>d DEF RowInv, ExactInv, OneWriter, Learners
<1> HIDE DEF database, history
<1> QED BY <1>0, <1>1, <1>2, <1>3, <1>4, <1>5, <1>6, <1>7, <1>8, <1>9, <1>10, <1>11
        DEF Next, Handle, Learn

LEMMA ExactInit == Init => RowInv /\ ExactInv
<1> SUFFICES ASSUME Init PROVE RowInv /\ ExactInv
    OBVIOUS
<1>1. \A r, n, v : Sound(Done, r) /\ ExactTx(Done, n, v)
    BY DoneFields DEF Sound, ExactTx
<1>2. \A p \in Procs : tx[p] = Done
    BY DEF Init
<1>3. \A t \in Tenants : /\ profile[t] = NoProfile /\ absorbed[t] = 0 /\ promotions[t] = 0
    BY DEF Init
<1>4. Counts(NoProfile, 0, 0)
    BY DEF Counts, NoProfile
<1> QED BY <1>1, <1>2, <1>3, <1>4 DEF RowInv, ExactInv, Vacant

\* As long as one session learns into a profile, or the worker does, overlapping
\* updates lose no observation and no promotion.
THEOREM NoUpdateLost == Spec => []OneWriterLosesNothing
<1>1. Init => TypeInv /\ LockInv /\ RowInv /\ ExactInv
    BY TypeInit, LockInit, ExactInit
<1>2. TypeInv /\ LockInv /\ RowInv /\ ExactInv /\ [Next]_vars
        => (TypeInv /\ LockInv /\ RowInv /\ ExactInv)'
    BY TypeStep, LockStep, ExactStep
<1>3. ExactInv => OneWriterLosesNothing
    BY DEF ExactInv, OneWriterLosesNothing, Counts
<1> QED BY <1>1, <1>2, <1>3, PTL DEF Spec

-----------------------------------------------------------------------------
(* A flush that fails *)

\* As long as only one session learns into a profile, nobody has inserted the
\* profile that a transaction is about to insert, and no flush has failed.
Undisturbed(q, r) == ~q.unusable /\ (q.step = "insert" => ~r.exists)

AloneInv == \A p \in Procs : OneWriter(Tenant(p)) => Undisturbed(tx[p], profile[Tenant(p)])

\* A step of one transaction, without a commit.
LEMMA AloneKept ==
    ASSUME TypeInv, AloneInv, NEW p \in Procs, NEW n, tx' = [tx EXCEPT ![p] = n],
           UNCHANGED <<async, profile>>,
           OneWriter(TenantOf[n.header]) => Undisturbed(n, profile[TenantOf[n.header]])
    PROVE  AloneInv'
<1>1. \A q \in Procs : tx'[q] = IF q = p THEN n ELSE tx[q]
    BY TxType DEF TypeInv
<1>2. \A q \in Procs : Tenant(q)' = IF q = p THEN TenantOf[n.header] ELSE Tenant(q)
    BY <1>1 DEF Tenant
<1>3. \A t : OneWriter(t)' <=> OneWriter(t)
    BY DEF OneWriter, Learners
<1> QED BY <1>1, <1>2, <1>3 DEF AloneInv

LEMMA AloneStep ==
    TypeInv /\ LockInv /\ RowInv /\ AloneInv /\ [Next]_vars => AloneInv'
<1> SUFFICES ASSUME TypeInv, LockInv, RowInv, AloneInv, [Next]_vars PROVE AloneInv'
    OBVIOUS
<1> USE DEF database, history
<1>a. TypeOK /\ tx \in [Procs -> Transaction]
    BY TxType DEF TypeInv
<1>h. Handlers \subseteq Procs /\ Worker \in Procs
    BY DEF Procs
<1>d. \A r : Undisturbed(Done, r)
    BY DoneFields DEF Undisturbed
\* A step to a packet or to the learning of one.
<1>n. ASSUME NEW p \in Procs, NEW n, tx' = [tx EXCEPT ![p] = n], UNCHANGED <<async, profile>>,
             n.step # "insert", \/ n.unusable = FALSE
                                \/ n.header = tx[p].header /\ n.unusable = tx[p].unusable
      PROVE  AloneInv'
    <2>1. OneWriter(TenantOf[n.header]) => Undisturbed(n, profile[TenantOf[n.header]])
        BY <1>n DEF AloneInv, Undisturbed, Tenant
    <2> QED BY <1>n, <2>1, AloneKept
<1>0. CASE UNCHANGED vars
    BY <1>0 DEF vars, AloneInv, OneWriter, Learners, Tenant
<1>1. ASSUME NEW h \in Handlers, Send(h) PROVE AloneInv'
    <2>1. PICK n \in Transaction :
             tx' = [tx EXCEPT ![h] = n] /\ n.step = "packet" /\ n.unusable = FALSE
        BY <1>1, <1>a, SendFields
    <2> QED BY <1>1, <2>1, <1>h, <1>n DEF Send
<1>2. ASSUME NEW h \in Handlers, Accept(h) PROVE AloneInv'
    <2>1. PICK n \in Transaction :
             /\ tx' = [tx EXCEPT ![h] = n] /\ n.step = "learn" /\ Same(n, tx[h])
             /\ n.unusable = tx[h].unusable
        BY <1>2, <1>a, AcceptFields
    <2> QED BY <1>2, <2>1, <1>h, <1>n DEF Accept, Same
<1>3. ASSUME NEW h \in Handlers, Refuse(h) \/ Enqueue(h) PROVE AloneInv'
    <2>0. /\ tx[h].todo # <<>> /\ tx' = [tx EXCEPT ![h] = NextPacket(tx[h])]
          /\ UNCHANGED <<async, profile>>
        BY <1>3 DEF Refuse, Enqueue, TypeInv, AtHand, Learning, Procs
    <2> DEFINE n == NextPacket(tx[h])
    <2>1. n.step = "packet" /\ n.header = tx[h].header /\ n.unusable = tx[h].unusable
        BY <1>a, <1>h, <2>0, NextPacketFields DEF Same
    <2> HIDE DEF n
    <2>2. tx' = [tx EXCEPT ![h] = n]
        BY <2>0 DEF n
    <2> QED BY <2>0, <2>1, <2>2, <1>h, <1>n
<1>4. ASSUME NEW p \in Procs, ReadProfile(p) PROVE AloneInv'
    <2>1. PICK n \in Transaction :
             /\ tx' = [tx EXCEPT ![p] = n] /\ Same(n, tx[p]) /\ n.unusable = tx[p].unusable
             /\ n.step = "insert" =>
                    LET seen == IF tx[p].wrote THEN tx[p].mine ELSE profile[Tenant(p)]
                    IN  ~seen.exists
        BY <1>4, ReadFields
    <2>2. n.step = "insert" => ~profile[Tenant(p)].exists
        BY <2>1 DEF RowInv, Sound
    <2>0. UNCHANGED <<async, profile>>
        BY <1>4 DEF ReadProfile
    <2>3. TenantOf[n.header] = Tenant(p)
        BY <2>1 DEF Same, Tenant
    <2>4. OneWriter(Tenant(p)) => Undisturbed(n, profile[Tenant(p)])
        BY <2>1, <2>2 DEF AloneInv, Undisturbed
    <2> QED BY <2>0, <2>1, <2>3, <2>4, AloneKept
<1>5. ASSUME NEW p \in Procs, InsertProfile(p) PROVE AloneInv'
    <2>1. PICK n \in Transaction :
             /\ tx' = [tx EXCEPT ![p] = n] /\ n.header = tx[p].header
             /\ n.step # "insert"
             /\ profile[Tenant(p)].exists \/ n.unusable = tx[p].unusable
        BY <1>5, InsertFields
    <2>2. tx[p].step = "insert" /\ UNCHANGED <<async, profile>>
        BY <1>5 DEF InsertProfile
    <2>3. OneWriter(Tenant(p)) => Undisturbed(n, profile[Tenant(p)])
        BY <2>1, <2>2 DEF AloneInv, Undisturbed
    <2>4. TenantOf[n.header] = Tenant(p)
        BY <2>1 DEF Tenant
    <2> QED BY <2>1, <2>2, <2>3, <2>4, AloneKept
<1>6. ASSUME NEW p \in Procs, UpdateProfile(p) PROVE AloneInv'
    <2>1. PICK n \in Transaction :
             /\ tx' = [tx EXCEPT ![p] = n] /\ n.header = tx[p].header /\ n.step = "packet"
             /\ n.unusable = tx[p].unusable
        BY <1>6, UpdateFields
    <2> QED BY <1>6, <2>1, <1>n DEF UpdateProfile
\* A commit makes the profile exist: whoever is about to insert it is not alone.
<1>7. ASSUME NEW p \in Procs, Commit(p) PROVE AloneInv'
    <2> DEFINE t == Tenant(p)
    <2>1. /\ tx' = [tx EXCEPT ![p] = Done] /\ async' = async
          /\ profile' = IF tx[p].wrote THEN [profile EXCEPT ![t] = tx[p].mine] ELSE profile
        BY <1>7 DEF Commit
    <2>2. \A u \in Tenants : profile'[u] = IF u = t /\ tx[p].wrote THEN tx[p].mine ELSE profile[u]
        BY <2>1, <1>a DEF TypeOK
    <2> SUFFICES ASSUME NEW q \in Procs, OneWriter(Tenant(q)')
                 PROVE  Undisturbed(tx'[q], profile'[Tenant(q)'])
        BY <2>1 DEF AloneInv, OneWriter, Learners
    <2>3. CASE q = p
        BY <1>a, <1>d, <2>1, <2>3
    <2>4. CASE q # p
        <3>1. tx'[q] = tx[q] /\ Tenant(q)' = Tenant(q) /\ Tenant(q) \in Tenants
            BY <1>a, <2>1, <2>4, TenantType DEF Tenant
        <3>2. Undisturbed(tx[q], profile[Tenant(q)])
            BY <3>1 DEF AloneInv
        <3>3. Tenant(q) = t /\ tx[p].wrote => tx[q].step # "insert"
            BY <2>4, <3>1, WriterIsAlone DEF Writing
        <3> QED BY <2>2, <3>1, <3>2, <3>3 DEF Undisturbed
    <2> QED BY <2>3, <2>4
<1>8. ASSUME NEW p \in Procs, Fail(p) PROVE AloneInv'
    <2>1. tx' = [tx EXCEPT ![p] = Done] /\ UNCHANGED <<async, profile>>
        BY <1>8 DEF Fail
    <2> QED BY <2>1, <1>d, AloneKept
<1>9. CASE PopJob
    <2>1. PICK n \in Transaction :
             tx' = [tx EXCEPT ![Worker] = n] /\ n.step = "learn" /\ n.unusable = FALSE
        BY <1>9, <1>a, PopFields
    <2> QED BY <1>9, <2>1, <1>h, <1>n DEF PopJob
<1>10. ASSUME NEW t \in Tenants, ExpireQueue(t) PROVE AloneInv'
    BY <1>10 DEF ExpireQueue, AloneInv, OneWriter, Learners, Tenant
<1>11. CASE Restart
    <2>1. (\A q \in Procs : tx'[q] = Done) /\ UNCHANGED <<async, profile>>
        BY <1>11 DEF Restart
    <2> QED BY <2>1, <1>d DEF AloneInv
<1> HIDE DEF database, history
<1> QED BY <1>0, <1>1, <1>2, <1>3, <1>4, <1>5, <1>6, <1>7, <1>8, <1>9, <1>10, <1>11
        DEF Next, Handle, Learn

\* The update of a baseline makes the transaction of its batch unusable only if
\* another session shares the profile, and never in the asynchronous mode.
THEOREM UnusableTakesTwo == Spec => []UnusableNeedsTwoWriters
<1>1. Init => TypeInv /\ LockInv /\ RowInv /\ AloneInv
    <2>1. Init => AloneInv
        BY DoneFields DEF Init, AloneInv, Undisturbed
    <2> QED BY <2>1, TypeInit, LockInit, ExactInit
<1>2. AloneInv => UnusableNeedsTwoWriters
    BY DEF AloneInv, Undisturbed, UnusableNeedsTwoWriters
<1>3. TypeInv /\ LockInv /\ RowInv /\ ExactInv /\ AloneInv /\ [Next]_vars
        => (TypeInv /\ LockInv /\ RowInv /\ ExactInv /\ AloneInv)'
    BY TypeStep, LockStep, ExactStep, AloneStep
<1>4. Init => ExactInv
    BY ExactInit
<1> QED BY <1>1, <1>2, <1>3, <1>4, PTL DEF Spec

-----------------------------------------------------------------------------
(* The worker comes to the end of its job *)

\* The worker waits for no lock: in the asynchronous mode no batch holds the row
\* of a profile, and in the other one the worker has nothing to do.
THEOREM WorkerIsNotBlocked == Spec => []WorkerNeverWaits
<1>1. TypeInv /\ LockInv => WorkerNeverWaits
    <2> SUFFICES ASSUME LockInv, NEW q \in Procs, Waits(Worker, q) PROVE FALSE
        BY DEF WorkerNeverWaits
    <2>1. Worker # q /\ tx[Worker].step \in {"insert", "update"} /\ tx[q].wrote
        BY DEF Waits, WaitsForSession, WaitsForProfile, HoldsProfile
    <2>2. async
        BY <2>1 DEF LockInv, TidyJob
    <2>3. q \in Handlers
        BY <2>1 DEF Procs
    <2> QED BY <2>1, <2>2, <2>3 DEF LockInv, TidyBatch
<1> QED BY <1>1, TypeInit, LockInit, TypeStep, LockStep, PTL DEF Spec

\* A step of the worker on its job brings it nearer to the end of the job.
LEMMA WorkerAdvances ==
    ASSUME TypeInv, Learn(Worker) \/ Fail(Worker)
    PROVE  StepsLeft(tx'[Worker]) < StepsLeft(tx[Worker])
<1> USE DEF StepsLeft
<1>a. tx \in [Procs -> Transaction] /\ Worker \in Procs
    BY TxType DEF TypeInv, Procs
<1>1. CASE ReadProfile(Worker)
    <2>1. tx'[Worker].step \in {"packet", "insert", "update"}
        BY <1>1, <1>a, ReadFields
    <2>2. tx[Worker].step = "learn"
        BY <1>1 DEF ReadProfile, Learns
    <2> QED BY <2>1, <2>2
<1>2. CASE InsertProfile(Worker)
    <2>1. tx'[Worker].step \in {"packet", "update"}
        BY <1>2, <1>a, InsertFields
    <2>2. tx[Worker].step = "insert"
        BY <1>2 DEF InsertProfile
    <2> QED BY <2>1, <2>2
<1>3. CASE UpdateProfile(Worker)
    <2>1. tx'[Worker].step = "packet"
        BY <1>3, <1>a, UpdateFields
    <2>2. tx[Worker].step = "update"
        BY <1>3 DEF UpdateProfile
    <2> QED BY <2>1, <2>2
<1>4. CASE Commit(Worker) \/ Fail(Worker)
    <2>1. tx'[Worker].step = "idle"
        BY <1>4, <1>a, DoneFields DEF Commit, Fail
    <2>2. tx[Worker].step \in Steps \ {"idle"}
        BY <1>4, <1>a DEF Commit, Fail, Transaction
    <2> QED BY <2>1, <2>2 DEF Steps
<1> QED BY <1>1, <1>2, <1>3, <1>4 DEF Learn

\* Nothing but its own steps, a job and a restart touches the worker.
LEMMA WorkerTouched ==
    ASSUME TypeInv, Next, tx'[Worker] # tx[Worker]
    PROVE  Learn(Worker) \/ Fail(Worker) \/ PopJob \/ Restart
<1>a. tx \in [Procs -> Transaction] /\ Worker \in Procs /\ Worker \notin Handlers
    BY TxType DEF TypeInv, Procs
<1>1. ASSUME NEW h \in Handlers, Handle(h) PROVE FALSE
    <2>1. h # Worker /\ \E n : tx' = [tx EXCEPT ![h] = n]
        BY <1>1, <1>a DEF Handle, Send, Accept, Refuse, Enqueue
    <2> QED BY <2>1, <1>a
<1>2. ASSUME NEW p \in Procs, Learn(p) \/ Fail(p) PROVE p = Worker
    <2>1. \E n : tx' = [tx EXCEPT ![p] = n]
        <3>1. CASE ReadProfile(p)
            BY <3>1, ReadFields
        <3>2. CASE InsertProfile(p)
            BY <3>2, InsertFields
        <3>3. CASE UpdateProfile(p)
            BY <3>3, UpdateFields
        <3>4. CASE Commit(p) \/ Fail(p)
            BY <3>4 DEF Commit, Fail
        <3> QED BY <1>2, <3>1, <3>2, <3>3, <3>4 DEF Learn
    <2> QED BY <2>1, <1>a
<1>3. ~ \E t \in Tenants : ExpireQueue(t)
    BY DEF ExpireQueue
<1> QED BY <1>1, <1>2, <1>3 DEF Next

\* An idle worker has nothing in its hands that a restart could take away.
Rests == ~Working => tx[Worker] = Done

LEMMA RestsStep == TypeInv /\ Rests /\ [Next]_vars => Rests'
<1> SUFFICES ASSUME TypeInv, Rests, [Next]_vars, tx'[Worker] # tx[Worker] PROVE Rests'
    BY DEF Rests, Working
<1>a. tx \in [Procs -> Transaction] /\ Worker \in Procs
    BY TxType DEF TypeInv, Procs
<1>1. CASE Learn(Worker) \/ Fail(Worker)
    <2>1. tx'[Worker].step # "idle" \/ tx'[Worker] = Done
        <3>1. CASE ReadProfile(Worker)
            BY <3>1, <1>a, ReadFields
        <3>2. CASE InsertProfile(Worker)
            BY <3>2, <1>a, InsertFields
        <3>3. CASE UpdateProfile(Worker)
            BY <3>3, <1>a, UpdateFields
        <3>4. CASE Commit(Worker) \/ Fail(Worker)
            BY <3>4, <1>a DEF Commit, Fail
        <3> QED BY <1>1, <3>1, <3>2, <3>3, <3>4 DEF Learn
    <2> QED BY <2>1 DEF Rests, Working
<1>2. CASE PopJob
    <2>1. tx'[Worker].step = "learn"
        BY <1>2, <1>a, PopFields DEF TypeInv
    <2> QED BY <2>1 DEF Rests, Working
<1>3. CASE Restart
    BY <1>3, <1>a DEF Restart, Rests
<1> QED BY <1>1, <1>2, <1>3, WorkerTouched DEF vars

\* Whatever happens, the worker is left alone, takes the oldest job of its queue,
\* or is nearer to the end of its job, of which every job has four steps at most.
THEOREM JobsEnd == Spec => WorkerProgress
<1>1. TypeInv /\ Rests /\ [Next]_vars =>
        [\/ tx'[Worker] = tx[Worker]
         \/ ~Working /\ jobs[WorkerTenant] = tx'[Worker].todo \o jobs'[WorkerTenant]
         \/ StepsLeft(tx'[Worker]) < StepsLeft(tx[Worker])]_vars
    <2> SUFFICES ASSUME TypeInv, Rests, Next, tx'[Worker] # tx[Worker]
                 PROVE  \/ ~Working /\ jobs[WorkerTenant] = tx'[Worker].todo \o jobs'[WorkerTenant]
                        \/ StepsLeft(tx'[Worker]) < StepsLeft(tx[Worker])
        OBVIOUS
    <2>a. TypeOK /\ tx \in [Procs -> Transaction] /\ Worker \in Procs
        BY TxType DEF TypeInv, Procs
    <2>1. CASE PopJob
        <3>1. ~Working
            BY <2>1 DEF PopJob, Working
        <3>2. tx'[Worker].todo = <<Head(jobs[WorkerTenant])>>
            BY <2>1, <2>a, PopFields
        <3>3. /\ jobs[WorkerTenant] \in Seq(Events) /\ jobs[WorkerTenant] # <<>>
              /\ jobs'[WorkerTenant] = Tail(jobs[WorkerTenant])
            BY <2>1, <2>a DEF PopJob, QueuePop, TypeOK
        <3> QED BY <3>1, <3>2, <3>3
    <2>2. CASE Restart
        <3>1. tx'[Worker] = Done /\ tx[Worker].step \in Steps \ {"idle"}
            BY <2>2, <2>a DEF Restart, Rests, Working, Transaction
        <3> QED BY <3>1, DoneFields DEF StepsLeft, Steps
    <2> QED BY <2>1, <2>2, WorkerAdvances, WorkerTouched
<1>2. Init => Rests
    BY DEF Init, Rests, Procs
<1> QED BY <1>1, <1>2, TypeInit, TypeStep, RestsStep, PTL DEF Spec, WorkerProgress

-----------------------------------------------------------------------------
(* An event is learned from once *)

\* An event whose row exists and which is past its enqueueing: nobody will queue
\* it any more. An undone one may be sent, accepted and queued again.
JustAccepted(h, e) == tx[h].step = "learn" /\ Head(tx[h].todo) = e

Settled(e) ==
    e \in stored \cup undone \/ \E h \in Handlers : e \in tx[h].rows /\ ~JustAccepted(h, e)

QueuedAt(t, i, e) == i \in DOMAIN jobs[t] /\ jobs[t][i] = e

Queued(e) == \E t \in Tenants : \E i \in Nat : QueuedAt(t, i, e)

AtWorker(e) ==
    \/ tx[Worker].step \in Learning /\ Head(tx[Worker].todo) = e
    \/ e \in tx[Worker].learned

QueuedOnce(e) ==
    \A t, u \in Tenants : \A i, j \in Nat : QueuedAt(t, i, e) /\ QueuedAt(u, j, e) => t = u /\ i = j

\* In the asynchronous mode an event is queued at most once, is then at the
\* worker, and then learned from; only settled events are anywhere.
OncePerEvent(e) ==
    /\ Queued(e) \/ AtWorker(e) \/ learnt[e] > 0 => Settled(e)
    /\ e \notin undone =>
         /\ QueuedOnce(e)
         /\ Queued(e) => learnt[e] = 0
         /\ AtWorker(e) => ~Queued(e) /\ learnt[e] = 0
         /\ learnt[e] <= 1

OnceInv ==
    \A e \in Events :
        IF async THEN OncePerEvent(e) ELSE learnt[e] <= 1 /\ (learnt[e] > 0 => e \in stored)

\* What is settled stays settled.
LEMMA SettledStays ==
    ASSUME TypeInv, LockInv, [Next]_vars, async, NEW e \in Events, Settled(e)
    PROVE  Settled(e)'
<1> USE DEF database, history
<1>a. TypeOK
    BY DEF TypeInv
<1>c. tx \in [Procs -> Transaction]
    BY <1>a, TxType
<1>h. Handlers \subseteq Procs /\ Worker \in Procs /\ Worker \notin Handlers
    BY DEF Procs
\* A step of one transaction which keeps its rows and has settled its packet.
<1>s. ASSUME NEW p \in Procs, NEW n, tx' = [tx EXCEPT ![p] = n], UNCHANGED <<stored, undone>>,
             \/ n.rows = tx[p].rows /\ n.step # "learn"
             \/ tx[p].rows = {}
      PROVE  Settled(e)'
    <2>1. \A q \in Procs : tx'[q] = IF q = p THEN n ELSE tx[q]
        BY <1>s, <1>c
    <2>2. CASE e \in stored \cup undone
        BY <1>s, <2>2 DEF Settled
    <2>3. ASSUME NEW h \in Handlers, e \in tx[h].rows, ~JustAccepted(h, e) PROVE Settled(e)'
        <3>1. e \in tx'[h].rows /\ ~JustAccepted(h, e)'
            BY <1>s, <1>h, <2>1, <2>3 DEF JustAccepted
        <3> QED BY <3>1 DEF Settled
    <2> QED BY <2>2, <2>3 DEF Settled
<1>0. CASE UNCHANGED vars
    BY <1>0 DEF vars, Settled, JustAccepted
<1>1. ASSUME NEW h \in Handlers, Send(h) PROVE Settled(e)'
    <2>1. PICK n \in Transaction : tx' = [tx EXCEPT ![h] = n]
        BY <1>1, <1>a, SendFields
    <2>2. tx[h].rows = {} /\ UNCHANGED <<stored, undone>>
        BY <1>1 DEF Send, LockInv, TidyBatch
    <2> QED BY <2>1, <2>2, <1>h, <1>s
<1>2. ASSUME NEW h \in Handlers, Accept(h) PROVE Settled(e)'
    <2>1. PICK n \in Transaction :
             /\ tx' = [tx EXCEPT ![h] = n]
             /\ n.step = "learn" /\ n.todo = tx[h].todo /\ n.rows = tx[h].rows \cup {Packet(h)}
        BY <1>2, <1>a, AcceptFields
    <2>2. Packet(h) \notin marker /\ UNCHANGED <<stored, undone>>
        BY <1>2 DEF Accept
    <2>3. \A q \in Procs : tx'[q] = IF q = h THEN n ELSE tx[q]
        BY <2>1, <1>c
    <2>4. CASE e \in stored \cup undone
        BY <2>2, <2>4 DEF Settled
    <2>5. ASSUME NEW g \in Handlers, e \in tx[g].rows, ~JustAccepted(g, e) PROVE Settled(e)'
        <3>1. CASE g = h
            <4>1. e # Packet(h)
                BY <2>2, <2>5, <3>1 DEF LockInv, TidyBatch
            <4>2. e \in tx'[g].rows /\ ~JustAccepted(g, e)'
                BY <1>h, <2>1, <2>3, <2>5, <3>1, <4>1 DEF JustAccepted, Packet
            <4> QED BY <4>2 DEF Settled
        <3>2. CASE g # h
            <4>1. e \in tx'[g].rows /\ ~JustAccepted(g, e)'
                BY <1>h, <2>3, <2>5, <3>2 DEF JustAccepted
            <4> QED BY <4>1 DEF Settled
        <3> QED BY <3>1, <3>2
    <2> QED BY <2>4, <2>5 DEF Settled
<1>3. ASSUME NEW h \in Handlers, Refuse(h) \/ Enqueue(h) PROVE Settled(e)'
    <2>0. /\ tx[h].todo # <<>> /\ tx' = [tx EXCEPT ![h] = NextPacket(tx[h])]
          /\ UNCHANGED <<stored, undone>>
        BY <1>3 DEF Refuse, Enqueue, TypeInv, AtHand, Learning, Procs
    <2>1. NextPacket(tx[h]).step = "packet" /\ NextPacket(tx[h]).rows = tx[h].rows
        BY <1>a, <1>h, <2>0, NextPacketFields
    <2> QED BY <2>0, <2>1, <1>h, <1>s
<1>4. ASSUME NEW p \in Procs, ReadProfile(p) PROVE Settled(e)'
    <2>1. PICK n \in Transaction :
             /\ tx' = [tx EXCEPT ![p] = n] /\ n.rows = tx[p].rows
             /\ n.step = "packet" \/ n.step \in {"insert", "update"}
        BY <1>4, ReadFields
    <2>2. UNCHANGED <<stored, undone>>
        BY <1>4 DEF ReadProfile
    <2> QED BY <2>1, <2>2, <1>s
<1>5. ASSUME NEW p \in Procs, InsertProfile(p) PROVE Settled(e)'
    <2>1. PICK n \in Transaction :
             /\ tx' = [tx EXCEPT ![p] = n] /\ n.rows = tx[p].rows
             /\ n.step = "packet" \/ n.step = "update"
        BY <1>5, InsertFields
    <2>2. UNCHANGED <<stored, undone>>
        BY <1>5 DEF InsertProfile
    <2> QED BY <2>1, <2>2, <1>s
<1>6. ASSUME NEW p \in Procs, UpdateProfile(p) PROVE Settled(e)'
    <2>1. PICK n \in Transaction :
             tx' = [tx EXCEPT ![p] = n] /\ n.rows = tx[p].rows /\ n.step = "packet"
        BY <1>6, UpdateFields
    <2>2. UNCHANGED <<stored, undone>>
        BY <1>6 DEF UpdateProfile
    <2> QED BY <2>1, <2>2, <1>s
<1>7. ASSUME NEW p \in Procs, Commit(p) \/ Fail(p) PROVE Settled(e)'
    <2>1. /\ tx' = [tx EXCEPT ![p] = Done] /\ stored \subseteq stored' /\ undone \subseteq undone'
          /\ tx[p].rows \subseteq stored' \cup undone'
        BY <1>7 DEF Commit, Fail
    <2>2. \A q \in Procs : tx'[q] = IF q = p THEN Done ELSE tx[q]
        BY <2>1, <1>c
    <2>3. CASE e \in stored \cup undone
        BY <2>1, <2>3 DEF Settled
    <2>4. ASSUME NEW g \in Handlers, e \in tx[g].rows, ~JustAccepted(g, e) PROVE Settled(e)'
        <3>1. CASE g = p
            BY <2>1, <2>4, <3>1 DEF Settled
        <3>2. CASE g # p
            <4>1. e \in tx'[g].rows /\ ~JustAccepted(g, e)'
                BY <1>h, <2>2, <2>4, <3>2 DEF JustAccepted
            <4> QED BY <4>1 DEF Settled
        <3> QED BY <3>1, <3>2
    <2> QED BY <2>3, <2>4 DEF Settled
<1>8. CASE PopJob
    <2>1. PICK n \in Transaction : tx' = [tx EXCEPT ![Worker] = n]
        BY <1>8, <1>a, PopFields
    <2>2. tx[Worker].rows = {} /\ UNCHANGED <<stored, undone>>
        BY <1>8 DEF PopJob, LockInv, TidyJob
    <2> QED BY <2>1, <2>2, <1>h, <1>s
<1>9. ASSUME NEW t \in Tenants, ExpireQueue(t) PROVE Settled(e)'
    BY <1>9 DEF ExpireQueue, Settled, JustAccepted
<1>10. CASE Restart
    <2>1. stored' = stored /\ undone \subseteq undone'
          /\ \A h \in Handlers : tx[h].rows \subseteq undone'
        BY <1>10, <1>h DEF Restart
    <2> QED BY <2>1 DEF Settled
<1> HIDE DEF database, history
<1> QED BY <1>0, <1>1, <1>2, <1>3, <1>4, <1>5, <1>6, <1>7, <1>8, <1>9, <1>10
        DEF Next, Handle, Learn

\* Fewer places keep an event's single one; what is undone stays undone.
LEMMA OnceKept ==
    ASSUME NEW e \in Events, OncePerEvent(e), Settled(e) => Settled(e)',
           undone \subseteq undone', learnt'[e] = learnt[e],
           \A t \in Tenants, i \in Nat : QueuedAt(t, i, e)' => QueuedAt(t, i, e),
           AtWorker(e)' => AtWorker(e)
    PROVE  OncePerEvent(e)'
<1>1. Queued(e)' => Queued(e)
    BY DEF Queued
<1>2. QueuedOnce(e) => QueuedOnce(e)'
    BY DEF QueuedOnce
<1> QED BY <1>1, <1>2 DEF OncePerEvent

LEMMA OnceStep == TypeInv /\ LockInv /\ OnceInv /\ [Next]_vars => OnceInv'
<1> SUFFICES ASSUME TypeInv, LockInv, OnceInv, [Next]_vars, NEW e \in Events
             PROVE  IF async' THEN OncePerEvent(e)'
                              ELSE learnt'[e] <= 1 /\ (learnt'[e] > 0 => e \in stored')
    BY DEF OnceInv
<1> USE DEF database, history
<1> DEFINE Goal == IF async' THEN OncePerEvent(e)'
                   ELSE learnt'[e] <= 1 /\ (learnt'[e] > 0 => e \in stored')
<1>a. TypeOK
    BY DEF TypeInv
<1>c. tx \in [Procs -> Transaction]
    BY <1>a, TxType
<1>h. Handlers \subseteq Procs /\ Worker \in Procs /\ Worker \notin Handlers
    BY DEF Procs
<1>e. async => (Settled(e) => Settled(e)')
    BY SettledStays
<1>l. learnt[e] \in Nat
    BY <1>a DEF TypeOK
<1>i. IF async THEN OncePerEvent(e) ELSE learnt[e] <= 1 /\ (learnt[e] > 0 => e \in stored)
    BY DEF OnceInv
\* A step that queues nothing, gives the worker nothing and teaches nothing.
<1>s. ASSUME UNCHANGED <<async, learnt>>, stored \subseteq stored', undone \subseteq undone',
             \A t \in Tenants, j \in Nat : QueuedAt(t, j, e)' => QueuedAt(t, j, e),
             AtWorker(e)' => AtWorker(e)
      PROVE  Goal
    <2>1. CASE async
        BY <1>e, <1>i, <1>s, <2>1, OnceKept
    <2>2. CASE ~async
        BY <1>i, <1>s, <2>2
    <2> QED BY <2>1, <2>2
\* A step of a handler.
<1>b. ASSUME NEW h \in Handlers, NEW n, tx' = [tx EXCEPT ![h] = n]
      PROVE  AtWorker(e)' => AtWorker(e)
    <2>1. tx'[Worker] = tx[Worker]
        BY <1>b, <1>h, <1>c
    <2> QED BY <2>1 DEF AtWorker
<1>q. jobs' = jobs => \A t \in Tenants, j \in Nat : QueuedAt(t, j, e)' => QueuedAt(t, j, e)
    BY DEF QueuedAt
<1>0. CASE UNCHANGED vars
    BY <1>0, <1>s, <1>q DEF vars, AtWorker
<1>1. ASSUME NEW h \in Handlers, Send(h) \/ Accept(h) \/ Refuse(h) PROVE Goal
    <2>1. \E n : tx' = [tx EXCEPT ![h] = n]
        <3>1. CASE Send(h)
            BY <3>1, <1>a, SendFields
        <3>2. CASE Accept(h)
            BY <3>2, <1>a, AcceptFields
        <3>3. CASE Refuse(h)
            BY <3>3 DEF Refuse
        <3> QED BY <1>1, <3>1, <3>2, <3>3
    <2>2. UNCHANGED <<async, learnt, stored, undone, jobs>>
        BY <1>1 DEF Send, Accept, Refuse
    <2> QED BY <2>1, <2>2, <1>b, <1>q, <1>s
<1>2. ASSUME NEW h \in Handlers, Enqueue(h) PROVE Goal
    <2> DEFINE t == Tenant(h)
               f == Packet(h)
    <2>0. /\ async /\ tx[h].step = "learn" /\ tx[h].todo # <<>>
          /\ tx' = [tx EXCEPT ![h] = NextPacket(tx[h])]
          /\ UNCHANGED <<async, learnt, stored, undone>>
        BY <1>2 DEF Enqueue, TypeInv, AtHand, Learning, Procs
    <2>1. AtWorker(e)' => AtWorker(e)
        BY <2>0, <1>b
    <2>2. jobs' = jobs \/ jobs' = [jobs EXCEPT ![t] = Append(jobs[t], f)]
        BY <1>2 DEF Enqueue, QueuePush, QueueDepth
    <2>3. CASE jobs' = jobs
        BY <2>0, <2>1, <2>3, <1>q, <1>s
    <2>4. CASE jobs' = [jobs EXCEPT ![t] = Append(jobs[t], f)]
        <3>1. f \in Events /\ t \in Tenants /\ jobs[t] \in Seq(Events) /\ jobs \in [Tenants -> Seq(Events)]
            BY <1>a, <1>h, <2>0, PacketType, TenantType DEF TypeOK
        <3> DEFINE k == Len(jobs[t]) + 1
        <3>2. \A u \in Tenants, i \in Nat :
                QueuedAt(u, i, e)' <=> QueuedAt(u, i, e) \/ (u = t /\ i = k /\ e = f)
            <4> SUFFICES ASSUME NEW u \in Tenants, NEW i \in Nat
                         PROVE  QueuedAt(u, i, e)' <=> QueuedAt(u, i, e) \/ (u = t /\ i = k /\ e = f)
                OBVIOUS
            <4>1. CASE u # t
                <5>1. jobs'[u] = jobs[u]
                    BY <2>4, <3>1, <4>1
                <5> QED BY <4>1, <5>1 DEF QueuedAt
            <4>2. CASE u = t
                <5>1. jobs'[u] = Append(jobs[t], f)
                    BY <2>4, <3>1, <4>2
                <5>2. /\ DOMAIN Append(jobs[t], f) = 1 .. k /\ DOMAIN jobs[t] = 1 .. Len(jobs[t])
                      /\ Append(jobs[t], f)[k] = f
                      /\ \A x \in 1 .. Len(jobs[t]) : Append(jobs[t], f)[x] = jobs[t][x]
                      /\ Len(jobs[t]) \in Nat
                    <6> HIDE DEF t, f
                    <6> QED BY <3>1, AppendProperties, LenProperties
                <5> HIDE DEF t, f
                <5> QED BY <4>2, <5>1, <5>2 DEF QueuedAt
            <4> QED BY <4>1, <4>2
        <3>3. CASE e # f
            BY <2>0, <2>1, <3>2, <3>3, <1>s
        <3>4. CASE e = f
            <4>1. e \in tx[h].rows /\ JustAccepted(h, e)
                BY <2>0, <3>4, LearningSteps DEF LockInv, TidyBatch, Packet, JustAccepted
            <4>2. e \notin stored
                BY <4>1 DEF LockInv, TidyBatch
            <4>3. \A g \in Handlers : e \in tx[g].rows => g = h
                <5> SUFFICES ASSUME NEW g \in Handlers, e \in tx[g].rows, g # h PROVE FALSE
                    OBVIOUS
                <5>1. SessionOf[e] = tx[g].header /\ SessionOf[e] = tx[h].header
                    BY <4>1 DEF LockInv, TidyBatch
                <5> QED BY <4>1, <5>1 DEF LockInv, Apart
            <4>4. Settled(e)'
                <5>1. /\ NextPacket(tx[h]).step = "packet" /\ NextPacket(tx[h]).rows = tx[h].rows
                    BY <1>a, <1>h, <2>0, NextPacketFields
                <5>2. tx'[h] = NextPacket(tx[h])
                    BY <2>0, <1>c, <1>h
                <5>3. e \in tx'[h].rows /\ ~JustAccepted(h, e)'
                    BY <4>1, <5>1, <5>2 DEF JustAccepted
                <5> QED BY <5>3 DEF Settled
            <4>5. ASSUME e \notin undone
                  PROVE  ~Queued(e) /\ ~AtWorker(e) /\ learnt[e] = 0
                <5>1. ~Settled(e)
                    BY <4>1, <4>2, <4>3, <4>5 DEF Settled
                <5> QED BY <5>1, <1>i, <1>l, <2>0 DEF OncePerEvent
            <4>6. ASSUME e \notin undone'
                  PROVE  /\ QueuedOnce(e)' /\ ~AtWorker(e)' /\ learnt'[e] = 0
                <5>1. ~Queued(e) /\ ~AtWorker(e) /\ learnt[e] = 0
                    BY <2>0, <4>5, <4>6
                <5>2. \A u \in Tenants, i \in Nat : QueuedAt(u, i, e)' => u = t /\ i = k
                    BY <3>2, <5>1 DEF Queued
                <5> QED BY <2>0, <2>1, <5>1, <5>2 DEF QueuedOnce
            <4>7. OncePerEvent(e)'
                BY <4>4, <4>6 DEF OncePerEvent
            <4> QED BY <2>0, <4>7
        <3> QED BY <3>3, <3>4
    <2> QED BY <2>2, <2>3, <2>4
<1>3. ASSUME NEW p \in Procs, ReadProfile(p) \/ InsertProfile(p) \/ UpdateProfile(p) PROVE Goal
    <2>0. /\ tx[p].step \in Learning /\ tx[p].todo # <<>>
          /\ UNCHANGED <<async, learnt, stored, undone, jobs>>
        BY <1>3 DEF ReadProfile, InsertProfile, UpdateProfile, Learns, TypeInv, AtHand, Learning
    <2>1. PICK n \in Transaction :
             /\ tx' = [tx EXCEPT ![p] = n]
             /\ n.step = "packet" \/ n.todo = tx[p].todo
             /\ n.learned = tx[p].learned \/ n.learned = tx[p].learned \cup {Packet(p)}
        <3>1. CASE ReadProfile(p)
            BY <3>1, ReadFields DEF Same
        <3>2. CASE InsertProfile(p)
            BY <3>2, InsertFields DEF Same
        <3>3. CASE UpdateProfile(p)
            BY <3>3, UpdateFields DEF Same
        <3> QED BY <1>3, <3>1, <3>2, <3>3
    <2>2. AtWorker(e)' => AtWorker(e)
        <3>1. CASE p = Worker
            <4>1. tx'[Worker] = n
                BY <2>1, <3>1, <1>c
            <4> QED BY <2>0, <2>1, <3>1, <4>1, LearningSteps DEF AtWorker, Packet
        <3>2. CASE p # Worker
            BY <2>1, <3>2, <1>b DEF Procs
        <3> QED BY <3>1, <3>2
    <2> QED BY <2>0, <2>2, <1>q, <1>s
<1>4. ASSUME NEW p \in Procs, Commit(p) PROVE Goal
    <2>0. /\ UNCHANGED <<async, undone, jobs>> /\ stored' = stored \cup tx[p].rows
          /\ tx' = [tx EXCEPT ![p] = Done] /\ tx[p].step = "packet"
          /\ learnt'[e] = IF e \in tx[p].learned THEN learnt[e] + 1 ELSE learnt[e]
        BY <1>4 DEF Commit, Recorded
    <2>w. tx'[Worker] = IF p = Worker THEN Done ELSE tx[Worker]
        BY <2>0, <1>c, <1>h
    <2>1. AtWorker(e)' => AtWorker(e)
        BY <2>w, DoneFields, LearningSteps DEF AtWorker
    <2>2. CASE e \notin tx[p].learned
        <3>1. CASE async
            BY <1>e, <1>i, <1>q, <2>0, <2>1, <2>2, <3>1, OnceKept
        <3>2. CASE ~async
            BY <1>i, <2>0, <2>2, <3>2
        <3> QED BY <3>1, <3>2
    <2>3. CASE e \in tx[p].learned /\ p \in Handlers
        <3>1. ~async /\ e \in tx[p].rows /\ e \notin stored
            BY <2>3 DEF LockInv, TidyBatch
        <3>2. learnt[e] = 0
            BY <1>i, <1>l, <3>1
        <3> QED BY <2>0, <2>3, <3>1, <3>2
    <2>4. CASE e \in tx[p].learned /\ p = Worker
        <3>1. async
            BY <2>0, <2>4 DEF LockInv, TidyJob
        <3>2. AtWorker(e)
            BY <2>4 DEF AtWorker
        <3>3. ~AtWorker(e)'
            BY <2>w, <2>4, DoneFields, LearningSteps DEF AtWorker
        <3>4. Settled(e)'
            BY <1>e, <1>i, <3>1, <3>2 DEF OncePerEvent
        <3>5. QueuedOnce(e)' <=> QueuedOnce(e)
            BY <2>0 DEF QueuedOnce, QueuedAt
        <3>6. Queued(e)' <=> Queued(e)
            BY <2>0 DEF Queued, QueuedAt
        <3>7. OncePerEvent(e)'
            BY <1>i, <2>0, <2>4, <3>1, <3>2, <3>3, <3>4, <3>5, <3>6 DEF OncePerEvent
        <3> QED BY <2>0, <3>1, <3>7
    <2> QED BY <2>2, <2>3, <2>4 DEF Procs
<1>5. ASSUME NEW p \in Procs, Fail(p) PROVE Goal
    <2>0. /\ UNCHANGED <<async, learnt, stored, jobs>> /\ undone \subseteq undone'
          /\ tx' = [tx EXCEPT ![p] = Done]
        BY <1>5 DEF Fail
    <2>1. AtWorker(e)' => AtWorker(e)
        <3>1. tx'[Worker] = IF p = Worker THEN Done ELSE tx[Worker]
            BY <2>0, <1>c, <1>h
        <3> QED BY <3>1, DoneFields, LearningSteps DEF AtWorker
    <2> QED BY <2>0, <2>1, <1>q, <1>s
<1>6. CASE PopJob
    <2> DEFINE w == jobs[WorkerTenant]
    <2>0. /\ async /\ UNCHANGED <<async, learnt, stored, undone>> /\ w # <<>>
          /\ jobs' = [jobs EXCEPT ![WorkerTenant] = Tail(w)]
          /\ tx[Worker].step = "idle"
        BY <1>6 DEF PopJob, QueuePop
    <2>1. w \in Seq(Events) /\ jobs \in [Tenants -> Seq(Events)]
        BY <1>a DEF TypeOK
    <2>2. PICK n \in Transaction :
             /\ tx' = [tx EXCEPT ![Worker] = n]
             /\ n.step = "learn" /\ n.learned = {} /\ n.todo = <<Head(w)>>
        BY <1>6, <1>a, PopFields
    <2>3. AtWorker(e)' <=> e = Head(w)
        <3>1. tx'[Worker] = n /\ Head(n.todo) = Head(w)
            BY <2>2, <1>c, <1>h
        <3> HIDE DEF w
        <3> QED BY <2>2, <3>1, LearningSteps DEF AtWorker
    <2>4. /\ Head(w) = w[1] /\ Len(w) \in Nat /\ Len(w) >= 1 /\ DOMAIN w = 1 .. Len(w)
          /\ DOMAIN Tail(w) = 1 .. Len(w) - 1
          /\ \A j \in 1 .. Len(w) - 1 : Tail(w)[j] = w[j + 1]
        <3> HIDE DEF w
        <3>1. Len(w) \in Nat /\ DOMAIN w = 1 .. Len(w) /\ Len(w) # 0
            BY <2>0, <2>1, LenProperties, EmptySeq
        <3> QED BY <2>0, <2>1, <3>1, HeadTailProperties, LenProperties
    <2>5. \A u \in Tenants, i \in Nat :
             QueuedAt(u, i, e)' => QueuedAt(u, IF u = WorkerTenant THEN i + 1 ELSE i, e)
        <3> SUFFICES ASSUME NEW u \in Tenants, NEW i \in Nat, QueuedAt(u, i, e)'
                     PROVE  QueuedAt(u, IF u = WorkerTenant THEN i + 1 ELSE i, e)
            OBVIOUS
        <3>1. CASE u = WorkerTenant
            <4>1. jobs'[u] = Tail(w) /\ jobs[u] = w
                BY <2>0, <2>1, <3>1
            <4> HIDE DEF w
            <4> QED BY <2>4, <3>1, <4>1 DEF QueuedAt
        <3>2. CASE u # WorkerTenant
            <4>1. jobs'[u] = jobs[u]
                BY <2>0, <2>1, <3>2
            <4> QED BY <3>2, <4>1 DEF QueuedAt
        <3> QED BY <3>1, <3>2
    <2>6. Queued(e)' => Queued(e)
        BY <2>5 DEF Queued
    <2>7. e = Head(w) => QueuedAt(WorkerTenant, 1, e)
        <3> QED BY <2>4 DEF QueuedAt
    <2>8. QueuedOnce(e) => QueuedOnce(e)'
        <3> SUFFICES ASSUME QueuedOnce(e), NEW u \in Tenants, NEW v \in Tenants,
                            NEW i \in Nat, NEW j \in Nat, QueuedAt(u, i, e)', QueuedAt(v, j, e)'
                     PROVE  u = v /\ i = j
            BY DEF QueuedOnce
        <3> DEFINE x == IF u = WorkerTenant THEN i + 1 ELSE i
                   y == IF v = WorkerTenant THEN j + 1 ELSE j
        <3>1. x \in Nat /\ y \in Nat /\ QueuedAt(u, x, e) /\ QueuedAt(v, y, e)
            BY <2>5
        <3>2. u = v /\ x = y
            BY <3>1 DEF QueuedOnce
        <3> QED BY <3>2
    <2>9. QueuedOnce(e) /\ e = Head(w) => ~Queued(e)'
        <3> SUFFICES ASSUME QueuedOnce(e), e = Head(w), NEW u \in Tenants, NEW i \in Nat,
                            QueuedAt(u, i, e)'
                     PROVE  FALSE
            BY DEF Queued
        <3> DEFINE x == IF u = WorkerTenant THEN i + 1 ELSE i
        <3>1. x \in Nat /\ QueuedAt(u, x, e) /\ QueuedAt(WorkerTenant, 1, e)
            BY <2>5, <2>7
        <3>2. u = WorkerTenant /\ x = 1
            BY <3>1 DEF QueuedOnce
        <3>3. i = 0
            BY <3>2
        <3>4. jobs'[u] = Tail(w)
            BY <2>0, <2>1, <3>2
        <3> HIDE DEF w
        <3> QED BY <2>4, <3>3, <3>4 DEF QueuedAt
    <2>10. OncePerEvent(e)
        BY <1>i, <2>0
    <2>11. AtWorker(e)' => Queued(e)
        BY <2>3, <2>7 DEF Queued
    <2>12. OncePerEvent(e)'
        <3> HIDE DEF w
        <3>1. (Queued(e) \/ AtWorker(e) \/ learnt[e] > 0 => Settled(e))'
            BY <1>e, <2>0, <2>6, <2>10, <2>11 DEF OncePerEvent
        <3>2. ASSUME e \notin undone'
              PROVE  /\ QueuedOnce(e)'
                     /\ Queued(e)' => learnt'[e] = 0
                     /\ AtWorker(e)' => ~Queued(e)' /\ learnt'[e] = 0
                     /\ learnt'[e] <= 1
            BY <2>0, <2>3, <2>6, <2>8, <2>9, <2>10, <2>11, <3>2 DEF OncePerEvent
        <3> QED BY <3>1, <3>2 DEF OncePerEvent
    <2> QED BY <2>0, <2>12
<1>7. ASSUME NEW t \in Tenants, ExpireQueue(t) PROVE Goal
    <2>1. jobs' = [jobs EXCEPT ![t] = <<>>] /\ UNCHANGED <<async, learnt, stored, undone, tx>>
        BY <1>7 DEF ExpireQueue
    <2>2. \A u \in Tenants, j \in Nat : QueuedAt(u, j, e)' => QueuedAt(u, j, e)
        <3>1. \A u \in Tenants : jobs'[u] = IF u = t THEN <<>> ELSE jobs[u]
            BY <2>1, <1>a DEF TypeOK
        <3>2. DOMAIN <<>> = {}
            OBVIOUS
        <3> QED BY <3>1, <3>2 DEF QueuedAt
    <2> QED BY <2>1, <2>2, <1>s DEF AtWorker
<1>8. CASE Restart
    <2>1. /\ jobs' = [t \in Tenants |-> <<>>] /\ tx'[Worker] = Done
          /\ UNCHANGED <<async, learnt, stored>> /\ undone \subseteq undone'
        BY <1>8, <1>h DEF Restart
    <2>2. \A u \in Tenants, j \in Nat : ~QueuedAt(u, j, e)'
        <3>1. DOMAIN <<>> = {}
            OBVIOUS
        <3> QED BY <2>1, <3>1 DEF QueuedAt
    <2>3. ~AtWorker(e)'
        BY <2>1, DoneFields, LearningSteps DEF AtWorker
    <2> QED BY <2>1, <2>2, <2>3, <1>s
<1> HIDE DEF database, history
<1> QED BY <1>0, <1>1, <1>2, <1>3, <1>4, <1>5, <1>6, <1>7, <1>8 DEF Next, Handle, Learn

LEMMA OnceInit == Init => OnceInv
<1> SUFFICES ASSUME Init, NEW e \in Events PROVE OncePerEvent(e) /\ learnt[e] = 0
    BY DEF OnceInv
<1>1. learnt[e] = 0 /\ tx[Worker] = Done /\ jobs = [t \in Tenants |-> <<>>]
    BY DEF Init, Procs
<1>2. ~AtWorker(e)
    BY <1>1, DoneFields, LearningSteps DEF AtWorker
<1>3. \A t \in Tenants, i \in Nat : ~QueuedAt(t, i, e)
    <2>1. DOMAIN <<>> = {}
        OBVIOUS
    <2> QED BY <1>1, <2>1 DEF QueuedAt
<1>4. ~Queued(e) /\ QueuedOnce(e)
    BY <1>3 DEF Queued, QueuedOnce
<1> QED BY <1>1, <1>2, <1>4 DEF OncePerEvent

LEMMA OnceInvariant == Spec => [](TypeInv /\ LockInv /\ OnceInv)
<1>1. Init => TypeInv /\ LockInv /\ OnceInv
    BY TypeInit, LockInit, OnceInit
<1>2. TypeInv /\ LockInv /\ OnceInv /\ [Next]_vars => (TypeInv /\ LockInv /\ OnceInv)'
    BY TypeStep, LockStep, OnceStep
<1> QED BY <1>1, <1>2, PTL DEF Spec

\* Through retries, failed batches, restarts and the queue, an event goes into a
\* baseline at most once, unless it was queued, undone and sent again.
THEOREM NothingLearnedTwice == Spec => []LearnedOnce
<1>1. TypeInv /\ OnceInv => LearnedOnce
    BY DEF TypeInv, TypeOK, OnceInv, OncePerEvent, LearnedOnce
<1> QED BY <1>1, OnceInvariant, PTL

\* "Valid telemetry is persisted; baselines update": without the queue, only
\* stored events are learned from; with it, also one of an open or undone batch.
THEOREM OnlyStoredIsLearned == Spec => []LearnedIsStored
<1>1. OnceInv => LearnedIsStored
    BY DEF OnceInv, OncePerEvent, Settled, LearnedIsStored
<1> QED BY <1>1, OnceInvariant, PTL
===============================================================================
