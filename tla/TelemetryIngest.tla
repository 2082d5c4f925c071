--------------------------- MODULE TelemetryIngest ---------------------------
(***************************************************************************)
(* Telemetry batches of one session: concurrent POST /telemetry handlers   *)
(* over the session's row and the event log in the database and the replay *)
(* markers, sequence and rate counters in Redis.                           *)
(*                                                                         *)
(* A handler processes the packets of its batch in order and commits once, *)
(* after the last. It loads the session row anew for each packet, as the   *)
(* row object is kept no longer than the packet. What it wrote to Redis is *)
(* there at once and stays when the transaction is rolled back. Redis is   *)
(* the in-memory fallback, whose calls never suspend: the checks of one    *)
(* packet against it are one step. (Under an external server, setnx is     *)
(* given an argument the client library does not have: every packet fails  *)
(* its replay check and is refused.)                                       *)
(*                                                                         *)
(* The behavioural update of an accepted packet is not modelled here; a    *)
(* failure of it that reaches the transaction is a Fail of the batch.      *)
(***************************************************************************)
EXTENDS Integers, Sequences, FiniteSets

CONSTANTS
    Requests,       \* the batches that can be in progress at once
    Events,         \* event ids
    Instances,      \* SDK instance ids
    None,           \* no SDK instance
    Batches,        \* the packets a client may send together, in order
    Misdirected,    \* the batches it may send under the header of another session
    SeqNo,          \* the sequence number an event carries
    Instance,       \* the SDK instance an event carries
    SessionLimit,   \* RATE_LIMIT_TELEMETRY_PER_SESSION_PER_MINUTE (60)
    MaxBatches      \* bounds how many batches are ever sent

ASSUME IngestAssumption ==
    /\ None \notin Instances
    /\ Batches \subseteq Seq(Events)
    /\ Misdirected \subseteq Batches
    /\ SeqNo \in [Events -> Nat]
    /\ Instance \in [Events -> Instances]
    /\ SessionLimit \in Nat
    /\ MaxBatches \in Nat

VARIABLES
    session,    \* the committed session row: ABSENT, LIVE (ACTIVE or PAUSED) or TERMINAL
    binding,    \* the SDK instance the committed row is bound to
    row,        \* the validation status of each committed event row
    marker,     \* the event ids with a replay marker in Redis
    lastSeq,    \* the last sequence number of each instance in Redis
    budget,     \* what the session's rate limit leaves of this minute
    req,        \* the local state of each handler
    told,       \* history: the events that a client was told are accepted
    left,       \* history: the events whose marker was left behind without a row
    forgot,     \* history: Redis lost a sequence number
    raced,      \* history: one binding was committed over another
    sent        \* the batches sent so far

vars == <<session, binding, row, marker, lastSeq, budget, req, told, left, forgot, raced, sent>>
redis == <<marker, lastSeq, budget>>
history == <<told, left, forgot, raced, sent>>

\* todo: packets left. foreign: the request's header names another session.
\* seen, bound: the session row as loaded for this packet. binds: the instance it
\* assigned to the row. valid, refused: the events it inserted. late: history, the
\* session has ended since the row was loaded.
Idle == [step |-> "idle", todo |-> <<>>, foreign |-> FALSE, seen |-> "ABSENT", bound |-> None,
         binds |-> None, valid |-> {}, refused |-> {}, late |-> FALSE]

Init ==
    /\ session = "ABSENT"
    /\ binding = None
    /\ row = [e \in Events |-> "NONE"]
    /\ marker = {}
    /\ lastSeq = [i \in Instances |-> 0]
    /\ budget = SessionLimit
    /\ req = [r \in Requests |-> Idle]
    /\ told = {}
    /\ left = {}
    /\ forgot = FALSE
    /\ raced = FALSE
    /\ sent = 0

Packet(r) == Head(req[r].todo)

\* The record of a handler that is done with its packet.
NextPacket(q) == [q EXCEPT !.step = "load", !.todo = Tail(@),
                           !.seen = "ABSENT", !.bound = None, !.late = FALSE]

\* An accepted packet updates the session row, which stays locked until the
\* transaction ends.
HoldsRow(r) == req[r].valid # {}

-----------------------------------------------------------------------------
(* One batch *)

\* The tenant's rate limit, checked first, changes nothing that is modelled.
Send(r) ==
    /\ req[r].step = "idle"
    /\ \E b \in Batches, f \in BOOLEAN :
          /\ f => b \in Misdirected
          /\ req' = [req EXCEPT ![r] = [Idle EXCEPT !.step = "load", !.todo = b, !.foreign = f]]
    /\ sent < MaxBatches /\ sent' = sent + 1
    /\ UNCHANGED <<session, binding, row, redis, told, left, forgot, raced>>

\* The session is looked up; the transaction sees its own binding.
Load(r) ==
    /\ req[r].step = "load" /\ req[r].todo # <<>>
    /\ req' = [req EXCEPT ![r].step = "check", ![r].seen = session,
                          ![r].bound = IF req[r].binds = None THEN binding ELSE req[r].binds]
    /\ UNCHANGED <<session, binding, row, redis, history>>

\* Mutant: the session's status is not checked.
RefusableByBinding(r) ==
    \/ req[r].seen = "ABSENT"
    \/ req[r].foreign
    \/ req[r].bound \notin {None, Instance[Packet(r)]}

\* Mutant: the session's SDK binding is not checked.
RefusableByStatus(r) == req[r].seen # "LIVE" \/ req[r].foreign

\* The session is unknown or terminal, not the header's, or bound to another SDK
\* instance.
Refusable(r) ==
    \/ req[r].seen # "LIVE"
    \/ req[r].foreign
    \/ req[r].bound \notin {None, Instance[Packet(r)]}

\* Mutant: the session's limit is counted and not enforced.
ScreenUnlimited(r) ==
    /\ req[r].step = "check" /\ ~Refusable(r)
    /\ budget' = budget - 1
    /\ req' = [req EXCEPT ![r] = NextPacket(@)]
    /\ UNCHANGED <<session, binding, row, marker, lastSeq, history>>

\* Mutant: the sequence number is compared and not stored.
ScreenKeepsSequence(r) ==
    /\ req[r].step = "check" /\ ~Refusable(r) /\ budget > 0
    /\ budget' = budget - 1
    /\ LET e == Packet(r) IN
         /\ e \notin marker
         /\ marker' = marker \cup {e}
         /\ IF SeqNo[e] > lastSeq[Instance[e]]
            THEN req' = [req EXCEPT ![r].step = "store"] /\ UNCHANGED left
            ELSE req' = [req EXCEPT ![r] = NextPacket(@)] /\ left' = left \cup {e}
    /\ UNCHANGED <<session, binding, row, lastSeq, told, forgot, raced, sent>>

\* The packet counts against the session's rate limit. Then its event id is
\* checked against the replay markers and its number against the sequence; a
\* regression leaves its marker. Over the limit there is only Fail, with 429.
Screen(r) ==
    /\ req[r].step = "check" /\ ~Refusable(r) /\ budget > 0
    /\ budget' = budget - 1
    /\ LET e == Packet(r)  i == Instance[e] IN
         \/ /\ e \in marker
            /\ req' = [req EXCEPT ![r] = NextPacket(@)]
            /\ UNCHANGED <<marker, lastSeq, left>>
         \/ /\ e \notin marker /\ SeqNo[e] <= lastSeq[i]
            /\ marker' = marker \cup {e} /\ left' = left \cup {e}
            /\ req' = [req EXCEPT ![r] = NextPacket(@)]
            /\ UNCHANGED lastSeq
         \/ /\ e \notin marker /\ SeqNo[e] > lastSeq[i]
            /\ marker' = marker \cup {e}
            /\ lastSeq' = [lastSeq EXCEPT ![i] = SeqNo[e]]
            /\ req' = [req EXCEPT ![r].step = "store"]
            /\ UNCHANGED left
    /\ UNCHANGED <<session, binding, row, told, forgot, raced, sent>>

\* The packet is stored as rejected, unless its event id has a row. The insert
\* waits for a transaction that has inserted the same event id.
RecordRejected(r) ==
    LET e == Packet(r)  next == NextPacket(req[r]) IN
      /\ \A q \in Requests \ {r} : e \notin req[q].valid \cup req[q].refused
      /\ req' = [req EXCEPT ![r] =
             IF row[e] = "NONE" /\ e \notin next.valid
             THEN [next EXCEPT !.refused = @ \cup {e}] ELSE next]

\* A packet for a session that does not take it is refused, and, once it is
\* counted, one with another schema version, a stale time stamp or too large a
\* payload (any packet may turn out so).
Refuse(r) ==
    /\ req[r].step = "check"
    /\ \/ Refusable(r) /\ UNCHANGED budget
       \/ ~Refusable(r) /\ budget > 0 /\ budget' = budget - 1
    /\ RecordRejected(r)
    /\ UNCHANGED <<session, binding, row, marker, lastSeq, history>>

\* Mutant: a packet that is refused after its marker is set gets no row.
RefuseTagUnrecorded(r) ==
    /\ req[r].step = "store"
    /\ req' = [req EXCEPT ![r] = NextPacket(@)]
    /\ UNCHANGED <<session, binding, row, redis, history>>

\* The comparison of the integrity tag raises (any packet's tag may have a
\* character outside ASCII): the packet is refused, its marker and its sequence
\* number stay.
RefuseTag(r) ==
    /\ req[r].step = "store"
    /\ RecordRejected(r)
    /\ UNCHANGED <<session, binding, row, redis, history>>

\* The instance that the session's row is assigned, once this packet is stored.
BindSdkInstance(r) == IF req[r].bound = None THEN Instance[Packet(r)] ELSE req[r].binds

\* Mutant: the event log has no unique index on the event id.
StoreAgain(r) ==
    /\ req[r].step = "store"
    /\ \A q \in Requests \ {r} : ~HoldsRow(q)
    /\ req' = [req EXCEPT ![r] = [NextPacket(req[r]) EXCEPT !.valid = @ \cup {Packet(r)}]]
    /\ UNCHANGED <<session, binding, row, redis, history>>

\* An unbound session is bound, the event inserted and last_seen_at updated. When
\* the event id has a row, the insert violates the unique index and takes the
\* whole batch down (Fail).
Store(r) ==
    /\ req[r].step = "store"
    /\ \A q \in Requests \ {r} : ~HoldsRow(q)
    /\ LET e == Packet(r)  next == NextPacket(req[r]) IN
         /\ row[e] = "NONE" /\ e \notin req[r].valid
         /\ \A q \in Requests : e \notin req[q].refused
         /\ req' = [req EXCEPT ![r] =
                [next EXCEPT !.valid = @ \cup {e},
                             !.binds = BindSdkInstance(r)]]
    /\ UNCHANGED <<session, binding, row, redis, history>>

\* The transaction is committed and the answer sent, which may be lost.
Commit(r) ==
    /\ req[r].step = "load" /\ req[r].todo = <<>>
    /\ row' = [e \in Events |-> IF e \in req[r].valid THEN "VALID"
                                ELSE IF e \in req[r].refused THEN "REJECTED" ELSE row[e]]
    /\ binding' = IF req[r].binds = None THEN binding ELSE req[r].binds
    /\ raced' = (raced \/ (req[r].binds # None /\ binding # None /\ binding # req[r].binds))
    /\ told' \in {told, told \cup req[r].valid}
    /\ req' = [req EXCEPT ![r] = Idle]
    /\ UNCHANGED <<session, redis, left, forgot, sent>>

\* The events that a handler has passed through the checks and may commit as valid.
Uncommitted(q) == {e \in Events : e \in q.valid \/ (q.step = "store" /\ e = Head(q.todo))}

\* 429, or any exception that leaves the batch: the transaction is rolled back,
\* the markers of its events stay.
Fail(r) ==
    /\ req[r].step # "idle"
    /\ req' = [req EXCEPT ![r] = Idle]
    /\ left' = left \cup (marker \cap (Uncommitted(req[r]) \cup req[r].refused))
    /\ UNCHANGED <<session, binding, row, redis, told, forgot, raced, sent>>

-----------------------------------------------------------------------------
(* The session, time, and the process *)

\* POST /sessions, with or without an SDK instance.
Register ==
    /\ session = "ABSENT"
    /\ session' = "LIVE"
    /\ binding' \in Instances \cup {None}
    /\ UNCHANGED <<row, redis, req, history>>

\* A PATCH or an ISOLATE decision ends the session, a PATCH revives it. The
\* UPDATE waits for a batch that holds the row.
EndSession ==
    /\ session = "LIVE" /\ \A r \in Requests : ~HoldsRow(r)
    /\ session' = "TERMINAL"
    /\ req' = [r \in Requests |-> [req[r] EXCEPT !.late = req[r].seen = "LIVE"]]
    /\ UNCHANGED <<binding, row, redis, history>>

ReviveSession ==
    /\ session = "TERMINAL" /\ \A r \in Requests : ~HoldsRow(r)
    /\ session' = "LIVE"
    /\ UNCHANGED <<binding, row, redis, req, history>>

\* The rate counter is kept per minute.
NewMinute ==
    /\ budget' = SessionLimit
    /\ UNCHANGED <<session, binding, row, marker, lastSeq, req, history>>

\* Replay markers expire after 24 hours, a sequence number after 1 hour.
ExpireMarker(e) ==
    /\ e \in marker
    /\ marker' = marker \ {e} /\ left' = left \ {e}
    /\ UNCHANGED <<session, binding, row, lastSeq, budget, req, told, forgot, raced, sent>>

ExpireSequence(i) ==
    /\ lastSeq[i] > 0
    /\ lastSeq' = [lastSeq EXCEPT ![i] = 0]
    /\ forgot' = TRUE
    /\ UNCHANGED <<session, binding, row, marker, budget, req, told, left, raced, sent>>

\* The process restarts: its handlers and the in-memory state are gone.
Restart ==
    /\ req' = [r \in Requests |-> Idle]
    /\ marker' = {} /\ left' = {}
    /\ lastSeq' = [i \in Instances |-> 0]
    /\ budget' = SessionLimit
    /\ forgot' = TRUE
    /\ UNCHANGED <<session, binding, row, told, raced, sent>>

Batch(r) ==
    \/ Send(r) \/ Load(r) \/ Screen(r) \/ Refuse(r) \/ RefuseTag(r)
    \/ Store(r) \/ Commit(r) \/ Fail(r)

Next ==
    \/ \E r \in Requests : Batch(r)
    \/ Register \/ EndSession \/ ReviveSession
    \/ NewMinute
    \/ \E e \in Events : ExpireMarker(e)
    \/ \E i \in Instances : ExpireSequence(i)
    \/ Restart

Spec == Init /\ [][Next]_vars

-----------------------------------------------------------------------------
(* Properties *)

TypeOK ==
    /\ session \in {"ABSENT", "LIVE", "TERMINAL"}
    /\ binding \in Instances \cup {None}
    /\ row \in [Events -> {"NONE", "VALID", "REJECTED"}]
    /\ marker \subseteq Events
    /\ lastSeq \in [Instances -> Nat]
    /\ budget \in 0 .. SessionLimit
    /\ req \in [Requests ->
           [step : {"idle", "load", "check", "store"}, todo : Seq(Events),
            foreign : BOOLEAN, seen : {"ABSENT", "LIVE", "TERMINAL"},
            bound : Instances \cup {None}, binds : Instances \cup {None},
            valid : SUBSET Events, refused : SUBSET Events, late : BOOLEAN]]
    /\ told \subseteq Events
    /\ left \subseteq marker
    /\ forgot \in BOOLEAN
    /\ raced \in BOOLEAN
    /\ sent \in 0 .. MaxBatches

\* The event log as the ledger sees it.
Ledger == INSTANCE TelemetryLedger WITH verdict <- row, acked <- told

(***************************************************************************)
(* The event log is a ledger: through failed batches, lost answers, resent *)
(* batches and a Redis that forgets, an event gets one verdict, keeps it,  *)
(* and is reported as accepted only when it is stored as valid.            *)
(***************************************************************************)
LedgerSpec == Ledger!Spec

\* A handler may still commit event e as valid.
Pending(e) == \E r \in Requests : e \in Uncommitted(req[r])

\* A handler may still commit event e, as valid or as rejected.
Held(e) == Pending(e) \/ \E r \in Requests : e \in req[r].refused

(***************************************************************************)
(* "Sequence monotonicity": as long as Redis remembers, an event passes    *)
(* the sequence check only with a number above those of all events of its  *)
(* SDK instance that are stored or about to be, whatever batch they came   *)
(* in. (Two batches may still store their events in another order.)        *)
(***************************************************************************)
Admits(r, e) == req[r].step = "check" /\ req'[r].step = "store" /\ Packet(r) = e

InOrder ==
    [][\A r \in Requests, e, f \in Events :
          /\ ~forgot /\ Admits(r, e) /\ Instance[f] = Instance[e]
          /\ row[f] = "VALID" \/ Pending(f)
          => SeqNo[f] < SeqNo[e]]_vars

(***************************************************************************)
(* "Session existence and state": an event is accepted for a terminal      *)
(* session only when the session ended between the check of that very      *)
(* packet and its insert.                                                  *)
(***************************************************************************)
Accepts(r, e) == e \in req'[r].valid /\ e \notin req[r].valid

AcceptedLateOnlyInProgress ==
    [][\A r \in Requests, e \in Events :
          session = "TERMINAL" /\ Accepts(r, e) => req[r].late]_vars

(***************************************************************************)
(* "Tenant/binding": every accepted event is of the SDK instance that the  *)
(* session is bound to, unless two batches of different instances found    *)
(* the session unbound and the later commit replaced the binding.          *)
(***************************************************************************)
OneInstanceUnlessRaced ==
    ~raced => \A e \in Events : row[e] = "VALID" => binding = Instance[e]

(***************************************************************************)
(* "Replayed event IDs will already exist": an event that is found to be a *)
(* duplicate has a row, or a handler is about to store it.                 *)
(***************************************************************************)
FoundDuplicate(r, e) ==
    req[r].step = "check" /\ Packet(r) = e /\ e \in marker /\
    req'[r] = NextPacket(req[r])

DuplicateIsStored ==
    [][\A r \in Requests, e \in Events :
          FoundDuplicate(r, e) => row[e] # "NONE" \/ Held(e)]_vars

(***************************************************************************)
(* What that comment leaves out, and nothing else: a replay marker without *)
(* a row belongs to an event that a batch is about to store, or it was     *)
(* left behind, by a batch that failed after its event had passed or by a  *)
(* number below the last one. Nothing else makes a resent event a          *)
(* duplicate of one that was never stored.                                 *)
(***************************************************************************)
MarkersAccountedFor ==
    \A e \in marker \ left : row[e] # "NONE" \/ Held(e)
==============================================================================
