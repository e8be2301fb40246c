---------------------------- MODULE EventStream ----------------------------
(***************************************************************************)
(* The event stream: the engine's sequence numbers, subscribers and their  *)
(* bounded queues (emitLocked, Subscribe in internal/engine/engine.go),    *)
(* the WebSocket handler of each consumer (events in                       *)
(* internal/api/server.go), and the replica a consumer keeps from the      *)
(* frames it is sent.                                                      *)
(*                                                                         *)
(* An engine operation holds the mutex until its last event is sent, and   *)
(* the handlers receive meanwhile: the operation puts its events in outbox,*)
(* each Emit is one call of emitLocked, and whatever needs the mutex waits *)
(* for outbox to be empty.                                                 *)
(***************************************************************************)
EXTENDS Engine, Sequences

CONSTANTS
    Consumer,        \* WebSocket consumers
    MaxSubscribers,  \* Limits.MaxSubscribers
    QueueSize,       \* Limits.QueueSize
    SeqModulus       \* bound: sequence numbers wrap here, not at 2^64

ASSUME StreamAssumption ==
    /\ MaxSubscribers \in Nat \ {0}
    /\ QueueSize \in Nat \ {0}
    /\ SeqModulus \in Nat /\ SeqModulus > QueueSize + 1

VARIABLES
    sequence,    \* the engine's sequence number
    outbox,      \* events of the running operation still to be emitted
    subscribed,  \* consumers registered in e.subscribers
    queue,       \* the events in each consumer's channel
    session,     \* the state of each consumer's handler
    replica,     \* the clients as each consumer was told of them
    seen         \* the sequence of the last state frame sent to each consumer

streamVars == <<sequence, outbox, subscribed, queue, session, replica, seen>>
allVars == <<vars, streamVars>>

-----------------------------------------------------------------------------
View == [state : Presence, conns : [Conns -> Link]]

\* An event without a client is told from one with any.
ASSUME ViewAssumption == None \notin View

publicClient(c) == [state |-> state[c], conns |-> conns[c]]
Unlisted == [state |-> "none", conns |-> NoConns]
Sequence == 0..(SeqModulus - 1)
Plus(n, i) == (n + i) % SeqModulus

\* What an event says, and a frame: an event under its sequence number.
Data ==
    [type : {"client.presence_changed", "client.updated"}, about : Client, view : View]
        \cup [type : {"client.removed"}, about : Client, view : {None}]
        \cup [type : {"provider.status", "state.resynchronized"},
              about : Provider, view : {None}]

Numbered(d, n) ==
    [type |-> d.type, about |-> d.about, view |-> d.view, seq |-> n]

Message == {Numbered(d, n) : d \in Data, n \in Sequence}

(* The type invariant of the stream, with the limits of the subscribers and *)
(* of their queues.                                                         *)
StreamTypeOK ==
    /\ sequence \in Sequence
    /\ outbox \in Seq(Data)
    /\ subscribed \subseteq Consumer /\ IsFiniteSet(subscribed)
    /\ Cardinality(subscribed) <= MaxSubscribers
    /\ queue \in [Consumer -> Seq(Message)]
    /\ \A q \in Consumer : Len(queue[q]) <= QueueSize
    /\ session \in [Consumer -> {"out", "joining", "streaming"}]
    /\ replica \in [Consumer -> [Client -> View]]
    /\ seen \in [Consumer -> Sequence]

NoReplica == [c \in Client |-> Unlisted]

StreamInit ==
    /\ Init
    /\ sequence = 0
    /\ outbox = <<>>
    /\ subscribed = {}
    /\ queue = [q \in Consumer |-> <<>>]
    /\ session = [q \in Consumer |-> "out"]
    /\ replica = [q \in Consumer |-> NoReplica]
    /\ seen = [q \in Consumer |-> 0]

-----------------------------------------------------------------------------
(***************************************************************************)
(* Emission.  Evictions and provider reports come first, then the clients  *)
(* in map order, then the resynchronization.  An event of a client carries *)
(* the client as the operation leaves it.                                  *)
(***************************************************************************)
Turn(e) ==
    CASE e.type \in {"client.removed", "provider.status"} -> 1
      [] e.type = "state.resynchronized"                  -> 3
      [] OTHER                                            -> 2

Orders(S) ==
    {f \in [1..Cardinality(S) -> S] :
        \A i, j \in 1..Cardinality(S) :
            i < j => f[i] # f[j] /\ Turn(f[i]) <= Turn(f[j])}

\* Seeded fault: the client is published before the operation updates it.
FaultyDataOf(e) ==
    [type |-> e.type, about |-> e.about,
     view |-> IF e.type \in {"client.presence_changed", "client.updated"}
                THEN publicClient(e.about)
                ELSE None]

DataOf(e) ==
    [type |-> e.type, about |-> e.about,
     view |-> IF e.type \in {"client.presence_changed", "client.updated"}
                THEN publicClient(e.about)'
                ELSE None]

Operation ==
    /\ outbox = <<>>
    /\ Next
    /\ \E order \in Orders(emitted') :
         outbox' = [i \in DOMAIN order |-> DataOf(order[i])]
    /\ UNCHANGED <<sequence, subscribed, queue, session, replica, seen>>

Full == {q \in subscribed : Len(queue[q]) >= QueueSize}

\* Seeded fault: a slow subscriber is kept without the event.
LossyKept == subscribed

\* A subscriber whose queue is full is dropped and its channel closed.
Kept == subscribed \ Full

Emit ==
    /\ outbox # <<>>
    /\ sequence' = Plus(sequence, 1)
    /\ outbox' = Tail(outbox)
    /\ queue' = [q \in Consumer |->
         IF q \in subscribed \ Full
           THEN Append(queue[q], Numbered(Head(outbox), sequence')) ELSE queue[q]]
    /\ subscribed' = Kept
    /\ emitted' = {}
    /\ UNCHANGED <<state, conns, age, pending, providers, evidence>>
    /\ UNCHANGED <<session, replica, seen>>

-----------------------------------------------------------------------------
(***************************************************************************)
(* The handler of one consumer.  Subscribe captures the state and          *)
(* registers the queue under the mutex; the upgrade may still fail; the    *)
(* snapshot is sent before anything from the queue.                        *)
(***************************************************************************)
Subscribe(q) ==
    /\ session[q] = "out"
    /\ HasAuthoritativeSnapshot(WiFi)
    /\ outbox = <<>>
    /\ Cardinality(subscribed) < MaxSubscribers
    /\ subscribed' = subscribed \cup {q}
    /\ session' = [session EXCEPT ![q] = "joining"]
    /\ replica' = [replica EXCEPT ![q] = [c \in Client |-> publicClient(c)]]
    /\ seen' = [seen EXCEPT ![q] = sequence]
    /\ UNCHANGED <<vars, sequence, outbox, queue>>

SendSnapshot(q) ==
    /\ session[q] = "joining"
    /\ session' = [session EXCEPT ![q] = "streaming"]
    /\ UNCHANGED <<vars, sequence, outbox, subscribed, queue, replica, seen>>

\* What a consumer does with an event.
ApplyEvent(r, m) ==
    CASE m.type = "client.removed" -> [r EXCEPT ![m.about] = Unlisted]
      [] m.view # None             -> [r EXCEPT ![m.about] = m.view]
      [] OTHER                     -> r

SendEvent(q) ==
    /\ session[q] = "streaming"
    /\ queue[q] # <<>>
    /\ LET m == Head(queue[q])
       IN  /\ replica' = [replica EXCEPT ![q] = ApplyEvent(@, m)]
           /\ seen' = [seen EXCEPT ![q] = m.seq]
    /\ queue' = [queue EXCEPT ![q] = Tail(@)]
    /\ UNCHANGED <<vars, sequence, outbox, subscribed, session>>

EndSession(q) ==
    /\ session' = [session EXCEPT ![q] = "out"]
    /\ queue' = [queue EXCEPT ![q] = <<>>]
    /\ replica' = [replica EXCEPT ![q] = NoReplica]
    /\ seen' = [seen EXCEPT ![q] = 0]
    /\ UNCHANGED <<vars, sequence, outbox>>

\* Seeded fault: the closed channel goes unnoticed and the handler waits on.
FaultyCloseDropped(q) ==
    /\ session[q] = "streaming" /\ queue[q] = <<>> /\ q \notin subscribed
    /\ UNCHANGED allVars

\* The channel was closed and is drained: the handler closes the stream.
CloseDropped(q) ==
    /\ session[q] = "streaming"
    /\ queue[q] = <<>>
    /\ q \notin subscribed
    /\ EndSession(q)
    /\ UNCHANGED subscribed

\* The upgrade or a write fails, or the consumer leaves; cancel unregisters.
Cancel(q) ==
    /\ session[q] # "out"
    /\ outbox = <<>>
    /\ subscribed' = subscribed \ {q}
    /\ EndSession(q)

-----------------------------------------------------------------------------
Handler(q) ==
    \/ Subscribe(q) \/ SendSnapshot(q) \/ SendEvent(q)
    \/ CloseDropped(q) \/ Cancel(q)

StreamNext ==
    \/ Operation
    \/ Emit
    \/ \E q \in Consumer : Handler(q)

(***************************************************************************)
(* Fairness: an operation emits all its events, and a handler, each of     *)
(* whose writes has a deadline, gets on with its queue.                    *)
(***************************************************************************)
StreamFairness ==
    /\ WF_allVars(Emit)
    /\ \A q \in Consumer :
        WF_allVars(SendSnapshot(q) \/ SendEvent(q) \/ CloseDropped(q))

StreamSpec == StreamInit /\ [][StreamNext]_allVars /\ StreamFairness

-----------------------------------------------------------------------------
(* What the queue and the running operation still hold for a consumer.      *)
Due(q) == queue[q] \o outbox

LastAbout(ms, c) ==
    LET S == {i \in 1..Len(ms) : ms[i].type \in ClientEventType /\ ms[i].about = c}
    IN  CHOOSE i \in S \cup {0} : \A j \in S : j <= i

\* What the consumer will hold of c once it has received all of ms.
Replayed(q, ms, c) ==
    LET i == LastAbout(ms, c)
    IN  IF i = 0 THEN replica[q][c]
        ELSE IF ms[i].type = "client.removed" THEN Unlisted ELSE ms[i].view

(* A consumer that stays subscribed ends up with the engine's view of every *)
(* client's presence: neither the race of its snapshot with the events, nor *)
(* the limits, nor an event left out by an operation make it diverge.       *)
PresenceReplayed ==
    \A q \in subscribed, c \in Client :
        Replayed(q, Due(q), c).state = state[c]

(* The events sent to a consumer are numbered without a gap from its        *)
(* snapshot on, also in what a dropped consumer still receives; and a       *)
(* registered consumer is owed every event up to the engine's sequence.     *)
GapFree ==
    \A q \in Consumer : session[q] # "out" =>
        /\ \A i \in 1..Len(queue[q]) : queue[q][i].seq = Plus(seen[q], i)
        /\ q \in subscribed => sequence = Plus(seen[q], Len(queue[q]))

(* A consumer dropped for being slow is told: its stream is closed, after   *)
(* the events it is still owed.                                             *)
DroppedIsClosed ==
    \A q \in Consumer :
        (session[q] # "out" /\ q \notin subscribed) ~> (session[q] = "out")
=============================================================================
