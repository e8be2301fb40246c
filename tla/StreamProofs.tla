---------------------------- MODULE StreamProofs ----------------------------
(***************************************************************************)
(* What the consumers of the event stream can rely on, for every number of *)
(* consumers, every limit of the queues and every modulus of the sequence  *)
(* numbers: the numbering has no gap, and what a subscribed consumer has   *)
(* been sent and is still owed leads it to the engine's presences.         *)
(***************************************************************************)
EXTENDS EventStream, EngineStepProofs, SequenceTheorems

-----------------------------------------------------------------------------
(***************************************************************************)
(* Replaying.  Believed(s, c, v, w): who believes that the presence of c   *)
(* is v believes that it is w after the events s.  The last event about c  *)
(* is named by its index, so nothing is computed along the sequence.       *)
(***************************************************************************)
IsAbout(m, c) == m.type \in ClientEventType /\ m.about = c
Told(m) == IF m.type = "client.removed" THEN "none" ELSE m.view.state
After(m, c, w) == IF IsAbout(m, c) THEN Told(m) ELSE w

Silent(s, c) == \A j \in 1..Len(s) : ~IsAbout(s[j], c)

LastIs(s, c, i) ==
    IsAbout(s[i], c) /\ \A j \in 1..Len(s) : j > i => ~IsAbout(s[j], c)

Believed(s, c, v, w) ==
    \/ Silent(s, c) /\ w = v
    \/ \E i \in 1..Len(s) : LastIs(s, c, i) /\ Told(s[i]) = w

(* Nothing is learnt from no event.                                         *)
LEMMA BelievedNone ==
    ASSUME NEW c, NEW v, NEW w
    PROVE  Believed(<<>>, c, v, w) <=> w = v
BY DEF Believed, Silent

(* One more event is believed last.                                         *)
LEMMA BelievedAppend ==
    ASSUME NEW S, NEW s \in Seq(S), NEW m \in S, NEW c, NEW v, NEW w,
           Believed(s, c, v, w)
    PROVE  Believed(Append(s, m), c, v, After(m, c, w))
<1> DEFINE t == Append(s, m)
           n == Len(s)
<1>1. /\ n \in Nat /\ Len(t) = n + 1 /\ t[n + 1] = m
      /\ \A i \in 1..n : t[i] = s[i]
    BY AppendProperties, LenProperties
<1> HIDE DEF t, n
<1>2. CASE IsAbout(m, c)
    <2>1. n + 1 \in 1..Len(t) /\ LastIs(t, c, n + 1)
        BY <1>1, <1>2 DEF LastIs
    <2>2. Told(t[n + 1]) = After(m, c, w)
        BY <1>1, <1>2 DEF After
    <2> QED BY <2>1, <2>2 DEF Believed, t
<1>3. CASE ~IsAbout(m, c)
    <2>1. After(m, c, w) = w
        BY <1>3 DEF After
    <2>2. CASE Silent(s, c) /\ w = v
        <3>1. Silent(t, c)
            BY <1>1, <1>3, <2>2 DEF Silent, n
        <3> QED BY <2>1, <2>2, <3>1 DEF Believed, t
    <2>3. ASSUME NEW i \in 1..n, LastIs(s, c, i), Told(s[i]) = w
          PROVE  Believed(t, c, v, w)
        <3>1. i \in 1..Len(t) /\ t[i] = s[i]
            BY <1>1
        <3>2. LastIs(t, c, i)
            BY <1>1, <1>3, <2>3, <3>1 DEF LastIs, n
        <3> QED BY <2>3, <3>1, <3>2 DEF Believed
    <2> QED BY <2>1, <2>2, <2>3 DEF Believed, n, t
<1> QED BY <1>2, <1>3

(* The first event is believed before the others.                           *)
LEMMA BelievedTail ==
    ASSUME NEW S, NEW s \in Seq(S), s # <<>>, NEW c, NEW v, NEW w,
           Believed(s, c, v, w)
    PROVE  Believed(Tail(s), c, After(Head(s), c, v), w)
<1> DEFINE t == Tail(s)
           n == Len(s)
<1>1. /\ n \in Nat \ {0} /\ Len(t) = n - 1
      /\ \A i \in 1..Len(t) : t[i] = s[i + 1]
    BY HeadTailProperties, LenProperties, EmptySeq
<1>2. Head(s) = s[1]
    OBVIOUS
<1> HIDE DEF t, n
<1>3. CASE Silent(s, c) /\ w = v
    <2>1. Silent(t, c)
        BY <1>1, <1>3 DEF Silent, n
    <2>2. After(Head(s), c, v) = v
        BY <1>1, <1>2, <1>3 DEF After, Silent, n
    <2> QED BY <1>3, <2>1, <2>2 DEF Believed, t
<1>4. ASSUME NEW i \in 1..n, LastIs(s, c, i), Told(s[i]) = w
      PROVE  Believed(t, c, After(Head(s), c, v), w)
    <2>1. CASE i = 1
        <3>1. Silent(t, c)
            BY <1>1, <1>4, <2>1 DEF Silent, LastIs, n
        <3>2. After(Head(s), c, v) = w
            BY <1>2, <1>4, <2>1 DEF After, LastIs
        <3> QED BY <3>1, <3>2 DEF Believed
    <2>2. CASE i # 1
        <3> DEFINE j == i - 1
        <3>1. j \in 1..Len(t) /\ t[j] = s[i]
            BY <1>1, <2>2
        <3>2. LastIs(t, c, j)
            BY <1>1, <1>4, <3>1 DEF LastIs, n
        <3> HIDE DEF j
        <3> QED BY <1>4, <3>1, <3>2 DEF Believed
    <2> QED BY <2>1, <2>2
<1> QED BY <1>3, <1>4 DEF Believed, n, t

(* Two sequences are believed one after the other.                          *)
LEMMA BelievedConcat ==
    ASSUME NEW S, NEW s \in Seq(S), NEW t \in Seq(S),
           NEW c, NEW v, NEW w, NEW x,
           Believed(s, c, v, w), Believed(t, c, w, x)
    PROVE  Believed(s \o t, c, v, x)
<1> DEFINE r == s \o t
           m == Len(s)
           n == Len(t)
<1>1. /\ m \in Nat /\ n \in Nat /\ Len(r) = m + n
      /\ \A i \in 1..(m + n) : r[i] = IF i <= m THEN s[i] ELSE t[i - m]
    BY ConcatProperties, LenProperties
<1> HIDE DEF r, m, n
<1>2. ASSUME NEW i \in 1..n, LastIs(t, c, i), Told(t[i]) = x
      PROVE  Believed(r, c, v, x)
    <2> DEFINE j == m + i
    <2>1. j \in 1..Len(r) /\ r[j] = t[i]
        BY <1>1
    <2>2. LastIs(r, c, j)
        BY <1>1, <1>2, <2>1 DEF LastIs, n
    <2> HIDE DEF j
    <2> QED BY <1>2, <2>1, <2>2 DEF Believed
<1>3. CASE Silent(t, c) /\ x = w
    <2>1. CASE Silent(s, c) /\ w = v
        <3>1. Silent(r, c)
            BY <1>1, <1>3, <2>1 DEF Silent, m, n
        <3> QED BY <1>3, <2>1, <3>1 DEF Believed, r
    <2>2. ASSUME NEW i \in 1..m, LastIs(s, c, i), Told(s[i]) = w
          PROVE  Believed(r, c, v, x)
        <3>1. i \in 1..Len(r) /\ r[i] = s[i]
            BY <1>1
        <3>2. ASSUME NEW j \in 1..Len(r), j > i PROVE ~IsAbout(r[j], c)
            <4>1. CASE j <= m
                BY <1>1, <2>2, <3>2, <4>1 DEF LastIs, m
            <4>2. CASE j > m
                <5>1. j - m \in 1..n /\ r[j] = t[j - m]
                    BY <1>1, <4>2
                <5> QED BY <1>3, <5>1 DEF Silent, n
            <4> QED BY <1>1, <4>1, <4>2
        <3>3. LastIs(r, c, i)
            BY <2>2, <3>1, <3>2 DEF LastIs
        <3> QED BY <1>3, <2>2, <3>1, <3>3 DEF Believed
    <2> QED BY <2>1, <2>2 DEF Believed, m, r
<1> QED BY <1>2, <1>3 DEF Believed, n, r

(* Where the last event about a client is.                                  *)
LEMMA LastAboutFacts ==
    ASSUME NEW S, NEW ms \in Seq(S), NEW c
    PROVE  /\ Silent(ms, c) => LastAbout(ms, c) = 0
           /\ \A i \in 1..Len(ms) :
                LastIs(ms, c, i) => LastAbout(ms, c) = i /\ i # 0
<1> DEFINE n == Len(ms)
           R == {i \in 1..n : ms[i].type \in ClientEventType /\ ms[i].about = c}
<1>1. n \in Nat
    BY LenProperties
<1>2. LastAbout(ms, c) = CHOOSE i \in R \cup {0} : \A j \in R : j <= i
    BY DEF LastAbout
<1>3. ASSUME Silent(ms, c) PROVE LastAbout(ms, c) = 0
    <2>1. R = {}
        BY <1>3 DEF Silent, IsAbout
    <2> QED BY <1>2, <2>1
<1>4. ASSUME NEW i \in 1..n, LastIs(ms, c, i)
      PROVE  LastAbout(ms, c) = i /\ i # 0
    <2>1. i \in R /\ \A j \in R : j <= i
        BY <1>1, <1>4 DEF LastIs, IsAbout
    <2>2. \A k \in R \cup {0} : (\A j \in R : j <= k) => k = i
        BY <1>1, <2>1
    <2> HIDE DEF R
    <2>3. i \in R \cup {0} /\ i # 0
        BY <2>1
    <2> DEFINE P(k) == \A j \in R : j <= k
    <2>4. P(i) /\ \A k \in R \cup {0} : P(k) => k = i
        BY <2>1, <2>2
    <2>5. LastAbout(ms, c) = CHOOSE k \in R \cup {0} : P(k)
        BY <1>2
    <2> HIDE DEF P
    <2> QED BY <2>3, <2>4, <2>5
<1> QED BY <1>3, <1>4

-----------------------------------------------------------------------------
(* Frames.                                                                 *)

(* The parts of an event and of a frame.                                    *)
LEMMA DataFacts ==
    ASSUME NEW d \in Data
    PROVE  /\ d.type \in ClientEventType => d.about \in Client
           /\ d.type \in {"client.presence_changed", "client.updated"} =>
                d.view \in View
           /\ d.type \notin {"client.presence_changed", "client.updated"} =>
                d.view = None
BY DEF Data, ClientEventType

LEMMA NumberedFacts ==
    ASSUME NEW d \in Data, NEW n \in Sequence
    PROVE  /\ Numbered(d, n) \in Message
           /\ Numbered(d, n).seq = n
           /\ \A c, w : After(Numbered(d, n), c, w) = After(d, c, w)
BY DEF Numbered, Message, After, IsAbout, Told

LEMMA MessageFacts ==
    ASSUME NEW m \in Message
    PROVE  /\ m.seq \in Sequence
           /\ m.type \in ClientEventType => m.about \in Client
           /\ m.type \in {"client.presence_changed", "client.updated"} =>
                m.view \in View
           /\ m.type \notin {"client.presence_changed", "client.updated"} =>
                m.view = None
<1>1. PICK d \in Data, n \in Sequence : m = Numbered(d, n)
    BY DEF Message
<1>2. m.type = d.type /\ m.about = d.about /\ m.view = d.view /\ m.seq = n
    BY <1>1 DEF Numbered
<1> QED BY <1>2, DataFacts

(* A consumer that applies a frame believes what the frame says.            *)
LEMMA AppliedIsBelieved ==
    ASSUME NEW r \in [Client -> View], NEW m \in Message
    PROVE  /\ ApplyEvent(r, m) \in [Client -> View]
           /\ \A c \in Client :
                ApplyEvent(r, m)[c].state = After(m, c, r[c].state)
<1>1. Unlisted \in View /\ Unlisted.state = "none"
    BY NoConnsFacts DEF Unlisted, View, Presence
<1>2. CASE m.type = "client.removed"
    BY <1>1, <1>2, MessageFacts DEF ApplyEvent, After, Told, IsAbout, ClientEventType
<1>3. CASE m.type \in {"client.presence_changed", "client.updated"}
    <2>1. m.view # None /\ m.view \in View /\ m.about \in Client
        BY <1>3, MessageFacts, ViewAssumption DEF ClientEventType
    <2>2. ApplyEvent(r, m) = [r EXCEPT ![m.about] = m.view]
        BY <1>3, <2>1 DEF ApplyEvent
    <2> QED BY <1>3, <2>1, <2>2 DEF After, Told, IsAbout, ClientEventType
<1>4. CASE m.type \notin ClientEventType
    <2>1. ApplyEvent(r, m) = r
        BY <1>4, MessageFacts DEF ApplyEvent, ClientEventType
    <2> QED BY <1>4, <2>1 DEF After, IsAbout
<1> QED BY <1>2, <1>3, <1>4 DEF ClientEventType

-----------------------------------------------------------------------------
(* Operations.                                                             *)

(* The events of an operation are finitely many.                            *)
LEMMA EventsFinite == IsFiniteSet(Event)
<1> DEFINE Types == ClientEventType \cup {"provider.status", "state.resynchronized"}
           Abouts == Client \cup Provider
           Pair == [x \in Types \X Abouts |-> [type |-> x[1], about |-> x[2]]]
           Pairs == [type : Types, about : Abouts]
<1>1. IsFiniteSet(Types) /\ IsFiniteSet(Provider)
    <2>1. \A x, y : IsFiniteSet({x, y})
        <3> TAKE x, y
        <3>1. IsFiniteSet({x} \cup {y})
            BY FS_Singleton, FS_AddElement
        <3> QED BY <3>1
    <2>2. IsFiniteSet(ClientEventType)
        <3>1. IsFiniteSet({"client.presence_changed", "client.updated"} \cup {"client.removed"})
            BY <2>1, FS_AddElement
        <3> QED BY <3>1 DEF ClientEventType
    <2> QED BY <2>1, <2>2, FS_Union DEF Provider
<1>2. IsFiniteSet(Abouts)
    BY <1>1, FS_Union, ClientAssumption
<1>3. IsFiniteSet(Types \X Abouts)
    BY <1>1, <1>2, FS_Product
<1>4. Pair \in Surjection(Types \X Abouts, Pairs)
    <2>1. Pair \in [Types \X Abouts -> Pairs]
        OBVIOUS
    <2>2. ASSUME NEW p \in Pairs PROVE \E x \in Types \X Abouts : Pair[x] = p
        <3>1. <<p.type, p.about>> \in Types \X Abouts
            OBVIOUS
        <3>2. Pair[<<p.type, p.about>>] = p
            OBVIOUS
        <3> QED BY <3>1, <3>2
    <2> QED BY <2>1, <2>2 DEF Surjection
<1>5. IsFiniteSet(Pairs)
    BY <1>3, <1>4, FS_Surjection
<1>6. Event \subseteq Pairs
    BY DEF Event
<1> QED BY <1>5, <1>6, FS_Subset

(* An order of finitely many events has each of them, once.                 *)
LEMMA OrdersFacts ==
    ASSUME NEW S, IsFiniteSet(S), NEW order \in Orders(S)
    PROVE  /\ Cardinality(S) \in Nat
           /\ order \in [1..Cardinality(S) -> S]
           /\ \A i, j \in 1..Cardinality(S) : order[i] = order[j] => i = j
           /\ \A e \in S : \E i \in 1..Cardinality(S) : order[i] = e
<1> DEFINE n == Cardinality(S)
<1>1. n \in Nat
    BY FS_CardinalityType
<1>2. /\ order \in [1..n -> S]
      /\ \A i, j \in 1..n : i < j => order[i] # order[j]
    BY DEF Orders
<1> HIDE DEF n
<1>3. \A i, j \in 1..n : order[i] = order[j] => i = j
    BY <1>1, <1>2
<1>4. ASSUME NEW e \in S PROVE \E i \in 1..n : order[i] = e
    <2> SUFFICES ASSUME \A i \in 1..n : order[i] # e PROVE FALSE
        OBVIOUS
    <2> DEFINE T == S \ {e}
               D == 1..n
    <2>1. order \in [D -> T]
        BY <1>2
    <2>2. IsFiniteSet(T) /\ Cardinality(T) = n - 1
        BY FS_RemoveElement DEF n
    <2>3. IsFiniteSet(D) /\ Cardinality(D) = n
        BY <1>1, FS_Interval
    <2>4. Cardinality(T) < Cardinality(D)
        BY <1>1, <2>2, <2>3
    <2> HIDE DEF T, D
    <2>5. \E i, j \in D : i # j /\ order[i] = order[j]
        BY <2>1, <2>2, <2>3, <2>4, FS_PigeonHole
    <2> QED BY <1>3, <2>5 DEF D
<1> QED BY <1>1, <1>2, <1>3, <1>4 DEF n

(* An event of an operation is published as an event.                       *)
LEMMA DataOfFacts ==
    ASSUME TypeOK', NEW e \in Event
    PROVE  /\ DataOf(e) \in Data
           /\ DataOf(e).type = e.type /\ DataOf(e).about = e.about
           /\ e.type \in {"client.presence_changed", "client.updated"} =>
                DataOf(e).view.state = state'[e.about]
<1>1. \A c \in Client : publicClient(c)' \in View /\ publicClient(c)'.state = state'[c]
    BY DEF publicClient, View, TypeOK
<1>2. CASE e \in [type : {"client.presence_changed", "client.updated"}, about : Client]
    <2>1. DataOf(e) = [type |-> e.type, about |-> e.about, view |-> publicClient(e.about)']
        BY <1>2 DEF DataOf
    <2> HIDE DEF publicClient
    <2> QED BY <1>1, <1>2, <2>1 DEF Data
<1>3. CASE \/ e \in [type : {"client.removed"}, about : Client]
           \/ e \in [type : {"provider.status", "state.resynchronized"}, about : Provider]
    <2>1. DataOf(e) = [type |-> e.type, about |-> e.about, view |-> None]
        BY <1>3 DEF DataOf
    <2> QED BY <1>3, <2>1 DEF Data
<1> QED BY <1>2, <1>3 DEF Event, ClientEventType

(* What an operation puts in the outbox leads from the presences before it  *)
(* to those after it.                                                       *)
LEMMA OperationIsBelieved ==
    ASSUME TypeOK, Operation
    PROVE  /\ TypeOK' /\ outbox' \in Seq(Data)
           /\ \A c \in Client : Believed(outbox', c, state[c], state'[c])
<1>1. TypeOK' /\ emitted' \in SUBSET Event
    <2>1. TypeOK'
        BY TypeNext DEF Operation
    <2> QED BY <2>1 DEF TypeOK
<1> DEFINE S == emitted'
           n == Cardinality(S)
<1>2. IsFiniteSet(S)
    BY <1>1, EventsFinite, FS_Subset
<1>3. PICK order \in Orders(S) : outbox' = [i \in DOMAIN order |-> DataOf(order[i])]
    BY DEF Operation
<1>4. /\ n \in Nat /\ order \in [1..n -> S]
      /\ \A i, j \in 1..n : order[i] = order[j] => i = j
      /\ \A e \in S : \E i \in 1..n : order[i] = e
    BY <1>2, OrdersFacts
<1> HIDE DEF n
<1>5. /\ outbox' = [i \in 1..n |-> DataOf(order[i])]
      /\ \A i \in 1..n : order[i] \in Event
    BY <1>1, <1>3, <1>4
<1>6. \A i \in 1..n : outbox'[i] = DataOf(order[i]) /\ outbox'[i] \in Data
    BY <1>1, <1>5, DataOfFacts
<1>7. outbox' \in Seq(Data) /\ Len(outbox') = n
    <2>1. outbox' \in [1..n -> Data]
        BY <1>5, <1>6
    <2> QED BY <1>4, <2>1, SeqDef
<1>8. ASSUME NEW c \in Client PROVE Believed(outbox', c, state[c], state'[c])
    <2>1. Announced(c)
        BY AnnouncedNext DEF Operation
    <2>2. \A i \in 1..n : IsAbout(outbox'[i], c) <=> order[i] \in EventsAbout(c)
        BY <1>1, <1>4, <1>5, <1>6, DataOfFacts DEF IsAbout, EventsAbout
    <2>3. CASE EventsAbout(c) = {}
        <3>1. state'[c] = state[c]
            BY <2>1, <2>3 DEF Announced, ClientEvent
        <3>2. Silent(outbox', c)
            BY <1>7, <2>2, <2>3 DEF Silent
        <3> QED BY <3>1, <3>2 DEF Believed
    <2>4. CASE EventsAbout(c) # {}
        <3>1. PICK type \in ClientEventType :
                /\ EventsAbout(c) = {[type |-> type, about |-> c]}
                /\ type = "client.removed" => state'[c] = "none"
            BY <2>1, <2>4 DEF Announced, ClientEvent, ClientEventType
        <3> DEFINE e == [type |-> type, about |-> c]
        <3>2. e \in S /\ e.type = type /\ e.about = c
            BY <3>1 DEF EventsAbout
        <3> HIDE DEF e
        <3>3. PICK i \in 1..n : order[i] = e
            BY <1>4, <3>2
        <3>4. \A j \in 1..n : IsAbout(outbox'[j], c) <=> j = i
            BY <1>4, <2>2, <3>1, <3>3 DEF e
        <3>5. LastIs(outbox', c, i)
            BY <1>4, <1>7, <3>4 DEF LastIs
        <3>6. outbox'[i].type = type /\
              (type \in {"client.presence_changed", "client.updated"} =>
                 outbox'[i].view.state = state'[c])
            BY <1>1, <1>5, <1>6, <3>2, <3>3, DataOfFacts
        <3>7. Told(outbox'[i]) = state'[c]
            BY <3>1, <3>6 DEF Told, ClientEventType
        <3> QED BY <1>7, <3>5, <3>7 DEF Believed
    <2> QED BY <2>3, <2>4
<1> QED BY <1>1, <1>7, <1>8

-----------------------------------------------------------------------------
(* Types.                                                                  *)

(* Sequence numbers are numbers below the modulus.                          *)
LEMMA PlusFacts ==
    ASSUME NEW a \in Sequence, NEW i \in 0..(QueueSize + 1)
    PROVE  /\ Plus(a, i) \in Sequence
           /\ Plus(a, 0) = a
           /\ \A j \in 0..(QueueSize + 1) :
                i + j <= QueueSize + 1 => Plus(Plus(a, i), j) = Plus(a, i + j)
<1> DEFINE M == SeqModulus
<1>1. M \in Nat /\ QueueSize \in Nat /\ M > QueueSize + 1 /\ a \in 0..(M - 1)
    BY StreamAssumption DEF Sequence
<1> HIDE DEF M
<1>2. \A x \in 0..(M - 1) : x % M = x
    BY <1>1
<1>3. \A x \in 0..(M - 1) : (x + M) % M = x
    BY <1>1
<1>4. \A x \in 0..(2 * M - 1) : x % M = IF x < M THEN x ELSE x - M
    <2> SUFFICES ASSUME NEW x \in 0..(2 * M - 1), x >= M PROVE x % M = x - M
        BY <1>1, <1>2
    <2>1. x - M \in 0..(M - 1) /\ (x - M) + M = x
        BY <1>1
    <2> QED BY <1>3, <2>1
<1>5. \A x \in 0..(M - 1), k \in 0..(QueueSize + 1) :
        Plus(x, k) = IF x + k < M THEN x + k ELSE x + k - M
    BY <1>1, <1>4 DEF Plus, M
<1> QED BY <1>1, <1>5 DEF Sequence, M

(* One call of emitLocked.                                                  *)
LEMMA EmitFacts ==
    ASSUME StreamTypeOK, Emit
    PROVE  /\ Head(outbox) \in Data /\ outbox' \in Seq(Data)
           /\ sequence' \in Sequence
           /\ Numbered(Head(outbox), sequence') \in Message
           /\ subscribed' \subseteq subscribed
           /\ \A q \in Consumer \ subscribed' : queue'[q] = queue[q]
           /\ \A q \in subscribed' :
                /\ Len(queue[q]) < QueueSize
                /\ queue'[q] = Append(queue[q], Numbered(Head(outbox), sequence'))
                /\ queue'[q] \in Seq(Message)
                /\ Len(queue'[q]) = Len(queue[q]) + 1
<1>1. Head(outbox) \in Data /\ outbox' \in Seq(Data)
    BY HeadTailProperties DEF StreamTypeOK, Emit
<1>2. sequence' \in Sequence
    BY PlusFacts, StreamAssumption DEF StreamTypeOK, Emit
<1>3. Numbered(Head(outbox), sequence') \in Message
    BY <1>1, <1>2, NumberedFacts
<1>4. subscribed' = subscribed \ Full
    BY DEF Emit, Kept
<1>5. \A q \in Consumer :
        queue'[q] = IF q \in subscribed'
                      THEN Append(queue[q], Numbered(Head(outbox), sequence'))
                      ELSE queue[q]
    BY <1>4 DEF Emit
<1>6. ASSUME NEW q \in subscribed'
      PROVE  /\ Len(queue[q]) < QueueSize
             /\ queue'[q] = Append(queue[q], Numbered(Head(outbox), sequence'))
             /\ queue'[q] \in Seq(Message)
             /\ Len(queue'[q]) = Len(queue[q]) + 1
    <2>1. q \in Consumer /\ queue[q] \in Seq(Message) /\ Len(queue[q]) \in Nat
        BY <1>4, LenProperties DEF StreamTypeOK
    <2>2. Len(queue[q]) < QueueSize
        BY <1>4, <2>1, StreamAssumption DEF Full
    <2>3. queue'[q] = Append(queue[q], Numbered(Head(outbox), sequence'))
        BY <1>5, <2>1
    <2> QED BY <1>3, <2>1, <2>2, <2>3, AppendProperties
<1> QED BY <1>1, <1>2, <1>3, <1>4, <1>5, <1>6

(* One event sent by the handler of a consumer.                             *)
LEMMA SendEventFacts ==
    ASSUME StreamTypeOK, NEW q \in Consumer, SendEvent(q)
    PROVE  /\ Head(queue[q]) \in Message
           /\ Head(queue[q]) = queue[q][1]
           /\ queue'[q] = Tail(queue[q])
           /\ queue'[q] \in Seq(Message)
           /\ Len(queue[q]) \in Nat \ {0}
           /\ Len(queue'[q]) = Len(queue[q]) - 1
           /\ \A i \in 1..Len(queue'[q]) : queue'[q][i] = queue[q][i + 1]
           /\ replica'[q] = ApplyEvent(replica[q], Head(queue[q]))
           /\ replica'[q] \in [Client -> View]
           /\ seen'[q] = Head(queue[q]).seq
           /\ \A p \in Consumer \ {q} :
                queue'[p] = queue[p] /\ replica'[p] = replica[p] /\ seen'[p] = seen[p]
<1>1. /\ queue[q] \in Seq(Message) /\ queue[q] # <<>>
      /\ queue'[q] = Tail(queue[q])
      /\ replica[q] \in [Client -> View]
      /\ replica'[q] = ApplyEvent(replica[q], Head(queue[q]))
      /\ seen'[q] = Head(queue[q]).seq
    BY DEF SendEvent, StreamTypeOK
<1>2. \A p \in Consumer \ {q} :
        queue'[p] = queue[p] /\ replica'[p] = replica[p] /\ seen'[p] = seen[p]
    BY DEF SendEvent, StreamTypeOK
<1>3. /\ Head(queue[q]) \in Message /\ Head(queue[q]) = queue[q][1]
      /\ queue'[q] \in Seq(Message)
      /\ Len(queue[q]) \in Nat \ {0}
      /\ Len(queue'[q]) = Len(queue[q]) - 1
      /\ \A i \in 1..Len(queue'[q]) : queue'[q][i] = queue[q][i + 1]
    BY <1>1, HeadTailProperties, EmptySeq
<1>4. replica'[q] \in [Client -> View]
    BY <1>1, <1>3, AppliedIsBelieved
<1> QED BY <1>1, <1>2, <1>3, <1>4

(* The handler's steps other than sending an event.                         *)
LEMMA NoReplicaFacts == NoReplica \in [Client -> View]
BY NoConnsFacts DEF NoReplica, Unlisted, View, Presence

LEMMA StreamTypeInit == StreamInit => TypeOK /\ StreamTypeOK
<1> SUFFICES ASSUME StreamInit PROVE TypeOK /\ StreamTypeOK
    OBVIOUS
<1>1. TypeOK
    BY TypeInit DEF StreamInit
<1>2. 0 \in Sequence
    BY StreamAssumption DEF Sequence
<1>3. IsFiniteSet({}) /\ Cardinality({}) <= MaxSubscribers
    BY FS_EmptySet, StreamAssumption
<1>4. queue \in [Consumer -> Seq(Message)] /\ \A q \in Consumer : Len(queue[q]) <= QueueSize
    BY EmptySeq, StreamAssumption DEF StreamInit
<1> QED BY <1>1, <1>2, <1>3, <1>4, NoReplicaFacts DEF StreamInit, StreamTypeOK

LEMMA TypeEmit ==
    ASSUME TypeOK, StreamTypeOK, Emit
    PROVE  TypeOK' /\ StreamTypeOK'
<1>1. TypeOK'
    BY DEF TypeOK, Emit
<1>2. subscribed' \in SUBSET subscribed
    BY EmitFacts
<1>3. IsFiniteSet(subscribed') /\ Cardinality(subscribed') <= Cardinality(subscribed)
    BY <1>2, FS_Subset DEF StreamTypeOK
<1>4. Cardinality(subscribed') <= MaxSubscribers
    BY <1>3, FS_CardinalityType, StreamAssumption DEF StreamTypeOK
<1>5. \A q \in Consumer : queue'[q] \in Seq(Message) /\ Len(queue'[q]) <= QueueSize
    <2> TAKE q \in Consumer
    <2>1. CASE q \in subscribed'
        <3>1. Len(queue[q]) \in Nat
            BY LenProperties DEF StreamTypeOK
        <3> QED BY <2>1, <3>1, EmitFacts, StreamAssumption
    <2>2. CASE q \notin subscribed'
        BY <2>2, EmitFacts DEF StreamTypeOK
    <2> QED BY <2>1, <2>2
<1>6. queue' \in [Consumer -> Seq(Message)]
    <2>1. queue' = [q \in Consumer |-> queue'[q]]
        BY DEF Emit
    <2> QED BY <1>5, <2>1
<1>7. UNCHANGED <<session, replica, seen>>
    BY DEF Emit
<1> QED BY <1>1, <1>2, <1>3, <1>4, <1>5, <1>6, <1>7, EmitFacts DEF StreamTypeOK

LEMMA TypeSubscribe ==
    ASSUME TypeOK, StreamTypeOK, NEW q \in Consumer, Subscribe(q)
    PROVE  TypeOK' /\ StreamTypeOK'
<1>1. TypeOK'
    BY DEF TypeOK, Subscribe, vars
<1>2. /\ subscribed' \subseteq Consumer /\ IsFiniteSet(subscribed')
      /\ Cardinality(subscribed') <= MaxSubscribers
    <2>1. Cardinality(subscribed) \in Nat /\ IsFiniteSet(subscribed)
        BY FS_CardinalityType DEF StreamTypeOK
    <2>2. /\ subscribed' = subscribed \cup {q}
          /\ Cardinality(subscribed) < MaxSubscribers
        BY DEF Subscribe
    <2>3. /\ IsFiniteSet(subscribed')
          /\ Cardinality(subscribed') <= Cardinality(subscribed) + 1
        BY <2>1, <2>2, FS_AddElement
    <2>4. Cardinality(subscribed') \in Nat
        BY <2>3, FS_CardinalityType
    <2> QED BY <2>1, <2>2, <2>3, <2>4, StreamAssumption DEF StreamTypeOK
<1>3. [c \in Client |-> publicClient(c)] \in [Client -> View]
    BY DEF publicClient, View, TypeOK
<1>4. /\ session' \in [Consumer -> {"out", "joining", "streaming"}]
      /\ replica' \in [Consumer -> [Client -> View]]
      /\ seen' \in [Consumer -> Sequence]
    BY <1>3 DEF Subscribe, StreamTypeOK
<1> QED BY <1>1, <1>2, <1>4 DEF Subscribe, StreamTypeOK

LEMMA TypeSendEvent ==
    ASSUME TypeOK, StreamTypeOK, NEW q \in Consumer, SendEvent(q)
    PROVE  TypeOK' /\ StreamTypeOK'
<1>1. TypeOK'
    BY DEF TypeOK, SendEvent, vars
<1>2. queue'[q] \in Seq(Message) /\ Len(queue'[q]) <= QueueSize
    BY SendEventFacts, StreamAssumption DEF StreamTypeOK
<1>3. /\ queue' \in [Consumer -> Seq(Message)]
      /\ \A p \in Consumer : Len(queue'[p]) <= QueueSize
    <2>1. queue' = [queue EXCEPT ![q] = queue'[q]]
        BY SendEventFacts DEF SendEvent, StreamTypeOK
    <2> QED BY <1>2, <2>1 DEF StreamTypeOK
<1>4. replica' \in [Consumer -> [Client -> View]] /\ seen' \in [Consumer -> Sequence]
    <2>1. /\ replica' = [replica EXCEPT ![q] = replica'[q]]
          /\ seen' = [seen EXCEPT ![q] = seen'[q]]
        BY SendEventFacts DEF SendEvent, StreamTypeOK
    <2>2. replica'[q] \in [Client -> View] /\ seen'[q] \in Sequence
        BY SendEventFacts, MessageFacts
    <2> QED BY <2>1, <2>2 DEF StreamTypeOK
<1> QED BY <1>1, <1>3, <1>4 DEF SendEvent, StreamTypeOK

LEMMA TypeEndSession ==
    ASSUME TypeOK, StreamTypeOK, NEW q \in Consumer, EndSession(q),
           subscribed' \in {subscribed, subscribed \ {q}}
    PROVE  TypeOK' /\ StreamTypeOK'
<1>1. TypeOK'
    BY DEF TypeOK, EndSession, vars
<1>2. /\ subscribed' \subseteq Consumer /\ IsFiniteSet(subscribed')
      /\ Cardinality(subscribed') <= MaxSubscribers
    <2>1. /\ subscribed' \in SUBSET subscribed /\ IsFiniteSet(subscribed)
          /\ Cardinality(subscribed) <= MaxSubscribers /\ subscribed \subseteq Consumer
        BY DEF StreamTypeOK
    <2>2. IsFiniteSet(subscribed') /\ Cardinality(subscribed') <= Cardinality(subscribed)
        BY <2>1, FS_Subset
    <2>3. Cardinality(subscribed') \in Nat /\ Cardinality(subscribed) \in Nat
        BY <2>1, <2>2, FS_CardinalityType
    <2> QED BY <2>1, <2>2, <2>3, StreamAssumption
<1>3. /\ queue' \in [Consumer -> Seq(Message)]
      /\ \A p \in Consumer : Len(queue'[p]) <= QueueSize
    <2>1. <<>> \in Seq(Message) /\ Len(<<>>) <= QueueSize
        BY EmptySeq, StreamAssumption
    <2> QED BY <2>1 DEF EndSession, StreamTypeOK
<1>4. /\ session' \in [Consumer -> {"out", "joining", "streaming"}]
      /\ replica' \in [Consumer -> [Client -> View]]
      /\ seen' \in [Consumer -> Sequence]
    <2>1. 0 \in Sequence
        BY StreamAssumption DEF Sequence
    <2> QED BY <2>1, NoReplicaFacts DEF EndSession, StreamTypeOK
<1> QED BY <1>1, <1>2, <1>3, <1>4 DEF EndSession, StreamTypeOK

LEMMA StreamTypeNext ==
    TypeOK /\ StreamTypeOK /\ [StreamNext]_allVars => TypeOK' /\ StreamTypeOK'
<1> SUFFICES ASSUME TypeOK, StreamTypeOK, [StreamNext]_allVars
             PROVE  TypeOK' /\ StreamTypeOK'
    OBVIOUS
<1>1. CASE Operation
    <2>1. TypeOK' /\ outbox' \in Seq(Data)
        BY <1>1, OperationIsBelieved
    <2> QED BY <1>1, <2>1 DEF Operation, StreamTypeOK
<1>2. CASE Emit
    BY <1>2, TypeEmit
<1>3. ASSUME NEW q \in Consumer, Handler(q) PROVE TypeOK' /\ StreamTypeOK'
    <2>1. CASE Subscribe(q)
        BY <2>1, TypeSubscribe
    <2>2. CASE SendSnapshot(q)
        BY <2>2 DEF SendSnapshot, TypeOK, StreamTypeOK, vars
    <2>3. CASE SendEvent(q)
        BY <2>3, TypeSendEvent
    <2>4. CASE CloseDropped(q)
        BY <2>4, TypeEndSession DEF CloseDropped
    <2>5. CASE Cancel(q)
        BY <2>5, TypeEndSession DEF Cancel
    <2> QED BY <1>3, <2>1, <2>2, <2>3, <2>4, <2>5 DEF Handler
<1>4. CASE UNCHANGED allVars
    BY <1>4 DEF TypeOK, StreamTypeOK, allVars, streamVars, vars
<1> QED BY <1>1, <1>2, <1>3, <1>4 DEF StreamNext

(* The stream keeps its types and its limits: never more subscribers than   *)
(* MaxSubscribers, never more than QueueSize events in a channel.           *)
THEOREM StreamTypeCorrect == StreamSpec => [](TypeOK /\ StreamTypeOK)
<1>1. StreamInit => TypeOK /\ StreamTypeOK
    BY StreamTypeInit
<1>2. TypeOK /\ StreamTypeOK /\ [StreamNext]_allVars => (TypeOK /\ StreamTypeOK)'
    BY StreamTypeNext
<1> QED BY <1>1, <1>2, PTL DEF StreamSpec

-----------------------------------------------------------------------------
(***************************************************************************)
(* The numbering.  It needs that a consumer without a session has no queue *)
(* left over, from which a later session would be sent old events.         *)
(***************************************************************************)
OutIsIdle ==
    \A q \in Consumer : session[q] = "out" => queue[q] = <<>> /\ q \notin subscribed

Unbroken(q) ==
    /\ \A i \in 1..Len(queue[q]) : queue[q][i].seq = Plus(seen[q], i)
    /\ q \in subscribed => sequence = Plus(seen[q], Len(queue[q]))

Numbering == OutIsIdle /\ GapFree

LEMMA GapFreeIsPerConsumer ==
    GapFree <=> \A q \in Consumer : session[q] # "out" => Unbroken(q)
BY DEF GapFree, Unbroken

(* A consumer the step leaves alone.                                        *)
LEMMA UnbrokenKept ==
    ASSUME NEW q, Unbroken(q), queue'[q] = queue[q], seen'[q] = seen[q],
           q \in subscribed' => q \in subscribed /\ sequence' = sequence
    PROVE  Unbroken(q)'
BY DEF Unbroken

LEMMA UnbrokenEmit ==
    ASSUME StreamTypeOK, Emit, NEW q \in Consumer, Unbroken(q)
    PROVE  Unbroken(q)'
<1>1. CASE q \notin subscribed'
    <2>1. queue'[q] = queue[q] /\ seen'[q] = seen[q]
        BY <1>1, EmitFacts DEF Emit
    <2> QED BY <1>1, <2>1, UnbrokenKept
<1>2. CASE q \in subscribed'
    <2> DEFINE n == Len(queue[q])
               m == Numbered(Head(outbox), sequence')
    <2>1. n \in Nat /\ n < QueueSize /\ queue[q] \in Seq(Message) /\ seen[q] \in Sequence
        BY <1>2, EmitFacts, LenProperties DEF StreamTypeOK
    <2>2. sequence' = Plus(seen[q], n + 1)
        <3>1. sequence = Plus(seen[q], n) /\ sequence' = Plus(sequence, 1)
            BY <1>2, EmitFacts DEF Unbroken, Emit
        <3> QED BY <2>1, <3>1, PlusFacts, StreamAssumption
    <2>3. m \in Message /\ m.seq = sequence' /\ queue'[q] = Append(queue[q], m)
        BY <1>2, EmitFacts, NumberedFacts
    <2> HIDE DEF m
    <2>4. /\ Len(queue'[q]) = n + 1 /\ queue'[q][n + 1] = m
          /\ \A i \in 1..n : queue'[q][i] = queue[q][i]
        BY <2>1, <2>3, AppendProperties
    <2>5. seen'[q] = seen[q]
        BY DEF Emit
    <2>6. \A i \in 1..n : queue'[q][i].seq = Plus(seen[q], i)
        BY <2>4 DEF Unbroken
    <2> HIDE DEF n
    <2>7. \A i \in 1..(n + 1) : queue'[q][i].seq = Plus(seen[q], i)
        BY <2>1, <2>2, <2>3, <2>4, <2>6
    <2> QED BY <2>2, <2>4, <2>5, <2>7 DEF Unbroken
<1> QED BY <1>1, <1>2

LEMMA UnbrokenSendEvent ==
    ASSUME StreamTypeOK, NEW q \in Consumer, SendEvent(q), Unbroken(q)
    PROVE  Unbroken(q)'
<1> DEFINE n == Len(queue[q])
<1>1. n \in Nat \ {0} /\ n <= QueueSize /\ seen[q] \in Sequence
    BY SendEventFacts DEF StreamTypeOK
<1>2. seen'[q] = Plus(seen[q], 1)
    BY <1>1, SendEventFacts DEF Unbroken
<1>3. \A i \in 0..(n - 1) : Plus(seen'[q], i) = Plus(seen[q], i + 1)
    <2> TAKE i \in 0..(n - 1)
    <2>1. 1 \in 0..(QueueSize + 1) /\ i \in 0..(QueueSize + 1) /\ 1 + i <= QueueSize + 1
        BY <1>1, StreamAssumption
    <2>2. Plus(Plus(seen[q], 1), i) = Plus(seen[q], 1 + i)
        BY <1>1, <2>1, PlusFacts
    <2> QED BY <1>2, <2>2
<1>4. \A i \in 1..(n - 1) : queue'[q][i].seq = Plus(seen[q], i + 1)
    <2> TAKE i \in 1..(n - 1)
    <2>1. queue'[q][i] = queue[q][i + 1] /\ i + 1 \in 1..n
        BY <1>1, SendEventFacts
    <2> QED BY <2>1 DEF Unbroken
<1>5. q \in subscribed' => sequence' = Plus(seen[q], n)
    BY DEF Unbroken, SendEvent
<1>6. Len(queue'[q]) = n - 1
    BY SendEventFacts
<1> HIDE DEF n
<1>7. \A i \in 1..(n - 1) : queue'[q][i].seq = Plus(seen'[q], i)
    BY <1>1, <1>3, <1>4
<1>8. q \in subscribed' => sequence' = Plus(seen'[q], n - 1)
    <2>1. n - 1 \in 0..(n - 1) /\ (n - 1) + 1 = n
        BY <1>1
    <2> QED BY <1>3, <1>5, <2>1
<1> QED BY <1>6, <1>7, <1>8 DEF Unbroken

LEMMA NumberingNext ==
    ASSUME TypeOK, StreamTypeOK, Numbering, [StreamNext]_allVars
    PROVE  Numbering'
<1> USE DEF Numbering
<1>0. \A q \in Consumer : session[q] # "out" => Unbroken(q)
    BY GapFreeIsPerConsumer
<1> SUFFICES OutIsIdle' /\ \A q \in Consumer : session'[q] # "out" => Unbroken(q)'
    BY GapFreeIsPerConsumer DEF GapFree, Unbroken
<1>1. CASE Operation
    BY <1>0, <1>1, UnbrokenKept DEF Operation, OutIsIdle
<1>2. CASE Emit
    <2>1. OutIsIdle'
        <3> SUFFICES ASSUME NEW q \in Consumer, session'[q] = "out"
                     PROVE  queue'[q] = <<>> /\ q \notin subscribed'
            BY DEF OutIsIdle
        <3>1. session[q] = "out"
            BY <1>2 DEF Emit
        <3>2. queue[q] = <<>> /\ q \notin subscribed
            BY <3>1 DEF OutIsIdle
        <3> QED BY <1>2, <3>2, EmitFacts
    <2> QED BY <1>0, <1>2, <2>1, UnbrokenEmit DEF Emit
<1>3. ASSUME NEW q \in Consumer, Handler(q)
      PROVE  OutIsIdle' /\ \A p \in Consumer : session'[p] # "out" => Unbroken(p)'
    <2>1. CASE Subscribe(q)
        <3>1. /\ queue[q] = <<>> /\ queue' = queue
              /\ seen'[q] = sequence /\ sequence' = sequence
            BY <2>1 DEF Subscribe, OutIsIdle, StreamTypeOK
        <3>2. Plus(sequence, 0) = sequence
            BY PlusFacts, StreamAssumption DEF StreamTypeOK
        <3>3. Unbroken(q)'
            BY <3>1, <3>2 DEF Unbroken
        <3>4. ASSUME NEW p \in Consumer \ {q}, session'[p] # "out" PROVE Unbroken(p)'
            <4>1. /\ session[p] # "out" /\ seen'[p] = seen[p]
                  /\ p \in subscribed' => p \in subscribed
                BY <2>1, <3>4 DEF Subscribe, StreamTypeOK
            <4> QED BY <1>0, <3>1, <4>1, UnbrokenKept
        <3>5. OutIsIdle'
            BY <2>1 DEF Subscribe, OutIsIdle, StreamTypeOK
        <3> QED BY <3>3, <3>4, <3>5
    <2>2. CASE SendSnapshot(q)
        <3>1. \A p \in Consumer : session'[p] = "out" <=> session[p] = "out"
            BY <2>2 DEF SendSnapshot, StreamTypeOK
        <3> QED BY <1>0, <2>2, <3>1, UnbrokenKept DEF SendSnapshot, OutIsIdle
    <2>3. CASE SendEvent(q)
        <3>1. UNCHANGED <<session, subscribed, sequence>> /\ session[q] = "streaming"
            BY <2>3 DEF SendEvent
        <3>2. \A p \in Consumer \ {q} : session[p] # "out" => Unbroken(p)'
            BY <1>0, <2>3, <3>1, SendEventFacts, UnbrokenKept
        <3>3. Unbroken(q)'
            BY <1>0, <2>3, <3>1, UnbrokenSendEvent
        <3>4. OutIsIdle'
            BY <2>3, <3>1, SendEventFacts DEF OutIsIdle
        <3> QED BY <3>1, <3>2, <3>3, <3>4
    <2>4. CASE EndSession(q) /\ q \notin subscribed' /\ subscribed' \subseteq subscribed
        <3>1. /\ session'[q] = "out" /\ queue'[q] = <<>> /\ sequence' = sequence
              /\ \A p \in Consumer \ {q} :
                   /\ session'[p] = session[p] /\ queue'[p] = queue[p]
                   /\ seen'[p] = seen[p]
            BY <2>4 DEF EndSession, StreamTypeOK
        <3>2. OutIsIdle'
            BY <2>4, <3>1 DEF OutIsIdle
        <3> QED BY <1>0, <2>4, <3>1, <3>2, UnbrokenKept
    <2> QED BY <1>3, <2>1, <2>2, <2>3, <2>4 DEF Handler, CloseDropped, Cancel
<1>4. CASE UNCHANGED allVars
    BY <1>0, <1>4, UnbrokenKept DEF OutIsIdle, allVars, streamVars
<1> QED BY <1>1, <1>2, <1>3, <1>4 DEF StreamNext

(* For every limit and modulus, and however the handlers, the operations    *)
(* and the drops interleave, no consumer ever sees a gap in the numbers.    *)
THEOREM NumberingCorrect == StreamSpec => []GapFree
<1>1. StreamInit => Numbering
    BY DEF StreamInit, Numbering, OutIsIdle, GapFree
<1>2. TypeOK /\ StreamTypeOK /\ Numbering /\ [StreamNext]_allVars => Numbering'
    BY NumberingNext
<1>3. Numbering => GapFree
    BY DEF Numbering
<1> QED BY <1>1, <1>2, <1>3, StreamTypeCorrect, PTL DEF StreamSpec

-----------------------------------------------------------------------------
(***************************************************************************)
(* The replicas.  A subscribed consumer that is sent its queue believes    *)
(* some presence w of each client, from which the rest of the running      *)
(* operation leads to the engine's.                                        *)
(***************************************************************************)
Follows(q, c) ==
    \E w \in Presence :
        /\ Believed(queue[q], c, replica[q][c].state, w)
        /\ Believed(outbox, c, w, state[c])

Following == \A q \in subscribed, c \in Client : Follows(q, c)

(* A frame tells of a presence.                                             *)
LEMMA AfterType ==
    ASSUME NEW d \in Data, NEW c, NEW w \in Presence
    PROVE  After(d, c, w) \in Presence
BY DataFacts DEF After, IsAbout, Told, ClientEventType, View, Presence

LEMMA FollowsEmit ==
    ASSUME StreamTypeOK, Emit, NEW q \in subscribed', NEW c \in Client, Follows(q, c)
    PROVE  Follows(q, c)'
<1> DEFINE d == Head(outbox)
           m == Numbered(d, sequence')
<1>1. /\ d \in Data /\ m \in Message /\ queue'[q] = Append(queue[q], m)
      /\ outbox' = Tail(outbox) /\ outbox # <<>> /\ outbox \in Seq(Data)
      /\ q \in Consumer /\ queue[q] \in Seq(Message)
    BY EmitFacts DEF Emit, StreamTypeOK
<1>2. \A w : After(m, c, w) = After(d, c, w)
    BY <1>1, EmitFacts, NumberedFacts
<1>3. replica' = replica /\ state' = state
    BY DEF Emit
<1> HIDE DEF d, m
<1>4. PICK w \in Presence : /\ Believed(queue[q], c, replica[q][c].state, w)
                            /\ Believed(outbox, c, w, state[c])
    BY DEF Follows
<1>5. After(d, c, w) \in Presence
    BY <1>1, AfterType
<1>6. Believed(queue'[q], c, replica[q][c].state, After(d, c, w))
    BY <1>1, <1>2, <1>4, BelievedAppend
<1>7. Believed(outbox', c, After(d, c, w), state[c])
    BY <1>1, <1>4, BelievedTail DEF d
<1>8. \E x \in Presence : /\ Believed(queue'[q], c, replica'[q][c].state, x)
                          /\ Believed(outbox', c, x, state'[c])
    BY <1>3, <1>5, <1>6, <1>7
<1> QED BY <1>8 DEF Follows, Believed, Silent, LastIs

LEMMA FollowsSendEvent ==
    ASSUME StreamTypeOK, NEW q \in Consumer, SendEvent(q), NEW c \in Client, Follows(q, c)
    PROVE  Follows(q, c)'
<1> DEFINE m == Head(queue[q])
<1>1. /\ m \in Message /\ queue[q] \in Seq(Message) /\ queue[q] # <<>>
      /\ queue'[q] = Tail(queue[q]) /\ replica[q] \in [Client -> View]
      /\ replica'[q] = ApplyEvent(replica[q], m)
      /\ outbox' = outbox /\ state' = state
    BY SendEventFacts DEF SendEvent, StreamTypeOK, vars
<1>2. replica'[q][c].state = After(m, c, replica[q][c].state)
    BY <1>1, AppliedIsBelieved
<1>3. PICK w \in Presence : /\ Believed(queue[q], c, replica[q][c].state, w)
                            /\ Believed(outbox, c, w, state[c])
    BY DEF Follows
<1>4. Believed(queue'[q], c, replica'[q][c].state, w)
    BY <1>1, <1>2, <1>3, BelievedTail
<1>5. \E x \in Presence : /\ Believed(queue'[q], c, replica'[q][c].state, x)
                          /\ Believed(outbox', c, x, state'[c])
    BY <1>1, <1>3, <1>4
<1> QED BY <1>5 DEF Follows, Believed, Silent, LastIs

LEMMA FollowsNext ==
    ASSUME TypeOK, StreamTypeOK, OutIsIdle, Following, [StreamNext]_allVars,
           NEW q \in subscribed', NEW c \in Client
    PROVE  Follows(q, c)'
<1>1. CASE Operation
    <2>1. /\ outbox = <<>> /\ UNCHANGED <<subscribed, queue, replica>>
        BY <1>1 DEF Operation
    <2>2. TypeOK' /\ Believed(outbox', c, state[c], state'[c])
        BY <1>1, OperationIsBelieved
    <2>3. Believed(queue[q], c, replica[q][c].state, state[c])
        BY <2>1, BelievedNone DEF Following, Follows
    <2>4. state[c] \in Presence
        BY DEF TypeOK
    <2>5. \E x \in Presence : /\ Believed(queue'[q], c, replica'[q][c].state, x)
                              /\ Believed(outbox', c, x, state'[c])
        BY <2>1, <2>2, <2>3, <2>4
    <2> QED BY <2>5 DEF Follows, Believed, Silent, LastIs
<1>2. CASE Emit
    <2>1. q \in subscribed
        BY <1>2, EmitFacts
    <2> QED BY <1>2, <2>1, FollowsEmit DEF Following
<1>3. ASSUME NEW p \in Consumer, Subscribe(p) PROVE Follows(q, c)'
    <2>1. CASE q = p
        <3>1. /\ queue'[q] = <<>> /\ outbox' = <<>> /\ state'[c] = state[c]
              /\ replica'[q][c].state = state[c]
            BY <1>3, <2>1 DEF Subscribe, OutIsIdle, StreamTypeOK, publicClient, vars
        <3>2. state[c] \in Presence
            BY DEF TypeOK
        <3>3. \E x \in Presence : /\ Believed(queue'[q], c, replica'[q][c].state, x)
                                  /\ Believed(outbox', c, x, state'[c])
            BY <3>1, <3>2, BelievedNone
        <3> QED BY <3>3 DEF Follows, Believed, Silent, LastIs
    <2>2. CASE q # p
        <3>1. /\ q \in subscribed /\ queue' = queue /\ outbox' = outbox
              /\ state' = state /\ replica'[q] = replica[q]
            BY <1>3, <2>2 DEF Subscribe, StreamTypeOK, vars
        <3>2. Follows(q, c)
            BY <3>1 DEF Following
        <3> QED BY <3>1, <3>2 DEF Follows, Believed, Silent, LastIs
    <2> QED BY <2>1, <2>2
<1>4. ASSUME NEW p \in Consumer, SendEvent(p) PROVE Follows(q, c)'
    <2>1. q \in subscribed /\ q \in Consumer /\ outbox' = outbox /\ state' = state
        BY <1>4 DEF SendEvent, vars, StreamTypeOK
    <2>2. Follows(q, c)
        BY <2>1 DEF Following
    <2>3. CASE q = p
        BY <1>4, <2>2, <2>3, FollowsSendEvent
    <2>4. CASE q # p
        <3>1. queue'[q] = queue[q] /\ replica'[q] = replica[q]
            BY <1>4, <2>1, <2>4, SendEventFacts
        <3> QED BY <2>1, <2>2, <3>1 DEF Follows, Believed, Silent, LastIs
    <2> QED BY <2>3, <2>4
<1>5. ASSUME NEW p \in Consumer, SendSnapshot(p) \/ CloseDropped(p) \/ Cancel(p)
      PROVE  Follows(q, c)'
    <2>1. /\ q \in subscribed /\ outbox' = outbox /\ state' = state
          /\ queue'[q] = queue[q] /\ replica'[q] = replica[q]
        BY <1>5 DEF SendSnapshot, CloseDropped, Cancel, EndSession, vars, StreamTypeOK
    <2>2. Follows(q, c)
        BY <2>1 DEF Following
    <2> QED BY <2>1, <2>2 DEF Follows, Believed, Silent, LastIs
<1>6. CASE UNCHANGED allVars
    <2>1. Follows(q, c)
        BY <1>6 DEF Following, allVars, streamVars
    <2> QED BY <1>6, <2>1 DEF Follows, Believed, Silent, LastIs, allVars, streamVars, vars
<1> QED BY <1>1, <1>2, <1>3, <1>4, <1>5, <1>6 DEF StreamNext, Handler

LEMMA FollowingReplays ==
    ASSUME TypeOK, StreamTypeOK, Following
    PROVE  PresenceReplayed
<1> SUFFICES ASSUME NEW q \in subscribed, NEW c \in Client
             PROVE  Replayed(q, Due(q), c).state = state[c]
    BY DEF PresenceReplayed
<1> DEFINE S == Message \cup Data
<1>1. queue[q] \in Seq(S) /\ outbox \in Seq(S)
    BY SeqMonotonic DEF StreamTypeOK
<1>2. PICK w \in Presence : /\ Believed(queue[q], c, replica[q][c].state, w)
                            /\ Believed(outbox, c, w, state[c])
    BY DEF Following, Follows
<1> HIDE DEF S
<1>3. Believed(Due(q), c, replica[q][c].state, state[c])
    BY <1>1, <1>2, BelievedConcat DEF Due
<1>4. Due(q) \in Seq(S)
    BY <1>1, ConcatProperties DEF Due
<1>5. CASE Silent(Due(q), c) /\ state[c] = replica[q][c].state
    <2>1. LastAbout(Due(q), c) = 0
        BY <1>4, <1>5, LastAboutFacts
    <2> QED BY <1>5, <2>1 DEF Replayed
<1>6. ASSUME NEW i \in 1..Len(Due(q)), LastIs(Due(q), c, i), Told(Due(q)[i]) = state[c]
      PROVE  Replayed(q, Due(q), c).state = state[c]
    <2>1. LastAbout(Due(q), c) = i /\ i # 0
        BY <1>4, <1>6, LastAboutFacts
    <2> QED BY <1>6, <2>1 DEF Replayed, Told, Unlisted
<1> QED BY <1>3, <1>5, <1>6 DEF Believed

(* Whatever the race of a snapshot with the events, the limits and the      *)
(* drops, a subscribed consumer is sent or still owed all it takes to reach *)
(* the presences of the engine.                                             *)
THEOREM ReplicasCorrect == StreamSpec => []PresenceReplayed
<1>1. StreamInit => Following
    BY DEF StreamInit, Following
<1>2. TypeOK /\ StreamTypeOK /\ Numbering /\ Following /\ [StreamNext]_allVars
        => Following'
    <2> SUFFICES ASSUME TypeOK, StreamTypeOK, OutIsIdle, Following, [StreamNext]_allVars
                 PROVE  \A q \in subscribed', c \in Client : Follows(q, c)'
        BY DEF Following, Numbering, Follows
    <2> QED BY FollowsNext
<1>3. StreamInit => Numbering
    BY DEF StreamInit, Numbering, OutIsIdle, GapFree
<1>4. TypeOK /\ StreamTypeOK /\ Numbering /\ [StreamNext]_allVars => Numbering'
    BY NumberingNext
<1>5. TypeOK /\ StreamTypeOK /\ Following => PresenceReplayed
    BY FollowingReplays
<1> QED BY <1>1, <1>2, <1>3, <1>4, <1>5, StreamTypeCorrect, PTL DEF StreamSpec

-----------------------------------------------------------------------------
(* The engine behind the stream.                                           *)

(* Sending the events one at a time changes nothing of the engine's but     *)
(* the events themselves.                                                   *)
LEMMA EngineStepOfStream ==
    ASSUME [StreamNext]_allVars
    PROVE  \/ [Next]_vars
           \/ TypeOK => TypeOK' /\ UNCHANGED <<state, conns, age, pending, providers, evidence>>
<1>1. CASE Operation
    BY <1>1 DEF Operation
<1>2. CASE Emit
    BY <1>2 DEF Emit, TypeOK
<1>3. ASSUME NEW q \in Consumer, Handler(q) PROVE UNCHANGED vars
    BY <1>3 DEF Handler, Subscribe, SendSnapshot, SendEvent, CloseDropped, Cancel, EndSession
<1>4. CASE UNCHANGED allVars
    BY <1>4 DEF allVars
<1> QED BY <1>1, <1>2, <1>3, <1>4 DEF StreamNext

LEMMA EngineOfStream ==
    ASSUME Sound, CapacityRespected, [StreamNext]_allVars
    PROVE  Sound' /\ CapacityRespected' /\ AbstractStep
<1>1. CASE [Next]_vars
    BY <1>1, SoundNext, StepNext
<1>2. CASE TypeOK' /\ UNCHANGED <<state, conns, age, pending, providers, evidence>>
    <2>1. \A c \in Client : SoundFor(c)'
        BY <1>2, SoundIsPerClient, SoundUnchanged
    <2>2. Sound'
        BY <1>2, <2>1 DEF Sound, SoundFor, PresenceIsEvidence, HoldIsSoleLive, HoldNeedsGrace
    <2>3. TypeOK
        BY DEF Sound
    <2> QED BY <1>2, <2>2, <2>3, QuietStep
<1> QED BY <1>1, <1>2, EngineStepOfStream DEF Sound

(* The engine whose events are sent one at a time, with consumers that come *)
(* and go between them, still implements the abstract presence, and keeps   *)
(* its invariants in the middle of an operation's events too.               *)
THEOREM StreamedPresence ==
    StreamSpec =>
        /\ ImplementsPresence
        /\ [](PresenceIsEvidence /\ HoldIsSoleLive /\ CapacityRespected)
<1>1. StreamInit => Sound /\ CapacityRespected
    BY SoundInit, CapacityInit DEF StreamInit
<1>2. Sound /\ CapacityRespected /\ [StreamNext]_allVars => Sound' /\ CapacityRespected'
    BY EngineOfStream
<1>3. StreamInit => Abstract!Init
    BY DEF StreamInit, Init, Abstract!Init
<1>4. Sound /\ CapacityRespected /\ [StreamNext]_allVars => [Abstract!Next]_state
    BY EngineOfStream DEF AbstractStep
<1>5. Sound => PresenceIsEvidence /\ HoldIsSoleLive
    BY DEF Sound
<1> QED
    BY <1>1, <1>2, <1>3, <1>4, <1>5, PTL
    DEF StreamSpec, ImplementsPresence, Abstract!Spec
=============================================================================
