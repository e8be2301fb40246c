----------------------------- MODULE ApiProofs -----------------------------
(***************************************************************************)
(* The API keeps its limits and its books for any number of connections:   *)
(* type correctness, exact slots, and no subscription without a handler.   *)
(***************************************************************************)
EXTENDS ApiServer, FiniteSetTheorems, TLAPS

(***************************************************************************)
(* The three are inductive only together: the slots stay natural because   *)
(* they count connections, and a handler that ends takes its subscription  *)
(* with it because only a handler has one.                                 *)
(***************************************************************************)
ApiInv == ApiTypeOK /\ SlotsExact /\ NoOrphans

OpenStates == Http \cup {"streaming"}

-----------------------------------------------------------------------------
(* What a step does to the set of open connections.                        *)

LEMMA OpenFinite == IsFiniteSet(Open) /\ Cardinality(Open) \in Nat
<1>1. Open \in SUBSET Conn
    BY DEF Open
<1>2. IsFiniteSet(Open)
    BY <1>1, ApiAssumption, FS_Subset
<1> QED
    BY <1>2, FS_CardinalityType

LEMMA OpenSame ==
    ASSUME ApiTypeOK, NEW c \in Conn, NEW s, Becomes(c, s),
           conn[c] \in OpenStates <=> s \in OpenStates
    PROVE  Open' = Open
BY DEF ApiTypeOK, Becomes, Open, OpenStates

LEMMA OpenGain ==
    ASSUME ApiTypeOK, NEW c \in Conn, NEW s, Becomes(c, s),
           conn[c] \notin OpenStates, s \in OpenStates
    PROVE  Cardinality(Open') = Cardinality(Open) + 1
<1>1. Open' = Open \cup {c} /\ c \notin Open
    BY DEF ApiTypeOK, Becomes, Open, OpenStates
<1> QED
    BY <1>1, OpenFinite, FS_AddElement

LEMMA OpenLoss ==
    ASSUME ApiTypeOK, NEW c \in Conn, NEW s, Becomes(c, s),
           conn[c] \in OpenStates, s \notin OpenStates
    PROVE  Cardinality(Open') = Cardinality(Open) - 1 /\ Cardinality(Open') \in Nat
<1>1. Open' = Open \ {c} /\ c \in Open
    BY DEF ApiTypeOK, Becomes, Open, OpenStates
<1> QED
    BY <1>1, OpenFinite, FS_RemoveElement, FS_CardinalityType

-----------------------------------------------------------------------------
(* The registrations of consumers stay within their limit.                 *)

LEMMA SubscribedLess ==
    ASSUME ApiTypeOK, subscribed' \subseteq subscribed
    PROVE  subscribed' \subseteq Conn /\ Cardinality(subscribed') <= MaxStreamClients
<1>1. IsFiniteSet(subscribed)
    BY ApiAssumption, FS_Subset DEF ApiTypeOK
<1>2. IsFiniteSet(subscribed') /\ Cardinality(subscribed') <= Cardinality(subscribed)
    BY <1>1, FS_Subset
<1>3. Cardinality(subscribed) \in Nat /\ Cardinality(subscribed') \in Nat
    BY <1>1, <1>2, FS_CardinalityType
<1> QED
    BY <1>2, <1>3, ApiAssumption DEF ApiTypeOK

LEMMA SubscribedMore ==
    ASSUME ApiTypeOK, NEW c \in Conn, subscribed' = subscribed \cup {c},
           Cardinality(subscribed) < MaxStreamClients
    PROVE  subscribed' \subseteq Conn /\ Cardinality(subscribed') <= MaxStreamClients
<1>1. IsFiniteSet(subscribed)
    BY ApiAssumption, FS_Subset DEF ApiTypeOK
<1>2. Cardinality(subscribed) \in Nat
    BY <1>1, FS_CardinalityType
<1>3. Cardinality(subscribed') \in {Cardinality(subscribed), Cardinality(subscribed) + 1}
    BY <1>1, FS_AddElement
<1> QED
    BY <1>2, <1>3, ApiAssumption DEF ApiTypeOK

-----------------------------------------------------------------------------
(* The ways a step may leave the books in order.                           *)

\* Everything but the books, and what they bound, keeps its type.
RestOK ==
    /\ gone' \subseteq Conn /\ ready' \in BOOLEAN
    /\ queue' \in [Conn -> 0..StreamQueueSize] /\ pings' \in [Conn -> 0..ControlQueue]
    /\ done' \subseteq Conn /\ tokens' \in 0..Burst
    /\ shutdown' \in BOOLEAN /\ faults' \in 0..MaxFaults

\* c keeps its slot, or has none before and after.
LEMMA KeepsSlot ==
    ASSUME ApiInv, RestOK, NEW c \in Conn, NEW s \in State, Becomes(c, s),
           conn[c] \in OpenStates <=> s \in OpenStates,
           UNCHANGED <<acceptor, slots>>,
           subscribed' \subseteq subscribed \cup {c},
           c \in subscribed' => s \in {"joining", "streaming"},
           subscribed' \subseteq Conn /\ Cardinality(subscribed') <= MaxStreamClients
    PROVE  ApiInv'
<1>1. Open' = Open
    BY OpenSame DEF ApiInv
<1>2. SlotsExact'
    BY <1>1 DEF ApiInv, SlotsExact
<1>3. NoOrphans'
    BY DEF ApiInv, NoOrphans, ApiTypeOK, Becomes
<1>4. ApiTypeOK'
    BY DEF ApiInv, ApiTypeOK, Becomes, RestOK
<1> QED
    BY <1>2, <1>3, <1>4 DEF ApiInv

\* c closes, and gives its slot back.
LEMMA GivesSlot ==
    ASSUME ApiInv, RestOK, NEW c \in Conn, NEW s \in State, Becomes(c, s),
           conn[c] \in OpenStates, s \notin OpenStates,
           UNCHANGED acceptor, slots' = slots - 1,
           subscribed' \subseteq subscribed, c \notin subscribed'
    PROVE  ApiInv'
<1>1. Cardinality(Open') = Cardinality(Open) - 1
    BY OpenLoss DEF ApiInv
<1>2. Cardinality(Open) \in Nat /\ Cardinality(Open') \in Nat
    BY OpenLoss, OpenFinite DEF ApiInv
<1>3. SlotsExact'
    BY <1>1, <1>2 DEF ApiInv, SlotsExact
<1>4. NoOrphans'
    BY DEF ApiInv, NoOrphans, ApiTypeOK, Becomes
<1>5. slots' \in 0..MaxHTTPConnections
    BY <1>2, <1>3, ApiAssumption DEF ApiInv, ApiTypeOK, SlotsExact
<1>6. ApiTypeOK'
    BY <1>5, SubscribedLess DEF ApiInv, ApiTypeOK, Becomes, RestOK
<1> QED
    BY <1>3, <1>4, <1>6 DEF ApiInv

\* No connection changes hands; the acceptor may.
LEMMA KeepsConns ==
    ASSUME ApiInv, RestOK, UNCHANGED conn,
           acceptor' \in {"off", "slot", "accept", "ended"},
           slots' \in 0..MaxHTTPConnections,
           slots' - slots = (IF acceptor' = "accept" THEN 1 ELSE 0)
                              - (IF acceptor = "accept" THEN 1 ELSE 0),
           subscribed' \subseteq subscribed
    PROVE  ApiInv'
<1>1. Open' = Open /\ Cardinality(Open) \in Nat
    BY OpenFinite DEF Open
<1>2. SlotsExact'
    BY <1>1 DEF ApiInv, SlotsExact, ApiTypeOK
<1>3. NoOrphans'
    BY DEF ApiInv, NoOrphans
<1>4. ApiTypeOK'
    BY SubscribedLess DEF ApiInv, ApiTypeOK, RestOK
<1> QED
    BY <1>2, <1>3, <1>4 DEF ApiInv

-----------------------------------------------------------------------------
(* The steps.                                                              *)

LEMMA ApiInvInit == ApiInit => ApiInv
<1> SUFFICES ASSUME ApiInit PROVE ApiInv
    OBVIOUS
<1>1. Open = {} /\ Cardinality({}) = 0
    BY FS_EmptySet DEF ApiInit, Open, Http
<1>2. SlotsExact /\ NoOrphans
    BY <1>1 DEF ApiInit, SlotsExact, NoOrphans
<1>3. Cardinality(subscribed) <= MaxStreamClients
    BY <1>1, ApiAssumption DEF ApiInit
<1>4. /\ conn \in [Conn -> State] /\ queue \in [Conn -> 0..StreamQueueSize]
      /\ pings \in [Conn -> 0..ControlQueue] /\ slots \in 0..MaxHTTPConnections
      /\ tokens \in 0..Burst /\ faults \in 0..MaxFaults
    BY ApiAssumption DEF ApiInit, State
<1>5. ApiTypeOK
    BY <1>3, <1>4 DEF ApiInit, ApiTypeOK
<1> QED
    BY <1>2, <1>5 DEF ApiInv

LEMMA AcceptorStep ==
    ASSUME ApiInv, listen \/ acquire \/ acceptFails \/ acceptEnds \/ emit \/ refill \/ becomeReady
    PROVE  ApiInv'
<1> USE ApiAssumption DEF ApiInv, ApiTypeOK, RestOK
<1>1. CASE listen \/ acceptEnds
    BY <1>1, KeepsConns DEF listen, acceptEnds
<1>2. CASE acquire
    BY <1>2, KeepsConns DEF acquire
<1>3. CASE acceptFails
  <2>1. slots - 1 \in 0..MaxHTTPConnections
    BY <1>3, OpenFinite DEF acceptFails, SlotsExact
  <2> QED
    BY <1>3, <2>1, KeepsConns DEF acceptFails, Fails
<1>4. CASE emit
    BY <1>4, KeepsConns DEF emit
<1>5. CASE refill
    BY <1>5, KeepsConns DEF refill
<1>6. CASE becomeReady
    BY <1>6, KeepsConns DEF becomeReady
<1> QED
    BY <1>1, <1>2, <1>3, <1>4, <1>5, <1>6

LEMMA EndStreamKeeps ==
    ASSUME ApiInv, NEW c \in Conn, conn[c] \in {"joining", "streaming"}, EndStream(c),
           UNCHANGED <<acceptor, ready, tokens, shutdown>>, faults' \in 0..MaxFaults
    PROVE  ApiInv'
<1>1. RestOK
    BY ApiAssumption DEF ApiInv, ApiTypeOK, RestOK, EndStream, Hangup
<1>2. "none" \in State /\ "none" \notin OpenStates /\ conn[c] \in OpenStates
    BY DEF State, OpenStates, Http
<1> QED
    BY <1>1, <1>2, GivesSlot DEF EndStream, Hangup, Release

LEMMA RequestStep ==
    ASSUME ApiInv, NEW c \in Conn,
           \/ accept(c) \/ unauthorized(c) \/ request(c) \/ answered(c) \/ idleEnds(c)
           \/ refuseStream(c) \/ closeIdle(c) \/ dial(c) \/ vanish(c)
    PROVE  ApiInv'
<1> USE DEF ApiInv, OpenStates, Http, State
<1>a. subscribed \subseteq Conn /\ Cardinality(subscribed) <= MaxStreamClients
    BY DEF ApiTypeOK
<1>b. c \in subscribed => conn[c] \in {"joining", "streaming"}
    BY DEF NoOrphans
<1>1. CASE accept(c)
  <2>1. Cardinality(Open') = Cardinality(Open) + 1 /\ Cardinality(Open) \in Nat
    BY <1>1, OpenGain, OpenFinite DEF accept
  <2>2. SlotsExact'
    BY <1>1, <2>1 DEF accept, SlotsExact
  <2>3. NoOrphans'
    BY <1>1, <1>b DEF accept, NoOrphans, ApiTypeOK, Becomes
  <2> QED
    BY <1>1, <2>2, <2>3 DEF accept, ApiTypeOK, Becomes
<1>2. CASE unauthorized(c) \/ request(c) \/ refuseStream(c)
  <2>1. RestOK
    BY <1>2, ApiAssumption DEF unauthorized, request, refuseStream, RestOK, ApiTypeOK
  <2> QED
    BY <1>2, <1>a, <1>b, <2>1, KeepsSlot DEF unauthorized, request, refuseStream
<1>3. CASE answered(c)
  <2>1. RestOK
    BY <1>3 DEF answered, Hangup, RestOK, ApiTypeOK
  <2>2. CASE shutdown \/ c \in gone
    BY <1>3, <1>b, <2>1, <2>2, GivesSlot DEF answered, Hangup, Release
  <2>3. CASE ~(shutdown \/ c \in gone)
    BY <1>3, <1>a, <1>b, <2>1, <2>3, KeepsSlot DEF answered
  <2> QED
    BY <2>2, <2>3
<1>4. CASE idleEnds(c)
  <2>1. RestOK
    BY <1>4 DEF idleEnds, Hangup, RestOK, ApiTypeOK
  <2>2. CASE conn[c] = "closed"
    BY <1>4, <1>a, <1>b, <2>1, <2>2, KeepsSlot DEF idleEnds
  <2>3. CASE conn[c] # "closed"
    BY <1>4, <1>b, <2>1, <2>3, GivesSlot DEF idleEnds, Hangup, Release
  <2> QED
    BY <2>2, <2>3
<1>5. CASE closeIdle(c)
  <2>1. RestOK
    BY <1>5 DEF closeIdle, RestOK, ApiTypeOK
  <2> QED
    BY <1>5, <1>b, <2>1, GivesSlot DEF closeIdle, Release
<1>6. CASE dial(c)
  <2>1. RestOK
    BY <1>6 DEF dial, RestOK, ApiTypeOK
  <2> QED
    BY <1>6, <1>a, <1>b, <2>1, KeepsSlot DEF dial
<1>7. CASE vanish(c)
    BY <1>7, KeepsConns DEF vanish, RestOK, ApiTypeOK
<1> QED
    BY <1>1, <1>2, <1>3, <1>4, <1>5, <1>6, <1>7

LEMMA StreamStep ==
    ASSUME ApiInv, NEW c \in Conn,
           \/ Subscribe(c) \/ upgradeRefused(c) \/ websocketUpgrade(c) \/ Session(c)
           \/ monitorPing(c) \/ monitorEnds(c)
    PROVE  ApiInv'
<1>a. WriteFails(c) => faults' \in 0..MaxFaults
    BY ApiAssumption DEF WriteFails, Fails, ApiInv, ApiTypeOK
<1>b. subscribed \subseteq Conn /\ Cardinality(subscribed) <= MaxStreamClients
    BY DEF ApiInv, ApiTypeOK
<1>c. acceptor \in {"off", "slot", "accept", "ended"} /\ slots \in 0..MaxHTTPConnections
    BY DEF ApiInv, ApiTypeOK
<1>1. CASE Subscribe(c)
  <2>1. RestOK
    BY <1>1 DEF Subscribe, RestOK, ApiInv, ApiTypeOK
  <2>2. subscribed' \subseteq Conn /\ Cardinality(subscribed') <= MaxStreamClients
    BY <1>1, SubscribedMore DEF Subscribe, ApiInv
  <2> QED
    BY <1>1, <2>1, <2>2, KeepsSlot DEF Subscribe, OpenStates, Http, State
<1>2. CASE upgradeRefused(c)
  <2>1. RestOK
    BY <1>2, ApiAssumption DEF upgradeRefused, RestOK, ApiInv, ApiTypeOK
  <2>2. subscribed' \subseteq Conn /\ Cardinality(subscribed') <= MaxStreamClients
    BY <1>2, SubscribedLess DEF upgradeRefused, ApiInv
  <2> QED
    BY <1>2, <2>1, <2>2, KeepsSlot DEF upgradeRefused, OpenStates, Http, State
<1>3. CASE websocketUpgrade(c)
  <2>1. CASE WriteFails(c) /\ EndStream(c)
    BY <1>3, <1>a, <2>1, EndStreamKeeps DEF websocketUpgrade
  <2>2. CASE Becomes(c, "streaming") /\ UNCHANGED <<slots, gone, subscribed, queue, pings, done, faults>>
    <3>1. RestOK
      BY <1>3, <2>2 DEF websocketUpgrade, RestOK, ApiInv, ApiTypeOK
    <3> QED
      BY <1>3, <1>b, <2>2, <3>1, KeepsSlot DEF websocketUpgrade, OpenStates, Http, State
  <2> QED
    BY <1>3, <2>1, <2>2 DEF websocketUpgrade
<1>4. CASE sendEvent(c)
  <2>1. CASE WriteFails(c) /\ EndStream(c)
    BY <1>4, <1>a, <2>1, EndStreamKeeps DEF sendEvent
  <2>2. CASE ~(WriteFails(c) /\ EndStream(c))
    <3>1. queue[c] - 1 \in Nat /\ queue' = [queue EXCEPT ![c] = @ - 1]
      BY <1>4, <2>2 DEF sendEvent, ApiInv, ApiTypeOK
    <3>2. RestOK
      BY <1>4, <2>2, <3>1, ApiAssumption DEF sendEvent, RestOK, ApiInv, ApiTypeOK
    <3> QED
      BY <1>4, <2>2, <3>2, <1>c, KeepsConns DEF sendEvent
  <2> QED
    BY <2>1, <2>2
<1>5. CASE pong(c)
  <2>1. CASE WriteFails(c) /\ EndStream(c)
    BY <1>5, <1>a, <2>1, EndStreamKeeps DEF pong
  <2>2. CASE ~(WriteFails(c) /\ EndStream(c))
    <3>1. pings[c] - 1 \in Nat /\ pings' = [pings EXCEPT ![c] = @ - 1]
      BY <1>5, <2>2 DEF pong, ApiInv, ApiTypeOK
    <3>2. RestOK
      BY <1>5, <2>2, <3>1, ApiAssumption DEF pong, RestOK, ApiInv, ApiTypeOK
    <3> QED
      BY <1>5, <2>2, <3>2, <1>c, KeepsConns DEF pong
  <2> QED
    BY <2>1, <2>2
<1>6. CASE heartbeat(c)
    BY <1>6, <1>a, EndStreamKeeps DEF heartbeat
<1>7. CASE closeDropped(c) \/ streamDone(c) \/ farewell(c)
  <2>1. faults' \in 0..MaxFaults
    BY <1>7 DEF closeDropped, streamDone, farewell, ApiInv, ApiTypeOK
  <2> QED
    BY <1>7, <2>1, EndStreamKeeps DEF closeDropped, streamDone, farewell
<1>8. CASE monitorPing(c) \/ monitorEnds(c)
  <2>1. RestOK
    BY <1>8, ApiAssumption DEF monitorPing, monitorEnds, RestOK, ApiInv, ApiTypeOK
  <2> QED
    BY <1>8, <2>1, <1>c, KeepsConns DEF monitorPing, monitorEnds
<1> QED
    BY <1>1, <1>2, <1>3, <1>4, <1>5, <1>6, <1>7, <1>8 DEF Session

LEMMA ShutdownStep == ASSUME ApiInv, Shutdown PROVE ApiInv'
<1>1. Open' = Open
    BY DEF Shutdown, Open, Http, ApiInv, ApiTypeOK
<1>2. SlotsExact'
    BY <1>1 DEF Shutdown, SlotsExact, ApiInv
<1>3. NoOrphans'
    BY DEF Shutdown, NoOrphans, ApiInv, ApiTypeOK
<1>4. ApiTypeOK'
    BY DEF Shutdown, ApiInv, ApiTypeOK, State
<1> QED
    BY <1>2, <1>3, <1>4 DEF ApiInv

LEMMA ApiInvStep == ApiInv /\ [ApiNext]_apiVars => ApiInv'
<1> SUFFICES ASSUME ApiInv, [ApiNext]_apiVars PROVE ApiInv'
    OBVIOUS
<1>1. CASE UNCHANGED apiVars
    BY <1>1 DEF apiVars, ApiInv, ApiTypeOK, SlotsExact, NoOrphans, Open
<1>2. CASE Shutdown
    BY <1>2, ShutdownStep
<1>3. CASE listen \/ acquire \/ acceptFails \/ acceptEnds \/ emit \/ refill \/ becomeReady
    BY <1>3, AcceptorStep
<1>4. ASSUME NEW c \in Conn, Serve(c) PROVE ApiInv'
    BY <1>4, RequestStep, StreamStep DEF Serve
<1> QED
    BY <1>1, <1>2, <1>3, <1>4 DEF ApiNext, ApiStep

LEMMA ApiCorrect == ApiSpec => []ApiInv
<1> QED
    BY ApiInvInit, ApiInvStep, PTL DEF ApiSpec

(* The API keeps its limits on connections, streams, queued events, pongs   *)
(* and failed authentications.                                              *)
THEOREM ApiTypeCorrect == ApiSpec => []ApiTypeOK
<1>1. ApiInv => ApiTypeOK
    BY DEF ApiInv
<1> QED
    BY <1>1, ApiCorrect, PTL

(* limitedListener and limitedConn neither lose a slot nor give one back    *)
(* twice.                                                                   *)
THEOREM SlotsCorrect == ApiSpec => []SlotsExact
<1>1. ApiInv => SlotsExact
    BY DEF ApiInv
<1> QED
    BY <1>1, ApiCorrect, PTL

(* No path out of the events handler leaves a subscription behind.          *)
THEOREM SubscriptionsCorrect == ApiSpec => []NoOrphans
<1>1. ApiInv => NoOrphans
    BY DEF ApiInv
<1> QED
    BY <1>1, ApiCorrect, PTL
=============================================================================
