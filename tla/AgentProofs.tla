---------------------------- MODULE AgentProofs ----------------------------
(***************************************************************************)
(* The identity of the agent is stable, for any number of processes that   *)
(* start, fail and die in any order; the process that procd runs reports   *)
(* success only when it was asked to stop; and the API within it keeps its *)
(* books across starts and ends.                                           *)
(***************************************************************************)
EXTENDS Agent, ApiProofs, TLAPS

(***************************************************************************)
(* What makes IdentityStable inductive: the file is torn as long as some   *)
(* process is about to write it, only one can be, and what was written and *)
(* not yet closed is what the file holds.                                  *)
(***************************************************************************)
Drawn == \A p \in Process : step[p] \in {"create", "write", "close"} => value[p] \in Id
SoleWriter ==
    /\ \A p \in Process : step[p] = "write" => file = "torn"
    /\ \A p, q \in Process : step[p] = "write" /\ step[q] = "write" => p = q
Flushed == \A p \in Process : step[p] = "close" => file = value[p]

IdentityInv == IdentityTypeOK /\ Drawn /\ SoleWriter /\ Flushed /\ IdentityStable

\* What the agent's steps do to the identity.
IdentityStep ==
    \/ \E p \in Process : LoadOrCreateAgentID(p) \/ Loading(p) \/ CallFails(p) \/ Gone(p)
    \/ UNCHANGED identityVars

LEMMA IdentityInvInit == AgentInit => IdentityInv
BY DEF AgentInit, IdentityInit, IdentityInv, IdentityTypeOK, Step, Drawn, SoleWriter,
       Flushed, IdentityStable

LEMMA AgentStepsIdentity == [AgentNext]_agentVars => IdentityStep
<1> SUFFICES ASSUME [AgentNext]_agentVars PROVE IdentityStep
    OBVIOUS
<1>a. agent \in Process
    BY AgentAssumption
<1> USE DEF identityVars
<1>1. CASE start
    BY <1>1, <1>a DEF start, Begin, IdentityStep
<1>2. CASE crash \/ startFails
    BY <1>2, <1>a DEF crash, startFails, Exit, IdentityStep
<1>3. CASE serve
    BY <1>3 DEF serve, IdentityStep
<1>4. CASE signal
    BY <1>4, <1>a DEF signal, Exit, IdentityStep
<1>5. ASSUME NEW p \in Process, otherStarts(p) \/ otherEnds(p) \/ load(p) \/ loadFails(p)
      PROVE  IdentityStep
    BY <1>5 DEF otherStarts, otherEnds, load, loadFails, Begin, IdentityStep
<1>6. CASE listens \/ listenFails \/ listenEnds \/ Api
    BY <1>6 DEF listens, listenFails, listenEnds, Api, IdentityStep
<1>7. CASE Provide
    BY <1>7 DEF Provide, gateOpens, groupReturns, providerReturns, providerFails, IdentityStep
<1>8. CASE Select
    BY <1>8 DEF Select, apiStops, providersStop, contextDone, IdentityStep
<1>9. CASE Finish
    BY <1>9, <1>a DEF Finish, shutdownBegins, shutdownEnds, shutdownExpires, Exit, IdentityStep
<1>10. CASE UNCHANGED agentVars
    BY <1>10 DEF agentVars, IdentityStep
<1> QED
    BY <1>1, <1>2, <1>3, <1>4, <1>5, <1>6, <1>7, <1>8, <1>9, <1>10 DEF AgentNext

LEMMA IdentityInvStep == IdentityInv /\ IdentityStep => IdentityInv'
<1> SUFFICES ASSUME IdentityInv, IdentityStep PROVE IdentityInv'
    OBVIOUS
<1> USE IdentityAssumption
<1> USE DEF IdentityInv, IdentityTypeOK, Step, Drawn, SoleWriter, Flushed, IdentityStable
<1>1. ASSUME NEW p \in Process, LoadOrCreateAgentID(p) PROVE IdentityInv'
    BY <1>1 DEF LoadOrCreateAgentID, To
<1>2. ASSUME NEW p \in Process, ReadFile(p) PROVE IdentityInv'
    BY <1>2 DEF ReadFile, To, Has
<1>3. ASSUME NEW p \in Process, OpenFile(p) PROVE IdentityInv'
    BY <1>3 DEF OpenFile, To
<1>4. ASSUME NEW p \in Process, WriteString(p) PROVE IdentityInv'
    BY <1>4 DEF WriteString, To
<1>5. ASSUME NEW p \in Process, CloseFile(p) PROVE IdentityInv'
    BY <1>5 DEF CloseFile, To, Has
<1>6. ASSUME NEW p \in Process, CallFails(p) PROVE IdentityInv'
    BY <1>6 DEF CallFails, To
<1>7. ASSUME NEW p \in Process, Gone(p) PROVE IdentityInv'
    BY <1>7 DEF Gone
<1>8. CASE UNCHANGED identityVars
    BY <1>8 DEF identityVars
<1> QED
    BY <1>1, <1>2, <1>3, <1>4, <1>5, <1>6, <1>7, <1>8 DEF IdentityStep, Loading

(* LoadOrCreateAgentID never lets two processes go on with two identities,  *)
(* nor one with an identity that is not on disk.                            *)
THEOREM AgentIdentityStable == AgentSpec => []IdentityStable
<1>1. AgentInit => IdentityInv
    BY IdentityInvInit
<1>2. IdentityInv /\ [AgentNext]_agentVars => IdentityInv'
    BY AgentStepsIdentity, IdentityInvStep
<1>3. IdentityInv => IdentityStable
    BY DEF IdentityInv
<1> QED
    BY <1>1, <1>2, <1>3, PTL DEF AgentSpec

-----------------------------------------------------------------------------
(***************************************************************************)
(* What makes SuccessMeansAsked inductive: before run leaves its select,   *)
(* only a signal cancels the context, and the API cannot have ended        *)
(* without an error because nobody has shut it down.                       *)
(***************************************************************************)
AskedInv ==
    /\ shutdown => main = "shutdown"
    /\ result \in {"none", "nil", "error"} /\ (result = "nil" => shutdown)
    /\ cancelled => Up
    /\ main = "serve" /\ cancelled => signalled
    /\ main \in {"close", "shutdown", "exited"} /\ exitCode = 0 => signalled

\* Only Shutdown closes s.shutdown.
LEMMA ApiStepOpen == ApiStep => UNCHANGED shutdown
<1> SUFFICES ASSUME ApiStep PROVE UNCHANGED shutdown
    OBVIOUS
<1>1. CASE acquire \/ acceptFails \/ acceptEnds \/ emit \/ refill \/ becomeReady
    BY <1>1 DEF acquire, acceptFails, acceptEnds, emit, refill, becomeReady
<1>2. ASSUME NEW c \in Conn, Serve(c) PROVE UNCHANGED shutdown
  <2>1. CASE Session(c)
    BY <2>1 DEF Session, sendEvent, closeDropped, heartbeat, pong, streamDone, farewell
  <2>2. CASE ~Session(c)
    BY <1>2, <2>2 DEF Serve, accept, unauthorized, request, answered, idleEnds, Subscribe,
         refuseStream, upgradeRefused, websocketUpgrade, monitorPing, monitorEnds, closeIdle,
         dial, vanish
  <2> QED
    BY <2>1, <2>2
<1> QED
    BY <1>1, <1>2 DEF ApiStep

LEMMA AskedInvStep == AskedInv /\ [AgentNext]_agentVars => AskedInv'
<1> SUFFICES ASSUME AskedInv, [AgentNext]_agentVars PROVE AskedInv'
    OBVIOUS
<1> USE DEF AskedInv, Up
<1>1. CASE start
    BY <1>1 DEF start, apiVars
<1>2. CASE crash \/ startFails
    BY <1>2 DEF crash, startFails, Exit, Vanishes, Fresh
<1>3. CASE serve
    BY <1>3 DEF serve, apiVars
<1>4. CASE signal
    BY <1>4 DEF signal, Exit, Vanishes, Fresh, apiVars
<1>5. ASSUME NEW p \in Process, otherStarts(p) \/ otherEnds(p) \/ load(p) \/ loadFails(p)
      PROVE  AskedInv'
    BY <1>5 DEF otherStarts, otherEnds, load, loadFails, apiVars, processVars
<1>6. CASE listens \/ listenFails \/ listenEnds
    BY <1>6 DEF listens, listen, listenFails, listenEnds, SameProcess, apiVars, processVars
<1>7. CASE Api
    BY <1>7, ApiStepOpen DEF Api, processVars
<1>8. CASE Provide
    BY <1>8 DEF Provide, gateOpens, groupReturns, providerReturns, providerFails, SameProcess,
         apiVars
<1>9. CASE Select
    BY <1>9 DEF Select, apiStops, providersStop, contextDone, apiVars
<1>10. CASE shutdownBegins
    BY <1>10 DEF shutdownBegins, Shutdown
<1>11. CASE shutdownEnds \/ shutdownExpires
    BY <1>11 DEF shutdownEnds, shutdownExpires, Exit, Vanishes, Fresh
<1>12. CASE UNCHANGED agentVars
    BY <1>12 DEF agentVars, apiVars, processVars
<1> QED
    BY <1>1, <1>2, <1>3, <1>4, <1>5, <1>6, <1>7, <1>8, <1>9, <1>10, <1>11, <1>12
       DEF AgentNext, Finish

(* run returns 0 only after a signal: procd never takes a provider or an    *)
(* API that gave up for a regular end.                                      *)
THEOREM AgentSuccess == AgentSpec => []SuccessMeansAsked
<1>1. AgentInit => AskedInv
    BY DEF AgentInit, ApiInit, AskedInv
<1>2. AskedInv => SuccessMeansAsked
    BY DEF AskedInv, SuccessMeansAsked
<1> QED
    BY <1>1, <1>2, AskedInvStep, PTL DEF AgentSpec

-----------------------------------------------------------------------------
(***************************************************************************)
(* The process as a whole.  Its parts keep their invariants when it        *)
(* starts, fails, is killed and starts again, because what it held goes    *)
(* with it; and while there is no process there is no API.                 *)
(***************************************************************************)
ProcessTypeOK ==
    /\ main \in {"off", "load", "serve", "close", "shutdown", "exited"}
    /\ exitCode \in 0..1 /\ signalled \in BOOLEAN /\ cancelled \in BOOLEAN
    /\ provider \in [Providers -> {"gated", "running", "nil", "error"}]
    /\ group \in {"running", "nil", "error"}
    /\ result \in {"none", "nil", "error"}
    /\ starts \in 0..MaxStarts

\* What the agent's steps do to the API.
ApiOfAgent ==
    \/ ApiNext
    \/ Vanishes /\ (Fails \/ UNCHANGED faults)
    \/ /\ Fails
       /\ UNCHANGED <<acceptor, slots, conn, gone, ready, subscribed, queue, pings, done, tokens, shutdown>>
    \/ listenFails
    \/ UNCHANGED apiVars

LEMMA AgentStepsApi == [AgentNext]_agentVars => ApiOfAgent
<1> SUFFICES ASSUME [AgentNext]_agentVars PROVE ApiOfAgent
    OBVIOUS
<1>1. CASE start \/ serve
    BY <1>1 DEF start, serve, ApiOfAgent
<1>2. CASE crash \/ startFails
    BY <1>2 DEF crash, startFails, Exit, ApiOfAgent
<1>3. CASE signal
    BY <1>3 DEF signal, Exit, ApiOfAgent
<1>4. ASSUME NEW p \in Process, otherStarts(p) \/ otherEnds(p) \/ load(p) \/ loadFails(p)
      PROVE  ApiOfAgent
    BY <1>4 DEF otherStarts, otherEnds, load, loadFails, ApiOfAgent
<1>5. CASE listens \/ listenFails \/ listenEnds \/ Api
    BY <1>5 DEF listens, listenEnds, Api, ApiNext, ApiOfAgent
<1>6. CASE Provide
    BY <1>6 DEF Provide, gateOpens, groupReturns, providerReturns, providerFails, ApiOfAgent
<1>7. CASE Select
    BY <1>7 DEF Select, apiStops, providersStop, contextDone, ApiOfAgent
<1>8. CASE Finish
    BY <1>8 DEF Finish, shutdownBegins, shutdownEnds, shutdownExpires, Exit, ApiNext, ApiOfAgent
<1>9. CASE UNCHANGED agentVars
    BY <1>9 DEF agentVars, ApiOfAgent
<1> QED
    BY <1>1, <1>2, <1>3, <1>4, <1>5, <1>6, <1>7, <1>8, <1>9 DEF AgentNext

LEMMA ApiOfAgentKeeps == ASSUME ApiInv, ApiOfAgent PROVE ApiInv'
<1>0. /\ MaxFaults \in Nat /\ faults \in 0..MaxFaults
      /\ Fails => faults' \in 0..MaxFaults
    BY ApiAssumption DEF ApiInv, ApiTypeOK, Fails
<1>1. CASE ApiNext \/ UNCHANGED apiVars
    BY <1>1, ApiInvStep
<1>2. CASE Vanishes /\ (Fails \/ UNCHANGED faults)
    <2>1. Open' = {} /\ Cardinality({}) = 0
        BY <1>2, FS_EmptySet DEF Vanishes, Open, Http
    <2>2. SlotsExact' /\ NoOrphans'
        BY <1>2, <2>1 DEF Vanishes, SlotsExact, NoOrphans
    <2>3. Cardinality(subscribed') <= MaxStreamClients
        BY <1>2, <2>1, ApiAssumption DEF Vanishes
    <2>4. /\ conn' \in [Conn -> State] /\ queue' \in [Conn -> 0..StreamQueueSize]
          /\ pings' \in [Conn -> 0..ControlQueue] /\ slots' \in 0..MaxHTTPConnections
          /\ tokens' \in 0..Burst
        BY <1>2, ApiAssumption DEF Vanishes, State
    <2>5. ApiTypeOK'
        BY <1>0, <1>2, <2>3, <2>4 DEF Vanishes, ApiTypeOK
    <2> QED
        BY <2>2, <2>5 DEF ApiInv
<1>3. CASE /\ Fails
           /\ UNCHANGED <<acceptor, slots, conn, gone, ready, subscribed, queue, pings, done, tokens, shutdown>>
    <2>1. RestOK
        BY <1>0, <1>3 DEF RestOK, ApiInv, ApiTypeOK
    <2> QED
        BY <1>3, <2>1, KeepsConns DEF ApiInv, ApiTypeOK
<1>4. CASE listenFails
    <2>1. RestOK
        BY <1>0, <1>4 DEF listenFails, RestOK, ApiInv, ApiTypeOK
    <2>2. slots \in 0..MaxHTTPConnections /\ MaxHTTPConnections \in Nat
        BY ApiAssumption DEF ApiInv, ApiTypeOK
    <2>3. acceptor = "accept" => slots - 1 \in 0..MaxHTTPConnections
        BY <2>2, OpenFinite DEF ApiInv, SlotsExact
    <2> QED
        BY <1>4, <2>1, <2>2, <2>3, KeepsConns DEF listenFails
<1> QED
    BY <1>1, <1>2, <1>3, <1>4 DEF ApiOfAgent

LEMMA ProcessTypeStep == ASSUME ProcessTypeOK, [AgentNext]_agentVars PROVE ProcessTypeOK'
<1>0. MaxStarts \in Nat
    BY AgentAssumption
<1>1. Fresh => /\ cancelled' \in BOOLEAN /\ group' = "running" /\ result' = "none"
               /\ provider' \in [Providers -> {"gated", "running", "nil", "error"}]
    BY DEF Fresh, Gates
<1> USE DEF ProcessTypeOK
<1>2. CASE start
    BY <1>0, <1>2 DEF start, Begin
<1>3. CASE crash \/ startFails
    BY <1>1, <1>3 DEF crash, startFails, Exit
<1>4. CASE serve
    BY <1>4 DEF serve
<1>5. CASE signal
    <2>1. signalled' \in BOOLEAN /\ UNCHANGED starts
        BY <1>5 DEF signal
    <2>2. CASE Up /\ cancelled' = TRUE /\ UNCHANGED <<main, exitCode, provider, group, result>>
        BY <2>1, <2>2
    <2>3. CASE Exit(1)
        BY <1>1, <2>1, <2>3 DEF Exit
    <2>4. CASE UNCHANGED <<main, exitCode, cancelled, provider, group, result>>
        BY <2>1, <2>4
    <2> QED BY <1>5, <2>2, <2>3, <2>4 DEF signal
<1>6. ASSUME NEW p \in Process, otherStarts(p) \/ otherEnds(p) \/ load(p) \/ loadFails(p)
      PROVE  ProcessTypeOK'
    BY <1>0, <1>6 DEF otherStarts, otherEnds, load, loadFails, Begin, processVars
<1>7. CASE listens \/ listenFails \/ listenEnds \/ Api
    BY <1>7 DEF listens, listenFails, listenEnds, Api, SameProcess, processVars
<1>8. CASE Provide
    BY <1>8 DEF Provide, gateOpens, groupReturns, providerReturns, providerFails, Return,
         SameProcess
<1>9. CASE Select
    <2>1. CASE apiStops
        BY <2>1 DEF apiStops
    <2>2. CASE providersStop
        BY <2>2 DEF providersStop
    <2>3. CASE contextDone
        BY <2>3 DEF contextDone
    <2> QED BY <1>9, <2>1, <2>2, <2>3 DEF Select
<1>10. CASE Finish
    BY <1>1, <1>10 DEF Finish, shutdownBegins, shutdownEnds, shutdownExpires, Exit
<1>11. CASE UNCHANGED agentVars
    BY <1>11 DEF agentVars, processVars
<1> QED
    BY <1>2, <1>3, <1>4, <1>5, <1>6, <1>7, <1>8, <1>9, <1>10, <1>11 DEF AgentNext

\* Without a process nobody listens, no connection is open and nobody is registered.
NoApi ==
    /\ acceptor = "off" /\ slots = 0 /\ ~shutdown
    /\ conn = [c \in Conn |-> "none"] /\ subscribed = {}

ApiOnlyUp == ~Up => NoApi

LEMMA ApiOnlyUpStep == ASSUME ApiOnlyUp, [AgentNext]_agentVars PROVE ApiOnlyUp'
<1> USE DEF ApiOnlyUp, NoApi, Up
<1>1. CASE start \/ serve
    BY <1>1 DEF start, serve, apiVars
<1>2. CASE crash \/ startFails
    BY <1>2 DEF crash, startFails, Exit, Vanishes
<1>3. CASE signal
    BY <1>3 DEF signal, Exit, Vanishes, apiVars
<1>4. ASSUME NEW p \in Process, otherStarts(p) \/ otherEnds(p) \/ load(p) \/ loadFails(p)
      PROVE  ApiOnlyUp'
    BY <1>4 DEF otherStarts, otherEnds, load, loadFails, apiVars, processVars
<1>5. CASE listens \/ listenFails \/ listenEnds \/ Api
    BY <1>5 DEF listens, listenFails, listenEnds, Api, SameProcess, processVars
<1>6. CASE Provide
    BY <1>6 DEF Provide, gateOpens, groupReturns, providerReturns, providerFails, SameProcess
<1>7. CASE Select
    BY <1>7 DEF Select, apiStops, providersStop, contextDone
<1>8. CASE Finish
    BY <1>8 DEF Finish, shutdownBegins, shutdownEnds, shutdownExpires, Exit, Vanishes
<1>9. CASE UNCHANGED agentVars
    BY <1>9 DEF agentVars, processVars, apiVars
<1> QED
    BY <1>1, <1>2, <1>3, <1>4, <1>5, <1>6, <1>7, <1>8, <1>9 DEF AgentNext

AgentInv == ApiInv /\ IdentityInv /\ ProcessTypeOK /\ ApiOnlyUp

LEMMA AgentInvCorrect == AgentSpec => []AgentInv
<1>1. AgentInit => AgentInv
    <2> SUFFICES ASSUME AgentInit PROVE AgentInv
        OBVIOUS
    <2>1. ApiInv /\ IdentityInv
        BY ApiInvInit, IdentityInvInit DEF AgentInit
    <2>2. ProcessTypeOK
        <3>1. starts \in 0..MaxStarts /\ exitCode \in 0..1
            BY AgentAssumption DEF AgentInit
        <3> QED BY <3>1 DEF AgentInit, Gates, ProcessTypeOK
    <2>3. ApiOnlyUp
        BY DEF AgentInit, ApiInit, ApiOnlyUp, NoApi
    <2> QED BY <2>1, <2>2, <2>3 DEF AgentInv
<1>2. AgentInv /\ [AgentNext]_agentVars => AgentInv'
    BY AgentStepsApi, ApiOfAgentKeeps, AgentStepsIdentity, IdentityInvStep, ProcessTypeStep,
       ApiOnlyUpStep DEF AgentInv
<1> QED
    BY <1>1, <1>2, PTL DEF AgentSpec

(* The process and its parts keep their types and limits however often it   *)
(* starts, fails and is stopped.                                            *)
THEOREM AgentTypeCorrect == AgentSpec => []AgentTypeOK
<1>1. AgentInv => AgentTypeOK
    BY DEF AgentInv, ApiInv, IdentityInv, ProcessTypeOK, AgentTypeOK
<1> QED
    BY <1>1, AgentInvCorrect, PTL

(* The books of the API are exact in the process that procd runs, a         *)
(* listener that gives up and a shutdown that expires included; and nothing *)
(* of an API outlasts its process: the next one starts with all slots free  *)
(* and nobody registered.                                                   *)
THEOREM AgentBooks == AgentSpec => [](SlotsExact /\ NoOrphans /\ ApiOnlyUp)
<1>1. AgentInv => SlotsExact /\ NoOrphans /\ ApiOnlyUp
    BY DEF AgentInv, ApiInv
<1> QED
    BY <1>1, AgentInvCorrect, PTL
=============================================================================
