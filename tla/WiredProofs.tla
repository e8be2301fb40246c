---------------------------- MODULE WiredProofs ----------------------------
(***************************************************************************)
(* The two providers at work on one engine implement the engine, the       *)
(* mirror of the Wi-Fi associations follows what the engine was told, and  *)
(* the engine has room for every completed sweep: for every set of clients *)
(* and radios, every lease file, queue and number of failures.             *)
(***************************************************************************)
EXTENDS WiredProvider, EngineStepProofs, SequenceTheorems

-----------------------------------------------------------------------------
(* Types.                                                                  *)

LanTypeOK ==
    reachable \subseteq Client /\ faults \in 0..MaxFaults /\ cancelled \in BOOLEAN

WiFiTask ==
    [at : {"idle", "healthy", "fail"}]
        \cup [at : {"mirror"}, stations : Stations, full : BOOLEAN]

MirrorTypeOK == mirror \in Stations /\ wifi \in WiFiTask /\ ready \in BOOLEAN

NeighborTypeOK ==
    neighbors \in Seq(NeighborEvent) /\ Len(neighbors) <= NeighborQueue + 1

(* The type invariant in its parts.                                         *)
LEMMA WiredTypeParts ==
    WiredTypeOK <=> /\ LanTypeOK /\ MirrorTypeOK /\ NeighborTypeOK
                    /\ eventsReliable \in BOOLEAN /\ task \in Task
BY DEF WiredTypeOK, LanTypeOK, MirrorTypeOK, WiFiTask, NeighborTypeOK

(* The tasks without a parameter are tasks.                                 *)
LEMMA TaskFacts ==
    \A t \in {"gated", "start", "poll", "idle", "healthy", "fail", "stopped"} :
        At(t) \in Task
BY DEF At, Task

(* What a sweep and a neighbour event in hand carry.                        *)
LEMMA TaskParts ==
    ASSUME task \in Task
    PROVE  /\ task.at = "sweep" => task \in Sweep
           /\ task.at = "publish" => task.client \in Client
BY DEF Task, Sweep

(* What the Wi-Fi side turns to.                                            *)
LEMMA WiFiTaskFacts ==
    /\ \A t \in {"idle", "healthy", "fail"} : At(t) \in WiFiTask
    /\ \A s \in Stations, b \in BOOLEAN :
         [at |-> "mirror", stations |-> s, full |-> b] \in WiFiTask
    /\ wifi \in WiFiTask /\ wifi.at = "mirror" =>
         wifi.stations \in Stations /\ wifi.full \in BOOLEAN
BY DEF At, WiFiTask

(* A completed sweep outdates the neighbour events and keeps their number.  *)
LEMMA OutdatedFacts ==
    ASSUME neighbors \in Seq(NeighborEvent)
    PROVE  Outdated \in Seq(NeighborEvent) /\ Len(Outdated) = Len(neighbors)
<1>1. /\ Len(neighbors) \in Nat
      /\ \A i \in 1..Len(neighbors) : neighbors[i] \in NeighborEvent
    BY LenProperties, ElementOfSeq
<1>2. \A e \in NeighborEvent : [e EXCEPT !.fresh = FALSE] \in NeighborEvent
    BY DEF NeighborEvent
<1>3. Outdated \in [1..Len(neighbors) -> NeighborEvent]
    BY <1>1, <1>2 DEF Outdated
<1>4. Outdated \in Seq(NeighborEvent)
    BY <1>1, <1>3, SeqDef
<1>5. Len(Outdated) = Len(neighbors)
    BY <1>1, <1>3, <1>4, LenProperties
<1> QED BY <1>4, <1>5

(* The LAN and the context change within their types.                       *)
LEMMA LanTypes ==
    ASSUME WiredTypeOK, WiredNext
    PROVE  LanTypeOK'
<1> USE DEF WiredTypeOK, LanTypeOK
<1>1. CASE UNCHANGED lanVars
    BY <1>1 DEF lanVars
<1>2. ASSUME faults > 0, faults' = faults - 1
      PROVE  faults' \in 0..MaxFaults
    BY <1>2, WiredAssumption
<1>3. CASE leasesFail
    BY <1>2, <1>3 DEF leasesFail
<1>4. ASSUME NEW c \in Client, probeUnanswered(c) PROVE LanTypeOK'
    BY <1>2, <1>4 DEF probeUnanswered
<1>5. ASSUME NEW c \in Client, Move(c) PROVE LanTypeOK'
    BY <1>5 DEF Move
<1>6. CASE Cancel
    BY <1>6 DEF Cancel
<1>7. CASE WiFiSide
    BY <1>1, <1>7
    DEF WiFiSide, ApplySnapshot, ApplySourceSnapshot, SetProviderStatus, updateMirror
<1>8. CASE openGate \/ start \/ fail \/ leases \/ publishReachable \/ applySweep
             \/ healthy \/ publishNeighbor
    BY <1>1, <1>8
    DEF openGate, start, fail, leases, publishReachable, applySweep, healthy,
        publishNeighbor
<1>9. ASSUME NEW c \in Client,
             filter(c) \/ probeAnswered(c) \/ handleReply(c) \/ listenNeighbor(c)
      PROVE  LanTypeOK'
    BY <1>1, <1>9 DEF filter, probeAnswered, handleReply, listenNeighbor
<1>10. CASE Select \/ Background
    BY <1>1, <1>10 DEF Select, tick, takeNeighbor, stop, Background
<1> QED
    BY <1>3, <1>4, <1>5, <1>6, <1>7, <1>8, <1>9, <1>10
    DEF WiredNext, Run, Environment

(* The mirror and the Wi-Fi side change within their types.                 *)
LEMMA MirrorTypes ==
    ASSUME WiredTypeOK, WiredNext
    PROVE  MirrorTypeOK'
<1>0. MirrorTypeOK
    BY WiredTypeParts
<1>1. CASE UNCHANGED wifiVars
    BY <1>0, <1>1 DEF wifiVars, MirrorTypeOK
<1>2. ASSUME NEW stations \in Stations, ApplySnapshot(stations)
      PROVE  MirrorTypeOK'
    <2>1. wifi' \in WiFiTask
        BY <1>2, WiFiTaskFacts DEF ApplySnapshot
    <2> QED BY <1>0, <1>2, <2>1 DEF ApplySnapshot, MirrorTypeOK
<1>3. ASSUME NEW k \in WiFiSource, NEW ids \in SUBSET Client,
             ApplySourceSnapshot(k, ids)
      PROVE  MirrorTypeOK'
    <2>1. MirrorOf(k, ids) \in Stations
        BY <1>0 DEF MirrorOf, Stations, MirrorTypeOK
    <2>2. wifi' \in WiFiTask
        BY <1>3, <2>1, WiFiTaskFacts DEF ApplySourceSnapshot
    <2> QED BY <1>0, <1>3, <2>2 DEF ApplySourceSnapshot, MirrorTypeOK
<1>4. ASSUME NEW r \in Report, SetProviderStatus(r) PROVE MirrorTypeOK'
    BY <1>0, <1>4, WiFiTaskFacts DEF SetProviderStatus, MirrorTypeOK
<1>5. CASE updateMirror
    BY <1>0, <1>5, WiFiTaskFacts DEF updateMirror, MirrorTypeOK
<1>6. CASE openGate \/ start \/ fail \/ leasesFail \/ leases \/ publishReachable
             \/ applySweep \/ healthy \/ publishNeighbor
    BY <1>1, <1>6
    DEF openGate, start, fail, leasesFail, leases, publishReachable, applySweep,
        healthy, publishNeighbor
<1>7. ASSUME NEW c \in Client,
             filter(c) \/ probeAnswered(c) \/ probeUnanswered(c) \/ handleReply(c)
               \/ listenNeighbor(c) \/ Move(c)
      PROVE  MirrorTypeOK'
    BY <1>1, <1>7
    DEF filter, probeAnswered, probeUnanswered, handleReply, listenNeighbor, Move
<1>8. CASE Select \/ Cancel \/ Background
    BY <1>1, <1>8 DEF Select, tick, takeNeighbor, stop, Cancel, Background
<1> QED
    BY <1>2, <1>3, <1>4, <1>5, <1>6, <1>7, <1>8
    DEF WiredNext, WiFiSide, Run, Environment

(* The channel of neighbour events stays within its limit.                  *)
LEMMA NeighborTypes ==
    ASSUME WiredTypeOK, WiredNext
    PROVE  NeighborTypeOK'
<1> USE DEF WiredTypeOK, NeighborTypeOK
<1>1. CASE UNCHANGED neighbors
    BY <1>1
<1>2. Len(neighbors) \in Nat
    BY LenProperties
<1>3. CASE applySweep
    BY <1>3, OutdatedFacts DEF applySweep
<1>4. CASE takeNeighbor
    <2>1. neighbors # <<>> /\ neighbors' = Tail(neighbors)
        BY <1>4 DEF takeNeighbor
    <2>2. neighbors' \in Seq(NeighborEvent) /\ Len(neighbors') = Len(neighbors) - 1
        BY <2>1, HeadTailProperties
    <2> QED BY <1>2, <2>2, WiredAssumption
<1>5. ASSUME NEW c \in Client, listenNeighbor(c) PROVE NeighborTypeOK'
    <2> DEFINE e == [client |-> c, fresh |-> TRUE]
    <2>1. e \in NeighborEvent
        BY DEF NeighborEvent
    <2>2. neighbors' = Append(neighbors, e) /\ Len(neighbors) <= NeighborQueue
        BY <1>5 DEF listenNeighbor
    <2> HIDE DEF e
    <2>3. neighbors' \in Seq(NeighborEvent) /\ Len(neighbors') = Len(neighbors) + 1
        BY <2>1, <2>2
    <2> QED BY <1>2, <2>2, <2>3, WiredAssumption
<1>6. CASE WiFiSide
    BY <1>1, <1>6
    DEF WiFiSide, ApplySnapshot, ApplySourceSnapshot, SetProviderStatus,
        updateMirror, runVars
<1>7. CASE openGate \/ start \/ fail \/ leasesFail \/ leases \/ publishReachable
             \/ healthy \/ publishNeighbor \/ tick \/ stop
    BY <1>1, <1>7
    DEF openGate, start, fail, leasesFail, leases, publishReachable, healthy,
        publishNeighbor, tick, stop, SameRun
<1>8. ASSUME NEW c \in Client,
             filter(c) \/ probeAnswered(c) \/ probeUnanswered(c)
               \/ handleReply(c) \/ Move(c)
      PROVE  NeighborTypeOK'
    BY <1>1, <1>8
    DEF filter, probeAnswered, probeUnanswered, handleReply, Move, SameRun, runVars
<1>9. CASE Cancel \/ Background
    BY <1>1, <1>9 DEF Cancel, Background, runVars
<1> QED
    BY <1>3, <1>4, <1>5, <1>6, <1>7, <1>8, <1>9
    DEF WiredNext, Run, Select, Environment

(* Run goes from task to task.                                              *)
LEMMA TaskTypes ==
    ASSUME WiredTypeOK, WiredNext
    PROVE  task' \in Task /\ eventsReliable' \in BOOLEAN
<1> USE DEF WiredTypeOK
<1>1. CASE UNCHANGED <<task, eventsReliable>>
    BY <1>1
<1>2. CASE openGate \/ start \/ fail \/ leasesFail \/ applySweep \/ healthy
             \/ publishNeighbor \/ tick \/ stop
    BY <1>2, TaskFacts
    DEF openGate, start, fail, leasesFail, applySweep, healthy, publishNeighbor,
        tick, stop, SameRun
<1>3. CASE leases
    <2>1. [at |-> "sweep", leases |-> Leased, todo |-> {}, replies |-> {},
           clients |-> {}, admitted |-> {}] \in Task
        BY WiredAssumption DEF Task, Sweep
    <2> QED BY <1>3, <2>1, TaskFacts DEF leases, SameRun
<1>4. task.at = "sweep" => task \in Sweep
    BY TaskParts
<1>5. ASSUME NEW c \in Client, probeAnswered(c) PROVE task' \in Sweep
    BY <1>4, <1>5 DEF Probed, probeAnswered, Sweep
<1>6. ASSUME NEW c \in Client, probeUnanswered(c) PROVE task' \in Sweep
    BY <1>4, <1>6 DEF Probed, probeUnanswered, Sweep
<1>13. ASSUME NEW c \in Client, filter(c) PROVE task' \in Sweep
    BY <1>4, <1>13 DEF filter, Sweep
<1>7. ASSUME NEW c \in Client, handleReply(c) PROVE task' \in Sweep
    BY <1>4, <1>7 DEF handleReply, Sweep
<1>8. CASE publishReachable
    <2>1. task' = At("fail") \/ task' = [task EXCEPT !.admitted = {}]
        BY <1>8 DEF publishReachable
    <2>2. [task EXCEPT !.admitted = {}] \in Sweep
        BY <1>4, <1>8 DEF publishReachable, Sweep
    <2> QED BY <1>8, <2>1, <2>2, TaskFacts DEF publishReachable, Task, SameRun
<1>9. ASSUME NEW c \in Client,
             filter(c) \/ probeAnswered(c) \/ probeUnanswered(c) \/ handleReply(c)
      PROVE  task' \in Task /\ eventsReliable' \in BOOLEAN
    BY <1>5, <1>6, <1>7, <1>9, <1>13
    DEF filter, probeAnswered, probeUnanswered, handleReply, Task, SameRun
<1>10. CASE takeNeighbor
    <2>1. Head(neighbors).client \in Client
        <3>1. Head(neighbors) \in NeighborEvent
            BY <1>10, HeadTailProperties DEF takeNeighbor
        <3> QED BY <3>1 DEF NeighborEvent
    <2>2. [at |-> "publish", client |-> Head(neighbors).client] \in Task
        BY <2>1 DEF Task
    <2> QED BY <1>10, <2>2 DEF takeNeighbor
<1>11. CASE WiFiSide
    BY <1>1, <1>11
    DEF WiFiSide, ApplySnapshot, ApplySourceSnapshot, SetProviderStatus,
        updateMirror, runVars
<1>12. CASE Environment \/ Background
    BY <1>1, <1>12 DEF Environment, listenNeighbor, Move, Cancel, Background, runVars
<1> QED
    BY <1>2, <1>3, <1>8, <1>9, <1>10, <1>11, <1>12 DEF WiredNext, Run, Select

-----------------------------------------------------------------------------
(***************************************************************************)
(* The engine's view.  What Run does between its first report and its last *)
(* it does as a provider the engine knows: so its observations and sweeps  *)
(* are steps the engine allows for.                                        *)
(***************************************************************************)
WiredObserves ==
    task.at \in {"poll", "idle", "healthy", "fail", "publish", "sweep"} =>
        Observing(Wired)

(* The two providers have sources, and the LAN is the wired one's.          *)
LEMMA ProviderFacts ==
    /\ WiFi \in Running /\ Wired \in Running /\ WiFi # Wired
    /\ WiFi \in Provider /\ Wired \in Provider
    /\ ConnsOf(WiFi) = WiFiSource /\ ConnsOf(Wired) = {Lan}
    /\ Lan \in Conns /\ Lan \notin WiFiSource /\ WiFiSource \subseteq Conns
    /\ ProviderOf(Lan) = Wired /\ KindSeenOn(Lan) \in AppliedKinds
BY WiredAssumption, SourceAssumption
DEF WiFi, Wired, Running, Provider, ConnsOf, Conns, ProviderOf, KindSeenOn

(* A report of Run is a step of the engine.                                 *)
LEMMA PublishIsStep ==
    ASSUME TypeOK, NEW status, Publish(status)
    PROVE  Next /\ providers'[Wired].status = status
<1>1. PICK r \in Reports(Wired) : r.status = status /\ SetProvider(Wired, r)
    BY DEF Publish
<1>2. Next
    BY <1>1, ProviderFacts DEF Next
<1>3. providers'[Wired] = r
    BY <1>1, ProviderFacts DEF SetProvider, TypeOK
<1> QED BY <1>1, <1>2, <1>3

(* So is one of the Wi-Fi provider, and it leaves the wired report alone.   *)
LEMMA WiFiReportIsStep ==
    ASSUME TypeOK, NEW r, SetProviderStatus(r)
    PROVE  Next /\ providers'[Wired] = providers[Wired]
<1>1. r \in Reports(WiFi) /\ SetProvider(WiFi, r)
    BY DEF SetProviderStatus, WiFiReports
<1>2. Next
    BY <1>1, ProviderFacts DEF Next
<1>3. providers' = [providers EXCEPT ![WiFi] = r]
    BY <1>1 DEF SetProvider
<1>4. providers'[Wired] = providers[Wired]
    BY <1>3, ProviderFacts DEF TypeOK
<1> QED BY <1>2, <1>4

(* A client seen on the LAN, admitted or refused, is a step of the engine.  *)
LEMMA LanSightingIsStep ==
    ASSUME Observing(Wired), NEW c \in Client, Associate(Lan, c) \/ RefuseObservation(c)
    PROVE  Next /\ UNCHANGED providers
<1>1. Apply(Lan, c)
    BY ProviderFacts DEF Apply
<1>2. Next
    BY <1>1, ProviderFacts DEF Next
<1>3. UNCHANGED providers
    BY DEF Associate, RefuseObservation
<1> QED BY <1>2, <1>3

(* A snapshot of all the radios, accepted or refused, is one.               *)
LEMMA WiFiSnapshotIsStep ==
    ASSUME NEW stations \in Stations,
           \/ Reconcile(WiFi, stations)
           \/ RefuseSnapshot(WiFi, Wanted(WiFiSource, stations))
    PROVE  Next /\ UNCHANGED providers
<1>1. stations \in [ConnsOf(WiFi) -> SUBSET Client]
    BY ProviderFacts DEF Stations
<1>2. Next
    BY <1>1, ProviderFacts DEF Next
<1>3. UNCHANGED providers
    BY DEF Reconcile, RefuseSnapshot
<1> QED BY <1>2, <1>3

(* And a completed sweep.                                                   *)
LEMMA SweepIsStep ==
    ASSUME task \in Task, applySweep
    PROVE  Next /\ UNCHANGED providers
<1> DEFINE stations == [k \in WiredSource |-> task.clients]
<1>1. task.at = "sweep" /\ Reconcile(Wired, stations)
    BY DEF applySweep, SweepDone
<1>2. task.clients \in SUBSET Client
    BY <1>1, TaskParts DEF Sweep
<1>3. stations \in [ConnsOf(Wired) -> SUBSET Client]
    BY <1>2, ProviderFacts, WiredAssumption
<1> HIDE DEF stations
<1>4. Next
    BY <1>1, <1>3, ProviderFacts DEF Next
<1>5. UNCHANGED providers
    BY <1>1 DEF Reconcile
<1> QED BY <1>4, <1>5

WiredSound == TypeOK /\ WiredTypeOK /\ WiredObserves

(* Every step of the two providers is a step of the engine or leaves it     *)
(* alone, and Run stays known to the engine until it stops.                 *)
LEMMA WiredStep ==
    ASSUME WiredSound, WiredNext
    PROVE  (Next \/ UNCHANGED vars) /\ WiredObserves'
<1> USE DEF WiredSound
<1>0. task \in Task
    BY DEF WiredTypeOK
<1>1. ASSUME Next \/ UNCHANGED vars, UNCHANGED task,
             providers'[Wired] = providers[Wired]
      PROVE  (Next \/ UNCHANGED vars) /\ WiredObserves'
    BY <1>1 DEF WiredObserves, Observing
<1>2. ASSUME UNCHANGED vars,
             task.at \in {"poll", "idle", "sweep"} \/ task'.at \in {"start", "stopped"}
      PROVE  (Next \/ UNCHANGED vars) /\ WiredObserves'
    BY <1>2 DEF WiredObserves, Observing, vars
<1>3. ASSUME NEW stations \in Stations, ApplySnapshot(stations)
      PROVE  (Next \/ UNCHANGED vars) /\ WiredObserves'
    BY <1>1, <1>3, WiFiSnapshotIsStep DEF ApplySnapshot, runVars
<1>4. ASSUME NEW k \in WiFiSource, NEW ids \in SUBSET Client,
             ApplySourceSnapshot(k, ids)
      PROVE  (Next \/ UNCHANGED vars) /\ WiredObserves'
    <2>1. ReconcileSource(k, ids) \/ RefuseSnapshot(WiFi, ids)
        BY <1>4 DEF ApplySourceSnapshot
    <2>2. Next
        BY <2>1 DEF Next
    <2>3. UNCHANGED providers
        BY <2>1 DEF ReconcileSource, RefuseSnapshot
    <2> QED BY <1>1, <1>4, <2>2, <2>3 DEF ApplySourceSnapshot, runVars
<1>5. ASSUME NEW r \in Report, SetProviderStatus(r)
      PROVE  (Next \/ UNCHANGED vars) /\ WiredObserves'
    BY <1>1, <1>5, WiFiReportIsStep DEF SetProviderStatus, runVars
<1>6. CASE updateMirror \/ Environment
    BY <1>1, <1>6
    DEF updateMirror, Environment, listenNeighbor, Move, Cancel, runVars, vars
<1>7. CASE openGate \/ leasesFail \/ leases \/ tick \/ takeNeighbor
    BY <1>2, <1>7 DEF openGate, leasesFail, leases, tick, takeNeighbor, At
<1>8. ASSUME NEW c \in Client,
             filter(c) \/ probeAnswered(c) \/ probeUnanswered(c) \/ handleReply(c)
      PROVE  (Next \/ UNCHANGED vars) /\ WiredObserves'
    BY <1>2, <1>8 DEF filter, Probed, probeAnswered, probeUnanswered, handleReply
<1>9. CASE start \/ fail \/ healthy
    <2>1. PICK status \in {"initializing", "unavailable", "healthy"} : Publish(status)
        BY <1>9 DEF start, fail, healthy
    <2> QED BY <2>1, PublishIsStep DEF WiredObserves, Observing
<1>10. CASE stop
    BY <1>10, PublishIsStep DEF stop, WiredObserves, At
<1>11. CASE publishReachable
    <2>1. task.at = "sweep"
        BY <1>11 DEF publishReachable
    <2>2. task.admitted \subseteq Client
        BY <1>0, <2>1, TaskParts DEF Sweep
    <2>3. Observing(Wired)
        BY <2>1 DEF WiredObserves
    <2>4. Next /\ UNCHANGED providers
        BY <1>11, <2>2, <2>3, LanSightingIsStep DEF publishReachable
    <2> QED BY <2>3, <2>4 DEF WiredObserves, Observing
<1>12. CASE applySweep
    <2>1. Observing(Wired)
        BY <1>12 DEF applySweep, SweepDone, WiredObserves
    <2> QED BY <1>0, <1>12, <2>1, SweepIsStep DEF WiredObserves, Observing
<1>13. CASE publishNeighbor
    <2>1. task.at = "publish" /\ task.client \in Client
        BY <1>0, <1>13, TaskParts DEF publishNeighbor
    <2>2. Observing(Wired)
        BY <2>1 DEF WiredObserves
    <2> QED BY <1>13, <2>1, <2>2, LanSightingIsStep
            DEF publishNeighbor, WiredObserves, Observing
<1>14. CASE Background
    <2>1. Next /\ UNCHANGED providers /\ UNCHANGED task
        BY <1>14 DEF Background, Next, sweepPending, Tick, runVars
    <2> QED BY <1>1, <2>1
<1> QED
    BY <1>3, <1>4, <1>5, <1>6, <1>7, <1>8, <1>9, <1>10, <1>11, <1>12, <1>13, <1>14
    DEF WiredNext, WiFiSide, Run, Select

(* The providers start sound.                                               *)
LEMMA WiredSoundInit == WiredInit => WiredSound
<1> SUFFICES ASSUME WiredInit PROVE WiredSound
    OBVIOUS
<1>1. TypeOK
    BY TypeInit DEF WiredInit
<1>2. LanTypeOK
    <2>1. MaxFaults \in 0..MaxFaults
        BY WiredAssumption
    <2> QED BY <2>1 DEF WiredInit, LanTypeOK
<1>3. MirrorTypeOK
    BY WiFiTaskFacts DEF WiredInit, MirrorTypeOK, Stations
<1>4. NeighborTypeOK
    BY WiredAssumption DEF WiredInit, NeighborTypeOK
<1>5. eventsReliable \in BOOLEAN /\ task \in Task
    BY TaskFacts DEF WiredInit
<1>6. WiredObserves
    BY DEF WiredInit, WiredObserves, At
<1> QED BY <1>1, <1>2, <1>3, <1>4, <1>5, <1>6, WiredTypeParts DEF WiredSound

(* Every step of a provider, the kernel or the engine keeps them so.        *)
LEMMA WiredSoundNext ==
    WiredSound /\ [WiredNext]_wiredVars => WiredSound' /\ [Next]_vars
<1> SUFFICES ASSUME WiredSound, [WiredNext]_wiredVars
             PROVE  WiredSound' /\ [Next]_vars
    OBVIOUS
<1>1. CASE WiredNext
    <2>1. [Next]_vars /\ WiredObserves'
        BY <1>1, WiredStep
    <2>2. TypeOK'
        BY <2>1, TypeNext DEF WiredSound
    <2>3. /\ LanTypeOK' /\ MirrorTypeOK' /\ NeighborTypeOK'
          /\ task' \in Task /\ eventsReliable' \in BOOLEAN
        BY <1>1, LanTypes, MirrorTypes, NeighborTypes, TaskTypes DEF WiredSound
    <2>4. WiredTypeOK'
        BY <2>3 DEF WiredTypeOK, LanTypeOK, MirrorTypeOK, WiFiTask, NeighborTypeOK
    <2> QED BY <2>1, <2>2, <2>4 DEF WiredSound
<1>2. CASE UNCHANGED wiredVars
    <2>1. UNCHANGED <<vars, lanVars, wifiVars, runVars>>
        BY <1>2 DEF wiredVars
    <2>2. TypeOK'
        BY <2>1, TypeNext DEF WiredSound
    <2>3. WiredTypeOK'
        BY <2>1 DEF WiredSound, WiredTypeOK, lanVars, wifiVars, runVars
    <2>4. WiredObserves'
        BY <2>1 DEF WiredSound, WiredObserves, Observing, runVars, vars
    <2> QED BY <2>1, <2>2, <2>3, <2>4 DEF WiredSound
<1> QED BY <1>1, <1>2

(* Both providers stay well typed, and the channel of neighbour events      *)
(* within its limit, whatever the clients do and whichever commands fail.   *)
THEOREM WiredTypeCorrect == WiredSpec => []WiredTypeOK
<1>1. WiredSound => WiredTypeOK
    BY DEF WiredSound
<1> QED BY <1>1, WiredSoundInit, WiredSoundNext, PTL DEF WiredSpec

(* Whatever the two providers do with the engine side by side is what       *)
(* Engine allows for: the wired one observes only between "initializing"    *)
(* and "stopped", its sweeps are of clients, its sightings on its own LAN.  *)
THEOREM WiredEngineImplemented == WiredSpec => Spec
<1>1. WiredInit => Init
    BY DEF WiredInit
<1> QED BY <1>1, WiredSoundInit, WiredSoundNext, PTL DEF WiredSpec, Spec

(* So with both providers at work the presence of every client is what its  *)
(* connections say, a hold is on its client's only live connection, no more *)
(* clients are listed than the limit allows, every change of presence is    *)
(* announced, a client becomes absent by a snapshot only, nothing extends a *)
(* hold, and what consumers see of presence is the behaviour Presence       *)
(* promises.                                                                *)
THEOREM WiredAgentCorrect ==
    WiredSpec =>
        /\ [](PresenceIsEvidence /\ HoldIsSoleLive /\ CapacityRespected)
        /\ PresenceAnnounced /\ AbsenceIsAuthoritative /\ HoldNeverExtended
        /\ ImplementsPresence
BY WiredEngineImplemented, PresenceCorrect, HoldCorrect, CapacityCorrect, PresenceIsAnnounced,
   AbsenceNeedsSnapshot, HoldsOnlyShrink, PresenceImplemented, PTL

-----------------------------------------------------------------------------
(***************************************************************************)
(* The mirror.  WiFiExcluded is not inductive: a snapshot of one radio     *)
(* relies on what the mirror has of the others.  What the mirror has, or   *)
(* is about to have, is for each radio exactly what the radio was last     *)
(* reported to hold; and without grace nothing else is live there.         *)
(***************************************************************************)
MirrorIsEvidence ==
    /\ wifi.at # "mirror" => \A k \in WiFiSource : mirror[k] = evidence[k]
    /\ wifi.at = "mirror" => \A k \in WiFiSource : wifi.stations[k] = evidence[k]

(* A step that leaves the mirror and what the radios report alone.          *)
LEMMA MirrorKept ==
    ASSUME MirrorIsEvidence, UNCHANGED <<mirror, wifi>>,
           \A k \in WiFiSource : evidence'[k] = evidence[k]
    PROVE  MirrorIsEvidence'
BY DEF MirrorIsEvidence

(* Every step keeps the mirror in step with the reports: the only ones      *)
(* about radios come through wifiAssociations.                              *)
LEMMA MirrorNext ==
    ASSUME WiredSound, MirrorIsEvidence, WiredNext
    PROVE  MirrorIsEvidence'
<1>0. TypeOK /\ mirror \in Stations
    BY DEF WiredSound, WiredTypeOK
<1>1. ASSUME UNCHANGED <<wifiVars, evidence>> PROVE MirrorIsEvidence'
    BY <1>1, MirrorKept DEF wifiVars
<1>2. ASSUME NEW stations \in Stations, ApplySnapshot(stations)
      PROVE  MirrorIsEvidence'
    <2>1. wifi.at = "idle"
        BY <1>2 DEF ApplySnapshot, At
    <2>2. CASE Reconcile(WiFi, stations) /\ wifi' = [at |-> "mirror", stations |-> stations,
                                                     full |-> TRUE]
        <3>1. \A k \in WiFiSource : evidence'[k] = stations[k]
            BY <2>2, ProviderFacts DEF Reconcile, MergedEvidence
        <3> QED BY <2>2, <3>1 DEF MirrorIsEvidence
    <2>3. CASE RefuseSnapshot(WiFi, Wanted(WiFiSource, stations)) /\ wifi' = At("fail")
        BY <1>2, <2>1, <2>3 DEF ApplySnapshot, RefuseSnapshot, MirrorIsEvidence, At
    <2> QED BY <1>2, <2>2, <2>3 DEF ApplySnapshot
<1>3. ASSUME NEW k \in WiFiSource, NEW ids \in SUBSET Client,
             ApplySourceSnapshot(k, ids)
      PROVE  MirrorIsEvidence'
    <2>1. wifi.at = "idle"
        BY <1>3 DEF ApplySourceSnapshot, At
    <2>2. CASE ReconcileSource(k, ids) /\ wifi' = [at |-> "mirror",
                                                   stations |-> MirrorOf(k, ids),
                                                   full |-> FALSE]
        <3>1. \A j \in WiFiSource : evidence'[j] = IF j = k THEN ids ELSE evidence[j]
            BY <2>2, ProviderFacts DEF ReconcileSource, MergedEvidence
        <3>2. \A j \in WiFiSource : MirrorOf(k, ids)[j] = IF j = k THEN ids ELSE mirror[j]
            BY <1>0 DEF MirrorOf, Stations
        <3> QED BY <2>1, <2>2, <3>1, <3>2 DEF MirrorIsEvidence
    <2>3. CASE RefuseSnapshot(WiFi, ids) /\ wifi' = At("fail")
        BY <1>3, <2>1, <2>3
        DEF ApplySourceSnapshot, RefuseSnapshot, MirrorIsEvidence, At
    <2> QED BY <1>3, <2>2, <2>3 DEF ApplySourceSnapshot
<1>4. ASSUME NEW r \in Report, SetProviderStatus(r) PROVE MirrorIsEvidence'
    <2>1. wifi.at # "mirror" /\ wifi'.at = "idle" /\ UNCHANGED mirror
        BY <1>4 DEF SetProviderStatus, WiFiReports, At
    <2>2. UNCHANGED evidence
        BY <1>4 DEF SetProviderStatus, SetProvider
    <2> QED BY <2>1, <2>2 DEF MirrorIsEvidence
<1>5. CASE updateMirror
    BY <1>5 DEF updateMirror, MirrorIsEvidence, At, vars
<1>6. CASE openGate \/ leasesFail \/ leases \/ Environment \/ tick \/ takeNeighbor
    BY <1>1, <1>6
    DEF openGate, leasesFail, leases, Environment, listenNeighbor, Move, Cancel,
        tick, takeNeighbor, vars
<1>7. ASSUME NEW c \in Client,
             filter(c) \/ probeAnswered(c) \/ probeUnanswered(c) \/ handleReply(c)
      PROVE  MirrorIsEvidence'
    BY <1>1, <1>7 DEF filter, probeAnswered, probeUnanswered, handleReply, vars
<1>8. CASE start \/ fail \/ healthy \/ stop
    BY <1>1, <1>8 DEF start, fail, healthy, stop, Publish, SetProvider
<1>9. ASSUME NEW c \in Client, Associate(Lan, c) \/ RefuseObservation(c),
             UNCHANGED wifiVars
      PROVE  MirrorIsEvidence'
    <2>1. \A k \in WiFiSource : evidence'[k] = evidence[k]
        BY <1>0, <1>9, ProviderFacts DEF Associate, RefuseObservation, TypeOK
    <2> QED BY <1>9, <2>1, MirrorKept DEF wifiVars
<1>10. CASE publishReachable \/ publishNeighbor
    <2>1. /\ task.at = "sweep" => task.admitted \subseteq Client
          /\ task.at = "publish" => task.client \in Client
        BY TaskParts DEF WiredSound, WiredTypeOK, Sweep
    <2> QED BY <1>9, <1>10, <2>1 DEF publishReachable, publishNeighbor
<1>11. CASE applySweep
    <2>1. \A k \in WiFiSource : evidence'[k] = evidence[k]
        BY <1>11, ProviderFacts DEF applySweep, Reconcile, MergedEvidence
    <2> QED BY <1>11, <2>1, MirrorKept DEF applySweep, wifiVars
<1>12. CASE Background
    BY <1>1, <1>12 DEF Background, sweepPending, Tick
<1> QED
    BY <1>2, <1>3, <1>4, <1>5, <1>6, <1>7, <1>8, <1>10, <1>11, <1>12
    DEF WiredNext, WiFiSide, Run, Select

(* Without grace, a client the engine has live on a radio is one the mirror *)
(* has, and so one the wired provider neither probes nor admits, except     *)
(* between the lock of the engine and that of the mirror.                   *)
THEOREM WiFiIsExcluded ==
    ASSUME Grace = 0
    PROVE  WiredSpec => []WiFiExcluded
<1>1. WiredInit => MirrorIsEvidence
    <2> SUFFICES ASSUME WiredInit PROVE MirrorIsEvidence
        OBVIOUS
    <2>1. \A k \in WiFiSource : mirror[k] = {} /\ evidence[k] = {}
        BY ProviderFacts DEF WiredInit, Init
    <2> QED BY <2>1 DEF WiredInit, MirrorIsEvidence, At
<1>2. WiredSound /\ MirrorIsEvidence /\ [WiredNext]_wiredVars => MirrorIsEvidence'
    <2> SUFFICES ASSUME WiredSound, MirrorIsEvidence, [WiredNext]_wiredVars
                 PROVE  MirrorIsEvidence'
        OBVIOUS
    <2>1. CASE UNCHANGED wiredVars
        BY <2>1, MirrorKept DEF wiredVars, vars, wifiVars
    <2> QED BY <2>1, MirrorNext
<1>3. MirrorIsEvidence /\ EvidenceBacked => WiFiExcluded
    BY ProviderFacts DEF MirrorIsEvidence, EvidenceBacked, WiFiExcluded, Associated
<1>4. WiredSpec => []EvidenceBacked
    BY WiredEngineImplemented, EvidenceCorrect, PTL
<1> QED
    BY <1>1, <1>2, <1>3, <1>4, WiredSoundInit, WiredSoundNext, PTL DEF WiredSpec

-----------------------------------------------------------------------------
(***************************************************************************)
(* Sweeps.  Whom a sweep has admitted, but for the one in hand, is live on *)
(* the LAN and stays so until the sweep ends: events, snapshots, outages   *)
(* and refusals of Wi-Fi may evict others, but nobody with a live          *)
(* connection, and a hold is never on the LAN.                             *)
(***************************************************************************)
LanKept(c) == conns[c][Lan] = "live" => conns'[c][Lan] = "live"

(* Who is live on the LAN is present, so not evicted, and has no hold whose *)
(* end would remove that connection.                                        *)
LEMMA LanFacts ==
    ASSUME Sound, NEW c \in Client, conns[c][Lan] = "live"
    PROVE  /\ state[c] = "present"
           /\ \A n, W : \A E \in evictOldestNonPresent(n, W) : c \notin E
           /\ \A W : c \notin Evictable(W)
           /\ pending[c] # None => pending[c].conn # Lan
<1>1. Lan \in Live(conns[c])
    BY ProviderFacts DEF Live
<1>2. SoundFor(c)
    BY SoundIsPerClient
<1>3. state[c] = "present"
    BY <1>1, <1>2 DEF SoundFor
<1>4. \A n, W : \A E \in evictOldestNonPresent(n, W) : c \notin E
    BY <1>3, EvictionFacts
<1>5. \A W : c \notin Evictable(W)
    BY <1>3 DEF Evictable, Rank
<1>6. pending[c] # None => pending[c].conn # Lan
    BY <1>2, ProviderFacts DEF SoundFor
<1> QED BY <1>3, <1>4, <1>5, <1>6

(* A sighting on any source takes nobody off the LAN.                       *)
LEMMA LanAssociate ==
    ASSUME Sound, NEW k \in Conns, NEW d \in Client, Associate(k, d), NEW c \in Client
    PROVE  LanKept(c) /\ conns'[d][k] = "live"
<1>0. TypeOK
    BY DEF Sound
<1>1. PICK E \in evictOldestNonPresent(Excess({d}), {d}) :
        conns' = [Forgotten(E) EXCEPT ![d] = [conns[d] EXCEPT ![k] = "live"]]
    BY DEF Associate
<1>2. conns[c][Lan] = "live" => c \notin E
    BY LanFacts
<1>3. conns'[d][k] = "live"
    BY <1>0, <1>1 DEF Forgotten, TypeOK
<1> QED BY <1>0, <1>1, <1>2, <1>3, ProviderFacts DEF LanKept, Forgotten, TypeOK

(* An accepted snapshot of radios does not either.                          *)
LEMMA LanMerged ==
    ASSUME Sound, NEW K \in SUBSET WiFiSource, NEW stations, NEW kept, NEW n, NEW W,
           NEW E \in evictOldestNonPresent(n, W),
           conns' = MergedConns(K, stations, kept, E), NEW c \in Client
    PROVE  LanKept(c)
<1>1. conns[c][Lan] = "live" => c \notin E
    BY LanFacts
<1>2. Lan \notin K /\ Lan \notin Unwanted(K, stations, c)
    BY ProviderFacts DEF Unwanted
<1> QED BY <1>1, <1>2, ProviderFacts DEF MergedConns, LanKept

(* Nothing the Wi-Fi side or the sweeper of holds does takes a client off   *)
(* the LAN.                                                                 *)
LEMMA LanSpared ==
    ASSUME Sound, NEW c \in Client, WiFiSide \/ Background
    PROVE  LanKept(c)
<1>1. CASE UNCHANGED conns
    BY <1>1 DEF LanKept
<1>2. ASSUME NEW p, NEW W, RefuseSnapshot(p, W) PROVE LanKept(c)
    BY <1>2, LanFacts DEF RefuseSnapshot, Forgotten, LanKept
<1>3. ASSUME NEW stations \in Stations, Reconcile(WiFi, stations) PROVE LanKept(c)
    <2> DEFINE W == Wanted(WiFiSource, stations)
    <2>1. PICK E \in evictOldestNonPresent(Excess(W), W),
               kept \in KeptChoices(WiFi, WiFiSource, stations) :
            conns' = MergedConns(WiFiSource, stations, kept, E)
        BY <1>3, ProviderFacts DEF Reconcile
    <2> QED BY <2>1, LanMerged
<1>4. ASSUME NEW k \in WiFiSource, NEW ids \in SUBSET Client, ReconcileSource(k, ids)
      PROVE  LanKept(c)
    <2> DEFINE stations == [j \in {k} |-> ids]
               K == {k}
    <2>1. PICK E \in evictOldestNonPresent(Excess(ids), ids),
               kept \in KeptChoices(ProviderOf(k), K, stations) :
            conns' = MergedConns(K, stations, kept, E)
        BY <1>4 DEF ReconcileSource
    <2>2. K \in SUBSET WiFiSource
        OBVIOUS
    <2> HIDE DEF K, stations
    <2> QED BY <2>1, <2>2, LanMerged
<1>5. ASSUME NEW r, SetProvider(WiFi, r) PROVE LanKept(c)
    BY <1>1, <1>5, ProviderFacts DEF SetProvider, MarkUnavailable, StaleConns, LanKept
<1>6. CASE sweepPending
    <2>1. pending[c] # None /\ conns[c][Lan] = "live" => pending[c].conn # Lan
        BY LanFacts
    <2>2. c \in Departing => pending[c] # None
        BY DEF Departing, Expired
    <2> QED BY <1>6, <2>1, <2>2, ProviderFacts
            DEF sweepPending, DepartedConns, LanKept, Sound, TypeOK
<1>7. CASE Tick
    BY <1>1, <1>7 DEF Tick
<1>8. CASE updateMirror
    BY <1>1, <1>8 DEF updateMirror, vars
<1> QED
    BY <1>2, <1>3, <1>4, <1>5, <1>6, <1>7, <1>8
    DEF WiFiSide, ApplySnapshot, ApplySourceSnapshot, SetProviderStatus, Background

SweepKept ==
    task.at = "sweep" =>
        /\ \A c \in task.clients \ task.admitted : conns[c][Lan] = "live"
        /\ \A c, d \in task.admitted : c = d

(* A sweep goes on while nobody is taken off the LAN.                       *)
LEMMA SweepGoesOn ==
    ASSUME task \in Task, SweepKept, UNCHANGED task, \A c \in Client : LanKept(c)
    PROVE  SweepKept'
<1>1. task.at = "sweep" => task.clients \subseteq Client
    BY TaskParts DEF Sweep
<1> QED BY <1>1 DEF SweepKept, LanKept

(* Every step keeps whom a sweep has admitted on the LAN.                   *)
LEMMA SweepKeptNext ==
    ASSUME WiredSound, Sound, SweepKept, WiredNext
    PROVE  SweepKept'
<1>0. task \in Task /\ (task.at = "sweep" => task \in Sweep)
    BY TaskParts DEF WiredSound, WiredTypeOK
<1>1. ASSUME UNCHANGED <<task, conns>> PROVE SweepKept'
    BY <1>1 DEF SweepKept
<1>2. ASSUME NEW t \in {"start", "poll", "idle", "healthy", "fail", "stopped"},
             task' = At(t)
      PROVE  SweepKept'
    BY <1>2 DEF SweepKept, At
<1>3. CASE WiFiSide \/ Background
    <2>1. \A c \in Client : LanKept(c)
        BY <1>3, LanSpared
    <2>2. UNCHANGED task
        BY <1>3 DEF WiFiSide, ApplySnapshot, ApplySourceSnapshot, SetProviderStatus,
                    updateMirror, Background, runVars
    <2> QED BY <1>0, <2>1, <2>2, SweepGoesOn
<1>4. CASE openGate \/ start \/ fail \/ leasesFail \/ applySweep \/ healthy
             \/ publishNeighbor \/ tick \/ stop
    BY <1>2, <1>4
    DEF openGate, start, fail, leasesFail, applySweep, healthy, publishNeighbor,
        tick, stop
<1>5. CASE leases
    BY <1>2, <1>5 DEF leases, SweepKept
<1>6. ASSUME NEW c \in Client, filter(c) \/ probeAnswered(c) \/ probeUnanswered(c)
      PROVE  SweepKept'
    <2>1. /\ task.at = "sweep" /\ task'.at = "sweep" /\ UNCHANGED conns
          /\ task'.clients = task.clients /\ task'.admitted = task.admitted
        BY <1>0, <1>6 DEF filter, Probed, probeAnswered, probeUnanswered, Sweep, vars
    <2> QED BY <2>1 DEF SweepKept
<1>7. ASSUME NEW c \in Client, handleReply(c) PROVE SweepKept'
    <2>1. /\ task.at = "sweep" /\ task'.at = "sweep" /\ UNCHANGED conns
          /\ task.admitted = {}
          /\ \/ task'.clients = task.clients \cup {c} /\ task'.admitted = {c}
             \/ task'.clients = task.clients /\ task'.admitted = {}
        BY <1>0, <1>7 DEF handleReply, Sweep, vars
    <2> QED BY <2>1 DEF SweepKept
<1>8. CASE publishReachable
    <2>1. PICK c \in task.admitted :
            \/ Associate(Lan, c) /\ task' = [task EXCEPT !.admitted = {}]
            \/ task' = At("fail")
        BY <1>8 DEF publishReachable
    <2>2. task \in Sweep /\ c \in Client
        BY <1>0, <1>8, <2>1 DEF publishReachable, Sweep
    <2>3. CASE Associate(Lan, c) /\ task' = [task EXCEPT !.admitted = {}]
        <3>1. conns'[c][Lan] = "live" /\ \A d \in Client : LanKept(d)
            BY <2>2, <2>3, LanAssociate, ProviderFacts
        <3>2. task'.clients = task.clients /\ task'.admitted = {}
            BY <2>2, <2>3 DEF Sweep
        <3>3. task.at = "sweep" /\ task.clients \subseteq Client
            BY <2>2 DEF Sweep
        <3>4. ASSUME NEW d \in task.clients PROVE conns'[d][Lan] = "live"
            <4>1. d \in task.admitted => d = c
                BY <2>1, <3>3 DEF SweepKept
            <4>2. d \notin task.admitted => conns[d][Lan] = "live"
                BY <3>3 DEF SweepKept
            <4> QED BY <3>1, <3>3, <4>1, <4>2 DEF LanKept
        <3> QED BY <3>2, <3>4 DEF SweepKept
    <2> QED BY <1>2, <2>1, <2>3
<1>9. CASE takeNeighbor
    BY <1>9 DEF takeNeighbor, SweepKept, At
<1>10. CASE Environment
    BY <1>1, <1>10 DEF Environment, listenNeighbor, Move, Cancel, runVars, vars
<1> QED
    BY <1>3, <1>4, <1>5, <1>6, <1>7, <1>8, <1>9, <1>10 DEF WiredNext, Run, Select

(* An engine within its limit has room for clients it already lists.        *)
LEMMA ListedFit ==
    ASSUME CapacityRespected, NEW W \in SUBSET Listed
    PROVE  Fits(W)
<1>1. Listed \cup W = Listed
    OBVIOUS
<1>2. Listed \in SUBSET Client /\ Evictable(W) \in SUBSET Client
    BY DEF Evictable, Listed
<1>3. Cardinality(Listed) \in Nat /\ Cardinality(Evictable(W)) \in Nat
    BY <1>2, ClientAssumption, FS_Subset, FS_CardinalityType
<1>4. Excess(W) = 0
    BY <1>1, <1>3, LimitAssumption DEF Excess, CapacityRespected
<1> QED BY <1>3, <1>4 DEF Fits

(* The engine has room for every completed sweep, at any limit and whatever *)
(* happened on the radios while it ran: applySweep never meets a refusal.   *)
THEOREM SweepsFit == WiredSpec => []SweepFits
<1>1. WiredInit => SweepKept
    BY DEF WiredInit, SweepKept, At
<1>2. WiredSound /\ Sound /\ SweepKept /\ [WiredNext]_wiredVars => SweepKept'
    <2> SUFFICES ASSUME WiredSound, Sound, SweepKept, [WiredNext]_wiredVars
                 PROVE  SweepKept'
        OBVIOUS
    <2>1. CASE UNCHANGED wiredVars
        BY <2>1 DEF wiredVars, vars, runVars, SweepKept
    <2> QED BY <2>1, SweepKeptNext
<1>3. WiredSound /\ Sound /\ CapacityRespected /\ SweepKept => SweepFits
    <2> SUFFICES ASSUME WiredSound, Sound, CapacityRespected, SweepKept, SweepDone
                 PROVE  Fits(task.clients)
        BY DEF SweepFits
    <2>1. task \in Sweep /\ task.admitted = {}
        BY TaskParts DEF WiredSound, WiredTypeOK, SweepDone
    <2>2. ASSUME NEW c \in task.clients PROVE c \in Client /\ conns[c][Lan] = "live"
        BY <2>1 DEF SweepKept, SweepDone, Sweep
    <2>3. task.clients \subseteq Listed
        BY <2>2, LanFacts DEF Listed
    <2> QED BY <2>3, ListedFit
<1>4. WiredSpec => []Sound /\ []CapacityRespected
    BY WiredEngineImplemented, SoundInvariant, CapacityCorrect, PTL
<1> QED
    BY <1>1, <1>2, <1>3, <1>4, WiredSoundInit, WiredSoundNext, PTL DEF WiredSpec
=============================================================================
