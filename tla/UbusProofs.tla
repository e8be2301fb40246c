----------------------------- MODULE UbusProofs -----------------------------
(***************************************************************************)
(* The Wi-Fi provider at work on the engine implements the engine: what    *)
(* EngineProofs shows of Engine holds of the two together, for every set   *)
(* of radios and clients, every queue and every number of failures.        *)
(***************************************************************************)
EXTENDS UbusProvider, EngineStepProofs, SequenceTheorems

-----------------------------------------------------------------------------
(* Helpers of the provider.                                                *)

(* A new generation outdates the queued events and keeps their number.      *)
LEMMA OutdatedFacts ==
    ASSUME events \in Seq(HostapdEvent)
    PROVE  Outdated \in Seq(HostapdEvent) /\ Len(Outdated) = Len(events)
<1>1. Len(events) \in Nat /\ \A i \in 1..Len(events) : events[i] \in HostapdEvent
    BY LenProperties, ElementOfSeq
<1>2. \A e \in HostapdEvent : [e EXCEPT !.current = FALSE] \in HostapdEvent
    BY DEF HostapdEvent
<1>3. Outdated \in [1..Len(events) -> HostapdEvent]
    BY <1>1, <1>2 DEF Outdated
<1>4. Outdated \in Seq(HostapdEvent)
    BY <1>1, <1>3, SeqDef
<1>5. Len(Outdated) = Len(events)
    BY <1>1, <1>3, <1>4, LenProperties
<1> QED BY <1>4, <1>5

(* A task the goroutine of Run turns to is a task.                          *)
LEMMA TaskFacts ==
    /\ \A t \in {"start", "idle", "stopped", "healthy"} : At(t) \in Task
    /\ \A b \in BOOLEAN : Discover(b) \in Task /\ Fail(b) \in Task
    /\ \A S \in SUBSET WiFiSource, b \in BOOLEAN : Read(S, b) \in Task
<1>1. NoStations \in Stations
    BY DEF NoStations, Stations
<1>2. \A t \in {"start", "idle", "stopped", "healthy"} : At(t) \in Task
    BY DEF At, Task
<1>3. \A b \in BOOLEAN : Discover(b) \in Task /\ Fail(b) \in Task
    BY DEF Discover, Fail, Task
<1>4. \A S \in SUBSET WiFiSource, b \in BOOLEAN : Read(S, b) \in Task
    BY <1>1 DEF Read, Task
<1> QED BY <1>2, <1>3, <1>4

(* Where a task without a parameter is.                                     *)
LEMMA AtFacts == \A t : At(t).at = t
BY DEF At

(* What a task carries.                                                     *)
LEMMA TaskParts ==
    ASSUME task \in Task
    PROVE  /\ task.at = "discover" => task \in [at : {"discover"}, force : BOOLEAN]
           /\ task.at = "fail" => task \in [at : {"fail"}, recover : BOOLEAN]
           /\ task.at = "read" =>
                task \in [at : {"read"}, todo : SUBSET WiFiSource,
                          got : Stations, watched : BOOLEAN]
           /\ task.at = "verify" =>
                task \in [at : {"verify"}, event : HostapdEvent,
                          attempt : 1..Attempts]
           /\ task.at = "publish" =>
                task \in [at : {"publish"}, source : WiFiSource,
                          ids : SUBSET Client]
BY DEF Task

-----------------------------------------------------------------------------
(***************************************************************************)
(* Between two tasks, and while an event is verified, the last report is   *)
(* "healthy" with a snapshot time or "unavailable" with an error: so when  *)
(* noteEvent publishes it again, it is a report the engine allows for.     *)
(***************************************************************************)
Settled(r) ==
    \/ r.status = "healthy" /\ r.err = None /\ r.snap
    \/ r.status = "unavailable" /\ r.err \in Failure

SettledReport == task.at \in {"idle", "verify", "publish"} => Settled(providers[WiFi])

UbusSound == TypeOK /\ UbusTypeOK /\ SettledReport

(* Publishing a status is a step of the engine, and settles the report.     *)
LEMMA PublishIsStep ==
    ASSUME TypeOK, NEW status, Publish(status)
    PROVE  /\ Next
           /\ status \in {"healthy", "unavailable"} => Settled(providers'[WiFi])
<1>1. WiFi \in Running /\ WiFi \in Provider
    BY ProviderAssumption DEF Running, Provider, ConnsOf
<1>2. PICK r \in Reports(WiFi) : r.status = status /\ SetProvider(WiFi, r)
    BY DEF Publish
<1>3. Next
    BY <1>1, <1>2 DEF Next
<1>4. providers'[WiFi] = r
    BY <1>1, <1>2 DEF SetProvider, TypeOK
<1>5. ASSUME status \in {"healthy", "unavailable"} PROVE Settled(r)
    <2>1. CASE providers[WiFi].status = "unregistered"
        BY <1>2, <1>5, <2>1 DEF Reports
    <2>2. CASE providers[WiFi].status # "unregistered"
        BY <1>2, <1>5, <2>2 DEF Reports, Settled
    <2> QED BY <2>1, <2>2
<1> QED BY <1>3, <1>4, <1>5

(* A settled report published again is a step of the engine.                *)
LEMMA RepublishIsStep ==
    ASSUME TypeOK, Settled(providers[WiFi]), SetProvider(WiFi, providers[WiFi])
    PROVE  Next /\ providers'[WiFi] = providers[WiFi]
<1>1. WiFi \in Running /\ WiFi \in Provider
    BY ProviderAssumption DEF Running, Provider, ConnsOf
<1>2. providers[WiFi] \in Report
    BY <1>1 DEF TypeOK
<1>3. providers[WiFi].snap = KeptSnap(WiFi)
    BY <1>2 DEF KeptSnap, Report
<1>4. providers[WiFi] \in Reports(WiFi)
    BY <1>2, <1>3 DEF Reports, Settled, Observing
<1>5. providers'[WiFi] = providers[WiFi]
    BY <1>1 DEF SetProvider, TypeOK
<1> QED BY <1>1, <1>4, <1>5 DEF Next

(* A snapshot of all radios, accepted or refused, is a step of the engine.  *)
LEMMA SnapshotIsStep ==
    ASSUME NEW got \in Stations,
           \/ Reconcile(WiFi, got)
           \/ RefuseSnapshot(WiFi, Wanted(WiFiSource, got))
    PROVE  Next /\ UNCHANGED providers
<1>1. WiFi \in Running /\ ConnsOf(WiFi) = WiFiSource
    BY ProviderAssumption DEF Running, Provider, ConnsOf
<1>2. got \in [ConnsOf(WiFi) -> SUBSET Client]
    BY <1>1 DEF Stations
<1>3. Next
    BY <1>1, <1>2 DEF Next
<1>4. UNCHANGED providers
    BY DEF Reconcile, RefuseSnapshot
<1> QED BY <1>3, <1>4

(* So is the snapshot of one radio.                                         *)
LEMMA SourceSnapshotIsStep ==
    ASSUME NEW k \in WiFiSource, NEW ids \in SUBSET Client,
           ReconcileSource(k, ids) \/ RefuseSnapshot(WiFi, ids)
    PROVE  Next /\ UNCHANGED providers
<1>1. Next
    BY DEF Next
<1>2. UNCHANGED providers
    BY DEF ReconcileSource, RefuseSnapshot
<1> QED BY <1>1, <1>2

-----------------------------------------------------------------------------
(* Every step of the provider is a step of the engine or leaves it alone.   *)
LEMMA UbusStep ==
    ASSUME UbusSound, UbusNext
    PROVE  Next \/ UNCHANGED vars
<1> USE DEF UbusSound
<1>1. CASE Start
    BY <1>1, PublishIsStep DEF Start
<1>2. CASE discoverFails
    BY <1>2, PublishIsStep DEF discoverFails
<1>3. CASE discoverNothing
    BY <1>3, PublishIsStep DEF discoverNothing
<1>4. CASE discover \/ verifyEvent \/ \E k \in WiFiSource : snapshotSource(k)
    BY <1>4 DEF discover, verifyEvent, snapshotSource
<1>5. CASE snapshotFails
    BY <1>5, PublishIsStep DEF snapshotFails
<1>6. CASE snapshot
    <2>1. task.got \in Stations
        BY <1>6, TaskParts DEF snapshot, UbusTypeOK
    <2> QED BY <1>6, <2>1, SnapshotIsStep DEF snapshot
<1>7. CASE healthy
    BY <1>7, PublishIsStep DEF healthy
<1>8. CASE fail
    BY <1>8, PublishIsStep DEF fail
<1>9. CASE verifyFails
    BY <1>9, PublishIsStep DEF verifyFails
<1>10. CASE publishSource
    <2>1. task.source \in WiFiSource /\ task.ids \in SUBSET Client
        BY <1>10, TaskParts DEF publishSource, UbusTypeOK
    <2> QED BY <1>10, <2>1, SourceSnapshotIsStep DEF publishSource
<1>11. CASE stop
    BY <1>11, PublishIsStep DEF stop
<1>12. CASE discoveryTick \/ reconcileTick \/ discardEvent
    BY <1>12 DEF discoveryTick, reconcileTick, discardEvent
<1>13. CASE takeEvent
    <2>1. task.at = "idle"
        BY <1>13 DEF takeEvent, At
    <2> QED BY <1>13, <2>1, RepublishIsStep DEF takeEvent, SettledReport
<1>14. CASE subscriptionEnds
    BY <1>14, PublishIsStep DEF subscriptionEnds
<1>15. CASE attach \/ subscriberEnds \/ Cancel
    BY <1>15 DEF attach, subscriberEnds, Cancel
<1>16. ASSUME NEW k \in WiFiSource, NEW c \in Client,
              Connect(k, c) \/ Authorize(k, c) \/ Disconnect(k, c)
       PROVE  UNCHANGED vars
    BY <1>16 DEF Connect, Authorize, Disconnect
<1>17. ASSUME NEW S \in SUBSET WiFiSource, Restart(S)
       PROVE  UNCHANGED vars
    BY <1>17 DEF Restart
<1>18. CASE Background
    BY <1>18 DEF Background, Next
<1> QED
    BY <1>1, <1>2, <1>3, <1>4, <1>5, <1>6, <1>7, <1>8, <1>9, <1>10, <1>11,
       <1>12, <1>13, <1>14, <1>15, <1>16, <1>17, <1>18
    DEF UbusNext, Run, Select, Hostapd

-----------------------------------------------------------------------------
(* The types of the provider.                                              *)

HostapdTypeOK ==
    /\ up \subseteq WiFiSource /\ air \in Stations
    /\ joining \subseteq WiFiSource \X Client
    /\ faults \in 0..MaxFaults /\ cancelled \in BOOLEAN

QueueTypeOK ==
    /\ sub \in {"none", "starting", "attached", "deaf", "ended"}
    /\ late \in {"no", "current", "old"}
    /\ events \in Seq(HostapdEvent) /\ Len(events) <= EventQueueSize

RunTypeOK ==
    /\ objects \subseteq WiFiSource /\ lastSnapshot \in BOOLEAN
    /\ task \in Task /\ complete \in BOOLEAN /\ watched \in BOOLEAN

(* The type invariant in three parts.                                       *)
LEMMA UbusTypeParts == UbusTypeOK <=> HostapdTypeOK /\ QueueTypeOK /\ RunTypeOK
BY DEF UbusTypeOK, HostapdTypeOK, QueueTypeOK, RunTypeOK

(* A failed command, or a change of hostapd, leaves one fault less.         *)
LEMMA FaultFacts ==
    ASSUME faults \in 0..MaxFaults,
           \/ faults > 0 /\ faults' = faults - 1
           \/ UNCHANGED faults
    PROVE  faults' \in 0..MaxFaults
BY ProviderAssumption

(* hostapd changes within its types.                                        *)
LEMMA HostapdTypes ==
    ASSUME UbusTypeOK, UbusNext
    PROVE  HostapdTypeOK'
<1> USE DEF UbusTypeOK, HostapdTypeOK
<1>1. CASE UNCHANGED hostapdVars
    BY <1>1 DEF hostapdVars
<1>2. ASSUME SameHostapd,
             UNCHANGED faults \/ (faults > 0 /\ faults' = faults - 1)
      PROVE  HostapdTypeOK'
    BY <1>2, FaultFacts DEF SameHostapd
<1>3. CASE discoverFails \/ snapshotFails \/ verifyFails \/ subscriberEnds
    BY <1>2, <1>3
    DEF discoverFails, snapshotFails, verifyFails, subscriberEnds,
        CommandFails, ReadFails
<1>4. ASSUME NEW k \in WiFiSource, NEW c \in Client, Connect(k, c)
      PROVE  HostapdTypeOK'
    <2>1. faults' \in 0..MaxFaults
        BY <1>4, FaultFacts DEF Connect, Spend
    <2>2. air' \in Stations /\ joining' \subseteq WiFiSource \X Client
        BY <1>4 DEF Connect, Stations
    <2> QED BY <1>4, <2>1, <2>2 DEF Connect
<1>5. ASSUME NEW k \in WiFiSource, NEW c \in Client, Disconnect(k, c)
      PROVE  HostapdTypeOK'
    <2>1. faults' \in 0..MaxFaults
        BY <1>5, FaultFacts DEF Disconnect, Spend
    <2>2. air' \in Stations /\ joining' \subseteq WiFiSource \X Client
        BY <1>5 DEF Disconnect, Stations
    <2> QED BY <1>5, <2>1, <2>2 DEF Disconnect
<1>6. ASSUME NEW k \in WiFiSource, NEW c \in Client, Authorize(k, c)
      PROVE  HostapdTypeOK'
    <2>1. air' \in Stations /\ joining' \subseteq WiFiSource \X Client
        BY <1>6 DEF Authorize, Stations
    <2> QED BY <1>6, <2>1 DEF Authorize
<1>7. ASSUME NEW S \in SUBSET WiFiSource, Restart(S)
      PROVE  HostapdTypeOK'
    <2>1. faults' \in 0..MaxFaults
        BY <1>7, FaultFacts DEF Restart, Spend
    <2> QED BY <1>7, <2>1 DEF Restart, NoStations, Stations
<1>8. CASE Cancel
    BY <1>8 DEF Cancel
<1>9. CASE Start \/ discoverNothing \/ discover \/ snapshot \/ healthy \/ fail
             \/ \E k \in WiFiSource : snapshotSource(k)
    BY <1>1, <1>9
    DEF Start, discoverNothing, discover, snapshot, healthy, fail, snapshotSource
<1>10. CASE Select \/ verifyEvent \/ publishSource \/ attach \/ Background
    BY <1>1, <1>10
    DEF Select, stop, discoveryTick, reconcileTick, discardEvent, takeEvent,
        subscriptionEnds, verifyEvent, publishSource, attach, Background
<1> QED
    BY <1>3, <1>4, <1>5, <1>6, <1>7, <1>8, <1>9, <1>10 DEF UbusNext, Run, Hostapd

(* The queue stays within its limit, whoever adds to it.                    *)
LEMMA DeliverTypes ==
    ASSUME UbusTypeOK, NEW k \in WiFiSource, NEW c \in Client,
           NEW kind \in {"wifi.associated", "wifi.disassociated"},
           Deliver(kind, k, c)
    PROVE  QueueTypeOK'
<1> USE DEF UbusTypeOK, QueueTypeOK
<1>1. ASSUME NEW b \in BOOLEAN, Len(events) < EventQueueSize, Enqueue(kind, k, c, b)
      PROVE  events' \in Seq(HostapdEvent) /\ Len(events') <= EventQueueSize
    <2> DEFINE e == [kind |-> kind, source |-> k, client |-> c, current |-> b]
    <2>1. e \in HostapdEvent
        BY DEF HostapdEvent
    <2>2. events' = Append(events, e)
        BY <1>1 DEF Enqueue
    <2> HIDE DEF e
    <2>3. Len(events) \in Nat /\ Len(events') = Len(events) + 1
        BY <2>1, <2>2
    <2> QED BY <1>1, <2>1, <2>2, <2>3, ProviderAssumption
<1>2. CASE Queue(kind, k, c) /\ UNCHANGED late
    BY <1>1, <1>2 DEF Queue
<1>3. CASE UNCHANGED <<events, sub, late>>
    BY <1>3
<1>4. CASE LateQueue(kind, k, c)
    <2>1. (late = "current") \in BOOLEAN
        OBVIOUS
    <2> QED BY <1>1, <1>4, <2>1 DEF LateQueue
<1> QED BY <1>2, <1>3, <1>4 DEF Deliver

(* The subscription and its queue change within their types.                *)
LEMMA QueueTypes ==
    ASSUME UbusTypeOK, UbusNext
    PROVE  QueueTypeOK'
<1> USE DEF UbusTypeOK, QueueTypeOK
<1>1. CASE UNCHANGED <<sub, late, events>>
    BY <1>1
<1>2. Outdated \in Seq(HostapdEvent) /\ Len(Outdated) <= EventQueueSize
    BY OutdatedFacts
<1>3. \A g \in {"current", "old"} : Leaves(g) \in {"no", "current", "old"}
    BY DEF Leaves
<1>4. CASE discoverNothing
    BY <1>2, <1>3, <1>4 DEF discoverNothing
<1>5. CASE discover
    BY <1>2, <1>3, <1>5 DEF discover
<1>6. CASE fail
    BY <1>3, <1>6 DEF fail
<1>7. CASE verifyFails
    BY <1>3, <1>7 DEF verifyFails
<1>8. CASE discardEvent \/ takeEvent
    <2>1. events # <<>> /\ events' = Tail(events) /\ UNCHANGED <<sub, late>>
        BY <1>8 DEF discardEvent, takeEvent
    <2>2. events' \in Seq(HostapdEvent) /\ Len(events') = Len(events) - 1
        BY <2>1, HeadTailProperties
    <2>3. Len(events) \in Nat
        BY LenProperties
    <2> QED BY <2>1, <2>2, <2>3, ProviderAssumption
<1>9. CASE subscriptionEnds \/ attach \/ subscriberEnds
    BY <1>9 DEF subscriptionEnds, attach, subscriberEnds
<1>10. ASSUME NEW k \in WiFiSource, NEW c \in Client,
              Connect(k, c) \/ Disconnect(k, c)
       PROVE  QueueTypeOK'
    BY <1>10, DeliverTypes DEF Connect, Disconnect
<1>11. ASSUME NEW S \in SUBSET WiFiSource, Restart(S)
       PROVE  QueueTypeOK'
    BY <1>11 DEF Restart
<1>12. CASE Start \/ discoverFails \/ snapshotFails \/ snapshot \/ healthy
              \/ \E k \in WiFiSource : snapshotSource(k)
    BY <1>1, <1>12
    DEF Start, discoverFails, snapshotFails, snapshot, healthy, snapshotSource
<1>13. CASE stop \/ discoveryTick \/ reconcileTick \/ verifyEvent \/ publishSource
    BY <1>1, <1>13
    DEF stop, discoveryTick, reconcileTick, verifyEvent, publishSource
<1>14. CASE Cancel \/ Background \/ \E k \in WiFiSource, c \in Client : Authorize(k, c)
    BY <1>1, <1>14 DEF Cancel, Background, Authorize, runVars
<1> QED
    BY <1>4, <1>5, <1>6, <1>7, <1>8, <1>9, <1>10, <1>11, <1>12, <1>13, <1>14
    DEF UbusNext, Run, Select, Hostapd

(* Run goes from task to task.                                              *)
LEMMA RunTypes ==
    ASSUME UbusTypeOK, UbusNext
    PROVE  RunTypeOK'
<1> USE DEF UbusTypeOK, RunTypeOK
<1>1. CASE UNCHANGED <<objects, lastSnapshot, task, complete, watched>>
    BY <1>1
<1>2. CASE Start \/ healthy \/ stop \/ discoveryTick \/ reconcileTick
             \/ discoverFails \/ snapshotFails
    BY <1>2, TaskFacts
    DEF Start, healthy, stop, discoveryTick, reconcileTick, discoverFails,
        snapshotFails
<1>3. CASE discoverNothing \/ verifyFails \/ fail \/ subscriptionEnds
    <2>1. task.at = "fail" => task.recover \in BOOLEAN
        BY TaskParts
    <2> QED BY <1>3, <2>1, TaskFacts
            DEF discoverNothing, verifyFails, fail, subscriptionEnds
<1>4. CASE discover
    BY <1>4, TaskFacts DEF discover
<1>5. ASSUME NEW k \in WiFiSource, snapshotSource(k)
      PROVE  RunTypeOK'
    <2>1. task \in [at : {"read"}, todo : SUBSET WiFiSource, got : Stations,
                    watched : BOOLEAN]
        BY <1>5, TaskParts DEF snapshotSource
    <2>2. [task.got EXCEPT ![k] = air[k]] \in Stations
        BY <2>1 DEF Stations
    <2>3. task' \in [at : {"read"}, todo : SUBSET WiFiSource, got : Stations,
                     watched : BOOLEAN]
        BY <1>5, <2>1, <2>2 DEF snapshotSource
    <2>4. task' \in Task
        BY <2>3 DEF Task
    <2> QED BY <1>5, <2>4 DEF snapshotSource
<1>6. CASE snapshot
    <2>1. task.watched \in BOOLEAN
        BY <1>6, TaskParts DEF snapshot
    <2> QED BY <1>6, <2>1, TaskFacts DEF snapshot
<1>7. CASE takeEvent
    <2>1. Head(events) \in HostapdEvent
        BY <1>7, HeadTailProperties DEF takeEvent
    <2>2. 1 \in 1..Attempts
        BY ProviderAssumption
    <2>3. task' \in Task
        BY <1>7, <2>1, <2>2 DEF takeEvent, Task
    <2> QED BY <1>7, <2>3 DEF takeEvent
<1>8. CASE verifyEvent
    <2> DEFINE k == task.event.source
    <2>1. task \in [at : {"verify"}, event : HostapdEvent, attempt : 1..Attempts]
        BY <1>8, TaskParts DEF verifyEvent
    <2>2. k \in WiFiSource /\ air[k] \in SUBSET Client
        BY <2>1 DEF HostapdEvent, Stations
    <2>3. task.attempt # Attempts => task.attempt + 1 \in 1..Attempts
        BY <2>1, ProviderAssumption
    <2>4. [at |-> "publish", source |-> k, ids |-> air[k]] \in Task
        BY <2>2 DEF Task
    <2>5. task.attempt # Attempts => [task EXCEPT !.attempt = @ + 1] \in Task
        BY <2>1, <2>3 DEF Task
    <2>6. task' \in Task
        BY <1>8, <2>4, <2>5 DEF verifyEvent
    <2> QED BY <1>8, <2>6 DEF verifyEvent
<1>9. CASE publishSource
    BY <1>9, TaskFacts DEF publishSource
<1>10. CASE discardEvent \/ attach \/ subscriberEnds \/ Cancel \/ Background
    BY <1>1, <1>10
    DEF discardEvent, attach, subscriberEnds, Cancel, Background, SameRun, runVars
<1>11. ASSUME NEW k \in WiFiSource, NEW c \in Client,
              Connect(k, c) \/ Authorize(k, c) \/ Disconnect(k, c)
       PROVE  RunTypeOK'
    BY <1>1, <1>11 DEF Connect, Authorize, Disconnect, SameRun
<1>12. ASSUME NEW S \in SUBSET WiFiSource, Restart(S)
       PROVE  RunTypeOK'
    BY <1>1, <1>12 DEF Restart, SameRun
<1> QED
    BY <1>2, <1>3, <1>4, <1>5, <1>6, <1>7, <1>8, <1>9, <1>10, <1>11, <1>12
    DEF UbusNext, Run, Select, Hostapd

(* Whenever Run comes back to its select the last report is settled.        *)
LEMMA SettledNext ==
    ASSUME UbusSound, UbusNext
    PROVE  SettledReport'
<1> USE DEF UbusSound, SettledReport, At
<1>1. CASE UNCHANGED <<task, providers>>
    BY <1>1 DEF Settled
<1>2. CASE discoverFails \/ discoverNothing \/ snapshotFails \/ healthy
    BY <1>2, PublishIsStep DEF discoverFails, discoverNothing, snapshotFails, healthy
<1>3. CASE fail
    BY <1>3, PublishIsStep DEF fail, Discover
<1>4. CASE Start \/ verifyFails \/ stop \/ discoveryTick \/ reconcileTick
    BY <1>4 DEF Start, verifyFails, stop, discoveryTick, reconcileTick, Discover, Read
<1>5. CASE discover
    BY <1>5 DEF discover, Read
<1>6. ASSUME NEW k \in WiFiSource, snapshotSource(k)
      PROVE  SettledReport'
    <2>1. task'.at = "read"
        BY <1>6, TaskParts DEF snapshotSource, UbusTypeOK
    <2> QED BY <2>1
<1>7. CASE snapshot
    BY <1>7 DEF snapshot, Fail
<1>8. CASE publishSource
    BY <1>8 DEF publishSource, Fail
<1>9. CASE takeEvent
    BY <1>9, RepublishIsStep DEF takeEvent
<1>10. CASE verifyEvent
    <2>1. UNCHANGED providers /\ Settled(providers[WiFi])
        BY <1>10 DEF verifyEvent, vars
    <2> QED BY <2>1 DEF Settled
<1>11. CASE subscriptionEnds
    BY <1>1, <1>11 DEF subscriptionEnds, Discover, vars
<1>12. CASE discardEvent \/ attach \/ subscriberEnds \/ Cancel
    BY <1>1, <1>12 DEF discardEvent, attach, subscriberEnds, Cancel, SameRun, vars
<1>13. CASE Background
    BY <1>1, <1>13 DEF Background, sweepPending, Tick, runVars
<1>14. ASSUME NEW k \in WiFiSource, NEW c \in Client,
              Connect(k, c) \/ Authorize(k, c) \/ Disconnect(k, c)
       PROVE  SettledReport'
    BY <1>1, <1>14 DEF Connect, Authorize, Disconnect, SameRun, vars
<1>15. ASSUME NEW S \in SUBSET WiFiSource, Restart(S)
       PROVE  SettledReport'
    BY <1>1, <1>15 DEF Restart, SameRun, vars
<1> QED
    BY <1>2, <1>3, <1>4, <1>5, <1>6, <1>7, <1>8, <1>9, <1>10, <1>11, <1>12,
       <1>13, <1>14, <1>15
    DEF UbusNext, Run, Select, Hostapd

-----------------------------------------------------------------------------
(* The provider starts sound.                                               *)
LEMMA UbusSoundInit == UbusInit => UbusSound
<1> SUFFICES ASSUME UbusInit PROVE UbusSound
    OBVIOUS
<1>1. TypeOK
    BY TypeInit DEF UbusInit
<1>2. HostapdTypeOK
    <2>1. NoStations \in Stations
        BY DEF NoStations, Stations
    <2>2. MaxFaults \in 0..MaxFaults
        BY ProviderAssumption
    <2> QED BY <2>1, <2>2 DEF UbusInit, HostapdTypeOK
<1>3. QueueTypeOK
    BY ProviderAssumption DEF UbusInit, QueueTypeOK
<1>4. RunTypeOK
    BY TaskFacts DEF UbusInit, RunTypeOK
<1>5. SettledReport
    BY DEF UbusInit, SettledReport, At
<1> QED BY <1>1, <1>2, <1>3, <1>4, <1>5, UbusTypeParts DEF UbusSound

(* Every step of the provider, of hostapd or of the engine keeps it so, and *)
(* is a step of the engine or leaves the engine alone.                      *)
LEMMA UbusSoundNext == UbusSound /\ [UbusNext]_ubusVars => UbusSound' /\ [Next]_vars
<1> SUFFICES ASSUME UbusSound, [UbusNext]_ubusVars
             PROVE  UbusSound' /\ [Next]_vars
    OBVIOUS
<1>1. CASE UbusNext
    <2>1. [Next]_vars
        BY <1>1, UbusStep
    <2>2. TypeOK'
        BY <2>1, TypeNext DEF UbusSound
    <2>3. HostapdTypeOK' /\ QueueTypeOK' /\ RunTypeOK'
        BY <1>1, HostapdTypes, QueueTypes, RunTypes DEF UbusSound
    <2>4. UbusTypeOK'
        BY <2>3 DEF UbusTypeOK, HostapdTypeOK, QueueTypeOK, RunTypeOK
    <2>5. SettledReport'
        BY <1>1, SettledNext
    <2> QED BY <2>1, <2>2, <2>4, <2>5 DEF UbusSound
<1>2. CASE UNCHANGED ubusVars
    <2>1. UNCHANGED vars /\ UNCHANGED hostapdVars /\ UNCHANGED runVars
        BY <1>2 DEF ubusVars
    <2>2. TypeOK'
        BY <2>1, TypeNext DEF UbusSound
    <2>3. UbusTypeOK'
        BY <2>1 DEF UbusSound, UbusTypeOK, hostapdVars, runVars
    <2>4. SettledReport'
        BY <2>1 DEF UbusSound, SettledReport, Settled, runVars, vars
    <2> QED BY <2>1, <2>2, <2>3, <2>4 DEF UbusSound
<1> QED BY <1>1, <1>2

(* The Wi-Fi provider stays well typed and its queue within its limit,      *)
(* whatever hostapd does and whichever commands fail.                       *)
THEOREM UbusTypeCorrect == UbusSpec => []UbusTypeOK
<1>1. UbusSound => UbusTypeOK
    BY DEF UbusSound
<1> QED BY <1>1, UbusSoundInit, UbusSoundNext, PTL DEF UbusSpec

(* Whatever the Wi-Fi provider does with the engine is what Engine allows   *)
(* for: it observes only between "initializing" and "stopped", its snapshots*)
(* are of known radios, and its reports keep the snapshot time.             *)
THEOREM EngineImplemented == UbusSpec => Spec
<1>1. UbusInit => Init
    BY DEF UbusInit
<1> QED BY <1>1, UbusSoundInit, UbusSoundNext, PTL DEF UbusSpec, Spec

(* So with the provider at work the presence of every client is what its    *)
(* connections say, a hold is on its client's only live connection, no more *)
(* clients are listed than the limit allows, every change of presence is    *)
(* announced, a client becomes absent by a snapshot only, nothing extends a *)
(* hold, and what consumers see of presence is the behaviour Presence       *)
(* promises.                                                                *)
THEOREM AgentCorrect ==
    UbusSpec =>
        /\ [](PresenceIsEvidence /\ HoldIsSoleLive /\ CapacityRespected)
        /\ PresenceAnnounced /\ AbsenceIsAuthoritative /\ HoldNeverExtended
        /\ ImplementsPresence
BY EngineImplemented, PresenceCorrect, HoldCorrect, CapacityCorrect, PresenceIsAnnounced,
   AbsenceNeedsSnapshot, HoldsOnlyShrink, PresenceImplemented, PTL

-----------------------------------------------------------------------------
(***************************************************************************)
(* The readiness of the state endpoints is the snapshot time of the Wi-Fi  *)
(* report.  Only the report that registers the provider could reset it,    *)
(* and before that report there is none.                                   *)
(***************************************************************************)
NoEarlySnapshot == providers[WiFi].status = "unregistered" => ~providers[WiFi].snap

(* No step of the engine loses the snapshot time of Wi-Fi.                  *)
LEMMA SnapshotKept ==
    ASSUME TypeOK, NoEarlySnapshot, [Next]_vars
    PROVE  /\ NoEarlySnapshot'
           /\ providers[WiFi].snap => providers'[WiFi].snap
<1>1. CASE UNCHANGED providers
    BY <1>1 DEF NoEarlySnapshot
<1>2. ASSUME NEW p \in Provider, NEW r \in Reports(p), SetProvider(p, r)
      PROVE  /\ NoEarlySnapshot'
             /\ providers[WiFi].snap => providers'[WiFi].snap
    <2>1. providers' = [providers EXCEPT ![p] = r]
        BY <1>2 DEF SetProvider
    <2>2. CASE p # WiFi
        <3>1. providers'[WiFi] = providers[WiFi]
            BY <2>1, <2>2 DEF TypeOK, Provider
        <3> QED BY <3>1 DEF NoEarlySnapshot
    <2>3. CASE p = WiFi
        <3>1. providers'[WiFi] = r
            BY <2>1, <2>3 DEF TypeOK, Provider
        <3>2. CASE providers[WiFi].status = "unregistered"
            <4>1. r.status = "initializing"
                BY <2>3, <3>2 DEF Reports
            <4> QED BY <3>1, <3>2, <4>1 DEF NoEarlySnapshot
        <3>3. CASE providers[WiFi].status # "unregistered"
            <4>1. \/ r.status = "healthy" /\ r.snap
                  \/ r.status \in {"stopped", "unavailable"} /\ r.snap = KeptSnap(WiFi)
                BY <2>3, <3>3 DEF Reports
            <4> QED BY <3>1, <4>1 DEF NoEarlySnapshot, KeptSnap
        <3> QED BY <3>2, <3>3
    <2> QED BY <2>2, <2>3
<1>3. ASSUME NEW k, NEW c, Apply(k, c) PROVE UNCHANGED providers
    BY <1>3
    DEF Apply, Associate, Disassociate, RefuseObservation
<1>4. ASSUME NEW p, NEW W, RefuseSnapshot(p, W) PROVE UNCHANGED providers
    BY <1>4 DEF RefuseSnapshot
<1>5. ASSUME NEW p, NEW stations, Reconcile(p, stations) PROVE UNCHANGED providers
    BY <1>5 DEF Reconcile
<1>6. ASSUME NEW k, NEW ids, ReconcileSource(k, ids) PROVE UNCHANGED providers
    BY <1>6 DEF ReconcileSource
<1>7. CASE sweepPending \/ Tick \/ UNCHANGED vars
    BY <1>1, <1>7 DEF sweepPending, Tick, vars
<1> QED
    BY <1>1, <1>2, <1>3, <1>4, <1>5, <1>6, <1>7 DEF Next, Running

(* Once open the state endpoints stay open: through outages, restarts of    *)
(* hostapd and the reports published while an event is being verified.      *)
THEOREM ReadinessKept == UbusSpec => ReadyKept
<1>1. UbusInit => NoEarlySnapshot
    BY DEF UbusInit, Init, NoEarlySnapshot, Provider
<1>2. UbusSound /\ NoEarlySnapshot /\ [UbusNext]_ubusVars => NoEarlySnapshot'
    BY SnapshotKept, UbusSoundNext DEF UbusSound
<1>3. UbusSound /\ NoEarlySnapshot /\ [UbusNext]_ubusVars =>
        [HasAuthoritativeSnapshot(WiFi) => HasAuthoritativeSnapshot(WiFi)']_ubusVars
    BY SnapshotKept, UbusSoundNext DEF UbusSound, HasAuthoritativeSnapshot
<1> QED
    BY <1>1, <1>2, <1>3, UbusSoundInit, UbusSoundNext, PTL DEF UbusSpec, ReadyKept

-----------------------------------------------------------------------------
(***************************************************************************)
(* The queue.  An event of the current generation is about an object that  *)
(* is subscribed to: that is what makes VerifiesKnown inductive.           *)
(***************************************************************************)
KnownEvents ==
    \A i \in 1..Len(events) : events[i].current => events[i].source \in objects

(* What queueing an event keeps and adds.                                   *)
LEMMA EnqueueFacts ==
    ASSUME events \in Seq(HostapdEvent), NEW j \in WiFiSource, NEW c \in Client,
           NEW kind \in {"wifi.associated", "wifi.disassociated"},
           NEW b \in BOOLEAN, Enqueue(kind, j, c, b)
    PROVE  /\ \A k \in WiFiSource : Queued(k) => Queued(k)'
           /\ b => Queued(j)'
           /\ KnownEvents /\ UNCHANGED objects /\ (b => j \in objects) => KnownEvents'
<1> DEFINE e == [kind |-> kind, source |-> j, client |-> c, current |-> b]
<1>1. e \in HostapdEvent /\ e.source = j /\ e.current = b
    BY DEF HostapdEvent
<1>2. events' = Append(events, e)
    BY DEF Enqueue
<1> HIDE DEF e
<1>3. /\ Len(events) \in Nat /\ Len(events') = Len(events) + 1
      /\ \A i \in 1..Len(events) : events'[i] = events[i]
      /\ events'[Len(events) + 1] = e
    BY <1>1, <1>2, AppendProperties, LenProperties
<1>4. \A i \in 1..Len(events') : i \in 1..Len(events) \/ i = Len(events) + 1
    BY <1>3
<1>5. 1..Len(events) \subseteq 1..Len(events') /\ Len(events) + 1 \in 1..Len(events')
    BY <1>3
<1>6. \A k \in WiFiSource : Queued(k) => Queued(k)'
    BY <1>3, <1>5 DEF Queued
<1>7. b => Queued(j)'
    BY <1>1, <1>3, <1>5 DEF Queued
<1>8. KnownEvents /\ UNCHANGED objects /\ (b => j \in objects) => KnownEvents'
    BY <1>1, <1>3, <1>4 DEF KnownEvents
<1> QED BY <1>6, <1>7, <1>8

(* What taking an event off the queue keeps.                                *)
LEMMA TailFacts ==
    ASSUME events \in Seq(HostapdEvent), events # <<>>, events' = Tail(events)
    PROVE  /\ \A k \in WiFiSource :
                Queued(k) => Queued(k)' \/ (Head(events).current /\ Head(events).source = k)
           /\ KnownEvents /\ UNCHANGED objects => KnownEvents'
           /\ KnownEvents /\ Head(events).current => Head(events).source \in objects
<1>1. /\ Len(events) \in Nat \ {0} /\ Len(events') = Len(events) - 1
      /\ \A i \in 1..Len(events') : events'[i] = events[i + 1]
      /\ Head(events) = events[1]
    BY HeadTailProperties, LenProperties, EmptySeq
<1>2. \A i \in 1..Len(events) : i = 1 \/ (i - 1 \in 1..Len(events') /\ (i - 1) + 1 = i)
    BY <1>1
<1>3. \A i \in 1..Len(events') : i + 1 \in 1..Len(events)
    BY <1>1
<1>4. 1 \in 1..Len(events)
    BY <1>1
<1>5. ASSUME NEW k \in WiFiSource, Queued(k)
      PROVE  Queued(k)' \/ (Head(events).current /\ Head(events).source = k)
    <2>1. PICK i \in 1..Len(events) : events[i].source = k /\ events[i].current
        BY <1>5 DEF Queued
    <2>2. CASE i = 1
        BY <1>1, <2>1, <2>2
    <2>3. CASE i # 1
        <3>1. i - 1 \in 1..Len(events') /\ events'[i - 1] = events[i]
            BY <1>1, <1>2, <2>3
        <3> QED BY <2>1, <3>1 DEF Queued
    <2> QED BY <2>2, <2>3
<1> QED BY <1>1, <1>3, <1>4, <1>5 DEF KnownEvents

(* What an event of hostapd does to the queue: while the subscription stays *)
(* attached, an event of an object subscribed to is queued.                 *)
LEMMA DeliverFacts ==
    ASSUME events \in Seq(HostapdEvent), NEW j \in WiFiSource, NEW c \in Client,
           NEW kind \in {"wifi.associated", "wifi.disassociated"},
           Deliver(kind, j, c), UNCHANGED objects
    PROVE  /\ \A k \in WiFiSource : Queued(k) => Queued(k)'
           /\ sub' = sub \/ sub' = "ended"
           /\ sub' = "attached" /\ j \in objects => Queued(j)'
           /\ KnownEvents => KnownEvents'
<1>1. CASE Hears(j) /\ Queue(kind, j, c)
    <2>1. CASE Enqueue(kind, j, c, TRUE) /\ UNCHANGED sub
        <3>1. j \in objects
            BY <1>1 DEF Hears
        <3> QED BY <2>1, <3>1, EnqueueFacts
    <2>2. CASE sub' = "ended" /\ UNCHANGED events
        BY <2>2 DEF KnownEvents, Queued
    <2> QED BY <1>1, <2>1, <2>2 DEF Queue
<1>2. CASE ~Hears(j) /\ UNCHANGED <<events, sub, late>>
    BY <1>2 DEF KnownEvents, Queued, Hears
<1>3. CASE ~Hears(j) /\ LateQueue(kind, j, c)
    <2> DEFINE b == late = "current"
    <2>1. /\ Enqueue(kind, j, c, b) /\ (b => j \in objects) /\ UNCHANGED sub
          /\ b \in BOOLEAN
        BY <1>3 DEF LateQueue
    <2> HIDE DEF b
    <2> QED BY <1>3, <2>1, EnqueueFacts DEF Hears
<1> QED BY <1>1, <1>2, <1>3 DEF Deliver

(* A new generation leaves no current event of the old one.                 *)
LEMMA OutdatedIsNotCurrent ==
    ASSUME events \in Seq(HostapdEvent), events' = Outdated
    PROVE  KnownEvents'
<1>1. Len(events') = Len(events)
    BY OutdatedFacts
<1>2. \A i \in 1..Len(events) : events[i] \in HostapdEvent
    BY ElementOfSeq, LenProperties
<1>3. \A i \in 1..Len(events) : events'[i].current = FALSE
    BY <1>2 DEF Outdated, HostapdEvent
<1> QED BY <1>1, <1>3 DEF KnownEvents

(* The objects change only with the generation, and while no event is being *)
(* verified.                                                                *)
LEMMA KnownNext ==
    ASSUME UbusTypeOK, KnownEvents, VerifiesKnown, [UbusNext]_ubusVars
    PROVE  KnownEvents' /\ VerifiesKnown'
<1>0. events \in Seq(HostapdEvent) /\ task \in Task
    BY DEF UbusTypeOK
<1>1. ASSUME UNCHANGED <<events, objects>>, task'.at # "verify" \/ UNCHANGED task
      PROVE  KnownEvents' /\ VerifiesKnown'
    BY <1>1 DEF KnownEvents, VerifiesKnown
<1>2. CASE Start \/ discoverFails \/ snapshotFails \/ healthy \/ verifyFails
             \/ stop \/ discoveryTick \/ reconcileTick
    BY <1>1, <1>2
    DEF Start, discoverFails, snapshotFails, healthy, verifyFails, stop,
        discoveryTick, reconcileTick, At, Discover, Read
<1>3. CASE discoverNothing
    <2>1. task'.at = "idle" /\ UNCHANGED objects
        BY <1>3 DEF discoverNothing, At
    <2>2. events' = Outdated \/ UNCHANGED events
        BY <1>3 DEF discoverNothing
    <2> QED BY <1>0, <1>1, <2>1, <2>2, OutdatedIsNotCurrent DEF VerifiesKnown
<1>4. CASE discover
    <2>1. task'.at # "verify" /\ objects' = up
        BY <1>4 DEF discover, At, Read
    <2>2. CASE Resubscribes
        <3>1. events' = Outdated
            BY <1>4, <2>2 DEF discover
        <3> QED BY <1>0, <2>1, <3>1, OutdatedIsNotCurrent DEF VerifiesKnown
    <2>3. CASE ~Resubscribes
        BY <1>1, <1>4, <2>1, <2>3 DEF discover, Resubscribes
    <2> QED BY <2>2, <2>3
<1>5. ASSUME NEW k \in WiFiSource, snapshotSource(k)
      PROVE  KnownEvents' /\ VerifiesKnown'
    <2>1. task'.at = "read"
        BY <1>0, <1>5, TaskParts DEF snapshotSource
    <2> QED BY <1>1, <1>5, <2>1 DEF snapshotSource
<1>6. CASE snapshot \/ fail \/ publishSource
    BY <1>1, <1>6 DEF snapshot, fail, publishSource, At, Fail, Discover
<1>7. CASE verifyEvent
    <2>1. task \in [at : {"verify"}, event : HostapdEvent, attempt : 1..Attempts]
        BY <1>0, <1>7, TaskParts DEF verifyEvent
    <2>2. task'.at = "publish" \/ task'.event = task.event
        BY <1>7, <2>1 DEF verifyEvent
    <2>3. UNCHANGED <<events, objects>>
        BY <1>7 DEF verifyEvent
    <2> QED BY <1>7, <2>2, <2>3 DEF verifyEvent, KnownEvents, VerifiesKnown
<1>8. CASE discardEvent
    BY <1>0, <1>8, TailFacts DEF discardEvent, VerifiesKnown
<1>9. CASE takeEvent
    BY <1>0, <1>9, TailFacts DEF takeEvent, VerifiesKnown
<1>10. CASE subscriptionEnds
    BY <1>1, <1>10 DEF subscriptionEnds, Discover
<1>11. CASE attach \/ subscriberEnds \/ Cancel \/ Background
    BY <1>1, <1>11 DEF attach, subscriberEnds, Cancel, Background, SameRun, runVars
<1>12. ASSUME NEW k \in WiFiSource, NEW c \in Client, Connect(k, c) \/ Disconnect(k, c)
       PROVE  KnownEvents' /\ VerifiesKnown'
    <2>1. UNCHANGED <<objects, task>>
        BY <1>12 DEF Connect, Disconnect, SameRun
    <2>2. KnownEvents'
        BY <1>0, <1>12, <2>1, DeliverFacts DEF Connect, Disconnect
    <2> QED BY <2>1, <2>2 DEF VerifiesKnown
<1>13. ASSUME NEW k \in WiFiSource, NEW c \in Client, Authorize(k, c)
       PROVE  KnownEvents' /\ VerifiesKnown'
    BY <1>1, <1>13 DEF Authorize, SameRun
<1>14. ASSUME NEW S \in SUBSET WiFiSource, Restart(S)
       PROVE  KnownEvents' /\ VerifiesKnown'
    BY <1>1, <1>14 DEF Restart, SameRun
<1>15. CASE UNCHANGED ubusVars
    BY <1>1, <1>15 DEF ubusVars, runVars
<1> QED
    BY <1>2, <1>3, <1>4, <1>5, <1>6, <1>7, <1>8, <1>9, <1>10, <1>11, <1>12, <1>13,
       <1>14, <1>15
    DEF UbusNext, Run, Select, Hostapd

(* An event is verified only for an object subscribed to, whatever the      *)
(* order of discoveries, restarts of hostapd and late events of a cancelled *)
(* subscriber.                                                              *)
THEOREM OnlyKnownVerified == UbusSpec => []VerifiesKnown
<1>1. UbusInit => KnownEvents /\ VerifiesKnown
    BY EmptySeq DEF UbusInit, KnownEvents, VerifiesKnown, At
<1> QED
    BY <1>1, KnownNext, UbusTypeCorrect, PTL DEF UbusSpec

-----------------------------------------------------------------------------
(***************************************************************************)
(* Departures.  DepartureOwed is not inductive: what a snapshot is about   *)
(* to make live was read earlier.  Whoever has left since the radio was    *)
(* read is owed an event as well, for a full snapshot read under the       *)
(* subscription and for the verification of one radio; and a subscription  *)
(* that covers a snapshot was attached before it, so it is not attached a  *)
(* second time.                                                            *)
(***************************************************************************)
ReadOwed ==
    task.at = "read" /\ task.watched /\ sub = "attached" =>
        \A k \in objects \cap up, c \in Client :
            c \in task.got[k] /\ c \notin air[k] => Queued(k)

PublishOwed ==
    task.at = "publish" /\ watched /\ sub = "attached" =>
        \A c \in Client :
            /\ task.source \in objects \cap up
            /\ c \in task.ids /\ c \notin air[task.source]
            => Queued(task.source)

WatchedSub ==
    watched \/ (task.at = "read" /\ task.watched) => sub \notin {"none", "starting"}

Owing == ReadOwed /\ PublishOwed /\ WatchedSub /\ DepartureOwed

(* A station that leaves a radio while the subscription stays attached to   *)
(* it leaves an event behind.                                               *)
LEMMA AirFacts ==
    ASSUME UbusTypeOK, NEW j \in WiFiSource, NEW d \in Client,
           Connect(j, d) \/ Authorize(j, d) \/ Disconnect(j, d)
    PROVE  /\ UNCHANGED <<vars, objects, up, task, watched>>
           /\ sub' = sub \/ sub' = "ended"
           /\ \A k \in WiFiSource : Queued(k) => Queued(k)'
           /\ \A k \in WiFiSource, c \in Client :
                /\ sub' = "attached" /\ k \in objects
                /\ c \in air[k] /\ c \notin air'[k]
                => Queued(k)'
<1>0. events \in Seq(HostapdEvent) /\ air \in [WiFiSource -> SUBSET Client]
    BY DEF UbusTypeOK, Stations
<1>1. UNCHANGED <<vars, objects, up, task, watched>>
    BY DEF Connect, Authorize, Disconnect, SameRun
<1>2. CASE Connect(j, d)
    <2>1. \A k \in WiFiSource : air[k] \subseteq air'[k]
        BY <1>0, <1>2 DEF Connect
    <2> QED BY <1>0, <1>1, <1>2, <2>1, DeliverFacts DEF Connect
<1>3. CASE Authorize(j, d)
    <2>1. \A k \in WiFiSource : air[k] \subseteq air'[k]
        BY <1>0, <1>3 DEF Authorize
    <2> QED BY <1>0, <1>1, <1>3, <2>1 DEF Authorize, Queued
<1>4. CASE Disconnect(j, d)
    <2>1. \A k \in WiFiSource : k # j => air'[k] = air[k]
        BY <1>0, <1>4 DEF Disconnect
    <2> QED BY <1>0, <1>1, <1>4, <2>1, DeliverFacts DEF Disconnect
<1> QED BY <1>2, <1>3, <1>4

(* Nothing attaches a subscription that covers a snapshot.                  *)
LEMMA WatchedSubNext ==
    ASSUME UbusTypeOK, WatchedSub, UbusNext
    PROVE  WatchedSub'
<1>0. task \in Task /\ watched \in BOOLEAN
    BY DEF UbusTypeOK
<1>1. ASSUME UNCHANGED <<sub, watched>>, task'.at # "read" \/ UNCHANGED task
      PROVE  WatchedSub'
    BY <1>1 DEF WatchedSub
<1>2. CASE Start \/ discoverFails \/ snapshotFails \/ healthy \/ stop
             \/ discoveryTick \/ publishSource \/ takeEvent \/ discardEvent
    BY <1>1, <1>2
    DEF Start, discoverFails, snapshotFails, healthy, stop, discoveryTick,
        publishSource, takeEvent, discardEvent, At, Discover, Fail
<1>3. CASE verifyEvent
    <2>1. task \in [at : {"verify"}, event : HostapdEvent, attempt : 1..Attempts]
        BY <1>0, <1>3, TaskParts DEF verifyEvent
    <2>2. task'.at \in {"publish", "verify"}
        BY <1>3, <2>1 DEF verifyEvent
    <2> QED BY <1>1, <1>3, <2>2 DEF verifyEvent
<1>4. CASE discoverNothing \/ verifyFails \/ subscriptionEnds
    BY <1>4 DEF discoverNothing, verifyFails, subscriptionEnds, WatchedSub, At, Discover
<1>5. CASE discover
    <2>1. CASE Resubscribes
        <3>1. watched' = FALSE /\ sub' = "starting"
            BY <1>5, <2>1 DEF discover
        <3>2. task'.at = "read" => task'.watched = FALSE
            BY <1>5, <3>1 DEF discover, Read, At
        <3> QED BY <3>1, <3>2 DEF WatchedSub
    <2>2. CASE ~Resubscribes
        <3>1. watched' = watched /\ sub' = sub
            BY <1>0, <1>5, <2>2 DEF discover
        <3>2. task'.at = "read" => task'.watched = (sub = "attached")
            BY <1>5, <3>1 DEF discover, Read, At
        <3> QED BY <3>1, <3>2 DEF WatchedSub
    <2> QED BY <2>1, <2>2
<1>6. ASSUME NEW k \in WiFiSource, snapshotSource(k) PROVE WatchedSub'
    <2>1. task.at = "read" /\ task'.at = "read" /\ task'.watched = task.watched
        BY <1>0, <1>6, TaskParts DEF snapshotSource
    <2> QED BY <1>6, <2>1 DEF snapshotSource, WatchedSub
<1>7. CASE snapshot
    <2>1. task'.at # "read" /\ UNCHANGED sub
        BY <1>7 DEF snapshot, At, Fail
    <2>2. watched' => watched \/ sub = "attached"
        BY <1>7 DEF snapshot
    <2> QED BY <2>1, <2>2 DEF WatchedSub
<1>8. CASE fail
    <2>1. task'.at # "read"
        BY <1>8 DEF fail, At, Discover
    <2>2. watched' => watched /\ sub' = sub
        BY <1>8 DEF fail
    <2> QED BY <2>1, <2>2 DEF WatchedSub
<1>9. CASE reconcileTick
    <2>1. UNCHANGED <<sub, watched>>
        BY <1>9 DEF reconcileTick
    <2>2. task'.at = "read" => task'.watched = (sub = "attached")
        BY <1>9 DEF reconcileTick, Read, Discover
    <2> QED BY <2>1, <2>2 DEF WatchedSub
<1>10. CASE attach \/ subscriberEnds
    BY <1>10 DEF attach, subscriberEnds, SameRun, WatchedSub
<1>11. CASE Cancel \/ Background
    BY <1>1, <1>11 DEF Cancel, Background, SameRun, runVars
<1>12. ASSUME NEW k \in WiFiSource, NEW c \in Client,
              Connect(k, c) \/ Authorize(k, c) \/ Disconnect(k, c)
       PROVE  WatchedSub'
    <2>1. UNCHANGED <<task, watched>> /\ (sub' = sub \/ sub' = "ended")
        BY <1>12, AirFacts
    <2> QED BY <2>1 DEF WatchedSub
<1>13. ASSUME NEW S \in SUBSET WiFiSource, Restart(S) PROVE WatchedSub'
    BY <1>13 DEF Restart, SameRun, WatchedSub
<1> QED
    BY <1>2, <1>3, <1>4, <1>5, <1>6, <1>7, <1>8, <1>9, <1>10, <1>11, <1>12, <1>13
    DEF UbusNext, Run, Select, Hostapd

(* A full snapshot being read owes an event to whom it has and who left.    *)
LEMMA ReadOwedNext ==
    ASSUME UbusTypeOK, WatchedSub, ReadOwed, UbusNext
    PROVE  ReadOwed'
<1>0. task \in Task /\ objects \subseteq WiFiSource /\ up \subseteq WiFiSource
    BY DEF UbusTypeOK
<1>1. ASSUME task'.at # "read" PROVE ReadOwed'
    BY <1>1 DEF ReadOwed
<1>2. ASSUME sub' # "attached" PROVE ReadOwed'
    BY <1>2 DEF ReadOwed
<1>3. ASSUME UNCHANGED <<task, sub, objects, up, air, events>> PROVE ReadOwed'
    BY <1>3 DEF ReadOwed, Queued
<1>4. CASE Start \/ discoverFails \/ discoverNothing \/ snapshotFails \/ snapshot
             \/ healthy \/ fail \/ verifyFails \/ publishSource
    BY <1>1, <1>4
    DEF Start, discoverFails, discoverNothing, snapshotFails, snapshot, healthy,
        fail, verifyFails, publishSource, At, Discover, Fail
<1>5. CASE stop \/ discoveryTick \/ discardEvent \/ takeEvent \/ subscriptionEnds
    BY <1>1, <1>5
    DEF stop, discoveryTick, discardEvent, takeEvent, subscriptionEnds, At, Discover
<1>6. CASE verifyEvent
    <2>1. task \in [at : {"verify"}, event : HostapdEvent, attempt : 1..Attempts]
        BY <1>0, <1>6, TaskParts DEF verifyEvent
    <2>2. task'.at \in {"publish", "verify"}
        BY <1>6, <2>1 DEF verifyEvent
    <2> QED BY <1>1, <2>2
<1>7. CASE discover \/ reconcileTick
    <2>1. task'.at = "read" => task'.got = NoStations
        BY <1>7 DEF discover, reconcileTick, Read, At, Discover
    <2>2. objects' \subseteq WiFiSource
        BY <1>0, <1>7 DEF discover, reconcileTick
    <2> QED BY <2>1, <2>2 DEF ReadOwed, NoStations
<1>8. ASSUME NEW j \in WiFiSource, snapshotSource(j) PROVE ReadOwed'
    <2>1. task \in [at : {"read"}, todo : SUBSET WiFiSource, got : Stations,
                    watched : BOOLEAN]
        BY <1>0, <1>8, TaskParts DEF snapshotSource
    <2>2. task'.watched = task.watched /\ task'.got = [task.got EXCEPT ![j] = air[j]]
        BY <1>8, <2>1 DEF snapshotSource
    <2>3. \A k \in WiFiSource : task'.got[k] = IF k = j THEN air[j] ELSE task.got[k]
        BY <2>1, <2>2 DEF Stations
    <2>4. UNCHANGED <<sub, objects, up, air, events>> /\ task.at = "read"
        BY <1>8 DEF snapshotSource, hostapdVars
    <2> QED BY <1>0, <2>2, <2>3, <2>4 DEF ReadOwed, Queued
<1>9. CASE attach
    BY <1>9 DEF attach, SameRun, WatchedSub, ReadOwed
<1>10. CASE subscriberEnds
    BY <1>2, <1>10 DEF subscriberEnds
<1>11. CASE Cancel \/ Background
    BY <1>3, <1>11 DEF Cancel, Background, SameRun, runVars, hostapdVars
<1>12. ASSUME NEW j \in WiFiSource, NEW d \in Client,
              Connect(j, d) \/ Authorize(j, d) \/ Disconnect(j, d)
       PROVE  ReadOwed'
    BY <1>0, <1>12, AirFacts DEF ReadOwed
<1>13. ASSUME NEW S \in SUBSET WiFiSource, Restart(S) PROVE ReadOwed'
    BY <1>2, <1>13 DEF Restart
<1> QED
    BY <1>4, <1>5, <1>6, <1>7, <1>8, <1>9, <1>10, <1>11, <1>12, <1>13
    DEF UbusNext, Run, Select, Hostapd

(* So does the snapshot of one radio on its way to the engine.              *)
LEMMA PublishOwedNext ==
    ASSUME UbusTypeOK, WatchedSub, PublishOwed, UbusNext
    PROVE  PublishOwed'
<1>0. /\ task \in Task /\ objects \subseteq WiFiSource
      /\ task.at = "publish" => task.source \in WiFiSource
    BY TaskParts DEF UbusTypeOK
<1>1. ASSUME task'.at # "publish" PROVE PublishOwed'
    BY <1>1 DEF PublishOwed
<1>2. ASSUME sub' # "attached" PROVE PublishOwed'
    BY <1>2 DEF PublishOwed
<1>3. ASSUME UNCHANGED <<task, sub, watched, objects, up, air, events>>
      PROVE  PublishOwed'
    BY <1>3 DEF PublishOwed, Queued
<1>4. CASE Start \/ discoverFails \/ discoverNothing \/ snapshotFails \/ snapshot
             \/ healthy \/ fail \/ verifyFails \/ publishSource
    BY <1>1, <1>4
    DEF Start, discoverFails, discoverNothing, snapshotFails, snapshot, healthy,
        fail, verifyFails, publishSource, At, Discover, Fail
<1>5. CASE stop \/ discoveryTick \/ discardEvent \/ takeEvent \/ subscriptionEnds
             \/ discover \/ reconcileTick
    BY <1>1, <1>5
    DEF stop, discoveryTick, discardEvent, takeEvent, subscriptionEnds, discover,
        reconcileTick, At, Discover, Read
<1>6. CASE verifyEvent
    <2>1. task \in [at : {"verify"}, event : HostapdEvent, attempt : 1..Attempts]
        BY <1>0, <1>6, TaskParts DEF verifyEvent
    <2>2. task'.at = "publish" => task'.ids = air[task'.source]
        BY <1>6, <2>1 DEF verifyEvent
    <2>3. UNCHANGED air
        BY <1>6 DEF verifyEvent, hostapdVars
    <2> QED BY <2>2, <2>3 DEF PublishOwed
<1>7. ASSUME NEW j \in WiFiSource, snapshotSource(j) PROVE PublishOwed'
    <2>1. task'.at = "read"
        BY <1>0, <1>7, TaskParts DEF snapshotSource
    <2> QED BY <1>1, <2>1
<1>8. CASE attach
    BY <1>8 DEF attach, SameRun, WatchedSub, PublishOwed
<1>9. CASE subscriberEnds
    BY <1>2, <1>9 DEF subscriberEnds
<1>10. CASE Cancel \/ Background
    BY <1>3, <1>10 DEF Cancel, Background, SameRun, runVars, hostapdVars
<1>11. ASSUME NEW j \in WiFiSource, NEW d \in Client,
              Connect(j, d) \/ Authorize(j, d) \/ Disconnect(j, d)
       PROVE  PublishOwed'
    BY <1>0, <1>11, AirFacts DEF PublishOwed
<1>12. ASSUME NEW S \in SUBSET WiFiSource, Restart(S) PROVE PublishOwed'
    BY <1>2, <1>12 DEF Restart
<1> QED
    BY <1>4, <1>5, <1>6, <1>7, <1>8, <1>9, <1>10, <1>11, <1>12
    DEF UbusNext, Run, Select, Hostapd

\* A step that makes no connection to a radio live.
NoneArrives ==
    \A c \in Client, k \in WiFiSource : conns'[c][k] = "live" => conns[c][k] = "live"

(* Reports, refusals and expired holds make nothing live, and a report of   *)
(* an outage leaves nothing live.                                           *)
LEMMA ArrivalFacts ==
    ASSUME TypeOK
    PROVE  /\ \A p, r : SetProvider(p, r) => NoneArrives
           /\ \A p, W : RefuseSnapshot(p, W) => NoneArrives
           /\ sweepPending \/ Tick => NoneArrives
           /\ Publish("unavailable") =>
                \A c \in Client, k \in WiFiSource : conns'[c][k] # "live"
<1> USE DEF NoneArrives, Conns
<1>1. ASSUME NEW p, NEW r, SetProvider(p, r) PROVE NoneArrives
    BY <1>1 DEF SetProvider, MarkUnavailable, StaleConns
<1>2. ASSUME NEW p, NEW W, RefuseSnapshot(p, W) PROVE NoneArrives
    BY <1>2 DEF RefuseSnapshot, Forgotten, NoConns
<1>3. ASSUME sweepPending \/ Tick PROVE NoneArrives
    BY <1>3 DEF sweepPending, DepartedConns, Tick, TypeOK
<1>4. ASSUME Publish("unavailable"), NEW c \in Client, NEW k \in WiFiSource
      PROVE  conns'[c][k] # "live"
    BY <1>4 DEF Publish, SetProvider, MarkUnavailable, StaleConns, ConnsOf
<1> QED BY <1>1, <1>2, <1>3, <1>4

(* Without grace, whom a snapshot leaves live on a radio is whom it has     *)
(* there, or on other radios who was live there before.                     *)
LEMMA SnapshotArrivals ==
    ASSUME TypeOK, EvidenceBacked', NEW c \in Client, NEW k \in WiFiSource,
           conns'[c][k] = "live"
    PROVE  /\ \A got \in Stations : Reconcile(WiFi, got) => c \in got[k]
           /\ \A j \in WiFiSource, ids \in SUBSET Client :
                ReconcileSource(j, ids) =>
                    IF k = j THEN c \in ids ELSE conns[c][k] = "live"
<1>0. k \in Conns /\ c \in evidence'[k]
    BY DEF Conns, EvidenceBacked, Live
<1>1. ASSUME NEW got \in Stations, Reconcile(WiFi, got) PROVE c \in got[k]
    BY <1>0, <1>1 DEF Reconcile, MergedEvidence, ConnsOf
<1>2. ASSUME NEW j \in WiFiSource, NEW ids \in SUBSET Client, ReconcileSource(j, ids)
      PROVE  IF k = j THEN c \in ids ELSE conns[c][k] = "live"
    <2>1. CASE k = j
        BY <1>0, <1>2, <2>1 DEF ReconcileSource, MergedEvidence
    <2>2. CASE k # j
        <3> DEFINE stations == [i \in {j} |-> ids]
        <3>1. PICK E \in evictOldestNonPresent(Excess(ids), ids),
                   kept \in KeptChoices(ProviderOf(j), {j}, stations) :
                conns' = MergedConns({j}, stations, kept, E)
            BY <1>2 DEF ReconcileSource
        <3> QED BY <1>0, <2>2, <3>1 DEF MergedConns, Unwanted
    <2> QED BY <2>1, <2>2
<1> QED BY <1>1, <1>2

\* What DepartureOwed says of one radio and one client.
OwedOn(k, c) ==
    /\ watched /\ sub = "attached" /\ k \in objects /\ k \in up
    /\ conns[c][k] = "live" /\ c \notin air[k]
    => Queued(k) \/ Verifying(k)

(* DepartureOwed is that condition for every radio and client.              *)
LEMMA OwedIsPerRadio ==
    ASSUME objects \subseteq WiFiSource
    PROVE  DepartureOwed <=> \A k \in WiFiSource, c \in Client : OwedOn(k, c)
BY DEF DepartureOwed, OwedOn, Live, Conns

(* Every step leaves an event, or its verification, for every departure.    *)
LEMMA OwedNext ==
    ASSUME TypeOK, UbusTypeOK, WatchedSub, ReadOwed, PublishOwed, EvidenceBacked',
           UbusNext, NEW k \in WiFiSource, NEW c \in Client, OwedOn(k, c)
    PROVE  OwedOn(k, c)'
<1>0. /\ task \in Task /\ events \in Seq(HostapdEvent) /\ watched \in BOOLEAN
      /\ objects \subseteq WiFiSource
    BY DEF UbusTypeOK
<1>1. ASSUME UNCHANGED <<objects, up, air, events>>,
             watched' /\ sub' = "attached" => watched /\ sub = "attached",
             conns'[c][k] = "live" => conns[c][k] = "live",
             Verifying(k) => Verifying(k)'
      PROVE  OwedOn(k, c)'
    BY <1>1 DEF OwedOn, Queued
<1>2. ASSUME conns'[c][k] # "live" PROVE OwedOn(k, c)'
    BY <1>2 DEF OwedOn
<1>3. ASSUME ~watched' \/ sub' # "attached" PROVE OwedOn(k, c)'
    BY <1>3 DEF OwedOn
<1>4. ASSUME NEW status, Publish(status) PROVE conns'[c][k] = "live" => conns[c][k] = "live"
    BY <1>4, ArrivalFacts DEF Publish, NoneArrives
<1>5. CASE Start \/ healthy \/ stop
    <2>1. task.at \in {"start", "healthy", "idle"}
        BY <1>5, AtFacts DEF Start, healthy, stop
    <2>2. ~Verifying(k)
        BY <2>1 DEF Verifying
    <2> QED BY <1>1, <1>4, <1>5, <2>2 DEF Start, healthy, stop, hostapdVars
<1>6. CASE discoverFails \/ discoverNothing \/ snapshotFails \/ fail \/ verifyFails
    BY <1>2, <1>6, ArrivalFacts
    DEF discoverFails, discoverNothing, snapshotFails, fail, verifyFails
<1>7. CASE subscriptionEnds
    BY <1>3, <1>7 DEF subscriptionEnds
<1>8. CASE discover
    <2>1. CASE Resubscribes
        BY <1>3, <1>8, <2>1 DEF discover
    <2>2. CASE ~Resubscribes
        <3>1. UNCHANGED <<objects, up, air, events, sub, conns>> /\ watched' = watched
            BY <1>0, <1>8, <2>2 DEF discover, Resubscribes, hostapdVars, vars
        <3>2. ~Verifying(k)
            BY <1>8 DEF discover, Verifying
        <3> QED BY <1>1, <3>1, <3>2
    <2> QED BY <2>1, <2>2
<1>9. ASSUME NEW j \in WiFiSource, snapshotSource(j) PROVE OwedOn(k, c)'
    <2>1. ~Verifying(k)
        BY <1>9 DEF snapshotSource, Verifying
    <2> QED BY <1>1, <1>9, <2>1 DEF snapshotSource, hostapdVars, vars
<1>10. CASE discoveryTick \/ reconcileTick
    <2>1. task.at = "idle"
        BY <1>10, AtFacts DEF discoveryTick, reconcileTick
    <2>2. ~Verifying(k)
        BY <2>1 DEF Verifying
    <2> QED BY <1>1, <1>10, <2>2 DEF discoveryTick, reconcileTick, hostapdVars, vars
<1>11. CASE snapshot
    <2>1. UNCHANGED <<objects, up, air, events, sub>> /\ task.at = "read"
        BY <1>11 DEF snapshot, hostapdVars
    <2>2. task.got \in Stations
        BY <1>0, <2>1, TaskParts
    <2>3. CASE Reconcile(WiFi, task.got) /\ watched' = (task.watched /\ sub = "attached")
        <3>1. conns'[c][k] = "live" => c \in task.got[k]
            BY <2>2, <2>3, SnapshotArrivals
        <3>2. watched' => task.watched
            BY <2>3
        <3> QED BY <2>1, <3>1, <3>2 DEF OwedOn, ReadOwed, Queued
    <2>4. CASE task' = Fail(FALSE)
        BY <2>4 DEF OwedOn, Verifying, Fail
    <2> QED BY <1>11, <2>3, <2>4 DEF snapshot
<1>12. CASE publishSource
    <2>1. /\ UNCHANGED <<objects, up, air, events, sub, watched>>
          /\ task.at = "publish"
        BY <1>12 DEF publishSource, hostapdVars
    <2>2. task.source \in WiFiSource /\ task.ids \in SUBSET Client
        BY <1>0, <2>1, TaskParts
    <2>3. CASE ReconcileSource(task.source, task.ids)
        <3>1. conns'[c][k] = "live" =>
                IF k = task.source THEN c \in task.ids ELSE conns[c][k] = "live"
            BY <2>2, <2>3, SnapshotArrivals
        <3>2. CASE k = task.source
            BY <2>1, <3>1, <3>2 DEF OwedOn, PublishOwed, Queued
        <3>3. CASE k # task.source
            <4>1. ~Verifying(k)
                BY <2>1, <3>3 DEF Verifying
            <4> QED BY <1>1, <2>1, <3>1, <3>3, <4>1
        <3> QED BY <3>2, <3>3
    <2>4. CASE task' = Fail(TRUE)
        BY <2>4 DEF OwedOn, Verifying, Fail
    <2> QED BY <1>12, <2>3, <2>4 DEF publishSource
<1>13. CASE verifyEvent
    <2>1. task \in [at : {"verify"}, event : HostapdEvent, attempt : 1..Attempts]
        BY <1>0, <1>13, TaskParts DEF verifyEvent
    <2>2. \/ task'.at = "publish" /\ task'.source = task.event.source
          \/ task'.at = "verify" /\ task'.event = task.event
        BY <1>13, <2>1 DEF verifyEvent
    <2>3. Verifying(k) => Verifying(k)'
        BY <2>1, <2>2 DEF Verifying
    <2> QED BY <1>1, <1>13, <2>3 DEF verifyEvent, hostapdVars, vars
<1>14. CASE discardEvent
    <2>1. Queued(k) => Queued(k)'
        BY <1>0, <1>14, TailFacts DEF discardEvent
    <2> QED BY <1>14, <2>1 DEF discardEvent, OwedOn, Verifying, hostapdVars, vars
<1>15. CASE takeEvent
    <2>1. Queued(k) => Queued(k)' \/ Head(events).source = k
        BY <1>0, <1>15, TailFacts DEF takeEvent
    <2>2. Head(events).source = k => Verifying(k)'
        BY <1>15 DEF takeEvent, Verifying
    <2>3. ~Verifying(k)
        BY <1>15 DEF takeEvent, Verifying, At
    <2>4. conns'[c][k] = "live" => conns[c][k] = "live"
        BY <1>15, ArrivalFacts DEF takeEvent, NoneArrives
    <2>5. UNCHANGED <<objects, up, air, sub, watched>>
        BY <1>15 DEF takeEvent, hostapdVars
    <2> QED BY <2>1, <2>2, <2>3, <2>4, <2>5 DEF OwedOn
<1>16. CASE attach
    BY <1>3, <1>16 DEF attach, SameRun, WatchedSub
<1>17. CASE subscriberEnds
    BY <1>3, <1>17 DEF subscriberEnds
<1>18. CASE Cancel
    BY <1>1, <1>18 DEF Cancel, SameRun, Verifying, vars
<1>19. CASE Background
    <2>1. conns'[c][k] = "live" => conns[c][k] = "live"
        BY <1>19, ArrivalFacts DEF Background, NoneArrives
    <2> QED BY <1>1, <1>19, <2>1 DEF Background, runVars, hostapdVars, Verifying
<1>20. ASSUME NEW j \in WiFiSource, NEW d \in Client,
              Connect(j, d) \/ Authorize(j, d) \/ Disconnect(j, d)
       PROVE  OwedOn(k, c)'
    <2>1. /\ UNCHANGED <<vars, objects, up, task, watched>>
          /\ sub' = sub \/ sub' = "ended"
          /\ Queued(k) => Queued(k)'
          /\ sub' = "attached" /\ k \in objects /\ c \in air[k] /\ c \notin air'[k]
               => Queued(k)'
        BY <1>20, AirFacts
    <2> QED BY <2>1 DEF OwedOn, Verifying, vars
<1>21. ASSUME NEW S \in SUBSET WiFiSource, Restart(S) PROVE OwedOn(k, c)'
    BY <1>3, <1>21 DEF Restart
<1> QED
    BY <1>5, <1>6, <1>7, <1>8, <1>9, <1>10, <1>11, <1>12, <1>13, <1>14, <1>15,
       <1>16, <1>17, <1>18, <1>19, <1>20, <1>21
    DEF UbusNext, Run, Select, Hostapd

(* Without grace, no departure slips between the snapshots and the events   *)
(* of a subscription, for every number of radios and stations, every queue  *)
(* and every order of reads, events, restarts and refusals.                 *)
THEOREM NoDepartureLost ==
    ASSUME Grace = 0
    PROVE  UbusSpec => []DepartureOwed
<1>1. UbusInit => Owing
    BY DEF UbusInit, Owing, ReadOwed, PublishOwed, WatchedSub, DepartureOwed, At
<1>2. UbusSound /\ EvidenceBacked' /\ Owing /\ [UbusNext]_ubusVars => Owing'
    <2> SUFFICES ASSUME UbusSound, EvidenceBacked', Owing, [UbusNext]_ubusVars
                 PROVE  Owing'
        OBVIOUS
    <2>1. CASE UNCHANGED ubusVars
        <3>1. UNCHANGED <<vars, hostapdVars, runVars>>
            BY <2>1 DEF ubusVars
        <3>2. ReadOwed' /\ PublishOwed' /\ WatchedSub'
            BY <3>1 DEF hostapdVars, runVars, Owing, ReadOwed, PublishOwed,
                        WatchedSub, Queued
        <3>3. DepartureOwed'
            BY <3>1 DEF vars, hostapdVars, runVars, Owing, DepartureOwed, Queued,
                        Verifying, Live
        <3> QED BY <3>2, <3>3 DEF Owing
    <2>2. CASE UbusNext
        <3>1. TypeOK /\ UbusTypeOK /\ objects \subseteq WiFiSource
            BY DEF UbusSound, UbusTypeOK
        <3>2. objects' \subseteq WiFiSource
            BY UbusSoundNext DEF UbusSound, UbusTypeOK
        <3>3. WatchedSub' /\ ReadOwed' /\ PublishOwed'
            BY <2>2, <3>1, WatchedSubNext, ReadOwedNext, PublishOwedNext DEF Owing
        <3>4. \A k \in WiFiSource, c \in Client : OwedOn(k, c)
            BY <3>1, OwedIsPerRadio DEF Owing
        <3>5. \A k \in WiFiSource, c \in Client : OwedOn(k, c)'
            BY <2>2, <3>1, <3>4, OwedNext DEF Owing
        <3>6. DepartureOwed'
            BY <3>2, <3>5 DEF DepartureOwed, OwedOn, Live
        <3> QED BY <3>3, <3>6 DEF Owing
    <2> QED BY <2>1, <2>2
<1>3. Owing => DepartureOwed
    BY DEF Owing
<1>4. UbusSpec => []EvidenceBacked
    BY EngineImplemented, EvidenceCorrect, PTL
<1> QED
    BY <1>1, <1>2, <1>3, <1>4, UbusSoundInit, UbusSoundNext, PTL DEF UbusSpec
=============================================================================
