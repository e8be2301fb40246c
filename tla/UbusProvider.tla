---------------------------- MODULE UbusProvider ----------------------------
(***************************************************************************)
(* The Wi-Fi provider (internal/providers/ubus) at work on the engine: the *)
(* goroutine of Run, which discovers the hostapd objects, reads their      *)
(* stations and verifies events; the subscriber goroutine, which attaches  *)
(* to hostapd's control socket and queues its events; and hostapd itself,  *)
(* which is external.  Every call of the sink is an action of Engine.      *)
(*                                                                         *)
(* A ubus command reads hostapd at one moment, and hostapd goes on         *)
(* changing until the result is applied.  The generation of a queued event *)
(* is compared with the current one only, so an event records whether the  *)
(* two still agree.                                                        *)
(***************************************************************************)
EXTENDS Engine, Sequences

CONSTANTS
    EventQueueSize,  \* Config.QueueSize
    Attempts,        \* connectVerificationAttempts
    MaxFaults        \* bound: changes and failures of the environment

ASSUME ProviderAssumption ==
    /\ WiFiSource # {}
    /\ EventQueueSize \in Nat \ {0} /\ Attempts \in Nat \ {0}
    /\ MaxFaults \in Nat

VARIABLES
    up,            \* the hostapd objects on ubus
    air,           \* the stations associated and authorized on each
    joining,       \* stations announced as connected and not yet authorized
    faults,        \* changes and failures the environment has left
    cancelled,     \* the context is cancelled
    objects,       \* Run: the objects subscribed to
    lastSnapshot,  \* Run: lastSnapshot is not zero
    sub,           \* the subscription behind subCancel and subResult
    late,          \* a cancelled subscriber may still queue an event, of which
                   \* generation
    events,        \* the channel of events
    task,          \* what the goroutine of Run is doing
    complete,      \* history: the engine has accepted all objects at once
    watched        \* history: the last one was read under this subscription

hostapdVars == <<up, air, joining, faults, cancelled>>
runVars == <<objects, lastSnapshot, sub, late, events, task, complete, watched>>
ubusVars == <<vars, hostapdVars, runVars>>

-----------------------------------------------------------------------------
Stations == [WiFiSource -> SUBSET Client]
NoStations == [k \in WiFiSource |-> {}]
HostapdEvent ==
    [kind : {"wifi.associated", "wifi.disassociated"}, source : WiFiSource,
     client : Client, current : BOOLEAN]
Task ==
    [at : {"start", "idle", "stopped", "healthy"}]
        \cup [at : {"discover"}, force : BOOLEAN]
        \cup [at : {"fail"}, recover : BOOLEAN]
        \cup [at : {"read"}, todo : SUBSET WiFiSource, got : Stations,
              watched : BOOLEAN]
        \cup [at : {"verify"}, event : HostapdEvent, attempt : 1..Attempts]
        \cup [at : {"publish"}, source : WiFiSource, ids : SUBSET Client]

(* The type invariant of the provider, with the limit of its event queue.   *)
UbusTypeOK ==
    /\ up \subseteq WiFiSource
    /\ air \in Stations
    /\ joining \subseteq WiFiSource \X Client
    /\ faults \in 0..MaxFaults /\ cancelled \in BOOLEAN
    /\ objects \subseteq WiFiSource /\ lastSnapshot \in BOOLEAN
    /\ sub \in {"none", "starting", "attached", "deaf", "ended"}
    /\ late \in {"no", "current", "old"}
    /\ events \in Seq(HostapdEvent) /\ Len(events) <= EventQueueSize
    /\ task \in Task
    /\ complete \in BOOLEAN /\ watched \in BOOLEAN

At(t) == [at |-> t]
Discover(force) == [at |-> "discover", force |-> force]
Fail(recover) == [at |-> "fail", recover |-> recover]
Read(S, w) == [at |-> "read", todo |-> S, got |-> NoStations, watched |-> w]

UbusInit ==
    /\ Init
    /\ up \in SUBSET WiFiSource
    /\ air = NoStations /\ joining = {}
    /\ faults = MaxFaults /\ cancelled = FALSE
    /\ objects = {} /\ lastSnapshot = FALSE
    /\ sub = "none" /\ late = "no" /\ events = <<>>
    /\ task = At("start")
    /\ complete = FALSE /\ watched = FALSE

-----------------------------------------------------------------------------
(* Helpers of Run.                                                         *)

\* Every status the provider sets is published at once.
Publish(status) ==
    \E r \in Reports(WiFi) : r.status = status /\ SetProvider(WiFi, r)

\* Events of an earlier generation stay queued and are discarded when read.
Outdated == [i \in 1..Len(events) |-> [events[i] EXCEPT !.current = FALSE]]

\* subCancel: an attached subscriber may have one event in hand, and queue it
\* after Run has gone on.
Leaves(generation) ==
    IF sub = "attached" \/ late = "current" THEN generation ELSE late

\* A command fails when its context is cancelled, and may fail otherwise.
CommandFails ==
    \/ cancelled /\ UNCHANGED faults
    \/ ~cancelled /\ faults > 0 /\ faults' = faults - 1

\* get_clients of one object.  The limit of decodeSnapshot counts the stations
\* that are not authorized, too.
Readable(k) ==
    /\ ~cancelled /\ k \in up
    /\ Cardinality(air[k] \cup {c \in Client : <<k, c>> \in joining}) <= MaxClients

ReadFails(S) ==
    \/ CommandFails
    \/ UNCHANGED faults /\ \E k \in S : ~Readable(k)

SameHostapd == UNCHANGED <<up, air, joining, cancelled>>

-----------------------------------------------------------------------------
(* refresh.                                                                *)

Start ==
    /\ task = At("start")
    /\ Publish("initializing")
    /\ task' = Discover(TRUE)
    /\ UNCHANGED <<hostapdVars, objects, lastSnapshot, sub, late, events, complete, watched>>

discoverFails ==
    /\ task.at = "discover"
    /\ CommandFails
    /\ Publish("unavailable")
    /\ task' = At("idle")
    /\ SameHostapd
    /\ UNCHANGED <<objects, lastSnapshot, sub, late, events, complete, watched>>

discoverNothing ==
    /\ task.at = "discover" /\ ~cancelled
    /\ up = {}
    /\ sub' = "none"
    /\ late' = IF sub # "none" THEN Leaves("old") ELSE late
    /\ events' = IF sub # "none" THEN Outdated ELSE events
    /\ Publish("unavailable")
    /\ task' = At("idle")
    /\ watched' = FALSE
    /\ UNCHANGED <<hostapdVars, objects, lastSnapshot, complete>>

\* Seeded fault: a changed set of objects keeps the old subscription.
FaultyResubscribes == sub = "none"

\* A new subscription starts, with a new generation.
Resubscribes == up # objects \/ sub = "none"

discover ==
    /\ task.at = "discover" /\ ~cancelled
    /\ up # {}
    /\ objects' = up
    /\ sub' = IF Resubscribes THEN "starting" ELSE sub
    /\ late' = IF Resubscribes THEN Leaves("old") ELSE late
    /\ events' = IF Resubscribes THEN Outdated ELSE events
    /\ watched' = (watched /\ ~Resubscribes)
    /\ task' = IF task.force \/ up # objects \/ ~lastSnapshot
                 THEN Read(up, sub' = "attached") ELSE At("healthy")
    /\ UNCHANGED <<vars, hostapdVars, lastSnapshot, complete>>

\* snapshot: two workers read the objects, in any order.
snapshotSource(k) ==
    /\ task.at = "read" /\ k \in task.todo
    /\ Readable(k)
    /\ task' = [task EXCEPT !.todo = @ \ {k}, !.got[k] = air[k]]
    /\ UNCHANGED <<vars, hostapdVars, objects, lastSnapshot, sub, late, events, complete, watched>>

snapshotFails ==
    /\ task.at = "read" /\ task.todo # {}
    /\ ReadFails(task.todo)
    /\ Publish("unavailable")
    /\ task' = At("idle")
    /\ SameHostapd
    /\ UNCHANGED <<objects, lastSnapshot, sub, late, events, complete, watched>>

snapshot ==
    /\ task.at = "read" /\ task.todo = {}
    /\ \/ /\ Reconcile(WiFi, task.got)
          /\ lastSnapshot' = TRUE
          /\ task' = At("healthy")
          /\ complete' = TRUE
          /\ watched' = (task.watched /\ sub = "attached")
       \/ /\ RefuseSnapshot(WiFi, Wanted(WiFiSource, task.got))
          /\ task' = Fail(FALSE)
          /\ UNCHANGED <<lastSnapshot, complete, watched>>
    /\ UNCHANGED <<hostapdVars, objects, sub, late, events>>

healthy ==
    /\ task.at = "healthy"
    /\ Publish("healthy")
    /\ task' = At("idle")
    /\ UNCHANGED <<hostapdVars, objects, lastSnapshot, sub, late, events, complete, watched>>

\* The engine refused a snapshot; after an event, Run also subscribes anew.
fail ==
    /\ task.at = "fail"
    /\ Publish("unavailable")
    /\ sub' = IF task.recover THEN "none" ELSE sub
    /\ late' = IF task.recover THEN Leaves("current") ELSE late
    /\ watched' = (watched /\ ~task.recover)
    /\ task' = IF task.recover THEN Discover(TRUE) ELSE At("idle")
    /\ UNCHANGED <<hostapdVars, objects, lastSnapshot, events, complete>>

-----------------------------------------------------------------------------
(* The select of Run.                                                      *)

\* Seeded fault: Run returns without publishing its last status.
FaultyStop ==
    /\ task = At("idle") /\ cancelled
    /\ task' = At("stopped")
    /\ UNCHANGED <<vars, hostapdVars, objects, lastSnapshot, sub, late, events, complete, watched>>

stop ==
    /\ task = At("idle") /\ cancelled
    /\ Publish("stopped")
    /\ task' = At("stopped")
    /\ UNCHANGED <<hostapdVars, objects, lastSnapshot, sub, late, events, complete, watched>>

discoveryTick ==
    /\ task = At("idle")
    /\ task' = Discover(FALSE)
    /\ UNCHANGED <<vars, hostapdVars, objects, lastSnapshot, sub, late, events, complete, watched>>

\* Seeded fault: the periodic snapshot is left to the discovery.
FaultyReconcileTick ==
    /\ task = At("idle")
    /\ task' = Discover(FALSE)
    /\ UNCHANGED <<vars, hostapdVars, objects, lastSnapshot, sub, late, events, complete, watched>>

reconcileTick ==
    /\ task = At("idle")
    /\ task' = IF objects = {} THEN Discover(TRUE)
                               ELSE Read(objects, sub = "attached")
    /\ UNCHANGED <<vars, hostapdVars, objects, lastSnapshot, sub, late, events, complete, watched>>

discardEvent ==
    /\ task = At("idle") /\ events # <<>>
    /\ ~Head(events).current
    /\ events' = Tail(events)
    /\ UNCHANGED <<vars, hostapdVars, objects, lastSnapshot, sub, late, task, complete, watched>>

\* Seeded fault: a departure is left to the next snapshot.
FaultyTakeEvent ==
    /\ task = At("idle") /\ events # <<>>
    /\ Head(events).current
    /\ events' = Tail(events)
    /\ SetProvider(WiFi, providers[WiFi])
    /\ task' = IF Head(events).kind = "wifi.disassociated" THEN At("idle")
               ELSE [at |-> "verify", event |-> Head(events), attempt |-> 1]
    /\ UNCHANGED <<hostapdVars, objects, lastSnapshot, sub, late, complete, watched>>

\* noteEvent publishes the status again, unchanged but for the event time.
takeEvent ==
    /\ task = At("idle") /\ events # <<>>
    /\ Head(events).current
    /\ events' = Tail(events)
    /\ SetProvider(WiFi, providers[WiFi])
    /\ task' = [at |-> "verify", event |-> Head(events), attempt |-> 1]
    /\ UNCHANGED <<hostapdVars, objects, lastSnapshot, sub, late, complete, watched>>

subscriptionEnds ==
    /\ task = At("idle") /\ sub = "ended"
    /\ sub' = "none" /\ watched' = FALSE
    /\ \/ ~cancelled /\ Publish("unavailable") /\ task' = Discover(TRUE)
       \/ cancelled /\ UNCHANGED <<vars, task>>
    /\ UNCHANGED <<hostapdVars, objects, lastSnapshot, late, events, complete>>

-----------------------------------------------------------------------------
(* verifyEvent.  A connection is looked for until the last attempt.        *)

Verified(e, ids) == e.kind = "wifi.disassociated" \/ e.client \in ids

verifyEvent ==
    /\ task.at = "verify"
    /\ Readable(task.event.source)
    /\ LET k == task.event.source
       IN  task' = IF Verified(task.event, air[k]) \/ task.attempt = Attempts
                     THEN [at |-> "publish", source |-> k, ids |-> air[k]]
                     ELSE [task EXCEPT !.attempt = @ + 1]
    /\ UNCHANGED <<vars, hostapdVars, objects, lastSnapshot, sub, late, events, complete, watched>>

verifyFails ==
    /\ task.at = "verify"
    /\ ReadFails({task.event.source})
    /\ Publish("unavailable")
    /\ sub' = "none" /\ late' = Leaves("current") /\ watched' = FALSE
    /\ task' = Discover(TRUE)
    /\ SameHostapd
    /\ UNCHANGED <<objects, lastSnapshot, events, complete>>

publishSource ==
    /\ task.at = "publish"
    /\ \/ /\ ReconcileSource(task.source, task.ids)
          /\ lastSnapshot' = TRUE
          /\ complete' = (complete \/ objects = {task.source})
          /\ task' = At("healthy")
       \/ /\ RefuseSnapshot(WiFi, task.ids)
          /\ task' = Fail(TRUE)
          /\ UNCHANGED <<lastSnapshot, complete>>
    /\ UNCHANGED <<hostapdVars, objects, sub, late, events, watched>>

-----------------------------------------------------------------------------
(* The subscriber.  An event it cannot queue ends the subscription.        *)

SameRun == UNCHANGED <<objects, lastSnapshot, task, complete, watched>>

attach ==
    /\ sub = "starting" /\ ~cancelled
    /\ sub' = "attached"
    /\ UNCHANGED <<vars, hostapdVars, late, events>> /\ SameRun

\* The socket fails, the context is cancelled, or hostapd does not answer the
\* keepalive because it restarted.
subscriberEnds ==
    /\ sub \in {"starting", "attached", "deaf"}
    /\ \/ CommandFails
       \/ sub = "deaf" /\ UNCHANGED faults
    /\ sub' = "ended"
    /\ SameHostapd
    /\ UNCHANGED <<vars, late, events>> /\ SameRun

Hears(k) == sub = "attached" /\ k \in objects

Enqueue(kind, k, c, current) ==
    events' = Append(events, [kind |-> kind, source |-> k, client |-> c,
                              current |-> current])

\* Seeded fault: the queue takes one event more than its limit.
LongQueue(kind, k, c) ==
    IF Len(events) <= EventQueueSize
      THEN Enqueue(kind, k, c, TRUE) /\ UNCHANGED sub
      ELSE sub' = "ended" /\ UNCHANGED events

Queue(kind, k, c) ==
    IF Len(events) < EventQueueSize
      THEN Enqueue(kind, k, c, TRUE) /\ UNCHANGED sub
      ELSE sub' = "ended" /\ UNCHANGED events

\* A subscriber that was cancelled with this event in hand.
LateQueue(kind, k, c) ==
    /\ late # "no" /\ (late = "current" => k \in objects)
    /\ Len(events) < EventQueueSize
    /\ Enqueue(kind, k, c, late = "current")
    /\ late' = "no" /\ UNCHANGED sub

Deliver(kind, k, c) ==
    \/ Hears(k) /\ Queue(kind, k, c) /\ UNCHANGED late
    \/ ~Hears(k) /\ UNCHANGED <<events, sub, late>>
    \/ ~Hears(k) /\ LateQueue(kind, k, c)

-----------------------------------------------------------------------------
(* hostapd and the context (external).                                     *)

Spend == faults > 0 /\ faults' = faults - 1

Connect(k, c) ==
    /\ Spend
    /\ k \in up /\ c \notin air[k] /\ <<k, c>> \notin joining
    /\ \/ air' = [air EXCEPT ![k] = @ \cup {c}] /\ UNCHANGED joining
       \/ joining' = joining \cup {<<k, c>>} /\ UNCHANGED air
    /\ Deliver("wifi.associated", k, c)
    /\ UNCHANGED <<vars, up, cancelled>> /\ SameRun

Authorize(k, c) ==
    /\ <<k, c>> \in joining
    /\ air' = [air EXCEPT ![k] = @ \cup {c}]
    /\ joining' = joining \ {<<k, c>>}
    /\ UNCHANGED <<vars, up, faults, cancelled, sub, late, events>> /\ SameRun

Disconnect(k, c) ==
    /\ Spend
    /\ c \in air[k] \/ <<k, c>> \in joining
    /\ air' = [air EXCEPT ![k] = @ \ {c}]
    /\ joining' = joining \ {<<k, c>>}
    /\ Deliver("wifi.disassociated", k, c)
    /\ UNCHANGED <<vars, up, cancelled>> /\ SameRun

\* hostapd restarts, or its configuration changes, with other objects and
\* without stations.  It has forgotten who was attached.
Restart(S) ==
    /\ Spend
    /\ up' = S
    /\ air' = NoStations /\ joining' = {}
    /\ sub' = IF sub = "attached" THEN "deaf" ELSE sub
    /\ UNCHANGED <<vars, cancelled, late, events>> /\ SameRun

Cancel ==
    /\ ~cancelled
    /\ cancelled' = TRUE
    /\ UNCHANGED <<vars, up, air, joining, faults, sub, late, events>> /\ SameRun

-----------------------------------------------------------------------------
Run ==
    \/ Start \/ discoverFails \/ discoverNothing \/ discover
    \/ (\E k \in WiFiSource : snapshotSource(k))
    \/ snapshotFails \/ snapshot \/ healthy \/ fail
    \/ verifyEvent \/ verifyFails \/ publishSource

Select ==
    stop \/ discoveryTick \/ reconcileTick \/ discardEvent \/ takeEvent
        \/ subscriptionEnds

Hostapd ==
    \/ \E k \in WiFiSource, c \in Client :
         Connect(k, c) \/ Authorize(k, c) \/ Disconnect(k, c)
    \/ \E S \in SUBSET WiFiSource : Restart(S)
    \/ Cancel

\* Grace and retention go on in the engine meanwhile.
Background == (sweepPending \/ Tick) /\ UNCHANGED <<hostapdVars, runVars>>

UbusNext == Run \/ Select \/ attach \/ subscriberEnds \/ Hostapd \/ Background

(***************************************************************************)
(* Fairness: Run gets on with its task, as every command has a timeout;    *)
(* its select picks at random among what is ready, so a case that is ready *)
(* again and again is picked.  Nothing is assumed of the subscriber and of *)
(* the events: what they miss is repaired without them.                    *)
(***************************************************************************)
UbusFairness ==
    /\ WF_ubusVars(Run)
    /\ SF_ubusVars(stop) /\ SF_ubusVars(discoveryTick) /\ SF_ubusVars(reconcileTick)
    /\ WF_ubusVars(Background)

UbusSpec == UbusInit /\ [][UbusNext]_ubusVars /\ UbusFairness

-----------------------------------------------------------------------------
(* Properties.                                                             *)

Queued(k) == \E i \in 1..Len(events) : events[i].source = k /\ events[i].current

\* An event of the radio is being verified; or a snapshot was refused, and the
\* report that makes every connection stale is next.
Verifying(k) ==
    \/ task.at = "verify" /\ task.event.source = k
    \/ task.at = "publish" /\ task.source = k
    \/ task.at = "fail"

\* The stations are more than the engine takes: their snapshots are refused.
Crowded ==
    Cardinality({c \in Client : \E k \in up : c \in air[k] \/ <<k, c>> \in joining})
        > MaxClients

(* While the subscription covers the last full snapshot, no departure slips *)
(* between snapshots and events: a client that the engine has live on a     *)
(* radio it has left is owed the verification of an event of that radio.    *)
DepartureOwed ==
    watched /\ sub = "attached" =>
        \A k \in objects \cap up, c \in Client :
            k \in Live(conns[c]) /\ c \notin air[k] => Queued(k) \/ Verifying(k)

(* An event of an earlier set of objects is never verified: the generation  *)
(* check catches what was queued before the objects changed.                *)
VerifiesKnown ==
    task.at = "verify" => task.event.source \in objects

(* The state endpoints may open on the word of one radio, when the first    *)
(* snapshot of all of them failed and an event was verified: once hostapd   *)
(* settles, with no more stations than the limit, all of them are read.     *)
ReadyCompletes ==
    <>[](HasAuthoritativeSnapshot(WiFi) =>
           complete \/ up = {} \/ cancelled \/ Crowded)

(* Once open, the state endpoints stay open: no report, not even the one    *)
(* published in the middle of a verification, loses the snapshot.           *)
ReadyKept ==
    [][HasAuthoritativeSnapshot(WiFi) => HasAuthoritativeSnapshot(WiFi)']_ubusVars

(* Whatever was missed is repaired: once hostapd and its answers settle,    *)
(* with no more stations than the limit, each client is live exactly where  *)
(* it is associated.                                                        *)
Repaired ==
    <>[](\/ cancelled \/ Crowded
         \/ \A c \in Client : Live(conns[c]) = {k \in up : c \in air[k]})

(* A cancelled provider reports that it stopped, for good.                  *)
Stops == <>[](cancelled => providers[WiFi].status = "stopped")
=============================================================================
