--------------------------- MODULE WiredProvider ---------------------------
(***************************************************************************)
(* The wired provider (internal/providers/wired) beside the Wi-Fi one, on  *)
(* one engine (internal/providers): the mirror of the Wi-Fi associations,  *)
(* which tells the wired provider whom to leave out; the gate that holds   *)
(* the wired provider back at startup; its sweeps of ARP probes; and the   *)
(* kernel's neighbour events.  The Wi-Fi provider appears by what it may   *)
(* hand to its sink, see UbusProvider for how it comes to it.              *)
(*                                                                         *)
(* The mirror and the engine have a lock each: the mirror follows after    *)
(* the engine has accepted a snapshot, and the wired provider asks the     *)
(* mirror before it calls the engine.                                      *)
(***************************************************************************)
EXTENDS Engine, Sequences

CONSTANTS
    Lan,            \* Config.Interface, the one source of this provider
    Leased,         \* the clients in the DHCP lease file
    NeighborQueue,  \* capacity of the channel of neighbour events
    MaxFaults       \* bound: commands and files that fail

ASSUME WiredAssumption ==
    /\ WiFiSource # {} /\ WiredSource = {Lan} /\ Leased \subseteq Client
    /\ "wired.reachable" \in AppliedKinds
    /\ NeighborQueue \in Nat /\ MaxFaults \in Nat

VARIABLES
    reachable,       \* the clients that answer on the LAN
    faults,          \* failures the environment has left
    cancelled,       \* the context is cancelled
    mirror,          \* wifiAssociations.connections, by source
    wifi,            \* what the goroutine of the Wi-Fi provider is doing
    ready,           \* wifiAssociations.ready is closed
    eventsReliable,  \* Run: neighbour events may be used
    neighbors,       \* the neighbour events in the channel and, last, the one the
                     \* listener has in hand
    task             \* what the goroutine of Run is doing

lanVars == <<reachable, faults, cancelled>>
wifiVars == <<mirror, wifi, ready>>
runVars == <<eventsReliable, neighbors, task>>
wiredVars == <<vars, lanVars, wifiVars, runVars>>

-----------------------------------------------------------------------------
\* An event is fresh while no sweep has completed after it.
NeighborEvent == [client : Client, fresh : BOOLEAN]
Sweep ==
    [at : {"sweep"}, leases : SUBSET Client, todo : SUBSET Client,
     replies : SUBSET Client, clients : SUBSET Client, admitted : SUBSET Client]
Task ==
    [at : {"gated", "start", "poll", "idle", "healthy", "fail", "stopped"}]
        \cup [at : {"publish"}, client : Client] \cup Sweep
Stations == [WiFiSource -> SUBSET Client]

(* The type invariant of the two providers, with the limit of the queue.    *)
WiredTypeOK ==
    /\ reachable \subseteq Client
    /\ faults \in 0..MaxFaults /\ cancelled \in BOOLEAN
    /\ mirror \in Stations
    /\ wifi \in [at : {"idle", "healthy", "fail"}]
                  \cup [at : {"mirror"}, stations : Stations, full : BOOLEAN]
    /\ ready \in BOOLEAN /\ eventsReliable \in BOOLEAN
    /\ neighbors \in Seq(NeighborEvent) /\ Len(neighbors) <= NeighborQueue + 1
    /\ task \in Task

At(t) == [at |-> t]

WiredInit ==
    /\ Init
    /\ reachable \in SUBSET Client /\ faults = MaxFaults /\ cancelled = FALSE
    /\ mirror = [k \in WiFiSource |-> {}] /\ wifi = At("idle") /\ ready = FALSE
    /\ eventsReliable = FALSE /\ neighbors = <<>>
    /\ task = At("gated")

Publish(status) ==
    \E r \in Reports(Wired) : r.status = status /\ SetProvider(Wired, r)

-----------------------------------------------------------------------------
(***************************************************************************)
(* The Wi-Fi side: wifiAssociations forwards a call to the engine and, if  *)
(* it was accepted, brings the mirror up to date in a step of its own.     *)
(* The first refresh of the Wi-Fi provider ends in a snapshot of all its   *)
(* sources or in an "unavailable" report, and either makes the mirror      *)
(* ready: nothing else is forwarded before.                                *)
(***************************************************************************)
ApplySnapshot(stations) ==
    /\ wifi = At("idle")
    /\ \/ /\ Reconcile(WiFi, stations)
          /\ wifi' = [at |-> "mirror", stations |-> stations, full |-> TRUE]
       \/ /\ RefuseSnapshot(WiFi, Wanted(WiFiSource, stations))
          /\ wifi' = At("fail")
    /\ UNCHANGED <<lanVars, mirror, ready, runVars>>

\* Seeded fault: clients that left are taken off, new ones are not put on.
FaultyMirrorOf(k, ids) == [mirror EXCEPT ![k] = @ \cap ids]

MirrorOf(k, ids) == [mirror EXCEPT ![k] = ids]

ApplySourceSnapshot(k, ids) ==
    /\ wifi = At("idle") /\ ready
    /\ \/ /\ ReconcileSource(k, ids)
          /\ wifi' = [at |-> "mirror", stations |-> MirrorOf(k, ids), full |-> FALSE]
       \/ /\ RefuseSnapshot(WiFi, ids)
          /\ wifi' = At("fail")
    /\ UNCHANGED <<lanVars, mirror, ready, runVars>>

\* Only a snapshot of all the sources opens the gate.
updateMirror ==
    /\ wifi.at = "mirror"
    /\ mirror' = wifi.stations
    /\ ready' = (ready \/ wifi.full)
    /\ wifi' = At("healthy")
    /\ UNCHANGED <<vars, lanVars, runVars>>

\* What Run reports, after a snapshot and at other times.
WiFiReports ==
    {r \in Reports(WiFi) :
        \/ wifi = At("healthy") /\ r.status = "healthy"
        \/ wifi = At("fail") /\ r.status = "unavailable"
        \/ /\ wifi = At("idle")
           /\ r.status = "healthy" => providers[WiFi].snap
           /\ r.status = "stopped" => cancelled}

SetProviderStatus(r) ==
    /\ r \in WiFiReports
    /\ SetProvider(WiFi, r)
    /\ wifi' = At("idle")
    /\ ready' = (ready \/ r.status = "unavailable")
    /\ UNCHANGED <<lanVars, mirror, runVars>>

\* Seeded fault: the wired provider is not told whom to leave out.
FaultyContains(c) == FALSE

Contains(c) == \E k \in WiFiSource : c \in mirror[k]

-----------------------------------------------------------------------------
(* Run of the wired provider, behind its gate.                             *)

SameRun == UNCHANGED <<eventsReliable, neighbors>>

openGate ==
    /\ task = At("gated")
    /\ \/ ready /\ task' = At("start")
       \/ cancelled /\ task' = At("stopped")
    /\ UNCHANGED <<vars, lanVars, wifiVars>> /\ SameRun

start ==
    /\ task = At("start")
    /\ Publish("initializing")
    /\ task' = At("poll")
    /\ UNCHANGED <<lanVars, wifiVars>> /\ SameRun

\* poll failed: the engine is told, and neighbour events are not used.
fail ==
    /\ task = At("fail")
    /\ Publish("unavailable")
    /\ eventsReliable' = FALSE
    /\ task' = At("idle")
    /\ UNCHANGED <<lanVars, wifiVars, neighbors>>

\* The lease file cannot be read.
leasesFail ==
    /\ task = At("poll")
    /\ faults > 0 /\ faults' = faults - 1
    /\ task' = At("fail")
    /\ UNCHANGED <<vars, reachable, cancelled, wifiVars>> /\ SameRun

\* parseLeases, with the limit it shares with the engine.
leases ==
    /\ task = At("poll")
    /\ IF Cardinality(Leased) > MaxClients
         THEN task' = At("fail")
         ELSE task' = [at |-> "sweep", leases |-> Leased, todo |-> {},
                       replies |-> {}, clients |-> {}, admitted |-> {}]
    /\ UNCHANGED <<vars, lanVars, wifiVars>> /\ SameRun

\* The first look at the mirror, for one lease at a time.
filter(c) ==
    /\ task.at = "sweep" /\ c \in task.leases
    /\ task' = [task EXCEPT !.leases = @ \ {c},
                            !.todo = IF Contains(c) THEN @ ELSE @ \cup {c}]
    /\ UNCHANGED <<vars, lanVars, wifiVars>> /\ SameRun

\* No probe is sent before all leases are looked at.
Probed(c) == task.at = "sweep" /\ task.leases = {} /\ c \in task.todo

\* One probe is answered.
probeAnswered(c) ==
    /\ Probed(c) /\ c \in reachable /\ ~cancelled
    /\ task' = [task EXCEPT !.todo = @ \ {c}, !.replies = @ \cup {c}]
    /\ UNCHANGED <<vars, lanVars, wifiVars>> /\ SameRun

\* Seeded fault: a probe that times out counts as answered.
FaultyProbeUnanswered(c) ==
    /\ Probed(c) /\ c \notin reachable
    /\ task' = [task EXCEPT !.todo = @ \ {c}, !.replies = @ \cup {c}]
    /\ UNCHANGED <<vars, lanVars, wifiVars>> /\ SameRun

\* One probe times out.  A probe whose command could not run or was killed
\* with the context counts as one that was not answered.
probeUnanswered(c) ==
    /\ Probed(c)
    /\ \/ /\ c \notin reachable \/ cancelled
          /\ UNCHANGED faults
       \/ faults > 0 /\ faults' = faults - 1
    /\ task' = [task EXCEPT !.todo = @ \ {c}]
    /\ UNCHANGED <<vars, reachable, cancelled, wifiVars>> /\ SameRun

\* Seeded fault: only the clients on Wi-Fi are admitted.
FaultyAdmit(c) == Contains(c)

\* The second look at the mirror, when the answer is handled.
Admit(c) == ~Contains(c)

handleReply(c) ==
    /\ task.at = "sweep" /\ c \in task.replies /\ task.admitted = {}
    /\ task' = [task EXCEPT !.replies = @ \ {c},
                            !.clients = IF Admit(c) THEN @ \cup {c} ELSE @,
                            !.admitted = IF Admit(c) THEN {c} ELSE {}]
    /\ UNCHANGED <<vars, lanVars, wifiVars>> /\ SameRun

\* Seeded fault: an answer is admitted although the engine refused it.
FaultyPublishReachable ==
    /\ task.at = "sweep"
    /\ \E c \in task.admitted :
        /\ Associate(Lan, c) \/ RefuseObservation(c)
        /\ task' = [task EXCEPT !.admitted = {}]
    /\ UNCHANGED <<lanVars, wifiVars>> /\ SameRun

publishReachable ==
    /\ task.at = "sweep"
    /\ \E c \in task.admitted :
        \/ Associate(Lan, c) /\ task' = [task EXCEPT !.admitted = {}]
        \/ RefuseObservation(c) /\ task' = At("fail")
    /\ UNCHANGED <<lanVars, wifiVars>> /\ SameRun

Outdated == [i \in 1..Len(neighbors) |-> [neighbors[i] EXCEPT !.fresh = FALSE]]

SweepDone ==
    /\ task.at = "sweep"
    /\ task.leases = {} /\ task.todo = {} /\ task.replies = {} /\ task.admitted = {}

\* The sweep is complete: what it did not admit is gone from the LAN.  The
\* engine has room for it, see SweepFits.
applySweep ==
    /\ SweepDone
    /\ Reconcile(Wired, [k \in WiredSource |-> task.clients])
    /\ task' = At("healthy")
    /\ eventsReliable' = TRUE
    /\ neighbors' = Outdated
    /\ UNCHANGED <<lanVars, wifiVars>>

healthy ==
    /\ task = At("healthy")
    /\ Publish("healthy")
    /\ task' = At("idle")
    /\ UNCHANGED <<lanVars, wifiVars>> /\ SameRun

tick ==
    /\ task = At("idle")
    /\ task' = At("poll")
    /\ UNCHANGED <<vars, lanVars, wifiVars>> /\ SameRun

acceptNeighborEvent(e) == eventsReliable /\ e.fresh

takeNeighbor ==
    /\ task = At("idle") /\ neighbors # <<>>
    /\ LET e == Head(neighbors)
       IN  task' = IF acceptNeighborEvent(e) /\ ~Contains(e.client)
                     THEN [at |-> "publish", client |-> e.client] ELSE task
    /\ neighbors' = Tail(neighbors)
    /\ UNCHANGED <<vars, lanVars, wifiVars, eventsReliable>>

publishNeighbor ==
    /\ task.at = "publish"
    /\ Associate(Lan, task.client) \/ RefuseObservation(task.client)
    /\ task' = At("idle")
    /\ UNCHANGED <<lanVars, wifiVars>> /\ SameRun

stop ==
    /\ task = At("idle") /\ cancelled
    /\ Publish("stopped")
    /\ task' = At("stopped")
    /\ UNCHANGED <<lanVars, wifiVars>> /\ SameRun

-----------------------------------------------------------------------------
(* The kernel, the clients and the context (external).                     *)

\* The listener stamps an event and blocks with it on a full queue; the
\* kernel's further events are then lost.
listenNeighbor(c) ==
    /\ task # At("gated") /\ ~cancelled
    /\ c \in reachable
    /\ Len(neighbors) <= NeighborQueue
    /\ neighbors' = Append(neighbors, [client |-> c, fresh |-> TRUE])
    /\ UNCHANGED <<vars, lanVars, wifiVars, eventsReliable, task>>

Move(c) ==
    /\ reachable' = IF c \in reachable THEN reachable \ {c} ELSE reachable \cup {c}
    /\ UNCHANGED <<vars, faults, cancelled, wifiVars, runVars>>

Cancel ==
    /\ ~cancelled
    /\ cancelled' = TRUE
    /\ UNCHANGED <<vars, reachable, faults, wifiVars, runVars>>

-----------------------------------------------------------------------------
WiFiSide ==
    \/ \E stations \in Stations : ApplySnapshot(stations)
    \/ \E k \in WiFiSource, ids \in SUBSET Client : ApplySourceSnapshot(k, ids)
    \/ \E r \in Report : SetProviderStatus(r)
    \/ updateMirror

Run ==
    \/ openGate \/ start \/ fail \/ leasesFail \/ leases
    \/ (\E c \in Client :
          filter(c) \/ probeAnswered(c) \/ probeUnanswered(c) \/ handleReply(c))
    \/ publishReachable \/ applySweep \/ healthy \/ publishNeighbor

Select == tick \/ takeNeighbor \/ stop

Environment ==
    (\E c \in Client : listenNeighbor(c) \/ Move(c)) \/ Cancel

Background == (sweepPending \/ Tick) /\ UNCHANGED <<lanVars, wifiVars, runVars>>

WiredNext == WiFiSide \/ Run \/ Select \/ Environment \/ Background

(***************************************************************************)
(* Fairness: each goroutine gets on with its task, as every command has a  *)
(* timeout; the select of Run picks at random among what is ready; and the *)
(* Wi-Fi provider goes on polling, each poll ending in a snapshot or in an *)
(* "unavailable" report.                                                   *)
(***************************************************************************)
WiFiPoll ==
    \/ \E stations \in Stations : ApplySnapshot(stations)
    \/ \E r \in Report :
         /\ wifi = At("idle") => r.status \in {"initializing", "unavailable"}
         /\ SetProviderStatus(r)
    \/ updateMirror

WiredFairness ==
    /\ WF_wiredVars(Run) /\ WF_wiredVars(WiFiPoll)
    /\ SF_wiredVars(tick) /\ SF_wiredVars(stop) /\ SF_wiredVars(takeNeighbor)
    /\ WF_wiredVars(Background)

WiredSpec == WiredInit /\ [][WiredNext]_wiredVars /\ WiredFairness

-----------------------------------------------------------------------------
(* Properties.                                                             *)

OnLan(c) == Lan \in Live(conns[c])
Associated(c) == \E k \in WiFiSource : c \in mirror[k]

(* Without grace, a client that the engine has live on a radio is one the   *)
(* mirror leaves out of the probes, but for the moment between the two      *)
(* locks: events, snapshots, refusals and outages keep the two in step.     *)
WiFiExcluded ==
    wifi.at # "mirror" =>
        \A c \in Client : Live(conns[c]) \cap WiFiSource # {} => Associated(c)

(* The engine never refuses a completed sweep: each client of it was        *)
(* admitted when its probe was answered, and is still there.                *)
SweepFits == SweepDone => Fits(task.clients)

(* A client that stays associated does not stay live on the LAN as well,    *)
(* although an answer or an event may race its association.                 *)
ExclusionSettles ==
    \A c \in Client :
        []~cancelled /\ <>[]Associated(c) => <>[]~OnLan(c)

(* A leased client that stays reachable on the LAN, and off the radios,     *)
(* becomes and stays present there: an event dropped for being older than   *)
(* the last sweep is made up for by the next.                               *)
WiredArrivalNoticed ==
    \A c \in Leased :
        []~cancelled /\ <>[](c \in reachable /\ ~Associated(c)) => <>[]OnLan(c)

(* A client that stays unreachable does not stay live on the LAN.           *)
WiredDepartureNoticed ==
    \A c \in Client :
        []~cancelled /\ <>[](c \notin reachable) => <>[]~OnLan(c)

(* Wi-Fi that is unavailable does not block Ethernet: a leased client that  *)
(* stays reachable on the LAN becomes present there.                        *)
OutageSparesWired ==
    \A c \in Leased :
        []~cancelled
          /\ <>[](c \in reachable /\ providers[WiFi].status = "unavailable")
            => <>OnLan(c)
=============================================================================
