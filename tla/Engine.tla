------------------------------- MODULE Engine -------------------------------
(***************************************************************************)
(* The presence state engine (internal/engine/engine.go): the map of known *)
(* clients with their connections and derived presence, the reconnection-  *)
(* grace holds with their sweeper, the registered providers, and the       *)
(* events each operation emits.  Every operation runs under the engine's   *)
(* mutex, so one operation is one action.                                  *)
(*                                                                         *)
(* Time is relative: a hold counts down to its deadline, a client counts   *)
(* up from its LastSeenAt, and Tick is one unit of either.  Observations   *)
(* carry the time at which they are applied.                               *)
(***************************************************************************)
EXTENDS Integers, FiniteSets

CONSTANTS
    Client,        \* client identifiers
    WiFiSource,    \* source instances (BSSs) of the Wi-Fi provider
    WiredSource,   \* source instances (LAN interfaces) of the wired provider
    MaxClients,    \* Limits.MaxClients
    Grace,         \* Limits.ReconnectGrace in ticks; 0 turns grace off
    MaxAge,        \* bound: ages beyond it are not told apart
    AppliedKinds,  \* observation kinds the providers hand to Apply
    Failure,       \* error texts an unavailable provider may report
    None           \* no hold, no error

WiFi  == "ubus-hostapd"
Wired == "wired-arp"
Provider == {WiFi, Wired}
Conns == WiFiSource \cup WiredSource
ConnsOf(p) == IF p = WiFi THEN WiFiSource ELSE WiredSource
ProviderOf(k) == IF k \in WiFiSource THEN WiFi ELSE Wired

\* A provider without sources is left out of an instance.
Running == {p \in Provider : ConnsOf(p) # {}}

ASSUME SourceAssumption == WiFiSource \cap WiredSource = {}
ASSUME ClientAssumption == IsFiniteSet(Client)
ASSUME LimitAssumption == MaxClients \in Nat \ {0}
ASSUME TimeAssumption == Grace \in Nat /\ MaxAge \in Nat
ASSUME NoneAssumption ==
    /\ None \notin [conn : Conns, left : 0..Grace]
    /\ None \notin Conns

VARIABLES
    state,      \* presence of each client; "none": not in e.clients
    conns,      \* what each client holds on each source
    age,        \* time since each client's LastSeenAt, saturating at MaxAge
    pending,    \* the reconnection-grace hold of each client, or None
    providers,  \* the last report of each provider
    emitted,    \* the events emitted by the last operation
    evidence    \* history: whom each source last reported (not in the code)

vars == <<state, conns, age, pending, providers, emitted, evidence>>

-----------------------------------------------------------------------------
(* Types.                                                                  *)

Presence == {"none", "present", "absent", "unknown"}
Link == {"none", "live", "stale"}
Hold == [conn : Conns, left : 0..Grace]
Status == {"unregistered", "initializing", "healthy", "unavailable", "stopped"}
Report == [status : Status, err : Failure \cup {None}, snap : BOOLEAN]
ClientEventType ==
    {"client.presence_changed", "client.updated", "client.removed"}
Event ==
    [type : ClientEventType, about : Client]
        \cup [type : {"provider.status", "state.resynchronized"},
              about : Provider]

(* The type invariant of the engine. *)
TypeOK ==
    /\ state \in [Client -> Presence]
    /\ conns \in [Client -> [Conns -> Link]]
    /\ age \in [Client -> 0..MaxAge]
    /\ pending \in [Client -> Hold \cup {None}]
    /\ providers \in [Provider -> Report]
    /\ emitted \in SUBSET Event
    /\ evidence \in [Conns -> SUBSET Client]

-----------------------------------------------------------------------------
(* Helpers of the engine.                                                  *)

Listed == {c \in Client : state[c] # "none"}
Live(cs) == {k \in Conns : cs[k] = "live"}
Linked(cs) == {k \in Conns : cs[k] # "none"}
NoConns == [k \in Conns |-> "none"]

\* Seeded fault: a stale connection still counts as presence.
FaultyReducedState(cs, empty) == IF Linked(cs) # {} THEN "present" ELSE empty

reducedState(cs, empty) ==
    IF Live(cs) # {} THEN "present"
    ELSE IF Linked(cs) # {} THEN "unknown" ELSE empty

\* Seeded fault: a departure without a snapshot makes the client absent.
FaultyDepartedState(cs) == reducedState(cs, "absent")

\* The presence a removed connection leaves, without a snapshot.
DepartedState(cs) == reducedState(cs, "unknown")

\* Seeded fault: the other connections are not looked at.
FaultyIsLastNonStale(cs, k) == TRUE

isLastNonStale(cs, k) == Live(cs) \subseteq {k}

isWiFiProvider(p) == providers[p].status # "unregistered" /\ p = WiFi

\* Seeded fault: a repeated loss starts the window anew.
FaultyEnsurePending(c, k) == [conn |-> k, left |-> Grace]

\* Seeded fault: the window is one tick too long.
LongEnsurePending(c, k) ==
    IF pending[c] # None THEN pending[c] ELSE [conn |-> k, left |-> Grace + 1]

ensurePending(c, k) ==
    IF pending[c] # None THEN pending[c] ELSE [conn |-> k, left |-> Grace]

ClientEvent(type, S) == {[type |-> type, about |-> c] : c \in S}

(***************************************************************************)
(* The retention limit.  evictOldestNonPresentLocked removes the oldest    *)
(* absent client without connections, else the oldest unknown one; clients *)
(* with equal times are taken in map order, which is arbitrary.  A batch   *)
(* that needs room for the clients W evicts until they fit or until no     *)
(* candidate outside W is left.                                            *)
(***************************************************************************)
\* Seeded fault: whoever is not absent may be evicted.
FaultyRank(c) == IF state[c] = "absent" THEN 1 ELSE 2

Rank(c) ==
    IF state[c] = "absent" /\ Linked(conns[c]) = {} THEN 1
    ELSE IF state[c] = "unknown" /\ Live(conns[c]) = {} THEN 2 ELSE 0

Evictable(W) == {c \in Listed \ W : Rank(c) # 0}

EvictedBefore(c, d) ==
    \/ Rank(c) < Rank(d)
    \/ Rank(c) = Rank(d) /\ age[c] > age[d]

\* Seeded fault: the limit is off by one.
FaultyExcess(W) ==
    LET n == Cardinality(Listed \cup W)
    IN  IF n > MaxClients + 1 THEN n - MaxClients - 1 ELSE 0

Excess(W) ==
    LET n == Cardinality(Listed \cup W)
    IN  IF n > MaxClients THEN n - MaxClients ELSE 0

evictOldestNonPresent(n, W) ==
    {E \in SUBSET Evictable(W) :
        /\ Cardinality(E) = n
        /\ \A c \in E, d \in Evictable(W) \ E : ~EvictedBefore(d, c)}

Fits(W) == Cardinality(Evictable(W)) >= Excess(W)

-----------------------------------------------------------------------------
(* What a step does to the clients, given the connections cs and the       *)
(* presences st it leaves.                                                 *)

\* Seeded fault: a change to unknown is not taken for a change of presence.
FaultyPresenceChanged(S, st) == {c \in S : st[c] \notin {state[c], "unknown"}}

PresenceChanged(S, st) == {c \in S : st[c] # state[c]}

ClientEvents(S, st) ==
    ClientEvent("client.presence_changed", PresenceChanged(S, st))
        \cup ClientEvent("client.updated", S \ PresenceChanged(S, st))

Forgotten(E) == [c \in Client |-> IF c \in E THEN NoConns ELSE conns[c]]

Unlist(E) == [c \in Client |-> IF c \in E THEN "none" ELSE state[c]]

ClearHolds(S) == [c \in Client |-> IF c \in S THEN None ELSE pending[c]]

Aged(S) == [c \in Client |-> IF c \in S THEN 0 ELSE age[c]]

-----------------------------------------------------------------------------
Init ==
    /\ state = [c \in Client |-> "none"]
    /\ conns = [c \in Client |-> NoConns]
    /\ age = [c \in Client |-> 0]
    /\ pending = [c \in Client |-> None]
    /\ providers =
        [p \in Provider |-> [status |-> "unregistered", err |-> None, snap |-> FALSE]]
    /\ emitted = {}
    /\ evidence = [k \in Conns |-> {}]

\* A provider reports "initializing" before it observes anything and observes
\* nothing after "stopped".
Observing(p) == providers[p].status \notin {"unregistered", "stopped"}

(***************************************************************************)
(* Associate: one client seen on one source.                               *)
(***************************************************************************)
Associate(k, c) ==
    /\ Fits({c})
    /\ \E E \in evictOldestNonPresent(Excess({c}), {c}) :
        /\ conns' = [Forgotten(E) EXCEPT ![c] = [conns[c] EXCEPT ![k] = "live"]]
        /\ state' = [Unlist(E) EXCEPT ![c] = "present"]
        /\ age' = Aged(E \cup {c})
        /\ pending' = ClearHolds(E \cup {c})
        /\ emitted' =
             ClientEvent("client.removed", E)
               \cup (IF state[c] = "present" /\ conns[c][k] # "none"
                       THEN {} ELSE ClientEvents({c}, state'))
    /\ evidence' = [evidence EXCEPT ![k] = @ \cup {c}]
    /\ UNCHANGED providers

(***************************************************************************)
(* Disassociate: one client gone from one source.  With grace on, the last *)
(* live connection of a present client is held instead of removed.         *)
(***************************************************************************)
HoldsOnDisassociate(k, c) ==
    Grace > 0 /\ state[c] = "present" /\ isLastNonStale(conns[c], k)

IgnoreDisassociate(k, c) ==
    /\ conns[c][k] = "none"
    /\ emitted' = {}
    /\ UNCHANGED <<state, conns, age, pending>>

HoldConn(k, c) ==
    /\ conns[c][k] # "none" /\ HoldsOnDisassociate(k, c)
    /\ pending' = [pending EXCEPT ![c] = ensurePending(c, k)]
    /\ emitted' = {}
    /\ UNCHANGED <<state, conns, age>>

RemoveConn(k, c) ==
    /\ conns[c][k] # "none" /\ ~HoldsOnDisassociate(k, c)
    /\ conns' = [conns EXCEPT ![c] = [@ EXCEPT ![k] = "none"]]
    /\ state' = [state EXCEPT ![c] = DepartedState(conns'[c])]
    /\ age' = Aged({c})
    /\ emitted' = ClientEvents({c}, state')
    /\ UNCHANGED pending

Disassociate(k, c) ==
    /\ IgnoreDisassociate(k, c) \/ HoldConn(k, c) \/ RemoveConn(k, c)
    /\ evidence' = [evidence EXCEPT ![k] = @ \ {c}]
    /\ UNCHANGED providers

\* An observation that finds no room is refused: nothing could be evicted.
RefuseObservation(c) ==
    /\ ~Fits({c})
    /\ emitted' = {}
    /\ UNCHANGED <<state, conns, age, pending, providers, evidence>>

(***************************************************************************)
(* Apply: one observation of a provider, dispatched on its kind.           *)
(***************************************************************************)
KindSeenOn(k) == IF k \in WiFiSource THEN "wifi.associated" ELSE "wired.reachable"

Apply(k, c) ==
    /\ Observing(ProviderOf(k))
    /\ \/ /\ KindSeenOn(k) \in AppliedKinds
          /\ Associate(k, c) \/ RefuseObservation(c)
       \/ /\ k \in WiFiSource /\ "wifi.disassociated" \in AppliedKinds
          /\ Disassociate(k, c)

-----------------------------------------------------------------------------
(***************************************************************************)
(* Snapshots.  A snapshot replaces what the sources K hold by what         *)
(* stations says of them.  With grace on, a present client whose live      *)
(* connections the snapshot would all remove keeps one of them under a     *)
(* hold: the one the loop over the connection map meets last, so any.      *)
(***************************************************************************)
Wanted(K, stations) == UNION {stations[k] : k \in K}

\* Seeded fault: only stale connections are removed.
FaultyUnwanted(K, stations, c) ==
    {k \in K : conns[c][k] = "stale" /\ c \notin stations[k]}

Unwanted(K, stations, c) ==
    {k \in K : conns[c][k] # "none" /\ c \notin stations[k]}

HoldsOnSnapshot(p, K, stations, c) ==
    /\ Grace > 0 /\ isWiFiProvider(p) /\ state[c] = "present"
    /\ Live(conns[c]) \subseteq Unwanted(K, stations, c)

KeptChoices(p, K, stations) ==
    {kept \in [Client -> K \cup {None}] :
        \A c \in Client : IF HoldsOnSnapshot(p, K, stations, c)
                            THEN kept[c] \in Live(conns[c])
                            ELSE kept[c] = None}

MergedConns(K, stations, kept, E) ==
    [c \in Client |-> [k \in Conns |->
        IF c \in E \/ k \in Unwanted(K, stations, c) \ {kept[c]} THEN "none"
        ELSE IF k \in K /\ c \in stations[k] THEN "live" ELSE conns[c][k]]]

MergedHolds(W, kept, E) ==
    [c \in Client |->
        IF c \in W \cup E THEN None
        ELSE IF kept[c] # None THEN ensurePending(c, kept[c]) ELSE pending[c]]

\* Clients that gained or lost a connection.
Relinked(cs) == {c \in Client : Linked(cs[c]) # Linked(conns[c])}

MergedEvidence(K, stations) ==
    [k \in Conns |-> IF k \in K THEN stations[k] ELSE evidence[k]]

Resynchronized(p) == [type |-> "state.resynchronized", about |-> p]

(***************************************************************************)
(* Reconcile: the snapshot of all the sources of a provider.  It derives   *)
(* the presence of every client anew, and tells of the ones it relinked.   *)
(***************************************************************************)
Reconcile(p, stations) ==
    LET K == ConnsOf(p)
        W == Wanted(K, stations)
    IN  /\ Observing(p)
        /\ Fits(W)
        /\ \E E \in evictOldestNonPresent(Excess(W), W),
              kept \in KeptChoices(p, K, stations) :
            LET L == (Listed \ E) \cup W
            IN  /\ conns' = MergedConns(K, stations, kept, E)
                /\ pending' = MergedHolds(W, kept, E)
                /\ state' = [c \in Client |->
                     IF c \in L THEN reducedState(conns'[c], "absent") ELSE "none"]
                /\ age' = Aged(PresenceChanged(Client, state'))
                /\ emitted' =
                     ClientEvent("client.removed", E)
                       \cup ClientEvents(PresenceChanged(L, state')
                                           \cup (Relinked(conns') \cap L), state')
                       \cup {Resynchronized(p)}
        /\ evidence' = MergedEvidence(K, stations)
        /\ UNCHANGED providers

(***************************************************************************)
(* ReconcileSource: the snapshot of one source.  It derives the presence   *)
(* of the clients it relinked or refreshed, and tells of each.             *)
(***************************************************************************)
ReconcileSource(k, ids) ==
    LET p == ProviderOf(k)
        stations == [j \in {k} |-> ids]
    IN  /\ Observing(p)
        /\ Fits(ids)
        /\ \E E \in evictOldestNonPresent(Excess(ids), ids),
              kept \in KeptChoices(p, {k}, stations) :
            /\ conns' = MergedConns({k}, stations, kept, E)
            /\ pending' = MergedHolds(ids, kept, E)
            /\ LET affected == {c \in Client \ E : conns'[c] # conns[c]}
               IN  /\ state' = [c \in Client |->
                        IF c \in affected THEN reducedState(conns'[c], "absent")
                                          ELSE Unlist(E)[c]]
                   /\ age' = Aged(PresenceChanged(Client, state'))
                   /\ emitted' = ClientEvent("client.removed", E)
                                   \cup ClientEvents(affected, state')
                                   \cup {Resynchronized(p)}
        /\ evidence' = MergedEvidence({k}, stations)
        /\ UNCHANGED providers

(***************************************************************************)
(* A snapshot of the clients W that does not fit is refused, after every   *)
(* client that could be evicted has been.                                  *)
(***************************************************************************)
RefuseSnapshot(p, W) ==
    LET E == Evictable(W)
    IN  /\ Observing(p)
        /\ ~Fits(W)
        /\ conns' = Forgotten(E)
        /\ state' = Unlist(E)
        /\ age' = Aged(E)
        /\ pending' = ClearHolds(E)
        /\ emitted' = ClientEvent("client.removed", E)
        /\ UNCHANGED <<providers, evidence>>

-----------------------------------------------------------------------------
(***************************************************************************)
(* SetProvider: a status report.  An outage makes what the provider had    *)
(* reported stale, at once and whatever hold there is.                     *)
(***************************************************************************)
ProviderEvent(p, r) ==
    IF \/ providers[p].status = "unregistered"
       \/ providers[p].status # r.status
       \/ providers[p].err # r.err
    THEN {[type |-> "provider.status", about |-> p]}
    ELSE {}

LosesLive(p) == {c \in Client : Live(conns[c]) \cap ConnsOf(p) # {}}

StaleConns(p) ==
    [c \in Client |-> [k \in Conns |->
        IF k \in ConnsOf(p) /\ conns[c][k] = "live" THEN "stale" ELSE conns[c][k]]]

MarkUnavailable(p, r) ==
    /\ conns' = StaleConns(p)
    /\ pending' = ClearHolds(LosesLive(p))
    /\ state' = [c \in Client |->
         IF c \in LosesLive(p) THEN reducedState(conns'[c], "unknown") ELSE state[c]]
    /\ emitted' = ProviderEvent(p, r) \cup ClientEvents(LosesLive(p), state')

SetProvider(p, r) ==
    /\ providers' = [providers EXCEPT ![p] = r]
    /\ \/ r.status = "unavailable" /\ MarkUnavailable(p, r)
       \/ /\ r.status # "unavailable"
          /\ emitted' = ProviderEvent(p, r)
          /\ UNCHANGED <<state, conns, pending>>
    /\ UNCHANGED <<age, evidence>>

(***************************************************************************)
(* The reports the providers make: "initializing" first, then "healthy"    *)
(* with a snapshot time, "unavailable" with an error, and at last          *)
(* "stopped".  The wired provider forgets its snapshot time on the last    *)
(* two, the Wi-Fi provider keeps it.                                       *)
(***************************************************************************)
\* Seeded fault: a failure is reported without the time of the last snapshot.
FaultyKeptSnap(p) == FALSE

KeptSnap(p) == p = WiFi /\ providers[p].snap

Reports(p) ==
    IF providers[p].status = "unregistered"
      THEN {[status |-> "initializing", err |-> None, snap |-> FALSE]}
      ELSE {r \in Report :
              /\ Observing(p)
              /\ \/ r.status = "healthy" /\ r.err = None /\ r.snap
                 \/ r.status = "stopped" /\ r.err = None /\ r.snap = KeptSnap(p)
                 \/ /\ r.status = "unavailable"
                    /\ r.err \in Failure /\ r.snap = KeptSnap(p)}

HasAuthoritativeSnapshot(p) == providers[p].snap

-----------------------------------------------------------------------------
(***************************************************************************)
(* The sweeper ends the holds whose window has elapsed.                    *)
(***************************************************************************)
Expired == {c \in Client : pending[c] # None /\ pending[c].left = 0}

\* Seeded fault: the hold is deleted but its departure is not applied.
FaultyDeparting == {}

\* applyPendingDepartureLocked: a hold whose client or connection is gone
\* ends without a departure.
Departing == {c \in Expired : conns[c][pending[c].conn] # "none"}

DepartedConns ==
    [c \in Client |-> IF c \in Departing
                        THEN [conns[c] EXCEPT ![pending[c].conn] = "none"]
                        ELSE conns[c]]

sweepPending ==
    /\ Expired # {}
    /\ pending' = ClearHolds(Expired)
    /\ conns' = DepartedConns
    /\ state' = [c \in Client |->
         IF c \in Departing THEN DepartedState(conns'[c]) ELSE state[c]]
    /\ age' = Aged(Departing)
    /\ emitted' = ClientEvents(Departing, state')
    /\ UNCHANGED <<providers, evidence>>

Tick ==
    /\ age' = [c \in Client |->
         IF state[c] # "none" /\ age[c] < MaxAge THEN age[c] + 1 ELSE age[c]]
    /\ pending' = [c \in Client |->
         IF pending[c] # None /\ pending[c].left > 0
           THEN [pending[c] EXCEPT !.left = @ - 1] ELSE pending[c]]
    /\ emitted' = {}
    /\ UNCHANGED <<state, conns, providers, evidence>>

-----------------------------------------------------------------------------
Next ==
    \/ \E k \in Conns, c \in Client : Apply(k, c)
    \/ \E p \in Running : \E stations \in [ConnsOf(p) -> SUBSET Client] :
            \/ Reconcile(p, stations)
            \/ RefuseSnapshot(p, Wanted(ConnsOf(p), stations))
    \/ \E k \in WiFiSource, ids \in SUBSET Client :
            \/ ReconcileSource(k, ids)
            \/ RefuseSnapshot(WiFi, ids)
    \/ \E p \in Running : \E r \in Reports(p) : SetProvider(p, r)
    \/ sweepPending
    \/ Tick

Spec == Init /\ [][Next]_vars

(***************************************************************************)
(* Fairness: time passes, the sweeper's ticker fires, and a provider that  *)
(* has not stopped keeps polling, each poll ending in a snapshot the       *)
(* engine accepts or in an "unavailable" report.                           *)
(***************************************************************************)
Poll(p) ==
    \/ \E stations \in [ConnsOf(p) -> SUBSET Client] : Reconcile(p, stations)
    \/ /\ Observing(p)
       /\ \E r \in Reports(p) : r.status = "unavailable" /\ SetProvider(p, r)

Fairness ==
    /\ WF_vars(Tick)
    /\ WF_vars(sweepPending)
    /\ \A p \in Provider : WF_vars(Poll(p))

FairSpec == Spec /\ Fairness

-----------------------------------------------------------------------------
(* Properties.                                                             *)

(* Presence is exactly what the connections say, whatever operations led to *)
(* them: a client is present iff it has a live connection, and one that is  *)
(* absent or not listed has no connection at all (reducedState is applied   *)
(* by six operations, each to its own choice of clients).                   *)
PresenceIsEvidence ==
    \A c \in Client :
        /\ state[c] = "present" <=> Live(conns[c]) # {}
        /\ state[c] \in {"none", "absent"} => Linked(conns[c]) = {}

(* A reconnection-grace hold is always on the client's only live            *)
(* connection, a Wi-Fi one: so its expiry does end the client's presence,   *)
(* and a hold never outlives a provider outage, a reconnection or its       *)
(* client's eviction.                                                       *)
HoldIsSoleLive ==
    \A c \in Client : pending[c] # None =>
        /\ pending[c].conn \in WiFiSource
        /\ Live(conns[c]) = {pending[c].conn}

(* The engine never keeps more clients than Limits.MaxClients.              *)
CapacityRespected == Cardinality(Listed) <= MaxClients

(* Without grace, a live connection is one its source reported last: no     *)
(* sequence of events, snapshots, outages and evictions leaves a client     *)
(* connected where the latest word of that source does not have it.         *)
EvidenceBacked ==
    \A c \in Client : \A k \in Live(conns[c]) : c \in evidence[k]

(* With grace, a live connection is one its source reported last or one     *)
(* under a hold that will end it.  The roaming paths break this.            *)
EvidenceBackedOrHeld ==
    \A c \in Client : \A k \in Live(conns[c]) :
        c \in evidence[k] \/ (pending[c] # None /\ pending[c].conn = k)

EventsAbout(c) == {e \in emitted' : e.type \in ClientEventType /\ e.about = c}

(* A step tells the consumers of every change of presence, exactly once and *)
(* with the right event: presence_changed for a listed client, removed for  *)
(* an evicted one, and neither for a client whose presence stays.           *)
PresenceAnnounced ==
    [][\A c \in Client :
         /\ state'[c] # state[c] =>
              EventsAbout(c) =
                ClientEvent(IF state'[c] = "none" THEN "client.removed"
                              ELSE "client.presence_changed", {c})
         /\ state'[c] = state[c] =>
              EventsAbout(c) \subseteq ClientEvent("client.updated", {c})]_vars

(* A client becomes absent only in a step that accepts an authoritative     *)
(* snapshot, and says so: lost events, expired holds and outages alone      *)
(* make it unknown.                                                         *)
AbsenceIsAuthoritative ==
    [][\A c \in Client :
         state'[c] = "absent" /\ state[c] # "absent" =>
            \E p \in Provider : Resynchronized(p) \in emitted']_vars

(* While a client stays on hold the window only shrinks: repeated losses of *)
(* the same connection never extend it.                                     *)
HoldNeverExtended ==
    [][\A c \in Client :
         pending[c] # None /\ pending'[c] # None =>
            /\ pending'[c].conn = pending[c].conn
            /\ pending'[c].left <= pending[c].left]_vars

(* The engine implements the abstract presence specification.               *)
WithinLimit(S) == Cardinality(S) <= MaxClients
Abstract == INSTANCE Presence WITH presence <- state, Admissible <- WithinLimit

(* Every step of the engine is a step the abstract specification allows, so *)
(* no client jumps from unlisted to absent, from absent to unknown, or from *)
(* present to forgotten.                                                    *)
ImplementsPresence == Abstract!Spec

(* A client that no source reports any more does not stay present for ever, *)
(* grace or not, as long as no provider stops.                              *)
DepartureIsNoticed ==
    \A c \in Client :
        <>[](/\ \A k \in Conns : c \notin evidence[k]
             /\ \A p \in Provider : providers[p].status # "stopped")
            => <>[](state[c] # "present")
=============================================================================
