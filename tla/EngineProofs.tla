---------------------------- MODULE EngineProofs ----------------------------
(***************************************************************************)
(* Proofs about the engine, for every set of clients and sources and every *)
(* limit and grace period.                                                 *)
(***************************************************************************)
EXTENDS Engine, FiniteSetTheorems, TLAPS

-----------------------------------------------------------------------------
(* Facts about the helpers.                                                *)

(* reducedState is present exactly with a live connection, and gives its    *)
(* second argument only without any connection.                            *)
LEMMA ReducedStateFacts ==
    ASSUME NEW cs \in [Conns -> Link], NEW empty \in {"absent", "unknown"}
    PROVE  /\ reducedState(cs, empty) \in {"present", "absent", "unknown"}
           /\ reducedState(cs, empty) = "present" <=> Live(cs) # {}
           /\ reducedState(cs, empty) = "absent" => Linked(cs) = {}
<1>1. Live(cs) \subseteq Linked(cs)
    BY DEF Live, Linked
<1>2. CASE Live(cs) # {}
    BY <1>1, <1>2 DEF reducedState
<1>3. CASE Live(cs) = {} /\ Linked(cs) # {}
    BY <1>3 DEF reducedState
<1>4. CASE Live(cs) = {} /\ Linked(cs) = {}
    BY <1>4 DEF reducedState
<1> QED BY <1>2, <1>3, <1>4

(* A connection map without any connection has no live one.                 *)
LEMMA NoConnsFacts ==
    /\ NoConns \in [Conns -> Link]
    /\ Live(NoConns) = {}
    /\ Linked(NoConns) = {}
BY DEF NoConns, Link, Live, Linked

(* A new hold is a hold, and an old one is kept.                            *)
LEMMA EnsurePendingFacts ==
    ASSUME TypeOK, NEW c \in Client, NEW k \in Conns
    PROVE  /\ ensurePending(c, k) \in Hold
           /\ ensurePending(c, k) # None
           /\ pending[c] # None => ensurePending(c, k) = pending[c]
           /\ pending[c] = None => ensurePending(c, k).conn = k
<1>1. pending[c] \in Hold \cup {None}
    BY DEF TypeOK
<1>2. [conn |-> k, left |-> Grace] \in Hold
    BY TimeAssumption DEF Hold
<1>3. None \notin Hold
    BY NoneAssumption DEF Hold
<1> QED BY <1>1, <1>2, <1>3 DEF ensurePending

(* The events about clients are events.                                     *)
LEMMA ClientEventsFacts ==
    ASSUME NEW S \in SUBSET Client, NEW st
    PROVE  /\ ClientEvents(S, st) \subseteq Event
           /\ ClientEvent("client.removed", S) \subseteq Event
<1>1. ASSUME NEW type \in ClientEventType, NEW T \in SUBSET Client
      PROVE  ClientEvent(type, T) \subseteq Event
    BY <1>1 DEF ClientEvent, Event
<1>2. /\ "client.presence_changed" \in ClientEventType
      /\ "client.updated" \in ClientEventType
      /\ "client.removed" \in ClientEventType
    BY DEF ClientEventType
<1>3. /\ PresenceChanged(S, st) \in SUBSET Client
      /\ S \ PresenceChanged(S, st) \in SUBSET Client
    BY DEF PresenceChanged
<1> QED BY <1>1, <1>2, <1>3 DEF ClientEvents

(* What a snapshot and a status report tell of a provider are events.       *)
LEMMA ProviderEventsFacts ==
    ASSUME NEW p \in Provider, NEW r
    PROVE  /\ Resynchronized(p) \in Event
           /\ ProviderEvent(p, r) \subseteq Event
BY DEF Resynchronized, ProviderEvent, Event

(* Clearing holds and ages keeps their types.                               *)
LEMMA ClearFacts ==
    ASSUME TypeOK, NEW S
    PROVE  /\ ClearHolds(S) \in [Client -> Hold \cup {None}]
           /\ Aged(S) \in [Client -> 0..MaxAge]
BY TimeAssumption DEF TypeOK, ClearHolds, Aged

(* Whatever a snapshot merges is a map of connections and of holds.         *)
LEMMA MergedFacts ==
    ASSUME TypeOK, NEW K \in SUBSET Conns, NEW stations \in [K -> SUBSET Client],
           NEW p \in Provider, NEW kept \in KeptChoices(p, K, stations),
           NEW E, NEW W
    PROVE  /\ MergedConns(K, stations, kept, E) \in [Client -> [Conns -> Link]]
           /\ MergedHolds(W, kept, E) \in [Client -> Hold \cup {None}]
           /\ MergedEvidence(K, stations) \in [Conns -> SUBSET Client]
<1>1. MergedConns(K, stations, kept, E) \in [Client -> [Conns -> Link]]
    BY DEF TypeOK, MergedConns, Link
<1>2. ASSUME NEW c \in Client, kept[c] # None
      PROVE  ensurePending(c, kept[c]) \in Hold
    <2>1. kept[c] \in Conns
        BY <1>2 DEF KeptChoices
    <2> QED BY <2>1, EnsurePendingFacts
<1>3. MergedHolds(W, kept, E) \in [Client -> Hold \cup {None}]
    BY <1>2 DEF TypeOK, MergedHolds
<1>4. MergedEvidence(K, stations) \in [Conns -> SUBSET Client]
    BY DEF TypeOK, MergedEvidence
<1> QED BY <1>1, <1>3, <1>4

(* The evicted clients are clients.                                         *)
LEMMA EvictionFacts ==
    ASSUME NEW n, NEW W, NEW E \in evictOldestNonPresent(n, W)
    PROVE  /\ E \in SUBSET Client
           /\ \A c \in E : c \notin W /\ state[c] \in {"absent", "unknown"}
           /\ Cardinality(E) = n
<1>1. E \subseteq Evictable(W) /\ Cardinality(E) = n
    BY DEF evictOldestNonPresent
<1>2. \A c \in Evictable(W) : c \in Client /\ c \notin W /\ Rank(c) # 0
    BY DEF Evictable, Listed
<1>3. \A c \in Evictable(W) : state[c] \in {"absent", "unknown"}
    BY <1>2 DEF Rank
<1> QED BY <1>1, <1>2, <1>3

(* Sources have a provider, and a provider's sources are sources.           *)
LEMMA SourceFacts ==
    /\ \A p \in Provider : ConnsOf(p) \in SUBSET Conns
    /\ \A k \in Conns : ProviderOf(k) \in Provider
BY DEF Provider, ConnsOf, ProviderOf, Conns

-----------------------------------------------------------------------------
(* Type correctness.                                                       *)

(* New builds a well-typed engine.                                          *)
LEMMA TypeInit == Init => TypeOK
<1> SUFFICES ASSUME Init PROVE TypeOK
    OBVIOUS
<1>1. conns \in [Client -> [Conns -> Link]]
    BY NoConnsFacts DEF Init
<1>2. age \in [Client -> 0..MaxAge]
    BY TimeAssumption DEF Init
<1>3. providers \in [Provider -> Report]
    BY DEF Init, Report, Status
<1>4. state \in [Client -> Presence] /\ pending \in [Client -> Hold \cup {None}]
    BY DEF Init, Presence
<1>5. emitted \in SUBSET Event /\ evidence \in [Conns -> SUBSET Client]
    BY DEF Init
<1> QED BY <1>1, <1>2, <1>3, <1>4, <1>5 DEF TypeOK

(* Associate keeps the types, evictions included.                           *)
LEMMA TypeAssociate ==
    ASSUME TypeOK, NEW k \in Conns, NEW c \in Client, Associate(k, c)
    PROVE  TypeOK'
<1>1. PICK E \in evictOldestNonPresent(Excess({c}), {c}) :
        /\ conns' = [Forgotten(E) EXCEPT ![c] = [conns[c] EXCEPT ![k] = "live"]]
        /\ state' = [Unlist(E) EXCEPT ![c] = "present"]
        /\ age' = Aged(E \cup {c})
        /\ pending' = ClearHolds(E \cup {c})
        /\ emitted' =
             ClientEvent("client.removed", E)
               \cup (IF state[c] = "present" /\ conns[c][k] # "none"
                       THEN {} ELSE ClientEvents({c}, state'))
    BY DEF Associate
<1>2. conns' \in [Client -> [Conns -> Link]]
    <2>1. Forgotten(E) \in [Client -> [Conns -> Link]]
        BY NoConnsFacts DEF TypeOK, Forgotten
    <2>2. [conns[c] EXCEPT ![k] = "live"] \in [Conns -> Link]
        BY DEF TypeOK, Link
    <2> QED BY <1>1, <2>1, <2>2
<1>3. state' \in [Client -> Presence]
    BY <1>1 DEF TypeOK, Unlist, Presence
<1>4. age' \in [Client -> 0..MaxAge] /\ pending' \in [Client -> Hold \cup {None}]
    BY <1>1, ClearFacts
<1>5. emitted' \in SUBSET Event
    <2>1. E \in SUBSET Client /\ {c} \in SUBSET Client
        BY EvictionFacts
    <2>2. /\ ClientEvent("client.removed", E) \subseteq Event
          /\ ClientEvents({c}, state') \subseteq Event
        BY <2>1, ClientEventsFacts
    <2> QED BY <1>1, <2>2
<1>6. providers' \in [Provider -> Report] /\ evidence' \in [Conns -> SUBSET Client]
    BY DEF Associate, TypeOK
<1> QED BY <1>2, <1>3, <1>4, <1>5, <1>6 DEF TypeOK

(* Disassociate keeps the types, whether it ignores, holds or removes.      *)
LEMMA TypeDisassociate ==
    ASSUME TypeOK, NEW k \in Conns, NEW c \in Client, Disassociate(k, c)
    PROVE  TypeOK'
<1>1. providers' \in [Provider -> Report] /\ evidence' \in [Conns -> SUBSET Client]
    BY DEF Disassociate, TypeOK
<1>2. CASE IgnoreDisassociate(k, c)
    BY <1>1, <1>2 DEF IgnoreDisassociate, TypeOK
<1>3. CASE HoldConn(k, c)
    <2>1. pending' \in [Client -> Hold \cup {None}]
        BY <1>3, EnsurePendingFacts DEF HoldConn, TypeOK
    <2> QED BY <1>1, <1>3, <2>1 DEF HoldConn, TypeOK
<1>4. CASE RemoveConn(k, c)
    <2>1. conns' \in [Client -> [Conns -> Link]]
        BY <1>4 DEF RemoveConn, TypeOK, Link
    <2>2. DepartedState(conns'[c]) \in Presence
        BY <2>1, ReducedStateFacts DEF DepartedState, Presence
    <2>3. state' \in [Client -> Presence]
        BY <1>4, <2>2 DEF RemoveConn, TypeOK
    <2>4. age' \in [Client -> 0..MaxAge]
        BY <1>4, ClearFacts DEF RemoveConn
    <2>5. emitted' \in SUBSET Event
        BY <1>4, ClientEventsFacts DEF RemoveConn
    <2>6. pending' \in [Client -> Hold \cup {None}]
        BY <1>4 DEF RemoveConn, TypeOK
    <2> QED BY <1>1, <2>1, <2>3, <2>4, <2>5, <2>6 DEF TypeOK
<1> QED BY <1>2, <1>3, <1>4 DEF Disassociate

(* Apply keeps the types, whichever the kind it dispatches on.              *)
LEMMA TypeApply ==
    ASSUME TypeOK, NEW k \in Conns, NEW c \in Client, Apply(k, c)
    PROVE  TypeOK'
<1>1. CASE Associate(k, c)
    BY <1>1, TypeAssociate
<1>2. CASE Disassociate(k, c)
    BY <1>2, TypeDisassociate
<1>3. CASE RefuseObservation(c)
    BY <1>3 DEF RefuseObservation, TypeOK
<1> QED BY <1>1, <1>2, <1>3 DEF Apply

(* The parts of TypeOK that every accepted snapshot establishes.            *)
LEMMA TypeMerge ==
    ASSUME TypeOK, NEW K \in SUBSET Conns, NEW stations \in [K -> SUBSET Client],
           NEW p \in Provider, NEW kept \in KeptChoices(p, K, stations),
           NEW E \in SUBSET Client, NEW W, NEW S, NEW T \in SUBSET Client,
           conns' = MergedConns(K, stations, kept, E),
           pending' = MergedHolds(W, kept, E),
           evidence' = MergedEvidence(K, stations),
           age' = Aged(S),
           emitted' = ClientEvent("client.removed", E)
                        \cup ClientEvents(T, state') \cup {Resynchronized(p)},
           state' \in [Client -> Presence],
           UNCHANGED providers
    PROVE  TypeOK'
<1>1. /\ conns' \in [Client -> [Conns -> Link]]
      /\ pending' \in [Client -> Hold \cup {None}]
      /\ evidence' \in [Conns -> SUBSET Client]
    BY MergedFacts
<1>2. age' \in [Client -> 0..MaxAge]
    BY ClearFacts
<1>3. emitted' \in SUBSET Event
    <2>1. ClientEvent("client.removed", E) \subseteq Event
        BY ClientEventsFacts
    <2>2. ClientEvents(T, state') \subseteq Event
        BY ClientEventsFacts
    <2>3. Resynchronized(p) \in Event
        BY ProviderEventsFacts
    <2> QED BY <2>1, <2>2, <2>3
<1>4. providers' \in [Provider -> Report]
    BY DEF TypeOK
<1> QED BY <1>1, <1>2, <1>3, <1>4 DEF TypeOK

(* An accepted snapshot of a provider keeps the types.                      *)
LEMMA TypeReconcile ==
    ASSUME TypeOK, NEW p \in Provider,
           NEW stations \in [ConnsOf(p) -> SUBSET Client], Reconcile(p, stations)
    PROVE  TypeOK'
<1> DEFINE K == ConnsOf(p)
           W == Wanted(K, stations)
           L(E) == (Listed \ E) \cup W
<1>1. PICK E \in evictOldestNonPresent(Excess(W), W),
           kept \in KeptChoices(p, K, stations) :
        /\ conns' = MergedConns(K, stations, kept, E)
        /\ pending' = MergedHolds(W, kept, E)
        /\ state' = [c \in Client |->
             IF c \in L(E) THEN reducedState(conns'[c], "absent") ELSE "none"]
        /\ age' = Aged(PresenceChanged(Client, state'))
        /\ emitted' =
             ClientEvent("client.removed", E)
               \cup ClientEvents(PresenceChanged(L(E), state')
                                   \cup (Relinked(conns') \cap L(E)), state')
               \cup {Resynchronized(p)}
    BY DEF Reconcile
<1>2. K \in SUBSET Conns /\ stations \in [K -> SUBSET Client]
    BY SourceFacts
<1>3. W \in SUBSET Client
    BY <1>2 DEF Wanted
<1>4. E \in SUBSET Client
    BY EvictionFacts
<1>5. L(E) \in SUBSET Client
    BY <1>3 DEF Listed
<1>6. state' \in [Client -> Presence]
    <2>1. conns' \in [Client -> [Conns -> Link]]
        BY <1>1, <1>2, MergedFacts
    <2>2. \A c \in Client : reducedState(conns'[c], "absent") \in Presence
        BY <2>1, ReducedStateFacts DEF Presence
    <2> QED BY <1>1, <2>2 DEF Presence
<1>7. PresenceChanged(L(E), state') \cup (Relinked(conns') \cap L(E)) \in SUBSET Client
    BY <1>5 DEF PresenceChanged
<1>8. evidence' = MergedEvidence(K, stations) /\ UNCHANGED providers
    BY DEF Reconcile
<1> QED BY <1>1, <1>2, <1>4, <1>6, <1>7, <1>8, TypeMerge

(* An accepted snapshot of one source keeps the types.                      *)
LEMMA TypeReconcileSource ==
    ASSUME TypeOK, NEW k \in Conns, NEW ids \in SUBSET Client,
           ReconcileSource(k, ids)
    PROVE  TypeOK'
<1> DEFINE p == ProviderOf(k)
           stations == [j \in {k} |-> ids]
           affected(E) == {c \in Client \ E : conns'[c] # conns[c]}
<1>1. PICK E \in evictOldestNonPresent(Excess(ids), ids),
           kept \in KeptChoices(p, {k}, stations) :
        /\ conns' = MergedConns({k}, stations, kept, E)
        /\ pending' = MergedHolds(ids, kept, E)
        /\ state' = [c \in Client |->
             IF c \in affected(E) THEN reducedState(conns'[c], "absent")
                                  ELSE Unlist(E)[c]]
        /\ age' = Aged(PresenceChanged(Client, state'))
        /\ emitted' = ClientEvent("client.removed", E)
                        \cup ClientEvents(affected(E), state')
                        \cup {Resynchronized(p)}
    BY DEF ReconcileSource
<1>2. {k} \in SUBSET Conns /\ stations \in [{k} -> SUBSET Client]
    OBVIOUS
<1>3. p \in Provider
    BY SourceFacts
<1>4. E \in SUBSET Client
    BY EvictionFacts
<1>5. state' \in [Client -> Presence]
    <2>1. conns' \in [Client -> [Conns -> Link]]
        BY <1>1, <1>2, <1>3, MergedFacts
    <2>2. \A c \in Client : reducedState(conns'[c], "absent") \in Presence
        BY <2>1, ReducedStateFacts DEF Presence
    <2>3. Unlist(E) \in [Client -> Presence]
        BY DEF Unlist, TypeOK, Presence
    <2> QED BY <1>1, <2>2, <2>3
<1>6. affected(E) \in SUBSET Client
    OBVIOUS
<1>7. evidence' = MergedEvidence({k}, stations) /\ UNCHANGED providers
    BY DEF ReconcileSource
<1> QED BY <1>1, <1>2, <1>3, <1>4, <1>5, <1>6, <1>7, TypeMerge

(* A refused snapshot keeps the types, although it evicts.                  *)
LEMMA TypeRefuseSnapshot ==
    ASSUME TypeOK, NEW p, NEW W, RefuseSnapshot(p, W)
    PROVE  TypeOK'
<1>1. Evictable(W) \in SUBSET Client
    BY DEF Evictable, Listed
<1>2. conns' \in [Client -> [Conns -> Link]] /\ state' \in [Client -> Presence]
    BY NoConnsFacts DEF RefuseSnapshot, TypeOK, Forgotten, Unlist, Presence
<1>3. age' \in [Client -> 0..MaxAge] /\ pending' \in [Client -> Hold \cup {None}]
    BY ClearFacts DEF RefuseSnapshot
<1>4. emitted' \in SUBSET Event
    BY <1>1, ClientEventsFacts DEF RefuseSnapshot
<1>5. providers' \in [Provider -> Report] /\ evidence' \in [Conns -> SUBSET Client]
    BY DEF RefuseSnapshot, TypeOK
<1> QED BY <1>2, <1>3, <1>4, <1>5 DEF TypeOK

(* What a provider may report is a report.                                  *)
LEMMA ReportFacts ==
    ASSUME NEW p \in Provider
    PROVE  Reports(p) \subseteq Report
<1>1. [status |-> "initializing", err |-> None, snap |-> FALSE] \in Report
    BY DEF Report, Status
<1>2. ASSUME NEW r \in Reports(p) PROVE r \in Report
    <2>1. CASE providers[p].status = "unregistered"
        BY <1>1, <2>1, Zenon DEF Reports
    <2>2. CASE providers[p].status # "unregistered"
        BY <2>2, Zenon DEF Reports
    <2> QED BY <2>1, <2>2
<1> QED BY <1>2

(* SetProvider keeps the types, in an outage too.                           *)
LEMMA TypeSetProvider ==
    ASSUME TypeOK, NEW p \in Provider, NEW r \in Report, SetProvider(p, r)
    PROVE  TypeOK'
<1>1. /\ providers' \in [Provider -> Report]
      /\ evidence' \in [Conns -> SUBSET Client]
      /\ age' \in [Client -> 0..MaxAge]
    BY DEF SetProvider, TypeOK
<1>2. CASE MarkUnavailable(p, r)
    <2>1. conns' \in [Client -> [Conns -> Link]]
        BY <1>2 DEF MarkUnavailable, StaleConns, TypeOK, Link
    <2>2. state' \in [Client -> Presence]
        <3>1. \A c \in Client : reducedState(conns'[c], "unknown") \in Presence
            BY <2>1, ReducedStateFacts DEF Presence
        <3> QED BY <1>2, <3>1 DEF MarkUnavailable, TypeOK
    <2>3. pending' \in [Client -> Hold \cup {None}]
        BY <1>2, ClearFacts DEF MarkUnavailable
    <2>4. emitted' \in SUBSET Event
        <3>1. LosesLive(p) \in SUBSET Client
            BY DEF LosesLive
        <3>2. ClientEvents(LosesLive(p), state') \subseteq Event
            BY <3>1, ClientEventsFacts
        <3>3. ProviderEvent(p, r) \subseteq Event
            BY ProviderEventsFacts
        <3> QED BY <1>2, <3>2, <3>3 DEF MarkUnavailable
    <2> QED BY <1>1, <2>1, <2>2, <2>3, <2>4 DEF TypeOK
<1>3. CASE emitted' = ProviderEvent(p, r) /\ UNCHANGED <<state, conns, pending>>
    <2>1. emitted' \in SUBSET Event
        BY <1>3, ProviderEventsFacts
    <2> QED BY <1>1, <1>3, <2>1 DEF TypeOK
<1> QED BY <1>2, <1>3 DEF SetProvider

(* The sweeper keeps the types.                                             *)
LEMMA TypeSweep == TypeOK /\ sweepPending => TypeOK'
<1> SUFFICES ASSUME TypeOK, sweepPending PROVE TypeOK'
    OBVIOUS
<1>1. conns' \in [Client -> [Conns -> Link]]
    BY DEF sweepPending, DepartedConns, TypeOK, Link
<1>2. state' \in [Client -> Presence]
    <2>1. \A c \in Client : DepartedState(conns'[c]) \in Presence
        BY <1>1, ReducedStateFacts DEF DepartedState, Presence
    <2> QED BY <2>1 DEF sweepPending, TypeOK
<1>3. age' \in [Client -> 0..MaxAge] /\ pending' \in [Client -> Hold \cup {None}]
    BY ClearFacts DEF sweepPending
<1>4. emitted' \in SUBSET Event
    <2>1. Departing \in SUBSET Client
        BY DEF Departing, Expired
    <2> QED BY <2>1, ClientEventsFacts DEF sweepPending
<1>5. providers' \in [Provider -> Report] /\ evidence' \in [Conns -> SUBSET Client]
    BY DEF sweepPending, TypeOK
<1> QED BY <1>1, <1>2, <1>3, <1>4, <1>5 DEF TypeOK

(* A tick takes a hold to a hold of the same connection, no longer than it. *)
LEMMA TickFacts ==
    ASSUME TypeOK, Tick, NEW c \in Client
    PROVE  /\ pending'[c] \in Hold \cup {None}
           /\ pending'[c] = None <=> pending[c] = None
           /\ pending[c] # None =>
                /\ pending'[c].conn = pending[c].conn
                /\ pending'[c].left <= pending[c].left
<1>1. pending[c] \in Hold \cup {None} /\ None \notin Hold
    BY NoneAssumption DEF TypeOK, Hold
<1>2. CASE pending[c] # None /\ pending[c].left > 0
    <2>1. pending'[c] = [pending[c] EXCEPT !.left = @ - 1]
        BY <1>2 DEF Tick
    <2>2. pending[c] \in [conn : Conns, left : 0..Grace]
        BY <1>1, <1>2 DEF Hold
    <2>3. /\ pending'[c] \in [conn : Conns, left : 0..Grace]
          /\ pending'[c].conn = pending[c].conn
          /\ pending'[c].left = pending[c].left - 1
        BY <1>2, <2>1, <2>2, TimeAssumption
    <2>4. pending'[c].left <= pending[c].left
        BY <2>2, <2>3, TimeAssumption
    <2> QED BY <1>1, <1>2, <2>3, <2>4 DEF Hold
<1>3. CASE ~(pending[c] # None /\ pending[c].left > 0)
    <2>1. pending'[c] = pending[c]
        BY <1>3 DEF Tick
    <2>2. pending[c] # None => pending[c].left \in 0..Grace
        BY <1>1 DEF Hold
    <2> QED BY <1>1, <2>1, <2>2, TimeAssumption
<1> QED BY <1>2, <1>3

(* The passing of time keeps the types.                                     *)
LEMMA TypeTick == TypeOK /\ Tick => TypeOK'
<1> SUFFICES ASSUME TypeOK, Tick PROVE TypeOK'
    OBVIOUS
<1>1. age' \in [Client -> 0..MaxAge]
    BY TimeAssumption DEF Tick, TypeOK
<1>2. pending' \in [Client -> Hold \cup {None}]
    <2>1. \A c \in Client : pending'[c] \in Hold \cup {None}
        BY TickFacts
    <2>2. pending' = [c \in Client |-> pending'[c]]
        BY DEF Tick
    <2> QED BY <2>1, <2>2
<1> QED BY <1>1, <1>2 DEF Tick, TypeOK

(* Every operation of the engine keeps the types.                           *)
LEMMA TypeNext == TypeOK /\ [Next]_vars => TypeOK'
<1> SUFFICES ASSUME TypeOK, [Next]_vars PROVE TypeOK'
    OBVIOUS
<1>1. ASSUME NEW k \in Conns, NEW c \in Client, Apply(k, c)
      PROVE  TypeOK'
    BY <1>1, TypeApply
<1>2. ASSUME NEW p \in Provider, NEW stations \in [ConnsOf(p) -> SUBSET Client],
             Reconcile(p, stations)
      PROVE  TypeOK'
    BY <1>2, TypeReconcile
<1>3. ASSUME NEW k \in Conns, NEW ids \in SUBSET Client, ReconcileSource(k, ids)
      PROVE  TypeOK'
    BY <1>3, TypeReconcileSource
<1>4. ASSUME NEW p, NEW W, RefuseSnapshot(p, W)
      PROVE  TypeOK'
    BY <1>4, TypeRefuseSnapshot
<1>5. ASSUME NEW p \in Provider, NEW r \in Reports(p), SetProvider(p, r)
      PROVE  TypeOK'
    <2>1. r \in Report
        BY ReportFacts
    <2> QED BY <1>5, <2>1, TypeSetProvider
<1>6. CASE sweepPending
    BY <1>6, TypeSweep
<1>7. CASE Tick
    BY <1>7, TypeTick
<1>8. CASE UNCHANGED vars
    BY <1>8 DEF vars, TypeOK
<1> QED
    BY <1>1, <1>2, <1>3, <1>4, <1>5, <1>6, <1>7, <1>8 DEF Next, Running, Conns

(* Every reachable state of the engine is well typed, whatever the sets of  *)
(* clients and sources, the limit and the grace period.                     *)
THEOREM TypeCorrect == Spec => []TypeOK
BY TypeInit, TypeNext, PTL DEF Spec

-----------------------------------------------------------------------------
(***************************************************************************)
(* Presence and holds.  Neither PresenceIsEvidence nor HoldIsSoleLive is   *)
(* inductive alone: that a hold is kept when a connection is removed rests *)
(* on the client being present, and that there are no holds without grace. *)
(***************************************************************************)
HoldNeedsGrace == \A c \in Client : pending[c] # None => Grace > 0

Sound == TypeOK /\ PresenceIsEvidence /\ HoldIsSoleLive /\ HoldNeedsGrace

\* What Sound says of one client.
SoundFor(c) ==
    /\ state[c] = "present" <=> Live(conns[c]) # {}
    /\ state[c] \in {"none", "absent"} => Linked(conns[c]) = {}
    /\ pending[c] # None =>
        /\ Grace > 0
        /\ pending[c].conn \in WiFiSource
        /\ Live(conns[c]) = {pending[c].conn}

(* The invariant is the types and a condition on each client alone.         *)
LEMMA SoundIsPerClient ==
    Sound <=> TypeOK /\ \A c \in Client : SoundFor(c)
BY DEF Sound, SoundFor, PresenceIsEvidence, HoldIsSoleLive, HoldNeedsGrace

(* A new engine is sound: it knows no client.                               *)
LEMMA SoundInit == Init => Sound
<1> SUFFICES ASSUME Init PROVE Sound
    OBVIOUS
<1>1. TypeOK
    BY TypeInit
<1>2. ASSUME NEW c \in Client PROVE SoundFor(c)
    BY NoConnsFacts DEF Init, SoundFor
<1> QED BY <1>1, <1>2, SoundIsPerClient

(* Nothing happens to a client whose presence, connections and hold stay.   *)
LEMMA SoundUnchanged ==
    ASSUME NEW c \in Client, SoundFor(c),
           state'[c] = state[c], conns'[c] = conns[c], pending'[c] = pending[c]
    PROVE  SoundFor(c)'
BY DEF SoundFor, Live, Linked

(* A forgotten client is not present and has neither connection nor hold.   *)
LEMMA SoundForgotten ==
    ASSUME NEW c \in Client,
           state'[c] = "none", conns'[c] = NoConns, pending'[c] = None
    PROVE  SoundFor(c)'
<1>1. Live(conns'[c]) = {} /\ Linked(conns'[c]) = {}
    BY NoConnsFacts
<1>2. Live(conns[c])' = {} /\ Linked(conns[c])' = {}
    BY <1>1 DEF Live, Linked
<1> QED BY <1>2 DEF SoundFor

(* Associate keeps each client sound: it ends the hold of whom it sees.     *)
LEMMA SoundAssociate ==
    ASSUME Sound, NEW k \in Conns, NEW c \in Client, Associate(k, c), NEW d \in Client
    PROVE  SoundFor(d)'
<1>1. PICK E \in evictOldestNonPresent(Excess({c}), {c}) :
        /\ conns' = [Forgotten(E) EXCEPT ![c] = [conns[c] EXCEPT ![k] = "live"]]
        /\ state' = [Unlist(E) EXCEPT ![c] = "present"]
        /\ pending' = ClearHolds(E \cup {c})
    BY DEF Associate
<1>2. c \notin E
    BY EvictionFacts
<1>3. CASE d = c
    <2>1. state'[d] = "present" /\ pending'[d] = None
        BY <1>1, <1>3 DEF Unlist, ClearHolds
    <2>2. k \in Live(conns[d])'
        BY <1>1, <1>3 DEF Live, Forgotten, Sound, TypeOK
    <2> QED BY <2>1, <2>2 DEF SoundFor
<1>4. CASE d \in E
    <2>1. state'[d] = "none" /\ conns'[d] = NoConns /\ pending'[d] = None
        BY <1>1, <1>2, <1>4 DEF Unlist, Forgotten, ClearHolds
    <2> QED BY <2>1, SoundForgotten
<1>5. CASE d # c /\ d \notin E
    <2>1. state'[d] = state[d] /\ conns'[d] = conns[d] /\ pending'[d] = pending[d]
        BY <1>1, <1>5 DEF Unlist, Forgotten, ClearHolds
    <2> QED BY <2>1, SoundUnchanged, SoundIsPerClient
<1> QED BY <1>3, <1>4, <1>5

(* Disassociate keeps each client sound: it holds only a sole live          *)
(* connection, and removes one only if that is not the one on hold.         *)
LEMMA SoundDisassociate ==
    ASSUME Sound, NEW k \in WiFiSource, NEW c \in Client, Disassociate(k, c),
           NEW d \in Client
    PROVE  SoundFor(d)'
<1> k \in Conns
    BY DEF Conns
<1>1. SoundFor(d) /\ TypeOK
    BY SoundIsPerClient
<1>2. CASE d # c \/ IgnoreDisassociate(k, c)
    <2>1. state'[d] = state[d] /\ conns'[d] = conns[d] /\ pending'[d] = pending[d]
        BY <1>1, <1>2 DEF Disassociate, IgnoreDisassociate, HoldConn, RemoveConn, TypeOK
    <2> QED BY <1>1, <2>1, SoundUnchanged
<1>3. CASE d = c /\ HoldConn(k, c)
    <2>1. /\ state'[d] = state[d] /\ conns'[d] = conns[d]
          /\ pending'[d] = ensurePending(d, k)
        BY <1>1, <1>3 DEF HoldConn, TypeOK
    <2>2. Grace > 0 /\ state[d] = "present" /\ Live(conns[d]) \subseteq {k}
        BY <1>3 DEF HoldConn, HoldsOnDisassociate, isLastNonStale
    <2>3. Live(conns[d]) = {k}
        BY <1>1, <2>2 DEF SoundFor
    <2>4. pending'[d].conn = k
        BY <1>1, <2>1, <2>3, EnsurePendingFacts DEF SoundFor
    <2>5. Live(conns[d])' = Live(conns[d]) /\ Linked(conns[d])' = Linked(conns[d])
        BY <2>1 DEF Live, Linked
    <2> QED BY <1>1, <2>1, <2>2, <2>3, <2>4, <2>5 DEF SoundFor
<1>4. CASE d = c /\ RemoveConn(k, c)
    <2>1. /\ conns'[d] = [conns[d] EXCEPT ![k] = "none"]
          /\ state'[d] = reducedState(conns'[d], "unknown")
          /\ pending'[d] = pending[d]
        BY <1>1, <1>4 DEF RemoveConn, DepartedState, TypeOK
    <2>2. conns'[d] \in [Conns -> Link]
        BY <1>1, <2>1 DEF TypeOK, Link
    <2>3. Live(conns'[d]) = Live(conns[d]) \ {k}
        BY <1>1, <2>1 DEF Live, TypeOK
    <2>4. /\ state'[d] \in {"present", "absent", "unknown"}
          /\ state'[d] = "present" <=> Live(conns'[d]) # {}
          /\ state'[d] = "absent" => Linked(conns'[d]) = {}
        BY <2>1, <2>2, ReducedStateFacts
    <2>5. ASSUME pending[d] # None
          PROVE  Live(conns'[d]) = {pending[d].conn}
        <3>1. Grace > 0 /\ state[d] = "present" /\ Live(conns[d]) = {pending[d].conn}
            BY <1>1, <2>5 DEF SoundFor
        <3>2. ~(Live(conns[d]) \subseteq {k})
            BY <1>4, <3>1 DEF RemoveConn, HoldsOnDisassociate, isLastNonStale
        <3> QED BY <2>3, <3>1, <3>2
    <2>6. /\ Live(conns[d])' = Live(conns'[d])
          /\ Linked(conns[d])' = Linked(conns'[d])
        BY DEF Live, Linked
    <2> QED BY <1>1, <2>1, <2>4, <2>5, <2>6 DEF SoundFor
<1> QED BY <1>2, <1>3, <1>4 DEF Disassociate

\* The choices of an accepted snapshot of sources K of provider p.
Merging(p, K, stations, kept) ==
    /\ p \in Provider /\ Observing(p)
    /\ K \in SUBSET ConnsOf(p)
    /\ stations \in [K -> SUBSET Client]
    /\ kept \in KeptChoices(p, K, stations)

\* A hold h of a client with connections cs is on its sole live one.
HoldSound(cs, h) ==
    h # None => Grace > 0 /\ h.conn \in WiFiSource /\ Live(cs) = {h.conn}

(* After a snapshot of sources of one kind, a hold is again on the sole     *)
(* live connection of its client.                                           *)
LEMMA MergedHoldIsSoleLive ==
    ASSUME Sound, NEW p, NEW K, NEW stations, NEW kept, NEW E,
           Merging(p, K, stations, kept), NEW c \in Client
    PROVE  HoldSound(MergedConns(K, stations, kept, E)[c],
                     MergedHolds(Wanted(K, stations), kept, E)[c])
<1> DEFINE W == Wanted(K, stations)
           h == MergedHolds(W, kept, E)[c]
           cs == MergedConns(K, stations, kept, E)[c]
<1> SUFFICES ASSUME h # None
             PROVE  Grace > 0 /\ h.conn \in WiFiSource /\ Live(cs) = {h.conn}
    BY DEF HoldSound
<1>0. /\ p \in Provider /\ Observing(p) /\ K \in SUBSET ConnsOf(p)
      /\ kept \in KeptChoices(p, K, stations)
    BY DEF Merging
<1>1. TypeOK /\ SoundFor(c)
    BY SoundIsPerClient
<1>2. c \notin W /\ c \notin E
    BY DEF MergedHolds
<1>3. \A k \in K : c \notin stations[k]
    BY <1>2 DEF Wanted
<1>4. K \subseteq Conns
    BY <1>0, SourceFacts
<1>5. \A k \in Conns :
        cs[k] = IF k \in Unwanted(K, stations, c) \ {kept[c]}
                  THEN "none" ELSE conns[c][k]
    BY <1>2, <1>3 DEF MergedConns
<1>6. Live(cs) = Live(conns[c]) \ (Unwanted(K, stations, c) \ {kept[c]})
    BY <1>5 DEF Live
<1>7. CASE kept[c] # None
    <2>1. HoldsOnSnapshot(p, K, stations, c) /\ kept[c] \in Live(conns[c])
        BY <1>0, <1>7 DEF KeptChoices
    <2>2. /\ Grace > 0 /\ p = WiFi
          /\ Live(conns[c]) \subseteq Unwanted(K, stations, c)
        BY <2>1 DEF HoldsOnSnapshot, isWiFiProvider
    <2>3. kept[c] \in WiFiSource
        BY <1>0, <2>1, <2>2 DEF Unwanted, ConnsOf
    <2>4. h = ensurePending(c, kept[c])
        BY <1>2, <1>7 DEF MergedHolds
    <2>5. h.conn = kept[c]
        <3>1. kept[c] \in Conns
            BY <2>3 DEF Conns
        <3>2. pending[c] # None => pending[c].conn = kept[c]
            BY <1>1, <2>1 DEF SoundFor
        <3> QED BY <1>1, <2>4, <3>1, <3>2, EnsurePendingFacts
    <2>6. Live(cs) = {kept[c]}
        BY <1>6, <2>1, <2>2
    <2> QED BY <2>2, <2>3, <2>5, <2>6
<1>8. CASE kept[c] = None
    <2>1. h = pending[c]
        BY <1>2, <1>8 DEF MergedHolds
    <2>2. /\ pending[c] # None /\ Grace > 0
          /\ pending[c].conn \in WiFiSource
          /\ Live(conns[c]) = {pending[c].conn}
          /\ state[c] = "present"
        BY <1>1, <2>1 DEF SoundFor
    <2>3. ~HoldsOnSnapshot(p, K, stations, c)
        <3>1. None \notin Live(conns[c])
            BY NoneAssumption DEF Live
        <3> QED BY <1>0, <1>8, <3>1 DEF KeptChoices
    <2>4. pending[c].conn \notin Unwanted(K, stations, c)
        <3>1. CASE p = WiFi
            <4>1. isWiFiProvider(p)
                BY <1>0, <3>1 DEF Observing, isWiFiProvider
            <4> QED BY <2>2, <2>3, <4>1 DEF HoldsOnSnapshot
        <3>2. CASE p # WiFi
            BY <1>0, <2>2, <3>2, SourceAssumption DEF Unwanted, ConnsOf
        <3> QED BY <3>1, <3>2
    <2>5. Live(cs) = {pending[c].conn}
        BY <1>6, <2>2, <2>4
    <2> QED BY <2>1, <2>2, <2>5
<1> QED BY <1>7, <1>8

(* A snapshot leaves without connections whom it evicts, and whom it does   *)
(* not list and who had none.                                               *)
LEMMA MergedUnlisted ==
    ASSUME Sound, NEW p, NEW K, NEW stations, NEW kept, NEW E,
           Merging(p, K, stations, kept), NEW c \in Client,
           c \in E \/ (state[c] \in {"none", "absent"} /\ c \notin Wanted(K, stations))
    PROVE  Linked(MergedConns(K, stations, kept, E)[c]) = {}
<1>1. TypeOK /\ SoundFor(c)
    BY SoundIsPerClient
<1>2. CASE c \in E
    BY <1>2 DEF MergedConns, Linked
<1>3. CASE state[c] \in {"none", "absent"} /\ c \notin Wanted(K, stations)
    <2>1. Linked(conns[c]) = {}
        BY <1>1, <1>3 DEF SoundFor
    <2>2. \A k \in K : c \notin stations[k]
        BY <1>3 DEF Wanted
    <2> QED BY <2>1, <2>2 DEF MergedConns, Linked
<1> QED BY <1>2, <1>3

(* Reconcile keeps each client sound, kept connections included.            *)
LEMMA SoundReconcile ==
    ASSUME Sound, NEW p \in Provider,
           NEW stations \in [ConnsOf(p) -> SUBSET Client], Reconcile(p, stations),
           NEW c \in Client
    PROVE  SoundFor(c)'
<1> DEFINE K == ConnsOf(p)
           W == Wanted(K, stations)
           L(E) == (Listed \ E) \cup W
<1>1. PICK E \in evictOldestNonPresent(Excess(W), W),
           kept \in KeptChoices(p, K, stations) :
        /\ conns' = MergedConns(K, stations, kept, E)
        /\ pending' = MergedHolds(W, kept, E)
        /\ state' = [d \in Client |->
             IF d \in L(E) THEN reducedState(conns'[d], "absent") ELSE "none"]
    BY DEF Reconcile
<1>2. K \in SUBSET Conns /\ K \in SUBSET ConnsOf(p)
    BY SourceFacts
<1>3. TypeOK /\ Observing(p)
    BY DEF Sound, Reconcile
<1>4_1. Merging(p, K, stations, kept)
    BY <1>2, <1>3 DEF Merging
<1>4. HoldSound(conns'[c], pending'[c])
    BY <1>1, <1>4_1, MergedHoldIsSoleLive
<1>5. conns'[c] \in [Conns -> Link]
    <2>1. conns' \in [Client -> [Conns -> Link]]
        BY <1>1, <1>2, <1>3, MergedFacts
    <2> QED BY <2>1
<1>6. /\ state'[c] = "present" <=> Live(conns'[c]) # {}
      /\ state'[c] \in {"none", "absent"} => Linked(conns'[c]) = {}
    <2>1. CASE c \in L(E)
        <3>1. state'[c] = reducedState(conns'[c], "absent")
            BY <1>1, <2>1
        <3> QED BY <1>5, <3>1, ReducedStateFacts
    <2>2. CASE c \notin L(E)
        <3>1. state'[c] = "none"
            BY <1>1, <2>2
        <3>2. c \in E \/ (state[c] = "none" /\ c \notin W)
            BY <2>2 DEF Listed
        <3>3. Linked(conns'[c]) = {}
            BY <1>1, <1>4_1, <3>2, MergedUnlisted
        <3>4. Live(conns'[c]) \subseteq Linked(conns'[c])
            BY DEF Live, Linked
        <3> QED BY <3>1, <3>3, <3>4
    <2> QED BY <2>1, <2>2
<1>7. Live(conns[c])' = Live(conns'[c]) /\ Linked(conns[c])' = Linked(conns'[c])
    BY DEF Live, Linked
<1> QED BY <1>4, <1>6, <1>7 DEF SoundFor, HoldSound

(* ReconcileSource keeps each client sound, though it derives the presence  *)
(* of the affected ones only.                                               *)
LEMMA SoundReconcileSource ==
    ASSUME Sound, NEW k \in Conns, NEW ids \in SUBSET Client,
           ReconcileSource(k, ids), NEW c \in Client
    PROVE  SoundFor(c)'
<1> DEFINE p == ProviderOf(k)
           K == {k}
           stations == [j \in K |-> ids]
           affected(E) == {d \in Client \ E : conns'[d] # conns[d]}
<1>1. PICK E \in evictOldestNonPresent(Excess(ids), ids),
           kept \in KeptChoices(p, K, stations) :
        /\ conns' = MergedConns(K, stations, kept, E)
        /\ pending' = MergedHolds(ids, kept, E)
        /\ state' = [d \in Client |->
             IF d \in affected(E) THEN reducedState(conns'[d], "absent")
                                  ELSE Unlist(E)[d]]
    BY DEF ReconcileSource
<1>2. /\ p \in Provider /\ K \in SUBSET ConnsOf(p) /\ K \in SUBSET Conns
      /\ stations \in [K -> SUBSET Client]
    BY DEF ProviderOf, ConnsOf, Conns, Provider, WiFi, Wired
<1>3. TypeOK /\ Observing(p) /\ SoundFor(c)
    BY SoundIsPerClient DEF ReconcileSource
<1>4. Wanted(K, stations) = ids
    BY DEF Wanted
<1>5_1. Merging(p, K, stations, kept)
    BY <1>2, <1>3 DEF Merging
<1>5. HoldSound(conns'[c], pending'[c])
    BY <1>1, <1>4, <1>5_1, MergedHoldIsSoleLive
<1>6. conns'[c] \in [Conns -> Link]
    <2>1. conns' \in [Client -> [Conns -> Link]]
        BY <1>1, <1>2, <1>3, MergedFacts
    <2> QED BY <2>1
<1>7. /\ state'[c] = "present" <=> Live(conns'[c]) # {}
      /\ state'[c] \in {"none", "absent"} => Linked(conns'[c]) = {}
    <2>1. CASE c \in affected(E)
        <3>1. state'[c] = reducedState(conns'[c], "absent")
            BY <1>1, <2>1
        <3> QED BY <1>6, <3>1, ReducedStateFacts
    <2>2. CASE c \in E
        <3>1. state'[c] = "none"
            BY <1>1, <2>2 DEF Unlist
        <3>2. Linked(conns'[c]) = {}
            BY <1>1, <1>5_1, <2>2, MergedUnlisted
        <3>3. Live(conns'[c]) \subseteq Linked(conns'[c])
            BY DEF Live, Linked
        <3> QED BY <3>1, <3>2, <3>3
    <2>3. CASE c \notin E /\ conns'[c] = conns[c]
        <3>1. state'[c] = state[c]
            BY <1>1, <2>3 DEF Unlist
        <3> QED BY <1>3, <2>3, <3>1 DEF SoundFor
    <2> QED BY <2>1, <2>2, <2>3
<1>8. Live(conns[c])' = Live(conns'[c]) /\ Linked(conns[c])' = Linked(conns'[c])
    BY DEF Live, Linked
<1> QED BY <1>5, <1>7, <1>8 DEF SoundFor, HoldSound

(* A refused snapshot keeps each client sound: it forgets or leaves it.     *)
LEMMA SoundRefuseSnapshot ==
    ASSUME Sound, NEW p, NEW W, RefuseSnapshot(p, W), NEW c \in Client
    PROVE  SoundFor(c)'
<1>1. CASE c \in Evictable(W)
    <2>1. state'[c] = "none" /\ conns'[c] = NoConns /\ pending'[c] = None
        BY <1>1 DEF RefuseSnapshot, Unlist, Forgotten, ClearHolds
    <2> QED BY <2>1, SoundForgotten
<1>2. CASE c \notin Evictable(W)
    <2>1. state'[c] = state[c] /\ conns'[c] = conns[c] /\ pending'[c] = pending[c]
        BY <1>2 DEF RefuseSnapshot, Unlist, Forgotten, ClearHolds
    <2> QED BY <2>1, SoundUnchanged, SoundIsPerClient
<1> QED BY <1>1, <1>2

(* An outage keeps each client sound: it clears the holds of those whose    *)
(* live connections it makes stale.                                         *)
LEMMA SoundSetProvider ==
    ASSUME Sound, NEW p \in Provider, NEW r \in Report, SetProvider(p, r),
           NEW c \in Client
    PROVE  SoundFor(c)'
<1>1. TypeOK /\ SoundFor(c) /\ TypeOK'
    BY SoundIsPerClient, TypeSetProvider
<1>2. CASE MarkUnavailable(p, r) /\ c \in LosesLive(p)
    <2>1. state'[c] = reducedState(conns'[c], "unknown") /\ pending'[c] = None
        BY <1>2 DEF MarkUnavailable, ClearHolds
    <2>2. conns'[c] \in [Conns -> Link]
        BY <1>1 DEF TypeOK
    <2>3. /\ state'[c] \in {"present", "absent", "unknown"}
          /\ state'[c] = "present" <=> Live(conns'[c]) # {}
          /\ state'[c] = "absent" => Linked(conns'[c]) = {}
        BY <2>1, <2>2, ReducedStateFacts
    <2>4. Live(conns[c])' = Live(conns'[c]) /\ Linked(conns[c])' = Linked(conns'[c])
        BY DEF Live, Linked
    <2> QED BY <2>1, <2>3, <2>4 DEF SoundFor
<1>3. CASE MarkUnavailable(p, r) /\ c \notin LosesLive(p)
    <2>1. state'[c] = state[c] /\ pending'[c] = pending[c]
        BY <1>3 DEF MarkUnavailable, ClearHolds
    <2>2. \A k \in Conns : conns'[c][k] = conns[c][k]
        BY <1>3 DEF MarkUnavailable, StaleConns, LosesLive, Live
    <2>3. conns'[c] = conns[c]
        BY <1>1, <2>2 DEF TypeOK
    <2> QED BY <1>1, <2>1, <2>3, SoundUnchanged
<1>4. CASE UNCHANGED <<state, conns, pending>>
    BY <1>1, <1>4, SoundUnchanged
<1> QED BY <1>2, <1>3, <1>4 DEF SetProvider

(* The sweeper keeps each client sound: the hold goes with its connection.  *)
LEMMA SoundSweep ==
    ASSUME Sound, sweepPending, NEW c \in Client
    PROVE  SoundFor(c)'
<1>1. TypeOK /\ SoundFor(c) /\ TypeOK'
    BY SoundIsPerClient, TypeSweep
<1>2. CASE c \in Departing
    <2>1. state'[c] = reducedState(conns'[c], "unknown") /\ pending'[c] = None
        BY <1>2 DEF sweepPending, ClearHolds, Departing, DepartedState
    <2>2. conns'[c] \in [Conns -> Link]
        BY <1>1 DEF TypeOK
    <2>3. /\ state'[c] \in {"present", "absent", "unknown"}
          /\ state'[c] = "present" <=> Live(conns'[c]) # {}
          /\ state'[c] = "absent" => Linked(conns'[c]) = {}
        BY <2>1, <2>2, ReducedStateFacts
    <2>4. Live(conns[c])' = Live(conns'[c]) /\ Linked(conns[c])' = Linked(conns'[c])
        BY DEF Live, Linked
    <2> QED BY <2>1, <2>3, <2>4 DEF SoundFor
<1>3. CASE c \notin Departing
    <2>1. state'[c] = state[c] /\ conns'[c] = conns[c]
        BY <1>3 DEF sweepPending, DepartedConns
    <2>2. CASE c \in Expired
        <3>1. pending'[c] = None
            BY <2>2 DEF sweepPending, ClearHolds
        <3>2. Live(conns[c])' = Live(conns[c]) /\ Linked(conns[c])' = Linked(conns[c])
            BY <2>1 DEF Live, Linked
        <3> QED BY <1>1, <2>1, <3>1, <3>2 DEF SoundFor
    <2>3. CASE c \notin Expired
        <3>1. pending'[c] = pending[c]
            BY <2>3 DEF sweepPending, ClearHolds
        <3> QED BY <1>1, <2>1, <3>1, SoundUnchanged
    <2> QED BY <2>2, <2>3
<1> QED BY <1>2, <1>3

(* The passing of time keeps each client sound.                             *)
LEMMA SoundTick ==
    ASSUME Sound, Tick, NEW c \in Client
    PROVE  SoundFor(c)'
<1>1. TypeOK /\ SoundFor(c)
    BY SoundIsPerClient
<1>2. state'[c] = state[c] /\ conns'[c] = conns[c]
    BY DEF Tick
<1>3. Live(conns[c])' = Live(conns[c]) /\ Linked(conns[c])' = Linked(conns[c])
    BY <1>2 DEF Live, Linked
<1>4. /\ pending'[c] = None <=> pending[c] = None
      /\ pending[c] # None => pending'[c].conn = pending[c].conn
    BY <1>1, TickFacts
<1> QED BY <1>1, <1>2, <1>3, <1>4 DEF SoundFor

(* Every operation of the engine preserves the invariant.                   *)
LEMMA SoundNext == Sound /\ [Next]_vars => Sound'
<1> SUFFICES ASSUME Sound, [Next]_vars PROVE Sound'
    OBVIOUS
<1>0. TypeOK /\ TypeOK'
    BY TypeNext DEF Sound
<1> SUFFICES ASSUME NEW c \in Client PROVE SoundFor(c)'
    BY <1>0 DEF Sound, SoundFor, PresenceIsEvidence, HoldIsSoleLive, HoldNeedsGrace
<1>1. ASSUME NEW k \in Conns, NEW d \in Client, Apply(k, d)
      PROVE  SoundFor(c)'
    <2>1. CASE Associate(k, d)
        BY <2>1, SoundAssociate
    <2>2. CASE k \in WiFiSource /\ Disassociate(k, d)
        BY <2>2, SoundDisassociate
    <2>3. CASE RefuseObservation(d)
        BY <2>3, SoundUnchanged, SoundIsPerClient DEF RefuseObservation
    <2> QED BY <1>1, <2>1, <2>2, <2>3 DEF Apply
<1>2. ASSUME NEW p \in Provider, NEW stations \in [ConnsOf(p) -> SUBSET Client],
             Reconcile(p, stations)
      PROVE  SoundFor(c)'
    BY <1>2, SoundReconcile
<1>3. ASSUME NEW k \in Conns, NEW ids \in SUBSET Client, ReconcileSource(k, ids)
      PROVE  SoundFor(c)'
    BY <1>3, SoundReconcileSource
<1>4. ASSUME NEW p, NEW W, RefuseSnapshot(p, W)
      PROVE  SoundFor(c)'
    BY <1>4, SoundRefuseSnapshot
<1>5. ASSUME NEW p \in Provider, NEW r \in Reports(p), SetProvider(p, r)
      PROVE  SoundFor(c)'
    <2>1. r \in Report
        BY ReportFacts
    <2> QED BY <1>5, <2>1, SoundSetProvider
<1>6. CASE sweepPending
    BY <1>6, SoundSweep
<1>7. CASE Tick
    BY <1>7, SoundTick
<1>8. CASE UNCHANGED vars
    BY <1>8, SoundUnchanged, SoundIsPerClient DEF vars
<1> QED
    BY <1>1, <1>2, <1>3, <1>4, <1>5, <1>6, <1>7, <1>8 DEF Next, Running, Conns

(* The invariant holds in every reachable state.                            *)
LEMMA SoundInvariant == Spec => []Sound
BY SoundInit, SoundNext, PTL DEF Spec

(* In every reachable state the presence of every client is what its        *)
(* connections say.                                                         *)
THEOREM PresenceCorrect == Spec => []PresenceIsEvidence
<1>1. Sound => PresenceIsEvidence
    BY DEF Sound
<1> QED BY <1>1, SoundInvariant, PTL

(* In every reachable state a hold is on the sole live connection of its    *)
(* client, a Wi-Fi one.                                                     *)
THEOREM HoldCorrect == Spec => []HoldIsSoleLive
<1>1. Sound => HoldIsSoleLive
    BY DEF Sound
<1> QED BY <1>1, SoundInvariant, PTL

-----------------------------------------------------------------------------
(***************************************************************************)
(* The limit on the clients, and the implementation of the abstract        *)
(* specification Presence.                                                 *)
(***************************************************************************)

(* A client a snapshot lists has a live connection after it.                *)
LEMMA MergedListed ==
    ASSUME Sound, NEW p, NEW K, NEW stations, NEW kept, NEW E,
           Merging(p, K, stations, kept), NEW c \in Client,
           c \in Wanted(K, stations), c \notin E
    PROVE  Live(MergedConns(K, stations, kept, E)[c]) # {}
<1>1. PICK k \in K : c \in stations[k]
    BY DEF Wanted
<1>2. k \in Conns
    BY <1>1, SourceFacts DEF Merging
<1>3. k \notin Unwanted(K, stations, c)
    BY <1>1 DEF Unwanted
<1>4. MergedConns(K, stations, kept, E)[c][k] = "live"
    BY <1>1, <1>2, <1>3 DEF MergedConns
<1> QED BY <1>2, <1>4 DEF Live

(* The eviction makes enough room.                                          *)
LEMMA RoomIsMade ==
    ASSUME NEW W \in SUBSET Client, NEW E \in evictOldestNonPresent(Excess(W), W)
    PROVE  Cardinality((Listed \ E) \cup W) <= MaxClients
<1> DEFINE S == Listed \cup W
<1>1. IsFiniteSet(S) /\ Cardinality(S) \in Nat
    <2>1. S \in SUBSET Client
        BY DEF Listed
    <2>2. IsFiniteSet(S)
        BY <2>1, ClientAssumption, FS_Subset
    <2> QED BY <2>2, FS_CardinalityType
<1>2. E \subseteq Evictable(W) /\ Cardinality(E) = Excess(W)
    BY DEF evictOldestNonPresent
<1>3. E \subseteq Listed /\ E \cap W = {}
    BY <1>2 DEF Evictable
<1>4. (Listed \ E) \cup W = S \ E /\ S \cap E = E
    BY <1>3
<1>5. Cardinality(S \ E) = Cardinality(S) - Excess(W)
    <2>1. Cardinality(S \ E) = Cardinality(S) - Cardinality(S \cap E)
        BY <1>1, FS_Difference
    <2> QED BY <1>2, <1>4, <2>1
<1>6. Cardinality(S) - Excess(W) <= MaxClients
    BY <1>1, LimitAssumption DEF Excess
<1> QED BY <1>4, <1>5, <1>6

(* No more clients than before are still within the limit.                  *)
LEMMA RoomIsKept ==
    ASSUME TypeOK, TypeOK', CapacityRespected,
           \A c \in Client : state[c] = "none" => state'[c] = "none"
    PROVE  CapacityRespected'
<1>1. Listed' \in SUBSET Listed /\ Listed \in SUBSET Client
    BY DEF Listed
<1>2. IsFiniteSet(Listed)
    BY <1>1, ClientAssumption, FS_Subset
<1>3. Cardinality(Listed') <= Cardinality(Listed) /\ IsFiniteSet(Listed')
    BY <1>1, <1>2, FS_Subset
<1>4. Cardinality(Listed') \in Nat /\ Cardinality(Listed) \in Nat
    BY <1>2, <1>3, FS_CardinalityType
<1>5. Cardinality(Listed') <= MaxClients
    BY <1>3, <1>4, LimitAssumption DEF CapacityRespected
<1>6. CapacityRespected' <=> Cardinality(Listed') <= MaxClients
    BY DEF CapacityRespected, Listed
<1> QED BY <1>5, <1>6

(* A step after which at most the clients S are listed, if they fit.        *)
LEMMA RoomForSet ==
    ASSUME NEW S \in SUBSET Client, Cardinality(S) <= MaxClients,
           \A c \in Client \ S : state'[c] = "none"
    PROVE  CapacityRespected'
<1>1. Listed' \in SUBSET S
    BY DEF Listed
<1>2. IsFiniteSet(S)
    BY ClientAssumption, FS_Subset
<1>3. Cardinality(Listed') <= Cardinality(S) /\ IsFiniteSet(Listed')
    BY <1>1, <1>2, FS_Subset
<1>4. Cardinality(Listed') \in Nat /\ Cardinality(S) \in Nat
    BY <1>2, <1>3, FS_CardinalityType
<1>5. Cardinality(Listed') <= MaxClients
    BY <1>3, <1>4, LimitAssumption
<1>6. CapacityRespected' <=> Cardinality(Listed') <= MaxClients
    BY DEF CapacityRespected, Listed
<1> QED BY <1>5, <1>6

(* The abstract limit is the engine's retention limit.                      *)
LEMMA WithinCapacityFacts ==
    TypeOK' /\ CapacityRespected' => Abstract!WithinCapacity
<1>1. Abstract!Known' = Listed'
    BY DEF Abstract!Known, Listed
<1>2. CapacityRespected' => Cardinality(Listed') <= MaxClients
    BY DEF CapacityRespected, Listed
<1>3. CapacityRespected' => WithinLimit(Abstract!Known')
    BY <1>1, <1>2 DEF WithinLimit
<1> QED BY <1>3 DEF TypeOK, Presence, Abstract!WithinCapacity

\* A step of the abstract specification, or none.
AbstractStep == Abstract!Next \/ UNCHANGED state

(* A step that changes no presence is no step of the abstract specification.*)
LEMMA QuietStep ==
    ASSUME TypeOK, TypeOK', CapacityRespected,
           \A c \in Client : state'[c] = state[c]
    PROVE  CapacityRespected' /\ AbstractStep
<1>1. state' = state
    BY DEF TypeOK
<1> QED BY <1>1, RoomIsKept DEF AbstractStep

(* A step that only makes present clients unknown.                          *)
LEMMA LossStep ==
    ASSUME TypeOK, TypeOK', CapacityRespected,
           \A c \in Client : \/ state'[c] = state[c]
                             \/ state[c] = "present" /\ state'[c] = "unknown"
    PROVE  CapacityRespected' /\ AbstractStep
<1>1. CapacityRespected'
    BY RoomIsKept
<1>2. Abstract!Lose
    BY <1>1, WithinCapacityFacts DEF Abstract!Lose, Abstract!Keeps
<1> QED BY <1>1, <1>2 DEF AbstractStep, Abstract!Next

(* A step within the limit that does to every client what a snapshot may.   *)
LEMMA SnapshotStep ==
    ASSUME TypeOK', CapacityRespected',
           \A c \in Client :
              \/ state'[c] = state[c]
              \/ state[c] \in {"absent", "unknown"} /\ state'[c] = "none"
              \/ state'[c] = "present"
              \/ state[c] \in {"present", "unknown"} /\ state'[c] = "absent"
              \/ state[c] = "present" /\ state'[c] = "unknown"
    PROVE  AbstractStep
<1>1. Abstract!Resynchronize
    BY WithinCapacityFacts
    DEF Abstract!Resynchronize, Abstract!Keeps, Abstract!MayForget
<1> QED BY <1>1 DEF AbstractStep, Abstract!Next

(* Associate is an abstract arrival.                                        *)
LEMMA StepAssociate ==
    ASSUME TypeOK, TypeOK', CapacityRespected,
           NEW k \in Conns, NEW c \in Client, Associate(k, c)
    PROVE  CapacityRespected' /\ AbstractStep
<1>1. PICK E \in evictOldestNonPresent(Excess({c}), {c}) :
        state' = [Unlist(E) EXCEPT ![c] = "present"]
    BY DEF Associate
<1>2. \A d \in E : d # c /\ d \in Client /\ state[d] \in {"absent", "unknown"}
    BY EvictionFacts
<1>3. state'[c] = "present"
    BY <1>1 DEF Unlist
<1>4. \A d \in Client \ {c} :
        state'[d] = IF d \in E THEN "none" ELSE state[d]
    BY <1>1 DEF Unlist
<1>5. CapacityRespected'
    <2> DEFINE S == (Listed \ E) \cup {c}
    <2>1. S \in SUBSET Client
        BY DEF Listed
    <2>2. Cardinality(S) <= MaxClients
        BY RoomIsMade
    <2>3. \A d \in Client \ S : state'[d] = "none"
        BY <1>4 DEF Listed
    <2> HIDE DEF S
    <2> QED BY <2>1, <2>2, <2>3, RoomForSet
<1>6. Abstract!Arrive
    BY <1>2, <1>3, <1>4, <1>5, WithinCapacityFacts
    DEF Abstract!Arrive, Abstract!Keeps, Abstract!MayForget
<1> QED BY <1>5, <1>6 DEF AbstractStep, Abstract!Next

(* Disassociate is an abstract loss or changes no presence.                 *)
LEMMA StepDisassociate ==
    ASSUME Sound, TypeOK', CapacityRespected,
           NEW k \in Conns, NEW c \in Client, Disassociate(k, c)
    PROVE  CapacityRespected' /\ AbstractStep
<1>1. TypeOK /\ SoundFor(c)
    BY SoundIsPerClient
<1>2. CASE IgnoreDisassociate(k, c) \/ HoldConn(k, c)
    <2>1. \A d \in Client : state'[d] = state[d]
        BY <1>2 DEF IgnoreDisassociate, HoldConn
    <2> QED BY <1>1, <2>1, QuietStep
<1>3. CASE RemoveConn(k, c)
    <2>1. /\ conns'[c] = [conns[c] EXCEPT ![k] = "none"]
          /\ state'[c] = reducedState(conns'[c], "unknown")
          /\ \A d \in Client \ {c} : state'[d] = state[d]
        BY <1>1, <1>3 DEF RemoveConn, DepartedState, TypeOK
    <2>2. state[c] \notin {"none", "absent"} /\ state[c] \in Presence
        BY <1>1, <1>3 DEF RemoveConn, SoundFor, Linked, TypeOK
    <2>3. conns[c] \in [Conns -> Link] /\ conns'[c] \in [Conns -> Link]
        BY <1>1 DEF TypeOK
    <2>4. state'[c] \in {"present", "unknown"}
        BY <2>1 DEF reducedState
    <2>5. state'[c] = "present" => state[c] = "present"
        <3>1. state'[c] = "present" => Live(conns'[c]) # {}
            BY <2>1, <2>3, ReducedStateFacts
        <3>2. Live(conns'[c]) \subseteq Live(conns[c])
            BY <2>1, <2>3 DEF Live
        <3> QED BY <1>1, <3>1, <3>2 DEF SoundFor
    <2>6. \A d \in Client : \/ state'[d] = state[d]
                            \/ state[d] = "present" /\ state'[d] = "unknown"
        BY <2>1, <2>2, <2>4, <2>5 DEF Presence
    <2> QED BY <1>1, <2>6, LossStep
<1> QED BY <1>2, <1>3 DEF Disassociate

(* Reconcile is an abstract resynchronization.                              *)
LEMMA StepReconcile ==
    ASSUME Sound, TypeOK', CapacityRespected, NEW p \in Provider,
           NEW stations \in [ConnsOf(p) -> SUBSET Client], Reconcile(p, stations)
    PROVE  CapacityRespected' /\ AbstractStep
<1> DEFINE K == ConnsOf(p)
           W == Wanted(K, stations)
           L(E) == (Listed \ E) \cup W
<1>1. PICK E \in evictOldestNonPresent(Excess(W), W),
           kept \in KeptChoices(p, K, stations) :
        /\ conns' = MergedConns(K, stations, kept, E)
        /\ state' = [d \in Client |->
             IF d \in L(E) THEN reducedState(conns'[d], "absent") ELSE "none"]
    BY DEF Reconcile
<1>2. Merging(p, K, stations, kept)
    BY SourceFacts DEF Merging, Reconcile
<1>3. W \in SUBSET Client
    BY DEF Wanted
<1>4. \A d \in E : d \notin W /\ d \in Client /\ state[d] \in {"absent", "unknown"}
    BY EvictionFacts
<1>5. CapacityRespected'
    <2> DEFINE S == (Listed \ E) \cup W
    <2>1. S \in SUBSET Client
        BY <1>3 DEF Listed
    <2>2. Cardinality(S) <= MaxClients
        BY <1>3, RoomIsMade
    <2>3. \A d \in Client \ S : state'[d] = "none"
        BY <1>1
    <2> HIDE DEF S
    <2> QED BY <2>1, <2>2, <2>3, RoomForSet
<1>6. ASSUME NEW c \in Client
      PROVE  \/ state'[c] = state[c]
             \/ state[c] \in {"absent", "unknown"} /\ state'[c] = "none"
             \/ state'[c] = "present"
             \/ state[c] \in {"present", "unknown"} /\ state'[c] = "absent"
             \/ state[c] = "present" /\ state'[c] = "unknown"
    <2>1. /\ conns'[c] \in [Conns -> Link] /\ state[c] \in Presence
          /\ conns'[c] = MergedConns(K, stations, kept, E)[c]
        BY <1>1 DEF TypeOK, Sound
    <2>2. CASE c \in W
        <3>1. c \notin E
            BY <1>4, <2>2
        <3>2. Live(conns'[c]) # {}
            BY <1>2, <2>1, <2>2, <3>1, MergedListed
        <3>3. state'[c] = reducedState(conns'[c], "absent")
            BY <1>1, <2>2
        <3> QED BY <2>1, <3>2, <3>3, ReducedStateFacts
    <2>3. CASE c \notin W /\ c \in E
        BY <1>1, <1>4, <2>3
    <2>4. CASE c \notin W /\ c \notin E /\ state[c] = "none"
        BY <1>1, <2>4 DEF Listed
    <2>5. CASE c \notin W /\ c \notin E /\ state[c] = "absent"
        <3>1. Linked(conns'[c]) = {}
            BY <1>2, <2>1, <2>5, MergedUnlisted
        <3>2. Live(conns'[c]) \subseteq Linked(conns'[c])
            BY DEF Live, Linked
        <3>3. state'[c] = reducedState(conns'[c], "absent")
            BY <1>1, <2>5 DEF Listed
        <3> QED BY <2>5, <3>1, <3>2, <3>3 DEF reducedState
    <2>6. CASE c \notin W /\ c \notin E /\ state[c] \in {"present", "unknown"}
        <3>1. state'[c] = reducedState(conns'[c], "absent")
            BY <1>1, <2>6 DEF Listed
        <3>2. state'[c] \in {"present", "absent", "unknown"}
            BY <2>1, <3>1, ReducedStateFacts
        <3> QED BY <2>6, <3>2
    <2> QED BY <2>1, <2>2, <2>3, <2>4, <2>5, <2>6 DEF Presence
<1>7. AbstractStep
    BY <1>5, <1>6, SnapshotStep
<1> QED BY <1>5, <1>7

(* ReconcileSource is an abstract resynchronization.                        *)
LEMMA StepReconcileSource ==
    ASSUME Sound, TypeOK', CapacityRespected,
           NEW k \in Conns, NEW ids \in SUBSET Client, ReconcileSource(k, ids)
    PROVE  CapacityRespected' /\ AbstractStep
<1> DEFINE p == ProviderOf(k)
           K == {k}
           stations == [j \in K |-> ids]
           affected(E) == {d \in Client \ E : conns'[d] # conns[d]}
<1>1. PICK E \in evictOldestNonPresent(Excess(ids), ids),
           kept \in KeptChoices(p, K, stations) :
        /\ conns' = MergedConns(K, stations, kept, E)
        /\ state' = [d \in Client |->
             IF d \in affected(E) THEN reducedState(conns'[d], "absent")
                                  ELSE Unlist(E)[d]]
    BY DEF ReconcileSource
<1>2. Merging(p, K, stations, kept)
    <2>1. p \in Provider /\ K \in SUBSET ConnsOf(p)
        BY DEF ProviderOf, ConnsOf, Conns, Provider, WiFi, Wired
    <2>2. Observing(p)
        BY DEF ReconcileSource
    <2> QED BY <2>1, <2>2 DEF Merging
<1>3. Wanted(K, stations) = ids
    BY DEF Wanted
<1>4. \A d \in E : d \notin ids /\ d \in Client /\ state[d] \in {"absent", "unknown"}
    BY EvictionFacts
<1>5. ASSUME NEW c \in Client, c \notin ids, c \notin E, state[c] \in {"none", "absent"}
      PROVE  conns'[c] = conns[c]
    <2>1. /\ conns'[c] \in [Conns -> Link] /\ conns[c] \in [Conns -> Link]
          /\ conns'[c] = MergedConns(K, stations, kept, E)[c]
        BY <1>1 DEF TypeOK, Sound
    <2>2. Linked(conns'[c]) = {}
        <3> HIDE DEF K, p, stations
        <3> QED BY <1>2, <1>3, <1>5, <2>1, MergedUnlisted
    <2>3. Linked(conns[c]) = {}
        BY <1>5, SoundIsPerClient DEF SoundFor
    <2>4. \A j \in Conns : conns'[c][j] = "none" /\ conns[c][j] = "none"
        BY <2>2, <2>3 DEF Linked
    <2> QED BY <2>1, <2>4
<1>6. CapacityRespected'
    <2> DEFINE S == (Listed \ E) \cup ids
    <2>1. S \in SUBSET Client
        BY DEF Listed
    <2>2. Cardinality(S) <= MaxClients
        BY RoomIsMade
    <2>3. ASSUME NEW d \in Client \ S PROVE state'[d] = "none"
        <3>1. CASE d \in E
            BY <1>1, <3>1 DEF Unlist
        <3>2. CASE d \notin E
            <4>1. state[d] = "none" /\ d \notin ids
                BY <3>2 DEF Listed
            <4>2. conns'[d] = conns[d]
                BY <1>5, <3>2, <4>1
            <4> QED BY <1>1, <3>2, <4>1, <4>2 DEF Unlist
        <3> QED BY <3>1, <3>2
    <2> HIDE DEF S
    <2> QED BY <2>1, <2>2, <2>3, RoomForSet
<1>7. ASSUME NEW c \in Client
      PROVE  \/ state'[c] = state[c]
             \/ state[c] \in {"absent", "unknown"} /\ state'[c] = "none"
             \/ state'[c] = "present"
             \/ state[c] \in {"present", "unknown"} /\ state'[c] = "absent"
             \/ state[c] = "present" /\ state'[c] = "unknown"
    <2>1. /\ conns'[c] \in [Conns -> Link] /\ state[c] \in Presence
          /\ conns'[c] = MergedConns(K, stations, kept, E)[c]
        BY <1>1 DEF TypeOK, Sound
    <2>2. CASE c \in E
        BY <1>1, <1>4, <2>2 DEF Unlist
    <2>3. CASE c \notin E /\ conns'[c] = conns[c]
        BY <1>1, <2>3 DEF Unlist
    <2>4. CASE c \in affected(E) /\ c \in ids
        <3>1. Live(conns'[c]) # {}
            <4> HIDE DEF K, p, stations
            <4> QED BY <1>2, <1>3, <2>1, <2>4, MergedListed
        <3>2. state'[c] = reducedState(conns'[c], "absent")
            BY <1>1, <2>4
        <3> QED BY <2>1, <3>1, <3>2, ReducedStateFacts
    <2>5. CASE c \in affected(E) /\ c \notin ids
        <3>1. state[c] \in {"present", "unknown"}
            BY <1>5, <2>1, <2>5 DEF Presence
        <3>2. state'[c] = reducedState(conns'[c], "absent")
            BY <1>1, <2>5
        <3>3. state'[c] \in {"present", "absent", "unknown"}
            BY <2>1, <3>2, ReducedStateFacts
        <3> QED BY <3>1, <3>3
    <2> QED BY <2>2, <2>3, <2>4, <2>5
<1>8. AbstractStep
    BY <1>6, <1>7, SnapshotStep
<1> QED BY <1>6, <1>8

(* A refused snapshot is an abstract resynchronization that only forgets.   *)
LEMMA StepRefuseSnapshot ==
    ASSUME TypeOK, TypeOK', CapacityRespected, NEW p, NEW W, RefuseSnapshot(p, W)
    PROVE  CapacityRespected' /\ AbstractStep
<1>1. \A c \in Evictable(W) : state[c] \in {"absent", "unknown"}
    BY DEF Evictable, Rank
<1>2. \A c \in Client :
        state'[c] = IF c \in Evictable(W) THEN "none" ELSE state[c]
    BY DEF RefuseSnapshot, Unlist
<1>3. CapacityRespected'
    BY <1>2, RoomIsKept
<1>4. AbstractStep
    BY <1>1, <1>2, <1>3, SnapshotStep
<1> QED BY <1>3, <1>4

(* SetProvider is an abstract loss or changes no presence.                  *)
LEMMA StepSetProvider ==
    ASSUME Sound, TypeOK', CapacityRespected,
           NEW p \in Provider, NEW r \in Report, SetProvider(p, r)
    PROVE  CapacityRespected' /\ AbstractStep
<1>1. TypeOK
    BY DEF Sound
<1>2. CASE MarkUnavailable(p, r)
    <2>1. ASSUME NEW c \in Client
          PROVE  \/ state'[c] = state[c]
                 \/ state[c] = "present" /\ state'[c] = "unknown"
        <3>1. CASE c \notin LosesLive(p)
            BY <1>2, <3>1 DEF MarkUnavailable
        <3>2. CASE c \in LosesLive(p)
            <4>1. Live(conns[c]) # {}
                BY <3>2 DEF LosesLive
            <4>2. state[c] = "present"
                BY <4>1, SoundIsPerClient DEF SoundFor
            <4>3. state'[c] = reducedState(conns'[c], "unknown")
                BY <1>2, <3>2 DEF MarkUnavailable
            <4> QED BY <4>2, <4>3 DEF reducedState
        <3> QED BY <3>1, <3>2
    <2> QED BY <1>1, <2>1, LossStep
<1>3. CASE UNCHANGED <<state, conns, pending>>
    BY <1>1, <1>3, QuietStep
<1> QED BY <1>2, <1>3 DEF SetProvider

(* The sweeper makes an abstract loss.                                      *)
LEMMA StepSweep ==
    ASSUME Sound, TypeOK', CapacityRespected, sweepPending
    PROVE  CapacityRespected' /\ AbstractStep
<1>1. TypeOK
    BY DEF Sound
<1>2. ASSUME NEW c \in Client
      PROVE  \/ state'[c] = state[c]
             \/ state[c] = "present" /\ state'[c] = "unknown"
    <2>1. CASE c \notin Departing
        BY <2>1 DEF sweepPending
    <2>2. CASE c \in Departing
        <3>1. state[c] = "present"
            BY <2>2, SoundIsPerClient DEF SoundFor, Departing, Expired
        <3>2. state'[c] = reducedState(conns'[c], "unknown")
            BY <2>2 DEF sweepPending, DepartedState
        <3> QED BY <3>1, <3>2 DEF reducedState
    <2> QED BY <2>1, <2>2
<1> QED BY <1>1, <1>2, LossStep

(* Every operation maps to an abstract step or to none.                     *)
LEMMA StepNext ==
    ASSUME Sound, CapacityRespected, [Next]_vars
    PROVE  CapacityRespected' /\ AbstractStep
<1>0. TypeOK /\ TypeOK'
    BY TypeNext DEF Sound
<1>1. ASSUME NEW k \in Conns, NEW c \in Client, Apply(k, c)
      PROVE  CapacityRespected' /\ AbstractStep
    <2>1. CASE Associate(k, c)
        BY <1>0, <2>1, StepAssociate
    <2>2. CASE Disassociate(k, c)
        BY <1>0, <2>2, StepDisassociate
    <2>3. CASE RefuseObservation(c)
        BY <1>0, <2>3, QuietStep DEF RefuseObservation
    <2> QED BY <1>1, <2>1, <2>2, <2>3 DEF Apply
<1>2. ASSUME NEW p \in Provider, NEW stations \in [ConnsOf(p) -> SUBSET Client],
             Reconcile(p, stations)
      PROVE  CapacityRespected' /\ AbstractStep
    BY <1>0, <1>2, StepReconcile
<1>3. ASSUME NEW k \in Conns, NEW ids \in SUBSET Client, ReconcileSource(k, ids)
      PROVE  CapacityRespected' /\ AbstractStep
    BY <1>0, <1>3, StepReconcileSource
<1>4. ASSUME NEW p, NEW W, RefuseSnapshot(p, W)
      PROVE  CapacityRespected' /\ AbstractStep
    BY <1>0, <1>4, StepRefuseSnapshot
<1>5. ASSUME NEW p \in Provider, NEW r \in Reports(p), SetProvider(p, r)
      PROVE  CapacityRespected' /\ AbstractStep
    <2>1. r \in Report
        BY ReportFacts
    <2> QED BY <1>0, <1>5, <2>1, StepSetProvider
<1>6. CASE sweepPending
    BY <1>0, <1>6, StepSweep
<1>7. CASE Tick
    BY <1>0, <1>7, QuietStep DEF Tick
<1>8. CASE UNCHANGED vars
    BY <1>0, <1>8, QuietStep DEF vars
<1> QED
    BY <1>1, <1>2, <1>3, <1>4, <1>5, <1>6, <1>7, <1>8 DEF Next, Running, Conns

(* A new engine is within its limit.                                        *)
LEMMA CapacityInit == Init => CapacityRespected
<1> SUFFICES ASSUME Init PROVE CapacityRespected
    OBVIOUS
<1>1. Listed = {}
    BY DEF Init, Listed
<1> QED BY <1>1, FS_EmptySet, LimitAssumption DEF CapacityRespected

(* The engine never lists more than MaxClients clients.                     *)
THEOREM CapacityCorrect == Spec => []CapacityRespected
<1>1. Sound /\ CapacityRespected /\ [Next]_vars => CapacityRespected'
    BY StepNext
<1> QED BY <1>1, CapacityInit, SoundInvariant, PTL DEF Spec

(* The engine implements the abstract specification of presence.            *)
THEOREM PresenceImplemented == Spec => ImplementsPresence
<1>1. Init => Abstract!Init
    BY DEF Init, Abstract!Init
<1>2. Sound /\ CapacityRespected /\ [Next]_vars => [Abstract!Next]_state
    BY StepNext DEF AbstractStep
<1> QED
    BY <1>1, <1>2, SoundInvariant, CapacityCorrect, PTL
    DEF Spec, ImplementsPresence, Abstract!Spec
=============================================================================
