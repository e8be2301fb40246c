-------------------------- MODULE EngineStepProofs --------------------------
(***************************************************************************)
(* What a step of the engine may do, and may never do: the action          *)
(* properties of Engine, and that without grace a live connection rests on *)
(* the latest word of its source.  As in EngineProofs, for every set of    *)
(* clients and sources, every limit and every grace period.                *)
(***************************************************************************)
EXTENDS EngineProofs

-----------------------------------------------------------------------------
(***************************************************************************)
(* Holds.  A step clears a hold, keeps it as it is, or lets it count down. *)
(***************************************************************************)
HoldShrinks(c) ==
    pending[c] # None /\ pending'[c] # None =>
        /\ pending'[c].conn = pending[c].conn
        /\ pending'[c].left <= pending[c].left

(* A step that clears the hold of a client, or leaves it alone.             *)
LEMMA HoldKept ==
    ASSUME TypeOK, NEW c \in Client, pending'[c] \in {None, pending[c]}
    PROVE  HoldShrinks(c)
<1>1. pending[c] # None => pending[c].left \in 0..Grace
    BY NoneAssumption DEF TypeOK, Hold
<1>2. pending[c] # None => pending[c].left <= pending[c].left
    BY <1>1, TimeAssumption
<1> QED BY <1>2 DEF HoldShrinks

(* Neither a snapshot nor a repeated loss starts a running window anew.     *)
LEMMA HoldEnsured ==
    ASSUME TypeOK, NEW c \in Client, NEW k,
           pending'[c] \in {None, pending[c], ensurePending(c, k)}
    PROVE  HoldShrinks(c)
<1>1. CASE pending[c] = None
    BY <1>1 DEF HoldShrinks
<1>2. CASE pending[c] # None
    <2>1. ensurePending(c, k) = pending[c]
        BY <1>2 DEF ensurePending
    <2> QED BY <2>1, HoldKept
<1> QED BY <1>1, <1>2

(* What each operation does to a hold.                                      *)
LEMMA HoldNext ==
    ASSUME TypeOK, [Next]_vars, NEW c \in Client
    PROVE  HoldShrinks(c)
<1>1. ASSUME NEW S, pending' = ClearHolds(S)
      PROVE  HoldShrinks(c)
    <2>1. pending'[c] \in {None, pending[c]}
        BY <1>1 DEF ClearHolds
    <2> QED BY <2>1, HoldKept
<1>2. ASSUME UNCHANGED pending PROVE HoldShrinks(c)
    BY <1>2, HoldKept
<1>3. ASSUME NEW k \in Conns, NEW d \in Client, Apply(k, d)
      PROVE  HoldShrinks(c)
    <2>1. CASE Associate(k, d)
        BY <1>1, <2>1 DEF Associate
    <2>2. CASE Disassociate(k, d)
        <3>1. CASE HoldConn(k, d)
            <4>1. pending'[c] \in {pending[c], ensurePending(c, k)}
                BY <3>1 DEF HoldConn, TypeOK
            <4> QED BY <4>1, HoldEnsured
        <3>2. CASE IgnoreDisassociate(k, d) \/ RemoveConn(k, d)
            BY <1>2, <3>2 DEF IgnoreDisassociate, RemoveConn
        <3> QED BY <2>2, <3>1, <3>2 DEF Disassociate
    <2>3. CASE RefuseObservation(d)
        BY <1>2, <2>3 DEF RefuseObservation
    <2> QED BY <1>3, <2>1, <2>2, <2>3 DEF Apply
<1>4. ASSUME NEW W, NEW kept, NEW E, pending' = MergedHolds(W, kept, E)
      PROVE  HoldShrinks(c)
    <2>1. pending'[c] \in {None, pending[c], ensurePending(c, kept[c])}
        BY <1>4 DEF MergedHolds
    <2> QED BY <2>1, HoldEnsured
<1>5. ASSUME NEW p, NEW stations, Reconcile(p, stations) PROVE HoldShrinks(c)
    BY <1>4, <1>5 DEF Reconcile
<1>6. ASSUME NEW k, NEW ids, ReconcileSource(k, ids) PROVE HoldShrinks(c)
    BY <1>4, <1>6 DEF ReconcileSource
<1>7. ASSUME NEW p, NEW W, RefuseSnapshot(p, W) PROVE HoldShrinks(c)
    BY <1>1, <1>7 DEF RefuseSnapshot
<1>8. ASSUME NEW p, NEW r, SetProvider(p, r) PROVE HoldShrinks(c)
    BY <1>1, <1>2, <1>8 DEF SetProvider, MarkUnavailable
<1>9. CASE sweepPending
    BY <1>1, <1>9 DEF sweepPending
<1>10. CASE Tick
    BY <1>10, TickFacts DEF HoldShrinks
<1>11. CASE UNCHANGED vars
    BY <1>2, <1>11 DEF vars
<1> QED
    BY <1>3, <1>5, <1>6, <1>7, <1>8, <1>9, <1>10, <1>11 DEF Next

(* Nothing ever extends a running reconnection window or moves it to        *)
(* another connection, whatever losses are repeated.                        *)
THEOREM HoldsOnlyShrink == Spec => HoldNeverExtended
<1> DEFINE Shrinks == \A c \in Client : HoldShrinks(c)
<1>1. TypeOK /\ [Next]_vars => Shrinks
    BY HoldNext
<1>2. TypeOK /\ [Next]_vars =>
        [\A c \in Client : pending[c] # None /\ pending'[c] # None =>
            /\ pending'[c].conn = pending[c].conn
            /\ pending'[c].left <= pending[c].left]_vars
    BY <1>1 DEF HoldShrinks
<1> QED BY <1>2, TypeCorrect, PTL DEF Spec, HoldNeverExtended

-----------------------------------------------------------------------------
(***************************************************************************)
(* Absence.  Only reducedState over "absent" makes a client absent, and    *)
(* only an accepted snapshot applies it, which it announces.               *)
(***************************************************************************)
AbsenceAnnounced(c) ==
    state'[c] = "absent" /\ state[c] # "absent" =>
        \E p \in Provider : Resynchronized(p) \in emitted'

(* What each operation does to a client that is not absent.                 *)
LEMMA AbsenceNext ==
    ASSUME TypeOK, [Next]_vars, NEW c \in Client
    PROVE  AbsenceAnnounced(c)
<1>1. ASSUME state'[c] \in {state[c], "none", "present"} PROVE AbsenceAnnounced(c)
    BY <1>1 DEF AbsenceAnnounced
<1>2. ASSUME NEW cs, state'[c] = reducedState(cs, "unknown")
      PROVE  AbsenceAnnounced(c)
    BY <1>2 DEF AbsenceAnnounced, reducedState
<1>3. ASSUME NEW k \in Conns, NEW d \in Client, Apply(k, d)
      PROVE  AbsenceAnnounced(c)
    <2>1. CASE Associate(k, d)
        BY <1>1, <2>1 DEF Associate, Unlist
    <2>2. CASE Disassociate(k, d)
        <3>1. CASE RemoveConn(k, d) /\ c = d
            <4>1. state'[c] = reducedState(conns'[c], "unknown")
                BY <3>1 DEF RemoveConn, DepartedState, TypeOK
            <4> QED BY <1>2, <4>1
        <3>2. CASE ~(RemoveConn(k, d) /\ c = d)
            <4>1. state'[c] = state[c]
                BY <2>2, <3>2
                DEF Disassociate, IgnoreDisassociate, HoldConn, RemoveConn, TypeOK
            <4> QED BY <1>1, <4>1
        <3> QED BY <3>1, <3>2
    <2>3. CASE RefuseObservation(d)
        BY <1>1, <2>3 DEF RefuseObservation
    <2> QED BY <1>3, <2>1, <2>2, <2>3 DEF Apply
<1>4. ASSUME NEW p \in Provider, Resynchronized(p) \in emitted'
      PROVE  AbsenceAnnounced(c)
    BY <1>4 DEF AbsenceAnnounced
<1>5. ASSUME NEW p \in Provider, NEW stations, Reconcile(p, stations)
      PROVE  AbsenceAnnounced(c)
    BY <1>4, <1>5 DEF Reconcile
<1>6. ASSUME NEW k \in Conns, NEW ids, ReconcileSource(k, ids)
      PROVE  AbsenceAnnounced(c)
    BY <1>4, <1>6, SourceFacts DEF ReconcileSource
<1>7. ASSUME NEW p, NEW W, RefuseSnapshot(p, W) PROVE AbsenceAnnounced(c)
    BY <1>1, <1>7 DEF RefuseSnapshot, Unlist
<1>8. ASSUME NEW p, NEW r, SetProvider(p, r) PROVE AbsenceAnnounced(c)
    <2>1. CASE MarkUnavailable(p, r)
        BY <1>1, <1>2, <2>1 DEF MarkUnavailable
    <2>2. CASE UNCHANGED state
        BY <1>1, <2>2
    <2> QED BY <1>8, <2>1, <2>2 DEF SetProvider
<1>9. CASE sweepPending
    BY <1>1, <1>2, <1>9 DEF sweepPending, DepartedState
<1>10. CASE Tick \/ UNCHANGED vars
    BY <1>1, <1>10 DEF Tick, vars
<1> QED
    BY <1>3, <1>5, <1>6, <1>7, <1>8, <1>9, <1>10 DEF Next, Running, Conns

(* Lost events, expired holds, outages and evictions never make a client    *)
(* absent: only an authoritative snapshot does, in a step that says so.     *)
THEOREM AbsenceNeedsSnapshot == Spec => AbsenceIsAuthoritative
<1>1. TypeOK /\ [Next]_vars =>
        [\A c \in Client : state'[c] = "absent" /\ state[c] # "absent" =>
            \E p \in Provider : Resynchronized(p) \in emitted']_vars
    BY AbsenceNext DEF AbsenceAnnounced
<1> QED BY <1>1, TypeCorrect, PTL DEF Spec, AbsenceIsAuthoritative

-----------------------------------------------------------------------------
(***************************************************************************)
(* Events.  Every operation removes some clients E, tells of some clients  *)
(* T, and adds events X of other types.  It announces the presences        *)
(* rightly when E and T are disjoint and leave nobody out who changed.     *)
(***************************************************************************)
Announced(c) ==
    /\ state'[c] # state[c] =>
         EventsAbout(c) =
           ClientEvent(IF state'[c] = "none" THEN "client.removed"
                         ELSE "client.presence_changed", {c})
    /\ state'[c] = state[c] =>
         EventsAbout(c) \subseteq ClientEvent("client.updated", {c})

(* The events of such an operation about one client.                        *)
LEMMA AnnouncedBy ==
    ASSUME NEW c \in Client, NEW E, NEW T, NEW X,
           \A e \in X : e.type \notin ClientEventType,
           emitted' = ClientEvent("client.removed", E)
                        \cup ClientEvents(T, state') \cup X,
           c \in E => c \notin T /\ state'[c] = "none" /\ state[c] # "none",
           c \in T => state'[c] # "none",
           c \notin E \cup T => state'[c] = state[c]
    PROVE  Announced(c)
<1> DEFINE Removed == [type |-> "client.removed", about |-> c]
           Changed == [type |-> "client.presence_changed", about |-> c]
           Updated == [type |-> "client.updated", about |-> c]
           P == PresenceChanged(T, state')
<1>1. \A type, S, e :
        e \in ClientEvent(type, S) /\ e.about = c =>
            c \in S /\ e = [type |-> type, about |-> c]
    BY DEF ClientEvent
<1>2. \A type, S : c \in S => [type |-> type, about |-> c] \in ClientEvent(type, S)
    BY DEF ClientEvent
<1>3. /\ "client.removed" \in ClientEventType
      /\ "client.presence_changed" \in ClientEventType
      /\ "client.updated" \in ClientEventType
    BY DEF ClientEventType
<1>4. \A e \in EventsAbout(c) :
        \/ c \in E /\ e = Removed
        \/ c \in P /\ e = Changed
        \/ c \in T \ P /\ e = Updated
    BY <1>1, <1>3 DEF EventsAbout, ClientEvents
<1>5. /\ c \in E => Removed \in EventsAbout(c)
      /\ c \in P => Changed \in EventsAbout(c)
    BY <1>2, <1>3 DEF EventsAbout, ClientEvents
<1>6. c \in P <=> c \in T /\ state'[c] # state[c]
    BY DEF PresenceChanged
<1>7. \A type : ClientEvent(type, {c}) = {[type |-> type, about |-> c]}
    BY DEF ClientEvent
<1> HIDE DEF Removed, Changed, Updated, P
<1>8. CASE c \in E
    <2>1. EventsAbout(c) = {Removed} /\ state'[c] # state[c] /\ state'[c] = "none"
        BY <1>4, <1>5, <1>6, <1>8
    <2> QED BY <1>7, <2>1 DEF Announced, Removed
<1>9. CASE c \notin E /\ state'[c] # state[c]
    <2>1. EventsAbout(c) = {Changed} /\ state'[c] # "none"
        BY <1>4, <1>5, <1>6, <1>9
    <2> QED BY <1>7, <1>9, <2>1 DEF Announced, Changed
<1>10. CASE c \notin E /\ state'[c] = state[c]
    <2>1. EventsAbout(c) \subseteq {Updated}
        BY <1>4, <1>6, <1>10
    <2> QED BY <1>7, <1>10, <2>1 DEF Announced, Updated
<1> QED BY <1>8, <1>9, <1>10

(* The same for an operation that removes nobody.                           *)
LEMMA AnnouncedWithoutRemoval ==
    ASSUME NEW c \in Client, NEW T, NEW X,
           \A e \in X : e.type \notin ClientEventType,
           emitted' = X \cup ClientEvents(T, state'),
           c \in T => state'[c] # "none",
           c \notin T => state'[c] = state[c]
    PROVE  Announced(c)
<1>1. ClientEvent("client.removed", {}) = {}
    BY DEF ClientEvent
<1>2. emitted' = ClientEvent("client.removed", {})
                   \cup ClientEvents(T, state') \cup X
    BY <1>1
<1> QED BY <1>2, AnnouncedBy

(* An operation that tells of no client must not change any presence.       *)
LEMMA AnnouncedQuietly ==
    ASSUME NEW c \in Client,
           \A e \in emitted' : e.type \notin ClientEventType,
           state'[c] = state[c]
    PROVE  Announced(c)
<1>1. EventsAbout(c) = {}
    BY DEF EventsAbout
<1> QED BY <1>1 DEF Announced

(* Associate announces the client it makes present and those it evicts.     *)
LEMMA AnnouncedAssociate ==
    ASSUME TypeOK, NEW k \in Conns, NEW d \in Client, Associate(k, d),
           NEW c \in Client
    PROVE  Announced(c)
<1>1. PICK E \in evictOldestNonPresent(Excess({d}), {d}) :
        /\ state' = [Unlist(E) EXCEPT ![d] = "present"]
        /\ emitted' =
             ClientEvent("client.removed", E)
               \cup (IF state[d] = "present" /\ conns[d][k] # "none"
                       THEN {} ELSE ClientEvents({d}, state'))
    BY DEF Associate
<1>2. \A e \in E : e # d /\ state[e] \in {"absent", "unknown"}
    BY EvictionFacts
<1>3. state'[c] = IF c = d THEN "present" ELSE IF c \in E THEN "none" ELSE state[c]
    BY <1>1 DEF Unlist
<1> DEFINE T == IF state[d] = "present" /\ conns[d][k] # "none" THEN {} ELSE {d}
<1>4. ClientEvents({}, state') = {}
    BY DEF ClientEvents, ClientEvent, PresenceChanged
<1> DEFINE X == {}
<1>5. /\ emitted' = ClientEvent("client.removed", E) \cup ClientEvents(T, state') \cup X
      /\ \A e \in X : e.type \notin ClientEventType
    BY <1>1, <1>4
<1>6. /\ c \in E => c \notin T /\ state'[c] = "none" /\ state[c] # "none"
      /\ c \in T => state'[c] # "none"
      /\ c \notin E \cup T => state'[c] = state[c]
    BY <1>2, <1>3
<1> HIDE DEF T, X
<1> QED BY <1>5, <1>6, AnnouncedBy

(* Disassociate announces the client it takes the connection from.          *)
LEMMA AnnouncedDisassociate ==
    ASSUME TypeOK, TypeOK', NEW k \in Conns, NEW d \in Client, Disassociate(k, d),
           NEW c \in Client
    PROVE  Announced(c)
<1>1. CASE IgnoreDisassociate(k, d) \/ HoldConn(k, d)
    BY <1>1, AnnouncedQuietly DEF IgnoreDisassociate, HoldConn
<1>2. CASE RemoveConn(k, d)
    <2>1. state' = [state EXCEPT ![d] = DepartedState(conns'[d])]
        BY <1>2 DEF RemoveConn
    <2>2. DepartedState(conns'[d]) # "none"
        BY ReducedStateFacts DEF DepartedState, TypeOK
    <2> DEFINE T == {d}
               X == {}
    <2>3. /\ c \in T => state'[c] # "none"
          /\ c \notin T => state'[c] = state[c]
        BY <2>1, <2>2 DEF TypeOK
    <2>4. /\ emitted' = X \cup ClientEvents(T, state')
          /\ \A e \in X : e.type \notin ClientEventType
        BY <1>2 DEF RemoveConn
    <2> HIDE DEF T, X
    <2> QED BY <2>3, <2>4, AnnouncedWithoutRemoval
<1> QED BY <1>1, <1>2 DEF Disassociate

(* Reconcile announces every presence it derives differently.               *)
LEMMA AnnouncedReconcile ==
    ASSUME TypeOK, TypeOK', NEW p \in Provider,
           NEW stations \in [ConnsOf(p) -> SUBSET Client], Reconcile(p, stations),
           NEW c \in Client
    PROVE  Announced(c)
<1> DEFINE K == ConnsOf(p)
           W == Wanted(K, stations)
           L(E) == (Listed \ E) \cup W
           T(E) == PresenceChanged(L(E), state') \cup (Relinked(conns') \cap L(E))
           X == {Resynchronized(p)}
<1>1. PICK E \in evictOldestNonPresent(Excess(W), W) :
        /\ state' = [d \in Client |->
             IF d \in L(E) THEN reducedState(conns'[d], "absent") ELSE "none"]
        /\ emitted' = ClientEvent("client.removed", E)
                        \cup ClientEvents(T(E), state') \cup X
    BY DEF Reconcile
<1>2. \A e \in E : e \notin W /\ state[e] \in {"absent", "unknown"}
    BY EvictionFacts
<1>3. c \in L(E) => state'[c] # "none"
    <2>1. reducedState(conns'[c], "absent") # "none"
        BY ReducedStateFacts DEF TypeOK
    <2> QED BY <1>1, <2>1
<1>4. c \notin L(E) => state'[c] = "none" /\ (c \in E \/ state[c] = "none")
    BY <1>1 DEF Listed
<1>5. T(E) \subseteq L(E) /\ (c \in L(E) /\ c \notin T(E) => state'[c] = state[c])
    BY DEF PresenceChanged
<1>6. c \in E => c \notin L(E)
    BY <1>2
<1>7. /\ c \in E => c \notin T(E) /\ state'[c] = "none" /\ state[c] # "none"
      /\ c \in T(E) => state'[c] # "none"
      /\ c \notin E \cup T(E) => state'[c] = state[c]
    <2> HIDE DEF L, T
    <2> QED BY <1>2, <1>3, <1>4, <1>5, <1>6
<1>8. \A e \in X : e.type \notin ClientEventType
    BY DEF Resynchronized, ClientEventType
<1> HIDE DEF T, X
<1> QED BY <1>1, <1>7, <1>8, AnnouncedBy

(* ReconcileSource announces every client it affects.                       *)
LEMMA AnnouncedReconcileSource ==
    ASSUME TypeOK, TypeOK', NEW k \in Conns, NEW ids \in SUBSET Client,
           ReconcileSource(k, ids), NEW c \in Client
    PROVE  Announced(c)
<1> DEFINE p == ProviderOf(k)
           affected(E) == {d \in Client \ E : conns'[d] # conns[d]}
           X == {Resynchronized(p)}
<1>1. PICK E \in evictOldestNonPresent(Excess(ids), ids) :
        /\ state' = [d \in Client |->
             IF d \in affected(E) THEN reducedState(conns'[d], "absent")
                                  ELSE Unlist(E)[d]]
        /\ emitted' = ClientEvent("client.removed", E)
                        \cup ClientEvents(affected(E), state') \cup X
    BY DEF ReconcileSource
<1>2. \A e \in E : state[e] \in {"absent", "unknown"}
    BY EvictionFacts
<1>3. reducedState(conns'[c], "absent") # "none"
    BY ReducedStateFacts DEF TypeOK
<1>4. /\ c \in E => c \notin affected(E) /\ state'[c] = "none" /\ state[c] # "none"
      /\ c \in affected(E) => state'[c] # "none"
      /\ c \notin E \cup affected(E) => state'[c] = state[c]
    BY <1>1, <1>2, <1>3 DEF Unlist
<1>5. \A e \in X : e.type \notin ClientEventType
    BY DEF Resynchronized, ClientEventType
<1> HIDE DEF affected, X
<1> QED BY <1>1, <1>4, <1>5, AnnouncedBy

(* A refused snapshot announces whom it evicted.                            *)
LEMMA AnnouncedRefuseSnapshot ==
    ASSUME TypeOK, NEW p, NEW W, RefuseSnapshot(p, W), NEW c \in Client
    PROVE  Announced(c)
<1>1. /\ state' = Unlist(Evictable(W))
      /\ emitted' = ClientEvent("client.removed", Evictable(W))
    BY DEF RefuseSnapshot
<1>2. \A e \in Evictable(W) : state[e] # "none"
    BY DEF Evictable, Listed
<1>3. ClientEvents({}, state') = {}
    BY DEF ClientEvents, ClientEvent, PresenceChanged
<1>4. emitted' = ClientEvent("client.removed", Evictable(W))
                   \cup ClientEvents({}, state') \cup {}
    BY <1>1, <1>3
<1>5. /\ c \in Evictable(W) => state'[c] = "none" /\ state[c] # "none"
      /\ c \notin Evictable(W) => state'[c] = state[c]
    BY <1>1, <1>2 DEF Unlist
<1> QED BY <1>4, <1>5, AnnouncedBy

(* An outage announces everybody who loses a live connection.               *)
LEMMA AnnouncedSetProvider ==
    ASSUME TypeOK, TypeOK', NEW p, NEW r, SetProvider(p, r), NEW c \in Client
    PROVE  Announced(c)
<1>1. \A e \in ProviderEvent(p, r) : e.type \notin ClientEventType
    BY DEF ProviderEvent, ClientEventType
<1>2. CASE MarkUnavailable(p, r)
    <2>1. reducedState(conns'[c], "unknown") # "none"
        BY ReducedStateFacts DEF TypeOK
    <2>2. /\ c \in LosesLive(p) => state'[c] # "none"
          /\ c \notin LosesLive(p) => state'[c] = state[c]
        BY <1>2, <2>1 DEF MarkUnavailable
    <2>3. emitted' = ProviderEvent(p, r) \cup ClientEvents(LosesLive(p), state')
        BY <1>2 DEF MarkUnavailable
    <2> QED BY <1>1, <2>2, <2>3, AnnouncedWithoutRemoval
<1>3. CASE emitted' = ProviderEvent(p, r) /\ UNCHANGED state
    BY <1>1, <1>3, AnnouncedQuietly
<1> QED BY <1>2, <1>3 DEF SetProvider

(* The sweeper announces whose hold ends in a departure.                    *)
LEMMA AnnouncedSweep ==
    ASSUME TypeOK, TypeOK', sweepPending, NEW c \in Client
    PROVE  Announced(c)
<1>1. DepartedState(conns'[c]) # "none"
    BY ReducedStateFacts DEF DepartedState, TypeOK
<1>2. /\ c \in Departing => state'[c] # "none"
      /\ c \notin Departing => state'[c] = state[c]
    BY <1>1 DEF sweepPending
<1> DEFINE X == {}
<1>3. /\ emitted' = X \cup ClientEvents(Departing, state')
      /\ \A e \in X : e.type \notin ClientEventType
    BY DEF sweepPending
<1> HIDE DEF X
<1> QED BY <1>2, <1>3, AnnouncedWithoutRemoval

(* Every operation announces every change of presence.                      *)
LEMMA AnnouncedNext ==
    ASSUME TypeOK, Next, NEW c \in Client
    PROVE  Announced(c)
<1>0. TypeOK'
    BY TypeNext
<1>1. ASSUME NEW k \in Conns, NEW d \in Client, Apply(k, d)
      PROVE  Announced(c)
    <2>1. CASE Associate(k, d)
        BY <2>1, AnnouncedAssociate
    <2>2. CASE Disassociate(k, d)
        BY <1>0, <2>2, AnnouncedDisassociate
    <2>3. CASE RefuseObservation(d)
        BY <2>3, AnnouncedQuietly DEF RefuseObservation
    <2> QED BY <1>1, <2>1, <2>2, <2>3 DEF Apply
<1>2. ASSUME NEW p \in Provider, NEW stations \in [ConnsOf(p) -> SUBSET Client],
             Reconcile(p, stations)
      PROVE  Announced(c)
    BY <1>0, <1>2, AnnouncedReconcile
<1>3. ASSUME NEW k \in Conns, NEW ids \in SUBSET Client, ReconcileSource(k, ids)
      PROVE  Announced(c)
    BY <1>0, <1>3, AnnouncedReconcileSource
<1>4. ASSUME NEW p, NEW W, RefuseSnapshot(p, W) PROVE Announced(c)
    BY <1>4, AnnouncedRefuseSnapshot
<1>5. ASSUME NEW p, NEW r, SetProvider(p, r) PROVE Announced(c)
    BY <1>0, <1>5, AnnouncedSetProvider
<1>6. CASE sweepPending
    BY <1>0, <1>6, AnnouncedSweep
<1>7. CASE Tick
    BY <1>7, AnnouncedQuietly DEF Tick
<1> QED BY <1>1, <1>2, <1>3, <1>4, <1>5, <1>6, <1>7 DEF Next, Running, Conns

(* No operation changes a presence silently, announces one twice, or        *)
(* announces one that stays.                                                *)
THEOREM PresenceIsAnnounced == Spec => PresenceAnnounced
<1>1. TypeOK /\ Next => \A c \in Client : Announced(c)
    BY AnnouncedNext
<1>2. TypeOK /\ [Next]_vars =>
        [\A c \in Client :
           /\ state'[c] # state[c] =>
                EventsAbout(c) =
                  ClientEvent(IF state'[c] = "none" THEN "client.removed"
                                ELSE "client.presence_changed", {c})
           /\ state'[c] = state[c] =>
                EventsAbout(c) \subseteq ClientEvent("client.updated", {c})]_vars
    BY <1>1 DEF Announced
<1> QED BY <1>2, TypeCorrect, PTL DEF Spec, PresenceAnnounced

-----------------------------------------------------------------------------
(***************************************************************************)
(* Evidence.  Without grace nothing is held, so a connection goes with the *)
(* word of its source.  The condition is on one client and one source.     *)
(***************************************************************************)
BackedOn(c, k) == conns[c][k] = "live" => c \in evidence[k]

(* EvidenceBacked is that condition for every client and source.            *)
LEMMA BackedIsPerConn ==
    EvidenceBacked <=> \A c \in Client, k \in Conns : BackedOn(c, k)
BY DEF EvidenceBacked, BackedOn, Live

(* A step that makes no connection live and takes back no evidence.         *)
LEMMA BackedKept ==
    ASSUME NEW c \in Client, NEW k \in Conns, BackedOn(c, k),
           conns'[c][k] = "live" => conns[c][k] = "live",
           evidence'[k] = evidence[k]
    PROVE  BackedOn(c, k)'
BY DEF BackedOn

(* What an accepted snapshot leaves live is what it has, or what other      *)
(* sources had before.                                                      *)
LEMMA BackedMerged ==
    ASSUME TypeOK, Grace = 0, NEW p \in Provider, NEW K \in SUBSET Conns,
           NEW stations \in [K -> SUBSET Client],
           NEW kept \in KeptChoices(p, K, stations), NEW E,
           conns' = MergedConns(K, stations, kept, E),
           evidence' = MergedEvidence(K, stations),
           NEW c \in Client, NEW k \in Conns, BackedOn(c, k)
    PROVE  BackedOn(c, k)'
<1>1. kept[c] = None
    BY DEF KeptChoices, HoldsOnSnapshot
<1>2. kept[c] \notin Conns
    BY <1>1, NoneAssumption
<1>3. conns'[c][k] = IF c \in E \/ k \in Unwanted(K, stations, c) THEN "none"
                     ELSE IF k \in K /\ c \in stations[k] THEN "live" ELSE conns[c][k]
    BY <1>2 DEF MergedConns
<1>4. evidence'[k] = IF k \in K THEN stations[k] ELSE evidence[k]
    BY DEF MergedEvidence
<1>5. k \in K /\ c \notin stations[k] /\ k \notin Unwanted(K, stations, c)
        => conns[c][k] = "none"
    BY DEF Unwanted
<1> QED BY <1>3, <1>4, <1>5 DEF BackedOn

(* Every operation of an engine without grace keeps every connection backed.*)
LEMMA BackedNext ==
    ASSUME TypeOK, Grace = 0, [Next]_vars, NEW c \in Client, NEW k \in Conns,
           BackedOn(c, k)
    PROVE  BackedOn(c, k)'
<1>1. ASSUME NEW j \in Conns, NEW d \in Client, Apply(j, d)
      PROVE  BackedOn(c, k)'
    <2>1. CASE Associate(j, d)
        <3>1. PICK E : conns' = [Forgotten(E) EXCEPT ![d] = [conns[d] EXCEPT ![j] = "live"]]
            BY <2>1 DEF Associate
        <3>2. conns'[c][k] = "live" => conns[c][k] = "live" \/ (c = d /\ k = j)
            BY <3>1 DEF Forgotten, NoConns, TypeOK
        <3>3. evidence' = [evidence EXCEPT ![j] = @ \cup {d}]
            BY <2>1 DEF Associate
        <3>4. evidence[k] \subseteq evidence'[k] /\ (k = j => d \in evidence'[k])
            BY <3>3 DEF TypeOK
        <3> QED BY <3>2, <3>4 DEF BackedOn
    <2>2. CASE Disassociate(j, d)
        <3>1. evidence' = [evidence EXCEPT ![j] = @ \ {d}]
            BY <2>2 DEF Disassociate
        <3>2. c # d \/ k # j => (c \in evidence[k] => c \in evidence'[k])
            BY <3>1 DEF TypeOK
        <3>3. conns'[c][k] = "live" => conns[c][k] = "live" /\ ~(c = d /\ k = j)
            BY <2>2, TimeAssumption
            DEF Disassociate, IgnoreDisassociate, HoldConn, HoldsOnDisassociate,
                RemoveConn, TypeOK
        <3> QED BY <3>2, <3>3 DEF BackedOn
    <2>3. CASE RefuseObservation(d)
        BY <2>3, BackedKept DEF RefuseObservation
    <2> QED BY <1>1, <2>1, <2>2, <2>3 DEF Apply
<1>2. ASSUME NEW p \in Provider, NEW stations \in [ConnsOf(p) -> SUBSET Client],
             Reconcile(p, stations)
      PROVE  BackedOn(c, k)'
    <2> DEFINE W == Wanted(ConnsOf(p), stations)
    <2>1. PICK E \in evictOldestNonPresent(Excess(W), W),
               kept \in KeptChoices(p, ConnsOf(p), stations) :
            conns' = MergedConns(ConnsOf(p), stations, kept, E)
        BY <1>2 DEF Reconcile
    <2>2. evidence' = MergedEvidence(ConnsOf(p), stations)
        BY <1>2 DEF Reconcile
    <2> QED BY <2>1, <2>2, SourceFacts, BackedMerged
<1>3. ASSUME NEW j \in Conns, NEW ids \in SUBSET Client, ReconcileSource(j, ids)
      PROVE  BackedOn(c, k)'
    <2> DEFINE stations == [i \in {j} |-> ids]
               K == {j}
               p == ProviderOf(j)
    <2>1. PICK E \in evictOldestNonPresent(Excess(ids), ids),
               kept \in KeptChoices(p, K, stations) :
            conns' = MergedConns(K, stations, kept, E)
        BY <1>3 DEF ReconcileSource
    <2>2. evidence' = MergedEvidence(K, stations)
        BY <1>3 DEF ReconcileSource
    <2>3. K \in SUBSET Conns /\ stations \in [K -> SUBSET Client] /\ p \in Provider
        BY SourceFacts
    <2> HIDE DEF stations, K, p
    <2> QED BY <2>1, <2>2, <2>3, BackedMerged
<1>4. ASSUME NEW p, NEW W, RefuseSnapshot(p, W) PROVE BackedOn(c, k)'
    <2>1. conns'[c][k] = "live" => conns[c][k] = "live"
        BY <1>4 DEF RefuseSnapshot, Forgotten, NoConns
    <2> QED BY <1>4, <2>1, BackedKept DEF RefuseSnapshot
<1>5. ASSUME NEW p, NEW r, SetProvider(p, r) PROVE BackedOn(c, k)'
    <2>1. conns'[c][k] = "live" => conns[c][k] = "live"
        BY <1>5 DEF SetProvider, MarkUnavailable, StaleConns
    <2> QED BY <1>5, <2>1, BackedKept DEF SetProvider
<1>6. CASE sweepPending
    <2>1. conns'[c][k] = "live" => conns[c][k] = "live"
        BY <1>6 DEF sweepPending, DepartedConns, TypeOK
    <2> QED BY <1>6, <2>1, BackedKept DEF sweepPending
<1>7. CASE Tick
    BY <1>7, BackedKept DEF Tick
<1>8. CASE UNCHANGED vars
    BY <1>8, BackedKept DEF vars
<1> QED
    BY <1>1, <1>2, <1>3, <1>4, <1>5, <1>6, <1>7, <1>8 DEF Next, Running, Conns

(* Without grace, no sequence of events, snapshots, outages and evictions   *)
(* leaves a client connected where the latest word of the source does not   *)
(* have it.                                                                 *)
THEOREM EvidenceCorrect ==
    ASSUME Grace = 0
    PROVE  Spec => []EvidenceBacked
<1>1. Init => EvidenceBacked
    BY NoConnsFacts DEF Init, EvidenceBacked
<1>2. TypeOK /\ EvidenceBacked /\ [Next]_vars => EvidenceBacked'
    <2> SUFFICES ASSUME TypeOK, EvidenceBacked, [Next]_vars
                 PROVE  EvidenceBacked'
        OBVIOUS
    <2>1. \A c \in Client, k \in Conns : BackedOn(c, k)'
        BY BackedIsPerConn, BackedNext
    <2> QED BY <2>1 DEF EvidenceBacked, BackedOn, Live
<1> QED BY <1>1, <1>2, TypeCorrect, PTL DEF Spec
=============================================================================
