# A TLA+ model of openwrt-presence-agent

The agent runs on an OpenWrt router and tells its consumers which clients of
the network are present. This directory models the parts that decide that, checks
them on small instances with TLC, and proves the most important properties with
TLAPS for every instance.

## 1. The system

| component | state | operations | talks to |
|---|---|---|---|
| **state engine** (`internal/engine`) | clients with connections and presence, grace holds, providers, subscribers, sequence number, all behind one mutex | `Apply`, `Reconcile`, `ReconcileSource`, `SetProvider`, `Subscribe`, the sweeper | called by the providers through `observation.Sink`; sends events to the handlers |
| **event stream** (`engine.emitLocked`, `api.events`) | a bounded queue per consumer, the handler's progress | subscribe, send the snapshot, send events, close, cancel | the engine, WebSocket consumers |
| **Wi-Fi provider** (`internal/providers/ubus`) | the known hostapd objects, the subscription and its generation, the queue of events | discovery, snapshots, verification of events, status reports | hostapd over ubus commands and its control socket; the engine |
| **wired provider** (`internal/providers/wired`) | whether neighbour events may be used, the time of the last sweep | sweeps of ARP probes, neighbour events, status reports | the lease file, `arping`, netlink; the engine; the mirror |
| **composition of the providers** (`internal/providers`) | the mirror of Wi-Fi associations, the startup gate | forwarding to the engine, `Contains`, readiness | both providers |
| **HTTP API** (`internal/api`) | connection slots, stream sessions, a goroutine per stream that reads the client's frames | accept, requests, streams, shutdown | the engine, `net/http`, clients |
| **bearer authentication** (`internal/auth`) | a token bucket of failures | the middleware | the API |
| **agent identity** (`internal/identity`) | one file | load or create | the file system, other processes |
| **mDNS responder** (`internal/mdns`) | a socket, the closed flag, the time of the next refresh | announce, answer, withdraw | the LAN |
| **process** (`cmd/openwrt-presence-agent`) | the results of the parts, the context | start, wait, shut down | everything; procd |
| configuration | – | range checks | everything |

What is hard about it:

* **Several sources, one client.** A client may be on several radios and on the
  LAN. Six operations of the engine derive its presence from its connections,
  each over its own choice of clients.
* **Delayed departures.** With reconnection grace on, the last Wi-Fi connection of
  a present client stays for a while after it was lost, and snapshots, roaming,
  outages, eviction and the sweeper all touch the hold.
* **Limits.** The engine evicts at its retention limit; queues drop a slow consumer
  or end the hostapd subscription.
* **Asynchronous readings.** A ubus command or a probe tells of one moment, and the
  result is applied at a later one; hostapd restarts without notice; events are
  queued under one set of radios and read under another.
* **Two locks.** The mirror of the Wi-Fi associations follows the engine and is read
  by the wired provider between the two.
* **Failure is normal.** Every command can fail, and the provider goes on from
  wherever it was.
* **Clients that vanish.** A stream's reader has no deadline; its slot and its
  subscription come back only through a write that fails.
* **Untrusted octets.** The responder decodes compressed names from any host, octet by
  octet, and answers within a bounded packet.
* **Two ends of a life.** The process loads its identity next to others that may start or
  die at any point, and stops while providers, requests and streams are under way.

`PROJECT.json` lists these hazards line by line with the properties that cover
them.

## 2. Modules

```
Presence                 what the engine promises (abstract)
   ^ implements
Engine  <-- EventStream  (EXTENDS: the engine with its subscribers and handlers)
   ^----- UbusProvider   (EXTENDS: the Wi-Fi provider and hostapd on the engine)
   ^----- WiredProvider  (EXTENDS: both providers and the mirror on the engine)
MdnsPacket <-- MdnsResponder                 (EXTENDS: the decoder and the responses)
ApiServer, AgentIdentity <-- Agent           (EXTENDS: the process with its API and identity)
EngineProofs <-- EngineStepProofs <-- StreamProofs, UbusProofs, WiredProofs    theorems
ApiProofs <-- AgentProofs; MdnsProofs        theorems
MC*                      constants for TLC
```

### Engine

One action per operation, because the mutex is held for all of it. `state`,
`conns` and `age` are the fields of the client map (`"none"`: not in the map; `age`
is the time since `LastSeenAt`, which decides evictions), `pending` the holds with
the time they have left, `providers` the last reports, `emitted` the events the last
operation emitted. `evidence` is a history variable: whom each source last reported.

| action | code |
|---|---|
| `Associate`, `Disassociate`, `RefuseObservation` under `Apply` | `Apply`, `Associate`, `Disassociate` |
| `Reconcile`, `ReconcileSource`, `RefuseSnapshot` | the two snapshot operations, and their early return after evictions |
| `SetProvider` | a status report, with `MarkUnavailable` for an outage |
| `sweepPending`, `Tick` | the sweeper; the passing of time |

Eviction is a choice among the sets that `evictOldestNonPresentLocked` can produce,
as the order of a Go map is arbitrary; so is the connection a snapshot keeps when
several could be the last. `Reports` are the reports the two providers make, with the
snapshot time as a flag. Reasons, statistics, `FirstSeenAt` and time stamps in
connections are left out.

### Presence

The abstract specification: a client arrives, evidence is lost, or a snapshot
resynchronizes; room is made only by forgetting clients that are not present.
`Engine!ImplementsPresence` maps `state` to it.

### EventStream

`emitLocked` sends to every subscriber while the mutex is held and the handlers
receive meanwhile. An `Operation` therefore leaves its events in `outbox`, each `Emit` is
one call of `emitLocked`, and what needs the mutex waits for `outbox` to be empty.
`replica` is what a consumer knows after the frames it was sent, following
`docs/consumers.md`. Sequence numbers wrap at `SeqModulus` instead of 2^64. A heartbeat
changes no state and is left out; the second conjunct of `GapFree` says what the number it
carries means: all that is missing up to it is in the consumer's queue.

### UbusProvider

`task` is where the goroutine of `Run` is: in `refresh` (`discover`, `read`, `healthy`,
`fail`), in the verification of an event (`verify`, `publish`) or at its `select`
(`idle`). `sub` is the subscription: starting, attached, deaf (hostapd restarted and
forgot it) or ended. Generations appear as a flag of each queued event, "of the current
generation", which is all that is compared; `late` stands for a subscriber that was
cancelled with one more event in hand. hostapd is external: stations associate, are
authorized later, leave, and hostapd restarts with other objects. Every sink call is an
action of `Engine`, taken at the moment the code makes it; the reading it is based on
was taken earlier. `complete` and `watched` are history variables.

The branch of `Run` that hands other kinds of events to `sink.Apply` is unreachable:
`parseHostapdEvent` produces only the two kinds that are verified. The check of a
subscription result's generation never fails, as `subResult` is reset with it.

### WiredProvider

Both providers on one engine. `mirror` and `ready` are `wifiAssociations`: a call is
forwarded to the engine in one step, and the mirror follows in the next. `task` is the
sweep (leases filtered one by one; probes answered, unanswered or killed; answers handled
one by one) or the `select`. `neighbors` holds the events in the channel and the one with which the
listener is blocked. The Wi-Fi provider appears by what it may hand to its sink.
`wifiAssociations.Apply` is not modelled: the Wi-Fi provider never calls it. The contents
of the lease file are fixed.

### MdnsPacket and MdnsResponder

`MdnsPacket` has no state. `DecodeStep` is one iteration of `decodeName` on a packet of
octets, with the code's offsets, so that the end of the loop is a liveness property; a
slice that leaves the packet sets the status `"panic"`. `ParseStep` is `parseQuery` around it.
Names are text as in the code; `encodeName` is the wire form. `responseFor`, `appendUnique`
and `buildResponse` decide which records a response holds and how long it is; each loop is a
fold. A record is its owner and type, and `DataBytes` its length. `RoomAssumption` states what the code relies
on for a response never to be cut short; with its constants 996 of 1400 octets are used.

`MdnsResponder` has the goroutine of `Run` (`at["run"]`: announce, loop, refresh, read, parse,
answer) and `main`, which both go through `Close`: the swap of the flag, the goodbye and the
closing of the socket are separate steps. `held` is what other hosts cache. A unit of time is
the read timeout; time passes only while `Run` waits in its read.

### ApiServer

`acceptor` is `Serve` in `limitedListener.Accept`, which takes a slot before it accepts; `conn`
is where each connection is, from the client's dialling to its `Close`; `subscribed`, `queue`,
`pings` and `done` are the stream sessions. Each case of the handler's `select` is an action,
and so is each way the monitor goroutine can end. A request is handled in two steps (`request`
or `unauthorized`, then `answered`), as shutdown may come between. `gone` marks a client that
vanished: nothing it does is ever seen again, writes to it fail sooner or later, and reads
from it never end. `net/http` is external: when shutting down it ends keep-alive, waits for
`Serve` to return (`ServeReturned`) and closes idle connections, and does not know of hijacked
ones. The tokens of the failure bucket are
whole numbers, refilled one by one.

### AgentIdentity and Agent

`AgentIdentity` is `LoadOrCreateAgentID` as run by several processes, one system call per step;
the file is absent, torn (created, not completely written) or holds an identity. What a file
system does to unsynced data when power is lost is not modelled.

`Agent` is `run`: load the identity, start the parts, wait in the `select` for the API, the
providers or the context, then shut the API down for at most five seconds and exit. It extends
`ApiServer` and `AgentIdentity`, so requests and streams interleave with its end. `Exit` takes
everything with it but the identity file. procd starts the process again unless it was asked
to stop; a second process may start beside it. A signal cancels the context, except before
`NotifyContext` and once `run` has called `stop` because the providers ended by themselves
(`Stopped`): then it kills the process. The five seconds bound only what `http.Server.Shutdown`
does after `Serve` has returned, so `shutdownExpires` waits for that too. A provider that returns an error is what the
`Provider` interface and `group.Run` provide for; the two providers of today return only when
their context is done. The configuration and the token are read before the model starts.

## 3. Runs

| run | instance | shows |
|---|---|---|
| `engine_grace` | 1 client, 2 radios and the LAN, grace of 2 ticks, all kinds of observations | presence is what the connections say; a hold is on the only live connection, never extended, and ends; only a snapshot makes absent; a client nobody reports does not stay present |
| `engine_capacity` | 3 clients for 2 places, a radio and the LAN, no grace | the limit, `EvidenceBacked`, every change of presence announced exactly once, and the refinement of `Presence` |
| `engine_roam` | 1 client, 2 radios, grace 1 | **violated**: see the findings |
| `stream` | 2 clients for 1 place, one consumer with a queue of 2 | what a subscribed consumer was sent and is owed replays to the engine's presences, without a gap in the numbers; a dropped consumer's stream is closed |
| `ubus` | 2 clients and a limit of 1, 2 radios, an event queue of 1, 2 changes or failures | no departure falls between snapshot and events; no event of an earlier subscription is verified; readiness is kept and ends up resting on all radios; the engine converges to what hostapd has, unless that is over the limit; a cancelled provider stops |
| `wired_exclusion` | 2 clients for 1 place, one of them leased, 1 failure | the mirror keeps step with the engine; a completed sweep always fits |
| `wired_settles` | 1 client on a radio and the LAN, 1 failure | races of probes and events with an association settle; arrivals and departures on the LAN are noticed |
| `wired_outage` | the same, no failure | **violated** |
| `mdns` | names of 2 and 3 labels, at most 2 jumps, 2 questions and one failed read or write; all question bodies of up to 3 octets out of {end, label, offset, pointer}, with a label before them or not, and queries for every record and pair of records, in capitals, compressed, for other classes, operations and counts | decoding ends, within the packet and its limits; every record can be found and is sent once; the advertisement does not expire while the responder runs; it is closed once |
| `api` | 3 clients, 2 connections, 1 stream, queues of 1, 1 failed accept or write | slots and subscriptions match the open connections exactly; what a vanished client held comes back; shutdown ends everything |
| `agent` | 1 connection, 2 processes, 2 starts, 1 crash or failure | the identity is stable; a failed provider and a signal end the process; success means it was asked |
| `agent_farewell` | 1 connection, 1 process, no failure | **violated** |

**Bounds.** Two sources per provider are enough for roaming, one client more than
places for eviction and refusal (three for two places let an eviction choose), a queue
of one or two for the full-queue paths. `MaxFaults` bounds what the environment may do
to the Wi-Fi provider (two allow a restart and a failed command, or an arrival and a
departure that finds the queue full, or one station too many, whose snapshot is refused;
what follows a refusal once the station is gone would take a third), the failing commands or lease files of the wired one, and the failed
accepts, writes, calls, parts and the crash of the process. `MaxAge` is 1 where the
order of evictions matters and 0 elsewhere. `wired_exclusion` and `wired_settles` have no room in the channel
of neighbour events beyond the one the listener holds, less than the code ever has,
to keep both providers within reach; `wired_outage` has the smallest channel of the
code. `wired_settles` has one client, so its limit never refuses anybody; a second client, or a
channel with room beside the failure, is out of reach for its three liveness properties
(the limit is the matter of `wired_exclusion`). Roaming between radios would take a third
change in `ubus`; it is the matter of `engine_grace` and `engine_roam`, whose engine the
provider runs on. In `mdns` the limit on a response is the least `RoomAssumption` allows, the limit on a
name the one its longest name needs, and the TTL twice the refresh interval, as in the code;
the pointers that can be built lead into the header, to themselves, forwards and back into a
label that leads to them again. `api` has one client more than places, so the acceptor waits
for a slot, and the streams' limit is below the connections'. `agent` may stop for good (no
start is left, or it was asked to stop), and so may the API once it is shut down, so deadlock
is not checked there. Symmetry is used only in runs without liveness.

**Fairness.** `Engine`: time passes, the sweeper's ticker fires, and a provider that has
not stopped keeps polling, each poll ending in an accepted snapshot or an "unavailable"
report (tickers in both `Run`s, a timeout on every command). `EventStream`: `emitLocked`
does not block, and a handler, whose writes have deadlines, gets on. `UbusProvider` and
`WiredProvider`: weak fairness of the goroutine's current task; strong fairness of the
ticks and the cancellation in its `select` (in `WiredProvider` of every case), as Go chooses
at random among the ready cases, so one that is ready again and again is taken. Nothing is
assumed of the hostapd subscription: the ticks alone repair what it misses. hostapd, the
clients and the failures of commands have no fairness, but in the Wi-Fi provider they are
bounded: `Repaired` says what happens once they settle. `MdnsResponder`: parsing goes on, as it
never blocks. `ApiServer`: a heartbeat that cannot be delivered fails (a ticker, and a
deadline on each write); a handler takes shutdown some time, as its `select` is random; an
answer is written or times out; `net/http` closes what times out and, when shutting down, what
is idle; and `Serve` returns once its listener is closed (`ServeReturns`), as `limitedListener.Close`
closes `done` and the inner listener, so that neither half of `Accept` can wait any longer.
`Agent`: `group.Run` and `run` get on with what is ready, and `Serve` returns as above; nothing
else is assumed of the providers, the API or the clients.

Each checked property has a seeded fault, an operator beside the definition it replaces,
under which the property fails. `StreamTypeOK` and `WiredTypeOK` are proved instead of being
checked by a run; `AgentTypeOK` documents the domains of its module's variables.

## 4. Findings

1. **`engine_roam`.** With grace on, a client lost from one radio keeps that
   connection under a hold; when a snapshot then has it on another radio, the hold is
   deleted and the old connection stays live until the next snapshot, against the
   comment on `Reconcile`.
2. **`wired_outage`.** A Wi-Fi outage leaves the mirror as it was; a client it holds is
   left out of wired probing for as long as the outage lasts.
3. **`agent_farewell`.** Nothing waits for the handlers of the streams: `http.Server.Shutdown`
   does not know of hijacked connections, and `run` returns when it does, so the process may
   exit before a writable stream was sent the `stream.shutdown` that `docs/api.md` announces.

Further observations made while modelling, which have no run of their own:

* An operation that only clears the stale mark of a connection of a present client emits
  nothing (`engine.go:358`), so a consumer that missed no event keeps the mark.
* If the first snapshot of all radios fails, a verified event of one radio opens the state
  endpoints although the others were never read (`ubus/provider.go:176`); `docs/api.md:9-10`
  speaks of the first authoritative snapshot. `ReadyCompletes` shows the others follow.
* A probe that could not run, or was killed at shutdown, counts as unanswered, and the sweep
  makes the client absent (`wired/provider.go:247`).
* A subscription that fails at once is restarted at once, without a delay
  (`ubus/provider.go:185`); a rate is outside the model.
* Between the goodbye and the closing of the socket (`responder.go:123-124`) `Run` may still
  write an answer or a refresh, which puts the advertisement back into caches until its TTL
  passes; and when `Run` is the one that closes, the process may exit before its goodbye.
* The comment at `packet.go:110` says that strictly decreasing offsets terminate
  decompression loops. They do not alone, as labels read after a jump lead forward again;
  the limits on jumps and length do (`ParseEnds`).
* A torn identity file makes every later start fail until it is removed; an identity in
  capitals is accepted by `LoadOrCreateAgentID` and refused by `mdns.validAgentID`.
* Health is "operational" as soon as any provider is healthy, also when the Wi-Fi one is not.
* A connection that has sent no request counts as busy for five seconds in `net/http`, the
  whole deadline of the shutdown, so a silent client can make a regular stop return 1.

## 5. Proofs

`EngineProofs` proves, for every set of clients (finite), sources, limit and grace period:

* `TypeCorrect`: `Spec => []TypeOK`;
* `PresenceCorrect`, `HoldCorrect`: `Spec => []PresenceIsEvidence` and
  `Spec => []HoldIsSoleLive`. Neither is inductive alone: that the sweeper or an outage
  leaves the right presence needs the hold to be on the sole live connection, and that
  a snapshot leaves a hold so needs the presence to follow from the connections. The
  inductive invariant `Sound` is their conjunction with `TypeOK` and `HoldNeedsGrace`
  (without grace there are no holds), and is proved client by client (`SoundFor`), since
  an operation treats each client on its own;
* `CapacityCorrect` and `PresenceImplemented`: the retention limit and
  `Spec => ImplementsPresence`. `Sound` gives what each operation does to each
  presence; the arithmetic of eviction (`RoomIsMade`, `RoomIsKept`) gives the limit.

`EngineStepProofs` proves what the steps of the engine do, for the same constants:

* `HoldsOnlyShrink`: `Spec => HoldNeverExtended`; `AbsenceNeedsSnapshot`:
  `Spec => AbsenceIsAuthoritative`. Each operation is compared with what it does to one client;
* `PresenceIsAnnounced`: `Spec => PresenceAnnounced`. Every operation emits "removed" for a set
  `E`, "presence changed" or "updated" for a set `T`, and events about no client; `AnnouncedBy`
  says when that announces one client rightly (`E` and `T` do not overlap, and who is in neither
  keeps its presence), and each operation is shown to meet it;
* `EvidenceCorrect`: `Spec => []EvidenceBacked` for `Grace = 0`, connection by connection
  (`BackedOn`). With grace the statement is false: a held connection is live by intent, and
  `engine_roam` shows that even `EvidenceBackedOrHeld` fails.

`StreamProofs` proves, for every set of consumers, queue size, number of subscribers and modulus
of the sequence numbers (more than one above the queue size):

* `StreamTypeCorrect`: `StreamSpec => [](TypeOK /\ StreamTypeOK)`, the limits on subscribers and
  queues included;
* `NumberingCorrect`: `StreamSpec => []GapFree`. The invariant adds `OutIsIdle`: a consumer
  without a session is not registered and has no queue left over, or its next session would
  begin with old events. The wrap-around is `PlusFacts`;
* `ReplicasCorrect`: `StreamSpec => []PresenceReplayed`. `Believed(s, c, v, w)` says that the events
  `s` take a belief `v` about `c` to `w`, by naming the last event about `c`; it composes under
  append, tail and concatenation, so no induction over the queue is needed. The invariant
  `Following` says that the queue takes the replica to some `w` and the rest of the running
  operation takes `w` to the engine's presence. That an operation's events do so in whatever
  order the map yields them is `PresenceIsAnnounced` again, with the pigeonhole principle for
  the orders (`OrdersFacts`);
* `StreamedPresence`: the engine whose events are sent one at a time implements `Presence` and
  keeps its invariants in between.

`UbusProofs` proves, for every set of radios, queue size and number of failures:

* `UbusTypeCorrect`: `UbusSpec => []UbusTypeOK`, the limit of the event queue included;
* `EngineImplemented`: `UbusSpec => Spec`, every call the Wi-Fi provider makes of its
  sink is a step of `Engine`. The invariant needed is `SettledReport`: at the `select` and
  during a verification the last report is "healthy" or "unavailable", so that
  `noteEvent` republishes an allowed report;
* `AgentCorrect`: hence the invariants of the engine, `PresenceAnnounced`,
  `AbsenceIsAuthoritative`, `HoldNeverExtended` and the refinement of `Presence` hold with the
  provider at work;
* `ReadinessKept`: `UbusSpec => ReadyKept`, as no provider has a snapshot time before its first
  report (`NoEarlySnapshot`);
* `OnlyKnownVerified`: `UbusSpec => []VerifiesKnown`. The invariant `KnownEvents` says that every
  queued event of the current generation is of a known object;
* `NoDepartureLost`: `UbusSpec => []DepartureOwed` for `Grace = 0`. While the subscription covers
  the last full snapshot, a station that left a radio on which the engine has it is owed the
  verification of an event of that radio. The invariant `Owing` says the same of the stations in
  a snapshot that is being read (`ReadOwed`) and in a verified reading that is about to be
  published (`PublishOwed`), both taken earlier than they are applied; and that nothing counts as
  watched before the subscription has started (`WatchedSub`). Grace is excluded as above: a held
  connection is kept although nothing is owed.

`WiredProofs` proves, for every set of clients, radios and leases, queue and number of failures:

* `WiredTypeCorrect`: `WiredSpec => []WiredTypeOK`;
* `WiredEngineImplemented`: `WiredSpec => Spec`, both providers and the mirror at work on one
  engine; hence `WiredAgentCorrect`, as for the Wi-Fi provider alone;
* `WiFiIsExcluded`: `WiredSpec => []WiFiExcluded` for `Grace = 0`. The invariant
  `MirrorIsEvidence` relates the mirror, and the call with which it is about to follow, to what
  the engine was last told;
* `SweepsFit`: `WiredSpec => []SweepFits`. The invariant `SweepKept` says that of a
  sweep's answers at most one is still in hand, and every other client is live on the LAN.

`ApiProofs` proves, for every finite set of clients and every limit, `ApiTypeCorrect`,
`SlotsCorrect` and `SubscriptionsCorrect`: `ApiSpec` implies that `ApiTypeOK`, `SlotsExact` and
`NoOrphans` always hold. The inductive invariant is their conjunction: the slots stay natural
because they count the open connections, and a connection that closes takes no subscription
along because only a handler has one. `OpenGain`, `OpenLoss` and `OpenSame` say what a step does
to the number of open connections; `KeepsSlot`, `GivesSlot` and `KeepsConns` are the three ways a
step can keep the books, and each action is one of them.

`AgentProofs` proves, for any number of processes, connections, starts and failures:

* `AgentIdentityStable`: `AgentSpec => []IdentityStable`. The invariant adds that the file is torn
  while somebody is about to write it (`SoleWriter`, which is where `O_EXCL` enters), that only
  one can be, and that what was written and not yet closed is what the file holds;
* `AgentSuccess`: `AgentSpec => []SuccessMeansAsked`. The invariant adds that before `run` leaves
  its `select` only a signal cancels the context, and that the API cannot have ended without
  an error, as nobody has shut it down;
* `AgentTypeCorrect` and `AgentBooks`: `AgentSpec` implies that `AgentTypeOK`, `SlotsExact` and
  `NoOrphans` always hold, and that nothing of an API outlasts its process (`ApiOnlyUp`). To the
  API a step of the process is one of its own, one that takes everything away, a failure
  elsewhere, or a listener that gives up (`AgentStepsApi`), so `ApiInv` of `ApiProofs` carries
  over (`ApiOfAgentKeeps`).

`MdnsProofs` proves, for all sets of datagrams, names, lengths and limits:

* `ClosedOnce`: `MdnsSpec => []ClosesOnce`. The invariant adds that whoever is past the swap has
  set the flag and finds the socket open;
* `MdnsTypeCorrect`: `MdnsSpec => []MdnsTypeOK`, in particular that no sequence of octets makes the
  decoder slice outside its buffer. The invariant (`QueryOK`, `NameOK`) adds where cursor and end
  of the name are, that an unfinished name leaves room for its last dot, and that the questions
  found and those still to be read are together within the limit (`DecodeFacts`, `ParseFacts`);
  and that `Run` starts no read once the refresh is due (`ReadInTime`);
* `AdvertisementKept`: `MdnsSpec => []StaysAdvertised`. The invariant `Covered` says that no
  record has lost more of its TTL than has passed since the last announcement, and
  `AnnouncementFacts` that an announcement holds all records;
* `ResponsesComplete`: `MdnsSpec => []ResponseComplete`. `CollectedFacts` says what the loops of
  `responseFor` and `appendUnique` collect, `FillFacts` what those of `buildResponse` take, and
  `RoomAssumption` that they take it all (`QuestionsFit`, `RecordsFit`);
* `RecordsDiscoverable`: `MdnsSpec => []Discoverable`, the round trip of a name through
  `encodeName` and `decodeName`. The invariant `AskInv` says that while such a query is parsed
  the decoder stands at the start of a label and has all that comes before it in hand
  (`Halfway`), or has the whole name (`Whole`); `HalfwayStep` is one iteration;
* `ParserTerminates`: each step of the parser lowers `ParseWork`, a natural number that is at
  most `(MaxQuestions + 1) * (3 + MaxNameJumps + MaxNameBytes)`. With the fairness of `Run`,
  which the prover cannot use, this is `ParseEnds` for all datagrams.

What a fold computes is proved by induction over a set of naturals: `NatInduct` follows from the
well-foundedness of `<`, and `FoldTrace` shows that a fold over a sequence has a trace, the
values the loop variable takes, from which the facts about `Only`, `appendUnique`, `Collected`
and `Fill` follow position by position.

Assumptions are the named `ASSUME`s of the modules: sources of the two providers are
disjoint, `Client` and `Conn` are finite, limits are positive, the values for "none" are not
values, both providers have sources where they are composed and the wired one hands its
observations to `Apply`, names can be encoded and a response has room. TLC
evaluates them in every run.

Only model-checked: liveness (`DepartureIsNoticed`, `DroppedIsClosed`, `ReadyCompletes`,
`Repaired`, `Stops`, `ParseEnds`, `Reclaimed`, `ShutdownDrains`, `FailureEndsProcess`, `StopEnds` and the
three of `wired_settles`), which is outside what the prover handles. All invariants and action
properties of the runs that pass are theorems.

## 6. Not modelled, and the plan

Nothing is left of the plan but what is out of the prover's reach: the liveness properties,
which the runs check.

Not modelled, and why:

* the octets of WebSocket frames (`writeFrame`'s three length forms, masking): no state, and no
  property here tells payloads apart;
* the contents of the responses of the state endpoints, health and diagnostics: they render
  the engine's state;
* the choice of the advertised address, opening sockets, parsing of ubus, netlink and lease
  file formats: input that is accepted or refused, which the models have as a choice;
* configuration: range checks without state; its limits are the assumptions here;
* logging, packaging and measurement scripts, and the type declarations of `pkg/protocol` and
  `internal/observation`.
