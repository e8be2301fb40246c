----------------------------- MODULE ApiServer -----------------------------
(***************************************************************************)
(* The HTTP API and its streams (internal/api/server.go, websocket.go,     *)
(* internal/auth/bearer.go): the listener that bounds the connections, the *)
(* requests, the stream session of a consumer with the goroutine that      *)
(* reads its frames, and Shutdown.  net/http is external: what it does     *)
(* with a connection is modelled as the code relies on it.                 *)
(*                                                                         *)
(* EventStream has what the events say; here they are only counted.        *)
(***************************************************************************)
EXTENDS Integers, FiniteSets

CONSTANTS
    Conn,                \* connections that clients may make
    MaxHTTPConnections,
    MaxStreamClients,
    StreamQueueSize,
    ControlQueue,        \* the capacity of controls
    Burst,               \* the capacity of the bucket for failed authentication
    MaxFaults            \* bound: accepts and writes that fail

ASSUME ApiAssumption ==
    /\ IsFiniteSet(Conn)
    /\ MaxHTTPConnections \in Nat \ {0} /\ MaxStreamClients \in Nat \ {0}
    /\ StreamQueueSize \in Nat \ {0} /\ ControlQueue \in Nat \ {0}
    /\ Burst \in Nat \ {0} /\ MaxFaults \in Nat

VARIABLES
    acceptor,    \* Serve, in Accept of the limitedListener
    slots,       \* len(slots)
    conn,        \* the connections, from the client's dialling to their Close
    gone,        \* connections whose client vanished without a word
    ready,       \* HasAuthoritativeSnapshot("wifi")
    subscribed,  \* connections registered with the engine
    queue,       \* by connection, how many events wait in its channel
    pings,       \* by connection, how many pongs wait in controls
    done,        \* connections whose monitor has returned
    tokens,      \* Bearer.tokens
    shutdown,    \* s.shutdown is closed
    faults       \* accepts and writes that may still fail

apiVars == <<acceptor, slots, conn, gone, ready, subscribed, queue, pings, done,
             tokens, shutdown, faults>>

(***************************************************************************)
(* "new": accepted, without a request yet; "idle": between two requests;   *)
(* "busy": a request is handled; "joining": /v1/events before the hijack;  *)
(* "closed": Shutdown has closed it, its goroutine has not noticed.        *)
(***************************************************************************)
Http == {"new", "idle", "busy", "joining"}
State == {"none", "backlog", "streaming", "closed"} \cup Http

(* The type invariant of the API, with the limits it keeps.                 *)
ApiTypeOK ==
    /\ acceptor \in {"off", "slot", "accept", "ended"}
    /\ slots \in 0..MaxHTTPConnections
    /\ conn \in [Conn -> State]
    /\ gone \subseteq Conn /\ ready \in BOOLEAN
    /\ subscribed \subseteq Conn /\ Cardinality(subscribed) <= MaxStreamClients
    /\ queue \in [Conn -> 0..StreamQueueSize]
    /\ pings \in [Conn -> 0..ControlQueue]
    /\ done \subseteq Conn /\ tokens \in 0..Burst
    /\ shutdown \in BOOLEAN
    /\ faults \in 0..MaxFaults

ApiInit ==
    /\ acceptor = "off" /\ slots = 0
    /\ conn = [c \in Conn |-> "none"]
    /\ gone = {} /\ ready = FALSE
    /\ subscribed = {} /\ done = {}
    /\ queue = [c \in Conn |-> 0] /\ pings = [c \in Conn |-> 0]
    /\ tokens = Burst /\ shutdown = FALSE
    /\ faults = MaxFaults

Fails == faults > 0 /\ faults' = faults - 1
Becomes(c, s) == conn' = [conn EXCEPT ![c] = s]

-----------------------------------------------------------------------------
(* limitedListener.                                                        *)

\* ListenAndServe has its listener.
listen ==
    /\ acceptor = "off" /\ ~shutdown
    /\ acceptor' = "slot"
    /\ UNCHANGED <<slots, conn, gone, ready, subscribed, queue, pings, done, tokens, shutdown, faults>>

\* Also once done is closed: the select picks at random.
acquire ==
    /\ acceptor = "slot"
    /\ slots < MaxHTTPConnections
    /\ slots' = slots + 1
    /\ acceptor' = "accept"
    /\ UNCHANGED <<conn, gone, ready, subscribed, queue, pings, done, tokens, shutdown, faults>>

accept(c) ==
    /\ acceptor = "accept" /\ ~shutdown
    /\ conn[c] = "backlog"
    /\ Becomes(c, "new")
    /\ acceptor' = "slot"
    /\ UNCHANGED <<slots, gone, ready, subscribed, queue, pings, done, tokens, shutdown, faults>>

\* Seeded fault: an accept that fails keeps its slot.
FaultyAcceptFails ==
    /\ acceptor = "accept"
    /\ \/ shutdown /\ acceptor' = "ended" /\ UNCHANGED faults
       \/ ~shutdown /\ Fails /\ acceptor' = "slot"
    /\ UNCHANGED <<slots, conn, gone, ready, subscribed, queue, pings, done, tokens, shutdown>>

\* The listener is closed, or out of descriptors for a while: Serve goes on.
acceptFails ==
    /\ acceptor = "accept"
    /\ \/ shutdown /\ acceptor' = "ended" /\ UNCHANGED faults
       \/ ~shutdown /\ Fails /\ acceptor' = "slot"
    /\ slots' = slots - 1
    /\ UNCHANGED <<conn, gone, ready, subscribed, queue, pings, done, tokens, shutdown>>

acceptEnds ==
    /\ acceptor = "slot" /\ shutdown
    /\ acceptor' = "ended"
    /\ UNCHANGED <<slots, conn, gone, ready, subscribed, queue, pings, done, tokens, shutdown, faults>>

\* Serve returns, now that the listener is closed.
ServeReturns == shutdown /\ (acceptEnds \/ acceptFails)

-----------------------------------------------------------------------------
(* limitedConn.Close gives the slot back, the first time.                  *)

Release(c) == slots' = slots - 1

Hangup(c) ==
    /\ Release(c)
    /\ Becomes(c, "none")
    /\ gone' = gone \ {c}

\* Requests and their answers.  A refused token costs the bucket one, if it
\* has one; a request the server is not ready for ends where it began.
unauthorized(c) ==
    /\ conn[c] \in {"new", "idle"} /\ c \notin gone
    /\ Becomes(c, "busy")
    /\ tokens' = IF tokens < 1 THEN tokens ELSE tokens - 1
    /\ UNCHANGED <<acceptor, slots, gone, ready, subscribed, queue, pings, done, shutdown, faults>>

\* Seeded fault: the bucket fills without end.
FaultyRefill ==
    /\ tokens' = tokens + 1
    /\ UNCHANGED <<acceptor, slots, conn, gone, ready, subscribed, queue, pings, done, shutdown, faults>>

refill ==
    /\ tokens < Burst
    /\ tokens' = tokens + 1
    /\ UNCHANGED <<acceptor, slots, conn, gone, ready, subscribed, queue, pings, done, shutdown, faults>>

\* info, health, clients, client, providers, diagnostics: they only read.
request(c) ==
    /\ conn[c] \in {"new", "idle"} /\ c \notin gone
    /\ Becomes(c, "busy")
    /\ UNCHANGED <<acceptor, slots, gone, ready, subscribed, queue, pings, done, tokens, shutdown, faults>>

\* The answer is written; Shutdown ends keep-alive.  A client that does not
\* take it is cut off by the write timeout.
answered(c) ==
    /\ conn[c] = "busy"
    /\ IF shutdown \/ c \in gone
         THEN Hangup(c)
         ELSE Becomes(c, "idle") /\ UNCHANGED <<slots, gone>>
    /\ UNCHANGED <<acceptor, ready, subscribed, queue, pings, done, tokens, shutdown, faults>>

\* The client closes it, or the read or idle timeout passes.
idleEnds(c) ==
    /\ conn[c] \in {"new", "idle", "closed"}
    /\ IF conn[c] = "closed"
         THEN Becomes(c, "none") /\ gone' = gone \ {c} /\ UNCHANGED slots
         ELSE Hangup(c)
    /\ UNCHANGED <<acceptor, ready, subscribed, queue, pings, done, tokens, shutdown, faults>>

-----------------------------------------------------------------------------
(* GET /v1/events.                                                         *)

Subscribe(c) ==
    /\ conn[c] \in {"new", "idle"} /\ c \notin gone
    /\ ready /\ Cardinality(subscribed) < MaxStreamClients
    /\ subscribed' = subscribed \cup {c}
    /\ Becomes(c, "joining")
    /\ UNCHANGED <<acceptor, slots, gone, ready, queue, pings, done, tokens, shutdown, faults>>

\* 503: not ready, or too many consumers.
refuseStream(c) ==
    /\ conn[c] \in {"new", "idle"} /\ c \notin gone
    /\ ~ready \/ Cardinality(subscribed) >= MaxStreamClients
    /\ Becomes(c, "busy")
    /\ UNCHANGED <<acceptor, slots, gone, ready, subscribed, queue, pings, done, tokens, shutdown, faults>>

\* The deferred calls of the handler: Close, and cancel.
EndStream(c) ==
    /\ Hangup(c)
    /\ subscribed' = subscribed \ {c}
    /\ queue' = [queue EXCEPT ![c] = 0]
    /\ pings' = [pings EXCEPT ![c] = 0]
    /\ done' = done \ {c}

\* Seeded fault: the subscription of a refused upgrade is forgotten.
FaultyUpgradeRefused(c) ==
    /\ conn[c] = "joining"
    /\ Becomes(c, "busy")
    /\ UNCHANGED <<acceptor, slots, gone, ready, subscribed, queue, pings, done, tokens, shutdown, faults>>

\* Not a WebSocket request: 400, and the subscription is cancelled.
upgradeRefused(c) ==
    /\ conn[c] = "joining"
    /\ Becomes(c, "busy")
    /\ subscribed' = subscribed \ {c}
    /\ queue' = [queue EXCEPT ![c] = 0]
    /\ UNCHANGED <<acceptor, slots, gone, ready, pings, done, tokens, shutdown, faults>>

\* A write to a client that vanished fails sooner or later; others may.
WriteFails(c) == (c \in gone /\ UNCHANGED faults) \/ Fails

\* websocketUpgrade, the hello and the snapshot.
websocketUpgrade(c) ==
    /\ conn[c] = "joining"
    /\ \/ /\ Becomes(c, "streaming")
          /\ UNCHANGED <<slots, gone, subscribed, queue, pings, done, faults>>
       \/ WriteFails(c) /\ EndStream(c)
    /\ UNCHANGED <<acceptor, ready, tokens, shutdown>>

-----------------------------------------------------------------------------
(* A stream session: each case of the handler's select, and the monitor.   *)

\* emitLocked: a subscriber whose queue is full loses its registration.
emit ==
    /\ subscribed # {}
    /\ LET full == {c \in subscribed : queue[c] = StreamQueueSize}
       IN  /\ queue' = [c \in Conn |-> IF c \in subscribed \ full THEN queue[c] + 1 ELSE queue[c]]
           /\ subscribed' = subscribed \ full
    /\ UNCHANGED <<acceptor, slots, conn, gone, ready, pings, done, tokens, shutdown, faults>>

sendEvent(c) ==
    /\ conn[c] = "streaming" /\ queue[c] > 0
    /\ \/ /\ queue' = [queue EXCEPT ![c] = @ - 1]
          /\ UNCHANGED <<slots, conn, gone, subscribed, pings, done, faults>>
       \/ WriteFails(c) /\ EndStream(c)
    /\ UNCHANGED <<acceptor, ready, tokens, shutdown>>

closeDropped(c) ==
    /\ conn[c] = "streaming" /\ queue[c] = 0 /\ c \notin subscribed
    /\ EndStream(c)
    /\ UNCHANGED <<acceptor, ready, tokens, shutdown, faults>>

\* Seeded fault: a heartbeat that cannot be written is forgotten.
FaultyHeartbeat(c) ==
    /\ conn[c] = "streaming" /\ WriteFails(c)
    /\ UNCHANGED <<acceptor, slots, conn, gone, ready, subscribed, queue, pings, done, tokens, shutdown>>

\* A heartbeat that is written changes nothing here.
heartbeat(c) ==
    /\ conn[c] = "streaming"
    /\ WriteFails(c) /\ EndStream(c)
    /\ UNCHANGED <<acceptor, ready, tokens, shutdown>>

pong(c) ==
    /\ conn[c] = "streaming" /\ pings[c] > 0
    /\ \/ /\ pings' = [pings EXCEPT ![c] = @ - 1]
          /\ UNCHANGED <<slots, conn, gone, subscribed, queue, done, faults>>
       \/ WriteFails(c) /\ EndStream(c)
    /\ UNCHANGED <<acceptor, ready, tokens, shutdown>>

\* monitorClientFrames: a ping that finds controls full ends the session, as
\* a close frame, a malformed frame and the end of the connection do.
monitorPing(c) ==
    /\ conn[c] = "streaming" /\ c \notin gone \cup done
    /\ IF pings[c] < ControlQueue
         THEN pings' = [pings EXCEPT ![c] = @ + 1] /\ UNCHANGED done
         ELSE done' = done \cup {c} /\ UNCHANGED pings
    /\ UNCHANGED <<acceptor, slots, conn, gone, ready, subscribed, queue, tokens, shutdown, faults>>

monitorEnds(c) ==
    /\ conn[c] = "streaming" /\ c \notin gone \cup done
    /\ done' = done \cup {c}
    /\ UNCHANGED <<acceptor, slots, conn, gone, ready, subscribed, queue, pings, tokens, shutdown, faults>>

streamDone(c) ==
    /\ conn[c] = "streaming" /\ c \in done
    /\ EndStream(c)
    /\ UNCHANGED <<acceptor, ready, tokens, shutdown, faults>>

\* Seeded fault: the handler goes on until its client leaves.
FaultyFarewell(c) == streamDone(c) /\ shutdown

\* stream.shutdown is sent, or cannot be: the session ends.
farewell(c) ==
    /\ conn[c] = "streaming" /\ shutdown
    /\ EndStream(c)
    /\ UNCHANGED <<acceptor, ready, tokens, shutdown, faults>>

Session(c) ==
    \/ sendEvent(c) \/ closeDropped(c) \/ heartbeat(c) \/ pong(c) \/ streamDone(c)
    \/ farewell(c)

-----------------------------------------------------------------------------
(* Clients (external).                                                     *)

dial(c) ==
    /\ conn[c] = "none" /\ acceptor \in {"slot", "accept"} /\ ~shutdown
    /\ Becomes(c, "backlog")
    /\ UNCHANGED <<acceptor, slots, gone, ready, subscribed, queue, pings, done, tokens, shutdown, faults>>

vanish(c) ==
    /\ conn[c] \in Http \cup {"streaming"} /\ c \notin gone
    /\ gone' = gone \cup {c}
    /\ UNCHANGED <<acceptor, slots, conn, ready, subscribed, queue, pings, done, tokens, shutdown, faults>>

\* The engine has its first Wi-Fi snapshot.
becomeReady ==
    /\ ~ready /\ ready' = TRUE
    /\ UNCHANGED <<acceptor, slots, conn, gone, subscribed, queue, pings, done, tokens, shutdown, faults>>

-----------------------------------------------------------------------------
(* Shutdown: s.shutdown and the listener are closed.  Then net/http waits  *)
(* for Serve to return, however long that takes, and closes idle           *)
(* connections until none is left.  It does not know of streams.           *)

Shutdown ==
    /\ ~shutdown /\ shutdown' = TRUE
    /\ conn' = [c \in Conn |-> IF conn[c] = "backlog" THEN "none" ELSE conn[c]]
    /\ UNCHANGED <<acceptor, slots, gone, ready, subscribed, queue, pings, done, tokens, faults>>

ServeReturned == shutdown /\ acceptor \notin {"slot", "accept"}

\* The goroutine that serves it is still to find out, and to Close it again.
closeIdle(c) ==
    /\ ServeReturned /\ conn[c] \in {"new", "idle"}
    /\ Becomes(c, "closed")
    /\ Release(c)
    /\ UNCHANGED <<acceptor, gone, ready, subscribed, queue, pings, done, tokens, shutdown, faults>>

Quiescent == ServeReturned /\ \A c \in Conn : conn[c] \notin Http

-----------------------------------------------------------------------------
Serve(c) ==
    \/ accept(c) \/ unauthorized(c) \/ request(c) \/ answered(c) \/ idleEnds(c)
    \/ Subscribe(c) \/ refuseStream(c) \/ upgradeRefused(c) \/ websocketUpgrade(c)
    \/ Session(c) \/ monitorPing(c) \/ monitorEnds(c) \/ closeIdle(c)
    \/ dial(c) \/ vanish(c)

ApiStep ==
    \/ acquire \/ acceptFails \/ acceptEnds \/ emit \/ refill \/ becomeReady
    \/ \E c \in Conn : Serve(c)

\* Agent says when the API listens and shuts down; alone it may at any time.
ApiNext == listen \/ ApiStep \/ Shutdown

(***************************************************************************)
(* Fairness: a handler picks at random among the cases that are ready, and *)
(* heartbeats never cease; each of its writes has a deadline; net/http     *)
(* closes what times out and, once shutting down, what is idle; an Accept  *)
(* of a closed listener returns.                                           *)
(***************************************************************************)
ApiFairness ==
    /\ WF_apiVars(ServeReturns)
    /\ \A c \in Conn :
        /\ WF_apiVars(heartbeat(c) /\ c \in gone)
        /\ WF_apiVars(farewell(c))
        /\ WF_apiVars(answered(c))
        /\ WF_apiVars(websocketUpgrade(c) \/ upgradeRefused(c))
        /\ WF_apiVars(idleEnds(c) /\ (c \in gone \/ conn[c] = "closed"))
        /\ WF_apiVars(closeIdle(c))

ApiSpec == ApiInit /\ [][ApiNext]_apiVars /\ ApiFairness

-----------------------------------------------------------------------------
(* Properties.                                                             *)

Open == {c \in Conn : conn[c] \in Http \cup {"streaming"}}

(* The slots in use are those of the open connections and of the accept in *)
(* progress: no path through accept, timeouts, streams and shutdown loses  *)
(* one, and none is given back twice.                                      *)
SlotsExact == slots = Cardinality(Open) + (IF acceptor = "accept" THEN 1 ELSE 0)

(* A consumer is registered with the engine only while its handler is       *)
(* there: no path out of the handler leaves a subscription behind, which    *)
(* would count against the limit for ever.                                  *)
NoOrphans == \A c \in subscribed : conn[c] \in {"joining", "streaming"}

(* The slot and the subscription of a client that vanished without a word   *)
(* come back, also when nothing happens that the stream would tell it.      *)
Reclaimed == \A c \in Conn : c \in gone ~> c \notin gone

(* Shutdown ends every connection it knows of and, through the handlers,    *)
(* the streams it does not know of, in whatever order requests, events and  *)
(* pings compete with it.                                                   *)
ShutdownDrains == shutdown ~> \A c \in Conn : conn[c] = "none"
=============================================================================
