------------------------------- MODULE Agent -------------------------------
(***************************************************************************)
(* The agent process (cmd/openwrt-presence-agent/main.go): what run starts *)
(* and in which order, the select in which it waits, and its shutdown,     *)
(* with the provider group (internal/providers/provider.go), the API and   *)
(* the identity.  procd (external) starts the process again when it ends   *)
(* by itself; a second process may start while it runs.                    *)
(*                                                                         *)
(* The providers and the responder have modules of their own; here a       *)
(* provider runs until its context is cancelled or it fails.               *)
(***************************************************************************)
EXTENDS ApiServer, AgentIdentity

CONSTANTS
    agent,      \* the process that procd runs
    MaxStarts   \* bound: how often processes start

ASSUME AgentAssumption == agent \in Process /\ MaxStarts \in Nat

VARIABLES
    main,       \* where run is
    exitCode,   \* what it will return
    signalled,  \* SIGTERM or SIGINT was sent
    cancelled,  \* ctx is done
    provider,   \* the Wi-Fi provider and the gated wired provider
    group,      \* providerResult
    result,     \* the result of ListenAndServe
    starts      \* starts that are left

processVars == <<main, exitCode, signalled, cancelled, provider, group, result, starts>>
agentVars == <<apiVars, identityVars, processVars>>

Providers == {"wifi", "wired"}

(* The type invariant of the process.                                       *)
AgentTypeOK ==
    /\ ApiTypeOK /\ IdentityTypeOK
    /\ main \in {"off", "load", "serve", "close", "shutdown", "exited"}
    /\ exitCode \in 0..1 /\ signalled \in BOOLEAN /\ cancelled \in BOOLEAN
    /\ provider \in [Providers -> {"gated", "running", "nil", "error"}]
    /\ group \in {"running", "nil", "error"}
    /\ result \in {"none", "nil", "error"}
    /\ starts \in 0..MaxStarts

\* The wired provider waits for its gate.
Gates == [p \in Providers |-> IF p = "wifi" THEN "running" ELSE "gated"]

Fresh ==
    /\ cancelled' = FALSE
    /\ provider' = Gates
    /\ group' = "running" /\ result' = "none"

AgentInit ==
    /\ ApiInit /\ IdentityInit
    /\ main = "off" /\ exitCode = 0
    /\ signalled = FALSE /\ cancelled = FALSE
    /\ provider = Gates
    /\ group = "running" /\ result = "none"
    /\ starts = MaxStarts

\* What the process held is gone with it; the clients' connections break.
Vanishes ==
    /\ acceptor' = "off" /\ slots' = 0
    /\ conn' = [c \in Conn |-> "none"]
    /\ gone' = {} /\ ready' = FALSE /\ subscribed' = {} /\ done' = {}
    /\ queue' = [c \in Conn |-> 0] /\ pings' = [c \in Conn |-> 0]
    /\ tokens' = Burst /\ shutdown' = FALSE

Exit(code) ==
    /\ main' = "exited" /\ exitCode' = code
    /\ Vanishes /\ Fresh /\ Gone(agent)

-----------------------------------------------------------------------------
(* Processes start and die.                                                *)

Begin(p) == LoadOrCreateAgentID(p) /\ starts > 0 /\ starts' = starts - 1

\* run, after config.Parse and LoadToken.
start ==
    /\ main = "off" \/ (main = "exited" /\ ~signalled)
    /\ Begin(agent)
    /\ main' = "load" /\ exitCode' = 0
    /\ UNCHANGED <<apiVars, signalled, cancelled, provider, group, result>>

otherStarts(p) ==
    /\ p # agent
    /\ Begin(p)
    /\ UNCHANGED <<apiVars, main, exitCode, signalled, cancelled, provider, group, result>>

\* It cannot bind the port, or is killed.
otherEnds(p) ==
    /\ p # agent /\ step[p] # "off"
    /\ Gone(p)
    /\ UNCHANGED <<apiVars, processVars>>

\* The process is killed or panics; what it wrote stays.
crash ==
    /\ main \in {"load", "serve", "close", "shutdown"}
    /\ Fails
    /\ Exit(1)
    /\ UNCHANGED <<signalled, starts>>

load(p) == Loading(p) /\ UNCHANGED <<apiVars, processVars>>

loadFails(p) ==
    /\ CallFails(p) /\ Fails
    /\ UNCHANGED <<acceptor, slots, conn, gone, ready, subscribed, queue, pings, done, tokens, shutdown>>
    /\ UNCHANGED processVars

\* No identity, or another part that cannot be initialized: return 1.
startFails ==
    /\ main = "load" /\ step[agent] = "failed"
    /\ Exit(1)
    /\ UNCHANGED <<signalled, starts, faults>>

\* The providers, the API and the responder are started.
serve ==
    /\ main = "load" /\ step[agent] = "have"
    /\ main' = "serve"
    /\ UNCHANGED <<apiVars, identityVars, exitCode, signalled, cancelled, provider, group, result, starts>>

-----------------------------------------------------------------------------
(* ListenAndServe, in its goroutine.                                       *)

Up == main \in {"serve", "close", "shutdown"}
SameProcess == UNCHANGED <<main, exitCode, signalled, cancelled, starts>>

listens ==
    /\ Up /\ result = "none"
    /\ listen
    /\ UNCHANGED <<identityVars, processVars>>

\* The address is in use, or Serve gives up on the listener.
listenFails ==
    /\ Up /\ result = "none" /\ acceptor \in {"off", "accept"} /\ ~shutdown
    /\ Fails
    /\ slots' = IF acceptor = "accept" THEN slots - 1 ELSE slots
    /\ acceptor' = "ended" /\ result' = "error"
    /\ UNCHANGED <<conn, gone, ready, subscribed, queue, pings, done, tokens, shutdown>>
    /\ UNCHANGED <<identityVars, provider, group>> /\ SameProcess

\* http.ErrServerClosed is no error.
listenEnds ==
    /\ Up /\ result = "none" /\ shutdown /\ acceptor \in {"off", "ended"}
    /\ result' = "nil"
    /\ UNCHANGED <<apiVars, identityVars, provider, group>> /\ SameProcess

-----------------------------------------------------------------------------
(* group.Run and gatedProvider.Run.                                        *)

\* The context of the group: it is cancelled, too, when the group returns.
GroupDone == cancelled \/ group # "running"

Return(p, r) == provider' = [provider EXCEPT ![p] = r]

gateOpens ==
    /\ Up /\ provider["wired"] = "gated"
    /\ Return("wired", "running")
    /\ UNCHANGED <<apiVars, identityVars, group, result>> /\ SameProcess

providerReturns(p) ==
    /\ Up /\ provider[p] \in {"gated", "running"} /\ GroupDone
    /\ Return(p, "nil")
    /\ UNCHANGED <<apiVars, identityVars, group, result>> /\ SameProcess

\* Provider.Run may return an error; the two providers of the agent do not.
providerFails(p) ==
    /\ Up /\ provider[p] = "running"
    /\ Fails
    /\ Return(p, "error")
    /\ UNCHANGED <<acceptor, slots, conn, gone, ready, subscribed, queue, pings, done, tokens, shutdown>>
    /\ UNCHANGED <<identityVars, group, result>> /\ SameProcess

\* Seeded fault: the group waits for all its providers before it reports.
FaultyGroupReturns ==
    /\ Up /\ group = "running"
    /\ \A p \in Providers : provider[p] \in {"nil", "error"}
    /\ group' = "error"
    /\ UNCHANGED <<apiVars, identityVars, provider, result>> /\ SameProcess

\* The first error is returned at once.
groupReturns ==
    /\ Up /\ group = "running"
    /\ \/ (\E p \in Providers : provider[p] = "error") /\ group' = "error"
       \/ (\A p \in Providers : provider[p] = "nil") /\ group' = "nil"
    /\ UNCHANGED <<apiVars, identityVars, provider, result>> /\ SameProcess

-----------------------------------------------------------------------------
(* The select of run.                                                      *)

apiStops ==
    /\ main = "serve" /\ result # "none"
    /\ main' = "close"
    /\ exitCode' = IF result = "error" THEN 1 ELSE 0
    /\ UNCHANGED <<apiVars, identityVars, signalled, cancelled, provider, group, result, starts>>

\* Seeded fault: a provider that stopped by itself is like a signal.
FaultyProvidersStop ==
    /\ main = "serve" /\ group # "running"
    /\ main' = "close" /\ cancelled' = TRUE
    /\ UNCHANGED <<apiVars, identityVars, exitCode, signalled, provider, group, result, starts>>

\* It is a failure unless the context is done.
providersStop ==
    /\ main = "serve" /\ group # "running"
    /\ main' = "close"
    /\ exitCode' = IF cancelled THEN 0 ELSE 1
    /\ cancelled' = TRUE
    /\ UNCHANGED <<apiVars, identityVars, signalled, provider, group, result, starts>>

\* Seeded fault: a cancelled context is left to the providers.
FaultyContextDone ==
    /\ main = "serve" /\ cancelled /\ group # "running"
    /\ main' = "close"
    /\ UNCHANGED <<apiVars, identityVars, exitCode, signalled, cancelled, provider, group, result, starts>>

contextDone ==
    /\ main = "serve" /\ cancelled
    /\ main' = "close"
    /\ UNCHANGED <<apiVars, identityVars, exitCode, signalled, cancelled, provider, group, result, starts>>

\* responder.Close, then server.Shutdown.
shutdownBegins ==
    /\ main = "close"
    /\ Shutdown
    /\ main' = "shutdown"
    /\ UNCHANGED <<identityVars, exitCode, signalled, cancelled, provider, group, result, starts>>

shutdownEnds ==
    /\ main = "shutdown" /\ Quiescent
    /\ Exit(exitCode)
    /\ UNCHANGED <<signalled, starts, faults>>

\* A connection that is not idle outlasts the five seconds.
shutdownExpires ==
    /\ main = "shutdown" /\ ServeReturned /\ ~Quiescent
    /\ Exit(1)
    /\ UNCHANGED <<signalled, starts, faults>>

\* run called stop, as the providers ended by themselves: without a signal
\* nothing else cancels the context.
Stopped == main \in {"close", "shutdown"} /\ cancelled /\ ~signalled

\* procd stops the service, or does not start it again; a signal before
\* NotifyContext or after stop ends the process at once.
signal ==
    /\ ~signalled /\ signalled' = TRUE
    /\ \/ /\ Up /\ ~Stopped /\ cancelled' = TRUE
          /\ UNCHANGED <<apiVars, identityVars, main, exitCode, provider, group, result>>
       \/ /\ main = "load" \/ Stopped
          /\ Exit(1) /\ UNCHANGED faults
       \/ /\ main = "exited"
          /\ UNCHANGED <<apiVars, identityVars, main, exitCode, cancelled, provider, group, result>>
    /\ UNCHANGED starts

-----------------------------------------------------------------------------
Api == Up /\ ApiStep /\ UNCHANGED <<identityVars, processVars>>

Provide ==
    gateOpens \/ groupReturns \/ \E p \in Providers : providerReturns(p) \/ providerFails(p)

Select == apiStops \/ providersStop \/ contextDone

\* The API is closed: Serve returns, which Shutdown waits for.
ApiReturns == Up /\ ServeReturns /\ UNCHANGED <<identityVars, processVars>>

Finish == shutdownBegins \/ shutdownEnds \/ shutdownExpires

AgentNext ==
    \/ start \/ crash \/ startFails \/ serve \/ signal
    \/ \E p \in Process : otherStarts(p) \/ otherEnds(p) \/ load(p) \/ loadFails(p)
    \/ listens \/ listenFails \/ listenEnds
    \/ Api \/ Provide \/ Select \/ Finish

(***************************************************************************)
(* Fairness: run and the provider group go on, and an Accept of a closed   *)
(* listener returns.                                                       *)
(***************************************************************************)
AgentFairness ==
    /\ WF_agentVars(groupReturns) /\ WF_agentVars(Select) /\ WF_agentVars(Finish)
    /\ WF_agentVars(ApiReturns)

AgentSpec == AgentInit /\ [][AgentNext]_agentVars /\ AgentFairness

-----------------------------------------------------------------------------
(* Properties.                                                             *)

(* A provider that fails brings the process down, whatever the other one    *)
(* does, so that procd can start it again.                                  *)
FailureEndsProcess ==
    (\E p \in Providers : provider[p] = "error") ~> main = "exited"

(* A request to stop ends the process, also while a provider hangs in a     *)
(* command and never returns.                                               *)
StopEnds == signalled ~> main = "exited"

(* The process reports success only if it was asked to stop.                *)
SuccessMeansAsked == main = "exited" /\ exitCode = 0 => signalled

(* stream.shutdown goes to every stream that is writable: a process that    *)
(* ends by itself, neither killed nor crashed, leaves no session behind     *)
(* that was not told.                                                       *)
FarewellSent ==
    [][main = "shutdown" /\ main' = "exited" /\ UNCHANGED <<signalled, faults>> =>
        \A c \in Conn \ gone : conn[c] # "streaming"]_agentVars
=============================================================================
