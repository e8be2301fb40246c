--------------------------- MODULE AgentIdentity ---------------------------
(***************************************************************************)
(* The stable identity of the agent (internal/identity/agent.go):          *)
(* LoadOrCreateAgentID, run by every process that starts, on a file that   *)
(* outlives them.  Each system call is a step; a process may die between   *)
(* two of them.                                                            *)
(***************************************************************************)
CONSTANTS
    Process,  \* processes that may start at the same time
    Id,       \* identities that may be generated
    NoId      \* no identity

ASSUME IdentityAssumption == NoId \notin Id /\ {"absent", "torn"} \cap Id = {}

VARIABLES
    file,   \* the identity file: absent, torn (created and not written), or an identity
    step,   \* where each process is in LoadOrCreateAgentID
    value,  \* the identity each process generated or read
    used    \* the identities that processes have gone on with

identityVars == <<file, step, value, used>>

Step == {"off", "read", "create", "write", "close", "have", "failed"}

(* The type invariant of the identity.                                      *)
IdentityTypeOK ==
    /\ file \in {"absent", "torn"} \cup Id
    /\ step \in [Process -> Step]
    /\ value \in [Process -> Id \cup {NoId}]
    /\ used \subseteq Id

IdentityInit ==
    /\ file = "absent"
    /\ step = [p \in Process |-> "off"]
    /\ value = [p \in Process |-> NoId]
    /\ used = {}

To(p, s) == step' = [step EXCEPT ![p] = s]

Has(p, id) ==
    /\ To(p, "have")
    /\ value' = [value EXCEPT ![p] = id]
    /\ used' = used \cup {id}

LoadOrCreateAgentID(p) ==
    /\ step[p] = "off"
    /\ To(p, "read")
    /\ UNCHANGED <<file, value, used>>

\* A file that holds anything else is refused; without a file, a new identity
\* is drawn.
ReadFile(p) ==
    /\ step[p] = "read"
    /\ \/ file \in Id /\ Has(p, file)
       \/ file = "torn" /\ To(p, "failed") /\ UNCHANGED <<value, used>>
       \/ /\ file = "absent"
          /\ To(p, "create")
          /\ \E id \in Id : value' = [value EXCEPT ![p] = id]
          /\ UNCHANGED used
    /\ UNCHANGED file

\* Seeded fault: the file is opened without O_EXCL.
FaultyOpenFile(p) ==
    /\ step[p] = "create"
    /\ file' = "torn" /\ To(p, "write")
    /\ UNCHANGED <<value, used>>

\* O_EXCL: a file that another process has created meanwhile is read instead.
OpenFile(p) ==
    /\ step[p] = "create"
    /\ \/ file = "absent" /\ file' = "torn" /\ To(p, "write")
       \/ file # "absent" /\ To(p, "read") /\ UNCHANGED file
    /\ UNCHANGED <<value, used>>

WriteString(p) ==
    /\ step[p] = "write"
    /\ file' = value[p]
    /\ To(p, "close")
    /\ UNCHANGED <<value, used>>

CloseFile(p) ==
    /\ step[p] = "close"
    /\ Has(p, value[p])
    /\ UNCHANGED file

\* One of the calls fails; what it has done so far stays.
CallFails(p) ==
    /\ step[p] \in {"read", "create", "write", "close"}
    /\ To(p, "failed")
    /\ UNCHANGED <<file, value, used>>

\* The process ends, at whatever point.
Gone(p) ==
    /\ step' = [step EXCEPT ![p] = "off"]
    /\ value' = [value EXCEPT ![p] = NoId]
    /\ UNCHANGED <<file, used>>

Loading(p) ==
    ReadFile(p) \/ OpenFile(p) \/ WriteString(p) \/ CloseFile(p)

-----------------------------------------------------------------------------
(* The identity is stable: processes that start together, one after the     *)
(* other, or after one that died half way never go on with two different    *)
(* identities, and the one in use is the one on disk.                       *)
IdentityStable == \A id \in used : file = id
=============================================================================
