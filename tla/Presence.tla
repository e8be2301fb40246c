------------------------------ MODULE Presence ------------------------------
(***************************************************************************)
(* What the engine promises of one bounded set of clients, without         *)
(* connections, holds, providers or events: which presence may follow      *)
(* which, and in answer to what.                                           *)
(***************************************************************************)
CONSTANTS
    Client,         \* client identifiers
    Admissible(_)   \* which sets of clients may be known at once

VARIABLE presence

Known == {c \in Client : presence[c] # "none"}

Init == presence = [c \in Client |-> "none"]

\* Room is made only by forgetting clients that are not present.
MayForget(c) == presence[c] \in {"absent", "unknown"} /\ presence'[c] = "none"

Keeps(c) == presence'[c] = presence[c]

WithinCapacity ==
    /\ presence' \in [Client -> {"none", "present", "absent", "unknown"}]
    /\ Admissible(Known')

\* One client is seen; room may be made for it.
Arrive ==
    /\ WithinCapacity
    /\ \E c \in Client :
        /\ presence'[c] = "present"
        /\ \A d \in Client \ {c} : Keeps(d) \/ MayForget(d)

\* Evidence is lost: present clients become unknown, nothing else happens.
Lose ==
    /\ WithinCapacity
    /\ \A c \in Client :
        Keeps(c) \/ (presence[c] = "present" /\ presence'[c] = "unknown")

\* A snapshot tells who is there.  It is the only step that makes a client
\* absent, and it makes absent only clients that were present or unknown.
Resynchronize ==
    /\ WithinCapacity
    /\ \A c \in Client :
        \/ Keeps(c)
        \/ MayForget(c)
        \/ presence'[c] = "present"
        \/ presence[c] \in {"present", "unknown"} /\ presence'[c] = "absent"
        \/ presence[c] = "present" /\ presence'[c] = "unknown"

Next == Arrive \/ Lose \/ Resynchronize

Spec == Init /\ [][Next]_presence
=============================================================================
