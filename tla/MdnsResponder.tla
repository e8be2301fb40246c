--------------------------- MODULE MdnsResponder ---------------------------
(***************************************************************************)
(* The mDNS responder (internal/mdns/responder.go) between the two         *)
(* goroutines that use it: Run, which announces the service, refreshes the *)
(* announcement and answers queries, and main, which calls Close when the  *)
(* process stops and exits soon after.  Both end in Close; an atomic flag  *)
(* decides which of them does the work.                                    *)
(*                                                                         *)
(* held is what the other hosts have cached of the advertisement, with the *)
(* time it has left.  A unit of time is the read timeout: Run blocks only  *)
(* in a read, for at most one unit.                                        *)
(***************************************************************************)
EXTENDS MdnsPacket, FiniteSets

CONSTANTS
    Datagram,     \* the datagrams that may arrive
    Refresh,      \* refreshInterval
    TTL,          \* announcementTTL
    MaxFailures   \* bound: reads and writes that fail

ASSUME ResponderAssumption ==
    /\ Datagram \subseteq Seq(Octet)
    /\ Refresh \in Nat \ {0} /\ TTL \in Nat /\ TTL > Refresh
    /\ MaxFailures \in Nat

VARIABLES
    at,         \* where Run and main are
    cancelled,  \* the context is done
    closed,     \* Responder.closed
    sock,       \* conn: "open" or "closed"
    since,      \* time since the last announcement
    waited,     \* the read has waited its timeout
    datagram,   \* the contents of Run's buffer
    query,      \* parseQuery on it
    held,       \* by record, the time it has left in the caches
    failures    \* reads and writes that may still fail

mdnsVars == <<at, cancelled, closed, sock, since, waited, datagram, query,
              held, failures>>

Actor == {"run", "main"}
Closing == {"swap", "goodbye", "shut"}
Place == {"announce", "loop", "refresh", "read", "parse", "answer", "done",
          "wait", "leave", "exited"} \cup Closing

(* The type invariant of the responder, with what the parser may hold: no   *)
(* datagram makes it slice outside its buffer, which would bring the whole  *)
(* agent down, or pass its limits.                                          *)
MdnsTypeOK ==
    /\ at \in [Actor -> Place]
    /\ at["run"] \notin {"wait", "leave", "exited"}
    /\ at["main"] \in {"wait", "leave", "exited"} \cup Closing
    /\ cancelled \in BOOLEAN /\ closed \in BOOLEAN /\ sock \in {"open", "closed"}
    /\ since \in 0..Refresh /\ waited \in BOOLEAN
    /\ datagram \in Datagram \cup {<<>>}
    /\ query.left \in 0..MaxQuestions /\ Len(query.questions) <= MaxQuestions
    /\ query.name.status \in {"reading", "name", "malformed"}
    /\ query.name.jumps \in 0..MaxNameJumps
    /\ Len(query.name.text) <= MaxNameBytes + 1
    /\ held \in [Records -> 0..TTL]
    /\ failures \in 0..MaxFailures

MdnsInit ==
    /\ at = [a \in Actor |-> IF a = "run" THEN "announce" ELSE "wait"]
    /\ cancelled = FALSE /\ closed = FALSE /\ sock = "open"
    /\ since = 0 /\ waited = FALSE
    /\ datagram = <<>> /\ query = NoQuery
    /\ held = [r \in Records |-> 0]
    /\ failures = MaxFailures

-----------------------------------------------------------------------------
Alive == at["main"] # "exited"
Go(a, to) == at' = [at EXCEPT ![a] = to]

\* write: a packet that is too long is an error of its own.
WriteOk(packet) == sock = "open" /\ packet.bytes <= MaxResponseBytes

Cached(S, ttl) == held' = [r \in Records |-> IF r \in S THEN ttl ELSE held[r]]

Written(packet, ttl) ==
    /\ WriteOk(packet)
    /\ Cached(Sent(packet), ttl)
    /\ UNCHANGED failures

NotWritten(packet) ==
    /\ \/ ~WriteOk(packet) /\ UNCHANGED failures
       \/ failures > 0 /\ failures' = failures - 1
    /\ UNCHANGED held

-----------------------------------------------------------------------------
(* Run.                                                                    *)

\* The first announcement, and each refresh; a refresh goes on to the read.
announce ==
    /\ Alive /\ at["run"] \in {"announce", "refresh"}
    /\ \/ /\ Written(Announcement, TTL)
          /\ Go("run", IF at["run"] = "announce" THEN "loop" ELSE "read")
          /\ since' = 0 /\ waited' = FALSE
       \/ NotWritten(Announcement) /\ Go("run", "swap") /\ UNCHANGED <<since, waited>>
    /\ UNCHANGED <<cancelled, closed, sock, datagram, query>>

\* Seeded fault: the announcement is refreshed when it has expired.
LateDue == since >= TTL

Due == since >= Refresh

loop ==
    /\ Alive /\ at["run"] = "loop"
    /\ cancelled \/ ~Due
    /\ Go("run", IF cancelled THEN "swap" ELSE "read")
    /\ waited' = FALSE
    /\ UNCHANGED <<cancelled, closed, sock, since, datagram, query, held, failures>>

refresh ==
    /\ Alive /\ at["run"] = "loop"
    /\ ~cancelled /\ Due
    /\ Go("run", "refresh")
    /\ UNCHANGED <<cancelled, closed, sock, since, waited, datagram, query, held, failures>>

\* A datagram arrives.
read ==
    /\ Alive /\ at["run"] = "read"
    /\ sock = "open"
    /\ datagram' \in Datagram
    /\ Go("run", "parse")
    /\ UNCHANGED <<cancelled, closed, sock, since, waited, query, held, failures>>

\* The deadline passes; or the socket is closed, or fails.
readEnds ==
    /\ Alive /\ at["run"] = "read"
    /\ \/ sock = "open" /\ waited /\ Go("run", "loop") /\ UNCHANGED failures
       \/ sock = "closed" /\ Go("run", "swap") /\ UNCHANGED failures
       \/ failures > 0 /\ Go("run", "swap") /\ failures' = failures - 1
    /\ UNCHANGED <<cancelled, closed, sock, since, waited, datagram, query, held>>

parse ==
    /\ Alive /\ at["run"] = "parse"
    /\ query.status \in {"none", "parsing"} /\ query.name.status # "panic"
    /\ query' = ParseStep(datagram, query)
    /\ UNCHANGED <<at, cancelled, closed, sock, since, waited, datagram, held, failures>>

\* What respond writes, once the query is parsed.
Response == buildResponse(responseFor(query.questions))

Silent == query.status = "refused" \/ Found(query.questions) = <<>>

parsed ==
    /\ Alive /\ at["run"] = "parse"
    /\ query.status \in {"refused", "parsed"}
    /\ IF Silent
         THEN Go("run", "loop") /\ datagram' = <<>> /\ query' = NoQuery
         ELSE Go("run", "answer") /\ UNCHANGED <<datagram, query>>
    /\ UNCHANGED <<cancelled, closed, sock, since, waited, held, failures>>

\* A response that cannot be written is forgotten.
answer ==
    /\ Alive /\ at["run"] = "answer"
    /\ LET packet == Response IN Written(packet, TTL) \/ NotWritten(packet)
    /\ Go("run", "loop")
    /\ datagram' = <<>> /\ query' = NoQuery
    /\ UNCHANGED <<cancelled, closed, sock, since, waited>>

-----------------------------------------------------------------------------
(* Close, deferred by Run and called by main.                              *)

Closed(a) == Go(a, IF a = "run" THEN "done" ELSE "leave")

\* Seeded fault: the flag is read here and set with the goodbye.
FaultySwap(a) ==
    /\ Alive /\ at[a] = "swap"
    /\ IF sock = "closed" THEN Closed(a) ELSE Go(a, "goodbye")
    /\ closed' = TRUE
    /\ UNCHANGED <<cancelled, sock, since, waited, datagram, query, held, failures>>

swap(a) ==
    /\ Alive /\ at[a] = "swap"
    /\ IF closed THEN Closed(a) ELSE Go(a, "goodbye")
    /\ closed' = TRUE
    /\ UNCHANGED <<cancelled, sock, since, waited, datagram, query, held, failures>>

goodbye(a) ==
    /\ Alive /\ at[a] = "goodbye"
    /\ Written(Announcement, 0) \/ NotWritten(Announcement)
    /\ Go(a, "shut")
    /\ UNCHANGED <<cancelled, closed, sock, since, waited, datagram, query>>

shut(a) ==
    /\ Alive /\ at[a] = "shut"
    /\ sock' = "closed"
    /\ Closed(a)
    /\ UNCHANGED <<cancelled, closed, since, waited, datagram, query, held, failures>>

-----------------------------------------------------------------------------
(* main, and time.                                                         *)

\* A signal or a failed provider cancels the context; a failed API does not.
stop ==
    /\ at["main"] = "wait"
    /\ Go("main", "swap")
    /\ cancelled' \in BOOLEAN
    /\ UNCHANGED <<closed, sock, since, waited, datagram, query, held, failures>>

\* The shutdown of the API ends, and the process with it.
exit ==
    /\ at["main"] = "leave"
    /\ Go("main", "exited")
    /\ UNCHANGED <<cancelled, closed, sock, since, waited, datagram, query, held, failures>>

\* Time passes while Run waits in its read or is no longer there.
Pass ==
    /\ \/ at["run"] = "read" /\ ~waited /\ waited' = TRUE
       \/ at["run"] = "done" /\ UNCHANGED waited
       \/ ~Alive /\ UNCHANGED waited
    /\ since' = IF at["run"] = "read" /\ Alive THEN since + 1 ELSE since
    /\ held' = [r \in Records |-> IF held[r] = 0 THEN 0 ELSE held[r] - 1]
    /\ UNCHANGED <<at, cancelled, closed, sock, datagram, query, failures>>

Run == announce \/ loop \/ refresh \/ read \/ readEnds \/ parse \/ parsed \/ answer
Close(a) == swap(a) \/ goodbye(a) \/ shut(a)

MdnsNext == Run \/ (\E a \in Actor : Close(a)) \/ stop \/ exit \/ Pass

(***************************************************************************)
(* Fairness: Run does not block on its own processor time.  Nothing has to *)
(* stop the process, and no datagram has to arrive.                        *)
(***************************************************************************)
MdnsFairness == WF_mdnsVars(parse \/ parsed)

MdnsSpec == MdnsInit /\ [][MdnsNext]_mdnsVars /\ MdnsFairness

-----------------------------------------------------------------------------
(* Properties.                                                             *)

(* Every datagram is dealt with, also one whose compression pointers lead   *)
(* back to themselves: the decoder has no other way to hang the responder.  *)
ParseEnds == at["run"] = "parse" ~> at["run"] # "parse" \/ ~Alive

Shouted(text) == [i \in DOMAIN text |-> IF text[i] \in 97..122 THEN text[i] - 32 ELSE text[i]]

\* A query with one question, for record r under the name text.
Ask(r, text) ==
    <<0, 0, 0, 0, 0, 1, 0, 0, 0, 0, 0, 0>> \o encodeName(text) \o <<0, r.type, 0, classIN>>

(* A host that asks for a record by its name, as the agent publishes it or  *)
(* in capitals, is sent that record: encoding, decoding and comparing names *)
(* agree with each other.                                                   *)
Discoverable ==
    at["run"] \in {"parse", "answer"} /\ query.status \in {"parsed", "refused"} =>
        \A r \in Records :
            datagram \in {Ask(r, r.name), Ask(r, Shouted(r.name))} =>
                r \in Range(Response.answers)

Wanted == UNION {Range(answers(q)) \cup Range(additionals(q)) : q \in Range(query.questions)}

(* A response carries all that its questions call for, each record once,    *)
(* whatever the questions repeat or overlap: the bound on the questions     *)
(* keeps it below the bound on its length.                                  *)
ResponseComplete ==
    at["run"] = "answer" =>
        LET packet == Response
        IN  /\ Sent(packet) = Wanted
            /\ IsInjective(packet.answers \o packet.additionals)

(* While the responder runs, the advertisement never expires in the caches: *)
(* no delay between a due refresh and the announcement is longer than the   *)
(* time the records have left.                                              *)
StaysAdvertised ==
    at["run"] \in {"loop", "refresh", "read", "parse", "answer"} /\ ~closed =>
        \A r \in Records : held[r] > 0

(* Of Run and main one says goodbye and closes the socket: the other        *)
(* returns from Close without a second goodbye.                             *)
ClosesOnce ==
    Cardinality({a \in Actor : at[a] \in {"goodbye", "shut"}}) <=
        (IF sock = "open" THEN 1 ELSE 0)
=============================================================================
