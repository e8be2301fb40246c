----------------------------- MODULE MdnsPacket -----------------------------
(***************************************************************************)
(* The DNS messages of the mDNS responder (internal/mdns/packet.go and     *)
(* service.go): decoding the questions of a datagram octet by octet, the   *)
(* records that answer them, and what of these a bounded response holds.   *)
(*                                                                         *)
(* A packet is a sequence of octets; the code's offsets start at 0.  One   *)
(* DecodeStep is one iteration of decodeName, so that whether the loop     *)
(* ends is a question about behaviours.  A slice that leaves the packet    *)
(* panics in Go, and here.  A record is its owner name and type; its       *)
(* contents only matter for the room it takes.                             *)
(***************************************************************************)
EXTENDS Integers, Sequences, SequencesExt

CONSTANTS
    MaxNameBytes,      \* maxNameBytes
    MaxNameJumps,      \* maxNameJumps
    MaxQuestions,      \* maxQuestionsPerQuery
    MaxResponseBytes,  \* maxResponseBytes
    ServiceName,       \* serviceType, as text
    InstanceName,      \* advertisement.instance
    HostName,          \* advertisement.host
    DataBytes          \* by record type, the length of its data

HeaderBytes == 12
Dot == 46
typeA == 1
typePTR == 12
typeTXT == 16
typeSRV == 33
classIN == 1

ASSUME PacketAssumption ==
    /\ MaxNameBytes \in Nat \ {0} /\ MaxNameJumps \in Nat
    /\ MaxQuestions \in Nat \ {0} /\ MaxResponseBytes \in Nat
    /\ DataBytes \in [{typeA, typePTR, typeTXT, typeSRV} -> Nat]

Octet == 0..255
Word(p, i) == p[i + 1] * 256 + p[i + 2]

-----------------------------------------------------------------------------
(* decodeName.                                                             *)

Reading(offset) ==
    [status |-> "reading", cursor |-> offset, next |-> -1, jumps |-> 0, text |-> <<>>]

Malformed(d) == [d EXCEPT !.status = "malformed"]

\* An iteration slices the packet up to end and goes on to d2.
Sliced(p, end, d, d2) == IF end > Len(p) THEN [d EXCEPT !.status = "panic"] ELSE d2

End(d) ==
    [d EXCEPT !.status = "name", !.text = Append(@, Dot),
              !.next = IF @ < 0 THEN d.cursor + 1 ELSE @]

Joined(p, d, length) ==
    (IF d.text = <<>> THEN <<>> ELSE Append(d.text, Dot))
        \o SubSeq(p, d.cursor + 2, d.cursor + 1 + length)

\* Seeded fault: the length of a label is not compared with what is left.
FaultyLabel(p, d, length) ==
    Sliced(p, d.cursor + 1 + length, d,
        [d EXCEPT !.text = Joined(p, d, length), !.cursor = @ + 1 + length])

Label(p, d, length) ==
    IF \/ d.cursor + 1 + length > Len(p)
       \/ Len(Joined(p, d, length)) > MaxNameBytes
      THEN Malformed(d)
      ELSE Sliced(p, d.cursor + 1 + length, d,
             [d EXCEPT !.text = Joined(p, d, length), !.cursor = @ + 1 + length])

Pointer(p, d) == Word(p, d.cursor) % 16384

Follow(p, d) ==
    [d EXCEPT !.cursor = Pointer(p, d), !.jumps = @ + 1,
              !.next = IF @ < 0 THEN d.cursor + 2 ELSE @]

\* Seeded fault: a pointer is followed wherever it leads, and not counted.
FaultyJump(p, d) ==
    IF d.cursor + 2 > Len(p) THEN Malformed(d)
    ELSE [Follow(p, d) EXCEPT !.jumps = 0]

\* Only backwards, and only so often.
Jump(p, d) ==
    IF \/ d.cursor + 2 > Len(p)
       \/ Pointer(p, d) >= d.cursor
       \/ d.jumps + 1 > MaxNameJumps
      THEN Malformed(d)
      ELSE Sliced(p, d.cursor + 2, d, Follow(p, d))

DecodeStep(p, d) ==
    IF d.cursor >= Len(p) THEN Malformed(d)
    ELSE LET length == p[d.cursor + 1]
         IN  CASE length = 0          -> End(d)
               [] length \in 1..63    -> Label(p, d, length)
               [] length \in 192..255 -> Jump(p, d)
               [] OTHER               -> Malformed(d)

-----------------------------------------------------------------------------
(***************************************************************************)
(* parseQuery.  A query is parsed into the questions of class IN; left     *)
(* counts the questions still to be read, name is the name being decoded.  *)
(***************************************************************************)
NoQuery == [status |-> "none", left |-> 0, questions |-> <<>>, name |-> Reading(0)]

Refused(q) == [q EXCEPT !.status = "refused"]

\* A response or an operation other than a query, or too many questions.
ParseHeader(p) ==
    IF \/ Len(p) < HeaderBytes
       \/ p[3] >= 128 \/ (p[3] \div 8) % 16 # 0
       \/ Word(p, 4) > MaxQuestions
      THEN Refused(NoQuery)
      ELSE [status |-> IF Word(p, 4) = 0 THEN "parsed" ELSE "parsing",
            left |-> Word(p, 4), questions |-> <<>>, name |-> Reading(HeaderBytes)]

\* The type and the class that follow a name.
ParseQuestion(p, q) ==
    IF q.name.next + 4 > Len(p) THEN Refused(q)
    ELSE LET asked == [name |-> q.name.text, type |-> Word(p, q.name.next)]
         IN  [status |-> IF q.left = 1 THEN "parsed" ELSE "parsing",
              left |-> q.left - 1,
              questions |-> IF Word(p, q.name.next + 2) % 32768 = classIN
                              THEN Append(q.questions, asked) ELSE q.questions,
              name |-> Reading(q.name.next + 4)]

ParseStep(p, q) ==
    IF q.status = "none" THEN ParseHeader(p)
    ELSE CASE q.name.status = "reading"   -> [q EXCEPT !.name = DecodeStep(p, @)]
           [] q.name.status = "malformed" -> Refused(q)
           [] q.name.status = "name"      -> ParseQuestion(p, q)
           [] OTHER                       -> q

-----------------------------------------------------------------------------
(* Names on the wire.                                                      *)

LabelStart(text, i) == i = 1 \/ text[i - 1] = Dot

LabelLength(text, i) ==
    (CHOOSE j \in i..Len(text) : text[j] = Dot /\ \A k \in i..(j - 1) : text[k] # Dot) - i

encodable(text) ==
    /\ Len(text) > 1 /\ text[Len(text)] = Dot
    /\ \A i \in 1..Len(text) : text[i] \in 33..126
    /\ \A i \in 1..Len(text) : LabelStart(text, i) => LabelLength(text, i) \in 1..63
    /\ Len(text) + 1 <= MaxNameBytes

\* The instance is a label before the service; the host is shorter than it.
ASSUME NamesAssumption ==
    /\ \A text \in {ServiceName, InstanceName, HostName} :
        text \in Seq(Octet) /\ encodable(text)
    /\ \A text \in {ServiceName, HostName} : Len(text) <= Len(InstanceName)

\* Each label's length takes the place of the dot before it.
encodeName(text) ==
    [i \in 1..(Len(text) + 1) |->
        CASE i = Len(text) + 1 -> 0
          [] i <= Len(text) /\ LabelStart(text, i) -> LabelLength(text, i)
          [] OTHER -> text[i - 1]]

Lower(o) == IF o \in 65..90 THEN o + 32 ELSE o

\* strings.EqualFold (external), for ASCII.
EqualFold(a, b) ==
    Len(a) = Len(b) /\ \A i \in 1..Len(a) : Lower(a[i]) = Lower(b[i])

-----------------------------------------------------------------------------
(* The records of the advertisement, and the response to a query.          *)

ptr == [name |-> ServiceName, type |-> typePTR]
srv == [name |-> InstanceName, type |-> typeSRV]
txt == [name |-> InstanceName, type |-> typeTXT]
address == [name |-> HostName, type |-> typeA]
all == <<ptr, srv, txt, address>>
Records == Range(all)

\* Seeded fault: names are compared as they are written.
FaultyAsks(q, r) == q.type = r.type /\ q.name = r.name

Asks(q, r) == q.type = r.type /\ EqualFold(q.name, r.name)

answers(q) ==
    CASE Asks(q, ptr)     -> <<ptr>>
      [] Asks(q, srv)     -> <<srv>>
      [] Asks(q, txt)     -> <<txt>>
      [] Asks(q, address) -> <<address>>
      [] OTHER            -> <<>>

additionals(q) ==
    CASE Asks(q, ptr) -> <<srv, txt, address>>
      [] Asks(q, srv) -> <<address>>
      [] OTHER        -> <<>>

\* Seeded fault: what is already in the response is added again.
FaultyAppendUnique(target, values, seen) == target \o values

appendUnique(target, values, seen) ==
    FoldLeft(LAMBDA acc, r : IF r \in seen \cup Range(acc) THEN acc ELSE Append(acc, r),
             target, values)

\* The entries of s that are in S, in order; the others are passed over.
Only(s, S) == FoldLeft(LAMBDA acc, e : IF e \in S THEN Append(acc, e) ELSE acc, <<>>, s)

\* Group by group, what the questions call for.
Collected(groups, seen) ==
    FoldLeft(LAMBDA acc, values : appendUnique(acc, values, seen), <<>>, groups)

Found(questions) == Collected([i \in DOMAIN questions |-> answers(questions[i])], {})

Added(questions, seen) ==
    Collected([i \in DOMAIN questions |-> additionals(questions[i])], seen)

responseFor(questions) ==
    LET found == Found(questions)
    IN  [questions |-> Only(questions, {q \in Range(questions) : answers(q) # <<>>}),
         answers |-> found,
         additionals |-> Added(questions, Range(found))]

QuestionBytes(q) == Len(q.name) + 1 + 4
RecordBytes(r) == Len(r.name) + 1 + 10 + DataBytes[r.type]

(***************************************************************************)
(* The limit leaves room for as many copies of the longest question as a   *)
(* query may hold and for every record once.  With the names and limits of *)
(* the code that is 12 + 8 * 72 + 408 = 996 of 1400.                       *)
(***************************************************************************)
ASSUME RoomAssumption ==
    MaxResponseBytes >=
        HeaderBytes + MaxQuestions * QuestionBytes(srv)
            + RecordBytes(ptr) + RecordBytes(srv) + RecordBytes(txt) + RecordBytes(address)

\* A section takes its entries, sizes[i] octets for entries[i], up to the first
\* that does not fit.
Fill(section, entries, sizes) ==
    FoldLeft(LAMBDA acc, i :
               IF acc.full \/ acc.bytes + sizes[i] > MaxResponseBytes
                 THEN [acc EXCEPT !.full = TRUE]
                 ELSE [acc EXCEPT !.bytes = @ + sizes[i], !.taken = Append(@, entries[i])],
             [section EXCEPT !.full = FALSE, !.taken = <<>>],
             [i \in DOMAIN entries |-> i])

RecordSizes(rs) == [i \in DOMAIN rs |-> RecordBytes(rs[i])]

\* The records a response holds, and its length.
buildResponse(r) ==
    LET empty == [bytes |-> HeaderBytes, taken |-> <<>>, full |-> FALSE]
        named == Only(r.questions, {q \in Range(r.questions) : encodable(q.name)})
        asked == Fill(empty, named, [i \in DOMAIN named |-> QuestionBytes(named[i])])
        found == Fill(asked, r.answers, RecordSizes(r.answers))
        extra == Fill(found, r.additionals, RecordSizes(r.additionals))
    IN  [answers |-> found.taken, additionals |-> extra.taken, bytes |-> extra.bytes]

Sent(packet) == Range(packet.answers) \cup Range(packet.additionals)

Announcement == buildResponse([questions |-> <<>>, answers |-> all, additionals |-> <<>>])
=============================================================================
