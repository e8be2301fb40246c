----------------------------- MODULE MdnsProofs -----------------------------
(***************************************************************************)
(* The mDNS responder, for all names and limits: it closes once, no        *)
(* datagram takes the parser past its limits, the advertisement stays in   *)
(* the caches, a response is complete, and a record that is asked for by   *)
(* its name is sent.                                                       *)
(***************************************************************************)
EXTENDS MdnsResponder, FiniteSetTheorems, SequenceTheorems, WellFoundedInduction, TLAPS

(***************************************************************************)
(* What makes ClosesOnce inductive: whoever is past the swap has set the   *)
(* flag and finds the socket open, so the other one cannot get past it,    *)
(* neither now nor after the socket is closed.                             *)
(***************************************************************************)
Past(a) == at[a] \in {"goodbye", "shut"}

CloseInv ==
    /\ at \in [Actor -> Place] /\ closed \in BOOLEAN /\ sock \in {"open", "closed"}
    /\ \A a \in Actor : Past(a) => closed /\ sock = "open"
    /\ sock = "closed" => closed
    /\ \A a, b \in Actor : Past(a) /\ Past(b) => a = b

LEMMA CloseInvInit == MdnsInit => CloseInv
BY DEF MdnsInit, CloseInv, Past, Actor, Place, Closing

LEMMA CloseInvStep == CloseInv /\ [MdnsNext]_mdnsVars => CloseInv'
<1> SUFFICES ASSUME CloseInv, [MdnsNext]_mdnsVars PROVE CloseInv'
    OBVIOUS
<1> USE DEF CloseInv, Past, Actor, Go, Closed, Place, Closing
<1>1. CASE announce
    BY <1>1 DEF announce
<1>2. CASE loop
    BY <1>2 DEF loop
<1>3. CASE refresh
    BY <1>3 DEF refresh
<1>4. CASE read \/ readEnds
    BY <1>4 DEF read, readEnds
<1>5. CASE parse
    BY <1>5 DEF parse
<1>6. CASE parsed
    BY <1>6 DEF parsed
<1>7. CASE answer
    BY <1>7 DEF answer
<1>8. ASSUME NEW a \in Actor, swap(a) PROVE CloseInv'
    BY <1>8 DEF swap
<1>9. ASSUME NEW a \in Actor, goodbye(a) PROVE CloseInv'
    BY <1>9 DEF goodbye
<1>10. ASSUME NEW a \in Actor, shut(a) PROVE CloseInv'
    BY <1>10 DEF shut
<1>11. CASE stop \/ exit
    BY <1>11 DEF stop, exit
<1>12. CASE Pass \/ UNCHANGED mdnsVars
    BY <1>12 DEF Pass, mdnsVars
<1> QED
    BY <1>1, <1>2, <1>3, <1>4, <1>5, <1>6, <1>7, <1>8, <1>9, <1>10, <1>11, <1>12
       DEF MdnsNext, Run, Close

LEMMA OnceCounted == CloseInv => ClosesOnce
<1> SUFFICES ASSUME CloseInv PROVE ClosesOnce
    OBVIOUS
<1> DEFINE S == {a \in Actor : at[a] \in {"goodbye", "shut"}}
<1>1. CASE S = {}
    BY <1>1, FS_EmptySet DEF ClosesOnce
<1>2. CASE S # {}
  <2>1. PICK a \in Actor : a \in S
    BY <1>2
  <2>2. S = {a} /\ sock = "open"
    BY <2>1 DEF CloseInv, Past
  <2>3. Cardinality({a}) = 1
    BY FS_Singleton
  <2> QED
    BY <2>2, <2>3 DEF ClosesOnce
<1> QED
    BY <1>1, <1>2

(* Close says goodbye and closes the socket once between its two callers.   *)
THEOREM ClosedOnce == MdnsSpec => []ClosesOnce
<1> QED
    BY CloseInvInit, CloseInvStep, OnceCounted, PTL DEF MdnsSpec

-----------------------------------------------------------------------------
(***************************************************************************)
(* The parser, on any datagram.  The bounds of MdnsTypeOK need to know     *)
(* what the decoder has in hand: where its cursor and the end of the name  *)
(* are, that a name not yet ended leaves room for its last dot, and that   *)
(* the questions found and those still to be read are together within the  *)
(* limit.                                                                  *)
(***************************************************************************)
Name ==
    [status : {"reading", "name", "malformed"}, cursor : Nat, next : Nat \cup {-1},
     jumps : 0..MaxNameJumps, text : Seq(Octet)]

NameOK(d) ==
    /\ d \in Name
    /\ d.status = "name" => d.next \in Nat /\ Len(d.text) <= MaxNameBytes + 1
    /\ d.status # "name" => Len(d.text) <= MaxNameBytes

AskedQuestion == [name : Seq(Octet), type : Nat]

Query ==
    [status : {"none", "parsing", "parsed", "refused"}, left : 0..MaxQuestions,
     questions : Seq(AskedQuestion), name : Name]

QueryOK(q) ==
    /\ q \in Query /\ NameOK(q.name)
    /\ Len(q.questions) + q.left <= MaxQuestions
    /\ q.status = "parsing" => q.left >= 1

(* Two octets within the packet are a number.                               *)
LEMMA WordFacts ==
    ASSUME NEW p \in Seq(Octet), NEW i \in Nat, i + 2 <= Len(p)
    PROVE  Word(p, i) \in Nat
<1>1. Len(p) \in Nat /\ i + 1 \in 1..Len(p) /\ i + 2 \in 1..Len(p)
    BY LenProperties
<1>2. p[i + 1] \in 0..255 /\ p[i + 2] \in 0..255
    BY <1>1, ElementOfSeq DEF Octet
<1>3. \A a, b \in 0..255 : a * 256 + b \in Nat
    OBVIOUS
<1> QED BY <1>2, <1>3 DEF Word

LEMMA ReadingFacts ==
    ASSUME NEW offset \in Nat
    PROVE  NameOK(Reading(offset))
<1>1. <<>> \in Seq(Octet) /\ Len(<<>>) = 0
    BY EmptySeq
<1> QED BY <1>1, PacketAssumption DEF Reading, NameOK, Name

LEMMA JoinedFacts ==
    ASSUME NEW p \in Seq(Octet), NEW d \in Name, NEW length \in Nat,
           d.cursor + 1 + length <= Len(p)
    PROVE  Joined(p, d, length) \in Seq(Octet) /\ Len(Joined(p, d, length)) \in Nat
<1> DEFINE label == SubSeq(p, d.cursor + 2, d.cursor + 1 + length)
           head == IF d.text = <<>> THEN <<>> ELSE Append(d.text, Dot)
<1>1. d.text \in Seq(Octet) /\ d.cursor \in Nat
    BY DEF Name
<1>2. head \in Seq(Octet)
    <2>1. Dot \in Octet
        BY DEF Dot, Octet
    <2> QED BY <1>1, <2>1, AppendProperties, EmptySeq
<1>3. label \in Seq(Octet)
    BY <1>1, SubSeqProperties, LenProperties
<1> HIDE DEF label, head
<1>4. head \o label \in Seq(Octet)
    BY <1>2, <1>3, ConcatProperties
<1>5. Joined(p, d, length) = head \o label
    BY DEF Joined, head, label
<1> QED BY <1>4, <1>5, LenProperties

(* One iteration of decodeName stays within the packet and the limits.      *)
LEMMA DecodeFacts ==
    ASSUME NEW p \in Seq(Octet), NEW d, NameOK(d), d.status = "reading"
    PROVE  NameOK(DecodeStep(p, d))
<1>1. /\ d \in Name /\ d.cursor \in Nat /\ d.next \in Nat \cup {-1}
      /\ d.jumps \in 0..MaxNameJumps /\ d.text \in Seq(Octet)
      /\ Len(d.text) \in Nat /\ Len(d.text) <= MaxNameBytes
    BY LenProperties DEF NameOK, Name
<1>2. MaxNameBytes \in Nat /\ MaxNameJumps \in Nat /\ Len(p) \in Nat
    BY PacketAssumption, LenProperties
<1>3. NameOK(Malformed(d))
    BY <1>1, <1>2 DEF Malformed, NameOK, Name
<1> DEFINE length == p[d.cursor + 1]
<1>4. ASSUME d.cursor < Len(p) PROVE length \in 0..255
    <2>1. d.cursor + 1 \in 1..Len(p)
        BY <1>1, <1>2, <1>4
    <2> QED BY <2>1, ElementOfSeq DEF Octet
<1> HIDE DEF length
<1>5. ASSUME d.cursor < Len(p), length = 0 PROVE NameOK(End(d))
    <2>1. Dot \in Octet
        BY DEF Dot, Octet
    <2>2. /\ Append(d.text, Dot) \in Seq(Octet)
          /\ Len(Append(d.text, Dot)) = Len(d.text) + 1
        BY <1>1, <2>1, AppendProperties
    <2> DEFINE text == Append(d.text, Dot)
               next == IF d.next < 0 THEN d.cursor + 1 ELSE d.next
    <2>3. next \in Nat
        BY <1>1
    <2>4. End(d) = [d EXCEPT !.status = "name", !.text = text, !.next = next]
        BY <1>1 DEF End, Name
    <2>5. text \in Seq(Octet) /\ Len(text) <= MaxNameBytes + 1
        BY <1>1, <1>2, <2>2
    <2> HIDE DEF text, next
    <2> QED BY <1>1, <2>3, <2>4, <2>5 DEF NameOK, Name
<1>6. ASSUME d.cursor < Len(p), length \in 1..63 PROVE NameOK(Label(p, d, length))
    <2>1. CASE \/ d.cursor + 1 + length > Len(p)
               \/ Len(Joined(p, d, length)) > MaxNameBytes
        BY <1>3, <2>1 DEF Label
    <2>2. CASE /\ ~(d.cursor + 1 + length > Len(p))
               /\ ~(Len(Joined(p, d, length)) > MaxNameBytes)
        <3> DEFINE text == Joined(p, d, length)
                   cursor == d.cursor + 1 + length
        <3>1. d.cursor + 1 + length <= Len(p)
            BY <1>1, <1>2, <1>6, <2>2
        <3>2. text \in Seq(Octet) /\ Len(text) \in Nat
            BY <1>1, <1>6, <3>1, JoinedFacts
        <3>3. Len(text) <= MaxNameBytes
            BY <1>2, <2>2, <3>2
        <3>4. cursor \in Nat
            BY <1>1, <1>6
        <3>5. Label(p, d, length) = [d EXCEPT !.text = text, !.cursor = cursor]
            BY <1>1, <2>2 DEF Label, Sliced, Name
        <3> HIDE DEF text, cursor
        <3> QED BY <1>1, <3>2, <3>3, <3>4, <3>5 DEF NameOK, Name
    <2> QED BY <2>1, <2>2
<1>7. NameOK(Jump(p, d))
    <2>1. CASE \/ d.cursor + 2 > Len(p)
               \/ Pointer(p, d) >= d.cursor
               \/ d.jumps + 1 > MaxNameJumps
        BY <1>3, <2>1 DEF Jump
    <2>2. CASE /\ ~(d.cursor + 2 > Len(p))
               /\ ~(Pointer(p, d) >= d.cursor)
               /\ ~(d.jumps + 1 > MaxNameJumps)
        <3>1. Word(p, d.cursor) \in Nat
            BY <1>1, <1>2, <2>2, WordFacts
        <3>2. \A w \in Nat : w % 16384 \in Nat
            OBVIOUS
        <3>3. Pointer(p, d) \in Nat
            BY <3>1, <3>2 DEF Pointer
        <3>4. Jump(p, d) = Follow(p, d)
            BY <2>2 DEF Jump, Sliced
        <3> DEFINE cursor == Pointer(p, d)
                   next == IF d.next < 0 THEN d.cursor + 2 ELSE d.next
                   jumps == d.jumps + 1
        <3>5. next \in Nat /\ jumps \in 0..MaxNameJumps
            BY <1>1, <1>2, <2>2
        <3>6. Follow(p, d) = [d EXCEPT !.cursor = cursor, !.jumps = jumps, !.next = next]
            BY <1>1 DEF Follow, Name
        <3>7. cursor \in Nat
            BY <3>3
        <3> HIDE DEF cursor, next, jumps
        <3>8. /\ Follow(p, d) \in Name
              /\ Follow(p, d).status = "reading" /\ Follow(p, d).text = d.text
            BY <1>1, <3>5, <3>6, <3>7 DEF Name
        <3> QED BY <1>1, <3>4, <3>8 DEF NameOK
    <2> QED BY <2>1, <2>2
<1>8. CASE d.cursor >= Len(p)
    BY <1>3, <1>8 DEF DecodeStep
<1>9. CASE d.cursor < Len(p)
    <2>1. ~(d.cursor >= Len(p))
        BY <1>1, <1>2, <1>9
    <2>2. DecodeStep(p, d) =
            CASE length = 0          -> End(d)
              [] length \in 1..63    -> Label(p, d, length)
              [] length \in 192..255 -> Jump(p, d)
              [] OTHER               -> Malformed(d)
        BY <2>1 DEF DecodeStep, length
    <2>3. CASE length = 0
        <3>1. DecodeStep(p, d) = End(d)
            BY <2>2, <2>3
        <3> QED BY <1>5, <1>9, <2>3, <3>1
    <2>4. CASE length \in 1..63
        <3>1. length # 0 /\ length \notin 192..255
            BY <2>4
        <3>2. DecodeStep(p, d) = Label(p, d, length)
            BY <2>2, <2>4, <3>1, Zenon
        <3> QED BY <1>6, <1>9, <2>4, <3>2
    <2>5. CASE length \in 192..255
        <3>1. DecodeStep(p, d) = Jump(p, d)
            BY <2>2, <2>5
        <3> QED BY <1>7, <3>1
    <2>6. CASE length \in 64..191
        <3>1. length # 0 /\ length \notin 1..63 /\ length \notin 192..255
            BY <2>6
        <3>2. DecodeStep(p, d) = Malformed(d)
            BY <2>2, <3>1, Zenon
        <3> QED BY <1>3, <3>2
    <2> QED BY <1>4, <1>9, <2>3, <2>4, <2>5, <2>6
<1> QED BY <1>1, <1>2, <1>8, <1>9

(* The steps of parseQuery keep its bounds.                                 *)
LEMMA RefusedFacts ==
    ASSUME NEW q, QueryOK(q)
    PROVE  QueryOK(Refused(q))
BY DEF QueryOK, Query, Refused

LEMMA NoQueryFacts == QueryOK(NoQuery) /\ QueryOK(Refused(NoQuery))
<1>1. <<>> \in Seq(AskedQuestion) /\ Len(<<>>) = 0
    BY EmptySeq
<1>2. NameOK(Reading(0)) /\ Reading(0) \in Name
    BY ReadingFacts DEF NameOK
<1>3. MaxQuestions \in Nat
    BY PacketAssumption
<1>4. NoQuery \in Query
    BY <1>1, <1>2, <1>3 DEF NoQuery, Query
<1>5. /\ NoQuery.status = "none" /\ NoQuery.left = 0
      /\ NoQuery.questions = <<>> /\ NoQuery.name = Reading(0)
    BY DEF NoQuery
<1>6. Len(NoQuery.questions) + NoQuery.left <= MaxQuestions
    BY <1>1, <1>3, <1>5
<1>7. QueryOK(NoQuery)
    BY <1>2, <1>4, <1>5, <1>6 DEF QueryOK
<1> QED BY <1>7, RefusedFacts

LEMMA ParseHeaderFacts ==
    ASSUME NEW p \in Seq(Octet)
    PROVE  QueryOK(ParseHeader(p))
<1>1. MaxQuestions \in Nat /\ Len(p) \in Nat
    BY PacketAssumption, LenProperties
<1> DEFINE n == Word(p, 4)
           q == [status |-> IF n = 0 THEN "parsed" ELSE "parsing",
                 left |-> n, questions |-> <<>>, name |-> Reading(HeaderBytes)]
<1>2. CASE \/ Len(p) < HeaderBytes
           \/ p[3] >= 128 \/ (p[3] \div 8) % 16 # 0
           \/ n > MaxQuestions
    BY <1>2, NoQueryFacts DEF ParseHeader
<1>3. CASE ~ \/ Len(p) < HeaderBytes
             \/ p[3] >= 128 \/ (p[3] \div 8) % 16 # 0
             \/ n > MaxQuestions
    <2>1. ParseHeader(p) = q
        BY <1>3 DEF ParseHeader
    <2>2. n \in Nat
        BY <1>1, <1>3, WordFacts DEF HeaderBytes
    <2>3. n \in 0..MaxQuestions
        BY <1>1, <1>3, <2>2
    <2>4. NameOK(Reading(HeaderBytes)) /\ Reading(HeaderBytes) \in Name
        BY ReadingFacts DEF NameOK, HeaderBytes
    <2>5. <<>> \in Seq(AskedQuestion) /\ Len(<<>>) = 0
        BY EmptySeq
    <2> HIDE DEF n
    <2>6. q \in Query /\ q.name = Reading(HeaderBytes) /\ q.left = n
          /\ q.questions = <<>> /\ (q.status = "parsing" => n # 0)
        BY <2>3, <2>4, <2>5 DEF Query
    <2> HIDE DEF q
    <2>7. Len(q.questions) + q.left <= MaxQuestions
        BY <1>1, <2>3, <2>5, <2>6
    <2>8. QueryOK(q)
        BY <2>3, <2>4, <2>6, <2>7 DEF QueryOK
    <2> QED BY <2>1, <2>8
<1> QED BY <1>2, <1>3

LEMMA ParseQuestionFacts ==
    ASSUME NEW p \in Seq(Octet), NEW q, QueryOK(q), q.status = "parsing",
           q.name.status = "name"
    PROVE  QueryOK(ParseQuestion(p, q))
<1> DEFINE next == q.name.next
           asked == [name |-> q.name.text, type |-> Word(p, next)]
           questions == IF Word(p, next + 2) % 32768 = classIN
                          THEN Append(q.questions, asked) ELSE q.questions
           q2 == [status |-> IF q.left = 1 THEN "parsed" ELSE "parsing",
                  left |-> q.left - 1, questions |-> questions, name |-> Reading(next + 4)]
<1>1. /\ MaxQuestions \in Nat /\ Len(p) \in Nat /\ next \in Nat
      /\ q.name.text \in Seq(Octet) /\ q.left \in 1..MaxQuestions
      /\ q.questions \in Seq(AskedQuestion) /\ Len(q.questions) \in Nat
      /\ Len(q.questions) + q.left <= MaxQuestions
    BY PacketAssumption, LenProperties DEF QueryOK, Query, NameOK, Name
<1>2. CASE next + 4 > Len(p)
    BY <1>2, RefusedFacts DEF ParseQuestion
<1>3. CASE ~(next + 4 > Len(p))
    <2>1. ParseQuestion(p, q) = q2
        BY <1>3 DEF ParseQuestion
    <2>2. Word(p, next) \in Nat
        BY <1>1, <1>3, WordFacts
    <2>3. asked \in AskedQuestion
        BY <1>1, <2>2 DEF AskedQuestion
    <2> HIDE DEF asked
    <2>4. questions \in Seq(AskedQuestion) /\ Len(questions) <= Len(q.questions) + 1
          /\ Len(questions) \in Nat
        BY <1>1, <2>3, AppendProperties, LenProperties
    <2>5. NameOK(Reading(next + 4)) /\ Reading(next + 4) \in Name
        BY <1>1, ReadingFacts DEF NameOK
    <2>6. q.left - 1 \in 0..MaxQuestions /\ (q.left # 1 => q.left - 1 >= 1)
        BY <1>1
    <2>7. Len(questions) + (q.left - 1) <= MaxQuestions
        BY <1>1, <2>4
    <2> HIDE DEF questions, next
    <2>8. QueryOK(q2)
        BY <2>4, <2>5, <2>6, <2>7 DEF QueryOK, Query
    <2> QED BY <2>1, <2>8
<1> QED BY <1>2, <1>3

LEMMA ParseFacts ==
    ASSUME NEW p \in Seq(Octet), NEW q, QueryOK(q), q.status \in {"none", "parsing"}
    PROVE  QueryOK(ParseStep(p, q))
<1>1. CASE q.status = "none"
    BY <1>1, ParseHeaderFacts DEF ParseStep
<1>2. CASE q.status = "parsing" /\ q.name.status = "reading"
    <2>1. ParseStep(p, q) = [q EXCEPT !.name = DecodeStep(p, @)]
        BY <1>2 DEF ParseStep
    <2> DEFINE d == DecodeStep(p, q.name)
    <2>2. NameOK(d) /\ d \in Name
        BY <1>2, DecodeFacts DEF QueryOK, NameOK
    <2>3. ParseStep(p, q) = [q EXCEPT !.name = d]
        BY <2>1 DEF QueryOK, Query
    <2> HIDE DEF d
    <2> QED BY <2>2, <2>3 DEF QueryOK, Query
<1>3. CASE q.status = "parsing" /\ q.name.status = "malformed"
    BY <1>3, RefusedFacts DEF ParseStep
<1>4. CASE q.status = "parsing" /\ q.name.status = "name"
    BY <1>4, ParseQuestionFacts DEF ParseStep
<1> QED BY <1>1, <1>2, <1>3, <1>4 DEF QueryOK, NameOK, Name

-----------------------------------------------------------------------------
(***************************************************************************)
(* Types.  That since stays within Refresh needs that Run never starts a   *)
(* read once the refresh is due.                                           *)
(***************************************************************************)
ReadInTime == at["run"] = "read" /\ ~waited => since < Refresh

PlacesOK ==
    /\ at \in [Actor -> Place]
    /\ at["run"] \notin {"wait", "leave", "exited"}
    /\ at["main"] \in {"wait", "leave", "exited"} \cup Closing

FlagsOK ==
    /\ cancelled \in BOOLEAN /\ closed \in BOOLEAN /\ sock \in {"open", "closed"}
    /\ waited \in BOOLEAN

ClockOK == since \in 0..Refresh /\ ReadInTime

ControlOK == PlacesOK /\ FlagsOK /\ ClockOK

NetworkOK == held \in [Records -> 0..TTL] /\ failures \in 0..MaxFailures

ParserOK == datagram \in Datagram \cup {<<>>} /\ QueryOK(query)

MdnsInv == ControlOK /\ NetworkOK /\ ParserOK

LEMMA MdnsInvTypes == MdnsInv => MdnsTypeOK
<1> SUFFICES ASSUME MdnsInv PROVE MdnsTypeOK
    OBVIOUS
<1>1. /\ query.left \in 0..MaxQuestions /\ Len(query.questions) <= MaxQuestions
      /\ query.name.status \in {"reading", "name", "malformed"}
      /\ query.name.jumps \in 0..MaxNameJumps
      /\ Len(query.name.text) <= MaxNameBytes + 1
    <2>1. query.questions \in Seq(AskedQuestion) /\ query.name.text \in Seq(Octet)
        BY DEF MdnsInv, ParserOK, QueryOK, Query, NameOK, Name
    <2>2. Len(query.questions) \in Nat /\ Len(query.name.text) \in Nat
        BY <2>1, LenProperties
    <2> QED BY <2>2, PacketAssumption
            DEF MdnsInv, ParserOK, QueryOK, Query, NameOK, Name
<1> QED BY <1>1 DEF MdnsInv, ControlOK, PlacesOK, FlagsOK, ClockOK, NetworkOK, ParserOK,
                    MdnsTypeOK

LEMMA MdnsInvInit == MdnsInit => MdnsInv
<1> SUFFICES ASSUME MdnsInit PROVE MdnsInv
    OBVIOUS
<1>1. ControlOK
    <2>1. PlacesOK
        BY DEF MdnsInit, PlacesOK, Actor, Place, Closing
    <2>2. FlagsOK
        BY DEF MdnsInit, FlagsOK
    <2>3. ClockOK
        BY ResponderAssumption DEF MdnsInit, ClockOK, ReadInTime, Actor
    <2> QED BY <2>1, <2>2, <2>3 DEF ControlOK
<1>2. NetworkOK
    BY ResponderAssumption DEF MdnsInit, NetworkOK
<1>3. ParserOK
    BY NoQueryFacts DEF MdnsInit, ParserOK
<1> QED BY <1>1, <1>2, <1>3 DEF MdnsInv

(* A write, whatever becomes of it.                                         *)
LEMMA WriteFacts ==
    ASSUME NetworkOK, NEW packet, NEW ttl \in 0..TTL,
           Written(packet, ttl) \/ NotWritten(packet)
    PROVE  NetworkOK'
<1>1. CASE Written(packet, ttl)
    BY <1>1 DEF Written, Cached, NetworkOK
<1>2. CASE NotWritten(packet)
    BY <1>2, ResponderAssumption DEF NotWritten, NetworkOK
<1> QED BY <1>1, <1>2

LEMMA MdnsInvNext == MdnsInv /\ [MdnsNext]_mdnsVars => MdnsInv'
<1> SUFFICES ASSUME MdnsInv, [MdnsNext]_mdnsVars PROVE MdnsInv'
    OBVIOUS
<1> USE DEF MdnsInv
<1>0. Refresh \in Nat \ {0} /\ TTL \in Nat /\ MaxFailures \in Nat
      /\ 0 \in 0..TTL /\ TTL \in 0..TTL
    BY ResponderAssumption
<1>1. CASE announce
    <2>1. ControlOK'
        <3>1. PlacesOK'
            BY <1>1 DEF announce, Go, ControlOK, PlacesOK, Actor, Place, Closing
        <3>2. FlagsOK'
            BY <1>1 DEF announce, ControlOK, FlagsOK
        <3>3. ClockOK'
            BY <1>0, <1>1 DEF announce, Go, ControlOK, PlacesOK, ClockOK, ReadInTime, Actor
        <3> QED BY <3>1, <3>2, <3>3 DEF ControlOK
    <2>2. NetworkOK'
        BY <1>0, <1>1, WriteFacts DEF announce
    <2> QED BY <1>1, <2>1, <2>2 DEF announce, ParserOK
<1>2. CASE loop
    <2>1. ControlOK'
        <3>1. PlacesOK'
            BY <1>2 DEF loop, Go, ControlOK, PlacesOK, Actor, Place, Closing
        <3>2. FlagsOK'
            BY <1>2 DEF loop, ControlOK, FlagsOK
        <3>3. ClockOK'
            BY <1>0, <1>2 DEF loop, Due, Go, ControlOK, PlacesOK, ClockOK, ReadInTime, Actor
        <3> QED BY <3>1, <3>2, <3>3 DEF ControlOK
    <2> QED BY <1>2, <2>1 DEF loop, NetworkOK, ParserOK
<1>3. CASE refresh
    <2>1. ControlOK'
        <3>1. PlacesOK'
            BY <1>3 DEF refresh, Go, ControlOK, PlacesOK, Actor, Place, Closing
        <3>2. FlagsOK'
            BY <1>3 DEF refresh, ControlOK, FlagsOK
        <3>3. ClockOK'
            BY <1>0, <1>3 DEF refresh, Go, ControlOK, PlacesOK, ClockOK, ReadInTime, Actor
        <3> QED BY <3>1, <3>2, <3>3 DEF ControlOK
    <2> QED BY <1>3, <2>1 DEF refresh, NetworkOK, ParserOK
<1>4. CASE read
    <2>1. ControlOK'
        <3>1. PlacesOK'
            BY <1>4 DEF read, Go, ControlOK, PlacesOK, Actor, Place, Closing
        <3>2. FlagsOK'
            BY <1>4 DEF read, ControlOK, FlagsOK
        <3>3. ClockOK'
            BY <1>0, <1>4 DEF read, Go, ControlOK, PlacesOK, ClockOK, ReadInTime, Actor
        <3> QED BY <3>1, <3>2, <3>3 DEF ControlOK
    <2> QED BY <1>4, <2>1 DEF read, NetworkOK, ParserOK
<1>5. CASE readEnds
    <2>1. ControlOK'
        <3>1. PlacesOK'
            BY <1>5 DEF readEnds, Go, ControlOK, PlacesOK, Actor, Place, Closing
        <3>2. FlagsOK'
            BY <1>5 DEF readEnds, ControlOK, FlagsOK
        <3>3. ClockOK'
            BY <1>0, <1>5 DEF readEnds, Go, ControlOK, PlacesOK, ClockOK, ReadInTime, Actor
        <3> QED BY <3>1, <3>2, <3>3 DEF ControlOK
    <2>2. NetworkOK'
        BY <1>0, <1>5 DEF readEnds, NetworkOK
    <2> QED BY <1>5, <2>1, <2>2 DEF readEnds, ParserOK
<1>6. CASE parse
    <2>1. datagram \in Seq(Octet)
        BY ResponderAssumption, EmptySeq DEF ParserOK
    <2>2. QueryOK(ParseStep(datagram, query))
        BY <1>6, <2>1, ParseFacts DEF parse, ParserOK
    <2>3. ParserOK'
        BY <1>6, <2>2 DEF parse, ParserOK
    <2> QED BY <1>6, <2>3 DEF parse, ControlOK, PlacesOK, FlagsOK, ClockOK, ReadInTime, NetworkOK
<1>7. CASE parsed
    <2>1. ControlOK'
        <3>1. PlacesOK'
            BY <1>7 DEF parsed, Go, ControlOK, PlacesOK, Actor, Place, Closing
        <3>2. FlagsOK'
            BY <1>7 DEF parsed, ControlOK, FlagsOK
        <3>3. ClockOK'
            BY <1>0, <1>7 DEF parsed, Go, ControlOK, PlacesOK, ClockOK, ReadInTime, Actor
        <3> QED BY <3>1, <3>2, <3>3 DEF ControlOK
    <2>2. ParserOK'
        BY <1>7, NoQueryFacts DEF parsed, ParserOK
    <2> QED BY <1>7, <2>1, <2>2 DEF parsed, NetworkOK
<1>8. CASE answer
    <2>1. ControlOK'
        <3>1. PlacesOK'
            BY <1>8 DEF answer, Go, ControlOK, PlacesOK, Actor, Place, Closing
        <3>2. FlagsOK'
            BY <1>8 DEF answer, ControlOK, FlagsOK
        <3>3. ClockOK'
            BY <1>0, <1>8 DEF answer, Go, ControlOK, PlacesOK, ClockOK, ReadInTime, Actor
        <3> QED BY <3>1, <3>2, <3>3 DEF ControlOK
    <2>2. ParserOK'
        BY <1>8, NoQueryFacts DEF answer, ParserOK
    <2>3. NetworkOK'
        BY <1>0, <1>8, WriteFacts DEF answer
    <2> QED BY <2>1, <2>2, <2>3
<1>9. ASSUME NEW a \in Actor, swap(a) \/ shut(a) PROVE MdnsInv'
    <2>1. ControlOK'
        <3>1. PlacesOK'
            BY <1>9 DEF swap, shut, Closed, Go, ControlOK, PlacesOK, Actor, Place, Closing
        <3>2. FlagsOK'
            BY <1>9 DEF swap, shut, Closed, ControlOK, FlagsOK
        <3>3. ClockOK'
            BY <1>0, <1>9 DEF swap, shut, Closed, Go, ControlOK, PlacesOK, ClockOK, ReadInTime, Actor
        <3> QED BY <3>1, <3>2, <3>3 DEF ControlOK
    <2> QED BY <1>9, <2>1 DEF swap, shut, NetworkOK, ParserOK
<1>10. ASSUME NEW a \in Actor, goodbye(a) PROVE MdnsInv'
    <2>1. ControlOK'
        <3>1. PlacesOK'
            BY <1>10 DEF goodbye, Go, ControlOK, PlacesOK, Actor, Place, Closing
        <3>2. FlagsOK'
            BY <1>10 DEF goodbye, ControlOK, FlagsOK
        <3>3. ClockOK'
            BY <1>0, <1>10 DEF goodbye, Go, ControlOK, PlacesOK, ClockOK, ReadInTime, Actor
        <3> QED BY <3>1, <3>2, <3>3 DEF ControlOK
    <2>2. NetworkOK'
        BY <1>0, <1>10, WriteFacts DEF goodbye
    <2> QED BY <1>10, <2>1, <2>2 DEF goodbye, ParserOK
<1>11. CASE stop \/ exit
    <2>1. ControlOK'
        <3>1. PlacesOK'
            BY <1>11 DEF stop, exit, Go, ControlOK, PlacesOK, Actor, Place, Closing
        <3>2. FlagsOK'
            BY <1>11 DEF stop, exit, ControlOK, FlagsOK
        <3>3. ClockOK'
            BY <1>0, <1>11 DEF stop, exit, Go, ControlOK, PlacesOK, ClockOK, ReadInTime, Actor
        <3> QED BY <3>1, <3>2, <3>3 DEF ControlOK
    <2> QED BY <1>11, <2>1 DEF stop, exit, NetworkOK, ParserOK
<1>12. CASE Pass
    <2>1. ControlOK'
        <3>1. PlacesOK'
            BY <1>12 DEF Pass, Alive, Go, ControlOK, PlacesOK, Actor, Place, Closing
        <3>2. FlagsOK'
            BY <1>12 DEF Pass, Alive, ControlOK, FlagsOK
        <3>3. ClockOK'
            BY <1>0, <1>12 DEF Pass, Alive, Go, ControlOK, PlacesOK, ClockOK, ReadInTime, Actor
        <3> QED BY <3>1, <3>2, <3>3 DEF ControlOK
    <2>2. NetworkOK'
        BY <1>0, <1>12 DEF Pass, NetworkOK
    <2> QED BY <1>12, <2>1, <2>2 DEF Pass, ParserOK
<1>13. CASE UNCHANGED mdnsVars
    BY <1>13
    DEF mdnsVars, ControlOK, PlacesOK, FlagsOK, ClockOK, ReadInTime, NetworkOK, ParserOK
<1> QED
    BY <1>1, <1>2, <1>3, <1>4, <1>5, <1>6, <1>7, <1>8, <1>9, <1>10, <1>11, <1>12, <1>13
       DEF MdnsNext, Run, Close

(* No datagram, of any length and with any octets, makes the decoder slice  *)
(* outside its buffer or the parser pass its limits.                        *)
THEOREM MdnsTypeCorrect == MdnsSpec => []MdnsTypeOK
<1> QED
    BY MdnsInvInit, MdnsInvNext, MdnsInvTypes, PTL DEF MdnsSpec

-----------------------------------------------------------------------------
(***************************************************************************)
(* Folds.  The induction theorems of the library have an operator for a    *)
(* parameter, but a set of numbers will do: it has a least element.  With  *)
(* that a fold over a sequence is the last of a chain of values, each got  *)
(* from the one before, and what it computes can be proved step by step.   *)
(***************************************************************************)
(* Some natural numbers have a least among them.                            *)
LEMMA LeastNat ==
    ASSUME NEW S \in SUBSET Nat, S # {}
    PROVE  \E m \in S : \A k \in S : m <= k
<1> DEFINE R == OpToRel(<, Nat)
<1>1. IsWellFoundedOn(R, Nat)
    BY NatLessThanWellFounded
<1>2. \A x, y \in Nat : <<x, y>> \in R <=> x < y
    BY DEF OpToRel
<1> HIDE DEF R
<1>3. PICK x \in S : \A y \in S : <<y, x>> \notin R
    BY <1>1, WFMin
<1>4. \A y \in S : ~(y < x)
    BY <1>2, <1>3
<1> QED BY <1>4

(* Induction: a set that holds 0 and with n also n + 1 holds all of them.   *)
LEMMA NatInduct ==
    ASSUME NEW S, 0 \in S, \A n \in Nat : n \in S => n + 1 \in S
    PROVE  \A n \in Nat : n \in S
<1> DEFINE Out == Nat \ S
<1> SUFFICES ASSUME Out # {} PROVE FALSE
    OBVIOUS
<1>1. PICK m \in Out : \A k \in Out : m <= k
    BY LeastNat
<1>2. m \in Nat /\ m # 0 /\ m \notin S
    BY <1>1
<1>3. m - 1 \in Nat /\ ~(m <= m - 1) /\ (m - 1) + 1 = m
    BY <1>2
<1>4. m - 1 \in S
    BY <1>1, <1>3
<1> QED BY <1>2, <1>3, <1>4

(* The greatest of some numbers up to n.                                    *)
LEMMA MaxFacts ==
    ASSUME NEW n \in Nat, NEW s \in SUBSET (1..n), s # {}
    PROVE  Max(s) \in s /\ \A y \in s : y <= Max(s)
<1> DEFINE below == {n - y : y \in s}
<1>1. below \in SUBSET Nat /\ below # {}
    <2>1. \A y \in s : n - y \in Nat
        OBVIOUS
    <2> QED BY <2>1
<1>2. PICK m \in below : \A k \in below : m <= k
    BY <1>1, LeastNat
<1>3. PICK x \in s : m = n - x
    BY <1>2
<1>4. ASSUME NEW y \in s PROVE x >= y
    <2>1. m <= n - y
        BY <1>2
    <2> QED BY <1>3, <2>1
<1>5. \E z \in s : \A y \in s : z >= y
    BY <1>4
<1>6. Max(s) \in s /\ \A y \in s : Max(s) >= y
    BY <1>5 DEF Max
<1> QED BY <1>6

(* ... which of the numbers up to i is i.                                   *)
LEMMA MaxUpTo ==
    ASSUME NEW i \in Nat, i # 0
    PROVE  Max(1..i) = i /\ (1..i) \ {Max(1..i)} = 1..(i - 1)
<1>1. Max(1..i) \in 1..i /\ \A y \in 1..i : y <= Max(1..i)
    <2>1. 1..i \in SUBSET (1..i) /\ 1..i # {}
        BY i \in 1..i
    <2> QED BY <2>1, MaxFacts
<1>2. Max(1..i) = i
    BY <1>1
<1> QED BY <1>2

(***************************************************************************)
(* The function of subsets that a fold is defined by exists, for every     *)
(* step that stays within T.                                               *)
(***************************************************************************)
Folds(it, n, base, step) ==
    \A s \in SUBSET (1..n) :
        it[s] = IF s = {} THEN base ELSE step[<<it[s \ {Max(s)}], Max(s)>>]

LEMMA FoldExists ==
    ASSUME NEW n \in Nat, NEW T, NEW base \in T, NEW step \in [T \X (1..n) -> T]
    PROVE  \E it \in [SUBSET (1..n) -> T] : Folds(it, n, base, step)
<1> DEFINE P(k) == \E it \in [SUBSET (1..k) -> T] : Folds(it, k, base, step)
           Good == {k \in Nat : k <= n => P(k)}
<1>1. P(0)
    <2> DEFINE it == [s \in SUBSET (1..0) |-> base]
    <2>1. \A s \in SUBSET (1..0) : s = {}
        OBVIOUS
    <2>2. it \in [SUBSET (1..0) -> T] /\ Folds(it, 0, base, step)
        BY <2>1 DEF Folds
    <2> QED BY <2>2
<1>2. ASSUME NEW k \in Nat, k + 1 <= n, P(k) PROVE P(k + 1)
    <2>2. PICK g \in [SUBSET (1..k) -> T] : Folds(g, k, base, step)
        BY <1>2
    <2> DEFINE D == SUBSET (1..(k + 1))
               it == [s \in D |-> IF s = {} THEN base ELSE step[<<g[s \ {Max(s)}], Max(s)>>]]
    <2>3. ASSUME NEW s \in D, s # {}
          PROVE  /\ s \ {Max(s)} \in SUBSET (1..k)
                 /\ Max(s) \in 1..n
                 /\ g[s \ {Max(s)}] \in T
        <3>0. k + 1 \in Nat /\ s \in SUBSET (1..(k + 1))
            OBVIOUS
        <3>1. Max(s) \in s /\ \A y \in s : y <= Max(s)
            BY <2>3, <3>0, MaxFacts
        <3>2. Max(s) \in 1..(k + 1) /\ \A y \in s : y \in 1..(k + 1)
            BY <3>0, <3>1
        <3>3. \A y \in s : y # Max(s) => y \in 1..k
            BY <3>1, <3>2
        <3>4. Max(s) \in 1..n
            BY <1>2, <3>2
        <3>5. s \ {Max(s)} \in SUBSET (1..k)
            BY <3>3
        <3> QED BY <3>4, <3>5
    <2>4. it \in [D -> T]
        BY <2>3
    <2>5. ASSUME NEW s \in SUBSET (1..k) PROVE it[s] = g[s]
        <3>1. s \in D
            OBVIOUS
        <3> QED BY <2>2, <3>1 DEF Folds
    <2>6. ASSUME NEW s \in D, s # {} PROVE it[s] = step[<<it[s \ {Max(s)}], Max(s)>>]
        BY <2>3, <2>5, <2>6
    <2>7. Folds(it, k + 1, base, step)
        BY <2>6 DEF Folds
    <2> QED BY <2>4, <2>7
<1> HIDE DEF P
<1>3. 0 \in Good /\ \A k \in Nat : k \in Good => k + 1 \in Good
    BY <1>1, <1>2
<1> HIDE DEF Good
<1>4. n \in Good
    BY <1>3, NatInduct
<1>5. P(n)
    BY <1>4 DEF Good
<1> QED BY <1>5 DEF P

(* What holds of the base and is kept by the step holds all along.          *)
LEMMA TraceFacts ==
    ASSUME NEW n \in Nat, NEW T, NEW acc, acc[0] \in T,
           \A i \in 1..n : acc[i - 1] \in T => acc[i] \in T
    PROVE  \A i \in 0..n : acc[i] \in T
<1> DEFINE Good == {k \in Nat : k <= n => acc[k] \in T}
<1>1. 0 \in Good
    OBVIOUS
<1>2. ASSUME NEW k \in Nat, k \in Good PROVE k + 1 \in Good
    <2>1. SUFFICES ASSUME k + 1 <= n PROVE acc[k + 1] \in T
        OBVIOUS
    <2>2. k + 1 \in 1..n /\ (k + 1) - 1 = k
        BY <2>1
    <2> QED BY <1>2, <2>1, <2>2
<1> HIDE DEF Good
<1>3. \A k \in Nat : k \in Good
    BY <1>1, <1>2, NatInduct
<1> QED BY <1>3 DEF Good

(***************************************************************************)
(* A fold over n elements is the last of n + 1 values, each got from the   *)
(* one before.                                                             *)
(***************************************************************************)
Trace(acc, n, base, step, it) ==
    /\ acc[0] = base /\ acc[n] = it[1..n]
    /\ \A i \in 1..n : acc[i] = step[<<acc[i - 1], i>>]

FoldsWithin(it, n, T, base, step) ==
    /\ it[{}] = base
    /\ \A s \in SUBSET (1..n) : s # {} /\ it[s \ {Max(s)}] \in T =>
           it[s] = step[<<it[s \ {Max(s)}], Max(s)>>]

LEMMA FoldTrace ==
    ASSUME NEW n \in Nat, NEW T, NEW base \in T, NEW step \in [T \X (1..n) -> T],
           NEW it, FoldsWithin(it, n, T, base, step)
    PROVE  \E acc \in [0..n -> T] : Trace(acc, n, base, step, it)
<1> USE DEF FoldsWithin
<1> DEFINE acc == [i \in 0..n |-> it[1..i]]
<1>1. acc[0] = base
    <2>1. 1..0 = {}
        OBVIOUS
    <2> QED BY <2>1
<1>2. ASSUME NEW i \in 1..n, acc[i - 1] \in T PROVE acc[i] = step[<<acc[i - 1], i>>]
    <2>1. Max(1..i) = i /\ (1..i) \ {Max(1..i)} = 1..(i - 1)
        BY MaxUpTo
    <2>2. 1..i \in SUBSET (1..n) /\ 1..i # {} /\ i - 1 \in 0..n
        BY i \in 1..i
    <2>3. acc[i - 1] = it[1..(i - 1)] /\ acc[i] = it[1..i]
        BY <2>2
    <2> QED BY <1>2, <2>1, <2>2, <2>3
<1>3. \A i \in 1..n : acc[i - 1] \in T => acc[i] \in T
    BY <1>2
<1>4. DOMAIN acc = 0..n /\ acc = [i \in 0..n |-> acc[i]] /\ acc[n] = it[1..n]
    OBVIOUS
<1> HIDE DEF acc
<1>5. \A i \in 0..n : acc[i] \in T
    BY <1>1, <1>3, TraceFacts
<1>6. \A i \in 1..n : i - 1 \in 0..n
    OBVIOUS
<1> QED BY <1>1, <1>2, <1>4, <1>5, <1>6 DEF Trace

(* The entries that Only goes through.                                      *)
OnlyRun(acc, s, S) ==
    /\ acc[0] = <<>> /\ acc[Len(s)] = Only(s, S)
    /\ \A i \in 1..Len(s) : 
           acc[i] = IF s[i] \in S THEN Append(acc[i - 1], s[i]) ELSE acc[i - 1]

LEMMA OnlyTrace ==
    ASSUME NEW E, NEW s \in Seq(E), NEW S
    PROVE  \E acc \in [0..Len(s) -> Seq(E)] : OnlyRun(acc, s, S)
<1> DEFINE n == Len(s)
           T == Seq(E)
           base == <<>>
           op(a, e) == IF e \in S THEN Append(a, e) ELSE a
           step == [x \in T \X (1..n) |-> op(x[1], s[x[2]])]
           iter == CHOOSE it : it = [t \in SUBSET DOMAIN s |->
                       IF t = {} THEN base ELSE op(it[t \ {Max(t)}], s[Max(t)])]
<1>1. n \in Nat /\ DOMAIN s = 1..n /\ \A i \in 1..n : s[i] \in E
    BY LenProperties, ElementOfSeq
<1>2. base \in T /\ \A a \in T, i \in 1..n : op(a, s[i]) \in T
    BY <1>1, EmptySeq, AppendProperties
<1>3. Only(s, S) = iter[DOMAIN s]
    BY DEF Only, FoldLeft, MapThenFoldSet
<1>4. \A a, e : op(a, e) = IF e \in S THEN Append(a, e) ELSE a
    OBVIOUS
<1> HIDE DEF n, T, base, op
<1>5. step \in [T \X (1..n) -> T] /\ \A a \in T, i \in 1..n : step[<<a, i>>] = op(a, s[i])
    BY <1>2
<1>6. \A t \in SUBSET (1..n) : t # {} => Max(t) \in 1..n /\ t \ {Max(t)} \in SUBSET (1..n)
    BY <1>1, MaxFacts
<1> HIDE DEF step
<1>7. PICK it0 \in [SUBSET (1..n) -> T] : Folds(it0, n, base, step)
    BY <1>1, <1>2, <1>5, FoldExists
<1>8. it0 = [t \in SUBSET DOMAIN s |->
                IF t = {} THEN base ELSE op(it0[t \ {Max(t)}], s[Max(t)])]
    BY <1>1, <1>5, <1>6, <1>7 DEF Folds
<1>9. iter = [t \in SUBSET DOMAIN s |->
                IF t = {} THEN base ELSE op(iter[t \ {Max(t)}], s[Max(t)])]
    BY <1>8
<1> HIDE DEF iter
<1>10. FoldsWithin(iter, n, T, base, step)
    <2>1. iter[{}] = base
        BY <1>9
    <2>2. ASSUME NEW t \in SUBSET (1..n), t # {}, iter[t \ {Max(t)}] \in T
          PROVE  iter[t] = step[<<iter[t \ {Max(t)}], Max(t)>>]
        <3>1. iter[t] = op(iter[t \ {Max(t)}], s[Max(t)])
            BY <1>1, <1>9, <2>2
        <3> QED BY <1>5, <1>6, <2>2, <3>1
    <2> QED BY <2>1, <2>2 DEF FoldsWithin
<1>11. PICK acc \in [0..n -> T] : Trace(acc, n, base, step, iter)
    <2>1. n \in Nat /\ base \in T /\ step \in [T \X (1..n) -> T]
        BY <1>1, <1>2, <1>5
    <2> QED BY <1>10, <2>1, FoldTrace
<1>12. ASSUME NEW i \in 1..n PROVE acc[i] = op(acc[i - 1], s[i])
    <2>1. i - 1 \in 0..n
        BY <1>1
    <2>2. acc[i - 1] \in T /\ acc[i] = step[<<acc[i - 1], i>>]
        BY <1>11, <2>1 DEF Trace
    <2> QED BY <1>5, <2>2
<1>13. acc[0] = base /\ acc[n] = Only(s, S)
    BY <1>1, <1>3, <1>11 DEF Trace
<1>14. OnlyRun(acc, s, S)
    BY <1>4, <1>12, <1>13 DEF n, base, OnlyRun
<1> QED BY <1>14 DEF n, T

(* The values of appendUnique, one by one.                                  *)
AppendUniqueRun(acc, target, values, seen) ==
    /\ acc[0] = target /\ acc[Len(values)] = appendUnique(target, values, seen)
    /\ \A i \in 1..Len(values) : 
           acc[i] = IF values[i] \in seen \cup Range(acc[i - 1])
                      THEN acc[i - 1] ELSE Append(acc[i - 1], values[i])

LEMMA AppendUniqueTrace ==
    ASSUME NEW E, NEW target \in Seq(E), NEW values \in Seq(E), NEW seen
    PROVE  \E acc \in [0..Len(values) -> Seq(E)] : AppendUniqueRun(acc, target, values, seen)
<1> DEFINE n == Len(values)
           T == Seq(E)
           base == target
           op(a, e) == IF e \in seen \cup Range(a) THEN a ELSE Append(a, e)
           step == [x \in T \X (1..n) |-> op(x[1], values[x[2]])]
           iter == CHOOSE it : it = [t \in SUBSET DOMAIN values |->
                       IF t = {} THEN base ELSE op(it[t \ {Max(t)}], values[Max(t)])]
<1>1. n \in Nat /\ DOMAIN values = 1..n /\ \A i \in 1..n : values[i] \in E
    BY LenProperties, ElementOfSeq
<1>2. base \in T /\ \A a \in T, i \in 1..n : op(a, values[i]) \in T
    BY <1>1, AppendProperties
<1>3. appendUnique(target, values, seen) = iter[DOMAIN values]
    BY DEF appendUnique, FoldLeft, MapThenFoldSet
<1>4. \A a, e : op(a, e) = IF e \in seen \cup Range(a) THEN a ELSE Append(a, e)
    OBVIOUS
<1> HIDE DEF n, T, base, op
<1>5. step \in [T \X (1..n) -> T] /\ \A a \in T, i \in 1..n : step[<<a, i>>] = op(a, values[i])
    BY <1>2
<1>6. \A t \in SUBSET (1..n) : t # {} => Max(t) \in 1..n /\ t \ {Max(t)} \in SUBSET (1..n)
    BY <1>1, MaxFacts
<1> HIDE DEF step
<1>7. PICK it0 \in [SUBSET (1..n) -> T] : Folds(it0, n, base, step)
    BY <1>1, <1>2, <1>5, FoldExists
<1>8. it0 = [t \in SUBSET DOMAIN values |->
                IF t = {} THEN base ELSE op(it0[t \ {Max(t)}], values[Max(t)])]
    BY <1>1, <1>5, <1>6, <1>7 DEF Folds
<1>9. iter = [t \in SUBSET DOMAIN values |->
                IF t = {} THEN base ELSE op(iter[t \ {Max(t)}], values[Max(t)])]
    BY <1>8
<1> HIDE DEF iter
<1>10. FoldsWithin(iter, n, T, base, step)
    <2>1. iter[{}] = base
        BY <1>9
    <2>2. ASSUME NEW t \in SUBSET (1..n), t # {}, iter[t \ {Max(t)}] \in T
          PROVE  iter[t] = step[<<iter[t \ {Max(t)}], Max(t)>>]
        <3>1. iter[t] = op(iter[t \ {Max(t)}], values[Max(t)])
            BY <1>1, <1>9, <2>2
        <3> QED BY <1>5, <1>6, <2>2, <3>1
    <2> QED BY <2>1, <2>2 DEF FoldsWithin
<1>11. PICK acc \in [0..n -> T] : Trace(acc, n, base, step, iter)
    <2>1. n \in Nat /\ base \in T /\ step \in [T \X (1..n) -> T]
        BY <1>1, <1>2, <1>5
    <2> QED BY <1>10, <2>1, FoldTrace
<1>12. ASSUME NEW i \in 1..n PROVE acc[i] = op(acc[i - 1], values[i])
    <2>1. i - 1 \in 0..n
        BY <1>1
    <2>2. acc[i - 1] \in T /\ acc[i] = step[<<acc[i - 1], i>>]
        BY <1>11, <2>1 DEF Trace
    <2> QED BY <1>5, <2>2
<1>13. acc[0] = base /\ acc[n] = appendUnique(target, values, seen)
    BY <1>1, <1>3, <1>11 DEF Trace
<1>14. AppendUniqueRun(acc, target, values, seen)
    BY <1>4, <1>12, <1>13 DEF n, base, AppendUniqueRun
<1> QED BY <1>14 DEF n, T

(* What is appended is in, and is there once if it was not yet.             *)
LEMMA AppendFacts ==
    ASSUME NEW E, NEW s \in Seq(E), NEW e \in E
    PROVE  /\ Append(s, e) \in Seq(E) /\ Range(Append(s, e)) = Range(s) \cup {e}
           /\ IsInjective(s) /\ e \notin Range(s) => IsInjective(Append(s, e))
<1> DEFINE n == Len(s)
           t == Append(s, e)
<1>1. n \in Nat /\ DOMAIN s = 1..n
    BY LenProperties
<1>2. /\ t \in Seq(E) /\ DOMAIN t = 1..(n + 1) /\ t[n + 1] = e
      /\ \A i \in 1..n : t[i] = s[i]
    BY AppendProperties, LenProperties
<1> HIDE DEF n, t
<1>3. \A i \in 1..(n + 1) : i = n + 1 \/ i \in 1..n
    BY <1>1
<1>4. n + 1 \in 1..(n + 1) /\ \A i \in 1..n : i \in 1..(n + 1) /\ i # n + 1
    BY <1>1
<1>5. Range(t) = Range(s) \cup {e}
    BY <1>1, <1>2, <1>3, <1>4 DEF Range
<1>6. ASSUME IsInjective(s), e \notin Range(s) PROVE IsInjective(t)
    BY <1>1, <1>2, <1>3, <1>4, <1>6 DEF IsInjective, Range
<1> QED BY <1>2, <1>5, <1>6 DEF t

(* What the first i entries of s are.                                       *)
Prefix(s, i) == {s[j] : j \in 1..i}

LEMMA PrefixFacts ==
    ASSUME NEW E, NEW s \in Seq(E)
    PROVE  /\ Prefix(s, 0) = {} /\ Prefix(s, Len(s)) = Range(s)
           /\ \A i \in 1..Len(s) : Prefix(s, i) = Prefix(s, i - 1) \cup {s[i]}
<1>1. Len(s) \in Nat /\ DOMAIN s = 1..Len(s)
    BY LenProperties
<1>2. \A i \in 1..Len(s) : 1..i = (1..(i - 1)) \cup {i}
    BY <1>1
<1> QED BY <1>1, <1>2 DEF Prefix, Range

(***************************************************************************)
(* appendUnique adds what is neither seen nor there already, each value    *)
(* once.                                                                   *)
(***************************************************************************)
LEMMA AppendUniqueFacts ==
    ASSUME NEW E, NEW target \in Seq(E), NEW values \in Seq(E), NEW seen,
           IsInjective(target)
    PROVE  /\ appendUnique(target, values, seen) \in Seq(E)
           /\ IsInjective(appendUnique(target, values, seen))
           /\ Range(appendUnique(target, values, seen))
                  = Range(target) \cup (Range(values) \ seen)
<1>1. Len(values) \in Nat /\ \A i \in 1..Len(values) : values[i] \in E
    BY LenProperties, ElementOfSeq
<1>2. PICK acc \in [0..Len(values) -> Seq(E)] :
               AppendUniqueRun(acc, target, values, seen)
    BY AppendUniqueTrace
<1> USE DEF AppendUniqueRun
<1> DEFINE P(k) == /\ IsInjective(acc[k])
                   /\ Range(acc[k]) = Range(target) \cup (Prefix(values, k) \ seen)
           Good == {k \in Nat : k <= Len(values) => P(k)}
<1>3. P(0)
    BY <1>2, PrefixFacts
<1>4. ASSUME NEW k \in Nat, k + 1 <= Len(values), P(k) PROVE P(k + 1)
    <2> DEFINE v == values[k + 1]
               a == acc[k]
    <2>1. k \in 0..Len(values) /\ k + 1 \in 1..Len(values) /\ (k + 1) - 1 = k
        BY <1>1, <1>4
    <2>2. acc[k + 1] = IF v \in seen \cup Range(a) THEN a ELSE Append(a, v)
        BY <1>2, <2>1
    <2>3. Prefix(values, k + 1) = Prefix(values, k) \cup {v}
        BY <2>1, PrefixFacts
    <2>4. a \in Seq(E) /\ v \in E /\ IsInjective(a)
        BY <1>1, <1>2, <1>4, <2>1
    <2>5. Range(a) = Range(target) \cup (Prefix(values, k) \ seen)
        BY <1>4
    <2> HIDE DEF v, a
    <2>6. CASE v \in seen \cup Range(a)
        <3>1. acc[k + 1] = a
            BY <2>2, <2>6
        <3> QED BY <2>3, <2>4, <2>5, <2>6, <3>1
    <2>7. CASE v \notin seen \cup Range(a)
        <3>1. acc[k + 1] = Append(a, v)
            BY <2>2, <2>7
        <3>2. Range(acc[k + 1]) = Range(a) \cup {v} /\ IsInjective(acc[k + 1])
            BY <2>4, <2>7, <3>1, AppendFacts
        <3> QED BY <2>3, <2>5, <2>7, <3>2
    <2> QED BY <2>6, <2>7
<1> HIDE DEF P
<1>5. 0 \in Good /\ \A k \in Nat : k \in Good => k + 1 \in Good
    BY <1>1, <1>3, <1>4
<1> HIDE DEF Good
<1>6. Len(values) \in Good
    BY <1>1, <1>5, NatInduct
<1>7. P(Len(values)) /\ Len(values) \in 0..Len(values)
    BY <1>1, <1>6 DEF Good
<1>8. Prefix(values, Len(values)) = Range(values)
    BY PrefixFacts
<1> QED BY <1>2, <1>7, <1>8 DEF P

(* The groups of Collected, one by one.                                     *)
CollectedRun(acc, groups, seen) ==
    /\ acc[0] = <<>> /\ acc[Len(groups)] = Collected(groups, seen)
    /\ \A i \in 1..Len(groups) : acc[i] = appendUnique(acc[i - 1], groups[i], seen)

LEMMA CollectedTrace ==
    ASSUME NEW E, NEW groups \in Seq(Seq(E)), NEW seen
    PROVE  \E acc \in [0..Len(groups) -> {s \in Seq(E) : IsInjective(s)}] : CollectedRun(acc, groups, seen)
<1> DEFINE n == Len(groups)
           T == {s \in Seq(E) : IsInjective(s)}
           base == <<>>
           op(a, e) == appendUnique(a, e, seen)
           step == [x \in T \X (1..n) |-> op(x[1], groups[x[2]])]
           iter == CHOOSE it : it = [t \in SUBSET DOMAIN groups |->
                       IF t = {} THEN base ELSE op(it[t \ {Max(t)}], groups[Max(t)])]
<1>1. n \in Nat /\ DOMAIN groups = 1..n /\ \A i \in 1..n : groups[i] \in Seq(E)
    BY LenProperties, ElementOfSeq
<1>2. base \in T /\ \A a \in T, i \in 1..n : op(a, groups[i]) \in T
    <2>1. <<>> \in Seq(E) /\ IsInjective(<<>>)
        BY EmptySeq DEF IsInjective
    <2> QED BY <1>1, <2>1, AppendUniqueFacts
<1>3. Collected(groups, seen) = iter[DOMAIN groups]
    BY DEF Collected, FoldLeft, MapThenFoldSet
<1>4. \A a, e : op(a, e) = appendUnique(a, e, seen)
    OBVIOUS
<1> HIDE DEF n, T, base, op
<1>5. step \in [T \X (1..n) -> T] /\ \A a \in T, i \in 1..n : step[<<a, i>>] = op(a, groups[i])
    BY <1>2
<1>6. \A t \in SUBSET (1..n) : t # {} => Max(t) \in 1..n /\ t \ {Max(t)} \in SUBSET (1..n)
    BY <1>1, MaxFacts
<1> HIDE DEF step
<1>7. PICK it0 \in [SUBSET (1..n) -> T] : Folds(it0, n, base, step)
    BY <1>1, <1>2, <1>5, FoldExists
<1>8. it0 = [t \in SUBSET DOMAIN groups |->
                IF t = {} THEN base ELSE op(it0[t \ {Max(t)}], groups[Max(t)])]
    BY <1>1, <1>5, <1>6, <1>7 DEF Folds
<1>9. iter = [t \in SUBSET DOMAIN groups |->
                IF t = {} THEN base ELSE op(iter[t \ {Max(t)}], groups[Max(t)])]
    BY <1>8
<1> HIDE DEF iter
<1>10. FoldsWithin(iter, n, T, base, step)
    <2>1. iter[{}] = base
        BY <1>9
    <2>2. ASSUME NEW t \in SUBSET (1..n), t # {}, iter[t \ {Max(t)}] \in T
          PROVE  iter[t] = step[<<iter[t \ {Max(t)}], Max(t)>>]
        <3>1. iter[t] = op(iter[t \ {Max(t)}], groups[Max(t)])
            BY <1>1, <1>9, <2>2
        <3> QED BY <1>5, <1>6, <2>2, <3>1
    <2> QED BY <2>1, <2>2 DEF FoldsWithin
<1>11. PICK acc \in [0..n -> T] : Trace(acc, n, base, step, iter)
    <2>1. n \in Nat /\ base \in T /\ step \in [T \X (1..n) -> T]
        BY <1>1, <1>2, <1>5
    <2> QED BY <1>10, <2>1, FoldTrace
<1>12. ASSUME NEW i \in 1..n PROVE acc[i] = op(acc[i - 1], groups[i])
    <2>1. i - 1 \in 0..n
        BY <1>1
    <2>2. acc[i - 1] \in T /\ acc[i] = step[<<acc[i - 1], i>>]
        BY <1>11, <2>1 DEF Trace
    <2> QED BY <1>5, <2>2
<1>13. acc[0] = base /\ acc[n] = Collected(groups, seen)
    BY <1>1, <1>3, <1>11 DEF Trace
<1>14. CollectedRun(acc, groups, seen)
    BY <1>4, <1>12, <1>13 DEF n, base, CollectedRun
<1> QED BY <1>14 DEF n, T

(***************************************************************************)
(* Collected has every record of the groups that is not seen, once.        *)
(***************************************************************************)
LEMMA CollectedFacts ==
    ASSUME NEW E, NEW groups \in Seq(Seq(E)), NEW seen
    PROVE  /\ Collected(groups, seen) \in Seq(E)
           /\ IsInjective(Collected(groups, seen))
           /\ Range(Collected(groups, seen))
                  = (UNION {Range(groups[i]) : i \in 1..Len(groups)}) \ seen
<1> DEFINE n == Len(groups)
           Upto(k) == UNION {Range(groups[i]) : i \in 1..k}
<1>1. n \in Nat /\ \A i \in 1..n : groups[i] \in Seq(E)
    BY LenProperties, ElementOfSeq
<1>2. PICK acc \in [0..n -> {s \in Seq(E) : IsInjective(s)}] : CollectedRun(acc, groups, seen)
    BY CollectedTrace
<1>3. /\ acc[0] = <<>> /\ acc[n] = Collected(groups, seen)
      /\ \A i \in 1..n : acc[i] = appendUnique(acc[i - 1], groups[i], seen)
    BY <1>2 DEF CollectedRun
<1> DEFINE P(k) == Range(acc[k]) = Upto(k) \ seen
           Good == {k \in Nat : k <= n => P(k)}
<1>4. P(0)
    BY <1>3 DEF Range
<1>5. ASSUME NEW k \in Nat, k + 1 <= n, P(k) PROVE P(k + 1)
    <2>1. k \in 0..n /\ k + 1 \in 1..n /\ (k + 1) - 1 = k /\ 1..(k + 1) = (1..k) \cup {k + 1}
        BY <1>1, <1>5
    <2>2. Upto(k + 1) = Upto(k) \cup Range(groups[k + 1])
        BY <2>1
    <2>3. acc[k] \in Seq(E) /\ IsInjective(acc[k]) /\ groups[k + 1] \in Seq(E)
        BY <1>1, <1>2, <2>1
    <2>4. acc[k + 1] = appendUnique(acc[k], groups[k + 1], seen)
        BY <1>3, <2>1
    <2>5. Range(acc[k + 1]) = Range(acc[k]) \cup (Range(groups[k + 1]) \ seen)
        BY <2>3, <2>4, AppendUniqueFacts
    <2> HIDE DEF Upto
    <2> QED BY <1>5, <2>2, <2>5
<1> HIDE DEF P
<1>6. 0 \in Good /\ \A k \in Nat : k \in Good => k + 1 \in Good
    BY <1>1, <1>4, <1>5
<1> HIDE DEF Good
<1>7. n \in Good
    BY <1>1, <1>6, NatInduct
<1>8. P(n) /\ n \in 0..n
    BY <1>1, <1>7 DEF Good
<1> QED BY <1>2, <1>3, <1>8 DEF P

(* Only keeps no more than there is, and nothing else than S.               *)
LEMMA OnlyFacts ==
    ASSUME NEW E, NEW s \in Seq(E), NEW S
    PROVE  /\ Only(s, S) \in Seq(E) /\ Len(Only(s, S)) <= Len(s)
           /\ Range(Only(s, S)) \subseteq S
<1> DEFINE n == Len(s)
<1>1. n \in Nat /\ \A i \in 1..n : s[i] \in E
    BY LenProperties, ElementOfSeq
<1>2. PICK acc \in [0..n -> Seq(E)] : OnlyRun(acc, s, S)
    BY OnlyTrace
<1>3. /\ acc[0] = <<>> /\ acc[n] = Only(s, S)
      /\ \A i \in 1..n : acc[i] = IF s[i] \in S THEN Append(acc[i - 1], s[i]) ELSE acc[i - 1]
    BY <1>2 DEF OnlyRun
<1> DEFINE P(k) == Len(acc[k]) <= k /\ Range(acc[k]) \subseteq S
           Good == {k \in Nat : k <= n => P(k)}
<1>4. P(0)
    BY <1>3, EmptySeq DEF Range
<1>5. ASSUME NEW k \in Nat, k + 1 <= n, P(k) PROVE P(k + 1)
    <2> DEFINE a == acc[k]
               e == s[k + 1]
    <2>1. k \in 0..n /\ k + 1 \in 1..n /\ (k + 1) - 1 = k
        BY <1>1, <1>5
    <2>2. acc[k + 1] = IF e \in S THEN Append(a, e) ELSE a
        BY <1>3, <2>1
    <2>3. a \in Seq(E) /\ e \in E /\ Len(a) <= k /\ Range(a) \subseteq S
        BY <1>1, <1>2, <1>5, <2>1
    <2> HIDE DEF a, e
    <2>4. Len(a) \in Nat
        BY <2>3, LenProperties
    <2>5. Len(Append(a, e)) = Len(a) + 1 /\ Range(Append(a, e)) = Range(a) \cup {e}
        BY <2>3, AppendFacts, AppendProperties
    <2>6. CASE e \in S
        BY <2>2, <2>3, <2>4, <2>5, <2>6
    <2>7. CASE e \notin S
        BY <2>2, <2>3, <2>4, <2>7
    <2> QED BY <2>6, <2>7
<1> HIDE DEF P
<1>6. 0 \in Good /\ \A k \in Nat : k \in Good => k + 1 \in Good
    BY <1>1, <1>4, <1>5
<1> HIDE DEF Good
<1>7. n \in Good
    BY <1>1, <1>6, NatInduct
<1>8. P(n) /\ n \in 0..n
    BY <1>1, <1>7 DEF Good
<1> QED BY <1>2, <1>3, <1>8 DEF P

Section(E) == [bytes : Nat, taken : Seq(E), full : BOOLEAN]

(* The entries of a section, one by one.                                    *)
FillRun(acc, section, entries, sizes) ==
    /\ acc[0] = [section EXCEPT !.full = FALSE, !.taken = <<>>] /\ acc[Len(entries)] = Fill(section, entries, sizes)
    /\ \A i \in 1..Len(entries) : 
           acc[i] = IF acc[i - 1].full \/ acc[i - 1].bytes + sizes[i] > MaxResponseBytes
                      THEN [acc[i - 1] EXCEPT !.full = TRUE]
                      ELSE [acc[i - 1] EXCEPT !.bytes = @ + sizes[i],
                                              !.taken = Append(@, entries[i])]

LEMMA FillTrace ==
    ASSUME NEW E, NEW F, NEW section \in Section(F), NEW entries \in Seq(E),
           NEW sizes \in [1..Len(entries) -> Nat]
    PROVE  \E acc \in [0..Len(entries) -> Section(E)] : FillRun(acc, section, entries, sizes)
<1> DEFINE order == [i \in DOMAIN entries |-> i]
           n == Len(entries)
           T == Section(E)
           base == [section EXCEPT !.full = FALSE, !.taken = <<>>]
           op(a, e) == IF a.full \/ a.bytes + sizes[e] > MaxResponseBytes
                         THEN [a EXCEPT !.full = TRUE]
                         ELSE [a EXCEPT !.bytes = @ + sizes[e], !.taken = Append(@, entries[e])]
           step == [x \in T \X (1..n) |-> op(x[1], order[x[2]])]
           iter == CHOOSE it : it = [t \in SUBSET DOMAIN order |->
                       IF t = {} THEN base ELSE op(it[t \ {Max(t)}], order[Max(t)])]
<1>1. n \in Nat /\ DOMAIN order = 1..n /\ \A i \in 1..n : entries[i] \in E /\ order[i] = i
    BY LenProperties, ElementOfSeq
<1>2. base \in T /\ \A a \in T, i \in 1..n : op(a, order[i]) \in T
    <2>1. <<>> \in Seq(E) /\ base \in T
        BY EmptySeq DEF Section
    <2>2. ASSUME NEW a \in T, NEW i \in 1..n PROVE op(a, i) \in T
        <3>1. /\ a.bytes + sizes[i] \in Nat /\ Append(a.taken, entries[i]) \in Seq(E)
              /\ a \in T
            BY <1>1, AppendProperties DEF Section
        <3> QED BY <3>1 DEF Section
    <2> QED BY <1>1, <2>1, <2>2
<1>3. Fill(section, entries, sizes) = iter[DOMAIN order]
    BY DEF Fill, FoldLeft, MapThenFoldSet
<1>4. \A a, e : op(a, e) = IF a.full \/ a.bytes + sizes[e] > MaxResponseBytes
                         THEN [a EXCEPT !.full = TRUE]
                         ELSE [a EXCEPT !.bytes = @ + sizes[e], !.taken = Append(@, entries[e])]
    OBVIOUS
<1> HIDE DEF order, n, T, base, op
<1>5. step \in [T \X (1..n) -> T] /\ \A a \in T, i \in 1..n : step[<<a, i>>] = op(a, order[i])
    BY <1>2
<1>6. \A t \in SUBSET (1..n) : t # {} => Max(t) \in 1..n /\ t \ {Max(t)} \in SUBSET (1..n)
    BY <1>1, MaxFacts
<1> HIDE DEF step
<1>7. PICK it0 \in [SUBSET (1..n) -> T] : Folds(it0, n, base, step)
    BY <1>1, <1>2, <1>5, FoldExists
<1>8. it0 = [t \in SUBSET DOMAIN order |->
                IF t = {} THEN base ELSE op(it0[t \ {Max(t)}], order[Max(t)])]
    BY <1>1, <1>5, <1>6, <1>7 DEF Folds
<1>9. iter = [t \in SUBSET DOMAIN order |->
                IF t = {} THEN base ELSE op(iter[t \ {Max(t)}], order[Max(t)])]
    BY <1>8
<1> HIDE DEF iter
<1>10. FoldsWithin(iter, n, T, base, step)
    <2>1. iter[{}] = base
        BY <1>9
    <2>2. ASSUME NEW t \in SUBSET (1..n), t # {}, iter[t \ {Max(t)}] \in T
          PROVE  iter[t] = step[<<iter[t \ {Max(t)}], Max(t)>>]
        <3>1. iter[t] = op(iter[t \ {Max(t)}], order[Max(t)])
            BY <1>1, <1>9, <2>2
        <3> QED BY <1>5, <1>6, <2>2, <3>1
    <2> QED BY <2>1, <2>2 DEF FoldsWithin
<1>11. PICK acc \in [0..n -> T] : Trace(acc, n, base, step, iter)
    <2>1. n \in Nat /\ base \in T /\ step \in [T \X (1..n) -> T]
        BY <1>1, <1>2, <1>5
    <2> QED BY <1>10, <2>1, FoldTrace
<1>12. ASSUME NEW i \in 1..n PROVE acc[i] = op(acc[i - 1], order[i])
    <2>1. i - 1 \in 0..n
        BY <1>1
    <2>2. acc[i - 1] \in T /\ acc[i] = step[<<acc[i - 1], i>>]
        BY <1>11, <2>1 DEF Trace
    <2> QED BY <1>5, <2>2
<1>13. acc[0] = base /\ acc[n] = Fill(section, entries, sizes)
    BY <1>1, <1>3, <1>11 DEF Trace
<1>14. FillRun(acc, section, entries, sizes)
    BY <1>1, <1>4, <1>12, <1>13 DEF n, base, FillRun
<1> QED BY <1>14 DEF n, T

(***************************************************************************)
(* A section that has the room it needs after each of its entries takes    *)
(* them all.                                                               *)
(***************************************************************************)
LEMMA FillFacts ==
    ASSUME NEW E, NEW F, NEW section \in Section(F), NEW entries \in Seq(E),
           NEW sizes \in [1..Len(entries) -> Nat], NEW room \in [0..Len(entries) -> Nat],
           section.bytes <= room[0],
           \A i \in 1..Len(entries) : room[i - 1] + sizes[i] <= room[i],
           \A i \in 0..Len(entries) : room[i] <= MaxResponseBytes
    PROVE  /\ Fill(section, entries, sizes) \in Section(E)
           /\ Fill(section, entries, sizes).taken = entries
           /\ Fill(section, entries, sizes).bytes <= room[Len(entries)]
<1> DEFINE n == Len(entries)
<1>1. /\ n \in Nat /\ MaxResponseBytes \in Nat
      /\ \A i \in 1..n : entries[i] \in E /\ sizes[i] \in Nat
      /\ \A i \in 0..n : room[i] \in Nat
    BY LenProperties, ElementOfSeq, PacketAssumption
<1>2. PICK acc \in [0..n -> Section(E)] : FillRun(acc, section, entries, sizes)
    BY FillTrace
<1>3. acc[0] = [section EXCEPT !.full = FALSE, !.taken = <<>>]
      /\ acc[n] = Fill(section, entries, sizes)
    BY <1>2 DEF FillRun
<1>4. ASSUME NEW i \in 1..n, ~acc[i - 1].full, acc[i - 1].bytes + sizes[i] <= MaxResponseBytes
      PROVE  /\ acc[i].full = acc[i - 1].full
             /\ acc[i].bytes = acc[i - 1].bytes + sizes[i]
             /\ acc[i].taken = Append(acc[i - 1].taken, entries[i])
    <2>0. i - 1 \in 0..n
        BY <1>1
    <2>1. acc[i - 1] \in Section(E)
        BY <1>2, <2>0
    <2>2. acc[i - 1].bytes \in Nat /\ sizes[i] \in Nat
        BY <1>1, <2>1 DEF Section
    <2>3. ~(acc[i - 1].bytes + sizes[i] > MaxResponseBytes)
        BY <1>1, <1>4, <2>2
    <2>4. acc[i] = [acc[i - 1] EXCEPT !.bytes = @ + sizes[i], !.taken = Append(@, entries[i])]
        BY <1>2, <1>4, <2>3 DEF FillRun
    <2> QED BY <2>1, <2>4 DEF Section
<1> DEFINE P(k) == /\ ~acc[k].full /\ acc[k].bytes <= room[k]
                   /\ Len(acc[k].taken) = k
                   /\ \A j \in 1..k : acc[k].taken[j] = entries[j]
           Good == {k \in Nat : k <= n => P(k)}
<1>5. P(0)
    BY <1>3, EmptySeq DEF Section
<1>6. ASSUME NEW k \in Nat, k + 1 <= n, P(k) PROVE P(k + 1)
    <2> DEFINE a == acc[k]
               b == acc[k + 1]
    <2>1. k \in 0..n /\ k + 1 \in 1..n /\ k + 1 \in 0..n /\ (k + 1) - 1 = k
        BY <1>1, <1>6
    <2>2. a.bytes \in Nat /\ a.taken \in Seq(E) /\ sizes[k + 1] \in Nat
        BY <1>1, <1>2, <2>1 DEF Section
    <2>3. room[k] + sizes[k + 1] <= room[k + 1] /\ room[k + 1] <= MaxResponseBytes
        BY <2>1
    <2>4. a.bytes + sizes[k + 1] <= room[k + 1] /\ a.bytes + sizes[k + 1] <= MaxResponseBytes
        BY <1>1, <1>6, <2>1, <2>2, <2>3
    <2>5. ~b.full /\ b.bytes = a.bytes + sizes[k + 1]
          /\ b.taken = Append(a.taken, entries[k + 1])
        BY <1>4, <1>6, <2>1, <2>4
    <2>6. Len(a.taken) = k /\ \A j \in 1..k : a.taken[j] = entries[j]
        BY <1>6
    <2> HIDE DEF a, b
    <2>7. entries[k + 1] \in E
        BY <1>1, <2>1
    <2>8. /\ Len(b.taken) = k + 1 /\ b.taken[k + 1] = entries[k + 1]
          /\ \A j \in 1..k : b.taken[j] = a.taken[j]
        BY <2>2, <2>5, <2>6, <2>7, AppendProperties
    <2>9. \A j \in 1..(k + 1) : b.taken[j] = entries[j]
        BY <2>6, <2>8
    <2> QED BY <2>4, <2>5, <2>8, <2>9 DEF b
<1> HIDE DEF P
<1>7. 0 \in Good /\ \A k \in Nat : k \in Good => k + 1 \in Good
    BY <1>1, <1>5, <1>6
<1> HIDE DEF Good
<1>8. n \in Good
    BY <1>1, <1>7, NatInduct
<1>9. P(n) /\ n \in 0..n
    BY <1>1, <1>8 DEF Good
<1>10. acc[n] \in Section(E) /\ acc[n].taken \in Seq(E)
    BY <1>2, <1>9 DEF Section
<1>11. acc[n].taken = entries
    <2>1. /\ acc[n].taken \in [1..n -> E] /\ entries \in [1..n -> E]
          /\ \A j \in 1..n : acc[n].taken[j] = entries[j]
        BY <1>9, <1>10, LenProperties, ElementOfSeq DEF P
    <2> QED BY <2>1
<1> QED BY <1>3, <1>9, <1>10, <1>11 DEF P

-----------------------------------------------------------------------------
(***************************************************************************)
(* The room that records take.                                             *)
(***************************************************************************)
Bytes(S, r) == IF r \in S THEN RecordBytes(r) ELSE 0
Weight(S) == Bytes(S, ptr) + Bytes(S, srv) + Bytes(S, txt) + Bytes(S, address)

LEMMA RecordFacts ==
    /\ Records = {ptr, srv, txt, address}
    /\ all \in Seq(Records) /\ Len(all) = 4 /\ IsInjective(all)
    /\ ptr # srv /\ ptr # txt /\ ptr # address
    /\ srv # txt /\ srv # address /\ txt # address
<1>1. /\ ptr # srv /\ ptr # txt /\ ptr # address
      /\ srv # txt /\ srv # address /\ txt # address
    <2>1. /\ ptr.type = typePTR /\ srv.type = typeSRV
          /\ txt.type = typeTXT /\ address.type = typeA
        BY DEF ptr, srv, txt, address
    <2> QED BY <2>1 DEF typePTR, typeSRV, typeTXT, typeA
<1>2. Records = {ptr, srv, txt, address}
    BY DEF Records, Range, all
<1>3. all \in Seq(Records) /\ Len(all) = 4
    BY <1>2 DEF all
<1>4. IsInjective(all)
    BY <1>1 DEF all, IsInjective
<1> QED BY <1>1, <1>2, <1>3, <1>4

LEMMA NameFacts ==
    ASSUME NEW r \in Records
    PROVE  r.name \in Seq(Octet) /\ Len(r.name) \in Nat /\ Len(r.name) <= Len(InstanceName)
<1>1. r.name \in {ServiceName, InstanceName, HostName}
    BY RecordFacts DEF ptr, srv, txt, address
<1>2. r.name \in Seq(Octet)
    BY <1>1, NamesAssumption
<1>3. Len(r.name) \in Nat /\ Len(InstanceName) \in Nat
    BY <1>2, NamesAssumption, LenProperties
<1> QED BY <1>1, <1>2, <1>3, NamesAssumption

LEMMA RecordBytesFacts ==
    ASSUME NEW r \in Records
    PROVE  RecordBytes(r) \in Nat
<1>1. r.type \in {typeA, typePTR, typeTXT, typeSRV}
    BY RecordFacts DEF ptr, srv, txt, address
<1>2. DataBytes[r.type] \in Nat
    BY <1>1, PacketAssumption
<1> QED BY <1>2, NameFacts DEF RecordBytes

LEMMA WeightFacts ==
    /\ \A S : Weight(S) \in Nat /\ Weight(S) <= Weight(Records)
    /\ \A S : \A r \in Records : r \notin S => Weight(S) + RecordBytes(r) = Weight(S \cup {r})
    /\ Weight({}) = 0
    /\ Weight(Records) =
           RecordBytes(ptr) + RecordBytes(srv) + RecordBytes(txt) + RecordBytes(address)
<1>1. /\ RecordBytes(ptr) \in Nat /\ RecordBytes(srv) \in Nat
      /\ RecordBytes(txt) \in Nat /\ RecordBytes(address) \in Nat
    BY RecordFacts, RecordBytesFacts
<1>2. \A S : Weight(S) \in Nat /\ Weight(S) <= Weight(Records)
    BY <1>1, RecordFacts DEF Weight, Bytes
<1>3. ASSUME NEW S, NEW r \in Records, r \notin S
      PROVE  Weight(S) + RecordBytes(r) = Weight(S \cup {r})
    <2>1. \A t : t # r => Bytes(S \cup {r}, t) = Bytes(S, t)
        BY DEF Bytes
    <2>2. Bytes(S, r) = 0 /\ Bytes(S \cup {r}, r) = RecordBytes(r)
        BY <1>3 DEF Bytes
    <2>3. \A t \in Records : Bytes(S, t) \in Nat
        BY RecordBytesFacts DEF Bytes
    <2>4. /\ Bytes(S, ptr) \in Nat /\ Bytes(S, srv) \in Nat
          /\ Bytes(S, txt) \in Nat /\ Bytes(S, address) \in Nat
        BY <2>3, RecordFacts
    <2>5. r \in {ptr, srv, txt, address}
        BY RecordFacts
    <2>6. RecordBytes(r) \in Nat
        BY RecordBytesFacts
    <2>7. /\ r # ptr => Bytes(S \cup {r}, ptr) = Bytes(S, ptr)
          /\ r # srv => Bytes(S \cup {r}, srv) = Bytes(S, srv)
          /\ r # txt => Bytes(S \cup {r}, txt) = Bytes(S, txt)
          /\ r # address => Bytes(S \cup {r}, address) = Bytes(S, address)
        BY <2>1
    <2> HIDE DEF Bytes
    <2>8. /\ ptr # srv /\ ptr # txt /\ ptr # address
          /\ srv # txt /\ srv # address /\ txt # address
        BY RecordFacts
    <2>9. CASE r = ptr
        BY <2>2, <2>4, <2>6, <2>7, <2>8, <2>9 DEF Weight
    <2>10. CASE r = srv
        BY <2>2, <2>4, <2>6, <2>7, <2>8, <2>10 DEF Weight
    <2>11. CASE r = txt
        BY <2>2, <2>4, <2>6, <2>7, <2>8, <2>11 DEF Weight
    <2>12. CASE r = address
        BY <2>2, <2>4, <2>6, <2>7, <2>8, <2>12 DEF Weight
    <2> QED BY <2>5, <2>9, <2>10, <2>11, <2>12
<1>4. Weight({}) = 0
    BY DEF Weight, Bytes
<1>5. Weight(Records) =
           RecordBytes(ptr) + RecordBytes(srv) + RecordBytes(txt) + RecordBytes(address)
    BY RecordFacts DEF Weight, Bytes
<1> QED BY <1>2, <1>3, <1>4, <1>5

(* Records that are not repeated fit with those of S, if all of them do.    *)
LEMMA RecordsFit ==
    ASSUME NEW F, NEW section \in Section(F), NEW rs \in Seq(Records), IsInjective(rs),
           NEW S, S \cap Range(rs) = {}, NEW B \in Nat,
           section.bytes <= B + Weight(S), B + Weight(Records) <= MaxResponseBytes
    PROVE  /\ Fill(section, rs, RecordSizes(rs)) \in Section(Records)
           /\ Fill(section, rs, RecordSizes(rs)).taken = rs
           /\ Fill(section, rs, RecordSizes(rs)).bytes <= B + Weight(S \cup Range(rs))
<1> DEFINE n == Len(rs)
           sizes == RecordSizes(rs)
           room == [i \in 0..n |-> B + Weight(S \cup Prefix(rs, i))]
<1>1. n \in Nat /\ DOMAIN rs = 1..n /\ \A i \in 1..n : rs[i] \in Records
    BY LenProperties, ElementOfSeq
<1>2. sizes \in [1..n -> Nat] /\ \A i \in 1..n : sizes[i] = RecordBytes(rs[i])
    BY <1>1, RecordBytesFacts DEF RecordSizes
<1>3. room \in [0..n -> Nat] /\ \A i \in 0..n : room[i] <= MaxResponseBytes
    <2>1. \A i : B + Weight(S \cup Prefix(rs, i)) \in Nat
                 /\ B + Weight(S \cup Prefix(rs, i)) <= B + Weight(Records)
        BY WeightFacts
    <2>2. MaxResponseBytes \in Nat /\ Weight(Records) \in Nat
        BY PacketAssumption, WeightFacts
    <2>3. \A i \in 0..n : room[i] \in Nat /\ room[i] <= B + Weight(Records)
        BY <2>1
    <2> HIDE DEF room
    <2>4. \A i \in 0..n : room[i] <= MaxResponseBytes
        BY <2>2, <2>3
    <2> QED BY <2>1, <2>4 DEF room
<1>4. ASSUME NEW i \in 1..n PROVE room[i - 1] + sizes[i] <= room[i]
    <2> DEFINE U == S \cup Prefix(rs, i - 1)
    <2>1. i - 1 \in 0..n /\ i \in 0..n
        BY <1>1
    <2>2. S \cup Prefix(rs, i) = U \cup {rs[i]}
        BY PrefixFacts
    <2>3. rs[i] \notin U
        <3>1. rs[i] \in Range(rs)
            BY <1>1 DEF Range
        <3>2. \A j \in 1..(i - 1) : j \in 1..n /\ j # i
            BY <1>1
        <3>3. rs[i] \notin Prefix(rs, i - 1)
            BY <1>1, <3>2 DEF IsInjective, Prefix
        <3> QED BY <3>1, <3>3
    <2> HIDE DEF U
    <2>4. rs[i] \in Records /\ Weight(U) + RecordBytes(rs[i]) = Weight(U \cup {rs[i]})
        BY <1>1, <2>3, WeightFacts
    <2>5. Weight(U) \in Nat /\ RecordBytes(rs[i]) \in Nat
        BY <2>4, WeightFacts, RecordBytesFacts
    <2>6. room[i - 1] = B + Weight(U) /\ room[i] = B + Weight(U \cup {rs[i]})
        BY <2>1, <2>2 DEF U
    <2> QED BY <1>2, <2>4, <2>5, <2>6
<1>5. section.bytes <= room[0]
    <2>1. Prefix(rs, 0) = {} /\ 0 \in 0..n
        BY <1>1 DEF Prefix
    <2>2. S \cup Prefix(rs, 0) = S
        BY <2>1
    <2> QED BY <2>1, <2>2
<1>6. room[n] = B + Weight(S \cup Range(rs))
    <2>1. Prefix(rs, n) = Range(rs) /\ n \in 0..n
        BY <1>1, PrefixFacts
    <2> QED BY <2>1
<1> HIDE DEF n, room, sizes
<1>7. /\ Fill(section, rs, sizes) \in Section(Records)
      /\ Fill(section, rs, sizes).taken = rs
      /\ Fill(section, rs, sizes).bytes <= room[n]
    BY <1>2, <1>3, <1>4, <1>5, FillFacts DEF n
<1> QED BY <1>6, <1>7 DEF sizes

(* What one question calls for.                                             *)
LEMMA CalledFor ==
    ASSUME NEW q
    PROVE  /\ answers(q) \in Seq(Records) /\ additionals(q) \in Seq(Records)
           /\ answers(q) # <<>> => \E r \in Records : Asks(q, r)
           /\ \A r \in Records : Asks(q, r) => r \in Range(answers(q))
<1>0. Records = {ptr, srv, txt, address}
    BY RecordFacts
<1>1. additionals(q) \in Seq(Records)
    <2>1. /\ <<srv, txt, address>> \in Seq(Records) /\ <<address>> \in Seq(Records)
          /\ <<>> \in Seq(Records)
        BY <1>0
    <2>2. \/ additionals(q) = <<srv, txt, address>> \/ additionals(q) = <<address>>
          \/ additionals(q) = <<>>
        BY DEF additionals
    <2> QED BY <2>1, <2>2
<1>2. \A r, s \in Records : Asks(q, r) /\ Asks(q, s) => r.type = s.type
    BY DEF Asks
<1>3. \A r, s \in Records : r.type = s.type => r = s
    <2>1. /\ ptr.type = 12 /\ srv.type = 33 /\ txt.type = 16 /\ address.type = 1
        BY DEF ptr, srv, txt, address, typePTR, typeSRV, typeTXT, typeA
    <2> QED BY <1>0, <2>1
<1>4. ASSUME NEW r \in Records, Asks(q, r) PROVE answers(q) = <<r>>
    BY <1>0, <1>2, <1>3, <1>4 DEF answers
<1>5. ASSUME \A r \in Records : ~Asks(q, r) PROVE answers(q) = <<>>
    BY <1>0, <1>5 DEF answers
<1>6. \A r \in Records : <<r>> \in Seq(Records) /\ r \in Range(<<r>>)
    BY DEF Range
<1>7. <<>> \in Seq(Records)
    BY EmptySeq
<1> QED BY <1>1, <1>4, <1>5, <1>6, <1>7

(***************************************************************************)
(* What all of them call for.                                              *)
(***************************************************************************)
Answers(questions) == UNION {Range(answers(q)) : q \in Range(questions)}
Extras(questions) == UNION {Range(additionals(q)) : q \in Range(questions)}

LEMMA CollectedForFacts ==
    ASSUME NEW Q, NEW questions \in Seq(Q), NEW seen
    PROVE  /\ Found(questions) \in Seq(Records) /\ IsInjective(Found(questions))
           /\ Range(Found(questions)) = Answers(questions)
           /\ Added(questions, seen) \in Seq(Records) /\ IsInjective(Added(questions, seen))
           /\ Range(Added(questions, seen)) = Extras(questions) \ seen
<1> DEFINE n == Len(questions)
           a == [i \in DOMAIN questions |-> answers(questions[i])]
           b == [i \in DOMAIN questions |-> additionals(questions[i])]
<1>1. n \in Nat /\ DOMAIN questions = 1..n
    BY LenProperties
<1>2. /\ a \in Seq(Seq(Records)) /\ Len(a) = n /\ \A i \in 1..n : a[i] = answers(questions[i])
    <2>1. a \in [1..n -> Seq(Records)]
        BY <1>1, CalledFor
    <2>2. a \in Seq(Seq(Records))
        BY <1>1, <2>1, SeqDef
    <2> QED BY <1>1, <2>1, <2>2, LenProperties
<1>3. /\ b \in Seq(Seq(Records)) /\ Len(b) = n
      /\ \A i \in 1..n : b[i] = additionals(questions[i])
    <2>1. b \in [1..n -> Seq(Records)]
        BY <1>1, CalledFor
    <2>2. b \in Seq(Seq(Records))
        BY <1>1, <2>1, SeqDef
    <2> QED BY <1>1, <2>1, <2>2, LenProperties
<1>4. PICK none : /\ none = {} /\ Found(questions) = Collected(a, none)
                  /\ Added(questions, seen) = Collected(b, seen)
    BY DEF Found, Added
<1> HIDE DEF a, b
<1>5. /\ Collected(a, none) \in Seq(Records) /\ IsInjective(Collected(a, none))
      /\ Range(Collected(a, none)) = (UNION {Range(a[i]) : i \in 1..Len(a)}) \ none
    BY <1>2, CollectedFacts
<1>6. /\ Collected(b, seen) \in Seq(Records) /\ IsInjective(Collected(b, seen))
      /\ Range(Collected(b, seen)) = (UNION {Range(b[i]) : i \in 1..Len(b)}) \ seen
    BY <1>3, CollectedFacts
<1>7. Range(questions) = {questions[i] : i \in 1..n}
    BY <1>1 DEF Range
<1>8. UNION {Range(a[i]) : i \in 1..Len(a)} = Answers(questions)
    BY <1>2, <1>7 DEF Answers
<1>9. UNION {Range(b[i]) : i \in 1..Len(b)} = Extras(questions)
    BY <1>3, <1>7 DEF Extras
<1> QED BY <1>4, <1>5, <1>6, <1>8, <1>9

(* A question that is answered has the name of a record, in any capitals.   *)
LEMMA AnsweredFacts ==
    ASSUME NEW q \in AskedQuestion, answers(q) # <<>>
    PROVE  QuestionBytes(q) \in Nat /\ QuestionBytes(q) <= QuestionBytes(srv)
<1>1. PICK r \in Records : Asks(q, r)
    BY CalledFor
<1>2. Len(q.name) = Len(r.name)
    BY <1>1 DEF Asks, EqualFold
<1>3. Len(r.name) \in Nat /\ Len(r.name) <= Len(srv.name) /\ Len(srv.name) \in Nat
    BY NameFacts, RecordFacts DEF srv
<1> QED BY <1>2, <1>3 DEF QuestionBytes

(* The questions of a response fit, as many as a query may have.            *)
LEMMA QuestionsFit ==
    ASSUME NEW F, NEW section \in Section(F), NEW qs \in Seq(AskedQuestion),
           Len(qs) <= MaxQuestions, section.bytes = HeaderBytes,
           \A i \in 1..Len(qs) : answers(qs[i]) # <<>>
    PROVE  LET filled == Fill(section, qs, [i \in DOMAIN qs |-> QuestionBytes(qs[i])])
           IN  /\ filled \in Section(AskedQuestion)
               /\ filled.bytes <= HeaderBytes + MaxQuestions * QuestionBytes(srv)
<1> DEFINE n == Len(qs)
           sizes == [i \in DOMAIN qs |-> QuestionBytes(qs[i])]
           most == QuestionBytes(srv)
           room == [i \in 0..n |-> HeaderBytes + i * most]
<1>1. n \in Nat /\ DOMAIN qs = 1..n /\ \A i \in 1..n : qs[i] \in AskedQuestion
    BY LenProperties, ElementOfSeq
<1>2. most \in Nat /\ MaxQuestions \in Nat /\ n <= MaxQuestions
    BY NameFacts, RecordFacts, PacketAssumption DEF QuestionBytes
<1>3. /\ sizes \in [1..n -> Nat] /\ \A i \in 1..n : sizes[i] <= most
    BY <1>1, AnsweredFacts
<1> HIDE DEF n, sizes, most
<1>4. /\ \A i \in Nat : HeaderBytes + i * most \in Nat
      /\ \A i, j \in Nat : i <= j => i * most <= j * most
      /\ \A i \in Nat : (i + 1) * most = i * most + most
    BY <1>2 DEF HeaderBytes
<1>5. room \in [0..n -> Nat]
    <2>1. \A i \in 0..n : i \in Nat
        BY <1>1
    <2>2. \A i \in 0..n : HeaderBytes + i * most \in Nat
        BY <1>4, <2>1
    <2> QED BY <2>2
<1>6. \A i \in 0..n : room[i] <= HeaderBytes + MaxQuestions * most
    BY <1>1, <1>2, <1>4 DEF HeaderBytes
<1>7. HeaderBytes + MaxQuestions * most <= MaxResponseBytes
    <2>1. RecordBytes(ptr) + RecordBytes(srv) + RecordBytes(txt) + RecordBytes(address) \in Nat
        BY WeightFacts
    <2>2. HeaderBytes + MaxQuestions * most \in Nat /\ MaxResponseBytes \in Nat
        BY <1>2, <1>4, PacketAssumption
    <2>3. /\ RecordBytes(ptr) \in Nat /\ RecordBytes(srv) \in Nat
          /\ RecordBytes(txt) \in Nat /\ RecordBytes(address) \in Nat
        BY RecordBytesFacts, RecordFacts
    <2> QED BY <2>2, <2>3, RoomAssumption DEF most
<1>8. ASSUME NEW i \in 1..n PROVE room[i - 1] + sizes[i] <= room[i]
    <2>1. i - 1 \in Nat /\ i - 1 \in 0..n /\ i \in 0..n /\ (i - 1) + 1 = i
        BY <1>1
    <2>2. i * most = (i - 1) * most + most
        BY <1>4, <2>1
    <2>3. room[i - 1] = HeaderBytes + (i - 1) * most /\ room[i] = HeaderBytes + i * most
        BY <2>1
    <2>4. (i - 1) * most \in Nat /\ sizes[i] \in Nat /\ sizes[i] <= most
        BY <1>2, <1>3, <2>1
    <2> QED BY <1>2, <2>2, <2>3, <2>4 DEF HeaderBytes
<1>9. section.bytes <= room[0] /\ n \in 0..n
    BY <1>1, <1>2, <1>4 DEF HeaderBytes
<1>10. \A i \in 0..n : room[i] <= MaxResponseBytes
    <2>1. \A i \in 0..n : room[i] \in Nat
        BY <1>5
    <2>2. HeaderBytes + MaxQuestions * most \in Nat /\ MaxResponseBytes \in Nat
        BY <1>2, <1>4, PacketAssumption
    <2> HIDE DEF room
    <2> QED BY <1>6, <1>7, <2>1, <2>2
<1> HIDE DEF room
<1>11. /\ Fill(section, qs, sizes) \in Section(AskedQuestion)
       /\ Fill(section, qs, sizes).bytes <= room[n]
    BY <1>3, <1>5, <1>8, <1>9, <1>10, FillFacts DEF n
<1>12. room[n] <= HeaderBytes + MaxQuestions * most /\ room[n] \in Nat
    BY <1>5, <1>6, <1>9
<1>13. /\ Fill(section, qs, sizes).bytes \in Nat
       /\ HeaderBytes + MaxQuestions * most \in Nat
    BY <1>2, <1>4, <1>11 DEF Section
<1>14. Fill(section, qs, sizes).bytes <= HeaderBytes + MaxQuestions * most
    BY <1>11, <1>12, <1>13
<1> QED BY <1>11, <1>14 DEF sizes, most

(***************************************************************************)
(* The limit on a packet leaves room for the whole advertisement, and for  *)
(* the questions of a query that are answered: nothing is left out.        *)
(***************************************************************************)
LEMMA PacketFacts ==
    ASSUME NEW questions \in Seq(AskedQuestion), Len(questions) <= MaxQuestions,
           \A q \in Range(questions) : answers(q) # <<>>,
           NEW found \in Seq(Records), IsInjective(found),
           NEW extra \in Seq(Records), IsInjective(extra),
           Range(found) \cap Range(extra) = {}
    PROVE  LET packet == buildResponse([questions |-> questions, answers |-> found,
                                        additionals |-> extra])
           IN  packet.answers = found /\ packet.additionals = extra
<1> DEFINE named == Only(questions, {q \in Range(questions) : encodable(q.name)})
           empty == [bytes |-> HeaderBytes, taken |-> <<>>, full |-> FALSE]
           asked == Fill(empty, named, [i \in DOMAIN named |-> QuestionBytes(named[i])])
           first == Fill(asked, found, RecordSizes(found))
           second == Fill(first, extra, RecordSizes(extra))
           B == HeaderBytes + MaxQuestions * QuestionBytes(srv)
<1>1. /\ named \in Seq(AskedQuestion) /\ Len(named) <= MaxQuestions
      /\ \A i \in 1..Len(named) : answers(named[i]) # <<>>
    <2>1. /\ named \in Seq(AskedQuestion) /\ Len(named) <= Len(questions)
          /\ Range(named) \subseteq {q \in Range(questions) : encodable(q.name)}
        BY OnlyFacts
    <2> HIDE DEF named
    <2>2. /\ Len(questions) \in Nat /\ Len(named) \in Nat
          /\ MaxQuestions \in Nat /\ DOMAIN named = 1..Len(named)
        BY <2>1, LenProperties, PacketAssumption
    <2>3. \A i \in 1..Len(named) : named[i] \in Range(named)
        BY <2>2 DEF Range
    <2> QED BY <2>1, <2>2, <2>3
<1>2. empty \in Section(AskedQuestion) /\ empty.bytes = HeaderBytes
    BY EmptySeq DEF Section, HeaderBytes
<1>3. buildResponse([questions |-> questions, answers |-> found, additionals |-> extra]) =
          [answers |-> first.taken, additionals |-> second.taken, bytes |-> second.bytes]
    BY DEF buildResponse
<1> HIDE DEF named, empty
<1>4. asked \in Section(AskedQuestion) /\ asked.bytes <= B
    BY <1>1, <1>2, QuestionsFit
<1>5. B \in Nat /\ B + Weight(Records) <= MaxResponseBytes
    <2>1. QuestionBytes(srv) \in Nat /\ MaxQuestions \in Nat
        BY NameFacts, RecordFacts, PacketAssumption DEF QuestionBytes
    <2>2. B \in Nat
        BY <2>1 DEF HeaderBytes
    <2> HIDE DEF B
    <2>3. /\ RecordBytes(ptr) \in Nat /\ RecordBytes(srv) \in Nat
          /\ RecordBytes(txt) \in Nat /\ RecordBytes(address) \in Nat
        BY RecordBytesFacts, RecordFacts
    <2>4. MaxResponseBytes >= B + RecordBytes(ptr) + RecordBytes(srv)
                                + RecordBytes(txt) + RecordBytes(address)
        BY RoomAssumption DEF B
    <2>5. MaxResponseBytes \in Nat
        BY PacketAssumption
    <2> QED BY <2>2, <2>3, <2>4, <2>5, WeightFacts
<1> HIDE DEF asked, B
<1>6. first \in Section(Records) /\ first.taken = found /\ first.bytes <= B + Weight(Range(found))
    <2>1. PICK S : S = {}
        OBVIOUS
    <2>2. S \cap Range(found) = {} /\ asked.bytes <= B + Weight(S) /\ S \cup Range(found) = Range(found)
        <3>1. asked.bytes \in Nat
            BY <1>4 DEF Section
        <3> QED BY <1>4, <1>5, <2>1, <3>1, WeightFacts
    <2>3. /\ first \in Section(Records) /\ first.taken = found
          /\ first.bytes <= B + Weight(S \cup Range(found))
        BY <1>4, <1>5, <2>2, RecordsFit
    <2> QED BY <2>2, <2>3
<1> HIDE DEF first
<1>7. second.taken = extra
    BY <1>5, <1>6, RecordsFit
<1> HIDE DEF second
<1> QED BY <1>3, <1>6, <1>7

LEMMA ResponseFacts ==
    ASSUME NEW questions \in Seq(AskedQuestion), Len(questions) <= MaxQuestions
    PROVE  LET packet == buildResponse(responseFor(questions))
           IN  /\ packet.answers = Found(questions)
               /\ packet.additionals = Added(questions, Range(Found(questions)))
<1> DEFINE found == Found(questions)
           extra == Added(questions, Range(found))
           answered == Only(questions, {q \in Range(questions) : answers(q) # <<>>})
<1>1. /\ found \in Seq(Records) /\ IsInjective(found)
      /\ extra \in Seq(Records) /\ IsInjective(extra)
      /\ Range(found) \cap Range(extra) = {}
    BY CollectedForFacts
<1>2. /\ answered \in Seq(AskedQuestion) /\ Len(answered) <= MaxQuestions
      /\ \A q \in Range(answered) : answers(q) # <<>>
    <2>1. /\ answered \in Seq(AskedQuestion) /\ Len(answered) <= Len(questions)
          /\ Range(answered) \subseteq {q \in Range(questions) : answers(q) # <<>>}
        BY OnlyFacts
    <2> HIDE DEF answered
    <2>2. /\ Len(questions) \in Nat /\ Len(answered) \in Nat /\ MaxQuestions \in Nat
        BY <2>1, LenProperties, PacketAssumption
    <2> QED BY <2>1, <2>2
<1>3. responseFor(questions) =
          [questions |-> answered, answers |-> found, additionals |-> extra]
    BY DEF responseFor
<1> HIDE DEF found, extra, answered
<1> QED BY <1>1, <1>2, <1>3, PacketFacts DEF found, extra

(* The announcement holds the whole advertisement.                          *)
LEMMA AnnouncementFacts == Sent(Announcement) = Records
<1>1. PICK none : none = <<>>
    OBVIOUS
<1>2. /\ none \in Seq(AskedQuestion) /\ none \in Seq(Records) /\ Len(none) = 0
      /\ Range(none) = {} /\ IsInjective(none)
    BY <1>1, EmptySeq DEF Range, IsInjective
<1>3. MaxQuestions \in Nat
    BY PacketAssumption
<1>4. Announcement = buildResponse([questions |-> none, answers |-> all, additionals |-> none])
    BY <1>1 DEF Announcement
<1>5. Len(none) <= MaxQuestions /\ (\A q \in Range(none) : answers(q) # <<>>)
      /\ Range(all) \cap Range(none) = {}
    BY <1>2, <1>3
<1>6. Announcement.answers = all /\ Announcement.additionals = none
    <2>1. all \in Seq(Records) /\ IsInjective(all)
        BY RecordFacts
    <2>2. LET packet == buildResponse([questions |-> none, answers |-> all,
                                       additionals |-> none])
          IN  packet.answers = all /\ packet.additionals = none
        BY <1>2, <1>5, <2>1, PacketFacts
    <2> QED BY <1>4, <2>2
<1> QED BY <1>2, <1>6 DEF Sent, Records

-----------------------------------------------------------------------------
(***************************************************************************)
(* The advertisement.  Since the last announcement no record has lost more *)
(* time than has passed; and main says goodbye, or leaves, only with the   *)
(* flag set.                                                               *)
(***************************************************************************)
Running == at["run"] \in {"loop", "refresh", "read", "parse", "answer"}

Covered ==
    /\ Running /\ ~closed => \A r \in Records : held[r] + since >= TTL
    /\ at["main"] \in {"leave", "exited"} => closed

LEMMA CoveredNext ==
    ASSUME MdnsInv, CloseInv, Covered, [MdnsNext]_mdnsVars
    PROVE  Covered'
<1>0. /\ Refresh \in Nat /\ TTL \in Nat /\ TTL > Refresh
      /\ held \in [Records -> 0..TTL] /\ since \in 0..Refresh
      /\ at \in [Actor -> Place] /\ closed \in BOOLEAN
    BY ResponderAssumption DEF MdnsInv, NetworkOK, ControlOK, PlacesOK, FlagsOK, ClockOK
<1> USE DEF Actor, Go, Running
<1>1. CASE announce
    <2>1. at'["main"] = at["main"] /\ closed' = closed
        BY <1>0, <1>1 DEF announce
    <2>2. CASE Written(Announcement, TTL) /\ since' = 0
        <3>1. \A r \in Records : held'[r] = TTL
            BY <2>2, AnnouncementFacts DEF Written, Cached
        <3> QED BY <1>0, <2>1, <2>2, <3>1 DEF Covered
    <2>3. CASE Go("run", "swap")
        BY <1>0, <2>1, <2>3 DEF Covered
    <2> QED BY <1>1, <2>2, <2>3 DEF announce
<1>2. CASE loop \/ refresh \/ read \/ readEnds \/ parse \/ parsed
    <2>1. /\ at'["main"] = at["main"] /\ UNCHANGED <<closed, held, since>>
          /\ Running' => Running
        BY <1>0, <1>2 DEF loop, refresh, read, readEnds, parse, parsed
    <2> QED BY <2>1 DEF Covered
<1>3. CASE answer
    <2>1. /\ at'["main"] = at["main"] /\ UNCHANGED <<closed, since>> /\ Running
        BY <1>0, <1>3 DEF answer
    <2>2. \A r \in Records : held'[r] \in {held[r], TTL}
        BY <1>3 DEF answer, Written, Cached, NotWritten
    <2> QED BY <1>0, <2>1, <2>2 DEF Covered
<1>4. ASSUME NEW a \in Actor, swap(a) \/ goodbye(a) \/ shut(a) PROVE Covered'
    <2>1. closed'
        BY <1>4 DEF swap, goodbye, shut, CloseInv, Past
    <2> QED BY <2>1 DEF Covered
<1>5. CASE stop \/ exit
    <2>1. /\ at'["run"] = at["run"] /\ UNCHANGED <<closed, held, since>>
          /\ at'["main"] \in {"leave", "exited"} => at["main"] = "leave"
        BY <1>0, <1>5 DEF stop, exit
    <2> QED BY <2>1 DEF Covered
<1>6. CASE Pass
    <2>1. UNCHANGED <<at, closed>>
        BY <1>6 DEF Pass
    <2>2. ASSUME Running, ~closed PROVE \A r \in Records : held'[r] + since' >= TTL
        <3>1. at["run"] = "read" /\ Alive /\ since' = since + 1
            BY <1>6, <2>2 DEF Pass, Covered, Alive
        <3>2. \A r \in Records : held'[r] = IF held[r] = 0 THEN 0 ELSE held[r] - 1
            BY <1>6 DEF Pass
        <3>3. \A r \in Records : held[r] + since >= TTL
            BY <2>2 DEF Covered
        <3> QED BY <1>0, <3>1, <3>2, <3>3
    <2> QED BY <2>1, <2>2 DEF Covered
<1>7. CASE UNCHANGED mdnsVars
    BY <1>7 DEF mdnsVars, Covered
<1> QED
    BY <1>1, <1>2, <1>3, <1>4, <1>5, <1>6, <1>7 DEF MdnsNext, Run, Close

(* An announcement keeps all the records in the caches until the responder  *)
(* is closed, for every Refresh below TTL, whatever is asked and answered   *)
(* in between.                                                              *)
THEOREM AdvertisementKept == MdnsSpec => []StaysAdvertised
<1>1. MdnsInit => Covered
    BY DEF MdnsInit, Covered, Running, Actor
<1>2. MdnsInv /\ CloseInv /\ Covered /\ [MdnsNext]_mdnsVars => Covered'
    BY CoveredNext
<1>3. MdnsInv /\ Covered => StaysAdvertised
    BY ResponderAssumption
    DEF MdnsInv, NetworkOK, ControlOK, ClockOK, Covered, Running, StaysAdvertised
<1> QED
    BY <1>1, <1>2, <1>3, MdnsInvInit, MdnsInvNext, CloseInvInit, CloseInvStep, PTL
       DEF MdnsSpec

-----------------------------------------------------------------------------
(***************************************************************************)
(* Responses.                                                              *)
(***************************************************************************)

(* Two sequences without repetitions and with nothing in common make one.   *)
LEMMA ConcatFacts ==
    ASSUME NEW E, NEW s \in Seq(E), NEW t \in Seq(E), IsInjective(s), IsInjective(t),
           Range(s) \cap Range(t) = {}
    PROVE  IsInjective(s \o t)
<1> DEFINE m == Len(s)
           n == Len(t)
           st == s \o t
<1>1. m \in Nat /\ n \in Nat /\ DOMAIN s = 1..m /\ DOMAIN t = 1..n
    BY LenProperties
<1>2. /\ st \in Seq(E) /\ Len(st) = m + n
      /\ \A i \in 1..(m + n) : st[i] = IF i <= m THEN s[i] ELSE t[i - m]
    BY ConcatProperties
<1>3. DOMAIN st = 1..(m + n)
    BY <1>2, LenProperties
<1> HIDE DEF m, n, st
<1>4. \A i \in 1..(m + n) : \/ i \in 1..m /\ st[i] = s[i] /\ st[i] \in Range(s)
                            \/ i - m \in 1..n /\ st[i] = t[i - m] /\ st[i] \in Range(t)
    BY <1>1, <1>2 DEF Range
<1> SUFFICES ASSUME NEW i \in 1..(m + n), NEW j \in 1..(m + n), st[i] = st[j] PROVE i = j
    BY <1>3 DEF IsInjective, st
<1>5. CASE i \in 1..m /\ j \in 1..m /\ s[i] = s[j]
    BY <1>1, <1>5 DEF IsInjective
<1>6. CASE i - m \in 1..n /\ j - m \in 1..n /\ t[i - m] = t[j - m]
    <2>1. i - m = j - m
        BY <1>1, <1>6 DEF IsInjective
    <2> QED BY <1>1, <2>1
<1> QED BY <1>4, <1>5, <1>6

(* A response carries all that its questions call for, each record once,    *)
(* whatever the questions repeat or overlap, for all names and sizes that   *)
(* RoomAssumption leaves room for.                                          *)
THEOREM ResponsesComplete == MdnsSpec => []ResponseComplete
<1>1. ASSUME MdnsInv PROVE ResponseComplete
    <2> DEFINE questions == query.questions
               packet == buildResponse(responseFor(questions))
               found == Found(questions)
               extra == Added(questions, Range(found))
    <2>1. questions \in Seq(AskedQuestion) /\ Len(questions) <= MaxQuestions
        <3>1. /\ questions \in Seq(AskedQuestion) /\ query.left \in Nat
              /\ Len(questions) + query.left <= MaxQuestions
            BY <1>1, PacketAssumption DEF MdnsInv, ParserOK, QueryOK, Query
        <3>2. Len(questions) \in Nat /\ MaxQuestions \in Nat
            BY <3>1, LenProperties, PacketAssumption
        <3> HIDE DEF questions
        <3> QED BY <3>1, <3>2
    <2> HIDE DEF questions
    <2>2. packet.answers = found /\ packet.additionals = extra
        BY <2>1, ResponseFacts
    <2>3. /\ found \in Seq(Records) /\ IsInjective(found)
          /\ Range(found) = Answers(questions)
          /\ extra \in Seq(Records) /\ IsInjective(extra)
          /\ Range(extra) = Extras(questions) \ Range(found)
        BY <2>1, CollectedForFacts
    <2>4. Wanted = Answers(questions) \cup Extras(questions)
        BY DEF Wanted, Answers, Extras, questions
    <2>5. Response = packet
        BY DEF Response, questions
    <2> HIDE DEF packet, found, extra
    <2>6. Sent(packet) = Wanted
        BY <2>2, <2>3, <2>4 DEF Sent
    <2>7. IsInjective(packet.answers \o packet.additionals)
        <3>1. Range(found) \cap Range(extra) = {}
            BY <2>3
        <3> QED BY <2>2, <2>3, <3>1, ConcatFacts
    <2> QED BY <2>5, <2>6, <2>7 DEF ResponseComplete
<1> QED
    BY <1>1, MdnsInvInit, MdnsInvNext, PTL DEF MdnsSpec

-----------------------------------------------------------------------------
(***************************************************************************)
(* The round trip of a name.  While a query for one record is decoded, the *)
(* decoder stands at the start of a label and has all that comes before in *)
(* hand: it never finds the query malformed, and ends with the name that   *)
(* was encoded.                                                            *)
(***************************************************************************)
Halfway(d, t) ==
    LET k == d.cursor - HeaderBytes
    IN  /\ d.cursor \in Nat /\ k \in 0..Len(t)
        /\ k = 0 \/ (k >= 2 /\ t[k] = Dot)
        /\ d.status = "reading" /\ d.next = -1
        /\ d.text = IF k = 0 THEN <<>> ELSE SubSeq(t, 1, k - 1)

Whole(d, t) ==
    d.status = "name" /\ d.text = t /\ d.next = HeaderBytes + Len(t) + 1

Asking(q, t, type) ==
    \/ q = NoQuery
    \/ /\ q.status = "parsing" /\ q.left = 1 /\ q.questions = <<>>
       /\ Halfway(q.name, t) \/ Whole(q.name, t)
    \/ q.status = "parsed" /\ q.questions = <<[name |-> t, type |-> type]>>

AskInv ==
    /\ at["run"] \notin {"parse", "answer"} => query = NoQuery
    /\ at["run"] \in {"parse", "answer"} =>
           \A r \in Records : \A t \in {r.name, Shouted(r.name)} :
               datagram = Ask(r, t) => Asking(query, t, r.type)

CleanName(t) ==
    /\ t \in Seq(Octet) /\ Len(t) > 1 /\ t[Len(t)] = Dot /\ Len(t) + 1 <= MaxNameBytes
    /\ \A i \in 1..Len(t) : LabelStart(t, i) => LabelLength(t, i) \in 1..63

(* A label ends at the first dot from where it starts.                      *)
LEMMA LabelFacts ==
    ASSUME NEW t \in Seq(Octet), NEW i \in 1..Len(t), t[Len(t)] = Dot
    PROVE  /\ LabelLength(t, i) \in Nat /\ i + LabelLength(t, i) \in i..Len(t)
           /\ t[i + LabelLength(t, i)] = Dot
           /\ \A k \in i..(i + LabelLength(t, i) - 1) : t[k] # Dot
<1> DEFINE n == Len(t)
           D == {j \in i..n : t[j] = Dot}
           Ends(j) == t[j] = Dot /\ \A k \in i..(j - 1) : t[k] # Dot
           e == CHOOSE j \in i..n : Ends(j)
<1>1. n \in Nat /\ i \in Nat /\ n \in i..n
    BY LenProperties
<1>2. D \in SUBSET Nat /\ n \in D
    BY <1>1
<1>3. PICK m \in D : \A k \in D : m <= k
    BY <1>2, LeastNat
<1>4. m \in i..n /\ Ends(m)
    <2>1. m \in i..n /\ t[m] = Dot
        OBVIOUS
    <2>2. ASSUME NEW k \in i..(m - 1) PROVE t[k] # Dot
        <3>1. k \in i..n /\ ~(m <= k)
            BY <1>1, <2>1
        <3> QED BY <1>3, <3>1
    <2> QED BY <2>1, <2>2
<1>5. e \in i..n /\ Ends(e)
    BY <1>4
<1>6. LabelLength(t, i) = e - i
    BY DEF LabelLength
<1> HIDE DEF e
<1>7. e - i \in Nat /\ i + (e - i) = e /\ e - i + i = e
    BY <1>1, <1>5
<1> QED BY <1>5, <1>6, <1>7

(* Capitals leave the labels as they are.                                   *)
LEMMA ShoutedFacts ==
    ASSUME NEW t, CleanName(t)
    PROVE  CleanName(Shouted(t)) /\ EqualFold(Shouted(t), t) /\ EqualFold(t, t)
<1> DEFINE n == Len(t)
           s == Shouted(t)
<1>1. n \in Nat /\ DOMAIN t = 1..n /\ n >= 1 /\ \A i \in 1..n : t[i] \in 0..255
    BY LenProperties, ElementOfSeq DEF CleanName, Octet
<1>2. \A i \in 1..n : s[i] = IF t[i] \in 97..122 THEN t[i] - 32 ELSE t[i]
    BY <1>1 DEF Shouted
<1>3. \A i \in 1..n : s[i] \in 0..255 /\ (s[i] = Dot <=> t[i] = Dot) /\ Lower(s[i]) = Lower(t[i])
    <2> SUFFICES ASSUME NEW i \in 1..n
                 PROVE  /\ s[i] \in 0..255 /\ (s[i] = Dot <=> t[i] = Dot)
                        /\ Lower(s[i]) = Lower(t[i])
        OBVIOUS
    <2> DEFINE Capital(o) == IF o \in 97..122 THEN o - 32 ELSE o
    <2>1. t[i] \in 0..255 /\ s[i] = Capital(t[i])
        BY <1>1, <1>2
    <2>2. \A o \in 0..255 : /\ Capital(o) \in 0..255 /\ (Capital(o) = Dot <=> o = Dot)
                            /\ Lower(Capital(o)) = Lower(o)
        BY DEF Lower, Dot
    <2> HIDE DEF Capital, s
    <2> QED BY <2>1, <2>2
<1>4. s \in Seq(Octet) /\ Len(s) = n
    <2>1. DOMAIN s = 1..n
        BY <1>1 DEF Shouted
    <2>2. s = [i \in 1..n |-> s[i]]
        BY <1>1 DEF Shouted
    <2>3. s \in [1..n -> Octet]
        BY <1>3, <2>2 DEF Octet
    <2>4. s \in Seq(Octet)
        BY <1>1, <2>3, SeqDef
    <2> QED BY <1>1, <2>1, <2>4, LenProperties
<1>5. t \in Seq(Octet) /\ n > 1 /\ t[n] = Dot /\ n + 1 <= MaxNameBytes
    BY DEF CleanName
<1>6. s[n] = Dot /\ n \in 1..n
    BY <1>1, <1>3, <1>5
<1>7. ASSUME NEW i \in 1..n, LabelStart(s, i) PROVE LabelLength(s, i) \in 1..63
    <2>1. LabelStart(t, i)
        <3>1. i = 1 \/ i - 1 \in 1..n
            BY <1>1
        <3> QED BY <1>3, <1>7, <3>1 DEF LabelStart
    <2>2. LabelLength(t, i) \in 1..63
        BY <2>1 DEF CleanName
    <2> DEFINE a == LabelLength(s, i)
               b == LabelLength(t, i)
    <2>3. /\ b \in Nat /\ i + b \in i..n /\ t[i + b] = Dot
          /\ \A k \in i..(i + b - 1) : t[k] # Dot
        BY <1>5, LabelFacts
    <2>4. /\ a \in Nat /\ i + a \in i..n /\ s[i + a] = Dot
          /\ \A k \in i..(i + a - 1) : s[k] # Dot
        BY <1>4, <1>6, LabelFacts
    <2> HIDE DEF a, b, s
    <2>5. /\ i + a \in 1..n /\ i + b \in 1..n
          /\ a < b => i + a \in i..(i + b - 1)
          /\ b < a => i + b \in i..(i + a - 1)
        BY <1>1, <2>3, <2>4
    <2>6. ~(a < b) /\ ~(b < a)
        BY <1>3, <2>3, <2>4, <2>5
    <2>7. a = b
        BY <2>3, <2>4, <2>6
    <2> QED BY <2>2, <2>7 DEF a, b
<1> HIDE DEF s
<1>8. CleanName(s)
    BY <1>4, <1>5, <1>6, <1>7 DEF CleanName
<1>9. EqualFold(s, t) /\ EqualFold(t, t)
    BY <1>3, <1>4 DEF EqualFold
<1> QED BY <1>8, <1>9 DEF s

(* The names of the records, as published and in capitals.                  *)
LEMMA PublishedFacts ==
    ASSUME NEW r \in Records, NEW t \in {r.name, Shouted(r.name)}
    PROVE  CleanName(t) /\ EqualFold(t, r.name)
<1>1. r.name \in {ServiceName, InstanceName, HostName}
    BY RecordFacts DEF ptr, srv, txt, address
<1>2. CleanName(r.name)
    BY <1>1, NamesAssumption DEF CleanName, encodable
<1> QED BY <1>2, ShoutedFacts

(* The octets of a query for one record.                                    *)
LEMMA AskFacts ==
    ASSUME NEW r \in Records, NEW t, CleanName(t)
    PROVE  /\ Len(Ask(r, t)) = Len(t) + 17
           /\ Ask(r, t)[3] = 0 /\ Word(Ask(r, t), 4) = 1
           /\ \A i \in 1..(Len(t) + 1) : Ask(r, t)[HeaderBytes + i] = encodeName(t)[i]
           /\ Word(Ask(r, t), Len(t) + 13) = r.type
           /\ Word(Ask(r, t), Len(t) + 15) = 1
<1> DEFINE n == Len(t)
           h == <<0, 0, 0, 0, 0, 1, 0, 0, 0, 0, 0, 0>>
           e == encodeName(t)
           f == <<0, r.type, 0, classIN>>
           he == h \o e
           p == Ask(r, t)
<1>1. /\ n \in Nat /\ n > 1 /\ DOMAIN t = 1..n
      /\ \A i \in 1..n : t[i] \in Octet
    BY LenProperties, ElementOfSeq DEF CleanName
<1>2. h \in Seq(Octet) /\ Len(h) = 12 /\ h[3] = 0 /\ h[5] = 0 /\ h[6] = 1
    BY DEF Octet
<1>3. r.type \in Octet
    <2>1. r.type \in {1, 12, 16, 33}
        BY RecordFacts
           DEF ptr, srv, txt, address, typePTR, typeSRV, typeTXT, typeA
    <2> QED BY <2>1 DEF Octet
<1>4. f \in Seq(Octet) /\ Len(f) = 4 /\ f[1] = 0 /\ f[2] = r.type /\ f[3] = 0 /\ f[4] = 1
    BY <1>3 DEF Octet, classIN
<1>5. e \in Seq(Octet) /\ Len(e) = n + 1
    <2>1. ASSUME NEW i \in 1..(n + 1) PROVE e[i] \in Octet
        <3>1. CASE i = n + 1
            BY <3>1 DEF encodeName, Octet
        <3>2. CASE i # n + 1 /\ LabelStart(t, i)
            <4>1. i \in 1..n
                BY <1>1, <3>2
            <4>2. LabelLength(t, i) \in 1..63
                BY <3>2, <4>1 DEF CleanName
            <4>3. e[i] = LabelLength(t, i)
                BY <3>2 DEF encodeName
            <4> QED BY <4>2, <4>3 DEF Octet
        <3>3. CASE i # n + 1 /\ ~LabelStart(t, i)
            <4>1. i - 1 \in 1..n
                BY <1>1, <3>3 DEF LabelStart
            <4>2. e[i] = t[i - 1]
                BY <3>3 DEF encodeName
            <4> QED BY <1>1, <4>1, <4>2
        <3> QED BY <3>1, <3>2, <3>3
    <2>2. e = [i \in 1..(n + 1) |-> e[i]]
        BY DEF encodeName
    <2>3. e \in [1..(n + 1) -> Octet] /\ n + 1 \in Nat
        BY <1>1, <2>1, <2>2
    <2>4. e \in Seq(Octet)
        BY <2>3, SeqDef
    <2> QED BY <2>3, <2>4, LenProperties
<1>6. p = he \o f
    BY DEF Ask
<1> HIDE DEF h, e, f, p
<1>7. /\ he \in Seq(Octet) /\ Len(he) = n + 13
      /\ \A i \in 1..(n + 13) : he[i] = IF i <= 12 THEN h[i] ELSE e[i - 12]
    <2>1. /\ he \in Seq(Octet) /\ Len(he) = Len(h) + Len(e)
          /\ \A i \in 1..(Len(h) + Len(e)) :
                 he[i] = IF i <= Len(h) THEN h[i] ELSE e[i - Len(h)]
        BY <1>2, <1>5, ConcatProperties
    <2> HIDE DEF he
    <2>2. Len(h) + Len(e) = n + 13
        BY <1>1, <1>2, <1>5
    <2> QED BY <1>2, <2>1, <2>2
<1> HIDE DEF he
<1>8. /\ p \in Seq(Octet) /\ Len(p) = n + 17
      /\ \A i \in 1..(n + 17) : p[i] = IF i <= n + 13 THEN he[i] ELSE f[i - (n + 13)]
    <2>1. /\ p \in Seq(Octet) /\ Len(p) = Len(he) + Len(f)
          /\ \A i \in 1..(Len(he) + Len(f)) :
                 p[i] = IF i <= Len(he) THEN he[i] ELSE f[i - Len(he)]
        BY <1>4, <1>6, <1>7, ConcatProperties
    <2>2. Len(he) + Len(f) = n + 17
        BY <1>1, <1>4, <1>7
    <2> QED BY <1>7, <2>1, <2>2
<1>9. \A i \in 1..12 : p[i] = h[i]
    BY <1>1, <1>7, <1>8
<1>10. \A i \in 1..(n + 1) : p[12 + i] = e[i]
    <2> SUFFICES ASSUME NEW i \in 1..(n + 1) PROVE p[12 + i] = e[i]
        OBVIOUS
    <2>1. /\ 12 + i \in 1..(n + 13) /\ 12 + i \in 1..(n + 17) /\ (12 + i) - 12 = i
          /\ 12 + i <= n + 13 /\ ~(12 + i <= 12)
        BY <1>1
    <2> QED BY <1>7, <1>8, <2>1
<1>11. \A i \in 1..4 : p[n + 13 + i] = f[i]
    <2> SUFFICES ASSUME NEW i \in 1..4 PROVE p[n + 13 + i] = f[i]
        OBVIOUS
    <2>1. /\ n + 13 + i \in 1..(n + 17) /\ (n + 13 + i) - (n + 13) = i
          /\ ~(n + 13 + i <= n + 13)
        BY <1>1
    <2> QED BY <1>8, <2>1
<1>12. p[3] = 0 /\ Word(p, 4) = 1
    BY <1>2, <1>9 DEF Word
<1>13. Word(p, n + 13) = r.type /\ Word(p, n + 15) = 1
    <2>1. /\ p[n + 13 + 1] = 0 /\ p[n + 13 + 2] = r.type
          /\ p[n + 13 + 3] = 0 /\ p[n + 13 + 4] = 1
        BY <1>4, <1>11
    <2>2. n + 15 + 1 = n + 13 + 3 /\ n + 15 + 2 = n + 13 + 4
        BY <1>1
    <2>3. Word(p, n + 13) = 0 * 256 + r.type /\ Word(p, n + 15) = 0 * 256 + 1
        BY <2>1, <2>2 DEF Word
    <2>4. \A o \in 0..255 : 0 * 256 + o = o
        OBVIOUS
    <2>5. PICK o \in 0..255 : o = r.type
        BY <1>3 DEF Octet
    <2>6. 0 * 256 + o = o /\ 0 * 256 + 1 = 1
        BY <2>4
    <2> QED BY <2>3, <2>5, <2>6
<1> QED BY <1>8, <1>10, <1>12, <1>13 DEF p, e, HeaderBytes

(* The beginnings of a sequence.                                            *)
LEMMA SliceFacts ==
    ASSUME NEW t \in Seq(Octet), NEW k \in Nat, NEW m \in Nat, k <= m, m <= Len(t)
    PROVE  /\ SubSeq(t, k + 1, m) \in Seq(Octet) /\ Len(SubSeq(t, k + 1, m)) = m - k
           /\ \A i \in 1..(m - k) : SubSeq(t, k + 1, m)[i] = t[k + i]
<1>1. \A i \in (k + 1)..m : t[i] \in Octet
    <2>1. Len(t) \in Nat /\ \A i \in (k + 1)..m : i \in 1..Len(t)
        BY LenProperties
    <2> QED BY <2>1, ElementOfSeq
<1>2. /\ SubSeq(t, k + 1, m) \in Seq(Octet)
      /\ Len(SubSeq(t, k + 1, m)) = IF k + 1 <= m THEN m - (k + 1) + 1 ELSE 0
      /\ \A i \in 1..(m - (k + 1) + 1) : SubSeq(t, k + 1, m)[i] = t[k + 1 + i - 1]
    BY <1>1, SubSeqProperties
<1>3. m - (k + 1) + 1 = m - k /\ \A i \in 1..(m - k) : k + 1 + i - 1 = k + i
    OBVIOUS
<1> QED BY <1>2, <1>3

LEMMA BeginningFacts ==
    ASSUME NEW t \in Seq(Octet), NEW k \in Nat, k <= Len(t)
    PROVE  /\ SubSeq(t, 1, k) \in Seq(Octet) /\ Len(SubSeq(t, 1, k)) = k
           /\ \A i \in 1..k : SubSeq(t, 1, k)[i] = t[i]
<1>1. PICK z \in Nat : z = 0
    OBVIOUS
<1>2. /\ SubSeq(t, z + 1, k) \in Seq(Octet) /\ Len(SubSeq(t, z + 1, k)) = k - z
      /\ \A i \in 1..(k - z) : SubSeq(t, z + 1, k)[i] = t[z + i]
    <2>1. z <= k
        BY <1>1
    <2> QED BY <2>1, SliceFacts
<1>3. z + 1 = 1 /\ k - z = k /\ \A i \in 1..k : z + i = i
    BY <1>1
<1> QED BY <1>2, <1>3

LEMMA BeginningGrows ==
    ASSUME NEW t \in Seq(Octet), NEW k \in Nat, NEW m \in Nat, k <= m, m <= Len(t)
    PROVE  SubSeq(t, 1, k) \o SubSeq(t, k + 1, m) = SubSeq(t, 1, m)
<1> DEFINE a == SubSeq(t, 1, k)
           b == SubSeq(t, k + 1, m)
           c == SubSeq(t, 1, m)
<1>1. Len(t) \in Nat /\ k <= Len(t)
    BY LenProperties
<1>2. a \in Seq(Octet) /\ Len(a) = k /\ \A i \in 1..k : a[i] = t[i]
    BY <1>1, BeginningFacts
<1>3. b \in Seq(Octet) /\ Len(b) = m - k /\ \A i \in 1..(m - k) : b[i] = t[k + i]
    BY SliceFacts
<1>4. c \in Seq(Octet) /\ Len(c) = m /\ \A i \in 1..m : c[i] = t[i]
    BY BeginningFacts
<1> HIDE DEF a, b, c
<1>5. /\ a \o b \in Seq(Octet) /\ Len(a \o b) = Len(a) + Len(b)
      /\ \A i \in 1..(Len(a) + Len(b)) :
             (a \o b)[i] = IF i <= Len(a) THEN a[i] ELSE b[i - Len(a)]
    BY <1>2, <1>3, ConcatProperties
<1>6. Len(a) + Len(b) = m
    BY <1>2, <1>3
<1>7. ASSUME NEW i \in 1..m PROVE (a \o b)[i] = t[i]
    <2>1. CASE i <= k
        <3>1. i \in 1..k
            BY <2>1
        <3> QED BY <1>2, <1>5, <1>6, <2>1, <3>1
    <2>2. CASE ~(i <= k)
        <3>1. i - k \in 1..(m - k) /\ k + (i - k) = i
            BY <2>2
        <3>2. (a \o b)[i] = b[i - k]
            BY <1>2, <1>5, <1>6, <2>2
        <3>3. b[i - k] = t[k + (i - k)]
            BY <1>3, <3>1
        <3> QED BY <3>1, <3>2, <3>3
    <2> QED BY <2>1, <2>2
<1>8. a \o b = c
    BY <1>4, <1>5, <1>6, <1>7, SeqEqual
<1> QED BY <1>8 DEF a, b, c

LEMMA BeginningAppend ==
    ASSUME NEW t \in Seq(Octet), NEW k \in Nat, 1 <= k, k <= Len(t)
    PROVE  Append(SubSeq(t, 1, k - 1), t[k]) = SubSeq(t, 1, k)
<1> DEFINE a == SubSeq(t, 1, k - 1)
           c == SubSeq(t, 1, k)
<1>1. Len(t) \in Nat /\ k - 1 \in Nat /\ k - 1 <= Len(t) /\ k \in 1..Len(t)
    BY LenProperties
<1>2. a \in Seq(Octet) /\ Len(a) = k - 1 /\ \A i \in 1..(k - 1) : a[i] = t[i]
    BY <1>1, BeginningFacts
<1>3. c \in Seq(Octet) /\ Len(c) = k /\ \A i \in 1..k : c[i] = t[i]
    BY BeginningFacts
<1>4. t[k] \in Octet
    BY <1>1, ElementOfSeq
<1> HIDE DEF a, c
<1>5. /\ Append(a, t[k]) \in Seq(Octet) /\ Len(Append(a, t[k])) = Len(a) + 1
      /\ \A i \in 1..Len(a) : Append(a, t[k])[i] = a[i]
      /\ Append(a, t[k])[Len(a) + 1] = t[k]
    BY <1>2, <1>4, AppendProperties
<1>6. Len(a) + 1 = k /\ \A i \in 1..k : i = k \/ i \in 1..(k - 1)
    BY <1>2
<1>7. \A i \in 1..k : Append(a, t[k])[i] = c[i]
    BY <1>2, <1>3, <1>5, <1>6
<1>8. Append(a, t[k]) = c
    BY <1>3, <1>5, <1>6, <1>7, SeqEqual
<1> QED BY <1>8 DEF a, c

LEMMA BeginningWhole ==
    ASSUME NEW t \in Seq(Octet)
    PROVE  SubSeq(t, 1, Len(t)) = t
<1>1. Len(t) \in Nat
    BY LenProperties
<1>2. /\ SubSeq(t, 1, Len(t)) \in Seq(Octet) /\ Len(SubSeq(t, 1, Len(t))) = Len(t)
      /\ \A i \in 1..Len(t) : SubSeq(t, 1, Len(t))[i] = t[i]
    BY <1>1, BeginningFacts
<1> QED BY <1>2, SeqEqual

(* One iteration of the decoder on such a query.                            *)
LEMMA HalfwayStep ==
    ASSUME NEW r \in Records, NEW t, CleanName(t), NEW d \in Name, Halfway(d, t)
    PROVE  \/ Halfway(DecodeStep(Ask(r, t), d), t)
           \/ Whole(DecodeStep(Ask(r, t), d), t)
<1> DEFINE n == Len(t)
           p == Ask(r, t)
           e == encodeName(t)
           k == d.cursor - HeaderBytes
<1>1. /\ t \in Seq(Octet) /\ n \in Nat /\ n > 1 /\ t[n] = Dot /\ n + 1 <= MaxNameBytes
      /\ MaxNameBytes \in Nat
      /\ \A i \in 1..n : LabelStart(t, i) => LabelLength(t, i) \in 1..63
    BY LenProperties, PacketAssumption DEF CleanName
<1>2. /\ Len(p) = n + 17 /\ \A i \in 1..(n + 1) : p[HeaderBytes + i] = e[i]
    BY AskFacts
<1>3. /\ d.cursor \in Nat /\ k \in 0..n /\ d.cursor = 12 + k
      /\ k = 0 \/ (k >= 2 /\ t[k] = Dot)
      /\ d.status = "reading" /\ d.next = -1
      /\ d.text = IF k = 0 THEN <<>> ELSE SubSeq(t, 1, k - 1)
    BY DEF Halfway, HeaderBytes
<1>4. e = [i \in 1..(n + 1) |->
              CASE i = n + 1 -> 0
                [] i <= n /\ LabelStart(t, i) -> LabelLength(t, i)
                [] OTHER -> t[i - 1]]
    BY DEF encodeName
<1> HIDE DEF n, p, e, k
<1>5. ~(d.cursor >= Len(p)) /\ p[d.cursor + 1] = e[k + 1]
    <2>1. d.cursor + 1 = 12 + (k + 1) /\ k + 1 \in 1..(n + 1)
        BY <1>1, <1>3
    <2>2. p[12 + (k + 1)] = e[k + 1]
        BY <1>2, <2>1 DEF HeaderBytes
    <2>3. d.cursor < Len(p)
        BY <1>1, <1>2, <1>3
    <2> QED BY <1>1, <1>2, <1>3, <2>1, <2>2, <2>3
<1> DEFINE length == e[k + 1]
<1>6. DecodeStep(p, d) =
          CASE length = 0          -> End(d)
            [] length \in 1..63    -> Label(p, d, length)
            [] length \in 192..255 -> Jump(p, d)
            [] OTHER               -> Malformed(d)
    BY <1>5 DEF DecodeStep
<1>7. CASE k = n
    <2>1. length = 0
        <3>1. k + 1 = n + 1 /\ n + 1 \in 1..(n + 1) /\ ~(n + 1 <= n)
            BY <1>1, <1>7
        <3> QED BY <1>4, <3>1
    <2> HIDE DEF length
    <2>2. DecodeStep(p, d) = End(d)
        BY <1>6, <2>1
    <2>3. d.text = SubSeq(t, 1, n - 1)
        BY <1>1, <1>3, <1>7
    <2>4. Append(d.text, Dot) = t
        <3>1. Append(SubSeq(t, 1, n - 1), t[n]) = SubSeq(t, 1, n)
            BY <1>1, BeginningAppend DEF n
        <3>2. SubSeq(t, 1, n) = t
            BY <1>1, BeginningWhole DEF n
        <3> QED BY <1>1, <2>3, <3>1, <3>2
    <2> DEFINE next == d.cursor + 1
    <2>5. End(d) = [d EXCEPT !.status = "name", !.text = t, !.next = next]
        <3>1. d.next < 0
            BY <1>3
        <3> QED BY <2>4, <3>1 DEF End, Name
    <2>6. next = HeaderBytes + Len(t) + 1
        BY <1>1, <1>3, <1>7 DEF HeaderBytes, n
    <2> HIDE DEF next
    <2>7. Whole(End(d), t)
        BY <2>5, <2>6 DEF Whole, Name
    <2> QED BY <2>2, <2>7 DEF p
<1>8. CASE k # n
    <2>1. k \in Nat /\ k + 1 \in 1..n /\ k + 1 \in 1..(n + 1) /\ k + 1 # n + 1 /\ k + 1 <= n
        BY <1>1, <1>3, <1>8
    <2>2. LabelStart(t, k + 1)
        <3>1. k = 0 => k + 1 = 1
            BY <2>1
        <3>2. k + 1 - 1 = k
            BY <2>1
        <3> QED BY <1>3, <3>1, <3>2 DEF LabelStart
    <2> DEFINE L == LabelLength(t, k + 1)
               m == k + L
    <2>3. /\ L \in Nat /\ (k + 1) + L \in (k + 1)..n /\ t[(k + 1) + L] = Dot
          /\ \A i \in (k + 1)..((k + 1) + L - 1) : t[i] # Dot
        BY <1>1, <2>1, LabelFacts DEF n
    <2>4. L \in 1..63
        BY <1>1, <2>1, <2>2
    <2>5. length = L
        BY <1>4, <2>1, <2>2
    <2> HIDE DEF L, length
    <2>6. DecodeStep(p, d) = Label(p, d, L)
        <3>1. L # 0 /\ L \notin 192..255
            BY <2>4
        <3> QED BY <1>6, <2>4, <2>5, <3>1, Zenon
    <2>7. /\ m \in Nat /\ m >= 1 /\ m + 1 = (k + 1) + L /\ m + 1 <= n /\ k <= m /\ m <= n
          /\ k + 1 <= m /\ m - k = L /\ (k + 1) + L - 1 = m /\ m + 1 >= 2
        BY <1>1, <2>1, <2>3, <2>4
    <2>8. ASSUME NEW i \in 1..L PROVE p[d.cursor + 1 + i] = t[k + i]
        <3>1. /\ d.cursor + 1 + i = 12 + (k + 1 + i) /\ k + 1 + i \in 1..(n + 1)
              /\ k + 1 + i # n + 1 /\ k + 1 + i # 1 /\ k + 1 + i - 1 = k + i
              /\ k + i \in (k + 1)..m
            BY <1>1, <1>3, <2>1, <2>3, <2>4, <2>7
        <3>2. p[12 + (k + 1 + i)] = e[k + 1 + i]
            BY <1>2, <3>1 DEF HeaderBytes
        <3>3. t[k + i] # Dot
            BY <2>3, <2>7, <3>1
        <3>4. PICK j \in 1..(n + 1) : j = k + 1 + i
            BY <3>1
        <3>5. j # 1 /\ j # n + 1 /\ j - 1 = k + i
            BY <1>1, <2>1, <2>3, <2>4, <2>7, <3>4
        <3>6. ~LabelStart(t, j)
            BY <3>3, <3>5 DEF LabelStart
        <3>7. e[j] = t[j - 1]
            BY <1>4, <3>5, <3>6
        <3> QED BY <3>1, <3>2, <3>4, <3>5, <3>7
    <2>9. SubSeq(p, d.cursor + 2, d.cursor + 1 + L) = SubSeq(t, k + 1, m)
        <3> DEFINE lo == d.cursor + 2
                   hi == d.cursor + 1 + L
                   a == SubSeq(p, lo, hi)
                   b == SubSeq(t, k + 1, m)
        <3>1. /\ lo \in Int /\ hi \in Int /\ lo <= hi /\ hi - lo + 1 = L
              /\ \A i \in 1..L : lo + i - 1 = d.cursor + 1 + i
              /\ \A i \in lo..hi : i - (d.cursor + 1) \in 1..L
                                   /\ d.cursor + 1 + (i - (d.cursor + 1)) = i
            BY <1>3, <2>4
        <3>2. b \in Seq(Octet) /\ Len(b) = L /\ \A i \in 1..L : b[i] = t[k + i]
            <4>1. /\ b \in Seq(Octet) /\ Len(b) = m - k /\ \A i \in 1..(m - k) : b[i] = t[k + i]
                BY <1>1, <2>1, <2>7, SliceFacts DEF n
            <4> QED BY <2>7, <4>1
        <3>3. \A i \in 1..L : t[k + i] \in Octet
            <4>1. \A i \in 1..L : b[i] \in Octet
                BY <3>2, ElementOfSeq
            <4> QED BY <3>2, <4>1
        <3> HIDE DEF lo, hi, b
        <3>4. \A i \in lo..hi : p[i] \in Octet
            BY <2>8, <3>1, <3>3
        <3>5. /\ a \in Seq(Octet) /\ Len(a) = (IF lo <= hi THEN hi - lo + 1 ELSE 0)
              /\ \A i \in 1..(hi - lo + 1) : a[i] = p[lo + i - 1]
            BY <3>1, <3>4, SubSeqProperties
        <3> HIDE DEF a
        <3>6. Len(a) = L /\ \A i \in 1..L : a[i] = b[i]
            BY <2>8, <3>1, <3>2, <3>5
        <3>7. a = b
            BY <3>2, <3>5, <3>6, SeqEqual
        <3> QED BY <3>7 DEF a, b, lo, hi
    <2>10. Joined(p, d, L) = SubSeq(t, 1, m)
        <3>1. SubSeq(t, 1, k) \o SubSeq(t, k + 1, m) = SubSeq(t, 1, m)
            BY <1>1, <2>1, <2>7, BeginningGrows DEF n
        <3>2. CASE k = 0
            <4>1. d.text = <<>>
                BY <1>3, <3>2
            <4>2. k + 1 = 1
                BY <3>2
            <4>3. SubSeq(t, 1, m) \in Seq(Octet)
                BY <1>1, <2>7, BeginningFacts DEF n
            <4>4. <<>> \o SubSeq(t, 1, m) = SubSeq(t, 1, m)
                BY <4>3, ConcatEmptySeq
            <4> QED BY <2>9, <4>1, <4>2, <4>4 DEF Joined
        <3>3. CASE k # 0
            <4>1. k >= 2 /\ t[k] = Dot /\ d.text = SubSeq(t, 1, k - 1) /\ k <= n
                BY <1>3, <3>3
            <4>2. Append(d.text, Dot) = SubSeq(t, 1, k)
                <5>1. 1 <= k
                    BY <2>1, <4>1
                <5> QED BY <1>1, <2>1, <4>1, <5>1, BeginningAppend DEF n
            <4>3. d.text # <<>>
                <5>1. k - 1 \in Nat /\ k - 1 <= n /\ k - 1 # 0
                    BY <1>1, <2>1, <4>1
                <5>2. Len(SubSeq(t, 1, k - 1)) = k - 1
                    BY <1>1, <5>1, BeginningFacts DEF n
                <5>3. Len(<<>>) = 0
                    BY EmptySeq
                <5> QED BY <4>1, <5>1, <5>2, <5>3
            <4> QED BY <2>9, <3>1, <4>2, <4>3 DEF Joined
        <3> QED BY <3>2, <3>3
    <2> DEFINE text == SubSeq(t, 1, m)
               cursor == d.cursor + 1 + L
    <2>11. Len(text) = m
        BY <1>1, <2>7, BeginningFacts DEF n
    <2>12. Label(p, d, L) = [d EXCEPT !.text = text, !.cursor = cursor]
        <3>1. ~(d.cursor + 1 + L > Len(p))
            BY <1>1, <1>2, <1>3, <2>7
        <3>2. ~(m > MaxNameBytes)
            BY <1>1, <2>7
        <3>3. ~(Len(Joined(p, d, L)) > MaxNameBytes)
            BY <2>10, <2>11, <3>2
        <3> QED BY <2>10, <3>1, <3>3 DEF Label, Sliced, Name
    <2>13. cursor = 12 + (m + 1) /\ cursor \in Nat /\ cursor - HeaderBytes = m + 1
        BY <1>3, <2>4, <2>7 DEF HeaderBytes
    <2>14. m + 1 \in 0..n /\ m + 1 # 0 /\ m + 1 - 1 = m
        BY <1>1, <2>7
    <2> HIDE DEF cursor, text, m
    <2> DEFINE d2 == [d EXCEPT !.text = text, !.cursor = cursor]
    <2>15. d2.cursor = cursor /\ d2.text = text /\ d2.status = d.status /\ d2.next = d.next
        BY DEF Name
    <2> HIDE DEF d2
    <2>16. t[m + 1] = Dot /\ text = SubSeq(t, 1, m + 1 - 1)
        BY <2>3, <2>7, <2>14 DEF text
    <2>17. Halfway(d2, t)
        BY <1>3, <2>7, <2>13, <2>14, <2>15, <2>16 DEF Halfway, n
    <2> QED BY <2>6, <2>12, <2>17 DEF d2, p
<1> QED BY <1>7, <1>8

(* One step of the parser.                                                  *)
LEMMA AskingStep ==
    ASSUME NEW r \in Records, NEW t, CleanName(t), NEW q, QueryOK(q),
           q.status \in {"none", "parsing"}, Asking(q, t, r.type)
    PROVE  Asking(ParseStep(Ask(r, t), q), t, r.type)
<1> DEFINE p == Ask(r, t)
           n == Len(t)
<1>1. /\ Len(p) = n + 17 /\ p[3] = 0 /\ Word(p, 4) = 1
      /\ Word(p, n + 13) = r.type /\ Word(p, n + 15) = 1
    BY AskFacts
<1>2. n \in Nat /\ n > 1 /\ MaxQuestions \in Nat /\ MaxQuestions >= 1
    BY LenProperties, PacketAssumption DEF CleanName
<1> HIDE DEF p, n
<1>3. CASE q = NoQuery
    <2>1. ParseStep(p, q) = ParseHeader(p)
        BY <1>3 DEF ParseStep, NoQuery
    <2>2. /\ ~(Len(p) < HeaderBytes) /\ ~(p[3] >= 128) /\ ~((p[3] \div 8) % 16 # 0)
          /\ ~(Word(p, 4) > MaxQuestions) /\ Word(p, 4) # 0
        <3>1. (0 \div 8) % 16 = 0 /\ ~(0 >= 128)
            OBVIOUS
        <3>2. ~(Len(p) < HeaderBytes) /\ ~(1 > MaxQuestions)
            BY <1>1, <1>2 DEF HeaderBytes
        <3> QED BY <1>1, <3>1, <3>2
    <2> DEFINE q2 == [status |-> "parsing", left |-> 1, questions |-> <<>>,
                      name |-> Reading(HeaderBytes)]
    <2>3. ParseHeader(p) = q2
        BY <1>1, <2>2 DEF ParseHeader
    <2>4. Halfway(Reading(HeaderBytes), t)
        <3>1. HeaderBytes \in Nat /\ HeaderBytes - HeaderBytes = 0 /\ 0 \in 0..Len(t)
            BY <1>2 DEF HeaderBytes, n
        <3> QED BY <3>1 DEF Halfway, Reading
    <2>5. Asking(q2, t, r.type)
        BY <2>4 DEF Asking
    <2> QED BY <2>1, <2>3, <2>5 DEF p
<1>4. CASE /\ q.status = "parsing" /\ q.left = 1 /\ q.questions = <<>>
           /\ Halfway(q.name, t)
    <2> DEFINE d == DecodeStep(p, q.name)
    <2>1. q.name \in Name /\ q.name.status = "reading"
        BY <1>4 DEF QueryOK, NameOK, Halfway
    <2>2. Halfway(d, t) \/ Whole(d, t)
        BY <1>4, <2>1, HalfwayStep DEF p
    <2>3. ParseStep(p, q) = [q EXCEPT !.name = d]
        BY <1>4, <2>1 DEF ParseStep, QueryOK, Query
    <2> HIDE DEF d
    <2> DEFINE q2 == [q EXCEPT !.name = d]
    <2>4. /\ q2.status = q.status /\ q2.left = q.left /\ q2.questions = q.questions
          /\ q2.name = d
        BY DEF QueryOK, Query
    <2> HIDE DEF q2
    <2>5. Asking(q2, t, r.type)
        BY <1>4, <2>2, <2>4 DEF Asking
    <2> QED BY <2>3, <2>5 DEF q2, p
<1>5. CASE /\ q.status = "parsing" /\ q.left = 1 /\ q.questions = <<>>
           /\ Whole(q.name, t)
    <2> DEFINE next == q.name.next
               asked == [name |-> t, type |-> r.type]
    <2>1. /\ next = n + 13 /\ ~(next + 4 > Len(p)) /\ next + 2 = n + 15
          /\ q.name.text = t /\ q.name.status = "name"
        BY <1>1, <1>2, <1>5 DEF Whole, HeaderBytes, n
    <2>2. ParseStep(p, q) = ParseQuestion(p, q)
        BY <1>5, <2>1 DEF ParseStep
    <2>3. Word(p, next) = r.type /\ Word(p, next + 2) % 32768 = classIN
        <3>1. 1 % 32768 = 1
            OBVIOUS
        <3> QED BY <1>1, <2>1, <3>1 DEF classIN
    <2> DEFINE q2 == [status |-> "parsed", left |-> q.left - 1,
                      questions |-> Append(<<>>, asked), name |-> Reading(next + 4)]
    <2>4. ParseQuestion(p, q) = q2
        BY <1>5, <2>1, <2>3 DEF ParseQuestion
    <2>5. Append(<<>>, asked) = <<asked>>
        OBVIOUS
    <2>6. Asking(q2, t, r.type)
        BY <2>5 DEF Asking
    <2> QED BY <2>2, <2>4, <2>6 DEF p
<1> QED BY <1>3, <1>4, <1>5 DEF Asking

LEMMA AskInvNext ==
    ASSUME MdnsInv, AskInv, [MdnsNext]_mdnsVars
    PROVE  AskInv'
<1>1. at \in [Actor -> Place] /\ QueryOK(query)
    BY DEF MdnsInv, ControlOK, PlacesOK, ParserOK
<1> DEFINE Busy == at["run"] \in {"parse", "answer"}
<1>2. ASSUME at'["run"] \notin {"parse", "answer"}, query' = NoQuery PROVE AskInv'
    BY <1>2 DEF AskInv
<1>3. ASSUME UNCHANGED <<query, datagram>>, Busy' <=> Busy PROVE AskInv'
    BY <1>3 DEF AskInv
<1> USE DEF Actor, Go
<1>4. CASE announce
    <2>1. at'["run"] \notin {"parse", "answer"} /\ ~Busy /\ query' = query
        BY <1>1, <1>4 DEF announce
    <2> QED BY <1>2, <2>1 DEF AskInv
<1>5. CASE loop \/ refresh \/ readEnds
    <2>1. at'["run"] \notin {"parse", "answer"} /\ ~Busy /\ query' = query
        BY <1>1, <1>5 DEF loop, refresh, readEnds
    <2> QED BY <1>2, <2>1 DEF AskInv
<1>6. CASE read
    <2>1. query' = NoQuery /\ at'["run"] = "parse"
        BY <1>1, <1>6 DEF read, AskInv
    <2> QED BY <2>1 DEF AskInv, Asking
<1>7. CASE parse
    <2>1. /\ at["run"] = "parse" /\ UNCHANGED <<at, datagram>>
          /\ query.status \in {"none", "parsing"} /\ query' = ParseStep(datagram, query)
        BY <1>7 DEF parse
    <2>2. ASSUME NEW r \in Records, NEW t \in {r.name, Shouted(r.name)}, datagram = Ask(r, t)
          PROVE  Asking(query', t, r.type)
        <3>1. Asking(query, t, r.type)
            BY <2>1, <2>2 DEF AskInv
        <3>2. CleanName(t)
            BY PublishedFacts
        <3>3. Asking(ParseStep(Ask(r, t), query), t, r.type)
            BY <1>1, <2>1, <3>1, <3>2, AskingStep
        <3> QED BY <2>1, <2>2, <3>3
    <2> QED BY <2>1, <2>2 DEF AskInv
<1>8. CASE parsed
    <2>1. CASE Silent
        BY <1>1, <1>2, <1>8, <2>1 DEF parsed
    <2>2. CASE ~Silent
        BY <1>1, <1>3, <1>8, <2>2 DEF parsed
    <2> QED BY <2>1, <2>2
<1>9. CASE answer
    BY <1>1, <1>2, <1>9 DEF answer
<1>10. ASSUME NEW a \in Actor, swap(a) \/ goodbye(a) \/ shut(a) PROVE AskInv'
    <2>1. UNCHANGED <<query, datagram>>
        BY <1>10 DEF swap, goodbye, shut
    <2>2. Busy' <=> Busy
        BY <1>1, <1>10 DEF swap, goodbye, shut, Closed
    <2> QED BY <1>3, <2>1, <2>2
<1>11. CASE stop \/ exit \/ Pass \/ UNCHANGED mdnsVars
    <2>1. UNCHANGED <<query, datagram>> /\ at'["run"] = at["run"]
        BY <1>1, <1>11 DEF stop, exit, Pass, mdnsVars
    <2> QED BY <1>3, <2>1
<1> QED
    BY <1>4, <1>5, <1>6, <1>7, <1>8, <1>9, <1>10, <1>11 DEF MdnsNext, Run, Close

(* A host that asks for a record by its name, in any of the two spellings,  *)
(* is sent that record, for all names that can be encoded: encodeName,      *)
(* decodeName, strings.EqualFold and the limit on a response agree.         *)
THEOREM RecordsDiscoverable == MdnsSpec => []Discoverable
<1>1. MdnsInit => AskInv
    BY DEF MdnsInit, AskInv, Actor
<1>2. ASSUME MdnsInv, AskInv PROVE Discoverable
    <2> SUFFICES ASSUME at["run"] \in {"parse", "answer"},
                        query.status \in {"parsed", "refused"},
                        NEW r \in Records,
                        datagram \in {Ask(r, r.name), Ask(r, Shouted(r.name))}
                 PROVE  r \in Range(Response.answers)
        BY DEF Discoverable
    <2>1. PICK t \in {r.name, Shouted(r.name)} : datagram = Ask(r, t)
        OBVIOUS
    <2> DEFINE q == [name |-> t, type |-> r.type]
               questions == query.questions
    <2>2. questions = <<q>>
        <3>1. Asking(query, t, r.type)
            BY <1>2, <2>1 DEF AskInv
        <3> QED BY <3>1 DEF Asking, NoQuery
    <2>3. Asks(q, r)
        BY PublishedFacts DEF Asks
    <2> HIDE DEF q
    <2>4. r \in Range(answers(q))
        BY <2>3, CalledFor
    <2>5. questions \in Seq(AskedQuestion) /\ Len(questions) <= MaxQuestions
        <3>1. Len(questions) = 1 /\ MaxQuestions \in Nat /\ MaxQuestions >= 1
            BY <2>2, PacketAssumption
        <3>2. questions \in Seq(AskedQuestion)
            BY <1>2 DEF MdnsInv, ParserOK, QueryOK, Query
        <3> QED BY <3>1, <3>2
    <2>6. q \in Range(questions)
        BY <2>2 DEF Range
    <2>7. r \in Answers(questions)
        BY <2>4, <2>6 DEF Answers
    <2>8. Response = buildResponse(responseFor(questions))
        BY DEF Response
    <2> HIDE DEF questions
    <2>9. buildResponse(responseFor(questions)).answers = Found(questions)
        BY <2>5, ResponseFacts
    <2>10. Range(Found(questions)) = Answers(questions)
        BY <2>5, CollectedForFacts
    <2> QED BY <2>7, <2>8, <2>9, <2>10
<1> QED
    BY <1>1, <1>2, AskInvNext, MdnsInvInit, MdnsInvNext, PTL DEF MdnsSpec

-----------------------------------------------------------------------------
(***************************************************************************)
(* The parser comes to an end.  What is left to do for a datagram, as a    *)
(* number: a label makes the text longer, a pointer uses up a jump, and    *)
(* both are limited; the end of a name uses up a question.                 *)
(***************************************************************************)
NameWork(d) ==
    IF d.status = "reading"
      THEN 2 + (MaxNameJumps - d.jumps) + (MaxNameBytes - Len(d.text))
      ELSE 1

MostWork == 3 + MaxNameJumps + MaxNameBytes

ParseWork(q) ==
    IF q.status = "none" THEN (MaxQuestions + 1) * MostWork
    ELSE IF q.status = "parsing" THEN (q.left - 1) * MostWork + NameWork(q.name)
    ELSE 0

LEMMA NameWorkFacts ==
    ASSUME NEW d, NameOK(d)
    PROVE  NameWork(d) \in Nat /\ NameWork(d) >= 1 /\ NameWork(d) < MostWork
<1>1. /\ d.jumps \in 0..MaxNameJumps /\ Len(d.text) \in Nat
      /\ d.status # "name" => Len(d.text) <= MaxNameBytes
    BY LenProperties DEF NameOK, Name
<1>2. MaxNameBytes \in Nat /\ MaxNameJumps \in Nat
    BY PacketAssumption
<1>3. CASE d.status = "reading"
    <2>1. Len(d.text) <= MaxNameBytes
        BY <1>1, <1>3
    <2>2. NameWork(d) = 2 + (MaxNameJumps - d.jumps) + (MaxNameBytes - Len(d.text))
        BY <1>3 DEF NameWork
    <2> QED BY <1>1, <1>2, <2>1, <2>2 DEF MostWork
<1>4. CASE d.status # "reading"
    <2>1. NameWork(d) = 1
        BY <1>4 DEF NameWork
    <2> QED BY <1>2, <2>1 DEF MostWork
<1> QED BY <1>3, <1>4

(* A label makes the text longer.                                           *)
LEMMA JoinedLonger ==
    ASSUME NEW p \in Seq(Octet), NEW d \in Name, NEW length \in 1..63,
           d.cursor + 1 + length <= Len(p)
    PROVE  Len(Joined(p, d, length)) > Len(d.text)
<1> DEFINE lo == d.cursor + 2
           hi == d.cursor + 1 + length
           label == SubSeq(p, lo, hi)
           first == IF d.text = <<>> THEN <<>> ELSE Append(d.text, Dot)
<1>1. /\ d.text \in Seq(Octet) /\ d.cursor \in Nat /\ Len(p) \in Nat /\ Len(d.text) \in Nat
    BY LenProperties DEF Name
<1>2. label \in Seq(Octet) /\ Len(label) = length
    <2>1. lo \in Nat /\ hi \in Nat /\ 1 <= lo /\ lo <= hi /\ hi - lo + 1 = length
          /\ hi <= Len(p)
        <3>1. PICK c \in Nat : c = d.cursor
            BY <1>1
        <3>2. lo = c + 2 /\ hi = c + 1 + length /\ c + 1 + length <= Len(p)
            BY <3>1
        <3> HIDE DEF lo, hi
        <3>3. PICK m \in Nat : m = Len(p)
            BY <1>1
        <3>4. hi <= m
            BY <3>2, <3>3
        <3> QED BY <3>2, <3>3, <3>4
    <2> HIDE DEF lo, hi
    <2>2. \A i \in lo..hi : p[i] \in Octet
        <3>1. \A i \in lo..hi : i \in 1..Len(p)
            BY <1>1, <2>1
        <3> QED BY <3>1, ElementOfSeq
    <2>3. label \in Seq(Octet) /\ Len(label) = IF lo <= hi THEN hi - lo + 1 ELSE 0
        BY <2>1, <2>2, SubSeqProperties
    <2> QED BY <2>1, <2>3
<1>3. first \in Seq(Octet) /\ Len(first) \in Nat /\ Len(first) >= Len(d.text)
    <2>1. CASE d.text = <<>>
        BY <1>1, <2>1
    <2>2. CASE d.text # <<>>
        <3>1. Dot \in Octet
            BY DEF Dot, Octet
        <3>2. /\ Append(d.text, Dot) \in Seq(Octet)
              /\ Len(Append(d.text, Dot)) = Len(d.text) + 1
            BY <1>1, <3>1, AppendProperties
        <3>3. first = Append(d.text, Dot)
            BY <2>2
        <3> HIDE DEF first
        <3> QED BY <1>1, <3>2, <3>3
    <2> QED BY <2>1, <2>2
<1>4. Joined(p, d, length) = first \o label
    BY DEF Joined
<1> HIDE DEF first, label
<1>5. Len(first \o label) = Len(first) + Len(label)
    BY <1>2, <1>3, ConcatProperties
<1> QED BY <1>1, <1>2, <1>3, <1>4, <1>5

LEMMA DecodeWork ==
    ASSUME NEW p \in Seq(Octet), NEW d, NameOK(d), d.status = "reading"
    PROVE  NameWork(DecodeStep(p, d)) < NameWork(d)
<1>1. /\ d \in Name /\ d.cursor \in Nat /\ d.jumps \in 0..MaxNameJumps
      /\ d.text \in Seq(Octet) /\ Len(d.text) \in Nat /\ Len(d.text) <= MaxNameBytes
    BY LenProperties DEF NameOK, Name
<1>2. MaxNameBytes \in Nat /\ MaxNameJumps \in Nat /\ Len(p) \in Nat
    BY PacketAssumption, LenProperties
<1>3. NameWork(d) = 2 + (MaxNameJumps - d.jumps) + (MaxNameBytes - Len(d.text))
    BY DEF NameWork
<1>4. NameWork(d) \in Nat /\ 1 < NameWork(d)
    BY <1>1, <1>2, <1>3
<1>5. \A x \in Name : x.status # "reading" => NameWork(x) < NameWork(d)
    BY <1>4 DEF NameWork
<1>6. Malformed(d) \in Name /\ Malformed(d).status = "malformed"
    BY <1>1 DEF Malformed, Name
<1>7. NameWork(Malformed(d)) < NameWork(d)
    BY <1>5, <1>6
<1> DEFINE length == p[d.cursor + 1]
<1> HIDE DEF length
<1>8. NameWork(End(d)) < NameWork(d)
    <2>1. End(d).status = "name"
        BY <1>1 DEF End, Name
    <2>2. NameWork(End(d)) = 1
        BY <2>1 DEF NameWork
    <2> QED BY <1>4, <2>2
<1>9. ASSUME length \in 1..63 PROVE NameWork(Label(p, d, length)) < NameWork(d)
    <2>1. CASE \/ d.cursor + 1 + length > Len(p)
               \/ Len(Joined(p, d, length)) > MaxNameBytes
        BY <1>7, <2>1 DEF Label
    <2>2. CASE /\ ~(d.cursor + 1 + length > Len(p))
               /\ ~(Len(Joined(p, d, length)) > MaxNameBytes)
        <3> DEFINE text == Joined(p, d, length)
                   cursor == d.cursor + 1 + length
                   d2 == [d EXCEPT !.text = text, !.cursor = cursor]
        <3>1. d.cursor + 1 + length <= Len(p)
            BY <1>1, <1>2, <1>9, <2>2
        <3>2. Len(text) > Len(d.text)
            BY <1>1, <1>9, <3>1, JoinedLonger
        <3>3. length \in Nat
            BY <1>9
        <3>4. Len(text) \in Nat
            BY <1>1, <3>1, <3>3, JoinedFacts
        <3>5. Label(p, d, length) = d2
            BY <1>1, <2>2 DEF Label, Sliced, Name
        <3> HIDE DEF text, cursor
        <3>6. d2.status = "reading" /\ d2.jumps = d.jumps /\ d2.text = text
            BY <1>1 DEF Name
        <3> HIDE DEF d2
        <3>7. NameWork(d2) = 2 + (MaxNameJumps - d.jumps) + (MaxNameBytes - Len(text))
            BY <3>6 DEF NameWork
        <3>8. NameWork(d2) < NameWork(d)
            BY <1>1, <1>2, <1>3, <3>2, <3>4, <3>7
        <3> QED BY <3>5, <3>8
    <2> QED BY <2>1, <2>2
<1>10. NameWork(Jump(p, d)) < NameWork(d)
    <2>1. CASE \/ d.cursor + 2 > Len(p)
               \/ Pointer(p, d) >= d.cursor
               \/ d.jumps + 1 > MaxNameJumps
        BY <1>7, <2>1 DEF Jump
    <2>2. CASE /\ ~(d.cursor + 2 > Len(p))
               /\ ~(Pointer(p, d) >= d.cursor)
               /\ ~(d.jumps + 1 > MaxNameJumps)
        <3>1. Jump(p, d) = Follow(p, d)
            BY <2>2 DEF Jump, Sliced
        <3> DEFINE d2 == Follow(p, d)
        <3>2. d2.status = "reading" /\ d2.jumps = d.jumps + 1 /\ d2.text = d.text
            BY <1>1 DEF Follow, Name
        <3> HIDE DEF d2
        <3>3. NameWork(d2) = 2 + (MaxNameJumps - (d.jumps + 1)) + (MaxNameBytes - Len(d.text))
            BY <3>2 DEF NameWork
        <3>4. NameWork(d2) < NameWork(d)
            BY <1>1, <1>2, <1>3, <3>3
        <3> QED BY <3>1, <3>4 DEF d2
    <2> QED BY <2>1, <2>2
<1>11. CASE d.cursor >= Len(p)
    BY <1>7, <1>11 DEF DecodeStep
<1>12. CASE ~(d.cursor >= Len(p))
    <2>1. DecodeStep(p, d) =
            CASE length = 0          -> End(d)
              [] length \in 1..63    -> Label(p, d, length)
              [] length \in 192..255 -> Jump(p, d)
              [] OTHER               -> Malformed(d)
        BY <1>12 DEF DecodeStep, length
    <2>2. CASE length = 0
        <3>1. DecodeStep(p, d) = End(d)
            BY <2>1, <2>2
        <3> QED BY <1>8, <3>1
    <2>3. CASE length \in 1..63
        <3>1. length # 0 /\ length \notin 192..255
            BY <2>3
        <3>2. DecodeStep(p, d) = Label(p, d, length)
            BY <2>1, <2>3, <3>1, Zenon
        <3> QED BY <1>9, <2>3, <3>2
    <2>4. CASE length \in 192..255
        <3>1. length # 0 /\ length \notin 1..63
            BY <2>4
        <3>2. DecodeStep(p, d) = Jump(p, d)
            BY <2>1, <2>4, <3>1, Zenon
        <3> QED BY <1>10, <3>2
    <2>5. CASE length # 0 /\ length \notin 1..63 /\ length \notin 192..255
        <3>1. DecodeStep(p, d) = Malformed(d)
            BY <2>1, <2>5, Zenon
        <3> QED BY <1>7, <3>1
    <2> QED BY <2>2, <2>3, <2>4, <2>5
<1> QED BY <1>11, <1>12

LEMMA ParseWorkFacts ==
    ASSUME NEW q, QueryOK(q)
    PROVE  ParseWork(q) \in Nat /\ ParseWork(q) <= (MaxQuestions + 1) * MostWork
<1>1. /\ q.left \in 0..MaxQuestions /\ (q.status = "parsing" => q.left >= 1)
      /\ NameOK(q.name) /\ MaxQuestions \in Nat /\ MostWork \in Nat
    BY PacketAssumption DEF QueryOK, Query, MostWork
<1>2. NameWork(q.name) \in Nat /\ NameWork(q.name) < MostWork
    BY <1>1, NameWorkFacts
<1> HIDE DEF MostWork
<1>3. \A i, j \in Nat : i <= j => i * MostWork <= j * MostWork /\ i * MostWork \in Nat
    BY <1>1
<1>4. (MaxQuestions + 1) * MostWork = MaxQuestions * MostWork + MostWork
    BY <1>1
<1>5. (MaxQuestions + 1) * MostWork \in Nat /\ MaxQuestions * MostWork \in Nat
    BY <1>1, <1>3
<1>6. CASE q.status = "parsing"
    <2>1. q.left - 1 \in Nat /\ q.left - 1 <= MaxQuestions
        BY <1>1, <1>6
    <2>2. (q.left - 1) * MostWork <= MaxQuestions * MostWork /\ (q.left - 1) * MostWork \in Nat
        BY <1>1, <1>3, <2>1
    <2>3. ParseWork(q) = (q.left - 1) * MostWork + NameWork(q.name)
        BY <1>6 DEF ParseWork
    <2> QED BY <1>1, <1>2, <1>4, <1>5, <2>2, <2>3
<1>7. CASE q.status # "parsing"
    <2>1. ParseWork(q) \in {0, (MaxQuestions + 1) * MostWork}
        BY <1>7 DEF ParseWork
    <2> QED BY <1>5, <2>1
<1> QED BY <1>6, <1>7

LEMMA ParseStepWork ==
    ASSUME NEW p \in Seq(Octet), NEW q, QueryOK(q), q.status \in {"none", "parsing"}
    PROVE  ParseWork(ParseStep(p, q)) < ParseWork(q)
<1> DEFINE q2 == ParseStep(p, q)
           K == MostWork
<1>1. /\ QueryOK(q2) /\ q2.left \in 0..MaxQuestions /\ NameOK(q2.name)
      /\ q2.status = "parsing" => q2.left >= 1
    BY ParseFacts DEF QueryOK, Query
<1>2. /\ q.left \in 0..MaxQuestions /\ NameOK(q.name) /\ (q.status = "parsing" => q.left >= 1)
      /\ q \in Query /\ q.name \in Name
    BY DEF QueryOK, Query
<1>3. /\ MaxQuestions \in Nat /\ K \in Nat /\ K >= 1
    BY PacketAssumption DEF MostWork
<1>4. /\ NameWork(q.name) \in Nat /\ NameWork(q.name) >= 1
      /\ NameWork(q2.name) \in Nat /\ NameWork(q2.name) < K
    BY <1>1, <1>2, NameWorkFacts
<1> HIDE DEF K
<1>5. /\ \A i, j \in Nat : i <= j => i * K <= j * K /\ i * K \in Nat
      /\ \A i \in Nat : (i + 1) * K = i * K + K /\ i * K \in Nat
    BY <1>3
<1>6. q.status = "none" => ParseWork(q) = (MaxQuestions + 1) * K
    BY DEF ParseWork, K
<1>7. q.status = "parsing" =>
          /\ ParseWork(q) = (q.left - 1) * K + NameWork(q.name)
          /\ q.left - 1 \in Nat /\ (q.left - 1) * K \in Nat
    <2>1. ASSUME q.status = "parsing" PROVE q.left - 1 \in Nat
        BY <1>2, <2>1, <1>3
    <2>2. ASSUME q.status = "parsing"
          PROVE  ParseWork(q) = (q.left - 1) * K + NameWork(q.name)
        BY <2>2 DEF ParseWork, K
    <2> QED BY <1>5, <2>1, <2>2
<1>8. ParseWork(q) \in Nat /\ ParseWork(q) >= 1
    <2>1. CASE q.status = "none"
        <3>1. MaxQuestions * K \in Nat /\ (MaxQuestions + 1) * K = MaxQuestions * K + K
            BY <1>3, <1>5
        <3> QED BY <1>3, <1>6, <2>1, <3>1
    <2>2. CASE q.status = "parsing"
        BY <1>4, <1>7, <2>2
    <2> QED BY <2>1, <2>2
<1>9. CASE q2.status \notin {"none", "parsing"}
    <2>1. ParseWork(q2) = 0
        BY <1>9 DEF ParseWork
    <2> QED BY <1>8, <2>1
<1>10. CASE q2.status = "parsing"
    <2> DEFINE w == NameWork(q2.name)
    <2>1. ParseWork(q2) = (q2.left - 1) * K + w
        BY <1>10 DEF ParseWork, K
    <2>2. q2.left - 1 \in Nat /\ q2.left - 1 <= MaxQuestions /\ (q2.left - 1) * K \in Nat
        BY <1>1, <1>3, <1>5, <1>10
    <2>3. CASE q.status = "none"
        <3>1. (q2.left - 1) * K <= MaxQuestions * K /\ MaxQuestions * K \in Nat
            BY <1>3, <1>5, <2>2
        <3>2. (MaxQuestions + 1) * K = MaxQuestions * K + K
            BY <1>3, <1>5
        <3> QED BY <1>3, <1>4, <1>6, <2>1, <2>2, <2>3, <3>1, <3>2
    <2>4. CASE q.status = "parsing" /\ q.name.status = "reading"
        <3>1. q2 = [q EXCEPT !.name = DecodeStep(p, q.name)]
            BY <1>2, <2>4 DEF ParseStep, Query
        <3>2. q2.left = q.left /\ q2.name = DecodeStep(p, q.name)
            BY <1>2, <3>1 DEF Query
        <3>3. w < NameWork(q.name)
            BY <1>2, <2>4, <3>2, DecodeWork
        <3> HIDE DEF w, q2
        <3>4. w \in Nat
            BY <1>4 DEF w
        <3>5. PICK x \in Nat : x = (q.left - 1) * K
            BY <1>7, <2>4
        <3>6. ParseWork(q2) = x + w /\ ParseWork(q) = x + NameWork(q.name)
            BY <1>7, <2>1, <2>4, <3>2, <3>5
        <3>7. ParseWork(q2) < ParseWork(q)
            BY <1>4, <3>3, <3>4, <3>6
        <3> QED BY <3>7 DEF q2
    <2>5. CASE q.status = "parsing" /\ q.name.status = "malformed"
        <3>1. q2 = Refused(q)
            BY <2>5 DEF ParseStep
        <3>2. q2.status = "refused"
            BY <1>2, <3>1 DEF Refused, Query
        <3> QED BY <1>10, <3>2
    <2>6. CASE q.status = "parsing" /\ q.name.status = "name"
        <3>1. q2 = ParseQuestion(p, q)
            BY <2>6 DEF ParseStep
        <3>2. q2.status = "refused" \/ q2.left = q.left - 1
            <4>1. CASE q.name.next + 4 > Len(p)
                <5>1. q2 = Refused(q)
                    BY <3>1, <4>1 DEF ParseQuestion
                <5> QED BY <1>2, <5>1 DEF Refused, Query
            <4>2. CASE ~(q.name.next + 4 > Len(p))
                BY <3>1, <4>2 DEF ParseQuestion
            <4> QED BY <4>1, <4>2
        <3>3. q2.left = q.left - 1
            BY <1>10, <3>2
        <3> HIDE DEF w, q2
        <3>4. /\ q2.left - 1 \in Nat /\ (q2.left - 1) + 1 = q.left - 1
            BY <1>2, <2>2, <3>3
        <3>5. (q.left - 1) * K = (q2.left - 1) * K + K
            BY <1>5, <3>4
        <3>6. w \in Nat /\ w < K
            BY <1>4 DEF w
        <3>7. PICK x \in Nat : x = (q2.left - 1) * K
            BY <2>2
        <3>8. ParseWork(q2) = x + w /\ ParseWork(q) = x + K + NameWork(q.name)
            BY <1>7, <2>1, <2>6, <3>5, <3>7
        <3>9. \A v \in Nat : x + w < x + K + v
            BY <1>3, <3>6
        <3>10. ParseWork(q2) < ParseWork(q)
            BY <1>4, <3>8, <3>9
        <3> QED BY <3>10 DEF q2
    <2> QED BY <1>2, <2>3, <2>4, <2>5, <2>6 DEF Name
<1>11. q2.status # "none"
    <2>1. CASE q.status = "none"
        <3>1. q2 = ParseHeader(p)
            BY <2>1 DEF ParseStep
        <3> QED BY <3>1 DEF ParseHeader, Refused, NoQuery
    <2>2. CASE q.status = "parsing" /\ q.name.status = "reading"
        <3>1. q2 = [q EXCEPT !.name = DecodeStep(p, q.name)]
            BY <1>2, <2>2 DEF ParseStep, Query
        <3> QED BY <1>2, <2>2, <3>1 DEF Query
    <2>3. CASE q.status = "parsing" /\ q.name.status = "malformed"
        <3>1. q2 = Refused(q)
            BY <2>3 DEF ParseStep
        <3> QED BY <1>2, <3>1 DEF Refused, Query
    <2>4. CASE q.status = "parsing" /\ q.name.status = "name"
        <3>1. q2 = ParseQuestion(p, q)
            BY <2>4 DEF ParseStep
        <3>2. CASE q.name.next + 4 > Len(p)
            <4>1. q2 = Refused(q)
                BY <3>1, <3>2 DEF ParseQuestion
            <4> QED BY <1>2, <4>1 DEF Refused, Query
        <3>3. CASE ~(q.name.next + 4 > Len(p))
            BY <3>1, <3>3 DEF ParseQuestion
        <3> QED BY <3>2, <3>3
    <2> QED BY <1>2, <2>1, <2>2, <2>3, <2>4 DEF Name
<1> QED BY <1>9, <1>10, <1>11

(* What is left to do never grows past its limit, and each step of the      *)
(* parser leaves less of it: no datagram takes more steps than the limits   *)
(* on questions, labels and pointers allow, wherever its pointers lead.     *)
ParseBounded ==
    [][parse => /\ ParseWork(query') \in Nat
                /\ ParseWork(query') < ParseWork(query)
                /\ ParseWork(query) <= (MaxQuestions + 1) * MostWork]_mdnsVars

(* No datagram makes the decoder run for ever: the part of ParseEnds that   *)
(* does not depend on when Run is scheduled.                                *)
THEOREM ParserTerminates == MdnsSpec => ParseBounded
<1>1. ASSUME MdnsInv, parse
      PROVE  /\ ParseWork(query') \in Nat /\ ParseWork(query') < ParseWork(query)
             /\ ParseWork(query) <= (MaxQuestions + 1) * MostWork
    <2>1. /\ QueryOK(query) /\ query.status \in {"none", "parsing"}
          /\ query' = ParseStep(datagram, query)
        BY <1>1 DEF MdnsInv, ParserOK, parse
    <2>2. datagram \in Seq(Octet)
        BY <1>1, ResponderAssumption, EmptySeq DEF MdnsInv, ParserOK
    <2>3. QueryOK(query')
        BY <2>1, <2>2, ParseFacts
    <2>4. ParseWork(query') < ParseWork(query)
        BY <2>1, <2>2, ParseStepWork
    <2> QED BY <2>1, <2>3, <2>4, ParseWorkFacts
<1>2. MdnsInv /\ [MdnsNext]_mdnsVars =>
          [parse => /\ ParseWork(query') \in Nat
                    /\ ParseWork(query') < ParseWork(query)
                    /\ ParseWork(query) <= (MaxQuestions + 1) * MostWork]_mdnsVars
    BY <1>1
<1> QED
    BY <1>2, MdnsInvInit, MdnsInvNext, PTL DEF MdnsSpec, ParseBounded
=============================================================================
