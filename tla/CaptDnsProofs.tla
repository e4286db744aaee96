--------------------------- MODULE CaptDnsProofs ---------------------------
(* The captive DNS task, for any buffer, backlog and pool and any queries    *)
(* whose names labelToStr reads as they are meant or does not come to the    *)
(* end of: each query is answered once and in order, each question with its  *)
(* own name and type, in a reply that fits its buffer if that has room for   *)
(* the worst one, and from a packet of which every field is found.           *)
EXTENDS DnsPacketProofs

\* What labelToStr cannot read it takes for something else, and the properties below
\* then fail: the hypothesis of every theorem here.
AllReadable == \A qs \in Queries : Readable(qs)

\* What the replies sent were asked.
Replied == [i \in DOMAIN outbox |-> outbox[i].questions]

Serving == Busy /\ ToAnswer(packet.questions)

\* The task is where it should be in the packet.
ReadInv ==
  Busy =>
    /\ Len(Packet(packet.questions)) <= DnsLen
    /\ nextQ \in 1..(Len(packet.questions) + 1)
    /\ \A k \in 1..(nextQ - 1) : Legible(packet.questions[k])
    /\ dnsPc \in {"question", "overrun"} => at = Len(Octets(packet.questions, nextQ - 1))
    /\ dnsPc \in {"name", "answer"} => nextQ \in 1..Len(packet.questions)
    /\ dnsPc = "name" => Reading(packet.questions, nextQ, labelPtr, endPtr, res)
    /\ dnsPc = "answer" => ReadName(packet.questions, nextQ, at, res)

\* The reply has grown by no more than its worst case has over the packet.
Room(qs, k) == WorstReply(qs, k) - Len(Octets(qs, k))

RoomInv ==
  Busy => rend - Len(Packet(packet.questions)) <= Room(packet.questions, nextQ - 1)

\* The records answer the first k questions.
Known(qs, k) == {j \in 1..k : qs[j].type \in Answered}
Rank(qs, k, j) == Cardinality({i \in Known(qs, k) : i <= j})

RecordFor(qs, j, a) ==
  /\ a.name = LabelOctets(NameOf(qs, j)) \o <<0>>
  /\ a.type = qs[j].type
  /\ a.type = QTYPE_A => a.ttl = 0

Answering(qs, k, records) ==
  /\ Len(records) = Cardinality(Known(qs, k))
  /\ \A j \in Known(qs, k) : RecordFor(qs, j, records[Rank(qs, k, j)])

AnswerInv ==
  /\ Busy => Answering(packet.questions, nextQ - 1, answers)
  /\ \A i \in DOMAIN outbox :
       Answering(outbox[i].questions, Len(outbox[i].questions), outbox[i].answers)

ServingInv ==
  taken = IF Serving THEN Append(Replied, packet.questions) ELSE Replied

CountInv == Len(taken) + Len(inbox) <= arrived

DnsInv == DnsTypeOK /\ ReadInv /\ RoomInv /\ AnswerInv /\ ServingInv /\ CountInv

-----------------------------------------------------------------------------
(* Datagrams, and the checks on them. *)

LEMMA DatagramTypes ==
  ASSUME NEW d \in Datagram
  PROVE  d.questions \in Queries /\ WellFormed(d.questions)
         /\ Len(d.questions) \in Nat /\ DOMAIN d.questions = 1..Len(d.questions)
<1>1. d.questions \in Queries
  BY DEF Datagram
<1>2. WellFormed(d.questions)
  BY <1>1, DnsAssumption
<1> QED BY <1>1, <1>2, QuestionTypes

\* A failed recvfrom never passes the checks.
LEMMA FailureRejected ==
  ASSUME NEW d PROVE ~Sane(FailureLength, d)
BY DnsAssumption DEF Sane, FailureLength, FarOffset

LEMMA BufferSize == DnsLen \in Nat /\ HeaderLen <= DnsLen /\ DnsLen < FarOffset
BY DnsAssumption DEF HeaderLen, FarOffset

\* What passes the checks is as long as its questions make it.
LEMMA SaneLength ==
  ASSUME NEW d, Sane(LengthOf(d), d)
  PROVE  LengthOf(d) = Len(Packet(d.questions)) /\ LengthOf(d) <= DnsLen
<1>1. LengthOf(d) <= DnsLen /\ LengthOf(d) >= HeaderLen
  BY DEF Sane
<1>2. d.kind # "short"
  BY <1>1 DEF LengthOf, HeaderLen
<1> QED BY <1>1, <1>2 DEF LengthOf

-----------------------------------------------------------------------------
(* Names and records. *)

LEMMA LabelsAreOctets ==
  ASSUME NEW parts \in Seq(Labels) PROVE parts \in Seq(Seq(0..255))
<1>1. Labels \subseteq Seq(0..255)
  BY LabelTypes
<1> QED BY <1>1, SeqMonotonic

LEMMA ReadingTypes ==
  ASSUME NEW qs, WellFormed(qs), Readable(qs), NEW k \in 1..Len(qs), NEW p, NEW end, NEW parts,
         Reading(qs, k, p, end, parts) \/ ReadName(qs, k, p, parts)
  PROVE  parts \in Seq(Labels)
<1>1. CASE ReadName(qs, k, p, parts)
  BY <1>1, NameOfDef DEF ReadName
<1>2. CASE Reading(qs, k, p, end, parts)
  <2>1. PICK j \in 1..k : \E i \in 0..Len(qs[j].labels) : ReadingAt(qs, k, j, i, p, end, parts)
    BY <1>2 DEF Reading
  <2>2. PICK i \in 0..Len(qs[j].labels) : ReadingAt(qs, k, j, i, p, end, parts)
    BY <2>1
  <2>3. j \in 1..Len(qs)
    BY QuestionTypes
  <2>4. qs[j].labels \in Seq(Labels) /\ qs[k].labels \in Seq(Labels)
    BY <2>3, QuestionTypes
  <2>5. UpTo(qs[j].labels, i) \in Seq(Labels)
    BY <2>4, UpToGrows
  <2>6. qs[k].labels \o UpTo(qs[j].labels, i) \in Seq(Labels)
    BY <2>4, <2>5, ConcatProperties
  <2> QED BY <2>2, <2>5, <2>6 DEF ReadingAt
<1> QED BY <1>1, <1>2

\* A name that has been read is written as the labels it has.
LEMMA NameWritten ==
  ASSUME NEW qs, WellFormed(qs), Readable(qs), NEW k \in 1..Len(qs),
         \A m \in 1..(k - 1) : Legible(qs[m]), NEW p, NEW parts, ReadName(qs, k, p, parts)
  PROVE  /\ strToLabel(parts) = LabelOctets(NameOf(qs, k)) \o <<0>>
         /\ strToLabel(parts) \in Seq(0..255)
         /\ Len(strToLabel(parts)) = NameLen(NameOf(qs, k))
         /\ \A m \in 1..k : Legible(qs[m])
<1>1. parts = NameOf(qs, k) /\ Legible(qs[k])
  BY DEF ReadName
<1>2. k \in Nat
  BY QuestionTypes
<1>3. \A m \in 1..k : m \in 1..(k - 1) \/ m = k
  BY <1>2
<1>4. \A m \in 1..k : Legible(qs[m])
  BY <1>1, <1>3
<1>5. NameOf(qs, k) # <<>> /\ NameOf(qs, k) \in Seq(Labels)
      /\ NameLen(NameOf(qs, k)) = Len(LabelOctets(NameOf(qs, k)) \o <<0>>)
  BY <1>4, NameLength, NameOfDef
<1>6. strToLabel(parts) = LabelOctets(NameOf(qs, k)) \o <<0>>
  BY <1>1, <1>5 DEF strToLabel
<1>7. LabelOctets(NameOf(qs, k)) \in Seq(0..255) /\ <<0>> \in Seq(0..255)
  BY <1>5, LabelOctetsType
<1>8. strToLabel(parts) \in Seq(0..255)
  BY <1>6, <1>7, ConcatProperties
<1> QED BY <1>4, <1>5, <1>6, <1>8

LEMMA KnownFinite ==
  ASSUME NEW qs, NEW k \in Nat
  PROVE  /\ IsFiniteSet(Known(qs, k)) /\ Cardinality(Known(qs, k)) \in Nat
         /\ \A j \in Known(qs, k) :
              Rank(qs, k, j) \in 1..Cardinality(Known(qs, k))
<1>1. IsFiniteSet(1..k) /\ Known(qs, k) \subseteq 1..k
  BY FS_Interval DEF Known
<1>2. IsFiniteSet(Known(qs, k))
  BY <1>1, FS_Subset
<1>3. Cardinality(Known(qs, k)) \in Nat
  BY <1>2, FS_CardinalityType
<1>4. ASSUME NEW j \in Known(qs, k) PROVE Rank(qs, k, j) \in 1..Cardinality(Known(qs, k))
  <2> DEFINE S == {i \in Known(qs, k) : i <= j}
  <2>1. S \in SUBSET Known(qs, k) /\ j \in S
    BY <1>1
  <2> HIDE DEF S
  <2>2. IsFiniteSet(S) /\ Cardinality(S) <= Cardinality(Known(qs, k)) /\ Cardinality(S) \in Nat
    BY <1>2, <2>1, FS_Subset, FS_CardinalityType
  <2>3. Cardinality(S) # 0
    BY <2>1, <2>2, FS_EmptySet
  <2>4. Cardinality(S) \in 1..Cardinality(Known(qs, k))
    BY <1>3, <2>2, <2>3
  <2> QED BY <2>4 DEF S, Rank
<1> QED BY <1>2, <1>3, <1>4

\* A question of another type needs no record.
LEMMA AnsweringSkips ==
  ASSUME NEW qs, NEW k \in Nat \ {0}, NEW records, Answering(qs, k - 1, records),
         qs[k].type \notin Answered
  PROVE  Answering(qs, k, records)
<1>1. Known(qs, k) = Known(qs, k - 1)
  <2>1. \A j : j \in 1..k <=> j \in 1..(k - 1) \/ j = k
    OBVIOUS
  <2> QED BY <2>1 DEF Known
<1>2. \A j : Rank(qs, k, j) = Rank(qs, k - 1, j)
  BY <1>1 DEF Rank
<1> QED BY <1>1, <1>2 DEF Answering

\* One of a known type needs a record of its own.
LEMMA AnsweringGrows ==
  ASSUME NEW qs, NEW k \in Nat \ {0}, NEW S, NEW records \in Seq(S), NEW a \in S,
         Answering(qs, k - 1, records), qs[k].type \in Answered, RecordFor(qs, k, a)
  PROVE  Answering(qs, k, Append(records, a))
<1> DEFINE before == Known(qs, k - 1)
           new    == Append(records, a)
           n      == Len(records)
<1>1. k - 1 \in Nat /\ \A j : j \in 1..k <=> j \in 1..(k - 1) \/ j = k
  OBVIOUS
<1>2. Known(qs, k) = before \cup {k} /\ k \notin before /\ \A j \in before : j \in Nat /\ j < k
  <2>1. k \notin 1..(k - 1) /\ \A j \in 1..(k - 1) : j \in Nat /\ j < k
    OBVIOUS
  <2> QED BY <1>1, <2>1 DEF Known
<1>3. /\ IsFiniteSet(before) /\ n = Cardinality(before) /\ n \in Nat
      /\ \A j \in before : Rank(qs, k - 1, j) \in 1..n
  BY <1>1, KnownFinite DEF Answering
<1> HIDE DEF before, n
<1>4. Cardinality(Known(qs, k)) = n + 1
  BY <1>2, <1>3, FS_AddElement
<1>5. Len(new) = n + 1 /\ new[n + 1] = a /\ \A x \in 1..n : new[x] = records[x]
  BY AppendProperties DEF n
<1>6. Rank(qs, k, k) = n + 1
  <2>1. {i \in Known(qs, k) : i <= k} = Known(qs, k)
    BY <1>2
  <2> QED BY <1>4, <2>1 DEF Rank
<1>7. ASSUME NEW j \in before PROVE Rank(qs, k, j) = Rank(qs, k - 1, j)
  <2>1. {i \in Known(qs, k) : i <= j} = {i \in Known(qs, k - 1) : i <= j}
    BY <1>2 DEF before
  <2> QED BY <2>1 DEF Rank
<1> HIDE DEF new
<1>8. ASSUME NEW j \in Known(qs, k)
      PROVE  RecordFor(qs, j, new[Rank(qs, k, j)])
  <2>1. CASE j = k
    BY <1>5, <1>6, <2>1
  <2>2. CASE j \in before
    <3>1. new[Rank(qs, k, j)] = records[Rank(qs, k - 1, j)]
      BY <1>3, <1>5, <1>7, <2>2
    <3> QED BY <2>2, <3>1 DEF Answering, before
  <2> QED BY <1>2, <2>1, <2>2
<1> QED BY <1>4, <1>5, <1>8 DEF Answering, new
-----------------------------------------------------------------------------
(* The invariant holds at the start, and every action preserves it. *)

LEMMA DnsInitInv == DnsInit => DnsInv
<1> SUFFICES ASSUME DnsInit PROVE DnsInv
  OBVIOUS
<1>1. /\ dnsPc = "socket" /\ free \in 0..PoolSize /\ inbox = <<>> /\ arrived = 0
      /\ packet \in Datagram /\ nextQ = 1 /\ at = HeaderLen /\ rend = HeaderLen
      /\ labelPtr = 0 /\ endPtr = 0 /\ res = <<>>
      /\ answers = <<>> /\ taken = <<>> /\ outbox = <<>>
  BY DEF DnsInit
<1>2. ~Busy /\ ~Serving
  BY <1>1 DEF Busy, Serving
<1>3. DnsTypeOK
  <2>1. HeaderLen \in Nat /\ Backlog \in Nat /\ MaxDatagrams \in Nat
    BY DnsAssumption DEF HeaderLen
  <2> QED BY <1>1, <2>1 DEF DnsTypeOK
<1>4. ServingInv /\ CountInv
  BY <1>1, <1>2 DEF ServingInv, Replied, CountInv
<1>5. RoomInv
  BY <1>1, <1>2, BufferSize DEF RoomInv
<1>6. AnswerInv /\ ReadInv
  BY <1>1, <1>2 DEF AnswerInv, ReadInv
<1> QED BY <1>3, <1>4, <1>5, <1>6 DEF DnsInv

\* What the later proofs use of the types.
LEMMA Types ==
  ASSUME DnsInv
  PROVE  /\ inbox \in Seq(Datagram) /\ Len(inbox) \in Nat /\ Len(inbox) <= Backlog
         /\ packet \in Datagram /\ taken \in Seq(Queries) /\ Len(taken) \in Nat
         /\ arrived \in Nat /\ Backlog \in Nat /\ MaxDatagrams \in Nat
         /\ outbox \in Seq(Reply)
         /\ nextQ \in Nat \ {0} /\ rend \in Nat /\ answers \in Seq(Record)
BY LenProperties, DnsAssumption DEF DnsInv, DnsTypeOK

\* Steps outside a query, and those of the others.
LEMMA OutsideSteps ==
  DnsInv /\ (Others \/ CreateSocket \/ Bind \/ UNCHANGED dnsVars) => DnsInv'
<1> SUFFICES ASSUME DnsInv, Others \/ CreateSocket \/ Bind \/ UNCHANGED dnsVars PROVE DnsInv'
  OBVIOUS
<1>1. /\ UNCHANGED <<inbox, arrived, packet, nextQ, at, rend, answers, taken, outbox>>
      /\ UNCHANGED <<labelPtr, endPtr, res>>
      /\ dnsPc' = dnsPc \/ (~Busy /\ dnsPc' \in {"bind", "recv"})
      /\ free' \in 0..PoolSize
  <2>1. free \in 0..PoolSize /\ PoolSize \in Nat
    BY DnsAssumption DEF DnsInv, DnsTypeOK
  <2>2. CASE Others
    BY <2>2 DEF Others, nameVars
  <2>3. CASE CreateSocket
    BY <2>1, <2>3 DEF CreateSocket, nameVars, Busy
  <2>4. CASE Bind
    BY <2>1, <2>4 DEF Bind, nameVars, Busy
  <2>5. CASE UNCHANGED dnsVars
    BY <2>1, <2>5 DEF dnsVars, nameVars
  <2> QED BY <2>2, <2>3, <2>4, <2>5
<1>2. dnsPc' = dnsPc \/ (~Busy /\ ~Busy')
  BY <1>1 DEF Busy
<1>3. DnsTypeOK'
  BY <1>1 DEF DnsInv, DnsTypeOK
<1>4. ReadInv' /\ RoomInv' /\ AnswerInv'
  BY <1>1, <1>2 DEF DnsInv, ReadInv, RoomInv, AnswerInv, Busy
<1>5. ServingInv' /\ CountInv'
  BY <1>1, <1>2 DEF DnsInv, ServingInv, CountInv, Serving, Replied, Busy
<1> QED BY <1>3, <1>4, <1>5 DEF DnsInv

LEMMA ArriveStep ==
  ASSUME DnsInv, NEW d \in Datagram, Arrive(d) PROVE DnsInv'
<1>1. /\ UNCHANGED <<dnsPc, free, packet, nextQ, at, rend, answers, taken, outbox>>
      /\ UNCHANGED <<labelPtr, endPtr, res>>
      /\ arrived < MaxDatagrams /\ arrived' = arrived + 1
      /\ inbox' = inbox \/ (Len(inbox) # Backlog /\ inbox' = Append(inbox, d))
  BY DEF Arrive, nameVars
<1>2. inbox' \in Seq(Datagram) /\ Len(inbox') <= Backlog /\ Len(inbox') <= Len(inbox) + 1
      /\ Len(inbox') \in Nat
  <2>1. Append(inbox, d) \in Seq(Datagram) /\ Len(Append(inbox, d)) = Len(inbox) + 1
    BY Types, AppendProperties
  <2>2. inbox \in Seq(Datagram) /\ Len(inbox) \in Nat /\ Len(inbox) <= Backlog /\ Backlog \in Nat
    BY Types
  <2>3. CASE inbox' = inbox
    BY <2>2, <2>3
  <2>4. CASE Len(inbox) # Backlog /\ inbox' = Append(inbox, d)
    <3>1. inbox' \in Seq(Datagram) /\ Len(inbox') = Len(inbox) + 1
      BY ONLY <2>1, <2>4
    <3> QED BY ONLY <2>2, <2>4, <3>1
  <2> QED BY <1>1, <2>3, <2>4
<1>3. arrived' \in 0..MaxDatagrams
  BY <1>1, Types DEF DnsInv, DnsTypeOK
<1>4. DnsTypeOK'
  BY <1>1, <1>2, <1>3 DEF DnsInv, DnsTypeOK
<1>5. ReadInv' /\ RoomInv' /\ AnswerInv'
  BY <1>1 DEF DnsInv, ReadInv, RoomInv, AnswerInv, Busy
<1>6. ServingInv'
  BY <1>1 DEF DnsInv, ServingInv, Serving, Replied, Busy
<1>7. CountInv'
  BY <1>1, <1>2, Types DEF DnsInv, CountInv
<1> QED BY <1>4, <1>5, <1>6, <1>7 DEF DnsInv

\* A failed recvfrom changes nothing.
LEMMA ReceiveFailsStep == DnsInv /\ ReceiveFails => DnsInv'
<1> SUFFICES ASSUME DnsInv, ReceiveFails PROVE DnsInv'
  OBVIOUS
<1>1. UNCHANGED dnsVars
  BY FailureRejected DEF ReceiveFails, Serve, dnsVars, nameVars
<1> QED BY <1>1, OutsideSteps

LEMMA ReceiveStep == AllReadable /\ DnsInv /\ Receive => DnsInv'
<1> SUFFICES ASSUME AllReadable, DnsInv, Receive PROVE DnsInv'
  OBVIOUS
<1> DEFINE d  == Head(inbox)
           qs == d.questions
<1>1. /\ dnsPc = "recv" /\ inbox # <<>> /\ packet' = d /\ inbox' = Tail(inbox)
      /\ Serve(LengthOf(d), d)
      /\ UNCHANGED <<free, arrived, outbox>> /\ UNCHANGED <<labelPtr, endPtr, res>>
  BY DEF Receive, nameVars
<1>2. d \in Datagram /\ Tail(inbox) \in Seq(Datagram) /\ Len(Tail(inbox)) = Len(inbox) - 1
  BY <1>1, Types, HeadTailProperties
<1> HIDE DEF d
<1>3. qs \in Queries /\ WellFormed(qs) /\ Readable(qs) /\ Len(qs) \in Nat
  BY <1>2, DatagramTypes DEF AllReadable
<1>4. ~Busy /\ ~Serving /\ Replied' = Replied
  BY <1>1 DEF Busy, Serving, Replied
<1>5. taken = Replied
  BY <1>4 DEF DnsInv, ServingInv
<1>6. CASE ~Sane(LengthOf(d), d)
  <2>1. UNCHANGED <<dnsPc, nextQ, at, rend, answers, taken>>
    BY <1>1, <1>6 DEF Serve
  <2>2. ~Busy' /\ ~Serving'
    BY <1>4, <2>1 DEF Busy, Serving
  <2>3. DnsTypeOK'
    BY <1>1, <1>2, <2>1, Types DEF DnsInv, DnsTypeOK
  <2>4. ReadInv' /\ RoomInv' /\ AnswerInv' /\ ServingInv'
    BY <1>1, <1>4, <1>5, <2>1, <2>2 DEF DnsInv, ReadInv, RoomInv, AnswerInv, ServingInv
  <2>5. CountInv'
    BY <1>1, <1>2, <2>1, Types DEF DnsInv, CountInv
  <2> QED BY <2>3, <2>4, <2>5 DEF DnsInv
<1>7. CASE Sane(LengthOf(d), d)
  <2>1. /\ dnsPc' = "question" /\ nextQ' = 1 /\ at' = HeaderLen
        /\ rend' = LengthOf(d) /\ answers' = <<>>
        /\ taken' = IF ToAnswer(qs) THEN Append(taken, qs) ELSE taken
    BY <1>1, <1>7 DEF Serve
  <2>2. LengthOf(d) = Len(Packet(qs)) /\ LengthOf(d) <= DnsLen
    BY <1>7, SaneLength
  <2>3. Len(Packet(qs)) \in Nat /\ Octets(qs, 0) = Header /\ Len(Header) = HeaderLen /\ HeaderLen \in Nat
    <3>1. Packet(qs) \in Seq(Nat)
      BY <1>3, OctetsDef DEF Packet
    <3> QED BY <1>3, <3>1, OctetsDef, HeaderType, LenProperties
  <2>4. Busy' /\ (Serving' <=> ToAnswer(qs)) /\ packet'.questions = qs /\ nextQ' - 1 = 0
    BY <1>1, <2>1 DEF Busy, Serving
  <2>5. taken' \in Seq(Queries) /\ Len(taken') <= Len(taken) + 1 /\ Len(taken') \in Nat
    <3>1. Append(taken, qs) \in Seq(Queries) /\ Len(Append(taken, qs)) = Len(taken) + 1
      BY <1>3, Types, AppendProperties
    <3> QED BY <2>1, <3>1, Types
  <2> HIDE DEF qs
  <2>6. DnsTypeOK'
    BY <1>1, <1>2, <2>1, <2>2, <2>3, <2>5, Types DEF DnsInv, DnsTypeOK
  <2>7. ReadInv'
    BY <1>3, <2>1, <2>2, <2>3, <2>4 DEF ReadInv
  <2>8. RoomInv'
    <3>1. WorstReply(qs, 0) = HeaderLen
      BY <1>3, WorstReplyDef
    <3>2. Room(qs, 0) = 0
      BY <2>3, <3>1 DEF Room
    <3> QED BY <2>1, <2>2, <2>3, <2>4, <3>2 DEF RoomInv
  <2>9. AnswerInv'
    <3>1. Known(qs, 0) = {}
      BY DEF Known
    <3>2. Answering(qs, 0, <<>>)
      BY <3>1, FS_EmptySet DEF Answering
    <3> QED BY <1>1, <2>1, <2>4, <3>2 DEF DnsInv, AnswerInv
  <2>10. ServingInv'
    BY <1>4, <1>5, <2>1, <2>4 DEF ServingInv
  <2>11. CountInv'
    BY <1>1, <1>2, <2>5, Types DEF DnsInv, CountInv
  <2> QED BY <2>6, <2>7, <2>8, <2>9, <2>10, <2>11 DEF DnsInv
<1> QED BY <1>6, <1>7

\* A name is begun where the question starts.
LEMMA QuestionStep == AllReadable /\ DnsInv /\ Question => DnsInv'
<1> SUFFICES ASSUME AllReadable, DnsInv, Question PROVE DnsInv'
  OBVIOUS
<1> DEFINE qs == packet.questions
<1>1. /\ dnsPc = "question" /\ nextQ <= Len(qs) /\ dnsPc' = "name"
      /\ labelPtr' = at /\ endPtr' = 0 /\ res' = <<>>
      /\ UNCHANGED <<free, inbox, arrived, packet, nextQ, at, rend, answers, taken, outbox>>
  BY DEF Question
<1>2. Busy /\ Busy' /\ (Serving' <=> Serving)
  BY <1>1 DEF Busy, Serving
<1>3. WellFormed(qs) /\ Readable(qs) /\ Len(qs) \in Nat
  BY Types, DatagramTypes DEF AllReadable
<1>4. /\ Len(Packet(qs)) <= DnsLen /\ nextQ \in 1..(Len(qs) + 1)
      /\ \A k \in 1..(nextQ - 1) : Legible(qs[k])
      /\ at = Start(qs, nextQ)
  BY <1>1, <1>2 DEF DnsInv, ReadInv, Start
<1>5. nextQ \in 1..Len(qs)
  BY <1>1, <1>3, <1>4
<1> HIDE DEF qs
<1>6. Reading(qs, nextQ, at, 0, <<>>)
  BY <1>3, <1>4, <1>5, ReadingStarts
<1>7. ReadInv'
  BY <1>1, <1>4, <1>5, <1>6 DEF ReadInv, qs
<1>8. DnsTypeOK'
  BY <1>1 DEF DnsInv, DnsTypeOK
<1>9. RoomInv' /\ AnswerInv'
  BY <1>1, <1>2 DEF DnsInv, RoomInv, AnswerInv
<1>10. ServingInv' /\ CountInv'
  BY <1>1, <1>2 DEF DnsInv, ServingInv, CountInv, Replied
<1> QED BY <1>7, <1>8, <1>9, <1>10 DEF DnsInv

\* A turn of labelToStr keeps to the name, ends it, or gives the query up.
LEMMA LabelStep == AllReadable /\ DnsInv /\ labelToStr => DnsInv'
<1> SUFFICES ASSUME AllReadable, DnsInv, labelToStr PROVE DnsInv'
  OBVIOUS
<1> DEFINE qs     == packet.questions
           pkt    == Packet(qs)
           octet  == pkt[labelPtr + 1]
           go     == After(pkt, labelPtr)
           end2   == IF octet >= 192 THEN labelPtr + 2 ELSE endPtr
           parts2 == IF octet \in 1..63 THEN Append(res, SubSeq(pkt, labelPtr + 2, go)) ELSE res
<1>1. /\ dnsPc = "name"
      /\ UNCHANGED <<free, inbox, arrived, packet, nextQ, rend, answers, taken, outbox>>
      /\ \/ /\ go > Len(pkt) /\ dnsPc' = "recv" /\ UNCHANGED <<at, labelPtr, endPtr, res>>
         \/ /\ ~(go > Len(pkt)) /\ labelPtr' = go /\ endPtr' = end2 /\ res' = parts2
            /\ \/ pkt[go + 1] # 0 /\ UNCHANGED <<dnsPc, at>>
               \/ /\ pkt[go + 1] = 0 /\ dnsPc' = "answer"
                  /\ at' = IF end2 = 0 THEN go + 1 ELSE end2
  BY DEF labelToStr, nameVars
<1>2. Busy /\ dnsPc # "question"
  BY <1>1 DEF Busy
<1>3. WellFormed(qs) /\ Readable(qs) /\ Len(qs) \in Nat
  BY Types, DatagramTypes DEF AllReadable
<1>4. /\ Len(pkt) <= DnsLen /\ nextQ \in 1..(Len(qs) + 1)
      /\ \A k \in 1..(nextQ - 1) : Legible(qs[k])
      /\ nextQ \in 1..Len(qs)
      /\ Reading(qs, nextQ, labelPtr, endPtr, res)
  BY <1>1, <1>2 DEF DnsInv, ReadInv
<1>5. Len(pkt) < FarOffset
  <2>1. Len(pkt) \in Nat
    BY <1>3, <1>4, QuestionAt
  <2> HIDE DEF pkt
  <2> QED BY <1>4, <2>1, BufferSize DEF FarOffset
<1>6. Turned(qs, nextQ, labelPtr, endPtr, res)
  <2> HIDE DEF qs
  <2> QED BY <1>3, <1>4, <1>5, EveryTurn
<1>7. /\ go \in Nat
      /\ go > Len(pkt) => ~Legible(qs[nextQ])
      /\ ~(go > Len(pkt)) =>
           /\ pkt[go + 1] # 0 => Reading(qs, nextQ, go, end2, parts2)
           /\ pkt[go + 1] = 0 => ReadName(qs, nextQ, IF end2 = 0 THEN go + 1 ELSE end2, parts2)
  BY <1>6 DEF Turned
<1>8. labelPtr \in Nat /\ endPtr \in Nat /\ res \in Seq(Seq(0..255)) /\ at \in Nat
      /\ end2 \in Nat
  BY DEF DnsInv, DnsTypeOK
<1> HIDE DEF qs, pkt, octet, go, end2, parts2
<1>9. packet.questions = qs /\ packet'.questions = qs /\ pkt = Packet(qs)
  BY <1>1 DEF qs, pkt
<1>10. CASE go > Len(pkt) /\ dnsPc' = "recv" /\ UNCHANGED <<at, labelPtr, endPtr, res>>
  <2>1. ~Busy' /\ ~Serving' /\ ~Legible(qs[nextQ])
    BY <1>7, <1>10 DEF Busy, Serving
  <2>2. ~Serving
    BY <1>4, <1>9, <2>1 DEF Serving, ToAnswer
  <2>3. DnsTypeOK'
    BY <1>1, <1>10 DEF DnsInv, DnsTypeOK
  <2>4. ReadInv' /\ RoomInv' /\ AnswerInv'
    BY <1>1, <2>1 DEF DnsInv, ReadInv, RoomInv, AnswerInv
  <2>5. ServingInv' /\ CountInv'
    BY <1>1, <2>1, <2>2 DEF DnsInv, ServingInv, CountInv, Replied
  <2> QED BY <2>3, <2>4, <2>5 DEF DnsInv
<1>11. ASSUME labelPtr' = go, endPtr' = end2, res' = parts2,
              \/ dnsPc' = "name" /\ Reading(qs, nextQ, go, end2, parts2)
              \/ dnsPc' = "answer" /\ ReadName(qs, nextQ, at', parts2),
              at' \in Nat, parts2 \in Seq(Labels)
       PROVE  DnsInv'
  <2>1. Busy' /\ (Serving' <=> Serving) /\ dnsPc' # "question"
    BY <1>2, <1>9, <1>11 DEF Busy, Serving
  <2>2. parts2 \in Seq(Seq(0..255))
    BY <1>11, LabelsAreOctets
  <2>3. DnsTypeOK'
    BY <1>1, <1>7, <1>8, <1>11, <2>2 DEF DnsInv, DnsTypeOK
  <2>4. ReadInv'
    BY <1>1, <1>4, <1>9, <1>11, <2>1 DEF ReadInv
  <2>5. RoomInv' /\ AnswerInv'
    BY <1>1, <1>2, <2>1 DEF DnsInv, RoomInv, AnswerInv
  <2>6. ServingInv' /\ CountInv'
    BY <1>1, <2>1 DEF DnsInv, ServingInv, CountInv, Replied
  <2> QED BY <2>3, <2>4, <2>5, <2>6 DEF DnsInv
<1>12. CASE /\ ~(go > Len(pkt)) /\ labelPtr' = go /\ endPtr' = end2 /\ res' = parts2
            /\ pkt[go + 1] # 0 /\ UNCHANGED <<dnsPc, at>>
  <2>1. Reading(qs, nextQ, go, end2, parts2)
    BY <1>7, <1>12
  <2>2. parts2 \in Seq(Labels)
    BY <1>3, <1>4, <2>1, ReadingTypes
  <2> QED BY <1>1, <1>8, <1>11, <1>12, <2>1, <2>2
<1>13. CASE /\ ~(go > Len(pkt)) /\ labelPtr' = go /\ endPtr' = end2 /\ res' = parts2
            /\ pkt[go + 1] = 0 /\ dnsPc' = "answer" /\ at' = IF end2 = 0 THEN go + 1 ELSE end2
  <2>1. ReadName(qs, nextQ, at', parts2)
    BY <1>7, <1>13
  <2>2. parts2 \in Seq(Labels)
    BY <1>3, <1>4, <2>1, ReadingTypes
  <2>3. at' \in Nat
    BY <2>1 DEF ReadName
  <2> QED BY <1>11, <1>13, <2>1, <2>2, <2>3
<1> QED BY <1>1, <1>10, <1>12, <1>13

LEMMA RoomTypes ==
  ASSUME NEW qs, WellFormed(qs), Readable(qs), NEW k \in Nat \ {0}, k \in 0..Len(qs)
  PROVE  Room(qs, k) \in Int /\ Room(qs, k - 1) \in Int
<1>1. k - 1 \in 0..Len(qs)
  OBVIOUS
<1>2. /\ WorstReply(qs, k) \in Nat /\ WorstReply(qs, k - 1) \in Nat
      /\ Len(Octets(qs, k)) \in Nat /\ Len(Octets(qs, k - 1)) \in Nat
  BY <1>1, WorstReplyDef, OctetsDef, LenProperties
<1> QED BY <1>2 DEF Room

\* A record goes under the name read and with the type behind it.
LEMMA AnswerStep == AllReadable /\ DnsInv /\ Answer => DnsInv'
<1> SUFFICES ASSUME AllReadable, DnsInv, Answer PROVE DnsInv'
  OBVIOUS
<1> DEFINE qs    == packet.questions
           type  == TypeAt(Packet(qs), at)
           label == strToLabel(res)
           len   == NameLen(NameOf(qs, nextQ))
           total == Len(Packet(qs))
<1>1. /\ dnsPc = "answer" /\ dnsPc' \in {"question", "overrun"}
      /\ nextQ' = nextQ + 1 /\ at' = at + 4
      /\ UNCHANGED <<free, inbox, arrived, packet, taken, outbox>>
      /\ UNCHANGED <<labelPtr, endPtr, res>>
      /\ type \notin Answered => UNCHANGED <<answers, rend>>
      /\ type \in Answered =>
           /\ \E ttl \in Ttls(type) :
                answers' = Append(answers, [name |-> label, type |-> type, ttl |-> ttl])
           /\ rend' = rend + Len(label) + 10 + RdLength(type)
  BY DEF Answer, nameVars
<1>2. Busy /\ Busy' /\ (Serving' <=> Serving)
  BY <1>1 DEF Busy, Serving
<1>3. WellFormed(qs) /\ Readable(qs) /\ Len(qs) \in Nat /\ qs \in Queries
  BY Types, DatagramTypes DEF AllReadable
<1>4. /\ total <= DnsLen /\ nextQ \in 1..Len(qs)
      /\ \A k \in 1..(nextQ - 1) : Legible(qs[k])
      /\ ReadName(qs, nextQ, at, res)
  BY <1>1, <1>2 DEF DnsInv, ReadInv
<1>5. nextQ \in Nat \ {0} /\ nextQ + 1 \in 1..(Len(qs) + 1) /\ (nextQ + 1) - 1 = nextQ
      /\ nextQ \in 0..Len(qs)
  BY <1>3, <1>4
<1> HIDE DEF qs, total
<1>6. /\ label = LabelOctets(NameOf(qs, nextQ)) \o <<0>> /\ label \in Seq(0..255)
      /\ Len(label) = len /\ \A k \in 1..nextQ : Legible(qs[k])
  BY <1>3, <1>4, NameWritten
<1>7. type = qs[nextQ].type
  <2>1. at \in Nat /\ at + 4 = Len(Octets(qs, nextQ))
    BY <1>4 DEF ReadName
  <2> QED BY <1>3, <1>4, <2>1, AtType
<1>8. at' \in Nat /\ at' = Len(Octets(qs, (nextQ + 1) - 1))
  BY <1>1, <1>4, <1>5 DEF ReadName
<1> HIDE DEF type, label, len
<1>9. rend' \in Nat /\ rend' - total <= Room(qs, nextQ)
  <2>1. rend \in Nat /\ rend - total <= Room(qs, nextQ - 1) /\ total \in Nat
    <3>1. total \in Nat
      BY <1>3, <1>4, QuestionAt DEF total
    <3> QED BY <1>2, <3>1, Types DEF DnsInv, RoomInv, qs, total
  <2>2. /\ Room(qs, nextQ - 1) <= Room(qs, nextQ)
        /\ Room(qs, nextQ - 1) + len + 30 <= Room(qs, nextQ) /\ len \in Nat
    BY <1>3, <1>4, <1>6, RoomGrows, NameLength DEF Room, len
  <2>3. Room(qs, nextQ) \in Int /\ Room(qs, nextQ - 1) \in Int
    BY <1>3, <1>5, RoomTypes
  <2>4. rend' = rend \/ (rend' = rend + len + 10 + RdLength(type) /\ RdLength(type) \in {4, 20})
    BY <1>1, <1>6 DEF RdLength
  <2>5. CASE rend' = rend
    BY ONLY <2>1, <2>2, <2>3, <2>5
  <2>6. CASE rend' = rend + len + 10 + RdLength(type) /\ RdLength(type) \in {4, 20}
    BY ONLY <2>1, <2>2, <2>3, <2>6
  <2> QED BY <2>4, <2>5, <2>6
<1>10. Answering(qs, nextQ - 1, answers) /\ answers \in Seq(Record)
  BY <1>2, Types DEF DnsInv, AnswerInv, qs
<1>11. answers' \in Seq(Record) /\ Answering(qs, nextQ, answers')
  <2>1. CASE type \notin Answered
    BY <1>1, <1>5, <1>7, <1>10, <2>1, AnsweringSkips
  <2>2. CASE type \in Answered
    <3>1. PICK ttl \in Ttls(type) :
            answers' = Append(answers, [name |-> label, type |-> type, ttl |-> ttl])
      BY <1>1, <2>2
    <3> DEFINE a == [name |-> label, type |-> type, ttl |-> ttl]
    <3>2. ttl \in {0} \cup StackHalves /\ (type = QTYPE_A => ttl = 0)
      BY DEF Ttls
    <3>3. a \in Record
      BY <1>6, <2>2, <3>2 DEF Record
    <3>4. a.name = label /\ a.type = type /\ a.ttl = ttl /\ answers' = Append(answers, a)
      BY <3>1
    <3> HIDE DEF a
    <3>5. answers' \in Seq(Record)
      BY <1>10, <3>3, <3>4, AppendProperties
    <3>6. Answering(qs, nextQ, Append(answers, a))
      <4>1. RecordFor(qs, nextQ, a)
        BY <1>6, <1>7, <3>2, <3>4 DEF RecordFor
      <4> QED BY <1>5, <1>7, <1>10, <2>2, <3>3, <4>1, AnsweringGrows
    <3> QED BY <3>4, <3>5, <3>6
  <2> QED BY <2>1, <2>2
<1>12. packet'.questions = qs /\ nextQ' - 1 = nextQ
  BY <1>1, <1>5 DEF qs
<1>13. DnsTypeOK'
  <2>1. nextQ' \in Nat \ {0}
    BY <1>1, <1>5
  <2> QED BY <1>1, <1>8, <1>9, <1>11, <2>1 DEF DnsInv, DnsTypeOK
<1>14. ReadInv'
  BY <1>1, <1>4, <1>5, <1>6, <1>8, <1>12 DEF ReadInv, total
<1>15. RoomInv' /\ AnswerInv'
  BY <1>1, <1>9, <1>11, <1>12 DEF DnsInv, RoomInv, AnswerInv, total
<1>16. ServingInv' /\ CountInv'
  BY <1>1, <1>2 DEF DnsInv, ServingInv, CountInv, Replied
<1> QED BY <1>13, <1>14, <1>15, <1>16 DEF DnsInv

\* After an overrun the task goes on, or starts again with nothing.
LEMMA OverrunStep == DnsInv /\ (OverrunUnnoticed \/ OverrunRestarts) => DnsInv'
<1> SUFFICES ASSUME DnsInv, OverrunUnnoticed \/ OverrunRestarts PROVE DnsInv'
  OBVIOUS
<1>1. CASE OverrunUnnoticed
  <2>1. /\ dnsPc = "overrun" /\ dnsPc' = "question"
        /\ UNCHANGED <<free, inbox, arrived, packet, nextQ, at, rend, answers, taken, outbox>>
        /\ UNCHANGED <<labelPtr, endPtr, res>>
    BY <1>1 DEF OverrunUnnoticed, nameVars
  <2>2. Busy /\ Busy' /\ (Serving' <=> Serving)
    BY <2>1 DEF Busy, Serving
  <2>3. DnsTypeOK'
    BY <2>1 DEF DnsInv, DnsTypeOK
  <2>4. ReadInv' /\ RoomInv' /\ AnswerInv'
    BY <2>1, <2>2 DEF DnsInv, ReadInv, RoomInv, AnswerInv
  <2>5. ServingInv' /\ CountInv'
    BY <2>1, <2>2 DEF DnsInv, ServingInv, CountInv, Replied
  <2> QED BY <2>3, <2>4, <2>5 DEF DnsInv
<1>2. CASE OverrunRestarts
  <2>1. /\ dnsPc' = "socket" /\ free' \in 0..PoolSize /\ inbox' = <<>> /\ arrived' = arrived
        /\ packet' \in Datagram /\ nextQ' = 1 /\ at' = HeaderLen /\ rend' = HeaderLen
        /\ labelPtr' = 0 /\ endPtr' = 0 /\ res' = <<>>
        /\ answers' = <<>> /\ taken' = <<>> /\ outbox' = <<>>
    BY <1>2 DEF OverrunRestarts
  <2>2. ~Busy' /\ ~Serving'
    BY <2>1 DEF Busy, Serving
  <2>3. DnsTypeOK'
    <3>1. HeaderLen \in Nat /\ Backlog \in Nat /\ arrived \in 0..MaxDatagrams
      BY DnsAssumption DEF HeaderLen, DnsInv, DnsTypeOK
    <3> QED BY <2>1, <3>1 DEF DnsTypeOK
  <2>4. ReadInv' /\ RoomInv' /\ AnswerInv'
    BY <2>1, <2>2 DEF ReadInv, RoomInv, AnswerInv
  <2>5. ServingInv' /\ CountInv'
    BY <2>1, <2>2, Types DEF ServingInv, CountInv, Replied
  <2> QED BY <2>3, <2>4, <2>5 DEF DnsInv
<1> QED BY <1>1, <1>2

\* All questions have been read, and the query is answered.
LEMMA SendStep == AllReadable /\ DnsInv /\ Send => DnsInv'
<1> SUFFICES ASSUME AllReadable, DnsInv, Send PROVE DnsInv'
  OBVIOUS
<1> PICK ok \in BOOLEAN :
       outbox' = Append(outbox, [questions |-> packet.questions, answers |-> answers,
                                 length |-> rend, sent |-> ok])
  BY DEF Send
<1> DEFINE qs == packet.questions
           r  == [questions |-> qs, answers |-> answers, length |-> rend, sent |-> ok]
<1>1. /\ dnsPc = "question" /\ nextQ > Len(qs) /\ dnsPc' = "recv"
      /\ outbox' = Append(outbox, r)
      /\ UNCHANGED <<free, inbox, arrived, packet, nextQ, at, rend, answers, taken>>
      /\ UNCHANGED <<labelPtr, endPtr, res>>
  BY DEF Send, nameVars
<1>2. Busy /\ ~Busy' /\ ~Serving'
  BY <1>1 DEF Busy, Serving
<1>3. qs \in Queries /\ Len(qs) \in Nat /\ DOMAIN qs = 1..Len(qs)
  BY Types, DatagramTypes
<1>4. nextQ \in 1..(Len(qs) + 1) /\ \A k \in 1..(nextQ - 1) : Legible(qs[k])
  BY <1>2 DEF DnsInv, ReadInv
<1>5. nextQ - 1 = Len(qs)
  BY <1>1, <1>3, <1>4
<1>6. Serving
  BY <1>2, <1>4, <1>5 DEF Serving, ToAnswer
<1>7. r \in Reply /\ r.questions = qs /\ r.answers = answers
  BY <1>3, Types DEF Reply
<1>8. Answering(r.questions, Len(r.questions), r.answers)
  BY <1>2, <1>5, <1>7 DEF DnsInv, AnswerInv
<1> HIDE DEF r
<1>9. /\ outbox' \in Seq(Reply) /\ Len(outbox) \in Nat
      /\ DOMAIN outbox = 1..Len(outbox) /\ DOMAIN outbox' = 1..(Len(outbox) + 1)
      /\ \A i \in 1..Len(outbox) : outbox'[i] = outbox[i]
      /\ outbox'[Len(outbox) + 1] = r
  BY <1>1, <1>7, Types, AppendProperties, LenProperties
<1>10. Replied' = Append(Replied, qs)
  BY <1>7, <1>9 DEF Replied
<1>11. DnsTypeOK'
  BY <1>1, <1>9 DEF DnsInv, DnsTypeOK
<1>12. ReadInv' /\ RoomInv'
  BY <1>1, <1>2 DEF DnsInv, ReadInv, RoomInv
<1>13. AnswerInv'
  <2>1. \A i \in 1..(Len(outbox) + 1) : i \in 1..Len(outbox) \/ i = Len(outbox) + 1
    BY <1>9
  <2> QED BY <1>2, <1>8, <1>9, <2>1 DEF DnsInv, AnswerInv
<1>14. ServingInv' /\ CountInv'
  BY <1>1, <1>2, <1>6, <1>10 DEF DnsInv, ServingInv, CountInv
<1> QED BY <1>11, <1>12, <1>13, <1>14 DEF DnsInv

\* The queries are constant.
LEMMA AlwaysReadable == AllReadable => []AllReadable
<1>1. AllReadable => AllReadable'
  BY DEF AllReadable
<1> QED BY <1>1, PTL

LEMMA DnsInvHolds == AllReadable /\ DnsSpec => []DnsInv
<1>1. AllReadable /\ DnsInv /\ [DnsNext]_dnsVars => DnsInv'
  <2> SUFFICES ASSUME AllReadable, DnsInv, [DnsNext]_dnsVars PROVE DnsInv'
    OBVIOUS
  <2>1. \/ Others \/ CreateSocket \/ Bind \/ UNCHANGED dnsVars
        \/ (\E d \in Datagram : Arrive(d))
        \/ Receive \/ ReceiveFails \/ Question \/ labelToStr \/ Answer \/ Send
        \/ OverrunUnnoticed \/ OverrunRestarts
    BY DEF DnsNext, captdnsTask, captdnsRecv
  <2> QED BY <2>1, OutsideSteps, ArriveStep, ReceiveStep, ReceiveFailsStep, QuestionStep,
             LabelStep, AnswerStep, OverrunStep, SendStep
<1> QED BY <1>1, AlwaysReadable, DnsInitInv, PTL DEF DnsSpec

-----------------------------------------------------------------------------
(* The theorems. *)

\* The variables keep their types: no record of a type the code does not answer,
\* no name that is not of octets, no backlog overrun.  Names that point out of the
\* packet or to themselves, reserved label types and replies that outgrow their buffer
\* are included, names that labelToStr misreads are not.
THEOREM DnsTypeCorrect == AllReadable /\ DnsSpec => []DnsTypeOK
<1>1. DnsInv => DnsTypeOK
  BY DEF DnsInv
<1> QED BY <1>1, DnsInvHolds, PTL

\* A reply outgrows its buffer only if that has no room for the query, each of its
\* names once more, and 34 octets for each question: strToLabel and the code behind it
\* never write more for a question than its name takes and 30 octets.
THEOREM RepliesFit == AllReadable /\ DnsSpec => []RepliesWithRoomFit
<1>1. AllReadable /\ DnsInv => RepliesWithRoomFit
  <2> DEFINE qs == packet.questions
             total == Len(Packet(qs))
             worst == WorstReply(qs, Len(qs))
  <2> SUFFICES ASSUME AllReadable, DnsInv, Busy, worst <= DnsLen PROVE rend <= DnsLen
    BY DEF RepliesWithRoomFit
  <2>1. WellFormed(qs) /\ Readable(qs) /\ Len(qs) \in Nat
    BY Types, DatagramTypes DEF AllReadable
  <2>2. nextQ \in 1..(Len(qs) + 1) /\ rend \in Nat /\ rend - total <= Room(qs, nextQ - 1)
    BY Types DEF DnsInv, ReadInv, RoomInv
  <2>3. nextQ - 1 \in 0..Len(qs) /\ Len(qs) \in 0..Len(qs)
    BY <2>1, <2>2
  <2> HIDE DEF qs
  <2>4. Room(qs, nextQ - 1) <= worst - total
    BY <2>1, <2>3, RoomAtEnd DEF Room
  <2>5. /\ worst \in Nat /\ total \in Nat /\ WorstReply(qs, nextQ - 1) \in Nat
        /\ Len(Octets(qs, nextQ - 1)) \in Nat
    BY <2>1, <2>3, WorstReplyDef, OctetsDef, LenProperties DEF Packet
  <2>6. Room(qs, nextQ - 1) \in Int
    BY <2>5 DEF Room
  <2> HIDE DEF worst, total
  <2> QED BY <2>2, <2>4, <2>5, <2>6, BufferSize
<1> QED BY <1>1, AlwaysReadable, DnsInvHolds, PTL

\* After every question the task is at the next: labelToStr finds the end of every
\* name it can read, pointers included.
THEOREM FieldsFound == AllReadable /\ DnsSpec => []NextFieldsFound
<1>1. DnsInv => NextFieldsFound
  BY DEF DnsInv, ReadInv, Busy, NextFieldsFound
<1> QED BY <1>1, DnsInvHolds, PTL

\* A reply that has room holds a record for each question of a known type and no other, in order,
\* with the question's whole name, its type, and for addresses no time to live.
THEOREM AnswersAreRight == AllReadable /\ DnsSpec => []AnswersMatchQuestions
<1>1. DnsInv => AnswersMatchQuestions
  <2> SUFFICES ASSUME DnsInv, NEW r \in ToSet(outbox)
               PROVE  LET known == {k \in DOMAIN r.questions : r.questions[k].type \in Answered}
                      IN r.length <= DnsLen =>
                           /\ Len(r.answers) = Cardinality(known)
                           /\ \A k \in known :
                                LET a == r.answers[Cardinality({j \in known : j <= k})] IN
                                /\ a.name = LabelOctets(NameOf(r.questions, k)) \o <<0>>
                                /\ a.type = r.questions[k].type
                                /\ a.type = QTYPE_A => a.ttl = 0
    BY DEF AnswersMatchQuestions
  <2>1. PICK i \in DOMAIN outbox : r = outbox[i]
    BY DEF ToSet
  <2>2. Answering(r.questions, Len(r.questions), r.answers)
    BY <2>1 DEF DnsInv, AnswerInv
  <2>3. r.questions \in Queries
    <3>1. outbox \in Seq(Reply)
      BY Types
    <3>2. outbox[i] \in Reply
      BY <3>1, LenProperties, ElementOfSeq
    <3> QED BY <2>1, <3>2 DEF Reply
  <2>4. DOMAIN r.questions = 1..Len(r.questions)
    BY <2>3, DnsAssumption, QuestionTypes
  <2> QED BY <2>2, <2>4 DEF Answering, Known, Rank, RecordFor
<1> QED BY <1>1, DnsInvHolds, PTL

\* Every query that passes the checks gets one reply, in the order received, since the
\* last restart, and neither a rejected datagram nor a failed recvfrom gets any.
THEOREM OneReplyEach == AllReadable /\ DnsSpec => []OneReplyPerQuery
<1>1. DnsInv => OneReplyPerQuery
  <2> SUFFICES ASSUME DnsInv PROVE OneReplyPerQuery
    OBVIOUS
  <2>1. Replied \in Seq({outbox[i].questions : i \in DOMAIN outbox})
    BY Types, LenProperties DEF Replied
  <2>2. Append(Replied, packet.questions) = Replied \o <<packet.questions>> /\ Replied \o <<>> = Replied
    BY <2>1, ConcatEmptySeq
  <2> QED
    BY <2>2 DEF DnsInv, ServingInv, Serving, Busy, CountInv, OneReplyPerQuery, Replied
<1> QED BY <1>1, DnsInvHolds, PTL
=============================================================================
