------------------------------ MODULE CaptDns ------------------------------
(***************************************************************************)
(* components/captdns/captdns.c: the captive DNS server, which answers     *)
(* every query on the soft AP with the device's own address.               *)
(*                                                                         *)
(* One task creates a UDP socket, binds it, and then serves one datagram   *)
(* after another; the replies are built in place behind a copy of the      *)
(* query.  A packet is a sequence of octets, counted from 0 as in the      *)
(* code.  Clients send well-formed queries, and other datagrams that the   *)
(* code must ignore.  Of the names that are not well formed there are      *)
(* three, one for each thing labelToStr can meet: a pointer out of the     *)
(* packet, a pointer that leads to where it stands, and a label type that  *)
(* is reserved.  Pointers forward, and longer circles, are left out.  A    *)
(* name is read in steps, one for each turn of the loop in labelToStr.     *)
(*                                                                         *)
(* A definition headed "Variant" is the one after it with a mistake: it is *)
(* no part of the specification and shows that some property tells them    *)
(* apart.                                                                  *)
(***************************************************************************)
EXTENDS Integers, Sequences, FiniteSets, SequencesExt

CONSTANTS
  Queries,       \* the question sections clients send
  DnsLen,        \* DNS_LEN, the size of every buffer
  Backlog,       \* datagrams the socket keeps for the task
  MaxDatagrams,  \* bound: datagrams sent
  PoolSize,      \* sockets the task may find free
  StackHalves    \* what two octets of a stack never written may hold

VARIABLES
  dnsPc,    \* position of the task; overrun: it has just written past its buffer
  free,     \* sockets free in the pool it shares
  inbox,    \* datagrams at the socket
  arrived,  \* their number so far (for MaxDatagrams)
  packet,   \* udp_msg: the last datagram received
  nextQ,    \* i: the question to handle next, from 1
  at,       \* p: where its name starts in the packet, then where it ends
  labelPtr, \* labelToStr: where it is in the packet,
  endPtr,   \* where the name ends if that is known, else 0 for NULL,
  res,      \* and the dotted string read so far, as the sequence of its parts
  rend,     \* length of the reply so far
  answers,  \* the records appended to it
  taken,    \* history: the queries to be answered that passed the checks
  outbox    \* the replies handed to sendto

nameVars == <<labelPtr, endPtr, res>>
dnsVars  == <<dnsPc, free, inbox, arrived, packet, nextQ, at, nameVars, rend, answers, taken, outbox>>

-----------------------------------------------------------------------------
(* Packets. *)

HeaderLen == 12
QTYPE_A   == 1
QTYPE_NS  == 2
QTYPE_URI == 256
Answered  == {QTYPE_A, QTYPE_NS, QTYPE_URI}

\* The characters of a label: no zero, which ends a C string, and no dot.
Characters == 1..255 \ {46}
Labels == {l \in Seq(Characters) : Len(l) \in 1..63}

LabelOctets(ls) == FlattenSeq([i \in DOMAIN ls |-> <<Len(ls[i])>> \o ls[i]])

\* A question asks for records of a type for a name: labels, and then the zero octet
\* (tail 0), a pointer to the name of an earlier question (its number), a pointer to
\* no octet of the packet, a pointer to itself, or an octet of a reserved label type.
Outside  == -1
Itself   == -2
Reserved == -3

TypeCodes == 0..65535
Tails     == {Outside, Itself, Reserved} \cup Nat
Questions == [labels : Seq(Labels), tail : Tails, type : TypeCodes]

\* Two octets with the most significant first, and a pointer.
Two(n)     == <<n \div 256, n % 256>>
Pointer(p) == <<192 + p \div 256, p % 256>>
FarOffset  == 16383

\* The end of a name, whose pointer leads to start.
EndOctets(q, start) ==
  IF q.tail = 0 THEN <<0>> ELSE IF q.tail = Reserved THEN <<64>> ELSE Pointer(start)

\* A question, given where its pointer leads, and the first k questions of a packet,
\* as RFC 1035 encodes them.
Encoded(q, start) ==
  LabelOctets(q.labels) \o EndOctets(q, start) \o Two(q.type) \o Two(1)

NameSize(q) == Len(LabelOctets(q.labels))

Octets(qs, k) ==
  LET o[j \in 0..Len(qs)] ==
        IF j = 0 THEN [i \in 1..HeaderLen |-> 0]
        ELSE o[j - 1] \o Encoded(qs[j],
               IF qs[j].tail > 0 THEN Len(o[qs[j].tail - 1])
               ELSE IF qs[j].tail = Itself THEN Len(o[j - 1]) + NameSize(qs[j]) ELSE FarOffset)
  IN o[k]

\* The labels of the name that question k asks for.
NameOf(qs, k) ==
  LET n[j \in DOMAIN qs] ==
        qs[j].labels \o (IF qs[j].tail > 0 THEN n[qs[j].tail] ELSE <<>>)
  IN n[k]

\* A name that labelToStr comes to the end of.  For one that points out of the packet
\* it returns NULL, and for the other two it never returns.
Legible(question) == question.tail >= 0
Endless(question) == question.tail \in {Itself, Reserved}

ToAnswer(qs) == \A k \in 1..Len(qs) : Legible(qs[k])

\* Whether the code answers ("query") or must ignore a datagram.
Kinds == {"query", "short", "response", "truncated"}
Datagram == [kind : Kinds, questions : Queries]

Packet(qs) == Octets(qs, Len(qs))

LengthOf(d) == IF d.kind = "short" THEN HeaderLen - 1 ELSE Len(Packet(d.questions))

NameLen(ls) == Len(LabelOctets(ls)) + 1

\* The length of the worst reply to the first k questions: each name twice, each
\* record with 30 octets of data.
WorstReply(qs, k) ==
  LET w[j \in 0..Len(qs)] ==
        IF j = 0 THEN HeaderLen ELSE w[j - 1] + 2 * NameLen(NameOf(qs, j)) + 34
  IN w[k]

WellFormed(qs) ==
  /\ qs \in Seq(Questions)
  /\ \A k \in DOMAIN qs : qs[k].tail < k

\* A query is no longer than the buffer it is received in, which is smaller than what
\* a pointer can reach.  Whether the reply has room there is not assumed.
ASSUME DnsAssumption ==
  /\ \A qs \in Queries : WellFormed(qs) /\ Len(Packet(qs)) <= DnsLen
  /\ DnsLen \in HeaderLen..(FarOffset - 1)
  /\ Backlog \in Nat /\ MaxDatagrams \in Nat /\ PoolSize \in Nat

ASSUME StackAssumption == StackHalves \subseteq 0..65535 /\ StackHalves # {}

-----------------------------------------------------------------------------
(* Names. *)

\* Variant: the length octet of a label counts itself too.
strToLabel_CountsItself(ls) ==
  FlattenSeq([i \in DOMAIN ls |-> <<Len(ls[i]) + 1>> \o ls[i]]) \o <<0>>

\* Variant: ends the name twice.
strToLabel_EndsTwice(ls) == LabelOctets(ls) \o <<0, 0>>

\* The empty string gets the length of its one, empty, part and the end.
strToLabel(ls) == IF ls = <<>> THEN <<0, 0>> ELSE LabelOctets(ls) \o <<0>>

\* setn32 puts four octets; of a record that is not an A only the high half of the
\* TTL is put, with setn16, and the low half is what the stack held there.
Ttls(type) == IF type = QTYPE_A THEN {0} ELSE StackHalves

RdLength(type) == IF type = QTYPE_URI THEN 4 + 16 ELSE 4

-----------------------------------------------------------------------------
Record == [name : Seq(0..255), type : Answered, ttl : {0} \cup StackHalves]
Reply  == [questions : Queries, answers : Seq(Record), length : Nat, sent : BOOLEAN]

DnsTypeOK ==
  /\ dnsPc \in {"socket", "bind", "recv", "question", "name", "answer", "overrun"}
  /\ free \in 0..PoolSize
  /\ inbox \in Seq(Datagram) /\ Len(inbox) <= Backlog
  /\ arrived \in 0..MaxDatagrams
  /\ packet \in Datagram
  /\ nextQ \in Nat \ {0} /\ at \in Nat /\ rend \in Nat
  /\ labelPtr \in Nat /\ endPtr \in Nat /\ res \in Seq(Seq(0..255))
  /\ answers \in Seq(Record)
  /\ taken \in Seq(Queries)
  /\ outbox \in Seq(Reply)

\* The buffers start with anything in them.
DnsInit ==
  /\ dnsPc = "socket"
  /\ free \in 0..PoolSize
  /\ inbox = <<>> /\ arrived = 0
  /\ packet \in Datagram
  /\ nextQ = 1 /\ at = HeaderLen /\ rend = HeaderLen
  /\ labelPtr = 0 /\ endPtr = 0 /\ res = <<>>
  /\ answers = <<>> /\ taken = <<>> /\ outbox = <<>>

(* Other users of the pool, and the clients (external). *)

Others ==
  /\ free' \in {free - 1, free + 1} \cap (0..PoolSize)
  /\ dnsPc = "socket"  \* afterwards it is of no concern here
  /\ UNCHANGED <<dnsPc, inbox, arrived, packet, nextQ, at, nameVars, rend, answers, taken, outbox>>

\* What comes before the socket is bound, or finds its backlog full, is lost.
Arrive(d) ==
  /\ arrived < MaxDatagrams
  /\ arrived' = arrived + 1
  /\ inbox' = IF dnsPc \in {"socket", "bind"} \/ Len(inbox) = Backlog
              THEN inbox ELSE Append(inbox, d)
  /\ UNCHANGED <<dnsPc, free, packet, nextQ, at, nameVars, rend, answers, taken, outbox>>

(* captdnsTask *)

\* Variant: goes on without a socket.
CreateSocket_Once ==
  /\ dnsPc = "socket"
  /\ dnsPc' = IF free > 0 THEN "bind" ELSE "ended"
  /\ free' = IF free > 0 THEN free - 1 ELSE free
  /\ UNCHANGED <<inbox, arrived, packet, nextQ, at, nameVars, rend, answers, taken, outbox>>

\* Without a free socket the task sleeps and tries again.
CreateSocket ==
  /\ dnsPc = "socket" /\ free > 0
  /\ dnsPc' = "bind"
  /\ free' = free - 1
  /\ UNCHANGED <<inbox, arrived, packet, nextQ, at, nameVars, rend, answers, taken, outbox>>

Bind ==
  /\ dnsPc = "bind"
  /\ dnsPc' = "recv"
  /\ UNCHANGED <<free, inbox, arrived, packet, nextQ, at, nameVars, rend, answers, taken, outbox>>

\* Variant: trusts recvfrom not to give more than the buffer holds.
Sane_AnyLength(length, d) ==
  length >= HeaderLen /\ d.kind \notin {"response", "truncated"}

\* The checks at the head of captdnsRecv.
Sane(length, d) ==
  /\ length <= DnsLen
  /\ length >= HeaderLen
  /\ d.kind \notin {"response", "truncated"}

\* captdnsRecv, called with what the buffer holds.
Serve(length, d) ==
  IF Sane(length, d)
  THEN /\ dnsPc' = "question"
       /\ nextQ' = 1 /\ at' = HeaderLen
       /\ rend' = length /\ answers' = <<>>
       /\ taken' = IF ToAnswer(d.questions) THEN Append(taken, d.questions) ELSE taken
  ELSE UNCHANGED <<dnsPc, nextQ, at, rend, answers, taken>>

Receive ==
  /\ dnsPc = "recv" /\ inbox # <<>>
  /\ packet' = Head(inbox) /\ inbox' = Tail(inbox)
  /\ Serve(LengthOf(Head(inbox)), Head(inbox))
  /\ UNCHANGED <<free, arrived, nameVars, outbox>>

\* recvfrom's -1, kept in a uint32_t and cut to an unsigned short.
FailureLength == 65535

\* Unsigned, the -1 passes "ret > 0", and captdnsRecv is called with the packet
\* that is still there from before.
ReceiveFails ==
  /\ dnsPc = "recv"
  /\ Serve(FailureLength, packet)
  /\ UNCHANGED <<free, inbox, arrived, packet, nameVars, outbox>>

\* One turn of the loop over the questions: first its name is read.
Question ==
  /\ dnsPc = "question" /\ nextQ <= Len(packet.questions)
  /\ dnsPc' = "name"
  /\ labelPtr' = at /\ endPtr' = 0 /\ res' = <<>>
  /\ UNCHANGED <<free, inbox, arrived, packet, nextQ, at, rend, answers, taken, outbox>>

\* Where a turn of the loop in labelToStr leaves labelPtr when it starts at p: behind
\* a label, or where a pointer points to.  Of other octets it makes nothing.
After(pkt, p) ==
  LET octet == pkt[p + 1] IN
  CASE octet < 64   -> p + 1 + octet
    [] octet >= 192 -> (octet - 192) * 256 + pkt[p + 2]
    [] OTHER        -> p

\* A turn of that loop.  Out of the packet NULL is returned, and no reply sent; at
\* a zero octet the name ends.
labelToStr ==
  LET pkt   == Packet(packet.questions)
      octet == pkt[labelPtr + 1]
      go    == After(pkt, labelPtr)
      end   == IF octet >= 192 THEN labelPtr + 2 ELSE endPtr
  IN
  /\ dnsPc = "name"
  /\ IF go > Len(pkt) THEN dnsPc' = "recv" /\ UNCHANGED <<nameVars, at>>
     ELSE /\ labelPtr' = go /\ endPtr' = end
          /\ res' = IF octet \in 1..63 THEN Append(res, SubSeq(pkt, labelPtr + 2, go))
                    ELSE res
          /\ IF pkt[go + 1] # 0 THEN UNCHANGED <<dnsPc, at>>
             ELSE dnsPc' = "answer" /\ at' = IF end = 0 THEN go + 1 ELSE end
  /\ UNCHANGED <<free, inbox, arrived, packet, nextQ, rend, answers, taken, outbox>>

TypeAt(pkt, p) == pkt[p + 1] * 256 + pkt[p + 2]

\* Variant: answers whatever the type.
Answer_AnyType ==
  LET type  == TypeAt(Packet(packet.questions), at)
      label == strToLabel(res)
  IN
  /\ dnsPc = "answer"
  /\ nextQ' = nextQ + 1 /\ at' = at + 4
  /\ \E ttl \in Ttls(type) :
       answers' = Append(answers, [name |-> label, type |-> type, ttl |-> ttl])
  /\ rend' = rend + Len(label) + 10 + RdLength(type)
  /\ dnsPc' = IF rend' > DnsLen THEN "overrun" ELSE "question"
  /\ UNCHANGED <<free, inbox, arrived, packet, nameVars, taken, outbox>>

\* The rest of the turn: a record for a question of a type the code knows.  Nothing
\* looks whether it has room in the reply.
Answer ==
  LET type  == TypeAt(Packet(packet.questions), at)
      label == strToLabel(res)
  IN
  /\ dnsPc = "answer"
  /\ nextQ' = nextQ + 1 /\ at' = at + 4
  /\ IF type \in Answered
     THEN /\ \E ttl \in Ttls(type) :
               answers' = Append(answers, [name |-> label, type |-> type, ttl |-> ttl])
          /\ rend' = rend + Len(label) + 10 + RdLength(type)
          /\ dnsPc' = IF rend' > DnsLen THEN "overrun" ELSE "question"
     ELSE dnsPc' = "question" /\ UNCHANGED <<answers, rend>>
  /\ UNCHANGED <<free, inbox, arrived, packet, nameVars, taken, outbox>>

\* What was written past the reply was in no use, or it was and the chip panics and
\* restarts.  Other damage is not modelled.
OverrunUnnoticed ==
  /\ dnsPc = "overrun"
  /\ dnsPc' = "question"
  /\ UNCHANGED <<free, inbox, arrived, packet, nextQ, at, nameVars, rend, answers, taken, outbox>>

OverrunRestarts ==
  /\ dnsPc = "overrun"
  /\ dnsPc' = "socket"
  /\ free' \in 0..PoolSize
  /\ inbox' = <<>>
  /\ packet' \in Datagram
  /\ nextQ' = 1 /\ at' = HeaderLen /\ rend' = HeaderLen
  /\ labelPtr' = 0 /\ endPtr' = 0 /\ res' = <<>>
  /\ answers' = <<>> /\ taken' = <<>> /\ outbox' = <<>>
  /\ UNCHANGED arrived

\* No one looks at sendto's result.
Send ==
  /\ dnsPc = "question" /\ nextQ > Len(packet.questions)
  /\ dnsPc' = "recv"
  /\ \E ok \in BOOLEAN :
       outbox' = Append(outbox, [questions |-> packet.questions, answers |-> answers,
                                 length |-> rend, sent |-> ok])
  /\ UNCHANGED <<free, inbox, arrived, packet, nextQ, at, nameVars, rend, answers, taken>>

captdnsRecv == Question \/ labelToStr \/ Answer \/ OverrunUnnoticed \/ OverrunRestarts \/ Send

captdnsTask == CreateSocket \/ Bind \/ Receive \/ ReceiveFails \/ captdnsRecv

DnsNext == Others \/ (\E d \in Datagram : Arrive(d)) \/ captdnsTask

\* The task runs whenever it can, and does not sleep through every moment at
\* which some socket is free; the other users give sockets back.
DnsSpec ==
  /\ DnsInit /\ [][DnsNext]_dnsVars
  /\ SF_dnsVars(CreateSocket)
  /\ WF_dnsVars(Others /\ free' > free)
  /\ WF_dnsVars(Bind) /\ WF_dnsVars(Receive) /\ WF_dnsVars(captdnsRecv)

-----------------------------------------------------------------------------
(* Properties *)

\* Each reply that has room answers, in their order, exactly the questions of the
\* types the code knows, each under its own name, pointers resolved.  The device's
\* address is given with a TTL of 0: a client that has left it must not remember it.
AnswersMatchQuestions ==
  \A r \in ToSet(outbox) :
    LET known == {k \in DOMAIN r.questions : r.questions[k].type \in Answered}
    IN r.length <= DnsLen =>
         /\ Len(r.answers) = Cardinality(known)
         /\ \A k \in known :
              LET a == r.answers[Cardinality({j \in known : j <= k})] IN
              /\ a.name = LabelOctets(NameOf(r.questions, k)) \o <<0>>
              /\ a.type = r.questions[k].type
              /\ a.type = QTYPE_A => a.ttl = 0

\* The task is in captdnsRecv with a query that passed the checks.
Busy == dnsPc \in {"question", "name", "answer", "overrun"}

\* A reply never outgrows its buffer if the buffer holds the query, each of its names
\* once more and 34 octets for each question: what a record takes is bounded by what
\* its question took, pointers included.
RepliesWithRoomFit ==
  LET qs == packet.questions IN Busy /\ WorstReply(qs, Len(qs)) <= DnsLen => rend <= DnsLen

\* What strToLabel's third parameter, and the check of its result in captdnsRecv, are
\* there for: nothing is written past the end of the reply.
ReplyFits == rend <= DnsLen

\* Every query that passes the checks gets one reply, in the order received, unless
\* one that does not fit restarts the chip, and nothing else does: no datagram the
\* checks reject, no query with a name that cannot be read, even if some of its
\* questions can, and no failed recvfrom.
OneReplyPerQuery ==
  LET replied == [i \in DOMAIN outbox |-> outbox[i].questions]
      serving == Busy /\ ToAnswer(packet.questions)
  IN /\ taken = replied \o (IF serving THEN <<packet.questions>> ELSE <<>>)
     /\ Len(taken) + Len(inbox) <= arrived

\* labelToStr has come to a name that it never leaves.
Caught == dnsPc = "name" /\ Endless(packet.questions[nextQ])

\* The task always comes back to receiving: it gets its socket in the end, and no
\* query keeps it but one with a name that points to itself or has a reserved label
\* type, with which labelToStr's loop does not end.
ReturnsToReceiving == dnsPc # "recv" ~> dnsPc = "recv" \/ Caught

\* The names labelToStr can read: not the root's, whose zero octet it takes for a
\* label, and with no pointer behind a pointer, whose end it would return.
Readable(qs) ==
  \A k \in DOMAIN qs :
    /\ qs[k].labels = <<>> => qs[k].tail # 0
    /\ qs[k].tail > 0 => qs[qs[k].tail].tail <= 0

\* What is said above labelToStr, "Returns pointer to start of next fields in
\* packet": after a question, p is where the next one starts.
NextFieldsFound ==
  dnsPc = "question" => at = Len(Octets(packet.questions, nextQ - 1))
=============================================================================
