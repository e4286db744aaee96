-------------------------- MODULE DnsPacketProofs --------------------------
(* What is where in a packet of questions, for any well-formed questions: at *)
(* the start of a name its labels one after another, then its end or its     *)
(* pointer, then the type.  These are the facts about CaptDns's packets that *)
(* following the code through them needs.                                    *)
EXTENDS CaptDns, SeqInduction

Header == [i \in 1..HeaderLen |-> 0]

\* Where question j starts in the packet.
Start(qs, j) == Len(Octets(qs, j - 1))

\* The octet sequences of the first labels of a name, one label more at a time.
LabelPieces(ls) == [i \in DOMAIN ls |-> <<Len(ls[i])>> \o ls[i]]
IsParts(f, ls) ==
  /\ f[0] = <<>> /\ Pieces(f, LabelPieces(ls), Len(ls)) /\ LabelOctets(ls) = f[Len(ls)]
Parts(ls) == CHOOSE f \in [0..Len(ls) -> Seq(Nat)] : IsParts(f, ls)

Offset(ls, i) == Len(Parts(ls)[i])

-----------------------------------------------------------------------------
(* Sequences. *)

LEMMA ConcatAt ==
  ASSUME NEW S, NEW s \in Seq(S), NEW t \in Seq(S)
  PROVE  /\ s \o t \in Seq(S)
         /\ Len(s) \in Nat /\ Len(t) \in Nat /\ Len(s \o t) = Len(s) + Len(t)
         /\ \A p \in 1..Len(s) : (s \o t)[p] = s[p]
         /\ \A p \in 1..Len(t) : (s \o t)[Len(s) + p] = t[p]
<1>1. s \o t \in Seq(S) /\ Len(s) \in Nat /\ Len(t) \in Nat /\ Len(s \o t) = Len(s) + Len(t)
  BY ConcatProperties, LenProperties
<1>2. \A p \in 1..(Len(s) + Len(t)) :
        (s \o t)[p] = IF p <= Len(s) THEN s[p] ELSE t[p - Len(s)]
  BY ConcatProperties
<1>3. \A x, y \in Nat :
        /\ \A p \in 1..x : p \in 1..(x + y) /\ p <= x
        /\ \A p \in 1..y : x + p \in 1..(x + y) /\ ~(x + p <= x) /\ (x + p) - x = p
  OBVIOUS
<1> QED BY <1>1, <1>2, <1>3

LEMMA LabelTypes ==
  ASSUME NEW l \in Labels
  PROVE  /\ l \in Seq(Nat) /\ l \in Seq(0..255) /\ Len(l) \in 1..63 /\ Len(l) \in Nat
         /\ <<Len(l)>> \in Seq(Nat)
<1>1. l \in Seq(Characters) /\ Len(l) \in 1..63
  BY DEF Labels
<1>2. Characters \subseteq Nat /\ Characters \subseteq 0..255
  BY DEF Characters
<1>3. l \in Seq(Nat) /\ l \in Seq(0..255)
  BY <1>1, <1>2, SeqMonotonic, ZenonT(30)
<1>4. Len(l) \in Nat
  BY <1>1
<1> QED BY <1>1, <1>3, <1>4

LEMMA LabelPieceTypes ==
  ASSUME NEW ls \in Seq(Labels)
  PROVE  /\ LabelPieces(ls) \in Seq(Seq(Nat)) /\ Len(LabelPieces(ls)) = Len(ls)
         /\ LabelPieces(ls) \in [1..Len(ls) -> Seq(Nat)]
         /\ Len(ls) \in Nat /\ DOMAIN ls = 1..Len(ls)
         /\ \A i \in 1..Len(ls) : ls[i] \in Labels
<1>1. Len(ls) \in Nat /\ DOMAIN ls = 1..Len(ls) /\ \A i \in 1..Len(ls) : ls[i] \in Labels
  BY LenProperties, ElementOfSeq
<1>2. \A i \in 1..Len(ls) : <<Len(ls[i])>> \o ls[i] \in Seq(Nat)
  BY <1>1, LabelTypes, ConcatAt
<1>3. LabelPieces(ls) \in [1..Len(ls) -> Seq(Nat)]
  BY <1>1, <1>2 DEF LabelPieces
<1>4. LabelPieces(ls) \in Seq(Seq(Nat)) /\ Len(LabelPieces(ls)) = Len(ls)
  BY <1>1, <1>3, IsASeq, LenProperties
<1> QED BY <1>1, <1>3, <1>4

\* The parts are what they should be.
LEMMA PartsDef ==
  ASSUME NEW ls \in Seq(Labels)
  PROVE  /\ Parts(ls) \in [0..Len(ls) -> Seq(Nat)] /\ IsParts(Parts(ls), ls)
         /\ LabelOctets(ls) \in Seq(Nat)
<1>1. LabelOctets(ls) = FlattenSeq(LabelPieces(ls))
  BY DEF LabelOctets, LabelPieces
<1>2. PICK f \in [0..Len(ls) -> Seq(Nat)] : IsParts(f, ls)
  BY <1>1, FlattenPieces, LabelPieceTypes DEF IsParts
<1>3. Parts(ls) \in [0..Len(ls) -> Seq(Nat)] /\ IsParts(Parts(ls), ls)
  BY <1>2 DEF Parts
<1>4. Len(ls) \in 0..Len(ls)
  BY LabelPieceTypes
<1> QED BY <1>3, <1>4 DEF IsParts

\* Label i starts behind those before it, with its length.
LEMMA LabelAt ==
  ASSUME NEW ls \in Seq(Labels), NEW i \in 1..Len(ls)
  PROVE  /\ Offset(ls, i - 1) \in Nat /\ Offset(ls, i) = Offset(ls, i - 1) + 1 + Len(ls[i])
         /\ Offset(ls, i) <= Len(LabelOctets(ls))
         /\ LabelOctets(ls)[Offset(ls, i - 1) + 1] = Len(ls[i])
         /\ \A c \in 1..Len(ls[i]) : LabelOctets(ls)[Offset(ls, i - 1) + 1 + c] = ls[i][c]
<1> DEFINE f == Parts(ls)
           n == Len(ls)
           l == ls[i]
           b == <<Len(l)>> \o l
<1>1. /\ n \in Nat /\ i \in DOMAIN ls /\ l \in Labels
      /\ LabelPieces(ls) \in [1..n -> Seq(Nat)]
  BY LabelPieceTypes
<1>2. /\ f \in [0..n -> Seq(Nat)] /\ Pieces(f, LabelPieces(ls), n) /\ LabelOctets(ls) = f[n]
  BY PartsDef DEF IsParts
<1>3. i \in 0..n /\ i - 1 \in 0..n /\ n \in i..n
  BY <1>1
<1>4. f[i] = f[i - 1] \o b /\ f[i - 1] \in Seq(Nat)
  BY <1>1, <1>2, <1>3 DEF Pieces, LabelPieces
<1>5. <<Len(l)>> \in Seq(Nat) /\ l \in Seq(Nat) /\ Len(l) \in 1..63 /\ Len(<<Len(l)>>) = 1
  BY <1>1, LabelTypes
<1>6. /\ b \in Seq(Nat) /\ Len(b) = 1 + Len(l) /\ b[1] = Len(l)
      /\ \A c \in 1..Len(l) : b[1 + c] = l[c]
  <2>1. /\ b \in Seq(Nat) /\ Len(b) = Len(<<Len(l)>>) + Len(l)
        /\ \A p \in 1..Len(<<Len(l)>>) : b[p] = <<Len(l)>>[p]
        /\ \A p \in 1..Len(l) : b[Len(<<Len(l)>>) + p] = l[p]
    BY <1>5, ConcatAt
  <2> QED BY <1>5, <2>1
<1> HIDE DEF b, l, f, n
<1>7. /\ Len(f[i - 1]) \in Nat /\ Len(f[i]) = Len(f[i - 1]) + Len(b)
      /\ \A p \in 1..Len(b) : f[i][Len(f[i - 1]) + p] = b[p]
  <2>1. /\ Len(f[i - 1]) \in Nat /\ Len(f[i - 1] \o b) = Len(f[i - 1]) + Len(b)
        /\ \A p \in 1..Len(b) : (f[i - 1] \o b)[Len(f[i - 1]) + p] = b[p]
    <3>1. f[i - 1] \in Seq(Nat) /\ b \in Seq(Nat)
      BY <1>4, <1>6
    <3> QED BY ONLY <3>1, ConcatAt
  <2> QED BY <1>4, <2>1
<1>8. Len(f[i]) <= Len(f[n]) /\ \A p \in 1..Len(f[i]) : f[n][p] = f[i][p]
  BY <1>1, <1>2, <1>3, PiecesKeepFront
<1>9. \A x \in Nat, y \in 1..63, z \in Nat : z = 1 + y =>
        /\ 1 \in 1..z /\ x + 1 \in 1..(x + z) /\ x + z = x + 1 + y
        /\ \A c \in 1..y : 1 + c \in 1..z /\ x + 1 + c = x + (1 + c) /\ x + (1 + c) \in 1..(x + z)
  OBVIOUS
<1> DEFINE x == Len(f[i - 1])
<1>10. x \in Nat /\ Len(l) \in 1..63 /\ Len(b) = 1 + Len(l) /\ Len(b) \in Nat /\ Len(f[i]) = x + Len(b)
  BY <1>5, <1>6, <1>7
<1> HIDE DEF x
<1>11. /\ 1 \in 1..Len(b) /\ x + 1 \in 1..Len(f[i]) /\ Len(f[i]) = x + 1 + Len(l)
       /\ \A c \in 1..Len(l) : /\ 1 + c \in 1..Len(b) /\ x + 1 + c = x + (1 + c)
                             /\ x + (1 + c) \in 1..Len(f[i])
  BY ONLY <1>9, <1>10
<1>12. \A p \in 1..Len(b) : f[i][x + p] = b[p]
  BY <1>7 DEF x
<1>13. f[n][x + 1] = Len(l)
  BY ONLY <1>6, <1>8, <1>11, <1>12
<1>14. \A c \in 1..Len(l) : f[n][x + 1 + c] = l[c]
  BY ONLY <1>6, <1>8, <1>11, <1>12
<1> QED BY <1>2, <1>8, <1>10, <1>11, <1>13, <1>14 DEF Offset, f, l, n, x

LEMMA OffsetEnds ==
  ASSUME NEW ls \in Seq(Labels)
  PROVE  /\ Offset(ls, 0) = 0 /\ Offset(ls, Len(ls)) = Len(LabelOctets(ls))
         /\ Len(LabelOctets(ls)) \in Nat
BY PartsDef, LenProperties DEF IsParts, Offset

\* A name that has a label takes two octets at least.
LEMMA LabelsTakeRoom ==
  ASSUME NEW ls \in Seq(Labels), ls # <<>>
  PROVE  Len(LabelOctets(ls)) >= 2
<1>1. 1 \in 1..Len(ls)
  BY LabelPieceTypes, EmptySeq
<1>2. ls[1] \in Labels
  BY <1>1, LabelPieceTypes
<1>3. Len(ls[1]) \in 1..63
  BY <1>2, LabelTypes
<1>4. /\ Offset(ls, 1 - 1) \in Nat /\ Offset(ls, 1) = Offset(ls, 1 - 1) + 1 + Len(ls[1])
      /\ Offset(ls, 1) <= Len(LabelOctets(ls)) /\ Len(LabelOctets(ls)) \in Nat
  BY <1>1, LabelAt, OffsetEnds
<1>5. \A x, z \in Nat, y \in 1..63 : x + 1 + y <= z => z >= 2
  OBVIOUS
<1> QED BY <1>3, <1>4, <1>5

-----------------------------------------------------------------------------
(* Questions. *)

EndSize(q) == IF q.tail \in {0, Reserved} THEN 1 ELSE 2

\* A tail is a number.
LEMMA TailTypes == Tails \subseteq Int /\ \A x \in Tails : x > 0 => x \in Nat
BY DEF Tails, Outside, Itself, Reserved

LEMMA QuestionTypes ==
  ASSUME NEW qs, WellFormed(qs)
  PROVE  /\ Len(qs) \in Nat /\ DOMAIN qs = 1..Len(qs)
         /\ \A j \in 1..Len(qs) :
              /\ qs[j] \in Questions /\ qs[j].labels \in Seq(Labels)
              /\ qs[j].type \in TypeCodes
              /\ qs[j].tail \in Tails /\ qs[j].tail \in Int /\ qs[j].tail < j
              /\ qs[j].tail > 0 => qs[j].tail \in 1..Len(qs) /\ qs[j].tail - 1 \in 0..(j - 2)
<1>1. qs \in Seq(Questions) /\ \A k \in DOMAIN qs : qs[k].tail < k
  BY DEF WellFormed
<1>2. Len(qs) \in Nat /\ DOMAIN qs = 1..Len(qs) /\ \A j \in 1..Len(qs) : qs[j] \in Questions
  BY <1>1, LenProperties, ElementOfSeq
<1>3. ASSUME NEW q \in Questions
      PROVE q.labels \in Seq(Labels) /\ q.type \in TypeCodes /\ q.tail \in Tails
  BY DEF Questions
<1>4. \A x, n, j \in Nat : j <= n /\ x > 0 /\ x < j => x \in 1..n /\ x - 1 \in 0..(j - 2)
  OBVIOUS
<1>5. \A q \in Questions : q.tail \in Int /\ (q.tail > 0 => q.tail \in Nat)
  BY <1>3, TailTypes
<1>6. \A j \in 1..Len(qs) : qs[j].tail > 0 => qs[j].tail \in 1..Len(qs) /\ qs[j].tail - 1 \in 0..(j - 2)
  BY <1>1, <1>2, <1>4, <1>5
<1> QED BY <1>1, <1>2, <1>3, <1>5, <1>6

LEMMA EncodedAt ==
  ASSUME NEW q \in Questions, NEW start \in Nat
  PROVE  /\ Encoded(q, start) \in Seq(Nat) /\ NameSize(q) \in Nat
         /\ Len(Encoded(q, start)) = NameSize(q) + EndSize(q) + 4
         /\ \A p \in 1..NameSize(q) : Encoded(q, start)[p] = LabelOctets(q.labels)[p]
         /\ q.tail = 0 => Encoded(q, start)[NameSize(q) + 1] = 0
         /\ q.tail = Reserved => Encoded(q, start)[NameSize(q) + 1] = 64
         /\ q.tail \notin {0, Reserved} =>
              /\ Encoded(q, start)[NameSize(q) + 1] = 192 + start \div 256
              /\ Encoded(q, start)[NameSize(q) + 2] = start % 256
         /\ Encoded(q, start)[NameSize(q) + EndSize(q) + 1] = q.type \div 256
         /\ Encoded(q, start)[NameSize(q) + EndSize(q) + 2] = q.type % 256
<1> DEFINE s == LabelOctets(q.labels)
           t == EndOctets(q, start)
           n == NameSize(q)
           m == EndSize(q)
           u == Two(q.type)
           v == Two(1)
           st == s \o t
           stu == st \o u
           e == stu \o v
<1>1. q.labels \in Seq(Labels) /\ q.type \in Nat
  <2>1. TypeCodes \subseteq Nat
    BY DEF TypeCodes
  <2> QED BY <2>1 DEF Questions
<1>2. s \in Seq(Nat) /\ n \in Nat /\ n = Len(s)
  BY <1>1, PartsDef, OffsetEnds DEF NameSize
<1>3. /\ t \in Seq(Nat) /\ Len(t) = m /\ m \in 1..2
      /\ q.tail = 0 => t[1] = 0
      /\ q.tail = Reserved => t[1] = 64
      /\ q.tail \notin {0, Reserved} => t[1] = 192 + start \div 256 /\ t[2] = start % 256
  <2>1. 192 + start \div 256 \in Nat /\ start % 256 \in Nat
    OBVIOUS
  <2>2. CASE q.tail = 0
    BY <2>2 DEF EndOctets, EndSize, Reserved
  <2>3. CASE q.tail = Reserved
    BY <2>3 DEF EndOctets, EndSize, Reserved
  <2>4. CASE q.tail \notin {0, Reserved}
    BY <2>1, <2>4 DEF EndOctets, Pointer, EndSize, Reserved
  <2> QED BY <2>2, <2>3, <2>4
<1>4. u \in Seq(Nat) /\ Len(u) = 2 /\ u[1] = q.type \div 256 /\ u[2] = q.type % 256
  <2>1. q.type \div 256 \in Nat /\ q.type % 256 \in Nat
    BY <1>1
  <2> QED BY <2>1 DEF Two
<1>5. v \in Seq(Nat) /\ Len(v) = 2
  <2>1. 1 \div 256 \in Nat /\ 1 % 256 \in Nat
    OBVIOUS
  <2> QED BY <2>1 DEF Two
<1>6. e = Encoded(q, start)
  BY DEF Encoded
<1>7. Len(s) = n /\ n \in Nat
  BY <1>2
<1> HIDE DEF s, t, u, v
<1>8. /\ st \in Seq(Nat) /\ Len(st) = n + m
      /\ \A p \in 1..n : st[p] = s[p]
      /\ \A p \in 1..m : st[n + p] = t[p]
  BY <1>2, <1>3, <1>7, ConcatAt
<1> HIDE DEF st
<1>9. /\ stu \in Seq(Nat) /\ Len(stu) = n + m + 2
      /\ \A p \in 1..(n + m) : stu[p] = st[p]
      /\ \A p \in 1..2 : stu[n + m + p] = u[p]
  <2>1. /\ stu \in Seq(Nat) /\ Len(stu) = Len(st) + Len(u)
        /\ \A p \in 1..Len(st) : stu[p] = st[p]
        /\ \A p \in 1..Len(u) : stu[Len(st) + p] = u[p]
    <3>1. st \in Seq(Nat) /\ u \in Seq(Nat)
      BY <1>4, <1>8
    <3> QED BY ONLY <3>1, ConcatAt
  <2> QED BY <1>4, <1>8, <2>1
<1> HIDE DEF stu
<1>10. /\ e \in Seq(Nat) /\ Len(e) = n + m + 2 + 2
       /\ \A p \in 1..(n + m + 2) : e[p] = stu[p]
  <2>1. /\ e \in Seq(Nat) /\ Len(e) = Len(stu) + Len(v)
        /\ \A p \in 1..Len(stu) : e[p] = stu[p]
    <3>1. stu \in Seq(Nat) /\ v \in Seq(Nat)
      BY <1>5, <1>9
    <3> QED BY ONLY <3>1, ConcatAt
  <2> QED BY <1>5, <1>9, <2>1
<1> HIDE DEF e
<1>11. /\ \A p \in 1..n : p \in 1..(n + m) /\ p \in 1..(n + m + 2)
       /\ \A p \in 1..m : n + p \in 1..(n + m) /\ n + p \in 1..(n + m + 2)
       /\ \A p \in 1..2 : n + m + p \in 1..(n + m + 2)
       /\ n + m + 2 + 2 = n + m + 4
  BY <1>3, <1>7
<1>12. /\ \A p \in 1..n : e[p] = s[p]
       /\ \A p \in 1..m : e[n + p] = t[p]
       /\ \A p \in 1..2 : e[n + m + p] = u[p]
  BY <1>8, <1>9, <1>10, <1>11
<1>13. /\ q.tail = 0 => e[n + 1] = 0
       /\ q.tail = Reserved => e[n + 1] = 64
       /\ q.tail \notin {0, Reserved} => e[n + 1] = 192 + start \div 256 /\ e[n + 2] = start % 256
  <2>1. 1 \in 1..m /\ (q.tail \notin {0, Reserved} => 2 \in 1..m)
    BY DEF m, EndSize
  <2> QED BY <1>3, <1>12, <2>1
<1>14. e[n + m + 1] = q.type \div 256 /\ e[n + m + 2] = q.type % 256
  BY <1>4, <1>12
<1>15. Len(e) = n + m + 4 /\ e \in Seq(Nat)
  BY <1>10, <1>11
<1> QED BY <1>6, <1>7, <1>12, <1>13, <1>14, <1>15 DEF s, m, n

-----------------------------------------------------------------------------
(* Packets. *)

\* Where the pointer of question j leads, if it has one, and its octets.
TailStart(qs, j) ==
  IF qs[j].tail > 0 THEN Start(qs, qs[j].tail)
  ELSE IF qs[j].tail = Itself THEN Start(qs, j) + NameSize(qs[j]) ELSE FarOffset
QuestionOctets(qs, j) == Encoded(qs[j], TailStart(qs, j))

\* The octets of question j when those of the packet up to question k are o[k].
EncodedAfter(o, qs, j) ==
  Encoded(qs[j],
    IF qs[j].tail > 0 THEN Len(o[qs[j].tail - 1])
    ELSE IF qs[j].tail = Itself THEN Len(o[j - 1]) + NameSize(qs[j]) ELSE FarOffset)
Builds(o, qs, k) ==
  o = [j \in 0..k |-> IF j = 0 THEN Header ELSE o[j - 1] \o EncodedAfter(o, qs, j)]

LEMMA EncodedAfterType ==
  ASSUME NEW qs, WellFormed(qs), NEW j \in 1..Len(qs), NEW o,
         \A i \in 0..(j - 1) : o[i] \in Seq(Nat)
  PROVE  o[j - 1] \o EncodedAfter(o, qs, j) \in Seq(Nat)
<1>1. /\ qs[j] \in Questions /\ j \in Nat /\ Len(qs) \in Nat
      /\ qs[j].tail > 0 => qs[j].tail - 1 \in 0..(j - 2)
  BY QuestionTypes
<1>2. qs[j].tail > 0 => Len(o[qs[j].tail - 1]) \in Nat
  <2>1. qs[j].tail > 0 => qs[j].tail - 1 \in 0..(j - 1)
    BY <1>1
  <2> QED BY <2>1, LenProperties
<1>3. o[j - 1] \in Seq(Nat) /\ Len(o[j - 1]) \in Nat
  <2>1. j - 1 \in 0..(j - 1)
    BY <1>1
  <2> QED BY <2>1, LenProperties
<1>4. FarOffset \in Nat /\ Len(o[j - 1]) + NameSize(qs[j]) \in Nat
  BY <1>1, <1>3, EncodedAt DEF FarOffset
<1>5. EncodedAfter(o, qs, j) \in Seq(Nat)
  BY <1>1, <1>2, <1>4, EncodedAt DEF EncodedAfter
<1> QED BY ONLY <1>3, <1>5, ConcatAt

LEMMA HeaderType == Header \in Seq(Nat) /\ Len(Header) = HeaderLen /\ HeaderLen \in Nat
<1>1. Header \in [1..HeaderLen -> Nat] /\ HeaderLen \in Nat
  BY DEF Header, HeaderLen
<1> HIDE DEF Header
<1> QED BY <1>1, IsASeq, LenProperties

\* There are packets as the encoding defines them.
LEMMA PacketsExist ==
  ASSUME NEW qs, WellFormed(qs)
  PROVE  \E o \in [0..Len(qs) -> Seq(Nat)] : Builds(o, qs, Len(qs))
<1> DEFINE n == Len(qs)
           Built(k) == \E o \in [0..k -> Seq(Nat)] : Builds(o, qs, k)
           T == {k \in 0..n : Built(k)}
<1>1. n \in Nat
  BY QuestionTypes
<1>2. 0 \in T
  <2> DEFINE o == [j \in 0..0 |-> Header]
  <2>1. o \in [0..0 -> Seq(Nat)]
    BY HeaderType
  <2>2. Builds(o, qs, 0)
    BY DEF Builds
  <2> HIDE DEF o
  <2>3. Built(0)
    BY <2>1, <2>2
  <2> HIDE DEF Built
  <2> QED BY <1>1, <2>3
<1>3. ASSUME NEW k \in 0..(n - 1), k \in T PROVE k + 1 \in T
  <2>1. PICK o \in [0..k -> Seq(Nat)] : Builds(o, qs, k)
    BY <1>3
  <2>2. k + 1 \in 1..n /\ k \in 0..k /\ (k + 1) - 1 = k /\ k \in Nat
    BY <1>1
  <2> DEFINE new == o[k] \o EncodedAfter(o, qs, k + 1)
             g == [j \in 0..(k + 1) |-> IF j = k + 1 THEN new ELSE o[j]]
  <2>3. new \in Seq(Nat)
    <3>1. \A i \in 0..((k + 1) - 1) : o[i] \in Seq(Nat)
      BY <2>2
    <3>2. o[(k + 1) - 1] \o EncodedAfter(o, qs, k + 1) \in Seq(Nat)
      BY <2>2, <3>1, EncodedAfterType
    <3> QED BY <2>2, <3>2
  <2> HIDE DEF new
  <2>4. g \in [0..(k + 1) -> Seq(Nat)]
    BY <2>2, <2>3
  <2>5. /\ \A j \in 0..k : g[j] = o[j]
        /\ g[k + 1] = new
    BY <2>2
  <2>6. \A j \in 1..(k + 1) : EncodedAfter(g, qs, j) = EncodedAfter(o, qs, j)
    <3> SUFFICES ASSUME NEW j \in 1..(k + 1)
                 PROVE  EncodedAfter(g, qs, j) = EncodedAfter(o, qs, j)
      OBVIOUS
    <3>1. j \in 1..n
      BY <1>1, <2>2
    <3>2. qs[j].tail > 0 => qs[j].tail - 1 \in 0..(j - 2)
      BY <3>1, QuestionTypes
    <3>3. (qs[j].tail > 0 => qs[j].tail - 1 \in 0..k) /\ j - 1 \in 0..k
      BY <2>2, <3>2
    <3> QED BY <2>5, <3>3 DEF EncodedAfter
  <2>7. ASSUME NEW j \in 0..(k + 1)
        PROVE  g[j] = IF j = 0 THEN Header ELSE g[j - 1] \o EncodedAfter(g, qs, j)
    <3>1. CASE j = k + 1
      <4>1. j \in 1..(k + 1) /\ j # 0 /\ j - 1 = k
        BY <2>2, <3>1
      <4> QED BY <2>2, <2>5, <2>6, <3>1, <4>1 DEF new
    <3>2. CASE j = 0
      <4>1. o[0] = Header
        BY <2>1, <2>2 DEF Builds
      <4> QED BY <2>2, <2>5, <3>2, <4>1
    <3>3. CASE j \in 1..k
      <4>1. j \in 0..k /\ j - 1 \in 0..k /\ j # 0 /\ j \in 1..(k + 1)
        BY <2>2, <3>3
      <4>2. o[j] = o[j - 1] \o EncodedAfter(o, qs, j)
        BY <2>1, <4>1 DEF Builds
      <4> QED BY <2>5, <2>6, <4>1, <4>2
    <3> QED BY <2>2, <3>1, <3>2, <3>3
  <2>8. Builds(g, qs, k + 1)
    BY <2>7 DEF Builds
  <2> HIDE DEF g
  <2>9. Built(k + 1)
    BY <2>4, <2>8
  <2>10. k + 1 \in 0..n
    BY <2>2, <1>1
  <2> HIDE DEF Built
  <2> QED BY <2>9, <2>10
<1>4. n \in T
  <2> HIDE DEF T
  <2>1. \A k \in 0..n : k \in T
    BY <1>1, <1>2, <1>3, InductionUpTo
  <2> QED BY <1>1, <2>1
<1> QED BY <1>4

\* Question j is appended to those before it.
LEMMA OctetsDef ==
  ASSUME NEW qs, WellFormed(qs)
  PROVE  /\ \A k \in 0..Len(qs) : Octets(qs, k) \in Seq(Nat)
         /\ Octets(qs, 0) = Header
         /\ \A j \in 1..Len(qs) : Octets(qs, j) = Octets(qs, j - 1) \o QuestionOctets(qs, j)
<1> DEFINE n == Len(qs)
           Is(o) == o = [j \in 0..n |->
                           IF j = 0 THEN Header
                           ELSE o[j - 1] \o Encoded(qs[j],
                                  IF qs[j].tail > 0 THEN Len(o[qs[j].tail - 1])
                                  ELSE IF qs[j].tail = Itself
                                       THEN Len(o[j - 1]) + NameSize(qs[j]) ELSE FarOffset)]
           h == CHOOSE o : Is(o)
<1>1. n \in Nat
  BY QuestionTypes
<1>2. \A k \in 0..n : Octets(qs, k) = h[k]
  BY DEF Octets, Header
<1>3. Is(h)
  <2>1. \A o : Is(o) <=> Builds(o, qs, n)
    BY DEF Builds, EncodedAfter
  <2> HIDE DEF Is
  <2> QED BY <2>1, PacketsExist
<1> HIDE DEF h
<1>4. /\ h[0] = Header
      /\ \A j \in 1..n : h[j] = h[j - 1] \o EncodedAfter(h, qs, j)
  <2>1. 0 \in 0..n /\ \A j \in 1..n : j \in 0..n /\ j # 0
    BY <1>1
  <2> QED BY <1>3, <2>1 DEF EncodedAfter
<1> HIDE DEF Is
<1>5. \A k \in 0..n : h[k] \in Seq(Nat)
  <2> DEFINE T == {k \in 0..n : h[k] \in Seq(Nat)}
  <2>1. ASSUME NEW k \in 0..n, \A m \in 0..(k - 1) : m \in T PROVE k \in T
    <3>1. CASE k = 0
      BY <1>4, <3>1, HeaderType
    <3>2. CASE k # 0
      <4>1. k \in 1..n
        BY <1>1, <3>2
      <4>2. h[k - 1] \o EncodedAfter(h, qs, k) \in Seq(Nat)
        BY <2>1, <4>1, EncodedAfterType
      <4> QED BY <1>4, <4>1, <4>2
    <3> QED BY <3>1, <3>2
  <2>2. \A k \in 0..n : k \in T
    <3> HIDE DEF T
    <3> QED BY <1>1, <2>1, StrongInductionUpTo
  <2> QED BY <2>2
<1>6. ASSUME NEW j \in 1..n PROVE EncodedAfter(h, qs, j) = QuestionOctets(qs, j)
  <2>1. qs[j].tail > 0 => qs[j].tail - 1 \in 0..(j - 2)
    BY QuestionTypes
  <2>2. (qs[j].tail > 0 => qs[j].tail - 1 \in 0..n) /\ j - 1 \in 0..n
    BY <1>1, <2>1
  <2> QED BY <1>2, <2>2 DEF EncodedAfter, QuestionOctets, TailStart, Start
<1>7. \A j \in 1..n : j \in 0..n /\ j - 1 \in 0..n
  BY <1>1
<1>8. \A k \in 0..n : Octets(qs, k) \in Seq(Nat)
  BY <1>2, <1>5
<1>9. Octets(qs, 0) = Header
  BY <1>1, <1>2, <1>4
<1>10. ASSUME NEW j \in 1..n PROVE Octets(qs, j) = Octets(qs, j - 1) \o QuestionOctets(qs, j)
  BY <1>2, <1>4, <1>6, <1>7
<1> QED BY <1>8, <1>9, <1>10

\* Where a question starts and ends, and that the packet holds its octets there.
LEMMA QuestionAt ==
  ASSUME NEW qs, WellFormed(qs), NEW j \in 1..Len(qs)
  PROVE  /\ Start(qs, j) \in Nat /\ TailStart(qs, j) \in Nat
         /\ QuestionOctets(qs, j) \in Seq(Nat)
         /\ Len(Octets(qs, j)) = Start(qs, j) + Len(QuestionOctets(qs, j))
         /\ Len(Octets(qs, j)) <= Len(Packet(qs)) /\ Len(Packet(qs)) \in Nat
         /\ \A p \in 1..Len(QuestionOctets(qs, j)) :
              Packet(qs)[Start(qs, j) + p] = QuestionOctets(qs, j)[p]
<1> DEFINE n == Len(qs)
           q == QuestionOctets(qs, j)
           before == Octets(qs, j - 1)
           f == [k \in 0..n |-> Octets(qs, k)]
           b == [k \in 1..n |-> QuestionOctets(qs, k)]
<1>1. /\ n \in Nat /\ j - 1 \in 0..n /\ j \in 0..n /\ n \in j..n
      /\ \A k \in 1..n : k \in 0..n /\ k - 1 \in 0..n
  BY QuestionTypes
<1>2. \A k \in 1..n : TailStart(qs, k) \in Nat /\ QuestionOctets(qs, k) \in Seq(Nat)
  <2> SUFFICES ASSUME NEW k \in 1..n
               PROVE  TailStart(qs, k) \in Nat /\ QuestionOctets(qs, k) \in Seq(Nat)
    OBVIOUS
  <2>1. qs[k] \in Questions /\ (qs[k].tail > 0 => qs[k].tail \in 1..n)
    BY QuestionTypes
  <2>2. TailStart(qs, k) \in Nat
    <3>1. CASE qs[k].tail > 0
      <4>1. Octets(qs, qs[k].tail - 1) \in Seq(Nat)
        BY <1>1, <2>1, <3>1, OctetsDef
      <4> QED BY <3>1, <4>1, LenProperties DEF TailStart, Start
    <3>2. CASE ~(qs[k].tail > 0)
      <4>1. Octets(qs, k - 1) \in Seq(Nat)
        BY <1>1, OctetsDef
      <4>2. Start(qs, k) \in Nat /\ NameSize(qs[k]) \in Nat
        BY <2>1, <4>1, LenProperties, EncodedAt DEF Start
      <4> QED BY <3>2, <4>2 DEF TailStart, FarOffset
    <3> QED BY <3>1, <3>2
  <2> QED BY <2>1, <2>2, EncodedAt DEF QuestionOctets
<1>3. before \in Seq(Nat) /\ q \in Seq(Nat) /\ Octets(qs, j) = before \o q
  BY <1>1, <1>2, OctetsDef
<1>4. /\ Len(before) \in Nat /\ Len(before \o q) = Len(before) + Len(q) /\ Len(q) \in Nat
      /\ \A p \in 1..Len(q) : (before \o q)[Len(before) + p] = q[p]
  <2>1. before \in Seq(Nat) /\ q \in Seq(Nat)
    BY <1>3
  <2> HIDE DEF before, q
  <2> QED BY ONLY <2>1, ConcatAt
<1>5. f \in [0..n -> Seq(Nat)] /\ b \in [1..n -> Seq(Nat)] /\ Pieces(f, b, n)
  <2>1. f \in [0..n -> Seq(Nat)]
    BY OctetsDef
  <2>2. b \in [1..n -> Seq(Nat)]
    BY <1>2
  <2>3. ASSUME NEW k \in 1..n PROVE f[k] = f[k - 1] \o b[k]
    <3>1. Octets(qs, k) = Octets(qs, k - 1) \o QuestionOctets(qs, k)
      BY OctetsDef
    <3> QED BY <1>1, <3>1
  <2> HIDE DEF f, b
  <2> QED BY <2>1, <2>2, <2>3 DEF Pieces
<1>6. f[j] = Octets(qs, j) /\ f[n] = Packet(qs)
  BY <1>1 DEF Packet
<1>7. Len(f[j]) <= Len(f[n]) /\ \A p \in 1..Len(f[j]) : f[n][p] = f[j][p]
  <2> HIDE DEF f, b, n
  <2> QED BY <1>1, <1>5, PiecesKeepFront, ZenonT(30)
<1>8. Len(Packet(qs)) \in Nat
  <2>1. Packet(qs) \in Seq(Nat)
    BY <1>1, OctetsDef DEF Packet
  <2> QED BY <2>1, LenProperties
<1>9. \A x, y \in Nat : \A p \in 1..y : x + p \in 1..(x + y)
  OBVIOUS
<1>10. \A p \in 1..Len(q) : Packet(qs)[Len(before) + p] = q[p]
  <2> HIDE DEF f, b, n, before, q
  <2> QED BY <1>3, <1>4, <1>6, <1>7, <1>9
<1> QED BY <1>2, <1>3, <1>4, <1>6, <1>7, <1>8, <1>10 DEF Start

LEMMA QuestionOctetsAt ==
  ASSUME NEW qs, WellFormed(qs), NEW j \in 1..Len(qs)
  PROVE  /\ NameSize(qs[j]) \in Nat /\ EndSize(qs[j]) \in 1..2
         /\ Len(QuestionOctets(qs, j)) = NameSize(qs[j]) + EndSize(qs[j]) + 4
         /\ \A x \in 1..NameSize(qs[j]) :
              QuestionOctets(qs, j)[x] = LabelOctets(qs[j].labels)[x]
         /\ qs[j].tail = 0 => QuestionOctets(qs, j)[NameSize(qs[j]) + 1] = 0
         /\ qs[j].tail = Reserved => QuestionOctets(qs, j)[NameSize(qs[j]) + 1] = 64
         /\ qs[j].tail \notin {0, Reserved} =>
              /\ QuestionOctets(qs, j)[NameSize(qs[j]) + 1] = 192 + TailStart(qs, j) \div 256
              /\ QuestionOctets(qs, j)[NameSize(qs[j]) + 2] = (TailStart(qs, j) % 256)
         /\ QuestionOctets(qs, j)[NameSize(qs[j]) + EndSize(qs[j]) + 1] = qs[j].type \div 256
         /\ QuestionOctets(qs, j)[NameSize(qs[j]) + EndSize(qs[j]) + 2] = (qs[j].type % 256)
<1>1. qs[j] \in Questions
  BY QuestionTypes
<1>2. TailStart(qs, j) \in Nat
  BY QuestionAt
<1>3. EndSize(qs[j]) \in 1..2
  BY DEF EndSize
<1> DEFINE q == qs[j]
           start == TailStart(qs, j)
<1> HIDE DEF q, start
<1>4. q \in Questions /\ start \in Nat
  BY <1>1, <1>2 DEF q, start
<1>5. /\ NameSize(q) \in Nat
      /\ Len(Encoded(q, start)) = NameSize(q) + EndSize(q) + 4
      /\ \A x \in 1..NameSize(q) : Encoded(q, start)[x] = LabelOctets(q.labels)[x]
  BY ONLY <1>4, EncodedAt, ZenonT(30)
<1>6. /\ q.tail = 0 => Encoded(q, start)[NameSize(q) + 1] = 0
      /\ q.tail = Reserved => Encoded(q, start)[NameSize(q) + 1] = 64
  BY ONLY <1>4, EncodedAt
<1>8. ASSUME q.tail \notin {0, Reserved}
      PROVE  /\ Encoded(q, start)[NameSize(q) + 1] = 192 + start \div 256
             /\ Encoded(q, start)[NameSize(q) + 2] = (start % 256)
  BY ONLY <1>4, <1>8, EncodedAt
<1>7. /\ Encoded(q, start)[NameSize(q) + EndSize(q) + 1] = q.type \div 256
      /\ Encoded(q, start)[NameSize(q) + EndSize(q) + 2] = (q.type % 256)
  BY ONLY <1>4, EncodedAt
<1> QED BY <1>3, <1>5, <1>6, <1>7, <1>8 DEF QuestionOctets, q, start

\* What a turn of labelToStr's loop finds at a label: its length and its characters.
LEMMA AtLabel ==
  ASSUME NEW qs, WellFormed(qs), NEW j \in 1..Len(qs), NEW i \in 1..Len(qs[j].labels),
         NEW p, p = Start(qs, j) + Offset(qs[j].labels, i - 1)
  PROVE  /\ p \in Nat /\ Packet(qs)[p + 1] \in 1..63
         /\ After(Packet(qs), p) = Start(qs, j) + Offset(qs[j].labels, i)
         /\ After(Packet(qs), p) < Len(Packet(qs)) /\ After(Packet(qs), p) \in Nat
         /\ SubSeq(Packet(qs), p + 2, After(Packet(qs), p)) = qs[j].labels[i]
<1> DEFINE ls  == qs[j].labels
           l   == ls[i]
           off == Offset(ls, i - 1)
           st  == Start(qs, j)
           pkt == Packet(qs)
           q   == QuestionOctets(qs, j)
           len == Len(l)
           size == NameSize(qs[j])
           end == EndSize(qs[j])
           total == Len(pkt)
           next == Offset(ls, i)
           part == SubSeq(pkt, p + 2, p + 1 + len)
<1>1. qs[j] \in Questions /\ ls \in Seq(Labels) /\ l \in Labels
  <2>1. qs[j] \in Questions /\ ls \in Seq(Labels)
    BY QuestionTypes
  <2> QED BY <2>1, LabelPieceTypes
<1>2. len \in 1..63 /\ l \in Seq(Nat) /\ DOMAIN l = 1..len
  BY <1>1, LabelTypes, LenProperties
<1>3. /\ off \in Nat /\ next = off + 1 + len /\ next <= size
      /\ LabelOctets(ls)[off + 1] = len
      /\ \A c \in 1..len : LabelOctets(ls)[off + 1 + c] = l[c]
  BY <1>1, LabelAt DEF NameSize
<1>4. st \in Nat /\ total \in Nat
  BY QuestionAt
<1>5. /\ size \in Nat /\ end \in 1..2 /\ Len(q) = size + end + 4
      /\ \A x \in 1..size : q[x] = LabelOctets(ls)[x]
  BY QuestionOctetsAt
<1>6. /\ st + Len(q) <= total
      /\ \A x \in 1..Len(q) : pkt[st + x] = q[x]
  BY QuestionAt
<1>7. p = st + off
  OBVIOUS
<1> HIDE DEF ls, l, off, st, pkt, q, len, size, end, total, next, part
<1>8. /\ \A x \in 1..size : x \in 1..Len(q)
      /\ off + 1 \in 1..size /\ \A c \in 1..len : off + 1 + c \in 1..size
  <2>1. \A x \in Nat, y \in 1..63, z \in Nat : x + 1 + y <= z =>
          x + 1 \in 1..z /\ \A c \in 1..y : x + 1 + c \in 1..z
    OBVIOUS
  <2> QED BY ONLY <2>1, <1>2, <1>3, <1>5
<1>9. \A x \in 1..size : pkt[st + x] = LabelOctets(ls)[x]
  BY ONLY <1>5, <1>6, <1>8
<1>10. pkt[st + (off + 1)] = len /\ \A c \in 1..len : pkt[st + (off + 1 + c)] = l[c]
  BY ONLY <1>3, <1>8, <1>9
<1>11. /\ p \in Nat /\ p + 1 = st + (off + 1)
       /\ \A c \in 1..len : p + 1 + c = st + (off + 1 + c)
  BY ONLY <1>2, <1>3, <1>4, <1>7
<1>12. pkt[p + 1] = len /\ \A c \in 1..len : pkt[p + 1 + c] = l[c]
  BY ONLY <1>10, <1>11
<1>13. After(pkt, p) = p + 1 + len
  <2>1. len < 64 /\ ~(len >= 192)
    BY ONLY <1>2
  <2> QED BY ONLY <1>12, <2>1 DEF After
<1>14. p + 1 + len = st + next /\ p + 1 + len < total /\ p + 1 + len \in Nat
  BY ONLY <1>2, <1>3, <1>4, <1>5, <1>6, <1>7
<1>15. part = l
  <2>1. \A x \in Nat, y \in 1..63 :
          /\ x + 2 \in Int /\ x + 1 + y \in Int /\ x + 2 <= x + 1 + y
          /\ (x + 1 + y) - (x + 2) + 1 = y
          /\ \A c \in 1..y : (x + 2) + c - 1 = x + 1 + c
          /\ \A z \in (x + 2)..(x + 1 + y) : z - (x + 1) \in 1..y /\ x + 1 + (z - (x + 1)) = z
    OBVIOUS
  <2>2. /\ p + 2 \in Int /\ p + 1 + len \in Int /\ p + 2 <= p + 1 + len
        /\ (p + 1 + len) - (p + 2) + 1 = len
        /\ \A c \in 1..len : (p + 2) + c - 1 = p + 1 + c
        /\ \A z \in (p + 2)..(p + 1 + len) : z - (p + 1) \in 1..len /\ p + 1 + (z - (p + 1)) = z
    BY ONLY <2>1, <1>2, <1>11
  <2>3. \A c \in 1..len : l[c] \in Nat
    BY <1>2, ElementOfSeq DEF len
  <2>4. \A z \in (p + 2)..(p + 1 + len) : pkt[z] \in Nat
    BY ONLY <1>12, <2>2, <2>3, ZenonT(30)
  <2>5. /\ part \in Seq(Nat)
        /\ Len(part) = len
        /\ \A c \in 1..len : part[c] = pkt[(p + 2) + c - 1]
    BY ONLY <2>2, <2>4, SubSeqProperties DEF part
  <2>6. \A c \in 1..len : part[c] = l[c]
    BY ONLY <1>12, <2>2, <2>5
  <2>7. Len(part) = Len(l)
    BY <2>5 DEF len
  <2> QED BY <1>2, <2>5, <2>6, <2>7, SeqEqual
<1>16. /\ p \in Nat /\ pkt[p + 1] \in 1..63
       /\ After(pkt, p) = st + next /\ After(pkt, p) < total /\ After(pkt, p) \in Nat
       /\ SubSeq(pkt, p + 2, After(pkt, p)) = l
  BY ONLY <1>2, <1>11, <1>12, <1>13, <1>14, <1>15 DEF part
<1> QED BY <1>16 DEF ls, l, st, pkt, total, next

\* What it finds behind the last label: the zero octet, the pointer, or the octet of
\* which it makes nothing.
LEMMA AtEnd ==
  ASSUME NEW qs, WellFormed(qs), NEW j \in 1..Len(qs),
         NEW p, p = Start(qs, j) + NameSize(qs[j])
  PROVE  /\ p \in Nat /\ p < Len(Packet(qs))
         /\ Len(Octets(qs, j)) = p + EndSize(qs[j]) + 4
         /\ qs[j].tail = 0 => Packet(qs)[p + 1] = 0
         /\ qs[j].tail = Reserved => /\ Packet(qs)[p + 1] = 64
                                     /\ After(Packet(qs), p) = p
         /\ qs[j].tail \notin {0, Reserved} /\ TailStart(qs, j) <= FarOffset =>
              /\ Packet(qs)[p + 1] \in 192..255
              /\ After(Packet(qs), p) = TailStart(qs, j)
<1> DEFINE st   == Start(qs, j)
           size == NameSize(qs[j])
           m    == EndSize(qs[j])
           pkt  == Packet(qs)
           q    == QuestionOctets(qs, j)
           to   == TailStart(qs, j)
           total == Len(pkt)
           oct  == Len(Octets(qs, j))
           tail == qs[j].tail
           points == qs[j].tail \notin {0, Reserved}
<1>1. st \in Nat /\ to \in Nat /\ total \in Nat
  BY QuestionAt
<1>2. oct = st + Len(q) /\ oct <= total /\ \A x \in 1..Len(q) : pkt[st + x] = q[x]
  BY QuestionAt
<1>3. /\ size \in Nat /\ Len(q) = size + m + 4 /\ m \in 1..2
      /\ tail = 0 => q[size + 1] = 0
      /\ tail = Reserved => q[size + 1] = 64
      /\ points => q[size + 1] = 192 + to \div 256 /\ q[size + 2] = (to % 256)
  BY QuestionOctetsAt
<1>4. p = st + size
  OBVIOUS
<1> HIDE DEF st, size, m, pkt, q, to, total, oct, tail, points
<1>5. /\ p \in Nat /\ p < total /\ oct = p + m + 4
      /\ p + 1 = st + (size + 1) /\ p + 2 = st + (size + 2)
      /\ size + 1 \in 1..Len(q) /\ size + 2 \in 1..Len(q)
  BY ONLY <1>1, <1>2, <1>3, <1>4
<1>6. pkt[p + 1] = q[size + 1] /\ pkt[p + 2] = q[size + 2]
  BY ONLY <1>2, <1>5
<1>7. ASSUME points, to <= FarOffset
      PROVE  pkt[p + 1] \in 192..255 /\ After(pkt, p) = to
  <2>1. pkt[p + 1] = 192 + to \div 256 /\ pkt[p + 2] = (to % 256)
    BY ONLY <1>3, <1>6, <1>7
  <2>2. to \in Nat /\ to <= 16383
    BY <1>1, <1>7 DEF FarOffset
  <2>3. \A x \in Nat : x <= 16383 => /\ 192 + x \div 256 \in 192..255 /\ ~((192 + x \div 256) < 64)
                                     /\ (192 + x \div 256) >= 192
                                     /\ ((192 + x \div 256) - 192) * 256 + (x % 256) = x
    OBVIOUS
  <2>4. /\ pkt[p + 1] \in 192..255 /\ ~(pkt[p + 1] < 64) /\ pkt[p + 1] >= 192
        /\ (pkt[p + 1] - 192) * 256 + pkt[p + 2] = to
    BY ONLY <2>1, <2>2, <2>3
  <2> QED BY ONLY <2>4 DEF After
<1>8. tail = 0 => pkt[p + 1] = 0
  BY ONLY <1>3, <1>6
<1>9. tail = Reserved => pkt[p + 1] = 64 /\ After(pkt, p) = p
  <2>1. tail = Reserved => pkt[p + 1] = 64
    BY ONLY <1>3, <1>6
  <2>2. ~(64 < 64) /\ ~(64 >= 192)
    OBVIOUS
  <2> QED BY ONLY <2>1, <2>2 DEF After
<1> QED BY <1>5, <1>7, <1>8, <1>9 DEF m, pkt, to, total, oct, tail, points

\* The type is four octets before the end of a question.
LEMMA AtType ==
  ASSUME NEW qs, WellFormed(qs), NEW j \in 1..Len(qs), NEW e, e + 4 = Len(Octets(qs, j)), e \in Nat
  PROVE  TypeAt(Packet(qs), e) = qs[j].type
<1> DEFINE st   == Start(qs, j)
           size == NameSize(qs[j])
           m    == EndSize(qs[j])
           pkt  == Packet(qs)
           q    == QuestionOctets(qs, j)
           type == qs[j].type
           oct  == Len(Octets(qs, j))
<1>1. type \in Nat
  <2>1. TypeCodes \subseteq Nat
    BY DEF TypeCodes
  <2> QED BY <2>1, QuestionTypes
<1>2. st \in Nat /\ oct = st + Len(q) /\ \A x \in 1..Len(q) : pkt[st + x] = q[x]
  BY QuestionAt
<1>3. /\ size \in Nat /\ m \in 1..2 /\ Len(q) = size + m + 4
      /\ q[size + m + 1] = type \div 256 /\ q[size + m + 2] = (type % 256)
  BY QuestionOctetsAt
<1>4. e + 4 = oct
  OBVIOUS
<1> HIDE DEF st, size, m, pkt, q, type, oct
<1>5. /\ e + 1 = st + (size + m + 1) /\ e + 2 = st + (size + m + 2)
      /\ size + m + 1 \in 1..Len(q) /\ size + m + 2 \in 1..Len(q)
  BY <1>2, <1>3, <1>4
<1>6. pkt[e + 1] = type \div 256 /\ pkt[e + 2] = (type % 256)
  BY ONLY <1>2, <1>3, <1>5
<1>7. (type \div 256) * 256 + (type % 256) = type
  BY ONLY <1>1
<1> QED BY <1>6, <1>7 DEF TypeAt, pkt, type
-----------------------------------------------------------------------------
(* Names. *)

\* The first labels of a name, as labelToStr collects them.
UpTo(ls, i) == SubSeq(ls, 1, i)

LEMMA UpToGrows ==
  ASSUME NEW S, NEW ls \in Seq(S)
  PROVE  /\ UpTo(ls, 0) = <<>> /\ UpTo(ls, Len(ls)) = ls
         /\ \A i \in 0..Len(ls) : UpTo(ls, i) \in Seq(S)
         /\ \A i \in 0..(Len(ls) - 1) : UpTo(ls, i + 1) = Append(UpTo(ls, i), ls[i + 1])
<1>1. Len(ls) \in Nat
  BY LenProperties
<1>2. UpTo(ls, 0) = <<>> /\ UpTo(ls, Len(ls)) = ls
  BY SubSeqEmpty, SubSeqFull DEF UpTo
<1>3. ASSUME NEW i \in 0..Len(ls) PROVE UpTo(ls, i) \in Seq(S)
  <2>1. \A k \in 1..i : ls[k] \in S
    BY <1>1, ElementOfSeq
  <2> QED BY <2>1, SubSeqProperties DEF UpTo
<1>4. ASSUME NEW i \in 0..(Len(ls) - 1) PROVE UpTo(ls, i + 1) = Append(UpTo(ls, i), ls[i + 1])
  <2>1. /\ 1 \in 1..Len(ls) /\ i + 1 \in 1..Len(ls) /\ (i + 1) - 1 = i /\ i \in 0..Len(ls)
    BY <1>1
  <2>2. UpTo(ls, i + 1) = UpTo(ls, i) \o <<ls[i + 1]>>
    BY <2>1, SubSeqRecursiveSecond DEF UpTo
  <2>3. UpTo(ls, i) \in Seq(S) /\ ls[i + 1] \in S
    BY <1>3, <2>1, ElementOfSeq
  <2>4. Append(UpTo(ls, i), ls[i + 1]) = UpTo(ls, i) \o <<ls[i + 1]>>
    BY ONLY <2>3, AppendIsConcat
  <2> QED BY <2>2, <2>4
<1> QED BY <1>2, <1>3, <1>4

LEMMA AppendToConcat ==
  \A s, t \in Seq(Labels), l \in Labels : Append(s \o t, l) = s \o Append(t, l)
<1> SUFFICES ASSUME NEW s \in Seq(Labels), NEW t \in Seq(Labels), NEW l \in Labels
             PROVE  Append(s \o t, l) = s \o Append(t, l)
  OBVIOUS
<1>1. s \o t \in Seq(Labels) /\ <<l>> \in Seq(Labels)
  BY ConcatProperties
<1>2. Append(s \o t, l) = (s \o t) \o <<l>> /\ Append(t, l) = t \o <<l>>
  BY <1>1, AppendIsConcat
<1>3. (s \o t) \o <<l>> = s \o (t \o <<l>>)
  BY <1>1, ConcatAssociative
<1> QED BY <1>2, <1>3

LEMMA LabelOctetsType ==
  ASSUME NEW ls \in Seq(Labels) PROVE LabelOctets(ls) \in Seq(0..255)
<1>1. Len(ls) \in Nat /\ DOMAIN ls = 1..Len(ls) /\ \A i \in 1..Len(ls) : ls[i] \in Labels
  BY LabelPieceTypes
<1>2. ASSUME NEW i \in 1..Len(ls) PROVE <<Len(ls[i])>> \o ls[i] \in Seq(0..255)
  <2>1. ls[i] \in Seq(0..255) /\ Len(ls[i]) \in 1..63
    BY <1>1, LabelTypes
  <2>2. <<Len(ls[i])>> \in Seq(0..255)
    BY <2>1
  <2> QED BY <2>1, <2>2, ConcatProperties
<1>3. LabelPieces(ls) \in [1..Len(ls) -> Seq(0..255)]
  BY <1>1, <1>2 DEF LabelPieces
<1>4. LabelPieces(ls) \in Seq(Seq(0..255)) /\ Len(LabelPieces(ls)) = Len(ls)
  BY <1>1, <1>3, IsASeq, LenProperties
<1>5. PICK f \in [0..Len(ls) -> Seq(0..255)] : FlattenSeq(LabelPieces(ls)) = f[Len(ls)]
  BY <1>4, FlattenPieces
<1>6. LabelOctets(ls) = FlattenSeq(LabelPieces(ls))
  BY DEF LabelOctets, LabelPieces
<1> QED BY <1>1, <1>5, <1>6

\* A name and its tail take together what each takes.
LEMMA ConcatLength ==
  ASSUME NEW a \in Seq(Labels), NEW b \in Seq(Labels)
  PROVE  Len(LabelOctets(a \o b)) = Len(LabelOctets(a)) + Len(LabelOctets(b))
<1> DEFINE ab == a \o b
           m  == Len(a)
           n  == Len(b)
           T  == {i \in 0..m : Offset(ab, i) = Offset(a, i)}
           U  == {i \in 0..n : Offset(ab, m + i) = Offset(a, m) + Offset(b, i)}
<1>1. /\ ab \in Seq(Labels) /\ m \in Nat /\ n \in Nat /\ Len(ab) = m + n
      /\ \A i \in 1..m : ab[i] = a[i]
      /\ \A i \in 1..n : ab[m + i] = b[i]
  BY ConcatAt
<1> HIDE DEF ab, m, n
<1>2. /\ Offset(a, 0) = 0 /\ Offset(b, 0) = 0 /\ Offset(ab, 0) = 0
      /\ Offset(a, m) = Len(LabelOctets(a)) /\ Offset(b, n) = Len(LabelOctets(b))
      /\ Offset(ab, m + n) = Len(LabelOctets(ab))
      /\ Len(LabelOctets(a)) \in Nat /\ Len(LabelOctets(b)) \in Nat
  <2>1. /\ Offset(a, 0) = 0 /\ Offset(a, m) = Len(LabelOctets(a)) /\ Len(LabelOctets(a)) \in Nat
    BY OffsetEnds DEF m
  <2>2. /\ Offset(b, 0) = 0 /\ Offset(b, n) = Len(LabelOctets(b)) /\ Len(LabelOctets(b)) \in Nat
    BY OffsetEnds DEF n
  <2>3. /\ Offset(ab, 0) = 0 /\ Offset(ab, Len(ab)) = Len(LabelOctets(ab))
    BY <1>1, OffsetEnds
  <2> QED BY <1>1, <2>1, <2>2, <2>3
<1>3. \A i \in 1..m : Offset(a, i - 1) \in Nat /\ Offset(a, i) = Offset(a, i - 1) + 1 + Len(a[i])
  BY LabelAt DEF m
<1>4. \A i \in 1..n : /\ Offset(b, i - 1) \in Nat /\ Offset(b, i) = Offset(b, i - 1) + 1 + Len(b[i])
                      /\ Len(b[i]) \in Nat
  BY LabelAt, LabelPieceTypes, LabelTypes DEF n
<1>5. \A i \in 1..(m + n) : Offset(ab, i) = Offset(ab, i - 1) + 1 + Len(ab[i])
  BY <1>1, LabelAt
<1>6. m \in T
  <2>1. 0 \in T
    BY <1>1, <1>2
  <2>2. ASSUME NEW i \in 0..(m - 1), i \in T PROVE i + 1 \in T
    <3>1. i + 1 \in 1..m /\ i + 1 \in 1..(m + n) /\ (i + 1) - 1 = i /\ i + 1 \in 0..m
      BY <1>1
    <3>2. Offset(ab, i + 1) = Offset(ab, i) + 1 + Len(ab[i + 1])
      BY <1>5, <3>1
    <3>3. Offset(a, i + 1) = Offset(a, i) + 1 + Len(a[i + 1])
      BY <1>3, <3>1
    <3> QED BY <1>1, <2>2, <3>1, <3>2, <3>3
  <2>3. \A i \in 0..m : i \in T
    <3> HIDE DEF T
    <3> QED BY <1>1, <2>1, <2>2, InductionUpTo
  <2> QED BY <1>1, <2>3
<1>7. n \in U
  <2>1. 0 \in U
    BY <1>1, <1>2, <1>6
  <2>2. ASSUME NEW i \in 0..(n - 1), i \in U PROVE i + 1 \in U
    <3>1. /\ i + 1 \in 1..n /\ m + (i + 1) \in 1..(m + n) /\ (i + 1) - 1 = i
          /\ (m + (i + 1)) - 1 = m + i /\ i + 1 \in 0..n
      BY <1>1
    <3>2. Offset(ab, m + (i + 1)) = Offset(ab, m + i) + 1 + Len(ab[m + (i + 1)])
      BY <1>5, <3>1
    <3>3. Offset(b, i + 1) = Offset(b, i) + 1 + Len(b[i + 1]) /\ Offset(b, i) \in Nat
          /\ Len(b[i + 1]) \in Nat
      BY <1>4, <3>1
    <3>4. ab[m + (i + 1)] = b[i + 1] /\ Offset(ab, m + i) = Offset(a, m) + Offset(b, i)
      BY <1>1, <2>2, <3>1
    <3>5. \A x, y, z \in Nat : (x + y) + 1 + z = x + (y + 1 + z)
      OBVIOUS
    <3>6. Offset(a, m) \in Nat
      BY <1>2
    <3>7. Offset(ab, m + (i + 1)) = Offset(a, m) + Offset(b, i + 1)
      BY ONLY <3>2, <3>3, <3>4, <3>5, <3>6, SMTT(30)
    <3> QED BY <3>1, <3>7
  <2>3. \A i \in 0..n : i \in U
    <3> HIDE DEF U
    <3> QED BY <1>1, <2>1, <2>2, InductionUpTo
  <2> QED BY <1>1, <2>3
<1> QED BY <1>2, <1>7 DEF ab

\* With no pointer behind a pointer a name is its labels and those of its tail.
WholeName(qs, k) ==
  qs[k].labels \o (IF qs[k].tail > 0 THEN qs[qs[k].tail].labels ELSE <<>>)

LEMMA NameOfDef ==
  ASSUME NEW qs, WellFormed(qs), Readable(qs), NEW k \in 1..Len(qs)
  PROVE  NameOf(qs, k) = WholeName(qs, k) /\ NameOf(qs, k) \in Seq(Labels)
<1> DEFINE Is(h) == h = [j \in DOMAIN qs |->
                           qs[j].labels \o (IF qs[j].tail > 0 THEN h[qs[j].tail] ELSE <<>>)]
           n == CHOOSE h : Is(h)
           w == [j \in DOMAIN qs |-> WholeName(qs, j)]
<1>1. /\ DOMAIN qs = 1..Len(qs)
      /\ \A j \in 1..Len(qs) : /\ qs[j].labels \in Seq(Labels)
                               /\ qs[j].tail > 0 => qs[j].tail \in 1..Len(qs)
                               /\ qs[j].tail > 0 => ~(qs[qs[j].tail].tail > 0)
  <2>1. /\ DOMAIN qs = 1..Len(qs)
        /\ \A j \in 1..Len(qs) : /\ qs[j].labels \in Seq(Labels)
                                 /\ qs[j].tail \in Int
                                 /\ qs[j].tail > 0 => qs[j].tail \in 1..Len(qs)
    BY QuestionTypes
  <2>2. \A j \in 1..Len(qs) : qs[j].tail > 0 => qs[qs[j].tail].tail <= 0
    BY <2>1 DEF Readable
  <2>3. \A x \in Int : x <= 0 => ~(x > 0)
    OBVIOUS
  <2> QED BY <2>1, <2>2, <2>3
<1>2. Is(w)
  <2>1. ASSUME NEW j \in DOMAIN qs
        PROVE  w[j] = qs[j].labels \o (IF qs[j].tail > 0 THEN w[qs[j].tail] ELSE <<>>)
    <3>1. CASE qs[j].tail > 0
      <4>1. qs[j].tail \in DOMAIN qs /\ ~(qs[qs[j].tail].tail > 0)
        BY <1>1, <2>1, <3>1
      <4>2. w[qs[j].tail] = qs[qs[j].tail].labels \o <<>>
        BY <4>1 DEF WholeName
      <4>3. qs[qs[j].tail].labels \in Seq(Labels)
        BY <1>1, <4>1
      <4>4. w[qs[j].tail] = qs[qs[j].tail].labels
        BY <4>2, <4>3, ConcatEmptySeq
      <4> QED BY <3>1, <4>4 DEF WholeName
    <3>2. CASE ~(qs[j].tail > 0)
      BY <3>2 DEF WholeName
    <3> QED BY <3>1, <3>2
  <2> HIDE DEF w
  <2>2. w = [j \in DOMAIN qs |-> w[j]]
    BY DEF w
  <2> QED BY <2>1, <2>2
<1>3. Is(n)
  <2> HIDE DEF Is, w
  <2> QED BY <1>2
<1>4. \A h : Is(h) => \A j \in DOMAIN qs :
        h[j] = qs[j].labels \o (IF qs[j].tail > 0 THEN h[qs[j].tail] ELSE <<>>)
  OBVIOUS
<1>5. NameOf(qs, k) = n[k]
  BY DEF NameOf
<1> HIDE DEF n, Is
<1>6. n[k] = qs[k].labels \o (IF qs[k].tail > 0 THEN n[qs[k].tail] ELSE <<>>)
  BY <1>1, <1>3, <1>4
<1>7. qs[k].tail > 0 => n[qs[k].tail] = qs[qs[k].tail].labels
  <2> SUFFICES ASSUME qs[k].tail > 0 PROVE n[qs[k].tail] = qs[qs[k].tail].labels
    OBVIOUS
  <2>1. qs[k].tail \in DOMAIN qs /\ ~(qs[qs[k].tail].tail > 0)
    BY <1>1
  <2>2. n[qs[k].tail] = qs[qs[k].tail].labels \o <<>>
    BY <1>3, <1>4, <2>1
  <2>3. qs[qs[k].tail].labels \in Seq(Labels)
    BY <1>1, <2>1
  <2> QED BY <2>2, <2>3, ConcatEmptySeq
<1>8. NameOf(qs, k) = WholeName(qs, k)
  BY <1>5, <1>6, <1>7 DEF WholeName
<1>9. WholeName(qs, k) \in Seq(Labels)
  <2>1. qs[k].labels \in Seq(Labels) /\ (qs[k].tail > 0 => qs[qs[k].tail].labels \in Seq(Labels))
    BY <1>1
  <2>2. (IF qs[k].tail > 0 THEN qs[qs[k].tail].labels ELSE <<>>) \in Seq(Labels)
    BY <2>1, EmptySeq
  <2> QED BY <2>1, <2>2, ConcatProperties DEF WholeName
<1> QED BY <1>8, <1>9

\* A name that can be read has a label, and takes at least its octets in the packet.
LEMMA NameLength ==
  ASSUME NEW qs, WellFormed(qs), Readable(qs), NEW k \in 1..Len(qs)
  PROVE  /\ NameLen(NameOf(qs, k)) \in Nat /\ NameLen(NameOf(qs, k)) >= NameSize(qs[k]) + 1
         /\ NameLen(NameOf(qs, k)) = Len(LabelOctets(NameOf(qs, k)) \o <<0>>)
         /\ (\A j \in 1..k : Legible(qs[j])) =>
              /\ NameOf(qs, k) # <<>>
              /\ NameLen(NameOf(qs, k)) >= NameSize(qs[k]) + EndSize(qs[k])
<1> DEFINE q == qs[k]
           rest == IF q.tail > 0 THEN qs[q.tail].labels ELSE <<>>
           name == NameOf(qs, k)
           len == Len(LabelOctets(rest))
<1>1. /\ q.labels \in Seq(Labels) /\ q.tail \in Int /\ q.tail < k
      /\ q.tail > 0 => q.tail \in 1..Len(qs) /\ qs[q.tail].labels \in Seq(Labels)
      /\ DOMAIN qs = 1..Len(qs) /\ Len(qs) \in Nat
      /\ \A j \in 1..Len(qs) : qs[j].tail \in Int
  BY QuestionTypes
<1>2. name = q.labels \o rest /\ rest \in Seq(Labels)
  BY <1>1, NameOfDef, EmptySeq DEF WholeName
<1>3. /\ NameSize(q) \in Nat /\ len \in Nat /\ Len(LabelOctets(name)) = NameSize(q) + len
      /\ LabelOctets(name) \in Seq(Nat)
  BY <1>1, <1>2, ConcatLength, OffsetEnds, NameOfDef, PartsDef DEF NameSize
<1>4. Len(LabelOctets(name) \o <<0>>) = Len(LabelOctets(name)) + 1
  <2>1. LabelOctets(name) \in Seq(Nat) /\ <<0>> \in Seq(Nat) /\ Len(<<0>>) = 1
    BY <1>3
  <2> QED BY ONLY <2>1, ConcatProperties
<1>5. /\ NameLen(name) \in Nat /\ NameLen(name) >= NameSize(q) + 1
      /\ NameLen(name) = Len(LabelOctets(name) \o <<0>>)
  <2>1. NameLen(name) = NameSize(q) + len + 1
    BY <1>3 DEF NameLen
  <2> HIDE DEF name, q, len
  <2> QED BY <1>3, <1>4, <2>1 DEF NameLen
<1>6. ASSUME \A j \in 1..k : Legible(qs[j])
      PROVE  name # <<>> /\ NameLen(name) >= NameSize(q) + EndSize(q)
  <2>1. q.tail >= 0
    BY <1>1, <1>6 DEF Legible
  <2>2. CASE q.tail > 0
    <3> DEFINE t == q.tail
    <3>1. t \in 1..Len(qs) /\ t \in 1..k /\ t \in Nat
      BY <1>1, <2>2
    <3>2. qs[t].tail <= 0 /\ qs[t].tail >= 0 /\ qs[t].tail \in Int
      BY <1>1, <1>6, <2>2, <3>1 DEF Readable, Legible
    <3>3. qs[t].tail = 0
      BY <3>2
    <3>4. rest # <<>>
      BY <1>1, <2>2, <3>1, <3>3 DEF Readable
    <3>5. len >= 2
      BY <1>2, <3>4, LabelsTakeRoom
    <3>6. name # <<>>
      BY <1>1, <1>2, <3>4, ConcatEqualIffEmpty
    <3>7. EndSize(q) = 2
      BY <2>2 DEF EndSize, Reserved
    <3>8. NameLen(name) = NameSize(q) + len + 1
      BY <1>3 DEF NameLen
    <3>9. \A x, y, z \in Nat : y >= 2 /\ z = x + y + 1 => z >= x + 2
      OBVIOUS
    <3>10. NameLen(name) >= NameSize(q) + 2
      BY ONLY <1>3, <1>5, <3>5, <3>8, <3>9
    <3> QED BY <3>6, <3>7, <3>10
  <2>3. CASE ~(q.tail > 0)
    <3>1. q.tail = 0
      BY <1>1, <2>1, <2>3
    <3>2. q.labels # <<>>
      BY <1>1, <3>1 DEF Readable
    <3>3. name # <<>>
      BY <1>1, <1>2, <3>2, ConcatEqualIffEmpty
    <3>4. EndSize(q) = 1
      BY <3>1 DEF EndSize
    <3> QED BY <1>5, <3>3, <3>4
  <2> QED BY <2>2, <2>3
<1> QED BY <1>5, <1>6

\* There are sums of any lengths: those of sequences appended to each other.
LEMMA SumsExist ==
  ASSUME NEW n \in Nat, NEW a \in Nat, NEW d \in [1..n -> Nat]
  PROVE  \E w \in [0..n -> Nat] : w[0] = a /\ \A j \in 1..n : w[j] = w[j - 1] + d[j]
<1> DEFINE zeros(m) == [i \in 1..m |-> 0]
           b == [j \in 1..n |-> zeros(d[j])]
<1>1. ASSUME NEW m \in Nat PROVE zeros(m) \in Seq({0}) /\ Len(zeros(m)) = m
  <2>1. zeros(m) \in [1..m -> {0}]
    OBVIOUS
  <2> HIDE DEF zeros
  <2> QED BY <2>1, IsASeq, LenProperties
<1> HIDE DEF zeros
<1>2. b \in [1..n -> Seq({0})] /\ \A j \in 1..n : Len(b[j]) = d[j] /\ d[j] \in Nat
  BY <1>1
<1> HIDE DEF b
<1>3. PICK f \in [0..n -> Seq({0})] : f[0] = zeros(a) /\ Pieces(f, b, n)
  BY <1>1, <1>2, PiecesExist
<1> DEFINE w == [j \in 0..n |-> Len(f[j])]
<1>4. w \in [0..n -> Nat]
  BY LenProperties
<1>5. w[0] = a
  BY <1>1, <1>3
<1>6. ASSUME NEW j \in 1..n PROVE w[j] = w[j - 1] + d[j]
  <2>1. j \in 0..n /\ j - 1 \in 0..n
    OBVIOUS
  <2>2. f[j] = f[j - 1] \o b[j] /\ f[j - 1] \in Seq({0}) /\ b[j] \in Seq({0})
    BY <1>2, <1>3, <2>1 DEF Pieces
  <2>3. Len(f[j]) = Len(f[j - 1]) + Len(b[j])
    BY <2>2, ConcatProperties
  <2> QED BY <1>2, <2>1, <2>3
<1> HIDE DEF w
<1> QED BY <1>4, <1>5, <1>6

\* What the worst reply to one question more takes.
LEMMA WorstReplyDef ==
  ASSUME NEW qs, WellFormed(qs), Readable(qs)
  PROVE  /\ WorstReply(qs, 0) = HeaderLen
         /\ \A j \in 1..Len(qs) :
              WorstReply(qs, j) = WorstReply(qs, j - 1) + 2 * NameLen(NameOf(qs, j)) + 34
         /\ \A j \in 0..Len(qs) : WorstReply(qs, j) \in Nat
<1> DEFINE n == Len(qs)
           d == [j \in 1..n |-> 2 * NameLen(NameOf(qs, j)) + 34]
           Is(w) == w = [j \in 0..n |-> IF j = 0 THEN HeaderLen
                                        ELSE w[j - 1] + 2 * NameLen(NameOf(qs, j)) + 34]
           h == CHOOSE w : Is(w)
<1>1. n \in Nat /\ \A j \in 1..n : NameLen(NameOf(qs, j)) \in Nat
  BY QuestionTypes, NameLength
<1>2. d \in [1..n -> Nat]
  BY <1>1
<1>3. PICK w \in [0..n -> Nat] : w[0] = HeaderLen /\ \A j \in 1..n : w[j] = w[j - 1] + d[j]
  <2> HIDE DEF d, n
  <2> QED BY <1>1, <1>2, HeaderType, SumsExist
<1>4. \A j \in 1..n : w[j] = w[j - 1] + 2 * NameLen(NameOf(qs, j)) + 34 /\ w[j - 1] \in Nat
  <2>1. ASSUME NEW j \in 1..n
        PROVE  w[j] = w[j - 1] + 2 * NameLen(NameOf(qs, j)) + 34 /\ w[j - 1] \in Nat
    <3>1. w[j] = w[j - 1] + d[j] /\ j - 1 \in 0..n
      BY <1>3
    <3>2. w[j - 1] \in Nat /\ d[j] = 2 * NameLen(NameOf(qs, j)) + 34
      BY <3>1
    <3>3. NameLen(NameOf(qs, j)) \in Nat
      BY <1>1
    <3> QED BY <3>1, <3>2, <3>3
  <2> QED BY <2>1
<1>5. Is(w)
  <2>1. \A j \in 0..n : w[j] = IF j = 0 THEN HeaderLen
                               ELSE w[j - 1] + 2 * NameLen(NameOf(qs, j)) + 34
    BY <1>1, <1>3, <1>4
  <2> QED BY <2>1
<1>6. Is(h)
  <2> HIDE DEF Is
  <2> QED BY <1>5
<1>7. \A j \in 0..n : WorstReply(qs, j) = h[j]
  BY DEF WorstReply
<1> HIDE DEF h
<1>8. /\ h[0] = HeaderLen
      /\ \A j \in 1..n : h[j] = h[j - 1] + 2 * NameLen(NameOf(qs, j)) + 34
  <2>1. 0 \in 0..n /\ \A j \in 1..n : j \in 0..n /\ j # 0
    BY <1>1
  <2> QED BY <1>6, <2>1
<1>9. \A j \in 0..n : h[j] \in Nat
  <2> DEFINE T == {j \in 0..n : h[j] \in Nat}
  <2>1. 0 \in T
    BY <1>1, <1>8, HeaderType
  <2>2. ASSUME NEW j \in 0..(n - 1), j \in T PROVE j + 1 \in T
    <3>1. j + 1 \in 1..n /\ j + 1 \in 0..n /\ (j + 1) - 1 = j
      BY <1>1
    <3>2. h[j + 1] = h[j] + 2 * NameLen(NameOf(qs, j + 1)) + 34 /\ NameLen(NameOf(qs, j + 1)) \in Nat
      BY <1>1, <1>8, <3>1
    <3>3. \A x, y \in Nat : x + 2 * y + 34 \in Nat
      OBVIOUS
    <3> QED BY <2>2, <3>1, <3>2, <3>3
  <2>3. \A j \in 0..n : j \in T
    <3> HIDE DEF T
    <3> QED BY <1>1, <2>1, <2>2, InductionUpTo
  <2> QED BY <2>3
<1>10. WorstReply(qs, 0) = HeaderLen /\ \A j \in 1..n : j \in 0..n /\ j - 1 \in 0..n
  BY <1>1, <1>7, <1>8
<1> HIDE DEF n, Is
<1>11. \A j \in 1..n : WorstReply(qs, j) = WorstReply(qs, j - 1) + 2 * NameLen(NameOf(qs, j)) + 34
  BY <1>7, <1>8, <1>10
<1>12. \A j \in 0..n : WorstReply(qs, j) \in Nat
  BY <1>7, <1>9
<1> QED BY <1>10, <1>11, <1>12 DEF n

\* A question adds no less to the worst reply than it takes in the packet; one that
\* can be read leaves room for a record.
LEMMA RoomGrows ==
  ASSUME NEW qs, WellFormed(qs), Readable(qs), NEW k \in 1..Len(qs)
  PROVE  LET room(j) == WorstReply(qs, j) - Len(Octets(qs, j)) IN
         /\ room(k - 1) <= room(k)
         /\ (\A j \in 1..k : Legible(qs[j])) =>
              room(k - 1) + NameLen(NameOf(qs, k)) + 30 <= room(k)
<1> DEFINE worst == WorstReply(qs, k - 1)
           oct   == Len(Octets(qs, k - 1))
           len   == NameLen(NameOf(qs, k))
           size  == NameSize(qs[k])
           m     == EndSize(qs[k])
           worst2 == WorstReply(qs, k)
           oct2   == Len(Octets(qs, k))
<1>1. k - 1 \in 0..Len(qs)
  BY QuestionTypes
<1>2. worst \in Nat /\ worst2 = worst + 2 * len + 34
  BY <1>1, WorstReplyDef
<1>3. oct \in Nat /\ oct2 = oct + size + m + 4 /\ size \in Nat /\ m \in 1..2
  <2>1. oct \in Nat /\ oct2 = oct + Len(QuestionOctets(qs, k))
    BY QuestionAt DEF Start
  <2>2. size \in Nat /\ m \in 1..2 /\ Len(QuestionOctets(qs, k)) = size + m + 4
    BY QuestionOctetsAt
  <2> HIDE DEF oct, oct2, size, m
  <2> QED BY <2>1, <2>2
<1>4. /\ len \in Nat /\ len >= size + 1
      /\ (\A j \in 1..k : Legible(qs[j])) => len >= size + m
  BY NameLength
<1> HIDE DEF worst, oct, len, size, m, worst2, oct2
<1>5. worst - oct <= worst2 - oct2
  BY ONLY <1>2, <1>3, <1>4
<1>6. len >= size + m => (worst - oct) + len + 30 <= worst2 - oct2
  BY ONLY <1>2, <1>3, <1>4
<1> QED BY <1>4, <1>5, <1>6 DEF worst, oct, len, size, m, worst2, oct2

LEMMA RoomAtEnd ==
  ASSUME NEW qs, WellFormed(qs), Readable(qs), NEW k \in 0..Len(qs)
  PROVE  WorstReply(qs, k) - Len(Octets(qs, k)) <= WorstReply(qs, Len(qs)) - Len(Packet(qs))
<1> DEFINE room(j) == WorstReply(qs, j) - Len(Octets(qs, j))
           n == Len(qs)
           T == {j \in 0..n : j < k \/ room(k) <= room(j)}
<1>1. n \in Nat /\ \A j \in 0..n : room(j) \in Int
  <2>1. n \in Nat
    BY QuestionTypes
  <2>2. ASSUME NEW j \in 0..n PROVE room(j) \in Int
    <3>1. WorstReply(qs, j) \in Nat
      BY WorstReplyDef
    <3>2. Len(Octets(qs, j)) \in Nat
      BY OctetsDef, LenProperties
    <3> QED BY <3>1, <3>2
  <2> QED BY <2>1, <2>2
<1>2. \A j \in 1..n : room(j - 1) <= room(j)
  BY RoomGrows
<1> HIDE DEF n, room
<1>3. 0 \in T
  <2>1. 0 < k \/ 0 = k
    BY <1>1 DEF n
  <2> QED BY <1>1, <2>1
<1>4. ASSUME NEW j \in 0..(n - 1), j \in T PROVE j + 1 \in T
  <2>1. j + 1 \in 1..n /\ j + 1 \in 0..n /\ (j + 1) - 1 = j /\ j \in 0..n /\ k \in 0..n
    BY <1>1 DEF n
  <2>2. room(j) <= room(j + 1) /\ room(j) \in Int /\ room(j + 1) \in Int /\ room(k) \in Int
    BY <1>1, <1>2, <2>1
  <2>3. CASE j < k
    <3>1. j + 1 < k \/ j + 1 = k
      BY <2>1, <2>3
    <3> QED BY <2>1, <2>2, <3>1
  <2>4. CASE room(k) <= room(j)
    BY <2>1, <2>2, <2>4
  <2> QED BY <1>4, <2>3, <2>4
<1>5. \A j \in 0..n : j \in T
  <2> HIDE DEF T
  <2> QED BY <1>1, <1>3, <1>4, InductionUpTo
<1>6. n \in 0..n /\ ~(n < k)
  BY <1>1 DEF n
<1>7. room(k) <= room(n)
  BY <1>5, <1>6
<1> QED BY <1>7 DEF room, n, Packet

-----------------------------------------------------------------------------
(* Reading a name. *)

\* labelToStr, reading the name of question k, has come behind the first i labels of
\* question j, which is k or its tail, and has not yet seen the end; or it turns round
\* and round at the pointer of k that leads to itself.
ReadingAt(qs, k, j, i, p, end, parts) ==
  /\ p = Start(qs, j) + Offset(qs[j].labels, i)
  /\ i = Len(qs[j].labels) => qs[j].tail # 0
  /\ \/ j = k /\ end = 0 /\ parts = UpTo(qs[k].labels, i)
     \/ /\ j = qs[k].tail
        /\ end = Start(qs, k) + NameSize(qs[k]) + 2
        /\ parts = qs[k].labels \o UpTo(qs[j].labels, i)
     \/ /\ j = k /\ i = Len(qs[k].labels) /\ qs[k].tail = Itself
        /\ parts = UpTo(qs[k].labels, i)

Reading(qs, k, p, end, parts) ==
  \E j \in 1..k : \E i \in 0..Len(qs[j].labels) : ReadingAt(qs, k, j, i, p, end, parts)

\* The name has been read, and p is at the type.
ReadName(qs, k, p, parts) ==
  Legible(qs[k]) /\ p \in Nat /\ p + 4 = Len(Octets(qs, k)) /\ parts = NameOf(qs, k)

\* At the start of a name.
LEMMA ReadingStarts ==
  ASSUME NEW qs, WellFormed(qs), Readable(qs), NEW k \in 1..Len(qs)
  PROVE  Reading(qs, k, Start(qs, k), 0, <<>>)
<1>1. qs[k].labels \in Seq(Labels) /\ k \in 1..k /\ DOMAIN qs = 1..Len(qs)
  BY QuestionTypes
<1>2. Len(qs[k].labels) \in Nat /\ (Len(qs[k].labels) = 0 => qs[k].labels = <<>>)
  BY <1>1, LenProperties, EmptySeq
<1>3. Start(qs, k) \in Nat /\ Offset(qs[k].labels, 0) = 0 /\ UpTo(qs[k].labels, 0) = <<>>
  BY <1>1, QuestionAt, OffsetEnds, UpToGrows
<1>4. 0 = Len(qs[k].labels) => qs[k].tail # 0
  BY <1>1, <1>2 DEF Readable
<1>5. Start(qs, k) = Start(qs, k) + Offset(qs[k].labels, 0) /\ 0 \in 0..Len(qs[k].labels)
  BY <1>2, <1>3
<1>6. ReadingAt(qs, k, k, 0, Start(qs, k), 0, <<>>)
  BY ONLY <1>3, <1>4, <1>5 DEF ReadingAt
<1> QED BY <1>1, <1>5, <1>6 DEF Reading

\* A pointer reaches every octet of a packet that fits the buffers.
LEMMA TailReached ==
  ASSUME NEW qs, WellFormed(qs), Len(Packet(qs)) < FarOffset, NEW j \in 1..Len(qs)
  PROVE  /\ TailStart(qs, j) \in Nat /\ TailStart(qs, j) <= FarOffset
         /\ qs[j].tail > 0 => /\ qs[j].tail \in 1..Len(qs)
                              /\ TailStart(qs, j) = Start(qs, qs[j].tail)
                              /\ TailStart(qs, j) <= Len(Packet(qs))
         /\ qs[j].tail = Outside => TailStart(qs, j) > Len(Packet(qs))
         /\ qs[j].tail = Itself => /\ TailStart(qs, j) = Start(qs, j) + NameSize(qs[j])
                                   /\ TailStart(qs, j) <= Len(Packet(qs))
<1> DEFINE t == qs[j].tail
           total == Len(Packet(qs))
<1>1. t \in Int /\ (t > 0 => t \in 1..Len(qs))
  BY QuestionTypes
<1>2. TailStart(qs, j) \in Nat /\ total \in Nat
  BY QuestionAt
<1>3. CASE t > 0
  <2>1. TailStart(qs, j) = Start(qs, t)
    BY <1>3 DEF TailStart
  <2>2. /\ Start(qs, t) \in Nat /\ Len(QuestionOctets(qs, t)) \in Nat
        /\ Start(qs, t) + Len(QuestionOctets(qs, t)) <= total
    <3>1. t \in 1..Len(qs)
      BY <1>1, <1>3
    <3> QED BY <3>1, QuestionAt, LenProperties
  <2>3. t # Outside /\ t # Itself
    BY <1>3 DEF Outside, Itself
  <2>4. Start(qs, t) <= total /\ Start(qs, t) <= FarOffset
    BY <1>2, <2>2 DEF FarOffset
  <2> QED BY <1>1, <1>2, <1>3, <2>1, <2>3, <2>4
<1>4. CASE ~(t > 0) /\ t # Itself
  <2>1. TailStart(qs, j) = FarOffset
    BY <1>4 DEF TailStart
  <2> QED BY <1>2, <1>4, <2>1 DEF FarOffset
<1>5. CASE ~(t > 0) /\ t = Itself
  <2> DEFINE own == Start(qs, j) + NameSize(qs[j])
  <2>1. TailStart(qs, j) = own
    BY <1>5 DEF TailStart
  <2>2. own \in Nat /\ own < total
    BY AtEnd
  <2>3. t # Outside
    BY <1>5 DEF Outside, Itself
  <2> HIDE DEF own
  <2>4. own <= total /\ own <= FarOffset
    BY <1>2, <2>2 DEF FarOffset
  <2> QED BY <1>2, <1>5, <2>1, <2>3, <2>4 DEF own
<1> QED BY <1>3, <1>4, <1>5

\* Only behind the last label of a name without a tail there is a zero octet.
LEMMA ZeroAtEnd ==
  ASSUME NEW qs, WellFormed(qs), Len(Packet(qs)) < FarOffset, NEW j \in 1..Len(qs),
         NEW i \in 0..Len(qs[j].labels), NEW p, p = Start(qs, j) + Offset(qs[j].labels, i)
  PROVE  /\ p \in Nat /\ p < Len(Packet(qs))
         /\ Packet(qs)[p + 1] = 0 <=> i = Len(qs[j].labels) /\ qs[j].tail = 0
<1>1. qs[j].labels \in Seq(Labels) /\ Len(qs[j].labels) \in Nat
  BY QuestionTypes, LenProperties
<1>2. CASE i = Len(qs[j].labels)
  <2>1. p = Start(qs, j) + NameSize(qs[j])
    BY <1>1, <1>2, OffsetEnds DEF NameSize
  <2>2. TailStart(qs, j) <= FarOffset
    BY TailReached
  <2>3. /\ p \in Nat /\ p < Len(Packet(qs))
        /\ qs[j].tail = 0 => Packet(qs)[p + 1] = 0
        /\ qs[j].tail = Reserved => Packet(qs)[p + 1] = 64
        /\ qs[j].tail \notin {0, Reserved} => Packet(qs)[p + 1] \in 192..255
        /\ qs[j].tail = 0 \/ qs[j].tail = Reserved \/ qs[j].tail \notin {0, Reserved}
    <3>1. qs[j].tail = 0 \/ qs[j].tail = Reserved \/ qs[j].tail \notin {0, Reserved}
      OBVIOUS
    <3>2. /\ p \in Nat /\ p < Len(Packet(qs))
          /\ qs[j].tail = 0 => Packet(qs)[p + 1] = 0
          /\ qs[j].tail = Reserved => Packet(qs)[p + 1] = 64
      BY <2>1, AtEnd
    <3>3. ASSUME qs[j].tail \notin {0, Reserved} PROVE Packet(qs)[p + 1] \in 192..255
      BY <2>1, <2>2, <3>3, AtEnd
    <3> QED BY <3>1, <3>2, <3>3
  <2>4. Reserved # 0 /\ 64 # 0 /\ \A x \in 192..255 : x # 0
    BY DEF Reserved
  <2>5. Packet(qs)[p + 1] = 0 <=> qs[j].tail = 0
    BY ONLY <2>3, <2>4, ZenonT(30)
  <2> QED BY ONLY <1>2, <2>3, <2>5
<1>3. CASE i # Len(qs[j].labels)
  <2>1. i + 1 \in 1..Len(qs[j].labels) /\ (i + 1) - 1 = i
    BY <1>1, <1>3
  <2>2. /\ p \in Nat /\ Packet(qs)[p + 1] \in 1..63
        /\ After(Packet(qs), p) < Len(Packet(qs))
        /\ After(Packet(qs), p) = Start(qs, j) + Offset(qs[j].labels, i + 1)
        /\ After(Packet(qs), p) \in Nat
    <3>1. p = Start(qs, j) + Offset(qs[j].labels, (i + 1) - 1)
      BY <2>1
    <3>2. WellFormed(qs) /\ j \in 1..Len(qs)
      OBVIOUS
    <3> QED BY ONLY <2>1, <3>1, <3>2, AtLabel, ZenonT(30)
  <2>3. Offset(qs[j].labels, i + 1) > Offset(qs[j].labels, i) /\ Offset(qs[j].labels, i) \in Nat
        /\ Offset(qs[j].labels, i + 1) \in Nat
    <3>1. /\ Offset(qs[j].labels, i) \in Nat
          /\ Offset(qs[j].labels, i + 1) = Offset(qs[j].labels, i) + 1 + Len(qs[j].labels[i + 1])
      BY <1>1, <2>1, LabelAt, ZenonT(30)
    <3>2. Len(qs[j].labels[i + 1]) \in Nat
      BY <1>1, <2>1, LabelPieceTypes, LabelTypes
    <3> QED BY <3>1, <3>2
  <2>4. p < After(Packet(qs), p)
    <3>1. Start(qs, j) \in Nat
      BY QuestionAt
    <3> QED BY <2>2, <2>3, <3>1
  <2>5. p < Len(Packet(qs)) /\ Packet(qs)[p + 1] # 0
    <3>1. Len(Packet(qs)) \in Nat
      BY QuestionAt
    <3>2. Packet(qs)[p + 1] # 0
      <4>1. \A x \in 1..63 : x # 0
        OBVIOUS
      <4> QED BY ONLY <2>2, <4>1, Zenon
    <3>3. p < Len(Packet(qs))
      BY ONLY <2>2, <2>4, <3>1
    <3> QED BY <3>2, <3>3
  <2> QED BY <1>3, <2>2, <2>5
<1> QED BY <1>2, <1>3

\* What a turn of the loop leaves, as labelToStr has it.
Turned(qs, k, p, end, parts) ==
  LET pkt    == Packet(qs)
      octet  == pkt[p + 1]
      go     == After(pkt, p)
      end2   == IF octet >= 192 THEN p + 2 ELSE end
      parts2 == IF octet \in 1..63 THEN Append(parts, SubSeq(pkt, p + 2, go)) ELSE parts
  IN /\ go \in Nat
     /\ go > Len(pkt) => ~Legible(qs[k])
     /\ ~(go > Len(pkt)) =>
          /\ pkt[go + 1] # 0 => Reading(qs, k, go, end2, parts2)
          /\ pkt[go + 1] = 0 => ReadName(qs, k, IF end2 = 0 THEN go + 1 ELSE end2, parts2)

\* A turn over a label.
LEMMA LabelTurn ==
  ASSUME NEW qs, WellFormed(qs), Readable(qs), Len(Packet(qs)) < FarOffset, NEW k \in 1..Len(qs),
         NEW j \in 1..k, NEW i \in 0..(Len(qs[j].labels) - 1), NEW p, NEW end, NEW parts,
         ReadingAt(qs, k, j, i, p, end, parts)
  PROVE  Turned(qs, k, p, end, parts)
<1> DEFINE pkt   == Packet(qs)
           octet == pkt[p + 1]
           go    == After(pkt, p)
           ls    == qs[j].labels
           parts2 == Append(parts, SubSeq(pkt, p + 2, go))
<1>1. /\ j \in 1..Len(qs) /\ ls \in Seq(Labels) /\ qs[k].labels \in Seq(Labels)
      /\ qs[j].tail \in Int /\ qs[k].tail \in Int
      /\ Len(ls) \in Nat /\ DOMAIN qs = 1..Len(qs) /\ Len(qs) \in Nat
  <2>1. Len(qs) \in Nat
    BY QuestionTypes
  <2>2. j \in 1..Len(qs)
    BY <2>1
  <2> QED BY <2>1, <2>2, QuestionTypes, LenProperties
<1>2. i + 1 \in 1..Len(ls) /\ (i + 1) - 1 = i /\ i + 1 \in 0..Len(ls) /\ i # Len(ls)
  BY <1>1
<1>3. p = Start(qs, j) + Offset(ls, i)
  BY DEF ReadingAt
<1>4. /\ octet \in 1..63 /\ go = Start(qs, j) + Offset(ls, i + 1)
      /\ go < Len(pkt) /\ go \in Nat /\ SubSeq(pkt, p + 2, go) = ls[i + 1]
  <2>1. p = Start(qs, j) + Offset(ls, (i + 1) - 1)
    BY <1>2, <1>3
  <2>2. WellFormed(qs)
    OBVIOUS
  <2>3. /\ octet \in 1..63
        /\ go = Start(qs, j) + Offset(ls, i + 1) /\ go < Len(pkt) /\ go \in Nat
        /\ SubSeq(pkt, p + 2, go) = ls[i + 1]
    <3> HIDE DEF ls
    <3>1. WellFormed(qs) /\ j \in 1..Len(qs) /\ i + 1 \in 1..Len(qs[j].labels)
      BY <1>1, <1>2 DEF ls
    <3>2. p = Start(qs, j) + Offset(qs[j].labels, (i + 1) - 1)
      BY <2>1 DEF ls
    <3> QED BY ONLY <3>1, <3>2, AtLabel, ZenonT(30) DEF ls
  <2> QED BY <2>3
<1>5. ~(octet >= 192)
  <2> HIDE DEF octet
  <2> QED BY ONLY <1>4
<1>6. ~(go > Len(pkt))
  <2>1. Len(pkt) \in Nat
    BY QuestionAt
  <2> HIDE DEF go, pkt
  <2> QED BY <1>4, <2>1
<1>7. pkt[go + 1] = 0 <=> i + 1 = Len(ls) /\ qs[j].tail = 0
  BY <1>1, <1>2, <1>4, ZeroAtEnd
<1>8. parts2 = Append(parts, ls[i + 1])
  BY <1>4
<1> HIDE DEF parts2, go, octet, pkt
<1>9. ls[i + 1] \in Labels /\ UpTo(ls, i) \in Seq(Labels) /\ UpTo(ls, i + 1) = Append(UpTo(ls, i), ls[i + 1])
  <2>1. ls[i + 1] \in Labels
    BY <1>1, <1>2, ElementOfSeq
  <2>2. i \in 0..Len(ls) /\ i \in 0..(Len(ls) - 1)
    BY <1>1
  <2>3. UpTo(ls, i) \in Seq(Labels) /\ UpTo(ls, i + 1) = Append(UpTo(ls, i), ls[i + 1])
    BY <1>1, <2>2, UpToGrows
  <2> QED BY <2>1, <2>3
<1>10. \/ j = k /\ end = 0 /\ parts2 = UpTo(qs[k].labels, i + 1)
       \/ /\ j = qs[k].tail
          /\ end = Start(qs, k) + NameSize(qs[k]) + 2
          /\ parts2 = qs[k].labels \o UpTo(ls, i + 1)
  <2>1. CASE j = k /\ end = 0 /\ parts = UpTo(qs[k].labels, i)
    BY <1>8, <1>9, <2>1
  <2>2. CASE /\ j = qs[k].tail /\ end = Start(qs, k) + NameSize(qs[k]) + 2
             /\ parts = qs[k].labels \o UpTo(ls, i)
    <3>1. qs[k].labels \in Seq(Labels) /\ UpTo(ls, i) \in Seq(Labels) /\ ls[i + 1] \in Labels
      BY <1>1, <1>9
    <3>2. Append(qs[k].labels \o UpTo(ls, i), ls[i + 1])
            = qs[k].labels \o Append(UpTo(ls, i), ls[i + 1])
      <4> DEFINE front == qs[k].labels
                 behind == UpTo(ls, i)
                 next == ls[i + 1]
      <4>1. front \in Seq(Labels) /\ behind \in Seq(Labels) /\ next \in Labels
        BY <3>1
      <4> HIDE DEF front, behind, next
      <4>2. Append(front \o behind, next) = front \o Append(behind, next)
        BY ONLY <4>1, AppendToConcat
      <4> QED BY ONLY <4>2 DEF front, behind, next
    <3> QED BY ONLY <1>8, <1>9, <2>2, <3>2
  <2>3. ~(j = k /\ i = Len(qs[k].labels))
    BY <1>2
  <2> QED BY <2>1, <2>2, <2>3 DEF ReadingAt
<1>11. ASSUME pkt[go + 1] # 0 PROVE Reading(qs, k, go, end, parts2)
  <2>1. i + 1 = Len(ls) => qs[j].tail # 0
    BY <1>7, <1>11
  <2>2. ReadingAt(qs, k, j, i + 1, go, end, parts2)
    BY <1>4, <1>10, <2>1 DEF ReadingAt
  <2> QED BY <1>2, <2>2 DEF Reading
<1>12. ASSUME pkt[go + 1] = 0 PROVE ReadName(qs, k, IF end = 0 THEN go + 1 ELSE end, parts2)
  <2>1. i + 1 = Len(ls) /\ qs[j].tail = 0
    BY <1>7, <1>12
  <2>2. UpTo(ls, i + 1) = ls
    BY <1>1, <2>1, UpToGrows
  <2>3. NameOf(qs, k) = WholeName(qs, k)
    BY NameOfDef
  <2>4. /\ Start(qs, k) \in Nat /\ NameSize(qs[k]) \in Nat
        /\ Len(Octets(qs, k)) = Start(qs, k) + Len(QuestionOctets(qs, k))
        /\ Len(QuestionOctets(qs, k)) = NameSize(qs[k]) + EndSize(qs[k]) + 4
    BY QuestionAt, QuestionOctetsAt
  <2>5. CASE j = k /\ end = 0 /\ parts2 = UpTo(qs[k].labels, i + 1)
    <3>1. parts2 = qs[k].labels \o <<>> /\ Legible(qs[k]) /\ EndSize(qs[k]) = 1
      BY <1>1, <2>1, <2>2, <2>5, ConcatEmptySeq DEF Legible, EndSize
    <3>2. parts2 = NameOf(qs, k)
      <4>1. ~(qs[k].tail > 0)
        BY <2>1, <2>5
      <4> QED BY ONLY <2>3, <3>1, <4>1 DEF WholeName
    <3>3. Offset(ls, i + 1) = NameSize(qs[k])
      BY <1>1, <2>1, <2>5, OffsetEnds DEF NameSize
    <3>4. (go + 1) + 4 = Len(Octets(qs, k)) /\ go + 1 \in Nat
      <4> DEFINE st == Start(qs, k)
                 size == NameSize(qs[k])
      <4>1. /\ st \in Nat /\ size \in Nat
            /\ Len(Octets(qs, k)) = st + (size + 1 + 4)
        BY ONLY <2>4, <3>1
      <4>2. go = st + size
        BY ONLY <1>4, <2>5, <3>3
      <4> HIDE DEF st, size
      <4> QED BY ONLY <4>1, <4>2
    <3> QED BY <2>5, <3>1, <3>2, <3>4 DEF ReadName
  <2>6. CASE /\ j = qs[k].tail /\ end = Start(qs, k) + NameSize(qs[k]) + 2
             /\ parts2 = qs[k].labels \o UpTo(ls, i + 1)
    <3>1. qs[k].tail > 0 /\ qs[k].tail # 0 /\ Legible(qs[k]) /\ EndSize(qs[k]) = 2
      BY <1>1, <2>6 DEF Legible, Reserved, EndSize
    <3>2. parts2 = NameOf(qs, k)
      BY <2>2, <2>3, <2>6, <3>1 DEF WholeName
    <3>3. end # 0 /\ end \in Nat /\ end + 4 = Len(Octets(qs, k))
      <4> DEFINE st == Start(qs, k)
                 size == NameSize(qs[k])
      <4> HIDE DEF st, size
      <4>1. /\ st \in Nat /\ size \in Nat /\ end = st + size + 2
            /\ Len(Octets(qs, k)) = st + (size + 2 + 4)
        BY <2>4, <2>6, <3>1 DEF st, size
      <4> QED BY ONLY <4>1
    <3> QED BY <2>6, <3>1, <3>2, <3>3 DEF ReadName
  <2> QED BY <1>10, <2>5, <2>6
<1> QED BY <1>4, <1>5, <1>6, <1>11, <1>12 DEF Turned, octet, pkt, go, parts2

\* A turn over an octet of which the loop makes nothing leaves everything as it was.
LEMMA ReservedTurn ==
  ASSUME NEW qs, WellFormed(qs), NEW k \in 1..Len(qs), NEW j \in 1..k, j \in 1..Len(qs),
         qs[j].tail = Reserved, NEW p, p = Start(qs, j) + NameSize(qs[j]),
         NEW end, NEW parts, Reading(qs, k, p, end, parts)
  PROVE  Turned(qs, k, p, end, parts)
<1> DEFINE pkt   == Packet(qs)
           octet == pkt[p + 1]
           go    == After(pkt, p)
           total == Len(pkt)
<1>1. p \in Nat /\ p < total /\ octet = 64 /\ go = p /\ total \in Nat
  <2>1. p \in Nat /\ p < Len(Packet(qs)) /\ Packet(qs)[p + 1] = 64 /\ After(Packet(qs), p) = p
    BY AtEnd
  <2>2. Len(Packet(qs)) \in Nat
    BY QuestionAt
  <2> QED BY <2>1, <2>2
<1> HIDE DEF pkt, octet, go, total
<1>2. ~(octet >= 192) /\ octet \notin 1..63 /\ octet # 0 /\ ~(go > total) /\ go \in Nat
  BY ONLY <1>1
<1>3. pkt[go + 1] # 0 /\ Reading(qs, k, go, end, parts)
  BY <1>1, <1>2 DEF octet
<1> QED BY <1>2, <1>3 DEF Turned, pkt, octet, go, total

\* A turn over a pointer.
LEMMA PointerTurn ==
  ASSUME NEW qs, WellFormed(qs), Readable(qs), Len(Packet(qs)) < FarOffset, NEW k \in 1..Len(qs),
         \A m \in 1..(k - 1) : Legible(qs[m]),
         NEW j \in 1..k, NEW p, NEW end, NEW parts,
         ReadingAt(qs, k, j, Len(qs[j].labels), p, end, parts)
  PROVE  Turned(qs, k, p, end, parts)
<1> DEFINE pkt   == Packet(qs)
           octet == pkt[p + 1]
           go    == After(pkt, p)
           ls    == qs[j].labels
           t     == qs[j].tail
<1>1. /\ j \in 1..Len(qs) /\ ls \in Seq(Labels) /\ qs[k].labels \in Seq(Labels)
      /\ t \in Tails /\ t \in Int /\ t < j /\ (t > 0 => t \in 1..Len(qs))
      /\ Len(ls) \in Nat /\ DOMAIN qs = 1..Len(qs) /\ Len(qs) \in Nat
  <2>1. Len(qs) \in Nat
    BY QuestionTypes
  <2>2. j \in 1..Len(qs)
    BY <2>1
  <2> QED BY <2>1, <2>2, QuestionTypes, LenProperties
<1>2. p = Start(qs, j) + NameSize(qs[j]) /\ t # 0
  BY <1>1, OffsetEnds DEF ReadingAt, NameSize
<1>3. j = k
  <2> SUFFICES ASSUME j # k PROVE FALSE
    OBVIOUS
  <2>1. j = qs[k].tail /\ j \in 1..(k - 1) /\ j > 0
    <3>1. j = qs[k].tail
      BY DEF ReadingAt
    <3>2. k \in Nat
      BY <1>1
    <3>3. j \in 1..k /\ j # k
      OBVIOUS
    <3>4. j \in 1..(k - 1) /\ j > 0
      BY ONLY <3>2, <3>3
    <3> QED BY ONLY <3>1, <3>4
  <2>2. t <= 0 /\ Legible(qs[j])
    BY <1>1, <2>1 DEF Readable
  <2> QED BY <1>1, <1>2, <2>2 DEF Legible
<1>4. CASE t = Reserved
  <2>1. Reading(qs, k, p, end, parts)
    BY <1>1 DEF Reading
  <2> QED BY <1>1, <1>2, <1>4, <2>1, ReservedTurn
<1>5. ASSUME t # Reserved
      PROVE  /\ TailStart(qs, j) <= FarOffset /\ TailStart(qs, j) \in Nat
             /\ octet \in 192..255 /\ go = TailStart(qs, j)
             /\ octet >= 192 /\ octet \notin 1..63 /\ octet # 0
  <2>1. TailStart(qs, j) <= FarOffset /\ TailStart(qs, j) \in Nat
    BY <1>1, TailReached
  <2>2. octet \in 192..255 /\ go = TailStart(qs, j)
    <3>1. qs[j].tail \notin {0, Reserved} /\ WellFormed(qs) /\ j \in 1..Len(qs)
      BY <1>1, <1>2, <1>5
    <3>2. p = Start(qs, j) + NameSize(qs[j])
      BY <1>2
    <3>3. Packet(qs)[p + 1] \in 192..255
      BY <2>1, <3>1, <3>2, AtEnd
    <3>4. After(Packet(qs), p) = TailStart(qs, j)
      BY <2>1, <3>1, <3>2, AtEnd
    <3> QED BY <3>3, <3>4
  <2>3. octet >= 192 /\ octet \notin 1..63 /\ octet # 0
    <3> HIDE DEF octet
    <3> QED BY ONLY <2>2
  <2> QED BY <2>1, <2>2, <2>3
<1>6. parts = qs[k].labels
  <2>1. qs[k].tail # j
    BY <1>1, <1>3
  <2>2. parts = UpTo(qs[k].labels, Len(ls))
    BY <1>3, <2>1 DEF ReadingAt
  <2> QED BY <1>1, <1>3, <2>2, UpToGrows
<1>7. CASE t = Outside
  <2>1. t # Reserved
    BY <1>7 DEF Outside, Reserved
  <2>2. go > Len(pkt) /\ go \in Nat
    BY <1>1, <1>5, <1>7, <2>1, TailReached
  <2>3. ~Legible(qs[k])
    BY <1>3, <1>7 DEF Legible, Outside
  <2> QED BY <2>2, <2>3 DEF Turned
<1>8. CASE t = Itself
  <2>1. t # Reserved
    BY <1>8 DEF Itself, Reserved
  <2>2. go = p /\ go <= Len(pkt) /\ go \in Nat /\ Len(pkt) \in Nat
    <3>1. TailStart(qs, j) = p /\ TailStart(qs, j) <= Len(pkt)
      BY <1>1, <1>2, <1>8, TailReached
    <3>2. Len(pkt) \in Nat
      BY QuestionAt
    <3> QED BY <1>5, <2>1, <3>1, <3>2
  <2>3. ReadingAt(qs, k, k, Len(qs[k].labels), p, p + 2, parts)
    <3>1. /\ p = Start(qs, k) + Offset(qs[k].labels, Len(qs[k].labels))
          /\ qs[k].tail # 0 /\ qs[k].tail = Itself
          /\ parts = UpTo(qs[k].labels, Len(qs[k].labels))
      BY <1>1, <1>2, <1>3, <1>6, <1>8, OffsetEnds, UpToGrows DEF NameSize
    <3> QED BY ONLY <3>1 DEF ReadingAt
  <2>4. Reading(qs, k, p, p + 2, parts)
    <3>1. k \in 1..k /\ Len(qs[k].labels) \in 0..Len(qs[k].labels)
      BY <1>1, <1>3
    <3> QED BY <2>3, <3>1 DEF Reading
  <2>5. octet >= 192 /\ octet \notin 1..63 /\ pkt[go + 1] # 0 /\ ~(go > Len(pkt))
    <3>1. octet >= 192 /\ octet \notin 1..63 /\ octet # 0
      BY <1>5, <2>1
    <3>2. pkt[go + 1] = octet
      BY <2>2
    <3> HIDE DEF go, pkt, octet
    <3> QED BY <2>2, <3>1, <3>2
  <2> HIDE DEF go, octet, pkt
  <2>6. /\ go \in Nat /\ ~(go > Len(pkt)) /\ pkt[go + 1] # 0
        /\ Reading(qs, k, go, IF octet >= 192 THEN p + 2 ELSE end,
                   IF octet \in 1..63 THEN Append(parts, SubSeq(pkt, p + 2, go)) ELSE parts)
    BY <2>2, <2>4, <2>5
  <2> QED BY <2>6 DEF Turned, go, octet, pkt
<1>9. CASE t \notin {Outside, Itself, Reserved}
  <2>0. t # Reserved
    BY <1>9
  <2>1. t > 0 /\ t \in 1..Len(qs) /\ t \in 1..(k - 1) /\ t \in 1..k
    <3>1. t \in Nat
      BY <1>1, <1>9 DEF Tails
    <3> QED BY <1>1, <1>2, <1>3, <3>1
  <2>2. go = Start(qs, t)
    BY <1>1, <1>5, <2>0, <2>1, TailReached
  <2>3. qs[t].labels \in Seq(Labels) /\ qs[t].tail \in Int
    BY <2>1, QuestionTypes
  <2>4. qs[t].labels # <<>>
    <3>1. qs[t].tail <= 0 /\ qs[t].tail >= 0
      BY <1>1, <1>3, <2>1 DEF Readable, Legible
    <3>2. qs[t].tail = 0
      BY <2>3, <3>1
    <3> QED BY <1>1, <2>1, <3>2 DEF Readable
  <2>5. Len(qs[t].labels) \in Nat /\ 0 # Len(qs[t].labels) /\ 0 \in 0..Len(qs[t].labels)
    BY <2>3, <2>4, EmptySeq, LenProperties
  <2>6. go = Start(qs, t) + Offset(qs[t].labels, 0)
    BY <1>5, <2>0, <2>2, <2>3, OffsetEnds
  <2>7. pkt[go + 1] # 0 /\ ~(go > Len(pkt))
    <3>1. pkt[go + 1] # 0 /\ go < Len(pkt) /\ go \in Nat
      BY <2>1, <2>5, <2>6, ZeroAtEnd
    <3>2. Len(pkt) \in Nat
      BY QuestionAt
    <3> HIDE DEF go, pkt
    <3> QED BY <3>1, <3>2
  <2>8. parts = qs[k].labels \o UpTo(qs[t].labels, 0)
    <3>1. UpTo(qs[t].labels, 0) = <<>>
      BY <2>3, UpToGrows
    <3> QED BY <1>1, <1>6, <3>1, ConcatEmptySeq
  <2>9. p + 2 = Start(qs, k) + NameSize(qs[k]) + 2
    BY <1>2, <1>3
  <2>10. ReadingAt(qs, k, t, 0, go, p + 2, parts)
    <3>1. t = qs[k].tail
      BY <1>3
    <3> HIDE DEF t, go
    <3> QED BY <2>5, <2>6, <2>8, <2>9, <3>1 DEF ReadingAt
  <2>11. Reading(qs, k, go, p + 2, parts)
    <3> HIDE DEF t, go
    <3> QED BY <2>1, <2>5, <2>10 DEF Reading
  <2>12. go \in Nat
    BY <1>5, <2>0
  <2> HIDE DEF go, octet, pkt
  <2>13. /\ go \in Nat /\ ~(go > Len(pkt)) /\ pkt[go + 1] # 0
         /\ Reading(qs, k, go, IF octet >= 192 THEN p + 2 ELSE end,
                    IF octet \in 1..63 THEN Append(parts, SubSeq(pkt, p + 2, go)) ELSE parts)
    BY <1>5, <2>0, <2>7, <2>11, <2>12 DEF octet, go, pkt
  <2> QED BY <2>13 DEF Turned, go, octet, pkt
<1> QED BY <1>4, <1>7, <1>8, <1>9

LEMMA EveryTurn ==
  ASSUME NEW qs, WellFormed(qs), Readable(qs), Len(Packet(qs)) < FarOffset, NEW k \in 1..Len(qs),
         \A m \in 1..(k - 1) : Legible(qs[m]),
         NEW p, NEW end, NEW parts, Reading(qs, k, p, end, parts)
  PROVE  Turned(qs, k, p, end, parts)
<1> PICK j \in 1..k : \E i \in 0..Len(qs[j].labels) : ReadingAt(qs, k, j, i, p, end, parts)
  BY DEF Reading
<1>1. PICK i \in 0..Len(qs[j].labels) : ReadingAt(qs, k, j, i, p, end, parts)
  OBVIOUS
<1>2. Len(qs[j].labels) \in Nat
  <2>1. Len(qs) \in Nat
    BY QuestionTypes
  <2>2. j \in 1..Len(qs)
    BY <2>1
  <2> QED BY <2>2, QuestionTypes, LenProperties
<1>3. CASE i = Len(qs[j].labels)
  BY <1>1, <1>3, PointerTurn
<1>4. CASE i # Len(qs[j].labels)
  <2>1. i \in 0..(Len(qs[j].labels) - 1)
    BY <1>2, <1>4
  <2> QED BY <1>1, <2>1, LabelTurn
<1> QED BY <1>3, <1>4

============================================================================
