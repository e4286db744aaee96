----------------------------- MODULE MCCaptDns -----------------------------
(* Instance of CaptDns for TLC: one and two questions, of the three types    *)
(* the code answers and one it does not (AAAA, 28), names spelled out, whole *)
(* names and ends of names given by pointers; one pointer out of the packet, *)
(* one to itself, and one reserved label type; a query whose reply fills the *)
(* buffer of 104 octets, and one whose reply does not fit.  Apart from those *)
(* the name of the root, and the longest legal name in a buffer of 512.      *)
EXTENDS CaptDns

Q(labels, tail, type) == [labels |-> labels, tail |-> tail, type |-> type]
L(length) == [i \in 1..length |-> 110]
esp == <<101, 115, 112>>
n   == L(1)

MCQueries == {
  <<Q(<<esp>>, 0, QTYPE_URI), Q(<<esp, n>>, 0, QTYPE_URI)>>,
  <<Q(<<esp>>, 0, QTYPE_A), Q(<<>>, 1, 28)>>,
  <<Q(<<n>>, 0, 28), Q(<<esp>>, 1, QTYPE_NS)>>,
  <<Q(<<esp>>, 0, QTYPE_A), Q(<<n>>, 1, QTYPE_URI)>>,
  <<Q(<<esp>>, 0, QTYPE_NS), Q(<<n>>, Outside, QTYPE_A)>>,
  <<Q(<<n>>, 0, QTYPE_A), Q(<<>>, Itself, QTYPE_A)>>,
  <<Q(<<esp>>, Reserved, QTYPE_A)>>,
  <<Q(<<L(40)>>, 0, QTYPE_A), Q(<<n>>, 0, 28)>>}

MCRoot == {<<Q(<<>>, 0, QTYPE_NS)>>}

\* 255 octets, as many as RFC 1035 allows a name.
MCLongest == {<<Q(<<L(63), L(63), L(63), L(61)>>, 0, QTYPE_A)>>}

\* What the theorems ask of queries is so of the first and the last, and not of the
\* root's.
ASSUME ReadableQueries ==
  (\A qs \in MCQueries \cup MCLongest : Readable(qs)) /\ ~(\E qs \in MCRoot : Readable(qs))

ASSUME LongestName == \A qs \in MCLongest : NameLen(qs[1].labels) = 255
=============================================================================
