----------------------------- MODULE ByteStream -----------------------------
(* What the car service may rely on when it talks to the car: connections    *)
(* that carry the car's bytes one way, none lost, invented or given twice    *)
(* until the connection breaks, and whose reads answer with bytes, with      *)
(* silence only while nothing waits, or with the end only after everything   *)
(* else.  A read may also fail, which looks as the end does and takes        *)
(* nothing.  Sockets, buffers, select and the rest of the pool are not seen. *)
EXTENDS Integers

CONSTANTS Conns, MaxBytes

VARIABLES
  peer,   \* the car's side: not there, or its connection open, closed or broken
  sent,   \* bytes the car has sent
  given,  \* bytes the service has been given
  answer  \* the last read: which connection, what, and whether it failed; <<>> if
          \* it was another call

streamVars == <<peer, sent, given, answer>>

StreamInit ==
  /\ peer = [c \in Conns |-> "none"]
  /\ sent = [c \in Conns |-> 0] /\ given = [c \in Conns |-> 0]
  /\ answer = <<>>

\* A call that is no read, or a read that has not answered.
Call == answer' = <<>> /\ UNCHANGED <<peer, sent, given>>

Open(c) ==
  /\ peer[c] = "none" /\ peer' = [peer EXCEPT ![c] = "open"]
  /\ answer' = <<>>
  /\ UNCHANGED <<sent, given>>

Send(c) ==
  /\ peer[c] = "open" /\ sent[c] < MaxBytes
  /\ sent' = [sent EXCEPT ![c] = @ + 1]
  /\ UNCHANGED <<peer, given, answer>>

Close(c) ==
  /\ peer[c] = "open" /\ peer' = [peer EXCEPT ![c] = "closed"]
  /\ UNCHANGED <<sent, given, answer>>

Break(c) ==
  /\ peer[c] \in {"open", "closed"} /\ peer' = [peer EXCEPT ![c] = "broken"]
  /\ UNCHANGED <<sent, given, answer>>

Answered(c, what, failed) == answer = <<>> /\ answer' = <<c, what, failed>>

Deliver(c, n) ==
  /\ peer[c] # "none" /\ n \in 1..(sent[c] - given[c])
  /\ given' = [given EXCEPT ![c] = @ + n]
  /\ Answered(c, n, FALSE)
  /\ UNCHANGED <<peer, sent>>

Silence(c) ==
  /\ peer[c] = "open" /\ given[c] = sent[c]
  /\ Answered(c, 0, FALSE)
  /\ UNCHANGED <<peer, sent, given>>

End(c) ==
  /\ peer[c] = "broken" \/ (peer[c] = "closed" /\ given[c] = sent[c])
  /\ Answered(c, -1, FALSE)
  /\ UNCHANGED <<peer, sent, given>>

\* A failure says the same of a connection that goes on.
Fail(c) ==
  /\ peer[c] # "none"
  /\ Answered(c, -1, TRUE)
  /\ UNCHANGED <<peer, sent, given>>

StreamNext ==
  \/ Call
  \/ \E c \in Conns : Open(c) \/ Send(c) \/ Close(c) \/ Break(c)
  \/ \E c \in Conns : Silence(c) \/ End(c) \/ Fail(c)
  \/ \E c \in Conns, n \in 1..MaxBytes : Deliver(c, n)

Spec == StreamInit /\ [][StreamNext]_streamVars
=============================================================================
