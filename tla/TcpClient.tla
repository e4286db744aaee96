----------------------------- MODULE TcpClient -----------------------------
(***************************************************************************)
(* components/tcp_client/src/tcp_client.c: the three functions through     *)
(* which the car service (external) reaches the car, over the lwIP socket  *)
(* pool it shares with the HTTP server and the captive DNS.                *)
(*                                                                         *)
(* The service's task makes one call at a time.  A call blocks in socket   *)
(* calls between which the car and the other users of the pool act, so     *)
(* each socket call is a step.  No function of the component closes a      *)
(* socket.                                                                 *)
(*                                                                         *)
(* A definition headed "Variant" is the one after it with a mistake: it is *)
(* no part of the specification and shows that some property tells them    *)
(* apart.                                                                  *)
(***************************************************************************)
EXTENDS Integers

CONSTANTS
  Socks,    \* the socket numbers of the pool, CONFIG_LWIP_MAX_SOCKETS of them
  BufLen,   \* size of the service's read buffer
  MaxBytes  \* bound: bytes the car sends on a connection

ASSUME TcpAssumption ==
  /\ Socks \subseteq Nat
  /\ BufLen \in Nat \ {0}
  /\ MaxBytes \in Nat

VARIABLES
  sock,     \* what each socket is
  unread,   \* bytes received on it and not yet read
  sent,     \* history: bytes the car has sent on it
  given,    \* history: bytes read from it and given to the service
  tcpPc,    \* position of the service's task
  cur,      \* the socket of the current or last call
  result,   \* what the last call returned
  failed,   \* history: select or read failed in the last call of read
  last,     \* global_sock
  opened,   \* history: the sockets whose number connect has returned
  failures  \* history: sockets whose connect failed

tcpVars == <<sock, unread, sent, given, tcpPc, cur, result, failed, last, opened, failures>>

\* "free"; held by "other" users; "new" or "refused", held by this component;
\* connected and "up", "closed" in order by the car, or "reset".
SockState == {"free", "other", "new", "refused", "up", "closed", "reset"}
Connected == {s \in Socks : sock[s] \in {"up", "closed", "reset"}}

TcpTypeOK ==
  /\ sock \in [Socks -> SockState]
  /\ unread \in [Socks -> 0..MaxBytes]
  /\ sent \in [Socks -> 0..MaxBytes]
  /\ given \in [Socks -> 0..MaxBytes]
  /\ tcpPc \in {"idle", "connect", "select", "read", "connectDone", "readDone", "writeDone"}
  /\ cur \in Socks \cup {-1}
  /\ result \in Socks \cup Nat \cup {-1}
  /\ failed \in BOOLEAN
  /\ last \in Socks \cup {0}
  /\ opened \subseteq Socks /\ failures \subseteq Socks

TcpInit ==
  /\ sock \in [Socks -> {"free", "other"}]
  /\ unread = [s \in Socks |-> 0]
  /\ sent = [s \in Socks |-> 0]
  /\ given = [s \in Socks |-> 0]
  /\ tcpPc = "idle" /\ cur = -1 /\ result = -1 /\ failed = FALSE
  /\ last = 0
  /\ opened = {} /\ failures = {}

-----------------------------------------------------------------------------
(* The car and the other users of the pool (external). *)

Sockets == <<last, opened, failures>>
Outside == UNCHANGED <<given, tcpPc, cur, result, failed, Sockets>>

CarSends(s) ==
  /\ sock[s] = "up" /\ sent[s] < MaxBytes
  /\ sent' = [sent EXCEPT ![s] = @ + 1]
  /\ unread' = [unread EXCEPT ![s] = @ + 1]
  /\ Outside /\ UNCHANGED sock

CarCloses(s) ==
  /\ sock[s] = "up"
  /\ sock' = [sock EXCEPT ![s] = "closed"]
  /\ Outside /\ UNCHANGED <<sent, unread>>

\* The connection breaks; what was not read yet may be lost.
Breaks(s) ==
  /\ sock[s] \in {"up", "closed"}
  /\ sock' = [sock EXCEPT ![s] = "reset"]
  /\ \E n \in {0, unread[s]} : unread' = [unread EXCEPT ![s] = n]
  /\ Outside /\ UNCHANGED sent

OthersUse(s) ==
  /\ sock[s] \in {"free", "other"}
  /\ sock' = [sock EXCEPT ![s] = IF @ = "free" THEN "other" ELSE "free"]
  /\ Outside /\ UNCHANGED <<sent, unread>>

-----------------------------------------------------------------------------
(* tcp_client_connectSocket *)

Calling(here, next) == tcpPc = here /\ tcpPc' = next
Idle == {"idle", "connectDone", "readDone", "writeDone"}
Data == <<unread, sent, given>>

ConnectWithoutHost ==
  /\ tcpPc \in Idle /\ tcpPc' = "connectDone"
  /\ result' = -1
  /\ UNCHANGED <<sock, Data, cur, failed, Sockets>>

ConnectSocket(s) ==
  /\ tcpPc \in Idle /\ tcpPc' = "connect"
  /\ sock[s] = "free"
  /\ sock' = [sock EXCEPT ![s] = "new"]
  /\ cur' = s
  /\ UNCHANGED <<Data, result, failed, Sockets>>

ConnectWithoutSocket ==
  /\ tcpPc \in Idle /\ tcpPc' = "connectDone"
  /\ \A s \in Socks : sock[s] # "free"
  /\ result' = -1
  /\ UNCHANGED <<sock, Data, cur, failed, Sockets>>

\* Variant: does not look at what connect returned.
ConnectFails_Unnoticed ==
  /\ Calling("connect", "connectDone")
  /\ sock' = [sock EXCEPT ![cur] = "refused"]
  /\ failures' = failures \cup {cur}
  /\ result' = cur /\ last' = cur /\ opened' = opened \cup {cur}
  /\ UNCHANGED <<Data, cur, failed>>

\* The socket is not closed, and the caller is not told its number.
ConnectFails ==
  /\ Calling("connect", "connectDone")
  /\ sock' = [sock EXCEPT ![cur] = "refused"]
  /\ failures' = failures \cup {cur}
  /\ result' = -1
  /\ UNCHANGED <<Data, cur, failed, last, opened>>

ConnectSucceeds ==
  /\ Calling("connect", "connectDone")
  /\ sock' = [sock EXCEPT ![cur] = "up"]
  /\ result' = cur
  /\ last' = cur /\ opened' = opened \cup {cur}
  /\ UNCHANGED <<Data, cur, failed, failures>>

-----------------------------------------------------------------------------
(* tcp_client_read and tcp_client_write, on a socket the service was given. *)

TCP_READ_TIMEOUT == 1000

\* The time select waits, a struct timeval.
my_ms_to_timeval(timeout_ms) ==
  LET sec == timeout_ms \div 1000
  IN [tv_sec |-> sec, tv_usec |-> (timeout_ms - sec * 1000) * 1000]

Read(s) ==
  /\ tcpPc \in Idle /\ tcpPc' = "select"
  /\ s \in opened
  /\ cur' = s /\ failed' = FALSE
  /\ UNCHANGED <<sock, Data, result, Sockets>>

\* select, before the data is read, or read itself fails: their -1 is returned
\* whatever the connection is and has to give.
ReadFails ==
  /\ tcpPc \in {"select", "read"} /\ tcpPc' = "readDone"
  /\ result' = -1
  /\ failed' = TRUE
  /\ UNCHANGED <<sock, Data, cur, Sockets>>

Readable(s) == unread[s] > 0 \/ sock[s] \in {"closed", "reset"}

SelectReady ==
  /\ Calling("select", "read")
  /\ Readable(cur)
  /\ UNCHANGED <<sock, Data, cur, result, failed, Sockets>>

\* Variant: waits as long as it takes.
SelectTimesOut_Never == FALSE /\ UNCHANGED tcpVars

\* TCP_READ_TIMEOUT has passed and the socket is still not readable.
SelectTimesOut ==
  /\ Calling("select", "readDone")
  /\ ~Readable(cur)
  /\ result' = 0
  /\ UNCHANGED <<sock, Data, cur, failed, Sockets>>

\* Variant: takes it that the buffer was filled.
LwipReadData_WholeBuffer ==
  /\ Calling("read", "readDone")
  /\ unread[cur] > 0
  /\ result' = BufLen
  /\ unread' = [unread EXCEPT ![cur] = @ - BufLen]
  /\ given' = [given EXCEPT ![cur] = @ + BufLen]
  /\ UNCHANGED <<sock, sent, cur, failed, Sockets>>

LwipReadData ==
  /\ Calling("read", "readDone")
  /\ unread[cur] > 0
  /\ LET n == IF unread[cur] < BufLen THEN unread[cur] ELSE BufLen
     IN /\ result' = n
        /\ unread' = [unread EXCEPT ![cur] = @ - n]
        /\ given' = [given EXCEPT ![cur] = @ + n]
  /\ UNCHANGED <<sock, sent, cur, failed, Sockets>>

\* Variant: looks at the connection before it looks at the data.
LwipReadEnd_First ==
  /\ Calling("read", "readDone")
  /\ sock[cur] \in {"closed", "reset"}
  /\ result' = -1
  /\ UNCHANGED <<sock, Data, cur, failed, Sockets>>

\* Variant: passes on the zero that read returns at the end.
LwipReadEnd_Zero ==
  /\ Calling("read", "readDone")
  /\ unread[cur] = 0
  /\ result' = 0
  /\ UNCHANGED <<sock, Data, cur, failed, Sockets>>

\* A read of nothing is an error, as a failed one is.
LwipReadEnd ==
  /\ Calling("read", "readDone")
  /\ unread[cur] = 0
  /\ result' = -1
  /\ UNCHANGED <<sock, Data, cur, failed, Sockets>>

\* lwip_write sends the whole buffer or fails; a car that has closed may still
\* be written to.
Write(s) ==
  /\ tcpPc \in Idle /\ tcpPc' = "writeDone"
  /\ s \in opened
  /\ cur' = s
  /\ result' \in {BufLen, -1}
  /\ UNCHANGED <<sock, Data, failed, Sockets>>

\* The steps that bring a call to its end; it may also fail.
CallStep ==
  \/ ConnectFails \/ ConnectSucceeds
  \/ SelectReady \/ SelectTimesOut
  \/ LwipReadData \/ LwipReadEnd

TcpNext ==
  \/ \E s \in Socks : CarSends(s) \/ CarCloses(s) \/ Breaks(s) \/ OthersUse(s)
  \/ ConnectWithoutHost \/ ConnectWithoutSocket
  \/ \E s \in Socks : ConnectSocket(s) \/ Read(s) \/ Write(s)
  \/ CallStep \/ ReadFails

TcpSpec == TcpInit /\ [][TcpNext]_tcpVars

-----------------------------------------------------------------------------
(* Properties *)

\* What connect returns, other than -1, is a connection that was established,
\* never a socket whose connect failed, and global_sock is the latest of them.
ConnectGivesConnection ==
  /\ tcpPc = "connectDone" /\ result # -1 => result \in opened /\ last = result
  /\ last # 0 => last \in opened
  /\ opened \subseteq Connected /\ opened \cap failures = {}

\* Unless select or read failed, -1 tells the service that the connection has
\* ended, and comes when it was handed every byte there was: all that the car sent
\* if it closed.  A failure, which the service cannot tell from the end, takes
\* nothing: unless the connection broke, what was not given can still be read.
EndAfterAllData ==
  tcpPc = "readDone" /\ result = -1 =>
    /\ ~failed => sock[cur] # "up" /\ unread[cur] = 0
    /\ sock[cur] # "reset" => given[cur] + unread[cur] = sent[cur]

\* Zero, "nothing yet", is never the answer about a connection that has ended,
\* nor while there is something to read.
ZeroMeansNothingYet ==
  [][(tcpPc \in {"select", "read"} /\ tcpPc' = "readDone" /\ result' = 0)
       => sock[cur] = "up" /\ unread[cur] = 0]_tcpVars

\* The component implements ByteStream.
Peer(s) ==
  CASE sock[s] = "up" -> "open" [] sock[s] = "closed" -> "closed"
    [] sock[s] = "reset" -> "broken" [] OTHER -> "none"

B == INSTANCE ByteStream WITH
  Conns  <- Socks,
  peer   <- [s \in Socks |-> Peer(s)],
  answer <- IF tcpPc = "readDone" THEN <<cur, result, failed>> ELSE <<>>

ImplementsByteStream == B!Spec

\* A silent car does not keep the service's task: every read returns.
ReadReturns == tcpPc = "select" ~> tcpPc = "readDone"
=============================================================================
