----------------------------- MODULE SocketPool -----------------------------
(***************************************************************************)
(* The lwIP socket pool and its three users: the TCP client of TcpClient,  *)
(* which takes a socket for every connect and gives none back; the HTTP    *)
(* server, which holds some sockets for good and one for each open session *)
(* (start_webserver's default configuration); and the captive DNS, whose   *)
(* task takes one and never returns it.                                    *)
(*                                                                         *)
(* TcpClient lets others take and return free sockets as they like.  Here  *)
(* they do so as their code does.                                          *)
(*                                                                         *)
(* A definition headed "Variant" is the one after it with a mistake: it is *)
(* no part of the specification and shows that some property tells them    *)
(* apart.                                                                  *)
(***************************************************************************)
EXTENDS TcpClient, FiniteSets

CONSTANTS
  ServerSocks,  \* the sockets the HTTP server holds from its start
  MaxSessions   \* its config.max_open_sockets

ASSUME PoolAssumption ==
  /\ IsFiniteSet(Socks)
  /\ ServerSocks \subseteq Socks
  /\ MaxSessions \in Nat \ {0}

VARIABLES
  sessions,  \* the sockets of open HTTP sessions
  dnsPc,     \* position of captdnsTask
  sockFd     \* its socket, or -1

userVars == <<sessions, dnsPc, sockFd>>
poolVars == <<tcpVars, userVars>>

DnsSocks == IF sockFd = -1 THEN {} ELSE {sockFd}

PoolTypeOK ==
  /\ sessions \subseteq Socks
  /\ dnsPc \in {"socket", "bind", "recvfrom"}
  /\ sockFd \in Socks \cup {-1}
  /\ dnsPc = "socket" <=> sockFd = -1

PoolInit ==
  /\ TcpInit
  /\ sock = [s \in Socks |-> IF s \in ServerSocks THEN "other" ELSE "free"]
  /\ sessions = {}
  /\ dnsPc = "socket" /\ sockFd = -1

-----------------------------------------------------------------------------
(* The HTTP server (external): while it has as many sessions as it may, it  *)
(* leaves the next one waiting, as it does when there is no socket.         *)

AcceptSession(s) ==
  /\ Cardinality(sessions) < MaxSessions
  /\ sock[s] = "free" /\ OthersUse(s)
  /\ sessions' = sessions \cup {s}
  /\ UNCHANGED <<dnsPc, sockFd>>

CloseSession(s) ==
  /\ s \in sessions /\ OthersUse(s)
  /\ sessions' = sessions \ {s}
  /\ UNCHANGED <<dnsPc, sockFd>>

-----------------------------------------------------------------------------
(* captdnsTask, up to its first recvfrom. *)

\* It tries once a second until it gets a socket.
DnsSocket(s) ==
  /\ dnsPc = "socket" /\ dnsPc' = "bind"
  /\ sock[s] = "free" /\ OthersUse(s)
  /\ sockFd' = s
  /\ UNCHANGED sessions

\* Variant: after a failure it starts over.
DnsBind_StartsOver ==
  /\ dnsPc = "bind" /\ dnsPc' \in {"recvfrom", "socket"}
  /\ UNCHANGED <<tcpVars, sessions, sockFd>>

\* After a failure it tries again with the same socket, which is no step.
DnsBind ==
  /\ dnsPc = "bind" /\ dnsPc' = "recvfrom"
  /\ UNCHANGED <<tcpVars, sessions, sockFd>>

DnsStep == (\E s \in Socks : DnsSocket(s)) \/ DnsBind

-----------------------------------------------------------------------------
\* The steps of TcpClient that are not those of the other users.
TcpOwn ==
  \/ \E s \in Socks : CarSends(s) \/ CarCloses(s) \/ Breaks(s)
  \/ ConnectWithoutHost \/ ConnectWithoutSocket
  \/ \E s \in Socks : ConnectSocket(s) \/ Read(s) \/ Write(s)
  \/ CallStep \/ ReadFails

PoolNext ==
  \/ TcpOwn /\ UNCHANGED userVars
  \/ \E s \in Socks : AcceptSession(s) \/ CloseSession(s)
  \/ DnsStep

PoolSpec == PoolInit /\ [][PoolNext]_poolVars

\* A call that has begun goes on: connect ends, and select by its timeout.
PoolFairSpec == PoolSpec /\ WF_poolVars(CallStep /\ UNCHANGED userVars)

-----------------------------------------------------------------------------
(* Properties *)

Connecting == IF tcpPc = "connect" THEN {cur} ELSE {}

\* Who has a socket: the HTTP server, its sessions, the captive DNS, the connect
\* that is under way, the service, which was returned the number, and nobody,
\* since a failed connect throws the number away.
Owned == <<ServerSocks, sessions, DnsSocks, Connecting, opened, failures>>

\* Every socket that is not free is accounted for exactly once, and those that
\* are lost are the ones of failed connects and no other.
SocketsAccountedFor ==
  /\ {s \in Socks : sock[s] # "free"} = UNION {Owned[i] : i \in DOMAIN Owned}
  /\ \A i, j \in DOMAIN Owned : i # j => Owned[i] \cap Owned[j] = {}
=============================================================================
