-------------------------- MODULE SocketPoolProofs --------------------------
(* Theorems about SocketPool, for any finite pool, any number of sessions    *)
(* and any sockets of the server.  The composition behaves as TcpClient says *)
(* of its part, so TcpInv holds here and says whose the TCP client's sockets *)
(* are; to it PoolInv adds whose the others are.                             *)
EXTENDS SocketPool, TcpClientProofs

Other == {s \in Socks : sock[s] = "other"}

PoolInv ==
  /\ PoolTypeOK
  /\ Other = ServerSocks \cup sessions \cup DnsSocks
  /\ ServerSocks \cap sessions = {}
  /\ DnsSocks \cap (ServerSocks \cup sessions) = {}

\* The other users of the pool take and return sockets as TcpClient lets them.
LEMMA PoolStepIsTcp == PoolNext => [TcpNext]_tcpVars
BY DEF PoolNext, TcpOwn, TcpNext, AcceptSession, CloseSession, DnsStep, DnsSocket, DnsBind

\* The composition implements TcpClient: what is shown of the TCP client in any
\* surroundings holds in these.
THEOREM PoolImplementsTcp == PoolSpec => TcpSpec
<1>1. PoolInit => TcpInit
  BY DEF PoolInit
<1>2. [PoolNext]_poolVars => [TcpNext]_tcpVars
  BY PoolStepIsTcp DEF poolVars
<1> QED BY <1>1, <1>2, PTL DEF PoolSpec, TcpSpec

LEMMA PoolInitInv == PoolInit => PoolInv
<1> SUFFICES ASSUME PoolInit PROVE PoolInv
  OBVIOUS
<1>1. sessions = {} /\ dnsPc = "socket" /\ sockFd = -1 /\ DnsSocks = {}
  BY DEF PoolInit, DnsSocks
<1>2. Other = ServerSocks
  BY PoolAssumption DEF PoolInit, Other
<1> QED BY <1>1, <1>2 DEF PoolInv, PoolTypeOK

\* The TCP client takes free sockets and none of the others'.
LEMMA TcpKeepsOthers ==
  ASSUME TcpInv, TcpOwn
  PROVE  UNCHANGED Other
<1> USE TcpAssumption DEF TcpInv, TcpTypeOK, SockState, CallInv, ConnectInv, Connected
<1> SUFFICES ASSUME NEW s \in Socks
             PROVE  sock'[s] = "other" <=> sock[s] = "other"
  BY DEF Other
<1>1. CASE \E c \in Socks : CarSends(c) \/ CarCloses(c) \/ Breaks(c)
  BY <1>1 DEF CarSends, CarCloses, Breaks
<1>2. CASE ConnectWithoutHost \/ ConnectWithoutSocket \/ SelectReady \/ SelectTimesOut
           \/ LwipReadData \/ LwipReadEnd \/ ReadFails
  BY <1>2 DEF ConnectWithoutHost, ConnectWithoutSocket, SelectReady, SelectTimesOut,
     LwipReadData, LwipReadEnd, ReadFails
<1>3. CASE \E c \in Socks : ConnectSocket(c) \/ Read(c) \/ Write(c)
  BY <1>3 DEF ConnectSocket, Read, Write
<1>4. CASE ConnectFails \/ ConnectSucceeds
  BY <1>4 DEF ConnectFails, ConnectSucceeds, Calling
<1> QED BY <1>1, <1>2, <1>3, <1>4 DEF TcpOwn, CallStep

LEMMA PoolStepInv ==
  ASSUME TcpInv, PoolInv, [PoolNext]_poolVars
  PROVE  PoolInv'
<1> USE DEF PoolInv, PoolTypeOK, DnsSocks
<1>1. CASE TcpOwn /\ UNCHANGED userVars
  BY <1>1, TcpKeepsOthers DEF userVars
<1>2. sock \in [Socks -> SockState] /\ Socks \subseteq Nat
  BY TcpAssumption DEF TcpInv, TcpTypeOK
<1>3. ASSUME NEW s \in Socks, sock[s] = "free", OthersUse(s)
      PROVE  s \notin Other /\ Other' = Other \cup {s}
  BY <1>2, <1>3 DEF OthersUse, Other
<1>4. ASSUME NEW s \in Socks, AcceptSession(s) PROVE PoolInv'
  <2>1. s \notin Other /\ Other' = Other \cup {s}
    BY <1>3, <1>4 DEF AcceptSession
  <2>2. sessions' = sessions \cup {s} /\ UNCHANGED <<dnsPc, sockFd>>
    BY <1>4 DEF AcceptSession
  <2> QED BY <2>1, <2>2
<1>5. ASSUME NEW s \in Socks, CloseSession(s) PROVE PoolInv'
  <2>1. s \in sessions /\ sessions' = sessions \ {s} /\ UNCHANGED <<dnsPc, sockFd>>
    BY <1>5 DEF CloseSession
  <2>2. sock[s] = "other"
    BY <2>1 DEF Other
  <2>3. Other' = Other \ {s}
    BY <1>2, <1>5, <2>2 DEF CloseSession, OthersUse, Other
  <2> QED BY <2>1, <2>3
<1>6. ASSUME NEW s \in Socks, DnsSocket(s) PROVE PoolInv'
  <2>1. s \notin Other /\ Other' = Other \cup {s}
    BY <1>3, <1>6 DEF DnsSocket
  <2>2. /\ sockFd = -1 /\ sockFd' = s /\ sessions' = sessions
        /\ dnsPc' = "bind" /\ s # -1
    BY <1>2, <1>6, TcpAssumption DEF DnsSocket
  <2> QED BY <2>1, <2>2
<1>7. CASE DnsBind
  BY <1>7 DEF DnsBind, tcpVars, Other
<1>8. CASE UNCHANGED poolVars
  BY <1>8 DEF poolVars, tcpVars, userVars, Other
<1> QED BY <1>1, <1>4, <1>5, <1>6, <1>7, <1>8 DEF PoolNext, DnsStep

LEMMA PoolInvariant == PoolSpec => []PoolInv
<1>1. PoolSpec => []TcpInv
  BY PoolImplementsTcp, TcpInvariant, PTL
<1> QED BY <1>1, PoolInitInv, PoolStepInv, PTL DEF PoolSpec

\* The types hold.
THEOREM PoolTypeCorrect == PoolSpec => []PoolTypeOK
<1>1. PoolInv => PoolTypeOK
  BY DEF PoolInv
<1> QED BY <1>1, PoolInvariant, PTL

\* Every socket in use is somebody's, and just one's, or was lost in a connect
\* that failed.
THEOREM EverySocketHasOneOwner == PoolSpec => []SocketsAccountedFor
<1>1. TcpInv /\ PoolInv => SocketsAccountedFor
  <2> SUFFICES ASSUME TcpInv, PoolInv PROVE SocketsAccountedFor
    OBVIOUS
  <2>1. \A s \in Socks : sock[s] \in SockState
    BY DEF TcpInv, TcpTypeOK
  <2>2. /\ \A s \in Socks : sock[s] = "new" <=> s \in Connecting
        /\ Connecting \subseteq Socks
    BY DEF TcpInv, CallInv, Connecting
  <2>3. /\ \A s \in Socks : sock[s] \in {"up", "closed", "reset"} <=> s \in opened
        /\ \A s \in Socks : sock[s] = "refused" <=> s \in failures
        /\ opened \subseteq Socks /\ failures \subseteq Socks
    BY DEF TcpInv, TcpTypeOK, ConnectInv, Connected
  <2>4. /\ \A s \in Socks : sock[s] = "other" <=> s \in ServerSocks \cup sessions \cup DnsSocks
        /\ ServerSocks \cup sessions \cup DnsSocks \subseteq Socks
    BY DEF PoolInv, Other
  <2> DEFINE all == ServerSocks \cup sessions \cup DnsSocks \cup Connecting \cup opened
                      \cup failures
  <2>5. {s \in Socks : sock[s] # "free"} = all
    BY <2>1, <2>2, <2>3, <2>4 DEF SockState
  <2>6. /\ DOMAIN Owned = 1..6
        /\ Owned[1] = ServerSocks /\ Owned[2] = sessions /\ Owned[3] = DnsSocks
        /\ Owned[4] = Connecting /\ Owned[5] = opened /\ Owned[6] = failures
    BY DEF Owned
  <2>7. UNION {Owned[i] : i \in DOMAIN Owned} = all
    BY <2>6, 1..6 = {1, 2, 3, 4, 5, 6}
  <2>8. ASSUME NEW i \in 1..6, NEW j \in 1..6, i # j PROVE Owned[i] \cap Owned[j] = {}
    <3>1. SUFFICES ASSUME NEW s \in Socks, s \in Owned[i], s \in Owned[j] PROVE FALSE
      BY <2>2, <2>3, <2>4, <2>6
    <3>2. i \in {1, 2, 3, 4, 5, 6} /\ j \in {1, 2, 3, 4, 5, 6}
      BY SMT
    <3>3. /\ s \in Owned[1] \cup Owned[2] \cup Owned[3] => sock[s] = "other"
          /\ s \in Owned[4] => sock[s] = "new"
          /\ s \in Owned[5] => sock[s] \in {"up", "closed", "reset"}
          /\ s \in Owned[6] => sock[s] = "refused"
      BY <2>2, <2>3, <2>4, <2>6
    <3>4. /\ Owned[1] \cap Owned[2] = {} /\ Owned[1] \cap Owned[3] = {}
          /\ Owned[2] \cap Owned[3] = {}
      BY <2>6 DEF PoolInv
    <3>5. ASSUME NEW k \in {1, 2, 3, 4, 5, 6}, s \in Owned[k]
          PROVE  /\ k \in {1, 2, 3} <=> sock[s] = "other"
                 /\ k = 4 <=> sock[s] = "new"
                 /\ k = 6 <=> sock[s] = "refused"
      <4>1. CASE k \in {1, 2, 3}
        BY <3>3, <3>5, <4>1
      <4>2. CASE k = 4
        BY <3>3, <3>5, <4>2
      <4>3. CASE k = 5
        BY <3>3, <3>5, <4>3
      <4>4. CASE k = 6
        BY <3>3, <3>5, <4>4
      <4> QED BY <4>1, <4>2, <4>3, <4>4
    <3>6. i \in {1, 2, 3} /\ j \in {1, 2, 3}
      BY <3>1, <3>2, <3>5, i # j
    <3>7. ASSUME NEW k \in {1, 2, 3}, NEW l \in {1, 2, 3}, k # l
          PROVE  Owned[k] \cap Owned[l] = {}
      BY <3>4, <3>7
    <3> QED BY <3>1, <3>6, <3>7, <2>8
  <2> QED BY <2>5, <2>6, <2>7, <2>8 DEF SocketsAccountedFor
<1>2. PoolSpec => []TcpInv
  BY PoolImplementsTcp, TcpInvariant, PTL
<1> QED BY <1>1, <1>2, PoolInvariant, PTL
=============================================================================
