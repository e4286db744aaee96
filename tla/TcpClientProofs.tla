-------------------------- MODULE TcpClientProofs --------------------------
(* Theorems about TcpClient, for any pool, buffer and amount of data.  One   *)
(* inductive invariant, TcpInv, adds to the types where the current call's   *)
(* socket stands and that bytes are conserved: what the car sent on an       *)
(* intact connection is what was given to the service and what is unread.    *)
EXTENDS TcpClient, TLAPS

CallInv ==
  /\ \A s \in Socks : sock[s] = "new" <=> tcpPc = "connect" /\ cur = s
  /\ tcpPc = "connect" => cur \in Socks
  /\ tcpPc \in {"select", "read", "readDone"} => cur \in opened
  /\ tcpPc \in {"select", "read"} => ~failed
  /\ tcpPc = "read" => Readable(cur)

ConnectInv ==
  /\ opened = Connected
  /\ \A s \in Socks : sock[s] = "refused" <=> s \in failures
  /\ last # 0 => last \in opened
  /\ tcpPc = "connectDone" /\ result # -1 => result \in opened /\ last = result

DataInv ==
  \A s \in Socks :
    /\ given[s] + unread[s] <= sent[s]
    /\ sock[s] # "reset" => given[s] + unread[s] = sent[s]

EndInv ==
  tcpPc = "readDone" /\ result = -1 /\ ~failed =>
    /\ sock[cur] \in {"closed", "reset"}
    /\ unread[cur] = 0

TcpInv == TcpTypeOK /\ CallInv /\ ConnectInv /\ DataInv /\ EndInv

\* The division select's timeout rests on: it keeps every millisecond, and the
\* microseconds are fewer than a second.
THEOREM TimevalIsExact ==
  ASSUME NEW ms \in Nat
  PROVE  LET tv == my_ms_to_timeval(ms)
         IN /\ tv.tv_sec \in Nat
            /\ tv.tv_usec \in Nat /\ tv.tv_usec < 1000000
            /\ tv.tv_sec * 1000000 + tv.tv_usec = ms * 1000
<1> DEFINE sec == ms \div 1000
           d   == ms - sec * 1000
<1>1. sec \in Nat /\ d \in 0..999 /\ ms = sec * 1000 + d
  BY SMT
<1>2. my_ms_to_timeval(ms).tv_sec = sec /\ my_ms_to_timeval(ms).tv_usec = d * 1000
  BY SMT DEF my_ms_to_timeval
<1> HIDE DEF sec, d
<1>3. d * 1000 \in Nat /\ d * 1000 < 1000000
  BY <1>1, SMT
<1>4. sec * 1000000 + d * 1000 = ms * 1000
  BY <1>1, SMT
<1> QED BY <1>1, <1>2, <1>3, <1>4

LEMMA TcpInitInv == TcpInit => TcpInv
<1> SUFFICES ASSUME TcpInit PROVE TcpInv
  OBVIOUS
<1>1. sock \in [Socks -> SockState] /\ [s \in Socks |-> 0] \in [Socks -> 0..MaxBytes]
  BY TcpAssumption DEF TcpInit, SockState
<1>2. \A s \in Socks : sock[s] \in {"free", "other"}
  BY DEF TcpInit
<1>3. CallInv /\ ConnectInv
  BY <1>2 DEF TcpInit, CallInv, ConnectInv, Connected
<1>4. DataInv /\ EndInv
  BY DEF TcpInit, DataInv, EndInv
<1>5. TcpTypeOK
  BY <1>1 DEF TcpInit, TcpTypeOK
<1> QED BY <1>3, <1>4, <1>5 DEF TcpInv

LEMMA TcpStepInv == TcpInv /\ [TcpNext]_tcpVars => TcpInv'
<1> SUFFICES ASSUME TcpInv, [TcpNext]_tcpVars PROVE TcpInv'
  OBVIOUS
<1> USE TcpAssumption DEF TcpInv, TcpTypeOK, SockState, Connected, Readable
<1>1. ASSUME NEW s \in Socks, CarSends(s) PROVE TcpInv'
  BY <1>1 DEF CarSends, Outside, Sockets, CallInv, ConnectInv, DataInv, EndInv
<1>2. ASSUME NEW s \in Socks, CarCloses(s) PROVE TcpInv'
  BY <1>2 DEF CarCloses, Outside, Sockets, CallInv, ConnectInv, DataInv, EndInv
<1>3. ASSUME NEW s \in Socks, Breaks(s) PROVE TcpInv'
  BY <1>3 DEF Breaks, Outside, Sockets, CallInv, ConnectInv, DataInv, EndInv
<1>4. ASSUME NEW s \in Socks, OthersUse(s) PROVE TcpInv'
  BY <1>4 DEF OthersUse, Outside, Sockets, CallInv, ConnectInv, DataInv, EndInv
<1>5. CASE ConnectWithoutHost
  BY <1>5 DEF ConnectWithoutHost, Idle, Data, Sockets, CallInv, ConnectInv, DataInv, EndInv
<1>6. CASE ConnectWithoutSocket
  BY <1>6 DEF ConnectWithoutSocket, Idle, Data, Sockets, CallInv, ConnectInv, DataInv, EndInv
<1>7. ASSUME NEW s \in Socks, ConnectSocket(s) PROVE TcpInv'
  BY <1>7 DEF ConnectSocket, Idle, Data, Sockets, CallInv, ConnectInv, DataInv, EndInv
<1>8. ASSUME NEW s \in Socks, Read(s) PROVE TcpInv'
  BY <1>8 DEF Read, Idle, Data, Sockets, CallInv, ConnectInv, DataInv, EndInv
<1>9. ASSUME NEW s \in Socks, Write(s) PROVE TcpInv'
  BY <1>9 DEF Write, Idle, Data, Sockets, CallInv, ConnectInv, DataInv, EndInv
<1>10. CASE ConnectFails
  BY <1>10 DEF ConnectFails, Calling, Data, Sockets, CallInv, ConnectInv, DataInv, EndInv
<1>11. CASE ConnectSucceeds
  BY <1>11 DEF ConnectSucceeds, Calling, Data, Sockets, CallInv, ConnectInv, DataInv, EndInv
<1>12. CASE SelectReady
  BY <1>12 DEF SelectReady, Calling, Data, Sockets, CallInv, ConnectInv, DataInv, EndInv
<1>13. CASE SelectTimesOut
  BY <1>13 DEF SelectTimesOut, Calling, Data, Sockets, CallInv, ConnectInv, DataInv, EndInv
<1>14. CASE LwipReadData
  <2> DEFINE n == IF unread[cur] < BufLen THEN unread[cur] ELSE BufLen
  <2>1. cur \in Socks /\ n \in Nat /\ 0 < n /\ n <= unread[cur]
    BY <1>14 DEF LwipReadData, Sockets, CallInv, Calling
  <2>2. /\ tcpPc' = "readDone" /\ result' = n
        /\ unread' = [unread EXCEPT ![cur] = @ - n]
        /\ given' = [given EXCEPT ![cur] = @ + n]
        /\ UNCHANGED <<sock, sent, cur, failed, last, opened, failures>>
        /\ tcpPc = "read"
    BY <1>14 DEF LwipReadData, Calling, Sockets
  <2> HIDE DEF n
  <2>3. given[cur] + n <= sent[cur]
    BY <2>1 DEF DataInv
  <2>4. TcpTypeOK'
    BY <2>1, <2>2, <2>3
  <2>5. DataInv'
    BY <2>1, <2>2, <2>4 DEF DataInv
  <2> QED
    BY <2>1, <2>2, <2>4, <2>5 DEF CallInv, ConnectInv, EndInv
<1>15. CASE LwipReadEnd
  BY <1>15 DEF LwipReadEnd, Calling, Data, Sockets, CallInv, ConnectInv, DataInv, EndInv
<1>16. CASE ReadFails
  BY <1>16 DEF ReadFails, Data, Sockets, CallInv, ConnectInv, DataInv, EndInv
<1>17. CASE UNCHANGED tcpVars
  BY <1>17 DEF tcpVars, CallInv, ConnectInv, DataInv, EndInv
<1> QED
  BY <1>1, <1>2, <1>3, <1>4, <1>5, <1>6, <1>7, <1>8, <1>9, <1>10, <1>11, <1>12,
     <1>13, <1>14, <1>15, <1>16, <1>17 DEF TcpNext, CallStep

LEMMA TcpInvariant == TcpSpec => []TcpInv
BY TcpInitInv, TcpStepInv, PTL DEF TcpSpec

\* The types hold, whatever the pool and whoever else uses it.
THEOREM TcpTypeCorrect == TcpSpec => []TcpTypeOK
BY TcpInvariant, PTL DEF TcpInv

\* tcp_client_connectSocket returns connections, never a socket that failed.
THEOREM ConnectionsAreReal == TcpSpec => []ConnectGivesConnection
<1>1. TcpInv => ConnectGivesConnection
  BY DEF TcpInv, ConnectInv, ConnectGivesConnection, Connected
<1> QED BY <1>1, TcpInvariant, PTL

\* tcp_client_read's -1 comes after all the data, or from a failed select or read,
\* which takes none.
THEOREM EndComesLast == TcpSpec => []EndAfterAllData
<1>1. TcpInv => EndAfterAllData
  BY DEF TcpInv, TcpTypeOK, CallInv, Connected, DataInv, EndInv, EndAfterAllData
<1> QED BY <1>1, TcpInvariant, PTL

\* tcp_client_read answers zero only when the connection is up and silent.
THEOREM ZeroIsHonest == TcpSpec => ZeroMeansNothingYet
<1> DEFINE A == (tcpPc \in {"select", "read"} /\ tcpPc' = "readDone" /\ result' = 0)
                  => sock[cur] = "up" /\ unread[cur] = 0
<1>1. TcpInv /\ [TcpNext]_tcpVars => [A]_tcpVars
  <2> SUFFICES ASSUME TcpInv, TcpNext, tcpPc \in {"select", "read"},
                      tcpPc' = "readDone", result' = 0
               PROVE  sock[cur] = "up" /\ unread[cur] = 0
    OBVIOUS
  <2> USE TcpAssumption DEF TcpInv, TcpTypeOK
  <2>1. SelectTimesOut \/ LwipReadData \/ LwipReadEnd
    BY DEF TcpNext, CallStep, ReadFails, CarSends, CarCloses, Breaks, OthersUse, Outside,
           ConnectWithoutHost, ConnectWithoutSocket, ConnectSocket, Read, Write, Idle,
           ConnectFails, ConnectSucceeds, SelectReady, Calling
  <2>2. CASE SelectTimesOut
    BY <2>2 DEF SelectTimesOut, Calling, Readable, CallInv, ConnectInv, Connected
  <2>3. CASE LwipReadData
    BY <2>3 DEF LwipReadData, Sockets, CallInv, Connected
  <2>4. CASE LwipReadEnd
    BY <2>4 DEF LwipReadEnd
  <2> QED BY <2>1, <2>2, <2>3, <2>4
<1>2. ZeroMeansNothingYet <=> [][A]_tcpVars
  BY DEF ZeroMeansNothingYet
<1> QED BY <1>1, <1>2, TcpInvariant, PTL DEF TcpSpec

-----------------------------------------------------------------------------
(* The refinement of ByteStream. *)

PeerMap == [s \in Socks |-> Peer(s)]
AnswerMap == IF tcpPc = "readDone" THEN <<cur, result, failed>> ELSE <<>>

\* When a socket changes hands, so does at most its peer.
LEMMA PeerChanges ==
  ASSUME TcpTypeOK, NEW s \in Socks, NEW v \in SockState, sock' = [sock EXCEPT ![s] = v]
  PROVE  PeerMap' = [PeerMap EXCEPT ![s] =
           CASE v = "up" -> "open" [] v = "closed" -> "closed"
             [] v = "reset" -> "broken" [] OTHER -> "none"]
BY DEF PeerMap, Peer, TcpTypeOK

LEMMA PeerStays == ASSUME UNCHANGED sock PROVE UNCHANGED PeerMap
BY DEF PeerMap, Peer

\* The calls that are no read, and those that have not answered.
LEMMA CallsMap ==
  ASSUME TcpInv,
         \/ ConnectWithoutHost \/ ConnectWithoutSocket \/ ConnectFails \/ SelectReady
         \/ \E s \in Socks : ConnectSocket(s) \/ Read(s) \/ Write(s)
  PROVE  AnswerMap' = <<>> /\ UNCHANGED <<PeerMap, sent, given>>
<1>1. tcpPc' # "readDone" /\ UNCHANGED <<sent, given>>
  BY DEF ConnectWithoutHost, ConnectWithoutSocket, ConnectFails, SelectReady, ConnectSocket,
         Read, Write, Calling, Data
<1>2. CASE UNCHANGED sock
  BY <1>1, <1>2, PeerStays DEF AnswerMap
<1>3. CASE ConnectFails
  <2>1. cur \in Socks /\ sock[cur] = "new" /\ sock' = [sock EXCEPT ![cur] = "refused"]
    BY <1>3 DEF ConnectFails, Calling, TcpInv, CallInv
  <2>2. PeerMap' = [PeerMap EXCEPT ![cur] = "none"] /\ PeerMap[cur] = "none"
    BY <2>1, PeerChanges DEF TcpInv, SockState, PeerMap, Peer
  <2> QED BY <1>1, <2>2, <2>1 DEF AnswerMap, PeerMap
<1>4. ASSUME NEW s \in Socks, ConnectSocket(s)
      PROVE  AnswerMap' = <<>> /\ UNCHANGED <<PeerMap, sent, given>>
  <2>1. sock[s] = "free" /\ sock' = [sock EXCEPT ![s] = "new"]
    BY <1>4 DEF ConnectSocket
  <2>2. PeerMap' = [PeerMap EXCEPT ![s] = "none"] /\ PeerMap[s] = "none"
    BY <2>1, PeerChanges DEF TcpInv, SockState, PeerMap, Peer
  <2> QED BY <1>1, <2>2, <2>1 DEF AnswerMap, PeerMap
<1> QED
  BY <1>2, <1>3, <1>4 DEF ConnectWithoutHost, ConnectWithoutSocket, SelectReady, Read, Write

\* What the car does, and the other users of the pool.
LEMMA OutsideMaps ==
  ASSUME TcpInv, NEW s \in Socks, CarSends(s) \/ CarCloses(s) \/ Breaks(s) \/ OthersUse(s)
  PROVE  B!Send(s) \/ B!Close(s) \/ B!Break(s) \/ UNCHANGED <<PeerMap, sent, given, AnswerMap>>
<1> USE DEF TcpInv, SockState
<1>1. UNCHANGED AnswerMap /\ given' = given
  BY DEF CarSends, CarCloses, Breaks, OthersUse, Outside, AnswerMap
<1>2. PeerMap[s] = Peer(s)
  BY DEF PeerMap
<1>3. CASE CarSends(s)
  <2>1. UNCHANGED PeerMap /\ PeerMap[s] = "open"
    BY <1>2, <1>3, PeerStays DEF CarSends, Peer
  <2> QED BY <1>1, <1>3, <2>1 DEF CarSends, B!Send, PeerMap, AnswerMap
<1>4. CASE CarCloses(s)
  <2>1. PeerMap[s] = "open" /\ PeerMap' = [PeerMap EXCEPT ![s] = "closed"]
    BY <1>2, <1>4, PeerChanges DEF CarCloses, Peer
  <2> QED BY <1>1, <1>4, <2>1 DEF CarCloses, B!Close, PeerMap, AnswerMap
<1>5. CASE Breaks(s)
  <2>1. PeerMap[s] \in {"open", "closed"} /\ PeerMap' = [PeerMap EXCEPT ![s] = "broken"]
    BY <1>2, <1>5, PeerChanges DEF Breaks, Peer
  <2> QED BY <1>1, <1>5, <2>1 DEF Breaks, B!Break, PeerMap, AnswerMap
<1>6. CASE OthersUse(s)
  <2>1. PICK v \in {"free", "other"} : sock' = [sock EXCEPT ![s] = v]
    BY <1>6 DEF OthersUse, TcpTypeOK
  <2>2. PeerMap[s] = "none" /\ PeerMap' = [PeerMap EXCEPT ![s] = "none"]
    BY <1>2, <1>6, <2>1, PeerChanges DEF OthersUse, Peer
  <2> QED BY <1>1, <1>6, <2>2 DEF OthersUse, PeerMap
<1> QED BY <1>3, <1>4, <1>5, <1>6

\* A connect that succeeds opens, and a read answers what it may.
LEMMA AnswersMap ==
  ASSUME TcpInv,
         ConnectSucceeds \/ SelectTimesOut \/ LwipReadData \/ LwipReadEnd \/ ReadFails
  PROVE  \/ \E c \in Socks : B!Open(c) \/ B!Silence(c) \/ B!End(c) \/ B!Fail(c)
         \/ \E c \in Socks, n \in 1..MaxBytes : B!Deliver(c, n)
<1> USE TcpAssumption DEF TcpInv, TcpTypeOK, CallInv, ConnectInv, DataInv, SockState
<1>1. cur \in Socks /\ AnswerMap = <<>> /\ PeerMap[cur] = Peer(cur)
  BY DEF ConnectSucceeds, SelectTimesOut, LwipReadData, LwipReadEnd, ReadFails, Calling, AnswerMap,
         PeerMap, Connected
<1>2. CASE ConnectSucceeds
  <2>1. sock' = [sock EXCEPT ![cur] = "up"] /\ sock[cur] = "new" /\ tcpPc' = "connectDone"
        /\ UNCHANGED <<sent, given>>
    BY <1>2 DEF ConnectSucceeds, Calling, Data
  <2>2. PeerMap[cur] = "none" /\ PeerMap' = [PeerMap EXCEPT ![cur] = "open"]
    BY <1>1, <2>1, PeerChanges DEF Peer
  <2> QED BY <1>1, <2>1, <2>2 DEF B!Open, PeerMap, AnswerMap
<1>3. CASE SelectTimesOut
  <2>1. /\ UNCHANGED <<sock, sent, given, cur>> /\ tcpPc' = "readDone" /\ result' = 0
        /\ ~failed /\ failed' = failed /\ sock[cur] = "up" /\ unread[cur] = 0
    BY <1>1, <1>3 DEF SelectTimesOut, Calling, Data, Readable, Connected
  <2>2. PeerMap[cur] = "open" /\ UNCHANGED PeerMap /\ given[cur] = sent[cur]
    BY <1>1, <2>1, PeerStays DEF Peer
  <2> QED BY <1>1, <2>1, <2>2 DEF B!Silence, B!Answered, PeerMap, AnswerMap
<1>4. CASE LwipReadData
  <2> DEFINE n == IF unread[cur] < BufLen THEN unread[cur] ELSE BufLen
  <2>1. /\ UNCHANGED <<sock, sent, cur>> /\ tcpPc' = "readDone" /\ result' = n
        /\ failed' = FALSE
        /\ given' = [given EXCEPT ![cur] = @ + n]
        /\ sock[cur] \in {"up", "closed", "reset"}
    BY <1>1, <1>4 DEF LwipReadData, Calling, Connected
  <2>2. n \in 1..(sent[cur] - given[cur]) /\ n \in 1..MaxBytes
    BY <1>1, <1>4 DEF LwipReadData
  <2>3. PeerMap[cur] # "none" /\ UNCHANGED PeerMap
    BY <1>1, <2>1, PeerStays DEF Peer
  <2> HIDE DEF n
  <2>4. AnswerMap' = <<cur, n, FALSE>>
    BY <2>1 DEF AnswerMap
  <2> QED BY <1>1, <2>1, <2>2, <2>3, <2>4 DEF B!Deliver, B!Answered, PeerMap, AnswerMap
<1>5. CASE LwipReadEnd
  <2>1. /\ UNCHANGED <<sock, sent, given, cur>> /\ tcpPc' = "readDone" /\ result' = -1
        /\ failed' = FALSE /\ sock[cur] \in {"closed", "reset"} /\ unread[cur] = 0
    BY <1>1, <1>5 DEF LwipReadEnd, Calling, Data, Readable
  <2>2. /\ PeerMap[cur] = "broken" \/ (PeerMap[cur] = "closed" /\ given[cur] = sent[cur])
        /\ UNCHANGED PeerMap
    BY <1>1, <2>1, PeerStays DEF Peer
  <2> QED BY <1>1, <2>1, <2>2 DEF B!End, B!Answered, PeerMap, AnswerMap
<1>6. CASE ReadFails
  <2>1. /\ UNCHANGED <<sock, sent, given, cur>> /\ tcpPc' = "readDone" /\ result' = -1
        /\ failed' = TRUE /\ sock[cur] \in {"up", "closed", "reset"}
    BY <1>6 DEF ReadFails, Data, Connected
  <2>2. PeerMap[cur] # "none" /\ UNCHANGED PeerMap
    BY <1>1, <2>1, PeerStays DEF Peer
  <2> QED BY <1>1, <2>1, <2>2 DEF B!Fail, B!Answered, PeerMap, AnswerMap
<1> QED BY <1>2, <1>3, <1>4, <1>5, <1>6

\* The three functions give the service the byte stream that ByteStream states.
THEOREM ByteStreamImplemented == TcpSpec => ImplementsByteStream
<1>1. TcpInit => B!StreamInit
  BY DEF TcpInit, B!StreamInit, Peer
<1>2. TcpInv /\ [TcpNext]_tcpVars => [B!StreamNext]_(B!streamVars)
  <2> SUFFICES ASSUME TcpInv, [TcpNext]_tcpVars
               PROVE  B!StreamNext \/ UNCHANGED <<PeerMap, sent, given, AnswerMap>>
    BY DEF B!streamVars, PeerMap, AnswerMap
  <2>1. ASSUME NEW s \in Socks, CarSends(s) \/ CarCloses(s) \/ Breaks(s) \/ OthersUse(s)
        PROVE  B!StreamNext \/ UNCHANGED <<PeerMap, sent, given, AnswerMap>>
    BY <2>1, OutsideMaps DEF B!StreamNext
  <2>2. CASE \/ ConnectWithoutHost \/ ConnectWithoutSocket \/ ConnectFails \/ SelectReady
             \/ \E s \in Socks : ConnectSocket(s) \/ Read(s) \/ Write(s)
    BY <2>2, CallsMap DEF B!StreamNext, B!Call, PeerMap, AnswerMap
  <2>3. CASE ConnectSucceeds \/ SelectTimesOut \/ LwipReadData \/ LwipReadEnd \/ ReadFails
    BY <2>3, AnswersMap DEF B!StreamNext
  <2>4. CASE UNCHANGED tcpVars
    BY <2>4, PeerStays DEF tcpVars, AnswerMap
  <2> QED BY <2>1, <2>2, <2>3, <2>4 DEF TcpNext, CallStep
<1> QED BY <1>1, <1>2, TcpInvariant, PTL DEF TcpSpec, ImplementsByteStream, B!Spec
=============================================================================
