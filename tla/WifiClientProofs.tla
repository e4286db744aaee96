-------------------------- MODULE WifiClientProofs --------------------------
(* Proofs about WifiClient, for every number of networks, stations, calls and *)
(* queue places, in any program that may restart the chip (WifiOpenSpec).     *)
EXTENDS WifiClient, SequenceTheorems, TLAPS

-----------------------------------------------------------------------------
(* The event queue. *)

Occurs(q, id) == \E i \in DOMAIN q : q[i].id = id

\* Every event a of q has an event b behind it.
Cancelled(q, a, b) ==
  \A i \in DOMAIN q : q[i].id = a => \E j \in DOMAIN q : j > i /\ q[j].id = b

\* Every address announced in q is one on a network of S.
AddressesIn(q, S) ==
  \A i \in DOMAIN q : q[i].id = "STA_GOT_IP" => q[i].net \in S

\* What queueing an event does to what occurs, is cancelled or announced in q.
LEMMA AppendEvent ==
  ASSUME NEW q \in Seq(Event), NEW e \in Event
  PROVE  /\ Append(q, e) \in Seq(Event)
         /\ \A id : Occurs(Append(q, e), id) <=> Occurs(q, id) \/ e.id = id
         /\ \A a, b : Cancelled(q, a, b) /\ e.id # a => Cancelled(Append(q, e), a, b)
         /\ \A a, b : a # b /\ e.id = b => Cancelled(Append(q, e), a, b)
         /\ \A S : AddressesIn(q, S) /\ (e.id = "STA_GOT_IP" => e.net \in S)
                     => AddressesIn(Append(q, e), S)
<1> DEFINE r == Append(q, e)
<1>1. /\ r \in Seq(Event)
      /\ Len(q) \in Nat
      /\ DOMAIN q = 1..Len(q)
      /\ DOMAIN r = 1..(Len(q) + 1)
      /\ \A i \in 1..Len(q) : r[i] = q[i]
      /\ r[Len(q) + 1] = e
  BY AppendProperties, LenProperties
<1> HIDE DEF r
<1>2. \A i \in DOMAIN r : i \in DOMAIN q \/ i = Len(q) + 1
  BY <1>1
<1>3. Len(q) + 1 \in DOMAIN r /\ \A i \in DOMAIN q : i \in DOMAIN r /\ i < Len(q) + 1
  BY <1>1
<1>4. \A id : Occurs(r, id) <=> Occurs(q, id) \/ e.id = id
  BY <1>1, <1>2, <1>3 DEF Occurs
<1>5. \A a, b : Cancelled(q, a, b) /\ e.id # a => Cancelled(r, a, b)
  BY <1>1, <1>2, <1>3 DEF Cancelled
<1>6. \A a, b : a # b /\ e.id = b => Cancelled(r, a, b)
  BY <1>1, <1>2, <1>3 DEF Cancelled
<1>7. \A S : AddressesIn(q, S) /\ (e.id = "STA_GOT_IP" => e.net \in S)
               => AddressesIn(r, S)
  BY <1>1, <1>2, <1>3 DEF AddressesIn
<1> QED
  BY <1>1, <1>4, <1>5, <1>6, <1>7 DEF r

\* What taking the first event out does.
LEMMA TailEvent ==
  ASSUME NEW q \in Seq(Event), q # <<>>
  PROVE  /\ Head(q) \in Event
         /\ Tail(q) \in Seq(Event)
         /\ \A id : Occurs(q, id) => Head(q).id = id \/ Occurs(Tail(q), id)
         /\ \A id : Occurs(Tail(q), id) => Occurs(q, id)
         /\ \A a, b : Cancelled(q, a, b) =>
              Cancelled(Tail(q), a, b) /\ (Head(q).id = a => Occurs(Tail(q), b))
         /\ \A S : AddressesIn(q, S) =>
              AddressesIn(Tail(q), S) /\ (Head(q).id = "STA_GOT_IP" => Head(q).net \in S)
<1> DEFINE r == Tail(q)
<1>1. /\ Head(q) \in Event /\ Head(q) = q[1]
      /\ r \in Seq(Event)
      /\ Len(q) \in Nat /\ Len(q) >= 1
      /\ DOMAIN q = 1..Len(q)
      /\ DOMAIN r = 1..(Len(q) - 1)
      /\ \A i \in 1..(Len(q) - 1) : r[i] = q[i + 1]
  BY HeadTailProperties, EmptySeq, LenProperties
<1> HIDE DEF r
<1>2. /\ 1 \in DOMAIN q
      /\ \A i \in DOMAIN q : i = 1 \/ (i - 1 \in DOMAIN r /\ r[i - 1] = q[i])
      /\ \A i \in DOMAIN r : i + 1 \in DOMAIN q /\ i + 1 > 1 /\ r[i] = q[i + 1]
  BY <1>1
<1>3. \A id : Occurs(q, id) => Head(q).id = id \/ Occurs(r, id)
  BY <1>1, <1>2 DEF Occurs
<1>4. \A id : Occurs(r, id) => Occurs(q, id)
  BY <1>1, <1>2 DEF Occurs
<1>5. \A a, b : Cancelled(q, a, b) =>
        Cancelled(r, a, b) /\ (Head(q).id = a => Occurs(r, b))
  <2> SUFFICES ASSUME NEW a, NEW b, Cancelled(q, a, b)
               PROVE  Cancelled(r, a, b) /\ (Head(q).id = a => Occurs(r, b))
    OBVIOUS
  <2>1. ASSUME NEW i \in DOMAIN r, r[i].id = a
        PROVE  \E j \in DOMAIN r : j > i /\ r[j].id = b
    <3>1. PICK j \in DOMAIN q : j > i + 1 /\ q[j].id = b
      BY <2>1, <1>2 DEF Cancelled
    <3> QED
      BY <3>1, <2>1, <1>1, <1>2
  <2>2. ASSUME Head(q).id = a
        PROVE  Occurs(r, b)
    <3>1. PICK j \in DOMAIN q : j > 1 /\ q[j].id = b
      BY <2>2, <1>1, <1>2 DEF Cancelled
    <3> QED
      BY <3>1, <1>1, <1>2 DEF Occurs
  <2> QED
    BY <2>1, <2>2 DEF Cancelled
<1>6. \A S : AddressesIn(q, S) =>
        AddressesIn(r, S) /\ (Head(q).id = "STA_GOT_IP" => Head(q).net \in S)
  BY <1>1, <1>2 DEF AddressesIn
<1> QED
  BY <1>1, <1>3, <1>4, <1>5, <1>6 DEF r

-----------------------------------------------------------------------------
(* Type invariant. *)

LEMMA EventTypes ==
  /\ \A id \in EventId : Ev(id) \in Event /\ Ev(id).id = id /\ Ev(id).net = NONE
  /\ \A c \in Configs \cup {NONE} :
       [id |-> "STA_GOT_IP", net |-> c] \in Event
BY DEF Event, EventId, Ev

LEMMA NoEvents == <<>> \in Seq(Event) /\ {} \subseteq {CONNECTED_BIT, AP_CONNECTED_BIT}
BY EmptySeq

LEMMA WifiTypeInit == WifiInit => WifiTypeOK
<1> SUFFICES ASSUME WifiInit PROVE WifiTypeOK
  OBVIOUS
<1>1. wifiGroup \in BOOLEAN /\ apUp \in BOOLEAN
  BY DEF WifiInit
<1> QED
  BY NoEvents, <1>1 DEF WifiInit, WifiTypeOK

LEMMA WifiTypeStep == WifiTypeOK /\ [WifiNext \/ WifiReboot]_wifiVars => WifiTypeOK'
<1> SUFFICES ASSUME WifiTypeOK, [WifiNext \/ WifiReboot]_wifiVars
             PROVE  WifiTypeOK'
  OBVIOUS
<1> USE EventTypes DEF WifiTypeOK, CONNECTED_BIT, AP_CONNECTED_BIT, staVars, apVars, connVars,
      EventId
<1>1. CASE wifi_client_setup
  BY <1>1 DEF wifi_client_setup
<1>2. CASE wifi_ap_init
  <2>1. <<Ev("STA_START"), Ev("AP_START")>> \in Seq(Event)
    OBVIOUS
  <2>2. events' \in Seq(Event)
    BY <2>1, <1>2, ConcatProperties DEF wifi_ap_init
  <2> QED
    BY <2>2, <1>2 DEF wifi_ap_init
<1>3. ASSUME NEW e \in Event, Post(e)
      PROVE  events' \in Seq(Event)
  BY <1>3, AppendEvent DEF Post
<1>4. CASE Driver
  <2>1. CASE Associate
    BY <2>1, <1>3 DEF Associate, DriverFrame
  <2>2. CASE AttemptFails
    BY <2>2, <1>3 DEF AttemptFails, DriverFrame
  <2>3. CASE LinkLost
    BY <2>3, <1>3 DEF LinkLost, DriverFrame
  <2>4. ASSUME NEW st \in Stations, StationJoins(st)
        PROVE  WifiTypeOK'
    BY <2>4, <1>3 DEF StationJoins, DriverFrame
  <2>5. ASSUME NEW st \in Stations, StationLeaves(st)
        PROVE  WifiTypeOK'
    BY <2>5, <1>3 DEF StationLeaves, DriverFrame
  <2> QED
    BY <1>4, <2>1, <2>2, <2>3, <2>4, <2>5 DEF Driver
<1>5. ASSUME NEW id, Delivered(id)
      PROVE  events' \in Seq(Event) /\ Head(events).net \in Configs \cup {NONE}
  BY <1>5, TailEvent DEF Delivered, Event
<1>6. ASSUME EspWifiConnect
      PROVE  /\ radio' \in {"off", "idle", "connecting", "connected"}
             /\ staNet' \in Configs \cup {NONE}
  BY <1>6 DEF EspWifiConnect
<1>7. CASE EventTask
  <2>1. CASE HandleApStart
    BY <2>1, <1>5 DEF HandleApStart, HandlerFrame
  <2>2. CASE HandleApStaConnected
    BY <2>2, <1>5 DEF HandleApStaConnected, HandlerFrame
  <2>3. CASE HandleApStaDisconnected
    BY <2>3, <1>5 DEF HandleApStaDisconnected, HandlerFrame
  <2>4. CASE HandleStaStart
    BY <2>4, <1>5, <1>6 DEF HandleStaStart, HandlerFrame
  <2>5. CASE HandleStaGotIp
    BY <2>5, <1>5 DEF HandleStaGotIp, HandlerFrame
  <2>6. CASE HandleStaDisconnected
    BY <2>6, <1>5, <1>6 DEF HandleStaDisconnected, HandlerFrame
  <2>7. CASE ClearAfterDisconnect
    BY <2>7 DEF ClearAfterDisconnect, HandlerFrame
  <2> QED
    BY <1>7, <2>1, <2>2, <2>3, <2>4, <2>5, <2>6, <2>7 DEF EventTask
<1>8. ASSUME NEW c \in Configs, ConnCall(c)
      PROVE  WifiTypeOK'
  BY <1>8 DEF ConnCall
<1>9. CASE ConnStep
  <2>1. CASE ConnDisconnect
    <3>1. events' \in Seq(Event)
      BY <2>1, <1>3 DEF ConnDisconnect
    <3> QED
      BY <3>1, <2>1 DEF ConnDisconnect, ConnFrame
  <2>2. CASE ConnSetConfig
    BY <2>2 DEF ConnSetConfig, ConnFrame
  <2>3. CASE ConnClear
    BY <2>3 DEF ConnClear, ConnFrame
  <2>4. CASE ConnConnect
    BY <2>4, <1>6 DEF ConnConnect, ConnFrame
  <2>5. CASE ConnWait
    BY <2>5 DEF ConnWait, ConnFrame
  <2> QED
    BY <1>9, <2>1, <2>2, <2>3, <2>4, <2>5 DEF ConnStep
<1>10. CASE ConnReturn
  BY <1>10 DEF ConnReturn, ConnFrame
<1>11. CASE WifiReboot
  BY NoEvents, <1>11 DEF WifiReboot
<1>12. CASE UNCHANGED wifiVars
  BY <1>12 DEF wifiVars
<1> QED
  BY <1>1, <1>2, <1>4, <1>7, <1>8, <1>9, <1>10, <1>11, <1>12
  DEF WifiNext, Setup, Caller

\* Every variable keeps the type WifiTypeOK gives it.
THEOREM WifiTypeCorrect == WifiOpenSpec => []WifiTypeOK
BY WifiTypeInit, WifiTypeStep, PTL DEF WifiOpenSpec

-----------------------------------------------------------------------------
(* The bits are not stale for good.  An event that sets a bit may be handled   *)
(* long after the state it announces has gone; the invariant says that then    *)
(* the event that clears the bit is behind it in the queue.                    *)

BitsInv ==
  /\ radio # "connected" => Cancelled(events, "STA_GOT_IP", "STA_DISCONNECTED")
  /\ joined = {} => Cancelled(events, "AP_STACONNECTED", "AP_STADISCONNECTED")
  /\ CONNECTED_BIT \in wifiBits =>
       radio = "connected" \/ evTask = "clear" \/ Occurs(events, "STA_DISCONNECTED")
  /\ AP_CONNECTED_BIT \in wifiBits =>
       joined # {} \/ Occurs(events, "AP_STADISCONNECTED")

LEMMA BitsInvInit == WifiInit => BitsInv
BY DEF WifiInit, BitsInv, Cancelled

\* The steps that queue an event, one or two.
LEMMA BitsInvPosts ==
  ASSUME WifiTypeOK, BitsInv,
         (radio = "off" /\ wifi_ap_init) \/ Driver \/ ConnDisconnect
  PROVE  BitsInv'
<1> USE EventTypes DEF BitsInv, WifiTypeOK, Post, DriverFrame, staVars, apVars, connVars,
      EventId
<1>0. ASSUME NEW e \in Event, events' = Append(events, e)
      PROVE  /\ \A id : Occurs(events', id) <=> Occurs(events, id) \/ e.id = id
             /\ \A a, b : Cancelled(events, a, b) /\ e.id # a => Cancelled(events', a, b)
             /\ \A a, b : a # b /\ e.id = b => Cancelled(events', a, b)
  BY <1>0, AppendEvent
<1>1. CASE radio = "off" /\ wifi_ap_init
  <2> DEFINE e1 == Ev("STA_START")  e2 == Ev("AP_START")
  <2>1. events' = Append(Append(events, e1), e2)
    BY <1>1 DEF wifi_ap_init
  <2>2. Append(events, e1) \in Seq(Event)
    BY AppendEvent
  <2>3. /\ \A id : Occurs(events, id) => Occurs(events', id)
        /\ \A a, b : a \notin {"STA_START", "AP_START"} /\ Cancelled(events, a, b)
                      => Cancelled(events', a, b)
    <3> HIDE DEF e1, e2
    <3>1. e1 \in Event /\ e2 \in Event /\ e1.id = "STA_START" /\ e2.id = "AP_START"
      BY DEF e1, e2
    <3> QED
      BY <3>1, <2>1, <2>2, AppendEvent
  <2> QED
    BY <2>3, <1>1 DEF wifi_ap_init
<1>2. CASE Associate
  <2>1. PICK e \in Event : e.id = "STA_GOT_IP" /\ events' = Append(events, e)
    BY <1>2 DEF Associate
  <2> QED
    BY <2>1, <1>2, <1>0 DEF Associate
<1>3. CASE AttemptFails \/ LinkLost
  <2>1. PICK e \in Event : e.id = "STA_DISCONNECTED" /\ events' = Append(events, e)
    BY <1>3 DEF AttemptFails, LinkLost
  <2> QED
    BY <2>1, <1>3, <1>0 DEF AttemptFails, LinkLost
<1>4. ASSUME NEW st \in Stations, StationJoins(st)
      PROVE  BitsInv'
  <2>1. PICK e \in Event : e.id = "AP_STACONNECTED" /\ events' = Append(events, e)
    BY <1>4 DEF StationJoins
  <2> QED
    BY <2>1, <1>4, <1>0 DEF StationJoins
<1>5. ASSUME NEW st \in Stations, StationLeaves(st)
      PROVE  BitsInv'
  <2>1. PICK e \in Event : e.id = "AP_STADISCONNECTED" /\ events' = Append(events, e)
    BY <1>5 DEF StationLeaves
  <2> QED
    BY <2>1, <1>5, <1>0 DEF StationLeaves
<1>6. CASE ConnDisconnect
  <2>1. CASE radio \in {"connecting", "connected"}
    <3>1. PICK e \in Event : e.id = "STA_DISCONNECTED" /\ events' = Append(events, e)
      BY <1>6, <2>1 DEF ConnDisconnect
    <3> QED
      BY <3>1, <2>1, <1>6, <1>0 DEF ConnDisconnect, ConnFrame
  <2>2. CASE radio \notin {"connecting", "connected"}
    BY <2>2, <1>6 DEF ConnDisconnect, ConnFrame
  <2> QED
    BY <2>1, <2>2
<1> QED
  BY <1>1, <1>2, <1>3, <1>4, <1>5, <1>6 DEF Driver

\* The steps that take an event out.
LEMMA BitsInvHandles ==
  ASSUME WifiTypeOK, BitsInv, EventTask
  PROVE  BitsInv'
<1> USE DEF BitsInv, WifiTypeOK, HandlerFrame, staVars, apVars, connVars, CONNECTED_BIT,
      AP_CONNECTED_BIT
<1>1. ASSUME NEW id, Delivered(id)
      PROVE  /\ Head(events).id = id
             /\ \A x : Occurs(events, x) => x = id \/ Occurs(events', x)
             /\ \A a, b : Cancelled(events, a, b) =>
                  Cancelled(events', a, b) /\ (a = id => Occurs(events', b))
  BY <1>1, TailEvent DEF Delivered
<1>2. CASE HandleApStart
  BY <1>1, <1>2 DEF HandleApStart
<1>3. CASE HandleApStaConnected
  BY <1>1, <1>3 DEF HandleApStaConnected
<1>4. CASE HandleApStaDisconnected
  BY <1>1, <1>4 DEF HandleApStaDisconnected
<1>5. CASE HandleStaStart
  BY <1>1, <1>5 DEF HandleStaStart, EspWifiConnect
<1>6. CASE HandleStaGotIp
  BY <1>1, <1>6 DEF HandleStaGotIp
<1>7. CASE HandleStaDisconnected
  BY <1>1, <1>7 DEF HandleStaDisconnected, EspWifiConnect
<1>8. CASE ClearAfterDisconnect
  BY <1>8 DEF ClearAfterDisconnect
<1> QED
  BY <1>2, <1>3, <1>4, <1>5, <1>6, <1>7, <1>8 DEF EventTask

LEMMA BitsInvStep ==
  WifiTypeOK /\ BitsInv /\ [WifiNext \/ WifiReboot]_wifiVars => BitsInv'
<1> SUFFICES ASSUME WifiTypeOK, BitsInv, [WifiNext \/ WifiReboot]_wifiVars
             PROVE  BitsInv'
  OBVIOUS
<1> USE DEF staVars, apVars, connVars
<1>1. CASE wifi_client_setup
  BY <1>1 DEF wifi_client_setup, BitsInv
<1>2. CASE (radio = "off" /\ wifi_ap_init) \/ Driver \/ ConnDisconnect
  BY <1>2, BitsInvPosts
<1>3. CASE EventTask
  BY <1>3, BitsInvHandles
<1>4. ASSUME NEW c \in Configs, ConnCall(c)
      PROVE  BitsInv'
  BY <1>4 DEF ConnCall, BitsInv
<1>5. CASE ConnSetConfig \/ ConnWait \/ ConnReturn
  BY <1>5 DEF ConnSetConfig, ConnWait, ConnReturn, ConnFrame, BitsInv
<1>6. CASE ConnClear
  BY <1>6 DEF ConnClear, ConnFrame, BitsInv
<1>7. CASE ConnConnect
  BY <1>7 DEF ConnConnect, EspWifiConnect, ConnFrame, BitsInv
<1>8. CASE WifiReboot
  BY <1>8 DEF WifiReboot, BitsInv, Cancelled
<1>9. CASE UNCHANGED wifiVars
  BY <1>9 DEF wifiVars, BitsInv
<1> QED
  BY <1>1, <1>2, <1>3, <1>4, <1>5, <1>6, <1>7, <1>8, <1>9
  DEF WifiNext, Setup, Caller, ConnStep

\* A set CONNECTED bit means an associated station, or its clearing under way;
\* wifi_client_event_handler clears it on STA_DISCONNECTED only.
THEOREM ConnectedBitIsSound == WifiOpenSpec => []ConnectedBitSound
<1>1. BitsInv => ConnectedBitSound
  BY DEF BitsInv, ConnectedBitSound, DisconnectPending, Pending, Occurs
<1> QED
  BY <1>1, BitsInvInit, BitsInvStep, WifiTypeCorrect, PTL DEF WifiOpenSpec

\* The same of the AP_CONNECTED bit and the stations of the soft AP.
THEOREM ApBitIsSound == WifiOpenSpec => []ApBitSound
<1>1. BitsInv => ApBitSound
  BY DEF BitsInv, ApBitSound, Pending, Occurs
<1> QED
  BY <1>1, BitsInvInit, BitsInvStep, WifiTypeCorrect, PTL DEF WifiOpenSpec

-----------------------------------------------------------------------------
(* The retry never stalls.  wifi_ap_init leaves the station idle with nothing *)
(* queued for it, so the invariant also says what a stopped driver implies.   *)

StallInv ==
  /\ radio = "off" => /\ staCfg = NONE /\ connPc = "none" /\ ~apUp /\ joined = {}
                      /\ events = <<>>
  /\ radio = "idle" /\ staCfg # NONE =>
       Occurs(events, "STA_DISCONNECTED") \/ connPc \in {"setConfig", "clear", "connect"}

LEMMA StallInvStep ==
  WifiTypeOK /\ StallInv /\ [WifiNext \/ WifiReboot]_wifiVars => StallInv'
<1> SUFFICES ASSUME WifiTypeOK, StallInv, [WifiNext \/ WifiReboot]_wifiVars
             PROVE  StallInv'
  OBVIOUS
<1> USE EventTypes DEF StallInv, WifiTypeOK, EventId, staVars, apVars, connVars
<1>1. CASE wifi_client_setup
  BY <1>1 DEF wifi_client_setup
<1>2. CASE radio = "off" /\ wifi_ap_init
  BY <1>2 DEF wifi_ap_init
<1>3. ASSUME NEW e \in Event, Post(e)
      PROVE  /\ e.id = "STA_DISCONNECTED" => Occurs(events', "STA_DISCONNECTED")
             /\ Occurs(events, "STA_DISCONNECTED") => Occurs(events', "STA_DISCONNECTED")
  BY <1>3, AppendEvent DEF Post
<1>4. CASE Driver
  <2> USE DEF DriverFrame
  <2>1. CASE Associate
    BY <1>3, <2>1 DEF Associate
  <2>2. CASE AttemptFails \/ LinkLost
    BY <1>3, <2>2 DEF AttemptFails, LinkLost
  <2>3. ASSUME NEW st \in Stations, StationJoins(st) \/ StationLeaves(st)
        PROVE  StallInv'
    BY <1>3, <2>3 DEF StationJoins, StationLeaves
  <2> QED
    BY <1>4, <2>1, <2>2, <2>3 DEF Driver
<1>5. ASSUME NEW id, Delivered(id)
      PROVE  /\ radio # "off"
             /\ id # "STA_DISCONNECTED" /\ Occurs(events, "STA_DISCONNECTED")
                  => Occurs(events', "STA_DISCONNECTED")
  BY <1>5, TailEvent DEF Delivered
<1>6. CASE EventTask
  <2> USE DEF HandlerFrame
  <2>1. CASE HandleApStart \/ HandleApStaConnected \/ HandleApStaDisconnected
    BY <1>5, <2>1 DEF HandleApStart, HandleApStaConnected, HandleApStaDisconnected
  <2>2. CASE HandleStaStart
    BY <1>5, <2>2 DEF HandleStaStart, EspWifiConnect
  <2>3. CASE HandleStaGotIp
    BY <1>5, <2>3 DEF HandleStaGotIp
  <2>4. CASE HandleStaDisconnected
    BY <1>5, <2>4 DEF HandleStaDisconnected, EspWifiConnect
  <2>5. CASE ClearAfterDisconnect
    BY <2>5 DEF ClearAfterDisconnect
  <2> QED
    BY <1>6, <2>1, <2>2, <2>3, <2>4, <2>5 DEF EventTask
<1>7. ASSUME apUp, NEW c \in Configs, ConnCall(c)
      PROVE  StallInv'
  BY <1>7 DEF ConnCall
<1>8. CASE ConnStep
  <2> USE DEF ConnFrame
  <2>1. CASE ConnDisconnect
    BY <2>1 DEF ConnDisconnect
  <2>2. CASE ConnSetConfig \/ ConnClear
    BY <2>2 DEF ConnSetConfig, ConnClear
  <2>3. CASE ConnConnect
    BY <2>3 DEF ConnConnect, EspWifiConnect
  <2>4. CASE ConnWait
    BY <2>4 DEF ConnWait
  <2> QED
    BY <1>8, <2>1, <2>2, <2>3, <2>4 DEF ConnStep
<1>9. CASE ConnReturn
  BY <1>9 DEF ConnReturn, ConnFrame
<1>10. CASE WifiReboot
  BY <1>10 DEF WifiReboot
<1>11. CASE UNCHANGED wifiVars
  BY <1>11 DEF wifiVars
<1> QED
  BY <1>1, <1>2, <1>4, <1>6, <1>7, <1>8, <1>9, <1>10, <1>11 DEF WifiNext, Setup, Caller

\* A configured station that is idle is about to be connected again, by the
\* handler of STA_DISCONNECTED or by the call in progress.
THEOREM RetryNeverStalls == WifiOpenSpec => []NeverStalls
<1>1. WifiInit => StallInv
  BY DEF WifiInit, StallInv
<1>2. StallInv => NeverStalls
  BY DEF StallInv, NeverStalls, Pending, Occurs
<1> QED
  BY <1>1, <1>2, StallInvStep, WifiTypeCorrect, PTL DEF WifiOpenSpec

-----------------------------------------------------------------------------
(* The first call of a boot.  Before it the station is unconfigured; from then *)
(* until a second call the driver, the queue and the bit know its network      *)
(* only.  A second call breaks this: ConnectedToRequested does not hold.       *)

FirstCallInv ==
  /\ calls = 0 => /\ staCfg = NONE /\ connPc = "none"
                  /\ radio \notin {"connecting", "connected"}
                  /\ ~Occurs(events, "STA_GOT_IP")
                  /\ CONNECTED_BIT \notin wifiBits
  /\ calls = 1 => /\ staCfg \in {NONE, connArg}
                  /\ radio \in {"connecting", "connected"} => staNet = connArg
                  /\ AddressesIn(events, {connArg})
                  /\ CONNECTED_BIT \in wifiBits => ipNet = connArg
                  /\ connPc = "returned" => ipNet = connArg

LEMMA FirstCallInvStep ==
  WifiTypeOK /\ FirstCallInv /\ [WifiNext \/ WifiReboot]_wifiVars => FirstCallInv'
<1> SUFFICES ASSUME WifiTypeOK, FirstCallInv, [WifiNext \/ WifiReboot]_wifiVars
             PROVE  FirstCallInv'
  OBVIOUS
<1> USE EventTypes DEF FirstCallInv, WifiTypeOK, EventId, staVars, apVars, connVars
<1>1. CASE wifi_client_setup
  BY <1>1 DEF wifi_client_setup
<1>2. ASSUME NEW e \in Event, Post(e)
      PROVE  /\ e.id # "STA_GOT_IP" /\ ~Occurs(events, "STA_GOT_IP")
                  => ~Occurs(events', "STA_GOT_IP")
             /\ \A S : (e.id = "STA_GOT_IP" => e.net \in S) /\ AddressesIn(events, S)
                  => AddressesIn(events', S)
  BY <1>2, AppendEvent DEF Post
<1>3. CASE wifi_ap_init
  <2> DEFINE e1 == Ev("STA_START")  e2 == Ev("AP_START")
  <2>1. e1 \in Event /\ e2 \in Event /\ e1.id = "STA_START" /\ e2.id = "AP_START"
    OBVIOUS
  <2>2. events' = Append(Append(events, e1), e2)
    BY <1>3 DEF wifi_ap_init
  <2> HIDE DEF e1, e2
  <2>3. /\ ~Occurs(events, "STA_GOT_IP") => ~Occurs(events', "STA_GOT_IP")
        /\ \A S : AddressesIn(events, S) => AddressesIn(events', S)
    <3>1. Append(events, e1) \in Seq(Event)
      BY <2>1, AppendEvent
    <3> QED
      BY <3>1, <2>1, <2>2, AppendEvent
  <2> QED
    BY <2>3, <1>3 DEF wifi_ap_init
<1>4. CASE Driver
  <2> USE DEF DriverFrame
  <2>1. CASE Associate
    <3>1. PICK e \in Event : e.id = "STA_GOT_IP" /\ e.net = staNet /\ Post(e)
      BY <2>1 DEF Associate
    <3> QED
      BY <3>1, <1>2, <2>1 DEF Associate
  <2>2. CASE AttemptFails \/ LinkLost
    BY <1>2, <2>2 DEF AttemptFails, LinkLost
  <2>3. ASSUME NEW st \in Stations, StationJoins(st) \/ StationLeaves(st)
        PROVE  FirstCallInv'
    BY <1>2, <2>3 DEF StationJoins, StationLeaves
  <2> QED
    BY <1>4, <2>1, <2>2, <2>3 DEF Driver
<1>5. ASSUME NEW id, Delivered(id)
      PROVE  /\ id = "STA_GOT_IP" => Occurs(events, "STA_GOT_IP")
             /\ ~Occurs(events, "STA_GOT_IP") => ~Occurs(events', "STA_GOT_IP")
             /\ \A S : AddressesIn(events, S) =>
                  /\ AddressesIn(events', S)
                  /\ id = "STA_GOT_IP" => Head(events).net \in S
  <2>1. 1 \in DOMAIN events /\ Head(events) = events[1]
    BY <1>5, EmptySeq, LenProperties, HeadTailProperties DEF Delivered
  <2>2. id = "STA_GOT_IP" => Occurs(events, "STA_GOT_IP")
    BY <1>5, <2>1 DEF Delivered, Occurs
  <2> QED
    BY <1>5, <2>2, TailEvent DEF Delivered
<1>6. CASE EventTask
  <2> USE DEF HandlerFrame, CONNECTED_BIT, AP_CONNECTED_BIT
  <2>1. CASE HandleApStart
    BY <1>5, <2>1 DEF HandleApStart
  <2>2. CASE HandleApStaConnected
    BY <1>5, <2>2 DEF HandleApStaConnected
  <2>3. CASE HandleApStaDisconnected
    BY <1>5, <2>3 DEF HandleApStaDisconnected
  <2>4. CASE HandleStaStart
    BY <1>5, <2>4, WifiAssumption DEF HandleStaStart, EspWifiConnect
  <2>5. CASE HandleStaGotIp
    BY <1>5, <2>5 DEF HandleStaGotIp
  <2>6. CASE HandleStaDisconnected
    BY <1>5, <2>6, WifiAssumption DEF HandleStaDisconnected, EspWifiConnect
  <2>7. CASE ClearAfterDisconnect
    BY <2>7 DEF ClearAfterDisconnect
  <2> QED
    BY <1>6, <2>1, <2>2, <2>3, <2>4, <2>5, <2>6, <2>7 DEF EventTask
<1>7. ASSUME NEW c \in Configs, ConnCall(c)
      PROVE  FirstCallInv'
  <2>1. ~Occurs(events, "STA_GOT_IP") => AddressesIn(events, {c})
    BY DEF Occurs, AddressesIn
  <2> QED
    BY <2>1, <1>7 DEF ConnCall
<1>8. CASE ConnStep
  <2> USE DEF ConnFrame
  <2>1. CASE ConnDisconnect
    BY <1>2, <2>1 DEF ConnDisconnect
  <2>2. CASE ConnSetConfig
    BY <2>2 DEF ConnSetConfig
  <2>3. CASE ConnClear
    BY <2>3 DEF ConnClear
  <2>4. CASE ConnConnect
    BY <2>4 DEF ConnConnect, EspWifiConnect
  <2>5. CASE ConnWait
    BY <2>5 DEF ConnWait
  <2> QED
    BY <1>8, <2>1, <2>2, <2>3, <2>4, <2>5 DEF ConnStep
<1>9. CASE ConnReturn
  BY <1>9 DEF ConnReturn, ConnFrame
<1>10. CASE WifiReboot
  BY <1>10 DEF WifiReboot, Occurs
<1>11. CASE UNCHANGED wifiVars
  BY <1>11 DEF wifiVars
<1> QED
  BY <1>1, <1>3, <1>4, <1>6, <1>7, <1>8, <1>9, <1>10, <1>11 DEF WifiNext, Setup, Caller

\* The first wifi_conn_initStationAndWait of a boot returns with an address on
\* the network it was given and no other.
THEOREM FirstCallIsRight == WifiOpenSpec => []FirstCallGetsItsNetwork
<1>1. WifiInit => FirstCallInv
  BY DEF WifiInit, FirstCallInv, Occurs
<1>2. FirstCallInv => FirstCallGetsItsNetwork
  BY DEF FirstCallInv, FirstCallGetsItsNetwork
<1> QED
  BY <1>1, <1>2, FirstCallInvStep, WifiTypeCorrect, PTL DEF WifiOpenSpec

-----------------------------------------------------------------------------
(* The first call loses no wake-up.  The station cannot be associated before  *)
(* the call has cleared the bit, because STA_START was handled before anyone   *)
(* could reach the device; after that, while the station is associated, either *)
(* an address nothing cancels is queued or the bit is set and stays set.       *)

\* What the lemmas on the queue say of an event that is not cancelled.
LEMMA AppendUncancelled ==
  ASSUME NEW q \in Seq(Event), NEW e \in Event
  PROVE  /\ \A a, b : a # b /\ e.id = a => ~Cancelled(Append(q, e), a, b)
         /\ \A a, b : ~Cancelled(q, a, b) /\ e.id # b => ~Cancelled(Append(q, e), a, b)
<1> DEFINE r == Append(q, e)
<1>1. /\ Len(q) \in Nat
      /\ DOMAIN q = 1..Len(q)
      /\ DOMAIN r = 1..(Len(q) + 1)
      /\ \A i \in 1..Len(q) : r[i] = q[i]
      /\ r[Len(q) + 1] = e
  BY AppendProperties, LenProperties
<1> HIDE DEF r
<1>2. \A i \in DOMAIN r : i \in DOMAIN q \/ i = Len(q) + 1
  BY <1>1
<1>3. Len(q) + 1 \in DOMAIN r /\ \A j \in DOMAIN r : ~(j > Len(q) + 1)
  BY <1>1
<1>4. \A a, b : a # b /\ e.id = a => ~Cancelled(r, a, b)
  BY <1>1, <1>3 DEF Cancelled
<1>5. \A a, b : ~Cancelled(q, a, b) /\ e.id # b => ~Cancelled(r, a, b)
  BY <1>1, <1>2 DEF Cancelled
<1> QED
  BY <1>4, <1>5 DEF r

LEMMA TailUncancelled ==
  ASSUME NEW q \in Seq(Event), q # <<>>, NEW a, NEW b, ~Cancelled(q, a, b)
  PROVE  ~Cancelled(Tail(q), a, b) \/ (Head(q).id = a /\ ~Occurs(Tail(q), b))
<1> DEFINE r == Tail(q)
<1>1. /\ Head(q) = q[1]
      /\ Len(q) \in Nat /\ Len(q) >= 1
      /\ DOMAIN q = 1..Len(q)
      /\ DOMAIN r = 1..(Len(q) - 1)
      /\ \A i \in 1..(Len(q) - 1) : r[i] = q[i + 1]
  BY HeadTailProperties, EmptySeq, LenProperties
<1> HIDE DEF r
<1>2. /\ \A i \in DOMAIN q : i = 1 \/ (i - 1 \in DOMAIN r /\ r[i - 1] = q[i])
      /\ \A i \in DOMAIN r : i \in Nat /\ i + 1 \in DOMAIN q /\ i + 1 > 1 /\ r[i] = q[i + 1]
  BY <1>1
<1>3. PICK i \in DOMAIN q : q[i].id = a /\ \A j \in DOMAIN q : j > i => q[j].id # b
  BY DEF Cancelled
<1>4. CASE i = 1
  BY <1>1, <1>2, <1>3, <1>4 DEF Occurs
<1>5. CASE i # 1
  <2>1. i - 1 \in DOMAIN r /\ r[i - 1].id = a
    BY <1>2, <1>3, <1>5
  <2>2. ASSUME NEW j \in DOMAIN r, j > i - 1
        PROVE  r[j].id # b
    BY <1>1, <1>2, <1>3, <2>2
  <2> QED
    BY <2>1, <2>2 DEF Cancelled, r
<1> QED
  BY <1>4, <1>5

EarlyCall == {"disconnect", "setConfig", "clear", "connect"}

\* Nothing about the station is queued or in progress.
StationQuiet ==
  /\ radio \notin {"connecting", "connected"}
  /\ ~Occurs(events, "STA_GOT_IP") /\ ~Occurs(events, "STA_DISCONNECTED")
  /\ evTask = "idle"

WakeInv ==
  /\ ~apUp => /\ events \in {<<>>, <<Ev("STA_START"), Ev("AP_START")>>, <<Ev("AP_START")>>}
              /\ calls = 0 /\ joined = {}
  /\ apUp => ~Occurs(events, "STA_START") /\ ~Occurs(events, "AP_START") /\ radio # "off"
  /\ radio = "off" => events = <<>>
  /\ calls = 0 => StationQuiet /\ connPc = "none" /\ staCfg = NONE
  /\ calls = 1 /\ connPc \in EarlyCall => StationQuiet
  /\ calls = 1 /\ connPc \in {"wait", "blocked"} /\ radio = "connected" =>
       \/ ~Cancelled(events, "STA_GOT_IP", "STA_DISCONNECTED")
       \/ /\ connPc = "wait" /\ CONNECTED_BIT \in wifiBits
          /\ ~Occurs(events, "STA_DISCONNECTED") /\ evTask = "idle"

LEMMA WakeInvStep ==
  WifiTypeOK /\ WakeInv /\ [WifiNext \/ WifiReboot]_wifiVars => WakeInv'
<1> SUFFICES ASSUME WifiTypeOK, WakeInv, [WifiNext \/ WifiReboot]_wifiVars
             PROVE  WakeInv'
  OBVIOUS
<1> USE EventTypes DEF WakeInv, StationQuiet, EarlyCall, WifiTypeOK, EventId, staVars,
      apVars, connVars
<1>1. CASE wifi_client_setup
  BY <1>1 DEF wifi_client_setup
<1>2. CASE radio = "off" /\ wifi_ap_init
  <2> DEFINE q == <<Ev("STA_START"), Ev("AP_START")>>
  <2>1. events' = q
    BY <1>2 DEF wifi_ap_init
  <2>2. ~Occurs(q, "STA_GOT_IP") /\ ~Occurs(q, "STA_DISCONNECTED")
    BY DEF Occurs
  <2> HIDE DEF q
  <2>3. ~Occurs(events', "STA_GOT_IP") /\ ~Occurs(events', "STA_DISCONNECTED")
    BY <2>1, <2>2
  <2>4. ~apUp /\ events' \in {<<>>, <<Ev("STA_START"), Ev("AP_START")>>, <<Ev("AP_START")>>}
    BY <2>1, <1>2 DEF q
  <2> QED
    BY <2>3, <2>4, <1>2 DEF wifi_ap_init
<1>3. ASSUME NEW e \in Event, Post(e)
      PROVE  /\ \A id : Occurs(events', id) <=> Occurs(events, id) \/ e.id = id
             /\ e.id = "STA_GOT_IP" => ~Cancelled(events', "STA_GOT_IP", "STA_DISCONNECTED")
             /\ ~Cancelled(events, "STA_GOT_IP", "STA_DISCONNECTED")
                   /\ e.id # "STA_DISCONNECTED"
                  => ~Cancelled(events', "STA_GOT_IP", "STA_DISCONNECTED")
  BY <1>3, AppendEvent, AppendUncancelled DEF Post
<1>4. CASE Driver
  <2> USE DEF DriverFrame
  <2>1. CASE Associate
    <3>1. PICK e \in Event : e.id = "STA_GOT_IP" /\ Post(e)
      BY <2>1 DEF Associate
    <3> QED
      BY <3>1, <1>3, <2>1 DEF Associate
  <2>2. CASE AttemptFails \/ LinkLost
    BY <1>3, <2>2 DEF AttemptFails, LinkLost
  <2>3. ASSUME NEW st \in Stations, StationJoins(st) \/ StationLeaves(st)
        PROVE  WakeInv'
    BY <1>3, <2>3 DEF StationJoins, StationLeaves
  <2> QED
    BY <1>4, <2>1, <2>2, <2>3 DEF Driver
<1>5. ASSUME NEW id, Delivered(id)
      PROVE  /\ Occurs(events, id) /\ radio # "off"
             /\ \A x : Occurs(events', x) => Occurs(events, x)
             /\ ~Cancelled(events, "STA_GOT_IP", "STA_DISCONNECTED")
                  => \/ ~Cancelled(events', "STA_GOT_IP", "STA_DISCONNECTED")
                     \/ id = "STA_GOT_IP" /\ ~Occurs(events', "STA_DISCONNECTED")
             /\ ~apUp => \/ id = "STA_START" /\ events' = <<Ev("AP_START")>>
                         \/ id = "AP_START" /\ events' = <<>>
  <2>1. 1 \in DOMAIN events /\ Head(events) = events[1] /\ events # <<>>
    BY <1>5, EmptySeq, LenProperties, HeadTailProperties DEF Delivered
  <2>2. Occurs(events, id) /\ radio # "off"
    BY <1>5, <2>1 DEF Delivered, Occurs
  <2>3. ~apUp => \/ id = "STA_START" /\ events' = <<Ev("AP_START")>>
                 \/ id = "AP_START" /\ events' = <<>>
    <3> DEFINE e1 == Ev("STA_START")  e2 == Ev("AP_START")
    <3>1. e1.id = "STA_START" /\ e2.id = "AP_START"
      OBVIOUS
    <3> HIDE DEF e1, e2
    <3>2. /\ Head(<<e1, e2>>) = e1 /\ Tail(<<e1, e2>>) = <<e2>>
          /\ Head(<<e2>>) = e2 /\ Tail(<<e2>>) = <<>>
      OBVIOUS
    <3>3. ~apUp => events \in {<<e1, e2>>, <<e2>>}
      BY <2>1 DEF e1, e2
    <3>4. ~apUp => \/ id = "STA_START" /\ events' = <<e2>>
                   \/ id = "AP_START" /\ events' = <<>>
      BY <1>5, <3>1, <3>2, <3>3 DEF Delivered
    <3> QED
      BY <3>4 DEF e2
  <2> QED
    BY <1>5, <2>2, <2>3, TailEvent, TailUncancelled DEF Delivered
<1>6. ~Occurs(<<>>, "STA_START") /\ ~Occurs(<<>>, "AP_START")
  BY DEF Occurs
<1>7. CASE EventTask
  <2> USE DEF HandlerFrame, CONNECTED_BIT, AP_CONNECTED_BIT
  <2>1. CASE HandleApStart
    BY <1>5, <1>6, <2>1 DEF HandleApStart
  <2>2. CASE HandleApStaConnected
    BY <1>5, <2>2 DEF HandleApStaConnected
  <2>3. CASE HandleApStaDisconnected
    BY <1>5, <2>3 DEF HandleApStaDisconnected
  <2>4. CASE HandleStaStart
    BY <1>5, <2>4 DEF HandleStaStart, EspWifiConnect
  <2>5. CASE HandleStaGotIp
    BY <1>5, <2>5 DEF HandleStaGotIp, Delivered
  <2>6. CASE HandleStaDisconnected
    BY <1>5, <2>6 DEF HandleStaDisconnected, EspWifiConnect
  <2>7. CASE ClearAfterDisconnect
    BY <2>7 DEF ClearAfterDisconnect
  <2> QED
    BY <1>7, <2>1, <2>2, <2>3, <2>4, <2>5, <2>6, <2>7 DEF EventTask
<1>8. ASSUME apUp, NEW c \in Configs, ConnCall(c)
      PROVE  WakeInv'
  BY <1>8 DEF ConnCall
<1>9. CASE ConnStep
  <2> USE DEF ConnFrame
  <2>1. CASE ConnDisconnect
    BY <1>3, <2>1 DEF ConnDisconnect
  <2>2. CASE ConnSetConfig
    BY <2>2 DEF ConnSetConfig
  <2>3. CASE ConnClear
    BY <2>3 DEF ConnClear
  <2>4. CASE ConnConnect
    BY <2>4 DEF ConnConnect, EspWifiConnect
  <2>5. CASE ConnWait
    BY <2>5 DEF ConnWait
  <2> QED
    BY <1>9, <2>1, <2>2, <2>3, <2>4, <2>5 DEF ConnStep
<1>10. CASE ConnReturn
  BY <1>10 DEF ConnReturn, ConnFrame
<1>11. CASE WifiReboot
  BY <1>11 DEF WifiReboot, Occurs
<1>12. CASE UNCHANGED wifiVars
  BY <1>12 DEF wifiVars
<1> QED
  BY <1>1, <1>2, <1>4, <1>7, <1>8, <1>9, <1>10, <1>11, <1>12 DEF WifiNext, Setup, Caller

LEMMA WakeInvInit == WifiInit => WakeInv
BY DEF WifiInit, WakeInv, StationQuiet, Occurs

\* The first call never sleeps beside an associated station for good: the event
\* that wakes it is in the queue.
THEOREM FirstCallIsWoken == WifiOpenSpec => []FirstCallWillWake
<1>1. WakeInv => FirstCallWillWake
  BY DEF WakeInv, FirstCallWillWake, Cancelled, Pending
<1> QED
  BY <1>1, WakeInvInit, WakeInvStep, WifiTypeCorrect, PTL DEF WifiOpenSpec
=============================================================================
