---------------------------- MODULE PhevAppProofs ----------------------------
(* Proofs about PhevApp: it uses the Wi-Fi component as that component's own  *)
(* module allows, so what is proved there holds here; its own safety          *)
(* properties; and it implements Lifecycle.                                   *)
EXTENDS PhevApp, WifiClientProofs

-----------------------------------------------------------------------------
(* Type invariant. *)

LEMMA AppTypeInit == Init => AppTypeOK
<1> SUFFICES ASSUME Init PROVE AppTypeOK
  OBVIOUS
<1>1. mainGroup \in BOOLEAN /\ mounted \in BOOLEAN /\ rejected \in BOOLEAN
  BY DEF Init, AppInit
<1> QED
  BY <1>1, AppAssumption DEF Init, AppInit, AppTypeOK

LEMMA AppTypeStep == AppTypeOK /\ [Next]_vars => AppTypeOK'
<1> SUFFICES ASSUME AppTypeOK, [Next]_vars
             PROVE  AppTypeOK'
  OBVIOUS
<1> USE AppAssumption DEF AppTypeOK, DerefPoints, uriVars, svcVars, appVars
<1>1. ASSUME NEW u \in Uri, Register(u)
      PROVE  slots' \in 0..MaxUriHandlers /\ uris' \subseteq Uri
  BY <1>1 DEF Register
<1>2. SetupUris \subseteq Uri /\ ServiceUris \subseteq Uri
  BY DEF Uri
<1>3. CASE MainTask
  <2> USE DEF MainAt, MainFrame
  <2>0. CASE initialise_spiffs
    BY <2>0 DEF initialise_spiffs
  <2>1. CASE start_webserver
    <3>1. CASE UNCHANGED uriVars
      BY <2>1, <3>1 DEF start_webserver
    <3>2. ASSUME NEW n \in FileCounts, createHandlers(n)
          PROVE  AppTypeOK'
      <4>0. mounted' = mounted
        BY <3>2 DEF createHandlers
      <4>1. uris' \subseteq Uri
        BY <3>2 DEF createHandlers, BaseUris, Uri
      <4>2. slots' \in 0..MaxUriHandlers
        BY <3>2 DEF createHandlers
      <4>3. files' \in FileCounts \cup {NONE}
        BY <3>2 DEF createHandlers
      <4> QED
        BY <2>1, <4>0, <4>1, <4>2, <4>3 DEF start_webserver
    <3> QED
      BY <2>1, <3>1, <3>2 DEF start_webserver
  <2>2. CASE MainWifiSetup
    BY <2>2 DEF MainWifiSetup
  <2>3. CASE MainCreateGroup
    BY <2>3 DEF MainCreateGroup
  <2>4. CASE MainApInit
    BY <2>4 DEF MainApInit
  <2>5. CASE MainWaitConnected
    BY <2>5 DEF MainWaitConnected
  <2>6. CASE MainRegisters
    <3>1. PICK u \in SetupUris : Register(u)
      BY <2>6 DEF MainRegisters, SetupUris
    <3> QED
      BY <1>1, <1>2, <3>1, <2>6 DEF MainRegisters
  <2>7. CASE MainWaitStart
    BY <2>7 DEF MainWaitStart
  <2>8. CASE MainLogDetails
    BY <2>8 DEF MainLogDetails
  <2>9. CASE MainLoadHost
    BY <2>9 DEF MainLoadHost
  <2>10. CASE MainLoadPort
    BY <2>10 DEF MainLoadPort
  <2>11. CASE createServiceCtx
    BY <2>11 DEF createServiceCtx
  <2>12. CASE register_handlers
    <3>1. PICK u \in ServiceUris : Register(u)
      BY <2>12 DEF register_handlers, ServiceUris
    <3> QED
      BY <1>1, <1>2, <3>1, <2>12 DEF register_handlers
  <2>13. CASE MainSpawn
    BY <2>13 DEF MainSpawn
  <2> QED
    BY <1>3, <2>0, <2>1, <2>2, <2>3, <2>4, <2>5, <2>6, <2>7, <2>8, <2>9, <2>10, <2>11, <2>12,
       <2>13 DEF MainTask
<1>4. ASSUME NEW u \in HandledUris, HttpRequest(u)
      PROVE  AppTypeOK'
  BY <1>4 DEF HttpRequest, HttpdAt, HttpdFrame, HandledUris
<1>5. CASE HandlerStep
  <2> USE DEF HttpdAt, HttpdFrame
  <2>1. CASE PostConfigRecvFails
    BY <2>1 DEF PostConfigRecvFails
  <2>2. CASE PostConfigRejected
    BY <2>2 DEF PostConfigRejected
  <2>3. ASSUME NEW c \in Configs, PostConfigAccepted(c)
        PROVE  AppTypeOK'
    BY <2>3 DEF PostConfigAccepted
  <2>4. CASE PostConfigReplies
    BY <2>4 DEF PostConfigReplies
  <2>5. CASE PostConfigSetsBit
    BY <2>5 DEF PostConfigSetsBit
  <2>6. CASE HandlerSetsStart
    BY <2>6 DEF HandlerSetsStart
  <2>7. CASE HandlerReplies
    BY <2>7 DEF HandlerReplies
  <2> QED
    BY <1>5, <2>1, <2>2, <2>3, <2>4, <2>5, <2>6, <2>7 DEF HandlerStep
<1>6. CASE WifiStep
  BY <1>6 DEF WifiStep
<1>7. CASE Reboot
  <2>1. mainGroup' \in BOOLEAN /\ mounted' \in BOOLEAN /\ rejected' \in BOOLEAN
    BY <1>7 DEF Reboot
  <2> QED
    BY <1>7, <2>1 DEF Reboot
<1>8. CASE UNCHANGED vars
  BY <1>8 DEF vars
<1> QED
  BY <1>3, <1>4, <1>5, <1>6, <1>7, <1>8 DEF Next

\* Every variable of main.c keeps the type AppTypeOK gives it.
THEOREM AppTypeCorrect == Spec => []AppTypeOK
BY AppTypeInit, AppTypeStep, PTL DEF Spec

-----------------------------------------------------------------------------
(* The order of app_main, and the Wi-Fi component inside the program.  Both    *)
(* need each other: main.c keeps to the component's interface because of the   *)
(* order it does things in, and that no client is there before the access      *)
(* point is what WakeInv says of the component.                                *)

Starting == {"boot", "startServer", "wifiSetup", "createGroup", "apInit"}

OrderInv ==
  /\ wifiGroup <=> mainPc \notin {"boot", "startServer", "wifiSetup"}
  /\ mainPc \notin {"boot", "startServer", "wifiSetup", "createGroup"} => mainGroup
  /\ radio = "off" <=> mainPc \in Starting
  /\ httpdPc # "idle" => apUp
  /\ uris \cap ServiceUris # {} => service # "none"
  /\ service # "none" <=> mainPc \in {"regOperation", "regStatus", "regRegisters",
                                     "spawn", "returned"}

ProgramInv == WifiTypeOK /\ WakeInv /\ AppTypeOK /\ OrderInv

LEMMA ProgramInvInit == Init => ProgramInv
<1> SUFFICES ASSUME Init PROVE ProgramInv
  OBVIOUS
<1>1. WifiTypeOK /\ AppTypeOK
  BY AppTypeInit, WifiTypeInit DEF Init
<1>2. WakeInv
  BY WakeInvInit DEF Init
<1>3. OrderInv
  BY DEF Init, AppInit, WifiInit, OrderInv, Starting
<1> QED
  BY <1>1, <1>2, <1>3 DEF ProgramInv

\* Every step of the program is one the Wi-Fi component allows, or a restart.
LEMMA WifiStepAllowed ==
  ProgramInv /\ [Next]_vars => [WifiNext \/ WifiReboot]_wifiVars
<1> SUFFICES ASSUME ProgramInv, [Next]_vars
             PROVE  [WifiNext \/ WifiReboot]_wifiVars
  OBVIOUS
<1> USE DEF ProgramInv
<1>1. CASE MainTask
  <2>1. CASE MainWifiSetup
    BY <2>1 DEF MainWifiSetup, MainAt, OrderInv, WifiNext, Setup
  <2>2. CASE MainApInit
    BY <2>2 DEF MainApInit, MainAt, OrderInv, Starting, WifiNext, Setup
  <2>3. CASE ~MainWifiSetup /\ ~MainApInit
    BY <1>1, <2>3 DEF MainTask, initialise_spiffs, start_webserver, MainCreateGroup, MainWaitConnected,
       MainRegisters, MainWaitStart, MainLogDetails, MainLoadHost, MainLoadPort,
       createServiceCtx, register_handlers, MainSpawn
  <2> QED
    BY <2>1, <2>2, <2>3
<1>2. ASSUME NEW u \in HandledUris, HttpRequest(u)
      PROVE  UNCHANGED wifiVars
  BY <1>2 DEF HttpRequest
<1>3. CASE HandlerStep
  <2>1. ASSUME NEW c \in Configs, PostConfigAccepted(c)
        PROVE  WifiNext
    BY <2>1 DEF PostConfigAccepted, HttpdAt, OrderInv, WifiNext, Caller
  <2>2. CASE PostConfigReplies
    BY <2>2 DEF PostConfigReplies, WifiNext, Caller
  <2>3. CASE \/ PostConfigRecvFails \/ PostConfigRejected \/ PostConfigSetsBit
             \/ HandlerSetsStart \/ HandlerReplies
    BY <2>3 DEF PostConfigRecvFails, PostConfigRejected, PostConfigSetsBit,
       HandlerSetsStart, HandlerReplies
  <2> QED
    BY <1>3, <2>1, <2>2, <2>3 DEF HandlerStep
<1>4. CASE WifiStep
  BY <1>4 DEF WifiStep, WifiNext, Caller
<1>5. CASE Reboot
  BY <1>5 DEF Reboot
<1>6. CASE UNCHANGED vars
  BY <1>6 DEF vars
<1> QED
  BY <1>1, <1>2, <1>3, <1>4, <1>5, <1>6 DEF Next

\* The component's own steps neither start nor stop the driver, and the access
\* point stays up.
LEMMA WifiStepFrame ==
  ASSUME WifiTypeOK, WakeInv, WifiStep
  PROVE  /\ UNCHANGED <<appVars, wifiGroup>>
         /\ radio' = "off" <=> radio = "off"
         /\ apUp => apUp'
<1> USE DEF WifiTypeOK, staVars, apVars, connVars, EspWifiConnect
<1>1. CASE Driver
  BY <1>1 DEF WifiStep, Driver, Associate, AttemptFails, LinkLost, StationJoins,
     StationLeaves, DriverFrame
<1>2. CASE EventTask
  BY <1>2 DEF WifiStep, EventTask, HandleApStart, HandleApStaConnected,
     HandleApStaDisconnected, HandleStaStart, HandleStaGotIp, HandleStaDisconnected,
     ClearAfterDisconnect, HandlerFrame
<1>3. CASE ConnStep
  BY <1>3 DEF WifiStep, ConnStep, ConnDisconnect, ConnSetConfig, ConnClear, ConnConnect,
     ConnWait, ConnFrame
<1> QED
  BY <1>1, <1>2, <1>3 DEF WifiStep

LEMMA OrderInvStep == ProgramInv /\ [Next]_vars => OrderInv'
<1> SUFFICES ASSUME ProgramInv, [Next]_vars
             PROVE  OrderInv'
  OBVIOUS
<1> USE DEF ProgramInv, OrderInv, Starting, uriVars, svcVars, appVars, wifiVars, staVars,
      apVars, connVars
<1>1. CASE MainTask
  <2> USE DEF MainAt, MainFrame
  <2>0. CASE initialise_spiffs
    BY <2>0 DEF initialise_spiffs
  <2>1. CASE start_webserver
    <3>1. uris' \cap ServiceUris = {}
      <4>1. uris \cap ServiceUris = {}
        BY <2>1 DEF start_webserver
      <4>2. ASSUME NEW n \in FileCounts, createHandlers(n)
            PROVE  uris' \cap ServiceUris = {}
        BY <4>2 DEF createHandlers, BaseUris, ServiceUris
      <4> QED
        BY <2>1, <4>1, <4>2 DEF start_webserver
    <3> QED
      BY <2>1, <3>1 DEF start_webserver
  <2>2. CASE MainWifiSetup
    BY <2>2 DEF MainWifiSetup, wifi_client_setup
  <2>3. CASE MainCreateGroup
    BY <2>3 DEF MainCreateGroup
  <2>4. CASE MainApInit
    BY <2>4 DEF MainApInit, wifi_ap_init
  <2>5. CASE MainWaitConnected \/ MainWaitStart \/ MainLogDetails
    BY <2>5 DEF MainWaitConnected, MainWaitStart, MainLogDetails
  <2>6. CASE MainRegisters
    <3>1. uris' \cap ServiceUris = uris \cap ServiceUris
      BY <2>6 DEF MainRegisters, Register, ServiceUris
    <3> QED
      BY <2>6, <3>1 DEF MainRegisters
  <2>7. CASE MainLoadHost \/ MainLoadPort
    BY <2>7 DEF MainLoadHost, MainLoadPort
  <2>8. CASE createServiceCtx
    BY <2>8 DEF createServiceCtx
  <2>9. CASE register_handlers
    BY <2>9 DEF register_handlers
  <2>10. CASE MainSpawn
    BY <2>10 DEF MainSpawn
  <2> QED
    BY <1>1, <2>0, <2>1, <2>2, <2>3, <2>4, <2>5, <2>6, <2>7, <2>8, <2>9, <2>10
    DEF MainTask
<1>2. ASSUME NEW u \in HandledUris, HttpRequest(u)
      PROVE  OrderInv'
  <2>1. apUp
    BY <1>2 DEF HttpRequest, ClientOnline, WakeInv, StationQuiet
  <2> QED
    BY <1>2, <2>1 DEF HttpRequest, HttpdFrame
<1>3. CASE HandlerStep
  <2> USE DEF HttpdAt, HttpdFrame
  <2>1. ASSUME NEW c \in Configs, PostConfigAccepted(c)
        PROVE  OrderInv'
    BY <2>1 DEF PostConfigAccepted, ConnCall
  <2>2. CASE PostConfigReplies
    BY <2>2 DEF PostConfigReplies, ConnReturn, ConnFrame
  <2>3. CASE \/ PostConfigRecvFails \/ PostConfigRejected \/ PostConfigSetsBit
             \/ HandlerSetsStart \/ HandlerReplies
    BY <2>3 DEF PostConfigRecvFails, PostConfigRejected, PostConfigSetsBit,
       HandlerSetsStart, HandlerReplies
  <2> QED
    BY <1>3, <2>1, <2>2, <2>3 DEF HandlerStep
<1>4. CASE WifiStep
  BY <1>4, WifiStepFrame
<1>5. CASE Reboot
  BY <1>5 DEF Reboot, WifiReboot
<1>6. CASE UNCHANGED vars
  BY <1>6 DEF vars
<1> QED
  BY <1>1, <1>2, <1>3, <1>4, <1>5, <1>6 DEF Next

LEMMA ProgramInvStep == ProgramInv /\ [Next]_vars => ProgramInv'
BY WifiStepAllowed, WifiTypeStep, WakeInvStep, AppTypeStep, OrderInvStep DEF ProgramInv

LEMMA ProgramInvHolds == Spec => []ProgramInv
BY ProgramInvInit, ProgramInvStep, PTL DEF Spec

\* Inside the program the Wi-Fi component behaves as WifiClient says: main.c
\* sets it up once, in order, and calls it one call at a time with the AP up.
THEOREM WifiInsideApp == Spec => ImplementsWifi
<1>1. Init => WifiInit
  BY DEF Init
<1> QED
  BY <1>1, ProgramInvHolds, WifiStepAllowed, PTL DEF Spec, ImplementsWifi, WifiOpenSpec

\* So what is proved of the component holds in the program: its bit is sound.
COROLLARY ConnectedBitSoundInApp == Spec => []ConnectedBitSound
BY WifiInsideApp, ConnectedBitIsSound DEF ImplementsWifi

\* No handler runs before the event groups it uses exist, and the URIs of the
\* service are served only once there is a service.
THEOREM HandlersAlwaysHaveContext == Spec => []HandlersHaveContext
<1>1. ProgramInv => HandlersHaveContext
  BY DEF ProgramInv, OrderInv, WakeInv, Starting, HandlersHaveContext
<1> QED
  BY <1>1, ProgramInvHolds, PTL

-----------------------------------------------------------------------------
(* The two bits.  START_BIT is set by handlers of URIs that are registered    *)
(* after the main task has seen CONNECTED_BIT, and no bit is ever cleared.    *)

AfterStart == DerefPoints \cup {"createService", "regOperation", "regStatus",
                                "regRegisters", "spawn", "returned"}

SignalInv ==
  /\ START_BIT \in mainBits => APP_CONNECTED_BIT \in mainBits
  /\ mainPc \notin Starting \cup {"waitConnected"} => APP_CONNECTED_BIT \in mainBits
  /\ mainPc \in AfterStart => START_BIT \in mainBits
  /\ uris \cap SetupUris # {} => APP_CONNECTED_BIT \in mainBits
  /\ httpdPc \in {"registration", "connect"} => APP_CONNECTED_BIT \in mainBits

LEMMA SignalInvStep == ProgramInv /\ SignalInv /\ [Next]_vars => SignalInv'
<1> SUFFICES ASSUME ProgramInv, SignalInv, [Next]_vars
             PROVE  SignalInv'
  OBVIOUS
<1> USE DEF SignalInv, AfterStart, DerefPoints, Starting, uriVars, svcVars, appVars,
      APP_CONNECTED_BIT, START_BIT
<1>1. CASE MainTask
  <2> USE DEF MainAt, MainFrame
  <2>1. CASE start_webserver
    <3>1. ASSUME NEW n \in FileCounts, createHandlers(n)
          PROVE  uris' \cap SetupUris = {}
      BY <3>1 DEF createHandlers, BaseUris, SetupUris
    <3> QED
      BY <2>1, <3>1 DEF start_webserver
  <2>2. CASE MainRegisters
    BY <2>2 DEF MainRegisters
  <2>3. CASE register_handlers
    BY <2>3 DEF register_handlers
  <2>4. CASE MainWaitConnected \/ MainWaitStart
    BY <2>4 DEF MainWaitConnected, MainWaitStart
  <2>5. CASE initialise_spiffs \/ MainWifiSetup \/ MainCreateGroup \/ MainApInit
    BY <2>5 DEF initialise_spiffs, MainWifiSetup, MainCreateGroup, MainApInit
  <2>6. CASE \/ MainLogDetails \/ MainLoadHost \/ MainLoadPort \/ createServiceCtx
             \/ MainSpawn
    BY <2>6 DEF MainLogDetails, MainLoadHost, MainLoadPort, createServiceCtx, MainSpawn
  <2> QED
    BY <1>1, <2>1, <2>2, <2>3, <2>4, <2>5, <2>6 DEF MainTask
<1>2. ASSUME NEW u \in HandledUris, HttpRequest(u)
      PROVE  SignalInv'
  BY <1>2 DEF HttpRequest, HttpdAt, HttpdFrame, SetupUris
<1>3. CASE HandlerStep
  <2> USE DEF HttpdAt, HttpdFrame
  <2>1. CASE PostConfigSetsBit
    BY <2>1 DEF PostConfigSetsBit
  <2>2. CASE HandlerSetsStart
    BY <2>2 DEF HandlerSetsStart
  <2>3. ASSUME NEW c \in Configs, PostConfigAccepted(c)
        PROVE  SignalInv'
    BY <2>3 DEF PostConfigAccepted
  <2>4. CASE \/ PostConfigRecvFails \/ PostConfigRejected \/ PostConfigReplies
             \/ HandlerReplies
    BY <2>4 DEF PostConfigRecvFails, PostConfigRejected, PostConfigReplies, HandlerReplies
  <2> QED
    BY <1>3, <2>1, <2>2, <2>3, <2>4 DEF HandlerStep
<1>4. CASE WifiStep
  BY <1>4 DEF WifiStep
<1>5. CASE Reboot
  BY <1>5 DEF Reboot
<1>6. CASE UNCHANGED vars
  BY <1>6 DEF vars
<1> QED
  BY <1>1, <1>2, <1>3, <1>4, <1>5, <1>6 DEF Next

LEMMA SignalInvHolds == Spec => []SignalInv
<1>1. Init => SignalInv
  BY DEF Init, AppInit, SignalInv, AfterStart, DerefPoints, Starting, SetupUris
<1> QED
  BY <1>1, SignalInvStep, ProgramInvHolds, PTL DEF Spec

\* The device is told to start (/api/registration, /api/connect) only after it
\* has been provisioned, however the clients order their requests.
THEOREM StartComesAfterConfig == Spec => []StartAfterConfig
<1>1. SignalInv => StartAfterConfig
  BY DEF SignalInv, StartAfterConfig
<1> QED
  BY <1>1, SignalInvHolds, PTL

-----------------------------------------------------------------------------
(* The details.  Whatever the driver holds, tries, reports or has reported is  *)
(* from an accepted post, and so is all the main task reads.                   *)

AfterHost == AfterStart \ {"logDetails", "loadHost"}
AfterPort == AfterHost \ {"loadPort"}

NetworkInv ==
  /\ staCfg \in accepted \cup {NONE}
  /\ radio \in {"connecting", "connected"} => staNet \in accepted
  /\ AddressesIn(events, accepted)
  /\ connPc # "none" => connArg \in accepted
  /\ \/ CONNECTED_BIT \in wifiBits \/ connPc = "returned"
     \/ httpdPc = "setConnected" \/ APP_CONNECTED_BIT \in mainBits
     => ipNet \in accepted

DetailsInv ==
  /\ details \in accepted \cup {NONE}
  /\ httpdPc \in {"connecting", "setConnected"} => details # NONE
  /\ APP_CONNECTED_BIT \in mainBits /\ details = NONE => rejected
  /\ mainPc \in AfterHost => host \in accepted
  /\ mainPc \in AfterPort => port \in accepted

\* The part of NetworkInv about the component, whatever the program does with it.
LEMMA NetworkInvWifi ==
  ASSUME WifiTypeOK, NetworkInv, WifiStep
  PROVE  NetworkInv'
<1> USE EventTypes DEF NetworkInv, WifiTypeOK, EventId, staVars, apVars, connVars, appVars
<1>1. UNCHANGED <<accepted, httpdPc, mainBits>>
  BY DEF WifiStep
<1>2. ASSUME NEW e \in Event, Post(e), e.id = "STA_GOT_IP" => e.net \in accepted
      PROVE  AddressesIn(events', accepted)
  BY <1>2, AppendEvent DEF Post
<1>3. CASE Driver
  <2> USE DEF DriverFrame
  <2>1. CASE Associate
    <3>1. PICK e \in Event : e.id = "STA_GOT_IP" /\ e.net = staNet /\ Post(e)
      BY <2>1 DEF Associate
    <3>2. AddressesIn(events', accepted)
      BY <3>1, <1>2, <2>1 DEF Associate
    <3> QED
      BY <3>2, <1>1, <2>1 DEF Associate
  <2>2. CASE AttemptFails \/ LinkLost
    BY <1>1, <1>2, <2>2 DEF AttemptFails, LinkLost
  <2>3. ASSUME NEW st \in Stations, StationJoins(st) \/ StationLeaves(st)
        PROVE  NetworkInv'
    BY <1>1, <1>2, <2>3 DEF StationJoins, StationLeaves
  <2> QED
    BY <1>3, <2>1, <2>2, <2>3 DEF Driver
<1>4. ASSUME NEW id, Delivered(id)
      PROVE  /\ AddressesIn(events', accepted)
             /\ id = "STA_GOT_IP" => Head(events).net \in accepted
  BY <1>4, TailEvent DEF Delivered
<1>5. CASE EventTask
  <2> USE DEF HandlerFrame, CONNECTED_BIT, AP_CONNECTED_BIT
  <2>1. CASE HandleApStart
    BY <1>1, <1>4, <2>1 DEF HandleApStart
  <2>2. CASE HandleApStaConnected
    BY <1>1, <1>4, <2>2 DEF HandleApStaConnected
  <2>3. CASE HandleApStaDisconnected
    BY <1>1, <1>4, <2>3 DEF HandleApStaDisconnected
  <2>4. CASE HandleStaStart
    BY <1>1, <1>4, <2>4 DEF HandleStaStart, EspWifiConnect
  <2>5. CASE HandleStaGotIp
    BY <1>1, <1>4, <2>5 DEF HandleStaGotIp
  <2>6. CASE HandleStaDisconnected
    BY <1>1, <1>4, <2>6 DEF HandleStaDisconnected, EspWifiConnect
  <2>7. CASE ClearAfterDisconnect
    BY <1>1, <2>7 DEF ClearAfterDisconnect
  <2> QED
    BY <1>5, <2>1, <2>2, <2>3, <2>4, <2>5, <2>6, <2>7 DEF EventTask
<1>6. CASE ConnStep
  <2> USE DEF ConnFrame
  <2>1. CASE ConnDisconnect
    BY <1>1, <1>2, <2>1 DEF ConnDisconnect
  <2>2. CASE ConnSetConfig
    BY <1>1, <2>2 DEF ConnSetConfig
  <2>3. CASE ConnClear
    BY <1>1, <2>3 DEF ConnClear
  <2>4. CASE ConnConnect
    BY <1>1, <2>4 DEF ConnConnect, EspWifiConnect
  <2>5. CASE ConnWait
    BY <1>1, <2>5 DEF ConnWait
  <2> QED
    BY <1>6, <2>1, <2>2, <2>3, <2>4, <2>5 DEF ConnStep
<1> QED
  BY <1>3, <1>5, <1>6 DEF WifiStep

LEMMA NetworkInvStep == ProgramInv /\ NetworkInv /\ [Next]_vars => NetworkInv'
<1> SUFFICES ASSUME ProgramInv, NetworkInv, [Next]_vars
             PROVE  NetworkInv'
  OBVIOUS
<1> USE DEF NetworkInv, ProgramInv, uriVars, svcVars, staVars, apVars, connVars, wifiVars,
      APP_CONNECTED_BIT, START_BIT
<1>1. CASE MainTask
  <2> USE DEF MainAt, MainFrame
  <2>1. CASE MainWifiSetup
    BY <2>1 DEF MainWifiSetup, wifi_client_setup
  <2>2. CASE MainApInit
    <3> DEFINE q == <<Ev("STA_START"), Ev("AP_START")>>
    <3>1. radio = "off" /\ events = <<>>
      BY <2>2 DEF MainApInit, OrderInv, Starting, WakeInv
    <3>2. events' = q
      BY <2>2, <3>1 DEF MainApInit, wifi_ap_init
    <3>3. AddressesIn(q, accepted)
      BY DEF AddressesIn, Ev
    <3> HIDE DEF q
    <3> QED
      BY <2>2, <3>2, <3>3 DEF MainApInit, wifi_ap_init
  <2>3. CASE ~MainWifiSetup /\ ~MainApInit
    BY <1>1, <2>3 DEF MainTask, initialise_spiffs, start_webserver, MainCreateGroup, MainWaitConnected,
       MainRegisters, MainWaitStart, MainLogDetails, MainLoadHost, MainLoadPort,
       createServiceCtx, register_handlers, MainSpawn
  <2> QED
    BY <2>1, <2>2, <2>3
<1>2. ASSUME NEW u \in HandledUris, HttpRequest(u)
      PROVE  NetworkInv'
  BY <1>2 DEF HttpRequest, HttpdAt, HandledUris
<1>3. CASE HandlerStep
  <2> USE DEF HttpdAt, HttpdFrame
  <2>1. ASSUME NEW c \in Configs, PostConfigAccepted(c)
        PROVE  NetworkInv'
    <3>1. AddressesIn(events, accepted \cup {c})
      BY DEF AddressesIn
    <3> QED
      BY <2>1, <3>1 DEF PostConfigAccepted, ConnCall
  <2>2. CASE PostConfigReplies
    BY <2>2 DEF PostConfigReplies, ConnReturn, ConnFrame
  <2>3. CASE PostConfigSetsBit
    BY <2>3 DEF PostConfigSetsBit
  <2>4. CASE HandlerSetsStart
    BY <2>4 DEF HandlerSetsStart
  <2>5. CASE PostConfigRecvFails \/ PostConfigRejected \/ HandlerReplies
    BY <2>5 DEF PostConfigRecvFails, PostConfigRejected, HandlerReplies
  <2> QED
    BY <1>3, <2>1, <2>2, <2>3, <2>4, <2>5 DEF HandlerStep
<1>4. CASE WifiStep
  BY <1>4, NetworkInvWifi
<1>5. CASE Reboot
  BY <1>5 DEF Reboot, WifiReboot, AddressesIn
<1>6. CASE UNCHANGED vars
  BY <1>6 DEF vars, appVars
<1> QED
  BY <1>1, <1>2, <1>3, <1>4, <1>5, <1>6 DEF Next

LEMMA DetailsInvStep == ProgramInv /\ DetailsInv /\ [Next]_vars => DetailsInv'
<1> SUFFICES ASSUME ProgramInv, DetailsInv, [Next]_vars
             PROVE  DetailsInv'
  OBVIOUS
<1> USE DEF DetailsInv, AfterHost, AfterPort, AfterStart, DerefPoints, uriVars, svcVars,
      APP_CONNECTED_BIT, START_BIT
<1>1. CASE MainTask
  <2> USE DEF MainAt, MainFrame
  <2>1. CASE MainLoadHost
    BY <2>1 DEF MainLoadHost
  <2>2. CASE MainLoadPort
    BY <2>2 DEF MainLoadPort
  <2>3. CASE \/ initialise_spiffs \/ start_webserver \/ MainWifiSetup \/ MainCreateGroup
             \/ MainApInit
    BY <2>3 DEF initialise_spiffs, start_webserver, MainWifiSetup, MainCreateGroup, MainApInit
  <2>4. CASE MainWaitConnected \/ MainRegisters \/ MainWaitStart \/ MainLogDetails
    BY <2>4 DEF MainWaitConnected, MainRegisters, MainWaitStart, MainLogDetails
  <2>5. CASE createServiceCtx \/ register_handlers \/ MainSpawn
    BY <2>5 DEF createServiceCtx, register_handlers, MainSpawn
  <2> QED
    BY <1>1, <2>1, <2>2, <2>3, <2>4, <2>5 DEF MainTask
<1>2. ASSUME NEW u \in HandledUris, HttpRequest(u)
      PROVE  DetailsInv'
  BY <1>2 DEF HttpRequest, HttpdAt, HttpdFrame, HandledUris
<1>3. CASE HandlerStep
  <2> USE DEF HttpdAt, HttpdFrame
  <2>1. ASSUME NEW c \in Configs, PostConfigAccepted(c)
        PROVE  DetailsInv'
    BY <2>1, WifiAssumption DEF PostConfigAccepted
  <2>2. CASE PostConfigRejected
    BY <2>2 DEF PostConfigRejected
  <2>3. CASE PostConfigReplies \/ PostConfigSetsBit
    BY <2>3 DEF PostConfigReplies, PostConfigSetsBit
  <2>4. CASE PostConfigRecvFails \/ HandlerSetsStart \/ HandlerReplies
    BY <2>4 DEF PostConfigRecvFails, HandlerSetsStart, HandlerReplies
  <2> QED
    BY <1>3, <2>1, <2>2, <2>3, <2>4 DEF HandlerStep
<1>4. CASE WifiStep
  BY <1>4 DEF WifiStep, appVars
<1>5. CASE Reboot
  BY <1>5 DEF Reboot
<1>6. CASE UNCHANGED vars
  BY <1>6 DEF vars, appVars
<1> QED
  BY <1>1, <1>2, <1>3, <1>4, <1>5, <1>6 DEF Next

LEMMA ConfigInvsHold == Spec => []NetworkInv /\ []DetailsInv
<1>1. Init => NetworkInv
  BY DEF Init, AppInit, WifiInit, NetworkInv, AddressesIn
<1>2. Init => DetailsInv
  BY DEF Init, AppInit, DetailsInv, AfterHost, AfterPort, AfterStart, DerefPoints
<1> QED
  BY <1>1, <1>2, NetworkInvStep, DetailsInvStep, ProgramInvHolds, PTL DEF Spec

\* CONNECTED_BIT of main.c means that an address was obtained, last on a network
\* that some client had posted.
THEOREM ConnectedAfterRequest == Spec => []ProvisionedByRequest
<1>1. NetworkInv => ProvisionedByRequest
  BY DEF NetworkInv, ProvisionedByRequest
<1> QED
  BY <1>1, ConfigInvsHold, PTL

\* The main task finds NULL details only if a post was rejected.
THEOREM NullComesFromRejection == Spec => []NullOnlyByRejection
<1>1. DetailsInv => NullOnlyByRejection
  BY DEF DetailsInv, NullOnlyByRejection
<1> QED
  BY <1>1, ConfigInvsHold, PTL

\* The service is given a host and a port that clients posted.
THEOREM ServiceUsesPostedDetails == Spec => []ServiceFromConfig
<1>1. ProgramInv /\ DetailsInv => ServiceFromConfig
  BY DEF ProgramInv, OrderInv, DetailsInv, AfterHost, AfterPort, AfterStart, DerefPoints,
     ServiceFromConfig
<1> QED
  BY <1>1, ProgramInvHolds, ConfigInvsHold, PTL

-----------------------------------------------------------------------------
(* The refinement. *)

LEMMA LifecycleStep ==
  ProgramInv /\ SignalInv /\ NetworkInv /\ DetailsInv /\ [Next]_vars => [L!Next]_L!vars
<1> SUFFICES ASSUME ProgramInv, SignalInv, NetworkInv, DetailsInv, [Next]_vars
             PROVE  [L!Next]_L!vars
  OBVIOUS
<1> DEFINE Target == IF service = "running" THEN <<host, port>> ELSE <<NONE, NONE>>
<1> USE DEF uriVars, svcVars, appVars
\* A step that leaves the three variables of Lifecycle alone is a stutter.
<1>1. ASSUME UNCHANGED <<mainBits, accepted>>, UNCHANGED service,
             service = "none" \/ UNCHANGED <<host, port>>
      PROVE  UNCHANGED L!vars
  BY <1>1 DEF L!vars, Phase
<1>2. CASE MainTask
  <2> USE DEF MainAt, MainFrame
  <2>1. CASE createServiceCtx
    <3>1. service = "none" /\ service' = "created"
      BY <2>1 DEF createServiceCtx, ProgramInv, OrderInv
    <3>2. Phase' = Phase /\ Target' = Target
      BY <2>1, <3>1 DEF createServiceCtx, Phase
    <3> QED
      BY <2>1, <3>2 DEF createServiceCtx, L!vars
  <2>2. CASE MainSpawn
    <3>1. CASE service = "running"
      BY <2>2, <3>1, <1>1 DEF MainSpawn
    <3>2. CASE service # "running"
      <4>1. START_BIT \in mainBits /\ host \in accepted /\ port \in accepted
        BY <2>2 DEF MainSpawn, SignalInv, DetailsInv, AfterHost, AfterPort, AfterStart,
           DerefPoints
      <4>2. Phase = "starting" /\ Phase' = "running"
        BY <2>2, <3>2, <4>1 DEF MainSpawn, Phase
      <4>3. Target' \in accepted \X accepted
        BY <2>2, <4>1 DEF MainSpawn
      <4>4. L!Run
        BY <2>2, <4>2, <4>3 DEF MainSpawn, L!Run
      <4> QED
        BY <4>4 DEF L!Next
    <3> QED
      BY <3>1, <3>2
  <2>3. CASE MainLoadHost \/ MainLoadPort
    <3>1. service = "none"
      BY <2>3 DEF MainLoadHost, MainLoadPort, ProgramInv, OrderInv
    <3> QED
      BY <2>3, <3>1, <1>1 DEF MainLoadHost, MainLoadPort
  <2>4. CASE ~createServiceCtx /\ ~MainSpawn /\ ~MainLoadHost /\ ~MainLoadPort
    BY <1>2, <2>4, <1>1 DEF MainTask, initialise_spiffs, start_webserver, MainWifiSetup, MainCreateGroup,
       MainApInit, MainWaitConnected, MainRegisters, MainWaitStart, MainLogDetails,
       register_handlers
  <2> QED
    BY <2>1, <2>2, <2>3, <2>4
<1>3. ASSUME NEW u \in HandledUris, HttpRequest(u)
      PROVE  UNCHANGED L!vars
  BY <1>3, <1>1 DEF HttpRequest, HttpdFrame
<1>4. CASE HandlerStep
  <2> USE DEF HttpdAt, HttpdFrame
  <2>1. ASSUME NEW c \in Configs, PostConfigAccepted(c)
        PROVE  L!Next
    <3>1. L!Offer(c)
      BY <2>1 DEF PostConfigAccepted, L!Offer, Phase
    <3> QED
      BY <3>1 DEF L!Next
  <2>2. CASE PostConfigSetsBit
    <3>1. accepted # {}
      BY <2>2 DEF PostConfigSetsBit, NetworkInv
    <3>2. UNCHANGED <<accepted, service, host, port>>
      BY <2>2 DEF PostConfigSetsBit
    <3>3. START_BIT \in mainBits' <=> START_BIT \in mainBits
      BY <2>2 DEF PostConfigSetsBit, APP_CONNECTED_BIT, START_BIT
    <3>4. CASE Phase = "unprovisioned"
      <4>1. service # "running" /\ START_BIT \notin mainBits
        BY <3>4 DEF Phase
      <4>2. APP_CONNECTED_BIT \in mainBits'
        BY <2>2 DEF PostConfigSetsBit
      <4>3. Phase' = "provisioned"
        BY <4>1, <4>2, <3>2, <3>3 DEF Phase
      <4>4. L!Provision
        BY <3>1, <3>2, <3>4, <4>3 DEF L!Provision
      <4> QED
        BY <4>4 DEF L!Next
    <3>5. CASE Phase # "unprovisioned"
      <4>1. \/ service = "running" \/ START_BIT \in mainBits
            \/ APP_CONNECTED_BIT \in mainBits
        BY <3>5 DEF Phase
      <4>2. Phase' = Phase
        <5>1. APP_CONNECTED_BIT \in mainBits => APP_CONNECTED_BIT \in mainBits'
          BY <2>2 DEF PostConfigSetsBit
        <5> QED
          BY <4>1, <5>1, <3>2, <3>3 DEF Phase
      <4> QED
        BY <3>2, <4>2 DEF L!vars
    <3> QED
      BY <3>4, <3>5
  <2>3. CASE HandlerSetsStart
    <3>1. APP_CONNECTED_BIT \in mainBits
      BY <2>3 DEF HandlerSetsStart, SignalInv
    <3>2. UNCHANGED <<accepted, service, host, port>> /\ START_BIT \in mainBits'
      BY <2>3 DEF HandlerSetsStart
    <3>3. CASE Phase = "provisioned"
      <4>1. service # "running"
        BY <3>3 DEF Phase
      <4>2. Phase' = "starting"
        BY <3>2, <4>1 DEF Phase
      <4>3. L!Start
        BY <3>2, <3>3, <4>2 DEF L!Start
      <4> QED
        BY <4>3 DEF L!Next
    <3>4. CASE Phase # "provisioned"
      <4>1. service = "running" \/ START_BIT \in mainBits
        BY <3>1, <3>4 DEF Phase
      <4>2. Phase' = Phase
        BY <3>2, <4>1 DEF Phase
      <4> QED
        BY <3>2, <4>2 DEF L!vars
    <3> QED
      BY <3>3, <3>4
  <2>4. CASE \/ PostConfigRecvFails \/ PostConfigRejected \/ PostConfigReplies
             \/ HandlerReplies
    BY <2>4, <1>1 DEF PostConfigRecvFails, PostConfigRejected, PostConfigReplies,
       HandlerReplies
  <2> QED
    BY <1>4, <2>1, <2>2, <2>3, <2>4 DEF HandlerStep
<1>5. CASE WifiStep
  BY <1>5, <1>1 DEF WifiStep
<1>6. CASE Reboot
  <2>1. L!Restart
    BY <1>6 DEF Reboot, L!Restart, L!NoTarget, Phase
  <2> QED
    BY <2>1 DEF L!Next
<1>7. CASE UNCHANGED vars
  BY <1>7, <1>1 DEF vars
<1> QED
  BY <1>2, <1>3, <1>4, <1>5, <1>6, <1>7 DEF Next

\* main.c implements Lifecycle: provisioned before started, started before
\* running, and towards what was offered.
THEOREM AppImplementsLifecycle == Spec => ImplementsLifecycle
<1>1. Init => L!Init
  BY DEF Init, AppInit, L!Init, L!NoTarget, Phase
<1> QED
  BY <1>1, LifecycleStep, ProgramInvHolds, SignalInvHolds, ConfigInvsHold, PTL
  DEF Spec, ImplementsLifecycle, L!Spec

-----------------------------------------------------------------------------
(* The table of URI handlers.  If the files leave ten places, the table holds  *)
(* the files, the four handlers of createHandlers and those registered since.  *)

\* How many of the six later handlers the main task has registered.
Done ==
  CASE mainPc = "regConnect" -> 1
    [] mainPc = "regReset" -> 2
    [] mainPc \in {"waitStart", "createService", "regOperation"} \cup DerefPoints -> 3
    [] mainPc = "regStatus" -> 4
    [] mainPc = "regRegisters" -> 5
    [] mainPc \in {"spawn", "returned"} -> 6
    [] OTHER -> 0

TableInv ==
  /\ files = NONE => uris = {} /\ httpdPc = "idle" /\ mainBits = {}
  /\ mainPc \in {"boot", "startServer"} => files = NONE
  /\ files # NONE /\ files + 10 <= MaxUriHandlers =>
       /\ slots = files + 4 + Done
       /\ {"root", "getConfig", "postConfig", "captdns"} \subseteq uris
       /\ Done >= 1 => "registration" \in uris
       /\ Done >= 2 => "connect" \in uris
       /\ Done >= 3 => "reset" \in uris
       /\ Done >= 4 => "operation" \in uris
       /\ Done >= 5 => "status" \in uris
       /\ Done >= 6 => "registers" \in uris

LEMMA TableInvStep ==
  AppTypeOK /\ SignalInv /\ TableInv /\ [Next]_vars => TableInv'
<1> SUFFICES ASSUME AppTypeOK, SignalInv, TableInv, [Next]_vars
             PROVE  TableInv'
  OBVIOUS
<1> USE AppAssumption DEF TableInv, uriVars, svcVars, appVars
<1>0. files \in Nat \cup {NONE} /\ slots \in Nat /\ MaxUriHandlers \in Nat
  BY DEF AppTypeOK
<1>1. CASE MainTask
  <2> USE DEF MainAt, MainFrame
  <2>1. CASE start_webserver
    <3>1. Done' = 0
      BY <2>1 DEF start_webserver, Done, DerefPoints
    <3>2. CASE UNCHANGED uriVars
      BY <2>1, <3>2 DEF start_webserver
    <3>3. ASSUME NEW n \in FileCounts, createHandlers(n)
          PROVE  TableInv'
      <4>1. files' = n /\ n \in Nat /\ n # NONE /\ mainPc' = "wifiSetup"
        BY <2>1, <3>3 DEF createHandlers, start_webserver
      <4>2. n + 10 <= MaxUriHandlers => slots' = n + 4
        <5>1. n \in Nat /\ (n + 10 <= MaxUriHandlers => n + 4 <= MaxUriHandlers)
          BY <4>1, <1>0
        <5> QED
          BY <3>3, <5>1 DEF createHandlers
      <4>3. ASSUME n + 10 <= MaxUriHandlers, NEW i \in 1..4
            PROVE  BaseUris[i] \in uris'
        BY <3>3, <4>1, <4>3, <1>0 DEF createHandlers
      <4>4. n + 10 <= MaxUriHandlers
              => {"root", "getConfig", "postConfig", "captdns"} \subseteq uris'
        <5>1. /\ BaseUris[1] = "root" /\ BaseUris[2] = "getConfig"
              /\ BaseUris[3] = "postConfig" /\ BaseUris[4] = "captdns"
          BY DEF BaseUris
        <5> QED
          BY <4>3, <5>1
      <4> QED
        BY <3>1, <4>1, <4>2, <4>4
    <3> QED
      BY <2>1, <3>2, <3>3 DEF start_webserver
  <2>2. CASE MainRegisters
    <3>1. files # NONE
      BY <2>2 DEF MainRegisters, SignalInv, Starting
    <3>2. Done \in 0..2 /\ Done' = Done + 1
      BY <2>2 DEF MainRegisters, Done, DerefPoints
    <3>3. CASE files + 10 <= MaxUriHandlers
      <4>1. slots < MaxUriHandlers
        BY <1>0, <3>1, <3>2, <3>3
      <4>2. slots' = slots + 1 /\ uris \subseteq uris'
        BY <2>2, <4>1 DEF MainRegisters, Register
      <4>3. /\ Done = 0 => "registration" \in uris'
            /\ Done = 1 => "connect" \in uris'
            /\ Done = 2 => "reset" \in uris'
        BY <2>2, <4>1 DEF MainRegisters, Register, Done, DerefPoints
      <4>4. files' = files /\ mainPc' \notin {"boot", "startServer"}
        BY <2>2 DEF MainRegisters
      <4> QED
        BY <1>0, <3>1, <3>2, <3>3, <4>2, <4>3, <4>4
    <3>4. CASE ~(files + 10 <= MaxUriHandlers)
      BY <2>2, <3>1, <3>4 DEF MainRegisters
    <3> QED
      BY <3>3, <3>4
  <2>3. CASE register_handlers
    <3>1. files # NONE
      BY <2>3 DEF register_handlers, SignalInv, Starting
    <3>2. Done \in 3..5 /\ Done' = Done + 1
      BY <2>3 DEF register_handlers, Done, DerefPoints
    <3>3. CASE files + 10 <= MaxUriHandlers
      <4>1. slots < MaxUriHandlers
        BY <1>0, <3>1, <3>2, <3>3
      <4>2. slots' = slots + 1 /\ uris \subseteq uris'
        BY <2>3, <4>1 DEF register_handlers, Register
      <4>3. /\ Done = 3 => "operation" \in uris'
            /\ Done = 4 => "status" \in uris'
            /\ Done = 5 => "registers" \in uris'
        BY <2>3, <4>1 DEF register_handlers, Register, Done, DerefPoints
      <4>4. files' = files /\ mainPc' \notin {"boot", "startServer"}
        BY <2>3 DEF register_handlers
      <4> QED
        BY <1>0, <3>1, <3>2, <3>3, <4>2, <4>3, <4>4
    <3>4. CASE ~(files + 10 <= MaxUriHandlers)
      BY <2>3, <3>1, <3>4 DEF register_handlers
    <3> QED
      BY <3>3, <3>4
  <2>4. CASE initialise_spiffs
    <3>1. Done' = 0 /\ Done = 0
      BY <2>4 DEF initialise_spiffs, Done, DerefPoints
    <3> QED
      BY <2>4, <3>1 DEF initialise_spiffs
  <2>5. CASE ~initialise_spiffs /\ ~start_webserver /\ ~MainRegisters /\ ~register_handlers
    <3>1. UNCHANGED <<files, slots, uris, httpdPc, mainBits>> /\ mainPc' \notin {"boot", "startServer"}
      BY <1>1, <2>5 DEF MainTask, MainWifiSetup, MainCreateGroup, MainApInit,
         MainWaitConnected, MainWaitStart, MainLogDetails, MainLoadHost, MainLoadPort,
         createServiceCtx, MainSpawn
    <3>2. Done' = Done
      BY <1>1, <2>5 DEF MainTask, MainWifiSetup, MainCreateGroup, MainApInit,
         MainWaitConnected, MainWaitStart, MainLogDetails, MainLoadHost, MainLoadPort,
         createServiceCtx, MainSpawn, Done, DerefPoints
    <3> QED
      BY <3>1, <3>2
  <2> QED
    BY <1>1, <2>1, <2>2, <2>3, <2>4, <2>5
<1>2. ASSUME UNCHANGED <<mainPc, files, slots, uris>>,
             files # NONE \/ UNCHANGED <<httpdPc, mainBits>>
      PROVE  TableInv'
  <2>1. Done' = Done
    BY <1>2 DEF Done
  <2> QED
    BY <1>2, <2>1
<1>3. ASSUME NEW u \in HandledUris, HttpRequest(u)
      PROVE  TableInv'
  BY <1>2, <1>3 DEF HttpRequest, HttpdFrame
<1>4. CASE HandlerStep
  <2>1. httpdPc # "idle" /\ UNCHANGED <<mainPc, files, slots, uris>>
    BY <1>4 DEF HandlerStep, HttpdAt, HttpdFrame, PostConfigRecvFails, PostConfigRejected,
       PostConfigAccepted, PostConfigReplies, PostConfigSetsBit, HandlerSetsStart,
       HandlerReplies
  <2> QED
    BY <1>2, <2>1
<1>5. CASE WifiStep
  BY <1>2, <1>5 DEF WifiStep
<1>6. CASE Reboot
  BY <1>6 DEF Reboot
<1>7. CASE UNCHANGED vars
  BY <1>2, <1>7 DEF vars
<1> QED
  BY <1>1, <1>3, <1>4, <1>5, <1>6, <1>7 DEF Next

\* With at most MaxUriHandlers - 10 files no registration is refused, so every
\* URI is served when app_main returns.
THEOREM SmallWebappIsServed == Spec => []AllServed
<1>1. Init => TableInv
  BY DEF Init, AppInit, TableInv
<1>2. AppTypeOK /\ SignalInv /\ TableInv => AllServed
  <2> SUFFICES ASSUME AppTypeOK, SignalInv, TableInv,
                      mainPc = "returned", files + 10 <= MaxUriHandlers
               PROVE  uris = Uri
    BY DEF AllServed
  <2>1. files # NONE
    BY DEF SignalInv, TableInv, Starting
  <2>2. Done = 6
    BY DEF Done, DerefPoints
  <2>3. Uri \subseteq uris
    BY <2>1, <2>2 DEF TableInv, Uri, SetupUris, ServiceUris
  <2> QED
    BY <2>3 DEF AppTypeOK
<1> QED
  BY <1>1, <1>2, TableInvStep, AppTypeCorrect, SignalInvHolds, PTL DEF Spec
=============================================================================
