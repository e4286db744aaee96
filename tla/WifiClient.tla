----------------------------- MODULE WifiClient -----------------------------
(***************************************************************************)
(* components/wifi_client/src/wifi_client.c: the Wi-Fi event handler, the  *)
(* soft-AP initialisation and the blocking call                            *)
(* wifi_conn_initStationAndWait, with the ESP32 Wi-Fi driver around them.  *)
(*                                                                         *)
(* Three parties run concurrently: the driver (external), the system event *)
(* loop task, which takes events from a FIFO queue and runs                *)
(* wifi_client_event_handler on each, and the task that calls              *)
(* wifi_conn_initStationAndWait (the HTTP server's).  Each call on the     *)
(* driver or on the event group is one step.                               *)
(*                                                                         *)
(* A definition headed "Variant" is the one after it with a mistake: it is *)
(* no part of the specification and shows that some property tells them    *)
(* apart.                                                                  *)
(***************************************************************************)
EXTENDS Naturals, Sequences, FiniteSets

CONSTANTS
  Configs,       \* connection details a client may post; here their ssid and password
  Reachable,     \* those whose network exists and accepts the password
  Stations,      \* Wi-Fi clients that may join the soft AP
  ApMaxStaConn,  \* AP_MAX_STA_CONN
  QueueSize,     \* capacity of the system event queue
  MaxCalls,      \* bound: station configurations attempted per boot
  NONE           \* no credentials, no network

ASSUME WifiAssumption ==
  /\ NONE \notin Configs
  /\ Reachable \subseteq Configs
  /\ ApMaxStaConn \in Nat
  /\ QueueSize \in Nat /\ QueueSize >= 2  \* room for the two events of esp_wifi_start
  /\ MaxCalls \in Nat

VARIABLES
  wifiGroup,  \* has wifi_client_setup created wifi_event_group
  radio,      \* the driver's station interface
  staCfg,     \* the station configuration held by the driver
  staNet,     \* the network of the current attempt or association
  apUp,       \* is the soft AP's network interface up
  joined,     \* stations associated with the soft AP
  events,     \* the system event queue
  wifiBits,   \* bits set in wifi_event_group
  evTask,     \* position of the event loop task in the handler
  connPc,     \* position of the caller in wifi_conn_initStationAndWait
  connArg,    \* the credentials it was called with
  calls,      \* number of such calls since boot (for MaxCalls)
  ipNet       \* history: the network of the last GOT_IP event handled

staVars  == <<radio, staCfg, staNet>>
apVars   == <<apUp, joined>>
connVars == <<connPc, connArg, calls>>
wifiVars == <<wifiGroup, staVars, apVars, events, wifiBits, evTask, connVars, ipNet>>

CONNECTED_BIT    == "CONNECTED_BIT"
AP_CONNECTED_BIT == "AP_CONNECTED_BIT"

EventId == {"STA_START", "AP_START", "AP_STACONNECTED", "AP_STADISCONNECTED",
            "STA_GOT_IP", "STA_DISCONNECTED"}
Event   == [id : EventId, net : Configs \cup {NONE}]
Ev(id)  == [id |-> id, net |-> NONE]

\* An event with this id waits in the queue.
Pending(id) == \E i \in DOMAIN events : events[i].id = id

WifiTypeOK ==
  /\ wifiGroup \in BOOLEAN
  /\ radio \in {"off", "idle", "connecting", "connected"}
  /\ staCfg \in Configs \cup {NONE}
  /\ staNet \in Configs \cup {NONE}
  /\ apUp \in BOOLEAN
  /\ joined \subseteq Stations
  /\ events \in Seq(Event)
  /\ wifiBits \subseteq {CONNECTED_BIT, AP_CONNECTED_BIT}
  /\ evTask \in {"idle", "clear"}
  /\ connPc \in {"none", "disconnect", "setConfig", "clear", "connect", "wait",
                 "blocked", "returned"}
  /\ connArg \in Configs \cup {NONE}
  /\ calls \in Nat
  /\ ipNet \in Configs \cup {NONE}

WifiInit ==
  /\ wifiGroup = FALSE
  /\ radio = "off" /\ staCfg = NONE /\ staNet = NONE
  /\ apUp = FALSE /\ joined = {}
  /\ events = <<>>
  /\ wifiBits = {}
  /\ evTask = "idle"
  /\ connPc = "none" /\ connArg = NONE /\ calls = 0
  /\ ipNet = NONE

\* The chip restarts: the station configuration is kept in RAM only
\* (WIFI_STORAGE_RAM), so everything starts over.
WifiReboot ==
  /\ wifiGroup' = FALSE
  /\ radio' = "off" /\ staCfg' = NONE /\ staNet' = NONE
  /\ apUp' = FALSE /\ joined' = {}
  /\ events' = <<>>
  /\ wifiBits' = {}
  /\ evTask' = "idle"
  /\ connPc' = "none" /\ connArg' = NONE /\ calls' = 0
  /\ ipNet' = NONE

-----------------------------------------------------------------------------
(* Set-up, run by the main task. *)

\* Creates the event group and installs the event loop.
wifi_client_setup ==
  /\ wifiGroup' = TRUE
  /\ UNCHANGED <<staVars, apVars, events, wifiBits, evTask, connVars, ipNet>>

\* Starts the driver in AP+station mode: both interfaces report their start.
wifi_ap_init ==
  /\ radio' = "idle"
  /\ events' = events \o <<Ev("STA_START"), Ev("AP_START")>>
  /\ UNCHANGED <<wifiGroup, staCfg, staNet, apVars, wifiBits, evTask, connVars, ipNet>>

-----------------------------------------------------------------------------
(* The driver (external). *)

Post(e) == Len(events) < QueueSize /\ events' = Append(events, e)

\* esp_wifi_connect: starts an attempt with the stored configuration.  It is
\* refused, and the code ignores that, without one or while already connecting.
EspWifiConnect ==
  IF radio = "idle" /\ staCfg # NONE
  THEN radio' = "connecting" /\ staNet' = staCfg
  ELSE UNCHANGED <<radio, staNet>>

DriverFrame == UNCHANGED <<wifiGroup, staCfg, staNet, wifiBits, evTask, connVars, ipNet>>

\* The attempt succeeds and DHCP hands out an address.
Associate ==
  /\ radio = "connecting"
  /\ staNet \in Reachable
  /\ radio' = "connected"
  /\ Post([id |-> "STA_GOT_IP", net |-> staNet])
  /\ DriverFrame /\ UNCHANGED apVars

AttemptFails ==
  /\ radio = "connecting"
  /\ radio' = "idle"
  /\ Post(Ev("STA_DISCONNECTED"))
  /\ DriverFrame /\ UNCHANGED apVars

LinkLost ==
  /\ radio = "connected"
  /\ radio' = "idle"
  /\ Post(Ev("STA_DISCONNECTED"))
  /\ DriverFrame /\ UNCHANGED apVars

StationJoins(s) ==
  /\ apUp
  /\ s \notin joined
  /\ Cardinality(joined) < ApMaxStaConn
  /\ joined' = joined \cup {s}
  /\ Post(Ev("AP_STACONNECTED"))
  /\ DriverFrame /\ UNCHANGED <<radio, apUp>>

StationLeaves(s) ==
  /\ s \in joined
  /\ joined' = joined \ {s}
  /\ Post(Ev("AP_STADISCONNECTED"))
  /\ DriverFrame /\ UNCHANGED <<radio, apUp>>

Driver ==
  \/ Associate
  \/ AttemptFails
  \/ LinkLost
  \/ \E s \in Stations : StationJoins(s) \/ StationLeaves(s)

-----------------------------------------------------------------------------
(* The event loop task: wifi_client_event_handler, one action per case. *)

Delivered(id) ==
  /\ evTask = "idle"
  /\ events # <<>>
  /\ Head(events).id = id
  /\ events' = Tail(events)

HandlerFrame == UNCHANGED <<wifiGroup, staCfg, joined, connArg, calls>>

\* The default case: the code does nothing; the AP interface is now up.
HandleApStart ==
  /\ Delivered("AP_START")
  /\ apUp' = TRUE
  /\ HandlerFrame /\ UNCHANGED <<radio, staNet, wifiBits, evTask, connPc, ipNet>>

HandleApStaConnected ==
  /\ Delivered("AP_STACONNECTED")
  /\ wifiBits' = wifiBits \cup {AP_CONNECTED_BIT}
  /\ HandlerFrame /\ UNCHANGED <<radio, staNet, apUp, evTask, connPc, ipNet>>

\* Variant: a leaving station is ignored.
HandleApStaDisconnected_Ignored ==
  /\ Delivered("AP_STADISCONNECTED")
  /\ HandlerFrame /\ UNCHANGED <<radio, staNet, apUp, wifiBits, evTask, connPc, ipNet>>

HandleApStaDisconnected ==
  /\ Delivered("AP_STADISCONNECTED")
  /\ wifiBits' = wifiBits \ {AP_CONNECTED_BIT}
  /\ HandlerFrame /\ UNCHANGED <<radio, staNet, apUp, evTask, connPc, ipNet>>

HandleStaStart ==
  /\ Delivered("STA_START")
  /\ EspWifiConnect
  /\ HandlerFrame /\ UNCHANGED <<apUp, wifiBits, evTask, connPc, ipNet>>

\* xEventGroupSetBits readies a task blocked on the bit at once, even if the
\* bit is cleared again before that task runs.
HandleStaGotIp ==
  /\ Delivered("STA_GOT_IP")
  /\ wifiBits' = wifiBits \cup {CONNECTED_BIT}
  /\ connPc' = IF connPc = "blocked" THEN "returned" ELSE connPc
  /\ ipNet' = Head(events).net
  /\ HandlerFrame /\ UNCHANGED <<radio, staNet, apUp, evTask>>

\* Variant: reconnects but leaves the bit set.
HandleStaDisconnected_NoClear ==
  /\ Delivered("STA_DISCONNECTED")
  /\ EspWifiConnect
  /\ HandlerFrame /\ UNCHANGED <<apUp, wifiBits, evTask, connPc, ipNet>>

\* Variant: without the workaround that reconnects.
HandleStaDisconnected_NoRetry ==
  /\ Delivered("STA_DISCONNECTED")
  /\ evTask' = "clear"
  /\ HandlerFrame /\ UNCHANGED <<radio, staNet, apUp, wifiBits, connPc, ipNet>>

\* Reconnects first and clears the bit in a second step.
HandleStaDisconnected ==
  /\ Delivered("STA_DISCONNECTED")
  /\ EspWifiConnect
  /\ evTask' = "clear"
  /\ HandlerFrame /\ UNCHANGED <<apUp, wifiBits, connPc, ipNet>>

ClearAfterDisconnect ==
  /\ evTask = "clear"
  /\ evTask' = "idle"
  /\ wifiBits' = wifiBits \ {CONNECTED_BIT}
  /\ HandlerFrame /\ UNCHANGED <<radio, staNet, apUp, events, connPc, ipNet>>

EventTask ==
  \/ HandleApStart
  \/ HandleApStaConnected
  \/ HandleApStaDisconnected
  \/ HandleStaStart
  \/ HandleStaGotIp
  \/ HandleStaDisconnected
  \/ ClearAfterDisconnect

-----------------------------------------------------------------------------
(* wifi_conn_initStationAndWait, one action per call it makes. *)

ConnFrame == UNCHANGED <<wifiGroup, apVars, evTask, connArg, calls, ipNet>>

ConnCall(c) ==
  /\ connPc = "none"
  /\ calls < MaxCalls
  /\ connPc' = "disconnect" /\ connArg' = c /\ calls' = calls + 1
  /\ UNCHANGED <<wifiGroup, staVars, apVars, events, wifiBits, evTask, ipNet>>

\* Breaking a connection or an attempt posts STA_DISCONNECTED.
ConnDisconnect ==
  /\ connPc = "disconnect"
  /\ connPc' = "setConfig"
  /\ IF radio \in {"connecting", "connected"}
     THEN radio' = "idle" /\ Post(Ev("STA_DISCONNECTED"))
     ELSE UNCHANGED <<radio, events>>
  /\ ConnFrame /\ UNCHANGED <<staCfg, staNet, wifiBits>>

\* Variant: the password is not copied, so the driver is given this network's
\* ssid with what was there before: a configuration that nobody posted.
ConnSetConfig_NoPassword ==
  /\ connPc = "setConfig"
  /\ connPc' = "clear"
  /\ staCfg' = IF staCfg = connArg THEN connArg ELSE <<connArg, staCfg>>
  /\ ConnFrame /\ UNCHANGED <<radio, staNet, events, wifiBits>>

ConnSetConfig ==
  /\ connPc = "setConfig"
  /\ connPc' = "clear"
  /\ staCfg' = connArg
  /\ ConnFrame /\ UNCHANGED <<radio, staNet, events, wifiBits>>

\* The driver may refuse a new configuration while it is connecting;
\* ESP_ERROR_CHECK then aborts, which restarts the chip.
SetConfigRefused == connPc = "setConfig" /\ radio = "connecting"

ConnClear ==
  /\ connPc = "clear"
  /\ connPc' = "connect"
  /\ wifiBits' = wifiBits \ {CONNECTED_BIT}
  /\ ConnFrame /\ UNCHANGED <<staVars, events>>

ConnConnect ==
  /\ connPc = "connect"
  /\ connPc' = "wait"
  /\ EspWifiConnect
  /\ ConnFrame /\ UNCHANGED <<staCfg, events, wifiBits>>

\* Variant: does not wait, as wifi_conn_init does.
ConnWait_NoWait ==
  /\ connPc = "wait"
  /\ connPc' = "returned"
  /\ ConnFrame /\ UNCHANGED <<staVars, events, wifiBits>>

\* Variant: waits for the bit to be set anew, as for a notification.
ConnWait_EdgeOnly ==
  /\ connPc = "wait"
  /\ connPc' = "blocked"
  /\ ConnFrame /\ UNCHANGED <<staVars, events, wifiBits>>

\* xEventGroupWaitBits without a timeout, leaving the bit set on exit.
ConnWait ==
  /\ connPc = "wait"
  /\ connPc' = IF CONNECTED_BIT \in wifiBits THEN "returned" ELSE "blocked"
  /\ ConnFrame /\ UNCHANGED <<staVars, events, wifiBits>>

ConnReturn ==
  /\ connPc = "returned"
  /\ connPc' = "none"
  /\ ConnFrame /\ UNCHANGED <<staVars, events, wifiBits>>

\* The steps of the call between its first and its last.
ConnStep == ConnDisconnect \/ ConnSetConfig \/ ConnClear \/ ConnConnect \/ ConnWait

-----------------------------------------------------------------------------
(* The component on its own: the main task sets it up, and once a client can *)
(* reach the device some task configures the station, again and again.       *)

Setup ==
  \/ ~wifiGroup /\ wifi_client_setup
  \/ wifiGroup /\ radio = "off" /\ wifi_ap_init

Caller ==
  \/ apUp /\ \E c \in Configs : ConnCall(c)
  \/ ConnStep
  \/ SetConfigRefused /\ WifiReboot
  \/ ConnReturn

WifiNext == Setup \/ Driver \/ EventTask \/ Caller

WifiSpec == WifiInit /\ [][WifiNext]_wifiVars

\* The component in a program that may also restart the chip at any time.
WifiOpenSpec == WifiInit /\ [][WifiNext \/ WifiReboot]_wifiVars

\* The scheduler runs every ready task; an attempt ends; and a network that
\* accepts the credentials, tried for ever, is joined in the end.
WifiFairness ==
  /\ WF_wifiVars(EventTask)
  /\ WF_wifiVars(ConnStep)
  /\ WF_wifiVars(Associate \/ AttemptFails)
  /\ SF_wifiVars(Associate)

WifiFairSpec == WifiSpec /\ WifiFairness

-----------------------------------------------------------------------------
(* Properties *)

DisconnectPending == evTask = "clear" \/ Pending("STA_DISCONNECTED")

\* The CONNECTED bit is never stale for good: while it is set the station is
\* associated, or the event that will clear it is on its way.
ConnectedBitSound ==
  CONNECTED_BIT \in wifiBits => radio = "connected" \/ DisconnectPending

\* The AP_CONNECTED bit is set only while a station is joined or the event that
\* will clear it is queued.  (The converse fails: the code clears the bit when
\* one of several stations leaves.)
ApBitSound ==
  AP_CONNECTED_BIT \in wifiBits => joined # {} \/ Pending("AP_STADISCONNECTED")

\* The retry never stalls: a configured station that is idle has an event
\* queued, or a call in progress, that will start the next attempt.
NeverStalls ==
  radio = "idle" /\ staCfg # NONE =>
    \/ Pending("STA_DISCONNECTED")
    \/ connPc \in {"setConfig", "clear", "connect"}

\* The first call of a boot returns only for the network it was asked for.
FirstCallGetsItsNetwork ==
  connPc = "returned" /\ calls = 1 => ipNet = connArg

\* The first call of a boot loses no wake-up: if it sleeps while the station is
\* associated, the event that wakes it is queued.
FirstCallWillWake ==
  connPc = "blocked" /\ calls = 1 /\ radio = "connected" => Pending("STA_GOT_IP")

\* What the log line "Connected" after "start the WIFI SSID:[%s]" says of every
\* call: the station got an address on the network the call was given.
ConnectedToRequested ==
  connPc = "returned" => ipNet = connArg

\* The first call of a boot returns when its network accepts the credentials.
FirstCallReturns ==
  (connPc = "disconnect" /\ calls = 1 /\ connArg \in Reachable) ~> connPc = "returned"
=============================================================================
