------------------------------ MODULE PhevApp ------------------------------
(***************************************************************************)
(* main/main.c: how the device goes from power-on to a running car         *)
(* service.  Three tasks share state:                                      *)
(*                                                                         *)
(*   - the main task runs app_main: it starts the HTTP server and the      *)
(*     access point, waits for CONNECTED_BIT, serves more URIs, waits for  *)
(*     START_BIT, reads the connection details and starts the service;     *)
(*   - the HTTP server's single task runs one handler at a time, so a      *)
(*     handler that blocks blocks every later request;                     *)
(*   - the event loop task of WifiClient, with the driver beside it.       *)
(*                                                                         *)
(* The details live in a local variable of app_main that the POST handler  *)
(* of /api/config overwrites through a pointer, at any time.               *)
(*                                                                         *)
(* Requests that change nothing here (pages, status, registers, operation, *)
(* URIs not served) are left out.                                          *)
(*                                                                         *)
(* A definition headed "Variant" is the one after it with a mistake: it is *)
(* no part of the specification and shows that some property tells them    *)
(* apart.                                                                  *)
(***************************************************************************)
EXTENDS WifiClient

CONSTANTS
  MaxUriHandlers,  \* config.max_uri_handlers
  FileCounts       \* numbers of files the SPIFFS partition may hold, or 0 once formatted

ASSUME AppAssumption ==
  /\ MaxUriHandlers \in Nat
  /\ FileCounts \subseteq Nat /\ NONE \notin FileCounts

VARIABLES
  mainPc,     \* position of the main task in app_main
  mainGroup,  \* has app_main created main_event_group
  mainBits,   \* bits set in main_event_group, which no code clears
  mounted,    \* has initialise_spiffs mounted the SPIFFS partition
  files,      \* files found by createHandlers; NONE before, or if it failed
  slots,      \* URI handlers registered so far, those of the files included
  uris,       \* URIs served, those of the files left out
  details,    \* the local variable of app_main; NONE is NULL
  httpdPc,    \* position of the HTTP server's task in a handler
  service,    \* the service: not there, created, or running in its own task
  host, port, \* the details its host and its port were read from
  accepted,   \* history: the details stored by valid posts
  rejected    \* history: has a post been rejected

uriVars == <<mounted, files, slots, uris>>
svcVars == <<service, host, port>>
appVars == <<mainPc, mainGroup, mainBits, uriVars, details, httpdPc, svcVars,
             accepted, rejected>>
vars    == <<wifiVars, appVars>>

\* main.c's own CONNECTED_BIT is another bit of another group.
APP_CONNECTED_BIT == "CONNECTED_BIT"
START_BIT         == "START_BIT"
REGISTERED_BIT    == "REGISTERED_BIT"

\* Variant: /api/connect is served from the beginning.
BaseUris_Connect == <<"root", "getConfig", "postConfig", "connect">>

\* What createHandlers serves after the files, in its order.
BaseUris == <<"root", "getConfig", "postConfig", "captdns">>
SetupUris   == {"registration", "connect", "reset"}
ServiceUris == {"operation", "status", "registers"}
Uri == {"root", "getConfig", "postConfig", "captdns"} \cup SetupUris \cup ServiceUris

\* Where the main task is about to read *details.
DerefPoints == {"logDetails", "loadHost", "loadPort"}

AppTypeOK ==
  /\ mainPc \in {"boot", "startServer", "wifiSetup", "createGroup", "apInit",
                 "waitConnected", "regRegistration", "regConnect", "regReset",
                 "waitStart", "createService", "regOperation", "regStatus",
                 "regRegisters", "spawn", "returned"} \cup DerefPoints
  /\ mainGroup \in BOOLEAN /\ mounted \in BOOLEAN
  /\ mainBits \subseteq {APP_CONNECTED_BIT, START_BIT, REGISTERED_BIT}
  /\ files \in FileCounts \cup {NONE}
  /\ slots \in 0..MaxUriHandlers
  /\ uris \subseteq Uri
  /\ details \in Configs \cup {NONE}
  /\ httpdPc \in {"idle", "postConfig", "connecting", "setConnected",
                  "registration", "waitRegistered", "connect", "reset", "reply"}
  /\ service \in {"none", "created", "running"}
  /\ {host, port} \subseteq Configs \cup {NONE}
  /\ accepted \subseteq Configs
  /\ rejected \in BOOLEAN

AppInit ==
  /\ mainPc = "boot"
  /\ mainGroup = FALSE /\ mainBits = {}
  /\ mounted = FALSE /\ files = NONE /\ slots = 0 /\ uris = {}
  /\ details = NONE
  /\ httpdPc = "idle"
  /\ service = "none" /\ host = NONE /\ port = NONE
  /\ accepted = {} /\ rejected = FALSE

\* esp_restart or a panic: nothing of the above is kept in flash.
Reboot ==
  /\ WifiReboot
  /\ mainPc' = "boot"
  /\ mainGroup' = FALSE /\ mainBits' = {}
  /\ mounted' = FALSE /\ files' = NONE /\ slots' = 0 /\ uris' = {}
  /\ details' = NONE
  /\ httpdPc' = "idle"
  /\ service' = "none" /\ host' = NONE /\ port' = NONE
  /\ accepted' = {} /\ rejected' = FALSE

-----------------------------------------------------------------------------
(* The main task. *)

MainAt(here, next) == mainPc = here /\ mainPc' = next
MainFrame == UNCHANGED <<mainBits, details, httpdPc, accepted, rejected>>

\* Variant: does not look for room.
Register_Unbounded(u) == uris' = uris \cup {u} /\ slots' = slots + 1

\* Variant: leaves the last place of the table unused.
Register_OneShort(u) ==
  IF slots + 1 < MaxUriHandlers
  THEN uris' = uris \cup {u} /\ slots' = slots + 1
  ELSE UNCHANGED <<uris, slots>>

\* httpd_register_uri_handler: a full table refuses, which no caller looks at.
Register(u) ==
  IF slots < MaxUriHandlers
  THEN uris' = uris \cup {u} /\ slots' = slots + 1
  ELSE UNCHANGED <<uris, slots>>

\* Mounts the partition, which it formats if it must; app_main does not learn
\* whether it could.
initialise_spiffs ==
  /\ MainAt("boot", "startServer")
  /\ mounted' \in BOOLEAN
  /\ MainFrame /\ UNCHANGED <<wifiVars, mainGroup, files, slots, uris, svcVars>>

\* One handler per file, then those of BaseUris, as far as the table goes.  It
\* opens the partition's directory first, which fails if nothing is mounted.
createHandlers(n) ==
  /\ mounted' = mounted
  /\ files' = n
  /\ slots' = IF n + 4 <= MaxUriHandlers THEN n + 4 ELSE MaxUriHandlers
  /\ uris' = {BaseUris[i] : i \in {j \in 1..4 : n + j <= MaxUriHandlers}}

\* Variant: wifi_client_setup is not called.
start_webserver_NoWifiSetup ==
  /\ MainAt("startServer", "createGroup")
  /\ \/ UNCHANGED uriVars
     \/ mounted /\ \E n \in FileCounts : createHandlers(n)
  /\ MainFrame /\ UNCHANGED <<wifiVars, mainGroup, svcVars>>

\* No request can come before the access point is up, so this is one step.
start_webserver ==
  /\ MainAt("startServer", "wifiSetup")
  /\ \/ UNCHANGED uriVars      \* httpd_start or opendir fails
     \/ mounted /\ \E n \in FileCounts : createHandlers(n)
  /\ MainFrame /\ UNCHANGED <<wifiVars, mainGroup, svcVars>>

\* Variant: main_event_group is not created.
MainWifiSetup_NoGroup ==
  /\ MainAt("wifiSetup", "apInit")
  /\ wifi_client_setup
  /\ MainFrame /\ UNCHANGED <<mainGroup, uriVars, svcVars>>

MainWifiSetup ==
  /\ MainAt("wifiSetup", "createGroup")
  /\ wifi_client_setup
  /\ MainFrame /\ UNCHANGED <<mainGroup, uriVars, svcVars>>

MainCreateGroup ==
  /\ MainAt("createGroup", "apInit")
  /\ mainGroup' = TRUE
  /\ MainFrame /\ UNCHANGED <<wifiVars, uriVars, svcVars>>

MainApInit ==
  /\ MainAt("apInit", "waitConnected")
  /\ wifi_ap_init
  /\ MainFrame /\ UNCHANGED <<mainGroup, uriVars, svcVars>>

\* Waits for ever; the bits are not cleared on exit.
MainWaitConnected ==
  /\ MainAt("waitConnected", "regRegistration")
  /\ APP_CONNECTED_BIT \in mainBits
  /\ MainFrame /\ UNCHANGED <<wifiVars, mainGroup, uriVars, svcVars>>

MainRegisters ==
  /\ \/ MainAt("regRegistration", "regConnect") /\ Register("registration")
     \/ MainAt("regConnect", "regReset")        /\ Register("connect")
     \/ MainAt("regReset", "waitStart")         /\ Register("reset")
  /\ MainFrame /\ UNCHANGED <<wifiVars, mainGroup, mounted, files, svcVars>>

\* Variant: does not wait.
MainWaitStart_NoWait ==
  /\ MainAt("waitStart", "logDetails")
  /\ MainFrame /\ UNCHANGED <<wifiVars, mainGroup, uriVars, svcVars>>

\* Variant: waits for the bit that says the device is registered.
MainWaitStart_Registered ==
  /\ MainAt("waitStart", "logDetails")
  /\ REGISTERED_BIT \in mainBits
  /\ MainFrame /\ UNCHANGED <<wifiVars, mainGroup, uriVars, svcVars>>

MainWaitStart ==
  /\ MainAt("waitStart", "logDetails")
  /\ START_BIT \in mainBits
  /\ MainFrame /\ UNCHANGED <<wifiVars, mainGroup, uriVars, svcVars>>

\* Each of these reads *details anew.
MainLogDetails ==
  /\ MainAt("logDetails", "loadHost")
  /\ details # NONE
  /\ MainFrame /\ UNCHANGED <<wifiVars, mainGroup, uriVars, svcVars>>

MainLoadHost ==
  /\ MainAt("loadHost", "loadPort")
  /\ details # NONE
  /\ host' = details
  /\ MainFrame /\ UNCHANGED <<wifiVars, mainGroup, uriVars, service, port>>

MainLoadPort ==
  /\ MainAt("loadPort", "createService")
  /\ details # NONE
  /\ port' = details
  /\ MainFrame /\ UNCHANGED <<wifiVars, mainGroup, uriVars, service, host>>

\* Reading through NULL is a load-prohibited exception, hence a restart.
NullDetails == mainPc \in DerefPoints /\ details = NONE

\* createServiceCtx, always with registerDevice false: then nothing is given
\* phev_service_complete_callback, the only code that sets REGISTERED_BIT.
createServiceCtx ==
  /\ MainAt("createService", "regOperation")
  /\ service' = "created"
  /\ MainFrame /\ UNCHANGED <<wifiVars, mainGroup, uriVars, host, port>>

register_handlers ==
  /\ \/ MainAt("regOperation", "regStatus") /\ Register("operation")
     \/ MainAt("regStatus", "regRegisters") /\ Register("status")
     \/ MainAt("regRegisters", "spawn")     /\ Register("registers")
  /\ MainFrame /\ UNCHANGED <<wifiVars, mainGroup, mounted, files, svcVars>>

\* The task main_loop takes over; app_main returns and its stack is freed.
MainSpawn ==
  /\ MainAt("spawn", "returned")
  /\ service' = "running"
  /\ MainFrame /\ UNCHANGED <<wifiVars, mainGroup, uriVars, host, port>>

MainTask ==
  \/ initialise_spiffs
  \/ start_webserver
  \/ MainWifiSetup
  \/ MainCreateGroup
  \/ MainApInit
  \/ MainWaitConnected
  \/ MainRegisters
  \/ MainWaitStart
  \/ MainLogDetails
  \/ MainLoadHost
  \/ MainLoadPort
  \/ createServiceCtx
  \/ register_handlers
  \/ MainSpawn

-----------------------------------------------------------------------------
(* The HTTP server's task. *)

HttpdAt(here, next) == httpdPc = here /\ httpdPc' = next
HttpdFrame == UNCHANGED <<mainPc, mainGroup, uriVars, svcVars>>

\* A client is on the soft AP, or on the network the device has joined.
ClientOnline == joined # {} \/ radio = "connected"

HttpRequest(u) ==
  /\ ClientOnline
  /\ u \in uris
  /\ HttpdAt("idle", u)
  /\ HttpdFrame /\ UNCHANGED <<wifiVars, mainBits, details, accepted, rejected>>

(* phev_http_post_config_handler *)

\* Variant: drops the details before it looks at what it received.
PostConfigRecvFails_Drops ==
  /\ HttpdAt("postConfig", "idle")
  /\ details' = NONE
  /\ HttpdFrame /\ UNCHANGED <<wifiVars, mainBits, accepted, rejected>>

PostConfigRecvFails ==
  /\ HttpdAt("postConfig", "idle")
  /\ HttpdFrame /\ UNCHANGED <<wifiVars, mainBits, details, accepted, rejected>>

\* Variant: keeps what could be read of a body it rejects.
PostConfigRejected_Keeps ==
  /\ HttpdAt("postConfig", "reply")
  /\ details' \in Configs
  /\ rejected' = TRUE
  /\ HttpdFrame /\ UNCHANGED <<wifiVars, mainBits, accepted>>

\* The body is not JSON, or has no connection in it: details becomes NULL.
PostConfigRejected ==
  /\ HttpdAt("postConfig", "reply")
  /\ details' = NONE
  /\ rejected' = TRUE
  /\ HttpdFrame /\ UNCHANGED <<wifiVars, mainBits, accepted>>

PostConfigAccepted(c) ==
  /\ HttpdAt("postConfig", "connecting")
  /\ details' = c
  /\ accepted' = accepted \cup {c}
  /\ ConnCall(c)
  /\ HttpdFrame /\ UNCHANGED <<mainBits, rejected>>

\* Variant: answers without waiting for the station.
PostConfigReplies_AtOnce ==
  /\ HttpdAt("connecting", "setConnected")
  /\ HttpdFrame /\ UNCHANGED <<wifiVars, mainBits, details, accepted, rejected>>

\* The call has returned; the answer is sent before the bit is set.
PostConfigReplies ==
  /\ HttpdAt("connecting", "setConnected")
  /\ connPc = "returned"
  /\ ConnReturn
  /\ HttpdFrame /\ UNCHANGED <<mainBits, details, accepted, rejected>>

\* Variant: answers and does no more.
PostConfigSetsBit_Forgets ==
  /\ HttpdAt("setConnected", "idle")
  /\ HttpdFrame /\ UNCHANGED <<wifiVars, mainBits, details, accepted, rejected>>

PostConfigSetsBit ==
  /\ HttpdAt("setConnected", "idle")
  /\ mainBits' = mainBits \cup {APP_CONNECTED_BIT}
  /\ HttpdFrame /\ UNCHANGED <<wifiVars, details, accepted, rejected>>

\* Once app_main has returned, the handler writes into a stack that may hold
\* anything: it does what it did before, or the chip panics.
DanglingDetails == httpdPc = "postConfig" /\ mainPc = "returned"

(* phev_http_registration_handler, phev_http_connect_handler *)

HandlerSetsStart ==
  /\ \/ HttpdAt("registration", "waitRegistered")
     \/ HttpdAt("connect", "reply")
  /\ mainBits' = mainBits \cup {START_BIT}
  /\ HttpdFrame /\ UNCHANGED <<wifiVars, details, accepted, rejected>>

HandlerReplies ==
  /\ httpdPc = "reply" \/ (httpdPc = "waitRegistered" /\ REGISTERED_BIT \in mainBits)
  /\ httpdPc' = "idle"
  /\ HttpdFrame /\ UNCHANGED <<wifiVars, mainBits, details, accepted, rejected>>

\* The steps of a handler once it has been entered.
HandlerStep ==
  \/ PostConfigRecvFails
  \/ PostConfigRejected
  \/ \E c \in Configs : PostConfigAccepted(c)
  \/ PostConfigReplies
  \/ PostConfigSetsBit
  \/ HandlerSetsStart
  \/ HandlerReplies

HandledUris == {"postConfig", "registration", "connect", "reset"}

-----------------------------------------------------------------------------
\* What makes the chip restart: a refused station configuration (aborts), a NULL
\* or a dangling details, and the handler of /api/reset.
Restarts == SetConfigRefused \/ NullDetails \/ DanglingDetails \/ httpdPc = "reset"

WifiStep == (Driver \/ EventTask \/ ConnStep) /\ UNCHANGED appVars

Init == WifiInit /\ AppInit

Next ==
  \/ MainTask
  \/ \E u \in HandledUris : HttpRequest(u)
  \/ HandlerStep
  \/ WifiStep
  \/ Restarts /\ Reboot

Spec == Init /\ [][Next]_vars

\* Every task that is ready runs; recv times out; a panic or restart happens.
Fairness ==
  /\ WF_vars(MainTask)
  /\ WF_vars(HandlerStep)
  /\ WF_vars(NullDetails /\ Reboot)
  /\ WF_vars(httpdPc = "reset" /\ Reboot)
  /\ WF_vars(EventTask /\ UNCHANGED appVars)
  /\ WF_vars(ConnStep /\ UNCHANGED appVars)
  /\ WF_vars((Associate \/ AttemptFails) /\ UNCHANGED appVars)
  /\ SF_vars(Associate /\ UNCHANGED appVars)

FairSpec == Spec /\ Fairness

-----------------------------------------------------------------------------
(* Properties *)

\* The order of app_main: the server is started before the event groups exist,
\* yet no handler and no event is processed without them, and no URI of the
\* service is served before there is a service to pass to its handler.
HandlersHaveContext ==
  /\ httpdPc # "idle" => mainGroup
  /\ events # <<>> \/ httpdPc # "idle" => wifiGroup
  /\ uris \cap ServiceUris # {} => service # "none"

\* The device is told to start only after it has been provisioned.
StartAfterConfig == START_BIT \in mainBits => APP_CONNECTED_BIT \in mainBits

\* The main task is let go only after the station has got an address on a
\* network some client asked for.
ProvisionedByRequest == APP_CONNECTED_BIT \in mainBits => ipNet \in accepted

\* When the main task has been let go, the details it will read are there,
\* unless some post to /api/config of this boot was rejected.  (The code stores
\* the parser's result before it tests it; that an accepted post then mends what
\* a rejected one did is not claimed.)
NullOnlyByRejection ==
  APP_CONNECTED_BIT \in mainBits /\ details = NONE => rejected

\* The service's host and port come from details that clients gave.
ServiceFromConfig == service # "none" => {host, port} \subseteq accepted

\* If the files leave room for the ten other handlers, all are served in the end.
AllServed ==
  mainPc = "returned" /\ files + 10 <= MaxUriHandlers => uris = Uri

\* The program implements Lifecycle.
Phase ==
  IF service = "running" THEN "running"
  ELSE IF START_BIT \in mainBits THEN "starting"
  ELSE IF APP_CONNECTED_BIT \in mainBits THEN "provisioned"
  ELSE "unprovisioned"

L == INSTANCE Lifecycle WITH
  phase   <- Phase,
  offered <- accepted,
  target  <- IF service = "running" THEN <<host, port>> ELSE <<NONE, NONE>>

ImplementsLifecycle == L!Spec

\* Within the program the Wi-Fi component behaves as its own module says.
ImplementsWifi == WifiOpenSpec

\* The first details of a boot, if their network accepts them and the files leave
\* room in the table, make /api/connect available, unless a second post restarts the chip before the main task runs.
FirstConfigOpensConnect ==
  (httpdPc = "connecting" /\ calls = 1 /\ connArg \in Reachable
     /\ files + 10 <= MaxUriHandlers)
    ~> ("connect" \in uris \/ mainPc = "boot")

\* Once told to start, the device runs the service or restarts.
StartRunsService ==
  START_BIT \in mainBits ~> (service = "running" \/ mainPc = "boot")

\* What webapp/index.js shows after a registration ("Registered" or "Error
\* registering"): the request is answered.
RegistrationAnswered == httpdPc = "registration" ~> httpdPc = "idle"

\* What webapp/index.js shows after a configuration ("Connected to Wifi" or
\* "Error"): the request is answered, wrong credentials included.
ConfigAnswered == httpdPc = "postConfig" ~> httpdPc = "idle"

\* What main.c logs of a rejected post, "Connection details not set": it sets
\* nothing, so the main task has the details it was let go for.
DetailsKept == mainPc \in DerefPoints => details # NONE

\* What webapp/index.js posts to once the device is provisioned is served.
ConnectServed == mainPc = "waitStart" => "connect" \in uris
=============================================================================
