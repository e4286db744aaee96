# A verification of phev-http-esp

`phev-http-esp` is the firmware of an ESP32 that sits between a web browser and
a car. On power-on it opens a Wi-Fi access point and serves a small web
application. The user posts the car's network and address, the device joins
that network, is told to start, and then runs a *car service* that talks to the
car over TCP and serves commands and status over HTTP.

This directory holds TLA+ modules that model the program, TLC configurations
that check them, and TLAPS proofs. `PROJECT.json` lists runs, mutants, the
source lines each definition stands for, findings, hazards and theorems.

    tlc -config MCPhevApp.cfg MCPhevApp.tla      # any cfg with its module
    tlapm PhevAppProofs.tla                      # any *Proofs module

## 1. The system

### Inventory

| Component | Source | State it keeps | Operations |
|---|---|---|---|
| Application | `main/main.c` | `app_main`'s position, whether SPIFFS is mounted, `main_event_group` (CONNECTED, START, REGISTERED), the local `details`, the server's handler table, the service | `app_main`, the handlers of `/api/config`, `/api/registration`, `/api/connect`, `/api/reset` |
| Pages and queries | `main/main.c` | an open file; the body of an operation | `/`, every SPIFFS file, GET `/api/config`, `/api/operation`, `/api/status`, `/api/register/*`, the captive redirect |
| Wi-Fi client | `components/wifi_client` | `wifi_event_group` (CONNECTED, AP_CONNECTED), the driver's configuration | event handler, set-up, soft AP, `wifi_conn_initStationAndWait` |
| TCP client | `components/tcp_client` | `global_sock` | connect, read with a timeout, write |
| Captive DNS | `components/captdns` | one socket, two packet buffers | one task: receive, parse, answer |
| Parser | `components/phev_setup` | none | `phev_setup_jsonToConnectionDetails`, called for `/api/config` |
| Set-up server | `components/phev_setup` | CONFIGURED bit | `phev_setup_startWebserver`, which nothing in the repository calls, and so `post_handler`, `get_handler` |
| Logger | `components/logger` | none | `hexdump` |
| Web application | `webapp` | none of the protocol's | buttons that send one request each |
| Messaging core, car protocol | `components/msg-core`, `phev-core` | - | empty submodules: not in the repository |

### How they interact

Five tasks share memory: the main task (`app_main`), the HTTP server's single
task, the system event loop task, the captive DNS task, and, from the end of
`app_main` on, the service's task.

- The *driver* posts events to a FIFO queue; the event loop task runs
  `wifi_client_event_handler` on each, which sets and clears event bits and calls
  the driver back.
- The POST handler of `/api/config`, on the HTTP task, parses the body, writes
  `details` through a pointer to a **local variable of `app_main`**, calls
  `wifi_conn_initStationAndWait` (which blocks on a Wi-Fi bit), answers, and then
  sets the bit the main task waits for. The main task then registers three more
  URIs and waits for START.
- `/api/connect` and `/api/registration` set START. The main task reads `details`
  three times, creates the service, registers its URIs with it as context, and
  ends.
- A handler that blocks blocks every later request: the server has one task.
- HTTP server, captive DNS and TCP client take sockets from one lwIP pool.

### What is hard

Tasks that wait on each other's bits; bits that outlive what they stand for;
pointers written by one task and read by another; the handler's automatic
reconnection racing the call that reconfigures the station; restarts that forget
everything; a handler table, a socket pool and packet buffers of fixed size;
bodies that arrive in pieces or not at all. `PROJECT.json` lists each of these
hazards at its line, with the properties that cover it, or why none does.

### What makes each part correct

- **Wi-Fi client**: a bit is never stale for good; a failed or lost connection is
  always followed by a new attempt; a call returns for the network it was given,
  loses no wake-up, and returns if the network accepts it.
- **Application**: no handler or event runs before what it dereferences exists; the
  service starts only in a provisioned device, with details a client gave; every
  API is served; a start leads to a running service.
- **Requests**: each ends in one whole response, one sequence of chunks with one end, or a failure
  (the code breaks this in two ways that the properties except: an empty file is ended twice, and a
  chunk that cannot be sent, the ending one included, goes unnoticed); files are sent and bodies received whole;
  an operation reported ok has been handed over; no client can keep the server's task.
- **TCP client**: only established connections are returned; the end of the data is
  told after the data and never mistaken for silence; a failed `select` or `read` loses nothing;
  a read returns. Seen from the service, it is a byte stream whose reads may fail.
- **Socket pool**: every socket in use has one owner, or was lost by a failed connect.
- **Captive DNS**: one reply per query, in order, with a right record for each
  known question, inside its buffer; the task comes back to receiving. The code does neither of the
  last two for every legal or illegal query: see the runs.

## 2. The modules

| Module | Models | Lines of state ↔ code |
|---|---|---|
| `WifiClient` | `wifi_client.c` and the driver | `wifiBits` = `wifi_event_group`; `evTask`, `connPc` = positions in the handler and in the call; `radio`, `staCfg`, `staNet`, `joined`, `events` = driver and queue |
| `PhevApp` (EXTENDS `WifiClient`) | `app_main` and the handlers that change its state | `mainPc`, `httpdPc` = positions of two tasks; `mainBits` = `main_event_group`; `details`, `mounted`, `files`, `slots`, `uris`, `service`, `host`, `port` |
| `Lifecycle` | abstract: unprovisioned, provisioned, starting, running | implemented by `PhevApp` |
| `HttpHandlers` | a request from headers to last octet, on the server of `main.c` or, if it runs, the set-up server; the parser | `httpPc`, `toCome`/`buffered`/`stored` (the body), `fpos`/`chunks` (the file: which octets each chunk holds), `errors`, `config`, `setupServer`, `answer`, `failed` |
| `TcpClient` | `tcp_client.c` over a socket pool | `sock`, `unread`, `tcpPc`, `result`, `last` = `global_sock`; *history* `failed`, `opened`, `failures` |
| `ByteStream` | abstract: connections that carry bytes one way, with reads that answer or fail | implemented by `TcpClient` |
| `SocketPool` (EXTENDS `TcpClient`) | the pool with its actual users: HTTP sessions and the captive DNS | `sessions`, `dnsPc`, `sockFd`; `sock` is `TcpClient`'s |
| `CaptDns` | `captdns.c` | `dnsPc`, `packet` = `udp_msg`, `nextQ` = `i`, `at` = `p`, `rend`; `labelPtr`, `endPtr`, `res` = the variables of `labelToStr`, whose loop takes one step per turn; `dnsPc = "overrun"` while octets past `reply` have just been written |
| `MC*` | the instances for TLC | |
| `SeqInduction` | lemmas on induction up to a number, and on flattened sequences | |
| `*Proofs` | the theorems | |

Each event group, driver or socket call in the code is a step of its own, because
other tasks run between them; what lies between two such calls is one step.
Variables marked *history* are never read by a guard; they let a property compare
a state with what came before.

`PhevApp` *composes* with `WifiClient`: its POST handler performs `ConnCall`, its
`WifiStep` interleaves the driver, the event task and the blocked call, and its
`Reboot` resets both. That the composition uses the component as the component's
own specification allows is a property (`ImplementsWifi`), checked and proved, so
the component's theorems hold inside the program
(`ConnectedBitSoundInApp`). The set of `details` a client may post is abstract there;
how a body becomes details is in `HttpHandlers`.

`SocketPool` composes the TCP client with the two other users of the socket pool.
`TcpClient` lets unknown others take and return sockets as they like; that the actual
ones do no more than that is the theorem `PoolImplementsTcp`, so what is proved of
`TcpClient` holds in the composition.

Definitions headed *Variant* repeat the next definition with one plausible mistake
(a dropped check, a missing reset, a swapped order). They belong to no
specification; `PROJECT.json` pairs each with the property that tells it apart.

### What is assumed of code outside the repository

- *Wi-Fi driver.* `esp_wifi_start` queues STA_START, then AP_START; stations can
  join once AP_START has been handled. Connecting without a configuration, or while
  connecting or connected, is refused. Disconnecting an idle station posts nothing; otherwise
  it posts STA_DISCONNECTED. Setting a configuration may be refused while connecting:
  `ESP_ERROR_CHECK` then aborts, which restarts. The driver keeps nothing in flash
  (`WIFI_STORAGE_RAM`).
- *Event queue.* FIFO; a full queue delays the driver's next event. Losing events
  would break the code's retry, and nothing in the code guards against it.
- *Event groups.* A task blocked on a bit becomes ready when the bit is set, even if
  it is cleared before that task runs (FreeRTOS's documented behaviour).
- *HTTP server.* One task; a full handler table refuses a registration; receiving
  returns what is there, or times out; sending a chunk may fail. It holds some sockets
  from its start and one per session, at most `max_open_sockets` of those, and leaves a
  client waiting when it can have no more.
- *lwIP.* `select` reports data and ended connections as readable; `read` gives data
  first, then 0 for an orderly end or -1; either may fail at any time, whatever the connection is.
  `write` sends the whole buffer or fails. `sendto` may fail.
- *DNS clients* send questions of any number, length and type, up to what the receiving buffer
  holds, in which a name may end in a pointer to an earlier question's name, out of the packet or to
  itself, or in a reserved label type; and datagrams the checks reject. Nothing is assumed of the room that
  a query leaves for its reply. Not generated are pointers forward, longer circles of pointers and questions cut short; names with
  pointers to names that end in pointers are part of the model, but in no run.
- *An overrun of the DNS reply* either is not noticed or panics and restarts the chip, which is how the
  repository's `sdkconfig` ends a panic. That is not all it could do: `sdkconfig` has no stack check
  (`CONFIG_STACK_CHECK_NONE`), and other damage is not modelled.
- *Memory.* Allocation succeeds where the code does not look for failure (in the set-up
  server, for example); where it does, it may fail.
- A body accepted as details has an ssid and a password: what `phev_config_*`, in
  phev-core, does with a missing one is not known here.

## 3. The runs

| Run | Specification | Shows |
|---|---|---|
| `wifi` | `WifiFairSpec` | seven properties of the Wi-Fi client: `ConnectedBitSound`, `ApBitSound`, `NeverStalls`, `FirstCallGetsItsNetwork`, `FirstCallWillWake`, `FirstCallReturns`, types |
| `app` | `FairSpec` | the program: start-up order, provisioning, details, handler table; refinements of `Lifecycle` and `WifiClient`; liveness: `FirstConfigOpensConnect`, `StartRunsService` |
| `tcp` | `PoolFairSpec` | connect, read, write against a car that sends, closes or breaks off, with socket calls that fail and the actual other users of the pool; refinement of `ByteStream`; one owner per socket |
| `http` | `HttpSpec` | requests with bodies in pieces or empty, silent or vanishing clients, failing files and sends |
| `captdns` | `DnsSpec` | queries answered once, in order, with the right octets; replies with room fit; overruns; names without end |
| `registration` | `FairSpec` | **finding**: `/api/registration` is never answered |
| `credentials` | `FairSpec` | **finding**: a configuration with rejected credentials is never answered |
| `reprovision` | `WifiFairSpec` | **finding**: a second configuration may return on the first network |
| `rejected_post` | `Spec` | **finding**: a rejected post sets valid details to NULL, which `app_main` reads |
| `many_files` | `Spec` | **finding**: with the files of `spiffs.bin`, `/api/connect` is not served |
| `captdns_root` | `DnsSpec` | **finding**: after a question about the root, the parser is one octet too far |
| `captdns_long` | `DnsSpec` | **finding**: the reply to a question for a name of 255 octets is written past its buffer of 512 |

The findings quote what the code, a comment or the web application says of the
behaviour that fails.

Several properties are restricted because the unrestricted ones are false, and the
restriction says where the code stops being right:
`FirstCall...` holds of the first configuration of a boot (a later one may meet the
reconnection of an earlier one: run `reprovision`). `FirstConfigOpensConnect` excepts
a restart, which a second post may cause between the two writes of the first. The
converse of `ApBitSound` is false: one station's leaving clears the bit of all.
`FileWhole` excepts failed reads, which the handlers take for the end, and failed sends,
which they do not notice: a lost chunk leaves a hole that the client cannot see.
`AnsweredOnce` excepts chunks that could not be sent and the empty file, which is ended twice.
`EndAfterAllData` tells an end from a failed `select` or `read`, which the service cannot: both are -1. Of a
failure it says that nothing is lost. `SocketsAccountedFor` says which sockets are lost (those of failed
connects), not that any are left: nothing gives them back.
`ReturnsToReceiving` excepts a name that points to itself or has a reserved label type (`Caught`): there the loop
of `labelToStr` never ends (captdns.c:121-141) and the task answers nobody any more. The run has both.
`AnswersMatchQuestions` is about replies no longer than the buffer, and `RepliesWithRoomFit` says which replies
those are at least; without its premise the property is `ReplyFits`, which is false (run `captdns_long`).
The properties of `CaptDns` are about packets whose names `labelToStr` reads as RFC 1035 means them, or does not
come to the end of (`Readable`).
Two kinds it misreads. The root's name it reads one octet too far (run `captdns_root`). And each
pointer it follows overwrites the end of the name with the end of that pointer (captdns.c:133), so
for a question whose name points to one that itself ends in a pointer the parser goes on behind the
*earlier* name: TLC finds `NextFieldsFound` violated with three questions, for `esp`, for `n` and a pointer to the
first, and for a pointer to the second. No run is kept for it; it is a hazard in `PROJECT.json`.
`AnswersMatchQuestions` asks a TTL of 0 of address records
only, since of the other records' TTL half is never written. `FirstConfigOpensConnect` and
`AllServed` are about files that leave room in the table (run `many_files` shows the rest).
`RequestsEnd` excepts `post_handler`, which receives again after every timeout.
`NullOnlyByRejection` is about a boot with no rejected post at all, although an accepted one mends what a
rejected one did; `ServiceFromConfig` lets host and port come from two posts, as the code does.

### Bounds

- *Configurations*: two, `Configs = {c1, c2}`, the fewest with which a station can be on the wrong
  network or host and port can come from two posts. `Reachable` is both, one or
  none of them, as the question needs.
- *Calls per boot* (`MaxCalls`): 2 in the program, 3 in the component: a call, one
  that interrupts its association, and one that interrupts that. The counter is
  reset by a restart, so runs contain any number of boots.
- *Stations*: two in the component, so that one may leave while one stays; one in the
  program, where stations matter only as clients. `ApMaxStaConn = 3` is the code's.
- *Queue*: 3 or 4 places, enough for the two start events and for a disconnect behind
  an address; the capacity only delays the driver.
- *Handler table*: the code's 20. Files: 10 fill it exactly, 15 (the image's number) overfill it;
  a partition that had to be formatted has none, which differs from 10 in nothing.
- *Sockets*: three, one the server's for good and two that a session, the DNS task and the TCP client
  compete for, so that every one of them may find none, and a failed connect may take the last. The buffer is
  smaller (2) than what the car sends (3), so reads are partial.
- *The pool as configured*: `CONFIG_LWIP_MAX_SOCKETS` is 10, `HTTPD_DEFAULT_CONFIG` takes three and
  up to seven sessions. Nothing is left then for the DNS task, if it has none yet, or for the car, and no
  property says that they find a socket. The properties of the run are about any pool, and
  the theorems prove them for every one, this one included.
- *Chunks and pieces* of 2 octets with files of 0, 1, 4 and 5 and bodies of 0, 1, 3 and
  5: empty, shorter than one, an exact multiple, and with a remainder.
- *DNS*: the theorems are for every buffer below 16382 octets, beyond which a pointer meant to be
  out of the packet could be in it; the code's is 512. The run `captdns` has a buffer of 104 octets, which one
  reply, as long as its worst case, fills to the last octet, two
  datagrams, and eight sections of questions with every type answered and one that is
  not, plain names, whole-name pointers, tail pointers, one out of the packet, one to itself, a reserved label type,
  and a query whose reply does not fit. `captdns_long` has the code's 512 octets and one name of 255.

Deadlock is checked in every run whose cfg does not say otherwise. The cfgs that
switch it off are those in which the program may legitimately rest: the DNS task waiting after
the last datagram of the bound.

### Fairness, and why the code justifies it

- The scheduler runs every ready task: weak fairness of the main task, of the
  server's handlers, of the event task, and of each blocking call's own steps. Weak
  fairness suffices: no code clears START, CONNECTED or REGISTERED of
  `main_event_group`, and setting the Wi-Fi bit readies the blocked call at once, so
  no other task takes back what a ready task waited for. A read of `details` is
  ready in either case, as a load or, through NULL, as a panic. Where a wait may
  never end (REGISTERED), fairness does not end it.
- An attempt to associate ends, one way or the other (the driver's own timeouts); a
  network that accepts the credentials and is tried again and again is joined in the
  end: strong fairness of `Associate`. Without it a radio could fail for ever, and
  the properties about reachable networks would ask for more than any code can do.
- Receiving from a client times out (`recv_wait_timeout` of the server), and so does
  `select` after `TCP_READ_TIMEOUT`: weak fairness of the handler's and the call's steps.
- The DNS task polls for a socket once a second and other users of the pool give
  sockets back: strong fairness of `CreateSocket`, weak fairness of giving back. The second is an assumption about
  the HTTP server's sessions and about connects that do not fail, and no code justifies it for a pool that failed
  connects have emptied. `bind` to port 53, which no one else uses, succeeds in the end.
- `captdnsRecv` runs on: weak fairness of its steps together. It ends, but for a name without end, in which
  its turns go on for ever without leaving the place.
- `SocketPool` assumes only that a call of the TCP client goes on: nobody is assumed to return a socket.
- Nothing is assumed of clients: no request need ever come, no body need end.

## 4. What is proved

TLAPS proves, for **all** values of the constants (any number of networks, stations,
files, calls, sockets, octets; any queue, table or buffer size within the named
assumptions):

**`WifiClientProofs`** - six theorems under `WifiOpenSpec`, the component in a program that may
restart it at any moment. None of the properties is inductive. The argument goes through the *order* of the event queue:
`BitsInv` says that every queued address is followed by the disconnect that cancels
it unless the station is still associated, so that handling it cannot leave a
stale bit; `StallInv` that a configured idle station has the disconnect queued or a
call under way, and that nothing is configured before the driver starts; `FirstCallInv` that in the first call of a boot every
address, queued or handled, is of the only configuration there has been;
`WakeInv` that until that call connects nothing about the station is queued or in
progress, so `xEventGroupClearBits` can lose no address. Four lemmas say what
queueing and taking an event do to these facts (`AppendEvent`, `TailEvent`,
`AppendUncancelled`, `TailUncancelled`).

**`PhevAppProofs`** - ten theorems. `ProgramInv` (types, `WakeInv` of the component, and
`OrderInv`, which ties what exists to the main task's position) is inductive for
the whole program and gives `ImplementsWifi` and `HandlersHaveContext`.
`SignalInv` follows the START and CONNECTED bits through both tasks;
`NetworkInv` says that every network in the driver and every address comes from
an accepted post; `DetailsInv` ties NULL to rejection and `host`, `port` to accepted
details; `TableInv` counts handler places through registration. With these,
`LifecycleStep` maps every step to a step of `Lifecycle` or a stutter, which is
`AppImplementsLifecycle`.

**`TcpClientProofs`** - `TcpInv` adds conservation of bytes: on an intact connection,
what was sent is what was given to the service and what is unread, whichever calls have failed. Three
invariants and one action property follow. `TimevalIsExact` shows the conversion of the timeout
loses nothing.

**`TcpClientProofs`** also shows that the component *implements* `ByteStream`
(`ByteStreamImplemented`): each step of the car, of a call or of another user maps to a step of
the stream or a stutter, for which `TcpInv`'s conservation is what makes a read
deliver only what was sent.

**`SocketPoolProofs`** - `PoolImplementsTcp` brings `TcpInv` into the composition; `PoolInv`
adds that the sockets `TcpClient` calls others' are exactly the server's, the sessions' and the
DNS's, pairwise different (`TcpKeepsOthers`: the TCP client touches none of them), and that its own are the one
of the connect under way, those it returned and those it lost. That is `EverySocketHasOneOwner`, for any pool.

**`HttpHandlersProofs`** - `HttpInv` says which handler each position belongs to, what
has been answered by then, and that the octets of a body are conserved and in
order (`TakeKeepsBody`, for any cutting into pieces). The file's part of it ties the
file's position to the last chunk sent, so that pieces follow one another and, without errors, end
at the file's size. Types, `AnsweredOnce`, `FileWhole`, `OperationHandedOver`,
and `WholeBodyParsed` follow.

**`CaptDnsProofs`** - five theorems, each under `AllReadable`: every client's names are ones `labelToStr`
reads as they are meant or does not come to the end of. The hypothesis is needed, since the properties are false without it (see above); that it is not empty is
checked by TLC, which evaluates on every run of `MCCaptDns` that it holds of `MCQueries` and of the longest name and
not of the root's query. Nothing is assumed of the room for a reply: overruns are among the behaviours. `DnsInv` has five parts beside the types:

- `ReadInv`: the task is where it should be in the packet. Between questions it is at the octet where
  the next one is encoded; inside a name it is at some label, of this name or of the one it points to, what it
  has read are the labels before that one, and the end is known exactly if a pointer was
  followed (`Reading`); after a name it is at the type and has the whole name (`ReadName`).
- `RoomInv`: the reply has grown by no more than its worst case over what has been parsed of the packet, so it
  fits if the worst case does. For other queries the check that the code has commented out is missed.
- `AnswerInv`: the records are as many as the questions of known types so far; a question's record is
  found by its rank among them. It holds of what the code writes past the buffer too; the property claims it only
  of replies with room, since of the others what is sent is not what was written.
- `ServingInv`, `CountInv`: what has been taken is what has been replied to and the query under way. A failed
  `recvfrom`, whose -1 is read as 65535, is kept out by the length check, as every buffer is smaller.

Types, `RepliesWithRoomFit`, `AnswersMatchQuestions`, `OneReplyPerQuery` and `NextFieldsFound` follow. Even the types depend
on `ReadInv`: a task lost in the packet reads octets that are not there.

What `DnsInv` rests on is in **`DnsPacketProofs`**: where in a packet each label, pointer and type is
(`AtLabel`, `AtEnd`, `AtType`), that every octet of it is an octet, that a name is never longer than the worst case says
(`RoomGrows`, `RoomAtEnd`), and that each turn of the loop in `labelToStr` goes on to the next label, follows a pointer,
ends the name, or leaves the packet, just as the name says (`EveryTurn`). Packets and names are recursive functions of the
number of questions, and a packet's labels are flattened with a fold, so these facts are by induction on data. The library's
induction theorems have operators as parameters, which none of the provers here instantiates.
**`SeqInduction`** goes another way: the set of counterexamples is a set like any other, and if it is not empty it has
a least element (`LeastElement`, from the library's theorem that inclusion of finite sets is well-founded); so a set that holds 0
and with each number the next holds all (`InductionUpTo`). `FlattenPieces` is what follows for a flattened sequence:
its pieces lie one after another.

### Only model-checked

Liveness: `FirstCallReturns`, `FirstConfigOpensConnect`, `StartRunsService`, `ReadReturns`,
`RequestsEnd` and `ReturnsToReceiving`. The prover has no rules for fairness, nor for ENABLED. Every
other property of a passing run is a theorem.

## 5. Not modelled

- `msg-core` and `phev-core` are not in the repository: the service appears as a
  context that exists or not, receives messages and calls the TCP client. Whether its
  message pipe may be used from the HTTP task while `main_loop` reads it is decided there.
- What status and registers look up: their handlers only read the service; which of their
  answers they give is a choice.
- NVS and adapter set-up before the server starts: straight-line initialisation
  whose failure restarts or is ignored. `captdnsInit` only creates the task; that the creation fails,
  which no one looks at, is not modelled.
- `wifi_conn_init` and `wifi_conn_initAndWait`: nothing that runs calls them, and what stopping and
  initialising a started driver again does is the driver's affair.
- The memory that handlers do not free: its exhaustion shows as the failures of allocation
  and `fopen` that the models have.
- What a write through the dangling `details` pointer damages after `app_main` has
  returned; `PhevApp` takes it for a restart or the store it was meant to be.
- The rest of the memory allocated for an operation's body of which only a part was
  received. What follows a body not terminated by zero in `post_handler` is modelled by what the parser may make of
  it when the body alone is no JSON or empty.
- A caller of `phev_setup_startWebserver`: there is none in the repository, so `get_handler` and `post_handler` run in no
  build of it. `HttpHandlers` has them for whoever starts the server.
- Names with pointers forward or in longer circles, and questions cut short; what an overrun of the DNS reply
  damages beyond a restart; the task watchdog, which only reports a task that does not end (`CONFIG_TASK_WDT_PANIC` is not set).
- `logger`: layout only. `webapp`: what its code expects of an answer is stated as
  properties of the program. The cloud and legacy code that nothing calls.

## 6. The plan

Done, in this order: `WifiClient` and its proofs; `PhevApp` with `Lifecycle`, the
refinements and their proofs; `TcpClient`, `HttpHandlers`, `CaptDns` with their theorems;
`ByteStream` and its refinement; `SocketPool`; chunks that cannot be sent, the handlers that
answer; the mounting of SPIFFS; names read turn by
turn in `CaptDns`, and every safety property a theorem; failing socket calls, replies that overrun and names without end.

To extend the model:

1. An abstract request-response server that `HttpHandlers` implements.
2. A service task in `PhevApp` that connects through `TcpClient`, if msg-core and phev-core
   become available.

To prove more:

3. That every pointer of a name is followed or is the way to `Caught`, forward ones included: what `labelToStr` does
   with any octets, not only with a well-formed packet.
4. That the progress the liveness properties promise cannot be undone: for each, the step invariants that say
   what stays true between its premise and its conclusion. The last step, from there to the
   conclusion under fairness, stays with TLC.
