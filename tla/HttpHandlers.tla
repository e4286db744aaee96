---------------------------- MODULE HttpHandlers ----------------------------
(***************************************************************************)
(* One request at the HTTP server, from its headers to the last octet of   *)
(* its response: the handlers of main/main.c that stream a file, hand an   *)
(* operation to the car service, or only answer; and those of the set-up   *)
(* server of components/phev_setup/src/phev_setup.c, which no code of the  *)
(* repository starts, with the parser of connection details, which         *)
(* main/main.c uses too.  (The handlers that wait are in PhevApp.)         *)
(*                                                                         *)
(* esp_http_server (external) runs one handler at a time.  The body of a   *)
(* request arrives in pieces while the handler runs, and the client may    *)
(* fall silent or go away.  A handler that returns ESP_FAIL makes the      *)
(* server close the session.                                               *)
(*                                                                         *)
(* A definition headed "Variant" is the one after it with a mistake: it is *)
(* no part of the specification and shows that some property tells them    *)
(* apart.                                                                  *)
(***************************************************************************)
EXTENDS Integers, Sequences, SequencesExt

CONSTANTS
  FileSizes,   \* sizes of the files, in octets
  BufferSize,  \* BUFFER_SIZE, the size of a chunk
  PieceSize,   \* size of post_handler's buffer
  BodyLens,    \* lengths of the bodies posted
  Bodies,      \* what they contain
  NULL         \* no value; no file; a body that is no JSON

ASSUME HttpAssumption ==
  /\ FileSizes \subseteq Nat
  /\ BufferSize \in Nat \ {0} /\ PieceSize \in Nat \ {0}
  /\ BodyLens \subseteq Nat

VARIABLES
  httpPc,      \* position of the server's task in a handler
  req,         \* the last request
  toCome,      \* octets of its body the client has yet to send
  buffered,    \* octets of its body received and not yet read
  gone,        \* has the client closed its side
  stored,      \* octets of the body in the handler's memory, by position
  fpos,        \* position in the open file; NULL if none is open
  errors,      \* which of "read", of the file, and "send", of a chunk, have failed
  chunks,      \* the chunks sent: which octets of the file; an empty one ends them
  answer,      \* the response sent as a whole: which one
  failed,      \* has the handler returned ESP_FAIL
  messages,    \* lengths of the messages handed to the service
  config,      \* what post_handler has configured, with CONFIGURED_BIT
  setupServer  \* does the set-up server run

httpVars == <<httpPc, req, toCome, buffered, gone, stored, fpos, errors,
              chunks, answer, failed, messages, config, setupServer>>

net == <<toCome, buffered, gone>>
file == <<fpos, errors, chunks>>
response == <<answer, failed>>
setup == <<config, setupServer>>

-----------------------------------------------------------------------------
(* Connection details. *)

DEFAULT_CAR_HOST_IP == "192.168.8.46"
DEFAULT_CAR_HOST_PORT == 8080
DefaultPpp == [user |-> "eesecure", password |-> "secure", apn |-> "everywhere"]

\* phev_config_checkForOption and the value, or the default.
OrElse(value, default) == IF value = NULL THEN default ELSE value

\* The cast to uint16_t.
Uint16(n) == n % 65536

phev_setup_parseConnectionConfig(connection) ==
  [host |-> OrElse(connection.host, DEFAULT_CAR_HOST_IP),
   port |-> Uint16(OrElse(connection.port, DEFAULT_CAR_HOST_PORT)),
   ssid |-> connection.ssid,
   password |-> connection.password]

phev_setup_parsePPPConfig(ppp) ==
  [f \in DOMAIN DefaultPpp |-> OrElse(ppp[f], DefaultPpp[f])]

\* The PPP details are left as malloc found them, here NULL, if the body has none.
phev_setup_jsonToConnectionDetails(body) ==
  IF body = NULL \/ body.carConnection = NULL THEN NULL
  ELSE [car |-> phev_setup_parseConnectionConfig(body.carConnection),
        ppp |-> IF body.pppConnection = NULL THEN NULL
                ELSE phev_setup_parsePPPConfig(body.pppConnection)]

-----------------------------------------------------------------------------
(* Requests (external). *)

FilePages  == {"root", "file"}
AnswerOnly == {"getConfig", "captdns", "status", "registers", "get_handler"}
Posts      == {"operation", "post_handler"}
SetupPages == {"get_handler", "post_handler"}

Requests ==
  [handler : FilePages, size : FileSizes \cup {NULL}, len : {0}, body : {NULL}]
  \cup [handler : AnswerOnly, size : {NULL}, len : {0}, body : {NULL}]
  \cup [handler : Posts, size : {NULL}, len : BodyLens \ {0}, body : Bodies]
  \cup [handler : Posts, size : {NULL}, len : BodyLens \cap {0}, body : {NULL}]

Served(r) == r.handler \in SetupPages => setupServer

Wholes == {"ok", "redirect", "page", "empty", "status", "statusError",
           "register", "registerNull", "registerError", "badNumber"}

FirstStep(handler) ==
  CASE handler \in FilePages    -> "open"
    [] handler \in AnswerOnly   -> "answer"
    [] handler = "operation"    -> "malloc"
    [] handler = "post_handler" -> "loop"

HttpTypeOK ==
  /\ httpPc \in {"idle", "open", "first", "next", "end", "answer", "malloc", "recv",
                 "handOver", "loop", "parse"}
  /\ req \in Requests
  /\ {toCome, buffered} \subseteq 0..req.len
  /\ gone \in BOOLEAN /\ errors \subseteq {"read", "send"} /\ failed \in BOOLEAN
  /\ stored \in Seq(1..req.len) /\ Len(stored) + buffered + toCome <= req.len
  /\ fpos \in Nat \cup {NULL}
  /\ chunks \in Seq([from : Nat, len : 0..BufferSize])
  /\ answer \in {"none", "408"} \cup Wholes
  /\ messages \in Seq(BodyLens)
  /\ config = NULL \/ config \in {phev_setup_jsonToConnectionDetails(b) : b \in Bodies}
  /\ setupServer \in BOOLEAN

\* A new event group, in which CONFIGURED_BIT is not set, and, unless httpd_start
\* fails, a server with the two handlers.
phev_setup_startWebserver == config = NULL /\ setupServer \in BOOLEAN

HttpInit ==
  /\ req \in Requests /\ httpPc = FirstStep(req.handler)
  /\ toCome = req.len /\ buffered = 0 /\ gone = FALSE
  /\ stored = <<>>
  /\ fpos = NULL /\ errors = {} /\ chunks = <<>>
  /\ answer = "none" /\ failed = FALSE
  /\ messages = <<>>
  /\ phev_setup_startWebserver /\ Served(req)

Request(r) ==
  /\ httpPc = "idle" /\ Served(r)
  /\ req' = r /\ httpPc' = FirstStep(r.handler)
  /\ toCome' = r.len /\ buffered' = 0 /\ gone' = FALSE
  /\ stored' = <<>>
  /\ fpos' = NULL /\ errors' = {} /\ chunks' = <<>>
  /\ answer' = "none" /\ failed' = FALSE
  /\ messages' = <<>>
  /\ UNCHANGED setup

Arrive(n) ==
  /\ ~gone /\ n \in 1..toCome
  /\ toCome' = toCome - n /\ buffered' = buffered + n
  /\ UNCHANGED <<httpPc, req, gone, stored, file, response, messages, setup>>

ClientLeaves ==
  /\ ~gone /\ toCome > 0
  /\ gone' = TRUE
  /\ UNCHANGED <<httpPc, req, toCome, buffered, stored, file, response, messages, setup>>

-----------------------------------------------------------------------------
(* phev_http_root_handler, phev_http_get_handler *)

At(here, next) == httpPc = here /\ httpPc' = next
Fail == failed' = TRUE /\ UNCHANGED answer
Reply(a) == answer' = a /\ UNCHANGED failed
FileFrame == UNCHANGED <<req, net, stored, response, messages, setup>>

Open ==
  \/ /\ At("open", "first") /\ req.size # NULL
     /\ fpos' = 0
     /\ FileFrame /\ UNCHANGED <<errors, chunks>>
  \/ /\ At("open", "idle")     \* no such file, or none more can be opened
     /\ Fail
     /\ UNCHANGED <<req, net, stored, file, messages, setup>>

Faults == SUBSET {"read", "send"}

\* fread: as much as fits of what is left, or less when reading fails; none is
\* taken for the end of the file.
Fread(n, faults) ==
  LET left == req.size - fpos
      fits == IF left < BufferSize THEN left ELSE BufferSize
  IN /\ IF "read" \in faults THEN n < fits ELSE n = fits
     /\ fpos' = fpos + n

\* httpd_resp_send_chunk: no caller looks at whether the piece was sent.
SendChunk(n, faults) ==
  chunks' = IF "send" \in faults THEN chunks ELSE Append(chunks, [from |-> fpos, len |-> n])

\* The first piece is sent even if it is empty, which already ends the chunks.
FirstChunk ==
  \E n \in 0..BufferSize, faults \in Faults :
    /\ At("first", IF n > 0 THEN "next" ELSE "end")
    /\ Fread(n, faults)
    /\ SendChunk(n, faults)
    /\ errors' = errors \cup faults
    /\ FileFrame

\* Variant: sends the piece before it looks at its length.
NextChunk_Unchecked ==
  \E n \in 0..BufferSize, faults \in Faults :
    /\ At("next", IF n > 0 THEN "next" ELSE "end")
    /\ Fread(n, faults)
    /\ SendChunk(n, faults)
    /\ errors' = errors \cup faults
    /\ FileFrame

\* Variant: a piece shorter than the buffer is taken for the end and not sent.
NextChunk_ShortIsLast ==
  \E n \in 0..BufferSize, faults \in Faults :
    /\ At("next", IF n = BufferSize THEN "next" ELSE "end")
    /\ Fread(n, faults)
    /\ IF n = BufferSize THEN SendChunk(n, faults) ELSE UNCHANGED chunks
    /\ errors' = errors \cup faults
    /\ FileFrame

NextChunk ==
  \E n \in 0..BufferSize, faults \in Faults :
    /\ At("next", IF n > 0 THEN "next" ELSE "end")
    /\ Fread(n, faults)
    /\ IF n > 0 THEN SendChunk(n, faults) ELSE "send" \notin faults /\ UNCHANGED chunks
    /\ errors' = errors \cup faults
    /\ FileFrame

EndChunks ==
  \E faults \in SUBSET {"send"} :
    /\ At("end", "idle")
    /\ SendChunk(0, faults)
    /\ errors' = errors \cup faults
    /\ fpos' = NULL
    /\ FileFrame

-----------------------------------------------------------------------------
(* The handlers that only answer. *)

Answers(handler) ==
  /\ At("answer", "idle")
  /\ req.handler = handler
  /\ UNCHANGED <<req, net, stored, file, messages, setup>>

phev_http_get_config_handler == Answers("getConfig") /\ Reply("ok")

\* 302, to the page of the application.
phev_http_captdns_handler == Answers("captdns") /\ Reply("redirect")

get_handler == Answers("get_handler") /\ Reply("page")

\* An error if there is no service, or it (external) has no status to give.
phev_http_status_handler ==
  Answers("status") /\ (Reply("status") \/ Reply("statusError"))

sendErrorJson == Reply("badNumber")

\* The URI ends in a register's number, 0 for what is none.
phev_http_get_registers_handler ==
  /\ Answers("registers")
  /\ \E ctx \in {NULL, "service"}, reg \in {0, 1} :
       \/ ctx = NULL /\ Reply("registerError")
       \/ ctx # NULL /\ reg # 0 /\ (Reply("register") \/ Reply("registerNull"))
       \/ ctx # NULL /\ reg = 0 /\ sendErrorJson

Answer ==
  \/ phev_http_get_config_handler
  \/ phev_http_captdns_handler
  \/ get_handler
  \/ phev_http_status_handler
  \/ phev_http_get_registers_handler

-----------------------------------------------------------------------------
(* phev_http_operation_handler *)

PostFrame == UNCHANGED <<req, toCome, gone, file, setup>>

Malloc ==
  \/ /\ At("malloc", "recv")
     /\ PostFrame /\ UNCHANGED <<buffered, stored, response, messages>>
  \/ /\ At("malloc", "idle")
     /\ Fail
     /\ PostFrame /\ UNCHANGED <<buffered, stored, messages>>

\* Variant: leaves out the first octet of the memory.
Take_FromOne(limit) ==
  LET n == IF buffered < limit THEN buffered ELSE limit
  IN /\ n > 0
     /\ buffered' = buffered - n
     /\ stored' = stored \o [i \in 1..n |-> Len(stored) + i + 1]

\* httpd_req_recv gives what is there, up to a limit.
Take(limit) ==
  LET n == IF buffered < limit THEN buffered ELSE limit
  IN /\ n > 0
     /\ buffered' = buffered - n
     /\ stored' = stored \o [i \in 1..n |-> Len(stored) + i]

\* The handler reads once.
RecvOnce ==
  /\ At("recv", "handOver")
  /\ Take(req.len)
  /\ PostFrame /\ UNCHANGED <<response, messages>>

\* Variant: tries again, as post_handler does.
RecvTimesOut_Retries ==
  /\ At("recv", "recv")
  /\ req.len > 0 /\ buffered = 0 /\ ~gone
  /\ PostFrame /\ UNCHANGED <<buffered, stored, response, messages>>

RecvTimesOut ==
  /\ At("recv", "idle")
  /\ req.len > 0 /\ buffered = 0 /\ ~gone
  /\ answer' = "408" /\ failed' = TRUE
  /\ PostFrame /\ UNCHANGED <<buffered, stored, messages>>

\* The client is gone, or there is no body, of which recv gives 0 octets.
RecvFails ==
  /\ httpPc \in {"recv", "loop"} /\ httpPc' = "idle"
  /\ buffered = 0 /\ (gone \/ (httpPc = "recv" /\ req.len = 0))
  /\ Fail
  /\ PostFrame /\ UNCHANGED <<buffered, stored, messages>>

\* Passes the message to the subscribers of the pipe (external).
msg_http_incomingHandlerAsync(len) == messages' = Append(messages, len)

\* Variant: says ok and forgets the message.
HandOver_Forgets ==
  /\ At("handOver", "idle")
  /\ Reply("ok")
  /\ PostFrame /\ UNCHANGED <<buffered, stored, messages>>

\* The message is as long as the body should be, however much of it was read.
HandOver ==
  /\ At("handOver", "idle")
  /\ msg_http_incomingHandlerAsync(req.len)
  /\ Reply("ok")
  /\ PostFrame /\ UNCHANGED <<buffered, stored>>

-----------------------------------------------------------------------------
(* post_handler of the set-up server *)

\* What of the body has not been read.
Remaining == toCome + buffered

\* Variant: copies every piece to the start of the request.
LoopReceives_SamePlace ==
  LET n == IF buffered < PieceSize THEN buffered ELSE PieceSize
  IN /\ At("loop", "loop")
     /\ n > 0
     /\ buffered' = buffered - n
     /\ stored' = [i \in 1..n |-> req.len - Remaining + i] \o SubSeq(stored, n + 1, Len(stored))
     /\ PostFrame /\ UNCHANGED <<response, messages>>

\* While octets remain, receives a piece; after a timeout it tries again.
LoopReceives ==
  /\ At("loop", "loop")
  /\ Remaining > 0
  /\ Take(PieceSize)
  /\ PostFrame /\ UNCHANGED <<response, messages>>

\* Answers before it has parsed what it received.
LoopEnds ==
  /\ At("loop", "parse")
  /\ Remaining = 0
  /\ Reply("empty")
  /\ PostFrame /\ UNCHANGED <<buffered, stored, messages>>

\* The request is not terminated: a body that is empty, or no JSON, is read on in
\* memory that was never filled.
Read == IF req.body = NULL THEN Bodies \cup {NULL} ELSE {req.body}

\* The configuration is kept in memory that is then forgotten.
Configure ==
  /\ At("parse", "idle")
  /\ \E body \in Read :
       LET details == phev_setup_jsonToConnectionDetails(body)
       IN details # NULL /\ config' = details
  /\ UNCHANGED <<req, net, stored, file, response, messages, setupServer>>

\* The parser's NULL is read through, which restarts the chip; and so may PPP
\* details that are not initialised, which are printed as strings.
ConfigureRestarts ==
  /\ At("parse", "idle")
  /\ \E body \in Read :
       LET details == phev_setup_jsonToConnectionDetails(body)
       IN details # NULL => details.ppp = NULL
  /\ config' = NULL /\ setupServer' \in BOOLEAN
  /\ UNCHANGED <<req, net, stored, file, response, messages>>

HandlerNext ==
  \/ Open \/ FirstChunk \/ NextChunk \/ EndChunks
  \/ Answer
  \/ Malloc \/ RecvOnce \/ RecvTimesOut \/ RecvFails \/ HandOver
  \/ LoopReceives \/ LoopEnds \/ Configure \/ ConfigureRestarts

HttpNext ==
  \/ \E r \in Requests : Request(r)
  \/ (\E n \in 1..toCome : Arrive(n)) \/ ClientLeaves
  \/ HandlerNext

\* A handler that can go on does; in particular recv times out.
HttpSpec == HttpInit /\ [][HttpNext]_httpVars /\ WF_httpVars(HandlerNext)
-----------------------------------------------------------------------------
(* Properties *)

\* A request ends in exactly one of three ways: a whole response, chunks with
\* one end after them (unless a chunk could not be sent), or a failure that sent
\* no more than a 408.  (A file that is empty or cannot be read is ended twice.)
AnsweredOnce ==
  httpPc = "idle" =>
    \/ failed /\ chunks = <<>> /\ answer \in {"none", "408"}
    \/ ~failed /\ chunks = <<>> /\ answer \in Wholes
    \/ /\ ~failed /\ answer = "none"
       /\ "send" \in errors \/ (chunks # <<>> /\ Last(chunks).len = 0)
       /\ \A i \in DOMAIN chunks : chunks[i].len = 0 => i = Len(chunks) \/ chunks[1].len = 0

\* The chunks are pieces of the file in order, of which none is sent twice.
InOrder ==
  \A i \in DOMAIN chunks \ {1} : chunks[i - 1].from + chunks[i - 1].len <= chunks[i].from

\* Each chunk begins where the one before it ended.
NoHole ==
  \A i \in DOMAIN chunks :
    chunks[i].from = IF i = 1 THEN 0 ELSE chunks[i - 1].from + chunks[i - 1].len

\* No octet of a file is sent twice or out of order; a file is sent whole unless a
\* read or a send failed; and it is closed in every case.
FileWhole ==
  /\ InOrder
  /\ httpPc = "idle" => fpos = NULL
  /\ httpPc = "idle" /\ req.handler \in FilePages /\ ~failed /\ errors = {} =>
       NoHole /\ Last(chunks) = [from |-> req.size, len |-> 0]

\* An operation is answered "ok" if and only if one message, as long as the body
\* that was posted, has been handed to the service.
OperationHandedOver ==
  httpPc = "idle" /\ req.handler = "operation" =>
    messages = IF answer = "ok" THEN <<req.len>> ELSE <<>>

\* However the body is cut into pieces and delayed, what post_handler parses is
\* the body, whole and in order.
WholeBodyParsed ==
  httpPc = "parse" => stored = [i \in 1..req.len |-> i]

\* A client that falls silent or goes away does not keep the server's task.
\* (post_handler, which receives again after a timeout, is kept.)
RequestsEnd ==
  (httpPc # "idle" /\ req.handler # "post_handler") ~> httpPc = "idle"
=============================================================================
