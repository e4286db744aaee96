------------------------ MODULE HttpHandlersProofs ------------------------
(* Theorems about HttpHandlers, for any files, bodies, chunk and piece size. *)
(* The inductive invariant says which handler each position belongs to, what *)
(* has been answered by then, and that the octets of a body are conserved:   *)
(* stored in order, waiting, or still to come.                               *)
EXTENDS HttpHandlers, SequenceTheorems, TLAPS

Pieces == [from : Nat, len : 0..BufferSize]

\* HttpTypeOK in three parts: numbers and sequences, Booleans, the configuration.
DataType ==
  /\ httpPc \in {"idle", "open", "first", "next", "end", "answer", "malloc", "recv",
                 "handOver", "loop", "parse"}
  /\ req \in Requests
  /\ toCome \in 0..req.len /\ buffered \in 0..req.len
  /\ stored \in Seq(1..req.len) /\ Len(stored) + buffered + toCome <= req.len
  /\ fpos \in Nat \cup {NULL}
  /\ chunks \in Seq(Pieces)
  /\ answer \in {"none", "408"} \cup Wholes
  /\ messages \in Seq(BodyLens)

FlagType == gone \in BOOLEAN /\ errors \subseteq {"read", "send"} /\ failed \in BOOLEAN

Configs == {phev_setup_jsonToConnectionDetails(b) : b \in Bodies}
ConfigType == (config = NULL \/ config \in Configs) /\ setupServer \in BOOLEAN

PcInv ==
  /\ httpPc \in {"open", "first", "next", "end"} => req.handler \in FilePages
  /\ httpPc = "answer" => req.handler \in AnswerOnly
  /\ httpPc \in {"malloc", "recv", "handOver"} => req.handler = "operation"
  /\ httpPc \in {"loop", "parse"} => req.handler = "post_handler"
  /\ httpPc \in {"first", "next", "end"} => fpos \in Nat

Silent == ~failed /\ answer = "none"

AnswerInv ==
  /\ httpPc \in {"open", "first", "answer", "malloc", "recv", "handOver", "loop"} =>
       Silent /\ chunks = <<>>
  /\ httpPc = "next" =>
       /\ Silent /\ ("send" \in errors \/ chunks # <<>>)
       /\ \A i \in DOMAIN chunks : chunks[i].len # 0
  /\ httpPc = "end" =>
       /\ Silent /\ ("send" \in errors \/ chunks # <<>>)
       /\ \A i \in DOMAIN chunks : chunks[i].len = 0 => chunks[1].len = 0
  /\ httpPc = "parse" => ~failed /\ chunks = <<>> /\ answer \in Wholes

\* The file is read in order from its start; up to a fault, all read is sent.
FileInv ==
  /\ InOrder
  /\ httpPc \notin {"first", "next", "end"} => fpos = NULL
  /\ httpPc = "first" => fpos = 0
  /\ httpPc \in {"first", "next", "end"} =>
       /\ req.size \in Nat /\ fpos <= req.size
       /\ \A i \in DOMAIN chunks : chunks[i].from + chunks[i].len <= fpos
  /\ httpPc \in {"next", "end"} /\ errors = {} =>
       /\ NoHole /\ chunks # <<>>
       /\ fpos = Last(chunks).from + Last(chunks).len
  /\ httpPc = "end" /\ errors = {} => fpos = req.size
  /\ httpPc = "idle" /\ req.handler \in FilePages /\ ~failed /\ errors = {} =>
       NoHole /\ Last(chunks) = [from |-> req.size, len |-> 0]

MessageInv == httpPc \in {"malloc", "recv", "handOver"} => messages = <<>>

BodyInv ==
  /\ httpPc \in {"loop", "parse"} =>
       /\ Len(stored) + buffered + toCome = req.len
       /\ \A i \in DOMAIN stored : stored[i] = i
  /\ httpPc = "parse" => toCome = 0 /\ buffered = 0

HttpInv ==
  /\ DataType /\ FlagType /\ ConfigType /\ PcInv
  /\ AnswerInv /\ AnsweredOnce /\ FileInv
  /\ MessageInv /\ OperationHandedOver
  /\ BodyInv

-----------------------------------------------------------------------------
\* What a request is.
LEMMA RequestTypes ==
  ASSUME NEW r \in Requests
  PROVE  /\ r.handler \in FilePages \cup AnswerOnly \cup Posts
         /\ r.len \in Nat
         /\ r.handler \in Posts => r.len \in BodyLens
         /\ r.handler \in FilePages => r.size \in FileSizes \cup {NULL}
<1> DEFINE Pages == [handler : FilePages, size : FileSizes \cup {NULL}, len : {0}, body : {NULL}]
           Gets  == [handler : AnswerOnly, size : {NULL}, len : {0}, body : {NULL}]
           Sends == [handler : Posts, size : {NULL}, len : BodyLens \ {0}, body : Bodies]
           Empty == [handler : Posts, size : {NULL}, len : BodyLens \cap {0}, body : {NULL}]
<1>1. /\ Posts \cap FilePages = {} /\ Posts \cap AnswerOnly = {}
      /\ FilePages \cap AnswerOnly = {}
  BY DEF FilePages, AnswerOnly, Posts
<1>2. CASE r \in Pages
  BY <1>1, <1>2
<1>3. CASE r \in Gets
  BY <1>1, <1>3
<1>4. CASE r \in Sends \cup Empty
  BY <1>4, HttpAssumption
<1> QED
  BY <1>2, <1>3, <1>4 DEF Requests

\* Each handler begins at a position of its own.
LEMMA FirstSteps ==
  ASSUME NEW r \in Requests
  PROVE  \/ FirstStep(r.handler) = "open" /\ r.handler \in FilePages
         \/ FirstStep(r.handler) = "answer" /\ r.handler \in AnswerOnly
         \/ FirstStep(r.handler) = "malloc" /\ r.handler = "operation"
         \/ FirstStep(r.handler) = "loop" /\ r.handler = "post_handler"
BY RequestTypes DEF FirstStep, FilePages, AnswerOnly, Posts

LEMMA HttpInitInv == HttpInit => HttpInv
<1> SUFFICES ASSUME HttpInit PROVE HttpInv
  OBVIOUS
<1>1. req \in Requests /\ httpPc = FirstStep(req.handler)
  BY DEF HttpInit
<1>2. req.len \in Nat
  BY <1>1, RequestTypes
<1>3. /\ stored = <<>> /\ chunks = <<>> /\ messages = <<>>
      /\ toCome = req.len /\ buffered = 0
      /\ gone = FALSE /\ errors = {} /\ failed = FALSE /\ answer = "none"
      /\ fpos = NULL /\ config = NULL /\ setupServer \in BOOLEAN
  BY DEF HttpInit, phev_setup_startWebserver
<1>4. stored \in Seq(1..req.len) /\ chunks \in Seq(Pieces) /\ messages \in Seq(BodyLens)
  BY <1>3
<1>5. Len(stored) = 0
  BY <1>3
<1>6. DataType
  BY <1>1, <1>2, <1>3, <1>4, <1>5, FirstSteps DEF DataType
<1>12. FlagType /\ ConfigType
  BY <1>3 DEF FlagType, ConfigType
<1>7. PcInv
  BY <1>1, FirstSteps DEF PcInv
<1>8. AnswerInv /\ FileInv
  BY <1>1, <1>3, FirstSteps DEF AnswerInv, Silent, FileInv, InOrder
<1>9. httpPc # "idle"
  BY <1>1, FirstSteps
<1>10. AnsweredOnce /\ OperationHandedOver /\ MessageInv
  BY <1>3, <1>9 DEF AnsweredOnce, OperationHandedOver, MessageInv
<1>11. BodyInv
  BY <1>1, <1>2, <1>3, <1>5, FirstSteps DEF BodyInv
<1> QED
  BY <1>6, <1>7, <1>8, <1>10, <1>11, <1>12 DEF HttpInv

\* A request that arrives finds the server's task idle and starts over.
LEMMA RequestStep ==
  ASSUME HttpInv, NEW r \in Requests, Request(r)
  PROVE  HttpInv'
<1>1. req' = r /\ httpPc' = FirstStep(r.handler)
  BY DEF Request
<1>2. r.len \in Nat
  BY RequestTypes
<1>3. /\ stored' = <<>> /\ chunks' = <<>> /\ messages' = <<>>
      /\ toCome' = r.len /\ buffered' = 0
      /\ gone' = FALSE /\ errors' = {} /\ failed' = FALSE /\ answer' = "none"
      /\ fpos' = NULL /\ config' = config /\ setupServer' = setupServer
  BY DEF Request, setup
<1>4. stored' \in Seq(1..r.len) /\ chunks' \in Seq(Pieces) /\ messages' \in Seq(BodyLens)
  BY <1>3
<1>5. Len(stored') = 0
  BY <1>3
<1>6. DataType'
  BY <1>1, <1>2, <1>3, <1>4, <1>5, FirstSteps DEF DataType
<1>12. FlagType' /\ ConfigType'
  BY <1>3 DEF FlagType, ConfigType, HttpInv, Configs
<1>7. PcInv'
  BY <1>1, FirstSteps DEF PcInv
<1>8. AnswerInv' /\ FileInv'
  BY <1>1, <1>3, FirstSteps DEF AnswerInv, Silent, FileInv, InOrder
<1>9. httpPc' # "idle"
  BY <1>1, FirstSteps
<1>10. AnsweredOnce' /\ OperationHandedOver' /\ MessageInv'
  BY <1>3, <1>9 DEF AnsweredOnce, OperationHandedOver, MessageInv
<1>11. BodyInv'
  BY <1>1, <1>2, <1>3, <1>5, FirstSteps DEF BodyInv
<1> QED
  BY <1>6, <1>7, <1>8, <1>10, <1>11, <1>12 DEF HttpInv

\* What arrives, or a client that leaves, disturbs no handler.
LEMMA ClientStep ==
  ASSUME HttpInv, (\E n \in 1..toCome : Arrive(n)) \/ ClientLeaves
  PROVE  HttpInv'
<1>1. req.len \in Nat /\ Len(stored) \in Nat
  BY RequestTypes DEF HttpInv, DataType
<1>2. toCome \in 0..req.len /\ buffered \in 0..req.len /\ gone \in BOOLEAN
  BY DEF HttpInv, DataType, FlagType
<1>3. UNCHANGED <<httpPc, req, stored, fpos, errors, chunks, answer, failed, messages, config,
                setupServer>>
  BY DEF Arrive, ClientLeaves, file, response, setup
<1>4. /\ toCome' + buffered' = toCome + buffered
      /\ toCome' \in 0..req.len /\ buffered' \in Nat
      /\ toCome = 0 => toCome' = 0 /\ buffered' = buffered
  BY <1>1, <1>2 DEF Arrive, ClientLeaves
<1>5. gone' \in BOOLEAN
  BY <1>2 DEF Arrive, ClientLeaves
<1>6. DataType'
  <2>1. Len(stored) + buffered + toCome <= req.len
    BY DEF HttpInv, DataType
  <2>2. buffered' \in 0..req.len /\ Len(stored) + buffered' + toCome' <= req.len
    <3>1. toCome \in Nat /\ buffered \in Nat /\ toCome' \in Nat /\ buffered' \in Nat
      BY <1>1, <1>2, <1>4
    <3>2. buffered' <= req.len /\ Len(stored) + buffered' + toCome' <= req.len
      <4>1. \A s, a, b, c, d, m \in Nat :
              s + b + a <= m /\ c + d = a + b => d <= m /\ s + d + c <= m
        OBVIOUS
      <4> QED BY <1>1, <1>4, <2>1, <3>1, <4>1
    <3> QED BY <1>1, <3>1, <3>2
  <2> QED
    BY <1>3, <1>4, <2>2 DEF HttpInv, DataType
<1>9. FlagType' /\ ConfigType'
  BY <1>3, <1>5 DEF HttpInv, FlagType, ConfigType, Configs
<1>7. BodyInv'
  BY <1>1, <1>2, <1>3, <1>4 DEF HttpInv, BodyInv
<1>8. (PcInv /\ AnswerInv /\ AnsweredOnce /\ FileInv /\ MessageInv /\ OperationHandedOver)'
  BY <1>3 DEF HttpInv, PcInv, AnswerInv, Silent, AnsweredOnce, FileInv, InOrder, NoHole,
     MessageInv, OperationHandedOver
<1> QED
  BY <1>6, <1>7, <1>8, <1>9 DEF HttpInv

\* A piece sent comes after those sent before it, and right after the last of
\* them if the file was read there.
LEMMA PieceSent ==
  ASSUME chunks \in Seq(Pieces), BufferSize \in Nat, fpos \in Nat, NEW n \in 0..BufferSize,
         chunks' = Append(chunks, [from |-> fpos, len |-> n]),
         InOrder, \A i \in DOMAIN chunks : chunks[i].from + chunks[i].len <= fpos
  PROVE  /\ chunks' \in Seq(Pieces) /\ chunks' # <<>>
         /\ Last(chunks') = [from |-> fpos, len |-> n]
         /\ Len(chunks') = Len(chunks) + 1 /\ DOMAIN chunks' = DOMAIN chunks \cup {Len(chunks')}
         /\ chunks'[Len(chunks')].len = n
         /\ \A i \in DOMAIN chunks : chunks'[i] = chunks[i]
         /\ InOrder'
         /\ \A i \in DOMAIN chunks' : chunks'[i].from + chunks'[i].len <= fpos + n
         /\ NoHole /\ fpos = (IF chunks = <<>> THEN 0 ELSE Last(chunks).from + Last(chunks).len)
              => NoHole'
<1> DEFINE k == Len(chunks)
           piece == [from |-> fpos, len |-> n]
<1>1. piece \in Pieces /\ n \in Nat
  BY DEF Pieces
<1>2. k \in Nat /\ DOMAIN chunks = 1..k /\ \A i \in 1..k : chunks[i] \in Pieces
  BY LenProperties, ElementOfSeq
<1>3. /\ chunks' \in Seq(Pieces) /\ Len(chunks') = k + 1
      /\ chunks'[k + 1] = piece /\ \A i \in 1..k : chunks'[i] = chunks[i]
  BY <1>1, <1>2, AppendProperties
<1>4. DOMAIN chunks' = 1..(k + 1) /\ chunks' # <<>>
  BY <1>2, <1>3, LenProperties
<1>5. Last(chunks') = piece
  BY <1>3 DEF Last
<1>6. /\ \A i \in 1..k : chunks[i].from \in Nat /\ chunks[i].len \in Nat
      /\ piece.from = fpos /\ piece.len = n
  BY <1>2 DEF Pieces
<1> HIDE DEF k, piece
<1>7. \A i \in 1..(k + 1) : i \in 1..k \/ i = k + 1
  BY <1>2
<1>8. InOrder'
  <2> SUFFICES ASSUME NEW i \in 1..(k + 1), i # 1
               PROVE  chunks'[i - 1].from + chunks'[i - 1].len <= chunks'[i].from
    BY <1>4 DEF InOrder
  <2>1. i - 1 \in 1..k /\ chunks'[i - 1] = chunks[i - 1]
    BY <1>2, <1>3
  <2>2. CASE i \in 1..k
    BY <2>1, <2>2, <1>2, <1>3 DEF InOrder
  <2>3. CASE i = k + 1
    BY <2>1, <2>3, <1>2, <1>3, <1>6
  <2> QED BY <1>7, <2>2, <2>3
<1>9. \A i \in 1..(k + 1) : chunks'[i].from + chunks'[i].len <= fpos + n
  <2> SUFFICES ASSUME NEW i \in 1..(k + 1) PROVE chunks'[i].from + chunks'[i].len <= fpos + n
    OBVIOUS
  <2>1. CASE i \in 1..k
    <3>1. chunks[i].from + chunks[i].len <= fpos
      BY <2>1, <1>2
    <3> QED BY <3>1, <2>1, <1>1, <1>3, <1>6
  <2>2. CASE i = k + 1
    BY <2>2, <1>1, <1>3, <1>6
  <2> QED BY <1>7, <2>1, <2>2
<1>10. ASSUME NoHole, fpos = IF chunks = <<>> THEN 0 ELSE Last(chunks).from + Last(chunks).len
       PROVE  NoHole'
  <2> SUFFICES ASSUME NEW i \in 1..(k + 1)
               PROVE  chunks'[i].from = IF i = 1 THEN 0 ELSE chunks'[i - 1].from + chunks'[i - 1].len
    BY <1>4 DEF NoHole
  <2>1. i = 1 \/ (i - 1 \in 1..k /\ chunks'[i - 1] = chunks[i - 1])
    BY <1>2, <1>3
  <2>2. CASE i \in 1..k
    BY <2>1, <2>2, <1>2, <1>3, <1>10 DEF NoHole
  <2>3. CASE i = k + 1
    <3>1. chunks'[i].from = fpos
      BY <2>3, <1>3, <1>6
    <3>2. CASE chunks = <<>>
      BY <2>3, <3>1, <3>2, <1>10 DEF k
    <3>3. CASE chunks # <<>>
      <4>1. k # 0
        BY <3>3, EmptySeq DEF k
      <4>2. i # 1 /\ i - 1 = k /\ Last(chunks) = chunks[k]
        BY <2>3, <4>1, <1>2 DEF Last, k
      <4> QED BY <2>1, <3>1, <3>3, <4>2, <1>10
    <3> QED BY <3>2, <3>3
  <2> QED BY <1>7, <2>2, <2>3
<1>11. DOMAIN chunks' = DOMAIN chunks \cup {Len(chunks')} /\ chunks'[Len(chunks')].len = n
  BY <1>2, <1>3, <1>4, <1>6
<1> QED
  BY <1>2, <1>3, <1>4, <1>5, <1>8, <1>9, <1>10, <1>11 DEF k, piece

\* What a step of a handler of files does to the file and the chunks.
LEMMA FileStep ==
  ASSUME HttpInv, Open \/ FirstChunk \/ NextChunk \/ EndChunks
  PROVE  HttpInv'
<1>1. /\ UNCHANGED <<req, toCome, buffered, gone, stored, messages, config, setupServer>>
      /\ req.handler \in FilePages
      /\ httpPc' \in {"first", "next", "end", "idle"}
  BY DEF Open, FirstChunk, NextChunk, EndChunks, FileFrame, net, setup, At, HttpInv, PcInv
<1>2. /\ BufferSize \in Nat /\ chunks \in Seq(Pieces)
      /\ httpPc \in {"open", "first", "next", "end"}
      /\ httpPc # "open" =>
           /\ fpos \in Nat /\ req.size \in Nat /\ fpos <= req.size
           /\ \A i \in DOMAIN chunks : chunks[i].from + chunks[i].len <= fpos
      /\ InOrder
  BY HttpAssumption DEF HttpInv, DataType, PcInv, FileInv, Open, FirstChunk, NextChunk, EndChunks, At
<1>3. Silent /\ (httpPc \in {"open", "first"} => chunks = <<>>)
  BY <1>2 DEF HttpInv, AnswerInv
<1> DEFINE Goal == /\ chunks' \in Seq(Pieces)
                   /\ fpos' \in Nat \cup {NULL}
                   /\ httpPc' \in {"first", "next", "end"} => fpos' \in Nat
                   /\ answer' = answer /\ failed' \in BOOLEAN
                   /\ errors' \subseteq {"read", "send"}
                   /\ AnswerInv' /\ AnsweredOnce' /\ FileInv'
<1>4. ASSUME Open PROVE Goal
  <2>1. chunks' = <<>> /\ answer' = answer /\ errors' = errors /\ InOrder' /\ DOMAIN chunks = {}
    BY <1>4, <1>3, <1>2 DEF Open, At, Fail, file, FileFrame, response, InOrder
  <2>2. errors \subseteq {"read", "send"} /\ failed \in BOOLEAN /\ fpos \in Nat \cup {NULL}
    BY DEF HttpInv, FlagType, DataType
  <2>3. CASE httpPc' = "first"
    <3>1. fpos' = 0 /\ failed' = failed /\ req.size # NULL /\ req' = req
      BY <1>4, <2>3 DEF Open, At, FileFrame, response
    <3>2. req.size \in Nat
      BY <1>1, <3>1, HttpAssumption, RequestTypes DEF HttpInv, DataType
    <3>3. FileInv'
      BY <2>1, <2>3, <3>1, <3>2, <1>3 DEF FileInv
    <3>4. AnswerInv' /\ AnsweredOnce'
      BY <2>1, <2>3, <3>1, <1>3 DEF AnswerInv, AnsweredOnce, Silent
    <3> QED BY <2>1, <2>2, <2>3, <3>1, <3>3, <3>4, <1>2, <1>3
  <2>4. CASE httpPc' = "idle"
    <3>1. failed' = TRUE /\ fpos' = fpos
      BY <1>4, <2>4 DEF Open, At, Fail, file
    <3>2. fpos = NULL
      BY <1>4, <2>4 DEF Open, At, HttpInv, FileInv
    <3>3. FileInv' /\ AnswerInv' /\ AnsweredOnce'
      BY <2>1, <2>4, <3>1, <3>2, <1>3 DEF FileInv, AnswerInv, AnsweredOnce, Silent
    <3> QED BY <2>1, <2>2, <2>4, <3>1, <3>3, <1>2, <1>3
  <2> QED BY <1>4, <2>3, <2>4 DEF Open, At
<1>5. ASSUME NEW n \in 0..BufferSize, NEW faults \in Faults,
             httpPc \in {"first", "next"}, Fread(n, faults), errors' = errors \cup faults
      PROVE  /\ fpos' = fpos + n /\ fpos' \in Nat /\ fpos' <= req.size
             /\ errors' \subseteq {"read", "send"}
             /\ errors' = {} => faults = {} /\ errors = {}
             /\ errors' = {} /\ n = 0 => fpos' = req.size
             /\ \A i \in DOMAIN chunks : chunks[i].from + chunks[i].len <= fpos'
  <2>1. fpos \in Nat /\ req.size \in Nat /\ fpos <= req.size
    BY <1>2, <1>5
  <2>2. errors' \subseteq {"read", "send"} /\ (errors' = {} => faults = {} /\ errors = {})
    BY <1>5 DEF HttpInv, FlagType, Faults
  <2>3. /\ fpos' = fpos + n
        /\ n <= IF req.size - fpos < BufferSize THEN req.size - fpos ELSE BufferSize
        /\ faults = {} => n = IF req.size - fpos < BufferSize THEN req.size - fpos ELSE BufferSize
    BY <1>5, <1>2, <2>1 DEF Fread
  <2>4. n \in Nat /\ BufferSize > 0
    BY HttpAssumption
  <2>5. fpos' \in Nat /\ fpos' <= req.size /\ (n = 0 /\ faults = {} => fpos' = req.size)
    BY <1>2, <2>1, <2>3, <2>4
  <2>6. ASSUME NEW i \in DOMAIN chunks PROVE chunks[i].from + chunks[i].len <= fpos'
    <3>1. chunks[i].from \in Nat /\ chunks[i].len \in Nat
      <4>1. chunks[i] \in Pieces
        BY <1>2, ElementOfSeq, LenProperties
      <4> QED BY <4>1, <1>2 DEF Pieces
    <3>2. chunks[i].from + chunks[i].len <= fpos
      BY <1>2, <1>5
    <3> QED BY <2>1, <2>3, <2>4, <3>1, <3>2
  <2> QED BY <2>2, <2>3, <2>5, <2>6
<1>6. ASSUME FirstChunk PROVE Goal
  <2>1. PICK n \in 0..BufferSize, faults \in Faults :
          /\ httpPc = "first" /\ httpPc' = IF n > 0 THEN "next" ELSE "end"
          /\ Fread(n, faults) /\ SendChunk(n, faults)
          /\ errors' = errors \cup faults
          /\ UNCHANGED response
    BY <1>6 DEF FirstChunk, At, FileFrame
  <2>2. fpos = 0 /\ chunks = <<>> /\ n \in Nat
    BY <2>1, <1>3 DEF HttpInv, FileInv
  <2>3. NoHole /\ DOMAIN chunks = {}
    BY <2>2 DEF NoHole
  <2>4. (httpPc' = "next" /\ n # 0) \/ (httpPc' = "end" /\ n = 0)
    BY <2>1, <2>2
  <2>5. Silent' /\ answer' = answer /\ failed' \in BOOLEAN
    <3>1. answer' = answer /\ failed' = failed
      BY <2>1 DEF response
    <3>2. Silent'
      BY <3>1, <1>3 DEF Silent
    <3> QED BY <3>1, <3>2 DEF HttpInv, FlagType
  <2>6. CASE "send" \in faults
    <3>1. chunks' = <<>> /\ "send" \in errors' /\ DOMAIN chunks' = {}
      BY <2>1, <2>2, <2>6 DEF SendChunk
    <3>2. FileInv'
      BY <3>1, <2>1, <2>4, <1>1, <1>2, <1>5 DEF FileInv, InOrder
    <3>3. AnswerInv' /\ AnsweredOnce'
      BY <3>1, <2>4, <2>5 DEF AnswerInv, AnsweredOnce
    <3> QED BY <3>1, <3>2, <3>3, <2>1, <2>2, <2>5, <1>2, <1>5
  <2>7. CASE "send" \notin faults
    <3>1. chunks' = Append(chunks, [from |-> fpos, len |-> n])
      BY <2>1, <2>7 DEF SendChunk
    <3>2. /\ chunks' \in Seq(Pieces) /\ chunks' # <<>>
          /\ Last(chunks') = [from |-> fpos, len |-> n]
          /\ DOMAIN chunks' = {Len(chunks')} /\ chunks'[Len(chunks')].len = n
          /\ Len(chunks') = 1
          /\ InOrder' /\ NoHole'
          /\ \A i \in DOMAIN chunks' : chunks'[i].from + chunks'[i].len <= fpos + n
      BY <3>1, <2>1, <2>2, <2>3, <1>2, PieceSent
    <3>3. FileInv'
      BY <3>2, <2>1, <2>2, <2>4, <1>1, <1>2, <1>5 DEF FileInv
    <3>4. AnswerInv' /\ AnsweredOnce'
      BY <3>2, <2>4, <2>5 DEF AnswerInv, AnsweredOnce
    <3> QED BY <3>2, <3>3, <3>4, <2>1, <2>2, <2>5, <1>2, <1>5
  <2> QED BY <2>6, <2>7
<1>7. ASSUME NextChunk PROVE Goal
  <2>1. PICK n \in 0..BufferSize, faults \in Faults :
          /\ httpPc = "next" /\ httpPc' = IF n > 0 THEN "next" ELSE "end"
          /\ Fread(n, faults)
          /\ IF n > 0 THEN SendChunk(n, faults) ELSE "send" \notin faults /\ UNCHANGED chunks
          /\ errors' = errors \cup faults
          /\ UNCHANGED response
    BY <1>7 DEF NextChunk, At, FileFrame
  <2>2. /\ "send" \in errors \/ chunks # <<>>
        /\ \A i \in DOMAIN chunks : chunks[i].len # 0
        /\ errors = {} => NoHole /\ chunks # <<>> /\ fpos = Last(chunks).from + Last(chunks).len
        /\ n \in Nat
    BY <2>1 DEF HttpInv, AnswerInv, FileInv
  <2>4. (httpPc' = "next" /\ n # 0) \/ (httpPc' = "end" /\ n = 0)
    BY <2>1, <2>2
  <2>5. Silent' /\ answer' = answer /\ failed' \in BOOLEAN
    <3>1. answer' = answer /\ failed' = failed
      BY <2>1 DEF response
    <3>2. Silent'
      BY <3>1, <1>3 DEF Silent
    <3> QED BY <3>1, <3>2 DEF HttpInv, FlagType
  <2>6. CASE n = 0 \/ "send" \in faults
    <3>1. chunks' = chunks /\ ("send" \in errors' \/ chunks' # <<>>)
      BY <2>1, <2>2, <2>6 DEF SendChunk
    <3>2. ASSUME n = 0 PROVE FileInv'
      <4>1. fpos' = fpos
        BY <1>2, <1>5, <2>1, <3>2
      <4>2. FileInv'
        BY <4>1, <3>1, <3>2, <2>1, <2>2, <2>4, <1>1, <1>2, <1>5 DEF FileInv, InOrder, NoHole
      <4> QED BY <4>2
    <3>3. ASSUME n # 0 PROVE FileInv'
      <4>1. errors' # {} /\ httpPc' = "next"
        BY <2>1, <2>4, <2>6, <3>3
      <4> QED
        BY <4>1, <3>1, <2>1, <1>1, <1>2, <1>5 DEF FileInv, InOrder
    <3>4. AnswerInv' /\ AnsweredOnce'
      BY <3>1, <2>2, <2>4, <2>5 DEF AnswerInv, AnsweredOnce
    <3> QED BY <3>1, <3>2, <3>3, <3>4, <2>1, <2>2, <2>5, <1>2, <1>5
  <2>7. CASE n # 0 /\ "send" \notin faults
    <3>1. chunks' = Append(chunks, [from |-> fpos, len |-> n])
      BY <2>1, <2>2, <2>7 DEF SendChunk
    <3>2. /\ chunks' \in Seq(Pieces) /\ chunks' # <<>>
          /\ Last(chunks') = [from |-> fpos, len |-> n]
          /\ DOMAIN chunks' = DOMAIN chunks \cup {Len(chunks')} /\ chunks'[Len(chunks')].len = n
          /\ \A i \in DOMAIN chunks : chunks'[i] = chunks[i]
          /\ InOrder' /\ (errors = {} => NoHole')
          /\ \A i \in DOMAIN chunks' : chunks'[i].from + chunks'[i].len <= fpos + n
      BY <3>1, <2>1, <2>2, <1>2, PieceSent
    <3>3. FileInv'
      <4>1. httpPc' = "next"
        BY <2>4, <2>7
      <4>2. /\ fpos' = fpos + n /\ fpos' <= req.size
            /\ errors' = {} => errors = {}
        BY <2>1, <1>5
      <4>3. \A i \in DOMAIN chunks' : chunks'[i].from + chunks'[i].len <= fpos'
        BY <3>2, <4>2
      <4>4. fpos' = Last(chunks').from + Last(chunks').len
        <5>1. Last(chunks') = [from |-> fpos, len |-> n]
          BY <3>2
        <5> QED BY <4>2, <5>1
      <4>5. req'.size \in Nat /\ fpos' <= req'.size
        BY <4>2, <1>1, <1>2, <2>1
      <4> QED BY <3>2, <4>1, <4>2, <4>3, <4>4, <4>5 DEF FileInv
    <3>4. AnswerInv' /\ AnsweredOnce'
      BY <3>2, <2>2, <2>4, <2>5, <2>7 DEF AnswerInv, AnsweredOnce
    <3> QED BY <3>2, <3>3, <3>4, <2>1, <2>2, <2>5, <1>2, <1>5
  <2> QED BY <2>6, <2>7
<1>8. ASSUME EndChunks PROVE Goal
  <2>1. PICK faults \in SUBSET {"send"} :
          /\ httpPc = "end" /\ httpPc' = "idle" /\ fpos' = NULL
          /\ SendChunk(0, faults)
          /\ errors' = errors \cup faults
          /\ UNCHANGED response
    BY <1>8 DEF EndChunks, At, FileFrame
  <2>2. /\ \A i \in DOMAIN chunks : chunks[i].len = 0 => chunks[1].len = 0
        /\ errors = {} => NoHole /\ chunks # <<>> /\ fpos = Last(chunks).from + Last(chunks).len
        /\ errors = {} => fpos = req.size
    BY <2>1 DEF HttpInv, AnswerInv, FileInv
  <2>3. ~failed' /\ answer' = "none" /\ answer' = answer /\ failed' \in BOOLEAN
    <3>1. answer' = answer /\ failed' = failed
      BY <2>1 DEF response
    <3> QED BY <3>1, <1>3 DEF Silent, HttpInv, FlagType
  <2>4. errors' \subseteq {"read", "send"} /\ (errors' = {} => errors = {})
    BY <2>1 DEF HttpInv, FlagType
  <2>5. AnswerInv'
    BY <2>1 DEF AnswerInv
  <2>6. CASE "send" \in faults
    <3>1. chunks' = chunks /\ "send" \in errors'
      BY <2>1, <2>6 DEF SendChunk
    <3>2. FileInv'
      BY <3>1, <2>1, <1>2 DEF FileInv, InOrder
    <3>3. AnsweredOnce'
      BY <3>1, <2>1, <2>2, <2>3 DEF AnsweredOnce
    <3> QED BY <3>1, <3>2, <3>3, <2>1, <2>3, <2>4, <2>5, <1>2
  <2>7. CASE "send" \notin faults
    <3>1. chunks' = Append(chunks, [from |-> fpos, len |-> 0]) /\ 0 \in 0..BufferSize
      BY <2>1, <2>7, <1>2 DEF SendChunk
    <3>2. /\ chunks' \in Seq(Pieces) /\ chunks' # <<>>
          /\ Last(chunks') = [from |-> fpos, len |-> 0]
          /\ DOMAIN chunks' = DOMAIN chunks \cup {Len(chunks')} /\ chunks'[Len(chunks')].len = 0
          /\ Len(chunks') = Len(chunks) + 1
          /\ \A i \in DOMAIN chunks : chunks'[i] = chunks[i]
          /\ InOrder' /\ (errors = {} => NoHole')
      BY <3>1, <2>1, <2>2, <1>2, PieceSent
    <3>3. FileInv'
      BY <3>2, <2>1, <2>2, <2>4, <1>1 DEF FileInv
    <3>4. DOMAIN chunks = 1..Len(chunks) /\ Len(chunks) \in Nat
      BY <1>2, LenProperties
    <3>5. AnsweredOnce'
      <4>1. ASSUME NEW i \in DOMAIN chunks', chunks'[i].len = 0
            PROVE  i = Len(chunks') \/ chunks'[1].len = 0
        <5>1. CASE i \in DOMAIN chunks
          <6>1. chunks[1].len = 0 /\ 1 \in DOMAIN chunks
            BY <4>1, <5>1, <3>2, <3>4, <2>2
          <6> QED BY <6>1, <3>2
        <5> QED BY <5>1, <4>1, <3>2
      <4> QED BY <4>1, <3>2, <2>1, <2>3 DEF AnsweredOnce
    <3> QED BY <3>2, <3>3, <3>5, <2>1, <2>3, <2>4, <2>5
  <2> QED BY <2>6, <2>7
<1>9. Goal
  BY <1>4, <1>6, <1>7, <1>8
<1> HIDE DEF Goal
<1>10. DataType'
  BY <1>1, <1>9 DEF HttpInv, DataType, Goal
<1>11. FlagType' /\ ConfigType'
  BY <1>1, <1>9 DEF HttpInv, FlagType, ConfigType, Configs, Goal
<1>12. PcInv'
  BY <1>1, <1>9 DEF PcInv, Goal
<1>13. MessageInv' /\ OperationHandedOver' /\ BodyInv'
  BY <1>1 DEF MessageInv, OperationHandedOver, BodyInv, FilePages
<1> QED
  BY <1>9, <1>10, <1>11, <1>12, <1>13 DEF HttpInv, Goal

\* httpd_req_recv conserves the octets of the body and keeps their order.
LEMMA TakeKeepsBody ==
  ASSUME DataType, NEW limit \in Nat, Take(limit)
  PROVE  /\ stored' \in Seq(1..req.len)
         /\ buffered' \in 0..buffered
         /\ Len(stored') + buffered' = Len(stored) + buffered
         /\ (\A i \in DOMAIN stored : stored[i] = i) =>
              \A i \in DOMAIN stored' : stored'[i] = i
<1> DEFINE n == IF buffered < limit THEN buffered ELSE limit
           b == Len(stored)
           piece == [i \in 1..n |-> b + i]
<1>1. req.len \in Nat /\ toCome \in Nat /\ buffered \in Nat /\ stored \in Seq(1..req.len)
  BY RequestTypes DEF DataType
<1>2. b \in Nat /\ DOMAIN stored = 1..b
  BY <1>1, LenProperties
<1>3. n \in Nat /\ n <= buffered
  BY <1>1
<1>4. buffered' = buffered - n /\ stored' = stored \o piece
  BY DEF Take
<1>5. b + buffered <= req.len
  BY <1>1, <1>2 DEF DataType
<1> HIDE DEF n, b
<1>6. piece \in Seq(1..req.len) /\ Len(piece) = n /\ \A i \in 1..n : piece[i] = b + i
  <2>1. \A i \in 1..n : b + i \in 1..req.len
    BY <1>1, <1>2, <1>3, <1>5
  <2>2. piece \in [1..n -> 1..req.len]
    BY <2>1
  <2> QED BY <1>3, <2>2
<1> HIDE DEF piece
<1>7. /\ stored' \in Seq(1..req.len)
      /\ Len(stored') = b + n
      /\ \A i \in 1..(b + n) : stored'[i] = IF i <= b THEN stored[i] ELSE piece[i - b]
  BY <1>1, <1>4, <1>6, ConcatProperties DEF b
<1>8. DOMAIN stored' = 1..(b + n)
  BY <1>7, LenProperties
<1>9. \A i \in 1..(b + n) : i \in 1..b \/ (i - b \in 1..n /\ ~(i <= b) /\ b + (i - b) = i)
  BY <1>2, <1>3
<1>10. ASSUME \A i \in DOMAIN stored : stored[i] = i, NEW i \in DOMAIN stored'
       PROVE  stored'[i] = i
  BY <1>2, <1>6, <1>7, <1>8, <1>9, <1>10
<1>11. buffered' \in 0..buffered /\ Len(stored') + buffered' = Len(stored) + buffered
  BY <1>1, <1>2, <1>3, <1>4, <1>7 DEF b
<1> QED
  BY <1>7, <1>10, <1>11

\* A handler that only answers does no more.
LEMMA AnswerStep ==
  ASSUME Answer
  PROVE  /\ httpPc = "answer" /\ httpPc' = "idle"
         /\ answer' \in Wholes /\ failed' = failed
         /\ UNCHANGED <<req, toCome, buffered, gone, stored, fpos, errors, chunks, messages, setup>>
BY DEF Answer, phev_http_get_config_handler, phev_http_captdns_handler, get_handler,
   phev_http_status_handler, phev_http_get_registers_handler, sendErrorJson, Answers, At, Reply,
   Wholes, net, file

\* The handlers of posts, and those that only answer, open no file.
LEMMA PostStep ==
  ASSUME HttpInv,
         \/ Answer \/ Malloc \/ RecvOnce \/ RecvTimesOut \/ RecvFails \/ HandOver
         \/ LoopReceives \/ LoopEnds \/ Configure \/ ConfigureRestarts
  PROVE  HttpInv'
<1> DEFINE Rest == UNCHANGED <<req, toCome, gone, fpos, errors, chunks>>
<1>1. Rest
  BY AnswerStep DEF Malloc, RecvOnce, RecvTimesOut, RecvFails, HandOver, LoopReceives, LoopEnds,
     Configure, ConfigureRestarts, PostFrame, net, file
<1>2. /\ req \in Requests /\ req.len \in Nat
      /\ req.handler \in Posts => req.len \in BodyLens
      /\ DataType /\ PcInv /\ PieceSize \in Nat
  BY RequestTypes, HttpAssumption DEF HttpInv, DataType
<1>3. \/ UNCHANGED <<buffered, stored>>
      \/ /\ Take(req.len) \/ Take(PieceSize)
         /\ httpPc' \in {"handOver", "loop"}
  BY AnswerStep DEF Malloc, RecvOnce, RecvTimesOut, RecvFails, HandOver, LoopReceives, LoopEnds,
     Configure, ConfigureRestarts, PostFrame, net, At
<1>4. /\ stored' \in Seq(1..req.len)
      /\ buffered' \in 0..buffered
      /\ Len(stored') + buffered' = Len(stored) + buffered
      /\ (\A i \in DOMAIN stored : stored[i] = i) => \A i \in DOMAIN stored' : stored'[i] = i
  <2>1. CASE UNCHANGED <<buffered, stored>>
    BY <2>1, <1>2 DEF DataType
  <2> QED BY <1>2, <1>3, <2>1, TakeKeepsBody
<1>5. httpPc \in {"malloc", "recv", "handOver", "loop", "parse", "answer"}
  BY AnswerStep DEF Malloc, RecvOnce, RecvTimesOut, RecvFails, HandOver, LoopReceives, LoopEnds,
     Configure, ConfigureRestarts, At
<1>6. /\ httpPc' \in {"recv", "handOver", "loop", "parse", "idle"}
      /\ httpPc' \in {"recv", "handOver"} => req.handler = "operation"
      /\ httpPc' \in {"loop", "parse"} => req.handler = "post_handler"
      /\ httpPc' = "idle" \/ answer' \in {"none"} \cup Wholes
  BY <1>2, AnswerStep DEF HttpInv, AnswerInv, Silent, PcInv, Malloc, RecvOnce, RecvTimesOut, RecvFails, HandOver,
     LoopReceives, LoopEnds, Configure, ConfigureRestarts, At, Reply, response, Wholes
<1>7. failed' \in BOOLEAN /\ answer' \in {"none", "408"} \cup Wholes
  <2>1. /\ failed' = failed \/ failed' = TRUE
        /\ answer' = answer \/ answer' \in Wholes \/ answer' = "408"
    BY AnswerStep DEF Malloc, RecvOnce, RecvTimesOut, RecvFails, HandOver, LoopReceives, LoopEnds,
       Configure, ConfigureRestarts, Fail, Reply, response, Wholes
  <2>2. failed \in BOOLEAN /\ answer \in {"none", "408"} \cup Wholes
    BY DEF HttpInv, DataType, FlagType
  <2> QED BY <2>1, <2>2
<1>8. /\ messages' \in Seq(BodyLens)
      /\ messages' = messages \/ httpPc' = "idle"
  <2>1. CASE HandOver
    <3>1. req.len \in BodyLens
      BY <2>1, <1>2 DEF HandOver, At, PcInv, Posts
    <3> QED BY <2>1, <3>1, <1>2 DEF HandOver, At, DataType, msg_http_incomingHandlerAsync
  <2> QED
    BY <2>1, <1>2, AnswerStep DEF DataType, Malloc, RecvOnce, RecvTimesOut, RecvFails, LoopReceives,
       LoopEnds, Configure, ConfigureRestarts
<1>9. ConfigType'
  <2>1. CASE Configure
    <3>1. PICK body \in Read : /\ phev_setup_jsonToConnectionDetails(body) # NULL
                               /\ config' = phev_setup_jsonToConnectionDetails(body)
      BY <2>1 DEF Configure
    <3>2. phev_setup_jsonToConnectionDetails(NULL) = NULL
      BY DEF phev_setup_jsonToConnectionDetails
    <3>3. req.body \in Bodies \/ req.body = NULL
      BY <1>2 DEF Requests
    <3>4. body \in Bodies
      BY <3>1, <3>2, <3>3, Zenon DEF Read
    <3> QED BY <2>1, <3>1, <3>4 DEF Configure, ConfigType, Configs, HttpInv
  <2>2. CASE ConfigureRestarts
    BY <2>2 DEF ConfigureRestarts, ConfigType
  <2>3. UNCHANGED setup \/ Configure \/ ConfigureRestarts
    BY AnswerStep DEF Malloc, RecvOnce, RecvTimesOut, RecvFails, HandOver, LoopReceives, LoopEnds,
       PostFrame
  <2> QED BY <2>1, <2>2, <2>3 DEF HttpInv, ConfigType, Configs, setup
<1>10. DataType'
  <2>1. Len(stored) \in Nat /\ Len(stored') \in Nat
    BY <1>2, <1>4, LenProperties DEF DataType
  <2>2. Len(stored') + buffered' + toCome <= req.len /\ buffered' \in 0..req.len
    BY <2>1, <1>2, <1>4 DEF DataType
  <2>3. /\ toCome \in 0..req.len /\ fpos \in Nat \cup {NULL} /\ chunks \in Seq(Pieces)
    BY <1>2 DEF DataType
  <2> HIDE DEF Rest
  <2>4. /\ req' = req /\ toCome' = toCome /\ fpos' = fpos /\ chunks' = chunks
    BY <1>1 DEF Rest
  <2> QED BY <1>2, <1>4, <1>6, <1>7, <1>8, <2>2, <2>3, <2>4 DEF DataType
<1>11. FlagType'
  BY <1>1, <1>7 DEF HttpInv, FlagType
<1>12. PcInv'
  BY <1>1, <1>6 DEF PcInv
<1>13. AnswerInv' /\ AnsweredOnce'
  BY <1>1, <1>5, AnswerStep DEF HttpInv, AnswerInv, Silent, AnsweredOnce, Malloc, RecvOnce, RecvTimesOut,
     RecvFails, HandOver, LoopReceives, LoopEnds, Configure, ConfigureRestarts, At, Reply, Fail,
     PostFrame, file, response, Wholes
<1>14. MessageInv'
  BY <1>6, <1>8, AnswerStep DEF HttpInv, MessageInv, Malloc, RecvOnce, RecvTimesOut,
     RecvFails, HandOver, LoopReceives, LoopEnds, Configure, ConfigureRestarts, At
<1>15. OperationHandedOver'
  <2>1. CASE HandOver
    <3>1. messages = <<>> /\ answer' = "ok" /\ messages' = Append(messages, req.len)
      BY <2>1 DEF HandOver, At, Reply, HttpInv, MessageInv, msg_http_incomingHandlerAsync
    <3> QED BY <3>1, <1>1 DEF OperationHandedOver
  <2>2. CASE Malloc \/ RecvTimesOut \/ RecvFails
    BY <2>2, <1>1, <1>2 DEF OperationHandedOver, HttpInv, MessageInv, AnswerInv, Silent, Malloc, RecvTimesOut,
       RecvFails, At, Fail, PcInv
  <2>3. CASE RecvOnce \/ LoopReceives \/ LoopEnds
    BY <2>3 DEF OperationHandedOver, RecvOnce, LoopReceives, LoopEnds, At
  <2>4. CASE Configure \/ ConfigureRestarts
    BY <2>4, <1>1, <1>2 DEF OperationHandedOver, PcInv, Configure, ConfigureRestarts, At
  <2>5. CASE Answer
    BY <2>5, <1>1, <1>2, AnswerStep DEF OperationHandedOver, HttpInv, PcInv, AnswerOnly
  <2> QED BY <2>1, <2>2, <2>3, <2>4, <2>5
<1>16. BodyInv'
  BY <1>1, <1>2, <1>4, <1>6, AnswerStep DEF HttpInv, BodyInv, Malloc, RecvOnce, RecvTimesOut,
     RecvFails, HandOver, LoopReceives, LoopEnds, Configure, ConfigureRestarts, At, Remaining,
     DataType
<1>17. FileInv'
  <2>1. httpPc' \notin {"first", "next", "end", "open"} /\ fpos' = NULL /\ chunks' = <<>>
    BY <1>1, <1>5, <1>6 DEF HttpInv, FileInv, AnswerInv
  <2>2. req.handler \notin FilePages
    BY <1>2, <1>5 DEF HttpInv, PcInv, FilePages, AnswerOnly
  <2> QED BY <1>1, <2>1, <2>2 DEF FileInv, InOrder
<1> QED
  BY <1>9, <1>10, <1>11, <1>12, <1>13, <1>14, <1>15, <1>16, <1>17 DEF HttpInv

-----------------------------------------------------------------------------
LEMMA HttpInvariant == HttpSpec => []HttpInv
<1>1. HttpInv /\ [HttpNext]_httpVars => HttpInv'
  <2> SUFFICES ASSUME HttpInv, [HttpNext]_httpVars PROVE HttpInv'
    OBVIOUS
  <2>1. CASE HttpNext
    BY <2>1, RequestStep, ClientStep, FileStep, PostStep DEF HttpNext, HandlerNext
  <2>2. CASE UNCHANGED httpVars
    <3>1. (DataType /\ FlagType /\ ConfigType /\ PcInv)'
      BY <2>2 DEF httpVars, HttpInv, DataType, FlagType, ConfigType, Configs, PcInv
    <3>2. (AnswerInv /\ AnsweredOnce /\ FileInv)'
      BY <2>2 DEF httpVars, HttpInv, AnswerInv, Silent, AnsweredOnce, FileInv, InOrder, NoHole
    <3>3. (MessageInv /\ OperationHandedOver /\ BodyInv)'
      BY <2>2 DEF httpVars, HttpInv, MessageInv, OperationHandedOver, BodyInv
    <3> QED BY <3>1, <3>2, <3>3 DEF HttpInv
  <2> QED BY <2>1, <2>2
<1> QED BY <1>1, HttpInitInv, PTL DEF HttpSpec

\* The types hold: no more of a body is stored than was posted, and a chunk is
\* never longer than the buffer.
THEOREM HttpTypeCorrect == HttpSpec => []HttpTypeOK
<1>1. HttpInv => HttpTypeOK
  BY DEF HttpInv, DataType, Pieces, FlagType, ConfigType, Configs, HttpTypeOK
<1> QED BY <1>1, HttpInvariant, PTL

\* Every request is answered in one of the three ways, and once.
THEOREM RequestsAnsweredOnce == HttpSpec => []AnsweredOnce
<1>1. HttpInv => AnsweredOnce
  BY DEF HttpInv
<1> QED BY <1>1, HttpInvariant, PTL

\* A file is sent in order, without repetition, and whole unless a fault.
THEOREM FilesSentWhole == HttpSpec => []FileWhole
<1>1. HttpInv => FileWhole
  BY DEF HttpInv, FileInv, FileWhole
<1> QED BY <1>1, HttpInvariant, PTL

\* An operation is answered "ok" if and only if it was handed to the service.
THEOREM OperationsReachService == HttpSpec => []OperationHandedOver
<1>1. HttpInv => OperationHandedOver
  BY DEF HttpInv
<1> QED BY <1>1, HttpInvariant, PTL

\* post_handler parses whole bodies, in order, however they are cut.
THEOREM BodiesParsedWhole == HttpSpec => []WholeBodyParsed
<1>1. HttpInv => WholeBodyParsed
  <2> SUFFICES ASSUME HttpInv, httpPc = "parse"
               PROVE  stored = [i \in 1..req.len |-> i]
    BY DEF WholeBodyParsed
  <2>1. /\ stored \in Seq(1..req.len) /\ Len(stored) = req.len
        /\ \A i \in DOMAIN stored : stored[i] = i
    <3>1. stored \in Seq(1..req.len) /\ req.len \in Nat
      BY RequestTypes DEF HttpInv, DataType
    <3>2. Len(stored) + buffered + toCome = req.len /\ toCome = 0 /\ buffered = 0
      BY DEF HttpInv, BodyInv
    <3>3. Len(stored) \in Nat
      BY <3>1, LenProperties
    <3> QED BY <3>1, <3>2, <3>3 DEF HttpInv, BodyInv
  <2> QED BY <2>1, LenProperties
<1> QED BY <1>1, HttpInvariant, PTL
=============================================================================
