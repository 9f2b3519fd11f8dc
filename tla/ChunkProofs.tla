---------------------------- MODULE ChunkProofs -----------------------------
(* Chunk implements Exchange, for every value of the constants.            *)
EXTENDS Chunk, SequenceTheorems, TLAPS

-----------------------------------------------------------------------------
(* The operators that the model is built from.                             *)

(* Both chunk sizes leave room for data.                                   *)
LEMMA Buffers ==
    /\ Out \in Nat /\ Out > Header + SizeField
    /\ Back \in Nat /\ Back > Header + SizeField
    /\ Header \in Nat /\ SizeField \in Nat /\ Ack \in Nat /\ Ack <= Header + SizeField
BY ChunkAssumption DEF Out, Back, Least

(* A message is a sequence of bytes, of its size and with its code.        *)
LEMMA BodyType ==
    ASSUME NEW code \in RequestCodes \cup AnswerCodes, NEW i \in {0, 1}, NEW size \in Nat \ {0}
    PROVE  /\ Body(code, i, size) \in Seq(Bytes)
           /\ Len(Body(code, i, size)) = size
           /\ Opcode(Body(code, i, size)) = code
           /\ Body(code, i, size) # <<>>
<1> DEFINE b == Body(code, i, size)
<1>1. \A n \in 1 .. size : b[n] = <<code, i, n>> /\ <<code, i, n>> \in Bytes
  BY DEF Body, Bytes
<1>2. b \in [1 .. size -> Bytes]
  BY <1>1 DEF Body
<1>3. b \in Seq(Bytes) /\ Len(b) = size
  BY <1>2, IsASeq, LenProperties, SMT
<1>4. Opcode(b) = code
  <2>1. b[1] = <<code, i, 1>>
    BY 1 \in 1 .. size DEF Body
  <2> QED
    BY <2>1 DEF Opcode
<1>5. b # <<>>
  BY <1>3, Len(<<>>) = 0
<1> QED
  BY <1>3, <1>4, <1>5

LEMMA HandleType ==
    /\ 0 \in Handles
    /\ \A handle \in Handles : NextHandle(handle) \in Handles
BY ChunkAssumption DEF Handles, NextHandle

LEMMA SentType ==
    ASSUME NEW seq \in Nat
    PROVE  Sent(seq) \in Nat /\ Sent(0) = 0
BY ChunkAssumption DEF Sent

LEMMA MessageType ==
    ASSUME NEW to \in {"-", "REQ", "RSP"}, NEW type \in MessageTypes, NEW handle \in Handles,
           NEW seq \in Nat, NEW last \in BOOLEAN, NEW size \in Nat, NEW body \in Seq(Bytes)
    PROVE  Message(to, type, handle, seq, last, size, body) \in Messages
BY DEF Message, Messages

LEMMA NoMessageType == NoMessage \in Messages /\ NoMessage.to = "-" /\ <<>> \in Seq(Bytes)
<1>1. <<>> \in Seq(Bytes) /\ "-" \in MessageTypes
  BY EmptySeq DEF MessageTypes
<1>2. NoMessage \in Messages
  BY <1>1, HandleType, MessageType, Zenon DEF NoMessage
<1>3. NoMessage.to = "-"
  BY DEF NoMessage, Message
<1> QED
  BY <1>1, <1>2, <1>3

LEMMA ErrorType ==
    ASSUME NEW code \in ErrorCodes
    PROVE  Error(code) \in Messages /\ Error(code).to = "REQ" /\ Error(code).type = code
<1>1. <<>> \in Seq(Bytes) /\ code \in MessageTypes
  BY EmptySeq DEF MessageTypes
<1>2. Error(code) \in Messages
  BY <1>1, HandleType, MessageType, Zenon DEF Error
<1>3. Error(code).to = "REQ" /\ Error(code).type = code
  BY DEF Error, Message
<1> QED
  BY <1>2, <1>3

LEMMA SendInfoType ==
    ASSUME NEW inUse \in BOOLEAN, NEW handle \in Handles, NEW seq \in Nat, NEW done \in Nat,
           NEW stored \in Messages
    PROVE  SendInfo(inUse, handle, seq, done, stored) \in SendInfos
BY DEF SendInfo, SendInfos

LEMMA SendDoneType ==
    ASSUME TypeOK
    PROVE  SendDone \in SendInfos /\ SendReset \in SendInfos
<1>1. send.handle \in Handles
  BY DEF TypeOK, SendInfos
<1> QED
  BY <1>1, SendInfoType, HandleType, NoMessageType, Zenon DEF SendDone, SendReset

LEMMA GetInfoType ==
    ASSUME NEW handle \in Handles, NEW seq \in Nat, NEW size \in Nat, NEW buf \in Seq(Bytes),
           NEW fromChunk \in BOOLEAN
    PROVE  GetInfo(handle, seq, size, buf, fromChunk) \in GetInfos
BY DEF GetInfo, GetInfos

LEMMA PSendInfoType ==
    ASSUME NEW inUse \in BOOLEAN, NEW handle \in Handles, NEW seq \in Nat, NEW size \in Nat,
           NEW buf \in Seq(Bytes)
    PROVE  PSendInfo(inUse, handle, seq, size, buf) \in PSendInfos
BY DEF PSendInfo, PSendInfos

LEMMA PGetInfoType ==
    ASSUME NEW inUse \in BOOLEAN, NEW handle \in Handles, NEW seq \in Nat,
           NEW data \in Seq(Bytes), NEW done \in Nat
    PROVE  PGetInfo(inUse, handle, seq, data, done) \in PGetInfos
BY DEF PGetInfo, PGetInfos

(* The first n of the bytes s.                                             *)
LEMMA Prefix ==
    ASSUME NEW s \in Seq(Bytes), NEW n \in 0 .. Len(s)
    PROVE  /\ SubSeq(s, 1, n) \in Seq(Bytes)
           /\ Len(SubSeq(s, 1, n)) = n
           /\ n = Len(s) => SubSeq(s, 1, n) = s
<1>1. \A i \in 1 .. n : s[i] \in Bytes
  BY ElementOfSeq, SMT
<1>2. SubSeq(s, 1, n) \in Seq(Bytes) /\ Len(SubSeq(s, 1, n)) = n
  BY <1>1, SubSeqProperties
<1> QED
  BY <1>2, SubSeqFull

LEMMA Extend ==
    ASSUME NEW s \in Seq(Bytes), NEW m \in 0 .. Len(s), NEW n \in m .. Len(s)
    PROVE  /\ SubSeq(s, m + 1, n) \in Seq(Bytes)
           /\ Len(SubSeq(s, m + 1, n)) = n - m
           /\ SubSeq(s, 1, m) \o SubSeq(s, m + 1, n) = SubSeq(s, 1, n)
<1>1. \A i \in m + 1 .. n : s[i] \in Bytes
  BY ElementOfSeq, SMT
<1>2. m + 1 \in Int /\ n \in Int
  OBVIOUS
<1>3. SubSeq(s, m + 1, n) \in Seq(Bytes) /\ Len(SubSeq(s, m + 1, n)) = n - m
  BY <1>1, <1>2, SubSeqProperties
<1>4. SubSeq(s, 1, m) \o SubSeq(s, m + 1, n) = SubSeq(s, 1, n)
  <2>1. 1 \in 1 .. Len(s) + 1 /\ m \in 1 - 1 .. Len(s)
    BY LenProperties
  <2> QED
    BY <2>1, ConcatAdjacentSubSeq
<1> QED
  BY <1>3, <1>4

-----------------------------------------------------------------------------
(* Every action preserves TypeOK and TransferAgreement.                    *)

Inv == TypeOK /\ TransferAgreement

(* Nothing is asked of an end that has no call.                            *)
LEMMA IdleAgrees ==
    ASSUME pc' = "idle", wire'.to = "-", ~send'.inUse
    PROVE  TransferAgreement'
<1>1. CallAgrees'
  BY DEF CallAgrees, Between
<1>2. MessageAgrees'
  BY DEF MessageAgrees, ToResponder
<1> QED
  BY <1>1, <1>2 DEF TransferAgreement

LEMMA InitInv == Init => Inv
<1> SUFFICES ASSUME Init PROVE Inv
  OBVIOUS
<1>1. TypeOK
  BY HandleType, NoMessageType, SendInfoType, GetInfoType, PSendInfoType, PGetInfoType, Zenon
  DEF Init, TypeOK
<1>2. pc = "idle" /\ wire.to = "-" /\ ~send.inUse
  BY NoMessageType DEF Init, SendInfo
<1>3. CallAgrees
  BY <1>2 DEF CallAgrees, Between
<1>4. MessageAgrees
  BY <1>2 DEF MessageAgrees, ToResponder
<1> QED
  BY <1>1, <1>3, <1>4 DEF Inv, TransferAgreement

LEMMA IssueInv ==
    ASSUME Inv, NEW code \in RequestCodes, NEW size \in ReqSizes, Issue(code, size)
    PROVE  Inv'
<1> DEFINE b == Body(code, 1 - id, size)
<1>1. TypeOK /\ wire.to = "-" /\ ~send.inUse
  BY DEF Inv, TransferAgreement, CallAgrees, Between, Issue
<1>2. b \in Seq(Bytes) /\ b # <<>> /\ 1 - id \in {0, 1} /\ <<>> \in Seq(Bytes)
  <2>1. 1 - id \in {0, 1} /\ size \in Nat \ {0} /\ code \in RequestCodes \cup AnswerCodes
    BY <1>1, ChunkAssumption DEF TypeOK
  <2> QED
    BY <2>1, BodyType, NoMessageType
<1>3. request' = b /\ pc' = "send" /\ result' = <<>> /\ served' = <<>> /\ answer' = <<>>
  BY DEF Issue
<1>4. id' \in {0, 1} /\ send' \in SendInfos /\ UNCHANGED <<get, psend, pget, wire>>
  BY <1>1, <1>2, SendDoneType DEF TypeOK, Issue, rspVars
<1> HIDE DEF b
<1>5. TypeOK'
  BY <1>1, <1>2, <1>3, <1>4 DEF TypeOK
<1>6. CallAgrees'
  <2>1. ~send'.inUse
    BY <1>1 DEF Issue, SendReset, SendInfo
  <2> QED
    BY <1>1, <1>2, <1>3, <1>4, <2>1 DEF CallAgrees, Between, NotTwice
<1>7. MessageAgrees'
  BY <1>1, <1>4 DEF MessageAgrees, ToResponder
<1> QED
  BY <1>5, <1>6, <1>7 DEF Inv, TransferAgreement

LEMMA SendSmallInv ==
    ASSUME Inv, SendSmall
    PROVE  Inv'
<1>1. /\ TypeOK /\ pc = "send" /\ wire.to = "-" /\ ~send.inUse
      /\ NotTwice /\ result = <<>> /\ request # <<>>
  BY DEF Inv, TransferAgreement, CallAgrees, Between, SendSmall
<1>2. UNCHANGED <<send, get, psend, pget, served, answer, request, id>>
  BY Zenon DEF SendSmall, Fail, rspVars, history
<1>3. CASE pc' = "idle" /\ UNCHANGED wire
  <2>1. TypeOK'
    BY <1>1, <1>2, <1>3 DEF TypeOK
  <2> QED
    BY <1>1, <1>2, <1>3, <2>1, IdleAgrees DEF Inv
<1>4. CASE /\ pc' = "recv" /\ UNCHANGED result
           /\ wire' = Message("RSP", "REQUEST", 0, 0, FALSE, 0, request)
  <2>1. wire' \in Messages
    BY <1>1, <1>4, HandleType, MessageType, Zenon DEF TypeOK, MessageTypes
  <2>2. TypeOK'
    BY <1>1, <1>2, <1>4, <2>1, Zenon DEF TypeOK
  <2>3. wire'.to = "RSP" /\ wire'.type = "REQUEST" /\ wire'.body = request
    BY <1>4 DEF Message
  <2>4. CallAgrees'
    BY <1>1, <1>2, <1>4, Zenon DEF CallAgrees, Between
  <2>5. MessageAgrees'
    BY <1>1, <1>2, <2>3 DEF MessageAgrees, ToResponder, NotTwice, Served
  <2> QED
    BY <2>2, <2>4, <2>5 DEF Inv, TransferAgreement
<1> QED
  BY <1>3, <1>4, Zenon DEF SendSmall, Fail

(* A large request is longer than a transport buffer.                      *)
LEMMA LargeSize ==
    ASSUME TypeOK, Large(request)
    PROVE  Len(request) \in Nat /\ Len(request) > Out /\ Opcode(request) = "REQUEST"
<1>1. Len(request) \in Nat
  BY LenProperties DEF TypeOK
<1>2. RspDts \in Nat /\ ReqSend \in Nat
  BY ChunkAssumption
<1>3. /\ Opcode(request) = "REQUEST"
      /\ Len(request) > RspDts \/ Len(request) > ReqSend
  BY DEF Large
<1> QED
  BY <1>1, <1>2, <1>3 DEF Out, Least

LEMMA StartLargeInv ==
    ASSUME Inv, StartLarge
    PROVE  Inv'
<1>1. /\ TypeOK /\ pc = "send" /\ wire.to = "-" /\ ~send.inUse /\ Large(request)
      /\ NotTwice /\ result = <<>> /\ request # <<>>
  BY DEF Inv, TransferAgreement, CallAgrees, Between, StartLarge
<1>2. UNCHANGED <<get, psend, pget, wire, served, answer, request, id>>
  BY Zenon DEF StartLarge, Fail, rspVars, history
<1>3. CASE pc' = "idle" /\ UNCHANGED send
  <2>1. TypeOK'
    BY <1>1, <1>2, <1>3 DEF TypeOK
  <2> QED
    BY <1>1, <1>2, <1>3, <2>1, IdleAgrees DEF Inv
<1>4. CASE /\ pc' = "chunks" /\ UNCHANGED result
           /\ send' = SendInfo(TRUE, send.handle, 0, 0, NoMessage)
  <2>1. send' \in SendInfos
    BY <1>1, <1>4, SendInfoType, NoMessageType, Zenon DEF TypeOK, SendInfos
  <2>2. TypeOK'
    BY <1>1, <1>2, <1>4, <2>1, Zenon DEF TypeOK
  <2>3. send'.seq = 0 /\ send'.done = 0
    BY <1>4 DEF SendInfo
  <2>4. Large(request)' /\ 0 < Len(request)
    BY <1>1, <1>2, LargeSize, Buffers DEF Large
  <2>5. CallAgrees'
    BY <1>1, <1>2, <1>4, <2>3, <2>4, Zenon DEF CallAgrees, Between, NotTwice, Served
  <2>6. MessageAgrees'
    BY <1>1, <1>2 DEF MessageAgrees, ToResponder
  <2> QED
    BY <2>2, <2>5, <2>6 DEF Inv, TransferAgreement
<1> QED
  BY <1>3, <1>4, Zenon DEF StartLarge, Fail

(* A chunk carries at least one byte and at most those that are left.      *)
LEMMA ChunkSizeBounds ==
    ASSUME Inv, pc = "chunks"
    PROVE  /\ send.done \in 0 .. Len(request)
           /\ send.done + ChunkSize(Out, send.seq, Len(request), send.done)
                \in send.done + 1 .. Len(request)
<1>1. /\ TypeOK /\ Large(request) /\ send.done < Len(request)
      /\ send.seq = 0 => send.done = 0
  BY DEF Inv, TransferAgreement, CallAgrees
<1>2. send.seq \in Nat /\ send.done \in Nat
  BY <1>1 DEF TypeOK, SendInfos
<1>3. Len(request) \in Nat /\ Len(request) > Out
  BY <1>1, LargeSize
<1> QED
  BY <1>1, <1>2, <1>3, Buffers DEF ChunkSize, Least

LEMMA SendChunkInv ==
    ASSUME Inv, SendChunk
    PROVE  Inv'
<1> DEFINE done == send.done + ChunkSize(Out, send.seq, Len(request), send.done)
           body == SubSeq(request, send.done + 1, done)
           size == IF send.seq = 0 THEN Len(request) ELSE 0
<1>1. /\ TypeOK /\ pc = "chunks" /\ wire.to = "-" /\ Large(request)
      /\ NotTwice /\ result = <<>> /\ request # <<>>
      /\ IF send.seq = 0 THEN send.done = 0 ELSE SendAgrees(send.seq - 1, send.done)
  BY DEF Inv, TransferAgreement, CallAgrees, Between, SendChunk
<1>2. UNCHANGED <<get, psend, pget, served, answer, request, id>>
  BY Zenon DEF SendChunk, Fail, rspVars, history
<1>3. CASE pc' = "idle" /\ UNCHANGED wire /\ send' = SendDone
  <2>1. TypeOK'
    BY <1>1, <1>2, <1>3, SendDoneType DEF TypeOK
  <2>2. ~send'.inUse
    BY <1>3 DEF SendDone, SendInfo
  <2> QED
    BY <1>1, <1>2, <1>3, <2>1, <2>2, IdleAgrees DEF Inv
<1>4. CASE /\ pc' = "ack" /\ UNCHANGED result
           /\ wire' = Message("RSP", "CHUNK_SEND", send.handle, Sent(send.seq),
                              done >= Len(request), size, body)
           /\ send' = SendInfo(TRUE, send.handle, send.seq, done, NoMessage)
  <2>1. /\ send.handle \in Handles /\ send.seq \in Nat /\ send.done \in 0 .. Len(request)
        /\ done \in send.done + 1 .. Len(request) /\ Len(request) \in Nat
        /\ request \in Seq(Bytes)
    BY <1>1, ChunkSizeBounds, LargeSize DEF TypeOK, SendInfos, SendChunk
  <2> HIDE DEF done
  <2>2. body \in Seq(Bytes) /\ done \in Nat /\ done \in 1 .. Len(request)
    BY <2>1, Extend
  <2> HIDE DEF body
  <2>3. wire' \in Messages
    <3>1. size \in Nat /\ Sent(send.seq) \in Nat
      BY <2>1, <2>2, SentType, Zenon
    <3>3. (done >= Len(request)) \in BOOLEAN
      OBVIOUS
    <3>2. "CHUNK_SEND" \in MessageTypes
      BY DEF MessageTypes
    <3> HIDE DEF size
    <3> QED
      BY <1>4, <2>1, <2>2, <3>1, <3>2, <3>3, MessageType, Zenon
  <2>4. send' \in SendInfos
    BY <1>4, <2>1, <2>2, SendInfoType, NoMessageType, Zenon
  <2>5. TypeOK'
    BY <1>1, <1>2, <1>4, <2>3, <2>4, Zenon DEF TypeOK
  <2>6. send'.handle = send.handle /\ send'.seq = send.seq /\ send'.done = done
    BY <1>4 DEF SendInfo
  <2>7. /\ wire'.to = "RSP" /\ wire'.type = "CHUNK_SEND" /\ wire'.handle = send.handle
        /\ wire'.seq = Sent(send.seq) /\ wire'.last = (done >= Len(request))
        /\ wire'.size = size /\ wire'.body = body
    BY <1>4 DEF Message
  <2>8. CallAgrees'
    BY <1>1, <1>2, <1>4 DEF CallAgrees, Between
  <2>9. ChunkSendAgrees'
    <3>1. NotTwice' /\ Large(request)'
      BY <1>1, <1>2 DEF NotTwice, Served, Large
    <3>2. wire'.last = (done = Len(request))
      BY <2>1, <2>2, <2>7
    <3>3. CASE send.seq = 0
      <4>1. body = SubSeq(request, 1, done)
        BY <1>1, <3>3, send.done + 1 = 1, Zenon DEF body
      <4> QED
        BY <1>2, <2>1, <2>2, <2>6, <2>7, <3>1, <3>2, <3>3, <4>1 DEF ChunkSendAgrees
    <3>4. CASE send.seq # 0
      <4>1. /\ psend'.inUse /\ psend'.handle = send'.handle
            /\ psend'.seq = Sent(send'.seq - 1)
            /\ psend'.size = Len(request') /\ psend'.buf = SubSeq(request', 1, send.done)
        BY <1>1, <1>2, <2>6, <3>4 DEF SendAgrees
      <4>2. send.done \in 0 .. send'.done
        BY <2>1, <2>2, <2>6
      <4>3. wire'.body = SubSeq(request', send.done + 1, send'.done)
        BY <1>2, <2>6, <2>7 DEF body
      <4>4. \E d \in 0 .. send'.done :
              /\ psend'.inUse /\ psend'.handle = send'.handle
              /\ psend'.seq = Sent(send'.seq - 1)
              /\ psend'.size = Len(request') /\ psend'.buf = SubSeq(request', 1, d)
              /\ wire'.body = SubSeq(request', d + 1, send'.done)
        BY <4>1, <4>2, <4>3, Zenon
      <4> QED
        BY <1>2, <2>1, <2>2, <2>6, <2>7, <3>1, <3>2, <3>4, <4>4, Zenon DEF ChunkSendAgrees, SendAgrees
    <3> QED
      BY <3>3, <3>4
  <2>10. MessageAgrees'
    BY <2>7, <2>9 DEF MessageAgrees, ToResponder
  <2> QED
    BY <2>5, <2>8, <2>10 DEF Inv, TransferAgreement
<1> QED
  BY <1>3, <1>4, Zenon DEF SendChunk, Fail

(* A call that fails leaves nothing to agree on, and one that is retried   *)
(* has not been handled, or cannot be handled again.                       *)
LEMMA FailWithInv ==
    ASSUME TypeOK, NEW code, FailWith(code), result = <<>>, request # <<>>,
           code = "BUSY" => NotTwice,
           wire' \in Messages, wire'.to = "-", send' \in SendInfos, ~send'.inUse, get' \in GetInfos,
           UNCHANGED <<psend, pget, served, answer>>
    PROVE  Inv'
<1>1. UNCHANGED <<request, id>>
  BY DEF FailWith, Fail
<1>2. CASE pc' = "idle"
  <2>1. TypeOK'
    BY <1>1, <1>2 DEF TypeOK
  <2> QED
    BY <1>2, <2>1, IdleAgrees DEF Inv
<1>3. CASE code = "BUSY" /\ pc' = "send" /\ UNCHANGED result
  <2>1. TypeOK'
    BY <1>1, <1>3 DEF TypeOK
  <2>2. CallAgrees'
    BY <1>1, <1>3 DEF CallAgrees, Between, NotTwice, Served
  <2>3. MessageAgrees'
    BY DEF MessageAgrees, ToResponder
  <2> QED
    BY <2>1, <2>2, <2>3 DEF Inv, TransferAgreement
<1> QED
  BY <1>2, <1>3 DEF FailWith, Fail

LEMMA ReturnInv ==
    ASSUME TypeOK, NEW body, Return(body),
           wire' \in Messages, wire'.to = "-", send' \in SendInfos, ~send'.inUse, get' \in GetInfos,
           UNCHANGED <<psend, pget, served, answer>>
    PROVE  Inv'
<1>1. pc' = "idle" /\ UNCHANGED <<request, id>>
  BY DEF Return
<1>2. TypeOK'
  BY <1>1 DEF TypeOK
<1> QED
  BY <1>1, <1>2, IdleAgrees DEF Inv

LEMMA TimeoutInv ==
    ASSUME Inv, Timeout
    PROVE  Inv'
<1>1. TypeOK /\ wire.to = "-" /\ CallAgrees
  BY DEF Inv, TransferAgreement, Timeout
<1>2. UNCHANGED <<get, psend, pget, wire, served, answer, request, id>> /\ pc' = "idle"
  BY DEF Timeout, Fail, rspVars, history
<1>3. send' \in SendInfos /\ ~send'.inUse
  BY <1>1, SendDoneType DEF Timeout, CallAgrees, SendDone, SendInfo, TypeOK
<1>4. TypeOK'
  BY <1>1, <1>2, <1>3 DEF TypeOK
<1> QED
  BY <1>1, <1>2, <1>3, <1>4, IdleAgrees DEF Inv

LEMMA ReceiveAckInv ==
    ASSUME Inv, ReceiveAck
    PROVE  Inv'
<1> DEFINE stored == CASE wire.type = "LARGE_RESPONSE" -> wire
                       [] EarlyError(wire) -> Error("INVALID_REQUEST")
                       [] OTHER -> Message("REQ", "RESPONSE", 0, 0, FALSE, 0, wire.body)
           mine == /\ wire.type = "CHUNK_SEND_ACK" /\ ~wire.last
                   /\ wire.handle = send.handle /\ wire.seq = Sent(send.seq)
           last == send.done >= Len(request)
           final == wire.type = "LARGE_RESPONSE" \/ EarlyError(wire) \/ (mine /\ last)
<1>1. /\ TypeOK /\ pc = "ack" /\ wire.to = "REQ" /\ Trusted(wire)
      /\ wire.type = "CHUNK_SEND_ACK" /\ ~wire.last => ChunkSendAckAgrees
      /\ result = <<>> /\ request # <<>>
  BY DEF Inv, TransferAgreement, CallAgrees, MessageAgrees, ReceiveAck, Take
<1>2. /\ UNCHANGED <<get, psend, pget, served, answer>> /\ wire' = NoMessage
      /\ wire' \in Messages /\ wire'.to = "-"
  BY NoMessageType DEF ReceiveAck, Take, rspVars, history
<1>3. /\ send.handle \in Handles /\ send.seq \in Nat /\ send.done \in Nat /\ wire \in Messages
      /\ wire.body \in Seq(Bytes) /\ get \in GetInfos /\ Len(request) \in Nat
  BY <1>1, LenProperties DEF TypeOK, SendInfos, Messages
<1>4. CASE /\ final /\ pc' = "recv" /\ UNCHANGED <<request, result, id>>
           /\ send' = SendInfo(TRUE, send.handle, send.seq, send.done, stored)
  <2>1. stored \in Messages /\ Trusted(stored)
    <3>1. CASE wire.type = "LARGE_RESPONSE"
      <4>1. stored = wire
        BY <3>1 DEF EarlyError
      <4> HIDE DEF stored
      <4> QED
        BY <1>1, <1>3, <4>1
    <3>2. CASE wire.type # "LARGE_RESPONSE" /\ EarlyError(wire)
      <4>1. stored = Error("INVALID_REQUEST") /\ "INVALID_REQUEST" \in ErrorCodes
        BY <3>2 DEF ErrorCodes
      <4> HIDE DEF stored
      <4>2. stored \in Messages /\ stored.type = "INVALID_REQUEST"
        BY <4>1, ErrorType
      <4> QED
        BY <4>2 DEF Trusted
    <3>3. CASE wire.type # "LARGE_RESPONSE" /\ ~EarlyError(wire)
      <4>1. stored = Message("REQ", "RESPONSE", 0, 0, FALSE, 0, wire.body)
        BY <3>3
      <4>2. Served /\ wire.body = answer
        BY <1>1, <1>3, <1>4, <3>3 DEF ChunkSendAckAgrees
      <4> HIDE DEF stored
      <4>3. stored \in Messages
        BY <1>3, <4>1, HandleType, MessageType, Zenon DEF MessageTypes
      <4>4. stored.type = "RESPONSE" /\ stored.body = wire.body
        BY <4>1 DEF Message
      <4> QED
        BY <4>2, <4>3, <4>4 DEF Trusted
    <3> QED
      BY <3>1, <3>2, <3>3, Zenon
  <2> HIDE DEF stored
  <2>2. send' \in SendInfos /\ send'.stored = stored
    <3>1. send' \in SendInfos
      BY <1>3, <1>4, <2>1, SendInfoType, Zenon
    <3> QED
      BY <1>4, <3>1 DEF SendInfo
  <2>3. TypeOK'
    BY <1>1, <1>2, <1>4, <2>2, Zenon DEF TypeOK
  <2>4. Trusted(send.stored)'
    BY <1>2, <1>4, <2>1, <2>2, Zenon DEF Trusted, Served, NotTwice, GetAgrees
  <2>5. CallAgrees'
    BY <1>1, <1>2, <1>4, <2>4, Zenon DEF CallAgrees, Between
  <2>6. MessageAgrees'
    BY <1>2 DEF MessageAgrees, ToResponder
  <2> QED
    BY <2>3, <2>5, <2>6 DEF Inv, TransferAgreement
<1>5. CASE /\ mine /\ ~last /\ pc' = "chunks" /\ UNCHANGED <<request, result, id>>
           /\ send' = SendInfo(TRUE, send.handle, send.seq + 1, send.done, NoMessage)
  <2>1. send' \in SendInfos
    BY <1>3, <1>5, send.seq + 1 \in Nat, SendInfoType, NoMessageType, Zenon
  <2>2. send'.handle = send.handle /\ send'.seq = send.seq + 1 /\ send'.done = send.done
    BY <1>5 DEF SendInfo
  <2>3. TypeOK'
    BY <1>1, <1>2, <1>5, <2>1, Zenon DEF TypeOK
  <2>4. /\ Large(request) /\ NotTwice /\ SendAgrees(send.seq, send.done)
        /\ send.done < Len(request)
    BY <1>1, <1>3, <1>5 DEF ChunkSendAckAgrees
  <2>5. send'.seq # 0 /\ send'.seq - 1 = send.seq
    BY <1>3, <2>2
  <2>6. Large(request)' /\ NotTwice' /\ SendAgrees(send.seq - 1, send.done)'
    BY <1>2, <1>5, <2>2, <2>4, <2>5, Zenon DEF Large, NotTwice, Served, SendAgrees
  <2>7. CallAgrees'
    BY <1>1, <1>2, <1>5, <2>2, <2>4, <2>5, <2>6, Zenon DEF CallAgrees, Between
  <2>8. MessageAgrees'
    BY <1>2 DEF MessageAgrees, ToResponder
  <2> QED
    BY <2>3, <2>7, <2>8 DEF Inv, TransferAgreement
<1>6. CASE FailWith(wire.type) /\ send' = SendDone
  <2>1. send' \in SendInfos /\ ~send'.inUse
    BY <1>1, <1>6, SendDoneType DEF SendDone, SendInfo
  <2>2. wire.type = "BUSY" => NotTwice
    BY <1>1 DEF Trusted
  <2> QED
    BY <1>1, <1>2, <1>3, <1>6, <2>1, <2>2, FailWithInv
<1> QED
  BY <1>4, <1>5, <1>6, Zenon DEF ReceiveAck

LEMMA ReceiveResponseInv ==
    ASSUME TypeOK, NEW m \in Messages, NEW fromChunk \in BOOLEAN, ReceiveResponse(m, fromChunk),
           Trusted(m), result = <<>>, request # <<>>,
           wire' \in Messages, wire'.to = "-", send' \in SendInfos, ~send'.inUse,
           UNCHANGED <<psend, pget, served, answer>>
    PROVE  Inv'
<1>1. CASE Return(m.body) /\ UNCHANGED get
  BY <1>1, ReturnInv DEF TypeOK
<1>2. CASE FailWith(m.type) /\ UNCHANGED get
  <2>1. (m.type = "BUSY" => NotTwice) /\ get' \in GetInfos
    BY <1>2 DEF Trusted, TypeOK
  <2> QED
    BY <1>2, <2>1, FailWithInv
<1>3. CASE /\ m.type = "LARGE_RESPONSE" /\ pc' = "get" /\ UNCHANGED <<request, result, id>>
           /\ get' = GetInfo(m.handle, 0, 0, <<>>, fromChunk)
  <2>1. get' \in GetInfos
    BY <1>3, GetInfoType, NoMessageType, Zenon DEF Messages
  <2>2. TypeOK'
    BY <1>3, <2>1 DEF TypeOK
  <2>3. get'.handle = m.handle /\ get'.seq = 0 /\ get'.size = 0 /\ get'.buf = <<>>
    BY <1>3 DEF GetInfo
  <2>4. Served /\ Opcode(request) = "REQUEST" /\ GetAgrees(m.handle, 0, 0, <<>>)
    BY <1>3 DEF Trusted
  <2>5. (Served /\ Opcode(request) = "REQUEST" /\ GetAgrees(get.handle, get.seq, get.size, get.buf))'
    BY <1>3, <2>3, <2>4, Zenon DEF Served, GetAgrees
  <2>6. CallAgrees'
    BY <1>3, <2>5 DEF CallAgrees, Between
  <2>7. MessageAgrees'
    BY DEF MessageAgrees, ToResponder
  <2> QED
    BY <2>2, <2>6, <2>7 DEF Inv, TransferAgreement
<1> QED
  BY <1>1, <1>2, <1>3 DEF ReceiveResponse

LEMMA ReceiveStoredInv ==
    ASSUME Inv, ReceiveStored
    PROVE  Inv'
<1>1. /\ TypeOK /\ Trusted(send.stored) /\ result = <<>> /\ request # <<>> /\ wire.to = "-"
  BY DEF Inv, TransferAgreement, CallAgrees, Between, ReceiveStored
<1>2. UNCHANGED <<wire, psend, pget, served, answer>> /\ ReceiveResponse(send.stored, TRUE)
  BY Zenon DEF ReceiveStored, rspVars, history
<1>3. send' \in SendInfos /\ ~send'.inUse
  BY <1>1, SendDoneType DEF ReceiveStored, SendDone, SendInfo
<1>4. send.stored \in Messages /\ wire' \in Messages
  BY <1>1, <1>2 DEF TypeOK, SendInfos
<1> QED
  BY <1>1, <1>2, <1>3, <1>4, ReceiveResponseInv, Zenon

LEMMA ReceiveDirectInv ==
    ASSUME Inv, ReceiveDirect
    PROVE  Inv'
<1>1. /\ TypeOK /\ Trusted(wire) /\ result = <<>> /\ request # <<>>
  BY DEF Inv, TransferAgreement, CallAgrees, MessageAgrees, ReceiveDirect, Take
<1>2. UNCHANGED <<psend, pget, served, answer>> /\ ReceiveResponse(wire, FALSE)
  BY Zenon DEF ReceiveDirect, Take, rspVars, history
<1>3. send' \in SendInfos /\ ~send'.inUse
  BY <1>1 DEF ReceiveDirect, TypeOK
<1>4. wire \in Messages /\ wire' \in Messages /\ wire'.to = "-"
  BY <1>1, NoMessageType DEF TypeOK, ReceiveDirect, Take
<1> QED
  BY <1>1, <1>2, <1>3, <1>4, ReceiveResponseInv, Zenon

LEMMA SendChunkGetInv ==
    ASSUME Inv, SendChunkGet
    PROVE  Inv'
<1>1. /\ TypeOK /\ pc = "get" /\ wire.to = "-" /\ ~send.inUse /\ result = <<>> /\ request # <<>>
      /\ Served /\ Opcode(request) = "REQUEST"
      /\ GetAgrees(get.handle, get.seq, get.size, get.buf)
  BY DEF Inv, TransferAgreement, CallAgrees, Between, SendChunkGet
<1>2. UNCHANGED <<send, get, psend, pget, served, answer, request, id>>
  BY Zenon DEF SendChunkGet, Fail, rspVars, history
<1>3. CASE pc' = "idle" /\ UNCHANGED wire
  <2>1. TypeOK'
    BY <1>1, <1>2, <1>3 DEF TypeOK
  <2> QED
    BY <1>1, <1>2, <1>3, <2>1, IdleAgrees DEF Inv
<1>4. CASE /\ ~(~Wide /\ Sent(get.seq) = 0 /\ get.buf # <<>>)
           /\ pc' = "chunk" /\ UNCHANGED result
           /\ wire' = Message("RSP", "CHUNK_GET", get.handle, Sent(get.seq), FALSE, 0, <<>>)
  <2>1. get.handle \in Handles /\ get.seq \in Nat /\ Sent(get.seq) \in Nat
    BY <1>1, SentType DEF TypeOK, GetInfos
  <2>2. wire' \in Messages
    BY <1>4, <2>1, MessageType, NoMessageType, Zenon DEF MessageTypes
  <2>3. TypeOK'
    BY <1>1, <1>2, <1>4, <2>2, Zenon DEF TypeOK
  <2>4. wire'.to = "RSP" /\ wire'.type = "CHUNK_GET" /\ wire'.seq = Sent(get.seq)
    BY <1>4 DEF Message
  <2>5. Sent(get.seq) = 0 => get.seq = 0
    <3>1. CASE Wide
      BY <3>1 DEF Sent
    <3>2. CASE ~Wide /\ get.buf = <<>>
      <4>1. pget.done \in 0 .. Len(answer) /\ answer \in Seq(Bytes)
        BY <1>1, LenProperties DEF GetAgrees, TypeOK, PGetInfos
      <4>2. Len(get.buf) = pget.done
        BY <1>1, <4>1, Prefix DEF GetAgrees
      <4>3. pget.done = 0
        BY <3>2, <4>2, Len(<<>>) = 0
      <4> QED
        BY <1>1, <4>3 DEF GetAgrees
    <3> QED
      BY <1>4, <3>1, <3>2
  <2>6. ChunkGetAgrees'
    BY <1>1, <1>2, <2>4, <2>5 DEF ChunkGetAgrees, Served, GetAgrees
  <2>7. CallAgrees'
    BY <1>1, <1>2, <1>4 DEF CallAgrees, Between
  <2>8. MessageAgrees'
    BY <2>4, <2>6 DEF MessageAgrees, ToResponder
  <2> QED
    BY <2>3, <2>7, <2>8 DEF Inv, TransferAgreement
<1> QED
  BY <1>3, <1>4, ZenonT(40) DEF SendChunkGet, Fail

(* What a good CHUNK_RESPONSE leaves the Requester with.                   *)
LEMMA ReceiveChunkFacts ==
    ASSUME Inv, ReceiveChunk
    PROVE  /\ TypeOK /\ result = <<>> /\ request # <<>> /\ Trusted(wire) /\ ~send.inUse
           /\ UNCHANGED <<send, psend, pget, served, answer>>
           /\ wire' \in Messages /\ wire'.to = "-"
           /\ wire.type = "CHUNK_RESPONSE" => ChunkResponseAgrees
BY NoMessageType, Zenon
DEF Inv, TransferAgreement, CallAgrees, MessageAgrees, ReceiveChunk, Take, rspVars, history

LEMMA ReceiveChunkInv ==
    ASSUME Inv, ReceiveChunk
    PROVE  Inv'
<1> DEFINE buf == get.buf \o wire.body
           size == IF get.seq = 0 THEN wire.size ELSE get.size
           more == Len(buf) < size /\ ~wire.last
<1>1. /\ TypeOK /\ result = <<>> /\ request # <<>> /\ Trusted(wire) /\ ~send.inUse
      /\ UNCHANGED <<send, psend, pget, served, answer>>
      /\ wire' \in Messages /\ wire'.to = "-"
      /\ wire.type = "CHUNK_RESPONSE" => ChunkResponseAgrees
  BY ReceiveChunkFacts
<1>2. send' \in SendInfos /\ ~send'.inUse /\ get \in GetInfos
  BY <1>1 DEF TypeOK
<1>3. CASE Return(buf) /\ UNCHANGED get
  BY <1>1, <1>2, <1>3, ReturnInv
<1>4. CASE FailWith(wire.type) /\ UNCHANGED get
  <2>1. wire.type = "BUSY" => NotTwice
    BY <1>1 DEF Trusted
  <2> QED
    BY <1>1, <1>2, <1>4, <2>1, FailWithInv
<1>5. CASE /\ GoodChunk(wire) /\ more /\ pc' = "get" /\ UNCHANGED <<request, result, id>>
           /\ get' = GetInfo(get.handle, get.seq + 1, size, buf, get.fromChunk)
  <2>1. /\ Served /\ Opcode(request) = "REQUEST" /\ size = Len(answer)
        /\ GetAgrees(get.handle, get.seq + 1, Len(answer), buf)
    BY <1>1, <1>5, Zenon DEF ChunkResponseAgrees, GoodChunk
  <2>2. get' \in GetInfos
    <3>1. /\ get.handle \in Handles /\ get.seq + 1 \in Nat /\ size \in Nat
          /\ get.fromChunk \in BOOLEAN /\ get.buf \in Seq(Bytes) /\ wire.body \in Seq(Bytes)
      BY <1>1 DEF TypeOK, GetInfos, Messages
    <3>2. buf \in Seq(Bytes)
      BY <3>1, ConcatProperties
    <3> HIDE DEF buf, size
    <3> QED
      BY <1>5, <3>1, <3>2, GetInfoType
  <2> HIDE DEF buf, size
  <2>3. TypeOK'
    BY <1>1, <1>2, <1>5, <2>2 DEF TypeOK
  <2>4. get'.handle = get.handle /\ get'.seq = get.seq + 1 /\ get'.size = size /\ get'.buf = buf
    BY <1>5 DEF GetInfo
  <2>5. (Served /\ Opcode(request) = "REQUEST" /\ GetAgrees(get.handle, get.seq, get.size, get.buf))'
    BY <1>1, <1>5, <2>1, <2>4 DEF Served, GetAgrees
  <2>6. CallAgrees'
    BY <1>1, <1>2, <1>5, <2>5 DEF CallAgrees, Between
  <2>7. MessageAgrees'
    BY <1>1 DEF MessageAgrees, ToResponder
  <2> QED
    BY <2>3, <2>6, <2>7 DEF Inv, TransferAgreement
<1> QED
  BY <1>3, <1>4, <1>5, Zenon DEF ReceiveChunk

-----------------------------------------------------------------------------
(* The steps of the Responder.                                             *)

(* They leave the Requester where it waits.                                *)
LEMMA RespondInv ==
    ASSUME Inv, Respond, psend' \in PSendInfos, pget' \in PGetInfos, answer' \in Seq(Bytes),
           wire' \in Messages, MessageAgrees'
    PROVE  Inv'
<1>1. /\ TypeOK /\ ~Between /\ (pc # "idle" => result = <<>> /\ request # <<>>)
      /\ send.inUse => pc \in {"chunks", "ack", "recv"}
  BY DEF Inv, TransferAgreement, CallAgrees, Respond
<1>2. UNCHANGED <<pc, request, result, id, send, get>>
  BY DEF Respond, callVars
<1>3. TypeOK'
  BY <1>1, <1>2 DEF TypeOK
<1>4. CallAgrees'
  BY <1>1, <1>2 DEF CallAgrees, Between
<1> QED
  BY <1>3, <1>4 DEF Inv, TransferAgreement

(* What a request that is in flight says of the Requester.                 *)
LEMMA RespondFacts ==
    ASSUME Inv, Respond
    PROVE  /\ TypeOK /\ wire.to = "RSP" /\ pc # "idle"
           /\ UNCHANGED <<pc, request, result, id, send, get>>
           /\ NotTwice /\ (~Interrupts => wire.type = "CHUNK_GET" \/ served = <<>>)
           /\ wire.type = "REQUEST" => wire.body = request
           /\ wire.type = "CHUNK_SEND" => ChunkSendAgrees
           /\ wire.type = "CHUNK_GET" => ChunkGetAgrees
<1>1. TypeOK /\ wire.to = "RSP" /\ pc # "idle" /\ MessageAgrees
  BY DEF Inv, TransferAgreement, CallAgrees, Between, Respond
<1>2. NotTwice
  BY <1>1 DEF MessageAgrees, ToResponder, ChunkSendAgrees, ChunkGetAgrees, GetAgrees, NotTwice
<1>3. ~Interrupts => wire.type = "CHUNK_GET" \/ served = <<>>
  BY <1>1, <1>2 DEF MessageAgrees, ToResponder, NotTwice, Interrupts
<1> QED
  BY <1>1, <1>2, <1>3 DEF MessageAgrees, ToResponder, Respond, callVars

LEMMA ErrorInv ==
    ASSUME Inv, Respond, NEW code \in ErrorCodes, wire' = Error(code), psend' \in PSendInfos,
           UNCHANGED <<pget, served, answer>>
    PROVE  Inv'
<1>1. TypeOK /\ NotTwice /\ UNCHANGED request
  BY RespondFacts
<1>2. wire' \in Messages /\ wire'.to = "REQ" /\ wire'.type = code
  BY ErrorType
<1>3. code \notin {"RESPONSE", "LARGE_RESPONSE", "CHUNK_SEND_ACK", "CHUNK_RESPONSE"}
  BY DEF ErrorCodes
<1>4. Trusted(wire)'
  BY <1>1, <1>2, <1>3 DEF Trusted, NotTwice, Served
<1>5. MessageAgrees'
  BY <1>2, <1>3, <1>4 DEF MessageAgrees, ToResponder
<1> QED
  BY <1>1, <1>2, <1>5, RespondInv DEF TypeOK

LEMMA RefuseInv ==
    ASSUME Inv, RespondInterrupts \/ RespondHeld \/ RespondUnexpected
    PROVE  Inv'
<1>1. TypeOK /\ Respond
  BY DEF Inv, RespondInterrupts, RespondHeld, RespondUnexpected
<1>2. /\ \E code \in ErrorCodes : wire' = Error(code)
      /\ UNCHANGED <<psend, pget, served, answer>>
  BY DEF RespondInterrupts, RespondHeld, RespondUnexpected, Refuse, history, ErrorCodes
<1> QED
  BY <1>1, <1>2, ErrorInv DEF TypeOK

(* The end of a handler that was given the request.                        *)
LEMMA ReplyInv ==
    ASSUME Inv, Respond, NEW a \in Seq(Bytes), NEW ack \in Messages, NEW size \in Nat,
           Reply(a, ack, size), served' = <<request>>, answer' = a, psend' \in PSendInfos,
           Opcode(request) = "REQUEST", Len(a) >= size - Ack, ack.to = "REQ", ack.body = a,
           \/ ack.type = "RESPONSE"
           \/ ack.type = "CHUNK_SEND_ACK" /\ Large(request) /\ send.done = Len(request)
    PROVE  Inv'
<1>1. TypeOK /\ UNCHANGED <<request, send, get>>
  BY RespondFacts
<1>2. Served'
  BY <1>1 DEF Served
<1>3. CASE wire' = Error("RESPONSE_TOO_LARGE") /\ UNCHANGED pget
  <2>1. wire' \in Messages /\ wire'.to = "REQ" /\ wire'.type = "RESPONSE_TOO_LARGE"
    BY <1>3, ErrorType DEF ErrorCodes
  <2>2. MessageAgrees'
    BY <2>1 DEF MessageAgrees, Trusted, ToResponder
  <2> QED
    BY <1>1, <1>3, <2>1, <2>2, RespondInv DEF TypeOK
<1>4. CASE wire' = ack /\ UNCHANGED pget
  <2>1. ChunkSendAckAgrees' \/ wire'.type = "RESPONSE"
    BY <1>1, <1>2, <1>4, LargeSize DEF ChunkSendAckAgrees, Large
  <2>2. Trusted(wire)'
    BY <1>2, <1>4 DEF Trusted
  <2>3. MessageAgrees'
    BY <1>4, <2>1, <2>2 DEF MessageAgrees, ToResponder
  <2> QED
    BY <1>1, <1>4, <2>3, RespondInv DEF TypeOK
<1>5. CASE /\ size > Back /\ pget' = PGetInfo(TRUE, NextHandle(pget.handle), 0, a, 0)
           /\ wire' = Message("REQ", "LARGE_RESPONSE", NextHandle(pget.handle), 0, FALSE, 0, <<>>)
  <2>1. NextHandle(pget.handle) \in Handles
    BY <1>1, HandleType DEF TypeOK, PGetInfos
  <2> DEFINE handle == NextHandle(pget.handle)
  <2> HIDE DEF handle
  <2>2. pget' \in PGetInfos /\ wire' \in Messages
    BY <1>5, <2>1, PGetInfoType, MessageType, NoMessageType, Zenon DEF MessageTypes, handle
  <2>3. /\ pget'.inUse /\ pget'.handle = handle /\ pget'.seq = 0 /\ pget'.data = a
        /\ pget'.done = 0
    BY <1>5 DEF PGetInfo, handle
  <2>4. wire'.to = "REQ" /\ wire'.type = "LARGE_RESPONSE" /\ wire'.handle = handle
    BY <1>5 DEF Message, handle
  <2>5. Len(a) \in Nat /\ Len(a) > Back - Header - SizeField /\ Len(a) > 0
    <3>1. Len(a) \in Nat
      BY LenProperties
    <3> QED
      BY <1>5, <3>1, Buffers
  <2>6. SubSeq(a, 1, 0) = <<>>
    BY SubSeqEmpty
  <2>7. GetAgrees(wire.handle, 0, 0, <<>>)'
    BY <2>3, <2>4, <2>5, <2>6 DEF GetAgrees, Back
  <2>8. MessageAgrees'
    BY <1>1, <1>2, <2>4, <2>7 DEF MessageAgrees, Trusted, ToResponder
  <2> QED
    BY <2>2, <2>8, RespondInv
<1> QED
  BY <1>3, <1>4, <1>5, Zenon DEF Reply

LEMMA AppendEmpty ==
    ASSUME NEW x
    PROVE  Append(<<>>, x) = <<x>>
OBVIOUS

LEMMA RespondVersionInv ==
    ASSUME Inv, RespondVersion
    PROVE  Inv' /\ served = <<>> /\ served' = <<request>> /\ answer' = Body("VERSION", id, 1)
<1> DEFINE a == Body("VERSION", id, 1)
<1>1. /\ Respond /\ wire.type = "REQUEST" /\ wire' = Message("REQ", "RESPONSE", 0, 0, FALSE, 0, a)
      /\ answer' = a /\ served' = Append(served, wire.body) /\ Opcode(wire.body) = "GET_VERSION"
      /\ psend' = PSendInfo(FALSE, psend.handle, 0, 0, <<>>)
      /\ pget' = PGetInfo(FALSE, pget.handle, 0, <<>>, 0)
  BY DEF RespondVersion, Handled
<1>2. TypeOK /\ wire.body = request /\ NotTwice /\ UNCHANGED request
  BY <1>1, RespondFacts
<1>3. served = <<>>
  BY <1>1, <1>2 DEF NotTwice
<1>4. served' = <<request>>
  BY <1>1, <1>2, <1>3, AppendEmpty
<1>5. a \in Seq(Bytes)
  <2>1. 1 \in Nat \ {0} /\ id \in {0, 1} /\ "VERSION" \in RequestCodes \cup AnswerCodes
    BY <1>2 DEF TypeOK, AnswerCodes
  <2> QED
    BY <2>1, BodyType
<1> HIDE DEF a
<1>6. psend' \in PSendInfos /\ pget' \in PGetInfos /\ wire' \in Messages
  <2>1. psend.handle \in Handles /\ pget.handle \in Handles
    BY <1>2 DEF TypeOK, PSendInfos, PGetInfos
  <2> QED
    BY <1>1, <1>5, <2>1, PSendInfoType, PGetInfoType, MessageType, NoMessageType, HandleType, Zenon
    DEF MessageTypes
<1>7. wire'.to = "REQ" /\ wire'.type = "RESPONSE" /\ wire'.body = a
  BY <1>1 DEF Message
<1>8. MessageAgrees'
  BY <1>1, <1>2, <1>4, <1>7, Zenon DEF MessageAgrees, Trusted, Served, ToResponder
<1> QED
  BY <1>1, <1>3, <1>4, <1>5, <1>6, <1>8, RespondInv DEF a

LEMMA RespondCapabilitiesInv ==
    ASSUME Inv, RespondCapabilities
    PROVE  Inv' /\ served = <<>> /\ served' = <<request>> /\ answer' = Body("CAPABILITIES", id, 1)
<1> DEFINE a == Body("CAPABILITIES", id, 1)
<1>1. /\ Respond /\ wire.type = "REQUEST" /\ wire' = Message("REQ", "RESPONSE", 0, 0, FALSE, 0, a)
      /\ answer' = a /\ served' = Append(served, wire.body) /\ ~Interrupts
      /\ UNCHANGED <<psend, pget>>
  BY DEF RespondCapabilities, Handled, ToResponder
<1>2. TypeOK /\ wire.body = request /\ served = <<>> /\ UNCHANGED request
  BY <1>1, RespondFacts
<1>3. served' = <<request>>
  BY <1>1, <1>2, AppendEmpty
<1>4. a \in Seq(Bytes)
  <2>1. 1 \in Nat \ {0} /\ id \in {0, 1} /\ "CAPABILITIES" \in RequestCodes \cup AnswerCodes
    BY <1>2 DEF TypeOK, AnswerCodes
  <2> QED
    BY <2>1, BodyType
<1> HIDE DEF a
<1>5. wire' \in Messages
  BY <1>1, <1>4, MessageType, HandleType, Zenon DEF MessageTypes
<1>6. wire'.to = "REQ" /\ wire'.type = "RESPONSE" /\ wire'.body = a
  BY <1>1 DEF Message
<1>7. MessageAgrees'
  BY <1>1, <1>2, <1>3, <1>6, Zenon DEF MessageAgrees, Trusted, Served, ToResponder
<1> QED
  BY <1>1, <1>2, <1>3, <1>4, <1>5, <1>7, RespondInv DEF a, TypeOK

LEMMA RespondRequestInv ==
    ASSUME Inv, NEW size \in RspSizes, RespondRequest(size)
    PROVE  Inv' /\ served = <<>> /\ served' = <<request>> /\ answer' = Body("RESPONSE", id, size)
<1> DEFINE a == Body("RESPONSE", id, size)
           ack == Message("REQ", "RESPONSE", 0, 0, FALSE, 0, a)
<1>1. /\ Respond /\ wire.type = "REQUEST" /\ Opcode(wire.body) = "REQUEST" /\ ~Interrupts
      /\ answer' = a /\ served' = Append(served, wire.body) /\ Reply(a, ack, size)
      /\ UNCHANGED psend
  BY Zenon DEF RespondRequest, Handled, ToResponder
<1>2. TypeOK /\ wire.body = request /\ served = <<>>
  BY <1>1, RespondFacts
<1>3. served' = <<request>>
  BY <1>1, <1>2, AppendEmpty
<1>4. size \in Nat /\ size \in Nat \ {0}
  BY ChunkAssumption
<1>5. a \in Seq(Bytes) /\ Len(a) = size
  BY <1>2, <1>4, BodyType, ZenonT(40) DEF TypeOK, AnswerCodes
<1> HIDE DEF a
<1>6. ack \in Messages
  BY <1>5, MessageType, HandleType, Zenon DEF MessageTypes
<1>7. ack.to = "REQ" /\ ack.type = "RESPONSE" /\ ack.body = a
  BY DEF Message
<1>8. Len(a) >= size - Ack
  BY <1>4, <1>5, Buffers
<1> HIDE DEF ack
<1>9. Inv'
  BY <1>1, <1>2, <1>3, <1>4, <1>5, <1>6, <1>7, <1>8, ReplyInv DEF TypeOK
<1> QED
  BY <1>1, <1>2, <1>3, <1>9 DEF a

(* The chunks that a Responder has put together are those that were sent.  *)
LEMMA AssembledPrefix ==
    ASSUME Inv, RespondChunkSend, Good(wire)
    PROVE  /\ Assembled = SubSeq(request, 1, send.done) /\ AssembledSize = Len(request)
           /\ Assembled \in Seq(Bytes) /\ Len(Assembled) = send.done
           /\ send.done \in 1 .. Len(request) /\ Len(request) \in Nat
           /\ send.done = Len(request) => Assembled = request
<1>1. TypeOK /\ ChunkSendAgrees
  BY RespondFacts DEF RespondChunkSend, ToResponder
<1>2. request \in Seq(Bytes) /\ Len(request) \in Nat /\ send.done \in 1 .. Len(request)
  BY <1>1, LenProperties, Zenon DEF TypeOK, ChunkSendAgrees
<1>3. Assembled = SubSeq(request, 1, send.done) /\ AssembledSize = Len(request)
  <2>1. CASE psend.inUse
    <3>1. wire.seq # 0
      BY <2>1 DEF Good, GoodNext
    <3>2. send.seq # 0
      BY <1>1, <3>1, SentType DEF ChunkSendAgrees
    <3>3. PICK done \in 0 .. send.done :
            SendAgrees(send.seq - 1, done) /\ wire.body = SubSeq(request, done + 1, send.done)
      BY <1>1, <3>2 DEF ChunkSendAgrees
    <3>4. done \in 0 .. Len(request) /\ send.done \in done .. Len(request)
      BY <1>2, <3>3
    <3>5. psend.buf = SubSeq(request, 1, done)
      BY <2>1, <3>3 DEF SendAgrees
    <3>6. SubSeq(request, 1, done) \o SubSeq(request, done + 1, send.done)
            = SubSeq(request, 1, send.done)
      BY <1>2, <3>4, Extend, Zenon
    <3>7. psend.buf \o wire.body = SubSeq(request, 1, send.done)
      BY <3>3, <3>5, <3>6, Zenon
    <3> QED
      BY <2>1, <3>3, <3>7, ZenonT(40) DEF Assembled, AssembledSize, SendAgrees
  <2>2. CASE ~psend.inUse
    <3>1. send.seq = 0
      BY <1>1, <2>2 DEF ChunkSendAgrees, SendAgrees
    <3> QED
      BY <1>1, <2>2, <3>1 DEF ChunkSendAgrees, Assembled, AssembledSize
  <2> QED
    BY <2>1, <2>2
<1>4. send.done \in 0 .. Len(request)
  BY <1>2
<1> QED
  BY <1>2, <1>3, <1>4, Prefix

LEMMA AcknowledgeType ==
    ASSUME TypeOK, NEW early \in BOOLEAN, NEW body \in Seq(Bytes)
    PROVE  LET m == Acknowledge(early, body)
           IN  m \in Messages /\ m.to = "REQ" /\ m.type = "CHUNK_SEND_ACK" /\ m.last = early
               /\ m.body = body
<1>1. wire.handle \in Handles /\ wire.seq \in Nat
  BY DEF TypeOK, Messages
<1>2. Acknowledge(early, body) \in Messages
  BY <1>1, MessageType DEF Acknowledge, MessageTypes
<1> QED
  BY <1>2 DEF Acknowledge, Message

LEMMA EarlyErrorInv ==
    ASSUME Inv, EarlyErrorDetected
    PROVE  Inv'
<1>1. /\ TypeOK /\ Respond /\ psend' = PSendInfo(FALSE, 0, 0, 0, <<>>)
      /\ wire' = Acknowledge(TRUE, <<>>) /\ UNCHANGED <<pget, answer>>
  BY DEF Inv, EarlyErrorDetected, RespondChunkSend, history
<1>2. psend' \in PSendInfos
  BY <1>1, PSendInfoType, HandleType, NoMessageType, Zenon
<1>3. wire' \in Messages /\ wire'.to = "REQ" /\ wire'.type = "CHUNK_SEND_ACK" /\ wire'.last
  BY <1>1, AcknowledgeType, NoMessageType, Zenon
<1>4. MessageAgrees'
  BY <1>3 DEF MessageAgrees, Trusted, ToResponder
<1> QED
  BY <1>1, <1>2, <1>3, <1>4, RespondInv DEF TypeOK

LEMMA StoreChunkInv ==
    ASSUME Inv, StoreChunk
    PROVE  Inv'
<1>1. /\ RespondChunkSend /\ Respond /\ Good(wire) /\ Len(Assembled) # AssembledSize
      /\ psend' = PSendInfo(~wire.last, wire.handle, wire.seq, AssembledSize, Assembled)
      /\ wire' = Acknowledge(FALSE, <<>>) /\ UNCHANGED <<pget, answer, served>>
  BY DEF StoreChunk, RespondChunkSend, history
<1>2. TypeOK /\ ChunkSendAgrees /\ UNCHANGED <<request, send>>
  BY <1>1, RespondFacts DEF RespondChunkSend, ToResponder
<1>3. /\ Assembled = SubSeq(request, 1, send.done) /\ AssembledSize = Len(request)
      /\ Assembled \in Seq(Bytes) /\ Len(Assembled) = send.done
      /\ send.done \in 1 .. Len(request) /\ Len(request) \in Nat
  BY <1>1, AssembledPrefix
<1>4. send.done < Len(request) /\ ~wire.last
  <2>1. send.done < Len(request) /\ send.done # Len(request)
    BY <1>1, <1>3
  <2> QED
    BY <1>2, <2>1, Zenon DEF ChunkSendAgrees
<1>5. psend' \in PSendInfos
  <2>1. wire.handle \in Handles /\ wire.seq \in Nat /\ (~wire.last) \in BOOLEAN
    BY <1>2 DEF TypeOK, Messages
  <2> QED
    BY <1>1, <1>3, <2>1, PSendInfoType, Zenon
<1>6. /\ psend'.inUse /\ psend'.handle = wire.handle /\ psend'.seq = wire.seq
      /\ psend'.size = Len(request) /\ psend'.buf = SubSeq(request, 1, send.done)
  BY <1>1, <1>3, <1>4, Zenon DEF PSendInfo
<1>7. wire' \in Messages /\ wire'.to = "REQ" /\ wire'.type = "CHUNK_SEND_ACK"
  BY <1>1, <1>2, AcknowledgeType, NoMessageType, ZenonT(40)
<1>8. ChunkSendAckAgrees'
  <2>1. SendAgrees(send.seq, send.done)'
    BY <1>2, <1>6 DEF SendAgrees, ChunkSendAgrees
  <2>2. NotTwice' /\ Large(request)'
    BY <1>1, <1>2 DEF ChunkSendAgrees, NotTwice, Served, Large
  <2> QED
    BY <1>2, <1>3, <1>4, <2>1, <2>2 DEF ChunkSendAckAgrees
<1>9. MessageAgrees'
  BY <1>7, <1>8 DEF MessageAgrees, Trusted, ToResponder
<1> QED
  BY <1>1, <1>2, <1>5, <1>7, <1>9, RespondInv DEF TypeOK

LEMMA RespondLargeRequestInv ==
    ASSUME Inv, NEW size \in RspSizes, RespondLargeRequest(size)
    PROVE  Inv' /\ served = <<>> /\ served' = <<request>> /\ answer' = Body("RESPONSE", id, size)
<1> DEFINE a == Body("RESPONSE", id, size)
           ack == Acknowledge(FALSE, a)
<1>1. /\ RespondChunkSend /\ Respond /\ Good(wire) /\ Len(Assembled) = AssembledSize
      /\ psend' = PSendInfo(FALSE, 0, 0, 0, <<>>) /\ answer' = a
      /\ served' = Append(served, Assembled) /\ Reply(a, ack, Ack + size)
      /\ wire.type = "CHUNK_SEND" /\ ~Interrupts
  BY Zenon DEF RespondLargeRequest, RespondChunkSend, Handled, ToResponder
<1>2. TypeOK /\ ChunkSendAgrees /\ served = <<>>
  BY <1>1, RespondFacts
<1>3. send.done = Len(request) /\ Assembled = request
  BY <1>1, AssembledPrefix
<1>4. served' = <<request>>
  BY <1>1, <1>2, <1>3, AppendEmpty
<1>5. size \in Nat \ {0} /\ Ack + size \in Nat
  BY ChunkAssumption, Buffers
<1>6. a \in Seq(Bytes) /\ Len(a) = size
  BY <1>2, <1>5, BodyType, ZenonT(40) DEF TypeOK, AnswerCodes
<1> HIDE DEF a
<1>7. /\ ack \in Messages /\ ack.to = "REQ" /\ ack.type = "CHUNK_SEND_ACK"
      /\ ack.body = a
  BY <1>2, <1>6, AcknowledgeType, Zenon
<1>8. Large(request) /\ Opcode(request) = "REQUEST"
  BY <1>2, LargeSize DEF ChunkSendAgrees
<1>9. Len(a) >= (Ack + size) - Ack
  BY <1>5, <1>6, Buffers
<1>10. psend' \in PSendInfos
  BY <1>1, PSendInfoType, HandleType, NoMessageType, Zenon
<1> HIDE DEF ack
<1>11. Inv'
  BY <1>1, <1>3, <1>4, <1>5, <1>6, <1>7, <1>8, <1>9, <1>10, ReplyInv, ZenonT(40)
<1> QED
  BY <1>1, <1>2, <1>4, <1>11 DEF a

LEMMA RespondChunkGetInv ==
    ASSUME Inv, RespondChunkGet
    PROVE  Inv'
<1> DEFINE size == Len(pget.data)
           n == IF wire.seq = 0 THEN Back - Header - SizeField
                ELSE Least(Back - Header, size - pget.done)
           done == pget.done + n
           body == SubSeq(pget.data, pget.done + 1, done)
<1>1. Respond /\ wire.type = "CHUNK_GET" /\ UNCHANGED <<psend, served, answer>>
  BY Zenon DEF RespondChunkGet, ToResponder, history
<1>2. TypeOK /\ ChunkGetAgrees /\ UNCHANGED <<request, get>>
  BY <1>1, RespondFacts
<1>3. CASE \E code \in ErrorCodes : wire' = Error(code) /\ UNCHANGED pget
  BY <1>1, <1>2, <1>3, ErrorInv DEF TypeOK
<1>4. CASE /\ wire' = Message("REQ", "CHUNK_RESPONSE", pget.handle, Sent(pget.seq),
                              done = size, IF wire.seq = 0 THEN size ELSE 0, body)
           /\ pget' = IF done = size
                      THEN PGetInfo(FALSE, NextHandle(pget.handle), 0, <<>>, 0)
                      ELSE PGetInfo(TRUE, pget.handle, pget.seq + 1, pget.data, done)
  <2>1. /\ pget.data = answer /\ answer \in Seq(Bytes) /\ size \in Nat /\ size = Len(answer)
        /\ pget.handle = get.handle /\ pget.handle \in Handles
        /\ pget.seq \in Nat /\ pget.seq = get.seq
        /\ pget.done \in 0 .. size /\ pget.done < size
        /\ get.buf = SubSeq(answer, 1, pget.done)
        /\ size > Back - Header - SizeField
    BY <1>2, LenProperties DEF ChunkGetAgrees, GetAgrees, TypeOK, PGetInfos
  <2>2. /\ wire.seq = 0 <=> get.seq = 0
        /\ get.seq = 0 => pget.done = 0
        /\ get.seq # 0 => get.size = size
    BY <1>2, <2>1, SentType, ZenonT(40) DEF ChunkGetAgrees, GetAgrees
  <2>3. done \in pget.done + 1 .. size
    BY <2>1, <2>2, Buffers DEF Least
  <2> DEFINE wsize == IF wire.seq = 0 THEN size ELSE 0
  <2> HIDE DEF n, done, size
  <2>4. /\ done \in Nat /\ done \in pget.done .. size /\ done > 0
    BY <2>1, <2>3 DEF size
  <2>5. /\ body \in Seq(Bytes) /\ get.buf \o body = SubSeq(answer, 1, done)
        /\ done = size => get.buf \o body = answer
    <3>1. /\ SubSeq(answer, pget.done + 1, done) \in Seq(Bytes)
          /\ SubSeq(answer, 1, pget.done) \o SubSeq(answer, pget.done + 1, done)
               = SubSeq(answer, 1, done)
      BY <2>1, <2>4, Extend, ZenonT(40)
    <3>2. done = size => SubSeq(answer, 1, done) = answer
      BY <2>1, <2>4, Prefix
    <3> QED
      BY <2>1, <3>1, <3>2, Zenon
  <2> HIDE DEF body
  <2>6. wsize \in Nat /\ (done = size) \in BOOLEAN /\ Sent(pget.seq) \in Nat
    BY <2>1, SentType, Zenon
  <2> HIDE DEF wsize
  <2>7. wire' \in Messages
    <3>1. wire' = Message("REQ", "CHUNK_RESPONSE", pget.handle, Sent(pget.seq), done = size,
                          wsize, body)
      BY <1>4, Zenon DEF wsize
    <3> QED
      BY <2>1, <2>5, <2>6, <3>1, MessageType, ZenonT(40) DEF MessageTypes
  <2>8. /\ wire'.to = "REQ" /\ wire'.type = "CHUNK_RESPONSE" /\ wire'.last = (done = size)
        /\ wire'.size = wsize /\ wire'.body = body
    BY <1>4, ZenonT(40) DEF Message, wsize
  <2>9. pget' \in PGetInfos
    <3>1. pget.seq + 1 \in Nat /\ NextHandle(pget.handle) \in Handles
      BY <2>1, HandleType
    <3> QED
      BY <1>4, <2>1, <2>4, <3>1, PGetInfoType, NoMessageType, Zenon
  <2>10. (IF get.seq = 0 THEN wsize ELSE get.size) = Len(answer)
    BY <2>1, <2>2 DEF wsize
  <2>11. done # size => GetAgrees(get.handle, get.seq + 1, Len(answer), get.buf \o wire.body)'
    <3> SUFFICES ASSUME done # size
                 PROVE  GetAgrees(get.handle, get.seq + 1, Len(answer), get.buf \o wire.body)'
      OBVIOUS
    <3>1. /\ pget'.inUse /\ pget'.handle = pget.handle /\ pget'.seq = pget.seq + 1
          /\ pget'.data = pget.data /\ pget'.done = done
      BY <1>4, ZenonT(40) DEF PGetInfo
    <3>2. done < size /\ pget.seq + 1 # 0
      BY <2>1, <2>4
    <3> QED
      BY <1>1, <1>2, <2>1, <2>4, <2>5, <2>8, <3>1, <3>2 DEF GetAgrees, Back
  <2>12. ChunkResponseAgrees'
    BY <1>1, <1>2, <2>5, <2>8, <2>10, <2>11, ZenonT(40) DEF ChunkResponseAgrees, ChunkGetAgrees, Served
  <2>13. MessageAgrees'
    BY <2>8, <2>12 DEF MessageAgrees, Trusted, ToResponder
  <2> QED
    BY <1>1, <1>2, <2>7, <2>9, <2>13, RespondInv DEF TypeOK
<1> QED
  BY <1>3, <1>4, Zenon DEF RespondChunkGet, ErrorCodes

-----------------------------------------------------------------------------
(* The steps of neither end.                                               *)

LEMMA LoseInv ==
    ASSUME Inv, Lose
    PROVE  Inv'
<1>1. /\ TypeOK /\ CallAgrees /\ wire' \in Messages /\ wire'.to = "-"
      /\ UNCHANGED <<pc, request, result, id, send, get, psend, pget, served, answer>>
  BY NoMessageType DEF Inv, TransferAgreement, Lose, callVars, rspVars, history
<1>2. TypeOK'
  BY <1>1 DEF TypeOK
<1>3. CallAgrees'
  BY <1>1, Zenon DEF CallAgrees, Between, NotTwice, Served, Large, SendAgrees, Trusted, GetAgrees
<1>4. MessageAgrees'
  BY <1>1 DEF MessageAgrees, ToResponder
<1> QED
  BY <1>2, <1>3, <1>4 DEF Inv, TransferAgreement

LEMMA FrameInv ==
    ASSUME Inv,
           UNCHANGED <<pc, request, result, id, send, get, psend, pget, wire, served, answer>>
    PROVE  Inv'
<1>1. TypeOK'
  BY DEF Inv, TypeOK
<1>2. CallAgrees'
  BY ZenonT(40) DEF Inv, TransferAgreement, CallAgrees, Between, NotTwice, Served, Large, SendAgrees,
         Trusted, GetAgrees
<1>3. MessageAgrees'
  BY ZenonT(40) DEF Inv, TransferAgreement, MessageAgrees, ToResponder, NotTwice, Served, Large,
         SendAgrees, Trusted, GetAgrees, ChunkSendAgrees, ChunkGetAgrees, ChunkSendAckAgrees,
         ChunkResponseAgrees
<1> QED
  BY <1>1, <1>2, <1>3 DEF Inv, TransferAgreement

LEMMA NextInv ==
    ASSUME Inv, [Next]_vars
    PROVE  Inv'
<1>1. ASSUME NEW code \in RequestCodes, NEW size \in ReqSizes, Issue(code, size)
      PROVE  Inv'
  BY <1>1, IssueInv
<1>2. CASE RequesterStep
  BY <1>2, SendSmallInv, StartLargeInv, SendChunkInv, ReceiveAckInv, ReceiveStoredInv,
     ReceiveDirectInv, SendChunkGetInv, ReceiveChunkInv, TimeoutInv DEF RequesterStep
<1>3. CASE ResponderStep
  BY <1>3, RefuseInv, RespondVersionInv, RespondCapabilitiesInv, RespondRequestInv,
     RespondLargeRequestInv, EarlyErrorInv, StoreChunkInv, RespondChunkGetInv DEF ResponderStep
<1>4. CASE (\E state \in ResponseStates : Hold(state)) \/ Resume \/ UNCHANGED vars
  BY <1>4, FrameInv DEF Hold, Resume, vars, callVars, rspVars, history
<1>5. CASE Lose
  BY <1>5, LoseInv
<1> QED
  BY <1>1, <1>2, <1>3, <1>4, <1>5 DEF Next, RequestCodes

(* The two ends of a transfer agree at every point of it, whatever the     *)
(* sizes of messages and buffers and however the transfer is disturbed.    *)
THEOREM TransfersAgree == Spec => [](TypeOK /\ TransferAgreement)
<1>1. Init => Inv
  BY InitInv
<1>2. Inv /\ [Next]_vars => Inv'
  BY NextInv
<1> QED
  BY <1>1, <1>2, PTL DEF Spec, Inv

(* What either end keeps of a transfer stays within the bounds of the      *)
(* message and the width of its field.                                     *)
THEOREM TypeCorrect == Spec => []TypeOK
BY TransfersAgree, PTL

-----------------------------------------------------------------------------
(* The refinement: a step of Chunk is a step of Exchange or a stutter.     *)

LEMMA Stutters ==
    ASSUME UNCHANGED <<request, served, answer, result>>, (pc # "idle") = (pc' # "idle")
    PROVE  UNCHANGED Calls!vars
BY DEF Calls!vars

LEMMA FailsCall ==
    ASSUME pc # "idle", pc' = "idle", UNCHANGED <<request, served, answer, result>>
    PROVE  Calls!Fail
BY DEF Calls!Fail

LEMMA ReturnsAnswer ==
    ASSUME pc # "idle", NEW body, Return(body), Served, body = answer, UNCHANGED <<served, answer>>
    PROVE  Calls!Succeed
BY DEF Calls!Succeed, Return, Served

LEMMA FailsOrRetries ==
    ASSUME pc # "idle", result = <<>>, NEW code, FailWith(code), UNCHANGED <<served, answer>>
    PROVE  Calls!Fail \/ UNCHANGED Calls!vars
<1>1. UNCHANGED <<request, result>>
  BY DEF FailWith, Fail
<1>2. CASE pc' = "idle"
  BY <1>1, <1>2, FailsCall
<1>3. CASE pc' # "idle"
  BY <1>1, <1>3, Stutters
<1> QED
  BY <1>2, <1>3

LEMMA ServesCall ==
    ASSUME Inv, Respond, served = <<>>, served' = <<request>>, NEW code \in AnswerCodes,
           NEW size \in RspSizes, answer' = Body(code, id, size)
    PROVE  Calls!Next
<1>1. pc # "idle" /\ id \in {0, 1} /\ UNCHANGED <<pc, request, result>>
  BY RespondFacts DEF TypeOK
<1>2. Calls!Serve(answer')
  BY <1>1 DEF Calls!Serve
<1>3. answer' \in {Body(c, i, s) : c \in AnswerCodes, i \in {0, 1}, s \in RspSizes}
  BY <1>1
<1> QED
  BY <1>2, <1>3 DEF Calls!Next

LEMMA IssueImplements ==
    ASSUME Inv, NEW code \in RequestCodes, NEW size \in ReqSizes, Issue(code, size)
    PROVE  Calls!Next
<1>1. Calls!Issue(Body(code, 1 - id, size))
  BY DEF Issue, Calls!Issue
<1>2. 1 - id \in {0, 1}
  BY DEF Inv, TypeOK
<1>3. Body(code, 1 - id, size) \in {Body(c, i, s) : c \in RequestCodes, i \in {0, 1}, s \in ReqSizes}
  BY <1>2
<1> QED
  BY <1>1, <1>3 DEF Calls!Next

LEMMA ReceiveResponseImplements ==
    ASSUME NEW m, NEW fromChunk, ReceiveResponse(m, fromChunk), Trusted(m), pc # "idle",
           result = <<>>, UNCHANGED <<served, answer>>
    PROVE  Calls!Succeed \/ Calls!Fail \/ UNCHANGED Calls!vars
<1>1. CASE m.type = "RESPONSE" /\ Return(m.body)
  BY <1>1, ReturnsAnswer DEF Trusted
<1>2. CASE pc' = "get" /\ UNCHANGED <<request, result>>
  BY <1>2, Stutters
<1>3. CASE FailWith(m.type)
  BY <1>3, FailsOrRetries
<1> QED
  BY <1>1, <1>2, <1>3 DEF ReceiveResponse

LEMMA ReceiveChunkImplements ==
    ASSUME Inv, ReceiveChunk
    PROVE  Calls!Succeed \/ Calls!Fail \/ UNCHANGED Calls!vars
<1> DEFINE buf == get.buf \o wire.body
           size == IF get.seq = 0 THEN wire.size ELSE get.size
           more == Len(buf) < size /\ ~wire.last
<1>1. /\ TypeOK /\ result = <<>> /\ UNCHANGED <<served, answer>> /\ pc # "idle"
      /\ wire.type = "CHUNK_RESPONSE" => ChunkResponseAgrees
  BY ReceiveChunkFacts, Zenon DEF ReceiveChunk
<1>2. CASE GoodChunk(wire) /\ ~more /\ Len(buf) = size /\ Return(buf)
  <2>1. ChunkResponseAgrees /\ size = Len(answer)
    BY <1>1, <1>2, Zenon DEF GoodChunk, ChunkResponseAgrees
  <2>2. wire.last
    <3> SUFFICES ASSUME ~wire.last PROVE FALSE
      OBVIOUS
    <3>1. pget.done < Len(answer) /\ buf = SubSeq(answer, 1, pget.done)
      BY <2>1, Zenon DEF ChunkResponseAgrees, GetAgrees
    <3>2. pget.done \in 0 .. Len(answer) /\ answer \in Seq(Bytes)
      BY <1>1, <3>1, LenProperties DEF TypeOK, PGetInfos
    <3>3. Len(buf) = pget.done
      BY <3>1, <3>2, Prefix
    <3> HIDE DEF buf, size
    <3> QED
      BY <1>2, <2>1, <3>1, <3>2, <3>3
  <2>3. Served /\ buf = answer
    BY <2>1, <2>2, ZenonT(40) DEF ChunkResponseAgrees
  <2> QED
    BY <1>1, <1>2, <2>3, ReturnsAnswer
<1>3. CASE pc' = "get" /\ UNCHANGED <<request, result>>
  BY <1>1, <1>3, Stutters
<1>4. CASE FailWith(wire.type)
  BY <1>1, <1>4, FailsOrRetries
<1> QED
  BY <1>2, <1>3, <1>4, Zenon DEF ReceiveChunk

LEMMA RequesterImplements ==
    ASSUME Inv, RequesterStep
    PROVE  Calls!Succeed \/ Calls!Fail \/ UNCHANGED Calls!vars
<1>1. CASE SendSmall \/ StartLarge \/ SendChunk \/ SendChunkGet \/ Timeout
  <2>1. pc # "idle" /\ result = <<>>
    BY <1>1, Zenon DEF Inv, TransferAgreement, CallAgrees, SendSmall, StartLarge, SendChunk,
                SendChunkGet, Timeout
  <2>2. UNCHANGED <<request, served, answer, result>>
    BY <1>1, <2>1, Zenon DEF SendSmall, StartLarge, SendChunk, SendChunkGet, Timeout, Fail, history
  <2> QED
    BY <2>1, <2>2, FailsCall, Stutters
<1>2. CASE ReceiveAck
  <2>1. pc # "idle" /\ result = <<>> /\ UNCHANGED <<served, answer>>
    BY <1>2 DEF Inv, TransferAgreement, CallAgrees, ReceiveAck, Take, history
  <2>2. CASE pc' \in {"recv", "chunks"} /\ UNCHANGED <<request, result>>
    BY <2>1, <2>2, Stutters
  <2>3. CASE FailWith(wire.type)
    BY <2>1, <2>3, FailsOrRetries
  <2> QED
    BY <1>2, <2>2, <2>3, Zenon DEF ReceiveAck
<1>3. CASE ReceiveStored
  <2>1. /\ pc # "idle" /\ result = <<>> /\ Trusted(send.stored)
        /\ UNCHANGED <<served, answer>> /\ ReceiveResponse(send.stored, TRUE)
    BY <1>3, Zenon DEF Inv, TransferAgreement, CallAgrees, ReceiveStored, history
  <2> QED
    BY <2>1, ReceiveResponseImplements, Zenon
<1>4. CASE ReceiveDirect
  <2>1. /\ pc # "idle" /\ result = <<>> /\ Trusted(wire)
        /\ UNCHANGED <<served, answer>> /\ ReceiveResponse(wire, FALSE)
    BY <1>4, Zenon DEF Inv, TransferAgreement, CallAgrees, MessageAgrees, ReceiveDirect, Take, history
  <2> QED
    BY <2>1, ReceiveResponseImplements, Zenon
<1>5. CASE ReceiveChunk
  BY <1>5, ReceiveChunkImplements
<1> QED
  BY <1>1, <1>2, <1>3, <1>4, <1>5 DEF RequesterStep

LEMMA ResponderImplements ==
    ASSUME Inv, ResponderStep
    PROVE  Calls!Next \/ UNCHANGED Calls!vars
<1>1. CASE RespondVersion
  BY <1>1, RespondVersionInv, ServesCall, ChunkAssumption, ZenonT(40) DEF RespondVersion, AnswerCodes
<1>2. CASE RespondCapabilities
  BY <1>2, RespondCapabilitiesInv, ServesCall, ChunkAssumption, ZenonT(40) DEF RespondCapabilities, AnswerCodes
<1>3. ASSUME NEW size \in RspSizes, RespondRequest(size)
      PROVE  Calls!Next
  BY <1>3, RespondRequestInv, ServesCall, Zenon DEF RespondRequest, AnswerCodes
<1>4. ASSUME NEW size \in RspSizes, RespondLargeRequest(size)
      PROVE  Calls!Next
  BY <1>4, RespondLargeRequestInv, ServesCall, Zenon
  DEF RespondLargeRequest, RespondChunkSend, AnswerCodes
<1>5. CASE \/ RespondInterrupts \/ RespondHeld \/ RespondUnexpected
           \/ EarlyErrorDetected \/ StoreChunk \/ RespondChunkGet
  <2>1. Respond /\ UNCHANGED <<served, answer>>
    BY <1>5, Zenon DEF RespondInterrupts, RespondHeld, RespondUnexpected, Refuse, EarlyErrorDetected,
                StoreChunk, RespondChunkSend, RespondChunkGet, history
  <2> QED
    BY <2>1, Stutters DEF Respond, callVars
<1> QED
  BY <1>1, <1>2, <1>3, <1>4, <1>5 DEF ResponderStep

(* Whatever the sizes of the messages, of the buffers and of the sequence  *)
(* numbers, and whatever is lost, refused or retried, a call of Chunk is a *)
(* call of Exchange: libspdm_handle_large_request, the chunk handlers and  *)
(* libspdm_handle_error_large_response hand over every byte in its place,  *)
(* and the request is handled at most once.                                *)
THEOREM ChunkImplementsExchange == Spec => ImplementsExchange
<1>1. Init => Calls!Init
  BY DEF Init, Calls!Init
<1>2. Inv /\ [Next]_vars => [Calls!Next]_(Calls!vars)
  <2> SUFFICES ASSUME Inv, [Next]_vars PROVE Calls!Next \/ UNCHANGED Calls!vars
    OBVIOUS
  <2>1. ASSUME NEW code \in RequestCodes, NEW size \in ReqSizes, Issue(code, size)
        PROVE  Calls!Next
    BY <2>1, IssueImplements
  <2>2. CASE RequesterStep
    BY <2>2, RequesterImplements DEF Calls!Next
  <2>3. CASE ResponderStep
    BY <2>3, ResponderImplements
  <2>4. CASE (\E state \in ResponseStates : Hold(state)) \/ Resume \/ Lose \/ UNCHANGED vars
    BY <2>4, Stutters DEF Hold, Resume, Lose, vars, callVars, history
  <2> QED
    BY <2>1, <2>2, <2>3, <2>4 DEF Next, RequestCodes
<1>3. Spec => []Inv
  BY TransfersAgree DEF Inv
<1> QED
  BY <1>1, <1>2, <1>3, PTL DEF Spec, ImplementsExchange, Calls!Spec
=============================================================================
