------------------------------- MODULE Chunk --------------------------------
(***************************************************************************)
(* How messages that are larger than a transport buffer are transferred: a *)
(* large request with CHUNK_SEND, a large response with CHUNK_GET, between *)
(* one libspdm Requester and one libspdm Responder outside a session.      *)
(*                                                                         *)
(* A message is the sequence of its bytes; a byte is <<code, id, place>>,  *)
(* where id tells the messages of one call from those of the call before.  *)
(* The Requester waits for the answer to each message, or finds it lost,   *)
(* before it sends another: at most one message is in flight.              *)
(* NEGOTIATE_ALGORITHMS, which leaves the chunk contexts alone, is left    *)
(* out: both ends are READY after GET_CAPABILITIES.                        *)
(*                                                                         *)
(* pc is the Requester's place in its call:                                *)
(*   idle    no call                  recv   libspdm_receive_spdm_response *)
(*   send    about to send            get    about to send a CHUNK_GET     *)
(*   chunks  about to send a chunk    chunk  waits for its CHUNK_RESPONSE  *)
(*   ack     waits for the CHUNK_SEND_ACK                                  *)
(***************************************************************************)
EXTENDS Integers, Sequences

CONSTANTS
    ReqDts, RspDts,    \* data_transfer_size of the two ends
    ReqSend, RspSend,  \* their sender_data_transfer_size
    MinDts,            \* SPDM_MIN_DATA_TRANSFER_SIZE_VERSION_12 (42)
    Header,            \* size of the header of a chunk (12)
    SizeField,         \* size of LargeMessageSize in the first chunk (4)
    Ack,               \* size of a CHUNK_SEND_ACK without response (6 or 8)
    Wide,              \* SPDM 1.4: sequence numbers do not wrap
    SeqCount,          \* number of sequence numbers before 1.4 (65536)
    HandleCount,       \* number of handles (256)
    MaxMsg,            \* max_spdm_msg_size of both ends
    ReqSizes,          \* the sizes of requests
    RspSizes,          \* and of responses
    RetryTimes,        \* spdm_context->retry_times
    ResponseStates,    \* the response_state values the integrator sets
    FaultKinds,        \* faults of the environment that may happen
    MaxFaults,         \* bound: how many of them
    MaxHolds           \* bound: how often response_state leaves NORMAL

ASSUME ChunkAssumption ==
    /\ {Header, SizeField, Ack, RetryTimes, MaxFaults, MaxHolds} \subseteq Nat
    /\ {MinDts, SeqCount, HandleCount, MaxMsg} \subseteq Nat \ {0}
    /\ {ReqDts, RspDts, ReqSend, RspSend} \subseteq {n \in Nat : n >= MinDts}
    /\ MinDts > Header + SizeField
    /\ Ack <= Header + SizeField
    /\ MaxMsg >= RspDts
    /\ ReqSizes \subseteq Nat \ {0} /\ RspSizes \subseteq Nat \ {0}
    /\ 1 \in ReqSizes /\ 1 \in RspSizes
    /\ Wide \in BOOLEAN
    /\ ResponseStates \subseteq {"BUSY", "NOT_READY", "NEED_RESYNC"}
    /\ FaultKinds \subseteq {"SEND", "LOSS"}

VARIABLES
    pc, request, retry, result,  \* the Requester's call
    id,          \* which call it is, modulo 2
    conn,        \* the Requester's connection state
    send,        \* its chunk_context.send
    get,         \* the locals of libspdm_handle_error_large_response
    pconn,       \* the Responder's connection state
    respState,   \* its response_state
    psend,       \* its chunk_context.send
    pget,        \* its chunk_context.get
    wire,        \* the message in flight
    served,      \* history: the requests its handlers were given in this call
    answer,      \* history: the response of that handler
    faults,      \* number of faults so far
    holds,       \* how often response_state left NORMAL
    hit,         \* history: a fault or a hold has touched this call
    dirty        \* history: a call has failed since GET_VERSION succeeded

callVars == <<pc, request, retry, result, id, conn>>
rspVars == <<pconn, respState, psend, pget>>
history == <<served, answer>>
vars == <<callVars, send, get, rspVars, wire, history, faults, holds, hit, dirty>>

-----------------------------------------------------------------------------
(* Messages and sizes.                                                     *)

Body(code, i, size) == [n \in 1 .. size |-> <<code, i, n>>]
Opcode(body) == body[1][1]

Message(to, type, handle, seq, last, size, body) ==
    [to |-> to, type |-> type, handle |-> handle, seq |-> seq, last |-> last,
     size |-> size, body |-> body]
NoMessage == Message("-", "-", 0, 0, FALSE, 0, <<>>)
Error(code) == Message("REQ", code, 0, 0, FALSE, 0, <<>>)
ToResponder(type) == wire.to = "RSP" /\ wire.type = type

Least(m, n) == IF m <= n THEN m ELSE n
Out == Least(RspDts, ReqSend)
Back == Least(ReqDts, RspSend)

(* Faulty variant: one sequence number too few.                            *)
MaxTransferShort(dts) == (dts - Header) * (SeqCount - 1) - SizeField
(* max_chunk_data_transfer_size *)
MaxTransfer(dts) == (dts - Header) * SeqCount - SizeField
Fits(size, dts) == Wide \/ size <= MaxTransfer(dts)

(* chunk_seq_no as it is sent. *)
Sent(seq) == IF Wide THEN seq ELSE seq % SeqCount

(* The size of the chunk that follows the first done of size bytes.        *)
ChunkSize(dts, seq, size, done) ==
    Least(dts - Header, size - done) - IF seq = 0 THEN SizeField ELSE 0

Large(body) ==
    /\ Opcode(body) = "REQUEST"
    /\ Len(body) > RspDts \/ Len(body) > ReqSend

-----------------------------------------------------------------------------
(* The Requester.                                                          *)

SendInfo(inUse, handle, seq, done, stored) ==
    [inUse |-> inUse, handle |-> handle, seq |-> seq, done |-> done, stored |-> stored]
GetInfo(handle, seq, size, buf, fromChunk) ==
    [handle |-> handle, seq |-> seq, size |-> size, buf |-> buf, fromChunk |-> fromChunk]
(* Faulty variant: the handle does not wrap.                               *)
NextHandleWide(handle) == handle + 1
NextHandle(handle) == (handle + 1) % HandleCount

(* The end of a transfer, and libspdm_reset_chunk_info.                    *)
SendDone == SendInfo(FALSE, NextHandle(send.handle), 0, 0, NoMessage)
SendReset == SendInfo(FALSE, send.handle, 0, 0, NoMessage)

Fault(kind) ==
    /\ kind \in FaultKinds /\ faults < MaxFaults
    /\ faults' = faults + 1 /\ hit' = TRUE
NoFault == UNCHANGED <<faults, hit>>

Fail ==
    /\ pc' = "idle" /\ result' = <<>> /\ dirty' = TRUE
    /\ UNCHANGED <<request, retry, id>>

(* Faulty variant: the retries are not counted.                            *)
FailWithNoCount(code) ==
    /\ conn' = IF code = "REQUEST_RESYNCH" THEN "NOT_STARTED" ELSE conn
    /\ \/ /\ code = "BUSY"
          /\ pc' = "send" /\ UNCHANGED <<request, retry, result, id, dirty>>
       \/ code # "BUSY" /\ Fail

(* The retry loop around a libspdm_try_... function, for BUSY_PEER, and    *)
(* libspdm_handle_simple_error_response for the other errors.              *)
FailWith(code) ==
    /\ conn' = IF code = "REQUEST_RESYNCH" THEN "NOT_STARTED" ELSE conn
    /\ \/ /\ code = "BUSY" /\ retry > 0
          /\ pc' = "send" /\ retry' = retry - 1
          /\ UNCHANGED <<request, result, id, dirty>>
       \/ (code # "BUSY" \/ retry = 0) /\ Fail

(* Faulty variant: a response is cut to the size of a transport buffer.    *)
ReturnTruncated(body) ==
    /\ pc' = "idle" /\ result' = SubSeq(body, 1, Least(Len(body), ReqDts))
    /\ UNCHANGED <<conn, dirty, request, retry, id>>

Return(body) ==
    /\ pc' = "idle" /\ result' = body
    /\ conn' = CASE Opcode(request) = "GET_VERSION" -> "AFTER_VERSION"
                 [] Opcode(request) = "GET_CAPABILITIES" -> "READY"
                 [] OTHER -> conn
    /\ dirty' = (dirty /\ Opcode(request) # "GET_VERSION")
    /\ UNCHANGED <<request, retry, id>>

(* The start of a call, with the checks of its connection state.           *)
Issue(code, size) ==
    /\ pc = "idle" /\ pc' = "send" /\ id' = 1 - id
    /\ \/ code = "GET_VERSION" /\ size = 1 /\ conn' = "NOT_STARTED" /\ send' = SendReset
       \/ code = "GET_CAPABILITIES" /\ size = 1 /\ conn = "AFTER_VERSION"
          /\ UNCHANGED <<conn, send>>
       \/ code = "REQUEST" /\ conn = "READY" /\ UNCHANGED <<conn, send>>
    /\ request' = Body(code, 1 - id, size)
    /\ retry' = RetryTimes /\ result' = <<>> /\ served' = <<>> /\ answer' = <<>>
    /\ hit' = (respState # "NORMAL")
    /\ UNCHANGED <<get, rspVars, wire, faults, holds, dirty>>

(* libspdm_send_spdm_request, of a message that is not large.              *)
SendSmall ==
    /\ pc = "send" /\ ~Large(request)
    /\ \/ /\ wire' = Message("RSP", "REQUEST", 0, 0, FALSE, 0, request)
          /\ pc' = "recv" /\ NoFault
          /\ UNCHANGED <<request, retry, result, id, dirty>>
       \/ Fault("SEND") /\ Fail /\ UNCHANGED wire
    /\ UNCHANGED <<conn, send, get, rspVars, history, holds>>

(* The start of libspdm_handle_large_request.                              *)
StartLarge ==
    /\ pc = "send" /\ Large(request)
    /\ \/ /\ Len(request) <= MaxMsg /\ Fits(Len(request), Out)
          /\ pc' = "chunks" /\ send' = SendInfo(TRUE, send.handle, 0, 0, NoMessage)
          /\ UNCHANGED <<request, retry, result, id, dirty>>
       \/ /\ ~(Len(request) <= MaxMsg /\ Fits(Len(request), Out))
          /\ Fail /\ UNCHANGED send
    /\ UNCHANGED <<conn, get, rspVars, wire, history, faults, holds, hit>>

(* Its loop, to the end of libspdm_send_request.                           *)
SendChunk ==
    /\ pc = "chunks"
    /\ LET n == ChunkSize(Out, send.seq, Len(request), send.done)
           done == send.done + n
       IN \/ /\ wire' = Message("RSP", "CHUNK_SEND", send.handle, Sent(send.seq),
                                done >= Len(request),
                                IF send.seq = 0 THEN Len(request) ELSE 0,
                                SubSeq(request, send.done + 1, done))
             /\ send' = SendInfo(TRUE, send.handle, send.seq, done, NoMessage)
             /\ pc' = "ack" /\ NoFault
             /\ UNCHANGED <<request, retry, result, id, dirty>>
          \/ Fault("SEND") /\ Fail /\ send' = SendDone /\ UNCHANGED wire
    /\ UNCHANGED <<conn, get, rspVars, history, holds>>

Take ==
    /\ wire.to = "REQ" /\ wire' = NoMessage
    /\ UNCHANGED <<rspVars, history, faults, holds, hit>>

EarlyError(m) == m.type = "CHUNK_SEND_ACK" /\ m.last

(* The loop, from the answer on.  The response to the request, or the      *)
(* error that stands for it, is stored for libspdm_receive_spdm_response;  *)
(* an ERROR or an answer to another chunk ends the transfer.               *)
ReceiveAck ==
    /\ pc = "ack" /\ Take
    /\ LET stored == CASE wire.type = "LARGE_RESPONSE" -> wire
                       [] EarlyError(wire) -> Error("INVALID_REQUEST")
                       [] OTHER -> Message("REQ", "RESPONSE", 0, 0, FALSE, 0, wire.body)
           mine == /\ wire.type = "CHUNK_SEND_ACK" /\ ~wire.last
                   /\ wire.handle = send.handle /\ wire.seq = Sent(send.seq)
           last == send.done >= Len(request)
           final == wire.type = "LARGE_RESPONSE" \/ EarlyError(wire) \/ (mine /\ last)
       IN \/ /\ final
             /\ send' = SendInfo(TRUE, send.handle, send.seq, send.done, stored)
             /\ pc' = "recv" /\ UNCHANGED <<request, retry, result, id, conn, dirty>>
          \/ /\ mine /\ ~last
             /\ send' = SendInfo(TRUE, send.handle, send.seq + 1, send.done, NoMessage)
             /\ pc' = "chunks" /\ UNCHANGED <<request, retry, result, id, conn, dirty>>
          \/ /\ ~final /\ ~mine
             /\ FailWith(wire.type) /\ send' = SendDone
    /\ UNCHANGED get

(* libspdm_receive_spdm_response, of the response m.                       *)
ReceiveResponse(m, fromChunk) ==
    \/ m.type = "RESPONSE" /\ Return(m.body) /\ UNCHANGED get
    \/ /\ m.type = "LARGE_RESPONSE"
       /\ get' = GetInfo(m.handle, 0, 0, <<>>, fromChunk)
       /\ pc' = "get" /\ UNCHANGED <<request, retry, result, id, conn, dirty>>
    \/ m.type \notin {"RESPONSE", "LARGE_RESPONSE"} /\ FailWith(m.type) /\ UNCHANGED get

ReceiveStored ==
    /\ pc = "recv" /\ send.inUse
    /\ send' = SendDone /\ ReceiveResponse(send.stored, TRUE)
    /\ UNCHANGED <<rspVars, wire, history, faults, holds, hit>>

ReceiveDirect ==
    /\ pc = "recv" /\ ~send.inUse /\ Take
    /\ ReceiveResponse(wire, FALSE) /\ UNCHANGED send

(* libspdm_handle_error_large_response: its loop, to the end of sending.   *)
SendChunkGet ==
    /\ pc = "get"
    /\ LET wrapped == ~Wide /\ Sent(get.seq) = 0 /\ get.buf # <<>>
       IN \/ /\ ~wrapped
             /\ wire' = Message("RSP", "CHUNK_GET", get.handle, Sent(get.seq), FALSE, 0, <<>>)
             /\ pc' = "chunk" /\ NoFault
             /\ UNCHANGED <<request, retry, result, id, dirty>>
          \/ Fail /\ UNCHANGED wire /\ IF wrapped THEN NoFault ELSE Fault("SEND")
    /\ UNCHANGED <<conn, send, get, rspVars, history, holds>>

(* The checks that it makes of a CHUNK_RESPONSE.                           *)
GoodChunk(m) ==
    /\ m.type = "CHUNK_RESPONSE" /\ m.handle = get.handle /\ m.seq = Sent(get.seq)
    /\ IF get.seq = 0
       THEN /\ Header + SizeField + Len(m.body) >= MinDts
            /\ Len(m.body) <= m.size /\ m.size <= MaxMsg /\ Fits(m.size, ReqDts)
            /\ m.size > IF get.fromChunk THEN MinDts - Ack ELSE MinDts
       ELSE /\ Len(m.body) + Len(get.buf) <= get.size
            /\ ~m.last => Header + Len(m.body) >= MinDts

ReceiveChunk ==
    /\ pc = "chunk" /\ Take
    /\ LET buf == get.buf \o wire.body
           size == IF get.seq = 0 THEN wire.size ELSE get.size
           more == Len(buf) < size /\ ~wire.last
       IN \/ /\ GoodChunk(wire) /\ more
             /\ get' = GetInfo(get.handle, get.seq + 1, size, buf, get.fromChunk)
             /\ pc' = "get" /\ UNCHANGED <<request, retry, result, id, conn, dirty>>
          \/ /\ GoodChunk(wire) /\ ~more /\ Len(buf) = size
             /\ Return(buf) /\ UNCHANGED get
          \/ /\ ~(GoodChunk(wire) /\ (more \/ Len(buf) = size))
             /\ FailWith(wire.type) /\ UNCHANGED get
    /\ UNCHANGED send

(* receive_message gives up on an answer that was lost.                    *)
Timeout ==
    /\ pc \in {"recv", "ack", "chunk"} /\ wire.to = "-" /\ ~(pc = "recv" /\ send.inUse)
    /\ Fail /\ send' = (IF pc = "ack" THEN SendDone ELSE send)
    /\ UNCHANGED <<conn, get, rspVars, wire, history, faults, holds, hit>>

-----------------------------------------------------------------------------
(* The Responder: libspdm_build_response and the handlers it calls.        *)

PSendInfo(inUse, handle, seq, size, buf) ==
    [inUse |-> inUse, handle |-> handle, seq |-> seq, size |-> size, buf |-> buf]
PGetInfo(inUse, handle, seq, data, done) ==
    [inUse |-> inUse, handle |-> handle, seq |-> seq, data |-> data, done |-> done]

(* Faulty variant: only a CHUNK_SEND is kept out.                          *)
InterruptsSendOnly ==
    /\ wire.type = "CHUNK_SEND" /\ pget.inUse

(* libspdm_request_interrupts_chunk_transfer *)
Interrupts ==
    /\ ~(wire.type = "REQUEST" /\ Opcode(wire.body) = "GET_VERSION")
    /\ \/ pget.inUse /\ wire.type # "CHUNK_GET"
       \/ psend.inUse /\ wire.type # "CHUNK_SEND"

Refuse(code) ==
    /\ wire' = Error(code)
    /\ UNCHANGED <<pconn, respState, psend, pget, history>>

Respond ==
    /\ wire.to = "RSP"
    /\ UNCHANGED <<callVars, send, get, faults, holds, hit, dirty>>

RespondInterrupts == Respond /\ Interrupts /\ Refuse("UNEXPECTED_REQUEST")

(* The response_state in the way; GET_VERSION ends NEED_RESYNC.            *)
Held ==
    /\ respState # "NORMAL"
    /\ ~(respState = "NEED_RESYNC" /\ wire.type = "REQUEST" /\ Opcode(wire.body) = "GET_VERSION")

RespondHeld ==
    /\ Respond /\ ~Interrupts /\ Held
    /\ \/ respState = "BUSY" /\ Refuse("BUSY")
       \/ respState = "NOT_READY" /\ Refuse("RESPONSE_NOT_READY")
       \/ /\ respState = "NEED_RESYNC" /\ wire' = Error("REQUEST_RESYNCH")
          /\ pconn' = "NOT_STARTED"
          /\ UNCHANGED <<respState, psend, pget, history>>

(* The connection state in the way.                                        *)
RespondUnexpected ==
    /\ Respond /\ ~Interrupts /\ ~Held
    /\ IF wire.type = "REQUEST"
       THEN \/ Opcode(wire.body) = "GET_CAPABILITIES" /\ pconn # "AFTER_VERSION"
            \/ Opcode(wire.body) = "REQUEST" /\ pconn # "READY"
       ELSE pconn # "READY"
    /\ Refuse("UNEXPECTED_REQUEST")

(* The end of libspdm_build_response, for the response a: it is sent as it *)
(* is, after the ack of a CHUNK_SEND where there is one, or kept for       *)
(* CHUNK_GET.                                                              *)
Reply(a, ack, size) ==
    \/ /\ size > MaxMsg
       /\ wire' = Error("RESPONSE_TOO_LARGE") /\ UNCHANGED pget
    \/ /\ size <= MaxMsg /\ size > Back
       /\ LET handle == NextHandle(pget.handle)
          IN /\ pget' = PGetInfo(TRUE, handle, 0, a, 0)
             /\ wire' = Message("REQ", "LARGE_RESPONSE", handle, 0, FALSE, 0, <<>>)
    \/ /\ size <= MaxMsg /\ size <= Back
       /\ wire' = ack /\ UNCHANGED pget

Handled(body, a) == served' = Append(served, body) /\ answer' = a

(* libspdm_get_response_version: reset_context, with both chunk contexts.  *)
RespondVersion ==
    /\ Respond /\ wire.type = "REQUEST" /\ Opcode(wire.body) = "GET_VERSION" /\ ~Held
    /\ LET a == Body("VERSION", id, 1)
       IN  Handled(wire.body, a) /\ wire' = Message("REQ", "RESPONSE", 0, 0, FALSE, 0, a)
    /\ pconn' = "AFTER_VERSION" /\ respState' = "NORMAL"
    /\ psend' = PSendInfo(FALSE, psend.handle, 0, 0, <<>>)
    /\ pget' = PGetInfo(FALSE, pget.handle, 0, <<>>, 0)

RespondCapabilities ==
    /\ Respond /\ ToResponder("REQUEST") /\ Opcode(wire.body) = "GET_CAPABILITIES"
    /\ ~Interrupts /\ ~Held /\ pconn = "AFTER_VERSION"
    /\ LET a == Body("CAPABILITIES", id, 1)
       IN  Handled(wire.body, a) /\ wire' = Message("REQ", "RESPONSE", 0, 0, FALSE, 0, a)
    /\ pconn' = "READY" /\ UNCHANGED <<respState, psend, pget>>

(* Any other handler.                                                      *)
RespondRequest(size) ==
    /\ Respond /\ ToResponder("REQUEST") /\ Opcode(wire.body) = "REQUEST"
    /\ ~Interrupts /\ ~Held /\ pconn = "READY"
    /\ LET a == Body("RESPONSE", id, size)
       IN /\ Handled(wire.body, a)
          /\ Reply(a, Message("REQ", "RESPONSE", 0, 0, FALSE, 0, a), size)
    /\ UNCHANGED <<pconn, respState, psend>>

(* The checks of libspdm_get_response_chunk_send, of a first chunk and of  *)
(* a following one.                                                        *)
GoodFirst(m) ==
    /\ m.seq = 0 /\ ~m.last
    /\ Header + SizeField + Len(m.body) \in MinDts .. RspDts
    /\ m.size > MinDts /\ m.size <= MaxMsg /\ Fits(m.size, RspDts)
GoodNext(m) ==
    /\ m.seq = psend.seq + 1 /\ m.handle = psend.handle /\ m.seq # 0
    /\ Len(m.body) + Len(psend.buf) <= psend.size
    /\ m.last => Len(m.body) + Len(psend.buf) = psend.size
    /\ ~m.last => Header + Len(m.body) \in MinDts .. RspDts
Good(m) == IF psend.inUse THEN GoodNext(m) ELSE GoodFirst(m)

Acknowledge(early, body) ==
    Message("REQ", "CHUNK_SEND_ACK", wire.handle, wire.seq, early, 0, body)

RespondChunkSend ==
    Respond /\ ToResponder("CHUNK_SEND") /\ ~Interrupts /\ ~Held /\ pconn = "READY"

Assembled == IF psend.inUse THEN psend.buf \o wire.body ELSE wire.body
AssembledSize == IF psend.inUse THEN psend.size ELSE wire.size

EarlyErrorDetected ==
    /\ RespondChunkSend /\ ~Good(wire)
    /\ psend' = PSendInfo(FALSE, 0, 0, 0, <<>>)
    /\ wire' = Acknowledge(TRUE, <<>>)
    /\ UNCHANGED <<pconn, respState, pget, history>>

StoreChunk ==
    /\ RespondChunkSend /\ Good(wire) /\ Len(Assembled) # AssembledSize
    /\ psend' = PSendInfo(~wire.last, wire.handle, wire.seq, AssembledSize, Assembled)
    /\ wire' = Acknowledge(FALSE, <<>>)
    /\ UNCHANGED <<pconn, respState, pget, history>>

RespondLargeRequest(size) ==
    /\ RespondChunkSend /\ Good(wire) /\ Len(Assembled) = AssembledSize
    /\ psend' = PSendInfo(FALSE, 0, 0, 0, <<>>)
    /\ LET a == Body("RESPONSE", id, size)
       IN /\ Handled(Assembled, a)
          /\ Reply(a, Acknowledge(FALSE, a), Ack + size)
    /\ UNCHANGED <<pconn, respState>>

(* libspdm_get_response_chunk_get *)
RespondChunkGet ==
    /\ Respond /\ ToResponder("CHUNK_GET") /\ ~Interrupts /\ ~Held /\ pconn = "READY"
    /\ LET size == Len(pget.data)
           n == IF wire.seq = 0 THEN Back - Header - SizeField
                ELSE Least(Back - Header, size - pget.done)
           done == pget.done + n
           mine == pget.inUse /\ wire.handle = pget.handle /\ wire.seq = Sent(pget.seq)
           code == IF ~pget.inUse THEN "UNEXPECTED_REQUEST"
                   ELSE IF ~mine THEN "INVALID_REQUEST" ELSE "RESPONSE_TOO_LARGE"
       IN \/ /\ ~(mine /\ Fits(size, Back))
             /\ wire' = Error(code) /\ UNCHANGED pget
          \/ /\ mine /\ Fits(size, Back)
             /\ wire' = Message("REQ", "CHUNK_RESPONSE", pget.handle, Sent(pget.seq),
                                done = size, IF wire.seq = 0 THEN size ELSE 0,
                                SubSeq(pget.data, pget.done + 1, done))
             /\ pget' = IF done = size
                        THEN PGetInfo(FALSE, NextHandle(pget.handle), 0, <<>>, 0)
                        ELSE PGetInfo(TRUE, pget.handle, pget.seq + 1, pget.data, done)
    /\ UNCHANGED <<pconn, respState, psend, history>>

(* The integrator holds the Responder back, and later lets it go on.       *)
Hold(state) ==
    /\ respState = "NORMAL" /\ holds < MaxHolds
    /\ respState' = state /\ holds' = holds + 1 /\ hit' = TRUE
    /\ UNCHANGED <<callVars, send, get, pconn, psend, pget, wire, history, faults, dirty>>

Resume ==
    /\ respState \in {"BUSY", "NOT_READY"} /\ respState' = "NORMAL"
    /\ UNCHANGED <<callVars, send, get, pconn, psend, pget, wire, history, faults, holds, hit, dirty>>

Lose ==
    /\ wire.to # "-" /\ Fault("LOSS") /\ wire' = NoMessage
    /\ UNCHANGED <<callVars, send, get, rspVars, history, holds, dirty>>

-----------------------------------------------------------------------------
Init ==
    /\ pc = "idle" /\ request = <<>> /\ retry = 0 /\ result = <<>> /\ id = 0
    /\ conn = "READY" /\ pconn = "READY" /\ respState = "NORMAL"
    /\ send = SendInfo(FALSE, 0, 0, 0, NoMessage)
    /\ get = GetInfo(0, 0, 0, <<>>, FALSE)
    /\ psend = PSendInfo(FALSE, 0, 0, 0, <<>>)
    /\ pget = PGetInfo(FALSE, 0, 0, <<>>, 0)
    /\ wire = NoMessage /\ served = <<>> /\ answer = <<>>
    /\ faults = 0 /\ holds = 0 /\ hit = FALSE /\ dirty = FALSE

RequesterStep ==
    \/ SendSmall \/ StartLarge \/ SendChunk \/ ReceiveAck \/ ReceiveStored
    \/ ReceiveDirect \/ SendChunkGet \/ ReceiveChunk \/ Timeout

ResponderStep ==
    \/ RespondInterrupts \/ RespondHeld \/ RespondUnexpected \/ RespondVersion \/ RespondCapabilities
    \/ \E size \in RspSizes : RespondRequest(size) \/ RespondLargeRequest(size)
    \/ EarlyErrorDetected \/ StoreChunk \/ RespondChunkGet

Next ==
    \/ \E code \in {"GET_VERSION", "GET_CAPABILITIES", "REQUEST"}, size \in ReqSizes :
         Issue(code, size)
    \/ RequesterStep
    \/ ResponderStep
    \/ \E state \in ResponseStates : Hold(state)
    \/ Resume
    \/ Lose

Spec == Init /\ [][Next]_vars
FairSpec == Spec /\ WF_vars(RequesterStep) /\ WF_vars(ResponderStep)

-----------------------------------------------------------------------------
(* Properties.                                                             *)

RequestCodes == {"GET_VERSION", "GET_CAPABILITIES", "REQUEST"}
AnswerCodes == {"VERSION", "CAPABILITIES", "RESPONSE"}
Bytes == (RequestCodes \cup AnswerCodes) \X {0, 1} \X Nat
Handles == 0 .. HandleCount - 1
ErrorCodes == {"BUSY", "RESPONSE_NOT_READY", "REQUEST_RESYNCH", "UNEXPECTED_REQUEST",
               "INVALID_REQUEST", "RESPONSE_TOO_LARGE"}
MessageTypes ==
    {"-", "REQUEST", "CHUNK_SEND", "CHUNK_GET", "RESPONSE", "CHUNK_SEND_ACK",
     "CHUNK_RESPONSE", "LARGE_RESPONSE"} \cup ErrorCodes
Messages ==
    [to : {"-", "REQ", "RSP"}, type : MessageTypes,
     handle : Handles, seq : Nat, last : BOOLEAN, size : Nat, body : Seq(Bytes)]

SendInfos == [inUse : BOOLEAN, handle : Handles, seq : Nat, done : Nat, stored : Messages]
GetInfos == [handle : Handles, seq : Nat, size : Nat, buf : Seq(Bytes), fromChunk : BOOLEAN]
PSendInfos == [inUse : BOOLEAN, handle : Handles, seq : Nat, size : Nat, buf : Seq(Bytes)]
PGetInfos == [inUse : BOOLEAN, handle : Handles, seq : Nat, data : Seq(Bytes), done : Nat]

(* The variables have the types of the C variables that they stand for.    *)
TypeOK ==
    /\ pc \in {"idle", "send", "chunks", "ack", "recv", "get", "chunk"}
    /\ request \in Seq(Bytes) /\ answer \in Seq(Bytes) /\ id \in {0, 1}
    /\ send \in SendInfos /\ get \in GetInfos /\ psend \in PSendInfos /\ pget \in PGetInfos
    /\ wire \in Messages

(* What the two ends know of each other.  The Responder holds exactly what *)
(* the Requester has sent and seen acknowledged ...                        *)
SendAgrees(seq, done) ==
    /\ psend.inUse /\ psend.handle = send.handle /\ psend.seq = Sent(seq)
    /\ psend.size = Len(request) /\ psend.buf = SubSeq(request, 1, done)

(* ... and the Requester exactly what the Responder has handed out, with   *)
(* buf, seq and size of the Requester.                                     *)
GetAgrees(handle, seq, size, buf) ==
    /\ pget.inUse /\ pget.handle = handle /\ pget.seq = seq /\ pget.data = answer
    /\ pget.done < Len(answer) /\ buf = SubSeq(answer, 1, pget.done)
    /\ IF seq = 0 THEN pget.done = 0 ELSE pget.done > 0 /\ size = Len(answer)
    /\ Len(answer) > Back - Header - SizeField

Served == served = <<request>>
(* A request that was handled is kept from being handled again.            *)
NotTwice == served = <<>> \/ (Served /\ pget.inUse /\ Opcode(request) = "REQUEST")

(* The Requester may trust the response m.                                 *)
Trusted(m) ==
    /\ m.type = "RESPONSE" => Served /\ m.body = answer
    /\ m.type = "LARGE_RESPONSE" =>
         Served /\ Opcode(request) = "REQUEST" /\ GetAgrees(m.handle, 0, 0, <<>>)
    /\ m.type = "BUSY" => NotTwice

(* The places of a call where no message is in flight.                     *)
Between == pc \in {"idle", "send", "chunks", "get"} \/ (pc = "recv" /\ send.inUse)

CallAgrees ==
    /\ pc # "idle" => result = <<>> /\ request # <<>>
    /\ Between => wire.to = "-"
    /\ send.inUse => pc \in {"chunks", "ack", "recv"}
    /\ pc \in {"send", "chunks"} => NotTwice
    /\ pc = "chunks" => /\ Large(request) /\ send.done < Len(request)
                        /\ IF send.seq = 0 THEN send.done = 0
                           ELSE SendAgrees(send.seq - 1, send.done)
    /\ pc = "recv" /\ send.inUse => Trusted(send.stored)
    /\ pc = "get" => /\ Served /\ Opcode(request) = "REQUEST"
                     /\ GetAgrees(get.handle, get.seq, get.size, get.buf)

ChunkSendAgrees ==
    /\ NotTwice /\ Large(request) /\ send.done \in 1 .. Len(request)
    /\ wire.handle = send.handle /\ wire.seq = Sent(send.seq)
    /\ wire.last = (send.done = Len(request))
    /\ IF send.seq = 0
       THEN wire.size = Len(request) /\ wire.body = SubSeq(request, 1, send.done)
       ELSE \E done \in 0 .. send.done :
              /\ SendAgrees(send.seq - 1, done)
              /\ wire.body = SubSeq(request, done + 1, send.done)

ChunkGetAgrees ==
    /\ Served /\ Opcode(request) = "REQUEST"
    /\ GetAgrees(get.handle, get.seq, get.size, get.buf)
    /\ wire.seq = Sent(get.seq) /\ (wire.seq = 0 => get.seq = 0)

ChunkSendAckAgrees ==
    /\ Large(request) /\ send.done <= Len(request)
    /\ IF send.done = Len(request) THEN Served /\ wire.body = answer
       ELSE NotTwice /\ SendAgrees(send.seq, send.done)

ChunkResponseAgrees ==
    /\ Served /\ Opcode(request) = "REQUEST"
    /\ (IF get.seq = 0 THEN wire.size ELSE get.size) = Len(answer)
    /\ IF wire.last THEN get.buf \o wire.body = answer
       ELSE GetAgrees(get.handle, get.seq + 1, Len(answer), get.buf \o wire.body)

MessageAgrees ==
    /\ wire.to = "RSP" => wire.type \in {"REQUEST", "CHUNK_SEND", "CHUNK_GET"}
    /\ ToResponder("REQUEST") => NotTwice /\ wire.body = request
    /\ ToResponder("CHUNK_SEND") => ChunkSendAgrees
    /\ ToResponder("CHUNK_GET") => ChunkGetAgrees
    /\ wire.to = "REQ" => Trusted(wire)
    /\ wire.to = "REQ" /\ wire.type = "CHUNK_SEND_ACK" /\ ~wire.last => ChunkSendAckAgrees
    /\ wire.to = "REQ" /\ wire.type = "CHUNK_RESPONSE" => ChunkResponseAgrees

(* At every point of a call the ends agree on the transfer, so that what   *)
(* is assembled at the far end is the message.                             *)
TransferAgreement == CallAgrees /\ MessageAgrees

(* Chunks are out of the caller's sight: the two ends implement Exchange,  *)
(* with the bytes of the request and of the response whole, and the        *)
(* request handled at most once.                                           *)
Calls == INSTANCE Exchange WITH
    waiting <- pc # "idle",
    Requests <- {Body(code, i, size) : code \in RequestCodes, i \in {0, 1}, size \in ReqSizes},
    Answers <- {Body(code, i, size) : code \in AnswerCodes, i \in {0, 1}, size \in RspSizes}
ImplementsExchange == Calls!Spec

(* The most that n chunks of a transport buffer of size dts carry.         *)
Capacity(dts) ==
    LET sum[n \in 1 .. SeqCount] ==
          IF n = 1 THEN dts - Header - SizeField ELSE sum[n - 1] + dts - Header
    IN  sum[SeqCount]

TooLarge ==
    \/ Len(request) > MaxMsg \/ Len(answer) + Ack > MaxMsg
    \/ ~Wide /\ (Len(request) > Capacity(Out) \/ Len(answer) > Capacity(Back))

(* A call fails only if it was disturbed itself, or a call before it       *)
(* failed and GET_VERSION has not been called since, or its messages are   *)
(* too large for the sequence numbers or the buffers; GET_VERSION ends     *)
(* whatever an abandoned transfer left behind.                             *)
FailsOnlyIfDisturbed ==
    [][pc # "idle" /\ pc' = "idle" /\ result' = <<>>
       => hit' \/ (dirty /\ Opcode(request) # "GET_VERSION") \/ TooLarge]_vars

(* Every call returns.                                                     *)
CallReturns == pc # "idle" ~> pc = "idle"
=============================================================================
