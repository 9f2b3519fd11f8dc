------------------------------ MODULE Handshake ------------------------------
(***************************************************************************)
(* How a libspdm Requester and a libspdm Responder set up and end sessions *)
(* over a negotiated connection: KEY_EXCHANGE and FINISH, PSK_EXCHANGE and *)
(* PSK_FINISH, END_SESSION, without mutual authentication.  Handshakes may *)
(* interleave, answers may be BUSY or ResponseNotReady, and messages may   *)
(* be lost, late, damaged or not sent.                                     *)
(*                                                                         *)
(* Random numbers are never repeated, so transcript K is the pair of the   *)
(* two randoms of the exchange, and F the sequence of messages appended to *)
(* it.  Hashes, HMACs, signatures and AEAD are ideal: a value computed     *)
(* over a transcript is that transcript, and a key is named by what it is  *)
(* derived from.                                                           *)
(*                                                                         *)
(* call.pc is the Requester's place in its API call:                       *)
(*   idle  no call            recv  waits for the answer to call.api       *)
(*   send  about to send      rir   waits for that of a RESPOND_IF_READY   *)
(***************************************************************************)
EXTENDS SecuredMessage, SessionTable

CONSTANTS
    HandshakeInTheClear, \* both ends have HANDSHAKE_IN_THE_CLEAR_CAP
    PskContext,          \* PSK_CAP_RESPONDER_WITH_CONTEXT
    Interleaved,         \* does the application interleave handshakes
    Exchanges,           \* the kinds of exchange the application starts
    RetryTimes,          \* spdm_context->retry_times
    RdTm,                \* error_data.rd_tm the Responder sends
    DropOnDecryptError,  \* LIBSPDM_DATA_HANDLE_ERROR_RETURN_POLICY_DROP_ON_DECRYPT_ERROR
    ResponseStates,      \* the response_state values the integrator sets
    TokenCount,          \* number of RESPOND_IF_READY tokens (256)
    FaultKinds,          \* faults of the environment that may happen
    MaxFaults,           \* bound: how many of them
    MaxRandom,           \* bound: no exchange is started after this random
    SeqBound             \* bound: nor a call in a session after this number

ASSUME HandshakeAssumption ==
    /\ HandshakeInTheClear \in BOOLEAN /\ PskContext \in BOOLEAN
    /\ Interleaved \in BOOLEAN /\ DropOnDecryptError \in BOOLEAN
    /\ Exchanges \subseteq {"KEY_EXCHANGE", "PSK_EXCHANGE"}
    /\ RetryTimes \in Nat /\ RdTm \in Nat /\ MaxFaults \in Nat /\ MaxRandom \in Nat
    /\ SeqBound \in Nat
    /\ TokenCount \in Nat \ {0}
    /\ ResponseStates \subseteq {"NORMAL", "BUSY", "NOT_READY"}
    /\ FaultKinds \subseteq {"SEND", "LOSS", "LATE", "DAMAGE", "CRYPTO"}

VARIABLES
    req,       \* the Requester's session table
    call,      \* its API call in progress, or the last one
    rsp,       \* the Responder's session table
    deferred,  \* cache_spdm_request and error_data, for RESPOND_IF_READY
    token,     \* current_token
    toRsp,     \* requests in flight
    toReq,     \* responses in flight
    fresh,     \* the next random number
    faults     \* number of faults so far

rspVars == <<rsp, deferred, token>>
vars == <<req, call, rspVars, toRsp, toReq, fresh, faults>>

Fault(kind) ==
    kind \in FaultKinds /\ faults < MaxFaults /\ faults' = faults + 1

IsPsk(code) == code \in {"PSK_EXCHANGE", "PSK_FINISH"}
Finishes == {"FINISH", "PSK_FINISH"}

ResponseCode ==
    [KEY_EXCHANGE |-> "KEY_EXCHANGE_RSP", PSK_EXCHANGE |-> "PSK_EXCHANGE_RSP",
     FINISH |-> "FINISH_RSP", PSK_FINISH |-> "PSK_FINISH_RSP",
     END_SESSION |-> "END_SESSION_ACK"]

(* The error codes of an ERROR response.                                   *)
ErrorCodes ==
    {"BUSY", "RESPONSE_NOT_READY", "INVALID_REQUEST", "UNEXPECTED_REQUEST",
     "SESSION_REQUIRED", "SESSION_LIMIT_EXCEEDED", "DECRYPT_ERROR", "UNSPECIFIED"}

(* A message without its protection.  num: the random of an exchange or    *)
(* the token of a deferred request, whose code is what; half: the sender's *)
(* half of the session id; tag: the signature or HMAC.                     *)
NoTag == [k |-> <<0, 0>>, f |-> <<>>]
Body(code, what, num, half, tag) ==
    [code |-> code, what |-> what, num |-> num, half |-> half, tag |-> tag]
Plain(code) == Body(code, "-", 0, 0, NoTag)
NoRequest == Plain("-")

-----------------------------------------------------------------------------
(* Transcripts, keys and secured messages of a session.                    *)

Transcript(s) == [k |-> s.k, f |-> s.f]

(* Session s with new contents; the id and the kind of a session stay.     *)
With(s, state, k, f, reqSeq, rspSeq) ==
    [id |-> s.id, psk |-> s.psk, state |-> state, k |-> k, f |-> f,
     reqSeq |-> reqSeq, rspSeq |-> rspSeq]

WithF(s, f) == With(s, s.state, s.k, f, s.reqSeq, s.rspSeq)
AppendF(s, message) == WithF(s, Append(s.f, message))

(* The handshake keys come from TH1, over K; the data keys from TH2, over  *)
(* K and F.                                                                *)
SessionKey(s) ==
    [phase |-> s.state, k |-> s.k,
     f |-> IF s.state = "ESTABLISHED" THEN s.f ELSE <<>>]
Clear == [phase |-> "CLEAR", k |-> <<0, 0>>, f |-> <<>>]
Damaged == [phase |-> "DAMAGED", k |-> <<0, 0>>, f |-> <<>>]

DirKey(s, d) ==
    [gen |-> SessionKey(s), valid |-> FALSE,
     seq |-> IF d = "REQ" THEN s.reqSeq ELSE s.rspSeq]
WithSeq(s, d, n) ==
    With(s, s.state, s.k, s.f, IF d = "REQ" THEN n ELSE s.reqSeq,
                               IF d = "RSP" THEN n ELSE s.rspSeq)

(* The message p of session id, or of none; a session whose counter is at  *)
(* its end is freed (libspdm_send_request, libspdm_build_response).        *)
Encode(t, id, d, p) ==
    LET k == DirKey(Session(t, id), d)
    IN  IF id = InvalidId
        THEN [ok |-> TRUE, table |-> t,
              message |-> [sid |-> id, gen |-> Clear, seq |-> 0, body |-> p]]
        ELSE [ok |-> InLimit(k),
              table |-> IF InLimit(k)
                        THEN SetSession(t, id, WithSeq(Session(t, id), d, Advance(k).seq))
                        ELSE Free(t, id),
              message |-> [sid |-> id, gen |-> k.gen, seq |-> k.seq, body |-> p]]

(* transport_decode_message *)
Arrive(t, m, d) ==
    IF m.sid = InvalidId THEN [status |-> "OK", table |-> t]
    ELSE IF ~Holds(t, m.sid) THEN [status |-> "INVALID_SESSION", table |-> t]
    ELSE LET s == Session(t, m.sid)
             r == Decode(DirKey(s, d), m)
         IN  [status |-> IF r.status = "OK" THEN "OK" ELSE "DECRYPT_ERROR",
              table |-> SetSession(t, m.sid, WithSeq(s, d, r.key.seq))]

(* What either end does with the secrets of the exchange whose randoms     *)
(* are k: without a PSK context the session needs no PSK_FINISH.           *)
Start(t, id, k) ==
    LET s == Session(t, id)
    IN  SetSession(t, id,
          With(s, IF s.psk /\ ~PskContext THEN "ESTABLISHED" ELSE "HANDSHAKING",
               k, s.f, 0, 0))

Establish(t, id) ==
    SetSession(t, id, With(Session(t, id), "ESTABLISHED", Session(t, id).k,
                           Session(t, id).f, 0, 0))

-----------------------------------------------------------------------------
(* The Requester.                                                          *)

Idle(api, id, status) ==
    [api |-> api, pc |-> "idle", id |-> id, retry |-> 0,
     half |-> 0, random |-> 0, status |-> status]
Active(c, pc, retry, half, random) ==
    [api |-> c.api, pc |-> pc, id |-> c.id, retry |-> retry,
     half |-> half, random |-> random, status |-> "-"]

NoCall == Idle("-", InvalidId, "-")
Return(c, status) == Idle(c.api, c.id, status)
At(c, pc) == Active(c, pc, c.retry, c.half, c.random)

(* A FINISH or PSK_FINISH that fails frees its session, unless the         *)
(* Responder was busy (the end of libspdm_try_send_receive_finish and of   *)
(* libspdm_try_send_receive_psk_finish).                                   *)
Abandon(t, c) == IF c.api \in Finishes THEN Free(t, c.id) ELSE t

(* With the handshake in the clear, libspdm_send_spdm_request and          *)
(* libspdm_receive_spdm_response drop the id of a session that is still    *)
(* in its (DHE) handshake.                                                 *)
WireId(t, id) ==
    IF /\ HandshakeInTheClear /\ Holds(t, id)
       /\ Session(t, id).state = "HANDSHAKING" /\ ~Session(t, id).psk
    THEN InvalidId ELSE id

(* libspdm_send_request: c is the call once the message left.              *)
SendRequest(t, c, p) ==
    LET e == Encode(t, WireId(t, c.id), "REQ", p) IN
    \/ /\ e.ok
       /\ req' = e.table /\ call' = c
       /\ toRsp' = Append(toRsp, e.message)
       /\ UNCHANGED faults
    \/ /\ e.ok /\ Fault("SEND")
       /\ req' = Abandon(e.table, c) /\ call' = Return(c, "ERROR")
       /\ UNCHANGED toRsp
    \/ /\ ~e.ok
       /\ req' = Abandon(e.table, c) /\ call' = Return(c, "ERROR")
       /\ UNCHANGED <<toRsp, faults>>

Begin(api, id) ==
    /\ call.pc = "idle"
    /\ call' = Active(Idle(api, id, "-"), "send", RetryTimes, 0, 0)
    /\ UNCHANGED <<req, rspVars, toRsp, toReq, fresh, faults>>

(* libspdm_send_receive_key_exchange, libspdm_send_receive_psk_exchange.   *)
StartExchange(api) ==
    /\ fresh <= MaxRandom
    /\ Interleaved \/ \A i \in Used(req) : req.slots[i].state = "ESTABLISHED"
    /\ Begin(api, InvalidId)

(* libspdm_send_receive_finish, libspdm_send_receive_psk_finish and        *)
(* libspdm_send_receive_end_session, for a session in the right state.     *)
StartInSession(i) ==
    /\ i \in Used(req) /\ req.slots[i].reqSeq <= SeqBound
    /\ LET s == req.slots[i]
       IN  Begin(CASE s.state = "ESTABLISHED" -> "END_SESSION"
                   [] s.state = "HANDSHAKING" /\ s.psk -> "PSK_FINISH"
                   [] OTHER -> "FINISH", s.id)

(* The half of the session id is chosen before the request goes out; the   *)
(* session is assigned when the answer has come.                           *)
SendExchange(api) ==
    /\ call.pc = "send" /\ call.api = api
    /\ LET half == AllocateId(req, IsPsk(api), "req") IN
       \/ /\ half = 0
          /\ call' = Return(call, "ERROR")
          /\ UNCHANGED <<req, toRsp, fresh, faults>>
       \/ /\ half # 0
          /\ SendRequest(req, Active(call, "recv", call.retry, half, fresh),
                         Body(api, "-", fresh, half, NoTag))
          /\ fresh' = fresh + 1
    /\ UNCHANGED <<rspVars, toReq>>

SendKeyExchange == SendExchange("KEY_EXCHANGE")
SendPskExchange == SendExchange("PSK_EXCHANGE")

(* F gets the request and its HMAC before the request is sent.             *)
SendConfirmation(api) ==
    /\ call.pc = "send" /\ call.api = api
    /\ LET s == AppendF(Session(req, call.id), api)
           t == SetSession(req, call.id, AppendF(s, "HMAC"))
       IN  SendRequest(t, At(call, "recv"),
                       Body(api, "-", 0, 0, Transcript(s)))
    /\ UNCHANGED <<rspVars, toReq, fresh>>

SendFinish == SendConfirmation("FINISH")
SendPskFinish == SendConfirmation("PSK_FINISH")

(* libspdm_try_send_receive_end_session, up to the request.                *)
SendEndSession ==
    /\ call.pc = "send" /\ call.api = "END_SESSION"
    /\ SendRequest(req, At(call, "recv"), Plain("END_SESSION"))
    /\ UNCHANGED <<rspVars, toReq, fresh>>

(* The message that libspdm_receive_response takes from the transport, and *)
(* what it reads of it.                                                    *)
Taken == Head(toReq)
Read == Arrive(req, Taken, "RSP")
Receive ==
    /\ call.pc \in {"recv", "rir"} /\ toReq # <<>>
    /\ toReq' = Tail(toReq)
    /\ UNCHANGED <<rspVars, fresh>>
ReceiveReadable ==
    Receive /\ Taken.sid = WireId(req, call.id) /\ Read.status = "OK"

Fail(t) ==
    /\ req' = Abandon(t, call) /\ call' = Return(call, "ERROR")
    /\ UNCHANGED <<toRsp, faults>>

(* A message of another session, or of none when one was expected.         *)
ReceiveForeign ==
    Receive /\ Taken.sid # WireId(req, call.id) /\ Fail(Read.table)

(* A message of this session that does not decrypt frees the session.      *)
ReceiveUnreadable ==
    /\ Receive /\ Taken.sid = WireId(req, call.id) /\ Read.status # "OK"
    /\ Fail(IF Read.status = "DECRYPT_ERROR"
            THEN Free(Read.table, Taken.sid) ELSE Read.table)

Timeout ==
    /\ call.pc \in {"recv", "rir"} /\ toReq = <<>>
    /\ \/ toRsp = <<>> /\ UNCHANGED faults
       \/ toRsp # <<>> /\ Fault("LATE")
    /\ req' = Abandon(req, call) /\ call' = Return(call, "ERROR")
    /\ UNCHANGED <<rspVars, toRsp, toReq, fresh>>

(* BUSY_PEER: the retry loop around the libspdm_try_... function.          *)
Retry(c) ==
    IF c.retry > 0 THEN Active(c, "send", c.retry - 1, c.half, c.random)
    ELSE Return(c, "BUSY")

(* Faulty variant: F keeps the request that was answered with BUSY.        *)
ResetFNever(t, c) == t

(* libspdm_reset_message_f: only FINISH does it, and only for an error     *)
(* that answers the FINISH itself.                                         *)
ResetF(t, c) ==
    IF c.api = "FINISH" /\ c.pc = "recv"
    THEN SetSession(t, c.id, WithF(Session(t, c.id), <<>>))
    ELSE t

ReceiveBusy ==
    /\ ReceiveReadable /\ Taken.body.code = "BUSY"
    /\ req' = ResetF(Read.table, call)
    /\ call' = Retry(call)
    /\ UNCHANGED <<toRsp, faults>>

(* libspdm_handle_response_not_ready *)
Deferred(b) ==
    /\ call.pc = "recv" /\ b.code = "RESPONSE_NOT_READY"
    /\ b.what = call.api /\ RdTm > 1

ReceiveNotReady ==
    /\ ReceiveReadable /\ Deferred(Taken.body)
    /\ SendRequest(Read.table, At(call, "rir"),
                   Body("RESPOND_IF_READY", Taken.body.what, Taken.body.num, 0, NoTag))

(* Faulty variant: FINISH leaves DECRYPT_ERROR to the common error code.   *)
ReceiveErrorFreesTwice ==
    /\ ReceiveReadable /\ Taken.body.code # ResponseCode[call.api]
    /\ Taken.body.code # "BUSY" /\ ~Deferred(Taken.body)
    /\ Fail(IF /\ Taken.body.code = "DECRYPT_ERROR" /\ call.pc = "recv"
               /\ call.api \in Finishes \cup {"END_SESSION"}
            THEN Free(Read.table, call.id) ELSE Read.table)

(* Any other answer that is not the expected one.  DECRYPT_ERROR frees the *)
(* session: in libspdm_handle_error_response_main, or by Abandon.          *)
ReceiveError ==
    /\ ReceiveReadable /\ Taken.body.code # ResponseCode[call.api]
    /\ Taken.body.code # "BUSY" /\ ~Deferred(Taken.body)
    /\ Fail(IF /\ Taken.body.code = "DECRYPT_ERROR" /\ call.pc = "recv"
               /\ call.api = "END_SESSION"
            THEN Free(Read.table, call.id) ELSE Read.table)

Succeed(t) ==
    req' = t /\ call' = Return(call, "SUCCESS") /\ UNCHANGED <<toRsp, faults>>

(* Faulty variant: any signature or HMAC is accepted.                      *)
ReceiveExchangeRspUnverified(api) ==
    /\ ReceiveReadable /\ call.api = api
    /\ Taken.body.code = ResponseCode[api]
    /\ LET id == SessionId(call.half, Taken.body.half)
           k  == <<call.random, Taken.body.num>>
           t  == Assign(req, id, IsPsk(api))
       IN IF CanAssign(req, id) THEN Succeed(Start(t, id, k)) ELSE Fail(t)

(* From the answer to an exchange on: the session is assigned, then the    *)
(* signature or HMAC over K is verified, and the session freed when it is  *)
(* not that of this request.                                               *)
ReceiveExchangeRsp(api) ==
    /\ ReceiveReadable /\ call.api = api
    /\ Taken.body.code = ResponseCode[api]
    /\ LET id == SessionId(call.half, Taken.body.half)
           k  == <<call.random, Taken.body.num>>
           t  == Assign(req, id, IsPsk(api))
       IN \/ /\ CanAssign(req, id) /\ Taken.body.tag.k = k
             /\ Succeed(Start(t, id, k))
          \/ /\ ~CanAssign(req, id) \/ Taken.body.tag.k # k
             /\ Fail(IF CanAssign(req, id) THEN Free(t, id) ELSE t)

ReceiveKeyExchangeRsp == ReceiveExchangeRsp("KEY_EXCHANGE")
ReceivePskExchangeRsp == ReceiveExchangeRsp("PSK_EXCHANGE")

(* Faulty variant: the HMAC of a FINISH_RSP in the clear is not verified.  *)
ReceiveFinishRspUnverified ==
    /\ ReceiveReadable /\ call.api = "FINISH" /\ Taken.body.code = "FINISH_RSP"
    /\ LET s == AppendF(Session(Read.table, call.id), "FINISH_RSP")
           f == IF Taken.sid = InvalidId THEN AppendF(s, "HMAC") ELSE s
       IN Succeed(Establish(SetSession(Read.table, call.id, f), call.id))

(* libspdm_try_send_receive_finish, from the answer on: a FINISH_RSP in    *)
(* the clear carries an HMAC of its own.                                   *)
ReceiveFinishRsp ==
    /\ ReceiveReadable /\ call.api = "FINISH" /\ Taken.body.code = "FINISH_RSP"
    /\ LET inClear == Taken.sid = InvalidId
           s == AppendF(Session(Read.table, call.id), "FINISH_RSP")
           f == IF inClear THEN AppendF(s, "HMAC") ELSE s
       IN \/ /\ inClear /\ Taken.body.tag # Transcript(s)
             /\ Fail(Read.table)
          \/ /\ inClear => Taken.body.tag = Transcript(s)
             /\ Succeed(Establish(SetSession(Read.table, call.id, f), call.id))

(* libspdm_try_send_receive_psk_finish, from the answer on.                *)
ReceivePskFinishRsp ==
    /\ ReceiveReadable /\ call.api = "PSK_FINISH" /\ Taken.body.code = "PSK_FINISH_RSP"
    /\ LET s == AppendF(Session(Read.table, call.id), "PSK_FINISH_RSP")
       IN Succeed(Establish(SetSession(Read.table, call.id, s), call.id))

(* libspdm_try_send_receive_end_session, from the answer on.               *)
ReceiveEndSessionAck ==
    /\ ReceiveReadable /\ Taken.body.code = "END_SESSION_ACK"
    /\ call.api = "END_SESSION"
    /\ Succeed(Free(Read.table, call.id))

-----------------------------------------------------------------------------
(* The Responder.  A handler maps its context to a context and a reply; ok *)
(* tells whether the cryptographic operations that it calls succeed.       *)

Context(t, d, n) == [table |-> t, deferred |-> d, token |-> n]
WithTable(c, t) == Context(t, c.deferred, c.token)
Reply(c, p) == [c |-> c, reply |-> p]
Silent == NoRequest
DeferredRequest(p, code, n, sid) ==
    [request |-> p, code |-> code, token |-> n, sid |-> sid]

(* What both exchanges do from the allocation of the session id on; once   *)
(* the session is assigned every failure frees it.                         *)
OpenSession(c, p, sid, ok) ==
    LET half == AllocateId(c.table, IsPsk(p.code), "rsp")
        id   == SessionId(p.half, half)
        t    == Assign(c.table, id, IsPsk(p.code))
        k    == <<p.num, fresh>>
    IN  CASE sid # InvalidId -> Reply(c, Plain("UNEXPECTED_REQUEST"))
          [] sid = InvalidId /\ half = 0 -> Reply(c, Plain("SESSION_LIMIT_EXCEEDED"))
          [] sid = InvalidId /\ half # 0 /\ ~CanAssign(c.table, id) ->
               Reply(WithTable(c, t), Plain("SESSION_LIMIT_EXCEEDED"))
          [] sid = InvalidId /\ half # 0 /\ CanAssign(c.table, id) /\ ~ok ->
               Reply(WithTable(c, Free(t, id)), Plain("UNSPECIFIED"))
          [] OTHER ->
               Reply(WithTable(c, Start(t, id, k)),
                     Body(ResponseCode[p.code], "-", fresh, half, [k |-> k, f |-> <<>>]))

GetResponseKeyExchange(c, p, sid, ok) == OpenSession(c, p, sid, ok)
GetResponsePskExchange(c, p, sid, ok) == OpenSession(c, p, sid, ok)

(* Faulty variant: the HMAC of the request is not appended to F.           *)
ConfirmWithoutHmac(c, p, id, inClear, ok) ==
    LET s == AppendF(Session(c.table, id), p.code)
        r == AppendF(s, ResponseCode[p.code])
        Keep(x) == WithTable(c, SetSession(c.table, id, x))
    IN  IF p.tag # Transcript(s) THEN Reply(Keep(s), Plain("DECRYPT_ERROR"))
        ELSE Reply(Keep(r), Plain(ResponseCode[p.code]))

(* What both confirmations append to F and verify, in session id: the      *)
(* request stays in F also when its HMAC does not verify.                  *)
Confirm(c, p, id, inClear, ok) ==
    LET s == AppendF(Session(c.table, id), p.code)
        r == AppendF(AppendF(s, "HMAC"), ResponseCode[p.code])
        f == IF inClear THEN AppendF(r, "HMAC") ELSE r
        Keep(x) == WithTable(c, SetSession(c.table, id, x))
    IN  CASE p.tag # Transcript(s) /\ DropOnDecryptError -> Reply(Keep(s), Silent)
          [] p.tag # Transcript(s) /\ ~DropOnDecryptError ->
               Reply(Keep(s), Plain("DECRYPT_ERROR"))
          [] p.tag = Transcript(s) /\ ~ok -> Reply(Keep(f), Plain("UNSPECIFIED"))
          [] OTHER -> Reply(Keep(f), Body(ResponseCode[p.code], "-", 0, 0,
                                          IF inClear THEN Transcript(r) ELSE NoTag))

InHandshake(c, id, psk) ==
    Session(c.table, id).psk = psk /\ Session(c.table, id).state = "HANDSHAKING"

(* libspdm_get_response_finish: with the handshake in the clear, the       *)
(* session is the latest one.                                              *)
GetResponseFinish(c, p, sid, ok) ==
    LET id == IF sid = InvalidId THEN c.table.latest ELSE sid
    IN  IF HandshakeInTheClear # (sid = InvalidId) \/ ~Holds(c.table, id)
        THEN Reply(c, Plain("SESSION_REQUIRED"))
        ELSE IF ~InHandshake(c, id, FALSE) THEN Reply(c, Plain("UNEXPECTED_REQUEST"))
        ELSE Confirm(c, p, id, HandshakeInTheClear, ok)

(* libspdm_get_response_psk_finish: always in its session.                 *)
GetResponsePskFinish(c, p, sid, ok) ==
    IF sid = InvalidId THEN Reply(c, Plain("SESSION_REQUIRED"))
    ELSE IF ~InHandshake(c, sid, TRUE) THEN Reply(c, Plain("UNEXPECTED_REQUEST"))
    ELSE Confirm(c, p, sid, FALSE, ok)

(* libspdm_get_response_end_session *)
GetResponseEndSession(c, sid) ==
    IF sid # InvalidId /\ Session(c.table, sid).state = "ESTABLISHED"
    THEN Reply(c, Plain("END_SESSION_ACK"))
    ELSE Reply(c, Plain("UNEXPECTED_REQUEST"))

Handle(c, p, sid, ok) ==
    CASE p.code = "KEY_EXCHANGE" -> GetResponseKeyExchange(c, p, sid, ok)
      [] p.code = "PSK_EXCHANGE" -> GetResponsePskExchange(c, p, sid, ok)
      [] p.code = "FINISH" -> GetResponseFinish(c, p, sid, ok)
      [] p.code = "PSK_FINISH" -> GetResponsePskFinish(c, p, sid, ok)
      [] OTHER -> GetResponseEndSession(c, sid)

(* libspdm_get_response_respond_if_ready: only in the session context of   *)
(* the request that was deferred.                                          *)
GetResponseRespondIfReady(c, p, sid, ok) ==
    LET d == c.deferred IN
    CASE d.request = NoRequest \/ d.sid # sid -> Reply(c, Plain("UNEXPECTED_REQUEST"))
      [] d.request # NoRequest /\ d.sid = sid /\ (p.what # d.code \/ p.num # d.token) ->
           Reply(c, Plain("INVALID_REQUEST"))
      [] OTHER ->
           LET r == Handle(c, d.request, sid, ok)
           IN  Reply(Context(r.c.table, DeferredRequest(NoRequest, d.code, d.token, d.sid),
                             r.c.token), r.reply)

(* libspdm_responder_handle_response_state for BUSY and NOT_READY.         *)
HandleResponseState(c, p, sid, state) ==
    LET again == p.code = "RESPOND_IF_READY"
        d == IF again THEN c.deferred
             ELSE DeferredRequest(p, p.code, c.token, sid)
        n == IF again THEN c.token ELSE (c.token + 1) % TokenCount
    IN  IF state = "BUSY" THEN Reply(c, Plain("BUSY"))
        ELSE Reply(Context(c.table, d, n),
                   Body("RESPONSE_NOT_READY", d.code, d.token, 0, NoTag))

Dispatch(c, p, sid, state, ok) ==
    CASE state # "NORMAL" -> HandleResponseState(c, p, sid, state)
      [] state = "NORMAL" /\ p.code = "RESPOND_IF_READY" ->
           GetResponseRespondIfReady(c, p, sid, ok)
      [] OTHER -> Handle(c, p, sid, ok)

(* The end of libspdm_build_response: encode, then apply what the response *)
(* code implies for the session.                                           *)
AfterResponse(t, code, sid) ==
    CASE code \in {"FINISH_RSP", "PSK_FINISH_RSP"} ->
           Establish(t, IF sid = InvalidId THEN t.latest ELSE sid)
      [] code = "END_SESSION_ACK" -> Free(t, sid)
      [] OTHER -> t

SendResponse(r, sid) ==
    LET e == Encode(r.c.table, sid, "RSP", r.reply) IN
    /\ deferred' = r.c.deferred /\ token' = r.c.token
    /\ fresh' = IF r.reply.code \in {"KEY_EXCHANGE_RSP", "PSK_EXCHANGE_RSP"}
                THEN fresh + 1 ELSE fresh
    /\ \/ /\ r.reply = Silent
          /\ rsp' = r.c.table /\ UNCHANGED toReq
       \/ /\ r.reply # Silent /\ e.ok
          /\ rsp' = AfterResponse(e.table, r.reply.code, sid)
          /\ toReq' = Append(toReq, e.message)
       \/ /\ r.reply # Silent /\ ~e.ok
          /\ rsp' = e.table /\ UNCHANGED toReq

(* libspdm_process_request and libspdm_build_response.                     *)
Respond ==
    /\ toRsp # <<>> /\ toRsp' = Tail(toRsp)
    /\ LET m == Head(toRsp)
           d == Arrive(rsp, m, "REQ")
       IN /\ d.status = "OK"
          /\ \E state \in ResponseStates, ok \in BOOLEAN :
               /\ IF ok THEN UNCHANGED faults ELSE Fault("CRYPTO")
               /\ SendResponse(Dispatch(Context(d.table, deferred, token), m.body, m.sid, state, ok), m.sid)
    /\ UNCHANGED <<req, call>>

(* A request that does not decrypt ends its session, after the ERROR       *)
(* response or without one.                                                *)
RespondDecryptError ==
    /\ toRsp # <<>> /\ toRsp' = Tail(toRsp)
    /\ LET m == Head(toRsp)
           d == Arrive(rsp, m, "REQ")
           e == Encode(d.table, m.sid, "RSP", Plain("DECRYPT_ERROR"))
       IN /\ d.status = "DECRYPT_ERROR"
          /\ \/ DropOnDecryptError /\ rsp' = Free(d.table, m.sid) /\ UNCHANGED toReq
             \/ /\ ~DropOnDecryptError /\ e.ok
                /\ rsp' = Free(e.table, m.sid) /\ toReq' = Append(toReq, e.message)
             \/ /\ ~DropOnDecryptError /\ ~e.ok
                /\ rsp' = e.table /\ UNCHANGED toReq
    /\ UNCHANGED <<req, call, deferred, token, fresh, faults>>

(* A request of a session that is gone is dropped (INVALID_SESSION).       *)
DropUnknownSession ==
    /\ toRsp # <<>> /\ toRsp' = Tail(toRsp)
    /\ Arrive(rsp, Head(toRsp), "REQ").status = "INVALID_SESSION"
    /\ UNCHANGED <<req, call, rspVars, toReq, fresh, faults>>

-----------------------------------------------------------------------------
Lose ==
    /\ Fault("LOSS")
    /\ \/ toRsp # <<>> /\ toRsp' = Tail(toRsp) /\ UNCHANGED toReq
       \/ toReq # <<>> /\ toReq' = Tail(toReq) /\ UNCHANGED toRsp
    /\ UNCHANGED <<req, call, rspVars, fresh>>

(* A secured message changes on its way.                                   *)
Damage ==
    /\ Fault("DAMAGE")
    /\ \/ /\ toRsp # <<>> /\ Head(toRsp).sid # InvalidId
          /\ toRsp' = [toRsp EXCEPT ![1].gen = Damaged] /\ UNCHANGED toReq
       \/ /\ toReq # <<>> /\ Head(toReq).sid # InvalidId
          /\ toReq' = [toReq EXCEPT ![1].gen = Damaged] /\ UNCHANGED toRsp
    /\ UNCHANGED <<req, call, rspVars, fresh>>

Init ==
    /\ req = EmptyTable /\ rsp = EmptyTable
    /\ call = NoCall
    /\ deferred = DeferredRequest(NoRequest, "-", 0, InvalidId)
    /\ token = 0 /\ fresh = 1 /\ faults = 0
    /\ toRsp = <<>> /\ toReq = <<>>

RequesterStep ==
    \/ SendKeyExchange \/ SendPskExchange \/ SendFinish \/ SendPskFinish
    \/ SendEndSession
    \/ ReceiveForeign \/ ReceiveUnreadable \/ Timeout
    \/ ReceiveBusy \/ ReceiveNotReady \/ ReceiveError
    \/ ReceiveKeyExchangeRsp \/ ReceivePskExchangeRsp
    \/ ReceiveFinishRsp \/ ReceivePskFinishRsp \/ ReceiveEndSessionAck

ResponderStep == Respond \/ RespondDecryptError \/ DropUnknownSession

Next ==
    \/ \E api \in Exchanges : StartExchange(api)
    \/ \E i \in Slots : StartInSession(i)
    \/ RequesterStep
    \/ ResponderStep
    \/ Lose
    \/ Damage

Spec == Init /\ [][Next]_vars

-----------------------------------------------------------------------------
(* Properties.                                                             *)

(* Both tables name their sessions by their own half of the id, count them *)
(* by kind within the limits, and latest_session_id is one of them; while  *)
(* an exchange is under way its half still names the slot that             *)
(* libspdm_assign_session_id will take.                                    *)
TablesConsistent ==
    /\ NamedBySlot(req, "req") /\ Counted(req) /\ LatestHeld(req)
    /\ NamedBySlot(rsp, "rsp") /\ Counted(rsp) /\ LatestHeld(rsp)
    /\ call.half # 0 =>
         /\ Used(req) # Slots /\ ~AtLimit(req, IsPsk(call.api))
         /\ call.half = LastHalf - First(Slots \ Used(req))

(* No LIBSPDM_ASSERT of the session table fails: no id is assigned twice,  *)
(* no counter passes its limit, no id is freed that is not there           *)
(* (libspdm_assign_session_id, libspdm_free_session_id).                   *)
NoAssertion == ~req.asserted /\ ~rsp.asserted

(* A session moves to ESTABLISHED at the Requester only when the Responder *)
(* has a session of that id with the same data keys                        *)
(* (libspdm_try_send_receive_finish, libspdm_get_response_finish).         *)
EstablishAgreement ==
    [][\A i \in Slots :
         (req'.slots[i].state = "ESTABLISHED" /\ req.slots[i].state # "ESTABLISHED")
         => \E j \in Slots :
              /\ rsp'.slots[j].id = req'.slots[i].id
              /\ SessionKey(rsp'.slots[j]) = SessionKey(req'.slots[i])]_vars

(* Two sessions of one id that are both established have the same data     *)
(* keys, however often the halves of the id were used before.              *)
KeysAgree ==
    \A i, j \in Slots :
      (/\ req.slots[i].id # InvalidId /\ req.slots[i].id = rsp.slots[j].id
       /\ req.slots[i].state = "ESTABLISHED" /\ rsp.slots[j].state = "ESTABLISHED")
      => SessionKey(req.slots[i]) = SessionKey(rsp.slots[j])

(* As long as every message arrives and no request is deferred, a FINISH   *)
(* succeeds or gives up because the Responder stays busy: BUSY answers and *)
(* their retries do not spoil transcript F, also while other handshakes    *)
(* are under way (libspdm_try_send_receive_finish).                        *)
FinishSucceeds ==
    (/\ faults = 0 /\ deferred.code = "-"
     /\ call.pc = "idle" /\ call.api = "FINISH")
    => call.status # "ERROR"

(* The same for PSK_FINISH (libspdm_try_send_receive_psk_finish).          *)
PskFinishSucceeds ==
    (/\ faults = 0 /\ deferred.code = "-"
     /\ call.pc = "idle" /\ call.api = "PSK_FINISH")
    => call.status # "ERROR"
=============================================================================
