------------------------------ MODULE KeyUpdate ------------------------------
(***************************************************************************)
(* One established session between a libspdm Requester and a libspdm       *)
(* Responder: KEY_UPDATE in both directions (sent by the Requester, or     *)
(* encapsulated by the Responder), HEARTBEAT and END_SESSION, with the     *)
(* retries, the BUSY and ResponseNotReady answers, the rollback to backup  *)
(* keys, and lost, late and unsent messages.                               *)
(*                                                                         *)
(* The Requester runs one API call at a time.  call.pc is its place in it: *)
(*   idle  no call            recv  waits for the answer to call.sent      *)
(*   send  about to send      rir   waits for the answer to a              *)
(*   got   the exchange ended       RESPOND_IF_READY                       *)
(***************************************************************************)
EXTENDS SecuredMessage, Sequences

CONSTANTS
    RetryTimes,          \* spdm_context->retry_times
    RdTm,                \* error_data.rd_tm the Responder sends
    DropPolicies,        \* values of ..._POLICY_DROP_ON_DECRYPT_ERROR the integrator sets
    Apis,                \* the calls the application makes
    ResponseStates,      \* the response_state values the integrator sets
    Tags,                \* values of the random KEY_UPDATE param2
    TokenCount,          \* number of RESPOND_IF_READY tokens (256)
    FaultKinds,          \* faults of the environment that may happen
    MaxFaults,           \* bound: how many of them
    MaxGen               \* bound: no update is started from this generation

ASSUME KeyUpdateAssumption ==
    /\ RetryTimes \in Nat /\ RdTm \in Nat /\ MaxFaults \in Nat /\ MaxGen \in Nat
    /\ TokenCount \in Nat \ {0} /\ Tags \subseteq Nat
    /\ DropPolicies \subseteq BOOLEAN
    /\ ResponseStates \subseteq {"NORMAL", "BUSY", "NOT_READY"}
    /\ FaultKinds \subseteq {"SEND", "LOSS", "LATE", "ENTROPY"}
    /\ Apis \subseteq {"UPDATE_KEY", "UPDATE_ALL_KEYS", "HEARTBEAT",
                       "ENCAP", "END_SESSION"}

VARIABLES
    reqState,   \* Requester's session: ESTABLISHED, or why it was freed
    reqKeys,    \* Requester's data keys, by direction
    reqLast,    \* Requester's last_key_update_request (encapsulated flow)
    call,       \* the API call in progress, or the last one
    rspState,   \* Responder's session
    rspKeys,    \* Responder's data keys, by direction
    rspLast,    \* Responder's last_key_update_request
    deferred,   \* cache_spdm_request and error_data, for RESPOND_IF_READY
    token,      \* current_token
    encap,      \* Responder's encap_context of this session
    toRsp,      \* requests in flight
    toReq,      \* responses in flight
    lastNonce,  \* history: the last nonce used to encrypt, by direction
    faults      \* number of faults so far

reqVars == <<reqState, reqKeys, reqLast, call>>
rspVars == <<rspState, rspKeys, rspLast, deferred, token, encap>>
vars == <<reqVars, rspVars, toRsp, toReq, lastNonce, faults>>

Directions == {"REQ", "RSP"}
Updates == {"UPDATE_KEY", "UPDATE_ALL_KEYS"}
SessionStates == {"ESTABLISHED", "ENDED", "OVERFLOW", "DECRYPT_ERROR"}

ErrorCodes ==
    {"BUSY", "RESPONSE_NOT_READY", "INVALID_REQUEST", "UNEXPECTED_REQUEST",
     "REQUEST_IN_FLIGHT", "DECRYPT_ERROR", "UNSPECIFIED",
     "NO_PENDING_REQUESTS", "INVALID_RESPONSE_CODE"}

(* A message without its protection.  what: the KEY_UPDATE operation, the  *)
(* encapsulated message, or the request code of a deferred request; num:   *)
(* the random tag of a KEY_UPDATE, or the token of a deferred request.     *)
Payload(code, what, num) == [code |-> code, what |-> what, num |-> num]
Plain(code) == Payload(code, "-", 0)
NoRequest == Plain("-")

ResponseCode ==
    [KEY_UPDATE |-> "KEY_UPDATE_ACK", HEARTBEAT |-> "HEARTBEAT_ACK",
     END_SESSION |-> "END_SESSION_ACK",
     GET_ENCAPSULATED_REQUEST |-> "ENCAPSULATED_REQUEST",
     DELIVER_ENCAPSULATED_RESPONSE |-> "ENCAPSULATED_RESPONSE_ACK"]

Fault(kind) ==
    kind \in FaultKinds /\ faults < MaxFaults /\ faults' = faults + 1

-----------------------------------------------------------------------------
(* The Requester.                                                          *)

Return(c, status) ==
    [c EXCEPT !.pc = "idle", !.status = status, !.sent = NoRequest,
              !.answer = NoRequest]

(* Faulty variant: VERIFY_NEW_KEY does not check the size of the answer.   *)
SendFailedUnchecked(c) ==
    IF c.pc = "recv" THEN Return(c, "ERROR")
    ELSE [c EXCEPT !.pc = "got", !.answer = NoRequest,
                   !.status = IF c.api \in Updates \cup {"ENCAP"}
                              THEN "SUCCESS" ELSE "ERROR"]

(* libspdm_requester_respond_if_ready replaces the status of a failed send *)
(* by that of acquiring the receiver buffer, so its caller sees SUCCESS;   *)
(* the callers that check the size of the answer turn it into an error.    *)
SendFailed(c) ==
    IF c.pc = "recv" THEN Return(c, "ERROR")
    ELSE [c EXCEPT !.pc = "got", !.answer = NoRequest,
                   !.status = IF c.api = "ENCAP" \/ c.sent.what \in Updates
                              THEN "SUCCESS" ELSE "ERROR"]

(* libspdm_send_request: c is the call once the message left.              *)
SendRequest(keys, c, p) ==
    LET k == keys["REQ"] IN
    \/ /\ InLimit(k)
       /\ reqKeys' = [keys EXCEPT !["REQ"] = Advance(k)]
       /\ lastNonce' = [lastNonce EXCEPT !["REQ"] = [gen |-> k.gen, seq |-> k.seq]]
       /\ \/ /\ toRsp' = Append(toRsp, Encrypt(k, p))
             /\ call' = [c EXCEPT !.sends = c.sends + 1]
             /\ UNCHANGED faults
          \/ Fault("SEND") /\ call' = SendFailed(c) /\ UNCHANGED toRsp
       /\ UNCHANGED reqState
    \/ /\ ~InLimit(k)
       /\ reqState' = "OVERFLOW"
       /\ call' = SendFailed(c)
       /\ reqKeys' = keys
       /\ UNCHANGED <<lastNonce, toRsp, faults>>

(* libspdm_key_update, libspdm_heartbeat, libspdm_send_receive_encap_request *)
(* and libspdm_send_receive_end_session, up to their first request.        *)
StartCall(api) ==
    /\ call.pc = "idle" /\ reqState = "ESTABLISHED"
    /\ api \in Updates => \A d \in Directions : reqKeys[d].gen < MaxGen
    /\ call' = [api |-> api, pc |-> "send", updated |-> FALSE, late |-> call.late,
                retry |-> RetryTimes, sent |-> NoRequest, answer |-> NoRequest,
                sends |-> 0, status |-> "-", start |-> [d \in Directions |-> reqKeys[d].gen]]
    /\ UNCHANGED <<reqState, reqKeys, reqLast, rspVars, toRsp, toReq, lastNonce, faults>>

Transmit(keys, p) ==
    SendRequest(keys, [call EXCEPT !.pc = "recv", !.sent = p], p)

(* libspdm_try_key_update: UPDATE_ALL_KEYS creates the Responder key before *)
(* it sends; VERIFY_NEW_KEY goes out under the new Requester key.          *)
SendKeyUpdate ==
    /\ call.pc = "send" /\ call.api \in Updates
    /\ \/ /\ reqState = "ESTABLISHED"
          /\ \E tag \in Tags :
               IF call.updated
               THEN Transmit(reqKeys, Payload("KEY_UPDATE", "VERIFY_NEW_KEY", tag))
               ELSE Transmit(IF call.api = "UPDATE_KEY" THEN reqKeys
                             ELSE [reqKeys EXCEPT !["RSP"] = CreateUpdate(@)],
                             Payload("KEY_UPDATE", call.api, tag))
       \/ /\ \/ reqState # "ESTABLISHED" /\ UNCHANGED faults
             \/ reqState = "ESTABLISHED" /\ Fault("ENTROPY")
          /\ call' = Return(call, "ERROR")
          /\ UNCHANGED <<reqState, reqKeys, toRsp, lastNonce>>
    /\ UNCHANGED <<reqLast, rspVars, toReq>>

(* libspdm_try_heartbeat, libspdm_try_send_receive_end_session and the     *)
(* first request of libspdm_encapsulated_request.                          *)
SendPlain ==
    /\ call.pc = "send" /\ call.api \in {"HEARTBEAT", "END_SESSION", "ENCAP"}
    /\ Transmit(reqKeys, Plain(IF call.api = "ENCAP" THEN "GET_ENCAPSULATED_REQUEST"
                               ELSE call.api))
    /\ UNCHANGED <<reqLast, rspVars, toReq>>

(* The status the caller derives from an answer.  The answer to a          *)
(* RESPOND_IF_READY is only compared with the request when the request was *)
(* VERIFY_NEW_KEY, whose checks follow the error handling.                 *)
StatusOf(b) ==
    LET sent == call.sent
        acked == b.code = ResponseCode[sent.code]
        same  == b.what = sent.what /\ b.num = sent.num
        checked == sent.code = "KEY_UPDATE"
                   /\ (call.pc = "recv" \/ sent.what = "VERIFY_NEW_KEY")
    IN  CASE b.code = "BUSY" -> "BUSY"
          [] call.api = "ENCAP" /\ call.pc = "recv"
               /\ sent.code = "GET_ENCAPSULATED_REQUEST"
               /\ b.code = "NO_PENDING_REQUESTS" -> "SUCCESS"
          [] OTHER -> IF acked /\ (checked => same) THEN "SUCCESS" ELSE "ERROR"

Deferred(b) ==
    /\ call.pc = "recv" /\ b.code = "RESPONSE_NOT_READY"
    /\ b.what = call.sent.code /\ RdTm > 1

(* libspdm_receive_response and libspdm_handle_error_response_main.        *)
ReceiveResponse ==
    /\ call.pc \in {"recv", "rir"} /\ toReq # <<>>
    /\ toReq' = Tail(toReq)
    /\ LET m == Head(toReq)
           d == DecodeWithRollback(reqKeys["RSP"], m)
           keys == [reqKeys EXCEPT !["RSP"] = d.key]
           b == m.body
       IN \/ /\ d.status # "OK"
             /\ reqState' = "DECRYPT_ERROR"
             /\ reqKeys' = keys
             /\ call' = [call EXCEPT !.pc = "got", !.status = "ERROR"]
             /\ UNCHANGED <<toRsp, lastNonce, faults>>
          \/ /\ d.status = "OK" /\ Deferred(b)
             /\ SendRequest(keys, [call EXCEPT !.pc = "rir"],
                            Payload("RESPOND_IF_READY", b.what, b.num))
          \/ /\ d.status = "OK" /\ ~Deferred(b)
             /\ reqState' = IF b.code = "DECRYPT_ERROR" /\ call.pc = "recv"
                            THEN "DECRYPT_ERROR" ELSE reqState
             /\ reqKeys' = keys
             /\ call' = [call EXCEPT !.pc = "got", !.status = StatusOf(b),
                                     !.answer = IF call.pc = "recv" THEN b ELSE NoRequest]
             /\ UNCHANGED <<toRsp, lastNonce, faults>>
    /\ UNCHANGED <<reqLast, rspVars>>

(* receive_message times out: nothing will come, or it comes too late.     *)
Timeout ==
    /\ call.pc \in {"recv", "rir"}
    /\ LET late == toRsp # <<>> \/ toReq # <<>>
       IN  /\ IF late THEN Fault("LATE") ELSE UNCHANGED faults
           /\ call' = [call EXCEPT !.pc = "got", !.status = "ERROR", !.late = @ \/ late]
    /\ UNCHANGED <<reqState, reqKeys, reqLast, rspVars, toRsp, toReq, lastNonce>>

(* Faulty variants: the counter is not tested, or not decremented.         *)
RetryUntested(c) ==
    IF c.status = "BUSY" THEN [c EXCEPT !.pc = "send", !.retry = c.retry - 1]
    ELSE Return(c, c.status)

RetryForever(c) ==
    IF c.status = "BUSY" THEN [c EXCEPT !.pc = "send"] ELSE Return(c, c.status)

(* do { ... } while (retry-- != 0), left on any status but BUSY_PEER.      *)
Retry(c) ==
    IF c.status = "BUSY" /\ c.retry > 0
    THEN [c EXCEPT !.pc = "send", !.retry = c.retry - 1]
    ELSE Return(c, c.status)

(* libspdm_try_key_update once the answer to an update is known.           *)
FinishUpdate ==
    /\ call.pc = "got" /\ call.api \in Updates /\ call.sent.what \in Updates
    /\ LET ok  == call.status = "SUCCESS"
           rsp == IF call.api = "UPDATE_KEY" THEN reqKeys["RSP"]
                  ELSE ActivateUpdate(reqKeys["RSP"], ok)
           req == IF ok THEN ActivateUpdate(CreateUpdate(reqKeys["REQ"]), TRUE)
                  ELSE reqKeys["REQ"]
       IN /\ reqKeys' = [REQ |-> req, RSP |-> rsp]
          /\ call' = IF ok THEN [call EXCEPT !.pc = "send", !.updated = TRUE]
                     ELSE Retry(call)
    /\ UNCHANGED <<reqState, reqLast, rspVars, toRsp, toReq, lastNonce, faults>>

(* Faulty variant: END_SESSION frees the session on any outcome.           *)
FinishPlainAlwaysFrees ==
    /\ call.pc = "got"
    /\ \/ call.api \in {"HEARTBEAT", "END_SESSION"}
       \/ call.api \in Updates /\ call.sent.what = "VERIFY_NEW_KEY"
    /\ call' = Retry(call)
    /\ reqState' = IF call.api = "END_SESSION" THEN "ENDED" ELSE reqState
    /\ UNCHANGED <<reqKeys, reqLast, rspVars, toRsp, toReq, lastNonce, faults>>

(* The end of a VERIFY_NEW_KEY, HEARTBEAT or END_SESSION exchange.         *)
FinishPlain ==
    /\ call.pc = "got"
    /\ \/ call.api \in {"HEARTBEAT", "END_SESSION"}
       \/ call.api \in Updates /\ call.sent.what = "VERIFY_NEW_KEY"
    /\ call' = Retry(call)
    /\ reqState' = IF call.api = "END_SESSION" /\ call.status = "SUCCESS"
                   THEN "ENDED" ELSE reqState
    /\ UNCHANGED <<reqKeys, reqLast, rspVars, toRsp, toReq, lastNonce, faults>>

(* Faulty variant: the new key is committed at UPDATE_KEY.                 *)
DeliverKeyUpdateAckCommitted ==
    LET op == call.answer.what
        ok == IF op = "UPDATE_KEY" THEN reqLast = "NONE" ELSE reqLast = "UPDATE_KEY"
        rsp == IF ok /\ op = "UPDATE_KEY"
               THEN ActivateUpdate(CreateUpdate(reqKeys["RSP"]), TRUE)
               ELSE reqKeys["RSP"]
    IN /\ reqLast' = IF ~ok THEN reqLast ELSE IF op = "UPDATE_KEY" THEN op ELSE "NONE"
       /\ Transmit([reqKeys EXCEPT !["RSP"] = rsp],
                   Payload("DELIVER_ENCAPSULATED_RESPONSE", IF ok THEN op ELSE "ERROR", 0))

(* libspdm_get_encap_response_key_update, then DELIVER_ENCAPSULATED_RESPONSE. *)
DeliverKeyUpdateAck ==
    LET op == call.answer.what
        ok == IF op = "UPDATE_KEY" THEN reqLast = "NONE" ELSE reqLast = "UPDATE_KEY"
        rsp == IF ~ok THEN reqKeys["RSP"]
               ELSE IF op = "UPDATE_KEY" THEN CreateUpdate(reqKeys["RSP"])
               ELSE ActivateUpdate(reqKeys["RSP"], TRUE)
    IN /\ reqLast' = IF ~ok THEN reqLast ELSE IF op = "UPDATE_KEY" THEN op ELSE "NONE"
       /\ Transmit([reqKeys EXCEPT !["RSP"] = rsp],
                   Payload("DELIVER_ENCAPSULATED_RESPONSE", IF ok THEN op ELSE "ERROR", 0))

(* The loop of libspdm_encapsulated_request, which has no retry, and which *)
(* returns the status of the error handling without looking at the request *)
(* that a RESPOND_IF_READY brought.                                        *)
FinishEncap ==
    /\ call.pc = "got" /\ call.api = "ENCAP"
    /\ \/ /\ call.status = "SUCCESS" /\ call.answer.what \in {"UPDATE_KEY", "VERIFY_NEW_KEY"}
          /\ DeliverKeyUpdateAck
       \/ /\ call.status # "SUCCESS" \/ call.answer.what \notin {"UPDATE_KEY", "VERIFY_NEW_KEY"}
          /\ call' = Return(call, call.status)
          /\ UNCHANGED <<reqState, reqKeys, reqLast, toRsp, lastNonce, faults>>
    /\ UNCHANGED <<rspVars, toReq>>

-----------------------------------------------------------------------------
(* The Responder.  A handler maps the context c of the session and the     *)
(* request p to the new context and the response.                          *)

Context(keys) ==
    [keys |-> keys, last |-> rspLast, deferred |-> deferred,
     token |-> token, encap |-> encap]

Reply(c, p) == [c |-> c, reply |-> p]

Commit(k) == ActivateUpdate(CreateUpdate(k), TRUE)

(* Faulty variant: VERIFY_NEW_KEY discards the new key.                    *)
GetResponseKeyUpdateDiscards(c, p) ==
    LET ack == Payload("KEY_UPDATE_ACK", p.what, p.num) IN
    CASE p.what \in Updates /\ c.last = "NONE" ->
           Reply([c EXCEPT !.last = p.what,
                           !.keys = [REQ |-> CreateUpdate(@["REQ"]),
                                     RSP |-> IF p.what = "UPDATE_KEY" THEN @["RSP"]
                                             ELSE Commit(@["RSP"])]], ack)
      [] p.what = "VERIFY_NEW_KEY" /\ c.last # "NONE" ->
           Reply([c EXCEPT !.last = "NONE",
                           !.keys["REQ"] = ActivateUpdate(@, FALSE)], ack)
      [] OTHER -> Reply(c, Plain("INVALID_REQUEST"))

(* libspdm_get_response_key_update.                                        *)
GetResponseKeyUpdate(c, p) ==
    LET ack == Payload("KEY_UPDATE_ACK", p.what, p.num) IN
    CASE p.what \in Updates /\ c.last = "NONE" ->
           Reply([c EXCEPT !.last = p.what,
                           !.keys = [REQ |-> CreateUpdate(@["REQ"]),
                                     RSP |-> IF p.what = "UPDATE_KEY" THEN @["RSP"]
                                             ELSE Commit(@["RSP"])]], ack)
      [] p.what = "VERIFY_NEW_KEY" /\ c.last # "NONE" ->
           Reply([c EXCEPT !.last = "NONE",
                           !.keys["REQ"] = ActivateUpdate(@, TRUE)], ack)
      [] OTHER -> Reply(c, Plain("INVALID_REQUEST"))

(* libspdm_get_response_encapsulated_request: the integrator's handler     *)
(* starts an UPDATE_KEY (wants), or has nothing to send.                   *)
GetResponseEncapsulatedRequest(c, wants) ==
    IF wants
    THEN Reply([c EXCEPT !.encap = [flow |-> TRUE, last |-> "UPDATE_KEY"]],
               Payload("ENCAPSULATED_REQUEST", "UPDATE_KEY", 0))
    ELSE Reply([c EXCEPT !.encap = [flow |-> FALSE,
                                    last |-> IF @.flow THEN @.last ELSE "NONE"]],
               Plain("NO_PENDING_REQUESTS"))

(* libspdm_get_response_encapsulated_response_ack: the ack of UPDATE_KEY   *)
(* makes libspdm commit the new Responder key and ask for VERIFY_NEW_KEY;  *)
(* that of VERIFY_NEW_KEY, and an encapsulated ERROR, end the flow.        *)
GetResponseEncapsulatedResponseAck(c, p) ==
    LET over == [c.encap EXCEPT !.flow = FALSE] IN
    CASE ~c.encap.flow -> Reply(c, Plain("UNEXPECTED_REQUEST"))
      [] c.encap.flow /\ p.what = c.encap.last /\ p.what = "UPDATE_KEY" ->
           Reply([c EXCEPT !.encap.last = "VERIFY_NEW_KEY",
                           !.keys["RSP"] = Commit(@)],
                 Payload("ENCAPSULATED_RESPONSE_ACK", "VERIFY_NEW_KEY", 0))
      [] c.encap.flow /\ (\/ p.what = "ERROR"
                          \/ p.what = "VERIFY_NEW_KEY" /\ p.what = c.encap.last) ->
           Reply([c EXCEPT !.encap = over], Plain("ENCAPSULATED_RESPONSE_ACK"))
      [] OTHER -> Reply([c EXCEPT !.encap = over], Plain("INVALID_RESPONSE_CODE"))

Handle(c, p, wants) ==
    CASE p.code = "KEY_UPDATE" -> GetResponseKeyUpdate(c, p)
      [] p.code = "GET_ENCAPSULATED_REQUEST" -> GetResponseEncapsulatedRequest(c, wants)
      [] p.code = "DELIVER_ENCAPSULATED_RESPONSE" -> GetResponseEncapsulatedResponseAck(c, p)
      [] OTHER -> Reply(c, Plain(ResponseCode[p.code]))

(* libspdm_get_response_respond_if_ready, when response_state is normal.   *)
GetResponseRespondIfReady(c, p, wants) ==
    LET d == c.deferred IN
    CASE d.request = NoRequest -> Reply(c, Plain("UNEXPECTED_REQUEST"))
      [] d.request # NoRequest /\ (p.what # d.code \/ p.num # d.token) ->
           Reply(c, Plain("INVALID_REQUEST"))
      [] OTHER -> [Handle(c, d.request, wants) EXCEPT !.c.deferred.request = NoRequest]

(* libspdm_responder_handle_response_state for BUSY and NOT_READY.         *)
HandleResponseState(c, p, state) ==
    LET d == IF p.code = "RESPOND_IF_READY" THEN c.deferred
             ELSE [request |-> p, code |-> p.code, token |-> c.token]
        next == IF p.code = "RESPOND_IF_READY" THEN c.token
                ELSE (c.token + 1) % TokenCount
    IN  IF state = "BUSY" THEN Reply(c, Plain("BUSY"))
        ELSE Reply([c EXCEPT !.deferred = d, !.token = next],
                   Payload("RESPONSE_NOT_READY", d.code, d.token))

(* libspdm_is_request_unexpected_for_mut_auth_encap comes before any       *)
(* handler: a flow in progress admits only the messages that advance it.   *)
Dispatch(c, p, state, wants) ==
    CASE c.encap.flow /\ p.code \notin {"GET_ENCAPSULATED_REQUEST",
                                        "DELIVER_ENCAPSULATED_RESPONSE"} ->
           Reply(c, Plain("REQUEST_IN_FLIGHT"))
      [] state # "NORMAL" -> HandleResponseState(c, p, state)
      [] p.code = "RESPOND_IF_READY" -> GetResponseRespondIfReady(c, p, wants)
      [] OTHER -> Handle(c, p, wants)

(* The end of libspdm_build_response: encode under the Responder key, then *)
(* apply what the response code implies for the session.                   *)
SendResponse(r, stateAfter) ==
    LET k == r.c.keys["RSP"] IN
    /\ rspLast' = r.c.last /\ deferred' = r.c.deferred
    /\ token' = r.c.token /\ encap' = r.c.encap
    /\ \/ /\ InLimit(k)
          /\ rspKeys' = [r.c.keys EXCEPT !["RSP"] = Advance(k)]
          /\ lastNonce' = [lastNonce EXCEPT !["RSP"] = [gen |-> k.gen, seq |-> k.seq]]
          /\ toReq' = Append(toReq, Encrypt(k, r.reply))
          /\ rspState' = stateAfter
       \/ /\ ~InLimit(k)
          /\ rspState' = "OVERFLOW"
          /\ rspKeys' = r.c.keys
          /\ UNCHANGED <<lastNonce, toReq>>

Respond ==
    /\ toRsp # <<>> /\ rspState = "ESTABLISHED"
    /\ toRsp' = Tail(toRsp)
    /\ LET p == Head(toRsp).body
           d == DecodeWithRollback(rspKeys["REQ"], Head(toRsp))
           c == Context([rspKeys EXCEPT !["REQ"] = d.key])
       IN \/ /\ d.status = "OK"
             /\ \E state \in ResponseStates, wants \in BOOLEAN :
                  /\ wants => rspKeys["RSP"].gen < MaxGen
                  /\ LET r == Dispatch(c, p, state, wants)
                     IN SendResponse(r, IF r.reply.code = "END_SESSION_ACK"
                                        THEN "ENDED" ELSE "ESTABLISHED")
          \/ /\ d.status # "OK" /\ FALSE \in DropPolicies
             /\ SendResponse(Reply(c, Plain("DECRYPT_ERROR")), "DECRYPT_ERROR")
          \/ /\ d.status # "OK" /\ TRUE \in DropPolicies
             /\ rspState' = "DECRYPT_ERROR"
             /\ rspKeys' = c.keys
             /\ UNCHANGED <<rspLast, deferred, token, encap, toReq, lastNonce>>
    /\ UNCHANGED <<reqVars, faults>>

(* The encapsulated VERIFY_NEW_KEY needs a random number before it updates *)
(* the key: without it the flow ends (LIBSPDM_STATUS_LOW_ENTROPY).         *)
RespondLowEntropy ==
    /\ toRsp # <<>> /\ rspState = "ESTABLISHED" /\ Fault("ENTROPY")
    /\ toRsp' = Tail(toRsp)
    /\ LET p == Head(toRsp).body
           d == DecodeWithRollback(rspKeys["REQ"], Head(toRsp))
           c == Context([rspKeys EXCEPT !["REQ"] = d.key])
       IN /\ d.status = "OK" /\ encap.flow
          /\ p.code = "DELIVER_ENCAPSULATED_RESPONSE"
          /\ p.what = "UPDATE_KEY" /\ p.what = encap.last
          /\ SendResponse(Reply([c EXCEPT !.encap.flow = FALSE], Plain("UNSPECIFIED")),
                          "ESTABLISHED")
    /\ UNCHANGED reqVars


(* A request of a session that is gone is dropped (INVALID_SESSION).       *)
DropUnknownSession ==
    /\ toRsp # <<>> /\ rspState # "ESTABLISHED"
    /\ toRsp' = Tail(toRsp)
    /\ UNCHANGED <<reqVars, rspVars, toReq, lastNonce, faults>>

-----------------------------------------------------------------------------
Lose ==
    /\ Fault("LOSS")
    /\ \/ toRsp # <<>> /\ toRsp' = Tail(toRsp) /\ UNCHANGED toReq
       \/ toReq # <<>> /\ toReq' = Tail(toReq) /\ UNCHANGED toRsp
    /\ UNCHANGED <<reqVars, rspVars, lastNonce>>

Init ==
    /\ reqState = "ESTABLISHED" /\ rspState = "ESTABLISHED"
    /\ reqKeys = [d \in Directions |-> FirstDataKey]
    /\ rspKeys = [d \in Directions |-> FirstDataKey]
    /\ reqLast = "NONE" /\ rspLast = "NONE"
    /\ call = [api |-> "-", pc |-> "idle", updated |-> FALSE, late |-> FALSE, retry |-> 0,
               sends |-> 0, sent |-> NoRequest, answer |-> NoRequest, status |-> "-",
               start |-> [d \in Directions |-> 1]]
    /\ deferred = [request |-> NoRequest, code |-> "-", token |-> 0]
    /\ token = 0
    /\ encap = [flow |-> FALSE, last |-> "NONE"]
    /\ toRsp = <<>> /\ toReq = <<>>
    /\ lastNonce = [d \in Directions |-> [gen |-> 0, seq |-> 0]]
    /\ faults = 0

RequesterStep ==
    \/ SendKeyUpdate \/ SendPlain \/ ReceiveResponse \/ Timeout
    \/ FinishUpdate \/ FinishPlain \/ FinishEncap

ResponderStep == Respond \/ RespondLowEntropy \/ DropUnknownSession

Next ==
    \/ \E api \in Apis : StartCall(api)
    \/ RequesterStep
    \/ ResponderStep
    \/ Lose

Spec == Init /\ [][Next]_vars

(* The endpoints do not both stop: an API call that has begun goes on, or  *)
(* libspdm_responder_dispatch_message takes a request that has arrived.    *)
FairSpec == Spec /\ WF_vars(RequesterStep \/ ResponderStep)

-----------------------------------------------------------------------------
(* Properties.                                                             *)

Deferrable ==
    {"KEY_UPDATE", "HEARTBEAT", "END_SESSION", "GET_ENCAPSULATED_REQUEST",
     "DELIVER_ENCAPSULATED_RESPONSE"}
Whats ==
    Deferrable \cup Updates \cup {"VERIFY_NEW_KEY", "ERROR", "-"}
ResponseCodes ==
    ErrorCodes \cup {"KEY_UPDATE_ACK", "HEARTBEAT_ACK", "END_SESSION_ACK",
                    "ENCAPSULATED_REQUEST", "ENCAPSULATED_RESPONSE_ACK"}
RequestType ==
    [code : Deferrable \cup {"RESPOND_IF_READY"}, what : Whats, num : Nat]
ResponseType == [code : ResponseCodes, what : Whats, num : Nat]
DeferredType ==
    [request : {r \in RequestType : r.code \in Deferrable} \cup {NoRequest},
     code : Deferrable \cup {"-"}, token : Nat]
EncapType == [flow : BOOLEAN, last : {"NONE", "UPDATE_KEY", "VERIFY_NEW_KEY"}]
NonceType == [gen : Nat, seq : 0 .. AllOnes]
MessageType(B) == [gen : Nat, seq : 0 .. AllOnes, body : B]

CallType ==
    [api : Apis \cup {"-"}, pc : {"idle", "send", "recv", "rir", "got"},
     updated : BOOLEAN, late : BOOLEAN, retry : 0 .. RetryTimes, sends : Nat, sent : RequestType \cup {NoRequest},
     answer : ResponseType \cup {NoRequest}, status : {"-", "SUCCESS", "BUSY", "ERROR"},
     start : [Directions -> Nat]]

(* The types of the session contexts, the call and the channels; only      *)
(* requests that have a handler are sent, deferred and answered, so every  *)
(* dispatch finds one (libspdm_get_response_func_via_request_code).        *)
TypeOK ==
    /\ reqState \in SessionStates /\ rspState \in SessionStates
    /\ reqKeys \in [Directions -> DirectionKey]
    /\ rspKeys \in [Directions -> DirectionKey]
    /\ reqLast \in {"NONE", "UPDATE_KEY"} /\ rspLast \in Updates \cup {"NONE"}
    /\ call \in CallType
    /\ deferred \in DeferredType
    /\ token \in 0 .. TokenCount - 1
    /\ encap \in EncapType
    /\ toRsp \in Seq(MessageType(RequestType)) /\ toReq \in Seq(MessageType(ResponseType))
    /\ lastNonce \in [Directions -> NonceType]
    /\ faults \in 0 .. MaxFaults

(* No nonce is ever used twice: what the encoder of a direction will use   *)
(* next comes after everything it has used, across updates, rollbacks,     *)
(* retries and the end of the counter (libspdm_encode_secured_message).    *)
NonceFresh ==
    /\ NonceBefore(lastNonce["REQ"], reqKeys["REQ"])
    /\ NonceBefore(lastNonce["RSP"], rspKeys["RSP"])

(* No message has been lost, late or unsent.                               *)
AllDelivered == faults = 0 \/ FaultKinds \cap {"SEND", "LOSS", "LATE"} = {}

(* An UPDATE_ALL_KEYS call while the Responder's own update, delivered by  *)
(* an encapsulated KEY_UPDATE, is not verified yet: both want to replace   *)
(* the one backup of the Responder key that                                *)
(* libspdm_create_update_session_data_key keeps.                           *)
UpdatesOverlap == call.api = "UPDATE_ALL_KEYS" /\ reqLast # "NONE"

(* When no message is lost, late or unsent, no answer of the Responder     *)
(* (BUSY and ResponseNotReady to a KEY_UPDATE included) makes either end   *)
(* fail to decrypt and drop the session (libspdm_receive_response,         *)
(* libspdm_process_request), unless two updates overlap.                   *)
NoDecryptError ==
    (AllDelivered /\ ~UpdatesOverlap)
    => reqState # "DECRYPT_ERROR" /\ rspState # "DECRYPT_ERROR"

(* When no message is lost, late or unsent, both ends can read each        *)
(* other's next message whenever the line is quiet, also after an update   *)
(* that failed half way.                                                   *)
InStepWhenQuiet ==
    (/\ AllDelivered
     /\ call.pc = "idle" /\ toRsp = <<>> /\ toReq = <<>>
     /\ reqState = "ESTABLISHED" /\ rspState = "ESTABLISHED")
    => /\ InLimit(reqKeys["REQ"]) => InStep(reqKeys["REQ"], rspKeys["REQ"])
       /\ InLimit(rspKeys["RSP"]) => InStep(rspKeys["RSP"], reqKeys["RSP"])

(* Both ends moved on by exactly one key in the directions the call asked  *)
(* for, hold the same keys, and nothing of an update is pending.           *)
UpdatedBothEnds ==
    /\ reqKeys["REQ"].gen = call.start["REQ"] + 1
    /\ reqKeys["RSP"].gen = call.start["RSP"]
                            + (IF call.api = "UPDATE_KEY" THEN 0 ELSE 1)
    /\ rspLast = "NONE"
    /\ \A d \in Directions :
         /\ rspKeys[d].gen = reqKeys[d].gen
         /\ ~rspKeys[d].valid /\ ~reqKeys[d].valid

(* libspdm_key_update returns SUCCESS only when the update has happened at *)
(* both ends, whatever was retried, deferred, lost or not sent, as long as *)
(* no call gave up before its answer came and no encapsulated update of    *)
(* the Responder is unverified.                                            *)
SuccessMeansUpdated ==
    (/\ call.pc = "idle" /\ call.api \in Updates /\ call.status = "SUCCESS"
     /\ ~call.late /\ reqLast = "NONE")
    => UpdatedBothEnds

(* The Requester ends a session only together with the Responder           *)
(* (libspdm_try_send_receive_end_session, libspdm_build_response).         *)
EndAgreement == reqState = "ENDED" => rspState = "ENDED"

(* ResponseNotReady is followed by RESPOND_IF_READY: the Requester does    *)
(* not give up on an answer that defers its own request                    *)
(* (libspdm_handle_response_not_ready).                                    *)
NotReadyIsAsked ==
    ~(call.pc = "got" /\ call.answer.code = "RESPONSE_NOT_READY"
      /\ call.answer.what = call.sent.code)

(* A call sends a bounded number of requests, however the Responder mixes  *)
(* BUSY and ResponseNotReady: two for each try, and two more for the step  *)
(* from the update to VERIFY_NEW_KEY (libspdm_key_update).                 *)
BoundedRequests == call.sends <= 2 * (RetryTimes + 1) + 2

(* Every API call returns, however often the Responder defers it and       *)
(* whatever is lost (the retry loop of libspdm_key_update and the loop of  *)
(* libspdm_encapsulated_request terminate).                                *)
CallReturns == call.pc # "idle" ~> call.pc = "idle"
=============================================================================
