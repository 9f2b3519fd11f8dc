---------------------------- MODULE Encapsulated ----------------------------
(***************************************************************************)
(* Encapsulated requests: the Responder sends requests of its own inside   *)
(* the answers to GET_ENCAPSULATED_REQUEST and DELIVER_ENCAPSULATED_       *)
(* RESPONSE.  A flow belongs to a channel, outside of a session or in it,  *)
(* and is one of three kinds: basic mutual authentication, opened by       *)
(* CHALLENGE_AUTH; session-based mutual authentication, opened by          *)
(* KEY_EXCHANGE_RSP and closed before FINISH; and the general flow, opened *)
(* by a Requester that polls.  The Integrator's handler chooses the        *)
(* encapsulated requests: any choice its contract allows is modelled.      *)
(* KEY_UPDATE as an encapsulated request is in module KeyUpdate.           *)
(***************************************************************************)
EXTENDS Naturals, Sequences

CONSTANTS
    MaxId,          \* UINT8_MAX: the largest request_id
    Chains,         \* length of the Requester's certificate chain, per slot
    EmptySlots,     \* slots without a certificate chain
    Portion,        \* units of a chain that fit a CERTIFICATE response
    BufferSize,     \* payload_buffer_max_size
    ClearHandshakes,\* values of HANDSHAKE_IN_THE_CLEAR_CAP to consider
    MutAuth,        \* mut_auth_requested values to consider
    FaultKinds,     \* which faults may happen
    MaxFaults,      \* bound: faults in a behaviour
    MaxIssued,      \* bound: requests the handler makes in a behaviour
    MaxCalls        \* bound: API calls in a behaviour

Slots == DOMAIN Chains
Chain(s) == [i \in 1..Chains[s] |-> <<s, i>>]

ASSUME ConstantsAssumption ==
    /\ MaxId \in Nat \ {0} /\ Portion \in Nat \ {0} /\ BufferSize \in Nat
    /\ 0 \in Slots /\ Slots \cap EmptySlots = {}
    /\ \A s \in Slots : Chains[s] \in Nat \ {0}
    /\ ClearHandshakes \subseteq BOOLEAN

VARIABLES
    clear,     \* both ends negotiated HANDSHAKE_IN_THE_CLEAR_CAP
    ctx,       \* Responder: libspdm_encap_context_t of each channel
    rsp,       \* Responder: connection, session, chains and transcript
    req,       \* Requester: session and transcript
    call,      \* Requester: the API call in progress, or the last one
    toRsp, toReq,
    issued,    \* requests the handler made
    calls, faults,
    history    \* events the properties speak of

vars == <<clear, ctx, rsp, req, call, toRsp, toReq, issued, calls, faults, history>>

-----------------------------------------------------------------------------
(* Messages.                                                               *)

(* An encapsulated request.  n numbers the handler's requests; of a        *)
(* CHALLENGE it stands for the nonce and the context field.                *)
Request(code, slot, off, n) == [code |-> code, slot |-> slot, off |-> off, n |-> n]
NoRequest == Request("-", 0, 0, 0)

(* An encapsulated response to the request re; sig is what a CHALLENGE_AUTH *)
(* signs.  A response echoes a slot but no offset.                         *)
Response(code, re, data, rem) ==
    [code |-> code, slot |-> re.slot, data |-> data, rem |-> rem, sig |-> <<>>, re |-> re]

Msg(ch, code, id, ack, body) ==
    [ch |-> ch, code |-> code, id |-> id, ack |-> ack, body |-> body]
Error(ch, code) == Msg(ch, "ERROR", 0, 0, Request(code, 0, 0, 0))

(* What a transcript records of a message: nonces tell only CHALLENGEs and *)
(* their answers apart.                                                    *)
Recorded(r) == [r EXCEPT !.n = IF r.code = "CHALLENGE" THEN @ ELSE 0]
Answered(a) == [a EXCEPT !.re = Recorded(a.re)]

Fault(kind) ==
    kind \in FaultKinds /\ faults < MaxFaults /\ faults' = faults + 1

-----------------------------------------------------------------------------
(* The Requester.                                                          *)

(* A handshaking session's messages travel outside of it when both ends    *)
(* have HANDSHAKE_IN_THE_CLEAR_CAP.                                        *)
Wire(ch) ==
    IF ch = "session" /\ clear /\ req.session = "HANDSHAKING" THEN "clear" ELSE ch

Return(c, status) == [c EXCEPT !.pc = "idle", !.status = status]

(* libspdm_send_spdm_request, the API call being c once the message left.  *)
Send(c, code, id, body) ==
    \/ /\ toRsp' = Append(toRsp, Msg(Wire(c.ch), code, id, 0, body))
       /\ call' = c
       /\ UNCHANGED faults
    \/ Fault("SEND") /\ call' = Return(c, "ERROR") /\ UNCHANGED toRsp

NewCall(api, ch, pc) ==
    /\ call.pc = "idle" /\ calls < MaxCalls /\ calls' = calls + 1
    /\ call' = [api |-> api, ch |-> ch, pc |-> pc, id |-> 0, slot |-> 0, status |-> "-"]

(* libspdm_challenge and libspdm_send_receive_encap_request are called.    *)
StartChallenge ==
    /\ NewCall("CHALLENGE", "clear", "challenge")
    /\ toRsp' = Append(toRsp, Msg("clear", "CHALLENGE", 0, 0, NoRequest))
    /\ UNCHANGED <<clear, ctx, rsp, req, toReq, issued, faults, history>>

StartEncap(ch) ==
    /\ ch = "session" => req.session = "ESTABLISHED"
    /\ NewCall("ENCAP", ch, "begin")
    /\ UNCHANGED <<clear, ctx, rsp, req, toRsp, toReq, issued, faults, history>>

(* The Requester's answer to r and its transcript: DIGESTS, a portion of   *)
(* the chain, or a signature over the transcript, which is then discarded. *)
(* EVENT_ACK, and the answer to RESPOND_IF_READY, are the Integrator's,    *)
(* who may also ask for more time.                                         *)
Answer(mut, r) ==
    LET Other(code) == [a |-> Response(code, r, <<>>, 0), mut |-> mut]
        Reply(a) == [a |-> a, mut |-> mut \o <<Recorded(r), Answered(a)>>]
        end == IF r.off + Portion > Chains[r.slot] THEN Chains[r.slot]
               ELSE r.off + Portion
        auth == Response("CHALLENGE_AUTH", r, <<>>, 0)
        deferred == [r EXCEPT !.code = "SEND_EVENT"] IN
    CASE r.code = "GET_DIGESTS" -> {Reply(Response("DIGESTS", r, <<>>, 0))}
      [] r.code = "GET_CERTIFICATE" ->
           IF r.slot \in EmptySlots THEN {Other("ERROR")}
           ELSE IF r.off >= Chains[r.slot] THEN {Other("ERROR")}
           ELSE {Reply(Response("CERTIFICATE", r,
                                SubSeq(Chain(r.slot), r.off + 1, end),
                                Chains[r.slot] - end))}
      [] r.code = "CHALLENGE" ->
           {[a |-> [auth EXCEPT !.sig = Reply(auth).mut], mut |-> <<>>]}
      [] r.code = "SEND_EVENT" ->
           {Other(code) : code \in {"EVENT_ACK", "ERROR", "RESPONSE_NOT_READY"}}
      [] r.code = "RESPOND_IF_READY" ->
           {[a |-> Response(code, deferred, <<>>, 0), mut |-> mut] :
              code \in {"EVENT_ACK", "RESPONSE_NOT_READY"}}

(* An iteration of libspdm_encapsulated_request: r is answered in a        *)
(* DELIVER_ENCAPSULATED_RESPONSE.                                          *)
Deliver(mut, id, r) ==
    \E x \in Answer(mut, r) :
       /\ req' = [req EXCEPT !.mut = x.mut]
       /\ Send([call EXCEPT !.pc = "ack", !.id = id],
               "DELIVER_ENCAPSULATED_RESPONSE", id, x.a)

(* libspdm_encapsulated_request begins: with the GET_DIGESTS that          *)
(* KEY_EXCHANGE_RSP implies, or by asking for the first request.           *)
BeginFlow ==
    /\ call.pc = "begin"
    /\ IF call.api = "SESSION" /\ req.asked = "DIGESTS"
       THEN Deliver(<<>>, 0, Request("GET_DIGESTS", 0, 0, 0))
       ELSE /\ req' = [req EXCEPT !.mut = <<>>]
            /\ Send([call EXCEPT !.pc = "request"],
                    "GET_ENCAPSULATED_REQUEST", 0, NoRequest)
    /\ UNCHANGED <<clear, ctx, rsp, toReq, issued, calls, history>>

(* Faulty variant: the designated slot is not used.                        *)
FlowSucceededSlotZero(c) ==
    IF c.api = "SESSION"
    THEN Send([c EXCEPT !.pc = "finish"], "FINISH", 0, NoRequest)
    ELSE call' = Return(c, "SUCCESS") /\ UNCHANGED <<toRsp, faults>>

(* libspdm_start_session goes on with FINISH, signed with the slot that    *)
(* the flow designated.                                                    *)
FlowSucceeded(c) ==
    IF c.api = "SESSION"
    THEN Send([c EXCEPT !.pc = "finish"], "FINISH", 0, Request("-", c.slot, 0, 0))
    ELSE call' = Return(c, "SUCCESS") /\ UNCHANGED <<toRsp, faults>>

CallFails == call' = Return(call, "ERROR") /\ UNCHANGED <<req, toRsp, faults>>

(* libspdm_try_send_receive_finish frees the session when it fails, unless *)
(* the Responder is BUSY; libspdm_encapsulated_request does not.           *)
Freed == [req EXCEPT !.session = IF @ = "HANDSHAKING" THEN "FREED" ELSE @]

(* An answer, or the late answer to an earlier call, arrives.              *)
Receives(pc) ==
    /\ call.pc = pc /\ toReq # <<>>
    /\ toReq' = Tail(toReq)
    /\ UNCHANGED <<clear, ctx, rsp, issued, calls, history>>

Arrived(m, code) == m.ch = Wire(call.ch) /\ m.code = code

(* libspdm_try_challenge: mutual authentication is requested by a flag.    *)
ReceiveChallengeAuth ==
    LET m == Head(toReq) IN
    /\ Receives("challenge")
    /\ IF Arrived(m, "CHALLENGE_AUTH")
       THEN /\ call' = IF m.body.code = "MUT_AUTH" THEN [call EXCEPT !.pc = "begin"]
                       ELSE Return(call, "SUCCESS")
            /\ UNCHANGED <<req, toRsp, faults>>
       ELSE CallFails

(* libspdm_encapsulated_request: NoPendingRequests ends the flow unless    *)
(* the Responder asked for it.                                             *)
ReceiveEncapsulatedRequest ==
    LET m == Head(toReq) IN
    /\ Receives("request")
    /\ \/ Arrived(m, "ENCAPSULATED_REQUEST") /\ m.body # NoRequest
          /\ Deliver(req.mut, m.id, m.body)
       \/ Arrived(m, "ERROR") /\ m.body.code = "NO_PENDING_REQUESTS"
          /\ call.api # "SESSION"
          /\ call' = Return(call, "SUCCESS") /\ UNCHANGED <<req, toRsp, faults>>
       \/ /\ ~(Arrived(m, "ENCAPSULATED_REQUEST") /\ m.body # NoRequest)
          /\ ~(Arrived(m, "ERROR") /\ m.body.code = "NO_PENDING_REQUESTS"
               /\ call.api # "SESSION")
          /\ CallFails

ReceiveAck ==
    LET m == Head(toReq)
        ok == Arrived(m, "ENCAPSULATED_RESPONSE_ACK") /\ m.ack = call.id IN
    /\ Receives("ack")
    /\ \/ /\ ok /\ m.body.code \in {"-", "REQ_SLOT_NUMBER"}
          /\ FlowSucceeded([call EXCEPT !.slot = IF @ = 0 THEN m.body.slot ELSE @])
          /\ req' = IF call.api = "SESSION" /\ call'.pc = "idle" THEN Freed ELSE req
       \/ ok /\ m.body.code \notin {"-", "REQ_SLOT_NUMBER"}
          /\ Deliver(req.mut, m.id, m.body)
       \/ ~ok /\ CallFails

(* libspdm_send_receive_finish.                                            *)
ReceiveFinishRsp ==
    LET m == Head(toReq) IN
    /\ Receives("finish")
    /\ IF Arrived(m, "FINISH_RSP")
       THEN /\ call' = Return(call, "SUCCESS")
            /\ req' = [req EXCEPT !.session = "ESTABLISHED"]
            /\ UNCHANGED <<toRsp, faults>>
       ELSE /\ call' = Return(call, "ERROR") /\ UNCHANGED <<toRsp, faults>>
            /\ req' \in IF m.body.code = "REFUSED" THEN {req, Freed} ELSE {Freed}

(* No answer came in time: the message or its answer was lost, or (LATE)   *)
(* is still under way.                                                     *)
TimeOut ==
    /\ call.pc \notin {"idle", "begin"}
    /\ \/ toRsp = <<>> /\ toReq = <<>> /\ UNCHANGED <<faults, history>>
       \/ /\ toRsp # <<>> \/ toReq # <<>>
          /\ Fault("LATE") /\ history' = history \cup {"LATE"}
    /\ call' = Return(call, "ERROR")
    /\ req' = IF call.pc = "finish" THEN Freed ELSE req
    /\ UNCHANGED <<clear, ctx, rsp, toRsp, toReq, issued, calls>>

-----------------------------------------------------------------------------
(* The Responder.                                                          *)

(* libspdm_get_encap_session_id_via_last_request: the flow of a handshake  *)
(* in the clear is tracked in its session.                                 *)
Encap(ch) ==
    IF ch = "clear" /\ clear /\ ctx["session"].flow = "SESS_MUT_AUTH"
    THEN "session" ELSE ch

(* libspdm_is_request_unexpected_for_mut_auth_encap.                       *)
Unexpected(ch, code) ==
    LET e == ctx[Encap(ch)] IN
    \/ /\ ch = "session" \/ clear
       /\ rsp.session = "HANDSHAKING" /\ ~ctx["session"].sized
       /\ code # IF rsp.asked = "ENCAP" THEN "GET_ENCAPSULATED_REQUEST"
                 ELSE "DELIVER_ENCAPSULATED_RESPONSE"
    \/ /\ ch = "clear" /\ ctx["clear"].flow = "BASIC_MUT_AUTH" /\ ~ctx["clear"].sized
       /\ code # "GET_ENCAPSULATED_REQUEST"
    \/ /\ e.flow # "NONE"
       /\ code \notin {"GET_ENCAPSULATED_REQUEST", "DELIVER_ENCAPSULATED_RESPONSE"}
    \/ e.flow = "NONE" /\ e.notReady /\ code # "GET_ENCAPSULATED_REQUEST"

NoFlow ==
    [flow |-> "NONE", id |-> 0, last |-> NoRequest, sized |-> FALSE, slot |-> 0,
     buf |-> <<>>, total |-> 0, notReady |-> FALSE, resume |-> "NONE", designated |-> 0]

(* The two init_encap_state, at CHALLENGE_AUTH and at KEY_EXCHANGE_RSP,    *)
(* where the implied GET_DIGESTS is outstanding from the start.            *)
InitEncapState(e, flow, last) ==
    [e EXCEPT !.flow = flow, !.id = 0, !.last = last, !.sized = FALSE, !.buf = <<>>]

(* Faulty variant: GET_ENCAPSULATED_REQUEST treated as DELIVER, which      *)
(* leaves the transcript of mutual authentication alone.                   *)
ResetViaRequestCodeNever(r) == r

(* libspdm_reset_message_buffer_via_request_code.                          *)
ResetViaRequestCode(r) == IF r.auth THEN r ELSE [r EXCEPT !.mut = <<>>]

(* libspdm_start_session: KEY_EXCHANGE, in one step; one session.          *)
StartSession ==
    /\ req.session = "NONE"
    /\ NewCall("SESSION", "session", "begin")
    /\ ~Unexpected("clear", "KEY_EXCHANGE") /\ toRsp = <<>> /\ toReq = <<>>
    /\ \E m \in MutAuth :
         /\ req' = [req EXCEPT !.session = "HANDSHAKING", !.asked = m]
         /\ rsp' = [rsp EXCEPT !.session = "HANDSHAKING", !.asked = m, !.mut = <<>>]
         /\ ctx' = [ctx EXCEPT !["session"] =
                      InitEncapState(NoFlow, "SESS_MUT_AUTH",
                                     IF m = "ENCAP" THEN NoRequest
                                     ELSE Request("GET_DIGESTS", 0, 0, 0))]
    /\ UNCHANGED <<clear, toRsp, toReq, issued, faults, history>>

(* libspdm_is_encap_request_legal.                                         *)
Legal(flow, ch, code) ==
    CASE flow = "BASIC_MUT_AUTH" ->
           ch = "clear" /\ code \in {"CHALLENGE", "GET_DIGESTS", "GET_CERTIFICATE"}
      [] flow = "SESS_MUT_AUTH" ->
           ch = "session" /\ code \in {"GET_DIGESTS", "GET_CERTIFICATE"}
      [] flow = "GENERAL" ->
           \/ code \in {"GET_DIGESTS", "GET_CERTIFICATE"}
           \/ code = "SEND_EVENT" /\ ch = "session"

(* Faulty variant: payload_buffer_size is not reset.                       *)
IssueKeepsBuffer(e, r) ==
    [e EXCEPT !.last = r, !.sized = TRUE,
              !.slot = IF r.code \in {"GET_CERTIFICATE", "CHALLENGE"} THEN r.slot ELSE @]

(* libspdm_get_encap_request_*: r becomes the outstanding request, and is  *)
(* recorded; GET_CERTIFICATE empties the buffer.                           *)
Issue(e, r) ==
    [e EXCEPT !.last = r, !.sized = TRUE,
              !.slot = IF r.code \in {"GET_CERTIFICATE", "CHALLENGE"} THEN r.slot ELSE @,
              !.buf = IF r.code = "GET_CERTIFICATE" /\ r.off = 0 THEN <<>> ELSE @]
Record(p, r) ==
    IF r.code = "SEND_EVENT" THEN p ELSE [p EXCEPT !.mut = Append(@, Recorded(r))]

(* What the Integrator's handler may do on channel ch: make a request,     *)
(* designate a slot and end the flow, or (HANDLER) fail, make an ERROR, or *)
(* leave the request empty.                                                *)
HandlerChoices(ch, e, p) ==
    LET n == issued + 1
        Make(code, slot) == [do |-> "REQUEST", r |-> Request(code, slot, 0, n), slot |-> e.designated]
        Do(what, slot) == [do |-> what, r |-> NoRequest, slot |-> slot] IN
    {Do(what, e.designated) : what \in {"END", "FAIL", "ERROR", "EMPTY"}}
    \cup (IF e.flow = "SESS_MUT_AUTH" THEN {Do("END", s) : s \in p.known} ELSE {})
    \cup {Make("GET_DIGESTS", 0)}
    \cup {Make("GET_CERTIFICATE", s) : s \in Slots \cup EmptySlots}
    \cup (IF ch = "clear" THEN {Make("CHALLENGE", s) : s \in p.known} ELSE {})
    \cup (IF ch = "session" /\ p.session = "ESTABLISHED" THEN {Make("SEND_EVENT", 0)} ELSE {})

(* The handler is called, and did x.                                       *)
Handler(x) ==
    /\ x.do = "REQUEST" => issued < MaxIssued
    /\ issued' = IF x.do = "REQUEST" THEN issued + 1 ELSE issued
    /\ IF x.do \in {"FAIL", "ERROR", "EMPTY"} THEN Fault("HANDLER") ELSE UNCHANGED faults

Reply(m) == toRsp' = Tail(toRsp) /\ toReq' = Append(toReq, m)

Responds(code) ==
    /\ toRsp # <<>> /\ Head(toRsp).code = code
    /\ UNCHANGED <<clear, req, call, calls>>

(* A request the dispatcher refuses, or one that meets a response_state    *)
(* other than NORMAL (HOLD): an ERROR, and nothing changes.                *)
Refuse(m) ==
    /\ \/ Unexpected(m.ch, m.code) /\ UNCHANGED faults
       \/ ~Unexpected(m.ch, m.code) /\ Fault("HOLD")
    /\ Reply(Error(m.ch, "REFUSED"))
    /\ UNCHANGED <<ctx, rsp, issued, history>>

(* libspdm_get_response_challenge_auth: the flow is opened before the      *)
(* signature is made, which may fail (CRYPTO).                             *)
RespondChallenge ==
    LET m == Head(toRsp) IN
    /\ Responds("CHALLENGE")
    /\ \/ Refuse(m)
       \/ /\ ~Unexpected("clear", "CHALLENGE")
          /\ \E mutAuth \in BOOLEAN :
               /\ ctx' = IF mutAuth
                         THEN [ctx EXCEPT !["clear"] =
                                 InitEncapState(@, "BASIC_MUT_AUTH", NoRequest)]
                         ELSE ctx
               /\ \/ /\ Fault("CRYPTO")
                     /\ rsp' = IF mutAuth THEN [rsp EXCEPT !.mut = <<>>] ELSE rsp
                     /\ Reply(Error("clear", "UNSPECIFIED"))
                  \/ /\ rsp' = IF mutAuth THEN [rsp EXCEPT !.mut = <<>>]
                               ELSE [rsp EXCEPT !.auth = TRUE]
                     /\ Reply(Msg("clear", "CHALLENGE_AUTH", 0, 0,
                                  IF mutAuth THEN Request("MUT_AUTH", 0, 0, 0)
                                  ELSE NoRequest))
                     /\ UNCHANGED faults
          /\ UNCHANGED <<issued, history>>

(* Faulty variant: RESPOND_IF_READY becomes the outstanding request.       *)
ResumedAnew(e) ==
    [e EXCEPT !.flow = e.resume, !.notReady = FALSE, !.last.code = "RESPOND_IF_READY"]

(* The context of a flow that ResponseNotReady ended, once resumed: the    *)
(* request that was deferred is still the outstanding one.                 *)
Resumed(e) == [e EXCEPT !.flow = e.resume, !.notReady = FALSE]

(* libspdm_get_response_encapsulated_request: RESPOND_IF_READY for a flow  *)
(* that is resumed, otherwise what the handler chooses.                    *)
RespondGetEncapsulatedRequest ==
    LET m == Head(toRsp)
        c == Encap(m.ch)
        old == ctx[c]
        e == IF old.flow # "NONE" THEN old
             ELSE IF old.notReady THEN Resumed(old)
             ELSE [old EXCEPT !.flow = "GENERAL", !.id = 0, !.last = NoRequest, !.sized = FALSE]
        p == ResetViaRequestCode(rsp)
        Ended(x) == [x EXCEPT !.flow = "NONE"]
        ReplyRequest(r) == Reply(Msg(m.ch, "ENCAPSULATED_REQUEST", e.id, 0, r)) IN
    /\ Responds("GET_ENCAPSULATED_REQUEST")
    /\ \/ Refuse(m)
       \/ /\ ~Unexpected(m.ch, m.code) /\ old.flow = "NONE" /\ old.notReady
          /\ rsp' = p
          /\ ctx' = [ctx EXCEPT ![c] = IF e.sized THEN e ELSE Ended(e)]
          /\ Reply(IF e.sized
                   THEN Msg(m.ch, "ENCAPSULATED_REQUEST", e.id, 0,
                            Request("RESPOND_IF_READY", 0, 0, e.last.n))
                   ELSE Error(m.ch, "UNSPECIFIED"))
          /\ UNCHANGED <<issued, faults, history>>
       \/ /\ ~Unexpected(m.ch, m.code) /\ ~(old.flow = "NONE" /\ old.notReady)
          /\ history' = IF e.flow = "BASIC_MUT_AUTH" /\ rsp.auth /\ rsp.mut # <<>>
                        THEN history \cup {"KEPT"} ELSE history
          /\ \E x \in HandlerChoices(c, e, p) :
               LET f == [e EXCEPT !.designated = x.slot] IN
               /\ Handler(x)
               /\ rsp' = IF x.do = "REQUEST" THEN Record(p, x.r) ELSE p
               /\ \/ /\ x.do = "REQUEST" /\ Legal(e.flow, c, x.r.code)
                     /\ ctx' = [ctx EXCEPT ![c] = Issue(f, x.r)]
                     /\ ReplyRequest(x.r)
                  \/ /\ x.do = "REQUEST" /\ ~Legal(e.flow, c, x.r.code)
                     /\ ctx' = [ctx EXCEPT ![c] = Ended(Issue(f, x.r))]
                     /\ Reply(Error(m.ch, "UNSPECIFIED"))
                  \/ /\ x.do = "END"
                     /\ ctx' = [ctx EXCEPT ![c] = Ended(f)]
                     /\ Reply(Error(m.ch, IF e.flow = "GENERAL" THEN "NO_PENDING_REQUESTS"
                                          ELSE "UNSPECIFIED"))
                  \/ /\ x.do = "FAIL"
                     /\ ctx' = [ctx EXCEPT ![c] = Ended(f)]
                     /\ Reply(Error(m.ch, "UNSPECIFIED"))
                  \/ /\ x.do = "ERROR"
                     /\ ctx' = [ctx EXCEPT ![c] = f]
                     /\ Reply(Error(m.ch, "HANDLER"))
                  \/ /\ x.do = "EMPTY"
                     /\ ctx' = [ctx EXCEPT ![c] = Ended(f)]
                     /\ ReplyRequest(NoRequest)

(* libspdm_dispatch_process_encap_response: the outcome of processing the  *)
(* response a, with the context and the connection it leaves.              *)
Process(e, p, a) ==
    LET Result(s, f, q) == [status |-> s, e |-> f, p |-> q]
        recorded == [p EXCEPT !.mut = Append(@, Answered([a EXCEPT !.sig = <<>>]))]
        total == Len(e.buf) + Len(a.data) + a.rem
        f == IF e.buf = <<>> THEN [e EXCEPT !.total = total] ELSE e
        buf == e.buf \o a.data
        full == [f EXCEPT !.buf = buf]
        verified == a.sig = recorded.mut IN
    CASE e.last.code = "-" -> Result("OK", e, p)
      [] e.last.code # "-" /\ a.code = "ERROR" -> Result("ERROR", e, p)
      [] e.last.code # "-" /\ a.code = "RESPONSE_NOT_READY" ->
           Result(IF a.re.code = e.last.code THEN "NOT_READY" ELSE "FAIL", e, p)
      [] e.last.code = "GET_DIGESTS" /\ a.code = "DIGESTS" -> Result("OK", e, recorded)
      [] e.last.code = "GET_CERTIFICATE" /\ a.code = "CERTIFICATE" ->
           IF total # f.total \/ a.slot # e.slot THEN Result("FAIL", f, p)
           ELSE IF Len(buf) > BufferSize THEN Result("FAIL", f, recorded)
           ELSE IF a.rem # 0 THEN Result("CONTINUE", full, recorded)
           ELSE IF buf # Chain(e.slot) THEN Result("FAIL", full, recorded)
           ELSE Result("OK", full, [recorded EXCEPT !.known = @ \cup {e.slot}])
      [] e.last.code = "CHALLENGE" /\ a.code = "CHALLENGE_AUTH" ->
           IF a.slot # e.slot \/ a.re.n # e.last.n THEN Result("FAIL", e, p)
           ELSE Result(IF verified THEN "OK" ELSE "UNVERIFIED", e,
                       [p EXCEPT !.mut = <<>>, !.auth = @ \/ verified])
      [] e.last.code = "SEND_EVENT" /\ a.code = "EVENT_ACK" -> Result("OK", e, p)
      [] OTHER -> Result("FAIL", e, p)

(* Faulty variant: no wrap.                                                *)
NextIdUnbounded(id) == id + 1

(* request_id, of eight bits, wraps to 1.                                  *)
NextId(id) == IF id = MaxId THEN 1 ELSE id + 1

(* set_ack_fields: the next request, or the end of the flow.               *)
AckRequest(m, c, e, r) ==
    /\ ctx' = [ctx EXCEPT ![c] = [e EXCEPT !.id = NextId(@)]]
    /\ Reply(Msg(m.ch, "ENCAPSULATED_RESPONSE_ACK", NextId(e.id), m.id, r))

(* Faulty variant: a general flow stays open.                              *)
AckEndKeepsFlow(m, c, e, deferred) ==
    /\ ctx' = [ctx EXCEPT ![c] = [e EXCEPT !.flow = IF @ = "GENERAL" /\ ~deferred THEN @ ELSE "NONE"]]
    /\ Reply(Msg(m.ch, "ENCAPSULATED_RESPONSE_ACK", 0, m.id,
                 IF e.flow = "SESS_MUT_AUTH" /\ ~deferred
                 THEN Request("REQ_SLOT_NUMBER", e.designated, 0, 0) ELSE NoRequest))

(* The final acknowledgement, of session-based mutual authentication with  *)
(* the slot to sign FINISH with.                                           *)
AckEnd(m, c, e, deferred) ==
    /\ ctx' = [ctx EXCEPT ![c] = [e EXCEPT !.flow = "NONE"]]
    /\ Reply(Msg(m.ch, "ENCAPSULATED_RESPONSE_ACK", 0, m.id,
                 IF e.flow = "SESS_MUT_AUTH" /\ ~deferred
                 THEN Request("REQ_SLOT_NUMBER", e.designated, 0, 0) ELSE NoRequest))
EndWithError(m, c, e, code) ==
    /\ ctx' = [ctx EXCEPT ![c] = [e EXCEPT !.flow = "NONE"]]
    /\ Reply(Error(m.ch, code))

(* An encapsulated ERROR ends the flow: the handler is told, and may only  *)
(* acknowledge it (or fail).                                               *)
AcknowledgeError(m, c, e, deferred) ==
    \E x \in HandlerChoices(c, e, rsp) :
       /\ x.do \in {"END", "FAIL"} /\ Handler(x)
       /\ LET f == [e EXCEPT !.designated = x.slot] IN
          IF x.do = "FAIL" THEN EndWithError(m, c, f, "UNSPECIFIED")
          ELSE AckEnd(m, c, f, deferred)

(* The handler chooses how the flow goes on.                               *)
Continue(m, c, e, p) ==
    \E x \in HandlerChoices(c, e, p) :
       LET f == [e EXCEPT !.designated = x.slot] IN
       /\ Handler(x)
       /\ rsp' = IF x.do = "REQUEST" THEN Record(p, x.r) ELSE p
       /\ \/ /\ x.do = "REQUEST" /\ Legal(e.flow, c, x.r.code)
             /\ AckRequest(m, c, Issue(f, x.r), x.r)
          \/ /\ x.do = "REQUEST" /\ ~Legal(e.flow, c, x.r.code)
             /\ EndWithError(m, c, Issue(f, x.r), "UNSPECIFIED")
          \/ x.do \in {"END", "EMPTY"} /\ AckEnd(m, c, f, FALSE)
          \/ x.do = "FAIL" /\ EndWithError(m, c, f, "UNSPECIFIED")
          \/ /\ x.do = "ERROR"
             /\ ctx' = [ctx EXCEPT ![c] = f] /\ Reply(Error(m.ch, "HANDLER"))

(* libspdm_get_response_encapsulated_response_ack: the response is         *)
(* processed, then a long chain is asked on without the handler, a         *)
(* CHALLENGE_AUTH ends the flow, and the handler decides in other cases.   *)
RespondDeliver ==
    LET m == Head(toRsp)
        c == Encap(m.ch)
        e == ctx[c]
        x == Process(e, rsp, m.body)
        more == Request("GET_CERTIFICATE", x.e.slot, Len(x.e.buf), x.e.last.n) IN
    /\ Responds("DELIVER_ENCAPSULATED_RESPONSE")
    /\ \/ Refuse(m)
       \/ /\ ~Unexpected(m.ch, m.code) /\ (e.flow = "NONE" \/ m.id # e.id)
          /\ Reply(Error(m.ch, "INVALID_REQUEST"))
          /\ UNCHANGED <<ctx, rsp, issued, faults, history>>
       \/ /\ ~Unexpected(m.ch, m.code) /\ e.flow # "NONE" /\ m.id = e.id
          /\ history' = IF x.status = "UNVERIFIED" THEN history \cup {"UNVERIFIED"} ELSE history
          /\ \/ /\ x.status \in {"FAIL", "UNVERIFIED"}
                /\ rsp' = x.p
                /\ EndWithError(m, c, x.e, "INVALID_RESPONSE_CODE")
                /\ UNCHANGED <<issued, faults>>
             \/ /\ x.status = "ERROR" /\ rsp' = x.p
                /\ AcknowledgeError(m, c, x.e, FALSE)
             \/ /\ x.status = "NOT_READY" /\ rsp' = x.p
                /\ AcknowledgeError(m, c,
                     [x.e EXCEPT !.notReady = TRUE, !.resume = e.flow], TRUE)
             \/ /\ x.status = "CONTINUE"
                /\ rsp' = Record(x.p, more)
                /\ AckRequest(m, c, Issue(x.e, more), more)
                /\ UNCHANGED <<issued, faults>>
             \/ /\ x.status = "OK" /\ e.last.code = "CHALLENGE"
                /\ rsp' = x.p /\ AckEnd(m, c, x.e, FALSE)
                /\ UNCHANGED <<issued, faults>>
             \/ /\ x.status = "OK" /\ e.last.code # "CHALLENGE"
                /\ Continue(m, c, x.e, x.p)

(* libspdm_get_response_finish: signed with the designated slot, by a      *)
(* chain the Responder holds.                                              *)
RespondFinish ==
    LET m == Head(toRsp)
        e == ctx["session"]
        valid == m.body.slot = e.designated /\ e.designated \in rsp.known IN
    /\ Responds("FINISH")
    /\ \/ Refuse(m)
       \/ /\ ~Unexpected(m.ch, "FINISH") /\ rsp.session = "HANDSHAKING"
          /\ rsp' = IF valid THEN [ResetViaRequestCode(rsp) EXCEPT !.session = "ESTABLISHED"]
                    ELSE IF clear /\ m.body.slot # e.designated THEN rsp
                    ELSE ResetViaRequestCode(rsp)
          /\ Reply(IF valid THEN Msg(m.ch, "FINISH_RSP", 0, 0, NoRequest)
                   ELSE Error(m.ch, "INVALID_REQUEST"))
          /\ UNCHANGED <<ctx, issued, faults, history>>

(* A message is lost.                                                      *)
Lose ==
    /\ Fault("LOSS")
    /\ \/ toRsp # <<>> /\ toRsp' = Tail(toRsp) /\ UNCHANGED toReq
       \/ toReq # <<>> /\ toReq' = Tail(toReq) /\ UNCHANGED toRsp
    /\ UNCHANGED <<clear, ctx, rsp, req, call, issued, calls, history>>

-----------------------------------------------------------------------------
Init ==
    /\ clear \in ClearHandshakes
    /\ ctx = [c \in {"clear", "session"} |-> NoFlow]
    /\ rsp = [auth |-> FALSE, session |-> "NONE", asked |-> "-", known |-> {}, mut |-> <<>>]
    /\ req = [session |-> "NONE", asked |-> "-", mut |-> <<>>]
    /\ call = [api |-> "-", ch |-> "clear", pc |-> "idle", id |-> 0, slot |-> 0,
               status |-> "-"]
    /\ toRsp = <<>> /\ toReq = <<>>
    /\ issued = 0 /\ calls = 0 /\ faults = 0 /\ history = {}

RequesterStep ==
    BeginFlow \/ ReceiveChallengeAuth \/ ReceiveEncapsulatedRequest \/ ReceiveAck
    \/ ReceiveFinishRsp \/ TimeOut

ResponderStep ==
    RespondChallenge \/ RespondGetEncapsulatedRequest \/ RespondDeliver \/ RespondFinish

Next ==
    \/ StartChallenge \/ StartSession \/ (\E ch \in {"clear", "session"} : StartEncap(ch))
    \/ RequesterStep \/ ResponderStep \/ Lose

Spec == Init /\ [][Next]_vars

-----------------------------------------------------------------------------
(* Properties.                                                             *)

(* request_id stays in 0..UINT8_MAX, a chain in the Integrator's buffer, a *)
(* mutual authentication flow on its channel, and a deferred flow is out   *)
(* of progress until GET_ENCAPSULATED_REQUEST resumes it.                  *)
TypeOK ==
    \A c \in DOMAIN ctx :
       LET e == ctx[c] IN
       /\ e.id \in 0..MaxId /\ Len(e.buf) <= BufferSize
       /\ e.flow \in {"NONE", "BASIC_MUT_AUTH", "SESS_MUT_AUTH", "GENERAL"}
       /\ e.flow = "BASIC_MUT_AUTH" => c = "clear"
       /\ e.flow = "SESS_MUT_AUTH" => c = "session"
       /\ e.notReady => e.resume # "NONE" /\ e.flow = "NONE"

OnTime == "LATE" \notin history

(* Unless a call was abandoned with a message of it under way, every       *)
(* DELIVER_ENCAPSULATED_RESPONSE carries the request_id that the Responder *)
(* expects and the answer to its outstanding request, through restarted    *)
(* flows, deferred requests and the wrap of request_id.                    *)
AnswersOutstanding ==
    OnTime =>
    \A i \in 1..Len(toRsp) :
       toRsp[i].code = "DELIVER_ENCAPSULATED_RESPONSE" =>
         LET e == ctx[Encap(toRsp[i].ch)] IN
         /\ e.flow # "NONE" /\ toRsp[i].id = e.id
         /\ toRsp[i].body.re = e.last

(* A chain is put together in order: between portions the buffer of        *)
(* libspdm_process_encap_response_certificate holds the beginning of the   *)
(* chain of the slot asked for, though CERTIFICATE does not say its offset.*)
ChainInOrder ==
    OnTime =>
    \A c \in DOMAIN ctx :
       LET e == ctx[c] IN
       e.last.code = "GET_CERTIFICATE" /\ e.buf # <<>> =>
         /\ e.slot \in Slots /\ Len(e.buf) <= Chains[e.slot]
         /\ e.buf = SubSeq(Chain(e.slot), 1, Len(e.buf))

(* The signature of an encapsulated CHALLENGE_AUTH covers the transcript   *)
(* the Responder recorded, unless a call was abandoned with a message      *)
(* under way, or basic mutual authentication began with the transcript of  *)
(* an earlier flow: GET_ENCAPSULATED_REQUEST does not reset it while the   *)
(* Responder counts the Requester as authenticated                         *)
(* (libspdm_reset_message_buffer_via_request_code).                        *)
ChallengeVerifies ==
    "UNVERIFIED" \in history => history \cap {"LATE", "KEPT"} # {}

(* A call that returns success leaves no flow open on its channel, where   *)
(* it would refuse every other request; a deferred one may be resumed.     *)
SuccessEndsFlow ==
    call.pc = "idle" /\ call.status = "SUCCESS" /\ OnTime =>
      ctx[Encap(call.ch)].flow = "NONE"

(* FINISH is sent when the flow that KEY_EXCHANGE_RSP opened is over, with *)
(* the slot that the Responder designated.                                 *)
FinishAfterFlow ==
    \A i \in 1..Len(toRsp) :
       toRsp[i].code = "FINISH" =>
         /\ ctx["session"].flow = "NONE"
         /\ toRsp[i].body.slot = ctx["session"].designated

=============================================================================
