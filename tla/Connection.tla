----------------------------- MODULE Connection -----------------------------
(***************************************************************************)
(* How a libspdm Requester and a libspdm Responder set up a connection,    *)
(* and what they do over it outside a session: GET_VERSION,                *)
(* GET_CAPABILITIES and NEGOTIATE_ALGORITHMS, then GET_DIGESTS,            *)
(* GET_CERTIFICATE, CHALLENGE, GET_MEASUREMENTS and VENDOR_DEFINED, with   *)
(* the transcripts that both ends keep and sign.  The integrator of the    *)
(* Responder may answer BUSY, ResponseNotReady or RequestResynch, and      *)
(* messages may be lost or not sent.                                       *)
(*                                                                         *)
(* A transcript is the sequence of the messages appended to it; a message  *)
(* is its code and what tells it from others of that code (the random      *)
(* numbers of CHALLENGE and GET_MEASUREMENTS, the portion of a certificate *)
(* chain).  A signature is the transcript that it is computed over.        *)
(*                                                                         *)
(* call.pc is the Requester's place in its API call:                       *)
(*   idle  no call            recv  waits for the answer to call.api       *)
(*   send  about to send      rir   waits for that of a RESPOND_IF_READY   *)
(***************************************************************************)
EXTENDS Integers, Sequences, FiniteSetsExt, TLC

CONSTANTS
    Locals,          \* what the two ends may be configured with (local_context)
    Calls,           \* the API calls of the application
    Portions,        \* number of portions of the certificate chain
    MultiKey,        \* multi_key_conn_rsp
    RetryTimes,      \* spdm_context->retry_times
    RdTm,            \* error_data.rd_tm the Responder sends
    ResponseStates,  \* the response_state values the integrator sets
    TokenCount,      \* number of RESPOND_IF_READY tokens (256)
    FaultKinds,      \* faults of the environment that may happen
    MaxFaults,       \* bound: how many of them
    MaxHolds,        \* bound: how often response_state leaves NORMAL
    MaxNonce,        \* bound: no message is given a random number after this
    MaxPortions      \* bound: messages in B before no more are asked for

ASSUME ConnectionAssumption ==
    /\ Portions \in Nat \ {0} /\ TokenCount \in Nat \ {0}
    /\ MultiKey \in BOOLEAN
    /\ {RetryTimes, RdTm, MaxFaults, MaxHolds, MaxNonce, MaxPortions} \subseteq Nat
    /\ ResponseStates \subseteq {"BUSY", "NOT_READY", "NEED_RESYNC"}
    /\ FaultKinds \subseteq {"SEND", "LOSS"}

VARIABLES
    local,     \* local_context of both ends: versions, algorithms, pqc_first
    q,         \* the Requester's connection and transcripts
    call,      \* its API call in progress, or the last one
    p,         \* the Responder's connection and transcripts
    respState, \* response_state
    deferred,  \* cache_spdm_request and error_data, for RESPOND_IF_READY
    token,     \* current_token
    toRsp,     \* requests in flight
    toReq,     \* responses in flight
    nonce,     \* the next random number
    faults,    \* number of faults so far
    holds,     \* how often response_state left NORMAL
    clean      \* history: since GET_VERSION every call has succeeded, none
               \* was a VENDOR_DEFINED

rspVars == <<p, respState, deferred, token>>
vars == <<local, q, call, rspVars, toRsp, toReq, nonce, faults, holds, clean>>

Fault(kind) ==
    kind \in FaultKinds /\ faults < MaxFaults /\ faults' = faults + 1

-----------------------------------------------------------------------------
(* Versions and algorithms.  A version number is 16 bits wide, with the    *)
(* version of the message headers in the upper eight.                      *)

Header(number) == number \div 256
V14 == 20

(* Faulty variant: the lists are taken as they come.                       *)
NegotiateVersionUnsorted(reqList, rspList) ==
    LET matching == {i \in DOMAIN rspList :
                       \E j \in DOMAIN reqList : Header(reqList[j]) = Header(rspList[i])}
    IN  IF matching = {} THEN 0
        ELSE reqList[Min({j \in DOMAIN reqList :
                            Header(reqList[j]) = Header(rspList[Min(matching)])})]

(* libspdm_version_number_sort, libspdm_negotiate_connection_version: the  *)
(* number is the Requester's, 0 when there is none.                        *)
NegotiateVersion(reqList, rspList) ==
    LET r == SortSeq(rspList, >)
        l == SortSeq(reqList, >)
        matching == {i \in DOMAIN r : \E j \in DOMAIN l : Header(l[j]) = Header(r[i])}
    IN  IF matching = {} THEN 0
        ELSE l[Min({j \in DOMAIN l : Header(l[j]) = Header(r[Min(matching)])})]

(* The categories of algorithms that behave differently: HASH stands for   *)
(* those of which one is needed (also AEAD and the key schedule), the two  *)
(* pairs for those of which one of the two is (also REQ_ASYM).             *)
Pqc == {"PQC_ASYM", "KEM"}
Pairs == {<<"ASYM", "PQC_ASYM">>, <<"DHE", "KEM">>}
Categories == {"HASH", "ASYM", "DHE"} \cup Pqc
NoAlgorithm == [c \in Categories |-> 0]

(* libspdm_prioritize_algorithm; algorithms are named by their place in    *)
(* the Responder's priority table.                                         *)
Prioritize(S) == IF S = {} THEN 0 ELSE Min(S)

(* Faulty variant: of a pair both algorithms may be selected.              *)
SelectBoth(v, l) ==
    [c \in Categories |-> IF c \in Pqc /\ v < V14 THEN 0
                          ELSE Prioritize(l.reqAlg[c] \cap l.rspAlg[c])]

(* What libspdm_get_response_algorithms selects of what it is offered.     *)
Select(v, l) ==
    LET s == [c \in Categories |->
                IF c \in Pqc /\ v < V14 THEN 0
                ELSE Prioritize(l.reqAlg[c] \cap l.rspAlg[c])]
        Yields(c) == \E pair \in Pairs :
                       IF l.pqcFirst THEN c = pair[1] /\ s[pair[2]] # 0
                       ELSE c = pair[2] /\ s[pair[1]] # 0
    IN  [c \in Categories |-> IF Yields(c) THEN 0 ELSE s[c]]

(* The checks that both ends make of a selection.                          *)
Acceptable(s) ==
    /\ s["HASH"] # 0
    /\ \A pair \in Pairs : (s[pair[1]] = 0) # (s[pair[2]] = 0)

-----------------------------------------------------------------------------
(* Contexts and transcripts.  B and C are one running hash (M1M2), which   *)
(* libspdm_reset_message_b and libspdm_reset_message_c both discard; A is  *)
(* part of what every signature covers.                                    *)

Rank ==
    [NOT_STARTED |-> 0, AFTER_VERSION |-> 1, AFTER_CAPABILITIES |-> 2, NEGOTIATED |-> 3,
     AFTER_DIGESTS |-> 4, AFTER_CERTIFICATE |-> 5, AUTHENTICATED |-> 6]

(* libspdm_reset_context, for what is modelled here.                       *)
ResetContext ==
    [state |-> "NOT_STARTED", version |-> 0, alg |-> NoAlgorithm, a |-> <<>>,
     bc |-> <<>>, m |-> <<>>, d |-> <<>>, closed |-> FALSE, chain |-> FALSE]

Below(c, state) == Rank[c.state] < Rank[state]
Raise(c, state) == IF Below(c, state) THEN [c EXCEPT !.state = state] ELSE c
ResetM(c) == [c EXCEPT !.m = <<>>]
ResetBC(c) == [c EXCEPT !.bc = <<>>]
Signed(c, t) == <<c.a, t>>

(* libspdm_reset_message_buffer_via_request_code *)
ResetViaRequestCode(c, code) ==
    [c EXCEPT !.closed = @ \/ (code # "GET_DIGESTS" /\ ~Below(c, "NEGOTIATED")),
              !.m = IF code = "GET_MEASUREMENTS" THEN @ ELSE <<>>,
              !.bc = IF \/ code = "GET_DIGESTS"
                        \/ code = "GET_MEASUREMENTS" /\ Below(c, "AUTHENTICATED")
                     THEN <<>> ELSE @]

(* libspdm_append_message_a, _b and _c, _m, _d, of a request and response. *)
AppendA(c, request, response) == [c EXCEPT !.a = @ \o <<request, response>>]
AppendBC(c, request, response) == [c EXCEPT !.bc = @ \o <<request, response>>]
AppendM(c, request, response) == [c EXCEPT !.m = @ \o <<request, response>>]
AppendD(c, response) ==
    IF c.closed \/ c.d # <<>> THEN c ELSE [c EXCEPT !.d = <<response>>]

(* A message: of its code, ver is the header's version, n the random       *)
(* number, portion or token, what the rest.                                *)
Message(code, ver, n, what) == [code |-> code, ver |-> ver, n |-> n, what |-> what]
Error(code) == Message(code, 0, 0, "-")
Entry(message) == <<message.code, message.ver, message.n>>
NoRequest == Error("-")

-----------------------------------------------------------------------------
(* The Requester.                                                          *)

Vca == {"GET_VERSION", "GET_CAPABILITIES", "NEGOTIATE_ALGORITHMS"}
ResponseCode ==
    [GET_VERSION |-> "VERSION", GET_CAPABILITIES |-> "CAPABILITIES",
     NEGOTIATE_ALGORITHMS |-> "ALGORITHMS", GET_DIGESTS |-> "DIGESTS",
     GET_CERTIFICATE |-> "CERTIFICATE", CHALLENGE |-> "CHALLENGE_AUTH",
     GET_MEASUREMENTS |-> "MEASUREMENTS", VENDOR_DEFINED |-> "VENDOR_DEFINED_RESPONSE"]

(* init: the call is part of libspdm_init_connection; sign: a signature is *)
(* asked for; n: the portion or random number of the request that is out.  *)
NoCall == [api |-> "-", init |-> FALSE, sign |-> FALSE, pc |-> "idle", retry |-> 0,
           n |-> 0, status |-> "-"]
Started(api, init, sign) ==
    [api |-> api, init |-> init, sign |-> sign, pc |-> "send", retry |-> RetryTimes,
     n |-> 0, status |-> "-"]

Return(status) ==
    /\ call' = [call EXCEPT !.pc = "idle", !.status = status]
    /\ clean' = (clean /\ status = "SUCCESS")

(* What a call that fails after its request was sent does to L1/L2 (the    *)
(* end of libspdm_try_get_measurement).                                    *)
OnFailure(c, status) ==
    IF call.api = "GET_MEASUREMENTS" /\ status # "NOT_READY" THEN ResetM(c) ELSE c

(* The conditions on the connection state at the start of each call.       *)
Permitted(api) ==
    CASE api = "GET_VERSION" -> TRUE
      [] api = "GET_CAPABILITIES" -> q.state = "AFTER_VERSION"
      [] api = "NEGOTIATE_ALGORITHMS" -> q.state = "AFTER_CAPABILITIES"
      [] OTHER -> ~Below(q, "NEGOTIATED")

(* libspdm_init_connection *)
StartInit ==
    /\ call.pc = "idle" /\ "INIT" \in Calls
    /\ call' = Started("GET_VERSION", TRUE, FALSE)
    /\ UNCHANGED <<local, q, rspVars, toRsp, toReq, nonce, faults, holds, clean>>

StartCall(api, sign) ==
    /\ call.pc = "idle" /\ api \in Calls /\ Permitted(api)
    /\ sign => api = "GET_MEASUREMENTS"
    /\ api \in {"CHALLENGE", "GET_MEASUREMENTS"} => nonce <= MaxNonce
    /\ api = "GET_CERTIFICATE" => Len(p.bc) < MaxPortions
    /\ call' = Started(api, FALSE, sign)
    /\ UNCHANGED <<local, q, rspVars, toRsp, toReq, nonce, faults, holds, clean>>

(* What a libspdm_try_... function does to the context before it sends.    *)
Prepare(c, api) ==
    CASE api = "GET_VERSION" -> ResetContext
      [] api = "VENDOR_DEFINED" \/ (api = "GET_CERTIFICATE" /\ call.n > 0) -> c
      [] OTHER -> ResetViaRequestCode(c, api)

SendMessage(c, k, m) ==
    /\ q' = c
    /\ \/ /\ toRsp' = Append(toRsp, m)
          /\ call' = k /\ UNCHANGED <<faults, clean>>
       \/ Fault("SEND") /\ Return("ERROR") /\ UNCHANGED toRsp

SendRequest ==
    /\ call.pc = "send"
    /\ LET random == call.api \in {"CHALLENGE", "GET_MEASUREMENTS"}
           n == IF random THEN nonce ELSE call.n
           c == Prepare(q, call.api)
       IN /\ SendMessage(c, [call EXCEPT !.pc = "recv", !.n = n],
                         Message(call.api,
                                 IF call.api = "GET_VERSION" THEN 16 ELSE Header(c.version),
                                 n, IF call.sign THEN "SIGN" ELSE "-"))
          /\ nonce' = IF random THEN nonce + 1 ELSE nonce
    /\ UNCHANGED <<local, rspVars, toReq, holds>>

Taken == Head(toReq)
Receive ==
    /\ call.pc \in {"recv", "rir"} /\ toReq # <<>>
    /\ toReq' = Tail(toReq)
    /\ UNCHANGED <<local, rspVars, nonce, holds>>

Timeout ==
    /\ call.pc \in {"recv", "rir"} /\ toReq = <<>> /\ toRsp = <<>>
    /\ q' = OnFailure(q, "ERROR") /\ Return("ERROR")
    /\ UNCHANGED <<local, rspVars, toRsp, toReq, nonce, faults, holds>>

(* BUSY_PEER: the retry loop around the libspdm_try_... function.  BUSY in *)
(* answer to RESPOND_IF_READY is not as clean as it looks: the Requester   *)
(* drops its L1/L2, which the Responder kept when it was not ready.        *)
ReceiveBusy ==
    /\ Receive /\ Taken.code = "BUSY"
    /\ q' = OnFailure(q, "BUSY")
    /\ \/ /\ call.retry > 0
          /\ call' = [call EXCEPT !.pc = "send", !.retry = @ - 1, !.n = 0]
          /\ clean' = (clean /\ call.pc = "recv")
       \/ call.retry = 0 /\ Return("BUSY")
    /\ UNCHANGED <<toRsp, faults>>

(* libspdm_handle_response_not_ready; the calls that set up the connection *)
(* have libspdm_handle_simple_error_response instead.                      *)
CanDefer ==
    /\ call.pc = "recv" /\ call.api \notin Vca
    /\ Taken.what = call.api /\ RdTm > 1

ReceiveNotReady ==
    /\ Receive /\ Taken.code = "RESPONSE_NOT_READY" /\ CanDefer
    /\ SendMessage(q, [call EXCEPT !.pc = "rir"],
                   Message("RESPOND_IF_READY", Header(q.version), Taken.n, Taken.what))

ReceiveNotReadyPeer ==
    /\ Receive /\ Taken.code = "RESPONSE_NOT_READY" /\ ~CanDefer
    /\ LET status == IF call.pc = "rir" \/ call.api \in Vca
                     THEN "NOT_READY" ELSE "ERROR"
       IN  q' = OnFailure(q, status) /\ Return(status)
    /\ UNCHANGED <<toRsp, faults>>

(* libspdm_handle_simple_error_response for REQUEST_RESYNCH.               *)
ReceiveResynch ==
    /\ Receive /\ Taken.code = "REQUEST_RESYNCH"
    /\ q' = [OnFailure(q, "RESYNCH") EXCEPT !.state = "NOT_STARTED"]
    /\ Return("RESYNCH")
    /\ UNCHANGED <<toRsp, faults>>

ReceiveError ==
    /\ Receive
    /\ Taken.code \notin {"BUSY", "RESPONSE_NOT_READY", "REQUEST_RESYNCH", ResponseCode[call.api]}
    /\ q' = OnFailure(q, "ERROR") /\ Return("ERROR")
    /\ UNCHANGED <<toRsp, faults>>

ReceiveAnswer(api) ==
    Receive /\ call.api = api /\ Taken.code = ResponseCode[api] /\ UNCHANGED <<toRsp, faults>>

(* The request that Taken answers, as the Requester appends it.            *)
Asked == <<call.api, IF call.api = "GET_VERSION" THEN 16 ELSE Header(q.version), call.n>>

(* libspdm_init_connection goes on to its next call.                       *)
Proceed(next) ==
    IF call.init THEN call' = Started(next, TRUE, FALSE) /\ UNCHANGED clean
    ELSE Return("SUCCESS")

(* libspdm_try_get_version, from the answer on.                            *)
ReceiveVersion ==
    /\ ReceiveAnswer("GET_VERSION")
    /\ LET v == NegotiateVersion(local.reqVer, Taken.what) IN
       \/ v = 0 /\ q' = q /\ Return("NEGOTIATION_FAIL")
       \/ /\ v # 0
          /\ q' = [AppendA(q, Asked, Entry(Taken)) EXCEPT
                     !.version = v, !.state = "AFTER_VERSION"]
          /\ IF call.init THEN call' = Started("GET_CAPABILITIES", TRUE, FALSE)
             ELSE call' = [call EXCEPT !.pc = "idle", !.status = "SUCCESS"]
          /\ clean' = TRUE

(* libspdm_try_get_capabilities, from the answer on.                       *)
ReceiveCapabilities ==
    /\ ReceiveAnswer("GET_CAPABILITIES")
    /\ q' = [AppendA(q, Asked, Entry(Taken)) EXCEPT !.state = "AFTER_CAPABILITIES"]
    /\ Proceed("NEGOTIATE_ALGORITHMS")

(* libspdm_try_negotiate_algorithms, from the answer on: the messages are  *)
(* in A and the algorithms in place before they are checked.               *)
ReceiveAlgorithms ==
    /\ ReceiveAnswer("NEGOTIATE_ALGORITHMS")
    /\ LET s == Taken.what
           c == [AppendA(q, Asked, Entry(Taken)) EXCEPT !.alg = s]
           ok == /\ Acceptable(s)
                 /\ \A k \in Categories : s[k] # 0 => s[k] \in local.reqAlg[k]
       IN \/ ok /\ q' = [c EXCEPT !.state = "NEGOTIATED"] /\ Return("SUCCESS")
          \/ ~ok /\ q' = c /\ Return("NEGOTIATION_FAIL")

(* libspdm_try_get_digest, from the answer on.                             *)
ReceiveDigests ==
    /\ ReceiveAnswer("GET_DIGESTS")
    /\ LET c == AppendBC(q, Asked, Entry(Taken))
       IN  q' = Raise(IF MultiKey THEN AppendD(c, Entry(Taken)) ELSE c, "AFTER_DIGESTS")
    /\ Return("SUCCESS")

(* libspdm_try_get_certificate, from an answer on: the next portion, or    *)
(* the end of the chain and with it the peer's public key.                 *)
ReceiveCertificate ==
    /\ ReceiveAnswer("GET_CERTIFICATE")
    /\ LET c == Raise(AppendBC(q, Asked, Entry(Taken)), "AFTER_CERTIFICATE")
           last == call.n + 1 = Portions
       IN \/ /\ ~last /\ q' = c
             /\ call' = [call EXCEPT !.pc = "send", !.n = @ + 1] /\ UNCHANGED clean
          \/ last /\ q' = [c EXCEPT !.chain = TRUE] /\ Return("SUCCESS")

(* Faulty variant: M1M2 survive a signature that does not verify.          *)
ReceiveChallengeAuthKeeps ==
    /\ ReceiveAnswer("CHALLENGE")
    /\ LET c == AppendBC(q, Asked, Entry(Taken))
           ok == q.chain /\ Taken.what = Signed(c, c.bc)
       IN \/ ok /\ q' = [ResetBC(c) EXCEPT !.state = "AUTHENTICATED"] /\ Return("SUCCESS")
          \/ ~ok /\ q' = q /\ Return("VERIF_FAIL")

(* libspdm_try_challenge, from the answer on: without the certificate      *)
(* chain nothing is appended; libspdm_verify_challenge_auth_signature      *)
(* discards B and C whatever the outcome.                                  *)
ReceiveChallengeAuth ==
    /\ ReceiveAnswer("CHALLENGE")
    /\ LET c == AppendBC(q, Asked, Entry(Taken))
           ok == Taken.what = Signed(c, c.bc)
       IN \/ ~q.chain /\ q' = q /\ Return("VERIF_FAIL")
          \/ /\ q.chain /\ ok
             /\ q' = [ResetBC(c) EXCEPT !.state = "AUTHENTICATED"]
             /\ Return("SUCCESS")
          \/ q.chain /\ ~ok /\ q' = ResetBC(c) /\ Return("VERIF_FAIL")

(* libspdm_try_get_measurement, from the answer on.                        *)
ReceiveMeasurements ==
    /\ ReceiveAnswer("GET_MEASUREMENTS")
    /\ LET c == AppendM(q, Asked, Entry(Taken))
           ok == call.sign => q.chain /\ Taken.what = Signed(c, c.m)
       IN \/ ok /\ q' = (IF call.sign THEN ResetM(c) ELSE c) /\ Return("SUCCESS")
          \/ ~ok /\ q' = ResetM(c) /\ Return("VERIF_FAIL")

(* libspdm_try_vendor_send_request_receive_response, from the answer on.   *)
(* It resets no transcript, while the Responder does.                      *)
ReceiveVendorDefined ==
    /\ ReceiveAnswer("VENDOR_DEFINED")
    /\ q' = q /\ call' = [call EXCEPT !.pc = "idle", !.status = "SUCCESS"]
    /\ clean' = FALSE

-----------------------------------------------------------------------------
(* The Responder.  A handler maps its context x to a context and a reply.  *)

Reply(x, m) == [x |-> x, reply |-> m]
WithContext(x, c) == [x EXCEPT !.c = c]

(* Faulty variant: the token is not eight bits wide.                       *)
NextTokenWider(t) == t + 1
NextToken(t) == (t + 1) % TokenCount

(* Faulty variant: the deferred request survives.                          *)
ForgetKeeps(d) == d
(* cache_spdm_request_size = 0 *)
Forget(d) == [d EXCEPT !.request = NoRequest]

(* libspdm_responder_handle_response_state *)
HandleResponseState(x, b) ==
    LET again == b.code = "RESPOND_IF_READY"
        d == IF again THEN x.d ELSE [request |-> b, code |-> b.code, token |-> x.token]
    IN  CASE x.state = "BUSY" -> Reply(x, Error("BUSY"))
          [] x.state = "NEED_RESYNC" ->
               Reply([x EXCEPT !.c.state = "NOT_STARTED"], Error("REQUEST_RESYNCH"))
          [] OTHER ->
               Reply([x EXCEPT !.d = d, !.token = IF again THEN @ ELSE NextToken(@)],
                     Message("RESPONSE_NOT_READY", 0, d.token, d.code))

(* libspdm_get_response_version: the connection is over before the         *)
(* response_state is looked at, the rest is reset after it.                *)
GetResponseVersion(x, b) ==
    LET y == [x EXCEPT !.c.state = "NOT_STARTED",
                       !.state = IF @ = "NEED_RESYNC" THEN "NORMAL" ELSE @]
        m == Message("VERSION", 16, 0, local.rspVer)
        c == AppendA(ResetContext, Entry(b), Entry(m))
    IN  CASE b.ver # 16 -> Reply(x, Error("VERSION_MISMATCH"))
          [] b.ver = 16 /\ y.state # "NORMAL" -> HandleResponseState(y, b)
          [] OTHER ->
               Reply([c |-> [c EXCEPT !.state = "AFTER_VERSION"], state |-> "NORMAL",
                      d |-> Forget(x.d), token |-> 0], m)

(* libspdm_get_response_capabilities; the version of the connection is     *)
(* that of this request.                                                   *)
GetResponseCapabilities(x, b) ==
    LET m == Message("CAPABILITIES", b.ver, 0, "-")
        c == [x.c EXCEPT !.version = b.ver * 256]
    IN  CASE x.state # "NORMAL" -> HandleResponseState(x, b)
          [] x.state = "NORMAL" /\ x.c.state # "AFTER_VERSION" ->
               Reply(x, Error("UNEXPECTED_REQUEST"))
          [] x.state = "NORMAL" /\ x.c.state = "AFTER_VERSION"
             /\ ~\E i \in DOMAIN local.rspVer : Header(local.rspVer[i]) = b.ver ->
               Reply(x, Error("VERSION_MISMATCH"))
          [] OTHER ->
               Reply(WithContext(x, [AppendA(ResetViaRequestCode(c, b.code), Entry(b), Entry(m))
                                       EXCEPT !.state = "AFTER_CAPABILITIES"]), m)

(* libspdm_get_response_algorithms: the selection is in place before it is *)
(* checked, A is appended to after that.                                   *)
GetResponseAlgorithms(x, b) ==
    LET s == Select(b.ver, local)
        m == Message("ALGORITHMS", b.ver, 0, s)
        c == [ResetViaRequestCode(x.c, b.code) EXCEPT !.alg = s]
    IN  CASE x.state # "NORMAL" -> HandleResponseState(x, b)
          [] x.state = "NORMAL" /\ x.c.state # "AFTER_CAPABILITIES" ->
               Reply(x, Error("UNEXPECTED_REQUEST"))
          [] x.state = "NORMAL" /\ x.c.state = "AFTER_CAPABILITIES"
             /\ b.ver # Header(x.c.version) -> Reply(x, Error("VERSION_MISMATCH"))
          [] OTHER ->
               IF Acceptable(s)
               THEN Reply(WithContext(x, [AppendA(c, Entry(b), Entry(m))
                                            EXCEPT !.state = "NEGOTIATED"]), m)
               ELSE Reply(WithContext(x, c), Error("INVALID_REQUEST"))

(* libspdm_get_response_digests *)
GetResponseDigests(x, b) ==
    LET m == Message("DIGESTS", b.ver, 0, "-")
        c == AppendBC(ResetViaRequestCode(x.c, b.code), Entry(b), Entry(m))
    IN  Reply(WithContext(x, Raise(IF MultiKey THEN AppendD(c, Entry(m)) ELSE c,
                                   "AFTER_DIGESTS")), m)

(* libspdm_get_response_certificate *)
GetResponseCertificate(x, b) ==
    LET m == Message("CERTIFICATE", b.ver, b.n, "-")
        c == AppendBC(ResetViaRequestCode(x.c, b.code), Entry(b), Entry(m))
    IN  Reply(WithContext(x, Raise(c, "AFTER_CERTIFICATE")), m)

(* libspdm_get_response_challenge_auth, without mutual authentication.     *)
GetResponseChallengeAuth(x, b) ==
    LET e == <<"CHALLENGE_AUTH", b.ver, nonce>>
        c == AppendBC(ResetViaRequestCode(x.c, b.code), Entry(b), e)
    IN  Reply(WithContext(x, [ResetBC(c) EXCEPT !.state = "AUTHENTICATED"]),
              Message("CHALLENGE_AUTH", b.ver, nonce, Signed(c, c.bc)))

(* Faulty variant: a signature covers only the exchange that asks for it.  *)
GetResponseMeasurementsAlone(x, b) ==
    LET e == <<"MEASUREMENTS", b.ver, nonce>>
        r == ResetViaRequestCode(x.c, b.code)
        c == AppendM(IF b.what = "SIGN" THEN ResetM(r) ELSE r, Entry(b), e)
    IN  Reply(WithContext(x, IF b.what = "SIGN" THEN ResetM(c) ELSE c),
              Message("MEASUREMENTS", b.ver, nonce,
                      IF b.what = "SIGN" THEN Signed(c, c.m) ELSE "-"))

(* libspdm_get_response_measurements *)
GetResponseMeasurements(x, b) ==
    LET e == <<"MEASUREMENTS", b.ver, nonce>>
        c == AppendM(ResetViaRequestCode(x.c, b.code), Entry(b), e)
    IN  IF b.what = "SIGN"
        THEN Reply(WithContext(x, ResetM(c)),
                   Message("MEASUREMENTS", b.ver, nonce, Signed(c, c.m)))
        ELSE Reply(WithContext(x, c), Message("MEASUREMENTS", b.ver, nonce, "-"))

(* libspdm_get_vendor_defined_response *)
GetVendorDefinedResponse(x, b) ==
    Reply(WithContext(x, ResetViaRequestCode(x.c, b.code)),
          Message("VENDOR_DEFINED_RESPONSE", b.ver, 0, "-"))

(* Faulty variant: a Responder that is not ready drops L1/L2 as well.      *)
RefusedAlways(c, b, state) ==
    IF b.code = "GET_MEASUREMENTS" THEN ResetM(c) ELSE c

(* The transcripts after a refusal: GET_MEASUREMENTS that is refused       *)
(* resets L1/L2, unless it is only deferred.                               *)
Refused(c, b, state) ==
    IF b.code = "GET_MEASUREMENTS" /\ state # "NOT_READY" THEN ResetM(c) ELSE c

Handle(x, b) ==
    LET r == WithContext(x, Refused(x.c, b, "NORMAL"))
        s == WithContext(x, Refused(x.c, b, x.state))
    IN
    CASE b.code = "GET_VERSION" -> GetResponseVersion(x, b)
      [] b.code = "GET_CAPABILITIES" -> GetResponseCapabilities(x, b)
      [] b.code = "NEGOTIATE_ALGORITHMS" -> GetResponseAlgorithms(x, b)
      [] b.code \notin Vca /\ b.ver # Header(x.c.version) -> Reply(r, Error("VERSION_MISMATCH"))
      [] b.code \notin Vca /\ b.ver = Header(x.c.version) /\ x.state # "NORMAL" ->
           HandleResponseState(s, b)
      [] b.code \notin Vca /\ b.ver = Header(x.c.version) /\ x.state = "NORMAL"
         /\ Below(x.c, "NEGOTIATED") -> Reply(r, Error("UNEXPECTED_REQUEST"))
      [] OTHER ->
           CASE b.code = "GET_DIGESTS" -> GetResponseDigests(x, b)
             [] b.code = "GET_CERTIFICATE" -> GetResponseCertificate(x, b)
             [] b.code = "CHALLENGE" -> GetResponseChallengeAuth(x, b)
             [] b.code = "GET_MEASUREMENTS" -> GetResponseMeasurements(x, b)
             [] OTHER -> GetVendorDefinedResponse(x, b)

(* libspdm_get_response_respond_if_ready *)
GetResponseRespondIfReady(x, b) ==
    LET refuse == CASE b.ver # Header(x.c.version) -> "VERSION_MISMATCH"
                    [] x.d.request = NoRequest -> "UNEXPECTED_REQUEST"
                    [] b.what # x.d.code \/ b.n # x.d.token -> "INVALID_REQUEST"
                    [] OTHER -> "-"
    IN  CASE refuse # "VERSION_MISMATCH" /\ x.state # "NORMAL" -> HandleResponseState(x, b)
          [] refuse = "-" /\ x.state = "NORMAL" ->
               LET r == Handle(x, x.d.request)
               IN  Reply([r.x EXCEPT !.d = Forget(@)], r.reply)
          [] OTHER -> Reply(x, Error(refuse))

Respond ==
    /\ toRsp # <<>> /\ toRsp' = Tail(toRsp)
    /\ LET b == Head(toRsp)
           x == [c |-> p, state |-> respState, d |-> deferred, token |-> token]
           r == IF b.code = "RESPOND_IF_READY" THEN GetResponseRespondIfReady(x, b)
                ELSE Handle(x, b)
       IN /\ p' = r.x.c /\ respState' = r.x.state /\ deferred' = r.x.d /\ token' = r.x.token
          /\ toReq' = Append(toReq, r.reply)
          /\ nonce' = IF r.reply.code \in {"CHALLENGE_AUTH", "MEASUREMENTS"}
                      THEN nonce + 1 ELSE nonce
    /\ UNCHANGED <<local, q, call, faults, holds, clean>>

(* The integrator holds the Responder back, and later lets it go on; only  *)
(* GET_VERSION ends NEED_RESYNC.                                           *)
Hold(state) ==
    /\ respState = "NORMAL" /\ holds < MaxHolds
    /\ respState' = state /\ holds' = holds + 1
    /\ UNCHANGED <<local, q, call, p, deferred, token, toRsp, toReq, nonce, faults, clean>>

Resume ==
    /\ respState \in {"BUSY", "NOT_READY"} /\ respState' = "NORMAL"
    /\ UNCHANGED <<local, q, call, p, deferred, token, toRsp, toReq, nonce, faults, holds, clean>>

-----------------------------------------------------------------------------
Lose ==
    /\ Fault("LOSS")
    /\ \/ toRsp # <<>> /\ toRsp' = Tail(toRsp) /\ UNCHANGED toReq
       \/ toReq # <<>> /\ toReq' = Tail(toReq) /\ UNCHANGED toRsp
    /\ UNCHANGED <<local, q, call, rspVars, nonce, holds, clean>>

Init ==
    /\ local \in Locals
    /\ q = ResetContext /\ p = ResetContext
    /\ call = NoCall
    /\ respState = "NORMAL"
    /\ deferred = [request |-> NoRequest, code |-> "-", token |-> 0]
    /\ token = 0 /\ nonce = 1 /\ faults = 0 /\ holds = 0
    /\ toRsp = <<>> /\ toReq = <<>>
    /\ clean = FALSE

RequesterStep ==
    \/ SendRequest \/ Timeout
    \/ ReceiveBusy \/ ReceiveNotReady \/ ReceiveNotReadyPeer \/ ReceiveResynch
    \/ ReceiveError
    \/ ReceiveVersion \/ ReceiveCapabilities \/ ReceiveAlgorithms
    \/ ReceiveDigests \/ ReceiveCertificate \/ ReceiveChallengeAuth
    \/ ReceiveMeasurements \/ ReceiveVendorDefined

Next ==
    \/ StartInit
    \/ \E api \in Calls \ {"INIT"}, sign \in BOOLEAN : StartCall(api, sign)
    \/ RequesterStep
    \/ Respond
    \/ \E state \in ResponseStates : Hold(state)
    \/ Resume
    \/ Lose

Spec == Init /\ [][Next]_vars

(* Both ends keep running, the integrator lets the Responder go on, and    *)
(* the application connects again while it has no connection.              *)
Reconnect == StartInit /\ Below(q, "NEGOTIATED")
FairSpec ==
    /\ Spec
    /\ WF_vars(RequesterStep) /\ WF_vars(Respond) /\ WF_vars(Resume)
    /\ WF_vars(Reconnect)

-----------------------------------------------------------------------------
(* Properties.                                                             *)

Quiet == call.pc = "idle" /\ toRsp = <<>> /\ toReq = <<>>
Connected(c) == ~Below(c, "NEGOTIATED")
Headers(list) == {Header(list[i]) : i \in DOMAIN list}
CommonHeaders == Headers(local.reqVer) \cap Headers(local.rspVer)

(* The state has its type; the transcripts are sequences of messages.      *)
TypeOK ==
    /\ {q.state, p.state} \subseteq DOMAIN Rank
    /\ {q.version, p.version} \subseteq 0 .. 2^16 - 1
    /\ \A c \in {q, p} :
         /\ c.alg \in [Categories -> Nat] /\ {c.closed, c.chain} \subseteq BOOLEAN
         /\ \A t \in {c.a, c.bc, c.m, c.d} : \A i \in DOMAIN t : Len(t[i]) = 3
    /\ call.pc \in {"idle", "send", "recv", "rir"} /\ call.retry \in 0 .. RetryTimes
    /\ respState \in {"NORMAL"} \cup ResponseStates /\ token \in 0 .. TokenCount - 1
    /\ Len(toRsp) + Len(toReq) <= 1

(* What libspdm_init_connection promises: two ends that both have a        *)
(* connection have seen the same VERSION, CAPABILITIES and ALGORITHMS      *)
(* messages (A), use the greatest version that both support, in the        *)
(* Requester's numbering, and the same algorithms, each supported by both  *)
(* and one of each pair.                                                   *)
VcaAgreement ==
    Connected(q) /\ Connected(p) =>
      /\ q.a = p.a /\ Len(q.a) = 6
      /\ Header(q.version) = Header(p.version)
      /\ Header(q.version) = Max(CommonHeaders)
      /\ \A i \in DOMAIN local.reqVer :
           Header(local.reqVer[i]) = Header(q.version) => local.reqVer[i] <= q.version
      /\ q.alg = p.alg
      /\ \A c \in Categories :
           q.alg[c] # 0 => q.alg[c] \in local.reqAlg[c] \cap local.rspAlg[c]
      /\ \A pair \in Pairs : Cardinality({c \in {pair[1], pair[2]} : q.alg[c] # 0}) = 1

(* When the Requester takes a VERSION the Responder has forgotten whatever *)
(* GET_VERSION interrupted (libspdm_reset_context): the transcripts other  *)
(* than A, the request it had deferred and the token of that.              *)
FreshAfterVersion ==
    [][q.state # "AFTER_VERSION" /\ q'.state = "AFTER_VERSION" =>
         /\ p.state = "AFTER_VERSION" /\ p.a = q'.a
         /\ p.bc = <<>> /\ p.m = <<>> /\ p.d = <<>> /\ ~p.closed
         /\ deferred.request = NoRequest /\ token = 0]_vars

(* As long as the calls made since GET_VERSION succeed, BUSY and           *)
(* ResponseNotReady in between included, both ends keep the same           *)
(* transcripts: M1M2, L1/L2 and D, and the window in which D is set.       *)
TranscriptsAgree ==
    Quiet /\ clean =>
      q.a = p.a /\ q.bc = p.bc /\ q.m = p.m /\ q.d = p.d /\ q.closed = p.closed

(* As long as they do, no signature over M1M2 or L1/L2 that is verified    *)
(* with the certificate chain of the Responder fails to verify.            *)
SignaturesVerify ==
    [][call.pc # "idle" /\ call'.pc = "idle" /\ call'.status = "VERIF_FAIL"
       => ~clean \/ ~q.chain]_vars

(* Transcripts that differ, after a message was lost, do not stay that     *)
(* way: a signature over one ends it at both ends, also when it fails to   *)
(* verify.                                                                 *)
SignatureResynchronises ==
    Quiet /\ q.chain /\ call.status \in {"SUCCESS", "VERIF_FAIL"} =>
      /\ call.api = "CHALLENGE" => q.bc = p.bc
      /\ (call.api = "GET_MEASUREMENTS" /\ call.sign) => q.m = p.m

(* What the comment in libspdm_reset_message_buffer_via_request_code says  *)
(* of every request, at the end that issued it.                            *)
OtherRequestsResetM ==
    Quiet /\ call.status = "SUCCESS" /\ call.api # "GET_MEASUREMENTS" => q.m = <<>>

(* Two ends that have a version and algorithms in common.                  *)
Compatible ==
    /\ CommonHeaders # {}
    /\ LET both == {c \in Categories : /\ local.reqAlg[c] \cap local.rspAlg[c] # {}
                                       /\ c \in Pqc => Max(CommonHeaders) >= V14}
       IN  "HASH" \in both /\ \A pair \in Pairs : \E i \in 1 .. 2 : pair[i] \in both

(* Two compatible ends get a connection whatever was lost or refused, a    *)
(* request for resynchronisation included, if the application asks again.  *)
ConnectionRecovers ==
    Compatible => []<>(Connected(q) /\ Connected(p))
=============================================================================
