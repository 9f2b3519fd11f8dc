-------------------------- MODULE ConnectionProofs --------------------------
(***************************************************************************)
(* What GET_VERSION leaves behind, for all versions, algorithms, calls,    *)
(* numbers of tokens, retries and faults: when the Requester takes a       *)
(* VERSION, the Responder has kept nothing of what came before.            *)
(***************************************************************************)
EXTENDS Connection, TLAPS

-----------------------------------------------------------------------------
(* Records by their fields alone: nothing here depends on the values.      *)
IsContext(c) ==
    c = [state |-> c.state, version |-> c.version, alg |-> c.alg, a |-> c.a, bc |-> c.bc,
         m |-> c.m, d |-> c.d, closed |-> c.closed, chain |-> c.chain]
IsCall(k) ==
    k = [api |-> k.api, init |-> k.init, sign |-> k.sign, pc |-> k.pc, retry |-> k.retry,
         n |-> k.n, status |-> k.status]
IsDeferred(d) ==
    /\ d = [request |-> d.request, code |-> d.code, token |-> d.token]
    /\ d.request # NoRequest => d.request.code = d.code
IsResponder(x) ==
    /\ x = [c |-> x.c, state |-> x.state, d |-> x.d, token |-> x.token]
    /\ IsDeferred(x.d)

(* What is left of the Responder's state by a GET_VERSION that it answered *)
(* with m.                                                                 *)
VersionRequest == <<"GET_VERSION", 16, 0>>
Fresh(c, d, t, m) ==
    /\ c.state = "AFTER_VERSION"
    /\ c.a = AppendA(ResetContext, VersionRequest, Entry(m)).a
    /\ c.bc = <<>> /\ c.m = <<>> /\ c.d = <<>> /\ ~c.closed
    /\ d.request = NoRequest /\ t = 0

(* One message is in flight at most, and only while a call waits.          *)
OneInFlight ==
    /\ \/ toRsp = <<>> /\ toReq = <<>>
       \/ (\E m : toRsp = <<m>>) /\ toReq = <<>>
       \/ (\E m : toReq = <<m>>) /\ toRsp = <<>>
    /\ call.pc \in {"idle", "send"} => toRsp = <<>> /\ toReq = <<>>

(* A GET_VERSION is sent from a context that was reset, is not resumed by  *)
(* RESPOND_IF_READY, and its VERSION finds the Responder as it left it.    *)
FreshInv ==
    /\ IsContext(q) /\ IsCall(call) /\ IsDeferred(deferred)
    /\ OneInFlight
    /\ call.api = "GET_VERSION" =>
         call.n = 0 /\ call.pc # "rir" /\ (call.pc = "recv" => q = ResetContext)
    /\ \A m : toRsp = <<m>> =>
         /\ m.code = "GET_VERSION" => m.ver = 16 /\ m.n = 0
         /\ m.code = "RESPOND_IF_READY" => m.what \notin Vca
    /\ \A m : toReq = <<m>> /\ m.code = "VERSION" => Fresh(p, deferred, token, m)

-----------------------------------------------------------------------------
(* The Responder.  An answer other than VERSION keeps the form of its      *)
(* state; VERSION leaves it fresh.                                         *)
Answered(r, b) ==
    /\ IsResponder(r.x)
    /\ r.reply.code = "VERSION" =>
         b.code = "GET_VERSION" /\ r.reply = Message("VERSION", 16, 0, local.rspVer)
         /\ (Entry(b) = VersionRequest => Fresh(r.x.c, r.x.d, r.x.token, r.reply))

(* A refusal changes nothing.                                              *)
LEMMA ErrorAnswered ==
    ASSUME NEW x, IsResponder(x), NEW b, NEW m, m.code # "VERSION"
    PROVE  Answered(Reply(x, m), b)
BY DEF Answered, Reply

(* An answer that changes the connection keeps the deferred request.       *)
LEMMA ContextAnswered ==
    ASSUME NEW x, IsResponder(x), NEW b, NEW c, NEW m, m.code # "VERSION"
    PROVE  Answered(Reply(WithContext(x, c), m), b) /\ IsResponder(WithContext(x, c))
<1>1. WithContext(x, c) = [c |-> c, state |-> x.state, d |-> x.d, token |-> x.token]
  BY DEF IsResponder, WithContext
<1>2. IsResponder(WithContext(x, c))
  BY <1>1 DEF IsResponder
<1> QED BY <1>2, ErrorAnswered

(* BUSY, ResponseNotReady and RequestResynch.                              *)
LEMMA ResponseStateAnswered ==
    ASSUME NEW x, IsResponder(x), NEW b
    PROVE  Answered(HandleResponseState(x, b), b)
<1> DEFINE again == b.code = "RESPOND_IF_READY"
           d == IF again THEN x.d ELSE [request |-> b, code |-> b.code, token |-> x.token]
           t == IF again THEN x.token ELSE NextToken(x.token)
           y == [c |-> x.c, state |-> x.state, d |-> d, token |-> t]
           z == [x EXCEPT !.c.state = "NOT_STARTED"]
<1>1. IsDeferred(d)
  BY DEF IsResponder, IsDeferred
<1>2. [x EXCEPT !.d = d, !.token = t] = y
  <2> HIDE DEF d, t
  <2> DEFINE w == [x EXCEPT !.d = d]
  <2>1. w = [c |-> x.c, state |-> x.state, d |-> d, token |-> x.token]
    BY DEF IsResponder
  <2>2. [x EXCEPT !.d = d, !.token = t] = [w EXCEPT !.token = t]
    OBVIOUS
  <2> HIDE DEF w
  <2> QED BY <2>1, <2>2
<1>3. IsResponder(y)
  <2> HIDE DEF d, t
  <2> QED BY <1>1 DEF IsResponder
<1>4. IsResponder(z)
  <2> DEFINE e == [x.c EXCEPT !.state = "NOT_STARTED"]
  <2>1. z = [c |-> e, state |-> x.state, d |-> x.d, token |-> x.token]
    BY DEF IsResponder
  <2> HIDE DEF e, z
  <2> QED BY <2>1 DEF IsResponder
<1>5. \/ HandleResponseState(x, b) = Reply(x, Error("BUSY"))
      \/ HandleResponseState(x, b) = Reply(z, Error("REQUEST_RESYNCH"))
      \/ HandleResponseState(x, b) = Reply([x EXCEPT !.d = d, !.token = t],
                                           Message("RESPONSE_NOT_READY", 0, d.token, d.code))
  <2>1. CASE x.state = "BUSY"
    BY <2>1, Zenon DEF HandleResponseState
  <2>2. CASE x.state = "NEED_RESYNC"
    <3>1. x.state # "BUSY"
      BY <2>2
    <3> QED BY <2>2, <3>1, Zenon DEF HandleResponseState
  <2>3. CASE x.state \notin {"BUSY", "NEED_RESYNC"}
    BY <2>3, Zenon DEF HandleResponseState
  <2> QED BY <2>1, <2>2, <2>3
<1>6. /\ Error("BUSY").code # "VERSION" /\ Error("REQUEST_RESYNCH").code # "VERSION"
      /\ Message("RESPONSE_NOT_READY", 0, d.token, d.code).code # "VERSION"
  BY DEF Error, Message
<1> HIDE DEF d, t, y, z
<1> QED BY <1>2, <1>3, <1>4, <1>5, <1>6, ErrorAnswered

(* libspdm_get_response_version *)
LEMMA VersionAnswered ==
    ASSUME NEW x, IsResponder(x), NEW b, b.code = "GET_VERSION"
    PROVE  Answered(GetResponseVersion(x, b), b)
<1> DEFINE s == IF x.state = "NEED_RESYNC" THEN "NORMAL" ELSE x.state
           y == [x EXCEPT !.c.state = "NOT_STARTED",
                          !.state = IF @ = "NEED_RESYNC" THEN "NORMAL" ELSE @]
           m == Message("VERSION", 16, 0, local.rspVer)
           c == AppendA(ResetContext, Entry(b), Entry(m))
           v == [c |-> [c EXCEPT !.state = "AFTER_VERSION"], state |-> "NORMAL",
                 d |-> Forget(x.d), token |-> 0]
<1>1. IsResponder(y)
  <2> DEFINE e == [x.c EXCEPT !.state = "NOT_STARTED"]
             w == [x EXCEPT !.c.state = "NOT_STARTED"]
  <2>1. w = [c |-> e, state |-> x.state, d |-> x.d, token |-> x.token]
    BY DEF IsResponder
  <2>2. y = [w EXCEPT !.state = IF @ = "NEED_RESYNC" THEN "NORMAL" ELSE @]
    OBVIOUS
  <2>3. y = [c |-> e, state |-> s, d |-> x.d, token |-> x.token]
    <3> HIDE DEF w, e, y
    <3> QED BY <2>1, <2>2
  <2> HIDE DEF y, e, s
  <2> QED BY <2>3 DEF IsResponder
<1>2. IsDeferred(Forget(x.d)) /\ Forget(x.d).request = NoRequest
  <2>1. Forget(x.d) = [request |-> NoRequest, code |-> x.d.code, token |-> x.d.token]
    BY DEF Forget, IsResponder, IsDeferred
  <2> QED BY <2>1 DEF IsDeferred
<1>3. Answered(Reply(v, m), b)
  <2>1. IsResponder(v)
    <3> HIDE DEF c
    <3> QED BY <1>2 DEF IsResponder
  <2>2. /\ Reply(v, m).x = v /\ Reply(v, m).reply = m /\ v.d = Forget(x.d)
        /\ v.token = 0 /\ v.c = [c EXCEPT !.state = "AFTER_VERSION"]
    <3> HIDE DEF c, m
    <3> QED BY DEF Reply
  <2>3. /\ v.c.state = "AFTER_VERSION" /\ v.c.a = c.a
        /\ v.c.bc = <<>> /\ v.c.m = <<>> /\ v.c.d = <<>> /\ ~v.c.closed
    <3> DEFINE e == Entry(b)
               f == Entry(m)
    <3>1. c = [ResetContext EXCEPT !.a = @ \o <<e, f>>]
      BY DEF AppendA
    <3> HIDE DEF e, f
    <3>2. c = [state |-> "NOT_STARTED", version |-> 0, alg |-> NoAlgorithm,
               a |-> <<>> \o <<e, f>>, bc |-> <<>>, m |-> <<>>, d |-> <<>>,
               closed |-> FALSE, chain |-> FALSE]
      BY <3>1, Zenon DEF ResetContext
    <3> HIDE DEF c
    <3>3. v.c = [c EXCEPT !.state = "AFTER_VERSION"]
      OBVIOUS
    <3> HIDE DEF v
    <3> QED BY <3>2, <3>3
  <2>4. Entry(b) = VersionRequest => c.a = AppendA(ResetContext, VersionRequest, Entry(m)).a
    OBVIOUS
  <2> HIDE DEF v, c, m
  <2>5. Entry(b) = VersionRequest => Fresh(v.c, v.d, v.token, m)
    BY <1>2, <2>2, <2>3, <2>4 DEF Fresh
  <2>6. m = Message("VERSION", 16, 0, local.rspVer)
    BY DEF m
  <2> QED BY <2>1, <2>2, <2>5, <2>6 DEF Answered
<1>4. Error("VERSION_MISMATCH").code # "VERSION"
  BY DEF Error, Message
<1>5. CASE b.ver # 16
  <2>1. GetResponseVersion(x, b) = Reply(x, Error("VERSION_MISMATCH"))
    BY <1>5, Zenon DEF GetResponseVersion
  <2> QED BY <1>4, <2>1, ErrorAnswered
<1>6. CASE b.ver = 16 /\ y.state # "NORMAL"
  <2>1. GetResponseVersion(x, b) = HandleResponseState(y, b)
    BY <1>6, Zenon DEF GetResponseVersion
  <2> HIDE DEF y
  <2> QED BY <1>1, <2>1, ResponseStateAnswered
<1>7. CASE b.ver = 16 /\ y.state = "NORMAL"
  <2>1. GetResponseVersion(x, b) = Reply(v, m)
    BY <1>7, Zenon DEF GetResponseVersion
  <2> HIDE DEF v, m
  <2> QED BY <1>3, <2>1
<1> QED BY <1>5, <1>6, <1>7

(* libspdm_get_response_capabilities, libspdm_get_response_algorithms *)
LEMMA VcaAnswered ==
    ASSUME NEW x, IsResponder(x), NEW b
    PROVE  /\ Answered(GetResponseCapabilities(x, b), b)
           /\ Answered(GetResponseAlgorithms(x, b), b)
<1>2. /\ Error("UNEXPECTED_REQUEST").code # "VERSION" /\ Error("VERSION_MISMATCH").code # "VERSION"
      /\ Error("INVALID_REQUEST").code # "VERSION"
      /\ \A v, w : /\ Message("CAPABILITIES", v, 0, w).code # "VERSION"
                   /\ Message("ALGORITHMS", v, 0, w).code # "VERSION"
  BY DEF Error, Message
<1>3. Answered(GetResponseCapabilities(x, b), b)
  <2>1. \/ GetResponseCapabilities(x, b) = HandleResponseState(x, b)
        \/ GetResponseCapabilities(x, b) = Reply(x, Error("UNEXPECTED_REQUEST"))
        \/ GetResponseCapabilities(x, b) = Reply(x, Error("VERSION_MISMATCH"))
        \/ \E c : GetResponseCapabilities(x, b) =
                    Reply(WithContext(x, c), Message("CAPABILITIES", b.ver, 0, "-"))
    <3>1. CASE x.state # "NORMAL"
      BY <3>1, Zenon DEF GetResponseCapabilities
    <3>2. CASE x.state = "NORMAL" /\ x.c.state # "AFTER_VERSION"
      BY <3>2, Zenon DEF GetResponseCapabilities
    <3>3. CASE /\ x.state = "NORMAL" /\ x.c.state = "AFTER_VERSION"
               /\ ~\E i \in DOMAIN local.rspVer : Header(local.rspVer[i]) = b.ver
      BY <3>3, Zenon DEF GetResponseCapabilities
    <3>4. CASE /\ x.state = "NORMAL" /\ x.c.state = "AFTER_VERSION"
               /\ \E i \in DOMAIN local.rspVer : Header(local.rspVer[i]) = b.ver
      BY <3>4, Zenon DEF GetResponseCapabilities
    <3> QED BY <3>1, <3>2, <3>3, <3>4
  <2> QED BY <1>2, <2>1, ErrorAnswered, ContextAnswered, ResponseStateAnswered
<1>4. Answered(GetResponseAlgorithms(x, b), b)
  <2>1. \/ GetResponseAlgorithms(x, b) = HandleResponseState(x, b)
        \/ GetResponseAlgorithms(x, b) = Reply(x, Error("UNEXPECTED_REQUEST"))
        \/ GetResponseAlgorithms(x, b) = Reply(x, Error("VERSION_MISMATCH"))
        \/ \E c, s : GetResponseAlgorithms(x, b) =
                       Reply(WithContext(x, c), Message("ALGORITHMS", b.ver, 0, s))
        \/ \E c : GetResponseAlgorithms(x, b) =
                    Reply(WithContext(x, c), Error("INVALID_REQUEST"))
    <3>1. CASE x.state # "NORMAL"
      BY <3>1, Zenon DEF GetResponseAlgorithms
    <3>2. CASE x.state = "NORMAL" /\ x.c.state # "AFTER_CAPABILITIES"
      BY <3>2, Zenon DEF GetResponseAlgorithms
    <3>3. CASE /\ x.state = "NORMAL" /\ x.c.state = "AFTER_CAPABILITIES"
               /\ b.ver # Header(x.c.version)
      BY <3>3, Zenon DEF GetResponseAlgorithms
    <3>4. CASE /\ x.state = "NORMAL" /\ x.c.state = "AFTER_CAPABILITIES"
               /\ b.ver = Header(x.c.version)
      BY <3>4, Zenon DEF GetResponseAlgorithms
    <3> QED BY <3>1, <3>2, <3>3, <3>4
  <2> QED BY <1>2, <2>1, ErrorAnswered, ContextAnswered, ResponseStateAnswered
<1> QED BY <1>3, <1>4

(* The handlers of the requests that follow the algorithms.                *)
LEMMA ConnectedAnswered ==
    ASSUME NEW x, IsResponder(x), NEW b
    PROVE  /\ Answered(GetResponseDigests(x, b), b)
           /\ Answered(GetResponseCertificate(x, b), b)
           /\ Answered(GetResponseChallengeAuth(x, b), b)
           /\ Answered(GetResponseMeasurements(x, b), b)
           /\ Answered(GetVendorDefinedResponse(x, b), b)
<1>1. \A v, n, w : /\ Message("DIGESTS", v, n, w).code # "VERSION"
                   /\ Message("CERTIFICATE", v, n, w).code # "VERSION"
                   /\ Message("CHALLENGE_AUTH", v, n, w).code # "VERSION"
                   /\ Message("MEASUREMENTS", v, n, w).code # "VERSION"
                   /\ Message("VENDOR_DEFINED_RESPONSE", v, n, w).code # "VERSION"
  BY DEF Message
<1>2. /\ \E c : GetResponseDigests(x, b) =
                  Reply(WithContext(x, c), Message("DIGESTS", b.ver, 0, "-"))
      /\ \E c : GetResponseCertificate(x, b) =
                  Reply(WithContext(x, c), Message("CERTIFICATE", b.ver, b.n, "-"))
      /\ \E c, s : GetResponseChallengeAuth(x, b) =
                     Reply(WithContext(x, c), Message("CHALLENGE_AUTH", b.ver, nonce, s))
      /\ \E c, s : GetResponseMeasurements(x, b) =
                     Reply(WithContext(x, c), Message("MEASUREMENTS", b.ver, nonce, s))
      /\ \E c : GetVendorDefinedResponse(x, b) =
                  Reply(WithContext(x, c), Message("VENDOR_DEFINED_RESPONSE", b.ver, 0, "-"))
  <2>1. \E c : GetResponseDigests(x, b) =
                 Reply(WithContext(x, c), Message("DIGESTS", b.ver, 0, "-"))
    BY Zenon DEF GetResponseDigests
  <2>2. \E c : GetResponseCertificate(x, b) =
                 Reply(WithContext(x, c), Message("CERTIFICATE", b.ver, b.n, "-"))
    BY Zenon DEF GetResponseCertificate
  <2>3. \E c, s : GetResponseChallengeAuth(x, b) =
                    Reply(WithContext(x, c), Message("CHALLENGE_AUTH", b.ver, nonce, s))
    BY Zenon DEF GetResponseChallengeAuth
  <2>4. \E c, s : GetResponseMeasurements(x, b) =
                    Reply(WithContext(x, c), Message("MEASUREMENTS", b.ver, nonce, s))
    <3>1. CASE b.what = "SIGN"
      BY <3>1, Zenon DEF GetResponseMeasurements
    <3>2. CASE b.what # "SIGN"
      BY <3>2, Zenon DEF GetResponseMeasurements
    <3> QED BY <3>1, <3>2
  <2>5. \E c : GetVendorDefinedResponse(x, b) =
                 Reply(WithContext(x, c), Message("VENDOR_DEFINED_RESPONSE", b.ver, 0, "-"))
    BY Zenon DEF GetVendorDefinedResponse
  <2> QED BY <2>1, <2>2, <2>3, <2>4, <2>5
<1> QED BY <1>1, <1>2, ContextAnswered

(* Every handler of a request that is not RESPOND_IF_READY.                *)
LEMMA HandleAnswered ==
    ASSUME NEW x, IsResponder(x), NEW b
    PROVE  Answered(Handle(x, b), b)
<1> DEFINE r == WithContext(x, Refused(x.c, b, "NORMAL"))
           s == WithContext(x, Refused(x.c, b, x.state))
<1>1. IsResponder(r) /\ IsResponder(s)
  BY ContextAnswered, NoRequest.code # "VERSION", Zenon DEF NoRequest, Error, Message
<1>2. Error("VERSION_MISMATCH").code # "VERSION" /\ Error("UNEXPECTED_REQUEST").code # "VERSION"
  BY DEF Error, Message
<1>3. CASE b.code = "GET_VERSION"
  <2>1. b.code # "GET_CAPABILITIES" /\ b.code # "NEGOTIATE_ALGORITHMS" /\ b.code \in Vca
    BY <1>3 DEF Vca
  <2>2. Handle(x, b) = GetResponseVersion(x, b)
    BY <1>3, <2>1, Zenon DEF Handle
  <2> QED BY <1>3, <2>2, VersionAnswered
<1>4. CASE b.code = "GET_CAPABILITIES"
  <2>1. b.code # "GET_VERSION"
    BY <1>4
  <2>2. Handle(x, b) = GetResponseCapabilities(x, b)
    BY <1>4, <2>1, Zenon DEF Handle, Vca
  <2> QED BY <2>2, VcaAnswered
<1>5. CASE b.code = "NEGOTIATE_ALGORITHMS"
  <2>1. b.code # "GET_VERSION" /\ b.code # "GET_CAPABILITIES"
    BY <1>5
  <2>2. Handle(x, b) = GetResponseAlgorithms(x, b)
    BY <1>5, <2>1, Zenon DEF Handle, Vca
  <2> QED BY <2>2, VcaAnswered
<1>6. CASE b.code \notin Vca
  <2>1. b.code # "GET_VERSION" /\ b.code # "GET_CAPABILITIES" /\ b.code # "NEGOTIATE_ALGORITHMS"
    BY <1>6 DEF Vca
  <2>2. CASE b.ver # Header(x.c.version)
    <3>1. Handle(x, b) = Reply(r, Error("VERSION_MISMATCH"))
      BY <1>6, <2>1, <2>2, Zenon DEF Handle
    <3> HIDE DEF r
    <3> QED BY <1>1, <1>2, <3>1, ErrorAnswered
  <2>3. CASE b.ver = Header(x.c.version) /\ x.state # "NORMAL"
    <3>1. Handle(x, b) = HandleResponseState(s, b)
      BY <1>6, <2>1, <2>3, Zenon DEF Handle
    <3> HIDE DEF s
    <3> QED BY <1>1, <3>1, ResponseStateAnswered
  <2>4. CASE b.ver = Header(x.c.version) /\ x.state = "NORMAL" /\ Below(x.c, "NEGOTIATED")
    <3>1. Handle(x, b) = Reply(r, Error("UNEXPECTED_REQUEST"))
      BY <1>6, <2>1, <2>4, Zenon DEF Handle
    <3> HIDE DEF r
    <3> QED BY <1>1, <1>2, <3>1, ErrorAnswered
  <2>5. CASE b.ver = Header(x.c.version) /\ x.state = "NORMAL" /\ ~Below(x.c, "NEGOTIATED")
    <3> DEFINE h == CASE b.code = "GET_DIGESTS" -> GetResponseDigests(x, b)
                      [] b.code = "GET_CERTIFICATE" -> GetResponseCertificate(x, b)
                      [] b.code = "CHALLENGE" -> GetResponseChallengeAuth(x, b)
                      [] b.code = "GET_MEASUREMENTS" -> GetResponseMeasurements(x, b)
                      [] OTHER -> GetVendorDefinedResponse(x, b)
    <3>1. Handle(x, b) = h
      BY <1>6, <2>1, <2>5, Zenon DEF Handle
    <3>2. \/ h = GetResponseDigests(x, b)
          \/ h = GetResponseCertificate(x, b)
          \/ h = GetResponseChallengeAuth(x, b)
          \/ h = GetResponseMeasurements(x, b)
          \/ h = GetVendorDefinedResponse(x, b)
      OBVIOUS
    <3> HIDE DEF h
    <3> QED BY <3>1, <3>2, ConnectedAnswered
  <2> QED BY <2>2, <2>3, <2>4, <2>5
<1> QED BY <1>3, <1>4, <1>5, <1>6 DEF Vca

(* libspdm_get_response_respond_if_ready resumes no GET_VERSION.           *)
LEMMA RespondIfReadyAnswered ==
    ASSUME NEW x, IsResponder(x), NEW b, b.code = "RESPOND_IF_READY", b.what \notin Vca
    PROVE  Answered(GetResponseRespondIfReady(x, b), b)
<1> DEFINE refuse == CASE b.ver # Header(x.c.version) -> "VERSION_MISMATCH"
                       [] x.d.request = NoRequest -> "UNEXPECTED_REQUEST"
                       [] b.what # x.d.code \/ b.n # x.d.token -> "INVALID_REQUEST"
                       [] OTHER -> "-"
           r == Handle(x, x.d.request)
           y == [r.x EXCEPT !.d = Forget(@)]
<1>1. CASE refuse # "VERSION_MISMATCH" /\ x.state # "NORMAL"
  <2>1. GetResponseRespondIfReady(x, b) = HandleResponseState(x, b)
    <3> HIDE DEF r
    <3> QED BY <1>1, Zenon DEF GetResponseRespondIfReady
  <2> QED BY <2>1, ResponseStateAnswered
<1>2. CASE refuse = "-" /\ x.state = "NORMAL"
  <2>1. GetResponseRespondIfReady(x, b) = Reply(y, r.reply)
    <3>1. refuse = "-" /\ x.state = "NORMAL"
      BY <1>2
    <3> QED BY <3>1, Zenon DEF GetResponseRespondIfReady
  <2>2. x.d.request # NoRequest /\ b.what = x.d.code
    BY <1>2
  <2>3. x.d.request.code \notin Vca
    BY <2>2 DEF IsResponder, IsDeferred
  <2>4. Answered(r, x.d.request)
    BY HandleAnswered
  <2> HIDE DEF r
  <2>5. r.reply.code # "VERSION" /\ IsResponder(r.x)
    BY <2>3, <2>4 DEF Answered, Vca
  <2>6. IsResponder(y)
    <3>1. Forget(r.x.d) = [request |-> NoRequest, code |-> r.x.d.code, token |-> r.x.d.token]
      BY <2>5 DEF Forget, IsResponder, IsDeferred
    <3>2. IsDeferred(Forget(r.x.d))
      BY <3>1 DEF IsDeferred
    <3>3. y = [c |-> r.x.c, state |-> r.x.state, d |-> Forget(r.x.d), token |-> r.x.token]
      BY <2>5 DEF IsResponder
    <3> HIDE DEF y
    <3> QED BY <3>2, <3>3 DEF IsResponder
  <2> HIDE DEF y
  <2> QED BY <2>1, <2>5, <2>6, ErrorAnswered
<1>3. CASE \/ refuse = "VERSION_MISMATCH"
           \/ refuse # "-" /\ x.state = "NORMAL"
  <2>1. refuse # "-"
    BY <1>3
  <2>2. GetResponseRespondIfReady(x, b) = Reply(x, Error(refuse))
    <3> HIDE DEF refuse
    <3>1. ~(refuse # "VERSION_MISMATCH" /\ x.state # "NORMAL")
      BY <1>3
    <3> USE DEF refuse
    <3> QED BY <2>1, <3>1, Zenon DEF GetResponseRespondIfReady
  <2>3. refuse \in {"VERSION_MISMATCH", "UNEXPECTED_REQUEST", "INVALID_REQUEST", "-"}
    OBVIOUS
  <2> HIDE DEF refuse
  <2>4. Error(refuse).code # "VERSION"
    BY <2>3 DEF Error, Message
  <2> QED BY <2>2, <2>4, ErrorAnswered
<1> QED
  <2> HIDE DEF refuse
  <2> QED BY <1>1, <1>2, <1>3

-----------------------------------------------------------------------------
(* Steps.  A step that takes the only message, or sends one when there is  *)
(* none, keeps at most one in flight.                                      *)
LEMMA TakeOne ==
    ASSUME OneInFlight
    PROVE  /\ toReq # <<>> =>
                toReq = <<Head(toReq)>> /\ Tail(toReq) = <<>> /\ toRsp = <<>>
           /\ toRsp # <<>> =>
                toRsp = <<Head(toRsp)>> /\ Tail(toRsp) = <<>> /\ toReq = <<>>
<1>1. \A m : Head(<<m>>) = m /\ Tail(<<m>>) = <<>> /\ <<m>> # <<>>
  OBVIOUS
<1> QED BY <1>1, Zenon DEF OneInFlight

(* The Responder takes the only message in flight and answers it.          *)
LEMMA RespondFresh ==
    ASSUME FreshInv, Respond
    PROVE  FreshInv'
<1> DEFINE b == Head(toRsp)
           x == [c |-> p, state |-> respState, d |-> deferred, token |-> token]
           r == IF b.code = "RESPOND_IF_READY" THEN GetResponseRespondIfReady(x, b)
                ELSE Handle(x, b)
<1>1. /\ toRsp = <<b>> /\ Tail(toRsp) = <<>> /\ toReq = <<>> /\ toRsp' = <<>>
  BY TakeOne DEF FreshInv, Respond
<1>2. IsResponder(x)
  BY DEF IsResponder, FreshInv
<1>3. /\ b.code = "GET_VERSION" => b.ver = 16 /\ b.n = 0
      /\ b.code = "RESPOND_IF_READY" => b.what \notin Vca
  <2> HIDE DEF b
  <2> QED BY <1>1 DEF FreshInv
<1>4. /\ p' = r.x.c /\ deferred' = r.x.d /\ token' = r.x.token
      /\ toReq' = Append(toReq, r.reply) /\ UNCHANGED <<q, call, local>>
  BY Zenon DEF Respond
<1>5. Answered(r, b)
  <2> HIDE DEF x, b
  <2>1. CASE b.code = "RESPOND_IF_READY"
    BY <1>2, <1>3, <2>1, RespondIfReadyAnswered
  <2>2. CASE b.code # "RESPOND_IF_READY"
    BY <1>2, <2>2, HandleAnswered
  <2> QED BY <2>1, <2>2
<1>6. b.code = "GET_VERSION" => Entry(b) = VersionRequest
  BY <1>3 DEF Entry, VersionRequest
<1> HIDE DEF r, x, b
<1>7. toReq' = <<r.reply>>
  BY <1>1, <1>4
<1>8. r.reply.code = "VERSION" => Fresh(p', deferred', token', r.reply)
  BY <1>4, <1>5, <1>6 DEF Answered
<1>9. IsDeferred(deferred')
  BY <1>4, <1>5 DEF Answered, IsResponder
<1>10. OneInFlight'
  <2>1. call.pc \notin {"idle", "send"}
    BY <1>1, <<b>> # <<>> DEF FreshInv, OneInFlight
  <2> QED BY <1>1, <1>4, <1>7, <2>1 DEF OneInFlight
<1>11. \A m : toReq' = <<m>> /\ m.code = "VERSION" => Fresh(p', deferred', token', m)
  BY <1>7, <1>8
<1>12. \A m : toRsp' # <<m>>
  BY <1>1
<1> QED BY <1>4, <1>9, <1>10, <1>11, <1>12 DEF FreshInv

(* A step of the Requester that takes the answer, or finds that there is   *)
(* none, and leaves nothing in flight.                                     *)
LEMMA TakenFresh ==
    ASSUME FreshInv, IsContext(q'), IsCall(call'), toRsp' = <<>>, toReq' = <<>>,
           UNCHANGED deferred, call'.pc \in {"idle", "send"},
           call'.api = "GET_VERSION" => call'.n = 0
    PROVE  FreshInv'
<1>1. \A m : <<>> # <<m>>
  OBVIOUS
<1> QED BY <1>1 DEF FreshInv, OneInFlight

(* The end of a call.                                                      *)
LEMMA ReturnCall ==
    ASSUME IsCall(call), NEW status, Return(status)
    PROVE  IsCall(call') /\ call'.pc = "idle" /\ call'.api = call.api /\ call'.n = call.n
<1> DEFINE w == [call EXCEPT !.pc = "idle"]
<1>1. w = [api |-> call.api, init |-> call.init, sign |-> call.sign, pc |-> "idle",
           retry |-> call.retry, n |-> call.n, status |-> call.status]
  BY DEF IsCall
<1>2. call' = [w EXCEPT !.status = status]
  BY DEF Return
<1>3. call' = [api |-> call.api, init |-> call.init, sign |-> call.sign, pc |-> "idle",
               retry |-> call.retry, n |-> call.n, status |-> status]
  <2> HIDE DEF w
  <2> QED BY <1>1, <1>2
<1> QED BY <1>3 DEF IsCall

(* A step of the Requester that sends m, or fails to.                      *)
LEMMA SentFresh ==
    ASSUME FreshInv, NEW c, IsContext(c), NEW k, IsCall(k), NEW m,
           toRsp = <<>>, toReq' = <<>>, SendMessage(c, k, m), UNCHANGED deferred,
           k.pc \in {"recv", "rir"}, call.api = "GET_VERSION" => call.n = 0,
           k.api = "GET_VERSION" => k.n = 0 /\ k.pc # "rir" /\ c = ResetContext,
           m.code = "GET_VERSION" => m.ver = 16 /\ m.n = 0,
           m.code = "RESPOND_IF_READY" => m.what \notin Vca
    PROVE  FreshInv'
<1>1. q' = c
  BY DEF SendMessage
<1>2. CASE toRsp' = Append(toRsp, m) /\ call' = k
  <2>1. toRsp' = <<m>>
    BY <1>2
  <2>2. \A n : toRsp' = <<n>> => n = m
    BY <2>1
  <2>3. \A n : toReq' # <<n>>
    OBVIOUS
  <2>4. OneInFlight'
    BY <1>2, <2>1 DEF OneInFlight
  <2> QED BY <1>1, <1>2, <2>2, <2>3, <2>4 DEF FreshInv
<1>3. CASE Return("ERROR") /\ UNCHANGED toRsp
  <2>1. IsCall(call') /\ call'.pc = "idle" /\ (call'.api = "GET_VERSION" => call'.n = 0)
    BY <1>3, ReturnCall DEF FreshInv
  <2> QED BY <1>1, <1>3, <2>1, TakenFresh
<1> QED BY <1>2, <1>3 DEF SendMessage

(* Assignments to a field of a context.                                    *)
Same(e, c) == IsContext(e) /\ e.state = c.state

(* A field changes, the others and the form of the record stay.            *)
LEMMA SetField ==
    ASSUME NEW c, IsContext(c), NEW v
    PROVE  /\ IsContext([c EXCEPT !.state = v]) /\ [c EXCEPT !.state = v].state = v
           /\ [c EXCEPT !.state = v].a = c.a
           /\ Same([c EXCEPT !.version = v], c) /\ [c EXCEPT !.version = v].a = c.a
           /\ Same([c EXCEPT !.alg = v], c) /\ Same([c EXCEPT !.a = v], c)
           /\ [c EXCEPT !.a = v].a = v
           /\ Same([c EXCEPT !.bc = v], c) /\ Same([c EXCEPT !.m = v], c)
           /\ Same([c EXCEPT !.d = v], c) /\ Same([c EXCEPT !.closed = v], c)
           /\ Same([c EXCEPT !.chain = v], c)
<1>1. [c EXCEPT !.state = v] =
      [state |-> v, version |-> c.version, alg |-> c.alg, a |-> c.a, bc |-> c.bc,
       m |-> c.m, d |-> c.d, closed |-> c.closed, chain |-> c.chain]
  BY DEF IsContext
<1>2. [c EXCEPT !.version = v] =
      [state |-> c.state, version |-> v, alg |-> c.alg, a |-> c.a, bc |-> c.bc,
       m |-> c.m, d |-> c.d, closed |-> c.closed, chain |-> c.chain]
  BY DEF IsContext
<1>3. [c EXCEPT !.alg = v] =
      [state |-> c.state, version |-> c.version, alg |-> v, a |-> c.a, bc |-> c.bc,
       m |-> c.m, d |-> c.d, closed |-> c.closed, chain |-> c.chain]
  BY DEF IsContext
<1>4. [c EXCEPT !.a = v] =
      [state |-> c.state, version |-> c.version, alg |-> c.alg, a |-> v, bc |-> c.bc,
       m |-> c.m, d |-> c.d, closed |-> c.closed, chain |-> c.chain]
  BY DEF IsContext
<1>5. [c EXCEPT !.bc = v] =
      [state |-> c.state, version |-> c.version, alg |-> c.alg, a |-> c.a, bc |-> v,
       m |-> c.m, d |-> c.d, closed |-> c.closed, chain |-> c.chain]
  BY DEF IsContext
<1>6. [c EXCEPT !.m = v] =
      [state |-> c.state, version |-> c.version, alg |-> c.alg, a |-> c.a, bc |-> c.bc,
       m |-> v, d |-> c.d, closed |-> c.closed, chain |-> c.chain]
  BY DEF IsContext
<1>7. [c EXCEPT !.d = v] =
      [state |-> c.state, version |-> c.version, alg |-> c.alg, a |-> c.a, bc |-> c.bc,
       m |-> c.m, d |-> v, closed |-> c.closed, chain |-> c.chain]
  BY DEF IsContext
<1>8. [c EXCEPT !.closed = v] =
      [state |-> c.state, version |-> c.version, alg |-> c.alg, a |-> c.a, bc |-> c.bc,
       m |-> c.m, d |-> c.d, closed |-> v, chain |-> c.chain]
  BY DEF IsContext
<1>9. [c EXCEPT !.chain = v] =
      [state |-> c.state, version |-> c.version, alg |-> c.alg, a |-> c.a, bc |-> c.bc,
       m |-> c.m, d |-> c.d, closed |-> c.closed, chain |-> v]
  BY DEF IsContext
<1>10. IsContext([c EXCEPT !.state = v]) /\ [c EXCEPT !.state = v].state = v
       /\ [c EXCEPT !.state = v].a = c.a
  BY <1>1 DEF Same, IsContext
<1>11. Same([c EXCEPT !.version = v], c) /\ [c EXCEPT !.version = v].a = c.a
  BY <1>2 DEF Same, IsContext
<1>12. Same([c EXCEPT !.alg = v], c)
  BY <1>3 DEF Same, IsContext
<1>13. Same([c EXCEPT !.a = v], c) /\ [c EXCEPT !.a = v].a = v
  BY <1>4 DEF Same, IsContext
<1>14. Same([c EXCEPT !.bc = v], c)
  BY <1>5 DEF Same, IsContext
<1>15. Same([c EXCEPT !.m = v], c)
  BY <1>6 DEF Same, IsContext
<1>16. Same([c EXCEPT !.d = v], c)
  BY <1>7 DEF Same, IsContext
<1>17. Same([c EXCEPT !.closed = v], c)
  BY <1>8 DEF Same, IsContext
<1>18. Same([c EXCEPT !.chain = v], c)
  BY <1>9 DEF Same, IsContext
<1> QED
  BY <1>10, <1>11, <1>12, <1>13, <1>14, <1>15, <1>16, <1>17, <1>18

(* What the steps do to the Requester's context keeps its form, and only   *)
(* VERSION brings it to AFTER_VERSION.                                     *)
Kept(e, c) == IsContext(e) /\ (e.state = "AFTER_VERSION" => c.state = "AFTER_VERSION")

(* Any other state may be assigned.                                        *)
LEMMA StateKept ==
    ASSUME NEW c, IsContext(c), NEW e, NEW state, state # "AFTER_VERSION"
    PROVE  Kept([c EXCEPT !.state = state], e)
<1> DEFINE f == [c EXCEPT !.state = state]
<1>1. IsContext(f) /\ f.state = state
  BY SetField, Zenon
<1> HIDE DEF f
<1>2. Kept(f, e)
  BY <1>1 DEF Kept
<1> QED BY <1>2 DEF f

(* The operations on the transcripts, and on the connection state.         *)
LEMMA ContextSteps ==
    ASSUME NEW c, IsContext(c), NEW u, NEW v
    PROVE  /\ Same(OnFailure(c, u), c)
           /\ Same(ResetBC(c), c) /\ Same(ResetM(c), c)
           /\ Same(AppendA(c, u, v), c) /\ Same(AppendBC(c, u, v), c)
           /\ Same(AppendM(c, u, v), c) /\ Same(AppendD(c, u), c)
           /\ Kept(Raise(c, "AFTER_DIGESTS"), c) /\ Kept(Raise(c, "AFTER_CERTIFICATE"), c)
           /\ Kept(Prepare(c, u), c)
<1>1. Same(c, c)
  BY DEF Same
<1>2. Same(ResetBC(c), c) /\ Same(ResetM(c), c)
  BY SetField, Zenon DEF ResetBC, ResetM
<1>3. Same(OnFailure(c, u), c)
  BY <1>1, <1>2 DEF OnFailure
<1>4. /\ Same(AppendA(c, u, v), c) /\ Same(AppendBC(c, u, v), c)
      /\ Same(AppendM(c, u, v), c)
  BY SetField, Zenon DEF AppendA, AppendBC, AppendM
<1>5. Same(AppendD(c, u), c)
  BY <1>1, SetField, Zenon DEF AppendD
<1>6. Kept(Raise(c, "AFTER_DIGESTS"), c) /\ Kept(Raise(c, "AFTER_CERTIFICATE"), c)
  <2>1. ASSUME NEW state, state # "AFTER_VERSION" PROVE Kept(Raise(c, state), c)
    <3>1. Kept([c EXCEPT !.state = state], c) /\ Kept(c, c)
      BY <2>1, StateKept DEF Kept
    <3> QED BY <3>1 DEF Raise
  <2> QED BY <2>1
<1>7. IsContext(ResetContext) /\ ResetContext.state = "NOT_STARTED"
  BY DEF IsContext, ResetContext
<1>8. Same(ResetViaRequestCode(c, u), c)
  <2> DEFINE x1 == c.closed \/ (u # "GET_DIGESTS" /\ ~Below(c, "NEGOTIATED"))
             e1 == [c EXCEPT !.closed = x1]
             x2 == IF u = "GET_MEASUREMENTS" THEN e1.m ELSE <<>>
             e2 == [e1 EXCEPT !.m = x2]
             x3 == IF \/ u = "GET_DIGESTS"
                      \/ u = "GET_MEASUREMENTS" /\ Below(c, "AUTHENTICATED")
                   THEN <<>> ELSE e2.bc
             e3 == [e2 EXCEPT !.bc = x3]
  <2>1. ResetViaRequestCode(c, u) = e3
    BY DEF ResetViaRequestCode
  <2> HIDE DEF x1
  <2>2. Same(e1, c)
    BY SetField, Zenon
  <2> HIDE DEF e1, x2
  <2>3. Same(e2, e1)
    BY <2>2, SetField, Zenon DEF Same
  <2> HIDE DEF e2, x3
  <2>4. Same(e3, e2)
    BY <2>3, SetField, Zenon DEF Same
  <2> HIDE DEF e3
  <2> QED BY <2>1, <2>2, <2>3, <2>4 DEF Same
<1>9. Kept(Prepare(c, u), c)
  <2>1. \/ Prepare(c, u) = ResetContext \/ Prepare(c, u) = c
        \/ Prepare(c, u) = ResetViaRequestCode(c, u)
    <3> HIDE DEF ResetContext, ResetViaRequestCode
    <3> QED BY DEF Prepare
  <2> QED BY <1>1, <1>7, <1>8, <2>1 DEF Kept, Same
<1> QED BY <1>2, <1>3, <1>4, <1>5, <1>6, <1>9

(* The step that this is about, and the steps that it does not concern.    *)
FreshStep ==
    q.state # "AFTER_VERSION" /\ q'.state = "AFTER_VERSION" =>
      /\ p.state = "AFTER_VERSION" /\ p.a = q'.a
      /\ p.bc = <<>> /\ p.m = <<>> /\ p.d = <<>> /\ ~p.closed
      /\ deferred.request = NoRequest /\ token = 0

(* A step that does not bring the Requester to AFTER_VERSION.              *)
LEMMA KeptStep ==
    ASSUME Kept(q', q)
    PROVE  FreshStep /\ IsContext(q')
BY DEF Kept, FreshStep

(* Taking an answer with which the call ends.                              *)
LEMMA ReceivedReturns ==
    ASSUME FreshInv, Receive, UNCHANGED toRsp, IsContext(q'), NEW status, Return(status)
    PROVE  FreshInv'
<1>1. toReq' = <<>> /\ toRsp' = <<>>
  BY TakeOne DEF Receive, FreshInv
<1>2. UNCHANGED deferred
  BY DEF Receive, rspVars
<1> QED BY <1>1, <1>2, ReturnCall, TakenFresh DEF FreshInv

(* Starting a call.                                                        *)
LEMMA StartedFresh ==
    ASSUME FreshInv, call.pc = "idle", NEW api, NEW init, NEW sign,
           call' = Started(api, init, sign), UNCHANGED <<q, deferred, toRsp, toReq>>
    PROVE  FreshInv' /\ FreshStep
<1>1. IsCall(call') /\ call'.pc = "send" /\ call'.n = 0
  BY DEF Started, IsCall
<1>2. toRsp' = <<>> /\ toReq' = <<>>
  BY DEF FreshInv, OneInFlight
<1> QED BY <1>1, <1>2, TakenFresh DEF FreshInv, FreshStep

(* libspdm_try_...: the request goes out, or not.                          *)
LEMMA SendRequestFresh ==
    ASSUME FreshInv, SendRequest
    PROVE  FreshInv' /\ FreshStep
<1> DEFINE random == call.api \in {"CHALLENGE", "GET_MEASUREMENTS"}
           n == IF random THEN nonce ELSE call.n
           c == Prepare(q, call.api)
           k == [call EXCEPT !.pc = "recv", !.n = n]
           m == Message(call.api, IF call.api = "GET_VERSION" THEN 16 ELSE Header(c.version),
                        n, IF call.sign THEN "SIGN" ELSE "-")
<1>1. SendMessage(c, k, m) /\ UNCHANGED <<toReq, deferred>> /\ call.pc = "send"
  BY DEF SendRequest, rspVars
<1>2. toRsp = <<>> /\ toReq' = <<>>
  BY <1>1 DEF FreshInv, OneInFlight
<1>3. Kept(c, q)
  BY ContextSteps DEF FreshInv
<1>4. call.api = "GET_VERSION" => call.n = 0 /\ n = 0 /\ c = ResetContext
  <2> SUFFICES ASSUME call.api = "GET_VERSION" PROVE call.n = 0 /\ n = 0 /\ c = ResetContext
    OBVIOUS
  <2>1. call.n = 0 /\ n = 0
    BY DEF FreshInv
  <2>2. /\ call.api # "VENDOR_DEFINED"
        /\ ~(call.api = "GET_CERTIFICATE" /\ call.n > 0)
    OBVIOUS
  <2>3. c = ResetContext
    BY <2>2, Zenon DEF Prepare
  <2> QED BY <2>1, <2>3
<1>5. k = [api |-> call.api, init |-> call.init, sign |-> call.sign, pc |-> "recv",
           retry |-> call.retry, n |-> n, status |-> call.status]
  <2> DEFINE w == [call EXCEPT !.pc = "recv"]
  <2>1. w = [api |-> call.api, init |-> call.init, sign |-> call.sign, pc |-> "recv",
             retry |-> call.retry, n |-> call.n, status |-> call.status]
    BY DEF FreshInv, IsCall
  <2>2. k = [w EXCEPT !.n = n]
    OBVIOUS
  <2> HIDE DEF w, n, k
  <2> QED BY <2>1, <2>2
<1> HIDE DEF c, k, n
<1>6. IsCall(k) /\ k.pc = "recv" /\ k.api = call.api /\ k.n = n
  BY <1>5 DEF IsCall
<1>7. /\ m.code = "GET_VERSION" => m.ver = 16 /\ m.n = 0
      /\ m.code = "RESPOND_IF_READY" => m.what \notin Vca
  BY <1>4 DEF Message, Vca
<1> HIDE DEF m
<1>8. FreshInv'
  BY <1>1, <1>2, <1>3, <1>4, <1>6, <1>7, SentFresh DEF Kept
<1>9. q' = c
  BY <1>1 DEF SendMessage
<1> QED BY <1>3, <1>8, <1>9, KeptStep

(* Steps that take an answer other than the one that was asked for, or     *)
(* find that none will come.                                               *)
LEMMA FailureFresh ==
    ASSUME FreshInv,
           Timeout \/ ReceiveNotReadyPeer \/ ReceiveResynch \/ ReceiveError
    PROVE  FreshInv' /\ FreshStep
<1>1. IsContext(q)
  BY DEF FreshInv
<1>2. \A u : Kept(OnFailure(q, u), q) /\ Kept([OnFailure(q, u) EXCEPT !.state = "NOT_STARTED"], q)
  <2> TAKE u
  <2>1. Same(OnFailure(q, u), q)
    BY <1>1, ContextSteps
  <2> QED BY <2>1, SetField, ZenonT(40) DEF Same, Kept
<1>3. Kept(q', q)
  BY <1>2, Zenon DEF Timeout, ReceiveNotReadyPeer, ReceiveResynch, ReceiveError
<1>4. CASE Timeout
  <2>1. toRsp' = <<>> /\ toReq' = <<>> /\ UNCHANGED deferred
    BY <1>4 DEF Timeout, rspVars
  <2>2. Return("ERROR")
    BY <1>4 DEF Timeout
  <2> QED BY <1>3, <2>1, <2>2, KeptStep, ReturnCall, TakenFresh DEF FreshInv
<1>5. CASE ReceiveNotReadyPeer \/ ReceiveResynch \/ ReceiveError
  <2>1. Receive /\ UNCHANGED toRsp
    BY <1>5, Zenon DEF ReceiveNotReadyPeer, ReceiveResynch, ReceiveError
  <2>2. \E status : Return(status)
    BY <1>5, Zenon DEF ReceiveNotReadyPeer, ReceiveResynch, ReceiveError
  <2> QED BY <1>3, <2>1, <2>2, KeptStep, ReceivedReturns
<1> QED BY <1>4, <1>5

(* BUSY, and ResponseNotReady for a request that may be resumed.           *)
LEMMA BusyFresh ==
    ASSUME FreshInv, ReceiveBusy
    PROVE  FreshInv' /\ FreshStep
<1>1. Kept(q', q)
  BY ContextSteps DEF ReceiveBusy, FreshInv, Same, Kept
<1>2. Receive /\ UNCHANGED toRsp
  BY Zenon DEF ReceiveBusy
<1>3. CASE call' = [call EXCEPT !.pc = "send", !.retry = @ - 1, !.n = 0]
  <2> DEFINE u == [call EXCEPT !.pc = "send"]
             v == [u EXCEPT !.retry = @ - 1]
  <2>1. u = [api |-> call.api, init |-> call.init, sign |-> call.sign, pc |-> "send",
             retry |-> call.retry, n |-> call.n, status |-> call.status]
    BY DEF FreshInv, IsCall
  <2>2. call' = [v EXCEPT !.n = 0]
    BY <1>3
  <2>3. v = [api |-> call.api, init |-> call.init, sign |-> call.sign, pc |-> "send",
             retry |-> call.retry - 1, n |-> call.n, status |-> call.status]
    <3> HIDE DEF u
    <3> QED BY <2>1
  <2>4. call' = [api |-> call.api, init |-> call.init, sign |-> call.sign, pc |-> "send",
                 retry |-> call.retry - 1, n |-> 0, status |-> call.status]
    <3> HIDE DEF v
    <3> QED BY <2>2, <2>3
  <2>5. IsCall(call') /\ call'.pc = "send" /\ call'.n = 0
    BY <2>4 DEF IsCall
  <2>6. toReq' = <<>> /\ toRsp' = <<>> /\ UNCHANGED deferred
    BY <1>2, TakeOne DEF Receive, FreshInv, rspVars
  <2> QED BY <1>1, <2>5, <2>6, KeptStep, TakenFresh
<1>4. CASE Return("BUSY")
  BY <1>1, <1>2, <1>4, KeptStep, ReceivedReturns
<1> QED BY <1>3, <1>4 DEF ReceiveBusy

(* ResponseNotReady: RESPOND_IF_READY is never for GET_VERSION.            *)
LEMMA NotReadyFresh ==
    ASSUME FreshInv, ReceiveNotReady
    PROVE  FreshInv' /\ FreshStep
<1> DEFINE k == [call EXCEPT !.pc = "rir"]
           m == Message("RESPOND_IF_READY", Header(q.version), Taken.n, Taken.what)
<1>1. Receive /\ CanDefer /\ SendMessage(q, k, m)
  BY Zenon DEF ReceiveNotReady
<1>2. toRsp = <<>> /\ toReq' = <<>> /\ UNCHANGED deferred
  BY <1>1, TakeOne DEF Receive, FreshInv, rspVars
<1>3. k = [api |-> call.api, init |-> call.init, sign |-> call.sign, pc |-> "rir",
           retry |-> call.retry, n |-> call.n, status |-> call.status]
  BY DEF FreshInv, IsCall
<1>4. IsCall(k) /\ k.pc = "rir" /\ k.api = call.api
  <2> HIDE DEF k
  <2> QED BY <1>3 DEF IsCall
<1>5. call.api # "GET_VERSION" /\ m.code = "RESPOND_IF_READY" /\ m.what \notin Vca
  BY <1>1 DEF CanDefer, Vca, Message
<1>6. IsContext(q) /\ q' = q
  BY <1>1 DEF FreshInv, SendMessage
<1> HIDE DEF k, m
<1>7. FreshInv'
  BY <1>1, <1>2, <1>4, <1>5, <1>6, SentFresh
<1> QED BY <1>6, <1>7 DEF FreshStep

(* The answers to all calls but GET_VERSION.                               *)
LEMMA AnswerFresh ==
    ASSUME FreshInv,
           \/ ReceiveCapabilities \/ ReceiveAlgorithms \/ ReceiveDigests
           \/ ReceiveCertificate \/ ReceiveChallengeAuth \/ ReceiveMeasurements
           \/ ReceiveVendorDefined
    PROVE  FreshInv' /\ FreshStep
<1>1. /\ Receive /\ UNCHANGED toRsp
      /\ toReq' = <<>> /\ toRsp' = <<>> /\ UNCHANGED deferred /\ IsContext(q) /\ IsCall(call)
  <2>1. Receive /\ UNCHANGED toRsp
    BY Zenon DEF ReceiveCapabilities, ReceiveAlgorithms, ReceiveDigests, ReceiveCertificate,
       ReceiveChallengeAuth, ReceiveMeasurements, ReceiveVendorDefined, ReceiveAnswer
  <2> QED BY <2>1, TakeOne DEF Receive, FreshInv, rspVars
<1>2. CASE ReceiveCapabilities
  <2> DEFINE c == AppendA(q, Asked, Entry(Taken))
  <2>1. q' = [c EXCEPT !.state = "AFTER_CAPABILITIES"] /\ IsContext(c)
    BY <1>1, <1>2, ContextSteps DEF ReceiveCapabilities, Same
  <2> HIDE DEF c
  <2>2. Kept(q', q)
    BY <2>1, StateKept
  <2>3. CASE call' = Started("NEGOTIATE_ALGORITHMS", TRUE, FALSE)
    <3>1. IsCall(call') /\ call'.pc = "send" /\ call'.n = 0
      BY <2>3 DEF Started, IsCall
    <3> QED BY <1>1, <2>2, <3>1, KeptStep, TakenFresh
  <2>4. CASE Return("SUCCESS")
    BY <1>1, <2>2, <2>4, KeptStep, ReceivedReturns
  <2> QED BY <1>2, <2>3, <2>4, Zenon DEF ReceiveCapabilities, Proceed
<1>3. CASE ReceiveAlgorithms
  <2> DEFINE a == AppendA(q, Asked, Entry(Taken))
             c == [a EXCEPT !.alg = Taken.what]
  <2>1. \/ q' = [c EXCEPT !.state = "NEGOTIATED"] /\ Return("SUCCESS")
        \/ q' = c /\ Return("NEGOTIATION_FAIL")
    BY <1>3, Zenon DEF ReceiveAlgorithms
  <2>2. Same(a, q)
    BY <1>1, ContextSteps
  <2> HIDE DEF a
  <2>3. Same(c, a)
    BY <2>2, SetField, Zenon DEF Same
  <2> HIDE DEF c
  <2>4. Kept(c, q) /\ Kept([c EXCEPT !.state = "NEGOTIATED"], q)
    <3>1. IsContext(c) /\ Kept(c, q)
      BY <2>2, <2>3 DEF Same, Kept
    <3> QED BY <3>1, StateKept
  <2> QED BY <1>1, <2>1, <2>4, KeptStep, ReceivedReturns
<1>4. CASE ReceiveDigests
  <2> DEFINE b == AppendBC(q, Asked, Entry(Taken))
             c == IF MultiKey THEN AppendD(b, Entry(Taken)) ELSE b
  <2>1. q' = Raise(c, "AFTER_DIGESTS") /\ Return("SUCCESS")
    BY <1>4, Zenon DEF ReceiveDigests
  <2>2. Same(b, q)
    BY <1>1, ContextSteps
  <2> HIDE DEF b
  <2>3. Same(c, b)
    BY <2>2, ContextSteps DEF Same
  <2> HIDE DEF c
  <2>4. Kept(q', q)
    BY <2>1, <2>2, <2>3, ContextSteps DEF Same, Kept
  <2> QED BY <1>1, <2>1, <2>4, KeptStep, ReceivedReturns
<1>5. CASE ReceiveCertificate
  <2> DEFINE b == AppendBC(q, Asked, Entry(Taken))
             c == Raise(b, "AFTER_CERTIFICATE")
  <2>1. /\ call.api = "GET_CERTIFICATE"
        /\ \/ q' = c /\ call' = [call EXCEPT !.pc = "send", !.n = @ + 1]
           \/ q' = [c EXCEPT !.chain = TRUE] /\ Return("SUCCESS")
    BY <1>5, Zenon DEF ReceiveCertificate, ReceiveAnswer
  <2>2. Same(b, q)
    BY <1>1, ContextSteps
  <2> HIDE DEF b
  <2>3. Kept(c, q)
    BY <2>2, ContextSteps DEF Same, Kept
  <2> HIDE DEF c
  <2>4. Kept([c EXCEPT !.chain = TRUE], q)
    BY <2>3, SetField, Zenon DEF Same, Kept
  <2>5. CASE q' = c /\ call' = [call EXCEPT !.pc = "send", !.n = @ + 1]
    <3> DEFINE u == [call EXCEPT !.pc = "send"]
    <3>1. u = [api |-> call.api, init |-> call.init, sign |-> call.sign, pc |-> "send",
               retry |-> call.retry, n |-> call.n, status |-> call.status]
      BY <1>1 DEF IsCall
    <3>2. call' = [u EXCEPT !.n = @ + 1]
      BY <2>5
    <3>3. call' = [api |-> call.api, init |-> call.init, sign |-> call.sign, pc |-> "send",
                   retry |-> call.retry, n |-> call.n + 1, status |-> call.status]
      <4> HIDE DEF u
      <4> QED BY <3>1, <3>2
    <3>4. IsCall(call') /\ call'.pc = "send" /\ call'.api # "GET_VERSION"
      BY <2>1, <3>3 DEF IsCall
    <3> QED BY <1>1, <2>3, <2>5, <3>4, KeptStep, TakenFresh
  <2> QED BY <1>1, <2>1, <2>4, <2>5, KeptStep, ReceivedReturns, Zenon
<1>6. CASE ReceiveChallengeAuth
  <2> DEFINE c == AppendBC(q, Asked, Entry(Taken))
  <2>1. /\ q' = q \/ q' = ResetBC(c) \/ q' = [ResetBC(c) EXCEPT !.state = "AUTHENTICATED"]
        /\ \E status : Return(status)
    BY <1>6, Zenon DEF ReceiveChallengeAuth
  <2>2. Same(c, q)
    BY <1>1, ContextSteps
  <2> HIDE DEF c
  <2>3. Same(ResetBC(c), c)
    BY <2>2, ContextSteps DEF Same
  <2>4. Kept(q', q)
    <3>1. IsContext(ResetBC(c)) /\ Kept(ResetBC(c), q) /\ Kept(q, q)
      BY <1>1, <2>2, <2>3 DEF Same, Kept
    <3>2. Kept([ResetBC(c) EXCEPT !.state = "AUTHENTICATED"], q)
      BY <3>1, StateKept
    <3> QED BY <2>1, <3>1, <3>2
  <2> QED BY <1>1, <2>1, <2>4, KeptStep, ReceivedReturns
<1>7. CASE ReceiveMeasurements
  <2> DEFINE c == AppendM(q, Asked, Entry(Taken))
  <2>1. (q' = c \/ q' = ResetM(c)) /\ \E status : Return(status)
    BY <1>7 DEF ReceiveMeasurements
  <2>2. Same(c, q)
    BY <1>1, ContextSteps
  <2> HIDE DEF c
  <2>3. Same(ResetM(c), c)
    BY <2>2, ContextSteps DEF Same
  <2>4. Kept(q', q)
    BY <2>1, <2>2, <2>3 DEF Same, Kept
  <2> QED BY <1>1, <2>1, <2>4, KeptStep, ReceivedReturns
<1>8. CASE ReceiveVendorDefined
  <2> DEFINE u == [call EXCEPT !.pc = "idle"]
  <2>1. q' = q /\ call' = [u EXCEPT !.status = "SUCCESS"] /\ call.api = "VENDOR_DEFINED"
    BY <1>8 DEF ReceiveVendorDefined, ReceiveAnswer
  <2>2. u = [api |-> call.api, init |-> call.init, sign |-> call.sign, pc |-> "idle",
             retry |-> call.retry, n |-> call.n, status |-> call.status]
    BY <1>1 DEF IsCall
  <2>3. call' = [api |-> call.api, init |-> call.init, sign |-> call.sign, pc |-> "idle",
                 retry |-> call.retry, n |-> call.n, status |-> "SUCCESS"]
    <3> HIDE DEF u
    <3> QED BY <2>1, <2>2
  <2>4. IsCall(call') /\ call'.pc = "idle" /\ call'.api # "GET_VERSION"
    BY <2>1, <2>3, Zenon DEF IsCall
  <2> QED BY <1>1, <2>1, <2>4, TakenFresh DEF FreshStep
<1> QED BY <1>2, <1>3, <1>4, <1>5, <1>6, <1>7, <1>8

(* VERSION: the Responder is as GET_VERSION left it, and so is the         *)
(* Requester, but for the two messages that it now appends as well.        *)
LEMMA VersionFresh ==
    ASSUME FreshInv, ReceiveVersion
    PROVE  FreshInv' /\ FreshStep
<1>1. /\ Receive /\ UNCHANGED toRsp /\ call.api = "GET_VERSION" /\ Taken.code = "VERSION"
  BY DEF ReceiveVersion, ReceiveAnswer, ResponseCode
<1>2. /\ toReq = <<Taken>> /\ toReq' = <<>> /\ toRsp' = <<>> /\ UNCHANGED deferred
  BY <1>1, TakeOne DEF Receive, FreshInv, rspVars, Taken
<1>3. q = ResetContext /\ call.n = 0 /\ Fresh(p, deferred, token, Taken)
  BY <1>1, <1>2 DEF FreshInv, Receive
<1>4. Asked = VersionRequest
  BY <1>1, <1>3 DEF Asked, VersionRequest
<1>5. IsContext(q) /\ IsCall(call)
  BY DEF FreshInv
<1>6. CASE q' = q /\ Return("NEGOTIATION_FAIL")
  BY <1>1, <1>5, <1>6, ReceivedReturns DEF FreshStep
<1>7. ASSUME NEW v,
             q' = [AppendA(q, Asked, Entry(Taken)) EXCEPT
                     !.version = v, !.state = "AFTER_VERSION"],
             \/ call' = Started("GET_CAPABILITIES", TRUE, FALSE)
             \/ call' = [call EXCEPT !.pc = "idle", !.status = "SUCCESS"]
      PROVE  FreshInv' /\ FreshStep
  <2> DEFINE c == AppendA(q, Asked, Entry(Taken))
             e == [c EXCEPT !.version = v]
  <2>1. q' = [e EXCEPT !.state = "AFTER_VERSION"]
    BY <1>7
  <2>2. Same(c, q)
    BY <1>5, ContextSteps
  <2>3. c.a = p.a
    BY <1>3, <1>4 DEF Fresh
  <2> HIDE DEF c
  <2>4. Same(e, c) /\ e.a = c.a
    BY <2>2, SetField, Zenon DEF Same
  <2> HIDE DEF e
  <2>5. IsContext(q') /\ q'.a = p.a
    <3>1. IsContext(e) /\ e.a = p.a
      BY <2>3, <2>4 DEF Same
    <3> QED BY <2>1, <3>1, SetField, Zenon
  <2>6. FreshStep
    BY <1>3, <2>5 DEF Fresh, FreshStep
  <2>7. IsCall(call') /\ call'.pc \in {"idle", "send"} /\ call'.n = 0
    <3>1. CASE call' = Started("GET_CAPABILITIES", TRUE, FALSE)
      BY <3>1 DEF Started, IsCall
    <3>2. CASE call' = [call EXCEPT !.pc = "idle", !.status = "SUCCESS"]
      <4> DEFINE u == [call EXCEPT !.pc = "idle"]
      <4>1. u = [api |-> call.api, init |-> call.init, sign |-> call.sign, pc |-> "idle",
                 retry |-> call.retry, n |-> call.n, status |-> call.status]
        BY <1>5 DEF IsCall
      <4>2. call' = [u EXCEPT !.status = "SUCCESS"]
        BY <3>2
      <4>3. call' = [api |-> call.api, init |-> call.init, sign |-> call.sign, pc |-> "idle",
                     retry |-> call.retry, n |-> call.n, status |-> "SUCCESS"]
        <5> HIDE DEF u
        <5> QED BY <4>1, <4>2
      <4> QED BY <1>3, <4>3 DEF IsCall
    <3> QED BY <1>7, <3>1, <3>2, Zenon
  <2> QED BY <1>2, <2>5, <2>6, <2>7, TakenFresh
<1> QED BY <1>6, <1>7, Zenon DEF ReceiveVersion

-----------------------------------------------------------------------------
(* The invariant holds at first: nothing is in flight.                     *)
LEMMA InitFresh == Init => FreshInv
<1> SUFFICES ASSUME Init PROVE FreshInv
  OBVIOUS
<1>1. IsContext(q)
  BY DEF Init, ResetContext, IsContext
<1>2. IsCall(call) /\ call.api = "-"
  BY DEF Init, NoCall, IsCall
<1>3. IsDeferred(deferred)
  BY DEF Init, IsDeferred
<1>4. \A m : toRsp # <<m>> /\ toReq # <<m>>
  BY DEF Init
<1> QED BY <1>1, <1>2, <1>3, <1>4 DEF Init, FreshInv, OneInFlight

(* Every step preserves it, and is as the theorem says.                    *)
LEMMA NextFresh == FreshInv /\ [Next]_vars => FreshInv' /\ [FreshStep]_vars
<1> SUFFICES ASSUME FreshInv, [Next]_vars PROVE FreshInv' /\ FreshStep
  OBVIOUS
<1>1. CASE StartInit
  BY <1>1, StartedFresh, Zenon DEF StartInit, rspVars
<1>2. ASSUME NEW api, NEW sign, StartCall(api, sign) PROVE FreshInv' /\ FreshStep
  BY <1>2, StartedFresh, ZenonT(40) DEF StartCall, rspVars
<1>3. CASE RequesterStep
  BY <1>3, SendRequestFresh, FailureFresh, BusyFresh, NotReadyFresh, AnswerFresh,
     VersionFresh DEF RequesterStep
<1>4. CASE Respond
  BY <1>4, RespondFresh DEF Respond, FreshStep
<1>5. CASE \/ \E state \in ResponseStates : Hold(state)
           \/ Resume \/ UNCHANGED vars
  <2>1. UNCHANGED <<q, call, p, deferred, token, toRsp, toReq>>
    BY <1>5 DEF Hold, Resume, vars, rspVars
  <2> QED BY <2>1 DEF FreshInv, OneInFlight, FreshStep
<1>6. CASE Lose
  <2>1. toRsp' = <<>> /\ toReq' = <<>> /\ UNCHANGED <<q, call, p, deferred, token>>
    BY <1>6, TakeOne, Zenon DEF Lose, FreshInv, rspVars
  <2>2. \A m : toRsp' # <<m>> /\ toReq' # <<m>>
    BY <2>1
  <2> QED BY <2>1, <2>2 DEF FreshInv, OneInFlight, FreshStep
<1> QED BY <1>1, <1>2, <1>3, <1>4, <1>5, <1>6 DEF Next

(* Whatever connection, deferred request or signature GET_VERSION          *)
(* interrupts, and however often it was refused or lost, the VERSION that  *)
(* the Requester takes comes from a Responder that has forgotten it all    *)
(* (libspdm_get_response_version, libspdm_reset_context).                  *)
THEOREM VersionStartsAfresh == Spec => FreshAfterVersion
<1>1. FreshAfterVersion <=> [][FreshStep]_vars
  BY PTL DEF FreshAfterVersion, FreshStep
<1> QED BY <1>1, InitFresh, NextFresh, PTL DEF Spec

=============================================================================
