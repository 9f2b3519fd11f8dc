--------------------------- MODULE KeyUpdateProofs ---------------------------
(***************************************************************************)
(* Type correctness of KeyUpdate and the freshness of its nonces, for      *)
(* every retry count, every width of the sequence number, every mixture of *)
(* calls and any number of faults.                                         *)
(***************************************************************************)
EXTENDS KeyUpdate, TLAPS

Keys == [Directions -> DirectionKey]
ContextType ==
    [keys : Keys, last : Updates \cup {"NONE"}, deferred : DeferredType,
     token : 0 .. TokenCount - 1, encap : EncapType]
ReplyType == [c : ContextType, reply : ResponseType]

IInv == TypeOK /\ NonceFresh

USE SecuredMessageAssumption, KeyUpdateAssumption

-----------------------------------------------------------------------------
(* The key state of one direction (SecuredMessage).                        *)

(* Creating, activating, advancing and decoding keep a direction's key     *)
(* state well formed (the functions of libspdm_secmes_session.c).          *)
LEMMA CreateUpdateType ==
    ASSUME NEW k \in DirectionKey
    PROVE  CreateUpdate(k) \in DirectionKey
BY SecuredMessageAssumption DEF CreateUpdate, DirectionKey

(* Rolling back or committing yields a well formed key state.              *)
LEMMA ActivateUpdateType ==
    ASSUME NEW k \in DirectionKey, NEW useNew \in BOOLEAN
    PROVE  ActivateUpdate(k, useNew) \in DirectionKey
<1>1. CASE ~useNew /\ k.valid
  BY <1>1, SecuredMessageAssumption DEF ActivateUpdate, DirectionKey
<1>2. CASE ~(~useNew /\ k.valid)
  BY <1>2, SecuredMessageAssumption DEF ActivateUpdate, DirectionKey
<1> QED BY <1>1, <1>2

(* The counter stays within its width.                                     *)
LEMMA AdvanceType ==
    ASSUME NEW k \in DirectionKey
    PROVE  Advance(k) \in DirectionKey
BY SecuredMessageAssumption DEF Advance, DirectionKey

(* Inside the limit the counter never wraps.                               *)
LEMMA AdvanceIncrements ==
    ASSUME NEW k \in DirectionKey, InLimit(k)
    PROVE  Advance(k) = [k EXCEPT !.seq = k.seq + 1]
BY SecuredMessageAssumption DEF Advance, InLimit, DirectionKey

(* Decoding a message keeps the key state well formed.                     *)
LEMMA DecodeType ==
    ASSUME NEW k \in DirectionKey, NEW m
    PROVE  Decode(k, m).key \in DirectionKey
BY AdvanceType DEF Decode

(* So does the retry under the backup key.                                 *)
LEMMA DecodeWithRollbackType ==
    ASSUME NEW k \in DirectionKey, NEW m
    PROVE  DecodeWithRollback(k, m).key \in DirectionKey
<1> DEFINE first == Decode(k, m)
           second == Decode(ActivateUpdate(first.key, FALSE), m)
<1>1. first.key \in DirectionKey
  BY DecodeType
<1>2. second.key \in DirectionKey
  BY <1>1, ActivateUpdateType, DecodeType, Zenon
<1>3. CreateUpdate(second.key) \in DirectionKey
  BY <1>2, CreateUpdateType, Zenon
<1>4. DecodeWithRollback(k, m).key
        \in {first.key, second.key, [second EXCEPT !.key = CreateUpdate(second.key)].key}
  BY DEF DecodeWithRollback
<1>5. [second EXCEPT !.key = CreateUpdate(second.key)].key = CreateUpdate(second.key)
  BY DEF Decode
<1> QED
  BY <1>1, <1>2, <1>3, <1>4, <1>5, Zenon

(* The nonce used by an encoder comes before its next one.                 *)
LEMMA AdvanceNonce ==
    ASSUME NEW k \in DirectionKey, InLimit(k)
    PROVE  NonceBefore([gen |-> k.gen, seq |-> k.seq], Advance(k))
BY SecuredMessageAssumption, AdvanceIncrements DEF NonceBefore, DirectionKey

(* A nonce used before an update comes before those of the new key.        *)
LEMMA CommitNonce ==
    ASSUME NEW k \in DirectionKey, NEW n \in [gen : Nat, seq : Nat],
           NonceBefore(n, k)
    PROVE  NonceBefore(n, ActivateUpdate(CreateUpdate(k), TRUE))
BY DEF NonceBefore, CreateUpdate, ActivateUpdate, DirectionKey

-----------------------------------------------------------------------------
(* The Requester's side.                                                   *)

(* The plain messages have their types.                                    *)
LEMMA PlainType ==
    /\ \A s \in ResponseCodes : Plain(s) \in ResponseType
    /\ \A s \in Deferrable : Plain(s) \in RequestType
BY DEF Plain, Payload, ResponseType, RequestType, Whats

(* A call that returns, retries or fails to send stays a call.             *)
LEMMA CallSteps ==
    ASSUME NEW c \in CallType
    PROVE  /\ \A st \in {"-", "SUCCESS", "BUSY", "ERROR"} : Return(c, st) \in CallType
           /\ SendFailed(c) \in CallType
           /\ Retry(c) \in CallType
<1>1. \A st \in {"-", "SUCCESS", "BUSY", "ERROR"} : Return(c, st) \in CallType
  BY Zenon DEF Return, CallType
<1>2. SendFailed(c) \in CallType
  <2>1. CASE c.pc = "recv"
    BY <1>1, <2>1 DEF SendFailed
  <2>2. CASE c.pc # "recv" /\ (c.api = "ENCAP" \/ c.sent.what \in Updates)
    BY <2>2, Zenon DEF SendFailed, CallType
  <2>3. CASE c.pc # "recv" /\ ~(c.api = "ENCAP" \/ c.sent.what \in Updates)
    BY <2>3, ZenonT(40) DEF SendFailed, CallType
  <2> QED BY <2>1, <2>2, <2>3
<1>3. Retry(c) \in CallType
  <2>1. CASE c.status = "BUSY" /\ c.retry > 0
    <3>1. c.retry - 1 \in 0 .. RetryTimes
      BY <2>1 DEF CallType
    <3> QED BY <2>1, <3>1, Zenon DEF Retry, CallType
  <2>2. CASE ~(c.status = "BUSY" /\ c.retry > 0)
    BY <2>2, <1>1 DEF Retry, CallType
  <2> QED BY <2>1, <2>2
<1> QED BY <1>1, <1>2, <1>3

(* What an encoder puts on the wire is a message.                          *)
LEMMA EncryptType ==
    ASSUME NEW k \in DirectionKey, NEW B, NEW p \in B
    PROVE  Encrypt(k, p) \in MessageType(B)
BY DEF Encrypt, MessageType, DirectionKey

(* libspdm_send_request keeps the types and uses a fresh nonce, from any   *)
(* keys whose request key has not been used beyond its counter.            *)
LEMMA SendRequestFresh ==
    ASSUME IInv, NEW keys \in Keys, NEW c \in CallType, NEW p \in RequestType,
           NonceBefore(lastNonce["REQ"], keys["REQ"]),
           SendRequest(keys, c, p)
    PROVE  /\ reqState' \in SessionStates /\ reqKeys' \in Keys /\ call' \in CallType
           /\ toRsp' \in Seq(MessageType(RequestType))
           /\ lastNonce' \in [Directions -> NonceType] /\ faults' \in 0 .. MaxFaults
           /\ NonceBefore(lastNonce'["REQ"], reqKeys'["REQ"])
           /\ lastNonce'["RSP"] = lastNonce["RSP"]
<1> DEFINE k == keys["REQ"]
<1>1. k \in DirectionKey
  BY DEF Keys, Directions
<1>2. /\ reqState \in SessionStates /\ toRsp \in Seq(MessageType(RequestType))
      /\ lastNonce \in [Directions -> NonceType] /\ faults \in 0 .. MaxFaults
  BY DEF IInv, TypeOK
<1>3. CASE InLimit(k) /\ reqKeys' = [keys EXCEPT !["REQ"] = Advance(k)]
  <2>1. Advance(k) \in DirectionKey /\ NonceBefore([gen |-> k.gen, seq |-> k.seq], Advance(k))
    BY <1>1, <1>3, AdvanceType, AdvanceNonce
  <2>2. lastNonce' = [lastNonce EXCEPT !["REQ"] = [gen |-> k.gen, seq |-> k.seq]]
    BY <1>3 DEF SendRequest
  <2>3. reqKeys' \in Keys /\ reqKeys'["REQ"] = Advance(k)
    BY <1>3, <2>1 DEF Keys, Directions
  <2>4. [gen |-> k.gen, seq |-> k.seq] \in NonceType
    BY <1>1 DEF NonceType, DirectionKey
  <2>5. /\ lastNonce' \in [Directions -> NonceType]
        /\ lastNonce'["REQ"] = [gen |-> k.gen, seq |-> k.seq]
        /\ lastNonce'["RSP"] = lastNonce["RSP"]
    BY <1>2, <2>2, <2>4 DEF Directions
  <2>6. Encrypt(k, p) \in MessageType(RequestType)
    BY <1>1, EncryptType
  <2>7. toRsp' \in Seq(MessageType(RequestType))
    <3>1. toRsp' = Append(toRsp, Encrypt(k, p)) \/ toRsp' = toRsp
      BY <1>3 DEF SendRequest
    <3> QED BY <1>2, <2>6, <3>1
  <2>8. call' \in CallType
    <3>1. call' = [c EXCEPT !.sends = c.sends + 1] \/ call' = SendFailed(c)
      BY <1>3 DEF SendRequest
    <3>2. [c EXCEPT !.sends = c.sends + 1] \in CallType
      BY DEF CallType
    <3> QED BY <3>1, <3>2, CallSteps
  <2>9. faults' \in 0 .. MaxFaults /\ reqState' \in SessionStates
    BY <1>2, <1>3 DEF SendRequest, Fault
  <2> QED BY <2>1, <2>3, <2>5, <2>7, <2>8, <2>9
<1>4. CASE ~InLimit(k)
  <2>1. /\ reqState' = "OVERFLOW" /\ call' = SendFailed(c) /\ reqKeys' = keys
        /\ UNCHANGED <<lastNonce, toRsp, faults>>
    BY <1>4 DEF SendRequest
  <2> QED BY <1>2, <2>1, CallSteps DEF SessionStates
<1> QED BY <1>3, <1>4 DEF SendRequest

(* What a step of the Requester has to establish.                          *)
LEMMA RequesterFrame ==
    ASSUME IInv, UNCHANGED rspVars,
           reqState' \in SessionStates, reqKeys' \in Keys,
           reqLast' \in {"NONE", "UPDATE_KEY"}, call' \in CallType,
           toRsp' \in Seq(MessageType(RequestType)),
           toReq' \in Seq(MessageType(ResponseType)),
           lastNonce' \in [Directions -> NonceType], faults' \in 0 .. MaxFaults,
           NonceBefore(lastNonce'["REQ"], reqKeys'["REQ"]),
           lastNonce'["RSP"] = lastNonce["RSP"]
    PROVE  IInv'
<1>1. TypeOK'
  BY DEF IInv, TypeOK, rspVars, Keys
<1>2. NonceFresh'
  BY DEF IInv, NonceFresh, rspVars
<1> QED BY <1>1, <1>2 DEF IInv

(* The parts of the invariant the Requester's steps use.                   *)
LEMMA RequesterFacts ==
    ASSUME IInv
    PROVE  /\ reqState \in SessionStates /\ reqKeys \in Keys /\ call \in CallType
           /\ reqLast \in {"NONE", "UPDATE_KEY"}
           /\ toRsp \in Seq(MessageType(RequestType))
           /\ toReq \in Seq(MessageType(ResponseType))
           /\ lastNonce \in [Directions -> NonceType] /\ faults \in 0 .. MaxFaults
           /\ NonceBefore(lastNonce["REQ"], reqKeys["REQ"])
           /\ reqKeys["REQ"] \in DirectionKey /\ reqKeys["RSP"] \in DirectionKey
           /\ lastNonce["REQ"] \in [gen : Nat, seq : Nat]
BY DEF IInv, TypeOK, NonceFresh, Keys, Directions, NonceType

(* Starting a call.                                                        *)
LEMMA StartCallInv ==
    ASSUME IInv, NEW api \in Apis, StartCall(api)
    PROVE  IInv'
<1>1. call' \in CallType
  <2>1. [d \in Directions |-> reqKeys[d].gen] \in [Directions -> Nat]
    BY RequesterFacts DEF Keys, DirectionKey
  <2>2. call.late \in BOOLEAN
    BY RequesterFacts DEF CallType
  <2> QED BY <2>1, <2>2 DEF StartCall, CallType
<1> QED BY <1>1, RequesterFacts, RequesterFrame DEF StartCall

(* Sending a request from keys that are as fresh as the current ones.      *)
LEMMA TransmitInv ==
    ASSUME IInv, NEW keys \in Keys, NEW p \in RequestType, p.code \in Deferrable,
           NonceBefore(lastNonce["REQ"], keys["REQ"]), Transmit(keys, p),
           reqLast' \in {"NONE", "UPDATE_KEY"}, UNCHANGED <<rspVars, toReq>>
    PROVE  IInv'
<1>1. [call EXCEPT !.pc = "recv", !.sent = p] \in CallType
  BY RequesterFacts, Zenon DEF CallType
<1> QED BY <1>1, RequesterFacts, RequesterFrame, SendRequestFresh DEF Transmit

(* libspdm_try_key_update, up to its request.                              *)
LEMMA SendKeyUpdateInv ==
    ASSUME IInv, SendKeyUpdate
    PROVE  IInv'
<1>1. CASE \E tag \in Tags :
             Transmit(reqKeys, Payload("KEY_UPDATE", "VERIFY_NEW_KEY", tag))
  <2>1. PICK tag \in Tags : Transmit(reqKeys, Payload("KEY_UPDATE", "VERIFY_NEW_KEY", tag))
    BY <1>1
  <2>2. /\ Payload("KEY_UPDATE", "VERIFY_NEW_KEY", tag) \in RequestType
        /\ Payload("KEY_UPDATE", "VERIFY_NEW_KEY", tag).code \in Deferrable
    BY DEF Payload, RequestType, Whats, Deferrable
  <2> QED BY <2>1, <2>2, RequesterFacts, TransmitInv DEF SendKeyUpdate
<1>2. CASE /\ call.api \in Updates
           /\ \E tag \in Tags :
                Transmit(IF call.api = "UPDATE_KEY" THEN reqKeys
                         ELSE [reqKeys EXCEPT !["RSP"] = CreateUpdate(@)],
                         Payload("KEY_UPDATE", call.api, tag))
  <2> DEFINE keys == IF call.api = "UPDATE_KEY" THEN reqKeys
                     ELSE [reqKeys EXCEPT !["RSP"] = CreateUpdate(@)]
  <2>1. PICK tag \in Tags : Transmit(keys, Payload("KEY_UPDATE", call.api, tag))
    BY <1>2
  <2>2. /\ Payload("KEY_UPDATE", call.api, tag) \in RequestType
        /\ Payload("KEY_UPDATE", call.api, tag).code \in Deferrable
    BY <1>2, Zenon DEF Payload, RequestType, Whats, Deferrable
  <2>3. CreateUpdate(reqKeys["RSP"]) \in DirectionKey
    BY RequesterFacts, CreateUpdateType
  <2>4. keys \in Keys /\ keys["REQ"] = reqKeys["REQ"]
    BY <2>3, RequesterFacts DEF Keys, Directions
  <2> HIDE DEF keys
  <2> QED BY <2>1, <2>2, <2>4, RequesterFacts, TransmitInv DEF SendKeyUpdate
<1>3. CASE /\ call' = Return(call, "ERROR") /\ UNCHANGED <<reqState, reqKeys, toRsp, lastNonce>>
           /\ faults' \in 0 .. MaxFaults
  <2>1. call' \in CallType
    BY <1>3, RequesterFacts, CallSteps
  <2> QED BY <1>3, <2>1, RequesterFacts, RequesterFrame DEF SendKeyUpdate
<1>4. faults + 1 \in 0 .. MaxFaults \/ ~(faults < MaxFaults)
  BY RequesterFacts
<1> QED BY <1>1, <1>2, <1>3, <1>4, RequesterFacts, Zenon DEF SendKeyUpdate, Fault

(* HEARTBEAT, END_SESSION and GET_ENCAPSULATED_REQUEST.                    *)
LEMMA SendPlainInv ==
    ASSUME IInv, SendPlain
    PROVE  IInv'
<1> DEFINE p == Plain(IF call.api = "ENCAP" THEN "GET_ENCAPSULATED_REQUEST" ELSE call.api)
<1>1. p \in RequestType /\ p.code \in Deferrable
  BY DEF SendPlain, Plain, Payload, RequestType, Whats, Deferrable
<1>2. Transmit(reqKeys, p)
  BY DEF SendPlain
<1> HIDE DEF p
<1> QED BY <1>1, <1>2, RequesterFacts, TransmitInv DEF SendPlain

(* A caller's view of an answer is one of the three statuses.              *)
LEMMA StatusOfType ==
    ASSUME NEW b
    PROVE  StatusOf(b) \in {"SUCCESS", "BUSY", "ERROR"}
BY DEF StatusOf

(* libspdm_receive_response and the error handling.                        *)
LEMMA ReceiveResponseInv ==
    ASSUME IInv, ReceiveResponse
    PROVE  IInv'
<1> DEFINE m == Head(toReq)
           d == DecodeWithRollback(reqKeys["RSP"], m)
           keys == [reqKeys EXCEPT !["RSP"] = d.key]
           b == m.body
<1>1. m \in MessageType(ResponseType) /\ toReq' \in Seq(MessageType(ResponseType))
  BY RequesterFacts DEF ReceiveResponse
<1>2. b \in ResponseType
  BY <1>1 DEF MessageType
<1>3. d.key \in DirectionKey
  BY RequesterFacts, DecodeWithRollbackType
<1>4. keys \in Keys /\ keys["REQ"] = reqKeys["REQ"]
  BY <1>3, RequesterFacts DEF Keys, Directions
<1>5. CASE /\ reqState' = "DECRYPT_ERROR" /\ reqKeys' = keys
           /\ call' = [call EXCEPT !.pc = "got", !.status = "ERROR"]
           /\ UNCHANGED <<toRsp, lastNonce, faults>>
  <2>1. call' \in CallType
    BY <1>5, RequesterFacts, Zenon DEF CallType
  <2> QED
    BY <1>1, <1>4, <1>5, <2>1, RequesterFacts, RequesterFrame DEF ReceiveResponse, SessionStates
<1>6. CASE SendRequest(keys, [call EXCEPT !.pc = "rir"],
                       Payload("RESPOND_IF_READY", b.what, b.num))
  <2>1. [call EXCEPT !.pc = "rir"] \in CallType
    BY RequesterFacts, Zenon DEF CallType
  <2>2. Payload("RESPOND_IF_READY", b.what, b.num) \in RequestType
    BY <1>2 DEF Payload, RequestType, ResponseType
  <2> HIDE DEF m, d, keys, b
  <2> QED
    BY <1>1, <1>4, <1>6, <2>1, <2>2, RequesterFacts, RequesterFrame, SendRequestFresh
       DEF ReceiveResponse
<1>7. CASE /\ reqState' \in {"DECRYPT_ERROR", reqState} /\ reqKeys' = keys
           /\ call' = [call EXCEPT !.pc = "got", !.status = StatusOf(b),
                                   !.answer = IF call.pc = "recv" THEN b ELSE NoRequest]
           /\ UNCHANGED <<toRsp, lastNonce, faults>>
  <2>1. call' \in CallType
    BY <1>2, <1>7, RequesterFacts, StatusOfType, ZenonT(40) DEF CallType
  <2> QED
    BY <1>1, <1>4, <1>7, <2>1, RequesterFacts, RequesterFrame DEF ReceiveResponse, SessionStates
<1> QED BY <1>5, <1>6, <1>7 DEF ReceiveResponse

(* A receive that times out.                                               *)
LEMMA TimeoutInv ==
    ASSUME IInv, Timeout
    PROVE  IInv'
<1>1. call' \in CallType
  BY RequesterFacts, ZenonT(40) DEF Timeout, CallType
<1>2. faults' \in 0 .. MaxFaults
  BY RequesterFacts DEF Timeout, Fault
<1> QED BY <1>1, <1>2, RequesterFacts, RequesterFrame DEF Timeout

(* libspdm_try_key_update, after the answer: a committed update starts a   *)
(* new key, whose nonces come after those of the old one.                  *)
LEMMA FinishUpdateInv ==
    ASSUME IInv, FinishUpdate
    PROVE  IInv'
<1> DEFINE ok == call.status = "SUCCESS"
           rsp == IF call.api = "UPDATE_KEY" THEN reqKeys["RSP"]
                  ELSE ActivateUpdate(reqKeys["RSP"], ok)
           req == IF ok THEN ActivateUpdate(CreateUpdate(reqKeys["REQ"]), TRUE)
                  ELSE reqKeys["REQ"]
<1>1. rsp \in DirectionKey
  BY RequesterFacts, ActivateUpdateType, Zenon
<1>2. req \in DirectionKey
  BY RequesterFacts, CreateUpdateType, ActivateUpdateType, Zenon
<1>3. NonceBefore(lastNonce["REQ"], req)
  BY RequesterFacts, CommitNonce, Zenon
<1>4. reqKeys' = [REQ |-> req, RSP |-> rsp]
  BY DEF FinishUpdate
<1>5. reqKeys' \in Keys /\ reqKeys'["REQ"] = req
  <2> HIDE DEF req, rsp
  <2> QED BY <1>1, <1>2, <1>4 DEF Keys, Directions
<1>6. call' \in CallType
  <2>1. [call EXCEPT !.pc = "send", !.updated = TRUE] \in CallType
    <3>1. [call EXCEPT !.pc = "send"] \in CallType
      BY RequesterFacts, Zenon DEF CallType
    <3> QED BY <3>1, RequesterFacts, Zenon DEF CallType
  <2> QED BY <2>1, RequesterFacts, CallSteps DEF FinishUpdate
<1> HIDE DEF req, rsp
<1> QED BY <1>3, <1>5, <1>6, RequesterFacts, RequesterFrame, Zenon DEF FinishUpdate

(* The end of the other exchanges.                                         *)
LEMMA FinishPlainInv ==
    ASSUME IInv, FinishPlain
    PROVE  IInv'
<1>1. call' \in CallType
  BY RequesterFacts, CallSteps DEF FinishPlain
<1> QED
  BY <1>1, RequesterFacts, RequesterFrame DEF FinishPlain, SessionStates

(* The encapsulated flow.                                                  *)
LEMMA FinishEncapInv ==
    ASSUME IInv, FinishEncap
    PROVE  IInv'
<1>1. CASE call.answer.what \in {"UPDATE_KEY", "VERIFY_NEW_KEY"} /\ DeliverKeyUpdateAck
  <2> DEFINE op == call.answer.what
             ok == IF op = "UPDATE_KEY" THEN reqLast = "NONE" ELSE reqLast = "UPDATE_KEY"
             rsp == IF ~ok THEN reqKeys["RSP"]
                    ELSE IF op = "UPDATE_KEY" THEN CreateUpdate(reqKeys["RSP"])
                    ELSE ActivateUpdate(reqKeys["RSP"], TRUE)
             keys == [reqKeys EXCEPT !["RSP"] = rsp]
             p == Payload("DELIVER_ENCAPSULATED_RESPONSE", IF ok THEN op ELSE "ERROR", 0)
  <2>1. rsp \in DirectionKey
    BY RequesterFacts, CreateUpdateType, ActivateUpdateType, Zenon
  <2>2. keys \in Keys /\ keys["REQ"] = reqKeys["REQ"]
    <3> HIDE DEF rsp
    <3> QED BY <2>1, RequesterFacts DEF Keys, Directions
  <2>3. p \in RequestType /\ p.code \in Deferrable
    BY <1>1 DEF Payload, RequestType, Whats, Deferrable, Updates
  <2>4. reqLast' \in {"NONE", "UPDATE_KEY"} /\ Transmit(keys, p)
    BY <1>1, RequesterFacts DEF DeliverKeyUpdateAck
  <2> HIDE DEF keys, p
  <2> QED BY <2>2, <2>3, <2>4, RequesterFacts, TransmitInv DEF FinishEncap
<1>2. CASE /\ call' = Return(call, call.status)
           /\ UNCHANGED <<reqState, reqKeys, reqLast, toRsp, lastNonce, faults>>
  <2>1. call' \in CallType
    <3>1. call.status \in {"-", "SUCCESS", "BUSY", "ERROR"}
      BY RequesterFacts DEF CallType
    <3> QED BY <1>2, <3>1, RequesterFacts, CallSteps
  <2> QED BY <1>2, <2>1, RequesterFacts, RequesterFrame DEF FinishEncap
<1> QED BY <1>1, <1>2 DEF FinishEncap

-----------------------------------------------------------------------------
(* The Responder's side.                                                   *)

(* A handler keeps the context well formed and the response key fresh.     *)
Sound(r, n) == r \in ReplyType /\ NonceBefore(n, r.c.keys["RSP"])

(* Committing a new key keeps it well formed and fresh.                    *)
LEMMA CommitSound ==
    ASSUME NEW k \in DirectionKey, NEW n \in [gen : Nat, seq : Nat], NonceBefore(n, k)
    PROVE  Commit(k) \in DirectionKey /\ NonceBefore(n, Commit(k))
BY CreateUpdateType, ActivateUpdateType, CommitNonce, Zenon DEF Commit

(* An error answer leaves the context alone.                               *)
LEMMA ErrorSound ==
    ASSUME NEW c \in ContextType, NEW n, NonceBefore(n, c.keys["RSP"]),
           NEW s \in ResponseCodes
    PROVE  Sound(Reply(c, Plain(s)), n)
BY PlainType DEF Sound, Reply, ReplyType

(* libspdm_get_response_key_update.                                        *)
LEMMA KeyUpdateSound ==
    ASSUME NEW c \in ContextType, NEW n \in [gen : Nat, seq : Nat],
           NonceBefore(n, c.keys["RSP"]), NEW p \in RequestType
    PROVE  Sound(GetResponseKeyUpdate(c, p), n)
<1> DEFINE ack == Payload("KEY_UPDATE_ACK", p.what, p.num)
           req == c.keys["REQ"]
           rsp == c.keys["RSP"]
<1>1. ack \in ResponseType
  BY DEF Payload, RequestType, ResponseType, ResponseCodes
<1>2. req \in DirectionKey /\ rsp \in DirectionKey /\ c.keys \in Keys
  BY DEF ContextType, Keys, Directions
<1>3. CASE p.what \in Updates /\ c.last = "NONE"
  <2> DEFINE new == IF p.what = "UPDATE_KEY" THEN rsp ELSE Commit(rsp)
             keys == [REQ |-> CreateUpdate(req), RSP |-> new]
             c2 == [c EXCEPT !.last = p.what, !.keys = keys]
  <2>1. GetResponseKeyUpdate(c, p) = Reply(c2, ack)
    BY <1>3 DEF GetResponseKeyUpdate, Updates
  <2>2. new \in DirectionKey /\ NonceBefore(n, new) /\ CreateUpdate(req) \in DirectionKey
    BY <1>2, CommitSound, CreateUpdateType
  <2>3. keys \in Keys /\ keys["RSP"] = new
    <3> HIDE DEF new
    <3> QED BY <2>2 DEF Keys, Directions
  <2>4. c2 \in ContextType /\ c2.keys = keys
    <3> HIDE DEF keys
    <3> QED BY <1>3, <2>3, Zenon DEF ContextType
  <2> HIDE DEF c2, ack, keys, new
  <2> QED BY <1>1, <2>1, <2>2, <2>3, <2>4 DEF Sound, Reply, ReplyType
<1>4. CASE p.what = "VERIFY_NEW_KEY" /\ c.last # "NONE"
  <2> DEFINE new == ActivateUpdate(req, TRUE)
             c2 == [c EXCEPT !.last = "NONE", !.keys["REQ"] = new]
  <2>1. GetResponseKeyUpdate(c, p) = Reply(c2, ack)
    BY <1>4 DEF GetResponseKeyUpdate, Updates
  <2>2. new \in DirectionKey
    BY <1>2, ActivateUpdateType, Zenon
  <2>3. c2 \in ContextType /\ c2.keys["RSP"] = rsp
    <3> HIDE DEF new
    <3> QED BY <1>2, <2>2, Zenon DEF ContextType, Keys, Directions
  <2> HIDE DEF c2, ack
  <2> QED BY <1>1, <2>1, <2>3 DEF Sound, Reply, ReplyType
<1>5. CASE ~(p.what \in Updates /\ c.last = "NONE") /\ ~(p.what = "VERIFY_NEW_KEY" /\ c.last # "NONE")
  <2>1. GetResponseKeyUpdate(c, p) = Reply(c, Plain("INVALID_REQUEST"))
    BY <1>5 DEF GetResponseKeyUpdate
  <2> QED BY <2>1, ErrorSound DEF ResponseCodes, ErrorCodes
<1> QED BY <1>3, <1>4, <1>5

(* libspdm_get_response_encapsulated_request.                              *)
LEMMA EncapsulatedRequestSound ==
    ASSUME NEW c \in ContextType, NEW n, NonceBefore(n, c.keys["RSP"]),
           NEW wants \in BOOLEAN
    PROVE  Sound(GetResponseEncapsulatedRequest(c, wants), n)
<1>1. CASE wants
  <2> DEFINE e == [flow |-> TRUE, last |-> "UPDATE_KEY"]
             c2 == [c EXCEPT !.encap = e]
             p == Payload("ENCAPSULATED_REQUEST", "UPDATE_KEY", 0)
  <2>1. e \in EncapType /\ p \in ResponseType
    BY DEF EncapType, Payload, ResponseType, ResponseCodes, Whats, Updates
  <2>2. c2 \in ContextType /\ c2.keys = c.keys
    <3> HIDE DEF e
    <3> QED BY <2>1 DEF ContextType
  <2>3. GetResponseEncapsulatedRequest(c, wants) = Reply(c2, p)
    BY <1>1 DEF GetResponseEncapsulatedRequest
  <2> HIDE DEF c2, p
  <2> QED BY <2>1, <2>2, <2>3 DEF Sound, Reply, ReplyType
<1>2. CASE ~wants
  <2> DEFINE e == [flow |-> FALSE, last |-> IF c.encap.flow THEN c.encap.last ELSE "NONE"]
             c2 == [c EXCEPT !.encap = e]
  <2>1. e \in EncapType
    BY DEF EncapType, ContextType
  <2>2. c2 \in ContextType /\ c2.keys = c.keys
    <3> HIDE DEF e
    <3> QED BY <2>1 DEF ContextType
  <2>3. GetResponseEncapsulatedRequest(c, wants) = Reply(c2, Plain("NO_PENDING_REQUESTS"))
    BY <1>2 DEF GetResponseEncapsulatedRequest
  <2> HIDE DEF c2
  <2> QED BY <2>2, <2>3, ErrorSound DEF ResponseCodes, ErrorCodes
<1> QED BY <1>1, <1>2

(* libspdm_get_response_encapsulated_response_ack.                         *)
LEMMA EncapsulatedResponseAckSound ==
    ASSUME NEW c \in ContextType, NEW n \in [gen : Nat, seq : Nat],
           NonceBefore(n, c.keys["RSP"]), NEW p \in RequestType
    PROVE  Sound(GetResponseEncapsulatedResponseAck(c, p), n)
<1> DEFINE over == [c.encap EXCEPT !.flow = FALSE]
           c2 == [c EXCEPT !.encap = over]
           result == GetResponseEncapsulatedResponseAck(c, p)
           rsp == c.keys["RSP"]
           c3 == [c EXCEPT !.encap.last = "VERIFY_NEW_KEY", !.keys["RSP"] = Commit(rsp)]
           next == Payload("ENCAPSULATED_RESPONSE_ACK", "VERIFY_NEW_KEY", 0)
<1>1. c2 \in ContextType /\ c2.keys = c.keys
  <2>1. over \in EncapType
    BY Zenon DEF ContextType, EncapType
  <2> HIDE DEF over
  <2> QED BY <2>1 DEF ContextType
<1>2. c3 \in ContextType /\ NonceBefore(n, c3.keys["RSP"])
  <2>1. rsp \in DirectionKey
    BY DEF ContextType, Keys, Directions
  <2>2. Commit(rsp) \in DirectionKey /\ NonceBefore(n, Commit(rsp))
    BY <2>1, CommitSound
  <2>3. [c.keys EXCEPT !["RSP"] = Commit(rsp)] \in Keys
    BY <2>2 DEF ContextType, Keys, Directions
  <2>4. [c.encap EXCEPT !.last = "VERIFY_NEW_KEY"] \in EncapType
    BY DEF ContextType, EncapType
  <2>5. c3.keys["RSP"] = Commit(rsp)
    BY DEF ContextType, Keys, Directions
  <2>6. c3 \in ContextType
    BY <2>3, <2>4, Zenon DEF ContextType
  <2> QED BY <2>2, <2>5, <2>6
<1>3. next \in ResponseType
  BY DEF Payload, ResponseType, ResponseCodes, Whats
<1>4. \/ result = Reply(c, Plain("UNEXPECTED_REQUEST"))
      \/ result = Reply(c3, next)
      \/ result = Reply(c2, Plain("ENCAPSULATED_RESPONSE_ACK"))
      \/ result = Reply(c2, Plain("INVALID_RESPONSE_CODE"))
  BY DEF GetResponseEncapsulatedResponseAck
<1> HIDE DEF c2, c3, next, result
<1>5. Sound(Reply(c3, next), n)
  BY <1>2, <1>3 DEF Sound, Reply, ReplyType
<1>6. \A s \in ResponseCodes : Sound(Reply(c, Plain(s)), n) /\ Sound(Reply(c2, Plain(s)), n)
  BY <1>1, ErrorSound
<1>7. {"UNEXPECTED_REQUEST", "ENCAPSULATED_RESPONSE_ACK", "INVALID_RESPONSE_CODE"}
        \subseteq ResponseCodes
  BY DEF ResponseCodes, ErrorCodes
<1>8. Sound(result, n)
  BY <1>4, <1>5, <1>6, <1>7
<1> QED BY <1>8 DEF result

(* The handler of a request that is not RESPOND_IF_READY.                  *)
LEMMA HandleSound ==
    ASSUME NEW c \in ContextType, NEW n \in [gen : Nat, seq : Nat],
           NonceBefore(n, c.keys["RSP"]), NEW p \in RequestType,
           p.code \in Deferrable, NEW wants \in BOOLEAN
    PROVE  Sound(Handle(c, p, wants), n)
<1>1. CASE p.code = "KEY_UPDATE"
  BY <1>1, KeyUpdateSound DEF Handle
<1>2. CASE p.code = "GET_ENCAPSULATED_REQUEST"
  BY <1>2, EncapsulatedRequestSound DEF Handle
<1>3. CASE p.code = "DELIVER_ENCAPSULATED_RESPONSE"
  BY <1>3, EncapsulatedResponseAckSound DEF Handle
<1>4. CASE p.code \in {"HEARTBEAT", "END_SESSION"}
  <2>1. ResponseCode[p.code] \in ResponseCodes
    BY <1>4 DEF ResponseCode, ResponseCodes
  <2>2. Handle(c, p, wants) = Reply(c, Plain(ResponseCode[p.code]))
    BY <1>4 DEF Handle
  <2> QED BY <2>1, <2>2, ErrorSound
<1> QED BY <1>1, <1>2, <1>3, <1>4 DEF Deferrable

(* Forgetting the deferred request keeps the context well formed.          *)
LEMMA ForgetSound ==
    ASSUME NEW r, NEW n, Sound(r, n)
    PROVE  Sound([r EXCEPT !.c.deferred.request = NoRequest], n)
<1> DEFINE d == [r.c.deferred EXCEPT !.request = NoRequest]
           c2 == [r.c EXCEPT !.deferred = d]
           r2 == [r EXCEPT !.c = c2]
<1>1. r \in ReplyType /\ r.c \in ContextType /\ r.c.deferred \in DeferredType
  BY DEF Sound, ReplyType, ContextType
<1>2. d \in DeferredType
  BY <1>1 DEF DeferredType
<1>3. c2 \in ContextType /\ c2.keys = r.c.keys
  <2> HIDE DEF d
  <2> QED BY <1>1, <1>2 DEF ContextType
<1>4. r2 \in ReplyType /\ r2.c = c2
  <2> HIDE DEF c2
  <2> QED BY <1>1, <1>3 DEF ReplyType
<1>5. [r EXCEPT !.c.deferred.request = NoRequest] = r2
  OBVIOUS
<1>6. Sound(r2, n)
  <2> HIDE DEF c2, r2
  <2> QED BY <1>3, <1>4 DEF Sound
<1> QED BY <1>5, <1>6

(* libspdm_get_response_respond_if_ready.                                  *)
LEMMA RespondIfReadySound ==
    ASSUME NEW c \in ContextType, NEW n \in [gen : Nat, seq : Nat],
           NonceBefore(n, c.keys["RSP"]), NEW p \in RequestType, NEW wants \in BOOLEAN
    PROVE  Sound(GetResponseRespondIfReady(c, p, wants), n)
<1> DEFINE d == c.deferred
           h == Handle(c, d.request, wants)
           result == GetResponseRespondIfReady(c, p, wants)
<1>1. \/ result = Reply(c, Plain("UNEXPECTED_REQUEST"))
      \/ result = Reply(c, Plain("INVALID_REQUEST"))
      \/ d.request # NoRequest /\ result = [h EXCEPT !.c.deferred.request = NoRequest]
  BY DEF GetResponseRespondIfReady
<1>2. CASE result = Reply(c, Plain("UNEXPECTED_REQUEST"))
  BY <1>2, ErrorSound DEF ResponseCodes, ErrorCodes
<1>3. CASE result = Reply(c, Plain("INVALID_REQUEST"))
  BY <1>3, ErrorSound DEF ResponseCodes, ErrorCodes
<1>4. CASE d.request # NoRequest /\ result = [h EXCEPT !.c.deferred.request = NoRequest]
  <2>1. d.request \in RequestType /\ d.request.code \in Deferrable
    BY <1>4 DEF ContextType, DeferredType
  <2>2. Sound(h, n)
    BY <2>1, HandleSound
  <2> HIDE DEF h, result
  <2>3. Sound(result, n)
    BY <1>4, <2>2, ForgetSound
  <2> QED BY <2>3 DEF result
<1> QED BY <1>1, <1>2, <1>3, <1>4

(* libspdm_responder_handle_response_state.                                *)
LEMMA ResponseStateSound ==
    ASSUME NEW c \in ContextType, NEW n, NonceBefore(n, c.keys["RSP"]),
           NEW p \in RequestType, NEW state
    PROVE  Sound(HandleResponseState(c, p, state), n)
<1> DEFINE d == IF p.code = "RESPOND_IF_READY" THEN c.deferred
                ELSE [request |-> p, code |-> p.code, token |-> c.token]
           next == IF p.code = "RESPOND_IF_READY" THEN c.token
                   ELSE (c.token + 1) % TokenCount
           c2 == [c EXCEPT !.deferred = d, !.token = next]
           q == Payload("RESPONSE_NOT_READY", d.code, d.token)
<1>1. d \in DeferredType
  BY DEF ContextType, DeferredType, RequestType
<1>2. next \in 0 .. TokenCount - 1
  BY DEF ContextType
<1>3. q \in ResponseType
  <2> HIDE DEF d
  <2> QED BY <1>1 DEF DeferredType, Payload, ResponseType, ResponseCodes, ErrorCodes, Whats
<1>4. c2 \in ContextType /\ c2.keys = c.keys
  <2> HIDE DEF d, next
  <2> QED BY <1>1, <1>2, Zenon DEF ContextType
<1>5. \/ HandleResponseState(c, p, state) = Reply(c, Plain("BUSY"))
      \/ HandleResponseState(c, p, state) = Reply(c2, q)
  BY DEF HandleResponseState
<1>6. Sound(Reply(c, Plain("BUSY")), n)
  BY ErrorSound DEF ResponseCodes, ErrorCodes
<1>7. Sound(Reply(c2, q), n)
  <2> HIDE DEF c2, q
  <2> QED BY <1>3, <1>4 DEF Sound, Reply, ReplyType
<1> QED BY <1>5, <1>6, <1>7

(* The dispatch of a decrypted request.                                    *)
LEMMA DispatchSound ==
    ASSUME NEW c \in ContextType, NEW n \in [gen : Nat, seq : Nat],
           NonceBefore(n, c.keys["RSP"]), NEW p \in RequestType,
           NEW state, NEW wants \in BOOLEAN
    PROVE  Sound(Dispatch(c, p, state, wants), n)
<1>1. \/ Dispatch(c, p, state, wants) = Reply(c, Plain("REQUEST_IN_FLIGHT"))
      \/ Dispatch(c, p, state, wants) = HandleResponseState(c, p, state)
      \/ Dispatch(c, p, state, wants) = GetResponseRespondIfReady(c, p, wants)
      \/ /\ p.code # "RESPOND_IF_READY"
         /\ Dispatch(c, p, state, wants) = Handle(c, p, wants)
  BY DEF Dispatch
<1>2. Sound(Reply(c, Plain("REQUEST_IN_FLIGHT")), n)
  BY ErrorSound DEF ResponseCodes, ErrorCodes
<1>3. p.code # "RESPOND_IF_READY" => p.code \in Deferrable
  BY DEF RequestType
<1> QED
  BY <1>1, <1>2, <1>3, ResponseStateSound, RespondIfReadySound, HandleSound

(* The end of libspdm_build_response.                                      *)
LEMMA SendResponseInv ==
    ASSUME IInv, NEW r, Sound(r, lastNonce["RSP"]), NEW after \in SessionStates,
           SendResponse(r, after), UNCHANGED reqVars,
           toRsp' \in Seq(MessageType(RequestType)), faults' \in 0 .. MaxFaults
    PROVE  IInv'
<1> DEFINE k == r.c.keys["RSP"]
           nonce == [gen |-> k.gen, seq |-> k.seq]
<1>1. /\ r.c \in ContextType /\ r.reply \in ResponseType /\ r.c.keys \in Keys
      /\ NonceBefore(lastNonce["RSP"], k)
  BY DEF Sound, ReplyType, ContextType
<1>2. k \in DirectionKey
  BY <1>1 DEF Keys, Directions
<1>3. /\ rspLast' \in Updates \cup {"NONE"} /\ deferred' \in DeferredType
      /\ token' \in 0 .. TokenCount - 1 /\ encap' \in EncapType
  BY <1>1 DEF SendResponse, ContextType
<1>4. /\ rspKeys' \in Keys /\ rspState' \in SessionStates
      /\ toReq' \in Seq(MessageType(ResponseType))
      /\ lastNonce' \in [Directions -> NonceType]
      /\ NonceBefore(lastNonce'["RSP"], rspKeys'["RSP"])
      /\ lastNonce'["REQ"] = lastNonce["REQ"]
  <2>1. CASE InLimit(k)
    <3>1. /\ rspKeys' = [r.c.keys EXCEPT !["RSP"] = Advance(k)]
          /\ lastNonce' = [lastNonce EXCEPT !["RSP"] = nonce]
          /\ toReq' = Append(toReq, Encrypt(k, r.reply)) /\ rspState' = after
      BY <2>1 DEF SendResponse
    <3>2. Advance(k) \in DirectionKey /\ NonceBefore(nonce, Advance(k))
      BY <1>2, <2>1, AdvanceType, AdvanceNonce
    <3>3. nonce \in NonceType
      BY <1>2 DEF NonceType, DirectionKey
    <3>4. Encrypt(k, r.reply) \in MessageType(ResponseType)
      BY <1>1, <1>2, EncryptType
    <3> HIDE DEF k, nonce
    <3>5. rspKeys' \in Keys /\ rspKeys'["RSP"] = Advance(k)
      BY <1>1, <3>1, <3>2 DEF Keys, Directions
    <3>6. /\ lastNonce' \in [Directions -> NonceType]
          /\ lastNonce'["RSP"] = nonce /\ lastNonce'["REQ"] = lastNonce["REQ"]
      BY <3>1, <3>3, RequesterFacts DEF Directions
    <3>7. toReq' \in Seq(MessageType(ResponseType))
      BY <3>1, <3>4, RequesterFacts
    <3> QED BY <3>1, <3>2, <3>5, <3>6, <3>7
  <2>2. CASE ~InLimit(k)
    BY <1>1, <2>2, RequesterFacts DEF SendResponse, SessionStates
  <2> QED BY <2>1, <2>2
<1>5. TypeOK'
  BY <1>3, <1>4 DEF IInv, TypeOK, reqVars, Keys
<1>6. NonceFresh'
  BY <1>4 DEF IInv, NonceFresh, reqVars
<1> QED BY <1>5, <1>6 DEF IInv

(* The context a request meets, once it was decoded.                       *)
LEMMA ContextSound ==
    ASSUME IInv, toRsp # <<>>
    PROVE  LET d == DecodeWithRollback(rspKeys["REQ"], Head(toRsp))
               c == Context([rspKeys EXCEPT !["REQ"] = d.key])
           IN  /\ c \in ContextType
               /\ NonceBefore(lastNonce["RSP"], c.keys["RSP"])
               /\ lastNonce["RSP"] \in [gen : Nat, seq : Nat]
               /\ Head(toRsp).body \in RequestType
               /\ Tail(toRsp) \in Seq(MessageType(RequestType))
               /\ c.keys \in Keys /\ c.keys["RSP"] = rspKeys["RSP"]
               /\ c.encap = encap /\ c.encap \in EncapType
<1> DEFINE d == DecodeWithRollback(rspKeys["REQ"], Head(toRsp))
           keys == [rspKeys EXCEPT !["REQ"] = d.key]
           c == Context(keys)
<1>1. rspKeys \in Keys /\ NonceBefore(lastNonce["RSP"], rspKeys["RSP"])
  BY DEF IInv, TypeOK, NonceFresh, Keys
<1>2. d.key \in DirectionKey
  BY <1>1, DecodeWithRollbackType DEF Keys, Directions
<1>3. keys \in Keys /\ keys["RSP"] = rspKeys["RSP"]
  <2> HIDE DEF d
  <2> QED BY <1>1, <1>2 DEF Keys, Directions
<1>4. c \in ContextType /\ c.keys = keys /\ c.encap = encap /\ c.encap \in EncapType
  <2> HIDE DEF keys
  <2> QED BY <1>3 DEF Context, ContextType, IInv, TypeOK
<1>5. lastNonce["RSP"] \in [gen : Nat, seq : Nat]
  BY DEF IInv, TypeOK, NonceType, Directions
<1>6. Head(toRsp) \in MessageType(RequestType) /\ Tail(toRsp) \in Seq(MessageType(RequestType))
  BY DEF IInv, TypeOK
<1>7. Head(toRsp).body \in RequestType
  BY <1>6 DEF MessageType
<1> HIDE DEF c, keys, d
<1>8. /\ c \in ContextType /\ NonceBefore(lastNonce["RSP"], c.keys["RSP"])
      /\ c.keys \in Keys /\ c.keys["RSP"] = rspKeys["RSP"]
      /\ c.encap = encap /\ c.encap \in EncapType
  BY <1>1, <1>3, <1>4
<1> QED BY <1>5, <1>6, <1>7, <1>8 DEF c, keys, d

(* libspdm_process_request and libspdm_build_response.                     *)
LEMMA RespondInv ==
    ASSUME IInv, Respond
    PROVE  IInv'
<1> DEFINE p == Head(toRsp).body
           d == DecodeWithRollback(rspKeys["REQ"], Head(toRsp))
           c == Context([rspKeys EXCEPT !["REQ"] = d.key])
<1>1. /\ c \in ContextType /\ NonceBefore(lastNonce["RSP"], c.keys["RSP"])
      /\ lastNonce["RSP"] \in [gen : Nat, seq : Nat] /\ p \in RequestType
      /\ toRsp' \in Seq(MessageType(RequestType))
      /\ c.keys \in Keys /\ c.keys["RSP"] = rspKeys["RSP"]
  BY ContextSound DEF Respond
<1>2. faults' \in 0 .. MaxFaults /\ UNCHANGED reqVars
  BY DEF Respond, IInv, TypeOK
<1>3. CASE \E state \in ResponseStates, wants \in BOOLEAN :
             LET r == Dispatch(c, p, state, wants)
             IN  SendResponse(r, IF r.reply.code = "END_SESSION_ACK"
                                 THEN "ENDED" ELSE "ESTABLISHED")
  <2>1. PICK state \in ResponseStates, wants \in BOOLEAN :
             LET r == Dispatch(c, p, state, wants)
             IN  SendResponse(r, IF r.reply.code = "END_SESSION_ACK"
                                 THEN "ENDED" ELSE "ESTABLISHED")
    BY <1>3, Zenon
  <2> DEFINE r == Dispatch(c, p, state, wants)
             after == IF r.reply.code = "END_SESSION_ACK" THEN "ENDED" ELSE "ESTABLISHED"
  <2>2. Sound(r, lastNonce["RSP"])
    <3> HIDE DEF c, p, d
    <3> QED BY <1>1, DispatchSound
  <2>3. SendResponse(r, after)
    BY <2>1
  <2>4. after \in SessionStates
    BY DEF SessionStates
  <2> HIDE DEF r, after
  <2> QED BY <1>1, <1>2, <2>2, <2>3, <2>4, SendResponseInv
<1>4. CASE SendResponse(Reply(c, Plain("DECRYPT_ERROR")), "DECRYPT_ERROR")
  <2> HIDE DEF c
  <2>1. Sound(Reply(c, Plain("DECRYPT_ERROR")), lastNonce["RSP"])
    BY <1>1, ErrorSound DEF ResponseCodes, ErrorCodes
  <2>2. "DECRYPT_ERROR" \in SessionStates
    BY DEF SessionStates
  <2> QED BY <1>1, <1>2, <1>4, <2>1, <2>2, SendResponseInv
<1>5. CASE /\ rspState' = "DECRYPT_ERROR" /\ rspKeys' = c.keys
           /\ UNCHANGED <<rspLast, deferred, token, encap, toReq, lastNonce>>
  <2> HIDE DEF c
  <2>1. TypeOK'
    BY <1>1, <1>2, <1>5 DEF IInv, TypeOK, reqVars, Keys, SessionStates
  <2>2. NonceFresh'
    BY <1>1, <1>2, <1>5 DEF IInv, NonceFresh, reqVars
  <2> QED BY <2>1, <2>2 DEF IInv
<1> QED BY <1>3, <1>4, <1>5, ZenonT(40) DEF Respond

(* The encapsulated VERIFY_NEW_KEY without a random number.                *)
LEMMA RespondLowEntropyInv ==
    ASSUME IInv, RespondLowEntropy
    PROVE  IInv'
<1> DEFINE d == DecodeWithRollback(rspKeys["REQ"], Head(toRsp))
           c == Context([rspKeys EXCEPT !["REQ"] = d.key])
           e == [c.encap EXCEPT !.flow = FALSE]
           c2 == [c EXCEPT !.encap = e]
<1>1. /\ c \in ContextType /\ NonceBefore(lastNonce["RSP"], c.keys["RSP"])
      /\ toRsp' \in Seq(MessageType(RequestType)) /\ c.encap \in EncapType
  BY ContextSound DEF RespondLowEntropy
<1>2. faults' \in 0 .. MaxFaults /\ UNCHANGED reqVars
  <2>1. Fault("ENTROPY") /\ UNCHANGED reqVars
    BY Zenon DEF RespondLowEntropy
  <2>2. faults \in 0 .. MaxFaults
    BY DEF IInv, TypeOK
  <2> QED BY <2>1, <2>2, KeyUpdateAssumption DEF Fault
<1>3. SendResponse(Reply(c2, Plain("UNSPECIFIED")), "ESTABLISHED")
  BY DEF RespondLowEntropy
<1>4. e \in EncapType
  <2> HIDE DEF c
  <2> QED BY <1>1, ZenonT(40) DEF EncapType
<1>5. c2 \in ContextType /\ c2.keys = c.keys
  <2> HIDE DEF c, e
  <2> QED BY <1>1, <1>4 DEF ContextType
<1>6. Sound(Reply(c2, Plain("UNSPECIFIED")), lastNonce["RSP"])
  <2> HIDE DEF c2
  <2> QED BY <1>1, <1>5, ErrorSound DEF ResponseCodes, ErrorCodes
<1>7. "ESTABLISHED" \in SessionStates
  BY DEF SessionStates
<1> HIDE DEF c2
<1> QED BY <1>1, <1>2, <1>3, <1>6, <1>7, SendResponseInv

-----------------------------------------------------------------------------
(* The invariant holds at first: data keys start at their first nonce.     *)
LEMMA InitInv == Init => IInv
<1> SUFFICES ASSUME Init PROVE IInv
  OBVIOUS
<1>1. FirstDataKey \in DirectionKey
  BY DEF FirstDataKey, DirectionKey
<1>2. call \in CallType
  BY DEF Init, CallType, Directions
<1>3. deferred \in DeferredType /\ encap \in EncapType
  BY DEF Init, DeferredType, EncapType
<1>4. lastNonce \in [Directions -> NonceType]
  BY DEF Init, NonceType
<1>5. TypeOK
  <2>1. reqKeys \in Keys /\ rspKeys \in Keys
    BY <1>1 DEF Init, Keys
  <2>2. /\ reqState \in SessionStates /\ rspState \in SessionStates
        /\ reqLast = "NONE" /\ rspLast = "NONE"
        /\ token = 0 /\ toRsp = <<>> /\ toReq = <<>> /\ faults = 0
    BY DEF Init, SessionStates
  <2> QED BY <1>2, <1>3, <1>4, <2>1, <2>2, KeyUpdateAssumption DEF TypeOK, Keys
<1>6. NonceFresh
  <2>1. /\ lastNonce = [d \in Directions |-> [gen |-> 0, seq |-> 0]]
        /\ reqKeys = [d \in Directions |-> FirstDataKey]
        /\ rspKeys = [d \in Directions |-> FirstDataKey]
    BY Zenon DEF Init
  <2> QED BY <2>1 DEF NonceFresh, NonceBefore, FirstDataKey, Directions
<1> QED BY <1>5, <1>6 DEF IInv

(* Every step of either end, and every fault, preserves it.                *)
LEMMA NextInv == IInv /\ [Next]_vars => IInv'
<1> SUFFICES ASSUME IInv, [Next]_vars PROVE IInv'
  OBVIOUS
<1>1. ASSUME NEW api \in Apis, StartCall(api) PROVE IInv'
  BY <1>1, StartCallInv
<1>2. CASE RequesterStep
  BY <1>2, SendKeyUpdateInv, SendPlainInv, ReceiveResponseInv, TimeoutInv,
     FinishUpdateInv, FinishPlainInv, FinishEncapInv DEF RequesterStep
<1>3. CASE DropUnknownSession
  <2>1. toRsp' \in Seq(MessageType(RequestType))
    BY <1>3, RequesterFacts DEF DropUnknownSession
  <2> QED
    BY <1>3, <2>1, RequesterFacts, RequesterFrame DEF DropUnknownSession, reqVars
<1>4. CASE Lose
  <2>1. /\ toRsp' \in Seq(MessageType(RequestType))
        /\ toReq' \in Seq(MessageType(ResponseType))
    <3>1. CASE toRsp # <<>> /\ toRsp' = Tail(toRsp) /\ UNCHANGED toReq
      BY <3>1, RequesterFacts
    <3>2. CASE toReq # <<>> /\ toReq' = Tail(toReq) /\ UNCHANGED toRsp
      BY <3>2, RequesterFacts
    <3> QED BY <1>4, <3>1, <3>2 DEF Lose
  <2>2. faults' \in 0 .. MaxFaults
    BY <1>4, RequesterFacts DEF Lose, Fault
  <2> QED BY <1>4, <2>1, <2>2, RequesterFacts, RequesterFrame DEF Lose, reqVars
<1>5. CASE UNCHANGED vars
  BY <1>5, RequesterFacts, RequesterFrame DEF vars, reqVars
<1> QED
  BY <1>1, <1>2, <1>3, <1>4, <1>5, RespondInv, RespondLowEntropyInv DEF Next, ResponderStep

(* The state keeps its types: in particular every request in flight, and   *)
(* every request deferred for RESPOND_IF_READY, has a handler.             *)
THEOREM TypeCorrect == Spec => []TypeOK
<1>1. IInv => TypeOK
  BY DEF IInv
<1> QED BY <1>1, InitInv, NextInv, PTL DEF Spec

(* Neither end ever encrypts two messages of a session under the same key  *)
(* and sequence number (libspdm_encode_secured_message, the key updates).  *)
THEOREM NoncesAreFresh == Spec => []NonceFresh
<1>1. IInv => NonceFresh
  BY DEF IInv
<1> QED BY <1>1, InitInv, NextInv, PTL DEF Spec

-----------------------------------------------------------------------------
(* END_SESSION_ACK leaves the Responder only as its session ends, and no   *)
(* other answer makes the END_SESSION call a success.                      *)
AckEnds ==
    /\ \A i \in DOMAIN toReq :
         toReq[i].body.code = "END_SESSION_ACK" => rspState = "ENDED"
    /\ call.api = "END_SESSION" /\ call.pc \in {"recv", "rir"} =>
         call.sent = Plain("END_SESSION")
    /\ call.api = "END_SESSION" /\ call.pc = "got" /\ call.status = "SUCCESS" =>
         rspState = "ENDED"
    /\ EndAgreement

(* What a queue of responses loses, it does not gain.                      *)
LEMMA TailKeeps ==
    ASSUME NEW S, NEW s \in Seq(S), s # <<>>
    PROVE  \A i \in DOMAIN Tail(s) : i + 1 \in DOMAIN s /\ Tail(s)[i] = s[i + 1]
OBVIOUS

LEMMA AppendKeeps ==
    ASSUME NEW S, NEW s \in Seq(S), NEW m
    PROVE  \A i \in DOMAIN Append(s, m) :
             \/ i \in DOMAIN s /\ Append(s, m)[i] = s[i]
             \/ Append(s, m)[i] = m
OBVIOUS

(* The steps of the Requester that leave the Responder alone and send.     *)
LEMMA SendKeepsAckEnds ==
    ASSUME IInv, AckEnds, NEW keys, NEW c \in CallType, NEW p,
           c.pc \in {"recv", "rir"}, SendRequest(keys, c, p), UNCHANGED rspState,
           c.api = "END_SESSION" => c.sent = Plain("END_SESSION"),
           \A i \in DOMAIN toReq' :
             toReq'[i].body.code = "END_SESSION_ACK" => rspState = "ENDED"
    PROVE  AckEnds'
<1>1. reqState' = "ENDED" => reqState = "ENDED"
  BY DEF SendRequest
<1>2. CASE call' = [c EXCEPT !.sends = c.sends + 1]
  BY <1>1, <1>2 DEF AckEnds, EndAgreement, CallType
<1>3. CASE call' = SendFailed(c)
  <2>1. CASE c.pc = "recv"
    BY <1>1, <1>3, <2>1 DEF AckEnds, EndAgreement, CallType, SendFailed, Return
  <2>2. CASE c.pc = "rir"
    <3>1. c.api = "END_SESSION" => c.sent.what \notin Updates
      BY DEF Plain, Payload, Updates
    <3>2. call'.api = "END_SESSION" => call'.status = "ERROR"
      BY <1>3, <2>2, <3>1 DEF SendFailed, CallType
    <3>3. call'.pc = "got"
      BY <1>3, <2>2 DEF SendFailed, CallType
    <3> QED BY <1>1, <3>2, <3>3 DEF AckEnds, EndAgreement
  <2> QED BY <2>1, <2>2
<1> QED BY <1>2, <1>3 DEF SendRequest

(* The Requester's receipt of a response.                                  *)
LEMMA ReceiveKeepsAckEnds ==
    ASSUME IInv, AckEnds, ReceiveResponse
    PROVE  AckEnds'
<1> DEFINE m == Head(toReq)
           b == m.body
           d == DecodeWithRollback(reqKeys["RSP"], m)
           keys == [reqKeys EXCEPT !["RSP"] = d.key]
<1>1. /\ call \in CallType /\ toReq \in Seq(MessageType(ResponseType))
      /\ toReq # <<>> /\ toReq' = Tail(toReq) /\ UNCHANGED rspState
      /\ call.pc \in {"recv", "rir"}
  BY DEF IInv, TypeOK, ReceiveResponse, rspVars
<1>2. \A i \in DOMAIN toReq' :
        toReq'[i].body.code = "END_SESSION_ACK" => rspState = "ENDED"
  BY <1>1, TailKeeps DEF AckEnds
<1>3. b.code = "END_SESSION_ACK" => rspState = "ENDED"
  BY <1>1, 1 \in DOMAIN toReq DEF AckEnds
<1>4. CASE /\ reqState' = "DECRYPT_ERROR"
           /\ call' = [call EXCEPT !.pc = "got", !.status = "ERROR"]
  BY <1>1, <1>2, <1>4 DEF AckEnds, EndAgreement, CallType
<1>5. CASE SendRequest(keys, [call EXCEPT !.pc = "rir"],
                       Payload("RESPOND_IF_READY", b.what, b.num))
  <2> DEFINE c == [call EXCEPT !.pc = "rir"]
  <2>1. c \in CallType /\ c.pc = "rir" /\ c.api = call.api /\ c.sent = call.sent
    BY <1>1, Zenon DEF CallType
  <2>2. c.api = "END_SESSION" => c.sent = Plain("END_SESSION")
    BY <1>1, <2>1 DEF AckEnds
  <2>3. SendRequest(keys, c, Payload("RESPOND_IF_READY", b.what, b.num))
    BY <1>5
  <2> HIDE DEF c, keys, b
  <2> QED BY <1>1, <1>2, <2>1, <2>2, <2>3, SendKeepsAckEnds
<1>6. CASE /\ reqState' = IF b.code = "DECRYPT_ERROR" /\ call.pc = "recv"
                          THEN "DECRYPT_ERROR" ELSE reqState
           /\ call' = [call EXCEPT !.pc = "got", !.status = StatusOf(b),
                                   !.answer = IF call.pc = "recv" THEN b ELSE NoRequest]
  <2>1. call.api = "END_SESSION" /\ StatusOf(b) = "SUCCESS" => b.code = "END_SESSION_ACK"
    <3> SUFFICES ASSUME call.api = "END_SESSION", StatusOf(b) = "SUCCESS",
                        b.code # "END_SESSION_ACK"
                 PROVE  FALSE
      OBVIOUS
    <3>1. call.sent.code = "END_SESSION"
      BY <1>1 DEF AckEnds, Plain, Payload
    <3>2. ResponseCode[call.sent.code] = "END_SESSION_ACK"
      BY <3>1 DEF ResponseCode
    <3> HIDE DEF b
    <3>3. CASE b.code = "BUSY"
      BY <3>3 DEF StatusOf
    <3>4. CASE b.code # "BUSY"
      BY <3>2, <3>4 DEF StatusOf
    <3> QED BY <3>3, <3>4
  <2>2. /\ call'.api = call.api /\ call'.pc = "got" /\ call'.status = StatusOf(b)
    <3> HIDE DEF b
    <3> QED BY <1>1, <1>6 DEF CallType
  <2>3. reqState' = "ENDED" => reqState = "ENDED"
    BY <1>6
  <2> QED BY <1>1, <1>2, <1>3, <2>1, <2>2, <2>3 DEF AckEnds, EndAgreement
<1> QED BY <1>4, <1>5, <1>6 DEF ReceiveResponse

(* Transmitting the request of a call.                                     *)
LEMMA TransmitKeepsAckEnds ==
    ASSUME IInv, AckEnds, NEW keys, NEW p \in RequestType, Transmit(keys, p),
           UNCHANGED <<rspState, toReq>>,
           call.api = "END_SESSION" => p = Plain("END_SESSION")
    PROVE  AckEnds'
<1> DEFINE c == [call EXCEPT !.pc = "recv", !.sent = p]
<1>1. c \in CallType /\ c.pc = "recv" /\ c.api = call.api /\ c.sent = p
  BY RequesterFacts, Zenon DEF CallType
<1>2. SendRequest(keys, c, p)
  BY DEF Transmit
<1>3. \A i \in DOMAIN toReq' :
        toReq'[i].body.code = "END_SESSION_ACK" => rspState = "ENDED"
  BY DEF AckEnds
<1> HIDE DEF c
<1> QED BY <1>1, <1>2, <1>3, SendKeepsAckEnds

(* A step of the Requester that neither ends its session nor reaches an    *)
(* answer keeps the rest.                                                  *)
LEMMA QuietKeepsAckEnds ==
    ASSUME AckEnds, UNCHANGED <<rspState, toReq>>,
           reqState' = "ENDED" => rspState = "ENDED",
           call'.api = "END_SESSION" =>
             /\ call'.pc \notin {"recv", "rir"}
             /\ call'.pc = "got" => call'.status # "SUCCESS"
    PROVE  AckEnds'
BY DEF AckEnds, EndAgreement

(* The Responder sends END_SESSION_ACK only with the end of the session.   *)
LEMMA SendResponseKeepsAckEnds ==
    ASSUME IInv, AckEnds, NEW r, NEW after, r.reply \in ResponseType,
           rspState = "ESTABLISHED", SendResponse(r, after), UNCHANGED reqVars,
           r.reply.code = "END_SESSION_ACK" => after = "ENDED"
    PROVE  AckEnds'
<1> DEFINE k == r.c.keys["RSP"]
<1>1. UNCHANGED <<call, reqState>>
  BY DEF reqVars
<1>2. /\ \A i \in DOMAIN toReq : toReq[i].body.code # "END_SESSION_ACK"
      /\ ~(call.api = "END_SESSION" /\ call.pc = "got" /\ call.status = "SUCCESS")
      /\ reqState # "ENDED"
  BY DEF AckEnds, EndAgreement
<1>3. CASE toReq' = Append(toReq, Encrypt(k, r.reply)) /\ rspState' = after
  <2>1. toReq \in Seq(MessageType(ResponseType))
    BY RequesterFacts
  <2>2. Encrypt(k, r.reply).body = r.reply
    BY DEF Encrypt
  <2>3. \A i \in DOMAIN toReq' :
          toReq'[i].body.code = "END_SESSION_ACK" => rspState' = "ENDED"
    <3> DEFINE m == Encrypt(k, r.reply)
    <3>1. \A i \in DOMAIN toReq' :
            \/ i \in DOMAIN toReq /\ toReq'[i] = toReq[i]
            \/ toReq'[i] = m
      <4>1. toReq' = Append(toReq, m)
        BY <1>3
      <4> HIDE DEF m
      <4>2. \A i \in DOMAIN Append(toReq, m) :
              \/ i \in DOMAIN toReq /\ Append(toReq, m)[i] = toReq[i]
              \/ Append(toReq, m)[i] = m
        BY <2>1, AppendKeeps
      <4> QED BY <4>1, <4>2, Zenon
    <3> HIDE DEF m
    <3>2. m.body = r.reply
      BY <2>2 DEF m
    <3> QED BY <1>2, <1>3, <3>1, <3>2
  <2> QED BY <1>1, <1>2, <2>3 DEF AckEnds, EndAgreement
<1>4. CASE UNCHANGED toReq
  BY <1>1, <1>2, <1>4 DEF AckEnds, EndAgreement
<1> QED BY <1>3, <1>4 DEF SendResponse

(* The steps of the Responder.                                             *)
LEMMA RespondKeepsAckEnds ==
    ASSUME IInv, AckEnds, Respond \/ RespondLowEntropy
    PROVE  AckEnds'
<1> DEFINE p == Head(toRsp).body
           d == DecodeWithRollback(rspKeys["REQ"], Head(toRsp))
           c == Context([rspKeys EXCEPT !["REQ"] = d.key])
<1>1. /\ c \in ContextType /\ NonceBefore(lastNonce["RSP"], c.keys["RSP"])
      /\ lastNonce["RSP"] \in [gen : Nat, seq : Nat] /\ p \in RequestType
  BY ContextSound, ZenonT(40) DEF Respond, RespondLowEntropy
<1>2. rspState = "ESTABLISHED" /\ UNCHANGED reqVars
  BY Zenon DEF Respond, RespondLowEntropy
<1>3. CASE \E state \in ResponseStates, wants \in BOOLEAN :
             LET r == Dispatch(c, p, state, wants)
             IN  SendResponse(r, IF r.reply.code = "END_SESSION_ACK"
                                 THEN "ENDED" ELSE "ESTABLISHED")
  <2>1. PICK state \in ResponseStates, wants \in BOOLEAN :
             LET r == Dispatch(c, p, state, wants)
             IN  SendResponse(r, IF r.reply.code = "END_SESSION_ACK"
                                 THEN "ENDED" ELSE "ESTABLISHED")
    BY <1>3
  <2> DEFINE r == Dispatch(c, p, state, wants)
             after == IF r.reply.code = "END_SESSION_ACK" THEN "ENDED" ELSE "ESTABLISHED"
  <2>2. r.reply \in ResponseType
    <3> HIDE DEF c, p, d
    <3>1. Sound(r, lastNonce["RSP"])
      BY <1>1, DispatchSound
    <3> HIDE DEF r
    <3> QED BY <3>1 DEF Sound, ReplyType
  <2>3. SendResponse(r, after) /\ (r.reply.code = "END_SESSION_ACK" => after = "ENDED")
    BY <2>1
  <2> HIDE DEF r, after
  <2> QED BY <1>2, <2>2, <2>3, SendResponseKeepsAckEnds
<1>4. ASSUME NEW e, NEW code \in {"DECRYPT_ERROR", "UNSPECIFIED"}, NEW after,
             SendResponse(Reply(e, Plain(code)), after)
      PROVE  AckEnds'
  <2> DEFINE r == Reply(e, Plain(code))
  <2>1. r.reply = Plain(code) /\ r.reply.code # "END_SESSION_ACK"
    BY DEF Reply, Plain, Payload
  <2>2. r.reply \in ResponseType
    BY <2>1, PlainType DEF ResponseCodes, ErrorCodes
  <2>3. SendResponse(r, after)
    BY <1>4
  <2> HIDE DEF r
  <2> QED BY <1>2, <2>1, <2>2, <2>3, SendResponseKeepsAckEnds
<1>5. CASE UNCHANGED toReq
  BY <1>2, <1>5 DEF AckEnds, EndAgreement, reqVars
<1>6. CASE Respond
  BY <1>3, <1>4, <1>5, <1>6, Zenon DEF Respond
<1>7. CASE RespondLowEntropy
  BY <1>4, <1>7 DEF RespondLowEntropy
<1> QED BY <1>6, <1>7

(* Every step keeps the agreement, given the types of the state.           *)
LEMMA NextAckEnds == IInv /\ AckEnds /\ [Next]_vars => AckEnds'
<1> SUFFICES ASSUME IInv, AckEnds, [Next]_vars PROVE AckEnds'
  OBVIOUS
<1>1. ASSUME NEW api \in Apis, StartCall(api) PROVE AckEnds'
  BY <1>1, QuietKeepsAckEnds DEF StartCall, rspVars
<1>2. CASE SendKeyUpdate
  <2>1. ASSUME NEW keys, NEW op \in Updates \cup {"VERIFY_NEW_KEY"}, NEW tag \in Tags,
               Transmit(keys, Payload("KEY_UPDATE", op, tag))
        PROVE  AckEnds'
    <3>1. Payload("KEY_UPDATE", op, tag) \in RequestType
      BY <2>1, KeyUpdateAssumption DEF Payload, RequestType, Whats, Deferrable, Updates
    <3>2. call.api # "END_SESSION" /\ UNCHANGED <<rspState, toReq>>
      BY <1>2 DEF SendKeyUpdate, Updates, rspVars
    <3> QED BY <2>1, <3>1, <3>2, TransmitKeepsAckEnds
  <2>2. CASE call' = Return(call, "ERROR") /\ UNCHANGED reqState
    <3>1. call'.pc = "idle"
      BY <2>2, RequesterFacts DEF Return, CallType
    <3> QED BY <1>2, <2>2, <3>1, QuietKeepsAckEnds DEF SendKeyUpdate, rspVars, AckEnds, EndAgreement
  <2> QED BY <1>2, <2>1, <2>2 DEF SendKeyUpdate
<1>3. CASE SendPlain
  <2> DEFINE p == Plain(IF call.api = "ENCAP" THEN "GET_ENCAPSULATED_REQUEST" ELSE call.api)
  <2>1. p \in RequestType
    BY <1>3 DEF SendPlain, Plain, Payload, RequestType, Whats, Deferrable
  <2>2. Transmit(reqKeys, p) /\ UNCHANGED <<rspState, toReq>>
    BY <1>3 DEF SendPlain, rspVars
  <2>3. call.api = "END_SESSION" => p = Plain("END_SESSION")
    OBVIOUS
  <2> HIDE DEF p
  <2> QED BY <2>1, <2>2, <2>3, TransmitKeepsAckEnds
<1>4. CASE Timeout
  <2>1. call'.pc = "got" /\ call'.status = "ERROR"
    BY <1>4, RequesterFacts DEF Timeout, CallType
  <2> QED BY <1>4, <2>1, QuietKeepsAckEnds DEF Timeout, rspVars, AckEnds, EndAgreement
<1>5. CASE FinishUpdate
  <2>1. call'.api = call.api
    BY <1>5, RequesterFacts DEF FinishUpdate, Retry, Return, CallType
  <2> QED
    BY <1>5, <2>1, QuietKeepsAckEnds
    DEF FinishUpdate, rspVars, AckEnds, EndAgreement, Updates
<1>6. CASE FinishPlain
  <2>1. call'.pc \in {"send", "idle"}
    BY <1>6, RequesterFacts DEF FinishPlain, Retry, Return, CallType
  <2>2. reqState' = "ENDED" => rspState = "ENDED"
    BY <1>6 DEF FinishPlain, AckEnds, EndAgreement
  <2> QED BY <1>6, <2>1, <2>2, QuietKeepsAckEnds DEF FinishPlain, rspVars
<1>7. CASE FinishEncap
  <2>1. call.api # "END_SESSION" /\ UNCHANGED <<rspState, toReq>>
    BY <1>7 DEF FinishEncap, rspVars
  <2>2. CASE call.answer.what \in {"UPDATE_KEY", "VERIFY_NEW_KEY"} /\ DeliverKeyUpdateAck
    <3> DEFINE op == call.answer.what
               ok == IF op = "UPDATE_KEY" THEN reqLast = "NONE" ELSE reqLast = "UPDATE_KEY"
               rsp == IF ~ok THEN reqKeys["RSP"]
                      ELSE IF op = "UPDATE_KEY" THEN CreateUpdate(reqKeys["RSP"])
                      ELSE ActivateUpdate(reqKeys["RSP"], TRUE)
               keys == [reqKeys EXCEPT !["RSP"] = rsp]
               p == Payload("DELIVER_ENCAPSULATED_RESPONSE", IF ok THEN op ELSE "ERROR", 0)
    <3>1. Transmit(keys, p)
      BY <2>2 DEF DeliverKeyUpdateAck
    <3>2. p \in RequestType
      BY <2>2 DEF Payload, RequestType, Whats, Deferrable, Updates
    <3> HIDE DEF keys, p
    <3> QED BY <2>1, <3>1, <3>2, TransmitKeepsAckEnds
  <2>3. CASE call' = Return(call, call.status) /\ UNCHANGED reqState
    <3>1. call'.pc = "idle"
      BY <2>3, RequesterFacts DEF Return, CallType
    <3> QED BY <2>1, <2>3, <3>1, QuietKeepsAckEnds DEF AckEnds, EndAgreement
  <2> QED BY <1>7, <2>2, <2>3 DEF FinishEncap
<1>8. CASE DropUnknownSession \/ UNCHANGED vars
  BY <1>8 DEF DropUnknownSession, reqVars, rspVars, vars, AckEnds, EndAgreement
<1>9. CASE Lose
  <2>1. UNCHANGED <<rspState, reqState, call>>
    BY <1>9 DEF Lose, reqVars, rspVars
  <2>2. \A i \in DOMAIN toReq' :
          toReq'[i].body.code = "END_SESSION_ACK" => rspState = "ENDED"
    <3>1. CASE toReq # <<>> /\ toReq' = Tail(toReq)
      BY <3>1, RequesterFacts, TailKeeps DEF AckEnds
    <3>2. CASE UNCHANGED toReq
      BY <3>2 DEF AckEnds
    <3> QED BY <1>9, <3>1, <3>2 DEF Lose
  <2> QED BY <2>1, <2>2 DEF AckEnds, EndAgreement
<1> QED
  BY <1>1, <1>2, <1>3, <1>4, <1>5, <1>6, <1>7, <1>8, <1>9, ReceiveKeepsAckEnds,
     RespondKeepsAckEnds DEF Next, RequesterStep, ResponderStep

(* The Requester frees a session on END_SESSION only if the Responder has  *)
(* freed it (libspdm_try_send_receive_end_session, the END_SESSION_ACK of  *)
(* libspdm_build_response), whatever is lost, late, deferred or retried.   *)
THEOREM EndsAgree == Spec => []EndAgreement
<1>1. Init => AckEnds
  <2> SUFFICES ASSUME Init PROVE AckEnds
    OBVIOUS
  <2>1. toReq = <<>> /\ reqState = "ESTABLISHED"
    BY Zenon DEF Init
  <2>2. call.api = "-"
    BY Zenon DEF Init
  <2> QED BY <2>1, <2>2 DEF AckEnds, EndAgreement
<1>2. AckEnds => EndAgreement
  BY DEF AckEnds
<1> QED BY <1>1, <1>2, InitInv, NextInv, NextAckEnds, PTL DEF Spec

=============================================================================
