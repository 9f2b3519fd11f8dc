---------------------- MODULE EncapsulatedRequestProofs ----------------------
(***************************************************************************)
(* The Responder's answers to CHALLENGE, FINISH and                        *)
(* GET_ENCAPSULATED_REQUEST, which open a flow or go on with it, keep the  *)
(* invariant of EncapsulatedProofs.                                        *)
(***************************************************************************)
EXTENDS EncapsulatedProofs

-----------------------------------------------------------------------------
(* The Responder takes m and answers; rsp and history are as they may be.  *)
Handles(m) ==
    /\ toRsp # <<>> /\ m = Head(toRsp)
    /\ UNCHANGED <<clear, req, call>>
    /\ IsResponder(rsp') /\ OnTime' = OnTime /\ ChallengeVerifies'

(* What is known of the message it takes.                                  *)
LEMMA Taken ==
    ASSUME EncapInv, toRsp # <<>>, NEW m, m = Head(toRsp)
    PROVE  /\ RspMsg(m) /\ m.ch \in Channels
           /\ Encap(m.ch) \in Channels /\ ContextOk(Encap(m.ch), ctx[Encap(m.ch)])
           /\ OnTime => ChainOk(ctx[Encap(m.ch)])
           /\ Orderly => toReq = <<>> /\ Tail(toRsp) = <<>> /\ RspPending(m)
                         /\ call.pc \notin {"idle", "begin"}
<1>1. RspMsg(m) /\ m.ch \in Channels
  BY RspHead DEF EncapInv, RspMsg
<1>2. Encap(m.ch) \in Channels
  BY <1>1 DEF Encap, Channels
<1>3. ContextOk(Encap(m.ch), ctx[Encap(m.ch)]) /\ (OnTime => ChainOk(ctx[Encap(m.ch)]))
  BY <1>2 DEF EncapInv, Contexts, ChainsOk
<1>4. ASSUME Orderly
      PROVE  /\ toReq = <<>> /\ Tail(toRsp) = <<>> /\ RspPending(m)
             /\ call.pc \notin {"idle", "begin"}
  <2>1. PICK n : toRsp = <<n>> /\ toReq = <<>> /\ call.pc \notin {"idle", "begin"}
    BY <1>4 DEF EncapInv, OneInFlight
  <2>2. Head(<<n>>) = n /\ Tail(<<n>>) = <<>>
    OBVIOUS
  <2> QED BY <1>4, <2>1, <2>2 DEF EncapInv, Pending
<1> QED BY <1>1, <1>2, <1>3, <1>4

LEMMA ReplyInv ==
    ASSUME EncapInv, NEW m, Handles(m), Contexts', ChainsOk',
           NEW n, Reply(n), ReqMsg(n), Orderly => ReqPending(n)'
    PROVE  EncapInv'
<1>1. /\ toRsp # <<>> /\ toRsp' = Tail(toRsp) /\ toReq' = Append(toReq, n)
      /\ UNCHANGED <<clear, req, call>>
      /\ IsResponder(rsp') /\ OnTime' = OnTime /\ ChallengeVerifies'
  BY DEF Handles, Reply
<1>2. RspQueue' /\ FinishFirst' /\ FinishAfterFlow' /\ ReqQueue'
  BY <1>1, RspTail, ReqAppend DEF EncapInv
<1>3. Shapes' /\ CallOk' /\ Starting' = Starting /\ Orderly' = Orderly
  BY <1>1 DEF EncapInv, Shapes, CallOk, Starting, Orderly
<1>4. Orderly => toReq = <<>> /\ Tail(toRsp) = <<>> /\ call.pc \notin {"idle", "begin"}
  BY <1>1, Taken
<1>5. Orderly => toReq' = <<n>> /\ toRsp' = <<>>
  BY <1>1, <1>4
<1>6. OneInFlight'
  BY <1>1, <1>3, <1>4, <1>5 DEF OneInFlight
<1>7. Pending'
  BY <1>1, <1>3, <1>4, <1>5 DEF Pending
<1>8. SuccessEndsFlow'
  BY <1>1, <1>4 DEF SuccessEndsFlow, Orderly
<1> QED BY <1>1, <1>2, <1>3, <1>6, <1>7, <1>8 DEF EncapInv

(* The context of the channel is replaced: the channel's flow stays where  *)
(* it was, or there is none.                                               *)
MayBecome(old, e) ==
    /\ e.flow = "SESS_MUT_AUTH" => old.flow = "SESS_MUT_AUTH"
    /\ old.flow = "SESS_MUT_AUTH" => e.flow \in {"NONE", "SESS_MUT_AUTH"}

LEMMA ContextStep ==
    ASSUME EncapInv, UNCHANGED clear, OnTime' = OnTime,
           NEW ch \in Channels, NEW c, c = Encap(ch), NEW g, ctx' = [ctx EXCEPT ![c] = g],
           ContextOk(c, g), OnTime => ChainOk(g),
           MayBecome(ctx[c], g)
    PROVE  /\ Contexts' /\ ChainsOk' /\ c \in Channels /\ ctx'[c] = g
           /\ g.flow # "NONE" => Encap(ch)' = c
           /\ g.flow = "NONE" => ctx'[Encap(ch)'].flow = "NONE"
<1>1. /\ DOMAIN ctx = Channels /\ \A d \in Channels : ContextOk(d, ctx[d])
      /\ clear /\ ctx["session"].flow = "SESS_MUT_AUTH" => ctx["clear"].flow = "NONE"
      /\ OnTime => \A d \in Channels : ChainOk(ctx[d])
  BY DEF EncapInv, Contexts, ChainsOk
<1>2. c \in Channels /\ "session" \in Channels /\ "clear" \in Channels
  BY DEF Encap, Channels
<1>3. DOMAIN ctx' = Channels /\ ctx'[c] = g /\ \A d \in Channels : d # c => ctx'[d] = ctx[d]
  BY <1>1, <1>2
<1>4. \A d \in Channels : ContextOk(d, ctx'[d])
  BY <1>1, <1>3
<1>5. clear /\ ctx'["session"].flow = "SESS_MUT_AUTH" => ctx'["clear"].flow = "NONE"
  <2>1. CASE c = "session"
    BY <1>1, <1>2, <1>3, <2>1 DEF MayBecome
  <2>2. CASE c = "clear"
    BY <1>1, <1>2, <1>3, <2>2 DEF Encap
  <2> QED BY <1>2, <2>1, <2>2 DEF Channels
<1>6. Contexts' /\ ChainsOk'
  BY <1>1, <1>3, <1>4, <1>5 DEF Contexts, ChainsOk
<1>7. ASSUME g.flow # "NONE" PROVE Encap(ch)' = c
  BY <1>2, <1>3, <1>7 DEF Encap, Channels, MayBecome
<1>8. ASSUME g.flow = "NONE" PROVE ctx'[Encap(ch)'].flow = "NONE"
  <2>1. CASE c = "session"
    BY <1>1, <1>2, <1>3, <1>8, <2>1 DEF Encap, Channels
  <2>2. CASE c = "clear"
    BY <1>1, <1>2, <1>3, <1>8, <2>2 DEF Encap, Channels
  <2> QED BY <1>2, <2>1, <2>2 DEF Channels
<1> QED BY <1>2, <1>3, <1>6, <1>7, <1>8

(* An ERROR other than NoPendingRequests says nothing of the flow.         *)
LEMMA ErrorPending ==
    ASSUME NEW ch \in Channels, NEW code, code # "NO_PENDING_REQUESTS"
    PROVE  ReqMsg(Error(ch, code)) /\ ReqPending(Error(ch, code))'
<1> DEFINE n == Error(ch, code)
<1>1. n.ch = ch /\ n.code = "ERROR" /\ n.body.code = code
  BY DEF Error, Msg, Request
<1> HIDE DEF n
<1>2. ReqMsg(n) /\ ReqPending(n)'
  BY <1>1 DEF ReqMsg, ReqPending, AnyRequest
<1> QED BY <1>2 DEF n

(* An answer that leaves the contexts alone.                               *)
LEMMA SameReplyInv ==
    ASSUME EncapInv, NEW m, m = Head(toRsp), toRsp # <<>>, UNCHANGED <<clear, ctx, req, call, history>>,
           IsResponder(rsp'), NEW n, Reply(n), ReqMsg(n), ReqPending(n)'
    PROVE  EncapInv'
<1>1. OnTime' = OnTime /\ ChallengeVerifies'
  BY DEF EncapInv, OnTime, ChallengeVerifies
<1>2. Contexts' /\ ChainsOk'
  BY <1>1, SameContexts DEF EncapInv
<1>3. Handles(m)
  BY <1>1 DEF Handles
<1> QED BY <1>2, <1>3, ReplyInv

LEMMA RefuseInv ==
    ASSUME EncapInv, toRsp # <<>>, UNCHANGED <<clear, req, call>>, NEW m, m = Head(toRsp), Refuse(m)
    PROVE  EncapInv'
<1>1. Reply(Error(m.ch, "REFUSED")) /\ UNCHANGED <<ctx, rsp, history>>
  BY DEF Refuse
<1>2. PICK ch \in Channels : ch = m.ch
  BY Taken
<1>3. ReqMsg(Error(ch, "REFUSED")) /\ ReqPending(Error(ch, "REFUSED"))'
  BY ErrorPending
<1>4. IsResponder(rsp')
  BY <1>1 DEF EncapInv, Shapes
<1> QED BY <1>1, <1>2, <1>3, <1>4, SameReplyInv

(* A request that is taken outside of sessions finds no flow there.        *)
LEMMA NoFlowInClear ==
    ASSUME NEW code, ~Unexpected("clear", code),
           code \notin {"GET_ENCAPSULATED_REQUEST", "DELIVER_ENCAPSULATED_RESPONSE"}
    PROVE  /\ Encap("clear") = "clear" /\ ctx["clear"].flow = "NONE"
           /\ ~ctx["clear"].notReady
BY DEF Unexpected, Encap

(* CHALLENGE_AUTH opens basic mutual authentication.                       *)
LEMMA OpenBasic ==
    ASSUME EncapInv, UNCHANGED clear, OnTime' = OnTime,
           Encap("clear") = "clear", ctx["clear"].flow = "NONE", ~ctx["clear"].notReady,
           ctx' = [ctx EXCEPT !["clear"] = InitEncapState(@, "BASIC_MUT_AUTH", NoRequest)]
    PROVE  Contexts' /\ ChainsOk'
<1> DEFINE e == ctx["clear"]
           g == InitEncapState(e, "BASIC_MUT_AUTH", NoRequest)
<1>1. ContextOk("clear", e) /\ "clear" \in Channels
  BY DEF EncapInv, Contexts, Channels
<1>2. /\ IsContext(g) /\ g.flow = "BASIC_MUT_AUTH" /\ g.id = 0 /\ g.last = NoRequest
      /\ g.buf = <<>> /\ g.notReady = e.notReady
  BY <1>1 DEF ContextOk, IsContext, InitEncapState
<1>3. IsRequest(NoRequest) /\ NoRequest.code = "-"
  BY DEF IsRequest, NoRequest, Request
<1>4. IsSeq(<<>>) /\ Len(<<>>) = 0 /\ 0 \in 0..MaxId /\ 0 <= BufferSize
  BY NoneSeq, ConstantsAssumption
<1>5. e.notReady \in BOOLEAN /\ ~e.notReady
  BY <1>1 DEF ContextOk
<1>6. ctx' = [ctx EXCEPT !["clear"] = g]
  OBVIOUS
<1> HIDE DEF g, e
<1>7. ContextOk("clear", g) /\ ChainOk(g)
  BY <1>2, <1>3, <1>4, <1>5 DEF ContextOk, ChainOk, RequestCodes
<1>8. MayBecome(ctx["clear"], g)
  BY <1>2 DEF MayBecome
<1> QED BY <1>1, <1>6, <1>7, <1>8, ContextStep, Zenon

LEMMA RespondChallengeInv == ASSUME EncapInv, RespondChallenge PROVE EncapInv'
<1>1. PICK m : m = Head(toRsp)
  OBVIOUS
<1>2. toRsp # <<>> /\ UNCHANGED <<clear, req, call>>
  BY DEF RespondChallenge, Responds
<1>3. CASE Refuse(m)
  BY <1>1, <1>2, <1>3, RefuseInv
<1>4. ASSUME ~Unexpected("clear", "CHALLENGE"), UNCHANGED history,
             NEW mutAuth \in BOOLEAN,
             ctx' = IF mutAuth THEN [ctx EXCEPT !["clear"] =
                                       InitEncapState(@, "BASIC_MUT_AUTH", NoRequest)]
                    ELSE ctx,
             NEW n, Reply(n),
             \/ /\ rsp' = IF mutAuth THEN [rsp EXCEPT !.mut = <<>>] ELSE rsp
                /\ n = Error("clear", "UNSPECIFIED")
             \/ /\ rsp' = IF mutAuth THEN [rsp EXCEPT !.mut = <<>>]
                          ELSE [rsp EXCEPT !.auth = TRUE]
                /\ n = Msg("clear", "CHALLENGE_AUTH", 0, 0,
                           IF mutAuth THEN Request("MUT_AUTH", 0, 0, 0) ELSE NoRequest)
      PROVE  EncapInv'
  <2>1. Encap("clear") = "clear" /\ ctx["clear"].flow = "NONE" /\ ~ctx["clear"].notReady
    BY <1>4, NoFlowInClear
  <2>2. IsResponder(rsp')
    BY <1>4, NoneSeq DEF EncapInv, Shapes, IsResponder
  <2>3. OnTime' = OnTime /\ ChallengeVerifies'
    BY <1>4 DEF EncapInv, OnTime, ChallengeVerifies
  <2>4. Handles(m)
    BY <1>1, <1>2, <2>2, <2>3 DEF Handles
  <2>5. CASE n = Error("clear", "UNSPECIFIED")
    <3>1. ReqMsg(n) /\ ReqPending(n)'
      BY <2>5, ErrorPending DEF Channels
    <3>2. CASE ~mutAuth
      <4>1. UNCHANGED ctx
        BY <1>4, <3>2
      <4> QED BY <1>1, <1>2, <1>4, <2>2, <3>1, <4>1, SameReplyInv, SMTT(30)
    <3>3. CASE mutAuth
      BY <1>2, <1>4, <2>1, <2>3, <2>4, <3>1, <3>3, OpenBasic, ReplyInv, SMTT(30)
    <3> QED BY <3>2, <3>3
  <2>6. CASE n = Msg("clear", "CHALLENGE_AUTH", 0, 0,
                     IF mutAuth THEN Request("MUT_AUTH", 0, 0, 0) ELSE NoRequest)
    <3>1. n.ch = "clear" /\ n.code = "CHALLENGE_AUTH" /\ (mutAuth => n.body.code = "MUT_AUTH")
      BY <2>6 DEF Msg, Request
    <3>2. ReqMsg(n)
      BY <3>1 DEF ReqMsg, Channels
    <3>3. CASE ~mutAuth
      <4>1. UNCHANGED ctx
        BY <1>4, <3>3
      <4>2. ctx'[Encap("clear")'].flow = "NONE"
        BY <1>2, <2>1, <4>1, SMTT(30) DEF Encap
      <4>3. ReqPending(n)'
        BY <3>1, <4>2 DEF ReqPending, AnyRequest
      <4> QED BY <1>1, <1>2, <1>4, <2>2, <3>2, <4>1, <4>3, SameReplyInv, SMTT(30)
    <3>4. CASE mutAuth
      <4>1. ReqPending(n)'
        BY <3>1, <3>4 DEF ReqPending, AnyRequest
      <4> QED BY <1>2, <1>4, <2>1, <2>3, <2>4, <3>2, <3>4, <4>1, OpenBasic, ReplyInv, SMTT(30)
    <3> QED BY <3>3, <3>4
  <2> QED BY <1>4, <2>5, <2>6
<1> QED
  <2>1. CASE /\ ~Unexpected("clear", "CHALLENGE") /\ ~Refuse(m)
    <3>1. PICK mutAuth \in BOOLEAN :
            /\ ctx' = IF mutAuth THEN [ctx EXCEPT !["clear"] =
                                         InitEncapState(@, "BASIC_MUT_AUTH", NoRequest)]
                      ELSE ctx
            /\ \/ /\ rsp' = IF mutAuth THEN [rsp EXCEPT !.mut = <<>>] ELSE rsp
                  /\ Reply(Error("clear", "UNSPECIFIED"))
               \/ /\ rsp' = IF mutAuth THEN [rsp EXCEPT !.mut = <<>>]
                            ELSE [rsp EXCEPT !.auth = TRUE]
                  /\ Reply(Msg("clear", "CHALLENGE_AUTH", 0, 0,
                               IF mutAuth THEN Request("MUT_AUTH", 0, 0, 0)
                               ELSE NoRequest))
      BY <1>1, <2>1, Zenon DEF RespondChallenge
    <3>2. UNCHANGED history
      BY <1>1, <2>1, Zenon DEF RespondChallenge
    <3> QED BY <1>4, <2>1, <3>1, <3>2
  <2> QED BY <1>1, <1>3, <2>1, Zenon DEF RespondChallenge

LEMMA RespondFinishInv == ASSUME EncapInv, RespondFinish PROVE EncapInv'
<1> DEFINE valid == Head(toRsp).body.slot = ctx["session"].designated
                    /\ ctx["session"].designated \in rsp.known
<1>1. PICK m : m = Head(toRsp)
  OBVIOUS
<1>2. toRsp # <<>> /\ UNCHANGED <<clear, req, call>> /\ m.code = "FINISH"
  BY <1>1 DEF RespondFinish, Responds
<1>3. CASE Refuse(m)
  BY <1>1, <1>2, <1>3, RefuseInv
<1>4. CASE ~Refuse(m)
  <2>1. /\ rsp' = IF valid THEN [ResetViaRequestCode(rsp) EXCEPT !.session = "ESTABLISHED"]
                  ELSE IF clear /\ m.body.slot # ctx["session"].designated THEN rsp
                  ELSE ResetViaRequestCode(rsp)
        /\ Reply(IF valid THEN Msg(m.ch, "FINISH_RSP", 0, 0, NoRequest)
                 ELSE Error(m.ch, "INVALID_REQUEST"))
        /\ UNCHANGED <<ctx, history>>
    BY <1>1, <1>4, Zenon DEF RespondFinish
  <2>2. IsResponder(rsp) /\ IsResponder(ResetViaRequestCode(rsp))
    BY NoneSeq DEF EncapInv, Shapes, IsResponder, ResetViaRequestCode
  <2>3. IsResponder([ResetViaRequestCode(rsp) EXCEPT !.session = "ESTABLISHED"])
    BY <2>2 DEF IsResponder
  <2>4. IsResponder(rsp')
    BY <2>1, <2>2, <2>3
  <2>5. PICK ch \in Channels : ch = m.ch
    BY <1>1, <1>2, Taken
  <2>6. ctx["session"].flow = "NONE"
    BY <1>1, <1>2, TailSeq DEF EncapInv, RspQueue, FinishAfterFlow
  <2> DEFINE n == Msg(ch, "FINISH_RSP", 0, 0, NoRequest)
  <2>7. n.ch = ch /\ n.code = "FINISH_RSP"
    BY DEF Msg
  <2> HIDE DEF n
  <2>8. ReqMsg(n) /\ ReqPending(n)'
    BY <2>1, <2>6, <2>7 DEF ReqMsg, ReqPending, AnyRequest
  <2>9. ReqMsg(Error(ch, "INVALID_REQUEST")) /\ ReqPending(Error(ch, "INVALID_REQUEST"))'
    BY ErrorPending
  <2>10. Reply(n) \/ Reply(Error(ch, "INVALID_REQUEST"))
    BY <2>1, <2>5 DEF n
  <2> QED BY <1>1, <1>2, <2>1, <2>4, <2>8, <2>9, <2>10, SameReplyInv
<1> QED BY <1>3, <1>4

-----------------------------------------------------------------------------
(* Contexts on the way.                                                    *)

(* A flow that is over.                                                    *)
Ended(e) == [e EXCEPT !.flow = "NONE"]

LEMMA EndedOk ==
    ASSUME NEW c, NEW e, ContextOk(c, e), NEW g, g = Ended(e)
    PROVE  /\ ContextOk(c, g) /\ g.flow = "NONE" /\ g.designated = e.designated
           /\ ChainOk(e) => ChainOk(g)
<1>1. /\ IsContext(g) /\ g.flow = "NONE" /\ g.id = e.id /\ g.last = e.last /\ g.slot = e.slot
      /\ g.buf = e.buf /\ g.notReady = e.notReady /\ g.resume = e.resume
      /\ g.designated = e.designated
  BY SMTT(30) DEF ContextOk, IsContext, Ended
<1>2. ContextOk(c, g) /\ (ChainOk(e) => ChainOk(g))
  BY <1>1 DEF ContextOk, ChainOk
<1> QED BY <1>1, <1>2

(* A slot is designated.                                                   *)
Designated(e, slot) == [e EXCEPT !.designated = slot]

LEMMA DesignatedOk ==
    ASSUME NEW c, NEW e, ContextOk(c, e), NEW slot, NEW g, g = Designated(e, slot)
    PROVE  /\ ContextOk(c, g) /\ g.flow = e.flow /\ g.id = e.id /\ g.last = e.last
           /\ g.notReady = e.notReady /\ g.buf = e.buf /\ g.designated = slot
           /\ ChainOk(e) => ChainOk(g)
<1>1. /\ IsContext(g) /\ g.flow = e.flow /\ g.id = e.id /\ g.last = e.last /\ g.slot = e.slot
      /\ g.buf = e.buf /\ g.notReady = e.notReady /\ g.resume = e.resume
      /\ g.designated = slot
  BY SMTT(30) DEF ContextOk, IsContext, Designated
<1>2. ContextOk(c, g) /\ (ChainOk(e) => ChainOk(g))
  BY <1>1 DEF ContextOk, ChainOk
<1> QED BY <1>1, <1>2

(* A request that the handler, or the library, may make.                   *)
MayIssue(r) ==
    /\ IsRequest(r) /\ r.code \in RequestCodes
    /\ r.code = "GET_CERTIFICATE" => r.slot \in Slots \cup EmptySlots
    /\ r.code = "SEND_EVENT" => r.slot = 0 /\ r.off = 0

(* It becomes the outstanding one; the chain in the buffer is kept only by *)
(* a GET_CERTIFICATE that goes on with it.                                 *)
KeepsChain(e, r) ==
    r.code = "GET_CERTIFICATE" /\ r.off # 0 =>
      ChainOk(e) /\ e.last.code = "GET_CERTIFICATE" /\ r.slot = e.slot

Ready(e) == e.notReady = FALSE

(* The requests that a flow may have outstanding.                          *)
Fits(flow, code) ==
    \/ code \in {"GET_DIGESTS", "GET_CERTIFICATE"}
    \/ code = "SEND_EVENT" /\ flow = "GENERAL"
    \/ code = "CHALLENGE" /\ flow = "BASIC_MUT_AUTH"

LEMMA IssueOk ==
    ASSUME NEW c, NEW e, ContextOk(c, e), NEW r, MayIssue(r), Ready(e),
           NEW g, g = Issue(e, r), NEW h, h = Ended(g)
    PROVE  /\ Fits(e.flow, r.code) => ContextOk(c, g)
           /\ ContextOk(c, h) /\ h.flow = "NONE"
           /\ KeepsChain(e, r) => ChainOk(g) /\ ChainOk(h)
<1>0. IsContext(e) /\ e.notReady = FALSE
  BY DEF ContextOk, Ready
<1>1. /\ IsContext(g) /\ g.flow = e.flow /\ g.id = e.id /\ g.last = r
      /\ g.notReady = e.notReady /\ g.resume = e.resume
      /\ g.slot = IF r.code \in {"GET_CERTIFICATE", "CHALLENGE"} THEN r.slot ELSE e.slot
      /\ g.buf = IF r.code = "GET_CERTIFICATE" /\ r.off = 0 THEN <<>> ELSE e.buf
  BY <1>0 DEF IsContext, Issue
<1>2. /\ IsContext(h) /\ h.flow = "NONE" /\ h.id = g.id /\ h.last = g.last
      /\ h.notReady = g.notReady /\ h.resume = g.resume /\ h.slot = g.slot /\ h.buf = g.buf
  BY <1>1 DEF IsContext, Ended
<1>3. IsSeq(<<>>) /\ Len(<<>>) = 0 /\ 0 <= BufferSize
  BY NoneSeq, ConstantsAssumption
<1>4. IsSeq(g.buf) /\ Len(g.buf) <= BufferSize
  BY <1>1, <1>3, SMTT(30) DEF ContextOk
<1>5. ASSUME Fits(e.flow, r.code)
      PROVE  ContextOk(c, g)
  BY <1>0, <1>1, <1>4, <1>5, SMTT(30) DEF ContextOk, MayIssue, Fits
<1>6. ContextOk(c, h)
  BY <1>0, <1>1, <1>2, <1>4, SMTT(30) DEF ContextOk, MayIssue
<1>7. KeepsChain(e, r) => ChainOk(g) /\ ChainOk(h)
  BY <1>1, <1>2 DEF ChainOk, KeepsChain
<1> QED BY <1>2, <1>5, <1>6, <1>7, SMTT(30)

-----------------------------------------------------------------------------
(* The three ways to answer in a flow.                                     *)

(* The flow ends: with an ERROR, without a request, or with the final      *)
(* acknowledgement and the designated slot.                                *)
LEMMA CloseInv ==
    ASSUME EncapInv, NEW m, Handles(m), NEW c, c = Encap(m.ch),
           NEW g, ctx' = [ctx EXCEPT ![c] = g], ContextOk(c, g), OnTime => ChainOk(g),
           g.flow = "NONE",
           NEW n, Reply(n), n.ch = m.ch,
           \/ n.code = "ERROR"
           \/ n.code = "ENCAPSULATED_REQUEST" /\ n.body = NoRequest
           \/ /\ n.code = "ENCAPSULATED_RESPONSE_ACK" /\ n.body.code \in FinalAck
              /\ Orderly /\ Starting => c = "session" /\ n.body.slot = g.designated
    PROVE  EncapInv'
<1>1. PICK ch \in Channels : ch = m.ch
  BY Taken DEF Handles
<1>2. UNCHANGED <<clear, call>> /\ OnTime' = OnTime
  BY DEF Handles
<1>3. /\ Contexts' /\ ChainsOk' /\ ctx'[c] = g
      /\ ctx'[Encap(ch)'].flow = "NONE"
  <2>1. c = Encap(ch) /\ UNCHANGED clear /\ OnTime' = OnTime
    BY <1>1, <1>2
  <2>2. MayBecome(ctx[c], g)
    BY DEF MayBecome
  <2>3. /\ Contexts' /\ ChainsOk' /\ ctx'[c] = g
        /\ g.flow = "NONE" => ctx'[Encap(ch)'].flow = "NONE"
    BY <2>1, <2>2, ContextStep, ZenonT(40)
  <2> QED BY <2>3
<1>4. NoRequest.code = "-" /\ "-" \in FinalAck
  BY DEF NoRequest, Request, FinalAck
<1>5. ReqMsg(n)
  BY <1>1 DEF ReqMsg
<1>6. Starting' = Starting
  BY <1>2 DEF Starting
<1>7. ASSUME Orderly PROVE ReqPending(n)'
  BY <1>1, <1>3, <1>4, <1>6, <1>7 DEF ReqPending, AnyRequest
<1> QED BY <1>3, <1>5, <1>7, ReplyInv

(* The flow stays open, with an ERROR.                                     *)
LEMMA StayInv ==
    ASSUME EncapInv, NEW m, Handles(m), NEW c, c = Encap(m.ch),
           NEW g, ctx' = [ctx EXCEPT ![c] = g], ContextOk(c, g), OnTime => ChainOk(g),
           \/ g.flow = ctx[c].flow
           \/ ctx[c].flow = "NONE" /\ g.flow = "GENERAL",
           Reply(Error(m.ch, "HANDLER"))
    PROVE  EncapInv'
<1>1. PICK ch \in Channels : ch = m.ch
  BY Taken DEF Handles
<1>2. UNCHANGED <<clear, call>> /\ OnTime' = OnTime
  BY DEF Handles
<1>3. Contexts' /\ ChainsOk'
  <2>1. MayBecome(ctx[c], g)
    BY DEF MayBecome
  <2> QED BY <1>1, <1>2, <2>1, ContextStep, Zenon
<1>4. ReqMsg(Error(ch, "HANDLER")) /\ ReqPending(Error(ch, "HANDLER"))'
  BY ErrorPending
<1> QED BY <1>1, <1>3, <1>4, ReplyInv

(* A request is sent, and is the outstanding one.                          *)
LEMMA GoOnInv ==
    ASSUME EncapInv, NEW m, Handles(m), NEW c, c = Encap(m.ch),
           NEW g, ctx' = [ctx EXCEPT ![c] = g], ContextOk(c, g), OnTime => ChainOk(g),
           g.flow # "NONE",
           \/ g.flow = ctx[c].flow
           \/ ctx[c].flow = "NONE" /\ g.flow = "GENERAL",
           NEW code \in {"ENCAPSULATED_REQUEST", "ENCAPSULATED_RESPONSE_ACK"},
           NEW ack, NEW r, Reply(Msg(m.ch, code, g.id, ack, r)),
           Answerable(r), Outstanding(g, r),
           r.code = "GET_CERTIFICATE" => r.off = Len(g.buf),
           Orderly /\ Basic(g)' => rsp'.mut = Append(req.mut, Recorded(r)),
           Orderly /\ Starting => c = "session" /\ g.flow = "SESS_MUT_AUTH"
    PROVE  EncapInv'
<1>1. PICK ch \in Channels : ch = m.ch
  BY Taken DEF Handles
<1>2. UNCHANGED <<clear, call, req>> /\ OnTime' = OnTime
  BY DEF Handles
<1>3. Contexts' /\ ChainsOk' /\ c \in Channels /\ ctx'[c] = g /\ Encap(ch)' = c
  <2>1. c = Encap(ch) /\ UNCHANGED clear /\ OnTime' = OnTime
    BY <1>1, <1>2
  <2>2. MayBecome(ctx[c], g)
    BY DEF MayBecome
  <2> QED BY <2>1, <2>2, ContextStep, Zenon
<1> DEFINE n == Msg(ch, code, g.id, ack, r)
<1>4. n.ch = ch /\ n.code = code /\ n.id = g.id /\ n.body = r
  BY DEF Msg
<1> HIDE DEF n
<1>5. r.code \notin FinalAck
  BY SMTT(30) DEF Answerable, RequestCodes, FinalAck
<1>6. ReqMsg(n)
  BY <1>4 DEF ReqMsg
<1>7. Starting' = Starting
  BY <1>2, SMTT(30) DEF Starting
<1>8. ASSUME Orderly PROVE ReqPending(n)'
  BY <1>2, <1>3, <1>4, <1>5, <1>7, <1>8 DEF ReqPending, AnyRequest
<1>9. Reply(n)
  BY <1>1 DEF n
<1> QED BY <1>3, <1>6, <1>8, <1>9, ReplyInv

-----------------------------------------------------------------------------
(* The handler.                                                            *)

LEMMA HandlerIs ==
    ASSUME NEW c, NEW e, NEW p, NEW x \in HandlerChoices(c, e, p)
    PROVE  /\ x.do \in {"REQUEST", "END", "FAIL", "ERROR", "EMPTY"}
           /\ x.do = "REQUEST" => MayIssue(x.r) /\ x.r.off = 0
<1> DEFINE n == issued + 1
           Make(code, slot) ==
             [do |-> "REQUEST", r |-> Request(code, slot, 0, n), slot |-> e.designated]
           Do(what, slot) == [do |-> what, r |-> NoRequest, slot |-> slot]
<1>1. \/ \E what \in {"END", "FAIL", "ERROR", "EMPTY"} : x = Do(what, e.designated)
      \/ \E s \in p.known : x = Do("END", s)
      \/ x = Make("GET_DIGESTS", 0)
      \/ \E s \in Slots \cup EmptySlots : x = Make("GET_CERTIFICATE", s)
      \/ \E s \in p.known : x = Make("CHALLENGE", s)
      \/ x = Make("SEND_EVENT", 0)
  BY DEF HandlerChoices
<1>2. ASSUME NEW what \in {"END", "FAIL", "ERROR", "EMPTY"}, NEW s, x = Do(what, s)
      PROVE  x.do \in {"END", "FAIL", "ERROR", "EMPTY"}
  BY <1>2
<1>3. ASSUME NEW code \in RequestCodes, NEW s, x = Make(code, s),
             code = "GET_CERTIFICATE" => s \in Slots \cup EmptySlots,
             code = "SEND_EVENT" => s = 0
      PROVE  x.do = "REQUEST" /\ MayIssue(x.r) /\ x.r.off = 0
  <2>1. x.r = Request(code, s, 0, n) /\ x.do = "REQUEST"
    BY <1>3
  <2>2. x.r.code = code /\ x.r.slot = s /\ x.r.off = 0 /\ IsRequest(x.r)
    BY <2>1 DEF Request, IsRequest
  <2> QED BY <1>3, <2>1, <2>2 DEF MayIssue
<1> HIDE DEF Make, Do
<1> QED BY <1>1, <1>2, <1>3, SMTT(30) DEF RequestCodes

LEMMA LegalIs ==
    ASSUME NEW c, NEW flow \in {"BASIC_MUT_AUTH", "SESS_MUT_AUTH", "GENERAL"}, NEW code, Legal(flow, c, code)
    PROVE  Fits(flow, code)
BY Zenon DEF Legal, Fits

LEMMA RecordIs ==
    ASSUME NEW p, IsResponder(p), NEW r
    PROVE  /\ IsResponder(Record(p, r))
           /\ r.code # "SEND_EVENT" => Record(p, r).mut = Append(p.mut, Recorded(r))
<1>1. IsSeq(Append(p.mut, Recorded(r)))
  BY AppendSeq DEF IsResponder
<1> QED BY <1>1 DEF Record, IsResponder

-----------------------------------------------------------------------------
(* GET_ENCAPSULATED_REQUEST.                                               *)

(* The context it opens a flow in, unless one is open.                     *)
Deferred(old) == old.flow = "NONE" /\ old.notReady
Opened(old) ==
    IF old.flow # "NONE" THEN old
    ELSE [old EXCEPT !.flow = "GENERAL", !.id = 0, !.last = NoRequest, !.sized = FALSE]

LEMMA OpenedOk ==
    ASSUME NEW c, NEW old, ContextOk(c, old), ~Deferred(old), NEW e, e = Opened(old)
    PROVE  /\ ContextOk(c, e) /\ Ready(e)
           /\ e.flow \in {"BASIC_MUT_AUTH", "SESS_MUT_AUTH", "GENERAL"}
           /\ e.flow = old.flow \/ (old.flow = "NONE" /\ e.flow = "GENERAL")
           /\ ChainOk(old) => ChainOk(e)
<1>1. CASE old.flow # "NONE"
  BY <1>1 DEF ContextOk, Ready, Opened
<1>2. CASE old.flow = "NONE"
  <2>1. old.notReady = FALSE /\ IsContext(old)
    BY <1>2 DEF ContextOk, Deferred
  <2>2. /\ IsContext(e) /\ e.flow = "GENERAL" /\ e.id = 0 /\ e.last = NoRequest
        /\ e.buf = old.buf /\ e.notReady = old.notReady
    BY <1>2, <2>1 DEF IsContext, Opened
  <2>3. IsRequest(NoRequest) /\ NoRequest.code = "-" /\ 0 \in 0..MaxId
    BY ConstantsAssumption, SMTT(30) DEF IsRequest, NoRequest, Request
  <2>4. ContextOk(c, e) /\ ChainOk(e)
    BY <2>1, <2>2, <2>3 DEF ContextOk, ChainOk, RequestCodes
  <2> QED BY <1>2, <2>1, <2>2, <2>4 DEF Ready
<1> QED BY <1>1, <1>2

(* A deferred flow is resumed: the deferred request is outstanding again.  *)
LEMMA ResumeInv ==
    ASSUME EncapInv, NEW m, Handles(m), m.code = "GET_ENCAPSULATED_REQUEST",
           NEW c, c = Encap(m.ch), NEW old, old = ctx[c],
           Deferred(old), NEW e, e = Resumed(old),
           ctx' = [ctx EXCEPT ![c] = IF e.sized THEN e ELSE [e EXCEPT !.flow = "NONE"]],
           Reply(IF e.sized
                 THEN Msg(m.ch, "ENCAPSULATED_REQUEST", e.id, 0,
                          Request("RESPOND_IF_READY", 0, 0, e.last.n))
                 ELSE Error(m.ch, "UNSPECIFIED"))
    PROVE  EncapInv'
<1>1. /\ ContextOk(c, old) /\ (OnTime => ChainOk(old)) /\ (Orderly => RspPending(m))
      /\ m.ch \in Channels
  BY Taken DEF Handles
<1>2. /\ old.flow = "NONE" /\ old.resume = "GENERAL" /\ old.last.code = "SEND_EVENT"
      /\ IsContext(old)
  BY <1>1 DEF ContextOk, Deferred
<1>3. /\ IsContext(e) /\ e.flow = "GENERAL" /\ e.notReady = FALSE /\ e.id = old.id
      /\ e.last = old.last /\ e.slot = old.slot /\ e.buf = old.buf
  BY <1>2, SMTT(30) DEF Resumed, IsContext
<1>4. ContextOk(c, e) /\ ChainOk(e)
  BY <1>1, <1>2, <1>3, ZenonT(40) DEF ContextOk, ChainOk
<1>5. CASE e.sized
  <2> DEFINE r == Request("RESPOND_IF_READY", 0, 0, e.last.n)
  <2>1. Answerable(r) /\ Outstanding(e, r) /\ r.code = "RESPOND_IF_READY"
    BY <1>2, <1>3 DEF Answerable, IsRequest, Request, Outstanding
  <2>2. ~(Orderly /\ Starting)
    BY <1>1, <1>2 DEF RspPending
  <2>3. ~Basic(e)'
    BY <1>3 DEF Basic
  <2>4. Reply(Msg(m.ch, "ENCAPSULATED_REQUEST", e.id, 0, r)) /\ ctx' = [ctx EXCEPT ![c] = e]
    BY <1>5
  <2> HIDE DEF r
  <2> QED BY <1>2, <1>3, <1>4, <2>1, <2>2, <2>3, <2>4, GoOnInv, Zenon
<1>6. CASE ~e.sized
  <2> DEFINE g == Ended(e)
             n == Error(m.ch, "UNSPECIFIED")
  <2>1. ContextOk(c, g) /\ g.flow = "NONE" /\ ChainOk(g)
    BY <1>4, EndedOk
  <2>2. n.ch = m.ch /\ n.code = "ERROR"
    BY DEF Error, Msg
  <2>3. Reply(n) /\ ctx' = [ctx EXCEPT ![c] = g]
    BY <1>6 DEF Ended
  <2> HIDE DEF g, n
  <2> QED BY <2>1, <2>2, <2>3, CloseInv, Zenon
<1> QED BY <1>5, <1>6, SMTT(30)

(* The dispatcher resets the transcript unless the Requester is            *)
(* authenticated.                                                          *)
LEMMA ResetIs ==
    ASSUME NEW p, IsResponder(p), NEW q, q = ResetViaRequestCode(p)
    PROVE  IsResponder(q) /\ (~p.auth \/ p.mut = <<>> => q.mut = <<>>)
BY NoneSeq DEF ResetViaRequestCode, IsResponder

(* The request that the handler made becomes the outstanding one.          *)
Makes(c, f, r, g, h) ==
    /\ ContextOk(c, f) /\ Ready(f) /\ MayIssue(r) /\ r.off = 0
    /\ g = Issue(f, r) /\ h = Ended(g)
LEMMA HandlerIssues ==
    ASSUME NEW c, NEW f, NEW r, NEW g, NEW h, Makes(c, f, r, g, h)
    PROVE  /\ Fits(f.flow, r.code) => ContextOk(c, g)
           /\ g.flow = f.flow /\ g.id = f.id /\ g.last = r /\ ChainOk(g)
           /\ r.code = "GET_CERTIFICATE" => r.off = Len(g.buf)
           /\ ContextOk(c, h) /\ h.flow = "NONE" /\ ChainOk(h)
<1>0. /\ ContextOk(c, f) /\ Ready(f) /\ MayIssue(r) /\ r.off = 0
      /\ g = Issue(f, r) /\ h = Ended(g)
  BY Zenon DEF Makes
<1>1. IsContext(f)
  BY <1>0 DEF ContextOk
<1>2. /\ g.flow = f.flow /\ g.id = f.id /\ g.last = r
      /\ r.code = "GET_CERTIFICATE" => g.buf = <<>>
  BY <1>0, <1>1, SMTT(30) DEF IsContext, Issue
<1>3. KeepsChain(f, r)
  BY <1>0 DEF KeepsChain
<1>4. /\ Fits(f.flow, r.code) => ContextOk(c, g)
      /\ ContextOk(c, h) /\ h.flow = "NONE" /\ ChainOk(g) /\ ChainOk(h)
  BY <1>0, <1>3, IssueOk
<1>5. Len(<<>>) = 0
  OBVIOUS
<1> QED BY <1>0, <1>2, <1>4, <1>5

(* What the handler's choice x makes of the flow, and of the answer.       *)
FirstAnswer(m, c, e, f, x) ==
    \/ /\ x.do = "REQUEST" /\ Legal(e.flow, c, x.r.code)
       /\ ctx' = [ctx EXCEPT ![c] = Issue(f, x.r)]
       /\ Reply(Msg(m.ch, "ENCAPSULATED_REQUEST", e.id, 0, x.r))
    \/ /\ x.do = "REQUEST" /\ ~Legal(e.flow, c, x.r.code)
       /\ ctx' = [ctx EXCEPT ![c] = Ended(Issue(f, x.r))]
       /\ Reply(Error(m.ch, "UNSPECIFIED"))
    \/ /\ x.do = "END"
       /\ ctx' = [ctx EXCEPT ![c] = Ended(f)]
       /\ Reply(Error(m.ch, IF e.flow = "GENERAL" THEN "NO_PENDING_REQUESTS"
                            ELSE "UNSPECIFIED"))
    \/ /\ x.do = "FAIL"
       /\ ctx' = [ctx EXCEPT ![c] = Ended(f)]
       /\ Reply(Error(m.ch, "UNSPECIFIED"))
    \/ /\ x.do = "ERROR"
       /\ ctx' = [ctx EXCEPT ![c] = f]
       /\ Reply(Error(m.ch, "HANDLER"))
    \/ /\ x.do = "EMPTY"
       /\ ctx' = [ctx EXCEPT ![c] = Ended(f)]
       /\ Reply(Msg(m.ch, "ENCAPSULATED_REQUEST", e.id, 0, NoRequest))

(* The handler is called for the first request of a flow, or another one.  *)
CallsHandler(m, c, e, p) ==
    /\ EncapInv /\ Handles(m) /\ m.code = "GET_ENCAPSULATED_REQUEST"
    /\ c = Encap(m.ch) /\ ContextOk(c, e) /\ Ready(e)
    /\ e.flow \in {"BASIC_MUT_AUTH", "SESS_MUT_AUTH", "GENERAL"}
    /\ \/ e.flow = ctx[c].flow
       \/ ctx[c].flow = "NONE" /\ e.flow = "GENERAL"
    /\ OnTime => ChainOk(e)
    /\ IsResponder(p) /\ (Basic(e)' => p.mut = <<>>)

LEMMA FirstIssuedInv ==
    ASSUME NEW m, NEW c, NEW e, NEW p, CallsHandler(m, c, e, p),
           NEW f, NEW r, NEW g, NEW h, Makes(c, f, r, g, h), f.flow = e.flow, f.id = e.id,
           Fits(e.flow, r.code), rsp' = Record(p, r), ctx' = [ctx EXCEPT ![c] = g],
           Reply(Msg(m.ch, "ENCAPSULATED_REQUEST", e.id, 0, r))
    PROVE  EncapInv'
<1>0. /\ EncapInv /\ Handles(m) /\ c = Encap(m.ch) /\ m.code = "GET_ENCAPSULATED_REQUEST"
      /\ e.flow # "NONE"
      /\ e.flow = ctx[c].flow \/ (ctx[c].flow = "NONE" /\ e.flow = "GENERAL")
      /\ IsResponder(p) /\ (Basic(e)' => p.mut = <<>>)
  BY DEF CallsHandler
<1>1. /\ ContextOk(c, g) /\ g.flow = f.flow /\ g.id = f.id /\ g.last = r /\ ChainOk(g)
      /\ r.code = "GET_CERTIFICATE" => r.off = Len(g.buf)
  BY HandlerIssues
<1>2. (Orderly => RspPending(m)) /\ m.ch \in Channels
  BY <1>0, Taken DEF Handles
<1>3. MayIssue(r) /\ r.off = 0
  BY DEF Makes
<1>4. Answerable(r)
  BY <1>3 DEF Answerable, MayIssue, Fits
<1>5. Outstanding(g, r)
  BY <1>1 DEF Outstanding
<1>6. ASSUME Orderly, Basic(g)'
      PROVE  rsp'.mut = Append(req.mut, Recorded(r))
  <2>1. Basic(e)' /\ e.flow = "BASIC_MUT_AUTH"
    BY <1>1, <1>6 DEF Basic
  <2>2. p.mut = <<>> /\ r.code # "SEND_EVENT"
    BY <1>0, <2>1 DEF Fits
  <2>3. req.mut = <<>>
    BY <1>0, <1>2, <1>6 DEF RspPending
  <2>4. Record(p, r).mut = Append(p.mut, Recorded(r))
    BY <1>0, <2>2, RecordIs
  <2> QED BY <2>2, <2>3, <2>4
<1>7. ASSUME Orderly, Starting PROVE c = "session" /\ g.flow = "SESS_MUT_AUTH"
  BY <1>0, <1>1, <1>2, <1>7 DEF RspPending
<1>8. Reply(Msg(m.ch, "ENCAPSULATED_REQUEST", g.id, 0, r))
  BY <1>1
<1>9. g.flow # "NONE" /\ (g.flow = ctx[c].flow \/ (ctx[c].flow = "NONE" /\ g.flow = "GENERAL"))
  BY <1>0, <1>1
<1> QED BY <1>0, <1>1, <1>4, <1>5, <1>6, <1>7, <1>8, <1>9, GoOnInv, ZenonT(40)

LEMMA FirstRefusedInv ==
    ASSUME NEW m, NEW c, NEW e, NEW p, CallsHandler(m, c, e, p),
           NEW f, NEW r, NEW g, NEW h, Makes(c, f, r, g, h),
           ctx' = [ctx EXCEPT ![c] = h], Reply(Error(m.ch, "UNSPECIFIED"))
    PROVE  EncapInv'
<1>1. ContextOk(c, h) /\ h.flow = "NONE" /\ ChainOk(h)
  BY HandlerIssues
<1>2. EncapInv /\ Handles(m) /\ c = Encap(m.ch)
  BY DEF CallsHandler
<1>3. PICK n : n = Error(m.ch, "UNSPECIFIED")
  BY Zenon
<1>4. n.ch = m.ch /\ n.code = "ERROR" /\ Reply(n)
  BY <1>3 DEF Error, Msg
<1> QED BY <1>1, <1>2, <1>4, CloseInv, ZenonT(40)

(* The handler has no request, or fails.                                   *)
LEMMA FirstEndedInv ==
    ASSUME NEW m, NEW c, NEW e, NEW p, CallsHandler(m, c, e, p),
           NEW f, ContextOk(c, f), OnTime => ChainOk(f), NEW n, Reply(n), n.ch = m.ch,
           \/ n.code = "ERROR"
           \/ n.code = "ENCAPSULATED_REQUEST" /\ n.body = NoRequest,
           ctx' = [ctx EXCEPT ![c] = Ended(f)]
    PROVE  EncapInv'
<1>1. PICK k : k = Ended(f)
  BY Zenon
<1>2. ContextOk(c, k) /\ k.flow = "NONE" /\ (OnTime => ChainOk(k))
  BY <1>1, EndedOk
<1>3. EncapInv /\ Handles(m) /\ c = Encap(m.ch)
  BY DEF CallsHandler
<1>4. ctx' = [ctx EXCEPT ![c] = k]
  BY <1>1
<1> QED BY <1>2, <1>3, <1>4, CloseInv, ZenonT(40)

LEMMA FirstRequestInv ==
    ASSUME NEW m, NEW c, NEW e, NEW p, CallsHandler(m, c, e, p),
           NEW x \in HandlerChoices(c, e, p), NEW f, f = Designated(e, x.slot),
           rsp' = IF x.do = "REQUEST" THEN Record(p, x.r) ELSE p,
           FirstAnswer(m, c, e, f, x)
    PROVE  EncapInv'
<1>r. PICK r, g, h : r = x.r /\ g = Issue(f, r) /\ h = Ended(g)
  BY Zenon
<1>0. /\ ContextOk(c, e) /\ Ready(e) /\ (OnTime => ChainOk(e)) /\ IsResponder(p)
      /\ e.flow \in {"BASIC_MUT_AUTH", "SESS_MUT_AUTH", "GENERAL"}
  BY DEF CallsHandler
<1>1. x.do = "REQUEST" => MayIssue(r) /\ r.off = 0
  BY <1>0, <1>r, HandlerIs
<1>2. /\ ContextOk(c, f) /\ f.flow = e.flow /\ f.id = e.id /\ Ready(f)
      /\ OnTime => ChainOk(f)
  BY <1>0, DesignatedOk DEF Ready
<1>3. x.do = "REQUEST" => Makes(c, f, r, g, h)
  BY <1>r, <1>1, <1>2, Zenon DEF Makes
<1>4. \A code : Error(m.ch, code).ch = m.ch /\ Error(m.ch, code).code = "ERROR"
  BY DEF Error, Msg
<1>6. CASE /\ x.do = "REQUEST" /\ Legal(e.flow, c, x.r.code)
           /\ ctx' = [ctx EXCEPT ![c] = Issue(f, x.r)]
           /\ Reply(Msg(m.ch, "ENCAPSULATED_REQUEST", e.id, 0, x.r))
  <2>1. Fits(e.flow, r.code)
    BY <1>r, <1>0, <1>6, LegalIs
  <2>2. /\ ctx' = [ctx EXCEPT ![c] = g] /\ rsp' = Record(p, r)
        /\ Reply(Msg(m.ch, "ENCAPSULATED_REQUEST", e.id, 0, r))
    BY <1>r, <1>6, Zenon
  <2>3. Makes(c, f, r, g, h) /\ f.flow = e.flow /\ f.id = e.id
    BY <1>2, <1>3, <1>6
  <2> QED BY <2>1, <2>2, <2>3, FirstIssuedInv
<1>7. CASE /\ x.do = "REQUEST" /\ ~Legal(e.flow, c, x.r.code)
           /\ ctx' = [ctx EXCEPT ![c] = Ended(Issue(f, x.r))]
           /\ Reply(Error(m.ch, "UNSPECIFIED"))
  BY <1>r, <1>3, <1>7, FirstRefusedInv, ZenonT(40)
<1>8. CASE \E code : ctx' = [ctx EXCEPT ![c] = Ended(f)] /\ Reply(Error(m.ch, code))
  <2>1. PICK code, n : n = Error(m.ch, code) /\ ctx' = [ctx EXCEPT ![c] = Ended(f)] /\ Reply(n)
    BY <1>8, Zenon
  <2>2. n.ch = m.ch /\ n.code = "ERROR"
    BY <1>4, <2>1, Zenon
  <2> QED BY <1>2, <2>1, <2>2, FirstEndedInv, ZenonT(40)
<1>10. CASE x.do = "ERROR" /\ ctx' = [ctx EXCEPT ![c] = f] /\ Reply(Error(m.ch, "HANDLER"))
  <2>1. /\ EncapInv /\ Handles(m) /\ c = Encap(m.ch)
        /\ m.code = "GET_ENCAPSULATED_REQUEST"
        /\ e.flow = ctx[c].flow \/ (ctx[c].flow = "NONE" /\ e.flow = "GENERAL")
    BY DEF CallsHandler
  <2> QED BY <1>2, <1>10, <2>1, StayInv, ZenonT(40)
<1>11. CASE x.do = "EMPTY" /\ ctx' = [ctx EXCEPT ![c] = Ended(f)]
            /\ Reply(Msg(m.ch, "ENCAPSULATED_REQUEST", e.id, 0, NoRequest))
  <2>1. PICK n : n = Msg(m.ch, "ENCAPSULATED_REQUEST", e.id, 0, NoRequest)
    BY Zenon
  <2>2. n.ch = m.ch /\ n.code = "ENCAPSULATED_REQUEST" /\ n.body = NoRequest /\ Reply(n)
    BY <1>11, <2>1 DEF Msg
  <2> QED BY <1>2, <1>11, <2>2, FirstEndedInv, ZenonT(40)
<1> QED BY <1>6, <1>7, <1>8, <1>10, <1>11, Zenon DEF FirstAnswer

(* The action, its local definitions as parameters.                        *)
GetStep(m, c, old, o, p) ==
    \/ Refuse(m)
    \/ /\ Deferred(old) /\ rsp' = p
       /\ ctx' = [ctx EXCEPT ![c] = IF o.sized THEN o ELSE [o EXCEPT !.flow = "NONE"]]
       /\ Reply(IF o.sized
                THEN Msg(m.ch, "ENCAPSULATED_REQUEST", o.id, 0,
                         Request("RESPOND_IF_READY", 0, 0, o.last.n))
                ELSE Error(m.ch, "UNSPECIFIED"))
       /\ UNCHANGED history
    \/ /\ ~Deferred(old)
       /\ history' = IF o.flow = "BASIC_MUT_AUTH" /\ rsp.auth /\ rsp.mut # <<>>
                     THEN history \cup {"KEPT"} ELSE history
       /\ \E x \in HandlerChoices(c, o, p) :
            /\ rsp' = IF x.do = "REQUEST" THEN Record(p, x.r) ELSE p
            /\ FirstAnswer(m, c, o, Designated(o, x.slot), x)
OpenedOrResumed(old) ==
    IF old.flow # "NONE" THEN old
    ELSE IF old.notReady THEN Resumed(old)
    ELSE [old EXCEPT !.flow = "GENERAL", !.id = 0, !.last = NoRequest, !.sized = FALSE]

LEMMA RespondGetEncapsulatedRequestInv ==
    ASSUME EncapInv, RespondGetEncapsulatedRequest PROVE EncapInv'
<1> DEFINE mm == Head(toRsp)
           cc == Encap(mm.ch)
<1>a. /\ Responds("GET_ENCAPSULATED_REQUEST")
      /\ GetStep(mm, cc, ctx[cc], OpenedOrResumed(ctx[cc]), ResetViaRequestCode(rsp))
  BY ZenonT(40) DEF RespondGetEncapsulatedRequest, GetStep, OpenedOrResumed, FirstAnswer, Ended,
               Designated, Deferred
<1>0. PICK m, c, old, o, e, p :
        /\ m = Head(toRsp) /\ c = Encap(m.ch) /\ old = ctx[c]
        /\ o = OpenedOrResumed(old) /\ e = Opened(old) /\ p = ResetViaRequestCode(rsp)
        /\ GetStep(m, c, old, o, p)
  BY <1>a, Zenon
<1>1. toRsp # <<>> /\ m.code = "GET_ENCAPSULATED_REQUEST" /\ UNCHANGED <<clear, req, call>>
  BY <1>a, <1>0, ZenonT(40) DEF Responds
<1>2. /\ ContextOk(c, old) /\ (OnTime => ChainOk(old))
  BY <1>0, <1>1, Taken
<1>3. IsResponder(rsp) /\ ChallengeVerifies
  BY DEF EncapInv, Shapes
<1>4. IsResponder(p) /\ (~rsp.auth \/ rsp.mut = <<>> => p.mut = <<>>)
  BY <1>0, <1>3, ResetIs
<1>5. CASE Refuse(m)
  BY <1>0, <1>1, <1>5, RefuseInv, SMTT(30)
<1>6. CASE /\ Deferred(old)
           /\ rsp' = p
           /\ ctx' = [ctx EXCEPT ![c] = IF o.sized THEN o ELSE [o EXCEPT !.flow = "NONE"]]
           /\ Reply(IF o.sized
                    THEN Msg(m.ch, "ENCAPSULATED_REQUEST", o.id, 0,
                             Request("RESPOND_IF_READY", 0, 0, o.last.n))
                    ELSE Error(m.ch, "UNSPECIFIED"))
           /\ UNCHANGED history
  <2>1. Handles(m)
    BY <1>0, <1>1, <1>3, <1>4, <1>6 DEF Handles, OnTime, ChallengeVerifies
  <2>2. o = Resumed(old)
    BY <1>0, <1>6 DEF Deferred, OpenedOrResumed
  <2> QED BY <1>0, <1>1, <1>6, <2>1, <2>2, ResumeInv, Zenon
<1>7. CASE /\ ~Deferred(old)
           /\ history' = IF o.flow = "BASIC_MUT_AUTH" /\ rsp.auth /\ rsp.mut # <<>>
                         THEN history \cup {"KEPT"} ELSE history
           /\ \E x \in HandlerChoices(c, o, p) :
                /\ rsp' = IF x.do = "REQUEST" THEN Record(p, x.r) ELSE p
                /\ FirstAnswer(m, c, o, Designated(o, x.slot), x)
  <2>0. o = e
    BY <1>0, <1>7, Zenon DEF Deferred, Opened, OpenedOrResumed
  <2>1. /\ ContextOk(c, e) /\ Ready(e)
        /\ e.flow \in {"BASIC_MUT_AUTH", "SESS_MUT_AUTH", "GENERAL"}
        /\ e.flow = old.flow \/ (old.flow = "NONE" /\ e.flow = "GENERAL")
        /\ ChainOk(old) => ChainOk(e)
    <3>1. ~Deferred(old) /\ e = Opened(old)
      BY <1>0, <1>7
    <3> QED BY <1>2, <3>1, OpenedOk, ZenonT(40)
  <2>2. OnTime' = OnTime /\ ChallengeVerifies'
    BY <1>3, <1>7, SMTT(30) DEF OnTime, ChallengeVerifies
  <2>3. Basic(e)' => p.mut = <<>>
    BY <1>4, <1>7, <2>0 DEF Basic
  <2>4. PICK x \in HandlerChoices(c, e, p) :
          /\ rsp' = IF x.do = "REQUEST" THEN Record(p, x.r) ELSE p
          /\ FirstAnswer(m, c, e, Designated(e, x.slot), x)
    BY <1>7, <2>0, Zenon
  <2>5. IsResponder(rsp')
    BY <1>4, <2>4, RecordIs
  <2>6. Handles(m)
    BY <1>0, <1>1, <2>2, <2>5 DEF Handles
  <2>7. PICK f : f = Designated(e, x.slot)
    BY SMTT(30)
  <2>8. /\ FirstAnswer(m, c, e, f, x) /\ c = Encap(m.ch) /\ (OnTime => ChainOk(e))
        /\ e.flow = ctx[c].flow \/ (ctx[c].flow = "NONE" /\ e.flow = "GENERAL")
    BY <1>0, <1>2, <2>1, <2>4, <2>7, Zenon
  <2>9. CallsHandler(m, c, e, p)
    BY <1>1, <1>4, <2>1, <2>3, <2>6, <2>8, ZenonT(40) DEF CallsHandler
  <2> QED BY <2>4, <2>7, <2>8, <2>9, FirstRequestInv, ZenonT(40)
<1> QED BY <1>0, <1>5, <1>6, <1>7, Zenon DEF GetStep
=============================================================================
