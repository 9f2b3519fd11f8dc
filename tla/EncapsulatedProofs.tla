------------------------- MODULE EncapsulatedProofs -------------------------
(***************************************************************************)
(* The encapsulated request flows, for all chains, slots, portions, sizes  *)
(* of request_id, numbers of calls and requests, and faults.               *)
(***************************************************************************)
EXTENDS Encapsulated, TLAPS

-----------------------------------------------------------------------------
(* The inductive invariant.                                                *)

Channels == {"clear", "session"}
RequestCodes == {"GET_DIGESTS", "GET_CERTIFICATE", "CHALLENGE", "SEND_EVENT"}
AnyRequest(m) == m.code \in {"ENCAPSULATED_REQUEST", "ENCAPSULATED_RESPONSE_ACK"}
FinalAck == {"-", "REQ_SLOT_NUMBER"}

(* Sequences of anything, and records by their fields alone.               *)
IsSeq(s) == \E S : s \in Seq(S)
IsRequest(r) == r = Request(r.code, r.slot, r.off, r.n) /\ r.off \in Nat
IsContext(e) ==
    DOMAIN e = {"flow", "id", "last", "sized", "slot", "buf", "total", "notReady", "resume",
                "designated"}
IsResponder(p) ==
    DOMAIN p = {"auth", "session", "asked", "known", "mut"} /\ IsSeq(p.mut)
IsRequester(q) == DOMAIN q = {"session", "asked", "mut"} /\ IsSeq(q.mut)
IsCall(k) == DOMAIN k = {"api", "ch", "pc", "id", "slot", "status"}

(* A request to answer: one of the handler's, or RESPOND_IF_READY.         *)
Answerable(r) ==
    /\ IsRequest(r) /\ r.code \in RequestCodes \cup {"RESPOND_IF_READY"}
    /\ r.code = "GET_CERTIFICATE" => r.slot \in Slots \cup EmptySlots
    /\ r.code = "RESPOND_IF_READY" => r.slot = 0 /\ r.off = 0

(* An answer: a CERTIFICATE carries the units of the chain from the offset *)
(* asked for, and the number of those left.                                *)
IsAnswer(a) ==
    /\ a = [code |-> a.code, slot |-> a.re.slot, data |-> a.data, rem |-> a.rem,
            sig |-> a.sig, re |-> a.re]
    /\ IsRequest(a.re) /\ a.re.code \in RequestCodes
    /\ a.code \in {"DIGESTS", "CERTIFICATE", "CHALLENGE_AUTH", "EVENT_ACK", "ERROR",
                   "RESPONSE_NOT_READY"}
    /\ a.code = "RESPONSE_NOT_READY" => a.re.code = "SEND_EVENT"
    /\ a.code # "CHALLENGE_AUTH" => a.sig = <<>>
    /\ a.code # "CERTIFICATE" => a.data = <<>>
    /\ a.code = "CERTIFICATE" =>
         LET s == a.re.slot
             end == a.re.off + Len(a.data) IN
         /\ a.re.code = "GET_CERTIFICATE" /\ s \in Slots
         /\ Len(a.data) \in Nat /\ a.rem \in Nat /\ end + a.rem = Chains[s]
         /\ a.data = SubSeq(Chain(s), a.re.off + 1, end)

(* What a queue may hold.                                                  *)
RspMsg(m) ==
    /\ m.ch \in Channels
    /\ m.code = "DELIVER_ENCAPSULATED_RESPONSE" => IsAnswer(m.body)
ReqMsg(m) ==
    /\ m.ch \in Channels
    /\ m.code = "ENCAPSULATED_REQUEST" => m.body = NoRequest \/ Answerable(m.body)
    /\ m.code = "ENCAPSULATED_RESPONSE_ACK" => m.body.code \in FinalAck \/ Answerable(m.body)
RspQueue == IsSeq(toRsp) /\ \A i \in 1..Len(toRsp) : RspMsg(toRsp[i])
ReqQueue == IsSeq(toReq) /\ \A i \in 1..Len(toReq) : ReqMsg(toReq[i])

(* A context: who may leave which request outstanding.                     *)
ContextOk(c, e) ==
    /\ IsContext(e) /\ IsRequest(e.last) /\ e.last.code \in RequestCodes \cup {"-"}
    /\ e.id \in 0..MaxId /\ IsSeq(e.buf) /\ Len(e.buf) <= BufferSize
    /\ e.flow \in {"NONE", "BASIC_MUT_AUTH", "SESS_MUT_AUTH", "GENERAL"}
    /\ e.flow = "BASIC_MUT_AUTH" => c = "clear"
    /\ e.flow = "SESS_MUT_AUTH" => c = "session"
    /\ e.notReady \in BOOLEAN
    /\ e.notReady => e.resume = "GENERAL" /\ e.flow = "NONE" /\ e.last.code = "SEND_EVENT"
    /\ e.last.code = "CHALLENGE" => e.flow \in {"NONE", "BASIC_MUT_AUTH"}
    /\ e.last.code = "SEND_EVENT" =>
         e.flow \in {"NONE", "GENERAL"} /\ e.last.slot = 0 /\ e.last.off = 0
    /\ e.last.code = "GET_CERTIFICATE" =>
         e.last.slot = e.slot /\ e.slot \in Slots \cup EmptySlots

(* Session-based mutual authentication in the clear excludes a flow        *)
(* outside of sessions.                                                    *)
Contexts ==
    /\ DOMAIN ctx = Channels
    /\ \A c \in Channels : ContextOk(c, ctx[c])
    /\ clear /\ ctx["session"].flow = "SESS_MUT_AUTH" => ctx["clear"].flow = "NONE"

ChainOk(e) ==
    e.last.code = "GET_CERTIFICATE" =>
      \/ e.buf = <<>>
      \/ /\ e.slot \in Slots /\ Len(e.buf) <= Chains[e.slot]
         /\ e.buf = SubSeq(Chain(e.slot), 1, Len(e.buf))
ChainsOk == OnTime => \A c \in Channels : ChainOk(ctx[c])

(* The call in progress.                                                   *)
CallOk ==
    /\ IsCall(call) /\ call.ch \in Channels
    /\ call.pc \in {"idle", "begin", "challenge", "request", "ack", "finish"}
    /\ call.pc # "idle" =>
         \/ call.api = "CHALLENGE" /\ call.ch = "clear"
         \/ call.api = "ENCAP" /\ (call.ch = "session" => req.session = "ESTABLISHED")
         \/ call.api = "SESSION" /\ call.ch = "session" /\ req.session = "HANDSHAKING"
    /\ call.pc = "finish" => call.api = "SESSION"
    /\ call.pc = "challenge" => call.api = "CHALLENGE"
    /\ call.api = "SESSION" /\ call.pc \notin {"idle", "finish"} => call.slot = 0

(* No earlier message is under way: none was ever abandoned, or a session  *)
(* is being started.                                                       *)
Starting == call.api = "SESSION" /\ call.pc # "idle"
Orderly == OnTime \/ Starting

(* One message is in flight at most, and only while a call waits.          *)
OneInFlight ==
    Orderly =>
    /\ \/ toRsp = <<>> /\ toReq = <<>>
       \/ (\E m : toRsp = <<m>>) /\ toReq = <<>>
       \/ (\E m : toReq = <<m>>) /\ toRsp = <<>>
    /\ call.pc \in {"idle", "begin"} => toRsp = <<>> /\ toReq = <<>>

(* What the Responder is waiting for when m is under way to it.            *)
Basic(e) == e.flow = "BASIC_MUT_AUTH" /\ history \cap {"LATE", "KEPT"} = {}
RspPending(m) ==
    LET e == ctx[Encap(m.ch)] IN
    /\ m.code = "GET_ENCAPSULATED_REQUEST" => req.mut = <<>>
    /\ m.code = "DELIVER_ENCAPSULATED_RESPONSE" =>
         /\ e.flow # "NONE" /\ m.id = e.id /\ m.body.re = e.last
         /\ m.body.code = "CERTIFICATE" => m.body.re.off = Len(e.buf)
         /\ Basic(e) /\ m.body.code \in {"DIGESTS", "CERTIFICATE"} =>
              req.mut = Append(rsp.mut, Answered(m.body))
         /\ Basic(e) /\ m.body.code = "CHALLENGE_AUTH" =>
              m.body.sig = Append(rsp.mut, Answered([m.body EXCEPT !.sig = <<>>]))
    /\ Starting /\ m.code # "FINISH" =>
         ctx["session"].flow = "SESS_MUT_AUTH" /\ Encap(m.ch) = "session"

(* What the Responder is waiting for when m, its answer, is under way.     *)
Outstanding(e, r) ==
    \/ r = e.last
    \/ r = Request("RESPOND_IF_READY", 0, 0, e.last.n) /\ e.last.code = "SEND_EVENT"
ReqPending(m) ==
    LET e == ctx[Encap(m.ch)] IN
    /\ AnyRequest(m) /\ m.body.code \notin FinalAck =>
         /\ e.flow # "NONE" /\ m.id = e.id /\ Outstanding(e, m.body)
         /\ m.body.code = "GET_CERTIFICATE" => m.body.off = Len(e.buf)
         /\ Basic(e) => rsp.mut = Append(req.mut, Recorded(m.body))
         /\ Starting => ctx["session"].flow = "SESS_MUT_AUTH"
    /\ m.code = "ENCAPSULATED_RESPONSE_ACK" /\ m.body.code \in FinalAck =>
         /\ e.flow = "NONE"
         /\ Starting => /\ ctx["session"].flow = "NONE"
                        /\ m.body.slot = ctx["session"].designated
    /\ m.code = "CHALLENGE_AUTH" /\ m.body.code # "MUT_AUTH" => ctx[Encap("clear")].flow = "NONE"
    /\ m.code = "ERROR" /\ m.body.code = "NO_PENDING_REQUESTS" => e.flow = "NONE"
    /\ m.code = "FINISH_RSP" => ctx["session"].flow = "NONE"
Pending ==
    Orderly =>
    /\ \A m : toRsp = <<m>> => RspPending(m)
    /\ \A m : toReq = <<m>> => ReqPending(m)
    /\ Starting /\ call.pc = "begin" =>
         LET e == ctx["session"] IN
         /\ e.flow = "SESS_MUT_AUTH"
         /\ req.asked = "DIGESTS" => e.id = 0 /\ e.last = Request("GET_DIGESTS", 0, 0, 0)

(* A FINISH is the first message under way.                                *)
FinishFirst == \A i \in 1..Len(toRsp) : toRsp[i].code = "FINISH" => i = 1

Shapes == clear \in BOOLEAN /\ IsResponder(rsp) /\ IsRequester(req)

EncapInv ==
    /\ Shapes /\ CallOk /\ RspQueue /\ ReqQueue
    /\ Contexts /\ ChainsOk
    /\ OneInFlight /\ Pending
    /\ FinishFirst /\ FinishAfterFlow
    /\ ChallengeVerifies /\ SuccessEndsFlow

-----------------------------------------------------------------------------
(* Sequences.                                                              *)

LEMMA NoneSeq == IsSeq(<<>>)
<1>1. <<>> \in Seq({})
  OBVIOUS
<1> QED BY <1>1 DEF IsSeq

LEMMA LenNat == ASSUME NEW s, IsSeq(s) PROVE Len(s) \in Nat
BY DEF IsSeq

LEMMA AppendSeq ==
    ASSUME NEW s, IsSeq(s), NEW x
    PROVE  /\ IsSeq(Append(s, x)) /\ Append(s, x) # <<>>
           /\ Len(Append(s, x)) = Len(s) + 1
           /\ Append(s, x)[Len(s) + 1] = x
           /\ \A i \in 1..Len(s) : Append(s, x)[i] = s[i]
<1>1. PICK S : s \in Seq(S)
  BY DEF IsSeq
<1>2. s \in Seq(S \cup {x}) /\ x \in S \cup {x}
  BY <1>1
<1>3. Append(s, x) \in Seq(S \cup {x})
  BY <1>2
<1> QED BY <1>2, <1>3 DEF IsSeq

LEMMA TailSeq ==
    ASSUME NEW s, IsSeq(s), s # <<>>
    PROVE  /\ IsSeq(Tail(s)) /\ Len(s) \in Nat \ {0} /\ Len(Tail(s)) = Len(s) - 1
           /\ Head(s) = s[1]
           /\ \A i \in 1..Len(Tail(s)) : Tail(s)[i] = s[i + 1]
<1>1. PICK S : s \in Seq(S)
  BY DEF IsSeq
<1>2. Tail(s) \in Seq(S) /\ Len(s) # 0
  BY <1>1
<1> QED BY <1>1, <1>2 DEF IsSeq

LEMMA AppendTwo ==
    ASSUME NEW s, IsSeq(s), NEW x, NEW y
    PROVE  s \o <<x, y>> = Append(Append(s, x), y)
<1>1. PICK S : s \in Seq(S)
  BY DEF IsSeq
<1>2. s \in Seq(S \cup {x, y}) /\ <<x, y>> \in Seq(S \cup {x, y})
  BY <1>1
<1> QED BY <1>2

LEMMA ConcatSeq ==
    ASSUME NEW s, IsSeq(s), NEW t, IsSeq(t)
    PROVE  IsSeq(s \o t) /\ Len(s \o t) = Len(s) + Len(t)
<1>1. PICK S, T : s \in Seq(S) /\ t \in Seq(T)
  BY DEF IsSeq
<1>2. s \in Seq(S \cup T) /\ t \in Seq(S \cup T)
  BY <1>1
<1> QED BY <1>2 DEF IsSeq

(* The units of a chain, and two consecutive portions of it.               *)
LEMMA ChainSeq ==
    ASSUME NEW s \in Slots
    PROVE  /\ Chain(s) \in Seq({s} \X Nat) /\ Len(Chain(s)) = Chains[s]
           /\ Chains[s] \in Nat \ {0}
BY ConstantsAssumption DEF Chain

LEMMA SameElements ==
    ASSUME NEW S, NEW t \in Seq(S), NEW u \in Seq(S), Len(t) = Len(u),
           \A i \in 1 .. Len(t) : t[i] = u[i]
    PROVE  t = u
<1>1. t \in [1 .. Len(t) -> S] /\ u \in [1 .. Len(u) -> S]
  OBVIOUS
<1> QED BY <1>1

LEMMA Portions ==
    ASSUME NEW s \in Slots, NEW a \in Nat, NEW b \in Nat, a <= b, b <= Chains[s]
    PROVE  /\ IsSeq(SubSeq(Chain(s), a + 1, b)) /\ Len(SubSeq(Chain(s), a + 1, b)) = b - a
           /\ SubSeq(Chain(s), 1, a) \o SubSeq(Chain(s), a + 1, b) = SubSeq(Chain(s), 1, b)
<1>1. Chain(s) \in Seq({s} \X Nat) /\ Len(Chain(s)) = Chains[s] /\ Chains[s] \in Nat
  BY ChainSeq
<1>2. /\ SubSeq(Chain(s), a + 1, b) \in Seq({s} \X Nat)
      /\ Len(SubSeq(Chain(s), a + 1, b)) = b - a
  BY <1>1
<1>3. /\ SubSeq(Chain(s), 1, a) \in Seq({s} \X Nat) /\ Len(SubSeq(Chain(s), 1, a)) = a
      /\ SubSeq(Chain(s), 1, b) \in Seq({s} \X Nat) /\ Len(SubSeq(Chain(s), 1, b)) = b
  BY <1>1
<1>4. SubSeq(Chain(s), 1, a) \o SubSeq(Chain(s), a + 1, b) = SubSeq(Chain(s), 1, b)
  <2> DEFINE t == SubSeq(Chain(s), 1, a)
             u == SubSeq(Chain(s), a + 1, b)
             v == SubSeq(Chain(s), 1, b)
  <2>1. /\ t \o u \in Seq({s} \X Nat) /\ Len(t \o u) = b
    BY <1>2, <1>3
  <2>2. ASSUME NEW i \in 1 .. b PROVE (t \o u)[i] = v[i]
    <3>1. CASE i <= a
      <4>1. (t \o u)[i] = t[i] /\ t[i] = Chain(s)[i] /\ v[i] = Chain(s)[i]
        BY <1>1, <1>2, <1>3, <3>1
      <4> QED BY <4>1
    <3>2. CASE i > a
      <4>1. (t \o u)[i] = u[i - a]
        BY <1>2, <1>3, <3>2
      <4>2. i - a \in 1 .. b - a /\ i - a + (a + 1) - 1 = i
        BY <3>2
      <4>3. u[i - a] = Chain(s)[i]
        BY <1>1, <4>2
      <4>4. v[i] = Chain(s)[i]
        BY <1>1
      <4> QED BY <4>1, <4>3, <4>4
    <3> QED BY <3>1, <3>2
  <2>3. v \in Seq({s} \X Nat) /\ Len(v) = b
    BY <1>3
  <2> HIDE DEF t, u, v
  <2>4. PICK w, T : w = t \o u /\ T = {s} \X Nat
    BY Zenon
  <2>5. w \in Seq(T) /\ v \in Seq(T) /\ Len(w) = Len(v) /\ \A i \in 1 .. Len(w) : w[i] = v[i]
    <3>1. w \in Seq(T) /\ Len(w) = b
      BY <2>1, <2>4
    <3>2. v \in Seq(T) /\ Len(v) = b
      BY <2>3, <2>4
    <3>3. \A i \in 1 .. b : w[i] = v[i]
      BY <2>2, <2>4, Zenon
    <3> QED BY <3>1, <3>2, <3>3
  <2>6. w = v
    BY <2>5, SameElements
  <2> QED BY <2>4, <2>6, Zenon DEF t, u, v
<1> QED BY <1>2, <1>4, Zenon DEF IsSeq

-----------------------------------------------------------------------------
(* The Requester's answer x to the request r.                              *)
Answers(mut, r, x) ==
    /\ IsAnswer(x.a) /\ IsSeq(x.mut)
    /\ x.a.re = IF r.code = "RESPOND_IF_READY" THEN Request("SEND_EVENT", 0, 0, r.n) ELSE r
    /\ x.a.code \in {"DIGESTS", "CERTIFICATE"} =>
         x.mut = Append(Append(mut, Recorded(r)), Answered(x.a))
    /\ x.a.code = "CHALLENGE_AUTH" =>
         x.a.sig = Append(Append(mut, Recorded(r)), Answered([x.a EXCEPT !.sig = <<>>]))

(* The answers that the transcript does not record.                        *)
LEMMA OtherAnswers ==
    ASSUME NEW mut, IsSeq(mut), NEW r, NEW q, IsRequest(q), q.code \in RequestCodes,
           q = IF r.code = "RESPOND_IF_READY" THEN Request("SEND_EVENT", 0, 0, r.n) ELSE r,
           NEW code \in {"EVENT_ACK", "ERROR", "RESPONSE_NOT_READY"},
           code = "RESPONSE_NOT_READY" => q.code = "SEND_EVENT"
    PROVE  Answers(mut, r, [a |-> Response(code, q, <<>>, 0), mut |-> mut])
<1>1. Response(code, q, <<>>, 0) =
        [code |-> code, slot |-> q.slot, data |-> <<>>, rem |-> 0, sig |-> <<>>, re |-> q]
  BY DEF Response
<1>2. IsAnswer(Response(code, q, <<>>, 0))
  BY <1>1 DEF IsAnswer
<1> QED BY <1>1, <1>2 DEF Answers

(* The answers that it does.                                               *)
LEMMA RecordedAnswers ==
    ASSUME NEW mut, IsSeq(mut), NEW r, r.code # "RESPOND_IF_READY", NEW a, IsAnswer(a), a.re = r,
           a.code \in {"DIGESTS", "CERTIFICATE"}
    PROVE  Answers(mut, r, [a |-> a, mut |-> mut \o <<Recorded(r), Answered(a)>>])
<1>1. mut \o <<Recorded(r), Answered(a)>> = Append(Append(mut, Recorded(r)), Answered(a))
  BY AppendTwo
<1>2. IsSeq(Append(Append(mut, Recorded(r)), Answered(a)))
  BY AppendSeq
<1> QED BY <1>1, <1>2, Zenon DEF Answers

LEMMA CertificateIs ==
    ASSUME NEW r, IsRequest(r), r.code = "GET_CERTIFICATE", r.slot \in Slots,
           NEW data, Len(data) \in Nat, NEW rem \in Nat,
           r.off + Len(data) + rem = Chains[r.slot],
           data = SubSeq(Chain(r.slot), r.off + 1, r.off + Len(data))
    PROVE  IsAnswer(Response("CERTIFICATE", r, data, rem))
<1> DEFINE a == Response("CERTIFICATE", r, data, rem)
<1>1. /\ a = [code |-> "CERTIFICATE", slot |-> r.slot, data |-> data, rem |-> rem,
              sig |-> <<>>, re |-> r]
      /\ a.code = "CERTIFICATE" /\ a.data = data /\ a.rem = rem /\ a.sig = <<>> /\ a.re = r
  BY DEF Response
<1> HIDE DEF a
<1> QED BY <1>1, Zenon DEF IsAnswer, RequestCodes, a

(* Every answer is to the request: a portion of the chain from the offset  *)
(* asked for, a signature over the transcript, or the deferred event's.    *)
LEMMA AnswerIs ==
    ASSUME NEW mut, IsSeq(mut), NEW r, Answerable(r), NEW x \in Answer(mut, r)
    PROVE  Answers(mut, r, x)
<1> DEFINE Rest(code) == [a |-> Response(code, r, <<>>, 0), mut |-> mut]
<1>0. IsRequest(r) /\ r.code \in RequestCodes \cup {"RESPOND_IF_READY"}
  BY DEF Answerable
<1>1. CASE r.code = "GET_DIGESTS"
  <2> DEFINE a == Response("DIGESTS", r, <<>>, 0)
  <2>1. x = [a |-> a, mut |-> mut \o <<Recorded(r), Answered(a)>>]
    BY <1>1, Zenon DEF Answer
  <2>2. IsAnswer(a) /\ a.re = r /\ a.code = "DIGESTS"
    BY <1>0, <1>1 DEF IsAnswer, Response, RequestCodes
  <2> HIDE DEF a
  <2> QED BY <1>1, <2>1, <2>2, RecordedAnswers, Zenon
<1>2. CASE r.code = "GET_CERTIFICATE"
  <2> DEFINE end == IF r.off + Portion > Chains[r.slot] THEN Chains[r.slot]
                    ELSE r.off + Portion
             data == SubSeq(Chain(r.slot), r.off + 1, end)
             rem == Chains[r.slot] - end
             a == Response("CERTIFICATE", r, data, rem)
  <2>1. \/ x = Rest("ERROR")
        \/ /\ r.slot \notin EmptySlots /\ ~(r.off >= Chains[r.slot])
           /\ x = [a |-> a, mut |-> mut \o <<Recorded(r), Answered(a)>>]
    BY <1>2, Zenon DEF Answer
  <2>2. CASE x = Rest("ERROR")
    BY <1>0, <1>2, <2>2, OtherAnswers, Zenon DEF RequestCodes
  <2>3. CASE /\ r.slot \notin EmptySlots /\ ~(r.off >= Chains[r.slot])
             /\ x = [a |-> a, mut |-> mut \o <<Recorded(r), Answered(a)>>]
    <3>1. r.slot \in Slots /\ r.off \in Nat /\ Chains[r.slot] \in Nat
      BY <1>2, <2>3, ConstantsAssumption DEF Answerable, IsRequest
    <3>2. end \in Nat /\ r.off <= end /\ end <= Chains[r.slot]
      BY <2>3, <3>1, ConstantsAssumption, SMTT(30)
    <3> HIDE DEF end
    <3>3. Len(data) \in Nat /\ r.off + Len(data) = end
      BY <3>1, <3>2, Portions
    <3>4. rem \in Nat /\ r.off + Len(data) + rem = Chains[r.slot]
      BY <3>1, <3>2, <3>3
    <3>5. data = SubSeq(Chain(r.slot), r.off + 1, r.off + Len(data))
      BY <3>3, Zenon
    <3> HIDE DEF data, rem
    <3>6. IsAnswer(a)
      BY <1>0, <1>2, <3>1, <3>3, <3>4, <3>5, CertificateIs, Zenon
    <3>7. a.re = r /\ a.code = "CERTIFICATE"
      BY DEF Response
    <3> HIDE DEF a
    <3> QED BY <1>2, <2>3, <3>6, <3>7, RecordedAnswers, ZenonT(40)
  <2> QED BY <2>1, <2>2, <2>3
<1>3. CASE r.code = "CHALLENGE"
  <2> DEFINE a == Response("CHALLENGE_AUTH", r, <<>>, 0)
             sig == mut \o <<Recorded(r), Answered(a)>>
  <2>1. x = [a |-> [a EXCEPT !.sig = sig], mut |-> <<>>]
    BY <1>3, Zenon DEF Answer
  <2>2. sig = Append(Append(mut, Recorded(r)), Answered(a))
    BY AppendTwo
  <2> HIDE DEF sig
  <2> DEFINE b == [a EXCEPT !.sig = sig]
  <2>3. b = [code |-> "CHALLENGE_AUTH", slot |-> r.slot, data |-> <<>>, rem |-> 0,
             sig |-> sig, re |-> r]
    BY DEF Response
  <2> HIDE DEF b
  <2>4. [b EXCEPT !.sig = <<>>] = a
    BY <2>3 DEF Response
  <2>5. IsAnswer(b) /\ b.re = r /\ b.code = "CHALLENGE_AUTH" /\ b.sig = sig
    BY <1>0, <1>3, <2>3 DEF IsAnswer, RequestCodes
  <2> HIDE DEF a
  <2>6. x.a = b /\ x.mut = <<>>
    BY <2>1 DEF b
  <2> QED BY <1>3, <2>2, <2>4, <2>5, <2>6, NoneSeq, SMTT(30) DEF Answers
<1>4. CASE r.code = "SEND_EVENT"
  <2>1. PICK code \in {"EVENT_ACK", "ERROR", "RESPONSE_NOT_READY"} : x = Rest(code)
    BY <1>4, Zenon DEF Answer
  <2> QED BY <1>0, <1>4, <2>1, OtherAnswers, Zenon DEF RequestCodes
<1>5. CASE r.code = "RESPOND_IF_READY"
  <2> DEFINE q == [r EXCEPT !.code = "SEND_EVENT"]
  <2>1. PICK code \in {"EVENT_ACK", "RESPONSE_NOT_READY"} :
          x = [a |-> Response(code, q, <<>>, 0), mut |-> mut]
    BY <1>5, Zenon DEF Answer
  <2>2. q = Request("SEND_EVENT", 0, 0, r.n)
    BY <1>5 DEF Answerable, IsRequest, Request
  <2>3. IsRequest(q) /\ q.code = "SEND_EVENT"
    BY <2>2 DEF IsRequest, Request
  <2> HIDE DEF q
  <2> QED BY <1>5, <2>1, <2>2, <2>3, OtherAnswers, Zenon DEF RequestCodes
<1> QED BY <1>0, <1>1, <1>2, <1>3, <1>4, <1>5 DEF RequestCodes

-----------------------------------------------------------------------------
(* The queues.                                                             *)

LEMMA RspHead ==
    ASSUME RspQueue, toRsp # <<>>
    PROVE  RspMsg(Head(toRsp))
BY TailSeq DEF RspQueue

LEMMA ReqHead ==
    ASSUME ReqQueue, toReq # <<>>
    PROVE  ReqMsg(Head(toReq))
BY TailSeq DEF ReqQueue

LEMMA RspAppend ==
    ASSUME RspQueue, NEW m, RspMsg(m), toRsp' = Append(toRsp, m)
    PROVE  RspQueue'
<1> DEFINE t == Append(toRsp, m)
<1>1. /\ IsSeq(t) /\ Len(t) = Len(toRsp) + 1 /\ t[Len(toRsp) + 1] = m
      /\ \A i \in 1..Len(toRsp) : t[i] = toRsp[i]
      /\ Len(toRsp) \in Nat
  BY AppendSeq, LenNat DEF RspQueue
<1> HIDE DEF t
<1>2. \A i \in 1..Len(t) : RspMsg(t[i])
  BY <1>1 DEF RspQueue
<1> QED BY <1>1, <1>2 DEF RspQueue, t

LEMMA ReqAppend ==
    ASSUME ReqQueue, NEW m, ReqMsg(m), toReq' = Append(toReq, m)
    PROVE  ReqQueue'
<1> DEFINE t == Append(toReq, m)
<1>1. /\ IsSeq(t) /\ Len(t) = Len(toReq) + 1 /\ t[Len(toReq) + 1] = m
      /\ \A i \in 1..Len(toReq) : t[i] = toReq[i]
      /\ Len(toReq) \in Nat
  BY AppendSeq, LenNat DEF ReqQueue
<1> HIDE DEF t
<1>2. \A i \in 1..Len(t) : ReqMsg(t[i])
  BY <1>1 DEF ReqQueue
<1> QED BY <1>1, <1>2 DEF ReqQueue, t

LEMMA ReqTail ==
    ASSUME ReqQueue, toReq # <<>>, toReq' = Tail(toReq)
    PROVE  ReqQueue'
BY TailSeq DEF ReqQueue

(* Once the first message is gone, no FINISH is under way.                 *)
LEMMA RspTail ==
    ASSUME RspQueue, toRsp # <<>>, toRsp' = Tail(toRsp), FinishFirst
    PROVE  RspQueue' /\ FinishFirst' /\ FinishAfterFlow'
<1> DEFINE t == Tail(toRsp)
<1>1. /\ IsSeq(t) /\ Len(toRsp) \in Nat \ {0} /\ Len(t) = Len(toRsp) - 1
      /\ \A i \in 1..Len(t) : t[i] = toRsp[i + 1]
  BY TailSeq DEF RspQueue
<1> HIDE DEF t
<1>2. ASSUME NEW i \in 1..Len(t) PROVE RspMsg(t[i]) /\ t[i].code # "FINISH"
  <2>1. i + 1 \in 1..Len(toRsp) /\ i + 1 # 1 /\ t[i] = toRsp[i + 1]
    BY <1>1
  <2> QED BY <2>1 DEF RspQueue, FinishFirst
<1> QED BY <1>1, <1>2 DEF RspQueue, FinishFirst, FinishAfterFlow, t

(* Any other message leaves a FINISH where it is.                          *)
LEMMA FinishKept ==
    ASSUME RspQueue, FinishFirst, FinishAfterFlow, UNCHANGED ctx,
           NEW m, m.code # "FINISH", toRsp' = Append(toRsp, m)
    PROVE  FinishFirst' /\ FinishAfterFlow'
<1> DEFINE t == Append(toRsp, m)
<1>1. /\ Len(t) = Len(toRsp) + 1 /\ t[Len(toRsp) + 1] = m
      /\ \A i \in 1..Len(toRsp) : t[i] = toRsp[i]
      /\ Len(toRsp) \in Nat
  BY AppendSeq, LenNat DEF RspQueue
<1> HIDE DEF t
<1>2. ASSUME NEW i \in 1..Len(t), t[i].code = "FINISH"
      PROVE  i \in 1..Len(toRsp) /\ t[i] = toRsp[i]
  BY <1>1, <1>2
<1> QED BY <1>2 DEF FinishFirst, FinishAfterFlow, t

-----------------------------------------------------------------------------
(* Initially, and when the Requester calls.                                *)

LEMMA NoFlowOk ==
    ASSUME NEW c, NEW last, IsRequest(last), last.code \in {"GET_DIGESTS", "-"}
    PROVE  /\ ContextOk(c, NoFlow) /\ ChainOk(NoFlow)
           /\ ContextOk("session", InitEncapState(NoFlow, "SESS_MUT_AUTH", last))
           /\ ChainOk(InitEncapState(NoFlow, "SESS_MUT_AUTH", last))
<1> DEFINE e == InitEncapState(NoFlow, "SESS_MUT_AUTH", last)
<1>1. IsRequest(NoRequest) /\ NoRequest.code = "-"
  BY DEF IsRequest, NoRequest, Request
<1>2. IsSeq(<<>>) /\ Len(<<>>) = 0 /\ 0 \in 0..MaxId /\ 0 <= BufferSize
  BY NoneSeq, ConstantsAssumption
<1>3. IsContext(NoFlow)
  BY DEF IsContext, NoFlow
<1>4. ContextOk(c, NoFlow) /\ ChainOk(NoFlow)
  BY <1>1, <1>2, <1>3 DEF ContextOk, ChainOk, NoFlow, RequestCodes
<1>5. /\ e.flow = "SESS_MUT_AUTH" /\ e.id = 0 /\ e.last = last /\ e.buf = <<>>
      /\ e.notReady = FALSE /\ IsContext(e)
  BY DEF InitEncapState, IsContext, NoFlow
<1> HIDE DEF e
<1>6. ContextOk("session", e) /\ ChainOk(e)
  BY <1>2, <1>5, Zenon DEF ContextOk, ChainOk, RequestCodes
<1> QED BY <1>4, <1>6 DEF e

LEMMA SameContexts ==
    ASSUME Contexts, ChainsOk, UNCHANGED <<clear, ctx>>, OnTime' => OnTime
    PROVE  Contexts' /\ ChainsOk'
BY DEF Contexts, ChainsOk

LEMMA InitInv == ASSUME Init PROVE EncapInv
<1>1. ctx = [c \in {"clear", "session"} |-> NoFlow] /\ clear \in ClearHandshakes
  BY DEF Init
<1>2. /\ toRsp = <<>> /\ toReq = <<>> /\ history = {}
      /\ rsp = [auth |-> FALSE, session |-> "NONE", asked |-> "-", known |-> {}, mut |-> <<>>]
      /\ req = [session |-> "NONE", asked |-> "-", mut |-> <<>>]
      /\ call = [api |-> "-", ch |-> "clear", pc |-> "idle", id |-> 0, slot |-> 0,
                 status |-> "-"]
  BY DEF Init
<1>3. IsRequest(NoRequest) /\ NoRequest.code = "-"
  BY DEF IsRequest, NoRequest, Request
<1>4. \A c \in Channels : ctx[c] = NoFlow /\ ContextOk(c, NoFlow) /\ ChainOk(NoFlow)
  BY <1>1, <1>3, NoFlowOk DEF Channels
<1>5. Contexts /\ ChainsOk
  BY <1>1, <1>4 DEF Contexts, ChainsOk, NoFlow, Channels
<1>6. Shapes /\ CallOk
  BY <1>1, <1>2, NoneSeq, ConstantsAssumption
  DEF Shapes, CallOk, IsResponder, IsRequester, IsCall, Channels
<1>7. RspQueue /\ ReqQueue /\ FinishFirst /\ FinishAfterFlow
  BY <1>2, NoneSeq DEF RspQueue, ReqQueue, FinishFirst, FinishAfterFlow
<1>8. OneInFlight /\ Pending
  BY <1>2, SMTT(30) DEF OneInFlight, Pending, Starting
<1> QED
  BY <1>2, <1>5, <1>6, <1>7, <1>8 DEF EncapInv, ChallengeVerifies, SuccessEndsFlow

LEMMA StartChallengeInv == ASSUME EncapInv, StartChallenge PROVE EncapInv'
<1> DEFINE m0 == Msg("clear", "CHALLENGE", 0, 0, NoRequest)
<1>1. /\ call' = [api |-> "CHALLENGE", ch |-> "clear", pc |-> "challenge", id |-> 0, slot |-> 0,
                  status |-> "-"]
      /\ call.pc = "idle" /\ toRsp' = Append(toRsp, m0)
      /\ UNCHANGED <<clear, ctx, rsp, req, toReq, history>>
  BY DEF StartChallenge, NewCall
<1>2. Shapes' /\ CallOk' /\ ~Starting'
  BY <1>1 DEF EncapInv, Shapes, CallOk, IsCall, Channels, Starting
<1>3. m0.code = "CHALLENGE" /\ RspMsg(m0)
  BY DEF Msg, RspMsg, Channels
<1> HIDE DEF m0
<1>4. RspQueue' /\ ReqQueue' /\ FinishFirst' /\ FinishAfterFlow'
  BY <1>1, <1>3, RspAppend, FinishKept DEF EncapInv, ReqQueue
<1>5. Contexts' /\ ChainsOk'
  BY <1>1, SameContexts DEF EncapInv, OnTime
<1>6. Orderly' => toRsp' = <<m0>> /\ toReq' = <<>>
  <2>1. Orderly' => toRsp = <<>> /\ toReq = <<>>
    BY <1>1, <1>2 DEF EncapInv, OneInFlight, Orderly, OnTime
  <2> QED BY <1>1, <2>1
<1>7. OneInFlight'
  BY <1>1, <1>6 DEF OneInFlight
<1>8. Pending'
  BY <1>2, <1>3, <1>6 DEF Pending, RspPending
<1> QED
  BY <1>1, <1>2, <1>4, <1>5, <1>7, <1>8 DEF EncapInv, ChallengeVerifies, SuccessEndsFlow

LEMMA StartEncapInv ==
    ASSUME EncapInv, NEW ch \in {"clear", "session"}, StartEncap(ch)
    PROVE  EncapInv'
<1>1. /\ call' = [api |-> "ENCAP", ch |-> ch, pc |-> "begin", id |-> 0, slot |-> 0,
                  status |-> "-"]
      /\ call.pc = "idle" /\ (ch = "session" => req.session = "ESTABLISHED")
      /\ UNCHANGED <<clear, ctx, rsp, req, toRsp, toReq, history>>
  BY DEF StartEncap, NewCall
<1>2. Shapes' /\ CallOk' /\ ~Starting'
  BY <1>1, SMTT(30) DEF EncapInv, Shapes, CallOk, IsCall, Channels, Starting
<1>4. RspQueue' /\ ReqQueue' /\ FinishFirst' /\ FinishAfterFlow'
  BY <1>1 DEF EncapInv, RspQueue, ReqQueue, FinishFirst, FinishAfterFlow
<1>5. Contexts' /\ ChainsOk'
  BY <1>1, SameContexts DEF EncapInv, OnTime
<1>6. Orderly' => toRsp' = <<>> /\ toReq' = <<>>
  BY <1>1, <1>2 DEF EncapInv, OneInFlight, Orderly, OnTime
<1>7. OneInFlight' /\ Pending'
  BY <1>1, <1>2, <1>6, SMTT(30) DEF OneInFlight, Pending
<1> QED
  BY <1>1, <1>2, <1>4, <1>5, <1>7 DEF EncapInv, ChallengeVerifies, SuccessEndsFlow

(* KEY_EXCHANGE is refused while a flow is open outside of sessions.       *)
LEMMA StartSessionInv == ASSUME EncapInv, StartSession PROVE EncapInv'
<1>1. /\ call' = [api |-> "SESSION", ch |-> "session", pc |-> "begin", id |-> 0, slot |-> 0,
                  status |-> "-"]
      /\ ~Unexpected("clear", "KEY_EXCHANGE") /\ toRsp = <<>> /\ toReq = <<>>
      /\ UNCHANGED <<clear, toRsp, toReq, history>>
  BY DEF StartSession, NewCall
<1>2. PICK k \in MutAuth :
         /\ req' = [req EXCEPT !.session = "HANDSHAKING", !.asked = k]
         /\ rsp' = [rsp EXCEPT !.session = "HANDSHAKING", !.asked = k, !.mut = <<>>]
         /\ ctx' = [ctx EXCEPT !["session"] =
                      InitEncapState(NoFlow, "SESS_MUT_AUTH",
                                     IF k = "ENCAP" THEN NoRequest
                                     ELSE Request("GET_DIGESTS", 0, 0, 0))]
  BY Zenon DEF StartSession
<1> DEFINE last == IF k = "ENCAP" THEN NoRequest ELSE Request("GET_DIGESTS", 0, 0, 0)
           e == InitEncapState(NoFlow, "SESS_MUT_AUTH", last)
<1>3. IsRequest(last) /\ last.code \in {"GET_DIGESTS", "-"}
  BY DEF IsRequest, NoRequest, Request
<1>4. k = "DIGESTS" => last = Request("GET_DIGESTS", 0, 0, 0)
  OBVIOUS
<1> HIDE DEF last
<1>5. e.flow = "SESS_MUT_AUTH" /\ e.id = 0 /\ e.last = last
  BY DEF InitEncapState, NoFlow
<1>6. ContextOk("session", e) /\ ChainOk(e)
  BY <1>3, NoFlowOk
<1> HIDE DEF e
<1>7. DOMAIN ctx = Channels /\ \A c \in Channels : ContextOk(c, ctx[c])
  BY DEF EncapInv, Contexts
<1>8. ctx' = [ctx EXCEPT !["session"] = e]
  BY <1>2 DEF e, last
<1>9. DOMAIN ctx' = Channels /\ ctx'["session"] = e /\ ctx'["clear"] = ctx["clear"]
  BY <1>7, <1>8 DEF Channels
<1>10. ctx["clear"].flow = "NONE"
  BY <1>1 DEF Unexpected, Encap
<1>11. Contexts'
  BY <1>6, <1>7, <1>9, <1>10 DEF Contexts, Channels
<1>12. ChainsOk'
  BY <1>1, <1>6, <1>9 DEF EncapInv, ChainsOk, Channels, OnTime
<1>13. Shapes' /\ req'.asked = k /\ req'.session = "HANDSHAKING"
  BY <1>1, <1>2, NoneSeq DEF EncapInv, Shapes, IsResponder, IsRequester
<1>14. CallOk'
  BY <1>1, <1>13, SMTT(30) DEF CallOk, IsCall, Channels
<1>15. RspQueue' /\ ReqQueue' /\ FinishFirst' /\ FinishAfterFlow'
  BY <1>1, NoneSeq DEF RspQueue, ReqQueue, FinishFirst, FinishAfterFlow
<1>16. OneInFlight' /\ Pending'
  BY <1>1, <1>4, <1>5, <1>9, <1>13 DEF OneInFlight, Pending
<1> QED
  BY <1>1, <1>11, <1>12, <1>13, <1>14, <1>15, <1>16
  DEF EncapInv, ChallengeVerifies, SuccessEndsFlow

-----------------------------------------------------------------------------
(* The Requester.                                                          *)

(* A call returns; if on time, nothing of it is under way.                 *)
LEMMA EndInv ==
    ASSUME EncapInv, UNCHANGED <<clear, ctx, rsp, toRsp>>, IsRequester(req'), ReqQueue',
           IsCall(call'), call'.pc = "idle", call'.ch = call.ch,
           call'.status = "SUCCESS" /\ OnTime => ctx[Encap(call.ch)].flow = "NONE",
           history' \in {history, history \cup {"LATE"}},
           OnTime' => toRsp = <<>> /\ toReq' = <<>>
    PROVE  EncapInv'
<1>1. Shapes' /\ CallOk' /\ ~Starting'
  BY DEF EncapInv, Shapes, CallOk, Starting
<1>2. RspQueue' /\ FinishFirst' /\ FinishAfterFlow'
  BY DEF EncapInv, RspQueue, FinishFirst, FinishAfterFlow
<1>3. OnTime' => OnTime
  BY DEF OnTime
<1>4. Contexts' /\ ChainsOk'
  BY <1>3, SameContexts DEF EncapInv
<1>5. OneInFlight' /\ Pending'
  BY <1>1, SMTT(30) DEF Orderly, OneInFlight, Pending
<1>6. ChallengeVerifies'
  BY DEF EncapInv, ChallengeVerifies
<1>7. SuccessEndsFlow'
  BY <1>3 DEF SuccessEndsFlow, Encap
<1> QED BY <1>1, <1>2, <1>4, <1>5, <1>6, <1>7 DEF EncapInv

(* A message is sent.                                                      *)
LEMMA SendInv ==
    ASSUME EncapInv, UNCHANGED <<clear, ctx, rsp, history>>, IsRequester(req'), ReqQueue',
           CallOk', call'.pc \in {"request", "ack", "finish"}, Starting' = Starting,
           NEW m, RspMsg(m), toRsp' = Append(toRsp, m),
           FinishFirst', FinishAfterFlow',
           Orderly => toRsp = <<>> /\ toReq' = <<>>,
           Orderly => RspPending(m)'
    PROVE  EncapInv'
<1>1. Shapes' /\ RspQueue'
  BY RspAppend DEF EncapInv, Shapes
<1>2. OnTime' = OnTime /\ Orderly' = Orderly
  BY DEF OnTime, Orderly
<1>3. Contexts' /\ ChainsOk'
  BY <1>2, SameContexts DEF EncapInv
<1>4. Orderly' => toRsp' = <<m>> /\ toReq' = <<>>
  BY <1>2
<1>5. OneInFlight'
  BY <1>4 DEF OneInFlight
<1>6. Pending'
  BY <1>2, <1>4, SMTT(30) DEF Pending
<1> QED
  BY <1>1, <1>3, <1>5, <1>6 DEF EncapInv, ChallengeVerifies, SuccessEndsFlow

(* The answer to the outstanding request is what the Responder waits for.  *)
Awaits(ch, mut, id, r) ==
    LET e == ctx[Encap(ch)] IN
    /\ e.flow # "NONE" /\ id = e.id /\ Outstanding(e, r)
    /\ r.code = "GET_CERTIFICATE" => r.off = Len(e.buf)
    /\ Basic(e) => rsp.mut = Append(mut, Recorded(r))
    /\ Starting => ctx["session"].flow = "SESS_MUT_AUTH"

LEMMA AnswerPending ==
    ASSUME EncapInv, UNCHANGED <<clear, ctx, rsp, history>>, Starting' = Starting,
           NEW ch \in Channels, NEW mut, NEW id, NEW r, NEW x, Answers(mut, r, x),
           req'.mut = x.mut, Awaits(ch, mut, id, r), Starting => Encap(ch) = "session",
           NEW m, m = Msg(ch, "DELIVER_ENCAPSULATED_RESPONSE", id, 0, x.a)
    PROVE  RspPending(m)'
<1>0. PICK e : e = ctx[Encap(ch)]
  OBVIOUS
<1>1. m.ch = ch /\ m.code = "DELIVER_ENCAPSULATED_RESPONSE" /\ m.id = id /\ m.body = x.a
  BY DEF Msg
<1>2. Encap(ch) \in Channels /\ Encap(ch)' = Encap(ch)
  BY DEF Encap, Channels
<1>3. ContextOk(Encap(ch), e)
  BY <1>0, <1>2 DEF EncapInv, Contexts
<1>4. /\ e.flow # "NONE" /\ id = e.id /\ Outstanding(e, r)
      /\ r.code = "GET_CERTIFICATE" => r.off = Len(e.buf)
      /\ Basic(e) => rsp.mut = Append(mut, Recorded(r))
      /\ Starting => ctx["session"].flow = "SESS_MUT_AUTH" /\ Encap(ch) = "session"
  BY <1>0, Zenon DEF Awaits
<1>5. x.a.re = e.last
  <2>1. CASE r = e.last
    BY <1>3, <2>1 DEF Answers, ContextOk, RequestCodes
  <2>2. CASE r = Request("RESPOND_IF_READY", 0, 0, e.last.n) /\ e.last.code = "SEND_EVENT"
    <3>1. r.code = "RESPOND_IF_READY" /\ r.n = e.last.n
      BY <2>2 DEF Request
    <3>2. e.last = Request("SEND_EVENT", 0, 0, e.last.n)
      BY <1>3, <2>2, Zenon DEF ContextOk, IsRequest
    <3> QED BY <3>1, <3>2 DEF Answers
  <2> QED BY <1>4, <2>1, <2>2, Zenon DEF Outstanding
<1>6. x.a.code = "CERTIFICATE" => x.a.re.off = Len(e.buf)
  <2> SUFFICES ASSUME x.a.code = "CERTIFICATE" PROVE x.a.re.off = Len(e.buf)
    OBVIOUS
  <2>1. x.a.re.code = "GET_CERTIFICATE"
    BY DEF Answers, IsAnswer
  <2>2. r = x.a.re
    BY <2>1 DEF Answers, Request
  <2> QED BY <1>4, <2>1, <2>2, Zenon
<1>7. /\ Basic(e) /\ x.a.code \in {"DIGESTS", "CERTIFICATE"} =>
           x.mut = Append(rsp.mut, Answered(x.a))
      /\ Basic(e) /\ x.a.code = "CHALLENGE_AUTH" =>
           x.a.sig = Append(rsp.mut, Answered([x.a EXCEPT !.sig = <<>>]))
  BY <1>4 DEF Answers
<1>8. (Basic(ctx[Encap(ch)]) <=> Basic(ctx[Encap(ch)])') /\ (ctx[Encap(ch)])' = e
  BY <1>0, <1>2 DEF Basic
<1> QED BY <1>0, <1>1, <1>2, <1>4, <1>5, <1>6, <1>7, <1>8 DEF RspPending

LEMMA DeliverInv ==
    ASSUME EncapInv, UNCHANGED <<clear, ctx, rsp, history>>, ReqQueue',
           NEW mut, IsSeq(mut), NEW id, NEW r, Answerable(r),
           call.pc \in {"begin", "request", "ack"}, Deliver(mut, id, r),
           Orderly => toRsp = <<>> /\ toReq' = <<>>,
           Orderly => Awaits(Wire(call.ch), mut, id, r)
    PROVE  EncapInv'
<1> DEFINE cc == [call EXCEPT !.pc = "ack", !.id = id]
<1>1. PICK x \in Answer(mut, r) :
         /\ req' = [req EXCEPT !.mut = x.mut]
         /\ Send(cc, "DELIVER_ENCAPSULATED_RESPONSE", id, x.a)
  BY Zenon DEF Deliver
<1>2. Answers(mut, r, x)
  BY AnswerIs
<1>3. IsRequester(req') /\ req'.mut = x.mut /\ req'.session = req.session
  BY <1>1, <1>2 DEF EncapInv, Shapes, IsRequester, Answers
<1>4. /\ IsCall(cc) /\ cc.pc = "ack" /\ cc.ch = call.ch /\ cc.api = call.api
      /\ cc.slot = call.slot
  BY DEF EncapInv, CallOk, IsCall
<1> HIDE DEF cc
<1>c. PICK c : c = cc
  BY Zenon
<1>5. PICK ch \in Channels : ch = Wire(call.ch)
  BY DEF EncapInv, CallOk, Wire, Channels
<1>m. PICK m : m = Msg(ch, "DELIVER_ENCAPSULATED_RESPONSE", id, 0, x.a)
  BY Zenon
<1>6. m.ch = ch /\ m.code = "DELIVER_ENCAPSULATED_RESPONSE" /\ m.body = x.a
  BY <1>m DEF Msg
<1>7. CASE toRsp' = Append(toRsp, m) /\ call' = c
  <2>1. CallOk' /\ Starting' = Starting /\ call'.pc = "ack"
    BY <1>3, <1>4, <1>c, <1>7 DEF EncapInv, CallOk, Starting
  <2>2. RspMsg(m)
    BY <1>2, <1>6 DEF RspMsg, Answers
  <2>3. FinishFirst' /\ FinishAfterFlow'
    BY <1>6, <1>7, FinishKept DEF EncapInv
  <2>4. ASSUME Orderly PROVE RspPending(m)'
    <3>1. Awaits(ch, mut, id, r)
      BY <1>5, <2>4, Zenon
    <3>2. Starting => ctx["session"].flow = "SESS_MUT_AUTH"
      BY <3>1, Zenon DEF Awaits
    <3>3. Starting => Encap(ch) = "session"
      BY <1>5, <3>2 DEF EncapInv, CallOk, Starting, Wire, Encap
    <3> QED BY <1>2, <1>3, <1>m, <2>1, <3>1, <3>3, AnswerPending, Zenon
  <2> QED BY <1>3, <1>7, <2>1, <2>2, <2>3, <2>4, SendInv, Zenon
<1>8. CASE call' = Return(c, "ERROR") /\ UNCHANGED toRsp
  <2>1. IsCall(call') /\ call'.pc = "idle" /\ call'.ch = call.ch /\ call'.status = "ERROR"
    BY <1>4, <1>c, <1>8 DEF Return, IsCall
  <2>2. OnTime' => Orderly
    BY DEF OnTime, Orderly
  <2> QED BY <1>3, <1>8, <2>1, <2>2, EndInv, Zenon
<1> QED BY <1>1, <1>4, <1>5, <1>7, <1>8, <1>c, <1>m, Zenon DEF Send

LEMMA BeginFlowInv == ASSUME EncapInv, BeginFlow PROVE EncapInv'
<1>1. call.pc = "begin" /\ UNCHANGED <<clear, ctx, rsp, toReq, history>>
  BY DEF BeginFlow
<1>2. ReqQueue' /\ (Orderly => toRsp = <<>> /\ toReq' = <<>>)
  BY <1>1 DEF EncapInv, ReqQueue, OneInFlight
<1>3. Starting =>
        /\ call.ch = "session" /\ ctx["session"].flow = "SESS_MUT_AUTH"
        /\ Encap(Wire(call.ch)) = "session"
  BY <1>1, SMTT(30) DEF EncapInv, CallOk, Pending, Orderly, Starting, Wire, Encap
<1>4. CASE call.api = "SESSION" /\ req.asked = "DIGESTS"
  <2> DEFINE r == Request("GET_DIGESTS", 0, 0, 0)
  <2>1. Starting /\ Deliver(<<>>, 0, r)
    BY <1>1, <1>4, Zenon DEF BeginFlow, Starting
  <2>2. Answerable(r) /\ r.code = "GET_DIGESTS"
    BY DEF Answerable, IsRequest, RequestCodes, Request
  <2>3. ctx["session"].id = 0 /\ ctx["session"].last = r
    BY <1>1, <1>4, <2>1 DEF EncapInv, Pending, Orderly
  <2> HIDE DEF r
  <2>4. Awaits(Wire(call.ch), <<>>, 0, r)
    BY <1>3, <2>1, <2>2, <2>3 DEF Awaits, Outstanding, Basic
  <2> QED BY <1>1, <1>2, <2>1, <2>2, <2>4, NoneSeq, DeliverInv, Zenon
<1>5. CASE ~(call.api = "SESSION" /\ req.asked = "DIGESTS")
  <2> DEFINE c == [call EXCEPT !.pc = "request"]
  <2>1. /\ req' = [req EXCEPT !.mut = <<>>]
        /\ Send(c, "GET_ENCAPSULATED_REQUEST", 0, NoRequest)
    BY <1>5, Zenon DEF BeginFlow
  <2>2. IsRequester(req') /\ req'.mut = <<>> /\ req'.session = req.session
    BY <2>1, NoneSeq DEF EncapInv, Shapes, IsRequester
  <2>3. /\ IsCall(c) /\ c.pc = "request" /\ c.ch = call.ch /\ c.api = call.api
        /\ c.slot = call.slot
    BY DEF EncapInv, CallOk, IsCall
  <2> HIDE DEF c
  <2>4. PICK ch \in Channels : ch = Wire(call.ch)
    BY DEF EncapInv, CallOk, Wire, Channels
  <2> DEFINE m == Msg(ch, "GET_ENCAPSULATED_REQUEST", 0, 0, NoRequest)
  <2>5. m.ch = ch /\ m.code = "GET_ENCAPSULATED_REQUEST" /\ RspMsg(m)
    BY DEF Msg, RspMsg
  <2>6. CASE toRsp' = Append(toRsp, m) /\ call' = c
    <3>1. CallOk' /\ Starting' = Starting /\ call'.pc = "request"
      BY <1>1, <2>2, <2>3, <2>6 DEF EncapInv, CallOk, Starting
    <3>2. FinishFirst' /\ FinishAfterFlow'
      BY <1>1, <2>5, <2>6, FinishKept DEF EncapInv
    <3> HIDE DEF m
    <3>3. RspPending(m)'
      BY <1>1, <1>3, <2>2, <2>4, <2>5, <3>1, SMTT(30) DEF RspPending, Encap
    <3> QED BY <1>1, <1>2, <2>2, <2>5, <2>6, <3>1, <3>2, <3>3, SendInv, Zenon
  <2>7. CASE call' = Return(c, "ERROR") /\ UNCHANGED toRsp
    <3>1. IsCall(call') /\ call'.pc = "idle" /\ call'.ch = call.ch /\ call'.status = "ERROR"
      BY <2>3, <2>7 DEF Return, IsCall
    <3>2. OnTime' => Orderly
      BY <1>1 DEF OnTime, Orderly
    <3> QED BY <1>1, <1>2, <2>2, <2>7, <3>1, <3>2, EndInv, Zenon
  <2> QED BY <2>1, <2>3, <2>4, <2>6, <2>7, Zenon DEF Send, m
<1> QED BY <1>4, <1>5

(* An answer arrives; if on time, it is the only message under way.        *)
LEMMA Received ==
    ASSUME EncapInv, NEW pc, pc # "idle", Receives(pc)
    PROVE  /\ call.pc = pc /\ UNCHANGED <<clear, ctx, rsp, history>>
           /\ ReqMsg(Head(toReq)) /\ ReqQueue'
           /\ Orderly => toRsp = <<>> /\ toReq' = <<>> /\ ReqPending(Head(toReq))
<1>1. toReq # <<>> /\ toReq' = Tail(toReq) /\ call.pc = pc
      /\ UNCHANGED <<clear, ctx, rsp, history>>
  BY DEF Receives
<1>2. ReqMsg(Head(toReq)) /\ ReqQueue'
  BY <1>1, ReqHead, ReqTail DEF EncapInv
<1>3. ASSUME Orderly PROVE toRsp = <<>> /\ toReq' = <<>> /\ ReqPending(Head(toReq))
  <2>1. PICK m : toReq = <<m>> /\ toRsp = <<>>
    BY <1>1, <1>3 DEF EncapInv, OneInFlight
  <2>2. Head(toReq) = m /\ Tail(toReq) = <<>>
    BY <2>1
  <2>3. ReqPending(m)
    BY <1>3, <2>1, SMTT(30) DEF EncapInv, Pending
  <2> QED BY <1>1, <2>1, <2>2, <2>3
<1> QED BY <1>1, <1>2, <1>3

(* A received message ends the call.                                       *)
LEMMA ReturnInv ==
    ASSUME EncapInv, NEW pc, pc # "idle", Receives(pc), NEW c, IsCall(c), c.ch = call.ch,
           NEW status, call' = Return(c, status), UNCHANGED toRsp, IsRequester(req'),
           status = "SUCCESS" /\ OnTime => ctx[Encap(call.ch)].flow = "NONE"
    PROVE  EncapInv'
<1>1. IsCall(call') /\ call'.pc = "idle" /\ call'.ch = call.ch /\ call'.status = status
  BY DEF Return, IsCall
<1>2. /\ UNCHANGED <<clear, ctx, rsp, history>> /\ ReqQueue'
      /\ Orderly => toRsp = <<>> /\ toReq' = <<>>
  BY Received
<1>3. OnTime' => Orderly
  BY <1>2 DEF OnTime, Orderly
<1> QED BY <1>1, <1>2, <1>3, EndInv, Zenon

LEMMA CallFailsInv ==
    ASSUME EncapInv, NEW pc, pc # "idle", Receives(pc), CallFails
    PROVE  EncapInv'
<1>1. /\ call' = Return(call, "ERROR") /\ UNCHANGED <<req, toRsp>>
      /\ IsRequester(req') /\ IsCall(call)
  BY DEF CallFails, EncapInv, Shapes, CallOk
<1> QED BY <1>1, ReturnInv

(* Outside of session establishment a call's messages keep its channel.    *)
LEMMA OwnWire ==
    ASSUME EncapInv, call.pc # "idle", call.api # "SESSION"
    PROVE  Wire(call.ch) = call.ch
BY DEF EncapInv, CallOk, Wire

LEMMA ReceiveChallengeAuthInv == ASSUME EncapInv, ReceiveChallengeAuth PROVE EncapInv'
<1> DEFINE m == Head(toReq)
<1>1. Receives("challenge")
  BY DEF ReceiveChallengeAuth
<1>2. /\ call.pc = "challenge" /\ UNCHANGED <<clear, ctx, rsp, history>> /\ ReqQueue'
      /\ Orderly => toRsp = <<>> /\ toReq' = <<>> /\ ReqPending(m)
  BY <1>1, Received
<1>3. IsCall(call) /\ call.api = "CHALLENGE" /\ call.ch = "clear"
  BY <1>2 DEF EncapInv, CallOk
<1>4. CASE ~Arrived(m, "CHALLENGE_AUTH")
  <2>1. CallFails
    BY <1>4, Zenon DEF ReceiveChallengeAuth
  <2> QED BY <1>1, <2>1, CallFailsInv
<1>5. CASE Arrived(m, "CHALLENGE_AUTH") /\ m.body.code # "MUT_AUTH"
  <2>1. call' = Return(call, "SUCCESS") /\ UNCHANGED <<req, toRsp>>
    BY <1>5, SMTT(30) DEF ReceiveChallengeAuth
  <2>2. OnTime => ctx[Encap(call.ch)].flow = "NONE"
    BY <1>2, <1>3, <1>5 DEF Orderly, ReqPending, Arrived
  <2>3. IsRequester(req')
    BY <2>1, SMTT(30) DEF EncapInv, Shapes
  <2> QED BY <1>1, <1>3, <2>1, <2>2, <2>3, ReturnInv
<1>6. CASE Arrived(m, "CHALLENGE_AUTH") /\ m.body.code = "MUT_AUTH"
  <2>1. call' = [call EXCEPT !.pc = "begin"] /\ UNCHANGED <<req, toRsp>>
    BY <1>6 DEF ReceiveChallengeAuth
  <2>2. IsCall(call') /\ call'.pc = "begin" /\ call'.ch = "clear" /\ call'.api = "CHALLENGE"
    BY <1>3, <2>1 DEF IsCall
  <2>3. Shapes' /\ CallOk' /\ ~Starting'
    BY <1>2, <2>1, <2>2 DEF EncapInv, Shapes, CallOk, Starting, Channels
  <2>4. RspQueue' /\ FinishFirst' /\ FinishAfterFlow'
    BY <1>2, <2>1 DEF EncapInv, RspQueue, FinishFirst, FinishAfterFlow
  <2>5. Contexts' /\ ChainsOk'
    BY <1>2, SameContexts DEF EncapInv, OnTime
  <2>6. Orderly' => toRsp' = <<>> /\ toReq' = <<>>
    BY <1>2, <2>1, <2>3 DEF Orderly, OnTime
  <2>7. OneInFlight' /\ Pending'
    BY <2>3, <2>6, SMTT(30) DEF OneInFlight, Pending
  <2> QED
    BY <1>2, <2>2, <2>3, <2>4, <2>5, <2>7 DEF EncapInv, ChallengeVerifies, SuccessEndsFlow
<1> QED BY <1>4, <1>5, <1>6

LEMMA ReceiveEncapsulatedRequestInv ==
    ASSUME EncapInv, ReceiveEncapsulatedRequest PROVE EncapInv'
<1> DEFINE m == Head(toReq)
<1>1. Receives("request")
  BY DEF ReceiveEncapsulatedRequest
<1>2. /\ call.pc = "request" /\ UNCHANGED <<clear, ctx, rsp, history>>
      /\ ReqMsg(m) /\ ReqQueue'
      /\ Orderly => toRsp = <<>> /\ toReq' = <<>> /\ ReqPending(m)
  BY <1>1, Received, SMTT(30)
<1>3. CASE /\ Arrived(m, "ENCAPSULATED_REQUEST") /\ m.body # NoRequest
           /\ Deliver(req.mut, m.id, m.body)
  <2>1. Answerable(m.body) /\ AnyRequest(m) /\ m.ch = Wire(call.ch)
    BY <1>2, <1>3 DEF ReqMsg, AnyRequest, Arrived
  <2>2. m.body.code \notin FinalAck
    BY <2>1 DEF Answerable, RequestCodes, FinalAck
  <2>3. IsSeq(req.mut)
    BY DEF EncapInv, Shapes, IsRequester
  <2>4. Orderly => Awaits(Wire(call.ch), req.mut, m.id, m.body)
    BY <1>2, <2>1, <2>2, Zenon DEF ReqPending, Awaits
  <2> QED BY <1>2, <1>3, <2>1, <2>3, <2>4, DeliverInv, Zenon
<1>4. CASE /\ Arrived(m, "ERROR") /\ m.body.code = "NO_PENDING_REQUESTS"
           /\ call.api # "SESSION"
           /\ call' = Return(call, "SUCCESS") /\ UNCHANGED <<req, toRsp>>
  <2>1. Wire(call.ch) = call.ch
    BY <1>2, <1>4, OwnWire, SMTT(30)
  <2>2. OnTime => ctx[Encap(call.ch)].flow = "NONE"
    BY <1>2, <1>4, <2>1, SMTT(30) DEF Orderly, ReqPending, Arrived
  <2>3. IsRequester(req') /\ IsCall(call)
    BY <1>4 DEF EncapInv, Shapes, CallOk
  <2> QED BY <1>1, <1>4, <2>2, <2>3, ReturnInv
<1>5. CASE CallFails
  BY <1>1, <1>5, CallFailsInv
<1> QED BY <1>3, <1>4, <1>5 DEF ReceiveEncapsulatedRequest

(* The flow is over: FINISH, with the designated slot, or success.         *)
LEMMA FlowSucceededInv ==
    ASSUME EncapInv, Receives("ack"), NEW m, m = Head(toReq),
           Arrived(m, "ENCAPSULATED_RESPONSE_ACK"), m.body.code \in FinalAck,
           FlowSucceeded([call EXCEPT !.slot = IF @ = 0 THEN m.body.slot ELSE @]),
           req' = IF call.api = "SESSION" /\ call'.pc = "idle" THEN Freed ELSE req
    PROVE  EncapInv'
<1> DEFINE c == [call EXCEPT !.slot = IF @ = 0 THEN m.body.slot ELSE @]
           f == [c EXCEPT !.pc = "finish"]
<1>1. /\ call.pc = "ack" /\ UNCHANGED <<clear, ctx, rsp, history>> /\ ReqQueue'
      /\ Orderly => toRsp = <<>> /\ toReq' = <<>> /\ ReqPending(m)
  BY Received
<1>2. /\ IsCall(c) /\ c.ch = call.ch /\ c.api = call.api /\ c.pc = call.pc
      /\ call.slot = 0 => c.slot = m.body.slot
  BY DEF EncapInv, CallOk, IsCall
<1>3. FlowSucceeded(c)
  OBVIOUS
<1> HIDE DEF c
<1>4. /\ IsCall(f) /\ f.ch = call.ch /\ f.api = call.api /\ f.pc = "finish"
      /\ f.slot = c.slot
  BY <1>2 DEF IsCall
<1>5. IsRequester(req') /\ (call'.pc # "idle" => req' = req)
  <2>1. IsRequester(req) /\ IsRequester(Freed)
    BY DEF EncapInv, Shapes, IsRequester, Freed
  <2> QED BY <2>1
<1>6. CASE call.api # "SESSION"
  <2>1. call' = Return(c, "SUCCESS") /\ UNCHANGED toRsp
    BY <1>2, <1>3, <1>6, Zenon DEF FlowSucceeded
  <2>2. Wire(call.ch) = call.ch
    BY <1>1, <1>6, OwnWire
  <2>3. OnTime => ctx[Encap(call.ch)].flow = "NONE"
    BY <1>1, <2>2 DEF Orderly, ReqPending, Arrived
  <2> QED BY <1>2, <1>5, <2>1, <2>3, ReturnInv
<1>7. CASE call.api = "SESSION"
  <2>1. Send(f, "FINISH", 0, Request("-", c.slot, 0, 0))
    BY <1>2, <1>3, <1>7, Zenon DEF FlowSucceeded
  <2>2. PICK ch \in Channels : ch = Wire(call.ch)
    BY DEF EncapInv, CallOk, Wire, Channels
  <2>3. PICK slot : slot = c.slot
    OBVIOUS
  <2> DEFINE n == Msg(ch, "FINISH", 0, 0, Request("-", slot, 0, 0))
  <2>4. n.ch = ch /\ n.code = "FINISH" /\ n.body.slot = slot
    BY DEF Msg, Request
  <2>5. Starting /\ Orderly
    BY <1>1, <1>7 DEF Starting, Orderly
  <2>6. ctx["session"].flow = "NONE" /\ slot = ctx["session"].designated
    BY <1>1, <1>2, <1>7, <2>3, <2>5 DEF EncapInv, CallOk, ReqPending, Arrived
  <2>7. CASE toRsp' = Append(toRsp, n) /\ call' = f
    <3>1. CallOk' /\ Starting' = Starting /\ call'.pc = "finish"
      BY <1>1, <1>4, <1>5, <1>7, <2>7 DEF EncapInv, CallOk, Starting
    <3>2. RspMsg(n)
      BY <2>4 DEF RspMsg
    <3> HIDE DEF n
    <3>3. toRsp' = <<n>> /\ Len(<<n>>) = 1 /\ <<n>>[1] = n
      BY <1>1, <2>5, <2>7
    <3>4. FinishFirst' /\ FinishAfterFlow'
      BY <1>1, <2>4, <2>6, <3>3 DEF FinishFirst, FinishAfterFlow
    <3>5. RspPending(n)'
      BY <2>4 DEF RspPending
    <3> QED BY <1>1, <1>5, <2>7, <3>1, <3>2, <3>4, <3>5, SendInv
  <2>8. CASE call' = Return(f, "ERROR") /\ UNCHANGED toRsp
    BY <1>4, <1>5, <2>8, ReturnInv, Zenon
  <2> QED BY <1>4, <2>1, <2>2, <2>3, <2>7, <2>8, Zenon DEF Send, n
<1> QED BY <1>6, <1>7

LEMMA ReceiveAckInv == ASSUME EncapInv, ReceiveAck PROVE EncapInv'
<1> DEFINE m == Head(toReq)
           ok == Arrived(m, "ENCAPSULATED_RESPONSE_ACK") /\ m.ack = call.id
<1>1. Receives("ack")
  BY DEF ReceiveAck
<1>2. /\ call.pc = "ack" /\ UNCHANGED <<clear, ctx, rsp, history>>
      /\ ReqMsg(m) /\ ReqQueue'
      /\ Orderly => toRsp = <<>> /\ toReq' = <<>> /\ ReqPending(m)
  BY <1>1, Received
<1>3. CASE /\ ok /\ m.body.code \in {"-", "REQ_SLOT_NUMBER"}
           /\ FlowSucceeded([call EXCEPT !.slot = IF @ = 0 THEN m.body.slot ELSE @])
           /\ req' = IF call.api = "SESSION" /\ call'.pc = "idle" THEN Freed ELSE req
  BY <1>1, <1>3, FlowSucceededInv DEF FinalAck
<1>4. CASE ok /\ m.body.code \notin {"-", "REQ_SLOT_NUMBER"} /\ Deliver(req.mut, m.id, m.body)
  <2>1. /\ Answerable(m.body) /\ AnyRequest(m) /\ m.ch = Wire(call.ch)
        /\ m.body.code \notin FinalAck
    BY <1>2, <1>4 DEF ReqMsg, AnyRequest, Arrived, FinalAck
  <2>2. IsSeq(req.mut)
    BY DEF EncapInv, Shapes, IsRequester
  <2>3. Orderly => Awaits(Wire(call.ch), req.mut, m.id, m.body)
    BY <1>2, <2>1, Zenon DEF ReqPending, Awaits
  <2> QED BY <1>2, <1>4, <2>1, <2>2, <2>3, DeliverInv, Zenon
<1>5. CASE CallFails
  BY <1>1, <1>5, CallFailsInv
<1> QED BY <1>3, <1>4, <1>5, Zenon DEF ReceiveAck

LEMMA ReceiveFinishRspInv == ASSUME EncapInv, ReceiveFinishRsp PROVE EncapInv'
<1> DEFINE m == Head(toReq)
<1>1. Receives("finish")
  BY DEF ReceiveFinishRsp
<1>2. call.pc = "finish" /\ (Orderly => ReqPending(m))
  BY <1>1, Received
<1>3. IsCall(call) /\ call.ch = "session" /\ Encap(call.ch) = "session"
  BY <1>2 DEF EncapInv, CallOk, Encap
<1>4. /\ IsRequester(req) /\ IsRequester(Freed)
      /\ IsRequester([req EXCEPT !.session = "ESTABLISHED"])
  BY DEF EncapInv, Shapes, IsRequester, Freed
<1>5. CASE Arrived(m, "FINISH_RSP")
  <2>1. /\ call' = Return(call, "SUCCESS") /\ UNCHANGED toRsp
        /\ req' = [req EXCEPT !.session = "ESTABLISHED"]
    BY <1>5, Zenon DEF ReceiveFinishRsp
  <2>2. OnTime => ctx[Encap(call.ch)].flow = "NONE"
    BY <1>2, <1>3, <1>5 DEF Orderly, ReqPending, Arrived
  <2>3. IsRequester(req')
    BY <1>4, <2>1
  <2> QED BY <1>1, <1>3, <2>1, <2>2, <2>3, ReturnInv
<1>6. CASE ~Arrived(m, "FINISH_RSP")
  <2>1. call' = Return(call, "ERROR") /\ UNCHANGED toRsp /\ req' \in {req, Freed}
    BY <1>6 DEF ReceiveFinishRsp
  <2>2. IsRequester(req')
    BY <1>4, <2>1
  <2> QED BY <1>1, <1>3, <2>1, <2>2, ReturnInv
<1> QED BY <1>5, <1>6

LEMMA TimeOutInv == ASSUME EncapInv, TimeOut PROVE EncapInv'
<1>1. /\ call' = Return(call, "ERROR") /\ req' \in {req, Freed}
      /\ UNCHANGED <<clear, ctx, rsp, toRsp, toReq>>
      /\ \/ toRsp = <<>> /\ toReq = <<>> /\ history' = history
         \/ history' = history \cup {"LATE"}
  BY DEF TimeOut
<1>2. IsRequester(req')
  BY <1>1 DEF EncapInv, Shapes, IsRequester, Freed
<1>3. IsCall(call') /\ call'.pc = "idle" /\ call'.ch = call.ch /\ call'.status = "ERROR"
  BY <1>1 DEF EncapInv, CallOk, Return, IsCall
<1>4. ReqQueue' /\ (OnTime' => toRsp = <<>> /\ toReq' = <<>>)
  BY <1>1 DEF EncapInv, ReqQueue, OnTime
<1> QED BY <1>1, <1>2, <1>3, <1>4, EndInv

(* A message is lost.                                                      *)
LEMMA LoseInv == ASSUME EncapInv, Lose PROVE EncapInv'
<1>1. /\ UNCHANGED <<clear, ctx, rsp, req, call, history>>
      /\ \/ toRsp # <<>> /\ toRsp' = Tail(toRsp) /\ UNCHANGED toReq
         \/ toReq # <<>> /\ toReq' = Tail(toReq) /\ UNCHANGED toRsp
  BY DEF Lose
<1>2. RspQueue' /\ ReqQueue' /\ FinishFirst' /\ FinishAfterFlow'
  <2>1. CASE toRsp # <<>> /\ toRsp' = Tail(toRsp) /\ UNCHANGED toReq
    BY <2>1, RspTail, SMTT(30) DEF EncapInv, ReqQueue
  <2>2. CASE toReq # <<>> /\ toReq' = Tail(toReq) /\ UNCHANGED toRsp
    BY <1>1, <2>2, ReqTail, SMTT(30) DEF EncapInv, RspQueue, FinishFirst, FinishAfterFlow
  <2> QED BY <1>1, <2>1, <2>2
<1>3. Shapes' /\ CallOk' /\ Starting' = Starting /\ Orderly' = Orderly
  BY <1>1 DEF EncapInv, Shapes, CallOk, Starting, Orderly, OnTime
<1>4. Contexts' /\ ChainsOk'
  BY <1>1, SameContexts DEF EncapInv, OnTime
<1>5. ASSUME Orderly PROVE toRsp' = <<>> /\ toReq' = <<>>
  <2>1. PICK m : \/ toRsp = <<m>> /\ toReq = <<>>
                 \/ toReq = <<m>> /\ toRsp = <<>>
    BY <1>1, <1>5 DEF EncapInv, OneInFlight
  <2>2. Tail(<<m>>) = <<>>
    OBVIOUS
  <2> QED BY <1>1, <2>1, <2>2, Zenon
<1>6. OneInFlight' /\ Pending'
  BY <1>1, <1>3, <1>5 DEF EncapInv, OneInFlight, Pending
<1>7. ChallengeVerifies' /\ SuccessEndsFlow'
  BY <1>1 DEF EncapInv, ChallengeVerifies, SuccessEndsFlow, OnTime, Encap
<1> QED BY <1>2, <1>3, <1>4, <1>6, <1>7 DEF EncapInv
=============================================================================
