----------------------- MODULE EncapsulatedFlowProofs -----------------------
(***************************************************************************)
(* How the Responder takes the responses of an encapsulated flow           *)
(* (DELIVER_ENCAPSULATED_RESPONSE), and what follows for the flows: the    *)
(* theorems on module Encapsulated.                                        *)
(***************************************************************************)
EXTENDS EncapsulatedRequestProofs

-----------------------------------------------------------------------------
(* The processing of an encapsulated response.                             *)

Took(a) == Answered([a EXCEPT !.sig = <<>>])
Recording(p, a) == [p EXCEPT !.mut = Append(@, Took(a))]
Totalled(e, a) ==
    IF e.buf = <<>> THEN [e EXCEPT !.total = Len(e.buf) + Len(a.data) + a.rem] ELSE e
Filled(e, a) == [Totalled(e, a) EXCEPT !.buf = e.buf \o a.data]
Outcome(s, f, q) == [status |-> s, e |-> f, p |-> q]

(* Its results.                                                            *)
ProcessResult(e, p, a, x) ==
    \/ x = Outcome("OK", e, p) /\ e.last.code \in {"-", "SEND_EVENT"}
    \/ x = Outcome("ERROR", e, p)
    \/ x = Outcome("FAIL", e, p)
    \/ /\ x = Outcome("NOT_READY", e, p)
       /\ a.code = "RESPONSE_NOT_READY" /\ a.re.code = e.last.code
    \/ /\ x = Outcome("OK", e, Recording(p, a))
       /\ e.last.code = "GET_DIGESTS" /\ a.code = "DIGESTS"
    \/ /\ e.last.code = "GET_CERTIFICATE" /\ a.code = "CERTIFICATE"
       /\ \/ x = Outcome("FAIL", Totalled(e, a), p)
          \/ x = Outcome("FAIL", Totalled(e, a), Recording(p, a))
          \/ /\ a.slot = e.slot /\ ~(Len(e.buf \o a.data) > BufferSize)
             /\ \/ x = Outcome("CONTINUE", Filled(e, a), Recording(p, a))
                \/ x = Outcome("FAIL", Filled(e, a), Recording(p, a))
                \/ x = Outcome("OK", Filled(e, a),
                               [Recording(p, a) EXCEPT !.known = @ \cup {e.slot}])
    \/ /\ e.last.code = "CHALLENGE" /\ a.code = "CHALLENGE_AUTH"
       /\ \/ x.status = "OK"
          \/ x.status = "UNVERIFIED" /\ a.sig # Recording(p, a).mut
       /\ x = Outcome(x.status, e,
                      [p EXCEPT !.mut = <<>>, !.auth = @ \/ a.sig = Recording(p, a).mut])

LEMMA ProcessCases ==
    ASSUME NEW e, NEW p, NEW a, NEW x, x = Process(e, p, a)
    PROVE  ProcessResult(e, p, a, x)
<1> USE DEF ProcessResult, Outcome, Took, Recording, Totalled, Filled
<1>1. CASE e.last.code = "-"
  BY <1>1, Zenon DEF Process
<1>2. CASE e.last.code # "-" /\ a.code = "ERROR"
  BY <1>2, Zenon DEF Process
<1>3. CASE e.last.code # "-" /\ a.code = "RESPONSE_NOT_READY"
  BY <1>3, Zenon DEF Process
<1>4. CASE e.last.code = "GET_DIGESTS" /\ a.code = "DIGESTS"
  BY <1>4, Zenon DEF Process
<1>5. CASE e.last.code = "GET_CERTIFICATE" /\ a.code = "CERTIFICATE"
  BY <1>5, ZenonT(40) DEF Process
<1>6. CASE e.last.code = "CHALLENGE" /\ a.code = "CHALLENGE_AUTH"
  BY <1>6, Zenon DEF Process
<1>7. CASE e.last.code = "SEND_EVENT" /\ a.code = "EVENT_ACK"
  BY <1>7, Zenon DEF Process
<1>8. CASE ~(\/ e.last.code = "-"
             \/ a.code \in {"ERROR", "RESPONSE_NOT_READY"}
             \/ e.last.code = "GET_DIGESTS" /\ a.code = "DIGESTS"
             \/ e.last.code = "GET_CERTIFICATE" /\ a.code = "CERTIFICATE"
             \/ e.last.code = "CHALLENGE" /\ a.code = "CHALLENGE_AUTH"
             \/ e.last.code = "SEND_EVENT" /\ a.code = "EVENT_ACK")
  <2>1. x = Outcome("FAIL", e, p)
    BY <1>8, Zenon DEF Process
  <2> QED BY <2>1
<1> QED BY <1>1, <1>2, <1>3, <1>4, <1>5, <1>6, <1>7, <1>8, ZenonT(40)

(* It leaves the flow, its identifier and the outstanding request alone.   *)
SameFlow(e, g) ==
    /\ g.flow = e.flow /\ g.id = e.id /\ g.last = e.last /\ g.slot = e.slot
    /\ g.designated = e.designated /\ (Ready(e) => Ready(g))

LEMMA TotalledOk ==
    ASSUME NEW c, NEW e, ContextOk(c, e), NEW a, NEW g, g = Totalled(e, a)
    PROVE  ContextOk(c, g) /\ SameFlow(e, g) /\ g.buf = e.buf /\ (ChainOk(e) => ChainOk(g))
<1>0. IsContext(e)
  BY DEF ContextOk
<1>1. /\ IsContext(g) /\ g.flow = e.flow /\ g.id = e.id /\ g.last = e.last /\ g.slot = e.slot
      /\ g.buf = e.buf /\ g.notReady = e.notReady /\ g.resume = e.resume
      /\ g.designated = e.designated
  BY <1>0 DEF IsContext, Totalled
<1>2. ContextOk(c, g) /\ (ChainOk(e) => ChainOk(g))
  BY <1>1 DEF ContextOk, ChainOk
<1> QED BY <1>1, <1>2 DEF SameFlow, Ready

(* A portion joins the chain; in order if it is the portion asked for.     *)
InOrder(e, a) == a.code = "CERTIFICATE" => a.re = e.last /\ a.re.off = Len(e.buf)

LEMMA AtMost == ASSUME NEW x \in Nat, NEW y \in Nat, ~(x > y) PROVE x <= y
OBVIOUS

LEMMA Within ==
    ASSUME NEW off \in Nat, NEW len \in Nat, NEW rem \in Nat, NEW n \in Nat,
           NEW end, end = off + len, end + rem = n
    PROVE  end \in Nat /\ off <= end /\ end <= n /\ len = end - off
OBVIOUS

HasRoom(e, a) == ~(Len(e.buf \o a.data) > BufferSize)

LEMMA FilledOk ==
    ASSUME NEW c, NEW e, ContextOk(c, e), NEW a, IsAnswer(a), a.code = "CERTIFICATE",
           e.last.code = "GET_CERTIFICATE",
           a.slot = e.slot, HasRoom(e, a), NEW g, g = Filled(e, a)
    PROVE  ContextOk(c, g) /\ SameFlow(e, g) /\ (ChainOk(e) /\ InOrder(e, a) => ChainOk(g))
<1>0. PICK f : f = Totalled(e, a)
  OBVIOUS
<1>1. ContextOk(c, f) /\ SameFlow(e, f) /\ f.buf = e.buf
  BY <1>0, TotalledOk
<1>2. IsContext(f) /\ IsSeq(e.buf) /\ Len(e.buf) \in Nat /\ BufferSize \in Nat
  BY <1>1, LenNat, ConstantsAssumption, SMTT(30) DEF ContextOk
<1>3. /\ IsContext(g) /\ g.flow = f.flow /\ g.id = f.id /\ g.last = f.last /\ g.slot = f.slot
      /\ g.buf = e.buf \o a.data /\ g.notReady = f.notReady /\ g.resume = f.resume
      /\ g.designated = f.designated
  BY <1>0, <1>2, Zenon DEF IsContext, Filled
<1>4. SameFlow(e, g)
  BY <1>1, <1>3 DEF SameFlow, Ready
<1>p. PICK s, off, end : s = a.re.slot /\ off = a.re.off /\ end = off + Len(a.data)
  BY Zenon
<1>5. /\ s \in Slots /\ off \in Nat /\ Len(a.data) \in Nat /\ a.rem \in Nat
      /\ end + a.rem = Chains[s] /\ a.data = SubSeq(Chain(s), off + 1, end) /\ a.slot = s
  <2>1. /\ a.re.slot \in Slots /\ Len(a.data) \in Nat /\ a.rem \in Nat
        /\ a.re.off + Len(a.data) + a.rem = Chains[a.re.slot]
        /\ a.data = SubSeq(Chain(a.re.slot), a.re.off + 1, a.re.off + Len(a.data))
    BY Zenon DEF IsAnswer
  <2>2. IsRequest(a.re) /\ a.slot = a.re.slot
    BY DEF IsAnswer
  <2>3. a.re.off \in Nat
    BY <2>2 DEF IsRequest
  <2> QED BY <1>p, <2>1, <2>2, <2>3
<1>6. Chains[s] \in Nat /\ end \in Nat /\ off <= end /\ end <= Chains[s]
  <2>1. Chains[s] \in Nat
    BY <1>5, ChainSeq, Zenon
  <2>2. end = off + Len(a.data)
    BY <1>p
  <2>3. PICK len, rem, n : len = Len(a.data) /\ rem = a.rem /\ n = Chains[s]
    BY Zenon
  <2>4. len \in Nat /\ rem \in Nat /\ n \in Nat /\ end = off + len /\ end + rem = n /\ off \in Nat
    BY <1>5, <2>1, <2>2, <2>3, Zenon
  <2>5. end \in Nat /\ off <= end /\ end <= n
    BY <2>4, Within
  <2> QED BY <2>1, <2>3, <2>5, Zenon
<1>7. /\ IsSeq(a.data) /\ Len(a.data) = end - off
      /\ SubSeq(Chain(s), 1, off) \o a.data = SubSeq(Chain(s), 1, end)
  BY <1>5, <1>6, Portions
<1>8. IsSeq(g.buf) /\ Len(g.buf) = Len(e.buf) + Len(a.data) /\ Len(g.buf) \in Nat
  <2>1. IsSeq(g.buf) /\ Len(g.buf) = Len(e.buf) + Len(a.data)
    <3>1. IsSeq(e.buf \o a.data) /\ Len(e.buf \o a.data) = Len(e.buf) + Len(a.data)
      BY <1>2, <1>7, ConcatSeq, Zenon
    <3> QED BY <1>3, <3>1, Zenon
  <2> QED BY <2>1, LenNat, Zenon
<1>9. ContextOk(c, g)
  <2>1. ~(Len(g.buf) > BufferSize)
    BY <1>3, Zenon DEF HasRoom
  <2>2. Len(g.buf) <= BufferSize
    BY <1>2, <1>8, <2>1, AtMost, Zenon
  <2> QED BY <1>1, <1>3, <1>8, <2>2, ZenonT(40) DEF ContextOk
<1>10. ASSUME ChainOk(e), InOrder(e, a) PROVE ChainOk(g)
  <2>1. off = Len(e.buf) /\ e.slot = s /\ g.slot = s
    BY <1>p, <1>1, <1>3, <1>5, <1>10, SMTT(30) DEF InOrder, SameFlow
  <2>2. Len(g.buf) = end
    BY <1>2, <1>5, <1>7, <1>8, <2>1, <1>6, SMTT(30)
  <2>3. e.buf = SubSeq(Chain(s), 1, off)
    <3>1. CASE e.buf = <<>>
      <4>1. off = 0
        BY <2>1, <3>1
      <4>2. SubSeq(Chain(s), 1, 0) = <<>>
        OBVIOUS
      <4> QED BY <3>1, <4>1, <4>2
    <3>2. CASE e.buf # <<>>
      BY <1>10, <2>1, <3>2 DEF ChainOk
    <3> QED BY <3>1, <3>2
  <2>4. g.buf = SubSeq(Chain(s), 1, end)
    BY <1>3, <1>7, <2>3, Zenon
  <2> QED BY <1>5, <1>6, <2>1, <2>2, <2>4 DEF ChainOk
<1> QED BY <1>4, <1>9, <1>10

(* The transcript with the response, and the slot that is now known.       *)
LEMMA RecordingOk ==
    ASSUME NEW p, IsResponder(p), NEW a, NEW q, q = Recording(p, a)
    PROVE  IsResponder(q) /\ q.mut = Append(p.mut, Took(a))
<1>1. IsSeq(Append(p.mut, Took(a)))
  BY AppendSeq DEF IsResponder
<1> QED BY <1>1 DEF Recording, IsResponder

LEMMA KnownOk ==
    ASSUME NEW q, IsResponder(q), NEW k, NEW w, w = [q EXCEPT !.known = k]
    PROVE  IsResponder(w) /\ w.mut = q.mut
BY DEF IsResponder

LEMMA TookIs == ASSUME NEW a, IsAnswer(a), a.code # "CHALLENGE_AUTH" PROVE Took(a) = Answered(a)
<1>1. [a EXCEPT !.sig = <<>>] = a
  BY DEF IsAnswer
<1> QED BY <1>1, Zenon DEF Took

(* What processing the response a guarantees, whatever its result.         *)
Processed(c, e, p, a, x) ==
    /\ ContextOk(c, x.e) /\ SameFlow(e, x.e) /\ IsResponder(x.p)
    /\ ChainOk(e) /\ InOrder(e, a) => ChainOk(x.e)
    /\ x.status \in {"OK", "ERROR", "FAIL", "NOT_READY", "CONTINUE", "UNVERIFIED"}
    /\ x.status = "NOT_READY" => e.last.code = "SEND_EVENT"
    /\ x.status = "CONTINUE" => e.last.code = "GET_CERTIFICATE" /\ a.code = "CERTIFICATE"
    /\ x.status \in {"OK", "CONTINUE"} /\ e.last.code \in {"GET_DIGESTS", "GET_CERTIFICATE"} =>
         a.code \in {"DIGESTS", "CERTIFICATE"} /\ x.p.mut = Append(p.mut, Answered(a))
    /\ x.status = "UNVERIFIED" =>
         /\ e.last.code = "CHALLENGE" /\ a.code = "CHALLENGE_AUTH"
         /\ a.sig # Append(p.mut, Took(a))

LEMMA SameFlowRefl == ASSUME NEW e PROVE SameFlow(e, e)
BY DEF SameFlow

LEMMA ProcessIs ==
    ASSUME NEW c, NEW e, ContextOk(c, e), NEW p, IsResponder(p), NEW a, IsAnswer(a),
           NEW x, x = Process(e, p, a)
    PROVE  Processed(c, e, p, a, x)
<1>1. SameFlow(e, e)
  BY SameFlowRefl
<1>2. PICK f, q : f = Totalled(e, a) /\ q = Recording(p, a)
  BY Zenon
<1>3. ContextOk(c, f) /\ SameFlow(e, f) /\ (ChainOk(e) => ChainOk(f))
  BY <1>2, TotalledOk
<1>4. IsResponder(q) /\ q.mut = Append(p.mut, Took(a))
  BY <1>2, RecordingOk
<1>5. a.code # "CHALLENGE_AUTH" => Took(a) = Answered(a)
  BY TookIs
<1>6. ASSUME NEW s, x = Outcome(s, e, p), s \in {"OK", "ERROR", "FAIL"},
             s = "OK" => e.last.code \in {"-", "SEND_EVENT"}
      PROVE  Processed(c, e, p, a, x)
  <2>1. x.status = s /\ x.e = e /\ x.p = p
    BY <1>6 DEF Outcome
  <2> QED BY <1>1, <1>6, <2>1 DEF Processed
<1>7. CASE /\ x = Outcome("NOT_READY", e, p)
           /\ a.code = "RESPONSE_NOT_READY" /\ a.re.code = e.last.code
  <2>1. x.status = "NOT_READY" /\ x.e = e /\ x.p = p
    BY <1>7 DEF Outcome
  <2>2. e.last.code = "SEND_EVENT"
    BY <1>7 DEF IsAnswer
  <2> QED BY <1>1, <2>1, <2>2 DEF Processed
<1>8. CASE /\ x = Outcome("OK", e, Recording(p, a))
           /\ e.last.code = "GET_DIGESTS" /\ a.code = "DIGESTS"
  <2>1. x.status = "OK" /\ x.e = e /\ x.p = q
    BY <1>2, <1>8 DEF Outcome
  <2> QED BY <1>1, <1>4, <1>5, <1>8, <2>1 DEF Processed
<1>9. CASE /\ e.last.code = "GET_CERTIFICATE" /\ a.code = "CERTIFICATE"
           /\ \/ x = Outcome("FAIL", Totalled(e, a), p)
              \/ x = Outcome("FAIL", Totalled(e, a), Recording(p, a))
  <2>1. x.status = "FAIL" /\ x.e = f /\ x.p \in {p, q}
    BY <1>2, <1>9 DEF Outcome
  <2> QED BY <1>3, <1>4, <2>1 DEF Processed
<1>10. CASE /\ e.last.code = "GET_CERTIFICATE" /\ a.code = "CERTIFICATE"
            /\ a.slot = e.slot /\ ~(Len(e.buf \o a.data) > BufferSize)
            /\ \/ x = Outcome("CONTINUE", Filled(e, a), Recording(p, a))
               \/ x = Outcome("FAIL", Filled(e, a), Recording(p, a))
               \/ x = Outcome("OK", Filled(e, a),
                              [Recording(p, a) EXCEPT !.known = @ \cup {e.slot}])
  <2>1. PICK g : g = Filled(e, a)
    OBVIOUS
  <2>2. ContextOk(c, g) /\ SameFlow(e, g) /\ (ChainOk(e) /\ InOrder(e, a) => ChainOk(g))
    <3>1. HasRoom(e, a)
      BY <1>10, Zenon DEF HasRoom
    <3> QED BY <1>10, <2>1, <3>1, FilledOk
  <2>3. /\ x.status \in {"CONTINUE", "FAIL", "OK"} /\ x.e = g
        /\ IsResponder(x.p) /\ x.p.mut = Append(p.mut, Took(a))
    <3>1. PICK w : w = [Recording(p, a) EXCEPT !.known = @ \cup {e.slot}]
      BY Zenon
    <3>2. w = [q EXCEPT !.known = q.known \cup {e.slot}]
      BY <1>2, <3>1
    <3>3. \/ x = Outcome("CONTINUE", g, q) \/ x = Outcome("FAIL", g, q)
          \/ x = Outcome("OK", g, w)
      BY <1>2, <1>10, <2>1, <3>1, Zenon
    <3>4. x.status \in {"CONTINUE", "FAIL", "OK"} /\ x.e = g /\ x.p \in {q, w}
      BY <3>3 DEF Outcome
    <3>5. IsResponder(w) /\ w.mut = q.mut
      BY <1>4, <3>2, KnownOk
    <3> QED BY <1>4, <3>4, <3>5
  <2> QED BY <1>5, <1>10, <2>2, <2>3 DEF Processed
<1>11. CASE /\ e.last.code = "CHALLENGE" /\ a.code = "CHALLENGE_AUTH"
            /\ \/ x.status = "OK"
               \/ x.status = "UNVERIFIED" /\ a.sig # Recording(p, a).mut
            /\ x = Outcome(x.status, e,
                           [p EXCEPT !.mut = <<>>, !.auth = @ \/ a.sig = Recording(p, a).mut])
  <2>1. PICK b : b = (p.auth \/ a.sig = Recording(p, a).mut)
    OBVIOUS
  <2>2. x.e = e /\ x.p = [p EXCEPT !.mut = <<>>, !.auth = b]
    BY <1>11, <2>1 DEF Outcome
  <2>3. IsResponder(x.p)
    BY <2>2, NoneSeq DEF IsResponder
  <2>4. x.status = "UNVERIFIED" => a.sig # Append(p.mut, Took(a))
    BY <1>2, <1>4, <1>11
  <2> QED BY <1>1, <1>11, <2>2, <2>3, <2>4 DEF Processed
<1>12. ProcessResult(e, p, a, x)
  BY ProcessCases
<1> QED BY <1>6, <1>7, <1>8, <1>9, <1>10, <1>11, <1>12, ZenonT(40) DEF ProcessResult

-----------------------------------------------------------------------------
(* The acknowledgements.                                                   *)

Advanced(e) == [e EXCEPT !.id = NextId(@)]

(* request_id wraps to 1.                                                  *)
LEMMA AdvancedOk ==
    ASSUME NEW c, NEW e, ContextOk(c, e), NEW g, g = Advanced(e)
    PROVE  /\ ContextOk(c, g) /\ g.flow = e.flow /\ g.id = NextId(e.id) /\ g.last = e.last
           /\ g.buf = e.buf /\ (ChainOk(e) => ChainOk(g))
<1>0. IsContext(e) /\ e.id \in 0..MaxId
  BY DEF ContextOk
<1>1. /\ IsContext(g) /\ g.flow = e.flow /\ g.id = NextId(e.id) /\ g.last = e.last
      /\ g.slot = e.slot /\ g.buf = e.buf /\ g.notReady = e.notReady /\ g.resume = e.resume
  BY <1>0 DEF IsContext, Advanced
<1>2. NextId(e.id) \in 0..MaxId
  BY <1>0, ConstantsAssumption DEF NextId
<1>3. ContextOk(c, g) /\ (ChainOk(e) => ChainOk(g))
  BY <1>1, <1>2, SMTT(30) DEF ContextOk, ChainOk
<1> QED BY <1>1, <1>3

LEMMA AckRequestInv ==
    ASSUME EncapInv, NEW m, Handles(m), NEW c, c = Encap(m.ch),
           NEW e, ContextOk(c, e), OnTime => ChainOk(e),
           e.flow # "NONE", e.flow = ctx[c].flow,
           NEW r, Answerable(r), e.last = r, r.code = "GET_CERTIFICATE" => r.off = Len(e.buf),
           Orderly /\ Basic(e)' => rsp'.mut = Append(req.mut, Recorded(r)),
           Orderly /\ Starting => c = "session" /\ e.flow = "SESS_MUT_AUTH",
           AckRequest(m, c, e, r)
    PROVE  EncapInv'
<1>1. PICK g : g = Advanced(e)
  OBVIOUS
<1>2. /\ ContextOk(c, g) /\ g.flow = e.flow /\ g.id = NextId(e.id) /\ g.last = e.last
      /\ g.buf = e.buf /\ (ChainOk(e) => ChainOk(g))
  BY <1>1, AdvancedOk
<1>3. /\ ctx' = [ctx EXCEPT ![c] = g]
      /\ Reply(Msg(m.ch, "ENCAPSULATED_RESPONSE_ACK", g.id, m.id, r))
  <2>1. /\ ctx' = [ctx EXCEPT ![c] = Advanced(e)]
        /\ Reply(Msg(m.ch, "ENCAPSULATED_RESPONSE_ACK", NextId(e.id), m.id, r))
    BY Zenon DEF AckRequest, Advanced
  <2> QED BY <1>1, <1>2, <2>1, Zenon
<1>4. Outstanding(g, r)
  BY <1>2 DEF Outstanding
<1>5. Basic(g)' => Basic(e)'
  BY <1>2 DEF Basic
<1>6. /\ OnTime => ChainOk(g)
      /\ g.flow # "NONE" /\ g.flow = ctx[c].flow
      /\ r.code = "GET_CERTIFICATE" => r.off = Len(g.buf)
      /\ Orderly /\ Basic(g)' => rsp'.mut = Append(req.mut, Recorded(r))
      /\ Orderly /\ Starting => c = "session" /\ g.flow = "SESS_MUT_AUTH"
  BY <1>2, <1>5
<1> QED BY <1>2, <1>3, <1>4, <1>6, GoOnInv, Zenon

(* The flow ends with an ERROR.                                            *)
LEMMA EndWithErrorInv ==
    ASSUME EncapInv, NEW m, Handles(m), NEW c, c = Encap(m.ch),
           NEW e, ContextOk(c, Ended(e)), Ended(e).flow = "NONE", OnTime => ChainOk(Ended(e)),
           NEW code, EndWithError(m, c, e, code)
    PROVE  EncapInv'
<1>1. PICK g, n : g = Ended(e) /\ n = Error(m.ch, code)
  BY Zenon
<1>2. ctx' = [ctx EXCEPT ![c] = g] /\ Reply(n)
  BY <1>1, Zenon DEF EndWithError, Ended
<1>3. n.ch = m.ch /\ n.code = "ERROR"
  BY <1>1 DEF Error, Msg
<1> QED BY <1>1, <1>2, <1>3, CloseInv, Zenon

(* The flow ends with an acknowledgement, and the designated slot.         *)
LastAck(f, deferred) ==
    IF f.flow = "SESS_MUT_AUTH" /\ ~deferred
    THEN Request("REQ_SLOT_NUMBER", f.designated, 0, 0) ELSE NoRequest

LEMMA AckEndInv ==
    ASSUME EncapInv, NEW m, Handles(m), NEW c, c = Encap(m.ch),
           NEW e, ContextOk(c, Ended(e)), Ended(e).flow = "NONE", OnTime => ChainOk(Ended(e)),
           NEW deferred, AckEnd(m, c, e, deferred), LastAck(e, deferred).code \in FinalAck,
           Orderly /\ Starting =>
             c = "session" /\ LastAck(e, deferred).slot = Ended(e).designated
    PROVE  EncapInv'
<1>1. PICK g, b, n : /\ g = Ended(e) /\ b = LastAck(e, deferred)
                     /\ n = Msg(m.ch, "ENCAPSULATED_RESPONSE_ACK", 0, m.id, b)
  BY Zenon
<1>2. ctx' = [ctx EXCEPT ![c] = g] /\ Reply(n)
  <2>1. /\ ctx' = [ctx EXCEPT ![c] = Ended(e)]
        /\ Reply(Msg(m.ch, "ENCAPSULATED_RESPONSE_ACK", 0, m.id, LastAck(e, deferred)))
    BY Zenon DEF AckEnd, Ended, LastAck
  <2> QED BY <1>1, <2>1, Zenon
<1>3. n.ch = m.ch /\ n.code = "ENCAPSULATED_RESPONSE_ACK" /\ n.body = b
  BY <1>1 DEF Msg
<1>4. /\ n.body.code \in FinalAck
      /\ Orderly /\ Starting => c = "session" /\ n.body.slot = g.designated
  BY <1>1, <1>3
<1> QED BY <1>1, <1>2, <1>3, <1>4, CloseInv, Zenon

LEMMA LastAckIs ==
    ASSUME NEW f, NEW deferred
    PROVE  /\ LastAck(f, deferred).code \in FinalAck
           /\ f.flow = "SESS_MUT_AUTH" /\ ~deferred => LastAck(f, deferred).slot = f.designated
BY DEF LastAck, Request, NoRequest, FinalAck

(* A context whose flow may end, whatever slot is designated.              *)
MayEnd(c, e) ==
    \A slot : LET f == Designated(e, slot) IN
              /\ f.flow = e.flow /\ Ended(f).designated = f.designated
              /\ ContextOk(c, Ended(f)) /\ Ended(f).flow = "NONE" /\ (OnTime => ChainOk(Ended(f)))

LEMMA MayEndIs ==
    ASSUME NEW c, NEW e, ContextOk(c, e), OnTime => ChainOk(e)
    PROVE  MayEnd(c, e)
<1> SUFFICES ASSUME NEW slot, NEW f, f = Designated(e, slot)
             PROVE  /\ f.flow = e.flow /\ Ended(f).designated = f.designated
                    /\ ContextOk(c, Ended(f)) /\ Ended(f).flow = "NONE"
                    /\ OnTime => ChainOk(Ended(f))
  BY Zenon DEF MayEnd
<1>1. ContextOk(c, f) /\ f.flow = e.flow /\ (ChainOk(e) => ChainOk(f))
  BY DesignatedOk
<1>2. PICK g : g = Ended(f)
  OBVIOUS
<1>3. ContextOk(c, g) /\ g.flow = "NONE" /\ (ChainOk(f) => ChainOk(g))
  BY <1>1, <1>2, EndedOk
<1>4. g.designated = f.designated
  BY <1>1, <1>2 DEF Ended, ContextOk, IsContext
<1> QED BY <1>1, <1>2, <1>3, <1>4

(* ResponseNotReady: the flow may end, to be resumed.                      *)
NotReadyYet(e, flow) == [e EXCEPT !.notReady = TRUE, !.resume = flow]

LEMMA MayEndDeferred ==
    ASSUME NEW c, NEW e, ContextOk(c, e), e.flow # "NONE", e.last.code = "SEND_EVENT",
           NEW g, g = NotReadyYet(e, e.flow)
    PROVE  MayEnd(c, g) /\ g.flow = "GENERAL"
<1>1. IsContext(e) /\ e.flow = "GENERAL"
  BY DEF ContextOk
<1>2. /\ IsContext(g) /\ g.flow = e.flow /\ g.id = e.id /\ g.last = e.last /\ g.slot = e.slot
      /\ g.buf = e.buf /\ g.notReady = TRUE /\ g.resume = "GENERAL"
  BY <1>1 DEF IsContext, NotReadyYet
<1>3. SUFFICES ASSUME NEW slot, NEW f, f = Designated(g, slot)
               PROVE  /\ f.flow = g.flow /\ Ended(f).designated = f.designated
                      /\ ContextOk(c, Ended(f)) /\ Ended(f).flow = "NONE"
                      /\ OnTime => ChainOk(Ended(f))
  <2>1. MayEnd(c, g)
    BY <1>3, Zenon DEF MayEnd
  <2> QED BY <1>1, <1>2, <2>1
<1>4. PICK h : h = Ended(f)
  OBVIOUS
<1>5. /\ IsContext(f) /\ f.flow = g.flow /\ f.id = g.id /\ f.last = g.last /\ f.slot = g.slot
      /\ f.buf = g.buf /\ f.notReady = g.notReady /\ f.resume = g.resume
  BY <1>2, <1>3 DEF IsContext, Designated
<1>6. /\ IsContext(h) /\ h.flow = "NONE" /\ h.id = f.id /\ h.last = f.last /\ h.slot = f.slot
      /\ h.buf = f.buf /\ h.notReady = f.notReady /\ h.resume = f.resume
      /\ h.designated = f.designated
  BY <1>4, <1>5, SMTT(30) DEF IsContext, Ended
<1>7. ContextOk(c, h) /\ ChainOk(h)
  BY <1>2, <1>5, <1>6, ZenonT(40) DEF ContextOk, ChainOk
<1> QED BY <1>4, <1>5, <1>6, <1>7

(* The handler is told of an encapsulated ERROR.                           *)
LEMMA AcknowledgeErrorInv ==
    ASSUME EncapInv, NEW m, Handles(m), NEW c, c = Encap(m.ch),
           NEW e, MayEnd(c, e), NEW deferred,
           Orderly /\ Starting => c = "session" /\ e.flow = "SESS_MUT_AUTH" /\ ~deferred,
           AcknowledgeError(m, c, e, deferred)
    PROVE  EncapInv'
<1>1. PICK x : IF x.do = "FAIL" THEN EndWithError(m, c, Designated(e, x.slot), "UNSPECIFIED")
               ELSE AckEnd(m, c, Designated(e, x.slot), deferred)
  BY Zenon DEF AcknowledgeError, Designated
<1>2. PICK f : f = Designated(e, x.slot)
  OBVIOUS
<1>3. /\ f.flow = e.flow /\ Ended(f).designated = f.designated
      /\ ContextOk(c, Ended(f)) /\ Ended(f).flow = "NONE" /\ (OnTime => ChainOk(Ended(f)))
  BY <1>2, Zenon DEF MayEnd
<1>4. CASE x.do = "FAIL"
  BY <1>1, <1>2, <1>3, <1>4, EndWithErrorInv
<1>5. CASE x.do # "FAIL"
  <2>1. AckEnd(m, c, f, deferred)
    BY <1>1, <1>2, <1>5
  <2>2. /\ LastAck(f, deferred).code \in FinalAck
        /\ Orderly /\ Starting => c = "session" /\ LastAck(f, deferred).slot = Ended(f).designated
    BY <1>3, LastAckIs, SMTT(30)
  <2> QED BY <1>3, <2>1, <2>2, AckEndInv
<1> QED BY <1>4, <1>5

-----------------------------------------------------------------------------
(* DELIVER_ENCAPSULATED_RESPONSE.                                          *)

(* The flow once the response is processed: the context g, the transcript  *)
(* of the connection p.                                                    *)
Goes(c, g, p) ==
    /\ ContextOk(c, g) /\ Ready(g) /\ (OnTime => ChainOk(g)) /\ IsResponder(p)
    /\ g.flow # "NONE" /\ g.flow = ctx[c].flow
    /\ Orderly /\ Starting => c = "session" /\ g.flow = "SESS_MUT_AUTH"
InStep(g, p) == Orderly /\ Basic(g)' => p.mut = req.mut

(* A legal request of the handler's is sent with the acknowledgement.      *)
LEMMA NextRequestInv ==
    ASSUME EncapInv, NEW m, Handles(m), NEW c, c = Encap(m.ch),
           NEW e, NEW p, Goes(c, e, p), InStep(e, p),
           NEW r, MayIssue(r), KeepsChain(e, r) \/ ~OnTime, Fits(e.flow, r.code),
           r.code = "GET_CERTIFICATE" /\ r.off # 0 => r.off = Len(e.buf),
           rsp' = Record(p, r), AckRequest(m, c, Issue(e, r), r)
    PROVE  EncapInv'
<1>0. PICK g, h : g = Issue(e, r) /\ h = Ended(g)
  BY Zenon
<1>1. ContextOk(c, g) /\ (KeepsChain(e, r) => ChainOk(g))
  BY <1>0, IssueOk DEF Goes
<1>2. /\ g.flow = e.flow /\ g.id = e.id /\ g.last = r
      /\ g.buf = IF r.code = "GET_CERTIFICATE" /\ r.off = 0 THEN <<>> ELSE e.buf
  BY <1>0 DEF Goes, ContextOk, IsContext, Issue
<1>3. Len(<<>>) = 0
  OBVIOUS
<1>4. r.code = "GET_CERTIFICATE" => r.off = Len(g.buf)
  BY <1>2, <1>3
<1>5. Answerable(r)
  BY DEF Answerable, MayIssue, Fits
<1>6. ASSUME Orderly, Basic(g)' PROVE rsp'.mut = Append(req.mut, Recorded(r))
  <2>1. Basic(e)' /\ e.flow = "BASIC_MUT_AUTH"
    BY <1>2, <1>6 DEF Basic
  <2>2. p.mut = req.mut /\ r.code # "SEND_EVENT"
    BY <1>6, <2>1, SMTT(30) DEF InStep, Fits
  <2>3. Record(p, r).mut = Append(p.mut, Recorded(r))
    BY <2>2, RecordIs, Zenon DEF Goes
  <2> QED BY <2>2, <2>3
<1>7. /\ g.flow # "NONE" /\ g.flow = ctx[c].flow /\ (OnTime => ChainOk(g))
      /\ Orderly /\ Starting => c = "session" /\ g.flow = "SESS_MUT_AUTH"
  BY <1>1, <1>2 DEF Goes
<1>8. AckRequest(m, c, g, r)
  BY <1>0
<1> QED BY <1>1, <1>2, <1>4, <1>5, <1>6, <1>7, <1>8, AckRequestInv, SMTT(30)

(* What the handler's choice x makes of the flow.                          *)
NextAnswer(m, c, e, f, x) ==
    \/ /\ x.do = "REQUEST" /\ Legal(e.flow, c, x.r.code)
       /\ AckRequest(m, c, Issue(f, x.r), x.r)
    \/ /\ x.do = "REQUEST" /\ ~Legal(e.flow, c, x.r.code)
       /\ EndWithError(m, c, Issue(f, x.r), "UNSPECIFIED")
    \/ x.do \in {"END", "EMPTY"} /\ AckEnd(m, c, f, FALSE)
    \/ x.do = "FAIL" /\ EndWithError(m, c, f, "UNSPECIFIED")
    \/ /\ x.do = "ERROR"
       /\ ctx' = [ctx EXCEPT ![c] = f] /\ Reply(Error(m.ch, "HANDLER"))

LEMMA ContinueInv ==
    ASSUME EncapInv, NEW m, Handles(m), NEW c, c = Encap(m.ch),
           NEW e, NEW p, Goes(c, e, p), InStep(e, p),
           NEW x \in HandlerChoices(c, e, p), NEW f, f = Designated(e, x.slot),
           rsp' = IF x.do = "REQUEST" THEN Record(p, x.r) ELSE p,
           NextAnswer(m, c, e, f, x)
    PROVE  EncapInv'
<1>0. ContextOk(c, e) /\ Ready(e) /\ (OnTime => ChainOk(e))
  BY DEF Goes
<1>1. PICK r : r = x.r
  OBVIOUS
<1>2. x.do = "REQUEST" => MayIssue(r) /\ r.off = 0
  BY <1>1, HandlerIs, SMTT(30)
<1>3. /\ ContextOk(c, f) /\ f.flow = e.flow /\ f.id = e.id /\ Ready(f)
      /\ ChainOk(e) => ChainOk(f)
  BY <1>0, DesignatedOk, SMTT(30) DEF Ready
<1>4. Goes(c, f, p) /\ InStep(f, p)
  BY <1>3 DEF Goes, InStep, Basic
<1>5. /\ ContextOk(c, Ended(f)) /\ Ended(f).flow = "NONE" /\ (OnTime => ChainOk(Ended(f)))
      /\ Ended(f).designated = f.designated
  BY <1>0, <1>3, EndedOk, SMTT(30)
<1>6. CASE /\ x.do = "REQUEST" /\ Legal(e.flow, c, x.r.code)
           /\ AckRequest(m, c, Issue(f, x.r), x.r)
  <2>1. e.flow \in {"BASIC_MUT_AUTH", "SESS_MUT_AUTH", "GENERAL"}
    BY DEF Goes, ContextOk
  <2>2. Fits(f.flow, r.code)
    BY <1>1, <1>3, <1>6, <2>1, LegalIs, SMTT(30)
  <2>3. KeepsChain(f, r) /\ MayIssue(r) /\ r.off = 0
    BY <1>2, <1>6 DEF KeepsChain
  <2>4. rsp' = Record(p, r) /\ AckRequest(m, c, Issue(f, r), r)
    BY <1>1, <1>6
  <2> QED BY <1>4, <2>2, <2>3, <2>4, NextRequestInv, SMTT(30)
<1>7. CASE /\ x.do = "REQUEST" /\ ~Legal(e.flow, c, x.r.code)
           /\ EndWithError(m, c, Issue(f, x.r), "UNSPECIFIED")
  <2>1. MayIssue(r) /\ r.off = 0
    BY <1>2, <1>7
  <2>2. PICK g, h : g = Issue(f, r) /\ h = Ended(g)
    BY Zenon
  <2>3. ContextOk(c, h) /\ h.flow = "NONE" /\ ChainOk(h)
    <3>1. Makes(c, f, r, g, h)
      BY <1>3, <2>1, <2>2, Zenon DEF Makes
    <3> QED BY <3>1, HandlerIssues
  <2>4. EndWithError(m, c, g, "UNSPECIFIED")
    BY <1>1, <1>7, <2>2
  <2>5. ContextOk(c, Ended(g)) /\ Ended(g).flow = "NONE" /\ ChainOk(Ended(g))
    BY <2>2, <2>3, ZenonT(40)
  <2> QED BY <2>4, <2>5, EndWithErrorInv
<1>8. CASE x.do \in {"END", "EMPTY"} /\ AckEnd(m, c, f, FALSE)
  <2>1. /\ LastAck(f, FALSE).code \in FinalAck
        /\ f.flow = "SESS_MUT_AUTH" => LastAck(f, FALSE).slot = f.designated
    BY LastAckIs, Zenon
  <2>2. Orderly /\ Starting => c = "session" /\ LastAck(f, FALSE).slot = Ended(f).designated
    BY <1>4, <1>5, <2>1, Zenon DEF Goes
  <2> QED BY <1>5, <1>8, <2>1, <2>2, AckEndInv, Zenon
<1>9. CASE x.do = "FAIL" /\ EndWithError(m, c, f, "UNSPECIFIED")
  BY <1>5, <1>9, EndWithErrorInv
<1>10. CASE x.do = "ERROR" /\ ctx' = [ctx EXCEPT ![c] = f] /\ Reply(Error(m.ch, "HANDLER"))
  <2>1. f.flow = ctx[c].flow /\ (OnTime => ChainOk(f))
    BY <1>4 DEF Goes
  <2> QED BY <1>3, <1>10, <2>1, StayInv, Zenon
<1> QED BY <1>6, <1>7, <1>8, <1>9, <1>10, Zenon DEF NextAnswer

(* What is known once the response is processed.                           *)
Delivered(m, c, e, x) ==
    /\ ContextOk(c, e) /\ e.flow # "NONE"
    /\ Goes(c, x.e, x.p) /\ SameFlow(e, x.e)
    /\ x.status = "NOT_READY" => e.last.code = "SEND_EVENT"
    /\ x.status = "CONTINUE" => e.last.code = "GET_CERTIFICATE"
    /\ Orderly /\ Basic(e) /\ x.status \in {"OK", "CONTINUE"} /\ e.last.code # "CHALLENGE" =>
         x.p.mut = req.mut
    /\ x.status = "UNVERIFIED" => history \cap {"LATE", "KEPT"} # {}

LEMMA NotLate == ASSUME history \cap {"LATE", "KEPT"} = {} PROVE OnTime
<1>1. ASSUME "LATE" \in history PROVE FALSE
  <2>1. "LATE" \in history \cap {"LATE", "KEPT"}
    BY <1>1, SMTT(30)
  <2> QED BY <2>1
<1> QED BY <1>1 DEF OnTime

(* The awaited response: its request, place in the chain and transcript.   *)
Awaited(c, e, a) ==
    /\ a.re = e.last
    /\ a.code = "CERTIFICATE" => a.re.off = Len(e.buf)
    /\ Basic(e) /\ a.code \in {"DIGESTS", "CERTIFICATE"} =>
         req.mut = Append(rsp.mut, Answered(a))
    /\ Basic(e) /\ a.code = "CHALLENGE_AUTH" => a.sig = Append(rsp.mut, Took(a))
    /\ Starting => c = "session" /\ e.flow = "SESS_MUT_AUTH"

LEMMA AwaitedIs ==
    ASSUME NEW m, RspPending(m), m.code = "DELIVER_ENCAPSULATED_RESPONSE",
           NEW c, c = Encap(m.ch), NEW e, e = ctx[c], NEW a, a = m.body
    PROVE  Awaited(c, e, a)
BY Zenon DEF RspPending, Took, Awaited

(* The transcripts agree after the digests or a portion of the chain.      *)
LEMMA InStepIs ==
    ASSUME NEW c, NEW e, NEW a, NEW x, IsAnswer(a), ContextOk(c, e), Awaited(c, e, a), Basic(e),
           Processed(c, e, rsp, a, x), x.status \in {"OK", "CONTINUE"}, e.last.code # "CHALLENGE"
    PROVE  x.p.mut = req.mut
<1>1. e.last.code \in RequestCodes /\ e.last.code # "SEND_EVENT"
  BY Zenon DEF IsAnswer, ContextOk, Basic, Awaited
<1>2. a.code \in {"DIGESTS", "CERTIFICATE"} /\ x.p.mut = Append(rsp.mut, Answered(a))
  BY <1>1, Zenon DEF Processed, RequestCodes
<1> QED BY <1>2, Zenon DEF Awaited

(* A signature that was awaited verifies.                                  *)
LEMMA AwaitedVerifies ==
    ASSUME NEW c, NEW e, NEW a, NEW x, ContextOk(c, e), e.flow # "NONE", Awaited(c, e, a),
           Processed(c, e, rsp, a, x), history \cap {"LATE", "KEPT"} = {}
    PROVE  x.status # "UNVERIFIED"
<1> SUFFICES ASSUME x.status = "UNVERIFIED" PROVE FALSE
  OBVIOUS
<1>1. e.last.code = "CHALLENGE" /\ a.code = "CHALLENGE_AUTH" /\ a.sig # Append(rsp.mut, Took(a))
  BY Zenon DEF Processed
<1>2. Basic(e)
  BY <1>1 DEF Basic, ContextOk
<1> QED BY <1>1, <1>2, Zenon DEF Awaited

LEMMA DeliveredIs ==
    ASSUME EncapInv, toRsp # <<>>, NEW m, m = Head(toRsp),
           m.code = "DELIVER_ENCAPSULATED_RESPONSE",
           NEW c, c = Encap(m.ch), NEW e, e = ctx[c], e.flow # "NONE",
           NEW x, x = Process(e, rsp, m.body)
    PROVE  Delivered(m, c, e, x)
<1>0. PICK a : a = m.body
  BY Zenon
<1>1. /\ RspMsg(m) /\ ContextOk(c, e) /\ (OnTime => ChainOk(e)) /\ (Orderly => RspPending(m))
  BY Taken, Zenon
<1>2. IsAnswer(a) /\ IsResponder(rsp)
  BY <1>0, <1>1, Zenon DEF RspMsg, EncapInv, Shapes
<1>3. Processed(c, e, rsp, a, x)
  BY <1>0, <1>1, <1>2, ProcessIs, Zenon
<1>4. Ready(e)
  BY <1>1, Zenon DEF ContextOk, Ready
<1>5. (OnTime => Orderly) /\ (Orderly => Awaited(c, e, a))
  BY <1>0, <1>1, AwaitedIs, Zenon DEF Orderly
<1>6. OnTime => ChainOk(x.e)
  BY <1>1, <1>3, <1>5, Zenon DEF Processed, InOrder, Awaited
<1>7. Goes(c, x.e, x.p) /\ SameFlow(e, x.e)
  BY <1>3, <1>4, <1>5, <1>6, Zenon DEF Goes, Processed, SameFlow, Awaited
<1>8. ASSUME Orderly, Basic(e), x.status \in {"OK", "CONTINUE"}, e.last.code # "CHALLENGE"
      PROVE  x.p.mut = req.mut
  BY <1>1, <1>2, <1>3, <1>5, <1>8, InStepIs
<1>9. ASSUME x.status = "UNVERIFIED" PROVE history \cap {"LATE", "KEPT"} # {}
  BY <1>1, <1>3, <1>5, <1>9, NotLate, AwaitedVerifies, Zenon
<1> QED BY <1>1, <1>3, <1>7, <1>8, <1>9, Zenon DEF Delivered, Processed

(* What the action does to the history and to the call.                    *)
LEMMA VerifiesKept ==
    ASSUME ChallengeVerifies, NEW status,
           history' = IF status = "UNVERIFIED" THEN history \cup {"UNVERIFIED"} ELSE history,
           status = "UNVERIFIED" => history \cap {"LATE", "KEPT"} # {}
    PROVE  OnTime' = OnTime /\ history \subseteq history' /\ ChallengeVerifies'
BY DEF OnTime, ChallengeVerifies

LEMMA BasicKept ==
    ASSUME history \subseteq history', NEW e, NEW g, g.flow = e.flow, Basic(g)'
    PROVE  Basic(e)
BY DEF Basic

(* The action, its local definitions as parameters.                        *)
More(g) == Request("GET_CERTIFICATE", g.slot, Len(g.buf), g.last.n)
DeliverStep(m, c, e, x) ==
    \/ /\ x.status \in {"FAIL", "UNVERIFIED"} /\ rsp' = x.p
       /\ EndWithError(m, c, x.e, "INVALID_RESPONSE_CODE")
    \/ /\ x.status = "ERROR" /\ rsp' = x.p
       /\ AcknowledgeError(m, c, x.e, FALSE)
    \/ /\ x.status = "NOT_READY" /\ rsp' = x.p
       /\ AcknowledgeError(m, c, NotReadyYet(x.e, e.flow), TRUE)
    \/ /\ x.status = "CONTINUE" /\ rsp' = Record(x.p, More(x.e))
       /\ AckRequest(m, c, Issue(x.e, More(x.e)), More(x.e))
    \/ /\ x.status = "OK" /\ e.last.code = "CHALLENGE"
       /\ rsp' = x.p /\ AckEnd(m, c, x.e, FALSE)
    \/ /\ x.status = "OK" /\ e.last.code # "CHALLENGE"
       /\ \E y \in HandlerChoices(c, x.e, x.p) :
            /\ rsp' = IF y.do = "REQUEST" THEN Record(x.p, y.r) ELSE x.p
            /\ NextAnswer(m, c, x.e, Designated(x.e, y.slot), y)

(* What each of its cases starts from.                                     *)
Delivers(m, c, e, g, p) ==
    /\ EncapInv /\ c = Encap(m.ch) /\ ContextOk(c, e) /\ e.flow # "NONE"
    /\ Goes(c, g, p) /\ SameFlow(e, g) /\ (IsResponder(rsp') => Handles(m))

LEMMA DeliversIs ==
    ASSUME NEW m, NEW c, NEW e, NEW g, NEW p, Delivers(m, c, e, g, p)
    PROVE  /\ EncapInv /\ c = Encap(m.ch) /\ IsResponder(p) /\ (IsResponder(rsp') => Handles(m))
           /\ ContextOk(c, g) /\ (OnTime => ChainOk(g)) /\ g.flow # "NONE" /\ Goes(c, g, p)
           /\ Orderly /\ Starting => c = "session" /\ g.flow = "SESS_MUT_AUTH"
           /\ g.flow = e.flow /\ g.last = e.last /\ g.slot = e.slot
BY Zenon DEF Delivers, Goes, SameFlow

LEMMA DeliverFails ==
    ASSUME NEW m, NEW c, NEW e, NEW g, NEW p, Delivers(m, c, e, g, p),
           rsp' = p, EndWithError(m, c, g, "INVALID_RESPONSE_CODE")
    PROVE  EncapInv'
<1>1. /\ EncapInv /\ c = Encap(m.ch) /\ Handles(m)
      /\ ContextOk(c, g) /\ (OnTime => ChainOk(g))
  BY DeliversIs
<1>2. ContextOk(c, Ended(g)) /\ Ended(g).flow = "NONE" /\ (OnTime => ChainOk(Ended(g)))
  BY <1>1, EndedOk, Zenon
<1> QED BY <1>1, <1>2, EndWithErrorInv, Zenon

LEMMA DeliverError ==
    ASSUME NEW m, NEW c, NEW e, NEW g, NEW p, Delivers(m, c, e, g, p),
           rsp' = p, AcknowledgeError(m, c, g, FALSE)
    PROVE  EncapInv'
<1>1. /\ EncapInv /\ c = Encap(m.ch) /\ Handles(m)
      /\ ContextOk(c, g) /\ (OnTime => ChainOk(g))
      /\ Orderly /\ Starting => c = "session" /\ g.flow = "SESS_MUT_AUTH" /\ ~FALSE
  BY DeliversIs
<1>2. MayEnd(c, g)
  BY <1>1, MayEndIs, Zenon
<1> QED BY <1>1, <1>2, AcknowledgeErrorInv, Zenon

LEMMA DeliverNotReady ==
    ASSUME NEW m, NEW c, NEW e, NEW g, NEW p, Delivers(m, c, e, g, p),
           e.last.code = "SEND_EVENT", rsp' = p,
           AcknowledgeError(m, c, NotReadyYet(g, e.flow), TRUE)
    PROVE  EncapInv'
<1>1. /\ EncapInv /\ c = Encap(m.ch) /\ Handles(m) /\ ContextOk(c, g) /\ g.flow # "NONE"
      /\ g.last.code = "SEND_EVENT" /\ g.flow = e.flow
      /\ Orderly /\ Starting => g.flow = "SESS_MUT_AUTH"
  BY DeliversIs
<1>2. PICK h : h = NotReadyYet(g, g.flow)
  BY Zenon
<1>3. MayEnd(c, h) /\ h.flow = "GENERAL"
  BY <1>1, <1>2, MayEndDeferred, Zenon
<1>4. ~(Orderly /\ Starting)
  BY <1>1, Zenon DEF ContextOk
<1>5. AcknowledgeError(m, c, h, TRUE)
  BY <1>1, <1>2, Zenon
<1> QED BY <1>1, <1>3, <1>4, <1>5, AcknowledgeErrorInv, Zenon

LEMMA DeliverContinues ==
    ASSUME NEW m, NEW c, NEW e, NEW g, NEW p, Delivers(m, c, e, g, p), InStep(g, p),
           e.last.code = "GET_CERTIFICATE",
           NEW r, r = More(g), rsp' = Record(p, r), AckRequest(m, c, Issue(g, r), r)
    PROVE  EncapInv'
<1>1. /\ EncapInv /\ c = Encap(m.ch) /\ IsResponder(p) /\ (IsResponder(rsp') => Handles(m))
      /\ ContextOk(c, g) /\ (OnTime => ChainOk(g)) /\ Goes(c, g, p)
      /\ g.last.code = "GET_CERTIFICATE"
  BY DeliversIs
<1>2. Handles(m)
  BY <1>1, RecordIs, Zenon
<1>3. /\ r.code = "GET_CERTIFICATE" /\ r.slot = g.slot /\ r.off = Len(g.buf)
      /\ r = Request(r.code, r.slot, r.off, r.n)
  BY DEF More, Request
<1>4. g.slot \in Slots \cup EmptySlots /\ Len(g.buf) \in Nat
  BY <1>1, LenNat, Zenon DEF ContextOk
<1>5. MayIssue(r)
  BY <1>3, <1>4 DEF MayIssue, IsRequest, RequestCodes
<1>6. Fits(g.flow, r.code)
  BY <1>3 DEF Fits
<1>7. KeepsChain(g, r) \/ ~OnTime
  BY <1>1, <1>3, Zenon DEF KeepsChain
<1> QED BY <1>1, <1>2, <1>3, <1>5, <1>6, <1>7, NextRequestInv, Zenon

LEMMA DeliverEnds ==
    ASSUME NEW m, NEW c, NEW e, NEW g, NEW p, Delivers(m, c, e, g, p),
           e.last.code = "CHALLENGE", rsp' = p, AckEnd(m, c, g, FALSE)
    PROVE  EncapInv'
<1>1. /\ EncapInv /\ c = Encap(m.ch) /\ Handles(m)
      /\ ContextOk(c, g) /\ (OnTime => ChainOk(g)) /\ g.flow # "NONE"
      /\ g.last.code = "CHALLENGE" /\ (Orderly /\ Starting => g.flow = "SESS_MUT_AUTH")
  BY DeliversIs
<1>2. ContextOk(c, Ended(g)) /\ Ended(g).flow = "NONE" /\ (OnTime => ChainOk(Ended(g)))
  BY <1>1, EndedOk, Zenon
<1>3. LastAck(g, FALSE).code \in FinalAck
  BY LastAckIs, Zenon
<1>4. ~(Orderly /\ Starting)
  BY <1>1, Zenon DEF ContextOk
<1> QED BY <1>1, <1>2, <1>3, <1>4, AckEndInv, Zenon

LEMMA DeliverGoesOn ==
    ASSUME NEW m, NEW c, NEW e, NEW g, NEW p, Delivers(m, c, e, g, p), InStep(g, p),
           NEW y \in HandlerChoices(c, g, p),
           rsp' = IF y.do = "REQUEST" THEN Record(p, y.r) ELSE p,
           NEW f, f = Designated(g, y.slot), NextAnswer(m, c, g, f, y)
    PROVE  EncapInv'
<1>1. /\ EncapInv /\ c = Encap(m.ch) /\ IsResponder(p) /\ (IsResponder(rsp') => Handles(m))
      /\ Goes(c, g, p)
  BY DeliversIs
<1>2. Handles(m)
  BY <1>1, RecordIs, Zenon
<1> QED BY <1>1, <1>2, ContinueInv, Zenon

LEMMA DeliverStepInv ==
    ASSUME EncapInv, toRsp # <<>>, UNCHANGED <<clear, req, call>>,
           NEW m, m = Head(toRsp), m.code = "DELIVER_ENCAPSULATED_RESPONSE",
           NEW c, c = Encap(m.ch), NEW e, e = ctx[c], e.flow # "NONE",
           NEW x, x = Process(e, rsp, m.body),
           history' = IF x.status = "UNVERIFIED" THEN history \cup {"UNVERIFIED"} ELSE history,
           DeliverStep(m, c, e, x)
    PROVE  EncapInv'
<1>0. PICK g, p : g = x.e /\ p = x.p
  BY Zenon
<1>1. Delivered(m, c, e, x)
  BY DeliveredIs, Zenon
<1>2. /\ ContextOk(c, e) /\ e.flow # "NONE" /\ Goes(c, g, p) /\ SameFlow(e, g)
      /\ x.status = "NOT_READY" => e.last.code = "SEND_EVENT"
      /\ x.status = "CONTINUE" => e.last.code = "GET_CERTIFICATE"
      /\ Orderly /\ Basic(e) /\ x.status \in {"OK", "CONTINUE"} /\ e.last.code # "CHALLENGE" =>
           p.mut = req.mut
      /\ x.status = "UNVERIFIED" => history \cap {"LATE", "KEPT"} # {}
  BY <1>0, <1>1, Zenon DEF Delivered
<1>3. OnTime' = OnTime /\ history \subseteq history' /\ ChallengeVerifies'
  BY <1>2, VerifiesKept, Zenon DEF EncapInv
<1>4. Delivers(m, c, e, g, p)
  BY <1>2, <1>3, Zenon DEF Delivers, Handles
<1>5. ASSUME x.status \in {"OK", "CONTINUE"}, e.last.code # "CHALLENGE"
      PROVE  InStep(g, p)
  BY <1>2, <1>3, <1>5, BasicKept, Zenon DEF InStep, SameFlow
<1>6. CASE rsp' = p /\ EndWithError(m, c, g, "INVALID_RESPONSE_CODE")
  BY <1>4, <1>6, DeliverFails, Zenon
<1>7. CASE rsp' = p /\ AcknowledgeError(m, c, g, FALSE)
  BY <1>4, <1>7, DeliverError, Zenon
<1>8. CASE x.status = "NOT_READY" /\ rsp' = p /\ AcknowledgeError(m, c, NotReadyYet(g, e.flow), TRUE)
  BY <1>2, <1>4, <1>8, DeliverNotReady, Zenon
<1>9. CASE /\ x.status = "CONTINUE" /\ rsp' = Record(p, More(g))
           /\ AckRequest(m, c, Issue(g, More(g)), More(g))
  <2>1. e.last.code = "GET_CERTIFICATE" /\ InStep(g, p)
    BY <1>2, <1>5, <1>9
  <2> QED BY <1>4, <1>9, <2>1, DeliverContinues, Zenon
<1>10. CASE e.last.code = "CHALLENGE" /\ rsp' = p /\ AckEnd(m, c, g, FALSE)
  BY <1>4, <1>10, DeliverEnds, Zenon
<1>11. CASE /\ x.status = "OK" /\ e.last.code # "CHALLENGE"
            /\ \E y \in HandlerChoices(c, g, p) :
                 /\ rsp' = IF y.do = "REQUEST" THEN Record(p, y.r) ELSE p
                 /\ NextAnswer(m, c, g, Designated(g, y.slot), y)
  BY <1>4, <1>5, <1>11, DeliverGoesOn, Zenon
<1> QED BY <1>0, <1>6, <1>7, <1>8, <1>9, <1>10, <1>11, Zenon DEF DeliverStep

LEMMA RespondDeliverInv == ASSUME EncapInv, RespondDeliver PROVE EncapInv'
<1> DEFINE mm == Head(toRsp)
           cc == Encap(mm.ch)
           xx == Process(ctx[cc], rsp, mm.body)
<1>a. /\ Responds("DELIVER_ENCAPSULATED_RESPONSE")
      /\ \/ Refuse(mm)
         \/ /\ Reply(Error(mm.ch, "INVALID_REQUEST"))
            /\ UNCHANGED <<ctx, rsp, history>>
         \/ /\ ctx[cc].flow # "NONE"
            /\ history' = IF xx.status = "UNVERIFIED" THEN history \cup {"UNVERIFIED"}
                          ELSE history
            /\ DeliverStep(mm, cc, ctx[cc], xx)
  BY Zenon DEF RespondDeliver, DeliverStep, NotReadyYet, More, Continue, NextAnswer, Designated
<1>0. PICK m, c, e, x :
        /\ m = mm /\ c = cc /\ e = ctx[cc] /\ x = xx
  BY ZenonT(40)
<1>1. toRsp # <<>> /\ m.code = "DELIVER_ENCAPSULATED_RESPONSE" /\ UNCHANGED <<clear, req, call>>
  BY <1>a, <1>0, Zenon DEF Responds
<1>2. m = Head(toRsp) /\ c = Encap(m.ch) /\ e = ctx[c] /\ x = Process(e, rsp, m.body)
  BY <1>0, Zenon
<1>3. \/ Refuse(m)
      \/ Reply(Error(m.ch, "INVALID_REQUEST")) /\ UNCHANGED <<ctx, rsp, history>>
      \/ /\ e.flow # "NONE"
         /\ history' = IF x.status = "UNVERIFIED" THEN history \cup {"UNVERIFIED"} ELSE history
         /\ DeliverStep(m, c, e, x)
  BY <1>a, <1>0, Zenon
<1> HIDE DEF mm, cc, xx
<1>4. CASE Refuse(m)
  BY <1>1, <1>2, <1>4, RefuseInv, SMTT(30)
<1>5. CASE Reply(Error(m.ch, "INVALID_REQUEST")) /\ UNCHANGED <<ctx, rsp, history>>
  <2>1. PICK ch \in Channels : ch = m.ch
    BY <1>1, <1>2, Taken
  <2>2. PICK n : n = Error(ch, "INVALID_REQUEST")
    OBVIOUS
  <2>3. ReqMsg(n) /\ ReqPending(n)'
    <3>1. ReqMsg(Error(ch, "INVALID_REQUEST")) /\ ReqPending(Error(ch, "INVALID_REQUEST"))'
      BY ErrorPending
    <3> QED BY <2>2, <3>1
  <2>4. IsResponder(rsp') /\ Reply(n)
    BY <1>5, <2>1, <2>2 DEF EncapInv, Shapes
  <2> QED BY <1>1, <1>2, <1>5, <2>3, <2>4, SameReplyInv, SMTT(30)
<1>6. CASE /\ e.flow # "NONE"
           /\ history' = IF x.status = "UNVERIFIED" THEN history \cup {"UNVERIFIED"} ELSE history
           /\ DeliverStep(m, c, e, x)
  BY <1>1, <1>2, <1>6, DeliverStepInv, Zenon
<1> QED BY <1>3, <1>4, <1>5, <1>6, SMTT(30)

-----------------------------------------------------------------------------
(* The theorems.                                                           *)

LEMMA StutterInv == ASSUME EncapInv, UNCHANGED vars PROVE EncapInv'
<1> USE DEF vars
<1>1. OnTime' = OnTime /\ Starting' = Starting /\ Orderly' = Orderly
  BY SMTT(30) DEF OnTime, Starting, Orderly
<1>2. Shapes' /\ CallOk' /\ RspQueue' /\ ReqQueue' /\ FinishFirst'
  BY DEF EncapInv, Shapes, CallOk, RspQueue, ReqQueue, FinishFirst
<1>3. Contexts' /\ ChainsOk'
  BY <1>1, SameContexts, SMTT(30) DEF EncapInv
<1>4. OneInFlight'
  BY <1>1 DEF EncapInv, OneInFlight
<1>5. \A m : (RspPending(m) => RspPending(m)') /\ (ReqPending(m) => ReqPending(m)')
  <2>1. \A m : RspPending(m) => RspPending(m)'
    BY <1>1, SMTT(30) DEF RspPending, Basic, Encap
  <2>2. \A m : ReqPending(m) => ReqPending(m)'
    BY <1>1, SMTT(30) DEF ReqPending, Basic, Encap
  <2> QED BY <2>1, <2>2, SMTT(30)
<1>6. Pending'
  BY <1>1, <1>5, ZenonT(40) DEF EncapInv, Pending
<1>7. FinishAfterFlow' /\ ChallengeVerifies' /\ SuccessEndsFlow'
  BY <1>1 DEF EncapInv, FinishAfterFlow, ChallengeVerifies, SuccessEndsFlow, Encap
<1> QED BY <1>2, <1>3, <1>4, <1>6, <1>7, SMTT(30) DEF EncapInv

LEMMA NextInv == ASSUME EncapInv, [Next]_vars PROVE EncapInv'
<1>1. CASE \E ch \in {"clear", "session"} : StartEncap(ch)
  BY <1>1, StartEncapInv
<1>2. CASE RequesterStep
  BY <1>2, BeginFlowInv, ReceiveChallengeAuthInv, ReceiveEncapsulatedRequestInv, ReceiveAckInv,
     ReceiveFinishRspInv, TimeOutInv, SMTT(30) DEF RequesterStep
<1>3. CASE ResponderStep
  BY <1>3, RespondChallengeInv, RespondGetEncapsulatedRequestInv, RespondDeliverInv,
     RespondFinishInv DEF ResponderStep
<1> QED BY <1>1, <1>2, <1>3, StartChallengeInv, StartSessionInv, LoseInv, StutterInv, SMTT(30) DEF Next

(* The inductive invariant holds of the encapsulated flows, through lost   *)
(* and late messages, abandoned calls and failing handlers.                *)
THEOREM EncapInvHolds == Spec => []EncapInv
<1>1. Init => EncapInv
  BY InitInv
<1>2. EncapInv /\ [Next]_vars => EncapInv'
  BY NextInv
<1> QED BY <1>1, <1>2, PTL DEF Spec

(* request_id stays in its eight bits (0..MaxId), the chain within the     *)
(* Integrator's buffer, a mutual authentication flow on its own channel,   *)
(* and a deferred flow out of progress.                                    *)
THEOREM TypeCorrect == Spec => []TypeOK
<1>1. ASSUME EncapInv PROVE TypeOK
  BY <1>1 DEF EncapInv, Contexts, ContextOk, TypeOK
<1> QED BY <1>1, EncapInvHolds, PTL

(* Unless a call was abandoned with a message under way, every delivered   *)
(* response answers the Responder's outstanding request and carries its    *)
(* request_id (libspdm_encapsulated_request,                               *)
(* libspdm_get_response_encapsulated_response_ack).                        *)
THEOREM AnswersOutstandingHolds == Spec => []AnswersOutstanding
<1>1. ASSUME EncapInv, OnTime, NEW i \in 1..Len(toRsp),
             toRsp[i].code = "DELIVER_ENCAPSULATED_RESPONSE", NEW e, e = ctx[Encap(toRsp[i].ch)]
      PROVE  e.flow # "NONE" /\ toRsp[i].id = e.id /\ toRsp[i].body.re = e.last
  <2>1. PICK m : toRsp = <<m>>
    <3>1. toRsp # <<>>
      BY <1>1
    <3> QED BY <1>1, <3>1 DEF EncapInv, OneInFlight, Orderly
  <2>2. toRsp[i] = m
    BY <1>1, <2>1
  <2>3. RspPending(m)
    BY <1>1, <2>1, SMTT(30) DEF EncapInv, Pending, Orderly
  <2> QED BY <1>1, <2>2, <2>3, SMTT(30) DEF RspPending
<1>2. EncapInv => AnswersOutstanding
  BY <1>1, SMTT(30) DEF AnswersOutstanding
<1> QED BY <1>2, EncapInvHolds, PTL

(* Unless a call was abandoned with a message under way, the buffer of     *)
(* libspdm_process_encap_response_certificate holds the beginning of the   *)
(* chain of the slot asked for, for chains of every length and portions of *)
(* every size.                                                             *)
THEOREM ChainInOrderHolds == Spec => []ChainInOrder
<1>1. ASSUME EncapInv PROVE ChainInOrder
  BY <1>1 DEF EncapInv, Contexts, ChainsOk, ChainOk, ChainInOrder
<1> QED BY <1>1, EncapInvHolds, PTL

(* The signature of an encapsulated CHALLENGE_AUTH covers the transcript   *)
(* that the Responder recorded, but for late messages and for a transcript *)
(* kept from an earlier flow.                                              *)
THEOREM ChallengeVerifiesHolds == Spec => []ChallengeVerifies
<1>1. EncapInv => ChallengeVerifies
  BY DEF EncapInv
<1> QED BY <1>1, EncapInvHolds, PTL

(* A call that returned success left no flow open on its channel.          *)
THEOREM SuccessEndsFlowHolds == Spec => []SuccessEndsFlow
<1>1. EncapInv => SuccessEndsFlow
  BY DEF EncapInv
<1> QED BY <1>1, EncapInvHolds, PTL

(* FINISH is only under way when the flow that KEY_EXCHANGE_RSP opened is  *)
(* over, and names the slot the Responder designated, though earlier calls *)
(* may have been abandoned.                                                *)
THEOREM FinishAfterFlowHolds == Spec => []FinishAfterFlow
<1>1. EncapInv => FinishAfterFlow
  BY DEF EncapInv
<1> QED BY <1>1, EncapInvHolds, PTL

=============================================================================
