--------------------------- MODULE HandshakeProofs ---------------------------
(***************************************************************************)
(* The session tables of both ends stay consistent, for every size of the  *)
(* tables, every limit, every mixture of exchanges, and any number of      *)
(* retries, lost, late, damaged or unsent messages.                        *)
(***************************************************************************)
EXTENDS Handshake, SessionTableProofs

ExchangeApis == {"KEY_EXCHANGE", "PSK_EXCHANGE"}
SessionApis == {"FINISH", "PSK_FINISH", "END_SESSION"}

(* The call c in progress over table t: a call in a session names a        *)
(* session of the table, and an exchange that waits for its answer holds   *)
(* the name of the next free slot.                                         *)
CallInv(t, c) ==
    /\ c.pc \in {"idle", "send", "recv", "rir"}
    /\ c.pc = "idle" => c.half = 0
    /\ c.pc # "idle" => c.api \in ExchangeApis \cup SessionApis
    /\ (c.pc # "idle" /\ c.api \in SessionApis) => Holds(t, c.id) /\ c.half = 0
    /\ (c.pc # "idle" /\ c.api \in ExchangeApis) => c.id = InvalidId
    /\ (c.pc \in {"recv", "rir"} /\ c.api \in ExchangeApis) => c.half # 0
    /\ c.half # 0 =>
         /\ Used(t) # Slots /\ ~AtLimit(t, IsPsk(c.api))
         /\ c.half = LastHalf - First(Slots \ Used(t))

IInv == TableInv(req, "req") /\ TableInv(rsp, "rsp") /\ CallInv(req, call)

USE HandshakeAssumption

-----------------------------------------------------------------------------
(* The common parts.                                                       *)

(* A table has the sessions of itself.                                     *)
LEMMA SameSelf ==
    ASSUME NEW t, NEW half \in Halves, TableInv(t, half)
    PROVE  SameSessions(t, t)
BY DEF SameSessions, TableInv

(* The updates of a session keep its id and its kind.                      *)
LEMMA WithKeeps ==
    ASSUME NEW s, NEW state, NEW k, NEW f, NEW m, NEW n
    PROVE  LET w == With(s, state, k, f, m, n) IN w.id = s.id /\ w.psk = s.psk
BY DEF With

(* Encoding changes a sequence number, or frees the session whose counter  *)
(* is at its end.                                                          *)
LEMMA EncodeInv ==
    ASSUME NEW t, NEW half \in Halves, TableInv(t, half),
           NEW id, id = InvalidId \/ Holds(t, id), NEW d, NEW p
    PROVE  LET e == Encode(t, id, d, p)
           IN  TableInv(e.table, half) /\ (e.ok => SameSessions(t, e.table))
<1>1. CASE id = InvalidId
  BY <1>1, SameSelf DEF Encode
<1>2. CASE id # InvalidId
  <2> DEFINE k == DirKey(Session(t, id), d)
             s == WithSeq(Session(t, id), d, Advance(k).seq)
             e == Encode(t, id, d, p)
  <2>1. s.id = Session(t, id).id /\ s.psk = Session(t, id).psk
    BY WithKeeps DEF WithSeq
  <2>2. e.ok = InLimit(k) /\ e.table = IF InLimit(k) THEN SetSession(t, id, s) ELSE Free(t, id)
    BY <1>2 DEF Encode
  <2> HIDE DEF k, s, e
  <2>3. SameSessions(t, SetSession(t, id, s))
    BY <1>2, <2>1, SetSessionSame DEF TableInv
  <2>4. TableInv(SetSession(t, id, s), half) /\ TableInv(Free(t, id), half)
    BY <2>3, SameInv, FreeInv
  <2>5. TableInv(e.table, half) /\ (e.ok => SameSessions(t, e.table))
    BY <2>2, <2>3, <2>4
  <2> QED BY <2>5 DEF e
<1> QED BY <1>1, <1>2

(* Decoding changes a sequence number at most, and succeeds only without a *)
(* session or in one of the table.                                         *)
LEMMA ArriveInv ==
    ASSUME NEW t, NEW half \in Halves, TableInv(t, half), NEW m, NEW d
    PROVE  LET a == Arrive(t, m, d)
           IN  /\ SameSessions(t, a.table) /\ TableInv(a.table, half)
               /\ a.status = "OK" => (m.sid = InvalidId \/ Holds(a.table, m.sid))
               /\ m.sid = InvalidId => a.table = t
<1> DEFINE a == Arrive(t, m, d)
<1>1. CASE m.sid = InvalidId \/ ~Holds(t, m.sid)
  <2>1. a.table = t /\ (a.status = "OK" => m.sid = InvalidId)
    BY <1>1 DEF Arrive
  <2> QED BY <2>1, SameSelf
<1>2. CASE m.sid # InvalidId /\ Holds(t, m.sid)
  <2> DEFINE s == Session(t, m.sid)
             w == WithSeq(s, d, Decode(DirKey(s, d), m).key.seq)
  <2>1. w.id = s.id /\ w.psk = s.psk
    BY WithKeeps DEF WithSeq
  <2>2. a.table = SetSession(t, m.sid, w)
    BY <1>2 DEF Arrive
  <2> HIDE DEF w, a
  <2>3. SameSessions(t, a.table)
    BY <1>2, <2>1, <2>2, SetSessionSame DEF TableInv
  <2>4. TableInv(a.table, half) /\ Holds(a.table, m.sid)
    BY <1>2, <2>3, SameInv, SameFacts
  <2> QED BY <1>2, <2>3, <2>4 DEF a
<1> QED BY <1>1, <1>2

(* Changing a session of the table with a new state, transcript or         *)
(* sequence number.                                                        *)
LEMMA UpdateInv ==
    ASSUME NEW t, NEW half \in Halves, TableInv(t, half), NEW id, Holds(t, id),
           NEW s, s.id = Session(t, id).id, s.psk = Session(t, id).psk
    PROVE  LET u == SetSession(t, id, s)
           IN  SameSessions(t, u) /\ TableInv(u, half) /\ Holds(u, id)
<1>1. SameSessions(t, SetSession(t, id, s))
  BY SetSessionSame DEF TableInv
<1> QED BY <1>1, SameInv, SameFacts

(* The derivation of the handshake keys and that of the data keys.         *)
LEMMA KeysInv ==
    ASSUME NEW t, NEW half \in Halves, TableInv(t, half), NEW id, Holds(t, id), NEW k
    PROVE  /\ SameSessions(t, Start(t, id, k)) /\ TableInv(Start(t, id, k), half)
           /\ SameSessions(t, Establish(t, id)) /\ TableInv(Establish(t, id), half)
<1> DEFINE s == Session(t, id)
           st == IF s.psk /\ ~PskContext THEN "ESTABLISHED" ELSE "HANDSHAKING"
           a == With(s, st, k, s.f, 0, 0)
           b == With(s, "ESTABLISHED", s.k, s.f, 0, 0)
<1>1. a.id = s.id /\ a.psk = s.psk /\ b.id = s.id /\ b.psk = s.psk
  BY WithKeeps
<1>2. Start(t, id, k) = SetSession(t, id, a) /\ Establish(t, id) = SetSession(t, id, b)
  BY DEF Start, Establish
<1> HIDE DEF a, b
<1> QED BY <1>1, <1>2, UpdateInv

-----------------------------------------------------------------------------
(* The Requester.                                                          *)

(* A call that has returned relies on nothing.                             *)
LEMMA ReturnInv ==
    ASSUME NEW t, NEW c, NEW status
    PROVE  CallInv(t, Return(c, status))
BY DEF CallInv, Return, Idle

(* A call survives changes of the contents of sessions.                    *)
LEMMA SameCall ==
    ASSUME NEW t, NEW u, SameSessions(t, u), NEW c, CallInv(t, c)
    PROVE  CallInv(u, c)
BY SameFacts DEF CallInv

(* The end of a failed FINISH or PSK_FINISH.                               *)
LEMMA AbandonInv ==
    ASSUME NEW t, TableInv(t, "req"), NEW c
    PROVE  TableInv(Abandon(t, c), "req")
BY FreeInv DEF Abandon, Halves

(* libspdm_send_request, whether or not the message leaves.                *)
LEMMA SendRequestInv ==
    ASSUME NEW t, TableInv(t, "req"), NEW c, CallInv(t, c), c.pc # "idle", NEW p,
           SendRequest(t, c, p)
    PROVE  TableInv(req', "req") /\ CallInv(req', call')
<1> DEFINE e == Encode(t, WireId(t, c.id), "REQ", p)
<1>1. WireId(t, c.id) = InvalidId \/ Holds(t, WireId(t, c.id))
  BY DEF WireId, CallInv
<1>2. TableInv(e.table, "req") /\ (e.ok => SameSessions(t, e.table))
  BY <1>1, EncodeInv DEF Halves
<1>3. \/ e.ok /\ req' = e.table /\ call' = c
      \/ req' = Abandon(e.table, c) /\ call' = Return(c, "ERROR")
  BY DEF SendRequest
<1> HIDE DEF e
<1>4. CASE e.ok /\ req' = e.table /\ call' = c
  BY <1>2, <1>4, SameCall
<1>5. CASE req' = Abandon(e.table, c) /\ call' = Return(c, "ERROR")
  BY <1>2, <1>5, AbandonInv, ReturnInv
<1> QED BY <1>3, <1>4, <1>5

(* What the Requester owes after each of its steps.                        *)
ReqInv == TableInv(req, "req") /\ CallInv(req, call)

(* The start of an API call: an exchange has no session yet, the other     *)
(* calls name one of the table.                                            *)
LEMMA StartInv ==
    ASSUME ReqInv,
           (\E api \in Exchanges : StartExchange(api)) \/ (\E i \in Slots : StartInSession(i))
    PROVE  ReqInv'
<1>1. ASSUME NEW api \in Exchanges, StartExchange(api) PROVE ReqInv'
  <2>1. req' = req /\ call' = Active(Idle(api, InvalidId, "-"), "send", RetryTimes, 0, 0)
    BY <1>1 DEF StartExchange, Begin
  <2>2. api \in ExchangeApis
    BY DEF ExchangeApis
  <2>3. CallInv(req, Active(Idle(api, InvalidId, "-"), "send", RetryTimes, 0, 0))
    BY <2>2 DEF CallInv, Active, Idle, ExchangeApis, SessionApis
  <2> QED BY <2>1, <2>3 DEF ReqInv
<1>2. ASSUME NEW i \in Slots, StartInSession(i) PROVE ReqInv'
  <2> DEFINE s == req.slots[i]
             api == CASE s.state = "ESTABLISHED" -> "END_SESSION"
                      [] s.state = "HANDSHAKING" /\ s.psk -> "PSK_FINISH"
                      [] OTHER -> "FINISH"
  <2>1. /\ i \in Used(req) /\ req' = req
        /\ call' = Active(Idle(api, s.id, "-"), "send", RetryTimes, 0, 0)
    BY <1>2 DEF StartInSession, Begin
  <2>2. api \in SessionApis
    BY DEF SessionApis
  <2>3. Holds(req, s.id)
    BY <2>1 DEF Used, Holds
  <2> HIDE DEF api
  <2>4. CallInv(req, Active(Idle(api, s.id, "-"), "send", RetryTimes, 0, 0))
    BY <2>2, <2>3 DEF CallInv, Active, Idle, ExchangeApis, SessionApis
  <2> QED BY <2>1, <2>4 DEF ReqInv
<1> QED BY <1>1, <1>2

(* KEY_EXCHANGE or PSK_EXCHANGE: the half that was allocated names the     *)
(* next free slot, or the call returns.                                    *)
LEMMA SendExchangeInv ==
    ASSUME ReqInv, NEW api \in ExchangeApis, SendExchange(api)
    PROVE  ReqInv'
<1> DEFINE half == AllocateId(req, IsPsk(api), "req")
           c == Active(call, "recv", call.retry, half, fresh)
<1>1. CASE half = 0
  <2>1. call' = Return(call, "ERROR") /\ req' = req
    BY <1>1 DEF SendExchange
  <2> QED BY <2>1, ReturnInv DEF ReqInv
<1>2. CASE half # 0
  <2>1. SendRequest(req, c, Body(api, "-", fresh, half, NoTag))
    BY <1>2 DEF SendExchange
  <2>2. call.pc = "send" /\ call.api = api
    BY DEF SendExchange
  <2>3. /\ Used(req) # Slots /\ ~AtLimit(req, IsPsk(api))
        /\ half = LastHalf - First(Slots \ Used(req))
    BY <1>2, AllocateIdFacts, Zenon DEF ReqInv, Halves
  <2> HIDE DEF half
  <2>4. c.pc = "recv" /\ c.api = api /\ c.id = call.id /\ c.half = half
    BY <2>2 DEF Active
  <2> HIDE DEF c
  <2>5. CallInv(req, c)
    BY <1>2, <2>2, <2>3, <2>4 DEF CallInv, ReqInv, ExchangeApis, SessionApis
  <2> QED BY <2>1, <2>4, <2>5, SendRequestInv DEF ReqInv
<1> QED BY <1>1, <1>2

(* The next place of a call in progress.                                   *)
LEMMA AtInv ==
    ASSUME NEW t, NEW c, CallInv(t, c), c.pc # "idle", NEW pc \in {"recv", "rir"},
           c.api \in ExchangeApis => c.half # 0
    PROVE  CallInv(t, At(c, pc)) /\ At(c, pc).pc # "idle"
BY DEF CallInv, At, Active

(* FINISH or PSK_FINISH: the transcript grows, in a session of the table.  *)
LEMMA SendConfirmationInv ==
    ASSUME ReqInv, NEW api \in Finishes, SendConfirmation(api)
    PROVE  ReqInv'
<1> DEFINE s == AppendF(Session(req, call.id), api)
           h == AppendF(s, "HMAC")
           t == SetSession(req, call.id, h)
<1>1. /\ call.pc = "send" /\ call.api = api
      /\ SendRequest(t, At(call, "recv"), Body(api, "-", 0, 0, Transcript(s)))
  BY DEF SendConfirmation
<1>2. Holds(req, call.id) /\ call.api \notin ExchangeApis
  BY <1>1 DEF ReqInv, CallInv, Finishes, SessionApis, ExchangeApis
<1>3. h.id = Session(req, call.id).id /\ h.psk = Session(req, call.id).psk
  BY DEF AppendF, WithF, With
<1> HIDE DEF h
<1>4. SameSessions(req, t) /\ TableInv(t, "req")
  BY <1>2, <1>3, UpdateInv DEF ReqInv, Halves
<1> HIDE DEF t
<1>5. CallInv(t, call)
  BY <1>4, SameCall DEF ReqInv
<1>6. CallInv(t, At(call, "recv")) /\ At(call, "recv").pc # "idle"
  BY <1>1, <1>2, <1>5, AtInv
<1> QED BY <1>1, <1>4, <1>6, SendRequestInv DEF ReqInv

(* END_SESSION is sent in a session of the table.                          *)
LEMMA SendEndSessionInv ==
    ASSUME ReqInv, SendEndSession
    PROVE  ReqInv'
<1>1. /\ call.pc = "send" /\ call.api = "END_SESSION"
      /\ SendRequest(req, At(call, "recv"), Plain("END_SESSION"))
  BY DEF SendEndSession
<1>2. CallInv(req, At(call, "recv")) /\ At(call, "recv").pc # "idle"
  BY <1>1, AtInv DEF ReqInv, ExchangeApis
<1> QED BY <1>1, <1>2, SendRequestInv DEF ReqInv

(* What libspdm_receive_response leaves of the table and of the call.      *)
LEMMA ReadInv ==
    ASSUME ReqInv
    PROVE  /\ SameSessions(req, Read.table) /\ TableInv(Read.table, "req")
           /\ CallInv(Read.table, call)
           /\ Taken.sid = InvalidId => Read.table = req
<1>1. /\ SameSessions(req, Read.table) /\ TableInv(Read.table, "req")
      /\ Taken.sid = InvalidId => Read.table = req
  BY ArriveInv DEF ReqInv, Read, Halves
<1> QED BY <1>1, SameCall DEF ReqInv

(* A call that fails after libspdm_receive_response left table t.          *)
LEMMA FailInv ==
    ASSUME NEW t, TableInv(t, "req"), Fail(t)
    PROVE  ReqInv'
<1>1. req' = Abandon(t, call) /\ call' = Return(call, "ERROR")
  BY DEF Fail
<1> QED BY <1>1, AbandonInv, ReturnInv DEF ReqInv

(* A call that succeeds with table t.                                      *)
LEMMA SucceedInv ==
    ASSUME NEW t, TableInv(t, "req"), Succeed(t)
    PROVE  ReqInv'
<1>1. req' = t /\ call' = Return(call, "SUCCESS")
  BY DEF Succeed
<1> QED BY <1>1, ReturnInv DEF ReqInv

(* Foreign, unreadable, missing and refused answers, whatever they free.   *)
LEMMA ReceiveFailsInv ==
    ASSUME ReqInv, ReceiveForeign \/ ReceiveUnreadable \/ Timeout \/ ReceiveError
    PROVE  ReqInv'
<1>1. /\ TableInv(Read.table, "req")
      /\ \A id : TableInv(Free(Read.table, id), "req")
  BY ReadInv, FreeInv DEF Halves
<1>2. CASE ReceiveForeign
  BY <1>1, <1>2, FailInv DEF ReceiveForeign
<1>3. CASE ReceiveUnreadable
  <2>1. Fail(Read.table) \/ Fail(Free(Read.table, Taken.sid))
    BY <1>3 DEF ReceiveUnreadable
  <2> QED BY <1>1, <2>1, FailInv
<1>4. CASE Timeout
  <2>1. req' = Abandon(req, call) /\ call' = Return(call, "ERROR")
    BY <1>4 DEF Timeout
  <2> QED BY <2>1, AbandonInv, ReturnInv DEF ReqInv
<1>5. CASE ReceiveError
  <2>1. Fail(Read.table) \/ Fail(Free(Read.table, call.id))
    BY <1>5 DEF ReceiveError
  <2> QED BY <1>1, <2>1, FailInv
<1> QED BY <1>2, <1>3, <1>4, <1>5

(* BUSY: the transcript F is reset at most, and the call is tried again or *)
(* returns.                                                                *)
LEMMA ReceiveBusyInv ==
    ASSUME ReqInv, ReceiveBusy
    PROVE  ReqInv'
<1> DEFINE t == Read.table
           w == WithF(Session(t, call.id), <<>>)
<1>1. call.pc \in {"recv", "rir"} /\ req' = ResetF(t, call) /\ call' = Retry(call)
  BY DEF ReceiveBusy, ReceiveReadable, Receive
<1>2. TableInv(t, "req") /\ CallInv(t, call)
  BY ReadInv
<1>3. w.id = Session(t, call.id).id /\ w.psk = Session(t, call.id).psk
  BY WithKeeps DEF WithF
<1>4. ResetF(t, call) = t \/ (call.api = "FINISH" /\ ResetF(t, call) = SetSession(t, call.id, w))
  BY DEF ResetF
<1> HIDE DEF t, w
<1>5. call.api = "FINISH" => Holds(t, call.id)
  BY <1>1, <1>2 DEF CallInv, SessionApis
<1>6. SameSessions(t, req') /\ TableInv(req', "req")
  <2>1. CASE ResetF(t, call) = t
    BY <1>1, <1>2, <2>1, SameSelf DEF Halves
  <2>2. CASE call.api = "FINISH" /\ ResetF(t, call) = SetSession(t, call.id, w)
    BY <1>1, <1>2, <1>3, <1>5, <2>2, UpdateInv DEF t, w, Halves
  <2> QED BY <1>4, <2>1, <2>2
<1>7. CallInv(req', call)
  BY <1>2, <1>6, SameCall
<1>8. CallInv(req', call')
  <2>1. CASE call.retry > 0
    BY <1>1, <1>7, <2>1 DEF Retry, Active, CallInv
  <2>2. CASE ~(call.retry > 0)
    BY <1>1, <2>2, ReturnInv DEF Retry
  <2> QED BY <2>1, <2>2
<1> QED BY <1>6, <1>8 DEF ReqInv

(* ResponseNotReady: RESPOND_IF_READY goes out in the same call.           *)
LEMMA ReceiveNotReadyInv ==
    ASSUME ReqInv, ReceiveNotReady
    PROVE  ReqInv'
<1>1. /\ call.pc = "recv"
      /\ SendRequest(Read.table, At(call, "rir"),
           Body("RESPOND_IF_READY", Taken.body.what, Taken.body.num, 0, NoTag))
  BY DEF ReceiveNotReady, Deferred
<1>2. TableInv(Read.table, "req") /\ CallInv(Read.table, call)
  BY ReadInv
<1>3. CallInv(Read.table, At(call, "rir")) /\ At(call, "rir").pc # "idle"
  <2>1. call.api \in ExchangeApis => call.half # 0
    BY <1>1, <1>2 DEF CallInv
  <2> QED BY <1>1, <1>2, <2>1, AtInv
<1> QED BY <1>1, <1>2, <1>3, SendRequestInv DEF ReqInv

(* Each end has its half of a session id.                                  *)
LEMMA SessionIdHalves ==
    ASSUME NEW a, NEW b
    PROVE  SessionId(a, b)["req"] = a /\ SessionId(a, b)["rsp"] = b
BY DEF SessionId

LEMMA IsPskType ==
    ASSUME NEW code
    PROVE  IsPsk(code) \in BOOLEAN
BY DEF IsPsk

(* The half chosen before the request still names the next free slot when  *)
(* the answer has come, so that the session can be assigned.               *)
LEMMA ReceiveExchangeRspInv ==
    ASSUME ReqInv, NEW api \in ExchangeApis, ReceiveExchangeRsp(api)
    PROVE  ReqInv'
<1> DEFINE id == SessionId(call.half, Taken.body.half)
           k == <<call.random, Taken.body.num>>
           t == Assign(req, id, IsPsk(api))
<1>1. /\ call.pc \in {"recv", "rir"} /\ call.api = api
      /\ Succeed(Start(t, id, k)) \/ Fail(Free(t, id)) \/ Fail(t)
  BY DEF ReceiveExchangeRsp, ReceiveReadable, Receive
<1>2. /\ Used(req) # Slots /\ ~AtLimit(req, IsPsk(api))
      /\ call.half = LastHalf - First(Slots \ Used(req))
  BY <1>1 DEF ReqInv, CallInv
<1>3. id["req"] = LastHalf - First(Slots \ Used(req)) /\ IsPsk(api) \in BOOLEAN
  <2>1. id["req"] = call.half
    BY SessionIdHalves, Zenon
  <2>2. IsPsk(api) \in BOOLEAN
    BY IsPskType, Zenon
  <2> HIDE DEF id
  <2> QED BY <1>2, <2>1, <2>2
<1> HIDE DEF id, k
<1>4. TableInv(t, "req") /\ Holds(t, id)
  BY <1>2, <1>3, AssignInv DEF ReqInv, Halves
<1> HIDE DEF t
<1>5. TableInv(Start(t, id, k), "req") /\ TableInv(Free(t, id), "req")
  BY <1>4, KeysInv, FreeInv DEF Halves
<1> QED BY <1>1, <1>4, <1>5, SucceedInv, FailInv

(* FINISH_RSP and PSK_FINISH_RSP establish a session of the table.         *)
LEMMA ReceiveConfirmedInv ==
    ASSUME ReqInv, ReceiveFinishRsp \/ ReceivePskFinishRsp
    PROVE  ReqInv'
<1>1. ASSUME NEW s, s.id = Session(Read.table, call.id).id,
             s.psk = Session(Read.table, call.id).psk,
             call.api \in Finishes, call.pc # "idle",
             Succeed(Establish(SetSession(Read.table, call.id, s), call.id))
      PROVE  ReqInv'
  <2> DEFINE u == SetSession(Read.table, call.id, s)
  <2>1. TableInv(Read.table, "req") /\ Holds(Read.table, call.id)
    BY <1>1, ReadInv DEF CallInv, Finishes, SessionApis
  <2>2. TableInv(u, "req") /\ Holds(u, call.id)
    BY <1>1, <2>1, UpdateInv DEF Halves
  <2> HIDE DEF u
  <2>3. TableInv(Establish(u, call.id), "req")
    BY <2>2, KeysInv DEF Halves
  <2> QED BY <1>1, <2>3, SucceedInv DEF u
<1>2. CASE ReceiveFinishRsp
  <2> DEFINE s == AppendF(Session(Read.table, call.id), "FINISH_RSP")
             f == IF Taken.sid = InvalidId THEN AppendF(s, "HMAC") ELSE s
  <2>1. /\ call.api = "FINISH" /\ call.pc # "idle"
        /\ \/ Fail(Read.table)
           \/ Succeed(Establish(SetSession(Read.table, call.id, f), call.id))
    BY <1>2 DEF ReceiveFinishRsp, ReceiveReadable, Receive
  <2>2. f.id = Session(Read.table, call.id).id /\ f.psk = Session(Read.table, call.id).psk
    BY Zenon DEF AppendF, WithF, With
  <2> HIDE DEF f
  <2> QED BY <1>1, <2>1, <2>2, ReadInv, FailInv DEF Finishes
<1>3. CASE ReceivePskFinishRsp
  <2> DEFINE s == AppendF(Session(Read.table, call.id), "PSK_FINISH_RSP")
  <2>1. /\ call.api = "PSK_FINISH" /\ call.pc # "idle"
        /\ Succeed(Establish(SetSession(Read.table, call.id, s), call.id))
    BY <1>3, Zenon DEF ReceivePskFinishRsp, ReceiveReadable, Receive
  <2>2. s.id = Session(Read.table, call.id).id /\ s.psk = Session(Read.table, call.id).psk
    BY DEF AppendF, WithF, With
  <2> HIDE DEF s
  <2> QED BY <1>1, <2>1, <2>2 DEF Finishes
<1> QED BY <1>2, <1>3

(* END_SESSION_ACK frees the session.                                      *)
LEMMA ReceiveEndSessionAckInv ==
    ASSUME ReqInv, ReceiveEndSessionAck
    PROVE  ReqInv'
<1>1. Succeed(Free(Read.table, call.id))
  BY DEF ReceiveEndSessionAck
<1> QED BY <1>1, ReadInv, FreeInv, SucceedInv DEF Halves

(* Every step of the Requester inside a call.                              *)
LEMMA RequesterStepInv ==
    ASSUME ReqInv, RequesterStep
    PROVE  ReqInv'
BY SendExchangeInv, SendConfirmationInv, SendEndSessionInv, ReceiveFailsInv,
   ReceiveBusyInv, ReceiveNotReadyInv, ReceiveExchangeRspInv, ReceiveConfirmedInv,
   ReceiveEndSessionAckInv
   DEF RequesterStep, SendKeyExchange, SendPskExchange, SendFinish, SendPskFinish,
       ReceiveKeyExchangeRsp, ReceivePskExchangeRsp, ExchangeApis, Finishes

-----------------------------------------------------------------------------
(* The Responder.                                                          *)

(* What libspdm_build_response may rely on after a handler: a request's    *)
(* session is still there, and a confirmation in the clear confirmed the   *)
(* latest session.                                                         *)
Answered(r, sid) ==
    /\ TableInv(r.c.table, "rsp")
    /\ sid # InvalidId => Holds(r.c.table, sid)
    /\ (sid = InvalidId /\ r.reply.code \in {"FINISH_RSP", "PSK_FINISH_RSP"})
         => Holds(r.c.table, r.c.table.latest)

(* A handler that only answers.                                            *)
LEMMA OnlyAnswers ==
    ASSUME NEW c, TableInv(c.table, "rsp"), NEW sid,
           sid = InvalidId \/ Holds(c.table, sid), NEW p,
           p.code \notin {"FINISH_RSP", "PSK_FINISH_RSP"}
    PROVE  Answered(Reply(c, p), sid)
BY DEF Answered, Reply

(* The fields of a reply.                                                  *)
LEMMA ReplyFields ==
    ASSUME NEW c, NEW p, NEW t, NEW code, NEW what, NEW num, NEW half, NEW tag
    PROVE  /\ Reply(c, p).c = c /\ Reply(c, p).reply = p
           /\ WithTable(c, t).table = t
           /\ Body(code, what, num, half, tag).code = code /\ Plain(code).code = code
BY DEF Reply, WithTable, Context, Body, Plain

(* An error that a handler returns leaves the table alone.                 *)
LEMMA OnlyError ==
    ASSUME NEW c, TableInv(c.table, "rsp"), NEW sid,
           sid = InvalidId \/ Holds(c.table, sid), NEW code,
           code \notin {"FINISH_RSP", "PSK_FINISH_RSP"}
    PROVE  Answered(Reply(c, Plain(code)), sid)
<1>1. Plain(code).code = code
  BY ReplyFields
<1> QED BY <1>1, OnlyAnswers

(* The handlers of KEY_EXCHANGE and PSK_EXCHANGE: the id they allocate can *)
(* always be assigned, and every failure after that frees it.              *)
LEMMA OpenSessionInv ==
    ASSUME NEW c, TableInv(c.table, "rsp"), NEW sid,
           sid = InvalidId \/ Holds(c.table, sid),
           NEW p, p.code \in ExchangeApis, NEW ok \in BOOLEAN
    PROVE  Answered(OpenSession(c, p, sid, ok), sid)
<1> DEFINE half == AllocateId(c.table, IsPsk(p.code), "rsp")
           id == SessionId(p.half, half)
           t == Assign(c.table, id, IsPsk(p.code))
           k == <<p.num, fresh>>
           b == Body(ResponseCode[p.code], "-", fresh, half, [k |-> k, f |-> <<>>])
           r == OpenSession(c, p, sid, ok)
<1>1. CASE sid # InvalidId
  <2>1. r = Reply(c, Plain("UNEXPECTED_REQUEST"))
    BY <1>1 DEF OpenSession
  <2> HIDE DEF r
  <2> QED BY <2>1, OnlyError DEF r
<1>2. CASE sid = InvalidId /\ half = 0
  <2>1. r = Reply(c, Plain("SESSION_LIMIT_EXCEEDED"))
    BY <1>2 DEF OpenSession
  <2> HIDE DEF r
  <2> QED BY <2>1, OnlyError DEF r
<1>3. CASE sid = InvalidId /\ half # 0
  <2>1. /\ Used(c.table) # Slots /\ ~AtLimit(c.table, IsPsk(p.code))
        /\ half = LastHalf - First(Slots \ Used(c.table))
    BY <1>3, AllocateIdFacts DEF Halves
  <2>2. id["rsp"] = LastHalf - First(Slots \ Used(c.table)) /\ IsPsk(p.code) \in BOOLEAN
    <3>1. id["rsp"] = half
      BY SessionIdHalves, Zenon
    <3>2. IsPsk(p.code) \in BOOLEAN
      BY IsPskType, Zenon
    <3> HIDE DEF id, half
    <3> QED BY <2>1, <3>1, <3>2
  <2>3. CanAssign(c.table, id)
    BY <2>1, <2>2, NamedIdIsNew DEF Halves
  <2>4. r = IF ok THEN Reply(WithTable(c, Start(t, id, k)), b)
            ELSE Reply(WithTable(c, Free(t, id)), Plain("UNSPECIFIED"))
    BY <1>3, <2>3 DEF OpenSession
  <2>5. b.code \notin {"FINISH_RSP", "PSK_FINISH_RSP"}
    BY ReplyFields DEF ResponseCode, ExchangeApis
  <2> HIDE DEF half, id, k, b, r
  <2>6. TableInv(t, "rsp") /\ Holds(t, id)
    BY <2>1, <2>2, AssignInv DEF Halves
  <2> HIDE DEF t
  <2>7. TableInv(Start(t, id, k), "rsp") /\ TableInv(Free(t, id), "rsp")
    BY <2>6, KeysInv, FreeInv DEF Halves
  <2>8. Answered(r, sid)
    <3>1. CASE ok
      <4>1. r.c.table = Start(t, id, k) /\ r.reply = b
        BY <2>4, <3>1, ReplyFields
      <4> QED BY <1>3, <2>5, <2>7, <4>1 DEF Answered
    <3>2. CASE ~ok
      <4>1. r.c.table = Free(t, id) /\ r.reply.code = "UNSPECIFIED"
        BY <2>4, <3>2, ReplyFields
      <4> QED BY <1>3, <2>7, <4>1 DEF Answered
    <3> QED BY <3>1, <3>2
  <2> QED BY <2>8 DEF r
<1> QED BY <1>1, <1>2, <1>3

(* Both confirmations, in the session id, which is the request's own or,   *)
(* without one, the latest.                                                *)
LEMMA ConfirmInv ==
    ASSUME NEW c, TableInv(c.table, "rsp"), NEW sid,
           sid = InvalidId \/ Holds(c.table, sid),
           NEW id, Holds(c.table, id),
           id = IF sid = InvalidId THEN c.table.latest ELSE sid,
           NEW p, NEW inClear, NEW ok
    PROVE  Answered(Confirm(c, p, id, inClear, ok), sid)
<1>1. ASSUME NEW s, s.id = Session(c.table, id).id, s.psk = Session(c.table, id).psk, NEW b
      PROVE  Answered(Reply(WithTable(c, SetSession(c.table, id, s)), b), sid)
  <2> DEFINE u == SetSession(c.table, id, s)
  <2>1. SameSessions(c.table, u) /\ TableInv(u, "rsp") /\ Holds(u, id)
    BY <1>1, UpdateInv DEF Halves
  <2> HIDE DEF u
  <2>2. u.latest = c.table.latest
    BY <2>1 DEF SameSessions
  <2>3. Answered(Reply(WithTable(c, u), b), sid)
    BY <2>1, <2>2, ReplyFields DEF Answered
  <2> QED BY <2>3 DEF u
<1> DEFINE s == AppendF(Session(c.table, id), p.code)
           r == AppendF(AppendF(s, "HMAC"), ResponseCode[p.code])
           f == IF inClear THEN AppendF(r, "HMAC") ELSE r
           Keep(x) == WithTable(c, SetSession(c.table, id, x))
<1>2. /\ s.id = Session(c.table, id).id /\ s.psk = Session(c.table, id).psk
      /\ f.id = Session(c.table, id).id /\ f.psk = Session(c.table, id).psk
  BY Zenon DEF AppendF, WithF, With
<1>3. \E b : Confirm(c, p, id, inClear, ok) \in {Reply(Keep(s), b), Reply(Keep(f), b)}
  BY DEF Confirm
<1>4. PICK b : Confirm(c, p, id, inClear, ok) \in {Reply(Keep(s), b), Reply(Keep(f), b)}
  BY <1>3
<1>5. Answered(Reply(Keep(s), b), sid)
  <2> HIDE DEF s
  <2> QED BY <1>1, <1>2
<1>6. Answered(Reply(Keep(f), b), sid)
  <2> HIDE DEF f
  <2> QED BY <1>1, <1>2
<1> HIDE DEF s, f, Keep
<1> QED BY <1>4, <1>5, <1>6

(* Every handler, for a request in a session of the table or in none.      *)
LEMMA HandleInv ==
    ASSUME NEW c, TableInv(c.table, "rsp"), NEW sid,
           sid = InvalidId \/ Holds(c.table, sid), NEW p, NEW ok \in BOOLEAN
    PROVE  Answered(Handle(c, p, sid, ok), sid)
<1>1. \A code \in {"UNEXPECTED_REQUEST", "SESSION_REQUIRED", "END_SESSION_ACK"} :
        Answered(Reply(c, Plain(code)), sid)
  BY OnlyAnswers, ReplyFields
<1>2. CASE p.code \in ExchangeApis
  <2>1. Handle(c, p, sid, ok) = OpenSession(c, p, sid, ok)
    BY <1>2 DEF Handle, GetResponseKeyExchange, GetResponsePskExchange, ExchangeApis
  <2> QED BY <1>2, <2>1, OpenSessionInv
<1>3. CASE p.code = "FINISH"
  <2> DEFINE id == IF sid = InvalidId THEN c.table.latest ELSE sid
  <2>1. \/ Handle(c, p, sid, ok) = Reply(c, Plain("SESSION_REQUIRED"))
        \/ Handle(c, p, sid, ok) = Reply(c, Plain("UNEXPECTED_REQUEST"))
        \/ /\ Holds(c.table, id)
           /\ Handle(c, p, sid, ok) = Confirm(c, p, id, HandshakeInTheClear, ok)
    BY <1>3, Zenon DEF Handle, GetResponseFinish
  <2>2. Holds(c.table, id) => Answered(Confirm(c, p, id, HandshakeInTheClear, ok), sid)
    <3>1. id = IF sid = InvalidId THEN c.table.latest ELSE sid
      OBVIOUS
    <3> HIDE DEF id
    <3> QED BY <3>1, ConfirmInv
  <2> HIDE DEF id
  <2> QED BY <1>1, <2>1, <2>2
<1>4. CASE p.code = "PSK_FINISH"
  <2>1. \/ Handle(c, p, sid, ok) = Reply(c, Plain("SESSION_REQUIRED"))
        \/ Handle(c, p, sid, ok) = Reply(c, Plain("UNEXPECTED_REQUEST"))
        \/ sid # InvalidId /\ Handle(c, p, sid, ok) = Confirm(c, p, sid, FALSE, ok)
    BY <1>4, Zenon DEF Handle, GetResponsePskFinish
  <2>2. sid # InvalidId => Answered(Confirm(c, p, sid, FALSE, ok), sid)
    BY ConfirmInv, Zenon
  <2> QED BY <1>1, <2>1, <2>2, Zenon
<1>5. CASE p.code \notin ExchangeApis /\ p.code \notin {"FINISH", "PSK_FINISH"}
  <2>1. \/ Handle(c, p, sid, ok) = Reply(c, Plain("END_SESSION_ACK"))
        \/ Handle(c, p, sid, ok) = Reply(c, Plain("UNEXPECTED_REQUEST"))
    BY <1>5 DEF Handle, GetResponseEndSession, ExchangeApis
  <2> QED BY <1>1, <2>1
<1> QED BY <1>2, <1>3, <1>4, <1>5

(* Also when the request is deferred, or was deferred before.              *)
LEMMA DispatchInv ==
    ASSUME NEW c, TableInv(c.table, "rsp"), NEW sid,
           sid = InvalidId \/ Holds(c.table, sid), NEW p, NEW state, NEW ok \in BOOLEAN
    PROVE  Answered(Dispatch(c, p, sid, state, ok), sid)
<1>1. CASE state # "NORMAL"
  <2>1. PICK d, n, b :
          /\ b.code \notin {"FINISH_RSP", "PSK_FINISH_RSP"}
          /\ \/ Dispatch(c, p, sid, state, ok) = Reply(c, b)
             \/ Dispatch(c, p, sid, state, ok) = Reply(Context(c.table, d, n), b)
    <3>1. CASE state = "BUSY"
      BY <1>1, <3>1, ReplyFields DEF Dispatch, HandleResponseState
    <3>2. CASE state # "BUSY"
      <4> DEFINE again == p.code = "RESPOND_IF_READY"
                 d == IF again THEN c.deferred
                      ELSE DeferredRequest(p, p.code, c.token, sid)
                 n == IF again THEN c.token ELSE (c.token + 1) % TokenCount
                 b == Body("RESPONSE_NOT_READY", d.code, d.token, 0, NoTag)
      <4>1. Dispatch(c, p, sid, state, ok) = Reply(Context(c.table, d, n), b)
        BY <1>1, <3>2 DEF Dispatch, HandleResponseState
      <4>2. b.code = "RESPONSE_NOT_READY"
        BY ReplyFields
      <4> HIDE DEF d, n, b
      <4> QED BY <4>1, <4>2
    <3> QED BY <3>1, <3>2
  <2>2. Context(c.table, d, n).table = c.table
    BY DEF Context
  <2> QED BY <2>1, <2>2, OnlyAnswers
<1>2. CASE state = "NORMAL" /\ p.code = "RESPOND_IF_READY"
  <2> DEFINE d == c.deferred
             r == Handle(c, d.request, sid, ok)
             e == DeferredRequest(NoRequest, d.code, d.token, d.sid)
  <2>1. \/ Dispatch(c, p, sid, state, ok) = Reply(c, Plain("UNEXPECTED_REQUEST"))
        \/ Dispatch(c, p, sid, state, ok) = Reply(c, Plain("INVALID_REQUEST"))
        \/ Dispatch(c, p, sid, state, ok) = Reply(Context(r.c.table, e, r.c.token), r.reply)
    BY <1>2 DEF Dispatch, GetResponseRespondIfReady
  <2>2. Answered(r, sid)
    BY HandleInv
  <2> HIDE DEF r, e
  <2>3. Answered(Reply(Context(r.c.table, e, r.c.token), r.reply), sid)
    BY <2>2 DEF Answered, Reply, Context
  <2> QED BY <2>1, <2>3, OnlyError
<1>3. CASE state = "NORMAL" /\ p.code # "RESPOND_IF_READY"
  <2>1. Dispatch(c, p, sid, state, ok) = Handle(c, p, sid, ok)
    BY <1>3 DEF Dispatch
  <2> QED BY <2>1, HandleInv
<1> QED BY <1>1, <1>2, <1>3

(* The end of libspdm_build_response.                                      *)
LEMMA SendResponseInv ==
    ASSUME NEW r, NEW sid, Answered(r, sid), SendResponse(r, sid)
    PROVE  TableInv(rsp', "rsp")
<1> DEFINE e == Encode(r.c.table, sid, "RSP", r.reply)
<1>1. TableInv(r.c.table, "rsp") /\ (sid = InvalidId \/ Holds(r.c.table, sid))
  BY DEF Answered
<1>2. TableInv(e.table, "rsp") /\ (e.ok => SameSessions(r.c.table, e.table))
  BY <1>1, EncodeInv DEF Halves
<1>3. \/ rsp' = r.c.table \/ rsp' = e.table
      \/ e.ok /\ rsp' = AfterResponse(e.table, r.reply.code, sid)
  BY DEF SendResponse
<1> HIDE DEF e
<1>4. CASE e.ok /\ rsp' = AfterResponse(e.table, r.reply.code, sid)
  <2>1. CASE r.reply.code \in {"FINISH_RSP", "PSK_FINISH_RSP"}
    <3> DEFINE id == IF sid = InvalidId THEN e.table.latest ELSE sid
    <3>1. rsp' = Establish(e.table, id)
      BY <1>4, <2>1 DEF AfterResponse
    <3>2. Holds(e.table, id)
      <4>1. e.table.latest = r.c.table.latest
        BY <1>2, <1>4 DEF SameSessions
      <4>2. Holds(r.c.table, id)
        BY <2>1, <4>1 DEF Answered
      <4> QED BY <1>2, <1>4, <4>2, SameFacts
    <3> HIDE DEF id
    <3> QED BY <1>2, <3>1, <3>2, KeysInv DEF Halves
  <2>2. CASE r.reply.code \notin {"FINISH_RSP", "PSK_FINISH_RSP"}
    <3>1. rsp' = Free(e.table, sid) \/ rsp' = e.table
      BY <1>4, <2>2 DEF AfterResponse
    <3> QED BY <1>2, <3>1, FreeInv DEF Halves
  <2> QED BY <2>1, <2>2
<1> QED BY <1>1, <1>2, <1>3, <1>4

(* Every turn of the Responder.                                            *)
LEMMA ResponderStepInv ==
    ASSUME TableInv(rsp, "rsp"), ResponderStep
    PROVE  TableInv(rsp', "rsp")
<1> DEFINE m == Head(toRsp)
           a == Arrive(rsp, m, "REQ")
<1>1. /\ TableInv(a.table, "rsp") /\ SameSessions(rsp, a.table)
      /\ a.status = "OK" => (m.sid = InvalidId \/ Holds(a.table, m.sid))
  BY ArriveInv DEF Halves
<1>2. CASE Respond
  <2>1. PICK state \in ResponseStates, ok \in BOOLEAN :
          /\ a.status = "OK"
          /\ SendResponse(Dispatch(Context(a.table, deferred, token), m.body, m.sid, state, ok),
                          m.sid)
    BY <1>2 DEF Respond
  <2>2. Context(a.table, deferred, token).table = a.table
    BY DEF Context
  <2> HIDE DEF a, m
  <2>3. Answered(Dispatch(Context(a.table, deferred, token), m.body, m.sid, state, ok), m.sid)
    BY <1>1, <2>1, <2>2, DispatchInv
  <2> QED BY <2>1, <2>3, SendResponseInv
<1>3. CASE RespondDecryptError
  <2> DEFINE e == Encode(a.table, m.sid, "RSP", Plain("DECRYPT_ERROR"))
  <2>1. /\ a.status = "DECRYPT_ERROR"
        /\ rsp' \in {Free(a.table, m.sid), Free(e.table, m.sid), e.table}
    BY <1>3 DEF RespondDecryptError
  <2>2. Holds(rsp, m.sid)
    BY <2>1, Zenon DEF Arrive
  <2> HIDE DEF a, m
  <2>3. Holds(a.table, m.sid)
    BY <1>1, <2>2, SameFacts
  <2>4. TableInv(e.table, "rsp")
    BY <1>1, <2>3, EncodeInv DEF Halves
  <2> HIDE DEF e
  <2> QED BY <1>1, <2>1, <2>4, FreeInv DEF Halves
<1>4. CASE DropUnknownSession
  BY <1>4 DEF DropUnknownSession, rspVars
<1> QED BY <1>2, <1>3, <1>4 DEF ResponderStep

-----------------------------------------------------------------------------
(* The empty tables satisfy the invariant.                                 *)
LEMMA InitInv == Init => IInv
<1> SUFFICES ASSUME Init PROVE IInv
  OBVIOUS
<1>1. TableInv(req, "req") /\ TableInv(rsp, "rsp")
  BY EmptyTableInv DEF Init, Halves
<1>2. CallInv(req, call)
  BY DEF Init, NoCall, Idle, CallInv
<1> QED BY <1>1, <1>2 DEF IInv

(* Every step of either end, and every fault, preserves the invariant.     *)
LEMMA NextInv == IInv /\ [Next]_vars => IInv'
<1> SUFFICES ASSUME IInv, [Next]_vars PROVE IInv'
  OBVIOUS
<1>1. ReqInv /\ TableInv(rsp, "rsp")
  BY DEF IInv, ReqInv
<1>2. CASE (\E api \in Exchanges : StartExchange(api)) \/ (\E i \in Slots : StartInSession(i))
  <2>1. rsp' = rsp
    BY <1>2 DEF StartExchange, StartInSession, Begin, rspVars
  <2> QED BY <1>1, <1>2, <2>1, StartInv DEF IInv, ReqInv
<1>3. CASE RequesterStep
  <2>1. rsp' = rsp
    BY <1>3, Zenon DEF RequesterStep, SendKeyExchange, SendPskExchange, SendExchange, SendFinish,
      SendPskFinish, SendConfirmation, SendEndSession, ReceiveForeign, ReceiveUnreadable,
      Timeout, ReceiveBusy, ReceiveNotReady, ReceiveError, ReceiveKeyExchangeRsp,
      ReceivePskExchangeRsp, ReceiveExchangeRsp, ReceiveFinishRsp, ReceivePskFinishRsp,
      ReceiveEndSessionAck, ReceiveReadable, Receive, rspVars
  <2> QED BY <1>1, <1>3, <2>1, RequesterStepInv DEF IInv, ReqInv
<1>4. CASE ResponderStep
  <2>1. req' = req /\ call' = call
    BY <1>4, Zenon DEF ResponderStep, Respond, RespondDecryptError, DropUnknownSession
  <2> QED BY <1>1, <1>4, <2>1, ResponderStepInv DEF IInv, ReqInv
<1>5. CASE Lose \/ Damage \/ UNCHANGED vars
  <2>1. req' = req /\ call' = call /\ rsp' = rsp
    BY <1>5 DEF Lose, Damage, vars, rspVars
  <2> QED BY <2>1 DEF IInv
<1> QED BY <1>2, <1>3, <1>4, <1>5 DEF Next

(* Both session tables stay consistent, and the half that an exchange      *)
(* chose names the slot that its session will take, however calls, late    *)
(* answers, failures and freed sessions interleave                         *)
(* (libspdm_assign_session_id, libspdm_free_session_id).                   *)
THEOREM TablesAreConsistent == Spec => []TablesConsistent
<1>1. IInv => TablesConsistent
  BY Zenon DEF IInv, TableInv, CallInv, TablesConsistent
<1> QED BY <1>1, InitInv, NextInv, PTL DEF Spec
=============================================================================
