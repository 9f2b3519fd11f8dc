# A TLA+ verification project for libspdm

libspdm implements the DMTF SPDM protocol: a Requester and a Responder negotiate
a version, capabilities and algorithms, authenticate each other, and set up
sessions whose messages are encrypted and authenticated. The project models the
parts of the library that keep state across messages, checks them with TLC on
small instances and proves the central properties with TLAPS for all instances.

## The system

Paths are relative to `src/`.

| Part | Source | State it keeps | What it does |
|---|---|---|---|
| Requester API | `library/spdm_requester_lib` | the call in progress, retry counter | one blocking call at a time: send a request, receive the answer, retry on BUSY, ask again after ResponseNotReady |
| Responder | `library/spdm_responder_lib` | `response_state`, deferred request and token, encapsulated flow | one loop: receive, decrypt, dispatch to a handler, encode, send, apply the response code to the session |
| Context and session table | `library/spdm_common_lib/libspdm_com_context_data*.c` | connection state, negotiated parameters, session slots and counters, `latest_session_id`, transcripts, buffers | allocated, filled and freed by handlers of both roles |
| Secured messages | `library/spdm_secured_message_lib` | keys, backup keys and sequence numbers of each direction | encode, decode, create / activate / roll back a key update |
| Transports | `library/spdm_transport_*_lib` | none | framing; MCTP and storage put the sequence number in the header |
| Cryptography | `library/spdm_crypt_lib`, `os_stub` | none | algorithms behind a common interface |

The two roles interact only through messages. What makes the code hard is that
both ends change keys, sessions and deferred requests in steps that are several
messages long, while an answer may be BUSY, ResponseNotReady, lost, late, or
unreadable because the other end is one key ahead.

### Inventory

| Component | Hard behaviour | What correctness means | Where |
|---|---|---|---|
| secured messages | sequence number at its limit, backup key after a failed decryption | no nonce is used twice; a rollback does not lose a key | `SecuredMessage` |
| key update, both directions | three-step update, retries, an answer under the previous key, the Responder's own update through the encapsulated flow | both ends end in step; SUCCESS means both moved; every call returns | `KeyUpdate` |
| heartbeat, end of session | retries; END_SESSION_ACK lost | a session is ended at the Requester only with the Responder | `KeyUpdate`, `Handshake` |
| session table | ids chosen before the answer, counters on every error path | ids are unique, counters and limits agree with the slots | `SessionTable` |
| KEY_EXCHANGE, FINISH | interleaved handshakes, handshake in the clear, retries that rebuild the transcript, failures after the session is assigned | established sessions of one id have the same keys | `Handshake` |
| PSK_EXCHANGE, PSK_FINISH | as above; without a context the session is established at once | as above | `Handshake` |
| BUSY, ResponseNotReady, RESPOND_IF_READY | the deferred request outlives what deferred it | bounded requests; the request is answered in its own session | `KeyUpdate`, `Handshake` |
| context, version, capabilities, algorithms | GET_VERSION resets everything at any time; RequestResynch | both ends agree on what was negotiated; nothing survives a reset; a connection comes back | `Connection` |
| transcripts, digests, certificate, challenge, measurements, vendor-defined | transcripts reset by the code of the next request, at the two ends at different moments; retried requests | a signature covers the same messages at both ends | `Connection` |
| chunking | interrupted transfers, sequence numbers, a response that is stored and then itself chunked | to its caller a chunked call is one exchange | `Chunk` implements `Exchange` |
| encapsulated flow, mutual authentication | the Responder asks inside the Requester's call; request ids wrap; answers are deferred | each answer belongs to the outstanding request; FINISH waits for the flow | `Encapsulated`, KEY_UPDATE in `KeyUpdate` |
| events | SEND_EVENT may be deferred inside a flow | as above | `Encapsulated`, in part |
| device buffers, heartbeat watchdog | acquire and release, start and stop, on every path | | not modelled |
| CSR, SET_CERTIFICATE, key pairs, endpoint info, measurement extension log | single exchanges | | not modelled |
| opaque data, message log, transports, cryptography, platform | layouts and calls into libraries | (no state across messages) | not modelled |

`PROJECT.json` lists the source files of each, and the hazards with the line at
which they bite.

## Modules

| Module | Models | Kind |
|---|---|---|
| `SecuredMessage` | key state of one direction (`libspdm_secmes_session.c`, `libspdm_secmes_encode_decode.c`) | operators |
| `KeyUpdate` | one established session, both ends: KEY_UPDATE, encapsulated KEY_UPDATE, HEARTBEAT, END_SESSION, BUSY, ResponseNotReady and faults | state machine |
| `SessionTable` | the session table of one endpoint | operators |
| `Handshake` | two endpoints that set up and end sessions; composes `SecuredMessage` and two `SessionTable`s | state machine |
| `Connection` | two endpoints from GET_VERSION to CHALLENGE and GET_MEASUREMENTS, outside a session, with their transcripts | state machine |
| `Exchange` | what a call of `libspdm_send_spdm_request` and `libspdm_receive_spdm_response` promises | abstract state machine |
| `Chunk` | the same call with CHUNK_SEND and CHUNK_GET; implements `Exchange` | state machine |
| `Encapsulated` | the requests of the Responder inside the Requester's calls: mutual authentication and the general flow | state machine |
| `MCKeyUpdate`, `MCHandshake`, `MCConnection`, `MCChunk`, `MCEncapsulated` | what TLC instantiates | models |
| `KeyUpdateProofs`, `SessionTableProofs`, `HandshakeProofs`, `ConnectionProofs`, `ChunkProofs` | theorems; `KeyUpdateProofs` also the lemmas on `SecuredMessage` | proofs |
| `EncapsulatedProofs`, `EncapsulatedRequestProofs`, `EncapsulatedFlowProofs` | theorems on `Encapsulated`: the invariant and the Requester; the flow until a request is out; answers, acknowledgements and the theorems | proofs |

Operators named as faulty variants (`...Unverified`, `...Uncounted` and the like)
are not part of the specification. Each changes one definition the way a
plausible bug would; put in its place, it makes TLC violate the property that
guards against that bug.

### SecuredMessage

A direction's key is `[gen, seq, valid, bgen, bseq]`: its place in the chain of
derived secrets, its sequence number, and the backup of both. HKDF derives each
secret from the previous one, so two ends hold the same key exactly when they hold
the same generation. AEAD is ideal: a message decrypts exactly under the key and
the number it was encrypted with.

### KeyUpdate

`call` is the Requester's place in an API call; each action is what the code
does between two points at which it can be observed (a send, a receive, a
return). `Respond` is one turn of the Responder: decode with rollback, the check
for an encapsulated flow in progress, the handler, encoding, and the effect of
the response code on the session. Faults (`SEND`: the device refuses a message,
`LOSS`, `LATE`: the timeout fires before the answer, `ENTROPY`: no random number)
are counted and bounded by `MaxFaults`.

Generations are bounded by `MaxGen` (no update is started beyond it) and the
sequence number by `MaxSeq`, the negotiated maximum, with `AllOnes` the value that
the 64-bit counter cannot pass. Both are parameters in the code as well, so small
values are legal instances and reach the limit within a run.

### SessionTable

A table is `[slots, dhe, psk, latest, asserted]`: `session_info[]`, the two
counters, `latest_session_id`, and whether a `LIBSPDM_ASSERT` of the table's code
has failed (after which the code continues, as in a release build). A session id
is the pair of the two halves, and a slot also holds what `Handshake` needs of a
session: its state, the transcripts K and F and the two sequence numbers.
`AllocateId`, `Assign`, `Free` follow `libspdm_allocate_{req,rsp}_session_id`,
`libspdm_assign_session_id` and `libspdm_free_session_id`.

### Handshake

One Requester, one Responder, a negotiated connection. `Start...` is the entry of
an API call, `Send...` the code up to the request, `Receive...` the code from the
answer on, one action per outcome; `Respond` is one turn of the Responder, in
which `Dispatch` chooses the handler. The half of the session id is chosen in
`SendExchange` and used in `ReceiveExchangeRsp`, as in the code, where the answer
lies between the two.

Random numbers never repeat, so K is the pair of randoms of the exchange. F is the
sequence of what was appended to it. A hash, HMAC or signature is the transcript
it covers, a key the transcript it is derived from, and a message decrypts exactly
under its key and sequence number. Mutual authentication is in `Encapsulated`;
measurement summaries and opaque data are left out.

### Connection

`q` and `p` are the contexts of the two ends: connection state, version, algorithms
and the transcripts `a` (A), `bc` (B and C, one running hash), `m` (M, which is
L1/L2), `d` (D) with `closed`, the window in which D is still set, and `chain`,
whether the Requester has the Responder's certificate chain. A transcript is the
sequence of the messages appended to it, and a signature is what it covers.
`Prepare` is what the Requester does to its transcripts before it sends, `Handle`
dispatches to the Responder's handlers, each of which returns the new context and
the reply. `HandleResponseState` is `libspdm_responder_handle_response_state`, with
the token and the one deferred request. `Hold` and `Resume` are the Integrator's use
of `response_state`.

`NegotiateVersion` and `Select` are the two pure algorithms; `VcaAgreement` checks
them against a definition by maximum and by membership, over the lists and offers
of the run. Algorithms are reduced to the categories that the code treats
differently: one that is needed, and the pairs of a classical and a post-quantum
one, of which exactly one is.

`clean` says that since GET_VERSION every call has succeeded and none was a
VENDOR_DEFINED_REQUEST. The Requester resets its transcripts before it sends, the
Responder when it has accepted the request, so a failed call may leave them
different; `SignatureResynchronises` says how that ends.

### Exchange and Chunk

`Exchange` has one call at a time: issued, served at most once by the handler, then
returned with the handler's answer, or failed. `Chunk` is the call as the code makes
it. A message is the sequence of its bytes and a byte knows the message it is from,
so that bytes of two calls cannot be taken for each other. `send` and `get` are the
Requester's chunk state, `psend` and `pget` the Responder's. Sequence numbers wrap
at `SeqCount` (65536) unless `Wide` (SPDM 1.4), handles at `HandleCount` (256). The
refinement maps `waiting` to "a call is in progress" and the other variables to
themselves.

### Encapsulated

A flow belongs to a channel, outside a session or in it; `ctx` is
`libspdm_encap_context_t` of each. The Integrator's handler chooses the encapsulated
requests, so `Issue` is any choice its contract allows: digests, certificates from
any slot, challenge, event, RESPOND_IF_READY, or the end of the flow. `Unexpected` is
the check that lets only the next message of an open flow through. `history` holds
the events that the properties speak of: a call abandoned with a message of it under
way (`LATE`), a flow entered again while the Responder counts the Requester as
authenticated, so that the transcripts are kept (`KEPT`), and a signature that did not verify (`UNVERIFIED`).

## Runs

Every API call is possible whenever the Requester is idle, every answer in
`ResponseStates` is possible for every request. Deadlock is checked for `Connection`
and `Chunk`, where a call is always possible; in the other modules the application
may stop calling, and the bounds stop it.

| Run | Setting | Shows |
|---|---|---|
| `key_update` | all five calls, both drop policies, one of send failure, loss, late answer, no entropy; three updates, the counter reaches its end | `TypeOK`, `NonceFresh`, `NoDecryptError`, `InStepWhenQuiet`, `SuccessMeansUpdated`, `EndAgreement`, `BoundedRequests`, `CallReturns` |
| `handshake_faults` | DHE limited to one session, PSK with context; one of send failure, loss, late answer, crypto failure | `TablesConsistent`, `NoAssertion`, `FinishSucceeds`, `EstablishAgreement` |
| `handshake_clear` | handshake in the clear, PSK without context and limited to one session; two of loss, late, damage, send and crypto failure; the counter reaches its end | `TablesConsistent`, `KeysAgree`, `EstablishAgreement` |
| `connection` | 3 by 2 version lists, 4 by 4 offers, both PQC preferences; two faults, two of BUSY, ResponseNotReady, RequestResynch | `TypeOK`, `VcaAgreement`, `FreshAfterVersion`, `ConnectionRecovers` |
| `authentication` | all calls, a chain of two portions, four randoms; one fault, one of BUSY, ResponseNotReady, RequestResynch | `TranscriptsAgree`, `SignatureResynchronises`, `SignaturesVerify` |
| `chunk` | sizes from one byte to one more than three chunks carry; handles wrap at 2, sequence numbers at 3; one fault, one BUSY, ResponseNotReady or RequestResynch | `TypeOK`, `TransferAgreement`, `ImplementsExchange`, `FailsOnlyIfDisturbed`, `CallReturns` |
| `encapsulated` | handshake in the clear or not, both kinds of mutual authentication in a session; chains of three and two units in portions of two, an empty slot; two faults; ids wrap at 2 | `TypeOK`, `AnswersOutstanding`, `ChainInOrder`, `ChallengeVerifies`, `SuccessEndsFlow`, `FinishAfterFlow` |

`key_update_header_sequence`, `key_update_not_ready`, `handshake_psk_busy`,
`handshake_freed_twice` and `vendor_defined` end with a counterexample; see below.

Why the bounds are enough: two slots are the fewest in which handshakes interleave
and an id is used again while another is held; three or four randoms allow an
exchange after an abandoned one; one retry distinguishes a first attempt from a
repeated one; two or three tokens, two handles and two
request ids make each of them wrap; three chunks are a first, a middle and a last
one; two portions make a chain that can be cut in the middle; one or two faults are
enough for each hazard, which is a single misfortune followed by normal operation.
The sizes in `chunk` stand for 42 and more bytes: only the inequalities between them
matter, and these are the assumption `ChunkAssumption`.

Fairness. `KeyUpdate!FairSpec` and `Chunk!FairSpec` say that the steps of the call in
progress and the turns of the Responder are eventually taken: the Requester's code
between two blocking points is sequential, each receive has a timeout, and the
Responder is a loop. Nothing disables a step that a call waits for, so weak fairness
is enough. `Connection!FairSpec` adds that the Integrator takes `response_state` back
to NORMAL (the code says that this is its duty,
`libspdm_rsp_handle_response_state.c:20`) and that the application calls
`libspdm_init_connection` again while it has no connection; without the second,
nothing in the library would. Faults are never fair. The calls of `Handshake` and
`Encapsulated` have the same loops, and their return is not checked again.

### Where the code and its documentation disagree

Five runs are expected to end with a counterexample.

* `key_update_header_sequence` (`NoDecryptError`): a comment in
  `libspdm_req_send_receive.c:299` says that the backup key is used to read
  ResponseNotReady after KEY_UPDATE. When the transport header carries the sequence
  number, the comparison of the header fails first and the session is freed.
* `key_update_not_ready` (`NotReadyIsAsked`): `spdm_lib_config.h:129` describes the
  wait before RESPOND_IF_READY. The Responder sends `rd_tm` = 1, which the Requester
  refuses, so between two libspdm endpoints RESPOND_IF_READY is never sent. The
  other runs set `RdTm` to 2, what another Responder may send.
* `handshake_psk_busy` (`PskFinishSucceeds`): the unit test
  `test_spdm_requester/psk_finish.c:1488` expects SUCCESS after BUSY and a retry.
  The retry's HMAC covers the first attempt too, and a libspdm Responder refuses it.
* `handshake_freed_twice` (`NoAssertion`): `libspdm_free_session_id` asserts that
  the session exists. After a FINISH_RSP that does not decrypt it is freed twice.
* `vendor_defined` (`OtherRequestsResetM`): a comment in
  `libspdm_com_context_data.c:1466` says that any request other than
  GET_MEASUREMENTS resets L1/L2. The Responder does so for VENDOR_DEFINED_REQUEST, the
  Requester does not, and the next signed measurements do not verify.

`handshake_faults` damages no message and claims `FinishSucceeds` for FINISH only, so
that the two disagreements of the handshake stay out of it.

What holds only in part, and how the properties say so:

* `NoDecryptError` and `InStepWhenQuiet` are about runs in which no message was lost,
  late or unsent. Even then UPDATE_ALL_KEYS during an unverified encapsulated update
  ends the session, because both replace the one backup of the response key;
  `UpdatesOverlap` is that case.
* `SuccessMeansUpdated` is not claimed for a call after one that gave up before its
  answer came: the acknowledgement of the abandoned request is then taken for the
  current one.
* `FinishSucceeds` is not claimed once a request was deferred: F is not reset when a
  RESPOND_IF_READY is answered with BUSY.
* `TranscriptsAgree` and `SignaturesVerify` hold as long as calls succeed (`clean`).
* `AnswersOutstanding`, `ChainInOrder` and `SuccessEndsFlow` hold as long as no call
  was abandoned with a message under way: GET_ENCAPSULATED_REQUEST starts the flow
  again with the same request id, and CERTIFICATE does not say its offset.
* `ChallengeVerifies` also leaves out the flow that is entered again while the
  Responder counts the Requester as authenticated:
  `libspdm_reset_message_buffer_via_request_code` then keeps the mutual transcripts.

## Proofs

TLAPS proves, for every value of the constants that the assumptions
(`SecuredMessageAssumption`, `KeyUpdateAssumption`, `SessionTableAssumption`,
`HandshakeAssumption`, `ConnectionAssumption`, `ChunkAssumption`,
`ConstantsAssumption` of `Encapsulated`) allow:

* `KeyUpdateProofs!NoncesAreFresh`: `Spec => []NonceFresh`, and `TypeCorrect`:
  `Spec => []TypeOK`. The inductive invariant is their conjunction: that a nonce is
  fresh needs the types of keys and of the deferred request, from which the next
  message is encoded. The first part of the module has what encoding, decoding and the
  three key operations do to the order of nonces.
* `KeyUpdateProofs!EndsAgree`: `Spec => []EndAgreement`. `EndAgreement` relates only
  the two ends; `AckEnds` adds what links them: an END_SESSION_ACK in flight comes from
  a session that has ended and stays so, and an END_SESSION call is a success only by
  such an answer, since an error, BUSY, and a RESPOND_IF_READY that could not be sent
  all count as failures of this call.
* `HandshakeProofs!TablesAreConsistent`: `Spec => []TablesConsistent`, for any
  number of slots, any limits, any number of faults. `TablesConsistent` is not
  inductive: it does not say what the slots contain, nor that the call in progress
  belongs to a session of the table. `TableInv` adds the shape of the table, and
  `CallInv` that a call inside a session holds that session until it returns and
  that an exchange waiting for its answer holds the name of the next free slot.
  `SessionTableProofs` has one lemma per operation of the table: `Assign` keeps `TableInv` because the promised slot is the
  first free one and its name is new (`NamedIdIsNew`), `Free` because the slot is
  counted exactly once. `HandshakeProofs` has one lemma per group of actions.
* `ConnectionProofs!VersionStartsAfresh`: `Spec => FreshAfterVersion`, for any lists of
  versions and algorithms, any calls and any number of tokens, retries and faults. The
  invariant `FreshInv` says that at most one message is in flight, and none unless a
  call waits; that GET_VERSION leaves a Requester that was reset, and is never resumed
  by RESPOND_IF_READY; and that a VERSION in flight finds the Responder as it left it.
  Nothing is assumed of the values in the contexts, only that they are records with
  their fields.
* `ChunkProofs!TransfersAgree`: `Spec => [](TypeOK /\ TransferAgreement)`, for any
  buffer sizes, message sizes, widths of sequence numbers and handles, and any number
  of faults. The conjunction is inductive. `TransferAgreement` says at each place of a
  call what the two ends know of each other (`SendAgrees`, `GetAgrees`) and which
  message in flight the Requester may trust; without it a chunk that arrives could not
  be shown to continue what is already there. `TypeOK` bounds the offsets, from which
  follows that a chunk is never empty.
* `ChunkProofs!ChunkImplementsExchange`: `Spec => ImplementsExchange`. Each step of a
  call is a stutter of `Exchange`, except the one that issues the request, the one in
  which the handler runs (`Serve`, possible only once because `NotTwice` holds) and the
  return (`Succeed`, whose result is `answer` by `Trusted`, or `Fail`).
* `EncapsulatedFlowProofs`: `TypeCorrect`, `AnswersOutstandingHolds`,
  `ChainInOrderHolds`, `ChallengeVerifiesHolds`, `SuccessEndsFlowHolds` and
  `FinishAfterFlowHolds` prove every invariant that the run `encapsulated` checks, for
  any slots and chains, sizes of portions and of the buffer, size of `request_id`,
  calls, events and faults. All follow from one inductive invariant, `EncapInv`
  (`EncapInvHolds`), because none of them is inductive. That a signature verifies
  needs the transcripts of both ends to be one message apart exactly while that
  message is under way (`Pending`); that needs one message in flight at most, unless
  a call was abandoned (`OneInFlight`), and the request that the Responder counts as
  outstanding to be the one under way (`RspPending`, `ReqPending`); that a chain comes
  in order needs each CERTIFICATE to be the piece of the chain at the offset asked for
  (`IsAnswer`) and that offset to be the length of the buffer. `ContextOk` says which
  request each kind of flow may leave outstanding, and so that a deferred event never
  resumes an authentication. For FINISH the start of a session clears what an
  abandoned call left, so the facts hold again while a session is started
  (`Starting`), late messages before it or not. There is one lemma per action, and one
  per kind of message that it takes.

The largest half, 0xFFFF, is the constant `LastHalf` (65535 in every run); the
theorem needs only that there are no more slots than that. `Chunk` takes 65536 and 256
as constants for the same reason.

Only model-checked: `CallReturns` and `ConnectionRecovers` (liveness is out of the
prover's reach); `NoDecryptError`, `InStepWhenQuiet`, `SuccessMeansUpdated`,
`BoundedRequests`, `EstablishAgreement`, `KeysAgree`, `FinishSucceeds`,
`FailsOnlyIfDisturbed`, and the other properties of `Connection`. `NoAssertion` holds only without damaged messages and is checked, not
proved.

## Not modelled

* Device buffers (acquire and release) and the heartbeat watchdog: calls into the
  Integrator's code around each exchange. A model of them would repeat some thirty
  functions path by path with nothing to abstract. The hazards that reading them
  showed are in `PROJECT.json`, without a property.
* GET_CSR, SET_CERTIFICATE, key pairs, events other than SEND_EVENT, endpoint info and
  the measurement extension log: single exchanges whose state is the Integrator's.
  Transcript E and L1/L2 inside a session repeat the resets of `Connection` on other
  buffers.
* RESPOND_IF_READY for GET_ENCAPSULATED_REQUEST, since the Requester refuses the
  `rd_tm` that the Responder sends (`key_update_not_ready`). That a deferred flow is
  not resumed in a handshake in the clear is documented in
  `doc/encapsulated_flow_user_guide.md:102`.
* Chunking inside a session, and chunks of the messages that `Connection` or
  `Handshake` exchange: `Exchange` is what these may rely on.
* Cryptographic algorithms and the back ends under `os_stub`, because the models take
  them as ideal; framing by the transports, opaque data and the message log, because
  they keep no state across messages; `zephyr`, samples and unit tests, because they
  are not part of the library (the tests are read as documentation of what is
  intended).
