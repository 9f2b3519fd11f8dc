--------------------------- MODULE SecuredMessage ---------------------------
(***************************************************************************)
(* The data-key state that one endpoint keeps for one direction of an      *)
(* established session, and what the secured-message library does with it  *)
(* (libspdm_secmes_session.c, libspdm_secmes_encode_decode.c).             *)
(*                                                                         *)
(* The keys of a direction form one chain: every update derives the next   *)
(* secret from the current one with HKDF, so a key is named by its place   *)
(* in that chain, its generation.  Two endpoints hold the same key exactly *)
(* when they hold the same generation.  AEAD is ideal: a message decrypts  *)
(* exactly under the key and the sequence number it was encrypted with.    *)
(***************************************************************************)
EXTENDS Naturals

CONSTANTS
    MaxSeq,     \* max_spdm_session_sequence_number, largest number allowed
    AllOnes,    \* largest value of the sequence counter (2^64 - 1)
    HeaderSeq   \* does the transport put the sequence number in the header

ASSUME SecuredMessageAssumption ==
    /\ AllOnes \in Nat
    /\ MaxSeq \in 0 .. AllOnes
    /\ HeaderSeq \in BOOLEAN

(* Generation 0 stands for the zeroed backup; data keys start at 1.        *)
DirectionKey ==
    [gen : Nat, seq : 0 .. AllOnes, valid : BOOLEAN,
     bgen : Nat, bseq : 0 .. AllOnes]

FirstDataKey ==
    [gen |-> 1, seq |-> 0, valid |-> FALSE, bgen |-> 0, bseq |-> 0]

(* libspdm_create_update_session_data_key: the current key becomes the     *)
(* backup and the next one of the chain starts at sequence number 0.       *)
CreateUpdate(k) ==
    [gen |-> k.gen + 1, seq |-> 0, valid |-> TRUE,
     bgen |-> k.gen, bseq |-> k.seq]

(* libspdm_activate_update_session_data_key: roll back to a valid backup,  *)
(* or keep the current key; the backup is wiped either way.                *)
ActivateUpdate(k, useNew) ==
    IF ~useNew /\ k.valid
    THEN [gen |-> k.bgen, seq |-> k.bseq, valid |-> FALSE, bgen |-> 0, bseq |-> 0]
    ELSE [gen |-> k.gen, seq |-> k.seq, valid |-> FALSE, bgen |-> 0, bseq |-> 0]

(* Faulty variant: only the configured limit is checked.                   *)
InLimitWithoutWrapCheck(k) == k.seq <= MaxSeq

(* Both directions check the counter before it is used: the largest        *)
(* counter value is refused because its successor would wrap to 0.         *)
InLimit(k) == k.seq <= MaxSeq /\ k.seq # AllOnes

(* The counter moves on as soon as it was read, whatever follows.          *)
Advance(k) == [k EXCEPT !.seq = (k.seq + 1) % (AllOnes + 1)]

(* libspdm_encode_secured_message, for a counter that is in its limit.     *)
Encrypt(k, payload) == [gen |-> k.gen, seq |-> k.seq, body |-> payload]

(* libspdm_decode_secured_message.  The header's sequence number is        *)
(* compared before decryption, and a mismatch never tries the backup.      *)
Decode(k, m) ==
    IF ~InLimit(k) THEN [status |-> "OVERFLOW", key |-> k]
    ELSE [status |->
            IF HeaderSeq /\ m.seq # k.seq THEN "DECRYPT_ERROR"
            ELSE IF m.gen = k.gen /\ m.seq = k.seq THEN "OK"
            ELSE IF k.valid THEN "TRY_DISCARD_KEY_UPDATE"
            ELSE "DECRYPT_ERROR",
          key |-> Advance(k)]

(* Faulty variant: the new key is dropped for good after a rollback.       *)
DecodeWithoutCreatingAgain(k, m) ==
    LET first == Decode(k, m)
    IN  IF first.status # "TRY_DISCARD_KEY_UPDATE" THEN first
        ELSE Decode(ActivateUpdate(first.key, FALSE), m)

(* What libspdm_process_request and libspdm_receive_response make of it:   *)
(* a message that fails under a new key is tried once more under the       *)
(* backup, and when that succeeds the new key is created again.            *)
DecodeWithRollback(k, m) ==
    LET first  == Decode(k, m)
        second == Decode(ActivateUpdate(first.key, FALSE), m)
    IN  IF first.status # "TRY_DISCARD_KEY_UPDATE" THEN first
        ELSE IF second.status = "OK"
        THEN [second EXCEPT !.key = CreateUpdate(second.key)]
        ELSE second

(* Nonces of one direction are ordered by generation, then by number.      *)
NonceBefore(a, b) == a.gen < b.gen \/ (a.gen = b.gen /\ a.seq < b.seq)

(* The decoder d accepts the next message of the encoder e.                *)
InStep(e, d) == DecodeWithRollback(d, e).status = "OK"
=============================================================================
