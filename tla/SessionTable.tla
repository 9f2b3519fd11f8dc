---------------------------- MODULE SessionTable ----------------------------
(***************************************************************************)
(* The session table of one endpoint: session_info[], the session counters *)
(* and latest_session_id of libspdm_context_t, with the operations that    *)
(* allocate, assign and free session ids                                   *)
(* (libspdm_com_context_data_session.c, libspdm_rsp_common.c,              *)
(* libspdm_req_common.c).                                                  *)
(*                                                                         *)
(* A session id is the pair of the 16-bit halves that the two endpoints    *)
(* chose.  A table is a record; each operation maps a table to a table.    *)
(* Of a session it keeps, besides what the table itself uses, the state,   *)
(* the transcripts K and F and the sequence number of each direction.      *)
(***************************************************************************)
EXTENDS Naturals, FiniteSets, Sequences

CONSTANTS
    MaxSessions,  \* LIBSPDM_MAX_SESSION_COUNT
    LastHalf,     \* largest half of a session id, 0xFFFF
    MaxDhe,       \* max_dhe_session_count, 0 for no limit
    MaxPsk        \* max_psk_session_count, 0 for no limit

ASSUME SessionTableAssumption ==
    /\ LastHalf \in Nat /\ MaxSessions \in 1 .. LastHalf
    /\ MaxDhe \in Nat /\ MaxPsk \in Nat

Slots == 0 .. MaxSessions - 1

(* libspdm_generate_session_id *)
SessionId(req, rsp) == [req |-> req, rsp |-> rsp]
InvalidId == SessionId(0, 0)

(* What libspdm_session_info_init leaves of a session without an id.       *)
FreeSlot ==
    [id |-> InvalidId, psk |-> FALSE, state |-> "NOT_STARTED",
     k |-> <<0, 0>>, f |-> <<>>, reqSeq |-> 0, rspSeq |-> 0]

NewSession(id, psk) ==
    [id |-> id, psk |-> psk, state |-> "NOT_STARTED",
     k |-> <<0, 0>>, f |-> <<>>, reqSeq |-> 0, rspSeq |-> 0]

EmptyTable ==
    [slots |-> [i \in Slots |-> FreeSlot], dhe |-> 0, psk |-> 0,
     latest |-> InvalidId, asserted |-> FALSE]

Used(t) == {i \in Slots : t.slots[i].id # InvalidId}
First(S) == CHOOSE i \in S : \A j \in S : i <= j

(* libspdm_get_session_info_via_session_id: does the table hold id, and    *)
(* which session is it.                                                    *)
Holds(t, id) == id # InvalidId /\ \E i \in Slots : t.slots[i].id = id
SlotOf(t, id) == First({i \in Slots : t.slots[i].id = id})
Session(t, id) == t.slots[SlotOf(t, id)]

(* The session with this id becomes s; s keeps the id.                     *)
SetSession(t, id, s) ==
    [slots |-> [t.slots EXCEPT ![SlotOf(t, id)] = s], dhe |-> t.dhe,
     psk |-> t.psk, latest |-> t.latest, asserted |-> t.asserted]

Count(t, psk) == IF psk THEN t.psk ELSE t.dhe
Limit(psk) == IF psk THEN MaxPsk ELSE MaxDhe
AtLimit(t, psk) == Limit(psk) # 0 /\ Count(t, psk) >= Limit(psk)

(* Faulty variant: the limit is off by one.                                *)
AllocateIdBeyondLimit(t, psk, half) ==
    LET free == {i \in Slots : t.slots[i].id[half] = 0}
    IN  IF (Limit(psk) # 0 /\ Count(t, psk) > Limit(psk)) \/ free = {} THEN 0
        ELSE LastHalf - First(free)

(* libspdm_allocate_req_session_id (half = "req") and                      *)
(* libspdm_allocate_rsp_session_id (half = "rsp"): the half of a new id    *)
(* names the first free slot; 0 when a limit is reached.                   *)
AllocateId(t, psk, half) ==
    LET free == {i \in Slots : t.slots[i].id[half] = 0}
    IN  IF AtLimit(t, psk) \/ free = {} THEN 0 ELSE LastHalf - First(free)

(* A failed LIBSPDM_ASSERT is recorded and the code goes on.               *)
Asserted(t, failed) ==
    [slots |-> t.slots, dhe |-> t.dhe, psk |-> t.psk, latest |-> t.latest,
     asserted |-> t.asserted \/ failed]

(* libspdm_assign_session_id, with libspdm_session_info_init: an invalid   *)
(* or a duplicate id, or a count beyond its limit, is an assertion.        *)
CanAssign(t, id) ==
    id # InvalidId /\ ~Holds(t, id) /\ Used(t) # Slots

Assign(t, id, psk) ==
    IF CanAssign(t, id)
    THEN [slots |-> [t.slots EXCEPT ![First(Slots \ Used(t))] = NewSession(id, psk)],
          dhe |-> IF psk THEN t.dhe ELSE t.dhe + 1,
          psk |-> IF psk THEN t.psk + 1 ELSE t.psk,
          latest |-> id,
          asserted |-> t.asserted \/ AtLimit(t, psk)]
    ELSE Asserted(t, id = InvalidId \/ Holds(t, id))

LessOne(n) == IF n > 0 THEN n - 1 ELSE 0

(* The latest session after id is freed.                                   *)
LatestWithout(t, id) == IF t.latest = id THEN InvalidId ELSE t.latest

(* Faulty variant: the counter of the DHE sessions is not decremented.     *)
FreeUncounted(t, id) ==
    IF Holds(t, id)
    THEN [slots |-> [t.slots EXCEPT ![SlotOf(t, id)] = FreeSlot],
          dhe |-> t.dhe,
          psk |-> IF Session(t, id).psk THEN LessOne(t.psk) ELSE t.psk,
          latest |-> LatestWithout(t, id), asserted |-> t.asserted]
    ELSE [slots |-> t.slots, dhe |-> t.dhe, psk |-> t.psk,
          latest |-> LatestWithout(t, id), asserted |-> TRUE]

(* libspdm_free_session_id: freeing an id that the table does not hold is  *)
(* an assertion.                                                           *)
Free(t, id) ==
    IF Holds(t, id)
    THEN [slots |-> [t.slots EXCEPT ![SlotOf(t, id)] = FreeSlot],
          dhe |-> IF Session(t, id).psk THEN t.dhe ELSE LessOne(t.dhe),
          psk |-> IF Session(t, id).psk THEN LessOne(t.psk) ELSE t.psk,
          latest |-> LatestWithout(t, id), asserted |-> t.asserted]
    ELSE [slots |-> t.slots, dhe |-> t.dhe, psk |-> t.psk,
          latest |-> LatestWithout(t, id), asserted |-> TRUE]

-----------------------------------------------------------------------------
(* Properties of a table.                                                  *)

(* The half that the endpoint chose is the name of the slot: sessions      *)
(* never share an id, and the next free slot has a free name.              *)
NamedBySlot(t, half) ==
    \A i \in Used(t) : t.slots[i].id[half] = LastHalf - i

(* The counters count the sessions of each kind and respect the limits.    *)
Counted(t) ==
    /\ t.psk = Cardinality({i \in Used(t) : t.slots[i].psk})
    /\ t.dhe = Cardinality({i \in Used(t) : ~t.slots[i].psk})
    /\ \A psk \in BOOLEAN : Limit(psk) # 0 => Count(t, psk) <= Limit(psk)

(* latest_session_id is a session of the table or invalid.                 *)
LatestHeld(t) == t.latest = InvalidId \/ Holds(t, t.latest)
=============================================================================
