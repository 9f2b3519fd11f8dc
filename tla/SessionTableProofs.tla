------------------------- MODULE SessionTableProofs -------------------------
(***************************************************************************)
(* What the operations of SessionTable preserve, for every size of the     *)
(* table, every limit and either endpoint.                                 *)
(***************************************************************************)
EXTENDS SessionTable, FiniteSetTheorems, WellFoundedInduction, TLAPS

USE SessionTableAssumption

(* The invariant of the table whose owner chooses the given half.          *)
TableInv(t, half) ==
    /\ DOMAIN t.slots = Slots
    /\ \A i \in Slots : t.slots[i].psk \in BOOLEAN
    /\ NamedBySlot(t, half)
    /\ Counted(t)
    /\ LatestHeld(t)

(* Table u has the sessions of table t, perhaps with other contents.       *)
SameSessions(t, u) ==
    /\ DOMAIN u.slots = Slots
    /\ \A i \in Slots : /\ u.slots[i].id = t.slots[i].id
                        /\ u.slots[i].psk = t.slots[i].psk
    /\ u.dhe = t.dhe /\ u.psk = t.psk /\ u.latest = t.latest

Halves == {"req", "rsp"}

-----------------------------------------------------------------------------
(* The first element of a non-empty set of slots is one of its elements.   *)
LEMMA FirstIn ==
    ASSUME NEW S, S \subseteq Slots, S # {}
    PROVE  First(S) \in S
<1>1. S \subseteq Nat
  BY DEF Slots
<1>2. PICK x \in S : \A y \in S : ~(<<y, x>> \in OpToRel(<, Nat))
  <2> HIDE DEF OpToRel
  <2> QED BY <1>1, NatLessThanWellFounded, WFMin, Zenon
<1>3. ASSUME NEW y \in S PROVE x <= y
  <2>1. x \in Nat /\ y \in Nat /\ <<y, x>> \in Nat \X Nat
    BY <1>1
  <2>2. ~(<<y, x>>[1] < <<y, x>>[2])
    BY <1>2, <2>1, Zenon DEF OpToRel
  <2> QED BY <2>1, <2>2
<1> QED BY <1>3 DEF First

(* The slots in use are finitely many, of either kind.                     *)
LEMMA UsedFinite ==
    ASSUME NEW t
    PROVE  /\ IsFiniteSet(Slots)
           /\ IsFiniteSet({i \in Used(t) : t.slots[i].psk})
           /\ IsFiniteSet({i \in Used(t) : ~t.slots[i].psk})
<1>1. IsFiniteSet(Slots)
  BY FS_Interval DEF Slots
<1>2. {i \in Used(t) : t.slots[i].psk} \in SUBSET Slots
  BY DEF Used
<1>3. {i \in Used(t) : ~t.slots[i].psk} \in SUBSET Slots
  BY DEF Used
<1> QED BY <1>1, <1>2, <1>3, FS_Subset

(* The empty table satisfies the invariant.                                *)
LEMMA EmptyTableInv ==
    ASSUME NEW half \in Halves
    PROVE  TableInv(EmptyTable, half) /\ Used(EmptyTable) = {}
<1>1. Used(EmptyTable) = {}
  BY DEF Used, EmptyTable, FreeSlot
<1>2. Counted(EmptyTable)
  <2>1. /\ {i \in Used(EmptyTable) : EmptyTable.slots[i].psk} = {}
        /\ {i \in Used(EmptyTable) : ~EmptyTable.slots[i].psk} = {}
    BY <1>1
  <2>2. Cardinality({}) = 0
    BY FS_EmptySet
  <2>3. EmptyTable.psk = 0 /\ EmptyTable.dhe = 0
    BY DEF EmptyTable
  <2>4. \A psk \in BOOLEAN : Limit(psk) # 0 => Count(EmptyTable, psk) <= Limit(psk)
    BY <2>3 DEF Limit, Count
  <2> QED BY <2>1, <2>2, <2>3, <2>4, Zenon DEF Counted
<1> QED BY <1>1, <1>2, Zenon DEF TableInv, NamedBySlot, LatestHeld, EmptyTable, FreeSlot

(* libspdm_get_session_info_via_session_id finds the session with the id.  *)
LEMMA SlotOfHeld ==
    ASSUME NEW t, NEW id, Holds(t, id)
    PROVE  /\ SlotOf(t, id) \in Slots
           /\ SlotOf(t, id) \in Used(t)
           /\ Session(t, id).id = id
<1>1. SlotOf(t, id) \in {i \in Slots : t.slots[i].id = id}
  <2>1. {i \in Slots : t.slots[i].id = id} # {}
    BY DEF Holds
  <2> QED BY <2>1, FirstIn DEF SlotOf
<1> QED BY <1>1 DEF Session, Used, Holds

(* Changing the contents of a session changes no id and no counter.        *)
LEMMA SetSessionSame ==
    ASSUME NEW t, DOMAIN t.slots = Slots, NEW id, Holds(t, id), NEW s,
           s.id = Session(t, id).id, s.psk = Session(t, id).psk
    PROVE  SameSessions(t, SetSession(t, id, s))
BY SlotOfHeld DEF SameSessions, SetSession, Session

(* Tables with the same sessions hold the same ids and free the same slots.*)
LEMMA SameFacts ==
    ASSUME NEW t, NEW u, SameSessions(t, u)
    PROVE  /\ Used(u) = Used(t)
           /\ \A id : Holds(u, id) <=> Holds(t, id)
           /\ \A psk : AtLimit(u, psk) <=> AtLimit(t, psk)
BY DEF SameSessions, Used, Holds, AtLimit, Count

(* The invariant says nothing of the contents of sessions.                 *)
LEMMA SameInv ==
    ASSUME NEW t, NEW u, SameSessions(t, u), NEW half \in Halves, TableInv(t, half)
    PROVE  TableInv(u, half)
<1>1. Used(u) = Used(t) /\ Used(t) \subseteq Slots
  BY SameFacts DEF Used
<1>2. NamedBySlot(u, half)
  BY <1>1 DEF SameSessions, TableInv, NamedBySlot
<1>3. Counted(u)
  <2>1. /\ {i \in Used(u) : u.slots[i].psk} = {i \in Used(t) : t.slots[i].psk}
        /\ {i \in Used(u) : ~u.slots[i].psk} = {i \in Used(t) : ~t.slots[i].psk}
    BY <1>1 DEF SameSessions
  <2> QED BY <2>1, Zenon DEF SameSessions, TableInv, Counted, Count
<1>4. LatestHeld(u)
  BY SameFacts DEF LatestHeld, TableInv, SameSessions
<1> QED BY <1>2, <1>3, <1>4 DEF TableInv, SameSessions

-----------------------------------------------------------------------------
(* The slots without a session are those whose own half of the id is 0.    *)
LEMMA FreeSlots ==
    ASSUME NEW t, NEW half \in Halves, TableInv(t, half)
    PROVE  {i \in Slots : t.slots[i].id[half] = 0} = Slots \ Used(t)
<1>1. ASSUME NEW i \in Slots PROVE t.slots[i].id[half] = 0 <=> i \notin Used(t)
  <2>1. CASE i \in Used(t)
    BY <2>1 DEF TableInv, NamedBySlot, Slots
  <2>2. CASE i \notin Used(t)
    <3>1. t.slots[i].id = InvalidId
      BY <2>2 DEF Used
    <3>2. InvalidId[half] = 0
      BY DEF InvalidId, SessionId, Halves
    <3> QED BY <2>2, <3>1, <3>2
  <2> QED BY <2>1, <2>2
<1> QED BY <1>1

(* A half that libspdm_allocate_req_session_id or                          *)
(* libspdm_allocate_rsp_session_id returns names the slot that             *)
(* libspdm_assign_session_id takes.                                        *)
LEMMA AllocateIdFacts ==
    ASSUME NEW t, NEW half \in Halves, TableInv(t, half), NEW psk,
           AllocateId(t, psk, half) # 0
    PROVE  /\ Used(t) # Slots /\ ~AtLimit(t, psk)
           /\ AllocateId(t, psk, half) = LastHalf - First(Slots \ Used(t))
<1>1. /\ ~AtLimit(t, psk) /\ Slots \ Used(t) # {}
      /\ AllocateId(t, psk, half) = LastHalf - First(Slots \ Used(t))
  BY FreeSlots, Zenon DEF AllocateId
<1> QED BY <1>1

(* Such a half makes a valid id that the table does not hold yet.          *)
LEMMA NamedIdIsNew ==
    ASSUME NEW t, NEW half \in Halves, TableInv(t, half), Used(t) # Slots,
           NEW id, id[half] = LastHalf - First(Slots \ Used(t))
    PROVE  CanAssign(t, id)
<1>1. First(Slots \ Used(t)) \in Slots \ Used(t)
  <2>1. Slots \ Used(t) # {} /\ Slots \ Used(t) \subseteq Slots
    BY DEF Used
  <2> QED BY <2>1, FirstIn
<1> DEFINE j == First(Slots \ Used(t))
<1>2. j \in Slots /\ j \notin Used(t) /\ id[half] = LastHalf - j
  BY <1>1
<1> HIDE DEF j
<1>3. id # InvalidId
  <2>1. InvalidId[half] = 0
    BY DEF InvalidId, SessionId, Halves
  <2> QED BY <1>2, <2>1 DEF Slots
<1>4. ASSUME NEW i \in Slots, t.slots[i].id = id PROVE FALSE
  <2>1. i \in Used(t)
    BY <1>3, <1>4 DEF Used
  <2>2. LastHalf - i = LastHalf - j
    BY <1>2, <1>4, <2>1 DEF TableInv, NamedBySlot
  <2> QED BY <1>2, <2>1, <2>2 DEF Slots
<1> QED BY <1>3, <1>4 DEF CanAssign, Holds

(* libspdm_assign_session_id, with such an id and below the limit.         *)
LEMMA AssignInv ==
    ASSUME NEW t, NEW half \in Halves, TableInv(t, half), Used(t) # Slots,
           NEW id, id[half] = LastHalf - First(Slots \ Used(t)),
           NEW psk \in BOOLEAN, ~AtLimit(t, psk)
    PROVE  /\ TableInv(Assign(t, id, psk), half)
           /\ Holds(Assign(t, id, psk), id)
<1> DEFINE j == First(Slots \ Used(t))
           u == Assign(t, id, psk)
           P == {i \in Used(t) : t.slots[i].psk}
           D == {i \in Used(t) : ~t.slots[i].psk}
<1>1. j \in Slots /\ j \notin Used(t) /\ id[half] = LastHalf - j
  <2>1. Slots \ Used(t) # {} /\ Slots \ Used(t) \subseteq Slots
    BY DEF Used
  <2> QED BY <2>1, FirstIn
<1>2. CanAssign(t, id) /\ id # InvalidId
  BY NamedIdIsNew DEF CanAssign
<1>3. /\ u.slots = [t.slots EXCEPT ![j] = NewSession(id, psk)]
      /\ u.dhe = IF psk THEN t.dhe ELSE t.dhe + 1
      /\ u.psk = IF psk THEN t.psk + 1 ELSE t.psk
      /\ u.latest = id
  BY <1>2 DEF Assign
<1> HIDE DEF j, u
<1>4. /\ DOMAIN u.slots = Slots
      /\ u.slots[j].id = id /\ u.slots[j].psk = psk
      /\ \A i \in Slots \ {j} : u.slots[i] = t.slots[i]
  BY <1>1, <1>3 DEF TableInv, NewSession
<1>5. Used(u) = Used(t) \cup {j}
  BY <1>1, <1>2, <1>4 DEF Used
<1>6. Used(t) \subseteq Slots
  BY DEF Used
<1>7. \A i \in Slots : u.slots[i].psk \in BOOLEAN
  BY <1>1, <1>4 DEF TableInv
<1>8. NamedBySlot(u, half)
  BY <1>1, <1>4, <1>5, <1>6 DEF TableInv, NamedBySlot
<1>9. Counted(u)
  <2>1. /\ {i \in Used(u) : u.slots[i].psk} = IF psk THEN P \cup {j} ELSE P
        /\ {i \in Used(u) : ~u.slots[i].psk} = IF psk THEN D ELSE D \cup {j}
    BY <1>1, <1>4, <1>5, <1>6
  <2>2. IsFiniteSet(P) /\ IsFiniteSet(D)
    BY UsedFinite
  <2>3. j \notin P /\ j \notin D
    BY <1>1
  <2> HIDE DEF P, D
  <2>4. /\ Cardinality(P \cup {j}) = Cardinality(P) + 1
        /\ Cardinality(D \cup {j}) = Cardinality(D) + 1
    BY <2>2, <2>3, FS_AddElement, Zenon
  <2>5. Cardinality(P) \in Nat /\ Cardinality(D) \in Nat
    BY <2>2, FS_CardinalityType
  <2>6. /\ t.psk = Cardinality(P) /\ t.dhe = Cardinality(D)
        /\ \A k \in BOOLEAN : Limit(k) # 0 => Count(t, k) <= Limit(k)
    BY DEF TableInv, Counted, P, D
  <2>7. /\ u.psk = Cardinality({i \in Used(u) : u.slots[i].psk})
        /\ u.dhe = Cardinality({i \in Used(u) : ~u.slots[i].psk})
    BY <1>3, <2>1, <2>4, <2>6, Zenon
  <2>8. ASSUME NEW k \in BOOLEAN, Limit(k) # 0 PROVE Count(u, k) <= Limit(k)
    BY <1>3, <2>5, <2>6, <2>8 DEF AtLimit, Count, Limit
  <2> QED BY <2>7, <2>8 DEF Counted
<1>10. Holds(u, id)
  BY <1>1, <1>2, <1>4 DEF Holds
<1>11. LatestHeld(u)
  BY <1>3, <1>10 DEF LatestHeld
<1>12. TableInv(u, half)
  BY <1>4, <1>7, <1>8, <1>9, <1>11 DEF TableInv
<1> QED BY <1>10, <1>12 DEF u

(* libspdm_free_session_id, whether or not the table holds the id.         *)
LEMMA FreeInv ==
    ASSUME NEW t, NEW half \in Halves, TableInv(t, half), NEW id
    PROVE  TableInv(Free(t, id), half)
<1>1. CASE ~Holds(t, id)
  <2>1. SameSessions(t, Free(t, id))
    BY <1>1 DEF SameSessions, Free, LatestWithout, LatestHeld, TableInv
  <2> QED BY <2>1, SameInv
<1>2. CASE Holds(t, id)
  <2> DEFINE j == SlotOf(t, id)
             u == Free(t, id)
             P == {i \in Used(t) : t.slots[i].psk}
             D == {i \in Used(t) : ~t.slots[i].psk}
  <2>1. j \in Slots /\ j \in Used(t) /\ t.slots[j].id = id /\ id # InvalidId
    BY <1>2, SlotOfHeld DEF Session, Holds
  <2>2. /\ u.slots = [t.slots EXCEPT ![j] = FreeSlot]
        /\ u.dhe = IF t.slots[j].psk THEN t.dhe ELSE LessOne(t.dhe)
        /\ u.psk = IF t.slots[j].psk THEN LessOne(t.psk) ELSE t.psk
        /\ u.latest = IF t.latest = id THEN InvalidId ELSE t.latest
    BY <1>2 DEF Free, LatestWithout, Session
  <2> HIDE DEF j, u
  <2>3. /\ DOMAIN u.slots = Slots
        /\ u.slots[j].id = InvalidId /\ u.slots[j].psk = FALSE
        /\ \A i \in Slots \ {j} : u.slots[i] = t.slots[i]
    BY <2>1, <2>2 DEF TableInv, FreeSlot
  <2>4. Used(u) = Used(t) \ {j} /\ Used(t) \subseteq Slots
    BY <2>1, <2>3 DEF Used
  <2>5. \A i \in Slots : u.slots[i].psk \in BOOLEAN
    BY <2>1, <2>3, Zenon DEF TableInv
  <2>6. NamedBySlot(u, half)
    BY <2>3, <2>4 DEF TableInv, NamedBySlot
  <2>7. Counted(u)
    <3>1. /\ {i \in Used(u) : u.slots[i].psk} = P \ {j}
          /\ {i \in Used(u) : ~u.slots[i].psk} = D \ {j}
      BY <2>3, <2>4
    <3>2. IsFiniteSet(P) /\ IsFiniteSet(D)
      BY UsedFinite, Zenon
    <3>3. /\ j \in P <=> t.slots[j].psk
          /\ j \in D <=> ~t.slots[j].psk
      BY <2>1
    <3>4. /\ t.psk = Cardinality(P) /\ t.dhe = Cardinality(D)
          /\ \A k \in BOOLEAN : Limit(k) # 0 => Count(t, k) <= Limit(k)
      BY DEF TableInv, Counted
    <3> HIDE DEF P, D
    <3>5. /\ Cardinality(P \ {j}) = IF j \in P THEN Cardinality(P) - 1 ELSE Cardinality(P)
          /\ Cardinality(D \ {j}) = IF j \in D THEN Cardinality(D) - 1 ELSE Cardinality(D)
          /\ IsFiniteSet(P \ {j}) /\ IsFiniteSet(D \ {j})
      BY <3>2, FS_RemoveElement
    <3>6. /\ Cardinality(P) \in Nat /\ Cardinality(D) \in Nat
          /\ Cardinality(P \ {j}) \in Nat /\ Cardinality(D \ {j}) \in Nat
      BY <3>2, <3>5, FS_CardinalityType
    <3>7. u.psk = Cardinality(P \ {j}) /\ u.dhe = Cardinality(D \ {j})
      BY <2>2, <3>3, <3>4, <3>5, <3>6 DEF LessOne
    <3>8. u.psk <= t.psk /\ u.dhe <= t.dhe
      BY <3>4, <3>5, <3>6, <3>7
    <3>9. ASSUME NEW k \in BOOLEAN, Limit(k) # 0 PROVE Count(u, k) <= Limit(k)
      BY <3>4, <3>6, <3>7, <3>8, <3>9 DEF Count, Limit
    <3> QED BY <3>1, <3>7, <3>9, Zenon DEF Counted
  <2>8. LatestHeld(u)
    <3>1. CASE t.latest = id \/ t.latest = InvalidId
      BY <2>2, <3>1 DEF LatestHeld
    <3>2. CASE t.latest # id /\ t.latest # InvalidId
      <4>1. PICK i \in Slots : t.slots[i].id = t.latest
        BY <3>2 DEF TableInv, LatestHeld, Holds
      <4>2. i # j
        BY <2>1, <3>2, <4>1
      <4> QED BY <2>2, <2>3, <3>2, <4>1, <4>2 DEF LatestHeld, Holds
    <3> QED BY <3>1, <3>2
  <2>9. TableInv(u, half)
    BY <2>3, <2>5, <2>6, <2>7, <2>8 DEF TableInv
  <2> QED BY <2>9 DEF u
<1> QED BY <1>1, <1>2
=============================================================================
