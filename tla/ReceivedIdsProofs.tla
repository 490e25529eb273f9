-------------------------- MODULE ReceivedIdsProofs --------------------------
(***************************************************************************)
(* Proofs about ReceivedIds, for any ids and any size of the buffer.       *)
(***************************************************************************)
EXTENDS ReceivedIds, FiniteSetTheorems, TLAPS

(* Init: nothing is known, nothing was handled.                            *)
LEMMA InitInv == Init => IInv
<1>1. SUFFICES ASSUME Init PROVE IInv OBVIOUS
<1>2. Handled = {} BY <1>1 DEF Init, Handled
<1>3. TypeOK /\ NeverTwice BY <1>1, SMT DEF Init, TypeOK, NeverTwice
<1>4. Remembered BY <1>1, <1>2, FS_EmptySet DEF Init, Remembered
<1> QED BY <1>3, <1>4 DEF IInv

(* A new id is above every id that was handled and is known no more.       *)
LEMMA NewIsNotHandled ==
  ASSUME IInv, NEW id \in Ids, IsNew(id)
  PROVE  id \notin Handled /\ \A i \in Handled \ known : i < id
<1>1. known \subseteq Nat /\ Ids \subseteq Nat /\ Handled \subseteq Ids
  BY IdsAssumption DEF IInv, TypeOK, Handled
<1>2. IsFiniteSet(known)
  BY FS_Subset DEF IInv, Remembered
<1>3. Cardinality(known) \in Nat BY <1>2, FS_CardinalityType
<1>4. ASSUME NEW i \in Handled \ known PROVE i < id
  <2>1. Full /\ \A k \in known : i < k BY <1>4 DEF IInv, Remembered
  <2>2. PICK k \in known : k < id
    BY <2>1, <1>3, IdsAssumption DEF IsNew, Full
  <2>3. i \in Nat /\ k \in Nat /\ id \in Nat BY <1>1, <1>4
  <2> QED BY <2>1, <2>2, <2>3
<1>5. id \notin Handled
  <2>1. ~(id < id) BY <1>1
  <2> QED BY <1>4, <2>1 DEF IsNew
<1> QED BY <1>4, <1>5

(* registerMsgId() keeps the invariant, wherever it is called.             *)
LEMMA RegisterInv ==
  ASSUME IInv, refused = 0, NEW id \in Ids, registerMsgId(id),
         phase' \in {"none", "container", "handled"}
  PROVE  IInv'
<1>1. known \subseteq Nat /\ Ids \subseteq Nat /\ Handled \subseteq Ids /\ 0 \notin Ids
  BY IdsAssumption DEF IInv, TypeOK, Handled
<1>2. IsFiniteSet(known) /\ Cardinality(known) \in Nat
  BY FS_Subset, FS_CardinalityType DEF IInv, Remembered
<1>3. CASE UNCHANGED <<known, times, refused>>
  BY <1>3 DEF IInv, TypeOK, NeverTwice, Remembered, Handled, Full
<1>4. CASE IsNew(id) /\ known' = known \cup {id} /\ times' = [times EXCEPT ![id] = @ + 1]
             /\ UNCHANGED refused
  <2>1. id \notin Handled /\ \A i \in Handled \ known : i < id
    BY <1>4, NewIsNotHandled
  <2>2. times[id] = 0
    BY <2>1 DEF Handled, IInv, TypeOK
  <2>3. /\ times' \in [Ids -> Nat] /\ times'[id] = 1
        /\ \A i \in Ids \ {id} : times'[i] = times[i]
    BY <1>4, <2>2 DEF IInv, TypeOK
  <2>4. Handled' = Handled \cup {id}
    BY <2>3 DEF Handled
  <2>5. TypeOK' BY <1>4, <2>3 DEF IInv, TypeOK
  <2>6. NeverTwice' BY <2>3 DEF IInv, NeverTwice
  <2>7. id \notin known BY <1>4 DEF IsNew
  <2>8. Cardinality(known') = Cardinality(known) + 1
    BY <1>2, <1>4, <2>7, FS_AddElement
  <2>9. Full => Full' BY <1>2, <2>8, IdsAssumption DEF Full
  <2>10. Remembered'
    <3>1. IsFiniteSet(Handled') BY <2>4, FS_AddElement DEF IInv, Remembered
    <3>2. known' \subseteq Handled' BY <1>4, <2>4 DEF IInv, Remembered
    <3>3. ASSUME NEW i \in (Handled \ known)' PROVE Full' /\ \A k \in known' : i < k
      <4>1. i \in Handled \ known BY <3>3, <1>4, <2>4
      <4>2. Full /\ \A k \in known : i < k BY <4>1 DEF IInv, Remembered
      <4> QED BY <4>1, <4>2, <2>1, <2>9, <1>4
    <3>4. refused' = 0 BY <1>4
    <3> QED BY <3>1, <3>2, <3>3, <3>4 DEF Remembered
  <2> QED BY <2>5, <2>6, <2>10 DEF IInv
<1>5. CASE id \notin known /\ ~IsNew(id) /\ refused' = id /\ UNCHANGED <<known, times>>
  <2>1. Cardinality(known) >= BufferSize /\ \A k \in known : ~(k < id)
    BY <1>5, <1>2, IdsAssumption DEF IsNew
  <2>2. \A k \in known : id < k
    <3> TAKE k \in known
    <3>1. k \in Nat /\ id \in Nat /\ k /= id /\ ~(k < id) BY <1>1, <1>5, <2>1
    <3> QED BY <3>1
  <2>3. TypeOK' /\ NeverTwice' BY <1>5 DEF IInv, TypeOK, NeverTwice
  <2>4. Remembered' BY <1>5, <2>1, <2>2 DEF IInv, Remembered, Full, Handled
  <2> QED BY <2>3, <2>4 DEF IInv
<1> QED BY <1>3, <1>4, <1>5 DEF registerMsgId

(* shrink() only drops ids that are older than all it keeps.               *)
LEMMA ShrinkInv ==
  ASSUME IInv, refused = 0, shrink, UNCHANGED times, phase' = "none", refused' = 0
  PROVE  IInv'
<1>1. PICK kept \in SUBSET known :
        /\ IF Cardinality(known) > BufferSize
             THEN Cardinality(kept) = BufferSize /\ Newest(kept)
             ELSE kept = known
        /\ known' = kept
  BY DEF shrink
<1>2. Handled' = Handled BY DEF Handled
<1>3. TypeOK' /\ NeverTwice' BY <1>1 DEF IInv, TypeOK, NeverTwice
<1>4. ASSUME NEW i \in (Handled \ known)' PROVE Full' /\ \A k \in known' : i < k
  <2>1. CASE kept = known
    BY <2>1, <1>1, <1>2, <1>4 DEF IInv, Remembered, Full
  <2>2. CASE kept /= known
    <3>1. Cardinality(kept) = BufferSize /\ Newest(kept) BY <1>1, <2>2
    <3>2. Full' BY <3>1, <1>1, IdsAssumption DEF Full
    <3>3. CASE i \in known BY <3>1, <3>2, <3>3, <1>1, <1>4 DEF Newest
    <3>4. CASE i \notin known
      BY <3>2, <3>4, <1>1, <1>2, <1>4 DEF IInv, Remembered
    <3> QED BY <3>3, <3>4
  <2> QED BY <2>1, <2>2
<1>5. Remembered' BY <1>1, <1>2, <1>4 DEF IInv, Remembered
<1> QED BY <1>3, <1>5 DEF IInv

(* A new session knows and has handled nothing.                            *)
LEMMA ClearedInv ==
  ASSUME Cleared, phase' = "none", refused' = 0
  PROVE  IInv'
<1>1. Handled' = {} BY DEF Cleared, Handled
<1>2. TypeOK' /\ NeverTwice' BY SMT DEF Cleared, TypeOK, NeverTwice
<1>3. Remembered' BY <1>1, FS_EmptySet DEF Cleared, Remembered
<1> QED BY <1>2, <1>3 DEF IInv

(* The invariant is inductive, and nothing but a message at hand refuses.  *)
LEMMA IInvIsInvariant == Spec => [](IInv /\ (phase = "none" => refused = 0))
<1> DEFINE Quiet == phase = "none" => refused = 0
<1>1. Init => IInv /\ Quiet BY InitInv DEF Init
<1>2. ASSUME IInv, Quiet, [Next]_vars PROVE (IInv /\ Quiet)'
  <2>1. ASSUME NEW id \in Ids, Receive(id) PROVE (IInv /\ Quiet)'
    <3>1. phase' \in {"container", "handled"} /\ refused = 0 /\ registerMsgId(id)
      BY <2>1, <1>2 DEF Receive
    <3> QED BY <3>1, <1>2, RegisterInv
  <2>2. ASSUME NEW id \in Ids, ReceiveInner(id) PROVE (IInv /\ Quiet)'
    <3>1. phase' = "container" /\ refused = 0 /\ registerMsgId(id)
      BY <2>2 DEF ReceiveInner
    <3> QED BY <3>1, <1>2, RegisterInv
  <2>3. CASE Finish
    <3>1. CASE refused = 0 /\ shrink /\ UNCHANGED times
      BY <2>3, <3>1, <1>2, ShrinkInv DEF Finish
    <3>2. CASE refused /= 0 /\ Cleared
      BY <2>3, <3>2, ClearedInv DEF Finish
    <3> QED BY <2>3, <3>1, <3>2 DEF Finish
  <2>4. CASE Reset BY <2>4, <1>2, ClearedInv DEF Reset
  <2>5. CASE UNCHANGED vars
    BY <2>5, <1>2 DEF vars, IInv, TypeOK, NeverTwice, Remembered, Handled, Full
  <2> QED BY <1>2, <2>1, <2>2, <2>3, <2>4, <2>5 DEF Next
<1> QED BY <1>1, <1>2, PTL DEF Spec

(* The variables keep their types.                                         *)
THEOREM TypeCorrect == Spec => []TypeOK
<1>1. IInv => TypeOK BY DEF IInv
<1> QED BY <1>1, IInvIsInvariant, PTL

(* handleReceived() handles no message of the server twice in a session,   *)
(* however few ids the buffer keeps.                                       *)
THEOREM HandledOnce == Spec => []NeverTwice
<1>1. IInv => NeverTwice BY DEF IInv
<1> QED BY <1>1, IInvIsInvariant, PTL

(* The session is reset only for what is older than a full buffer.         *)
THEOREM ResetIsForOld == Spec => []ResetsForOld
<1>1. IInv => ResetsForOld
  <2> SUFFICES ASSUME IInv, refused /= 0
               PROVE  Cardinality({i \in Handled : i > refused}) >= BufferSize
    BY DEF ResetsForOld
  <2> DEFINE above == {i \in Handled : i > refused}
  <2>1. known \subseteq above
    <3> SUFFICES ASSUME NEW k \in known PROVE k \in above OBVIOUS
    <3>1. k \in Nat /\ refused \in Nat BY IdsAssumption DEF IInv, TypeOK
    <3>2. refused < k /\ k \in Handled BY DEF IInv, Remembered
    <3> QED BY <3>1, <3>2
  <2>2. IsFiniteSet(above) BY FS_Subset DEF IInv, Remembered
  <2>3. IsFiniteSet(known) /\ Cardinality(known) <= Cardinality(above)
    BY <2>1, <2>2, FS_Subset
  <2>4. Cardinality(known) \in Nat /\ Cardinality(above) \in Nat
    BY <2>2, <2>3, FS_CardinalityType
  <2>5. Cardinality(known) >= BufferSize BY DEF IInv, Remembered, Full
  <2> QED BY <2>3, <2>4, <2>5, IdsAssumption
<1> QED BY <1>1, IInvIsInvariant, PTL
=============================================================================
