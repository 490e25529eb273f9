----------------------------- MODULE ReceivedIds -----------------------------
(***************************************************************************)
(* The ids of what the server sent in one session, from                    *)
(* mtproto/details/mtproto_received_ids_manager.cpp and its use in         *)
(* session_private.cpp.  A message or a part of a container is handled     *)
(* only if its id is new.  Only some ids are kept, so an id below all of   *)
(* them can be told from a new one no more, and the session is reset.      *)
(***************************************************************************)
EXTENDS Integers, FiniteSets

CONSTANTS
  Ids,
  BufferSize       \* kIdsBufferSize

ASSUME IdsAssumption == Ids \subseteq Nat \ {0} /\ BufferSize \in Nat \ {0}

VARIABLES
  known,           \* _idsNeedAck
  times,           \* history: how often a message was handled in this session
  phase,           \* "none", "container" or "handled": the message at hand
  refused          \* the id for which the session is to be reset, or 0

vars == <<known, times, phase, refused>>

Handled == {i \in Ids : times[i] > 0}

Cleared == known' = {} /\ times' = [i \in Ids |-> 0]

Init == known = {} /\ times = [i \in Ids |-> 0] /\ phase = "none" /\ refused = 0

(* Mutant: a full buffer takes any id that is not in it.                   *)
IsNewAlways(id) == id \notin known

(* Mutant: an id below all that are known is never new.                    *)
IsNewAbove(id) ==
  /\ id \notin known
  /\ known = {} \/ \E k \in known : k < id

IsNew(id) ==
  /\ id \notin known
  /\ Cardinality(known) < BufferSize \/ \E k \in known : k < id

registerMsgId(id) ==
  \/ id \in known /\ UNCHANGED <<known, times, refused>>
  \/ /\ IsNew(id)
     /\ known' = known \cup {id}
     /\ times' = [times EXCEPT ![id] = @ + 1]
     /\ UNCHANGED refused
  \/ /\ id \notin known /\ ~IsNew(id)
     /\ refused' = id
     /\ UNCHANGED <<known, times>>

(* A message is handled, and may be a container of others.                 *)
Receive(id) ==
  /\ phase = "none"
  /\ phase' = IF IsNew(id) THEN "container" ELSE "handled"
  /\ registerMsgId(id)

ReceiveInner(id) ==
  /\ phase = "container" /\ refused = 0
  /\ registerMsgId(id)
  /\ UNCHANGED phase

Newest(kept) == \A i \in kept, j \in known \ kept : j < i

shrink ==
  \E kept \in SUBSET known :
    /\ IF Cardinality(known) > BufferSize
         THEN Cardinality(kept) = BufferSize /\ Newest(kept)
         ELSE kept = known
    /\ known' = kept

Finish ==
  /\ phase /= "none"
  /\ phase' = "none" /\ refused' = 0
  /\ \/ refused = 0 /\ shrink /\ UNCHANGED times
     \/ refused /= 0 /\ Cleared

(* changeSessionId(), for whatever other reason.                           *)
Reset ==
  /\ phase = "none" /\ Cleared
  /\ UNCHANGED <<phase, refused>>

Next ==
  \/ \E id \in Ids : Receive(id) \/ ReceiveInner(id)
  \/ Finish \/ Reset

Spec == Init /\ [][Next]_vars

-----------------------------------------------------------------------------
TypeOK ==
  /\ known \subseteq Ids
  /\ times \in [Ids -> Nat]
  /\ phase \in {"none", "container", "handled"}
  /\ refused \in Ids \cup {0}

(* No message is handled twice in a session, though handleReceived()       *)
(* forgets all but the last ids.                                           *)
NeverTwice == \A i \in Ids : times[i] <= 1

(* registerMsgId() has the session reset only for an id that is older than *)
(* BufferSize messages which were handled.                                 *)
ResetsForOld ==
  refused /= 0 => Cardinality({i \in Handled : i > refused}) >= BufferSize

(* What holds these: what shrink() dropped is older than all that is still *)
(* in _idsNeedAck, and then the buffer is full.                            *)
Full == Cardinality(known) >= BufferSize

Remembered ==
  /\ IsFiniteSet(Handled)
  /\ known \subseteq Handled
  /\ \A i \in Handled \ known : Full /\ \A k \in known : i < k
  /\ refused /= 0 => Full /\ \A k \in known : refused < k

IInv == TypeOK /\ NeverTwice /\ Remembered
=============================================================================
