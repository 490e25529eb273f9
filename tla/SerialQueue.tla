---------------------------- MODULE SerialQueue ----------------------------
(***************************************************************************)
(* What crl::queue promises to everything that runs on it: the callables   *)
(* given to it run one at a time, in the order in which they were given.   *)
(***************************************************************************)
EXTENDS Sequences

CONSTANTS Entries, None

VARIABLES waiting, running

Init == waiting = <<>> /\ running = None

Async(e) == waiting' = Append(waiting, e) /\ UNCHANGED running

Begin ==
  /\ running = None /\ waiting /= <<>>
  /\ running' = Head(waiting) /\ waiting' = Tail(waiting)

End == running /= None /\ running' = None /\ UNCHANGED waiting

Next == (\E e \in Entries : Async(e)) \/ Begin \/ End

Spec == Init /\ [][Next]_<<waiting, running>>
=============================================================================
