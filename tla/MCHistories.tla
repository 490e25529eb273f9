---------------------------- MODULE MCHistories ----------------------------
(***************************************************************************)
(* What happens together in the instances of Histories: several things in  *)
(* one chat, whose channel may be deleted, or in two chats, which share    *)
(* the timer and the requests of entries.                                  *)
(***************************************************************************)
EXTENDS Histories, TLC

CONSTANTS h1, h2

Both == {h1, h2}
Alone == [asks |-> (h1 :> 3) @@ (h2 :> 0), channels |-> 1]
Beside == [asks |-> (h1 :> 2) @@ (h2 :> 1), channels |-> 0]
Together == {Alone, Beside}
=============================================================================
