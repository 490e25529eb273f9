----------------------------- MODULE MCUpdates -----------------------------
(***************************************************************************)
(* Instances of Updates for TLC: the account's common box alone, and       *)
(* together with a channel.  Boxes start at point 1.                       *)
(***************************************************************************)
EXTENDS UpdatesInv

CommonTo3 == [b \in {"common"} |-> 3]
ChannelTo3 == [common |-> 1, channel |-> 3]
=============================================================================
