---------------------------- MODULE MCMtpSession ----------------------------
(***************************************************************************)
(* What happens together in the instances of MtpSession: each pair of      *)
(* troubles that meet in the code, and no more, since any one of them      *)
(* multiplies the states.  Two requests make a container.                  *)
(***************************************************************************)
EXTENDS MtpSession

Quiet == [what \in Happenings |-> 0]
One   == [Quiet EXCEPT !.requests = 1]
Two   == [Quiet EXCEPT !.requests = 2]

(* A connection breaks while a request is cancelled and acks come.         *)
Connection == [Two EXCEPT !.losses = 1, !.cancels = 1, !.acks = 1]

(* The server refuses what was sent, and the session is made anew.         *)
Refusals == [Two EXCEPT !.salts = 1, !.resets = 1, !.acks = 1]

(* Answers are lost, asked about, and errors are answered with a retry.    *)
Retries == [One EXCEPT !.losses = 1, !.forgets = 1, !.errors = 1, !.checks = 1, !.old = 1, !.acks = 1]

(* A request is refused for good.                                          *)
Fatal == [One EXCEPT !.losses = 1, !.fatals = 1, !.errors = 1, !.checks = 1, !.acks = 1]

Safe == {Connection, Refusals, Retries, Fatal}

(* Under fairness: errors that are retried at once, slow answers, and a    *)
(* request cancelled while it goes from one map to the other, to be sent   *)
(* or, after a lost session or connection, to be sent again.               *)
Hurried == [One EXCEPT !.losses = 1, !.forgets = 1, !.salts = 1, !.errors = 1, !.retries = 1]
Slow    == [Two EXCEPT !.forgets = 1, !.checks = 1]
Missed  == [One EXCEPT !.losses = 1, !.forgets = 1, !.cancels = 1, !.acks = 1]

Live == {Hurried, Slow, Missed}
=============================================================================
