---------------------------- MODULE UpdateFeed ----------------------------
(***************************************************************************)
(* What the handling of updates promises the rest of the application,      *)
(* without waiters, timers, requests or messages: per box, the reported    *)
(* pts only moves forward, and only over updates that were applied, unless *)
(* the client openly gives up what it knew and starts from a new state.    *)
(***************************************************************************)
EXTENDS Integers

CONSTANT Boxes

VARIABLES
  log,       \* [Boxes -> the updates that happened], each with pts and cnt
  applied,   \* [Boxes -> the updates the application has taken]
  good,      \* [Boxes -> the pts up to which the client claims to know all]
  base       \* [Boxes -> where its knowledge starts]

vars == <<log, applied, good, base>>

Init ==
  /\ log = [b \in Boxes |-> {}]
  /\ applied = [b \in Boxes |-> {}]
  /\ good = [b \in Boxes |-> 0]
  /\ base = [b \in Boxes |-> 0]

(* Something happens in box b, past all that the client claims to know.    *)
Happen(b, u) ==
  /\ u.pts > good[b]
  /\ log' = [log EXCEPT ![b] = @ \cup {u}]
  /\ UNCHANGED <<applied, good, base>>

(* The client takes over updates of box b, none of them made up, and keeps *)
(* those it has; its pts may move, forward only.                           *)
Take(b) ==
  /\ applied[b] \subseteq applied'[b] /\ applied'[b] \subseteq log[b]
  /\ applied' = [applied EXCEPT ![b] = applied'[b]]
  /\ good'[b] >= good[b]
  /\ good' = [good EXCEPT ![b] = good'[b]]
  /\ UNCHANGED log

(* It claims to know all up to the new pts, rightly.                       *)
Advance(b) ==
  /\ Take(b)
  /\ \A u \in log[b] :
       base[b] < u.pts /\ u.pts <= good'[b] => u \in applied'[b]
  /\ UNCHANGED base

(* It starts anew from the server's state of box b.                        *)
StartFrom(b) ==
  /\ Take(b)
  /\ base' = [base EXCEPT ![b] = good'[b]]

Next ==
  \E b \in Boxes :
    \/ \E u \in log'[b] : Happen(b, u)
    \/ Advance(b)
    \/ StartFrom(b)

Spec == Init /\ [][Next]_vars
=============================================================================
