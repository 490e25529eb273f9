---------------------------- MODULE UpdatesWatch ----------------------------
(***************************************************************************)
(* Two more inductive invariants of Updates, on top of IInv.  The first    *)
(* says that a box which is requesting has somebody to wait for.  The      *)
(* second is behind NothingForgotten, GapIsWatched and AppliedInOrder: a   *)
(* hole is timed, what was thrown away is older than the answer that makes *)
(* up for it, and no message flushes the queue over a hole.                *)
(*                                                                         *)
(* The second needs NoLooseEnds: the waiter really loses track when an     *)
(* update that takes no points, or a channel's pts, meets a hole.          *)
(***************************************************************************)
EXTENDS UpdatesInv

(* A request at the server, a retry timer or an answer on the way.         *)
Awaited(b) ==
  waiter[b].requesting =>
    asked[b] /= NoRequest \/ b \in afterFail \/ ~NoAnswer(b, net)

AwaitInv == \A b \in Boxes : Awaited(b)

-----------------------------------------------------------------------------
(* Every update takes points, and a channel is loaded with its pts.        *)
NoLooseEnds == ~LoadedWithoutPts /\ MaxZero = 0

(* A hole, that is points between _good and _last, does not close without  *)
(* being noticed, and its timer runs.                                      *)
Timed(w, isTimed) ==
  /\ ~inited(w) => w.last = 0
  /\ ~w.requesting /\ w.good /= w.last =>
       /\ w.last /= w.count
       /\ w.waitingForSkipped /\ isTimed

(* Nothing pushed is applied past the pts.                                 *)
InOrder(w, A) == \A u \in A : u.via = "push" => u.pts <= w.good

(* A message that will hand over u, or lead to a difference that covers it.*)
Brings(m, b, u) ==
  \/ m = UpdateMsg(b, u)
  \/ m.type = "newSession"
  \/ m.type = "tooLong" /\ m.box = b /\ m.pts >= u.pts

(* Such a message is still to come after the first i that are on the way.  *)
Coming(i, b, u) ==
  \/ \E m \in unsent : Brings(m, b, u)
  \/ \E j \in DOMAIN net : j > i /\ Brings(net[j], b, u)

(* Message m brings box b up to the point p, or makes us ask.              *)
Settles(m, b, p) ==
  \/ m.type = "difference" /\ m.final /\ m.box = b /\ p = m.pts
  \/ m.type = "difference" /\ m.box = Common /\ ~m.forget /\ b \in Channels
       /\ p = m.channels[b]
  \/ m.type = "received" /\ m.box = b /\ p = m.pts

(* What a message is, beyond MessageInv; W are the waiters.                *)
Plain(m, W) ==
  /\ IsUpdate(m) => m.update.cnt /= 0
  /\ IsReply(m) /\ m.box \in Channels => inited(W[m.box])
  /\ m.type = "received" => ~inited(W[m.box]) /\ inited(W[Common])
  /\ m.type = "difference" =>
       /\ \A u \in m.updates : u.pts <= m.pts
       /\ m.forget /\ m.box = Common => m.from = GetState

(* An update that the client lacks was counted, will be brought, or will   *)
(* be in the difference that is requested.                                 *)
Outstanding(b) ==
  \A u \in log[b] :
    inited(waiter[b]) /\ u.pts > waiter[b].good =>
      \/ u \in counted[b] \/ waiter[b].requesting \/ requestingDifference
      \/ Coming(0, b, u)

BoxWatch ==
  /\ inited(waiter[Common]) \/ requestingDifference
  /\ \A b \in Boxes :
       /\ Timed(waiter[b], b \in byPts)
       /\ InOrder(waiter[b], applied[b])
       /\ inited(waiter[b]) => inited(waiter[Common])
       /\ Outstanding(b)

NetWatch ==
  /\ \A m \in unsent : Plain(m, waiter)
  /\ \A i \in DOMAIN net : Plain(net[i], waiter)
  /\ \A i, j \in DOMAIN net :
       net[i].type = "received" /\ net[j].type = "received"
         /\ net[i].box = net[j].box => i = j
  /\ \A i \in DOMAIN net : \A b \in Boxes : \A p \in Nat : \A u \in log[b] :
       Settles(net[i], b, p) /\ u.pts > p => Coming(i, b, u)

WatchInv ==
  /\ spent \in [zero : Nat, fails : Nat, tooLong : Nat, sessions : Nat]
  /\ BoxWatch /\ NetWatch
=============================================================================
