----------------------------- MODULE UpdatesInv -----------------------------
(***************************************************************************)
(* The inductive invariant behind NothingSkipped.  A waiter compares two   *)
(* numbers, _last and _count; that their equality means "all points up to  *)
(* _last were handed to me" rests on everything below: the server's        *)
(* updates tile the points, each update is handed over at most once, what  *)
(* was counted is still queued or already applied, and an answer is found  *)
(* by the box in the very state that it was asked in.                      *)
(***************************************************************************)
EXTENDS Updates

(* The points an update takes, and the points a set of updates takes.      *)
Span(u) == (u.pts - u.cnt + 1) .. u.pts
Points(S) == UNION {Span(u) : u \in S}

(* The updates of a box tile its points: no two of them overlap.           *)
Tiles(L, top) ==
  /\ top \in Nat
  /\ \A u \in L : u.cnt >= 1 /\ u.pts - u.cnt >= 1 /\ u.pts <= top
  /\ \A u, v \in L : u = v \/ u.pts <= v.pts - v.cnt \/ v.pts <= u.pts - u.cnt

(* p does not cut through an update.                                       *)
Boundary(L, top, p) ==
  /\ p \in Nat /\ p <= top
  /\ \A u \in L : u.pts <= p \/ p <= u.pts - u.cnt

(* The waiter w of a box with log L, of which it counted C and applied A.  *)
(* Between a request and its answer _last and _count mean nothing.         *)
WaiterInv(w, C, L, top, A) ==
  /\ Boundary(L, top, w.good) /\ Boundary(L, top, w.last)
  /\ w.good <= w.last
  /\ C \subseteq L /\ A \subseteq L
  /\ w.requesting => w.queue = {}
  /\ w.queue /= {} => w.waitingForSkipped
  /\ ~w.requesting =>
       /\ \A u \in C : w.good < u.pts /\ u.pts <= w.last
       /\ w.count = w.good + Cardinality(Points(C))
       /\ w.queue \subseteq C
       /\ C \subseteq w.queue \cup A

(* Everything after `from' and up to `till' is in A.                       *)
Complete(L, A, from, till) ==
  \A u \in L : from < u.pts /\ u.pts <= till => u \in A

(* A message is what the server's logs L, which end at top, and the box it *)
(* is about allow: W are the waiters, C the updates they counted.          *)
MessageInv(m, W, C, L, top) ==
  /\ IsUpdate(m) =>
       /\ m.type = m.update.via
       /\ IF m.update.cnt = 0
            THEN /\ Boundary(L[m.box], top[m.box], m.update.pts)
                 /\ m.update.pts >= 1 /\ m.type = "push"
            ELSE m.update \in L[m.box] /\ m.update \notin C[m.box]
  /\ m.type = "received" => m.box \in Channels
  /\ m.type \in {"received", "tooLong"} =>
       Boundary(L[m.box], top[m.box], m.pts) /\ m.pts >= 1
  /\ IsAnswer(m) => W[m.box].requesting /\ m.from = W[m.box].good
  /\ m.type = "difference" =>
       /\ Boundary(L[m.box], top[m.box], m.pts)
       /\ m.from <= m.pts /\ m.pts >= 1
       /\ m.updates \subseteq L[m.box]
       /\ m.forget \/ Complete(L[m.box], m.updates, m.from, m.pts)

(* Two messages that must not both be on the way.                          *)
Clash(m, n) ==
  \/ /\ IsUpdate(m) /\ IsUpdate(n) /\ m.update.cnt > 0
     /\ m.box = n.box /\ m.update = n.update
  \/ IsAnswer(m) /\ IsAnswer(n) /\ m.box = n.box

NetInv ==
  /\ \A m \in unsent : /\ MessageInv(m, waiter, counted, log, serverPts)
                       /\ IsUpdate(m) \/ m.type = "tooLong"
  /\ \A i \in DOMAIN net : MessageInv(net[i], waiter, counted, log, serverPts)
  /\ \A i, j \in DOMAIN net : i /= j => ~Clash(net[i], net[j])
  /\ \A m \in unsent : \A i \in DOMAIN net : ~Clash(m, net[i])

(* No answer about box b is on the way.                                    *)
NoAnswer(b, messages) ==
  \A i \in DOMAIN messages : ~(IsAnswer(messages[i]) /\ messages[i].box = b)

(* A request at the server excludes an answer or a retry, and a channel is *)
(* asked about only once it has a pts.                                     *)
RequestInv ==
  \A b \in Boxes :
    /\ asked[b] /= NoRequest =>
         /\ waiter[b].requesting /\ asked[b] = waiter[b].good
         /\ b \notin afterFail /\ NoAnswer(b, net)
    /\ b \in afterFail => waiter[b].requesting /\ NoAnswer(b, net)
    /\ b \in Channels /\ waiter[b].requesting => inited(waiter[b])

BoxInv ==
  \A b \in Boxes :
    /\ Tiles(log[b], serverPts[b]) /\ serverPts[b] >= 1
    /\ WaiterInv(waiter[b], counted[b], log[b], serverPts[b], applied[b])
    /\ Complete(log[b], applied[b], base[b], waiter[b].good)

(* The inductive invariant: whenever the main thread takes the next        *)
(* message or timer, every waiter's sum is that of distinct updates of the *)
(* log, every message fits the box it is about, and every box has at most  *)
(* one request or answer.                                                  *)
IInv == TypeOK /\ BoxInv /\ NetInv /\ RequestInv
=============================================================================
