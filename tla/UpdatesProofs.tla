--------------------------- MODULE UpdatesProofs ---------------------------
(***************************************************************************)
(* The client never claims a pts before everything up to it is applied:    *)
(* IInv is an invariant of Updates, whatever the boxes, the counts and the *)
(* bounds are, and every step does to the boxes what UpdateFeed allows.    *)
(*                                                                         *)
(* First what the waiter's arithmetic means, for every log and waiter: if  *)
(* the number of points counted since _good equals _last - _good then the  *)
(* updates counted are all the updates between the two.                    *)
(*                                                                         *)
(* Then that nobody waits for nothing and nothing is forgotten: AwaitInv   *)
(* and WatchInv are invariants of Updates, on top of IInv.                 *)
(***************************************************************************)
EXTENDS UpdatesWatch, FiniteSetTheorems, SequenceTheorems, TLAPS

(* The points of updates that lie between good and last do so as well.     *)
LEMMA PointsBetween ==
  ASSUME NEW L \in SUBSET Update, NEW top, Tiles(L, top),
         NEW C \in SUBSET L, NEW good, NEW last,
         Boundary(L, top, good), Boundary(L, top, last), good <= last,
         \A u \in C : good < u.pts /\ u.pts <= last
  PROVE  /\ Points(C) \subseteq (good + 1) .. last
         /\ IsFiniteSet(Points(C))
         /\ Cardinality(Points(C)) \in Nat
         /\ Cardinality(Points(C)) = last - good
              => \A v \in L : good < v.pts /\ v.pts <= last => v \in C
<1>0. good \in Nat /\ last \in Nat
  BY DEF Boundary
<1>1. Points(C) \subseteq (good + 1) .. last
  <2> SUFFICES ASSUME NEW u \in C, NEW p \in Span(u)
               PROVE  p \in (good + 1) .. last
    BY DEF Points
  <2>1. u \in L /\ u.pts \in Nat /\ u.cnt \in Nat
    BY DEF Update
  <2>2. good <= u.pts - u.cnt
    BY <1>0, <2>1 DEF Boundary
  <2> QED BY <1>0, <2>1, <2>2 DEF Span
<1>2. IsFiniteSet((good + 1) .. last)
      /\ Cardinality((good + 1) .. last) = last - good
  <2>1. good + 1 \in Int /\ last \in Int
    BY <1>0
  <2>2. /\ IsFiniteSet((good + 1) .. last)
        /\ Cardinality((good + 1) .. last)
             = IF good + 1 > last THEN 0 ELSE last - (good + 1) + 1
    BY <2>1, FS_Interval
  <2> QED BY <1>0, <2>2
<1>3. IsFiniteSet(Points(C))
      /\ (Cardinality((good + 1) .. last) = Cardinality(Points(C))
            => (good + 1) .. last = Points(C))
  BY <1>1, <1>2, FS_Subset
<1>4. Cardinality(Points(C)) \in Nat
  BY <1>3, FS_CardinalityType
<1>5. ASSUME Cardinality(Points(C)) = last - good,
             NEW v \in L, good < v.pts, v.pts <= last
      PROVE  v \in C
  <2>1. v.pts \in Nat /\ v.cnt \in Nat /\ v.cnt >= 1
    BY DEF Update, Tiles
  <2>2. v.pts \in Points(C)
    BY <1>0, <1>2, <1>3, <1>5, <2>1
  <2>3. PICK u \in C : v.pts \in Span(u)
    BY <2>2 DEF Points
  <2>4. u \in L /\ u.pts \in Nat /\ u.cnt \in Nat
    BY DEF Update
  <2>5. u = v \/ u.pts <= v.pts - v.cnt \/ v.pts <= u.pts - u.cnt
    BY <2>4 DEF Tiles
  <2> QED BY <2>1, <2>3, <2>4, <2>5 DEF Span
<1> QED BY <1>1, <1>3, <1>4, <1>5

(* One more update adds its own points, none of which was there before.    *)
LEMMA PointsAdd ==
  ASSUME NEW L \in SUBSET Update, NEW top, Tiles(L, top),
         NEW C \in SUBSET L, IsFiniteSet(Points(C)),
         NEW u \in L, u \notin C
  PROVE  Cardinality(Points(C \cup {u})) = Cardinality(Points(C)) + u.cnt
<1>1. u.pts \in Nat /\ u.cnt \in Nat /\ u.cnt >= 1
  BY DEF Update, Tiles
<1>2. Points(C \cup {u}) = Points(C) \cup Span(u)
  BY DEF Points
<1>3. Points(C) \cap Span(u) = {}
  <2> SUFFICES ASSUME NEW v \in C, NEW p \in Span(v), p \in Span(u)
               PROVE  FALSE
    BY DEF Points
  <2>1. v \in L /\ v.pts \in Nat /\ v.cnt \in Nat /\ v /= u
    BY DEF Update
  <2>2. u.pts <= v.pts - v.cnt \/ v.pts <= u.pts - u.cnt
    BY <2>1 DEF Tiles
  <2> QED BY <1>1, <2>1, <2>2 DEF Span
<1>4. IsFiniteSet(Span(u)) /\ Cardinality(Span(u)) = u.cnt
  <2>1. u.pts - u.cnt + 1 \in Int /\ u.pts \in Int
    BY <1>1
  <2>2. /\ IsFiniteSet((u.pts - u.cnt + 1) .. u.pts)
        /\ Cardinality((u.pts - u.cnt + 1) .. u.pts)
             = IF u.pts - u.cnt + 1 > u.pts THEN 0
               ELSE u.pts - (u.pts - u.cnt + 1) + 1
    BY <2>1, FS_Interval
  <2> QED BY <1>1, <2>2 DEF Span
<1>5. Cardinality(Points(C)) \in Nat
  BY FS_CardinalityType
<1>6. Cardinality(Points(C) \cup Span(u))
        = Cardinality(Points(C)) + Cardinality(Span(u))
            - Cardinality(Points(C) \cap Span(u))
  BY <1>4, FS_Union
<1>7. Cardinality(Points(C) \cap Span(u)) = 0
  BY <1>3, FS_EmptySet
<1> QED BY <1>1, <1>2, <1>4, <1>5, <1>6, <1>7, SMTT(60)

-----------------------------------------------------------------------------
(* The situation in which a waiter is handed something: its box's log, the *)
(* updates counted and applied so far, and where the knowledge starts.     *)
Situation(w, C, L, top, A, from) ==
  /\ w \in Waiters /\ L \subseteq Update
  /\ Tiles(L, top)
  /\ WaiterInv(w, C, L, top, A)
  /\ Complete(L, A, from, w.good)

(* What must hold after it was handed u and answered r, `done' having been *)
(* applied: the waiter's invariant, the claim behind _good, and that a box *)
(* which is requesting keeps its pts.                                      *)
Handled(w, r, done, u, C, L, top, A, from) ==
  LET C2 == IF r.w.good /= w.good THEN {}
            ELSE IF r.w.count /= w.count THEN C \cup {u} ELSE C
  IN  /\ r.w \in Waiters
      /\ WaiterInv(r.w, C2, L, top, A \cup done)
      /\ Complete(L, A \cup done, IF inited(w) THEN from ELSE r.w.good, r.w.good)
      /\ r.w.requesting = w.requesting
      /\ w.good <= r.w.good
      /\ w.requesting => r.w.good = w.good

(* check() in a gap or at its end, given that C1 is what has been counted  *)
(* once n points are added.                                                *)
LEMMA CheckCounts ==
  ASSUME NEW w, NEW C, NEW L, NEW top, NEW A, NEW from,
         Situation(w, C, L, top, A, from), ~w.requesting, inited(w),
         NEW pts \in Nat, NEW n \in Nat, Boundary(L, top, pts),
         NEW C1 \in SUBSET L,
         w.count + n = w.good + Cardinality(Points(C1)),
         \A v \in C1 : w.good < v.pts /\ v.pts <= qMax(w.last, pts)
  PROVE  LET c == check(w, pts, n)
         IN  /\ c.w \in Waiters
             /\ c.w.queue = w.queue /\ c.w.requesting = w.requesting
             /\ c.w.waitingForShortPoll = w.waitingForShortPoll
             /\ c.w.last = qMax(w.last, pts) /\ c.w.count = w.count + n
             /\ Boundary(L, top, c.w.last) /\ w.good <= c.w.last
             /\ IF c.w.last = c.w.count
                  THEN /\ c.yes /\ c.w.good = c.w.last
                       /\ c.w.waitingForSkipped = w.waitingForSkipped
                       /\ \A v \in L : w.good < v.pts /\ v.pts <= c.w.last
                                         => v \in C1
                  ELSE /\ c.yes <=> n = 0
                       /\ c.w.good = w.good
                       /\ c.w.waitingForSkipped
<1> DEFINE last == qMax(w.last, pts)
<1>1. /\ w.good \in Nat /\ w.last \in Nat /\ w.count \in Nat
      /\ w.waitingForSkipped \in BOOLEAN /\ w.queue \in SUBSET Update
      /\ Boundary(L, top, w.good) /\ Boundary(L, top, w.last)
      /\ w.good <= w.last
  BY DEF Situation, Waiters, WaiterInv
<1>2. Boundary(L, top, last) /\ w.good <= last /\ last \in Nat
  BY <1>1 DEF qMax
<1>3. /\ Cardinality(Points(C1)) = last - w.good
           => \A v \in L : w.good < v.pts /\ v.pts <= last => v \in C1
      /\ Cardinality(Points(C1)) \in Nat
  <2> HIDE DEF last
  <2>1. \A v \in C1 : w.good < v.pts /\ v.pts <= last
    BY DEF last
  <2> QED BY <1>1, <1>2, <2>1, PointsBetween DEF Situation
<1> DEFINE points == w.count + n
<1>4. points \in Nat
  BY <1>1
<1>5. last = points => Cardinality(Points(C1)) = last - w.good
  BY <1>1, <1>2, <1>3
<1>6. w \in Waiters
  BY DEF Situation
<1> DEFINE c == check(w, pts, n)
<1> HIDE DEF last, points
<1>7. CASE last = points
  <2>1. c = [yes |-> TRUE,
             w |-> [[w EXCEPT !.last = last, !.count = points]
                      EXCEPT !.good = last],
             timer |-> "keep"]
    BY <1>7 DEF check, last, points
  <2>2. c.yes /\ c.w = [[w EXCEPT !.last = last, !.count = points]
                          EXCEPT !.good = last]
    BY <2>1
  <2> HIDE DEF c
  <2>3. c.w \in Waiters
    BY <1>2, <1>4, <1>6, <2>2 DEF Waiters
  <2>4. /\ c.w.queue = w.queue
        /\ c.w.last = last /\ c.w.count = points /\ c.w.good = last
    BY <1>6, <2>2 DEF Waiters
  <2>5. c.w.requesting = w.requesting
    BY <1>6, <2>2 DEF Waiters
  <2>6. c.w.waitingForShortPoll = w.waitingForShortPoll
    BY <1>6, <2>2 DEF Waiters
  <2>7. c.w.waitingForSkipped = w.waitingForSkipped
    BY <1>6, <2>2 DEF Waiters
  <2> QED BY <1>2, <1>3, <1>5, <1>7, <2>2, <2>3, <2>4, <2>5, <2>6, <2>7 DEF c, last, points
<1>8. CASE last /= points
  <2>1. c = [yes |-> (n = 0),
             w |-> [[w EXCEPT !.last = last, !.count = points]
                      EXCEPT !.waitingForSkipped = TRUE],
             timer |-> "start"]
    BY <1>8 DEF check, last, points
  <2>2. c.w = [[w EXCEPT !.last = last, !.count = points]
                 EXCEPT !.waitingForSkipped = TRUE]
    BY <2>1
  <2> HIDE DEF c
  <2>8. c.yes <=> n = 0
    BY <2>1
  <2>3. c.w \in Waiters
    BY <1>2, <1>4, <1>6, <2>2 DEF Waiters
  <2>4. /\ c.w.queue = w.queue
        /\ c.w.last = last /\ c.w.count = points /\ c.w.good = w.good
    BY <1>6, <2>2 DEF Waiters
  <2>5. c.w.requesting = w.requesting
    BY <1>6, <2>2 DEF Waiters
  <2>6. c.w.waitingForShortPoll = w.waitingForShortPoll
    BY <1>6, <2>2 DEF Waiters
  <2>7. c.w.waitingForSkipped
    BY <1>6, <2>2 DEF Waiters
  <2> QED BY <1>2, <1>8, <2>2, <2>3, <2>4, <2>5, <2>6, <2>7, <2>8 DEF c, last, points
<1> QED BY <1>7, <1>8

(* PtsWaiter::init().                                                      *)
LEMMA InitResult ==
  ASSUME NEW w \in Waiters, NEW pts \in Nat, NEW x, x = init(w, pts)
  PROVE  /\ x \in Waiters /\ x.queue = {} /\ x.good = pts
         /\ x.last = pts /\ x.count = pts
         /\ x.requesting = w.requesting
<1>1. x \in Waiters
  BY DEF init, Waiters
<1>2. x.queue = {} /\ x.good = pts /\ x.last = pts /\ x.count = pts
  BY DEF init, Waiters
<1>3. x.requesting = w.requesting
  BY DEF init, Waiters
<1> QED BY <1>1, <1>2, <1>3

(* A waiter whose numbers agree at a point between two updates.            *)
LEMMA FreshWaiter ==
  ASSUME NEW L, NEW top, NEW A \in SUBSET L,
         NEW x \in Waiters, x.queue = {}, x.last = x.good, x.count = x.good,
         Boundary(L, top, x.good)
  PROVE  WaiterInv(x, {}, L, top, A)
<1>1. Cardinality(Points({})) = 0
  <2>1. Points({}) = {}
    BY DEF Points
  <2> QED BY <2>1, FS_EmptySet
<1>2. x.good \in Nat
  BY DEF Boundary
<1>3. x.count = x.good + Cardinality(Points({}))
  BY <1>1, <1>2
<1> QED BY <1>2, <1>3 DEF WaiterInv

(* A box that applied what lies between its pts and a later point may      *)
(* claim the later point.                                                  *)
LEMMA GapClosed ==
  ASSUME NEW L \in SUBSET Update, NEW A, NEW D,
         NEW from, NEW good \in Nat, NEW till,
         Complete(L, A, from, good),
         \A v \in L : good < v.pts /\ v.pts <= till => v \in A \cup D
  PROVE  Complete(L, A \cup D, from, till)
<1> SUFFICES ASSUME NEW v \in L, from < v.pts, v.pts <= till
             PROVE  v \in A \cup D
  BY DEF Complete
<1>1. v.pts \in Nat
  BY DEF Update
<1>2. v.pts <= good => v \in A
  BY DEF Complete
<1> QED BY <1>1, <1>2

(* What happens to a waiter in a gap that stays open: more is counted,     *)
(* and every update counted is queued or applied.                          *)
LEMMA GapOpen ==
  ASSUME NEW w, NEW C, NEW L, NEW top, NEW A, NEW from,
         Situation(w, C, L, top, A, from),
         NEW x \in Waiters, ~x.requesting, x.good = w.good,
         Boundary(L, top, x.last), x.good <= x.last,
         NEW C1 \in SUBSET L,
         \A v \in C1 : x.good < v.pts /\ v.pts <= x.last,
         x.count = x.good + Cardinality(Points(C1)),
         x.queue \subseteq C1, x.queue /= {} => x.waitingForSkipped,
         NEW D \in SUBSET L, C1 \subseteq x.queue \cup (A \cup D)
  PROVE  /\ WaiterInv(x, C1, L, top, A \cup D)
         /\ Complete(L, A \cup D, from, x.good)
<1>1. WaiterInv(x, C1, L, top, A \cup D)
  BY DEF WaiterInv, Situation
<1>2. Complete(L, A \cup D, from, x.good)
  BY DEF Complete, Situation
<1> QED BY <1>1, <1>2

(* The end of an update is a point between two updates.                    *)
LEMMA UpdateBoundary ==
  ASSUME NEW L \in SUBSET Update, NEW top, Tiles(L, top), NEW u \in L
  PROVE  /\ u.pts \in Nat /\ u.cnt \in Nat /\ u.cnt >= 1 /\ u.pts >= 1
         /\ Boundary(L, top, u.pts)
<1>1. /\ u.pts \in Nat /\ u.cnt \in Nat /\ u.cnt >= 1 /\ u.pts <= top
      /\ u.pts >= 1
  BY DEF Update, Tiles
<1>2. ASSUME NEW v \in L PROVE v.pts <= u.pts \/ u.pts <= v.pts - v.cnt
  <2>1. v.pts \in Nat /\ v.cnt \in Nat
    BY DEF Update
  <2>2. u = v \/ u.pts <= v.pts - v.cnt \/ v.pts <= u.pts - u.cnt
    BY DEF Tiles
  <2> QED BY <1>1, <2>1, <2>2
<1> QED BY <1>1, <1>2 DEF Boundary

(* What has been counted after one more update of the log is counted.      *)
LEMMA OneMore ==
  ASSUME NEW w, NEW C, NEW L, NEW top, NEW A, NEW from,
         Situation(w, C, L, top, A, from), ~w.requesting,
         NEW u \in L, u \notin C, ~(u.pts <= w.good)
  PROVE  LET C1 == C \cup {u}
         IN  /\ C1 \in SUBSET L
             /\ w.count + u.cnt = w.good + Cardinality(Points(C1))
             /\ \A v \in C1 : w.good < v.pts /\ v.pts <= qMax(w.last, u.pts)
             /\ w.queue \subseteq C /\ C \subseteq w.queue \cup A
<1> DEFINE C1 == C \cup {u}
<1>1. /\ w \in Waiters /\ L \subseteq Update /\ C \subseteq L
      /\ Tiles(L, top)
      /\ w.good \in Nat /\ w.last \in Nat /\ w.count \in Nat
      /\ w.good <= w.last
      /\ Boundary(L, top, w.good) /\ Boundary(L, top, w.last)
      /\ \A v \in C : w.good < v.pts /\ v.pts <= w.last
      /\ w.count = w.good + Cardinality(Points(C))
      /\ w.queue \subseteq C /\ C \subseteq w.queue \cup A
  BY DEF Situation, Waiters, WaiterInv
<1>2. IsFiniteSet(Points(C)) /\ Cardinality(Points(C)) \in Nat
  BY <1>1, PointsBetween
<1>3. Cardinality(Points(C1)) = Cardinality(Points(C)) + u.cnt
  BY <1>1, <1>2, PointsAdd
<1>4. u.pts \in Nat /\ u.cnt \in Nat
  BY <1>1 DEF Update
<1>5. w.count + u.cnt = w.good + Cardinality(Points(C1))
  BY <1>1, <1>2, <1>3, <1>4
<1>6. ASSUME NEW v \in C1
      PROVE  w.good < v.pts /\ v.pts <= qMax(w.last, u.pts)
  <2>1. v.pts \in Nat
    BY <1>1, <1>4 DEF Update
  <2> QED BY <1>1, <1>4, <2>1 DEF qMax
<1> QED BY <1>1, <1>5, <1>6

(* updateAndApply(): an update of the log that was not counted before.     *)
LEMMA GiveUpdate ==
  ASSUME NEW w, NEW C, NEW L, NEW top, NEW A, NEW from,
         Situation(w, C, L, top, A, from), NEW u \in L, u \notin C
  PROVE  LET r == updateAndApply(w, u)
         IN  /\ r.fed \subseteq L
             /\ Handled(w, r, r.fed, u, C, L, top, A, from)
<1> DEFINE r == updateAndApply(w, u)
           c == check(w, u.pts, u.cnt)
<1>1. /\ w \in Waiters /\ L \subseteq Update /\ A \subseteq L /\ C \subseteq L
      /\ Tiles(L, top) /\ WaiterInv(w, C, L, top, A)
      /\ Complete(L, A, from, w.good)
      /\ w.good \in Nat /\ w.last \in Nat /\ w.count \in Nat
      /\ w.good <= w.last /\ w.requesting \in BOOLEAN
      /\ w.queue /= {} => w.waitingForSkipped
  BY DEF Situation, Waiters, WaiterInv
<1>2. u.pts \in Nat /\ u.cnt \in Nat /\ u.cnt >= 1 /\ Boundary(L, top, u.pts)
  BY <1>1, UpdateBoundary
<1>3. CASE w.requesting
  <2>1. w.queue = {}
    BY <1>1, <1>3 DEF WaiterInv
  <2>2. r.w = w /\ r.fed = {u}
    BY <1>3, <2>1 DEF updateAndApply, updated
  <2>3. WaiterInv(w, C, L, top, A \cup {u})
    BY <1>1, <1>3 DEF WaiterInv
  <2>4. Complete(L, A \cup {u}, IF inited(w) THEN from ELSE w.good, w.good)
    BY <1>1 DEF Complete, Update
  <2> QED BY <1>1, <2>2, <2>3, <2>4 DEF Handled
<1>4. CASE ~w.requesting /\ u.pts <= w.good
  <2>1. r.w = w /\ r.fed = {}
    BY <1>2, <1>4 DEF updateAndApply, updated
  <2>2. Complete(L, A \cup {}, IF inited(w) THEN from ELSE w.good, w.good)
    BY <1>1 DEF Complete, Update
  <2> QED BY <1>1, <2>1, <2>2 DEF Handled
<1>5. CASE ~w.requesting /\ ~(u.pts <= w.good) /\ ~inited(w)
  <2>1. c.yes /\ c.w = init(w, u.pts)
    BY <1>5 DEF check
  <2>2. /\ c.w \in Waiters /\ c.w.queue = {} /\ c.w.good = u.pts
        /\ c.w.last = u.pts /\ c.w.count = u.pts
        /\ c.w.requesting = w.requesting
    <3> HIDE DEF c
    <3>1. w \in Waiters /\ u.pts \in Nat /\ c.w = init(w, u.pts)
      BY <1>1, <1>2, <2>1
    <3>2. /\ c.w \in Waiters /\ c.w.queue = {} /\ c.w.good = u.pts
          /\ c.w.last = u.pts /\ c.w.count = u.pts
      BY <3>1, InitResult
    <3>3. c.w.requesting = w.requesting
      BY <3>1, InitResult
    <3> QED BY <3>2, <3>3
  <2>4. r.w = c.w /\ r.fed = {u}
    BY <1>5, <2>1, <2>2 DEF updateAndApply, updated
  <2> HIDE DEF r, c
  <2>5. WaiterInv(c.w, {}, L, top, A \cup {u})
    BY <1>1, <1>2, <2>1, <2>2, FreshWaiter
  <2>6. Complete(L, A \cup {u}, c.w.good, c.w.good)
    BY <1>1, <1>2, <2>1, <2>2 DEF Complete, Update
  <2>7. w.good <= c.w.good /\ c.w.good /= w.good
    BY <1>1, <1>2, <1>5, <2>1, <2>2
  <2>8. c.w \in Waiters /\ c.w.requesting = w.requesting
    BY <2>2
  <2> QED BY <1>5, <2>4, <2>5, <2>6, <2>7, <2>8 DEF Handled, r
<1>6. CASE ~w.requesting /\ ~(u.pts <= w.good) /\ inited(w)
  <2> DEFINE C1 == C \cup {u}
  <2>1. /\ C1 \in SUBSET L
        /\ w.count + u.cnt = w.good + Cardinality(Points(C1))
        /\ \A v \in C1 : w.good < v.pts /\ v.pts <= qMax(w.last, u.pts)
        /\ w.queue \subseteq C /\ C \subseteq w.queue \cup A
    BY <1>6, OneMore
  <2> HIDE DEF C1
  <2>7. /\ c.w \in Waiters
        /\ c.w.queue = w.queue /\ c.w.requesting = w.requesting
        /\ c.w.last = qMax(w.last, u.pts) /\ c.w.count = w.count + u.cnt
        /\ Boundary(L, top, c.w.last) /\ w.good <= c.w.last
        /\ IF c.w.last = c.w.count
             THEN /\ c.yes /\ c.w.good = c.w.last
                  /\ c.w.waitingForSkipped = w.waitingForSkipped
                  /\ \A v \in L : w.good < v.pts /\ v.pts <= c.w.last
                                    => v \in C1
             ELSE /\ c.yes <=> u.cnt = 0
                  /\ c.w.good = w.good
                  /\ c.w.waitingForSkipped
    BY <1>2, <1>6, <2>1, CheckCounts
  <2>8. updated(w, u.pts, u.cnt)
          = [verdict |-> IF c.yes THEN "apply" ELSE "save", w |-> c.w,
             timer |-> c.timer]
    BY <1>2, <1>6 DEF updated
  <2> HIDE DEF c
  <2>9. CASE c.w.last = c.w.count /\ w.queue = {}
    <3>1. r.w = c.w /\ r.fed = {u}
      BY <2>7, <2>8, <2>9 DEF updateAndApply
    <3> HIDE DEF r
    <3>2. WaiterInv(c.w, {}, L, top, A \cup {u})
      BY <1>1, <2>7, <2>9, FreshWaiter
    <3>3. \A v \in L : w.good < v.pts /\ v.pts <= c.w.good => v \in A \cup {u}
      BY <2>1, <2>7, <2>9 DEF C1
    <3>4. Complete(L, A \cup {u}, from, c.w.good)
      BY <1>1, <3>3, GapClosed
    <3>5. c.w.good /= w.good
      BY <1>1, <1>2, <1>6, <2>7, <2>9 DEF qMax
    <3>6. w.good <= c.w.good
      BY <2>7, <2>9
    <3> QED BY <1>6, <2>7, <3>1, <3>2, <3>4, <3>5, <3>6 DEF Handled, r
  <2>10. CASE c.w.last = c.w.count /\ w.queue /= {}
    <3> DEFINE x == [[c.w EXCEPT !.queue = @ \cup {u}]
                       EXCEPT !.waitingForSkipped = FALSE]
    <3>1. c.w.waitingForSkipped
      BY <1>1, <2>7, <2>10
    <3>2. r.w = [x EXCEPT !.queue = {}] /\ r.fed = w.queue \cup {u}
      <4>1. [c.w EXCEPT !.queue = @ \cup {u}].waitingForSkipped
        BY <2>7, <3>1 DEF Waiters
      <4>2. [c.w EXCEPT !.queue = @ \cup {u}].queue = w.queue \cup {u}
        BY <2>7 DEF Waiters
      <4>3. updateAndApply(w, u)
              = applySkippedUpdates([c.w EXCEPT !.queue = @ \cup {u}], c.timer)
        <5>1. c.yes /\ ~(~c.w.waitingForSkipped \/ c.w.queue = {})
          BY <2>7, <2>10, <3>1
        <5>2. /\ updated(w, u.pts, u.cnt).verdict = "apply"
              /\ updated(w, u.pts, u.cnt).w = c.w
              /\ updated(w, u.pts, u.cnt).timer = c.timer
          BY <2>8, <5>1
        <5> QED BY <5>1, <5>2, Zenon DEF updateAndApply
      <4> QED BY <4>1, <4>2, <4>3 DEF applySkippedUpdates
    <3> HIDE DEF r
    <3>3. r.w \in Waiters
      BY <2>7, <3>2 DEF Waiters
    <3>4. r.w.queue = {} /\ r.w.last = c.w.last /\ r.w.count = c.w.count
          /\ r.w.good = c.w.good
      BY <2>7, <3>2 DEF Waiters
    <3>5. r.w.requesting = w.requesting
      BY <2>7, <3>2 DEF Waiters
    <3> HIDE DEF x
    <3>6. r.fed \subseteq L
      BY <1>1, <2>1, <3>2
    <3>7. WaiterInv(r.w, {}, L, top, A \cup r.fed)
      BY <1>1, <2>7, <2>10, <3>3, <3>4, <3>6, FreshWaiter
    <3>8. \A v \in L : w.good < v.pts /\ v.pts <= r.w.good => v \in A \cup r.fed
      BY <2>1, <2>7, <2>10, <3>2, <3>4 DEF C1
    <3>9. Complete(L, A \cup r.fed, from, r.w.good)
      BY <1>1, <3>8, GapClosed
    <3>10. r.w.good /= w.good /\ w.good <= r.w.good
      BY <1>1, <1>2, <1>6, <2>7, <2>10, <3>4 DEF qMax
    <3> QED BY <1>6, <3>3, <3>5, <3>6, <3>7, <3>9, <3>10 DEF Handled, r
  <2>11. CASE c.w.last /= c.w.count
    <3>1. r.w = [c.w EXCEPT !.queue = @ \cup {u}] /\ r.fed = {}
      BY <1>2, <2>7, <2>8, <2>11 DEF updateAndApply
    <3> HIDE DEF r
    <3>2. r.w \in Waiters
      BY <1>1, <2>7, <3>1 DEF Waiters
    <3>3. r.w.queue = w.queue \cup {u} /\ r.w.last = c.w.last
          /\ r.w.count = w.count + u.cnt /\ r.w.good = w.good
      BY <2>7, <2>11, <3>1 DEF Waiters
    <3>4. r.w.requesting = w.requesting
      BY <2>7, <3>1 DEF Waiters
    <3>5. r.w.waitingForSkipped
      BY <2>7, <2>11, <3>1 DEF Waiters
    <3>6. r.w.queue \subseteq C1 /\ C1 \subseteq r.w.queue \cup (A \cup {})
      BY <2>1, <3>3 DEF C1
    <3>7. WaiterInv(r.w, C1, L, top, A \cup {})
          /\ Complete(L, A \cup {}, from, r.w.good)
      <4>1. \A v \in C1 : r.w.good < v.pts /\ v.pts <= r.w.last
        BY <2>1, <2>7, <3>3
      <4>2. r.w.count = r.w.good + Cardinality(Points(C1))
        BY <2>1, <3>3
      <4>3. Boundary(L, top, r.w.last) /\ r.w.good <= r.w.last
            /\ ~r.w.requesting
        BY <1>6, <2>7, <3>3, <3>4
      <4> QED BY <2>1, <3>2, <3>3, <3>5, <3>6, <4>1, <4>2, <4>3, GapOpen
    <3>8. r.w.count /= w.count
      BY <1>1, <1>2, <3>3
    <3> QED BY <1>1, <1>6, <3>1, <3>2, <3>3, <3>4, <3>7, <3>8 DEF Handled, r, C1
  <2> QED BY <2>9, <2>10, <2>11
<1> QED BY <1>1, <1>3, <1>4, <1>5, <1>6

(* applySkippedUpdates() hands over the whole queue, also when it returns  *)
(* at once, because the queue is empty then.                               *)
LEMMA SkippedApplied ==
  ASSUME NEW x \in Waiters, NEW timer,
         x.queue /= {} => x.waitingForSkipped
  PROVE  LET r == applySkippedUpdates(x, timer)
         IN  /\ r.w \in Waiters /\ r.fed = x.queue /\ r.w.queue = {}
             /\ r.w.good = x.good /\ r.w.last = x.last
             /\ r.w.count = x.count /\ r.w.requesting = x.requesting
<1> DEFINE r == applySkippedUpdates(x, timer)
<1>1. CASE x.waitingForSkipped
  <2>1. r.w = [[x EXCEPT !.waitingForSkipped = FALSE] EXCEPT !.queue = {}]
        /\ r.fed = x.queue
    BY <1>1 DEF applySkippedUpdates
  <2> HIDE DEF r
  <2>2. r.w \in Waiters
    BY <2>1 DEF Waiters
  <2>3. r.w.queue = {} /\ r.w.good = x.good /\ r.w.last = x.last
        /\ r.w.count = x.count
    BY <2>1 DEF Waiters
  <2>4. r.w.requesting = x.requesting
    BY <2>1 DEF Waiters
  <2> QED BY <2>1, <2>2, <2>3, <2>4 DEF r
<1>2. CASE ~x.waitingForSkipped
  BY <1>2 DEF applySkippedUpdates
<1> QED BY <1>1, <1>2

(* While a difference is requested a waiter keeps its numbers.             *)
LEMMA GiveRequesting ==
  ASSUME NEW w, NEW C, NEW L, NEW top, NEW A, NEW from, NEW u,
         Situation(w, C, L, top, A, from), w.requesting,
         NEW r, r.w \in Waiters, r.w.queue = {},
         r.w.good = w.good, r.w.last = w.last, r.w.count = w.count,
         r.w.requesting = w.requesting, NEW D \in SUBSET L
  PROVE  Handled(w, r, D, u, C, L, top, A, from)
<1>1. WaiterInv(r.w, C, L, top, A \cup D)
  BY DEF Situation, WaiterInv
<1>3. w.good \in Nat /\ Complete(L, A, from, w.good) /\ L \subseteq Update
  BY DEF Situation, Waiters
<1>2. Complete(L, A \cup D, IF inited(w) THEN from ELSE r.w.good, r.w.good)
  <2>1. Complete(L, A \cup D, from, w.good)
    BY <1>3 DEF Complete
  <2>2. Complete(L, A \cup D, w.good, w.good)
    BY <1>3 DEF Complete, Update
  <2> QED BY <2>1, <2>2
<1> QED BY <1>1, <1>2, <1>3 DEF Handled

(* A box that gets its first pts.                                          *)
LEMMA GiveFirst ==
  ASSUME NEW w, NEW C, NEW L, NEW top, NEW A, NEW from, NEW u,
         Situation(w, C, L, top, A, from), ~w.requesting, ~inited(w),
         NEW pts \in Nat, pts >= 1, Boundary(L, top, pts),
         NEW r, r.w \in Waiters, r.w.queue = {},
         r.w.good = pts, r.w.last = pts, r.w.count = pts,
         r.w.requesting = w.requesting, NEW D \in SUBSET L
  PROVE  Handled(w, r, D, u, C, L, top, A, from)
<1>1. WaiterInv(r.w, {}, L, top, A \cup D)
  <2>1. A \cup D \in SUBSET L
    BY DEF Situation, WaiterInv
  <2> QED BY <2>1, FreshWaiter
<1>2. Complete(L, A \cup D, r.w.good, r.w.good)
  BY DEF Situation, Complete, Update
<1>3. w.good \in Nat /\ w.good <= pts /\ w.good /= pts
  BY DEF Situation, Waiters, inited
<1> QED BY <1>1, <1>2, <1>3 DEF Handled

(* updateAndApply() without an update to apply: u was done locally.        *)
LEMMA GiveAffected ==
  ASSUME NEW w, NEW C, NEW L, NEW top, NEW A, NEW from,
         Situation(w, C, L, top, A, from), NEW u \in L, u \notin C
  PROVE  LET r == updateAndApplyAffected(w, u.pts, u.cnt)
         IN  /\ r.fed \subseteq L
             /\ Handled(w, r, r.fed \cup {u}, u, C, L, top, A, from)
<1> DEFINE r == updateAndApplyAffected(w, u.pts, u.cnt)
           c == check(w, u.pts, u.cnt)
<1>1. /\ w \in Waiters /\ L \subseteq Update /\ A \subseteq L /\ C \subseteq L
      /\ Tiles(L, top) /\ WaiterInv(w, C, L, top, A)
      /\ Complete(L, A, from, w.good)
      /\ w.good \in Nat /\ w.last \in Nat /\ w.count \in Nat
      /\ w.good <= w.last /\ w.requesting \in BOOLEAN
      /\ w.queue /= {} => w.waitingForSkipped
  BY DEF Situation, Waiters, WaiterInv
<1>2. /\ u.pts \in Nat /\ u.cnt \in Nat /\ u.cnt >= 1 /\ u.pts >= 1
      /\ Boundary(L, top, u.pts)
  BY <1>1, UpdateBoundary
<1>3. CASE w.requesting
  <2>1. w.queue = {}
    BY <1>1, <1>3 DEF WaiterInv
  <2>2. r = applySkippedUpdates(w, "keep")
    BY <1>3 DEF updateAndApplyAffected, updated
  <2>3. /\ r.w \in Waiters /\ r.fed = {} /\ r.w.queue = {}
        /\ r.w.good = w.good /\ r.w.last = w.last
        /\ r.w.count = w.count /\ r.w.requesting = w.requesting
    BY <1>1, <2>1, <2>2, SkippedApplied
  <2> HIDE DEF r
  <2>4. r.fed \cup {u} \in SUBSET L
    BY <2>3
  <2>5. Handled(w, r, r.fed \cup {u}, u, C, L, top, A, from)
    BY <1>3, <2>3, <2>4, GiveRequesting
  <2> QED BY <2>3, <2>5 DEF r
<1>4. CASE ~w.requesting /\ u.pts <= w.good
  <2>1. r.w = w /\ r.fed = {}
    BY <1>2, <1>4 DEF updateAndApplyAffected, updated
  <2> HIDE DEF r
  <2>2. WaiterInv(w, C, L, top, A \cup {u})
    BY <1>1, <1>4 DEF WaiterInv
  <2>3. Complete(L, A \cup {u}, IF inited(w) THEN from ELSE w.good, w.good)
    BY <1>1, <1>2, <1>4 DEF Complete, inited
  <2> QED BY <1>1, <2>1, <2>2, <2>3 DEF Handled, r
<1>5. CASE ~w.requesting /\ ~(u.pts <= w.good) /\ ~inited(w)
  <2>1. c.yes /\ c.w = init(w, u.pts)
    BY <1>5 DEF check
  <2>2. /\ c.w \in Waiters /\ c.w.queue = {} /\ c.w.good = u.pts
        /\ c.w.last = u.pts /\ c.w.count = u.pts
        /\ c.w.requesting = w.requesting
    <3> HIDE DEF c
    <3>1. w \in Waiters /\ u.pts \in Nat /\ c.w = init(w, u.pts)
      BY <1>1, <1>2, <2>1
    <3>2. /\ c.w \in Waiters /\ c.w.queue = {} /\ c.w.good = u.pts
          /\ c.w.last = u.pts /\ c.w.count = u.pts
      BY <3>1, InitResult
    <3>3. c.w.requesting = w.requesting
      BY <3>1, InitResult
    <3> QED BY <3>2, <3>3
  <2>4. r = applySkippedUpdates(c.w, c.timer)
    BY <1>5, <2>1 DEF updateAndApplyAffected, updated
  <2> HIDE DEF c
  <2>5. /\ r.w \in Waiters /\ r.fed = {} /\ r.w.queue = {}
        /\ r.w.good = u.pts /\ r.w.last = u.pts
        /\ r.w.count = u.pts /\ r.w.requesting = w.requesting
    BY <2>2, <2>4, SkippedApplied
  <2> HIDE DEF r
  <2>6. r.fed \cup {u} \in SUBSET L
    BY <2>5
  <2>7. Handled(w, r, r.fed \cup {u}, u, C, L, top, A, from)
    BY <1>2, <1>5, <2>5, <2>6, GiveFirst
  <2> QED BY <2>5, <2>7 DEF r
<1>6. CASE ~w.requesting /\ ~(u.pts <= w.good) /\ inited(w)
  <2> DEFINE C1 == C \cup {u}
  <2>1. /\ C1 \in SUBSET L
        /\ w.count + u.cnt = w.good + Cardinality(Points(C1))
        /\ \A v \in C1 : w.good < v.pts /\ v.pts <= qMax(w.last, u.pts)
        /\ w.queue \subseteq C /\ C \subseteq w.queue \cup A
    BY <1>6, OneMore
  <2> HIDE DEF C1
  <2>2. /\ c.w \in Waiters
        /\ c.w.queue = w.queue /\ c.w.requesting = w.requesting
        /\ c.w.last = qMax(w.last, u.pts) /\ c.w.count = w.count + u.cnt
        /\ Boundary(L, top, c.w.last) /\ w.good <= c.w.last
        /\ IF c.w.last = c.w.count
             THEN /\ c.yes /\ c.w.good = c.w.last
                  /\ c.w.waitingForSkipped = w.waitingForSkipped
                  /\ \A v \in L : w.good < v.pts /\ v.pts <= c.w.last
                                    => v \in C1
             ELSE /\ c.yes <=> u.cnt = 0
                  /\ c.w.good = w.good
                  /\ c.w.waitingForSkipped
    BY <1>2, <1>6, <2>1, CheckCounts
  <2>3. updated(w, u.pts, u.cnt)
          = [verdict |-> IF c.yes THEN "apply" ELSE "save", w |-> c.w,
             timer |-> c.timer]
    BY <1>2, <1>6 DEF updated
  <2> HIDE DEF c
  <2>4. CASE c.w.last = c.w.count
    <3>1. r = applySkippedUpdates(c.w, c.timer)
      BY <2>2, <2>3, <2>4 DEF updateAndApplyAffected
    <3>2. c.w.queue /= {} => c.w.waitingForSkipped
      BY <1>1, <2>2, <2>4
    <3>3. /\ r.w \in Waiters /\ r.fed = w.queue /\ r.w.queue = {}
          /\ r.w.good = c.w.good /\ r.w.last = c.w.last
          /\ r.w.count = c.w.count /\ r.w.requesting = w.requesting
      BY <2>2, <3>1, <3>2, SkippedApplied
    <3> HIDE DEF r
    <3>4. r.fed \subseteq L /\ A \cup (r.fed \cup {u}) \in SUBSET L
      BY <1>1, <2>1, <3>3
    <3>5. WaiterInv(r.w, {}, L, top, A \cup (r.fed \cup {u}))
      BY <2>2, <2>4, <3>3, <3>4, FreshWaiter
    <3>6. \A v \in L : w.good < v.pts /\ v.pts <= r.w.good
                         => v \in A \cup (r.fed \cup {u})
      BY <2>1, <2>2, <2>4, <3>3 DEF C1
    <3>7. Complete(L, A \cup (r.fed \cup {u}), from, r.w.good)
      BY <1>1, <3>6, GapClosed
    <3>8. r.w.good /= w.good /\ w.good <= r.w.good
      BY <1>1, <1>2, <1>6, <2>2, <2>4, <3>3 DEF qMax
    <3> QED BY <1>6, <3>3, <3>4, <3>5, <3>7, <3>8 DEF Handled, r
  <2>5. CASE c.w.last /= c.w.count
    <3>1. r.w = c.w /\ r.fed = {}
      BY <1>2, <2>2, <2>3, <2>5 DEF updateAndApplyAffected
    <3> HIDE DEF r
    <3>2. /\ \A v \in C1 : c.w.good < v.pts /\ v.pts <= c.w.last
          /\ c.w.count = c.w.good + Cardinality(Points(C1))
          /\ ~c.w.requesting /\ c.w.good <= c.w.last
          /\ c.w.queue \subseteq C1
          /\ C1 \subseteq c.w.queue \cup (A \cup {u})
      BY <1>6, <2>1, <2>2, <2>5 DEF C1
    <3>3. WaiterInv(c.w, C1, L, top, A \cup {u})
          /\ Complete(L, A \cup {u}, from, c.w.good)
      BY <2>1, <2>2, <2>5, <3>2, GapOpen
    <3>4. c.w.count /= w.count
      BY <1>1, <1>2, <2>2
    <3>5. A \cup (r.fed \cup {u}) = A \cup {u}
      BY <3>1
    <3> QED BY <1>1, <1>6, <2>2, <2>5, <3>1, <3>3, <3>4, <3>5
            DEF Handled, r, C1
  <2> QED BY <2>4, <2>5
<1> QED BY <1>1, <1>3, <1>4, <1>5, <1>6

(* check() with a pts that takes no points, in a box that knows its pts.   *)
LEMMA CheckNoPoints ==
  ASSUME NEW w, NEW C, NEW L, NEW top, NEW A, NEW from,
         Situation(w, C, L, top, A, from), ~w.requesting, inited(w),
         NEW pts \in Nat, Boundary(L, top, pts)
  PROVE  LET c == check(w, pts, 0)
         IN  /\ c.w \in Waiters /\ c.yes
             /\ c.w.queue = w.queue /\ c.w.requesting = w.requesting
             /\ c.w.last = qMax(w.last, pts) /\ c.w.count = w.count
             /\ Boundary(L, top, c.w.last) /\ w.good <= c.w.last
             /\ w.queue /= {} => c.w.waitingForSkipped
             /\ IF c.w.last = c.w.count
                  THEN /\ c.w.good = c.w.last
                       /\ \A v \in L : w.good < v.pts /\ v.pts <= c.w.last
                                         => v \in C
                  ELSE c.w.good = w.good
<1> DEFINE c == check(w, pts, 0)
<1>1. /\ w \in Waiters /\ L \subseteq Update /\ C \in SUBSET L
      /\ w.good \in Nat /\ w.last \in Nat /\ w.count \in Nat
      /\ w.good <= w.last
      /\ \A v \in C : w.good < v.pts /\ v.pts <= w.last
      /\ w.count = w.good + Cardinality(Points(C))
      /\ w.queue /= {} => w.waitingForSkipped
  BY DEF Situation, Waiters, WaiterInv
<1>2. \A v \in C : w.good < v.pts /\ v.pts <= qMax(w.last, pts)
  <2> SUFFICES ASSUME NEW v \in C
               PROVE  w.good < v.pts /\ v.pts <= qMax(w.last, pts)
    OBVIOUS
  <2>1. v.pts \in Nat
    BY <1>1 DEF Update
  <2> QED BY <1>1, <2>1 DEF qMax
<1>3. w.count + 0 = w.good + Cardinality(Points(C)) /\ 0 \in Nat
  BY <1>1
<1>4. /\ c.w \in Waiters
      /\ c.w.queue = w.queue /\ c.w.requesting = w.requesting
      /\ c.w.last = qMax(w.last, pts) /\ c.w.count = w.count + 0
      /\ Boundary(L, top, c.w.last) /\ w.good <= c.w.last
      /\ IF c.w.last = c.w.count
           THEN /\ c.yes /\ c.w.good = c.w.last
                /\ c.w.waitingForSkipped = w.waitingForSkipped
                /\ \A v \in L : w.good < v.pts /\ v.pts <= c.w.last
                                  => v \in C
           ELSE /\ c.yes <=> 0 = 0
                /\ c.w.good = w.good
                /\ c.w.waitingForSkipped
  BY <1>1, <1>2, <1>3, CheckCounts
<1> HIDE DEF c
<1>5. c.w.count = w.count
  BY <1>1, <1>4
<1>6. w.queue /= {} => c.w.waitingForSkipped
  BY <1>1, <1>4
<1> QED BY <1>4, <1>5, <1>6 DEF c

(* What both forms of updateAndApply() come to when no points are taken:   *)
(* whatever was queued is applied, in a gap that stays open too.           *)
LEMMA GiveNoPoints ==
  ASSUME NEW w, NEW C, NEW L, NEW top, NEW A, NEW from, NEW u,
         Situation(w, C, L, top, A, from), ~w.requesting, inited(w),
         NEW pts \in Nat, Boundary(L, top, pts),
         NEW c, c = check(w, pts, 0),
         NEW r, r.w \in Waiters, r.w.queue = {}, r.w.good = c.w.good,
         r.w.last = c.w.last, r.w.count = c.w.count,
         r.w.requesting = w.requesting
  PROVE  Handled(w, r, w.queue, u, C, L, top, A, from)
<1>1. /\ w \in Waiters /\ L \subseteq Update /\ A \subseteq L /\ C \in SUBSET L
      /\ w.good \in Nat /\ w.last \in Nat /\ w.count \in Nat
      /\ w.good <= w.last
      /\ \A v \in C : w.good < v.pts /\ v.pts <= w.last
      /\ w.count = w.good + Cardinality(Points(C))
      /\ w.queue \subseteq C /\ C \subseteq w.queue \cup A
      /\ Complete(L, A, from, w.good)
  BY DEF Situation, Waiters, WaiterInv
<1>2. /\ c.w.last = qMax(w.last, pts) /\ c.w.count = w.count
      /\ Boundary(L, top, c.w.last) /\ w.good <= c.w.last
      /\ IF c.w.last = c.w.count
           THEN /\ c.w.good = c.w.last
                /\ \A v \in L : w.good < v.pts /\ v.pts <= c.w.last => v \in C
           ELSE c.w.good = w.good
  BY CheckNoPoints
<1>3. c.w.last \in Nat
  BY <1>2 DEF Boundary
<1>4. CASE c.w.last = c.w.count
  <2>1. WaiterInv(r.w, {}, L, top, A \cup w.queue)
    <3>1. A \cup w.queue \in SUBSET L
      BY <1>1
    <3> QED BY <1>2, <1>4, <3>1, FreshWaiter
  <2>2. \A v \in L : w.good < v.pts /\ v.pts <= r.w.good => v \in A \cup w.queue
    BY <1>1, <1>2, <1>4
  <2>3. Complete(L, A \cup w.queue, from, r.w.good)
    BY <1>1, <2>2, GapClosed
  <2>4. r.w.good = w.good => C = {}
    <3> SUFFICES ASSUME r.w.good = w.good, NEW v \in C
                 PROVE  FALSE
      OBVIOUS
    <3>1. v.pts \in Nat
      BY <1>1 DEF Update
    <3> QED BY <1>1, <1>2, <1>4, <3>1 DEF qMax
  <2>5. w.good <= r.w.good
    BY <1>2, <1>4
  <2>6. r.w.count = w.count
    BY <1>2
  <2> QED BY <2>1, <2>3, <2>4, <2>5, <2>6 DEF Handled
<1>5. CASE c.w.last /= c.w.count
  <2>1. r.w.good = w.good /\ r.w.count = w.count
    BY <1>2, <1>5
  <2>2. \A v \in C : r.w.good < v.pts /\ v.pts <= r.w.last
    <3> SUFFICES ASSUME NEW v \in C
                 PROVE  r.w.good < v.pts /\ v.pts <= r.w.last
      OBVIOUS
    <3>1. v.pts \in Nat
      BY <1>1 DEF Update
    <3> QED BY <1>1, <1>2, <2>1, <3>1 DEF qMax
  <2>3. /\ r.w.count = r.w.good + Cardinality(Points(C))
        /\ r.w.queue \subseteq C /\ w.queue \in SUBSET L
        /\ C \subseteq r.w.queue \cup (A \cup w.queue)
        /\ r.w.queue /= {} => r.w.waitingForSkipped
        /\ Boundary(L, top, r.w.last) /\ r.w.good <= r.w.last
        /\ ~r.w.requesting
    BY <1>1, <1>2, <2>1
  <2>4. WaiterInv(r.w, C, L, top, A \cup w.queue)
        /\ Complete(L, A \cup w.queue, from, r.w.good)
    BY <1>1, <2>1, <2>2, <2>3, GapOpen
  <2> QED BY <1>1, <2>1, <2>4 DEF Handled
<1> QED BY <1>4, <1>5

(* updateAndApply(channel, pts, 0), as ptsReceived() calls it.             *)
LEMMA GivePts ==
  ASSUME NEW w, NEW C, NEW L, NEW top, NEW A, NEW from, NEW u,
         Situation(w, C, L, top, A, from),
         NEW pts \in Nat, pts >= 1, Boundary(L, top, pts)
  PROVE  LET r == updateAndApplyAffected(w, pts, 0)
         IN  /\ r.fed \subseteq L
             /\ Handled(w, r, r.fed, u, C, L, top, A, from)
<1> DEFINE r == updateAndApplyAffected(w, pts, 0)
           c == check(w, pts, 0)
<1>1. /\ w \in Waiters /\ w.requesting \in BOOLEAN
      /\ w.requesting => w.queue = {}
      /\ w.queue /= {} => w.waitingForSkipped
      /\ ~w.requesting => w.queue \subseteq L
  BY DEF Situation, Waiters, WaiterInv
<1>2. CASE w.requesting
  <2>0. w.queue = {}
    BY <1>1, <1>2
  <2>1. r = applySkippedUpdates(w, "keep")
    BY <1>2 DEF updateAndApplyAffected, updated
  <2>2. /\ r.w \in Waiters /\ r.fed = {} /\ r.w.queue = {}
        /\ r.w.good = w.good /\ r.w.last = w.last
        /\ r.w.count = w.count /\ r.w.requesting = w.requesting
    BY <1>1, <2>0, <2>1, SkippedApplied
  <2> HIDE DEF r
  <2>3. r.fed \in SUBSET L
    BY <2>2
  <2>4. Handled(w, r, r.fed, u, C, L, top, A, from)
    BY <1>2, <2>2, <2>3, GiveRequesting
  <2> QED BY <2>3, <2>4 DEF r
<1>3. CASE ~w.requesting /\ ~inited(w)
  <2>1. c.yes /\ c.w = init(w, pts)
    BY <1>3 DEF check
  <2>2. r = applySkippedUpdates(c.w, c.timer)
    BY <1>3, <2>1 DEF updateAndApplyAffected, updated
  <2> HIDE DEF c
  <2>3. /\ c.w \in Waiters /\ c.w.queue = {} /\ c.w.good = pts
        /\ c.w.last = pts /\ c.w.count = pts
    BY <1>1, <2>1, InitResult
  <2>4. c.w.requesting = w.requesting
    BY <1>1, <2>1, InitResult
  <2>5. /\ r.w \in Waiters /\ r.fed = {} /\ r.w.queue = {}
        /\ r.w.good = pts /\ r.w.last = pts
        /\ r.w.count = pts /\ r.w.requesting = w.requesting
    BY <2>2, <2>3, <2>4, SkippedApplied
  <2> HIDE DEF r
  <2>6. r.fed \in SUBSET L
    BY <2>5
  <2>7. Handled(w, r, r.fed, u, C, L, top, A, from)
    BY <1>3, <2>5, <2>6, GiveFirst
  <2> QED BY <2>6, <2>7 DEF r
<1>4. CASE ~w.requesting /\ inited(w)
  <2>1. /\ c.w \in Waiters /\ c.yes
        /\ c.w.queue = w.queue /\ c.w.requesting = w.requesting
        /\ w.queue /= {} => c.w.waitingForSkipped
    BY <1>4, CheckNoPoints
  <2>2. r = applySkippedUpdates(c.w, c.timer)
    BY <1>4, <2>1 DEF updateAndApplyAffected, updated
  <2>3. c = check(w, pts, 0)
    OBVIOUS
  <2> HIDE DEF c
  <2>4. /\ r.w \in Waiters /\ r.fed = w.queue /\ r.w.queue = {}
        /\ r.w.good = c.w.good /\ r.w.last = c.w.last
        /\ r.w.count = c.w.count /\ r.w.requesting = w.requesting
    BY <2>1, <2>2, SkippedApplied
  <2> HIDE DEF r
  <2>5. Handled(w, r, w.queue, u, C, L, top, A, from)
    BY <1>4, <2>3, <2>4, GiveNoPoints
  <2> QED BY <1>1, <1>4, <2>4, <2>5 DEF r
<1> QED BY <1>1, <1>2, <1>3, <1>4

(* updateAndApply() of an update that takes no points and is not in the    *)
(* log.                                                                    *)
LEMMA GiveZero ==
  ASSUME NEW w, NEW C, NEW L, NEW top, NEW A, NEW from,
         Situation(w, C, L, top, A, from),
         NEW z, z.pts \in Nat, z.cnt = 0, z.pts >= 1, Boundary(L, top, z.pts)
  PROVE  LET r == updateAndApply(w, z)
             done == {v \in r.fed : v.cnt > 0}
         IN  /\ done \subseteq L
             /\ Handled(w, r, done, z, C, L, top, A, from)
<1> DEFINE r == updateAndApply(w, z)
           c == check(w, z.pts, 0)
           done == {v \in r.fed : v.cnt > 0}
<1>1. /\ w \in Waiters /\ w.requesting \in BOOLEAN
      /\ w.requesting => w.queue = {}
      /\ w.queue /= {} => w.waitingForSkipped
      /\ ~w.requesting => w.queue \subseteq L
      /\ \A v \in L : v.cnt \in Nat /\ v.cnt > 0
  <2>1. \A v \in L : v.cnt \in Nat /\ v.cnt > 0
    BY DEF Situation, Tiles, Update
  <2> QED BY <2>1 DEF Situation, Waiters, WaiterInv
<1>2. CASE w.requesting
  <2>1. r.w = w /\ r.fed = {z}
    BY <1>1, <1>2 DEF updateAndApply, updated
  <2>2. done = {}
    BY <2>1
  <2> HIDE DEF r
  <2>3. Handled(w, r, {}, z, C, L, top, A, from)
    BY <1>1, <1>2, <2>1, GiveRequesting
  <2> QED BY <2>2, <2>3 DEF r
<1>3. CASE ~w.requesting /\ ~inited(w)
  <2>1. c.yes /\ c.w = init(w, z.pts)
    BY <1>3 DEF check
  <2>2. /\ updated(w, z.pts, z.cnt).verdict = "apply"
        /\ updated(w, z.pts, z.cnt).w = c.w
    BY <1>3, <2>1 DEF updated
  <2>3. /\ c.w \in Waiters /\ c.w.queue = {} /\ c.w.good = z.pts
        /\ c.w.last = z.pts /\ c.w.count = z.pts
    <3> HIDE DEF c
    <3> QED BY <1>1, <2>1, InitResult, SMTT(60)
  <2>4. c.w.requesting = w.requesting
    <3> HIDE DEF c
    <3> QED BY <1>1, <2>1, InitResult, SMTT(60)
  <2> HIDE DEF c
  <2>5. r.w = c.w /\ r.fed = {z}
    BY <2>2, <2>3 DEF updateAndApply
  <2>6. done = {}
    BY <2>5
  <2> HIDE DEF r
  <2>7. Handled(w, r, {}, z, C, L, top, A, from)
    BY <1>3, <2>3, <2>4, <2>5, GiveFirst
  <2> QED BY <2>6, <2>7 DEF r
<1>4. CASE ~w.requesting /\ inited(w)
  <2>1. /\ c.w \in Waiters /\ c.yes
        /\ c.w.queue = w.queue /\ c.w.requesting = w.requesting
        /\ w.queue /= {} => c.w.waitingForSkipped
    BY <1>4, CheckNoPoints
  <2>2. /\ updated(w, z.pts, z.cnt).verdict = "apply"
        /\ updated(w, z.pts, z.cnt).w = c.w
        /\ updated(w, z.pts, z.cnt).timer = c.timer
    BY <1>4, <2>1 DEF updated
  <2>3. c = check(w, z.pts, 0)
    OBVIOUS
  <2> HIDE DEF c
  <2>4. /\ r.w \in Waiters /\ r.w.queue = {} /\ done = w.queue
        /\ r.w.good = c.w.good /\ r.w.last = c.w.last
        /\ r.w.count = c.w.count /\ r.w.requesting = w.requesting
    <3>1. CASE w.queue = {}
      <4>1. r.w = c.w /\ r.fed = {z}
        BY <2>1, <2>2, <3>1 DEF updateAndApply
      <4> QED BY <2>1, <3>1, <4>1
    <3>2. CASE w.queue /= {}
      <4> DEFINE x == [c.w EXCEPT !.queue = @ \cup {z}]
      <4>1. r = applySkippedUpdates(x, c.timer)
        <5>1. ~(~c.w.waitingForSkipped \/ c.w.queue = {})
          BY <2>1, <3>2
        <5> QED BY <2>2, <5>1, Zenon DEF updateAndApply
      <4>2. x.waitingForSkipped
        BY <2>1, <3>2 DEF Waiters
      <4>3. r.w = [[x EXCEPT !.waitingForSkipped = FALSE] EXCEPT !.queue = {}]
            /\ r.fed = x.queue
        BY <4>1, <4>2 DEF applySkippedUpdates
      <4>4. x.queue = w.queue \cup {z}
        BY <2>1 DEF Waiters
      <4> HIDE DEF r
      <4>5. r.w \in Waiters
        BY <2>1, <4>3 DEF Waiters
      <4>6. /\ r.w.queue = {} /\ r.w.good = c.w.good /\ r.w.last = c.w.last
            /\ r.w.count = c.w.count
        BY <2>1, <4>3 DEF Waiters
      <4>7. r.w.requesting = w.requesting
        BY <2>1, <4>3 DEF Waiters
      <4>8. done = w.queue
        <5> HIDE DEF x
        <5> QED BY <1>1, <1>4, <4>3, <4>4
      <4> QED BY <4>5, <4>6, <4>7, <4>8 DEF r
    <3> QED BY <3>1, <3>2
  <2> HIDE DEF r
  <2>5. Handled(w, r, w.queue, z, C, L, top, A, from)
    BY <1>4, <2>3, <2>4, GiveNoPoints
  <2> QED BY <1>1, <1>4, <2>4, <2>5 DEF r
<1> QED BY <1>1, <1>2, <1>3, <1>4

-----------------------------------------------------------------------------
USE DEF NoRequest, GetState

(* The kinds of messages.                                                  *)
LEMMA MessageKinds ==
  ASSUME NEW m \in Messages
  PROVE  /\ IsUpdate(m) => /\ m.box \in Boxes /\ m.update \in Update
                           /\ m = [type |-> m.type, box |-> m.box,
                                   update |-> m.update]
         /\ m.type \in {"received", "tooLong"} => m.box \in Boxes /\ m.pts \in Nat
         /\ IsAnswer(m) => m.box \in Boxes /\ m.from \in Nat
         /\ m.type = "difference" =>
              /\ m.pts \in Nat /\ m.updates \in SUBSET Update
              /\ m.forget \in BOOLEAN /\ m.final \in BOOLEAN
              /\ m.channels \in [Boxes -> Nat]
BY DEF Messages, IsUpdate, IsAnswer

(* To clash is symmetric.                                                  *)
LEMMA ClashSymmetric ==
  ASSUME NEW m, NEW n
  PROVE  Clash(m, n) => Clash(n, m)
BY DEF Clash

(* The main thread takes the first message.                                *)
LEMMA TailOf ==
  ASSUME NEW q \in Seq(Messages), q /= <<>>
  PROVE  /\ Head(q) = q[1] /\ 1 \in DOMAIN q /\ Head(q) \in Messages
         /\ Tail(q) \in Seq(Messages)
         /\ \A i \in DOMAIN Tail(q) :
              /\ i \in Nat /\ i + 1 \in DOMAIN q /\ i + 1 /= 1
              /\ Tail(q)[i] = q[i + 1]
<1>1. Len(q) \in Nat /\ Len(q) >= 1 /\ DOMAIN q = 1 .. Len(q)
  BY EmptySeq, LenProperties
<1>2. /\ Head(q) \in Messages /\ Head(q) = q[1]
      /\ Tail(q) \in Seq(Messages) /\ Len(Tail(q)) = Len(q) - 1
      /\ \A i \in 1 .. Len(Tail(q)) : Tail(q)[i] = q[i + 1]
  BY HeadTailProperties
<1>3. DOMAIN Tail(q) = 1 .. Len(q) - 1
  BY <1>2, LenProperties
<1> QED BY <1>1, <1>2, <1>3

(* The server adds a message behind the others.                            *)
LEMMA AppendOf ==
  ASSUME NEW q \in Seq(Messages), NEW m \in Messages
  PROVE  /\ Append(q, m) \in Seq(Messages)
         /\ \A i \in DOMAIN Append(q, m) :
              \/ i \in DOMAIN q /\ Append(q, m)[i] = q[i]
              \/ i = Len(q) + 1 /\ i \notin DOMAIN q /\ Append(q, m)[i] = m
<1>1. Len(q) \in Nat /\ DOMAIN q = 1 .. Len(q)
  BY LenProperties
<1>2. /\ Append(q, m) \in Seq(Messages)
      /\ Len(Append(q, m)) = Len(q) + 1
      /\ \A i \in 1 .. Len(q) : Append(q, m)[i] = q[i]
      /\ Append(q, m)[Len(q) + 1] = m
  BY AppendProperties
<1>3. DOMAIN Append(q, m) = 1 .. Len(q) + 1
  BY <1>2, LenProperties
<1> QED BY <1>1, <1>2, <1>3

-----------------------------------------------------------------------------
(* What a step of the abstract UpdateFeed looks like from here.            *)

FeedStep == [Feed!Next]_(Feed!vars)

(* A step that moves no pts, log, base or applied update is none of        *)
(* UpdateFeed.                                                             *)
LEMMA FeedStutters ==
  ASSUME UNCHANGED <<log, applied, base>>,
         \A b \in Boxes : waiter'[b].good = waiter[b].good
  PROVE  FeedStep
<1>1. [b \in Boxes |-> waiter'[b].good] = [b \in Boxes |-> waiter[b].good]
  OBVIOUS
<1> QED BY <1>1 DEF FeedStep, Feed!vars

(* Box c takes over the updates in `done' and claims the pts of its new    *)
(* waiter.                                                                 *)
LEMMA FeedAdvances ==
  ASSUME TypeOK, UNCHANGED log, NEW c \in Boxes, NEW done \in SUBSET log[c],
         applied[c] \subseteq log[c],
         applied' = [applied EXCEPT ![c] = @ \cup done],
         waiter[c].good <= waiter'[c].good,
         \A b \in Boxes \ {c} : waiter'[b].good = waiter[b].good,
         \/ /\ UNCHANGED base
            /\ Complete(log[c], applied[c] \cup done, base[c], waiter'[c].good)
         \/ base' = [base EXCEPT ![c] = waiter'[c].good]
  PROVE  FeedStep
<1> DEFINE good == [b \in Boxes |-> waiter[b].good]
           good2 == [b \in Boxes |-> waiter'[b].good]
<1>1. good2 = [good EXCEPT ![c] = waiter'[c].good] /\ good[c] = waiter[c].good
      /\ good2[c] = waiter'[c].good
  OBVIOUS
<1>2. applied'[c] = applied[c] \cup done
  BY DEF TypeOK
<1>3. applied' = [applied EXCEPT ![c] = applied'[c]]
  BY <1>2 DEF TypeOK
<1>4. applied[c] \subseteq applied'[c] /\ applied'[c] \subseteq log[c]
  BY <1>2
<1>7. Feed!Take(c)
  BY <1>1, <1>3, <1>4 DEF Feed!Take
<1>5. CASE base' = [base EXCEPT ![c] = waiter'[c].good]
  <2>1. Feed!StartFrom(c)
    BY <1>1, <1>5, <1>7 DEF Feed!StartFrom
  <2>2. Feed!Next
    BY <2>1 DEF Feed!Next
  <2> QED BY <2>2 DEF FeedStep
<1>6. CASE /\ UNCHANGED base
           /\ Complete(log[c], applied[c] \cup done, base[c], waiter'[c].good)
  <2>1. \A u \in log[c] : base[c] < u.pts /\ u.pts <= good2[c]
                            => u \in applied'[c]
    BY <1>1, <1>2, <1>6 DEF Complete
  <2>2. Feed!Advance(c)
    BY <1>1, <1>6, <1>7, <2>1 DEF Feed!Advance
  <2>3. Feed!Next
    BY <2>2 DEF Feed!Next
  <2> QED BY <2>3 DEF FeedStep
<1> QED BY <1>5, <1>6

-----------------------------------------------------------------------------
(* Messages that are on the way before and after a step of the client.     *)

(* A message stays right as long as nobody counts its update and the box   *)
(* it answers keeps waiting for it.                                        *)
Kept(m, W, C) ==
  /\ IsUpdate(m) /\ m.update.cnt /= 0 => m.update \notin C[m.box]
  /\ IsAnswer(m) => W[m.box].requesting /\ m.from = W[m.box].good

(* What is known of a message carries over to waiters and counts that keep *)
(* it.                                                                     *)
LEMMA MessageKept ==
  ASSUME NEW m, NEW W, NEW C, NEW L, NEW top,
         NEW W2, NEW C2, NEW L2, NEW top2, L2 = L, top2 = top,
         MessageInv(m, W, C, L, top), Kept(m, W2, C2)
  PROVE  MessageInv(m, W2, C2, L2, top2)
BY DEF MessageInv, Kept

(* What is left on the way; q is net' .                                    *)
Left(q) ==
  /\ q \in Seq(Messages)
  /\ \A i \in DOMAIN q : /\ q[i] \in Messages
                         /\ MessageInv(q[i], waiter, counted, log, serverPts)
                         /\ \E j \in DOMAIN net : q[i] = net[j]
  /\ \A i, j \in DOMAIN q : i /= j => ~Clash(q[i], q[j])
  /\ \A m \in unsent : \A i \in DOMAIN q : ~Clash(m, q[i])

(* All that is on the way is left when nothing is taken.                   *)
LEMMA LeftAll ==
  ASSUME IInv
  PROVE  Left(net)
<1>1. \A i \in DOMAIN net : net[i] \in Messages
  BY DEF IInv, TypeOK
<1> QED BY <1>1 DEF IInv, TypeOK, NetInv, Left

(* After the head is taken: nothing left clashes with it.                  *)
LEMMA LeftTail ==
  ASSUME IInv, net /= <<>>
  PROVE  /\ Left(Tail(net))
         /\ Head(net) \in Messages
         /\ MessageInv(Head(net), waiter, counted, log, serverPts)
         /\ \A i \in DOMAIN Tail(net) : ~Clash(Head(net), Tail(net)[i])
         /\ \A m \in unsent : ~Clash(Head(net), m)
         /\ \A b \in Boxes : IsAnswer(Head(net)) /\ Head(net).box = b
                                => ~NoAnswer(b, net)
<1>1. net \in Seq(Messages)
  BY DEF IInv, TypeOK
<1>2. /\ Head(net) = net[1] /\ 1 \in DOMAIN net /\ Head(net) \in Messages
      /\ Tail(net) \in Seq(Messages)
      /\ \A i \in DOMAIN Tail(net) :
           /\ i \in Nat /\ i + 1 \in DOMAIN net /\ i + 1 /= 1
           /\ Tail(net)[i] = net[i + 1]
  BY <1>1, TailOf
<1>3. \A i \in DOMAIN net : net[i] \in Messages
  BY <1>1
<1>4. /\ \A i \in DOMAIN net : MessageInv(net[i], waiter, counted, log, serverPts)
      /\ \A i, j \in DOMAIN net : i /= j => ~Clash(net[i], net[j])
      /\ \A m \in unsent : \A i \in DOMAIN net : ~Clash(m, net[i])
  BY DEF IInv, NetInv
<1>5. \A i, j \in DOMAIN Tail(net) :
        i /= j => ~Clash(Tail(net)[i], Tail(net)[j])
  <2> SUFFICES ASSUME NEW i \in DOMAIN Tail(net), NEW j \in DOMAIN Tail(net),
                      i /= j
               PROVE  ~Clash(Tail(net)[i], Tail(net)[j])
    OBVIOUS
  <2>1. i + 1 /= j + 1
    BY <1>2
  <2> QED BY <1>2, <1>4, <2>1
<1>6. Left(Tail(net))
  BY <1>2, <1>3, <1>4, <1>5 DEF Left
<1>7. \A i \in DOMAIN Tail(net) : ~Clash(Head(net), Tail(net)[i])
  BY <1>2, <1>4
<1>8. \A m \in unsent : ~Clash(Head(net), m)
  BY <1>2, <1>4, ClashSymmetric
<1>9. \A b \in Boxes : IsAnswer(Head(net)) /\ Head(net).box = b
                          => ~NoAnswer(b, net)
  BY <1>2 DEF NoAnswer
<1> QED BY <1>2, <1>4, <1>6, <1>7, <1>8, <1>9

(* A step of the client keeps the network right if each message left is    *)
(* kept.                                                                   *)
LEMMA NetAfter ==
  ASSUME IInv, Left(net'), UNCHANGED <<log, serverPts, unsent>>,
         \A m \in unsent : Kept(m, waiter', counted'),
         \A i \in DOMAIN net' : Kept(net'[i], waiter', counted')
  PROVE  NetInv'
<1>1. unsent' = unsent /\ log' = log /\ serverPts' = serverPts
  OBVIOUS
<1>2. \A m \in unsent' : /\ MessageInv(m, waiter', counted', log', serverPts')
                         /\ IsUpdate(m) \/ m.type = "tooLong"
  BY <1>1, MessageKept DEF IInv, NetInv
<1>3. \A i \in DOMAIN net' :
        MessageInv(net'[i], waiter', counted', log', serverPts')
  BY <1>1, MessageKept DEF Left
<1>4. /\ \A i, j \in DOMAIN net' : i /= j => ~Clash(net'[i], net'[j])
      /\ \A m \in unsent' : \A i \in DOMAIN net' : ~Clash(m, net'[i])
  BY <1>1 DEF Left
<1> QED BY <1>2, <1>3, <1>4 DEF NetInv

(* What is left holds no answer that was not there before.                 *)
LEMMA NoAnswerLeft ==
  ASSUME NEW q, Left(q), NEW b, NoAnswer(b, net)
  PROVE  NoAnswer(b, q)
BY DEF Left, NoAnswer

-----------------------------------------------------------------------------
(* A box's waiter is given something: Handled is enough.                   *)
LEMMA GivenStep ==
  ASSUME IInv, Left(net'), UNCHANGED <<log, serverPts, unsent>>,
         NEW b \in Boxes, NEW r, NEW u, NEW done \in SUBSET log[b],
         Given(b, r, u, done),
         Handled(waiter[b], r, done, u, counted[b], log[b], serverPts[b],
                 applied[b], base[b]),
         \A m \in unsent : IsUpdate(m) /\ m.update.cnt /= 0 /\ m.box = b
                             => m.update /= u,
         \A i \in DOMAIN net' :
           IsUpdate(net'[i]) /\ net'[i].update.cnt /= 0 /\ net'[i].box = b
             => net'[i].update /= u
  PROVE  IInv' /\ FeedStep
<1> DEFINE w == waiter[b]
           C2 == IF r.w.good /= w.good THEN {}
                 ELSE IF r.w.count /= w.count THEN counted[b] \cup {u}
                 ELSE counted[b]
<1>1. TypeOK /\ BoxInv /\ NetInv /\ RequestInv
  BY DEF IInv
<1>2. /\ r.w \in Waiters
      /\ WaiterInv(r.w, C2, log[b], serverPts[b], applied[b] \cup done)
      /\ Complete(log[b], applied[b] \cup done,
                  IF inited(w) THEN base[b] ELSE r.w.good, r.w.good)
      /\ r.w.requesting = w.requesting
      /\ w.good <= r.w.good
      /\ w.requesting => r.w.good = w.good
  BY DEF Handled
<1>3. /\ waiter' = [waiter EXCEPT ![b] = r.w]
      /\ applied' = [applied EXCEPT ![b] = @ \cup done]
      /\ counted' = [counted EXCEPT ![b] = C2]
      /\ base' = [base EXCEPT ![b] = IF inited(w) THEN @ ELSE r.w.good]
      /\ UNCHANGED <<byMinChannel, afterFail, active, asked>>
      /\ byPts' \in {byPts \cup {b}, byPts \ {b}, byPts}
  BY DEF Given, ptsWaiterStartTimerFor
<1> HIDE DEF C2
<1>4. /\ waiter'[b] = r.w /\ counted'[b] = C2
      /\ applied'[b] = applied[b] \cup done
      /\ base'[b] = IF inited(w) THEN base[b] ELSE r.w.good
      /\ \A c \in Boxes \ {b} :
           /\ waiter'[c] = waiter[c] /\ counted'[c] = counted[c]
           /\ applied'[c] = applied[c] /\ base'[c] = base[c]
  BY <1>1, <1>3 DEF TypeOK
<1>5. C2 \subseteq log[b] /\ log[b] \subseteq Update /\ r.w.good \in Nat
  BY <1>1, <1>2 DEF WaiterInv, TypeOK, Waiters
<1>6. TypeOK'
  BY <1>1, <1>2, <1>3, <1>4, <1>5 DEF TypeOK, Left
<1>7. BoxInv'
  <2> SUFFICES ASSUME NEW c \in Boxes
               PROVE  /\ Tiles(log'[c], serverPts'[c]) /\ serverPts'[c] >= 1
                      /\ WaiterInv(waiter'[c], counted'[c], log'[c],
                                   serverPts'[c], applied'[c])
                      /\ Complete(log'[c], applied'[c], base'[c],
                                  waiter'[c].good)
    BY DEF BoxInv
  <2>1. log'[c] = log[c] /\ serverPts'[c] = serverPts[c]
    OBVIOUS
  <2>2. CASE c = b
    BY <1>1, <1>2, <1>4, <2>1, <2>2 DEF BoxInv
  <2>3. CASE c /= b
    BY <1>1, <1>4, <2>1, <2>3 DEF BoxInv
  <2> QED BY <2>2, <2>3
<1>8. \A c \in Boxes : /\ waiter'[c].requesting = waiter[c].requesting
                       /\ waiter[c].requesting => waiter'[c].good = waiter[c].good
  BY <1>2, <1>4
<1>9. \A v : v \in C2 => v \in counted[b] \/ v = u
  BY DEF C2
<1>10. ASSUME NEW m \in Messages,
              MessageInv(m, waiter, counted, log, serverPts),
              IsUpdate(m) /\ m.update.cnt /= 0 /\ m.box = b => m.update /= u
       PROVE  Kept(m, waiter', counted')
  <2>1. IsUpdate(m) /\ m.update.cnt /= 0 => m.update \notin counted'[m.box]
    BY <1>4, <1>9, <1>10, MessageKinds DEF MessageInv
  <2>2. IsAnswer(m) => waiter'[m.box].requesting /\ m.from = waiter'[m.box].good
    BY <1>8, <1>10, MessageKinds DEF MessageInv
  <2> QED BY <2>1, <2>2 DEF Kept
<1>11. NetInv'
  <2>1. \A m \in unsent : Kept(m, waiter', counted')
    BY <1>1, <1>10 DEF TypeOK, NetInv
  <2>2. \A i \in DOMAIN net' : Kept(net'[i], waiter', counted')
    BY <1>10 DEF Left
  <2> QED BY <2>1, <2>2, NetAfter
<1>12. RequestInv'
  <2> SUFFICES ASSUME NEW c \in Boxes
               PROVE  /\ asked'[c] /= NoRequest =>
                           /\ waiter'[c].requesting
                           /\ asked'[c] = waiter'[c].good
                           /\ c \notin afterFail' /\ NoAnswer(c, net')
                      /\ c \in afterFail' =>
                           waiter'[c].requesting /\ NoAnswer(c, net')
                      /\ c \in Channels /\ waiter'[c].requesting
                           => inited(waiter'[c])
    BY DEF RequestInv
  <2>1. NoAnswer(c, net) => NoAnswer(c, net')
    BY NoAnswerLeft
  <2>2. asked' = asked /\ afterFail' = afterFail
    BY <1>3
  <2>3. waiter[c].requesting => (inited(waiter[c]) => inited(waiter'[c]))
    BY <1>8 DEF inited
  <2> QED BY <1>1, <1>8, <2>1, <2>2, <2>3 DEF RequestInv
<1>13. FeedStep
  <2>1. applied[b] \subseteq log[b]
    BY <1>1 DEF BoxInv, WaiterInv
  <2>2. \A c \in Boxes \ {b} : waiter'[c].good = waiter[c].good
    BY <1>4
  <2>3. CASE inited(w)
    <3>1. base' = base
      BY <1>1, <1>3, <2>3 DEF TypeOK
    <3>2. Complete(log[b], applied[b] \cup done, base[b], waiter'[b].good)
      BY <1>2, <1>4, <2>3
    <3> QED BY <1>1, <1>2, <1>3, <1>4, <2>1, <2>2, <3>1, <3>2, FeedAdvances
  <2>4. CASE ~inited(w)
    <3>1. base' = [base EXCEPT ![b] = waiter'[b].good]
      BY <1>3, <1>4, <2>4
    <3> QED BY <1>1, <1>2, <1>3, <1>4, <2>1, <2>2, <3>1, FeedAdvances
  <2> QED BY <2>3, <2>4
<1> QED BY <1>6, <1>7, <1>11, <1>12, <1>13 DEF IInv

-----------------------------------------------------------------------------
(* Steps of the client that send or finish requests.  What such a step may *)
(* do to box b: nothing, ask, take the answer, or plan a retry.            *)
Requests(b) ==
  \/ /\ waiter'[b].requesting = waiter[b].requesting
     /\ waiter'[b].good = waiter[b].good
     /\ asked'[b] = asked[b]
     /\ b \in afterFail' <=> b \in afterFail
  \/ /\ waiter'[b].requesting /\ asked'[b] = waiter'[b].good
     /\ b \notin afterFail' /\ NoAnswer(b, net')
     /\ b \in Channels => inited(waiter'[b])
  \/ /\ ~waiter'[b].requesting /\ asked'[b] = NoRequest
     /\ b \notin afterFail' /\ NoAnswer(b, net')
  \/ /\ waiter'[b] = waiter[b] /\ waiter[b].requesting
     /\ asked'[b] = NoRequest /\ NoAnswer(b, net')

(* A step in which every box goes through one of those cases keeps the     *)
(* invariant.                                                              *)
LEMMA RequestsStep ==
  ASSUME IInv, TypeOK', BoxInv', Left(net'),
         UNCHANGED <<log, serverPts, unsent>>,
         \A b \in Boxes : counted'[b] \subseteq counted[b],
         \A b \in Boxes : Requests(b)
  PROVE  IInv'
<1>1. TypeOK /\ NetInv /\ RequestInv
  BY DEF IInv
<1>2. ASSUME NEW m \in Messages,
             MessageInv(m, waiter, counted, log, serverPts),
             IsAnswer(m) => ~NoAnswer(m.box, net')
      PROVE  Kept(m, waiter', counted')
  <2>1. IsUpdate(m) /\ m.update.cnt /= 0 => m.update \notin counted'[m.box]
    BY <1>2, MessageKinds DEF MessageInv
  <2>2. IsAnswer(m) => waiter'[m.box].requesting /\ m.from = waiter'[m.box].good
    <3> SUFFICES ASSUME IsAnswer(m)
                 PROVE  /\ waiter'[m.box].requesting
                        /\ m.from = waiter'[m.box].good
      OBVIOUS
    <3>1. m.box \in Boxes /\ waiter[m.box].requesting
          /\ m.from = waiter[m.box].good
      BY <1>2, MessageKinds DEF MessageInv
    <3>2. /\ waiter'[m.box].requesting = waiter[m.box].requesting
          /\ waiter'[m.box].good = waiter[m.box].good
      BY <1>2, <3>1 DEF Requests
    <3> QED BY <3>1, <3>2
  <2> QED BY <2>1, <2>2 DEF Kept
<1>3. NetInv'
  <2>1. \A m \in unsent : Kept(m, waiter', counted')
    <3> SUFFICES ASSUME NEW m \in unsent
                 PROVE  Kept(m, waiter', counted')
      OBVIOUS
    <3>1. m \in Messages /\ MessageInv(m, waiter, counted, log, serverPts)
          /\ ~IsAnswer(m)
      BY <1>1 DEF TypeOK, NetInv, IsUpdate, IsAnswer
    <3> QED BY <1>2, <3>1
  <2>2. \A i \in DOMAIN net' : Kept(net'[i], waiter', counted')
    <3> SUFFICES ASSUME NEW i \in DOMAIN net'
                 PROVE  Kept(net'[i], waiter', counted')
      OBVIOUS
    <3>1. net'[i] \in Messages
          /\ MessageInv(net'[i], waiter, counted, log, serverPts)
      BY DEF Left
    <3>2. IsAnswer(net'[i]) => ~NoAnswer(net'[i].box, net')
      BY DEF NoAnswer
    <3> QED BY <1>2, <3>1, <3>2
  <2> QED BY <2>1, <2>2, NetAfter
<1>4. RequestInv'
  <2> SUFFICES ASSUME NEW c \in Boxes
               PROVE  /\ asked'[c] /= NoRequest =>
                           /\ waiter'[c].requesting
                           /\ asked'[c] = waiter'[c].good
                           /\ c \notin afterFail' /\ NoAnswer(c, net')
                      /\ c \in afterFail' =>
                           waiter'[c].requesting /\ NoAnswer(c, net')
                      /\ c \in Channels /\ waiter'[c].requesting
                           => inited(waiter'[c])
    BY DEF RequestInv
  <2>1. NoAnswer(c, net) => NoAnswer(c, net')
    BY NoAnswerLeft
  <2>2. /\ asked[c] /= NoRequest =>
             /\ waiter[c].requesting /\ asked[c] = waiter[c].good
             /\ c \notin afterFail /\ NoAnswer(c, net)
        /\ c \in afterFail => waiter[c].requesting /\ NoAnswer(c, net)
        /\ c \in Channels /\ waiter[c].requesting => inited(waiter[c])
    BY <1>1 DEF RequestInv
  <2>3. Requests(c)
    OBVIOUS
  <2> QED BY <2>1, <2>2, <2>3 DEF Requests, inited
<1> QED BY <1>3, <1>4 DEF IInv

(* setRequesting(true).                                                    *)
LEMMA RequestingResult ==
  ASSUME NEW w \in Waiters, NEW x, x = setRequesting(w, TRUE)
  PROVE  /\ x \in Waiters /\ x.requesting
         /\ x.queue = {} /\ x.good = w.good /\ x.last = w.last
<1>1. x \in Waiters
  BY DEF setRequesting, Waiters
<1>2. x.requesting
  BY DEF setRequesting, Waiters
<1>3. x.queue = {} /\ x.good = w.good /\ x.last = w.last
  BY DEF setRequesting, Waiters
<1> QED BY <1>1, <1>2, <1>3

(* What Ask does to each box.                                              *)
LEMMA AskResult ==
  ASSUME TypeOK, NEW w \in [Boxes -> Waiters], NEW bs \in SUBSET Boxes,
         Ask(w, bs)
  PROVE  /\ waiter' \in [Boxes -> Waiters]
         /\ asked' \in [Boxes -> Nat \cup {NoRequest}]
         /\ afterFail' \subseteq Boxes
         /\ \A b \in Boxes :
              IF b \in bs /\ MayAsk(w, b)
                THEN /\ waiter'[b].requesting /\ waiter'[b].queue = {}
                     /\ waiter'[b].good = w[b].good
                     /\ waiter'[b].last = w[b].last
                     /\ asked'[b] = w[b].good /\ b \notin afterFail'
                ELSE /\ waiter'[b] = w[b] /\ asked'[b] = asked[b]
                     /\ b \in afterFail' <=> b \in afterFail
<1> DEFINE asking == {b \in bs : MayAsk(w, b)}
<1>1. /\ waiter' = [b \in Boxes |-> IF b \in asking
                                      THEN setRequesting(w[b], TRUE)
                                      ELSE w[b]]
      /\ asked' = [b \in Boxes |-> IF b \in asking THEN w[b].good
                                                   ELSE asked[b]]
      /\ afterFail' = afterFail \ asking
  BY DEF Ask
<1>2. \A b \in Boxes : b \in asking <=> b \in bs /\ MayAsk(w, b)
  OBVIOUS
<1> HIDE DEF asking
<1>3. \A b \in Boxes : w[b] \in Waiters /\ w[b].good \in Nat
  BY DEF Waiters
<1>4. \A b \in Boxes : setRequesting(w[b], TRUE) \in Waiters
  BY <1>3, RequestingResult
<1>5. waiter' \in [Boxes -> Waiters]
  BY <1>1, <1>3, <1>4
<1>6. asked' \in [Boxes -> Nat \cup {NoRequest}]
  BY <1>1, <1>3 DEF TypeOK
<1>7. ASSUME NEW b \in Boxes, b \in asking
      PROVE  /\ waiter'[b].requesting /\ waiter'[b].queue = {}
             /\ waiter'[b].good = w[b].good /\ waiter'[b].last = w[b].last
             /\ asked'[b] = w[b].good /\ b \notin afterFail'
  <2>1. waiter'[b] = setRequesting(w[b], TRUE) /\ w[b] \in Waiters
    BY <1>1, <1>3, <1>7
  <2>2. waiter'[b].requesting /\ waiter'[b].queue = {}
        /\ waiter'[b].good = w[b].good /\ waiter'[b].last = w[b].last
    BY <2>1, RequestingResult
  <2> QED BY <1>1, <1>7, <2>2
<1>8. ASSUME NEW b \in Boxes, b \notin asking
      PROVE  /\ waiter'[b] = w[b] /\ asked'[b] = asked[b]
             /\ b \in afterFail' <=> b \in afterFail
  BY <1>1, <1>8
<1> QED BY <1>1, <1>2, <1>5, <1>6, <1>7, <1>8 DEF TypeOK

(* A waiter that starts to wait for an answer needs no more than its pts.  *)
LEMMA WaiterAsks ==
  ASSUME NEW w, NEW x, NEW C, NEW L, NEW top, NEW A,
         WaiterInv(w, C, L, top, A),
         x.requesting, x.queue = {}, x.good = w.good, x.last = w.last
  PROVE  WaiterInv(x, C, L, top, A)
BY DEF WaiterInv

(* Nobody answers a box that does not wait.                                *)
LEMMA NotWaiting ==
  ASSUME IInv, NEW b \in Boxes, ~waiter[b].requesting
  PROVE  NoAnswer(b, net)
BY DEF IInv, NetInv, MessageInv, NoAnswer

(* Requests for the difference of some boxes, first ones or retries.       *)
LEMMA AskStep ==
  ASSUME IInv, Left(net'),
         NEW w \in [Boxes -> Waiters], NEW bs \in SUBSET Boxes, Ask(w, bs),
         UNCHANGED <<log, serverPts, unsent, applied, counted, base>>,
         byPts' \subseteq Boxes, byMinChannel' \in BOOLEAN,
         active' \subseteq Channels,
         \A b \in Boxes : \/ w[b] = waiter[b]
                          \/ /\ b \in bs /\ b \in afterFail
                             /\ ~w[b].requesting
                             /\ w[b].good = waiter[b].good
                             /\ w[b].last = waiter[b].last
  PROVE  IInv' /\ FeedStep
<1>1. TypeOK /\ BoxInv /\ RequestInv
  BY DEF IInv
<1>2. /\ waiter' \in [Boxes -> Waiters]
      /\ asked' \in [Boxes -> Nat \cup {NoRequest}]
      /\ afterFail' \subseteq Boxes
      /\ \A b \in Boxes :
           IF b \in bs /\ MayAsk(w, b)
             THEN /\ waiter'[b].requesting /\ waiter'[b].queue = {}
                  /\ waiter'[b].good = w[b].good
                  /\ waiter'[b].last = w[b].last
                  /\ asked'[b] = w[b].good /\ b \notin afterFail'
             ELSE /\ waiter'[b] = w[b] /\ asked'[b] = asked[b]
                  /\ b \in afterFail' <=> b \in afterFail
  BY <1>1, AskResult
<1>3. TypeOK'
  BY <1>1, <1>2 DEF TypeOK, Left
<1>4. ASSUME NEW b \in Boxes
      PROVE  \/ waiter'[b] = waiter[b] /\ ~(b \in bs /\ MayAsk(w, b))
             \/ /\ b \in bs /\ MayAsk(w, b)
                /\ waiter'[b].requesting /\ waiter'[b].queue = {}
                /\ waiter'[b].good = waiter[b].good
                /\ waiter'[b].last = waiter[b].last
  <2>1. CASE w[b] = waiter[b]
    BY <1>2, <2>1
  <2>2. CASE /\ b \in bs /\ b \in afterFail /\ ~w[b].requesting
             /\ w[b].good = waiter[b].good /\ w[b].last = waiter[b].last
    <3>1. b \in Channels => inited(waiter[b])
      BY <1>1, <2>2 DEF RequestInv
    <3>2. MayAsk(w, b)
      BY <2>2, <3>1 DEF MayAsk, inited
    <3> QED BY <1>2, <2>2, <3>2
  <2> QED BY <2>1, <2>2
<1>5. BoxInv'
  <2> SUFFICES ASSUME NEW b \in Boxes
               PROVE  /\ Tiles(log'[b], serverPts'[b]) /\ serverPts'[b] >= 1
                      /\ WaiterInv(waiter'[b], counted'[b], log'[b],
                                   serverPts'[b], applied'[b])
                      /\ Complete(log'[b], applied'[b], base'[b],
                                  waiter'[b].good)
    BY DEF BoxInv
  <2>1. /\ log'[b] = log[b] /\ serverPts'[b] = serverPts[b]
        /\ counted'[b] = counted[b] /\ applied'[b] = applied[b]
        /\ base'[b] = base[b]
    OBVIOUS
  <2>2. /\ Tiles(log[b], serverPts[b]) /\ serverPts[b] >= 1
        /\ WaiterInv(waiter[b], counted[b], log[b], serverPts[b], applied[b])
        /\ Complete(log[b], applied[b], base[b], waiter[b].good)
    BY <1>1 DEF BoxInv
  <2>3. waiter'[b].good = waiter[b].good
    BY <1>4
  <2>4. WaiterInv(waiter'[b], counted[b], log[b], serverPts[b], applied[b])
    BY <1>4, <2>2, WaiterAsks
  <2> QED BY <2>1, <2>2, <2>3, <2>4
<1>6. ASSUME NEW b \in Boxes
      PROVE  Requests(b)
  <2>1. CASE ~(b \in bs /\ MayAsk(w, b))
    BY <1>2, <1>4, <2>1 DEF Requests
  <2>2. CASE b \in bs /\ MayAsk(w, b)
    <3>1. NoAnswer(b, net)
      <4>1. CASE w[b] = waiter[b]
        BY <2>2, <4>1, NotWaiting DEF MayAsk
      <4>2. CASE b \in afterFail
        BY <1>1, <4>2 DEF RequestInv
      <4> QED BY <4>1, <4>2
    <3>2. NoAnswer(b, net')
      BY <3>1, NoAnswerLeft
    <3>3. b \in Channels => inited(waiter'[b])
      BY <1>2, <2>2 DEF MayAsk, inited
    <3> QED BY <1>2, <2>2, <3>2, <3>3 DEF Requests
  <2> QED BY <2>1, <2>2
<1>7. IInv'
  <2>1. \A b \in Boxes : counted'[b] \subseteq counted[b]
    OBVIOUS
  <2> QED BY <1>3, <1>5, <1>6, <2>1, RequestsStep
<1>8. FeedStep
  <2>1. \A b \in Boxes : waiter'[b].good = waiter[b].good
    BY <1>4
  <2> QED BY <2>1, FeedStutters
<1> QED BY <1>7, <1>8

(* The answer at the head of the queue, and the waiter x that its box gets *)
(* from it: the box is in the state that it asked in, so what it applied   *)
(* together with the answer is all up to the answer's pts.                 *)
LEMMA DifferenceBox ==
  ASSUME IInv, net /= <<>>, NEW d, d = Head(net), d.type = "difference",
         NEW x \in Waiters, x.queue = {}, x.good = d.pts, x.last = d.pts,
         x.requesting \/ x.count = d.pts
  PROVE  /\ d.box \in Boxes /\ d.pts \in Nat /\ d.pts >= 1
         /\ d.updates \subseteq log[d.box]
         /\ WaiterInv(x, {}, log[d.box], serverPts[d.box],
                      applied[d.box] \cup d.updates)
         /\ Complete(log[d.box], applied[d.box] \cup d.updates,
                     IF d.forget THEN d.pts ELSE base[d.box], x.good)
         /\ waiter[d.box].good <= x.good
         /\ asked[d.box] = NoRequest /\ d.box \notin afterFail
         /\ NoAnswer(d.box, Tail(net))
<1> DEFINE c == d.box
<1>1. TypeOK /\ BoxInv /\ RequestInv
  BY DEF IInv
<1>2. /\ Left(Tail(net)) /\ d \in Messages
      /\ MessageInv(d, waiter, counted, log, serverPts)
      /\ \A i \in DOMAIN Tail(net) : ~Clash(d, Tail(net)[i])
      /\ \A b \in Boxes : IsAnswer(d) /\ d.box = b => ~NoAnswer(b, net)
  BY LeftTail
<1>3. IsAnswer(d)
  BY DEF IsAnswer
<1>4. c \in Boxes /\ d.pts \in Nat /\ d.from \in Nat /\ d.updates \in SUBSET Update
  BY <1>2, <1>3, MessageKinds
<1>5. /\ waiter[c].requesting /\ d.from = waiter[c].good
      /\ Boundary(log[c], serverPts[c], d.pts)
      /\ d.from <= d.pts /\ d.pts >= 1 /\ d.updates \subseteq log[c]
      /\ d.forget \/ Complete(log[c], d.updates, d.from, d.pts)
  BY <1>2, <1>3 DEF MessageInv
<1>6. NoAnswer(c, Tail(net))
  BY <1>2, <1>3 DEF NoAnswer, Clash
<1>7. asked[c] = NoRequest /\ c \notin afterFail
  BY <1>1, <1>2, <1>3, <1>4 DEF RequestInv
<1>8. /\ log[c] \in SUBSET Update
      /\ applied[c] \cup d.updates \in SUBSET log[c]
      /\ Complete(log[c], applied[c], base[c], d.from)
  BY <1>1, <1>4, <1>5 DEF TypeOK, BoxInv, WaiterInv
<1>9. WaiterInv(x, {}, log[c], serverPts[c], applied[c] \cup d.updates)
  <2> DEFINE y == [x EXCEPT !.count = d.pts]
  <2>1. y \in Waiters
    BY <1>4 DEF Waiters
  <2>2. y.queue = {} /\ y.last = d.pts /\ y.count = d.pts /\ y.good = d.pts
    BY DEF Waiters
  <2>3. y.requesting = x.requesting
    BY DEF Waiters
  <2> HIDE DEF y
  <2>4. WaiterInv(y, {}, log[c], serverPts[c], applied[c] \cup d.updates)
    BY <1>5, <1>8, <2>1, <2>2, FreshWaiter
  <2>5. CASE x.requesting
    BY <2>2, <2>4, <2>5, WaiterAsks
  <2>6. CASE x.count = d.pts
    BY <1>5, <1>8, <2>6, FreshWaiter
  <2> QED BY <2>5, <2>6
<1>10. Complete(log[c], applied[c] \cup d.updates,
                IF d.forget THEN d.pts ELSE base[c], x.good)
  <2>1. CASE d.forget
    BY <1>4, <1>8, <2>1 DEF Complete, Update
  <2>2. CASE ~d.forget
    <3>1. \A v \in log[c] : d.from < v.pts /\ v.pts <= d.pts
                              => v \in applied[c] \cup d.updates
      BY <1>5, <2>2 DEF Complete
    <3>2. Complete(log[c], applied[c] \cup d.updates, base[c], d.pts)
      BY <1>4, <1>8, <3>1, GapClosed
    <3> QED BY <2>2, <3>2
  <2> QED BY <2>1, <2>2
<1> QED BY <1>4, <1>5, <1>6, <1>7, <1>8, <1>9, <1>10

(* init() and setRequesting(false).                                        *)
LEMMA AnsweredResult ==
  ASSUME NEW w \in Waiters, NEW pts \in Nat,
         NEW x, x = setRequesting(init(w, pts), FALSE)
  PROVE  /\ x \in Waiters /\ ~x.requesting
         /\ x.queue = {} /\ x.good = pts /\ x.last = pts /\ x.count = pts
<1>1. x \in Waiters
  BY DEF setRequesting, init, Waiters
<1>2. ~x.requesting
  BY DEF setRequesting, init, Waiters
<1>3. x.queue = {} /\ x.good = pts /\ x.last = pts /\ x.count = pts
  BY DEF setRequesting, init, Waiters
<1> QED BY <1>1, <1>2, <1>3

(* What a difference answer may do to the other boxes.                     *)
Untouched(b) ==
  /\ waiter'[b] = waiter[b] /\ asked'[b] = asked[b]
  /\ b \in afterFail' <=> b \in afterFail

FirstAsked(b) ==
  /\ ~waiter[b].requesting
  /\ b \in Channels => inited(waiter[b])
  /\ waiter'[b].requesting /\ waiter'[b].queue = {}
  /\ waiter'[b].good = waiter[b].good
  /\ waiter'[b].last = waiter[b].last
  /\ asked'[b] = waiter[b].good /\ b \notin afterFail'

(* An answer is taken by its box, which may ask for more; other boxes may  *)
(* be asked about.                                                         *)
LEMMA DifferenceStep ==
  ASSUME IInv, net /= <<>>, net' = Tail(net),
         UNCHANGED <<log, serverPts, unsent>>, TypeOK',
         NEW d, d = Head(net), d.type = "difference",
         applied' = [applied EXCEPT ![d.box] = @ \cup d.updates],
         counted' = [counted EXCEPT ![d.box] = {}],
         base' = [base EXCEPT ![d.box] = IF d.forget THEN d.pts ELSE @],
         waiter'[d.box].queue = {}, waiter'[d.box].good = d.pts,
         waiter'[d.box].last = d.pts,
         \/ /\ ~waiter'[d.box].requesting /\ waiter'[d.box].count = d.pts
            /\ asked'[d.box] = asked[d.box] /\ d.box \notin afterFail'
         \/ /\ waiter'[d.box].requesting /\ asked'[d.box] = d.pts
            /\ d.box \notin afterFail',
         \A b \in Boxes \ {d.box} :
           Untouched(b) \/ FirstAsked(b)
  PROVE  IInv' /\ FeedStep
<1> DEFINE c == d.box
<1>1. TypeOK /\ BoxInv /\ RequestInv
  BY DEF IInv
<1>2. Left(net') /\ d \in Messages /\ IsAnswer(d)
  BY LeftTail DEF IsAnswer
<1>3. c \in Boxes
  BY <1>2, MessageKinds
<1>4. waiter'[c] \in Waiters
  BY <1>3 DEF TypeOK
<1>5. /\ d.pts \in Nat /\ d.pts >= 1
      /\ d.updates \subseteq log[c]
      /\ WaiterInv(waiter'[c], {}, log[c], serverPts[c],
                   applied[c] \cup d.updates)
      /\ Complete(log[c], applied[c] \cup d.updates,
                  IF d.forget THEN d.pts ELSE base[c], waiter'[c].good)
      /\ waiter[c].good <= waiter'[c].good
      /\ asked[c] = NoRequest /\ c \notin afterFail
      /\ NoAnswer(c, net')
  <2> DEFINE x == waiter'[c]
  <2>1. /\ x \in Waiters /\ x.queue = {} /\ x.good = d.pts /\ x.last = d.pts
        /\ x.requesting \/ x.count = d.pts
    BY <1>4
  <2> HIDE DEF x
  <2>2. /\ d.pts \in Nat /\ d.pts >= 1
        /\ d.updates \subseteq log[c]
        /\ WaiterInv(x, {}, log[c], serverPts[c], applied[c] \cup d.updates)
        /\ Complete(log[c], applied[c] \cup d.updates,
                    IF d.forget THEN d.pts ELSE base[c], x.good)
        /\ waiter[c].good <= x.good
        /\ asked[c] = NoRequest /\ c \notin afterFail
        /\ NoAnswer(c, Tail(net))
    BY <2>1, DifferenceBox
  <2>3. net' = Tail(net)
    OBVIOUS
  <2> QED BY <2>2, <2>3 DEF x
<1>6. /\ applied'[c] = applied[c] \cup d.updates /\ counted'[c] = {}
      /\ base'[c] = IF d.forget THEN d.pts ELSE base[c]
      /\ \A b \in Boxes \ {c} :
           applied'[b] = applied[b] /\ counted'[b] = counted[b]
           /\ base'[b] = base[b]
  BY <1>1, <1>3 DEF TypeOK
<1>7. BoxInv'
  <2> SUFFICES ASSUME NEW b \in Boxes
               PROVE  /\ Tiles(log'[b], serverPts'[b]) /\ serverPts'[b] >= 1
                      /\ WaiterInv(waiter'[b], counted'[b], log'[b],
                                   serverPts'[b], applied'[b])
                      /\ Complete(log'[b], applied'[b], base'[b],
                                  waiter'[b].good)
    BY DEF BoxInv
  <2>1. log'[b] = log[b] /\ serverPts'[b] = serverPts[b]
    OBVIOUS
  <2>2. /\ Tiles(log[b], serverPts[b]) /\ serverPts[b] >= 1
        /\ WaiterInv(waiter[b], counted[b], log[b], serverPts[b], applied[b])
        /\ Complete(log[b], applied[b], base[b], waiter[b].good)
    BY <1>1 DEF BoxInv
  <2>3. CASE b = c
    <3>1. /\ log'[b] = log[c] /\ serverPts'[b] = serverPts[c]
          /\ counted'[b] = {} /\ applied'[b] = applied[c] \cup d.updates
          /\ base'[b] = IF d.forget THEN d.pts ELSE base[c]
          /\ waiter'[b] = waiter'[c]
      BY <1>6, <2>1, <2>3
    <3>2. WaiterInv(waiter'[b], counted'[b], log'[b], serverPts'[b], applied'[b])
      BY <1>5, <3>1
    <3>3. Complete(log'[b], applied'[b], base'[b], waiter'[b].good)
      BY <1>5, <3>1
    <3> QED BY <2>1, <2>2, <3>2, <3>3
  <2>4. CASE b /= c
    <3>1. waiter'[b].good = waiter[b].good
      BY <2>4 DEF Untouched, FirstAsked
    <3>2. WaiterInv(waiter'[b], counted[b], log[b], serverPts[b], applied[b])
      BY <2>2, <2>4, WaiterAsks DEF Untouched, FirstAsked
    <3> QED BY <1>6, <2>1, <2>2, <2>4, <3>1, <3>2
  <2> QED BY <2>3, <2>4
<1>8. ASSUME NEW b \in Boxes
      PROVE  Requests(b)
  <2>1. CASE b = c
    <3>1. b \in Channels => inited(waiter'[b])
      BY <1>5, <2>1 DEF inited
    <3> QED BY <1>5, <2>1, <3>1 DEF Requests
  <2>2. CASE Untouched(b)
    BY <2>2 DEF Untouched, Requests
  <2>3. CASE FirstAsked(b)
    <3>1. NoAnswer(b, net')
      BY <1>2, <2>3, NotWaiting, NoAnswerLeft DEF FirstAsked
    <3> QED BY <2>3, <3>1 DEF FirstAsked, Requests, inited
  <2> QED BY <2>1, <2>2, <2>3
<1>9. IInv'
  <2>1. \A b \in Boxes : counted'[b] \subseteq counted[b]
    BY <1>6
  <2> QED BY <1>2, <1>7, <1>8, <2>1, RequestsStep
<1>10. FeedStep
  <2>1. applied[c] \subseteq log[c] /\ d.updates \in SUBSET log[c]
    BY <1>1, <1>3, <1>5 DEF BoxInv, WaiterInv
  <2>2. \A b \in Boxes \ {c} : waiter'[b].good = waiter[b].good
    BY DEF Untouched, FirstAsked
  <2>3. CASE d.forget
    <3>1. base' = [base EXCEPT ![c] = waiter'[c].good]
      BY <2>3
    <3> QED BY <1>1, <1>3, <1>5, <2>1, <2>2, <3>1, FeedAdvances
  <2>4. CASE ~d.forget
    <3>1. base' = base
      BY <1>1, <2>4 DEF TypeOK
    <3>2. Complete(log[c], applied[c] \cup d.updates, base[c], waiter'[c].good)
      BY <1>5, <2>4
    <3> QED BY <1>1, <1>3, <1>5, <2>1, <2>2, <3>1, <3>2, FeedAdvances
  <2> QED BY <2>3, <2>4
<1> QED BY <1>9, <1>10

-----------------------------------------------------------------------------
(* The actions of the client.                                              *)

(* Only timers and windows change.                                         *)
LEMMA IdleStep ==
  ASSUME IInv, Left(net'),
         UNCHANGED <<log, serverPts, unsent, waiter, asked, afterFail,
                     applied, counted, base>>,
         byPts' \subseteq Boxes, byMinChannel' \in BOOLEAN,
         active' \subseteq Channels
  PROVE  IInv' /\ FeedStep
<1>1. TypeOK'
  BY DEF IInv, TypeOK, Left
<1>2. BoxInv'
  BY DEF IInv, BoxInv
<1>3. \A b \in Boxes : Requests(b) /\ counted'[b] \subseteq counted[b]
  BY DEF Requests
<1>4. \A b \in Boxes : waiter'[b].good = waiter[b].good
  OBVIOUS
<1> QED BY <1>1, <1>2, <1>3, <1>4, RequestsStep, FeedStutters

(* getDifference() for one box.                                            *)
LEMMA AskOneStep ==
  ASSUME IInv, Left(net'), NEW bs \in SUBSET Boxes, Ask(waiter, bs),
         UNCHANGED <<log, serverPts, unsent, active, applied, counted, base>>,
         byMinChannel' \in BOOLEAN, byPts' \subseteq byPts
  PROVE  IInv' /\ FeedStep
<1>1. /\ waiter \in [Boxes -> Waiters]
      /\ byPts' \subseteq Boxes /\ active' \subseteq Channels
  BY DEF IInv, TypeOK
<1>2. \A b \in Boxes : waiter[b] = waiter[b]
  OBVIOUS
<1> QED BY <1>1, <1>2, AskStep

(* The common box and the channels are boxes.                              *)
LEMMA CommonIsBox == Common \in Boxes /\ Channels \subseteq Boxes
BY DEF Boxes

(* The invariant puts every box in the situation that the lemmas about its *)
(* waiter ask for.                                                         *)
LEMMA InSituation ==
  ASSUME IInv, NEW b \in Boxes
  PROVE  Situation(waiter[b], counted[b], log[b], serverPts[b],
                   applied[b], base[b])
BY DEF IInv, TypeOK, BoxInv, Situation

(* Nobody else carries the update of the message at the head.              *)
LEMMA HeadUpdate ==
  ASSUME IInv, net /= <<>>, IsUpdate(Head(net)), NEW b, b = Head(net).box,
         NEW u, u = Head(net).update
  PROVE  /\ b \in Boxes /\ u \in Update
         /\ IF u.cnt = 0
              THEN Boundary(log[b], serverPts[b], u.pts) /\ u.pts >= 1
              ELSE u \in log[b] /\ u \notin counted[b]
         /\ \A m \in unsent : IsUpdate(m) /\ m.update.cnt /= 0 /\ m.box = b
                                => m.update /= u
         /\ \A i \in DOMAIN Tail(net) :
              IsUpdate(Tail(net)[i]) /\ Tail(net)[i].update.cnt /= 0
                /\ Tail(net)[i].box = b => Tail(net)[i].update /= u
<1> DEFINE h == Head(net)
<1>1. /\ Left(Tail(net)) /\ h \in Messages
      /\ MessageInv(h, waiter, counted, log, serverPts)
      /\ \A i \in DOMAIN Tail(net) : ~Clash(h, Tail(net)[i])
      /\ \A m \in unsent : ~Clash(h, m)
  BY LeftTail
<1>2. b \in Boxes /\ u \in Update
  BY <1>1, MessageKinds
<1>3. IF u.cnt = 0
        THEN Boundary(log[b], serverPts[b], u.pts) /\ u.pts >= 1
        ELSE u \in log[b] /\ u \notin counted[b]
  BY <1>1 DEF MessageInv
<1>4. ASSUME NEW m \in Messages, ~Clash(h, m), IsUpdate(m),
             m.update.cnt /= 0, m.box = b
      PROVE  m.update /= u
  <2>1. m.update \in Update
    BY <1>4, MessageKinds
  <2>2. m.update.cnt > 0
    BY <1>4, <2>1 DEF Update
  <2> QED BY <1>4, <2>2 DEF Clash
<1>5. unsent \subseteq Messages /\ \A i \in DOMAIN Tail(net) : Tail(net)[i] \in Messages
  BY <1>1 DEF IInv, TypeOK, Left
<1> QED BY <1>1, <1>2, <1>3, <1>4, <1>5

(* feedUpdate(), in all of its cases: ignored, deferred to the common      *)
(* difference, or handed to the waiter.                                    *)
LEMMA feedUpdateStep ==
  ASSUME IInv, net /= <<>>, net' = Tail(net), IsUpdate(Head(net)),
         UNCHANGED <<log, serverPts, unsent>>,
         feedUpdate(Head(net).box, Head(net).update)
  PROVE  IInv' /\ FeedStep
<1>0. PICK b, u : b = Head(net).box /\ u = Head(net).update
  OBVIOUS
<1>1. Left(net')
  BY LeftTail
<1>2. TypeOK
  BY DEF IInv
<1>3. /\ b \in Boxes /\ u \in Update
      /\ IF u.cnt = 0
           THEN Boundary(log[b], serverPts[b], u.pts) /\ u.pts >= 1
           ELSE u \in log[b] /\ u \notin counted[b]
      /\ \A m \in unsent : IsUpdate(m) /\ m.update.cnt /= 0 /\ m.box = b
                             => m.update /= u
      /\ \A i \in DOMAIN net' :
           IsUpdate(net'[i]) /\ net'[i].update.cnt /= 0
             /\ net'[i].box = b => net'[i].update /= u
  BY <1>0, HeadUpdate
<1>4. feedUpdate(b, u)
  BY <1>0
<1>5. CASE /\ byMinChannel' = TRUE
           /\ UNCHANGED <<waiter, byPts, afterFail, active, applied, asked,
                          historyVars>>
  BY <1>1, <1>2, <1>5, IdleStep DEF TypeOK, historyVars
<1>6. CASE Ignored
  BY <1>1, <1>2, <1>6, IdleStep DEF TypeOK, Ignored, clientVars, historyVars
<1>7. CASE getDifference /\ UNCHANGED <<byMinChannel, active, applied, historyVars>>
  <2>1. /\ Ask(waiter, {Common}) /\ {Common} \in SUBSET Boxes
        /\ byPts' \subseteq byPts /\ byMinChannel' \in BOOLEAN
        /\ UNCHANGED <<active, applied, counted, base>>
    BY <1>2, <1>7, CommonIsBox DEF getDifference, TypeOK, historyVars
  <2> QED BY <1>1, <2>1, AskOneStep
<1>8. ASSUME NEW r, r = updateAndApply(waiter[b], u),
             Given(b, r, u, {v \in r.fed : v.cnt > 0})
      PROVE  IInv' /\ FeedStep
  <2> DEFINE done == {v \in r.fed : v.cnt > 0}
  <2>1. Situation(waiter[b], counted[b], log[b], serverPts[b], applied[b], base[b])
    BY <1>3, InSituation
  <2>2. done \subseteq log[b]
        /\ Handled(waiter[b], r, done, u, counted[b], log[b], serverPts[b],
                   applied[b], base[b])
    <3>1. CASE u.cnt = 0
      <4>1. u.pts \in Nat
        BY <1>3 DEF Update
      <4> QED BY <1>3, <1>8, <2>1, <3>1, <4>1, GiveZero
    <3>2. CASE u.cnt /= 0
      <4>1. r.fed \subseteq log[b]
            /\ Handled(waiter[b], r, r.fed, u, counted[b], log[b],
                       serverPts[b], applied[b], base[b])
        BY <1>3, <1>8, <2>1, <3>2, GiveUpdate
      <4>2. \A v \in log[b] : v.cnt > 0
        BY <2>1 DEF Situation, Tiles, Update
      <4>3. done = r.fed
        BY <4>1, <4>2
      <4> HIDE DEF done
      <4> QED BY <4>1, <4>3
    <3> QED BY <3>1, <3>2
  <2>3. Given(b, r, u, done)
    BY <1>8
  <2> HIDE DEF done
  <2> QED BY <1>1, <1>3, <2>2, <2>3, GivenStep
<1> QED BY <1>4, <1>5, <1>6, <1>7, <1>8 DEF feedUpdate

(* mtpUpdateReceived(): a push that is ignored or fed keeps the invariant. *)
LEMMA ReceivePushStep == ASSUME IInv, ReceivePush PROVE IInv' /\ FeedStep
<1>1. /\ net /= <<>> /\ net' = Tail(net) /\ IsUpdate(Head(net))
      /\ UNCHANGED <<log, serverPts, unsent>>
  BY DEF ReceivePush, Receive, IsUpdate
<1>2. CASE requestingDifference
  <2>1. Ignored /\ Left(net')
    BY <1>1, <1>2, LeftTail DEF ReceivePush
  <2> QED BY <1>1, <2>1, IdleStep DEF IInv, TypeOK, Ignored, clientVars, historyVars
<1>3. CASE ~requestingDifference
  <2>1. feedUpdate(Head(net).box, Head(net).update)
    BY <1>3 DEF ReceivePush
  <2> QED BY <1>1, <2>1, feedUpdateStep
<1> QED BY <1>2, <1>3

(* ApiWrap::applyUpdates() keeps it, while a difference is requested too.  *)
LEMMA ReceiveReplyStep == ASSUME IInv, ReceiveReply PROVE IInv' /\ FeedStep
<1>1. /\ net /= <<>> /\ net' = Tail(net) /\ IsUpdate(Head(net))
      /\ UNCHANGED <<log, serverPts, unsent>>
      /\ feedUpdate(Head(net).box, Head(net).update)
  BY DEF ReceiveReply, Receive, IsUpdate
<1> QED BY <1>1, feedUpdateStep

(* applyAffectedHistory() and applyAffectedMessages() keep it.             *)
LEMMA ReceiveAffectedStep == ASSUME IInv, ReceiveAffected PROVE IInv' /\ FeedStep
<1>0. PICK b, u : b = Head(net).box /\ u = Head(net).update
  OBVIOUS
<1> DEFINE r == updateAndApplyAffected(waiter[b], u.pts, u.cnt)
<1>1. /\ net /= <<>> /\ net' = Tail(net) /\ IsUpdate(Head(net))
      /\ UNCHANGED <<log, serverPts, unsent>>
      /\ Given(b, r, u, r.fed \cup {u})
  BY <1>0 DEF ReceiveAffected, Receive, IsUpdate
<1>2. /\ b \in Boxes /\ u \in log[b] /\ u \notin counted[b]
      /\ \A m \in unsent : IsUpdate(m) /\ m.update.cnt /= 0 /\ m.box = b
                             => m.update /= u
      /\ \A i \in DOMAIN net' :
           IsUpdate(net'[i]) /\ net'[i].update.cnt /= 0
             /\ net'[i].box = b => net'[i].update /= u
  <2>1. u.cnt /= 0
    BY <1>0, <1>1, LeftTail DEF MessageInv, ReceiveAffected, Receive
  <2> QED BY <1>0, <1>1, <2>1, HeadUpdate
<1>3. Situation(waiter[b], counted[b], log[b], serverPts[b], applied[b], base[b])
  BY <1>2, InSituation
<1>4. r.fed \subseteq log[b]
      /\ Handled(waiter[b], r, r.fed \cup {u}, u, counted[b], log[b],
                 serverPts[b], applied[b], base[b])
  BY <1>2, <1>3, GiveAffected
<1> DEFINE done == r.fed \cup {u}
<1>5. done \in SUBSET log[b]
  BY <1>2, <1>4
<1>6. Left(net')
  BY <1>1, LeftTail
<1> HIDE DEF r
<1> QED BY <1>1, <1>2, <1>4, <1>5, <1>6, GivenStep

(* ptsReceived() keeps it: the flushed queue holds updates of the log.     *)
LEMMA ReceivePtsReceivedStep ==
  ASSUME IInv, ReceivePtsReceived PROVE IInv' /\ FeedStep
<1>0. PICK b, p : b = Head(net).box /\ p = Head(net).pts
  OBVIOUS
<1> DEFINE r == updateAndApplyAffected(waiter[b], p, 0)
           none == [pts |-> p, cnt |-> 0, via |-> "reply"]
<1>1. /\ net /= <<>> /\ net' = Tail(net) /\ Head(net).type = "received"
      /\ UNCHANGED <<log, serverPts, unsent>>
      /\ Given(b, r, none, r.fed)
  BY <1>0 DEF ReceivePtsReceived, Receive
<1>2. /\ Head(net) \in Messages
      /\ MessageInv(Head(net), waiter, counted, log, serverPts)
      /\ Left(net')
  BY <1>1, LeftTail
<1>3. b \in Boxes /\ p \in Nat
  BY <1>0, <1>1, <1>2, MessageKinds
<1>4. Boundary(log[b], serverPts[b], p) /\ p >= 1
  BY <1>0, <1>1, <1>2 DEF MessageInv
<1>5. Situation(waiter[b], counted[b], log[b], serverPts[b], applied[b], base[b])
  BY <1>3, InSituation
<1>6. none.cnt = 0
  OBVIOUS
<1> HIDE DEF none
<1>7. r.fed \subseteq log[b]
      /\ Handled(waiter[b], r, r.fed, none, counted[b], log[b],
                 serverPts[b], applied[b], base[b])
  BY <1>3, <1>4, <1>5, GivePts
<1>8. /\ \A m \in unsent : IsUpdate(m) /\ m.update.cnt /= 0 /\ m.box = b
                             => m.update /= none
      /\ \A i \in DOMAIN net' :
           IsUpdate(net'[i]) /\ net'[i].update.cnt /= 0
             /\ net'[i].box = b => net'[i].update /= none
  BY <1>6
<1> HIDE DEF r
<1> QED BY <1>1, <1>2, <1>3, <1>7, <1>8, GivenStep

(* A too-long notice at most asks for a difference.                        *)
LEMMA ReceiveTooLongStep == ASSUME IInv, ReceiveTooLong PROVE IInv' /\ FeedStep
<1>1. /\ net /= <<>> /\ net' = Tail(net) /\ Head(net).type = "tooLong"
      /\ UNCHANGED <<log, serverPts, unsent>>
  BY DEF ReceiveTooLong, Receive
<1>2. Left(net') /\ Head(net).box \in Boxes
  BY <1>1, LeftTail, MessageKinds
<1>3. CASE Ignored
  BY <1>1, <1>2, <1>3, IdleStep DEF IInv, TypeOK, Ignored, clientVars, historyVars
<1>4. CASE /\ Ask(waiter, {Head(net).box})
           /\ byPts' = byPts \ {Head(net).box}
           /\ UNCHANGED <<byMinChannel, active, applied, historyVars>>
  <2>1. /\ {Head(net).box} \in SUBSET Boxes /\ byPts' \subseteq byPts
        /\ byMinChannel' \in BOOLEAN /\ UNCHANGED <<active, applied, counted, base>>
    BY <1>2, <1>4 DEF IInv, TypeOK, historyVars
  <2> QED BY <1>1, <1>2, <1>4, <2>1, AskOneStep
<1> QED BY <1>3, <1>4 DEF ReceiveTooLong

(* A failed request moves from the network to the retry timer.             *)
LEMMA ReceiveFailStep == ASSUME IInv, ReceiveFail PROVE IInv' /\ FeedStep
<1> DEFINE c == Head(net).box
<1>1. /\ net /= <<>> /\ net' = Tail(net) /\ IsAnswer(Head(net))
      /\ afterFail' = afterFail \cup {c}
      /\ UNCHANGED <<log, serverPts, unsent, waiter, byPts, byMinChannel,
                     active, applied, asked, counted, base>>
  BY DEF ReceiveFail, Receive, IsAnswer, historyVars
<1>2. /\ Left(net') /\ Head(net) \in Messages
      /\ MessageInv(Head(net), waiter, counted, log, serverPts)
      /\ \A i \in DOMAIN net' : ~Clash(Head(net), net'[i])
      /\ \A b \in Boxes : IsAnswer(Head(net)) /\ Head(net).box = b
                            => ~NoAnswer(b, net)
  BY <1>1, LeftTail
<1>3. c \in Boxes
  BY <1>1, <1>2, MessageKinds
<1>4. waiter[c].requesting
  BY <1>1, <1>2 DEF MessageInv
<1>5. asked[c] = NoRequest
  BY <1>1, <1>2, <1>3 DEF IInv, RequestInv
<1>6. NoAnswer(c, net')
  BY <1>1, <1>2 DEF NoAnswer, Clash
<1>7. TypeOK'
  BY <1>1, <1>2, <1>3 DEF IInv, TypeOK, Left
<1>8. BoxInv'
  BY <1>1 DEF IInv, BoxInv
<1> HIDE DEF c
<1>9. \A b \in Boxes : Requests(b) /\ counted'[b] \subseteq counted[b]
  BY <1>1, <1>4, <1>5, <1>6 DEF Requests
<1>10. \A b \in Boxes : waiter'[b].good = waiter[b].good
  BY <1>1
<1> QED BY <1>1, <1>2, <1>7, <1>8, <1>9, <1>10, RequestsStep, FeedStutters

(* mtpNewSessionCreated() at most asks for the common difference.          *)
LEMMA ReceiveNewSessionStep ==
  ASSUME IInv, ReceiveNewSession PROVE IInv' /\ FeedStep
<1>1. /\ net /= <<>> /\ net' = Tail(net) /\ UNCHANGED <<log, serverPts, unsent>>
      /\ Ask(waiter, {Common}) /\ {Common} \in SUBSET Boxes
      /\ byPts' \subseteq byPts /\ byMinChannel' \in BOOLEAN
      /\ UNCHANGED <<active, applied, counted, base>>
  BY CommonIsBox DEF ReceiveNewSession, Receive, getDifference, IInv, TypeOK,
                     historyVars
<1>2. Left(net')
  BY <1>1, LeftTail
<1> QED BY <1>1, <1>2, AskOneStep

(* getDifferenceByPts() asks for the boxes that are due and not            *)
(* requesting.                                                             *)
LEMMA PtsTimerStep ==
  ASSUME IInv, NEW due \in SUBSET byPts, PtsTimer(due) PROVE IInv' /\ FeedStep
<1>1. /\ Ask(waiter, due) /\ due \in SUBSET Boxes
      /\ byPts' \subseteq byPts /\ byMinChannel' \in BOOLEAN /\ net' = net
      /\ UNCHANGED <<log, serverPts, unsent, active, applied, counted, base>>
  BY DEF PtsTimer, IInv, TypeOK, historyVars
<1>2. Left(net')
  BY <1>1, LeftAll
<1> QED BY <1>1, <1>2, AskOneStep

(* getDifferenceAfterFail() replaces failed requests: no answer to them is *)
(* left.                                                                   *)
LEMMA FailTimerStep ==
  ASSUME IInv, NEW due \in SUBSET afterFail, FailTimer(due) PROVE IInv' /\ FeedStep
<1> DEFINE w == [b \in Boxes |-> IF b \in due
                                   THEN setRequesting(waiter[b], FALSE)
                                   ELSE waiter[b]]
<1>1. /\ Ask(w, due) /\ due \in SUBSET Boxes /\ net' = net
      /\ byPts' \subseteq Boxes /\ byMinChannel' \in BOOLEAN
      /\ active' \subseteq Channels
      /\ UNCHANGED <<log, serverPts, unsent, applied, counted, base>>
  BY DEF FailTimer, IInv, TypeOK, historyVars
<1>2. Left(net')
  BY <1>1, LeftAll
<1>3. ASSUME NEW b \in Boxes
      PROVE  LET x == setRequesting(waiter[b], FALSE)
             IN  /\ x \in Waiters /\ ~x.requesting
                 /\ x.good = waiter[b].good /\ x.last = waiter[b].last
  <2>1. waiter[b] \in Waiters
    BY DEF IInv, TypeOK
  <2>2. setRequesting(waiter[b], FALSE) \in Waiters
    BY <2>1 DEF setRequesting, Waiters
  <2>3. ~setRequesting(waiter[b], FALSE).requesting
    BY <2>1 DEF setRequesting, Waiters
  <2>4. /\ setRequesting(waiter[b], FALSE).good = waiter[b].good
        /\ setRequesting(waiter[b], FALSE).last = waiter[b].last
    BY <2>1 DEF setRequesting, Waiters
  <2> QED BY <2>2, <2>3, <2>4
<1>4. w \in [Boxes -> Waiters]
  BY <1>3 DEF IInv, TypeOK
<1>5. \A b \in Boxes : \/ w[b] = waiter[b]
                       \/ /\ b \in due /\ b \in afterFail
                          /\ ~w[b].requesting
                          /\ w[b].good = waiter[b].good
                          /\ w[b].last = waiter[b].last
  BY <1>3
<1> HIDE DEF w
<1> QED BY <1>1, <1>2, <1>4, <1>5, AskStep

(* _byMinChannelTimer at most asks for the common difference.              *)
LEMMA MinChannelTimerStep == ASSUME IInv, MinChannelTimer PROVE IInv' /\ FeedStep
<1>1. /\ Ask(waiter, {Common}) /\ {Common} \in SUBSET Boxes
      /\ byPts' \subseteq byPts /\ byMinChannel' \in BOOLEAN /\ net' = net
      /\ UNCHANGED <<log, serverPts, unsent, active, applied, counted, base>>
  BY CommonIsBox DEF MinChannelTimer, getDifference, historyVars
<1>2. Left(net')
  BY <1>1, LeftAll
<1> QED BY <1>1, <1>2, AskOneStep

(* setWaitingForShortPoll() changes nothing but its flag.                  *)
LEMMA ShortPollResult ==
  ASSUME NEW w \in Waiters, NEW wait \in BOOLEAN,
         NEW r, r = setWaitingForShortPoll(w, wait)
  PROVE  /\ r.w \in Waiters /\ r.w.requesting = w.requesting
         /\ r.w.waitingForSkipped = w.waitingForSkipped
         /\ r.w.queue = w.queue /\ r.w.good = w.good
         /\ r.w.last = w.last /\ r.w.count = w.count
<1>0. r.w = [w EXCEPT !.waitingForShortPoll = wait]
  BY DEF setWaitingForShortPoll
<1>1. r.w \in Waiters
  BY <1>0 DEF Waiters
<1>2. r.w.requesting = w.requesting
  BY <1>0 DEF Waiters
<1>3. r.w.waitingForSkipped = w.waitingForSkipped
  BY <1>0 DEF Waiters
<1>4. r.w.queue = w.queue /\ r.w.good = w.good
      /\ r.w.last = w.last /\ r.w.count = w.count
  BY <1>0 DEF Waiters
<1> QED BY <1>1, <1>2, <1>3, <1>4

(* addActiveChat() touches the poll of a channel only.                     *)
LEMMA ShowChatStep ==
  ASSUME IInv, NEW b \in Channels, NEW show \in BOOLEAN, ShowChat(b, show)
  PROVE  IInv' /\ FeedStep
<1> DEFINE r == setWaitingForShortPoll(waiter[b], show)
<1>1. /\ waiter' = [waiter EXCEPT ![b] = r.w]
      /\ active' \subseteq Channels /\ byPts' \subseteq Boxes /\ net' = net
      /\ UNCHANGED <<byMinChannel, afterFail, applied, log, serverPts, unsent,
                     asked, counted, base>>
  BY CommonIsBox DEF ShowChat, ptsWaiterStartTimerFor, IInv, TypeOK,
                     serverVars, historyVars
<1>2. b \in Boxes /\ waiter[b] \in Waiters
  BY CommonIsBox DEF IInv, TypeOK
<1>3. /\ r.w \in Waiters /\ r.w.requesting = waiter[b].requesting
      /\ r.w.waitingForSkipped = waiter[b].waitingForSkipped
      /\ r.w.queue = waiter[b].queue /\ r.w.good = waiter[b].good
      /\ r.w.last = waiter[b].last /\ r.w.count = waiter[b].count
  BY <1>2, ShortPollResult
<1>4. Left(net')
  BY <1>1, LeftAll
<1> HIDE DEF r
<1>5. waiter'[b] = r.w /\ \A c \in Boxes \ {b} : waiter'[c] = waiter[c]
  BY <1>1, <1>2 DEF IInv, TypeOK
<1>6. TypeOK'
  BY <1>1, <1>3, <1>4 DEF IInv, TypeOK, Left
<1>7. BoxInv'
  <2> SUFFICES ASSUME NEW c \in Boxes
               PROVE  /\ Tiles(log'[c], serverPts'[c]) /\ serverPts'[c] >= 1
                      /\ WaiterInv(waiter'[c], counted'[c], log'[c],
                                   serverPts'[c], applied'[c])
                      /\ Complete(log'[c], applied'[c], base'[c],
                                  waiter'[c].good)
    BY DEF BoxInv
  <2>1. /\ log'[c] = log[c] /\ serverPts'[c] = serverPts[c]
        /\ counted'[c] = counted[c] /\ applied'[c] = applied[c]
        /\ base'[c] = base[c]
    BY <1>1
  <2>2. /\ Tiles(log[c], serverPts[c]) /\ serverPts[c] >= 1
        /\ WaiterInv(waiter[c], counted[c], log[c], serverPts[c], applied[c])
        /\ Complete(log[c], applied[c], base[c], waiter[c].good)
    BY DEF IInv, BoxInv
  <2>3. WaiterInv(waiter'[c], counted[c], log[c], serverPts[c], applied[c])
    <3>1. CASE c = b
      BY <1>3, <1>5, <2>2, <3>1 DEF WaiterInv
    <3>2. CASE c /= b
      BY <1>5, <2>2, <3>2
    <3> QED BY <3>1, <3>2
  <2>4. waiter'[c].good = waiter[c].good
    BY <1>3, <1>5
  <2> QED BY <2>1, <2>2, <2>3, <2>4
<1>8. \A c \in Boxes : /\ waiter'[c].good = waiter[c].good
                       /\ waiter'[c].requesting = waiter[c].requesting
  BY <1>3, <1>5
<1>9. \A c \in Boxes : Requests(c) /\ counted'[c] \subseteq counted[c]
  BY <1>1, <1>8 DEF Requests
<1> QED BY <1>1, <1>4, <1>6, <1>7, <1>8, <1>9, RequestsStep, FeedStutters

(* A window that closes touches no waiter.                                 *)
LEMMA CloseWindowStep ==
  ASSUME IInv, NEW b \in active, CloseWindow(b) PROVE IInv' /\ FeedStep
<1>1. /\ active' \subseteq Channels /\ byPts' \subseteq Boxes
      /\ byMinChannel' \in BOOLEAN /\ net' = net
      /\ UNCHANGED <<log, serverPts, unsent, waiter, asked, afterFail,
                     applied, counted, base>>
  BY DEF CloseWindow, IInv, TypeOK, serverVars, historyVars
<1>2. Left(net')
  BY <1>1, LeftAll
<1> QED BY <1>1, <1>2, IdleStep

(* stateDone() and differenceDone(): the answer is complete from the pts   *)
(* that the box still has.                                                 *)
LEMMA ReceiveDifferenceStep ==
  ASSUME IInv, ReceiveDifference PROVE IInv' /\ FeedStep
<1>0. PICK d : d = Head(net)
  OBVIOUS
<1> DEFINE x == setRequesting(init(waiter[Common], d.pts), FALSE)
           w == [waiter EXCEPT ![Common] = x]
           bs == (IF d.forget THEN {}
                  ELSE {c \in Channels : waiter[c].good < d.channels[c]})
                   \cup (IF d.final THEN {} ELSE {Common})
<1>1. /\ net /= <<>> /\ net' = Tail(net) /\ d.type = "difference"
      /\ d.box = Common
      /\ Ask(w, bs) /\ byPts' = byPts \ bs
      /\ applied' = [applied EXCEPT ![d.box] = @ \cup d.updates]
      /\ counted' = [counted EXCEPT ![d.box] = {}]
      /\ base' = [base EXCEPT ![d.box] = IF d.forget THEN d.pts ELSE @]
      /\ UNCHANGED <<log, serverPts, unsent, byMinChannel, active>>
  BY <1>0 DEF ReceiveDifference, Receive
<1>2. TypeOK /\ Common \in Boxes /\ bs \in SUBSET Boxes
  BY CommonIsBox DEF IInv
<1>3. d \in Messages /\ Left(net')
  BY <1>0, <1>1, LeftTail
<1>4. d.pts \in Nat /\ d.updates \in SUBSET Update
  BY <1>1, <1>3, MessageKinds
<1>5. /\ x \in Waiters /\ ~x.requesting
      /\ x.queue = {} /\ x.good = d.pts /\ x.last = d.pts /\ x.count = d.pts
  <2>1. waiter[Common] \in Waiters /\ x = setRequesting(init(waiter[Common], d.pts), FALSE)
    BY <1>2 DEF TypeOK
  <2> HIDE DEF x
  <2>2. ~x.requesting
    BY <1>4, <2>1, AnsweredResult
  <2>3. x \in Waiters
    BY <1>4, <2>1, AnsweredResult
  <2>4. x.queue = {} /\ x.good = d.pts /\ x.last = d.pts /\ x.count = d.pts
    BY <1>4, <2>1 DEF setRequesting, init, Waiters
  <2> QED BY <2>2, <2>3, <2>4
<1> HIDE DEF x, bs
<1>6. /\ w \in [Boxes -> Waiters] /\ w[Common] = x
      /\ \A b \in Boxes \ {Common} : w[b] = waiter[b]
  BY <1>2, <1>5 DEF TypeOK
<1> HIDE DEF w
<1>7. /\ waiter' \in [Boxes -> Waiters]
      /\ asked' \in [Boxes -> Nat \cup {NoRequest}]
      /\ afterFail' \subseteq Boxes
      /\ \A b \in Boxes :
           IF b \in bs /\ MayAsk(w, b)
             THEN /\ waiter'[b].requesting /\ waiter'[b].queue = {}
                  /\ waiter'[b].good = w[b].good
                  /\ waiter'[b].last = w[b].last
                  /\ asked'[b] = w[b].good /\ b \notin afterFail'
             ELSE /\ waiter'[b] = w[b] /\ asked'[b] = asked[b]
                  /\ b \in afterFail' <=> b \in afterFail
  BY <1>1, <1>2, <1>6, AskResult
<1>8. TypeOK'
  <2>1. applied' \in [Boxes -> SUBSET Update]
    BY <1>1, <1>2, <1>4 DEF TypeOK
  <2>2. counted' \in [Boxes -> SUBSET Update] /\ base' \in [Boxes -> Nat]
    BY <1>1, <1>2, <1>4 DEF TypeOK
  <2> QED BY <1>1, <1>2, <1>3, <1>7, <2>1, <2>2 DEF TypeOK, Left
<1>9. d.box \notin afterFail
  BY <1>0, <1>1, <1>5, DifferenceBox
<1>10. /\ waiter'[d.box].queue = {} /\ waiter'[d.box].good = d.pts
       /\ waiter'[d.box].last = d.pts
       /\ \/ /\ ~waiter'[d.box].requesting /\ waiter'[d.box].count = d.pts
             /\ asked'[d.box] = asked[d.box] /\ d.box \notin afterFail'
          \/ /\ waiter'[d.box].requesting /\ asked'[d.box] = d.pts
             /\ d.box \notin afterFail'
  BY <1>1, <1>2, <1>5, <1>6, <1>7, <1>9
<1>11. \A b \in Boxes \ {d.box} : Untouched(b) \/ FirstAsked(b)
  BY <1>1, <1>6, <1>7 DEF MayAsk, Untouched, FirstAsked
<1> QED BY <1>0, <1>1, <1>8, <1>10, <1>11, DifferenceStep

(* channelDifferenceDone(): likewise, for a channel.                       *)
LEMMA ReceiveChannelDifferenceStep ==
  ASSUME IInv, ReceiveChannelDifference PROVE IInv' /\ FeedStep
<1>0. PICK d, b : d = Head(net) /\ b = d.box
  OBVIOUS
<1> DEFINE x == setRequesting(init(waiter[b], d.pts), FALSE)
           w == [waiter EXCEPT ![b] = x]
           wait == b \in active
           r == setWaitingForShortPoll(x, wait)
<1>1. /\ net /= <<>> /\ net' = Tail(net) /\ d.type = "difference"
      /\ b \in Channels
      /\ applied' = [applied EXCEPT ![d.box] = @ \cup d.updates]
      /\ counted' = [counted EXCEPT ![d.box] = {}]
      /\ base' = [base EXCEPT ![d.box] = IF d.forget THEN d.pts ELSE @]
      /\ UNCHANGED <<log, serverPts, unsent, byMinChannel, active>>
      /\ IF d.final
           THEN /\ waiter' = [waiter EXCEPT ![b] = r.w]
                /\ ptsWaiterStartTimerFor(b, r.timer)
                /\ UNCHANGED <<asked, afterFail>>
           ELSE /\ Ask(w, {b})
                /\ byPts' = byPts \ {b}
  BY <1>0 DEF ReceiveChannelDifference, Receive
<1>2. TypeOK /\ b \in Boxes
  BY <1>1, CommonIsBox DEF IInv
<1>3. d \in Messages /\ Left(net')
  BY <1>0, <1>1, LeftTail
<1>4. d.pts \in Nat /\ d.updates \in SUBSET Update
  BY <1>1, <1>3, MessageKinds
<1>5. /\ x \in Waiters /\ ~x.requesting
      /\ x.queue = {} /\ x.good = d.pts /\ x.last = d.pts /\ x.count = d.pts
  <2>1. waiter[b] \in Waiters /\ x = setRequesting(init(waiter[b], d.pts), FALSE)
    BY <1>2 DEF TypeOK
  <2> HIDE DEF x
  <2>2. ~x.requesting
    BY <1>4, <2>1, AnsweredResult
  <2>3. x \in Waiters
    BY <1>4, <2>1, AnsweredResult
  <2>4. x.queue = {} /\ x.good = d.pts /\ x.last = d.pts /\ x.count = d.pts
    BY <1>4, <2>1 DEF setRequesting, init, Waiters
  <2> QED BY <2>2, <2>3, <2>4
<1> HIDE DEF x
<1>6. /\ w \in [Boxes -> Waiters] /\ w[b] = x
      /\ \A c \in Boxes \ {b} : w[c] = waiter[c]
  BY <1>2, <1>5 DEF TypeOK
<1>7. /\ r.w \in Waiters /\ r.w.requesting = x.requesting
      /\ r.w.queue = x.queue /\ r.w.good = x.good
      /\ r.w.last = x.last /\ r.w.count = x.count
  <2>1. wait \in BOOLEAN /\ r = setWaitingForShortPoll(x, wait)
    OBVIOUS
  <2> HIDE DEF r, wait
  <2> QED BY <1>5, <2>1, ShortPollResult
<1> HIDE DEF w, r
<1>8. d.box \notin afterFail
  BY <1>0, <1>1, <1>5, DifferenceBox
<1>9. /\ applied' \in [Boxes -> SUBSET Update]
      /\ counted' \in [Boxes -> SUBSET Update] /\ base' \in [Boxes -> Nat]
  <2>1. applied' \in [Boxes -> SUBSET Update]
    BY <1>1, <1>2, <1>4 DEF TypeOK
  <2>2. counted' \in [Boxes -> SUBSET Update] /\ base' \in [Boxes -> Nat]
    BY <1>1, <1>2, <1>4 DEF TypeOK
  <2> QED BY <2>1, <2>2
<1>10. CASE d.final
  <2>1. /\ waiter' = [waiter EXCEPT ![b] = r.w]
        /\ byPts' \subseteq Boxes /\ UNCHANGED <<asked, afterFail>>
    BY <1>1, <1>2, <1>10 DEF ptsWaiterStartTimerFor, TypeOK
  <2>2. waiter'[b] = r.w /\ \A c \in Boxes \ {b} : waiter'[c] = waiter[c]
    BY <1>2, <2>1 DEF TypeOK
  <2>3. TypeOK'
    BY <1>1, <1>2, <1>3, <1>7, <1>9, <2>1 DEF TypeOK, Left
  <2>4. /\ waiter'[d.box].queue = {} /\ waiter'[d.box].good = d.pts
        /\ waiter'[d.box].last = d.pts
        /\ ~waiter'[d.box].requesting /\ waiter'[d.box].count = d.pts
        /\ asked'[d.box] = asked[d.box] /\ d.box \notin afterFail'
    BY <1>0, <1>5, <1>7, <1>8, <2>1, <2>2
  <2>5. \A c \in Boxes \ {d.box} : Untouched(c)
    BY <1>0, <2>1, <2>2 DEF Untouched
  <2> QED BY <1>0, <1>1, <2>3, <2>4, <2>5, DifferenceStep
<1>11. CASE ~d.final
  <2>1. /\ waiter' \in [Boxes -> Waiters]
        /\ asked' \in [Boxes -> Nat \cup {NoRequest}]
        /\ afterFail' \subseteq Boxes
        /\ \A c \in Boxes :
             IF c \in {b} /\ MayAsk(w, c)
               THEN /\ waiter'[c].requesting /\ waiter'[c].queue = {}
                    /\ waiter'[c].good = w[c].good
                    /\ waiter'[c].last = w[c].last
                    /\ asked'[c] = w[c].good /\ c \notin afterFail'
               ELSE /\ waiter'[c] = w[c] /\ asked'[c] = asked[c]
                    /\ c \in afterFail' <=> c \in afterFail
    BY <1>1, <1>2, <1>6, <1>11, AskResult
  <2>2. TypeOK'
    BY <1>1, <1>2, <1>3, <1>9, <1>11, <2>1 DEF TypeOK, Left
  <2>3. /\ waiter'[d.box].queue = {} /\ waiter'[d.box].good = d.pts
        /\ waiter'[d.box].last = d.pts
        /\ \/ /\ ~waiter'[d.box].requesting /\ waiter'[d.box].count = d.pts
              /\ asked'[d.box] = asked[d.box] /\ d.box \notin afterFail'
           \/ /\ waiter'[d.box].requesting /\ asked'[d.box] = d.pts
              /\ d.box \notin afterFail'
    BY <1>0, <1>2, <1>5, <1>6, <1>8, <2>1
  <2>4. \A c \in Boxes \ {d.box} : Untouched(c)
    BY <1>0, <1>6, <2>1 DEF Untouched
  <2> QED BY <1>0, <1>1, <2>2, <2>3, <2>4, DifferenceStep
<1> QED BY <1>10, <1>11

-----------------------------------------------------------------------------
(* The actions of the server.                                              *)

(* All of them leave the client alone; all but ServerUpdate the logs.      *)
LEMMA ServerStep ==
  ASSUME IInv, UNCHANGED <<clientVars, historyVars, log, serverPts>>,
         TypeOK', NetInv', RequestInv'
  PROVE  IInv' /\ FeedStep
<1>1. UNCHANGED <<waiter, counted, log, serverPts, applied, base>>
  BY DEF clientVars, historyVars
<1>2. BoxInv'
  BY <1>1 DEF IInv, BoxInv
<1>3. FeedStep
  BY <1>1, FeedStutters
<1> QED BY <1>2, <1>3 DEF IInv

(* One more message on the way.                                            *)
LEMMA NetAppend ==
  ASSUME IInv, UNCHANGED <<waiter, counted, log, serverPts>>,
         NEW m \in Messages, MessageInv(m, waiter, counted, log, serverPts),
         net' = Append(net, m), unsent' \subseteq unsent,
         \A i \in DOMAIN net : ~Clash(net[i], m),
         \A n \in unsent' : ~Clash(n, m)
  PROVE  /\ NetInv' /\ net' \in Seq(Messages)
         /\ \A b : NoAnswer(b, net) /\ ~(IsAnswer(m) /\ m.box = b)
                     => NoAnswer(b, net')
<1>1. net \in Seq(Messages)
  BY DEF IInv, TypeOK
<1>2. /\ net' \in Seq(Messages)
      /\ \A i \in DOMAIN net' :
           \/ i \in DOMAIN net /\ net'[i] = net[i]
           \/ i = Len(net) + 1 /\ i \notin DOMAIN net /\ net'[i] = m
  BY <1>1, AppendOf
<1>3. \A i \in DOMAIN net' :
        MessageInv(net'[i], waiter', counted', log', serverPts')
  BY <1>2 DEF IInv, NetInv
<1>4. \A n \in unsent' : /\ MessageInv(n, waiter', counted', log', serverPts')
                         /\ IsUpdate(n) \/ n.type = "tooLong"
  BY DEF IInv, NetInv
<1>5. ASSUME NEW i \in DOMAIN net', NEW j \in DOMAIN net', i /= j
      PROVE  ~Clash(net'[i], net'[j])
  <2>1. i \in DOMAIN net \/ j \in DOMAIN net
    BY <1>2, <1>5
  <2>2. \A k \in DOMAIN net : ~Clash(m, net[k])
    BY ClashSymmetric
  <2> QED BY <1>2, <1>5, <2>1, <2>2 DEF IInv, NetInv
<1>6. \A n \in unsent' : \A i \in DOMAIN net' : ~Clash(n, net'[i])
  BY <1>2 DEF IInv, NetInv
<1>7. \A b : NoAnswer(b, net) /\ ~(IsAnswer(m) /\ m.box = b)
               => NoAnswer(b, net')
  BY <1>2 DEF NoAnswer
<1> QED BY <1>2, <1>3, <1>4, <1>5, <1>6, <1>7 DEF NetInv

(* One more message, or fewer, to be sent.                                 *)
LEMMA NetUnsent ==
  ASSUME IInv, UNCHANGED <<waiter, counted, log, serverPts, net>>,
         NEW m \in Messages, MessageInv(m, waiter, counted, log, serverPts),
         IsUpdate(m) \/ m.type = "tooLong", unsent' \subseteq unsent \cup {m},
         \A i \in DOMAIN net : ~Clash(m, net[i])
  PROVE  NetInv'
BY DEF IInv, NetInv

(* The last point of a box is a boundary.                                  *)
LEMMA TopBoundary ==
  ASSUME IInv, NEW b \in Boxes
  PROVE  /\ serverPts[b] \in Nat /\ serverPts[b] >= 1
         /\ Boundary(log[b], serverPts[b], serverPts[b])
BY DEF IInv, TypeOK, BoxInv, Tiles, Boundary

(* An update that takes no points ends at a boundary.                      *)
LEMMA ServerZeroStep ==
  ASSUME IInv, NEW b \in Boxes, ServerZero(b) PROVE IInv' /\ FeedStep
<1> DEFINE z == [pts |-> serverPts[b], cnt |-> 0, via |-> "push"]
           m == UpdateMsg(b, z)
<1>1. /\ unsent' = unsent \cup {m}
      /\ UNCHANGED <<clientVars, log, serverPts, asked, net, historyVars>>
  BY DEF ServerZero
<1>2. serverPts[b] \in Nat /\ serverPts[b] >= 1
      /\ Boundary(log[b], serverPts[b], serverPts[b])
  BY TopBoundary
<1>3. m.type = "push" /\ m.box = b /\ m.update = z /\ z \in Update
      /\ z.pts = serverPts[b] /\ z.cnt = 0 /\ z.via = "push"
  BY <1>2 DEF UpdateMsg, Update
<1>4. m \in Messages
  BY <1>2 DEF UpdateMsg, Update, Messages
<1> HIDE DEF m, z
<1>5. MessageInv(m, waiter, counted, log, serverPts) /\ IsUpdate(m)
  BY <1>2, <1>3 DEF MessageInv, IsUpdate, IsAnswer
<1>6. \A i \in DOMAIN net : ~Clash(m, net[i])
  BY <1>3 DEF Clash, IsAnswer
<1>7. UNCHANGED <<waiter, counted, afterFail>>
  BY <1>1 DEF clientVars, historyVars
<1>8. NetInv'
  BY <1>1, <1>4, <1>5, <1>6, <1>7, NetUnsent
<1>9. TypeOK'
  BY <1>1, <1>4 DEF IInv, TypeOK, clientVars, historyVars
<1>10. RequestInv'
  BY <1>1, <1>7 DEF IInv, RequestInv
<1> QED BY <1>1, <1>8, <1>9, <1>10, ServerStep

(* A too-long notice names a boundary.                                     *)
LEMMA ServerTooLongStep ==
  ASSUME IInv, NEW b \in Boxes, ServerTooLong(b) PROVE IInv' /\ FeedStep
<1> DEFINE m == PtsMsg("tooLong", b)
<1>1. /\ unsent' \subseteq unsent \cup {m}
      /\ UNCHANGED <<clientVars, log, serverPts, asked, net, historyVars>>
  BY DEF ServerTooLong
<1>2. serverPts[b] \in Nat /\ serverPts[b] >= 1
      /\ Boundary(log[b], serverPts[b], serverPts[b])
  BY TopBoundary
<1>3. m.type = "tooLong" /\ m.box = b /\ m.pts = serverPts[b] /\ m \in Messages
  BY <1>2 DEF PtsMsg, Messages
<1> HIDE DEF m
<1>5. MessageInv(m, waiter, counted, log, serverPts)
  BY <1>2, <1>3 DEF MessageInv, IsUpdate, IsAnswer
<1>6. \A i \in DOMAIN net : ~Clash(m, net[i])
  BY <1>3 DEF Clash, IsUpdate, IsAnswer
<1>7. UNCHANGED <<waiter, counted, afterFail>>
  BY <1>1 DEF clientVars, historyVars
<1>8. NetInv'
  BY <1>1, <1>3, <1>5, <1>6, <1>7, NetUnsent
<1>9. TypeOK'
  BY <1>1, <1>3 DEF IInv, TypeOK, clientVars, historyVars
<1>10. RequestInv'
  BY <1>1, <1>7 DEF IInv, RequestInv
<1> QED BY <1>1, <1>8, <1>9, <1>10, ServerStep

(* AnswerDialogs and AnswerMessages.                                       *)
LEMMA AnswerPtsStep ==
  ASSUME IInv, NEW b \in Channels, net' = Append(net, PtsMsg("received", b)),
         UNCHANGED <<clientVars, log, serverPts, unsent, asked, historyVars>>
  PROVE  IInv' /\ FeedStep
<1> DEFINE m == PtsMsg("received", b)
<1>1. b \in Boxes /\ net' = Append(net, m)
  BY CommonIsBox
<1>2. serverPts[b] \in Nat /\ serverPts[b] >= 1
      /\ Boundary(log[b], serverPts[b], serverPts[b])
  BY <1>1, TopBoundary
<1>3. m.type = "received" /\ m.box = b /\ m.pts = serverPts[b] /\ m \in Messages
  BY <1>1, <1>2 DEF PtsMsg, Messages
<1> HIDE DEF m
<1>4. MessageInv(m, waiter, counted, log, serverPts) /\ ~IsAnswer(m)
  BY <1>2, <1>3 DEF MessageInv, IsUpdate, IsAnswer
<1>5. \A n : ~Clash(n, m)
  BY <1>3 DEF Clash, IsUpdate, IsAnswer
<1>6. UNCHANGED <<waiter, counted, afterFail>>
  BY DEF clientVars, historyVars
<1>7. /\ NetInv' /\ net' \in Seq(Messages)
      /\ \A c : NoAnswer(c, net) /\ ~(IsAnswer(m) /\ m.box = c)
                  => NoAnswer(c, net')
  BY <1>1, <1>3, <1>4, <1>5, <1>6, NetAppend
<1>8. TypeOK'
  BY <1>7 DEF IInv, TypeOK, clientVars, historyVars
<1>9. RequestInv'
  BY <1>4, <1>6, <1>7 DEF IInv, RequestInv
<1> QED BY <1>7, <1>8, <1>9, ServerStep

(* A message goes from the server to the network, and nowhere else.        *)
LEMMA SendStep ==
  ASSUME IInv, NEW m \in unsent, Send(m) PROVE IInv' /\ FeedStep
<1>1. /\ unsent' = unsent \ {m} /\ net' = Append(net, m)
      /\ UNCHANGED <<clientVars, log, serverPts, asked, historyVars>>
  BY DEF Send
<1>2. /\ unsent \subseteq Messages /\ m \in Messages
      /\ \A n \in unsent : /\ MessageInv(n, waiter, counted, log, serverPts)
                           /\ IsUpdate(n) \/ n.type = "tooLong"
  BY DEF IInv, TypeOK, NetInv
<1>3. \A i \in DOMAIN net : ~Clash(net[i], m)
  BY ClashSymmetric DEF IInv, NetInv
<1>4. ASSUME NEW n \in unsent, Clash(n, m)
      PROVE  n = m
  <2>1. ~IsAnswer(n)
    BY <1>2 DEF IsUpdate, IsAnswer
  <2>2. IsUpdate(n) /\ IsUpdate(m) /\ n.box = m.box /\ n.update = m.update
    BY <1>4, <2>1 DEF Clash
  <2>3. n.type = n.update.via /\ m.type = m.update.via
    BY <1>2, <2>2 DEF MessageInv
  <2>4. /\ n = [type |-> n.type, box |-> n.box, update |-> n.update]
        /\ m = [type |-> m.type, box |-> m.box, update |-> m.update]
    BY <1>2, <2>2, MessageKinds
  <2> QED BY <2>2, <2>3, <2>4
<1>5. \A n \in unsent' : ~Clash(n, m)
  BY <1>1, <1>4
<1>6. UNCHANGED <<waiter, counted, afterFail>>
  BY <1>1 DEF clientVars, historyVars
<1>7. /\ NetInv' /\ net' \in Seq(Messages)
      /\ \A c : NoAnswer(c, net) /\ ~(IsAnswer(m) /\ m.box = c)
                  => NoAnswer(c, net')
  BY <1>1, <1>2, <1>3, <1>5, <1>6, NetAppend
<1>8. ~IsAnswer(m)
  BY <1>2 DEF IsUpdate, IsAnswer
<1>9. TypeOK'
  BY <1>1, <1>7 DEF IInv, TypeOK, clientVars, historyVars
<1>10. RequestInv'
  BY <1>1, <1>6, <1>7, <1>8 DEF IInv, RequestInv
<1> QED BY <1>1, <1>7, <1>9, <1>10, ServerStep

(* The request about box c is answered, one way or the other, with m.      *)
LEMMA AnsweredStep ==
  ASSUME IInv, NEW c \in Boxes, asked[c] /= NoRequest,
         NEW m \in Messages, MessageInv(m, waiter, counted, log, serverPts),
         IsAnswer(m), m.box = c, net' = Append(net, m),
         asked' = [asked EXCEPT ![c] = NoRequest],
         UNCHANGED <<clientVars, log, serverPts, unsent, historyVars>>
  PROVE  IInv' /\ FeedStep
<1>1. UNCHANGED <<waiter, counted, afterFail>>
  BY DEF clientVars, historyVars
<1>2. NoAnswer(c, net) /\ c \notin afterFail
  BY DEF IInv, RequestInv
<1>3. ~IsUpdate(m)
  BY DEF IsUpdate, IsAnswer
<1>4. \A i \in DOMAIN net : ~Clash(net[i], m)
  BY <1>2, <1>3 DEF NoAnswer, Clash
<1>5. \A n \in unsent' : ~Clash(n, m)
  BY <1>3 DEF IInv, NetInv, Clash, IsUpdate, IsAnswer
<1>6. /\ NetInv' /\ net' \in Seq(Messages)
      /\ \A b : NoAnswer(b, net) /\ ~(IsAnswer(m) /\ m.box = b)
                  => NoAnswer(b, net')
  BY <1>1, <1>4, <1>5, NetAppend
<1>7. TypeOK'
  BY <1>6 DEF IInv, TypeOK, clientVars, historyVars
<1>8. asked'[c] = NoRequest /\ \A b \in Boxes \ {c} : asked'[b] = asked[b]
  BY DEF IInv, TypeOK
<1>9. RequestInv'
  BY <1>1, <1>2, <1>6, <1>8 DEF IInv, RequestInv
<1> QED BY <1>6, <1>7, <1>9, ServerStep

(* What is known about a box whose request is at the server.               *)
LEMMA AskedBox ==
  ASSUME IInv, NEW b \in Boxes, asked[b] /= NoRequest
  PROVE  /\ waiter[b].requesting /\ asked[b] = waiter[b].good
         /\ asked[b] \in Nat /\ asked[b] <= serverPts[b]
         /\ log[b] \in SUBSET Update /\ Tiles(log[b], serverPts[b])
<1>1. waiter[b].requesting /\ asked[b] = waiter[b].good
  BY DEF IInv, RequestInv
<1>2. Boundary(log[b], serverPts[b], waiter[b].good)
  BY DEF IInv, BoxInv, WaiterInv
<1> QED BY <1>1, <1>2 DEF IInv, TypeOK, BoxInv, Boundary

(* A difference is a message.                                              *)
LEMMA DifferenceType ==
  ASSUME NEW b \in Boxes, NEW from \in Nat, NEW pts \in Nat,
         NEW us \in SUBSET Update, NEW forget \in BOOLEAN,
         NEW final \in BOOLEAN, NEW channels \in [Boxes -> Nat]
  PROVE  [type |-> "difference", box |-> b, from |-> from, pts |-> pts,
          updates |-> us, forget |-> forget, final |-> final,
          channels |-> channels] \in Messages
BY DEF Messages

(* The server's answer is complete from the pts that it was asked from.    *)
LEMMA AnswerStep ==
  ASSUME IInv, NEW b \in Boxes, Answer(b) PROVE IInv' /\ FeedStep
<1>1. PICK till \in Stops(b, asked[b]), forget \in BOOLEAN :
        net' = Append(net, Difference(b, asked[b], till, forget))
  BY DEF Answer
<1>2. /\ asked[b] /= NoRequest /\ asked' = [asked EXCEPT ![b] = NoRequest]
      /\ UNCHANGED <<clientVars, log, serverPts, unsent, historyVars>>
  BY DEF Answer
<1>3. /\ waiter[b].requesting /\ asked[b] = waiter[b].good
      /\ asked[b] \in Nat /\ asked[b] <= serverPts[b]
      /\ log[b] \in SUBSET Update /\ Tiles(log[b], serverPts[b])
  BY <1>2, AskedBox
<1>4. serverPts[b] \in Nat /\ serverPts[b] >= 1
      /\ Boundary(log[b], serverPts[b], serverPts[b])
  BY TopBoundary
<1>5. /\ till \in Nat /\ till >= 1 /\ asked[b] <= till
      /\ Boundary(log[b], serverPts[b], till)
  <2>1. CASE till = serverPts[b]
    BY <1>3, <1>4, <2>1
  <2>2. CASE till /= serverPts[b]
    <3>1. PICK u \in log[b] : u.pts > asked[b] /\ till = u.pts
      BY <1>1, <2>2 DEF Stops
    <3>2. u.pts \in Nat /\ u.pts >= 1 /\ Boundary(log[b], serverPts[b], u.pts)
      BY <1>3, UpdateBoundary
    <3> QED BY <1>3, <3>1, <3>2
  <2> QED BY <2>1, <2>2
<1> DEFINE d == Difference(b, asked[b], till, forget)
           fin == till = serverPts[b]
           us == IF forget THEN {}
                 ELSE {u \in log[b] : asked[b] < u.pts /\ u.pts <= till}
<1>6. /\ us \subseteq log[b] /\ us \in SUBSET Update
      /\ forget \/ Complete(log[b], us, asked[b], till)
  BY <1>3 DEF Complete
<1>7. serverPts \in [Boxes -> Nat] /\ fin \in BOOLEAN
  BY DEF IInv, TypeOK
<1>8. d = [type |-> "difference", box |-> b, from |-> asked[b], pts |-> till,
           updates |-> us, forget |-> forget, final |-> fin,
           channels |-> serverPts]
  BY DEF Difference
<1> HIDE DEF us, fin
<1>9. /\ d.type = "difference" /\ d.box = b /\ d.from = asked[b]
      /\ d.pts = till /\ d.updates = us
  BY <1>8
<1>10. d.forget <=> forget
  BY <1>8
<1> HIDE DEF d
<1>11. d \in Messages
  BY <1>3, <1>5, <1>6, <1>7, <1>8, DifferenceType
<1>12. MessageInv(d, waiter, counted, log, serverPts) /\ IsAnswer(d)
  <2>1. ~IsUpdate(d) /\ IsAnswer(d) /\ d.type \notin {"received", "tooLong"}
    BY <1>9 DEF IsUpdate, IsAnswer
  <2>2. waiter[d.box].requesting /\ d.from = waiter[d.box].good
    BY <1>3, <1>9
  <2>3. /\ Boundary(log[d.box], serverPts[d.box], d.pts)
        /\ d.from <= d.pts /\ d.pts >= 1 /\ d.updates \subseteq log[d.box]
    <3>1. Boundary(log[d.box], serverPts[d.box], d.pts)
      BY <1>5, <1>9
    <3>2. d.from <= d.pts /\ d.pts >= 1
      BY <1>5, <1>9
    <3>3. d.updates \subseteq log[d.box]
      BY <1>6, <1>9
    <3> QED BY <3>1, <3>2, <3>3
  <2>4. d.forget \/ Complete(log[d.box], d.updates, d.from, d.pts)
    BY <1>6, <1>9, <1>10
  <2> QED BY <2>1, <2>2, <2>3, <2>4 DEF MessageInv
<1>13. net' = Append(net, d)
  BY <1>1 DEF d
<1> QED BY <1>2, <1>9, <1>11, <1>12, <1>13, AnsweredStep

(* A failure answers the request as well.                                  *)
LEMMA AnswerFailStep ==
  ASSUME IInv, NEW b \in Boxes, AnswerFail(b) PROVE IInv' /\ FeedStep
<1> DEFINE m == [type |-> "fail", box |-> b, from |-> asked[b]]
<1>1. /\ asked[b] /= NoRequest /\ asked' = [asked EXCEPT ![b] = NoRequest]
      /\ net' = Append(net, m)
      /\ UNCHANGED <<clientVars, log, serverPts, unsent, historyVars>>
  BY DEF AnswerFail
<1>2. waiter[b].requesting /\ asked[b] = waiter[b].good /\ asked[b] \in Nat
  BY <1>1, AskedBox
<1>3. m \in Messages /\ m.type = "fail" /\ m.box = b /\ m.from = asked[b]
  BY <1>2 DEF Messages
<1> HIDE DEF m
<1>4. MessageInv(m, waiter, counted, log, serverPts) /\ IsAnswer(m)
  BY <1>2, <1>3 DEF MessageInv, IsUpdate, IsAnswer
<1> QED BY <1>1, <1>3, <1>4, AnsweredStep

(* The updates of a box grow by one past its last point.                   *)
LEMMA LogGrows ==
  ASSUME NEW L \in SUBSET Update, NEW top \in Nat, Tiles(L, top), top >= 1,
         NEW n \in Nat, n >= 1, NEW u \in Update, u.pts = top + n, u.cnt = n
  PROVE  /\ Tiles(L \cup {u}, u.pts) /\ u \notin L
         /\ \A p : Boundary(L, top, p) => Boundary(L \cup {u}, u.pts, p)
         /\ \A A, from, till : till \in Nat /\ till <= top /\ Complete(L, A, from, till)
                                 => Complete(L \cup {u}, A, from, till)
<1>1. \A v \in L : v.pts \in Nat /\ v.cnt \in Nat /\ v.cnt >= 1
                   /\ v.pts - v.cnt >= 1 /\ v.pts <= top
  BY DEF Tiles, Update
<1>2. u \notin L
  BY <1>1
<1>3. Tiles(L \cup {u}, u.pts)
  <2>1. \A v \in L \cup {u} : v.cnt >= 1 /\ v.pts - v.cnt >= 1 /\ v.pts <= u.pts
    BY <1>1
  <2>2. ASSUME NEW v \in L \cup {u}, NEW x \in L \cup {u}
        PROVE  v = x \/ v.pts <= x.pts - x.cnt \/ x.pts <= v.pts - v.cnt
    <3>1. CASE v \in L /\ x \in L
      BY <3>1 DEF Tiles
    <3>2. CASE v = u \/ x = u
      BY <1>1, <3>2
    <3> QED BY <3>1, <3>2
  <2> QED BY <2>1, <2>2 DEF Tiles
<1>4. ASSUME NEW p, Boundary(L, top, p)
      PROVE  Boundary(L \cup {u}, u.pts, p)
  BY <1>1, <1>4 DEF Boundary
<1>5. ASSUME NEW A, NEW from, NEW till \in Nat, till <= top,
             Complete(L, A, from, till)
      PROVE  Complete(L \cup {u}, A, from, till)
  BY <1>5 DEF Complete
<1> QED BY <1>2, <1>3, <1>4, <1>5

(* What a message says stays right when the logs grow.                     *)
LEMMA MessageGrows ==
  ASSUME NEW m \in Messages, NEW W, NEW C, NEW L, NEW top, NEW L2, NEW top2,
         MessageInv(m, W, C, L, top),
         \A c \in Boxes :
           /\ L[c] \subseteq L2[c]
           /\ \A p : Boundary(L[c], top[c], p) => Boundary(L2[c], top2[c], p)
           /\ \A A, from, till :
                till \in Nat /\ till <= top[c] /\ Complete(L[c], A, from, till)
                  => Complete(L2[c], A, from, till)
  PROVE  MessageInv(m, W, C, L2, top2)
<1>1. IsUpdate(m) =>
        /\ m.type = m.update.via
        /\ IF m.update.cnt = 0
             THEN /\ Boundary(L2[m.box], top2[m.box], m.update.pts)
                  /\ m.update.pts >= 1 /\ m.type = "push"
             ELSE m.update \in L2[m.box] /\ m.update \notin C[m.box]
  BY MessageKinds DEF MessageInv
<1>2. m.type \in {"received", "tooLong"} =>
        Boundary(L2[m.box], top2[m.box], m.pts) /\ m.pts >= 1
  BY MessageKinds DEF MessageInv
<1>3. m.type = "difference" =>
        /\ Boundary(L2[m.box], top2[m.box], m.pts)
        /\ m.from <= m.pts /\ m.pts >= 1
        /\ m.updates \subseteq L2[m.box]
        /\ m.forget \/ Complete(L2[m.box], m.updates, m.from, m.pts)
  <2> SUFFICES ASSUME m.type = "difference"
               PROVE  /\ Boundary(L2[m.box], top2[m.box], m.pts)
                      /\ m.from <= m.pts /\ m.pts >= 1
                      /\ m.updates \subseteq L2[m.box]
                      /\ m.forget \/ Complete(L2[m.box], m.updates, m.from, m.pts)
    OBVIOUS
  <2>1. m.box \in Boxes /\ m.pts \in Nat
    BY MessageKinds DEF IsAnswer
  <2>2. /\ Boundary(L[m.box], top[m.box], m.pts)
        /\ m.from <= m.pts /\ m.pts >= 1
        /\ m.updates \subseteq L[m.box]
        /\ m.forget \/ Complete(L[m.box], m.updates, m.from, m.pts)
    BY DEF MessageInv
  <2>3. m.pts <= top[m.box]
    BY <2>2 DEF Boundary
  <2> QED BY <2>1, <2>2, <2>3
<1>4. /\ m.type = "received" => m.box \in Channels
      /\ IsAnswer(m) => W[m.box].requesting /\ m.from = W[m.box].good
  BY DEF MessageInv
<1> QED BY <1>1, <1>2, <1>3, <1>4 DEF MessageInv

(* ... and so does what is known of a waiter.                              *)
LEMMA WaiterGrows ==
  ASSUME NEW w, NEW C, NEW L, NEW top, NEW A, NEW L2, NEW top2,
         WaiterInv(w, C, L, top, A), L \subseteq L2,
         \A p : Boundary(L, top, p) => Boundary(L2, top2, p)
  PROVE  WaiterInv(w, C, L2, top2, A)
BY DEF WaiterInv

(* A new update lies past everything that any box or message knows of.     *)
LEMMA ServerUpdateStep ==
  ASSUME IInv, NEW b \in Boxes, NEW n \in Counts, NEW via \in Vias,
         ServerUpdate(b, n, via)
  PROVE  IInv' /\ FeedStep
<1> DEFINE u == [pts |-> serverPts[b] + n, cnt |-> n, via |-> via]
           m == UpdateMsg(b, u)
<1>1. /\ log' = [log EXCEPT ![b] = @ \cup {u}]
      /\ serverPts' = [serverPts EXCEPT ![b] = u.pts]
      /\ unsent' = unsent \cup {m}
      /\ UNCHANGED <<clientVars, asked, net, historyVars>>
  BY DEF ServerUpdate
<1>2. /\ serverPts[b] \in Nat /\ serverPts[b] >= 1
      /\ log[b] \in SUBSET Update /\ Tiles(log[b], serverPts[b])
      /\ n \in Nat /\ n >= 1 /\ via \in {"push", "reply", "affected"}
  BY CountsAssumption, ViasAssumption DEF IInv, TypeOK, BoxInv
<1>3. u \in Update /\ u.pts = serverPts[b] + n /\ u.cnt = n /\ u.via = via
  BY <1>2 DEF Update
<1>4. m.type = u.via /\ m.box = b /\ m.update = u
  BY DEF UpdateMsg
<1>5. m \in Messages /\ IsUpdate(m)
  BY <1>2, <1>3, <1>4 DEF UpdateMsg, Messages, IsUpdate
<1> HIDE DEF m, u
<1>6. /\ Tiles(log[b] \cup {u}, u.pts) /\ u \notin log[b]
      /\ \A p : Boundary(log[b], serverPts[b], p)
                  => Boundary(log[b] \cup {u}, u.pts, p)
      /\ \A A, from, till :
           till \in Nat /\ till <= serverPts[b] /\ Complete(log[b], A, from, till)
             => Complete(log[b] \cup {u}, A, from, till)
  BY <1>2, <1>3, LogGrows
<1>7. /\ log'[b] = log[b] \cup {u} /\ serverPts'[b] = u.pts
      /\ \A c \in Boxes \ {b} : log'[c] = log[c] /\ serverPts'[c] = serverPts[c]
  BY <1>1 DEF IInv, TypeOK
<1>8. \A c \in Boxes :
        /\ log[c] \subseteq log'[c]
        /\ \A p : Boundary(log[c], serverPts[c], p)
                    => Boundary(log'[c], serverPts'[c], p)
        /\ \A A, from, till :
             till \in Nat /\ till <= serverPts[c] /\ Complete(log[c], A, from, till)
               => Complete(log'[c], A, from, till)
  BY <1>6, <1>7, SMTT(60)
<1>9. UNCHANGED <<waiter, counted, afterFail, applied, base, asked, net>>
  BY <1>1 DEF clientVars, historyVars
<1>10. BoxInv'
  <2> SUFFICES ASSUME NEW c \in Boxes
               PROVE  /\ Tiles(log'[c], serverPts'[c]) /\ serverPts'[c] >= 1
                      /\ WaiterInv(waiter[c], counted[c], log'[c], serverPts'[c],
                                   applied[c])
                      /\ Complete(log'[c], applied[c], base[c], waiter[c].good)
    BY <1>9 DEF BoxInv
  <2>1. /\ Tiles(log[c], serverPts[c]) /\ serverPts[c] >= 1
        /\ WaiterInv(waiter[c], counted[c], log[c], serverPts[c], applied[c])
        /\ Complete(log[c], applied[c], base[c], waiter[c].good)
    BY DEF IInv, BoxInv
  <2>2. waiter[c].good \in Nat /\ waiter[c].good <= serverPts[c]
    BY <2>1 DEF WaiterInv, Boundary
  <2>3. Tiles(log'[c], serverPts'[c]) /\ serverPts'[c] >= 1
    <3>1. CASE c = b
      <4>1. u.pts >= 1
        BY <1>2, <1>3
      <4> QED BY <1>6, <1>7, <3>1, <4>1
    <3>2. CASE c /= b
      BY <1>7, <2>1, <3>2
    <3> QED BY <3>1, <3>2
  <2>4. WaiterInv(waiter[c], counted[c], log'[c], serverPts'[c], applied[c])
    BY <1>8, <2>1, WaiterGrows
  <2>5. Complete(log'[c], applied[c], base[c], waiter[c].good)
    BY <1>8, <2>1, <2>2
  <2> QED BY <2>3, <2>4, <2>5
<1>11. MessageInv(m, waiter, counted, log', serverPts')
  <2>1. u \in log'[b] /\ u \notin counted[b] /\ u.cnt /= 0
    BY <1>2, <1>3, <1>6, <1>7 DEF IInv, BoxInv, WaiterInv
  <2>2. m.type \notin {"received", "tooLong", "difference", "fail"}
    BY <1>5 DEF IsUpdate
  <2> QED BY <1>4, <2>1, <2>2 DEF MessageInv, IsAnswer
<1>12. ASSUME NEW x \in Messages, MessageInv(x, waiter, counted, log, serverPts)
       PROVE  MessageInv(x, waiter, counted, log', serverPts') /\ ~Clash(m, x)
  <2>1. MessageInv(x, waiter, counted, log', serverPts')
    BY <1>8, <1>12, MessageGrows
  <2>2. ~Clash(m, x)
    BY <1>2, <1>3, <1>4, <1>5, <1>6, <1>12 DEF Clash, MessageInv, IsUpdate, IsAnswer
  <2> QED BY <2>1, <2>2
<1>13. NetInv'
  <2>1. /\ unsent \subseteq Messages /\ \A i \in DOMAIN net : net[i] \in Messages
    BY DEF IInv, TypeOK
  <2>2. \A x \in unsent' : /\ MessageInv(x, waiter', counted', log', serverPts')
                           /\ IsUpdate(x) \/ x.type = "tooLong"
    BY <1>1, <1>5, <1>9, <1>11, <1>12, <2>1 DEF IInv, NetInv
  <2>3. \A i \in DOMAIN net' :
          MessageInv(net'[i], waiter', counted', log', serverPts')
    BY <1>9, <1>12, <2>1 DEF IInv, NetInv
  <2>4. \A i, j \in DOMAIN net' : i /= j => ~Clash(net'[i], net'[j])
    BY <1>9 DEF IInv, NetInv
  <2>5. \A x \in unsent' : \A i \in DOMAIN net' : ~Clash(x, net'[i])
    BY <1>1, <1>9, <1>12, <2>1 DEF IInv, NetInv
  <2> QED BY <2>2, <2>3, <2>4, <2>5 DEF NetInv
<1>14. TypeOK'
  <2>1. u.pts \in Nat
    BY <1>2, <1>3
  <2>2. serverPts' \in [Boxes -> Nat]
    BY <1>1, <2>1 DEF IInv, TypeOK
  <2>3. log' \in [Boxes -> SUBSET Update]
    BY <1>1, <1>3 DEF IInv, TypeOK
  <2>4. unsent' \subseteq Messages
    BY <1>1, <1>5 DEF IInv, TypeOK
  <2> QED BY <1>1, <2>2, <2>3, <2>4 DEF IInv, TypeOK, clientVars, historyVars
<1>15. RequestInv'
  BY <1>9 DEF IInv, RequestInv
<1>16. Feed!Happen(b, u)
  <2>1. u.pts > waiter[b].good
    BY <1>2, <1>3 DEF IInv, BoxInv, WaiterInv, Boundary
  <2> QED BY <1>1, <1>9, <2>1 DEF Feed!Happen
<1>17. FeedStep
  BY <1>7, <1>16 DEF FeedStep, Feed!Next
<1> QED BY <1>10, <1>13, <1>14, <1>15, <1>17 DEF IInv

(* A prefix of what is on the way, followed by one message.                *)
LEMMA PrefixAppend ==
  ASSUME NEW q \in Seq(Messages), NEW k \in 0 .. Len(q), NEW s \in Messages,
         NEW p, p = Append(SubSeq(q, 1, k), s)
  PROVE  /\ p \in Seq(Messages)
         /\ \A i \in DOMAIN p :
              \/ i \in 1 .. k /\ i \in DOMAIN q /\ p[i] = q[i]
              \/ i = k + 1 /\ p[i] = s
<1> DEFINE r == SubSeq(q, 1, k)
<1>1. Len(q) \in Nat /\ k \in Nat /\ k <= Len(q) /\ DOMAIN q = 1 .. Len(q)
  BY LenProperties
<1>2. r \in Seq(Messages) /\ Len(r) = k /\ \A i \in 1 .. k : r[i] = q[i]
  BY <1>1
<1>3. p = Append(r, s)
  OBVIOUS
<1> HIDE DEF r
<1>4. /\ p \in Seq(Messages) /\ Len(p) = k + 1 /\ p[k + 1] = s
      /\ \A i \in 1 .. k : p[i] = r[i]
  BY <1>2, <1>3, AppendProperties
<1>5. DOMAIN p = 1 .. (k + 1)
  BY <1>4, LenProperties
<1>6. ASSUME NEW i \in DOMAIN p
      PROVE  \/ i \in 1 .. k /\ i \in DOMAIN q /\ p[i] = q[i]
             \/ i = k + 1 /\ p[i] = s
  <2>1. i \in 1 .. k \/ i = k + 1
    BY <1>1, <1>5
  <2>2. i \in 1 .. k => i \in DOMAIN q
    BY <1>1
  <2> QED BY <1>2, <1>4, <2>1, <2>2
<1> QED BY <1>4, <1>6

(* NewSession: the lost replies return to the server, the lost answers to  *)
(* its requests, and no message is there twice.                            *)
LEMMA NewSessionStep ==
  ASSUME IInv, NewSession PROVE IInv' /\ FeedStep
<1> DEFINE s == [type |-> "newSession"]
<1>1. PICK k \in 0 .. Len(net) :
        LET lost == {net[i] : i \in (k + 1) .. Len(net)}
        IN  /\ net' = Append(SubSeq(net, 1, k), s)
            /\ unsent' = {m \in unsent \cup lost : IsReply(m)}
            /\ asked' = [b \in Boxes |->
                 IF \E m \in lost : IsAnswer(m) /\ m.box = b
                   THEN (CHOOSE m \in lost : IsAnswer(m) /\ m.box = b).from
                   ELSE asked[b]]
  BY DEF NewSession
<1> DEFINE lost == {net[i] : i \in (k + 1) .. Len(net)}
<1>2. UNCHANGED <<clientVars, log, serverPts, historyVars>>
  BY DEF NewSession
<1>3. UNCHANGED <<waiter, counted, afterFail>>
  BY <1>2 DEF clientVars, historyVars
<1>4. /\ net \in Seq(Messages) /\ unsent \subseteq Messages
      /\ \A i \in DOMAIN net : net[i] \in Messages
  BY DEF IInv, TypeOK
<1>5. s \in Messages /\ s.type = "newSession"
  BY DEF Messages
<1>6. /\ net' \in Seq(Messages)
      /\ \A i \in DOMAIN net' :
           \/ i \in 1 .. k /\ i \in DOMAIN net /\ net'[i] = net[i]
           \/ i = k + 1 /\ net'[i] = s
  BY <1>1, <1>4, <1>5, PrefixAppend
<1>7. ASSUME NEW x \in lost
      PROVE  \E j \in DOMAIN net : x = net[j] /\ j \notin 1 .. k
  BY <1>4, LenProperties
<1>8. /\ unsent' = {m \in unsent \cup lost : IsReply(m)}
      /\ asked' = [b \in Boxes |->
           IF \E m \in lost : IsAnswer(m) /\ m.box = b
             THEN (CHOOSE m \in lost : IsAnswer(m) /\ m.box = b).from
             ELSE asked[b]]
  BY <1>1
<1> HIDE DEF lost, s
<1>9. \A x \in lost : x \in Messages /\ MessageInv(x, waiter, counted, log, serverPts)
  BY <1>4, <1>7 DEF IInv, NetInv
<1>10. MessageInv(s, waiter, counted, log, serverPts) /\ ~IsUpdate(s) /\ ~IsAnswer(s)
  BY <1>5 DEF MessageInv, IsUpdate, IsAnswer
<1>11. \A x : ~Clash(x, s) /\ ~Clash(s, x)
  BY <1>10 DEF Clash
<1>12. NetInv'
  <2>1. \A x \in unsent' : /\ MessageInv(x, waiter', counted', log', serverPts')
                           /\ IsUpdate(x) \/ x.type = "tooLong"
    BY <1>2, <1>3, <1>8, <1>9 DEF IInv, NetInv, IsReply, IsUpdate
  <2>2. \A i \in DOMAIN net' :
          MessageInv(net'[i], waiter', counted', log', serverPts')
    BY <1>2, <1>3, <1>6, <1>10 DEF IInv, NetInv
  <2>3. \A i, j \in DOMAIN net' : i /= j => ~Clash(net'[i], net'[j])
    BY <1>6, <1>11 DEF IInv, NetInv
  <2>4. \A x \in unsent \cup lost : \A i \in DOMAIN net' : ~Clash(x, net'[i])
    BY <1>6, <1>7, <1>11 DEF IInv, NetInv
  <2>5. \A x \in unsent' : \A i \in DOMAIN net' : ~Clash(x, net'[i])
    BY <1>8, <2>4
  <2> QED BY <2>1, <2>2, <2>3, <2>5 DEF NetInv
<1>13. ASSUME NEW b \in Boxes
       PROVE  \/ asked'[b] = asked[b]
              \/ /\ waiter[b].requesting /\ asked'[b] = waiter[b].good
                 /\ b \notin afterFail /\ NoAnswer(b, net')
                 /\ asked'[b] \in Nat
  <2>1. CASE \E m \in lost : IsAnswer(m) /\ m.box = b
    <3>1. PICK x \in lost : IsAnswer(x) /\ x.box = b /\ asked'[b] = x.from
      BY <1>8, <2>1
    <3>2. PICK j \in DOMAIN net : x = net[j] /\ j \notin 1 .. k
      BY <1>7
    <3>3. waiter[b].requesting /\ x.from = waiter[b].good /\ x.from \in Nat
      BY <1>9, <3>1, MessageKinds DEF MessageInv
    <3>4. b \notin afterFail
      BY <3>1, <3>2 DEF IInv, RequestInv, NoAnswer
    <3>5. NoAnswer(b, net')
      <4> SUFFICES ASSUME NEW i \in DOMAIN net', IsAnswer(net'[i]),
                          net'[i].box = b
                   PROVE  FALSE
        BY DEF NoAnswer
      <4>1. i \in 1 .. k /\ i \in DOMAIN net /\ net'[i] = net[i]
        BY <1>6, <1>10
      <4>2. i /= j /\ Clash(net[i], net[j])
        BY <3>1, <3>2, <4>1 DEF Clash
      <4> QED BY <4>1, <4>2 DEF IInv, NetInv
    <3> QED BY <3>1, <3>3, <3>4, <3>5
  <2>2. CASE ~\E m \in lost : IsAnswer(m) /\ m.box = b
    BY <1>8, <2>2
  <2> QED BY <2>1, <2>2
<1>14. TypeOK'
  <2>1. asked' \in [Boxes -> Nat \cup {NoRequest}]
    <3>1. \A b \in Boxes : asked'[b] \in Nat \cup {NoRequest}
      BY <1>13 DEF IInv, TypeOK
    <3>2. asked' = [b \in Boxes |-> asked'[b]]
      BY <1>8
    <3> HIDE <1>8
    <3> QED BY <3>1, <3>2
  <2>2. unsent' \subseteq Messages
    BY <1>4, <1>8, <1>9
  <2> QED BY <1>2, <1>6, <2>1, <2>2 DEF IInv, TypeOK, clientVars, historyVars
<1>15. \A b \in Boxes : NoAnswer(b, net) => NoAnswer(b, net')
  BY <1>6, <1>10 DEF NoAnswer
<1>16. RequestInv'
  BY <1>3, <1>13, <1>15 DEF IInv, RequestInv
<1> QED BY <1>2, <1>12, <1>14, <1>16, ServerStep

-----------------------------------------------------------------------------
(* The theorems.                                                           *)

(* The constructor's state: nothing counted, nothing on the way, and the   *)
(* common box waits for the state it asked for.                            *)
LEMMA InitStep ==
  ASSUME Init PROVE IInv
<1>1. ASSUME NEW b \in Boxes
      PROVE  /\ waiter[b] \in Waiters
             /\ waiter[b].good = 0 /\ waiter[b].last = 0 /\ waiter[b].count = 0
             /\ waiter[b].queue = {}
             /\ waiter[b].requesting <=> b = Common
  <2>1. CASE b = Common
    <3>1. waiter[b] = setRequesting(NewWaiter, TRUE)
      BY <2>1 DEF Init
    <3>2. waiter[b] = [good |-> 0, last |-> 0, count |-> 0, queue |-> {},
                       requesting |-> TRUE, waitingForSkipped |-> FALSE,
                       waitingForShortPoll |-> FALSE]
      BY <3>1 DEF setRequesting, NewWaiter
    <3>3. waiter[b] \in Waiters
      BY <3>2 DEF Waiters
    <3>4. /\ waiter[b].good = 0 /\ waiter[b].last = 0 /\ waiter[b].count = 0
          /\ waiter[b].queue = {}
      BY <3>2
    <3>5. waiter[b].requesting
      BY <3>1 DEF setRequesting, NewWaiter
    <3> QED BY <2>1, <3>3, <3>4, <3>5
  <2>2. CASE b /= Common
    <3>1. waiter[b] = NewWaiter
      BY <2>2 DEF Init
    <3>2. /\ waiter[b] \in Waiters
          /\ waiter[b].good = 0 /\ waiter[b].last = 0 /\ waiter[b].count = 0
          /\ waiter[b].queue = {}
      BY <3>1 DEF NewWaiter, Waiters
    <3>3. ~waiter[b].requesting
      BY <3>1 DEF NewWaiter
    <3> QED BY <2>2, <3>2, <3>3
  <2> QED BY <2>1, <2>2
<1>2. TypeOK
  <2>1. waiter \in [Boxes -> Waiters]
    <3>1. waiter = [b \in Boxes |-> waiter[b]]
      BY DEF Init
    <3> QED BY <1>1, <3>1
  <2>2. asked \in [Boxes -> Nat \cup {NoRequest}] /\ net \in Seq(Messages)
    BY DEF Init, NoRequest, GetState
  <2> QED BY <2>1, <2>2 DEF Init, TypeOK
<1>3. BoxInv
  <2> SUFFICES ASSUME NEW b \in Boxes
               PROVE  /\ Tiles(log[b], serverPts[b]) /\ serverPts[b] >= 1
                      /\ WaiterInv(waiter[b], counted[b], log[b], serverPts[b],
                                   applied[b])
                      /\ Complete(log[b], applied[b], base[b], waiter[b].good)
    BY DEF BoxInv
  <2>1. log[b] = {} /\ serverPts[b] = 1 /\ counted[b] = {} /\ applied[b] = {}
    BY DEF Init
  <2>2. Tiles({}, 1) /\ Boundary({}, 1, 0)
    BY DEF Tiles, Boundary
  <2>3. WaiterInv(waiter[b], {}, {}, 1, {})
    BY <1>1, <2>2, FreshWaiter
  <2> QED BY <2>1, <2>2, <2>3 DEF Complete
<1>4. NetInv
  BY DEF Init, NetInv
<1>5. RequestInv
  <2>1. \A b \in Boxes : NoAnswer(b, net)
    BY DEF Init, NoAnswer
  <2>2. \A b \in Boxes : asked[b] /= NoRequest => b = Common /\ asked[b] = 0
    BY DEF Init, GetState
  <2>3. afterFail = {} /\ \A b \in Channels : b \in Boxes /\ b /= Common
    BY BoxesAssumption DEF Init, Boxes
  <2> QED BY <1>1, <2>1, <2>2, <2>3 DEF RequestInv
<1> QED BY <1>2, <1>3, <1>4, <1>5 DEF IInv

(* Every step of the server and of the client keeps the invariant and is a *)
(* step of UpdateFeed or none.                                             *)
LEMMA NextStep ==
  ASSUME IInv, [Next]_vars PROVE IInv' /\ FeedStep
<1>1. CASE Server
  <2>1. ASSUME NEW b \in Channels, AnswerDialogs(b) \/ AnswerMessages(b)
        PROVE  IInv' /\ FeedStep
    <3>1. /\ net' = Append(net, PtsMsg("received", b))
          /\ UNCHANGED <<clientVars, log, serverPts, unsent, asked, historyVars>>
      BY <2>1 DEF AnswerDialogs, AnswerMessages, serverVars
    <3> QED BY <3>1, AnswerPtsStep
  <2> QED
    BY <1>1, <2>1, ServerUpdateStep, ServerZeroStep, ServerTooLongStep,
       SendStep, AnswerStep, AnswerFailStep, NewSessionStep DEF Server
<1>2. CASE Receives
  BY <1>2, ReceivePushStep, ReceiveReplyStep, ReceiveAffectedStep,
     ReceivePtsReceivedStep, ReceiveTooLongStep, ReceiveDifferenceStep,
     ReceiveChannelDifferenceStep, ReceiveFailStep, ReceiveNewSessionStep
  DEF Receives
<1>3. CASE Client
  <2>1. ASSUME NEW due \in SUBSET byPts \ {{}}, PtsTimer(due)
        PROVE  IInv' /\ FeedStep
    BY <2>1, PtsTimerStep
  <2>2. ASSUME NEW due \in SUBSET afterFail \ {{}}, FailTimer(due)
        PROVE  IInv' /\ FeedStep
    BY <2>2, FailTimerStep
  <2> QED BY <1>2, <1>3, <2>1, <2>2, MinChannelTimerStep, ShowChatStep,
            CloseWindowStep DEF Client
<1>4. CASE UNCHANGED vars
  <2>1. UNCHANGED <<waiter, byPts, byMinChannel, afterFail, active, applied,
                    log, serverPts, unsent, asked, net, counted, base>>
    BY <1>4 DEF vars, clientVars, serverVars, historyVars
  <2>2. TypeOK' /\ BoxInv'
    BY <2>1 DEF IInv, TypeOK, BoxInv
  <2>3. NetInv' /\ RequestInv'
    BY <2>1 DEF IInv, NetInv, RequestInv
  <2>4. FeedStep
    BY <2>1, FeedStutters
  <2> QED BY <2>2, <2>3, <2>4 DEF IInv
<1> QED BY <1>1, <1>3, <1>4 DEF Next

(* The strengthening is inductive: it holds whatever the server numbers,   *)
(* pushes, reorders, fails or forgets.                                     *)
THEOREM Inductive == Spec => []IInv
<1>1. IInv /\ [Next]_vars => IInv'
  BY NextStep
<1>2. Init => IInv
  BY InitStep
<1> QED BY <1>1, <1>2, PTL DEF Spec

(* The state of api_updates.cpp and of its waiters is well typed.          *)
THEOREM TypeCorrect == Spec => []TypeOK
<1>1. IInv => TypeOK
  BY DEF IInv
<1> QED BY <1>1, Inductive, PTL

(* Whatever pts the client reports in getDifference or                     *)
(* getChannelDifference, it has applied every update up to it.             *)
THEOREM AllApplied == Spec => []NothingSkipped
<1>1. IInv => NothingSkipped
  BY DEF IInv, BoxInv, Complete, NothingSkipped
<1> QED BY <1>1, Inductive, PTL

(* A step of UpdateFeed moves every pts forward only.                      *)
LEMMA FeedMoves ==
  ASSUME TypeOK, TypeOK', FeedStep, NEW c \in Boxes
  PROVE  waiter'[c].good >= waiter[c].good
<1> DEFINE old == [b \in Boxes |-> waiter[b].good]
           new == [b \in Boxes |-> waiter'[b].good]
<1>1. /\ old[c] = waiter[c].good /\ new[c] = waiter'[c].good
      /\ old[c] \in Nat /\ new[c] \in Nat
  BY DEF TypeOK, Waiters
<1>2. \/ new = old
      \/ \E b \in Boxes : new = [old EXCEPT ![b] = new[b]] /\ new[b] >= old[b]
  BY DEF FeedStep, Feed!Next, Feed!vars, Feed!Happen, Feed!Advance,
         Feed!StartFrom, Feed!Take
<1>3. CASE new = old
  BY <1>1, <1>3
<1>4. ASSUME NEW b \in Boxes, new = [old EXCEPT ![b] = new[b]], new[b] >= old[b]
      PROVE  new[c] >= old[c]
  <2>1. old \in [Boxes -> Nat]
    BY DEF TypeOK, Waiters
  <2> HIDE DEF old, new
  <2> QED BY <1>1, <1>4, <2>1
<1> QED BY <1>1, <1>2, <1>3, <1>4

(* No answer, however late, takes a box's pts back (PtsWaiter::init in     *)
(* setState and channelDifferenceDone overwrites it unconditionally).      *)
THEOREM NeverBack == Spec => PtsNeverGoesBack
<1>1. IInv /\ IInv' /\ [Next]_vars
        => [\A b \in Boxes : waiter'[b].good >= waiter[b].good]_vars
  BY NextStep, FeedMoves DEF IInv
<1> QED BY <1>1, Inductive, PTL DEF Spec, PtsNeverGoesBack

(* The waiters, timers and requests of api_updates.cpp implement the plain *)
(* promise of UpdateFeed.                                                  *)
THEOREM Implements == Spec => ImplementsFeed
<1>1. Init => Feed!Init
  <2> SUFFICES ASSUME Init PROVE Feed!Init
    OBVIOUS
  <2>1. \A b \in Boxes : waiter[b].good = 0
    BY DEF Init, setRequesting, NewWaiter
  <2> QED BY <2>1 DEF Init, Feed!Init
<1>2. IInv /\ [Next]_vars => [Feed!Next]_(Feed!vars)
  BY NextStep DEF FeedStep
<1> QED BY <1>1, <1>2, Inductive, PTL DEF Spec, ImplementsFeed, Feed!Spec

-----------------------------------------------------------------------------
(* Waiting and watching: AwaitInv and WatchInv.                            *)

USE DEF NoRequest, GetState

-----------------------------------------------------------------------------
(* Messages that stay on the way.                                          *)

(* Every message but the first stays when the main thread takes one.       *)
LEMMA TailKeeps ==
  ASSUME NEW q \in Seq(Messages), q /= <<>>
  PROVE  \A i \in DOMAIN q :
           i = 1 \/ /\ i - 1 \in DOMAIN Tail(q) /\ Tail(q)[i - 1] = q[i]
                    /\ i - 1 \in Nat
<1>1. Len(q) \in Nat /\ Len(q) >= 1 /\ DOMAIN q = 1 .. Len(q)
  BY EmptySeq, LenProperties
<1>2. /\ Tail(q) \in Seq(Messages) /\ Len(Tail(q)) = Len(q) - 1
      /\ \A i \in 1 .. Len(Tail(q)) : Tail(q)[i] = q[i + 1]
  BY HeadTailProperties
<1>3. DOMAIN Tail(q) = 1 .. (Len(q) - 1)
  BY <1>1, <1>2, LenProperties
<1>4. ASSUME NEW i \in DOMAIN q, i /= 1
      PROVE  i - 1 \in DOMAIN Tail(q) /\ Tail(q)[i - 1] = q[i] /\ i - 1 \in Nat
  <2>1. i - 1 \in 1 .. (Len(q) - 1) /\ (i - 1) + 1 = i
    BY <1>1, <1>4
  <2> QED BY <1>1, <1>2, <1>3, <2>1
<1> QED BY <1>4

(* Every message stays when one is appended, and that one is there.        *)
LEMMA AppendKeeps ==
  ASSUME NEW q \in Seq(Messages), NEW m \in Messages
  PROVE  /\ \A i \in DOMAIN q : /\ i \in Nat /\ i < Len(q) + 1
                                /\ i \in DOMAIN Append(q, m)
                                /\ Append(q, m)[i] = q[i]
         /\ Len(q) + 1 \in DOMAIN Append(q, m)
         /\ Append(q, m)[Len(q) + 1] = m
<1>1. Len(q) \in Nat /\ DOMAIN q = 1 .. Len(q)
  BY LenProperties
<1>2. /\ Append(q, m) \in Seq(Messages) /\ Len(Append(q, m)) = Len(q) + 1
      /\ Append(q, m)[Len(q) + 1] = m
      /\ \A i \in 1 .. Len(q) : Append(q, m)[i] = q[i]
  BY AppendProperties
<1>3. DOMAIN Append(q, m) = 1 .. (Len(q) + 1)
  BY <1>2, LenProperties
<1> QED BY <1>1, <1>2, <1>3

(* The first k messages stay when the session is lost.                     *)
LEMMA PrefixKeeps ==
  ASSUME NEW q \in Seq(Messages), NEW k \in 0 .. Len(q), NEW s \in Messages,
         NEW p, p = Append(SubSeq(q, 1, k), s)
  PROVE  /\ \A i \in DOMAIN q : \/ i \in 1 .. k /\ i \in DOMAIN p /\ p[i] = q[i]
                                \/ i \in (k + 1) .. Len(q)
         /\ k \in Nat /\ k + 1 \in DOMAIN p /\ p[k + 1] = s
<1> DEFINE r == SubSeq(q, 1, k)
<1>1. Len(q) \in Nat /\ k \in Nat /\ k <= Len(q) /\ DOMAIN q = 1 .. Len(q)
  BY LenProperties
<1>2. r \in Seq(Messages) /\ Len(r) = k /\ \A i \in 1 .. k : r[i] = q[i]
  BY <1>1
<1>3. p = Append(r, s)
  OBVIOUS
<1> HIDE DEF r
<1>4. /\ p \in Seq(Messages) /\ Len(p) = k + 1 /\ p[k + 1] = s
      /\ \A i \in 1 .. k : p[i] = r[i]
  BY <1>2, <1>3, AppendProperties
<1>5. DOMAIN p = 1 .. (k + 1)
  BY <1>4, LenProperties
<1>6. ASSUME NEW i \in DOMAIN q
      PROVE  \/ i \in 1 .. k /\ i \in DOMAIN p /\ p[i] = q[i]
             \/ i \in (k + 1) .. Len(q)
  <2>1. i \in 1 .. k \/ i \in (k + 1) .. Len(q)
    BY <1>1
  <2>2. i \in 1 .. k => i \in DOMAIN p
    BY <1>1, <1>5
  <2> QED BY <1>2, <1>4, <2>1, <2>2
<1>7. k + 1 \in DOMAIN p
  BY <1>1, <1>5
<1> QED BY <1>1, <1>4, <1>6, <1>7

-----------------------------------------------------------------------------
(* Who is requesting has somebody to wait for.                             *)

(* Only the answer about a box that is taken ends a wait.                  *)
LEMMA AnswersLeft ==
  ASSUME IInv, net /= <<>>, net' = Tail(net), NEW b \in Boxes,
         ~(IsAnswer(Head(net)) /\ Head(net).box = b)
  PROVE  NoAnswer(b, net') => NoAnswer(b, net)
<1>1. net \in Seq(Messages)
  BY DEF IInv, TypeOK
<1>2. Head(net) = net[1]
  BY <1>1, TailOf
<1>3. \A i \in DOMAIN net :
        i = 1 \/ (i - 1 \in DOMAIN net' /\ net'[i - 1] = net[i])
  BY <1>1, TailKeeps
<1> QED BY <1>2, <1>3 DEF NoAnswer

(* Nothing about the requests changes, apart from fewer of them.           *)
LEMMA AwaitKept ==
  ASSUME AwaitInv, NEW b \in Boxes,
         waiter'[b].requesting => waiter[b].requesting,
         asked'[b] = asked[b], b \in afterFail => b \in afterFail',
         NoAnswer(b, net') => NoAnswer(b, net)
  PROVE  Awaited(b)'
BY DEF AwaitInv, Awaited

(* Ask: who is asked about has a request at the server.                    *)
LEMMA AwaitAsk ==
  ASSUME IInv, AwaitInv,
         NEW w \in [Boxes -> Waiters], NEW bs \in SUBSET Boxes, Ask(w, bs),
         \A b \in Boxes : w[b].requesting =>
           waiter[b].requesting /\ (NoAnswer(b, net') => NoAnswer(b, net))
  PROVE  AwaitInv'
<1> SUFFICES ASSUME NEW b \in Boxes PROVE Awaited(b)'
  BY DEF AwaitInv
<1>1. IF b \in bs /\ MayAsk(w, b)
        THEN waiter'[b].requesting /\ asked'[b] = w[b].good
        ELSE /\ waiter'[b] = w[b] /\ asked'[b] = asked[b]
             /\ b \in afterFail' <=> b \in afterFail
  BY AskResult DEF IInv
<1>2. w[b].good \in Nat
  BY DEF Waiters
<1>3. CASE b \in bs /\ MayAsk(w, b)
  BY <1>1, <1>2, <1>3 DEF Awaited
<1>4. CASE ~(b \in bs /\ MayAsk(w, b))
  BY <1>1, <1>4 DEF AwaitInv, Awaited
<1> QED BY <1>3, <1>4

(* The actions that leave the requests alone, or ask in the usual way.     *)
LEMMA AwaitIdle ==
  ASSUME IInv, AwaitInv, UNCHANGED <<asked, afterFail>>,
         \A b \in Boxes : /\ waiter'[b].requesting => waiter[b].requesting
                          /\ NoAnswer(b, net') => NoAnswer(b, net)
  PROVE  AwaitInv'
<1>1. \A b \in Boxes : Awaited(b)'
  BY AwaitKept
<1> QED BY <1>1 DEF AwaitInv

(* getDifference() and its like.                                           *)
LEMMA AwaitAskOne ==
  ASSUME IInv, AwaitInv, NEW bs \in SUBSET Boxes, Ask(waiter, bs),
         \A b \in Boxes : NoAnswer(b, net') => NoAnswer(b, net)
  PROVE  AwaitInv'
<1>1. waiter \in [Boxes -> Waiters]
  BY DEF IInv, TypeOK
<1> QED BY <1>1, AwaitAsk
(* A step that takes a message which is no answer, or none at all.         *)
NoAnswerTaken ==
  /\ UNCHANGED <<log, serverPts, unsent>>
  /\ \/ net' = net
     \/ net /= <<>> /\ net' = Tail(net) /\ ~IsAnswer(Head(net))

LEMMA AnswersStay ==
  ASSUME IInv, NoAnswerTaken, NEW b \in Boxes
  PROVE  NoAnswer(b, net') => NoAnswer(b, net)
BY AnswersLeft DEF NoAnswerTaken

(* A waiter that is given an update keeps requesting or not.               *)
LEMMA AwaitGiven ==
  ASSUME IInv, AwaitInv, NoAnswerTaken, NEW b \in Boxes, NEW r, NEW u, NEW done,
         Given(b, r, u, done), r.w.requesting = waiter[b].requesting
  PROVE  AwaitInv'
<1>1. /\ waiter'[b] = r.w /\ \A c \in Boxes \ {b} : waiter'[c] = waiter[c]
      /\ UNCHANGED <<asked, afterFail>>
  BY DEF Given, IInv, TypeOK
<1>2. \A c \in Boxes : waiter'[c].requesting => waiter[c].requesting
  BY <1>1
<1> QED BY <1>1, <1>2, AnswersStay, AwaitIdle

(* updateAndApply() and the other overload do not touch _requesting.       *)
LEMMA GivenRequesting ==
  ASSUME NEW w \in Waiters, NEW u, NEW pts, NEW n
  PROVE  /\ updateAndApply(w, u).w.requesting = w.requesting
         /\ updateAndApplyAffected(w, pts, n).w.requesting = w.requesting
<1>1. \A x \in Waiters : \A p, c : check(x, p, c).w.requesting = x.requesting
  BY DEF check, init, Waiters
<1>2. \A p, c : updated(w, p, c).w.requesting = w.requesting
  BY <1>1 DEF updated
<1> QED BY <1>2 DEF updateAndApply, updateAndApplyAffected, applySkippedUpdates

(* feedUpdate(): ignored, asked about instead, or given to the waiter.     *)
LEMMA AwaitFeed ==
  ASSUME IInv, AwaitInv, NoAnswerTaken, NEW b \in Boxes, NEW u, feedUpdate(b, u)
  PROVE  AwaitInv'
<1>1. CASE UNCHANGED <<waiter, asked, afterFail>>
  BY <1>1, AnswersStay, AwaitIdle
<1>2. CASE getDifference
  BY <1>2, AnswersStay, AwaitAskOne, CommonIsBox DEF getDifference
<1>3. ASSUME NEW r, r = updateAndApply(waiter[b], u), NEW done,
             Given(b, r, u, done)
      PROVE  AwaitInv'
  <2>1. r.w.requesting = waiter[b].requesting
    BY <1>3, GivenRequesting DEF IInv, TypeOK
  <2> QED BY <1>3, <2>1, AwaitGiven
<1> QED BY <1>1, <1>2, <1>3 DEF feedUpdate, Ignored, clientVars

(* The messages that are no answers.                                       *)
LEMMA AwaitReceives ==
  ASSUME IInv, AwaitInv,
         \/ ReceivePush \/ ReceiveReply \/ ReceiveAffected
         \/ ReceivePtsReceived \/ ReceiveTooLong \/ ReceiveNewSession
  PROVE  AwaitInv'
<1>1. NoAnswerTaken /\ net /= <<>>
  BY DEF NoAnswerTaken, Receive, IsAnswer, ReceivePush, ReceiveReply,
         ReceiveAffected, ReceivePtsReceived, ReceiveTooLong, ReceiveNewSession
<1>2. Head(net) \in Messages
  BY <1>1, LeftTail
<1>3. CASE ReceivePush \/ ReceiveReply
  <2>1. Head(net).box \in Boxes
    BY <1>2, <1>3, MessageKinds DEF ReceivePush, ReceiveReply, Receive, IsUpdate
  <2>2. CASE Ignored
    BY <1>1, <2>2, AnswersStay, AwaitIdle DEF Ignored, clientVars
  <2>3. CASE feedUpdate(Head(net).box, Head(net).update)
    BY <1>1, <2>1, <2>3, AwaitFeed
  <2> QED BY <1>3, <2>2, <2>3 DEF ReceivePush, ReceiveReply
<1>4. CASE ReceiveAffected \/ ReceivePtsReceived
  <2>1. Head(net).box \in Boxes
    BY <1>2, <1>4, MessageKinds
    DEF ReceiveAffected, ReceivePtsReceived, Receive, IsUpdate
  <2>2. ASSUME NEW pts, NEW n, NEW u, NEW done,
               NEW r, r = updateAndApplyAffected(waiter[Head(net).box], pts, n),
               Given(Head(net).box, r, u, done)
        PROVE  AwaitInv'
    <3>1. waiter[Head(net).box] \in Waiters
      BY <2>1 DEF IInv, TypeOK
    <3>2. r.w.requesting = waiter[Head(net).box].requesting
      BY <2>2, <3>1, GivenRequesting
    <3> QED BY <1>1, <2>1, <2>2, <3>2, AwaitGiven
  <2> QED BY <1>4, <2>2 DEF ReceiveAffected, ReceivePtsReceived
<1>5. CASE ReceiveTooLong
  <2>1. {Head(net).box} \in SUBSET Boxes
    BY <1>2, <1>5, MessageKinds DEF ReceiveTooLong, Receive
  <2>2. CASE Ignored
    BY <1>1, <2>2, AnswersStay, AwaitIdle DEF Ignored, clientVars
  <2>3. CASE Ask(waiter, {Head(net).box})
    BY <1>1, <2>1, <2>3, AnswersStay, AwaitAskOne
  <2> QED BY <1>5, <2>2, <2>3 DEF ReceiveTooLong
<1>6. CASE ReceiveNewSession
  BY <1>1, <1>6, AnswersStay, AwaitAskOne, CommonIsBox
  DEF ReceiveNewSession, getDifference
<1> QED BY <1>3, <1>4, <1>5, <1>6

(* Timers and windows.                                                     *)
LEMMA AwaitTimers ==
  ASSUME IInv, AwaitInv,
         \/ \E due \in SUBSET byPts : PtsTimer(due)
         \/ \E due \in SUBSET afterFail : FailTimer(due)
         \/ MinChannelTimer
         \/ \E b \in Channels, show \in BOOLEAN : ShowChat(b, show)
         \/ \E b \in active : CloseWindow(b)
  PROVE  AwaitInv'
<1>1. net' = net
  BY DEF PtsTimer, FailTimer, MinChannelTimer, ShowChat, CloseWindow
<1>2. CASE \/ \E due \in SUBSET byPts : PtsTimer(due)
           \/ MinChannelTimer
  BY <1>1, <1>2, AwaitAskOne, CommonIsBox
  DEF PtsTimer, MinChannelTimer, getDifference, IInv, TypeOK
<1>3. ASSUME NEW due \in SUBSET afterFail, FailTimer(due)
      PROVE  AwaitInv'
  <2> DEFINE w == [b \in Boxes |-> IF b \in due
                                     THEN setRequesting(waiter[b], FALSE)
                                     ELSE waiter[b]]
  <2>1. Ask(w, due) /\ due \in SUBSET Boxes
    BY <1>3 DEF FailTimer, IInv, TypeOK
  <2>2. ASSUME NEW x \in Waiters
        PROVE  /\ setRequesting(x, FALSE) \in Waiters
               /\ ~setRequesting(x, FALSE).requesting
    BY DEF setRequesting, Waiters
  <2>3. w \in [Boxes -> Waiters] /\ \A b \in Boxes : w[b].requesting => w[b] = waiter[b]
    BY <2>2 DEF IInv, TypeOK
  <2> HIDE DEF w
  <2> QED BY <1>1, <2>1, <2>3, AwaitAsk
<1>4. ASSUME NEW b \in Channels, NEW show \in BOOLEAN, ShowChat(b, show)
      PROVE  AwaitInv'
  <2>1. /\ waiter' = [waiter EXCEPT ![b] = setWaitingForShortPoll(@, show).w]
        /\ UNCHANGED <<asked, afterFail>>
    BY <1>4 DEF ShowChat, serverVars
  <2>2. b \in Boxes /\ waiter[b] \in Waiters
    BY CommonIsBox DEF IInv, TypeOK
  <2>3. setWaitingForShortPoll(waiter[b], show).w.requesting = waiter[b].requesting
    BY <2>2, ShortPollResult
  <2>4. \A c \in Boxes : waiter'[c].requesting = waiter[c].requesting
    BY <2>1, <2>2, <2>3 DEF IInv, TypeOK
  <2> QED BY <1>1, <2>1, <2>4, AwaitIdle
<1>5. ASSUME NEW b \in active, CloseWindow(b)
      PROVE  AwaitInv'
  BY <1>1, <1>5, AwaitIdle DEF CloseWindow, serverVars
<1> QED BY <1>2, <1>3, <1>4, <1>5

(* differenceDone(): only its own answer is gone.                          *)
LEMMA AwaitDifference ==
  ASSUME IInv, AwaitInv, ReceiveDifference PROVE AwaitInv'
<1>0. PICK d : d = Head(net)
  OBVIOUS
<1> DEFINE x == setRequesting(init(waiter[Common], d.pts), FALSE)
           w == [waiter EXCEPT ![Common] = x]
           bs == (IF d.forget THEN {}
                  ELSE {c \in Channels : waiter[c].good < d.channels[c]})
                   \cup (IF d.final THEN {} ELSE {Common})
<1>1. /\ net /= <<>> /\ net' = Tail(net) /\ d.type = "difference"
      /\ d.box = Common /\ Ask(w, bs)
  BY <1>0 DEF ReceiveDifference, Receive
<1>2. waiter \in [Boxes -> Waiters] /\ Common \in Boxes /\ bs \in SUBSET Boxes
  BY CommonIsBox DEF IInv, TypeOK
<1>3. d.pts \in Nat
  BY <1>0, <1>1, LeftTail, MessageKinds
<1>4. x \in Waiters /\ ~x.requesting
  BY <1>2, <1>3, AnsweredResult
<1> HIDE DEF x, bs
<1>5. /\ w \in [Boxes -> Waiters] /\ ~w[Common].requesting
      /\ \A b \in Boxes \ {Common} : w[b] = waiter[b]
  BY <1>2, <1>4
<1>6. \A b \in Boxes \ {Common} : NoAnswer(b, net') => NoAnswer(b, net)
  BY <1>0, <1>1, AnswersLeft
<1> HIDE DEF w
<1> QED BY <1>1, <1>2, <1>5, <1>6, AwaitAsk

(* channelDifferenceDone(), after a slice or at the end.                   *)
LEMMA AwaitChannelDifference ==
  ASSUME IInv, AwaitInv, ReceiveChannelDifference PROVE AwaitInv'
<1>0. PICK d, b : d = Head(net) /\ b = d.box
  OBVIOUS
<1> DEFINE x == setRequesting(init(waiter[b], d.pts), FALSE)
           w == [waiter EXCEPT ![b] = x]
           wait == b \in active
           r == setWaitingForShortPoll(x, wait)
<1>1. /\ net /= <<>> /\ net' = Tail(net) /\ d.type = "difference"
      /\ b \in Channels
      /\ IF d.final THEN /\ waiter' = [waiter EXCEPT ![b] = r.w]
                         /\ UNCHANGED <<asked, afterFail>>
                    ELSE Ask(w, {b})
  BY <1>0 DEF ReceiveChannelDifference, Receive
<1>2. waiter \in [Boxes -> Waiters] /\ b \in Boxes
  BY <1>1, CommonIsBox DEF IInv, TypeOK
<1>3. d.pts \in Nat
  BY <1>0, <1>1, LeftTail, MessageKinds
<1>4. x \in Waiters /\ ~x.requesting
  BY <1>2, <1>3, AnsweredResult
<1> HIDE DEF x
<1>5. /\ w \in [Boxes -> Waiters] /\ ~w[b].requesting
      /\ \A c \in Boxes \ {b} : w[c] = waiter[c]
  BY <1>2, <1>4
<1>6. \A c \in Boxes \ {b} : NoAnswer(c, net') => NoAnswer(c, net)
  BY <1>0, <1>1, AnswersLeft
<1>7. ~r.w.requesting
  <2>1. wait \in BOOLEAN
    OBVIOUS
  <2> HIDE DEF wait
  <2> QED BY <1>4, <2>1, ShortPollResult
<1> HIDE DEF w, r
<1>8. CASE d.final
  <2>1. /\ ~waiter'[b].requesting
        /\ \A c \in Boxes \ {b} : waiter'[c] = waiter[c]
    BY <1>1, <1>2, <1>7, <1>8
  <2>2. \A c \in Boxes : Awaited(c)'
    <3> SUFFICES ASSUME NEW c \in Boxes PROVE Awaited(c)'
      OBVIOUS
    <3>1. CASE c = b
      BY <2>1, <3>1 DEF Awaited
    <3>2. CASE c /= b
      BY <1>1, <1>6, <1>8, <2>1, <3>2, AwaitKept
    <3> QED BY <3>1, <3>2
  <2> QED BY <2>2 DEF AwaitInv
<1>9. CASE ~d.final
  BY <1>1, <1>2, <1>5, <1>6, <1>9, AwaitAsk
<1> QED BY <1>8, <1>9

(* differenceFail(): the retry timer takes over from the answer.           *)
LEMMA AwaitFail ==
  ASSUME IInv, AwaitInv, ReceiveFail PROVE AwaitInv'
<1>1. /\ net /= <<>> /\ net' = Tail(net)
      /\ afterFail' = afterFail \cup {Head(net).box}
      /\ UNCHANGED <<waiter, asked>>
  BY DEF ReceiveFail, Receive
<1> SUFFICES ASSUME NEW b \in Boxes PROVE Awaited(b)'
  BY DEF AwaitInv
<1>2. CASE b = Head(net).box
  BY <1>1, <1>2 DEF Awaited
<1>3. CASE b /= Head(net).box
  BY <1>1, <1>3, AnswersLeft, AwaitKept
<1> QED BY <1>2, <1>3

(* The server answers a request with m.                                    *)
LEMMA AwaitAnswered ==
  ASSUME IInv, IInv', AwaitInv, NEW c \in Boxes, NEW m,
         IsAnswer(m), m.box = c, net' = Append(net, m), m \in Messages,
         asked' = [asked EXCEPT ![c] = NoRequest], UNCHANGED <<waiter, afterFail>>
  PROVE  AwaitInv'
<1> SUFFICES ASSUME NEW b \in Boxes PROVE Awaited(b)'
  BY DEF AwaitInv
<1>1. net \in Seq(Messages)
  BY DEF IInv, TypeOK
<1>2. /\ \A i \in DOMAIN net : i \in DOMAIN net' /\ net'[i] = net[i]
      /\ Len(net) + 1 \in DOMAIN net' /\ net'[Len(net) + 1] = m
  BY <1>1, AppendKeeps
<1>3. CASE b = c
  <2>1. ~NoAnswer(b, net')
    BY <1>2, <1>3 DEF NoAnswer
  <2> QED BY <2>1 DEF Awaited
<1>4. CASE b /= c
  <2>1. NoAnswer(b, net') => NoAnswer(b, net)
    BY <1>2 DEF NoAnswer
  <2>2. asked'[b] = asked[b]
    BY <1>4 DEF IInv, TypeOK
  <2> QED BY <2>1, <2>2, AwaitKept
<1> QED BY <1>3, <1>4

(* NewSession: the request whose answer is lost is back at the server.     *)
LEMMA AwaitNewSession ==
  ASSUME IInv, AwaitInv, NewSession PROVE AwaitInv'
<1> DEFINE s == [type |-> "newSession"]
<1>1. PICK k \in 0 .. Len(net) :
        LET lost == {net[i] : i \in (k + 1) .. Len(net)}
        IN  /\ net' = Append(SubSeq(net, 1, k), s)
            /\ asked' = [b \in Boxes |->
                 IF \E m \in lost : IsAnswer(m) /\ m.box = b
                   THEN (CHOOSE m \in lost : IsAnswer(m) /\ m.box = b).from
                   ELSE asked[b]]
  BY DEF NewSession
<1> DEFINE lost == {net[i] : i \in (k + 1) .. Len(net)}
<1>2. UNCHANGED <<waiter, afterFail>>
  BY DEF NewSession, clientVars
<1>3. net \in Seq(Messages) /\ s \in Messages
  BY DEF IInv, TypeOK, Messages
<1>4. \A i \in DOMAIN net : \/ i \in 1 .. k /\ i \in DOMAIN net' /\ net'[i] = net[i]
                            \/ i \in (k + 1) .. Len(net)
  BY <1>1, <1>3, PrefixKeeps
<1>5. \A x \in lost : x \in Messages
  BY <1>3, LenProperties
<1> SUFFICES ASSUME NEW b \in Boxes PROVE Awaited(b)'
  BY DEF AwaitInv
<1>6. CASE \E m \in lost : IsAnswer(m) /\ m.box = b
  <2>1. PICK m \in lost : IsAnswer(m) /\ asked'[b] = m.from
    BY <1>1, <1>6
  <2>2. m.from \in Nat
    BY <1>5, <2>1, MessageKinds
  <2> QED BY <2>1, <2>2 DEF Awaited
<1>7. CASE ~\E m \in lost : IsAnswer(m) /\ m.box = b
  <2>1. asked'[b] = asked[b]
    BY <1>1, <1>7
  <2>2. NoAnswer(b, net') => NoAnswer(b, net)
    BY <1>4, <1>7 DEF NoAnswer
  <2> QED BY <1>2, <2>1, <2>2, AwaitKept
<1> QED BY <1>6, <1>7

(* The server otherwise only adds messages.                                *)
LEMMA AwaitServer ==
  ASSUME IInv, IInv', AwaitInv, Server PROVE AwaitInv'
<1>1. net \in Seq(Messages) /\ unsent \subseteq Messages
      /\ serverPts \in [Boxes -> Nat]
  BY DEF IInv, TypeOK
<1>2. ASSUME UNCHANGED <<clientVars, asked>>,
             net' = net \/ \E m \in Messages : net' = Append(net, m)
      PROVE  AwaitInv'
  <2>1. \A i \in DOMAIN net : i \in DOMAIN net' /\ net'[i] = net[i]
    BY <1>1, <1>2, AppendKeeps
  <2>2. \A b \in Boxes : NoAnswer(b, net') => NoAnswer(b, net)
    BY <2>1 DEF NoAnswer
  <2> QED BY <1>2, <2>2, AwaitIdle DEF clientVars
<1>3. ASSUME NEW b \in Boxes, Answer(b)
      PROVE  AwaitInv'
  <2>1. PICK m : /\ net' = Append(net, m) /\ m.type = "difference" /\ m.box = b
    BY <1>3 DEF Answer, Difference
  <2>2. /\ asked' = [asked EXCEPT ![b] = NoRequest] /\ UNCHANGED <<waiter, afterFail>>
    BY <1>3 DEF Answer, clientVars
  <2>3. m \in Messages
    BY <1>1, <2>1, AppendProperties DEF IInv, TypeOK
  <2>4. IsAnswer(m) /\ m.box = b /\ net' = Append(net, m)
    BY <2>1 DEF IsAnswer
  <2> QED BY <2>2, <2>3, <2>4, AwaitAnswered
<1>4. ASSUME NEW b \in Boxes, AnswerFail(b)
      PROVE  AwaitInv'
  <2> DEFINE m == [type |-> "fail", box |-> b, from |-> asked[b]]
  <2>1. /\ net' = Append(net, m) /\ asked' = [asked EXCEPT ![b] = NoRequest]
        /\ UNCHANGED <<waiter, afterFail>>
    BY <1>4 DEF AnswerFail, clientVars
  <2>2. m \in Messages
    BY <1>4 DEF Messages, AnswerFail, IInv, TypeOK
  <2>3. IsAnswer(m) /\ m.box = b
    BY DEF IsAnswer
  <2> HIDE DEF m
  <2> QED BY <2>1, <2>2, <2>3, AwaitAnswered
<1>5. ASSUME NEW b \in Boxes, AnswerDialogs(b) \/ AnswerMessages(b)
      PROVE  AwaitInv'
  <2>1. PtsMsg("received", b) \in Messages
    BY <1>1 DEF PtsMsg, Messages
  <2> QED BY <1>2, <1>5, <2>1 DEF AnswerDialogs, AnswerMessages, serverVars
<1>6. ASSUME NEW m \in unsent, Send(m)
      PROVE  AwaitInv'
  BY <1>1, <1>2, <1>6 DEF Send
<1>7. CASE \/ \E b \in Boxes, n \in Counts, via \in Vias : ServerUpdate(b, n, via)
           \/ \E b \in Boxes : ServerZero(b) \/ ServerTooLong(b)
  BY <1>2, <1>7 DEF ServerUpdate, ServerZero, ServerTooLong
<1> QED BY <1>3, <1>4, <1>5, <1>6, <1>7, AwaitNewSession, CommonIsBox DEF Server

(* Every step keeps the waits.                                             *)
LEMMA AwaitNext ==
  ASSUME IInv, IInv', AwaitInv, [Next]_vars PROVE AwaitInv'
<1>1. CASE Receives
  BY <1>1, AwaitReceives, AwaitDifference, AwaitChannelDifference, AwaitFail
  DEF Receives
<1>2. CASE UNCHANGED vars
  BY <1>2, AwaitIdle DEF vars, clientVars, serverVars
<1> QED BY <1>1, <1>2, AwaitServer, AwaitTimers DEF Next, Client

(* Nobody waits in vain, and nobody is asked twice: at every moment a box  *)
(* that counts as requesting has a request at the server, or an answer on  *)
(* the way, or the retry timer.                                            *)
THEOREM Awaits == Spec => []AwaitInv
<1>1. Init => AwaitInv
  <2> SUFFICES ASSUME Init, NEW b \in Boxes PROVE Awaited(b)
    BY DEF AwaitInv
  <2>1. CASE b = Common
    BY <2>1 DEF Init, Awaited
  <2>2. CASE b /= Common
    BY <2>2 DEF Init, Awaited, NewWaiter
  <2> QED BY <2>1, <2>2
<1>2. IInv /\ IInv' /\ AwaitInv /\ [Next]_vars => AwaitInv'
  BY AwaitNext
<1> QED BY <1>1, <1>2, Inductive, PTL DEF Spec

(* So no answer finds its box in another state than the one that it was    *)
(* asked in, and getDifference's early return never loses a wait.          *)
THEOREM AskedOnce == Spec => []OneRequest
<1>1. IInv /\ AwaitInv => OneRequest
  <2> SUFFICES ASSUME IInv, AwaitInv, NEW b \in Boxes
               PROVE  Cardinality({i \in DOMAIN net : IsAnswer(net[i]) /\ net[i].box = b})
                        + (IF asked[b] = NoRequest THEN 0 ELSE 1)
                        + (IF b \in afterFail THEN 1 ELSE 0)
                      = IF waiter[b].requesting THEN 1 ELSE 0
    BY DEF OneRequest
  <2> DEFINE answers == {i \in DOMAIN net : IsAnswer(net[i]) /\ net[i].box = b}
  <2>1. \A i, j \in answers : i = j
    BY DEF IInv, NetInv, Clash
  <2>2. NoAnswer(b, net) <=> answers = {}
    BY DEF NoAnswer
  <2>3. asked[b] /= NoRequest \/ b \in afterFail
          => waiter[b].requesting /\ NoAnswer(b, net)
    BY DEF IInv, RequestInv
  <2>4. asked[b] /= NoRequest => b \notin afterFail
    BY DEF IInv, RequestInv
  <2>5. ~NoAnswer(b, net) => waiter[b].requesting
    BY NotWaiting
  <2>6. Awaited(b)
    BY DEF AwaitInv
  <2> HIDE DEF answers
  <2>7. CASE answers = {}
    <3>1. Cardinality(answers) = 0
      BY <2>7, FS_EmptySet
    <3>2. (IF asked[b] = NoRequest THEN 0 ELSE 1) + (IF b \in afterFail THEN 1 ELSE 0)
            = IF waiter[b].requesting THEN 1 ELSE 0
      BY <2>2, <2>3, <2>4, <2>6, <2>7 DEF Awaited
    <3> QED BY <3>1, <3>2 DEF answers
  <2>8. CASE answers /= {}
    <3>1. PICK i : answers = {i}
      BY <2>1, <2>8
    <3>2. Cardinality(answers) = 1
      BY <3>1, FS_Singleton
    <3>3. asked[b] = NoRequest /\ b \notin afterFail /\ waiter[b].requesting
      BY <2>2, <2>3, <2>5, <2>8
    <3> QED BY <3>2, <3>3 DEF answers
  <2> QED BY <2>7, <2>8
<1> QED BY <1>1, Inductive, Awaits, PTL

-----------------------------------------------------------------------------
(* What a waiter makes of an update that takes points, and of its first    *)
(* pts.                                                                    *)

(* A waiter that is not requesting: what IInv and Timed say of it.         *)
Ready(w) ==
  /\ w \in Waiters /\ ~w.requesting /\ w.good <= w.last
  /\ ~inited(w) => w.last = 0
  /\ w.good = w.last => w.count = w.last /\ w.queue = {}
  /\ w.good /= w.last => w.last /= w.count /\ w.waitingForSkipped
  /\ w.queue /= {} => w.waitingForSkipped
  /\ \A v \in w.queue : v.pts <= w.last

(* The waiter x after updated() either found no hole and is complete up to *)
(* all it was told, or has opened or kept one, whose timer starts.         *)
Closed(w, x, pts) ==
  /\ x.good = x.last /\ x.count = x.last /\ x.good > 0 /\ x.good /= w.good
  /\ pts <= x.good /\ w.last <= x.good

Holed(w, x, n) ==
  /\ x.good = w.good /\ x.good <= x.last /\ x.last /= x.count
  /\ x.count = w.count + n /\ inited(w) /\ n > 0
  /\ x.waitingForSkipped /\ x.queue = w.queue

LEMMA CheckResult ==
  ASSUME NEW w, Ready(w), NEW pts \in Nat, pts >= 1,
         NEW n \in Nat, n > 0 \/ ~inited(w), ~(pts <= w.good /\ n > 0)
  PROVE  LET c == check(w, pts, n)
         IN  /\ c.w \in Waiters /\ ~c.w.requesting
             /\ \/ /\ c.yes /\ c.timer = "keep" /\ Closed(w, c.w, pts)
                   /\ c.w.waitingForSkipped = w.waitingForSkipped
                   /\ c.w.queue \subseteq w.queue
                \/ ~c.yes /\ c.timer = "start" /\ Holed(w, c.w, n)
<1> DEFINE c == check(w, pts, n)
           last == qMax(w.last, pts)
           points == w.count + n
<1>1. /\ w \in Waiters /\ w.good \in Nat /\ w.last \in Nat /\ w.count \in Nat
      /\ w.good <= w.last /\ ~w.requesting
      /\ w.waitingForSkipped \in BOOLEAN
  BY DEF Ready, Waiters
<1>2. last \in Nat /\ last >= w.last /\ last >= pts /\ points \in Nat
  BY <1>1 DEF qMax
<1>3. CASE ~inited(w)
  <2>1. c.w = init(w, pts) /\ c.yes /\ c.timer = "keep"
    BY <1>3 DEF check
  <2> HIDE DEF c
  <2>2. /\ c.w \in Waiters /\ c.w.queue = {} /\ c.w.good = pts
        /\ c.w.last = pts /\ c.w.count = pts
    <3>1. w \in Waiters /\ pts \in Nat /\ c.w = init(w, pts)
      BY <1>1, <2>1
    <3> QED BY ONLY <3>1, InitResult
  <2>3. ~c.w.requesting
    <3>1. w \in Waiters /\ pts \in Nat /\ c.w = init(w, pts)
      BY <1>1, <2>1
    <3>2. c.w.requesting = w.requesting
      BY ONLY <3>1, InitResult
    <3> QED BY <1>1, <3>2
  <2>4. c.w.waitingForSkipped = w.waitingForSkipped
    BY <1>1, <2>1 DEF init, Waiters
  <2>5. w.good = 0 /\ w.last = 0
    BY <1>1, <1>3 DEF inited, Ready
  <2>6. Closed(w, c.w, pts)
    BY <2>2, <2>5 DEF Closed
  <2>7. c.w.queue \subseteq w.queue
    BY <2>2
  <2> QED BY <2>1, <2>2, <2>3, <2>4, <2>6, <2>7 DEF c
<1> HIDE DEF last, points
<1>4. CASE inited(w) /\ last = points
  <2>1. c = [yes |-> TRUE,
             w |-> [[w EXCEPT !.last = last, !.count = points]
                      EXCEPT !.good = last],
             timer |-> "keep"]
    BY <1>4 DEF check, last, points
  <2>2. /\ c.yes /\ c.timer = "keep"
        /\ c.w = [[w EXCEPT !.last = last, !.count = points] EXCEPT !.good = last]
    BY <2>1
  <2> HIDE DEF c
  <2>3. c.w \in Waiters
    BY <1>1, <1>2, <2>2 DEF Waiters
  <2>4. c.w.queue = w.queue
        /\ c.w.last = last /\ c.w.count = points /\ c.w.good = last
    BY <1>1, <2>2 DEF Waiters
  <2>5. c.w.waitingForSkipped = w.waitingForSkipped
    BY <1>1, <2>2 DEF Waiters
  <2>6. ~c.w.requesting
    BY <1>1, <2>2 DEF Waiters
  <2>7. last /= w.good
    <3>1. n > 0
      BY <1>4
    <3>2. w.good = w.last => w.count = w.last
      BY DEF Ready
    <3> QED BY <1>1, <1>2, <1>4, <3>1, <3>2 DEF points
  <2>8. last > 0
    BY <1>2
  <2>9. Closed(w, c.w, pts)
    BY <1>2, <1>4, <2>4, <2>7, <2>8 DEF Closed
  <2> QED BY <2>2, <2>3, <2>4, <2>5, <2>6, <2>9 DEF c
<1>5. CASE inited(w) /\ last /= points
  <2>1. c = [yes |-> (n = 0),
             w |-> [[w EXCEPT !.last = last, !.count = points]
                      EXCEPT !.waitingForSkipped = TRUE],
             timer |-> "start"]
    BY <1>5 DEF check, last, points
  <2> HIDE DEF c
  <2>0. n > 0 /\ n /= 0
    BY <1>5
  <2>2. /\ ~c.yes /\ c.timer = "start"
        /\ c.w = [[w EXCEPT !.last = last, !.count = points]
                    EXCEPT !.waitingForSkipped = TRUE]
    <3>1. c.yes <=> n = 0
      BY <2>1
    <3>2. c.w = [[w EXCEPT !.last = last, !.count = points]
                   EXCEPT !.waitingForSkipped = TRUE]
      BY <2>1
    <3>3. c.timer = "start"
      BY <2>1
    <3> QED BY <2>0, <3>1, <3>2, <3>3
  <2>3. c.w \in Waiters
    BY <1>1, <1>2, <2>2 DEF Waiters
  <2>4. /\ c.w.queue = w.queue
        /\ c.w.last = last /\ c.w.count = points /\ c.w.good = w.good
    BY <1>1, <2>2 DEF Waiters
  <2>5. c.w.waitingForSkipped
    BY <1>1, <2>2 DEF Waiters
  <2>6. ~c.w.requesting
    BY <1>1, <2>2 DEF Waiters
  <2>7. Holed(w, c.w, n)
    BY <1>1, <1>2, <1>5, <2>0, <2>4, <2>5 DEF Holed, points
  <2> QED BY <2>2, <2>3, <2>6, <2>7 DEF c
<1> QED BY <1>3, <1>4, <1>5

(* What the box can rely on when r is the answer to an update that ends at *)
(* pts: a hole is timed, the pts passes all that was seen if it moves, the *)
(* update is counted if it does not, and what is fed is not past the pts.  *)
Noted(w, r, pts, isTimed) ==
  /\ Timed(r.w, r.timer = "start" \/ (r.timer /= "stop" /\ isTimed))
  /\ r.w.good /= w.good => pts <= r.w.good /\ w.last <= r.w.good
  /\ r.w.good = w.good /\ r.w.count = w.count => pts <= w.good
  /\ \A v \in r.fed : v.pts <= r.w.good

(* An answer that found no hole, and one that left a hole.                 *)
LEMMA NotedClosed ==
  ASSUME NEW w \in Waiters, NEW r, NEW pts \in Nat, NEW isTimed,
         r.w \in Waiters, Closed(w, r.w, pts), \A v \in r.fed : v.pts <= r.w.good
  PROVE  Noted(w, r, pts, isTimed)
BY DEF Closed, Noted, Timed, inited, Waiters

LEMMA NotedHoled ==
  ASSUME NEW w, Ready(w), NEW r, NEW pts \in Nat, NEW n \in Nat, NEW isTimed,
         r.timer = "start", r.w.good = w.good, r.w.last /= r.w.count,
         r.w.count = w.count + n, n > 0, inited(w), r.w.waitingForSkipped,
         r.fed = {}
  PROVE  Noted(w, r, pts, isTimed)
BY DEF Noted, Timed, inited, Waiters, Ready

(* A late update is dropped and changes nothing.                           *)
LEMMA NotedDropped ==
  ASSUME NEW w, Ready(w), NEW r, NEW pts \in Nat, NEW isTimed,
         Timed(w, isTimed), pts <= w.good, r.w = w, r.timer = "keep", r.fed = {}
  PROVE  Noted(w, r, pts, isTimed)
BY DEF Noted, Timed

(* updateAndApply() with an update.                                        *)
LEMMA NotedUpdate ==
  ASSUME NEW w, Ready(w), NEW isTimed, Timed(w, isTimed),
         NEW u \in Update, u.cnt > 0, u.pts >= 1
  PROVE  Noted(w, updateAndApply(w, u), u.pts, isTimed)
<1> DEFINE r == updateAndApply(w, u)
           c == check(w, u.pts, u.cnt)
<1>1. /\ w \in Waiters /\ ~w.requesting /\ w.good \in Nat /\ w.last \in Nat
      /\ \A v \in w.queue : v.pts <= w.last
  BY DEF Ready, Waiters
<1>2. u.pts \in Nat /\ u.cnt \in Nat
  BY DEF Update
<1>3. CASE u.pts <= w.good
  <2>1. r = [w |-> w, fed |-> {}, timer |-> "keep"]
    BY <1>1, <1>3 DEF updateAndApply, updated
  <2>2. r.w = w /\ r.fed = {} /\ r.timer = "keep"
    BY <2>1
  <2> HIDE DEF r
  <2>3. Noted(w, r, u.pts, isTimed)
    BY <1>2, <1>3, <2>2, NotedDropped
  <2> QED BY <2>3 DEF r
<1>4. CASE ~(u.pts <= w.good)
  <2>1. /\ c.w \in Waiters /\ ~c.w.requesting
        /\ \/ /\ c.yes /\ c.timer = "keep" /\ Closed(w, c.w, u.pts)
              /\ c.w.waitingForSkipped = w.waitingForSkipped
              /\ c.w.queue \subseteq w.queue
           \/ ~c.yes /\ c.timer = "start" /\ Holed(w, c.w, u.cnt)
    BY <1>2, <1>4, CheckResult
  <2>2. updated(w, u.pts, u.cnt)
          = [verdict |-> IF c.yes THEN "apply" ELSE "save", w |-> c.w,
             timer |-> c.timer]
    BY <1>1, <1>2, <1>4 DEF updated
  <2> DEFINE queued == [c.w EXCEPT !.queue = @ \cup {u}]
  <2> HIDE DEF c
  <2>3. /\ queued.good = c.w.good /\ queued.last = c.w.last
        /\ queued.count = c.w.count /\ queued.queue = c.w.queue \cup {u}
        /\ queued \in Waiters
    BY <2>1 DEF Waiters
  <2>4. queued.waitingForSkipped = c.w.waitingForSkipped
    BY <2>1 DEF Waiters
  <2> HIDE DEF queued
  <2>5. CASE c.yes
    <3>1. /\ c.timer = "keep" /\ Closed(w, c.w, u.pts) /\ c.w.queue \subseteq w.queue
      BY <2>1, <2>5
    <3>2. CASE ~c.w.waitingForSkipped \/ c.w.queue = {}
      <4>1. r = [w |-> c.w, fed |-> {u}, timer |-> c.timer]
        BY <2>2, <2>5, <3>2 DEF updateAndApply
      <4>2. r.w = c.w /\ r.fed = {u}
        BY <4>1
      <4> HIDE DEF r
      <4>3. u.pts <= c.w.good
        BY <3>1 DEF Closed
      <4>4. Noted(w, r, u.pts, isTimed)
        BY <1>1, <1>2, <2>1, <3>1, <4>2, <4>3, NotedClosed
      <4> QED BY <4>4 DEF r
    <3>3. CASE ~(~c.w.waitingForSkipped \/ c.w.queue = {})
      <4> DEFINE rested == [[queued EXCEPT !.waitingForSkipped = FALSE]
                              EXCEPT !.queue = {}]
      <4>1. r = applySkippedUpdates(queued, c.timer)
        BY <2>2, <2>5, <3>3 DEF updateAndApply, queued
      <4>2. r.w = rested /\ r.fed = queued.queue
        BY <2>4, <3>3, <4>1 DEF applySkippedUpdates
      <4>3. /\ rested \in Waiters /\ rested.good = c.w.good
            /\ rested.last = c.w.last /\ rested.count = c.w.count
        BY <2>3 DEF Waiters
      <4> HIDE DEF rested, r
      <4>4. Closed(w, r.w, u.pts)
        BY <3>1, <4>2, <4>3 DEF Closed
      <4>5. \A v \in r.fed : v.pts <= r.w.good
        <5>1. \A v \in w.queue : v \in Update
          BY <1>1 DEF Waiters
        <5>2. r.w.good \in Nat /\ w.last <= r.w.good /\ u.pts <= r.w.good
          BY <4>2, <4>3, <4>4 DEF Closed, Waiters
        <5>3. ASSUME NEW v \in w.queue PROVE v.pts <= r.w.good
          BY <1>1, <5>1, <5>2 DEF Update
        <5> QED BY <2>3, <3>1, <4>2, <5>2, <5>3
      <4>6. Noted(w, r, u.pts, isTimed)
        BY <1>1, <1>2, <4>2, <4>3, <4>4, <4>5, NotedClosed
      <4> QED BY <4>6 DEF r
    <3> QED BY <3>2, <3>3
  <2>6. CASE ~c.yes
    <3>1. c.timer = "start" /\ Holed(w, c.w, u.cnt)
      BY <2>1, <2>6
    <3>2. r = [w |-> queued, fed |-> {}, timer |-> c.timer]
      BY <2>2, <2>6 DEF updateAndApply, queued
    <3>3. r.w = queued /\ r.fed = {} /\ r.timer = "start"
      BY <3>1, <3>2
    <3> HIDE DEF r
    <3>4. Noted(w, r, u.pts, isTimed)
      <4>1. /\ queued.good = w.good /\ queued.last /= queued.count
            /\ queued.count = w.count + u.cnt /\ inited(w)
            /\ queued.waitingForSkipped
        BY <2>3, <2>4, <3>1 DEF Holed
      <4> QED BY <1>2, <3>3, <4>1, NotedHoled
    <3> QED BY <3>4 DEF r
  <2> QED BY <2>5, <2>6
<1> QED BY <1>3, <1>4

(* updateAndApplyAffected(), and ptsReceived() of a box that had no pts.   *)
LEMMA NotedAffected ==
  ASSUME NEW w, Ready(w), NEW isTimed, Timed(w, isTimed),
         NEW pts \in Nat, pts >= 1, NEW n \in Nat, n > 0 \/ ~inited(w)
  PROVE  Noted(w, updateAndApplyAffected(w, pts, n), pts, isTimed)
<1> DEFINE r == updateAndApplyAffected(w, pts, n)
           c == check(w, pts, n)
<1>1. /\ w \in Waiters /\ ~w.requesting /\ w.good \in Nat /\ w.last \in Nat
      /\ \A v \in w.queue : v.pts <= w.last
  BY DEF Ready, Waiters
<1>2. CASE pts <= w.good /\ n > 0
  <2>1. r = [w |-> w, fed |-> {}, timer |-> "keep"]
    BY <1>1, <1>2 DEF updateAndApplyAffected, updated
  <2>2. r.w = w /\ r.fed = {} /\ r.timer = "keep"
    BY <2>1
  <2> HIDE DEF r
  <2>3. Noted(w, r, pts, isTimed)
    BY <1>2, <2>2, NotedDropped
  <2> QED BY <2>3 DEF r
<1>3. CASE ~(pts <= w.good /\ n > 0)
  <2>1. /\ c.w \in Waiters /\ ~c.w.requesting
        /\ \/ /\ c.yes /\ c.timer = "keep" /\ Closed(w, c.w, pts)
              /\ c.w.waitingForSkipped = w.waitingForSkipped
              /\ c.w.queue \subseteq w.queue
           \/ ~c.yes /\ c.timer = "start" /\ Holed(w, c.w, n)
    BY <1>3, CheckResult
  <2>2. updated(w, pts, n)
          = [verdict |-> IF c.yes THEN "apply" ELSE "save", w |-> c.w,
             timer |-> c.timer]
    BY <1>1, <1>3 DEF updated
  <2> HIDE DEF c
  <2>3. CASE c.yes
    <3> DEFINE rested == [[c.w EXCEPT !.waitingForSkipped = FALSE]
                            EXCEPT !.queue = {}]
    <3>1. Closed(w, c.w, pts) /\ c.w.queue \subseteq w.queue
      BY <2>1, <2>3
    <3>2. r = applySkippedUpdates(c.w, c.timer)
      BY <2>2, <2>3 DEF updateAndApplyAffected
    <3>3. \/ r.w = rested /\ r.fed = c.w.queue
          \/ r.w = c.w /\ r.fed = {}
      BY <3>2 DEF applySkippedUpdates
    <3>4. /\ rested \in Waiters /\ rested.good = c.w.good
          /\ rested.last = c.w.last /\ rested.count = c.w.count
      BY <2>1 DEF Waiters
    <3> HIDE DEF rested, r
    <3>5. r.w \in Waiters /\ Closed(w, r.w, pts)
      BY <2>1, <3>1, <3>3, <3>4 DEF Closed
    <3>6. \A v \in r.fed : v.pts <= r.w.good
      <4>1. \A v \in w.queue : v \in Update
        BY <1>1 DEF Waiters
      <4>2. r.w.good \in Nat /\ w.last <= r.w.good
        BY <3>5 DEF Closed, Waiters
      <4>3. ASSUME NEW v \in w.queue PROVE v.pts <= r.w.good
        BY <1>1, <4>1, <4>2 DEF Update
      <4> QED BY <3>1, <3>3, <4>3
    <3>7. Noted(w, r, pts, isTimed)
      BY <1>1, <3>5, <3>6, NotedClosed
    <3> QED BY <3>7 DEF r
  <2>4. CASE ~c.yes
    <3>1. c.timer = "start" /\ Holed(w, c.w, n)
      BY <2>1, <2>4
    <3>2. r = [w |-> c.w, fed |-> {}, timer |-> c.timer]
      BY <2>2, <2>4 DEF updateAndApplyAffected
    <3>3. r.w = c.w /\ r.fed = {} /\ r.timer = "start"
      BY <3>1, <3>2
    <3> HIDE DEF r
    <3>4. Noted(w, r, pts, isTimed)
      <4>1. /\ c.w.good = w.good /\ c.w.last /= c.w.count
            /\ c.w.count = w.count + n /\ inited(w) /\ n > 0
            /\ c.w.waitingForSkipped
        BY <3>1 DEF Holed
      <4> QED BY <3>3, <4>1, NotedHoled
    <3> QED BY <3>4 DEF r
  <2> QED BY <2>3, <2>4
<1> QED BY <1>2, <1>3

(* While a difference is requested nothing moves.                          *)
LEMMA GivenWhileRequesting ==
  ASSUME NEW w \in Waiters, w.requesting, w.queue = {}, NEW u,
         NEW pts, NEW n
  PROVE  /\ updateAndApply(w, u).w = w /\ updateAndApply(w, u).fed = {u}
         /\ updateAndApplyAffected(w, pts, n).fed = {}
         /\ updateAndApplyAffected(w, pts, n).w.good = w.good
         /\ updateAndApplyAffected(w, pts, n).w.last = w.last
<1>1. /\ updateAndApply(w, u).w = w /\ updateAndApply(w, u).fed = {u}
  BY DEF updateAndApply, updated
<1>2. updateAndApplyAffected(w, pts, n) = applySkippedUpdates(w, "keep")
  BY DEF updateAndApplyAffected, updated
<1>3. w.queue /= {} => w.waitingForSkipped
  OBVIOUS
<1> QED BY <1>1, <1>2, <1>3, SkippedApplied

(* A box that is not requesting is ready.                                  *)
LEMMA BoxReady ==
  ASSUME IInv, NEW b \in Boxes, ~waiter[b].requesting,
         NEW isTimed, Timed(waiter[b], isTimed)
  PROVE  Ready(waiter[b])
<1> DEFINE w == waiter[b]
           C == counted[b]
<1>1. /\ w \in Waiters /\ w.good \in Nat /\ w.last \in Nat /\ w.good <= w.last
      /\ w.queue /= {} => w.waitingForSkipped
      /\ \A u \in C : w.good < u.pts /\ u.pts <= w.last
      /\ w.count = w.good + Cardinality(Points(C))
      /\ w.queue \subseteq C /\ C \subseteq Update
  BY DEF IInv, TypeOK, BoxInv, WaiterInv, Boundary, Waiters
<1>2. w.good = w.last => w.count = w.last /\ w.queue = {}
  <2> SUFFICES ASSUME w.good = w.last PROVE w.count = w.last /\ w.queue = {}
    OBVIOUS
  <2>1. C = {}
    BY <1>1 DEF Update
  <2>2. Points(C) = {}
    BY <2>1 DEF Points
  <2> QED BY <1>1, <2>1, <2>2, FS_EmptySet
<1>3. \A v \in w.queue : v.pts <= w.last
  BY <1>1
<1> HIDE DEF w
<1>4. Ready(w)
  BY <1>1, <1>2, <1>3 DEF Ready, Timed, w
<1> QED BY <1>4 DEF w

-----------------------------------------------------------------------------
(* What is still to come.                                                  *)

(* The main thread takes one message, or none.                             *)
Takes ==
  /\ UNCHANGED <<log, serverPts, unsent, spent>>
  /\ net' = net \/ (net /= <<>> /\ net' = Tail(net))

(* Behind the message that is taken nothing changes.                       *)
LEMMA ComingBehind ==
  ASSUME IInv, net /= <<>>, net' = Tail(net), UNCHANGED unsent,
         NEW i \in Nat, NEW b, NEW u, Coming(i + 1, b, u)
  PROVE  Coming(i, b, u)'
<1>1. net \in Seq(Messages) /\ DOMAIN net = 1 .. Len(net) /\ Len(net) \in Nat
  BY LenProperties DEF IInv, TypeOK
<1>2. \A j \in DOMAIN net :
        j = 1 \/ (j - 1 \in DOMAIN net' /\ net'[j - 1] = net[j] /\ j - 1 \in Nat)
  BY <1>1, TailKeeps
<1>3. CASE \E m \in unsent : Brings(m, b, u)
  BY <1>3 DEF Coming
<1>4. CASE \E j \in DOMAIN net : j > i + 1 /\ Brings(net[j], b, u)
  <2>1. PICK j \in DOMAIN net : j > i + 1 /\ Brings(net[j], b, u)
    BY <1>4
  <2>2. j \in Nat /\ j /= 1 /\ j - 1 > i
    BY <1>1, <2>1
  <2> QED BY <1>2, <2>1, <2>2 DEF Coming
<1> QED BY <1>3, <1>4 DEF Coming

(* Only the message taken is no longer to come.                            *)
LEMMA ComingTaken ==
  ASSUME IInv, Takes, NEW b, NEW u, Coming(0, b, u)
  PROVE  \/ Coming(0, b, u)'
         \/ net' /= net /\ net /= <<>> /\ net' = Tail(net) /\ Brings(Head(net), b, u)
<1>1. CASE net' = net
  BY <1>1 DEF Takes, Coming
<1>2. CASE net' /= net
  <2>1. net /= <<>> /\ net' = Tail(net)
    BY <1>2 DEF Takes
  <2>2. net \in Seq(Messages) /\ Head(net) = net[1]
    BY <2>1, TailOf DEF IInv, TypeOK
  <2>3. DOMAIN net = 1 .. Len(net) /\ Len(net) \in Nat
    BY <2>2, LenProperties
  <2>4. \A j \in DOMAIN net :
          j = 1 \/ (j - 1 \in DOMAIN net' /\ net'[j - 1] = net[j])
    BY <2>1, <2>2, TailKeeps
  <2>5. CASE \E m \in unsent : Brings(m, b, u)
    BY <2>5 DEF Coming, Takes
  <2>6. ASSUME NEW j \in DOMAIN net, Brings(net[j], b, u)
        PROVE  Brings(Head(net), b, u) \/ Coming(0, b, u)'
    <3>1. CASE j = 1
      BY <2>2, <2>6, <3>1
    <3>2. CASE j /= 1
      <4>1. j - 1 > 0 /\ j - 1 \in DOMAIN net' /\ net'[j - 1] = net[j]
        BY <2>3, <2>4, <3>2
      <4> QED BY <2>6, <4>1 DEF Coming
    <3> QED BY <3>1, <3>2
  <2> QED BY <1>2, <2>1, <2>5, <2>6 DEF Coming
<1> QED BY <1>1, <1>2

(* Messages stay as plain as they are while boxes only move on, and what   *)
(* an answer settles stays settled.                                        *)
LEMMA NetWatchKept ==
  ASSUME IInv, WatchInv, Takes,
         \A b \in Boxes : inited(waiter[b]) => inited(waiter'[b]),
         \A b \in Channels :
           \/ inited(waiter'[b]) => inited(waiter[b])
           \/ \A i \in DOMAIN net' : ~(net'[i].type = "received" /\ net'[i].box = b)
  PROVE  NetWatch'
<1>1. net \in Seq(Messages) /\ unsent \subseteq Messages
      /\ Common \in Boxes /\ Channels \subseteq Boxes
  BY CommonIsBox DEF IInv, TypeOK
<1>2. /\ UNCHANGED <<log, unsent>>
      /\ \/ net' = net
         \/ net /= <<>> /\ net' = Tail(net)
  BY DEF Takes
<1>3. \A i \in DOMAIN net' :
        \/ net' = net
        \/ /\ net /= <<>> /\ net' = Tail(net)
           /\ i \in Nat /\ i + 1 \in DOMAIN net /\ net'[i] = net[i + 1]
  BY <1>1, <1>2, TailOf
<1>4. \A i \in DOMAIN net' : \E j \in DOMAIN net : net'[i] = net[j]
  BY <1>3
<1>5. ASSUME NEW m \in Messages, Plain(m, waiter),
             m.type = "received" =>
               (inited(waiter'[m.box]) => inited(waiter[m.box])),
             IsUpdate(m) => m.box \in Boxes
      PROVE  Plain(m, waiter')
  <2>1. IsReply(m) => IsUpdate(m)
    BY DEF IsReply, IsUpdate
  <2> QED BY <1>1, <1>5, <2>1 DEF Plain
<1>6. \A m \in Messages : IsUpdate(m) => m.box \in Boxes
  BY MessageKinds
<1>7. ASSUME NEW i \in DOMAIN net' PROVE Plain(net'[i], waiter')
  <2>1. PICK j \in DOMAIN net : net'[i] = net[j]
    BY <1>4
  <2>2. net'[i] \in Messages /\ Plain(net'[i], waiter)
    BY <1>1, <2>1 DEF WatchInv, NetWatch
  <2>3. net'[i].type = "received" => net'[i].box \in Channels
    BY <2>1 DEF IInv, NetInv, MessageInv
  <2>4. net'[i].type = "received"
          => (inited(waiter'[net'[i].box]) => inited(waiter[net'[i].box]))
    BY <2>3
  <2> QED BY <1>5, <1>6, <2>2, <2>4
<1>8. ASSUME NEW m \in unsent' PROVE Plain(m, waiter')
  <2>1. m \in Messages /\ Plain(m, waiter) /\ m.type /= "received"
    BY <1>1, <1>2 DEF WatchInv, NetWatch, IInv, NetInv, IsUpdate
  <2> QED BY <1>5, <1>6, <2>1
<1>9. \A i, j \in DOMAIN net' :
        net'[i].type = "received" /\ net'[j].type = "received"
          /\ net'[i].box = net'[j].box => i = j
  <2>1. CASE net' = net
    BY <2>1 DEF WatchInv, NetWatch
  <2>2. CASE net' /= net
    <3> SUFFICES ASSUME NEW i \in DOMAIN net', NEW j \in DOMAIN net',
                        net'[i].type = "received", net'[j].type = "received",
                        net'[i].box = net'[j].box
                 PROVE  i = j
      OBVIOUS
    <3>1. /\ i \in Nat /\ i + 1 \in DOMAIN net /\ net'[i] = net[i + 1]
          /\ j \in Nat /\ j + 1 \in DOMAIN net /\ net'[j] = net[j + 1]
      BY <1>3, <2>2
    <3>2. i + 1 = j + 1
      BY <3>1 DEF WatchInv, NetWatch
    <3> QED BY <3>1, <3>2
  <2> QED BY <2>1, <2>2
<1>10. ASSUME NEW i \in DOMAIN net', NEW b \in Boxes, NEW p \in Nat,
              NEW u \in log'[b], Settles(net'[i], b, p), u.pts > p
       PROVE  Coming(i, b, u)'
  <2>1. CASE net' = net
    <3>1. Coming(i, b, u)
      BY <1>2, <1>10, <2>1 DEF WatchInv, NetWatch
    <3> QED BY <1>2, <2>1, <3>1 DEF Coming
  <2>2. CASE net' /= net
    <3>1. /\ net /= <<>> /\ net' = Tail(net)
          /\ i \in Nat /\ i + 1 \in DOMAIN net /\ net'[i] = net[i + 1]
      BY <1>3, <2>2
    <3>2. Coming(i + 1, b, u)
      BY <1>2, <1>10, <3>1 DEF WatchInv, NetWatch
    <3> QED BY <1>2, <3>1, <3>2, ComingBehind
  <2> QED BY <2>1, <2>2
<1>11. \A i \in DOMAIN net' : \A b \in Boxes : \A p \in Nat : \A u \in log'[b] :
         Settles(net'[i], b, p) /\ u.pts > p => Coming(i, b, u)'
  BY <1>10
<1> QED BY <1>7, <1>8, <1>9, <1>11 DEF NetWatch, Settles

-----------------------------------------------------------------------------
(* Boxes that a step does not hand anything to.                            *)

(* Box b may be asked about or polled, its timer runs on if it must.       *)
Steady(b) ==
  /\ waiter'[b].good = waiter[b].good /\ waiter'[b].last = waiter[b].last
  /\ applied'[b] = applied[b] /\ counted'[b] = counted[b]
  /\ waiter[b].requesting => waiter'[b].requesting
  /\ \/ waiter'[b].requesting
     \/ /\ waiter'[b].count = waiter[b].count
        /\ waiter'[b].waitingForSkipped = waiter[b].waitingForSkipped
        /\ waiter[b].waitingForSkipped /\ b \in byPts /\ inited(waiter[b])
             => b \in byPts'

(* A step that takes a message u is told by, if any, makes up for it.      *)
Covered(b) ==
  net' /= net =>
    \A u \in log[b] :
      inited(waiter[b]) /\ u.pts > waiter[b].good /\ Brings(Head(net), b, u)
        => waiter'[b].requesting \/ waiter'[Common].requesting

(* Its hole stays timed and its pts where it was.                          *)
LEMMA SteadyTimed ==
  ASSUME IInv, WatchInv, NEW b \in Boxes, Steady(b),
         inited(waiter[Common]) => inited(waiter'[Common])
  PROVE  /\ Timed(waiter'[b], b \in byPts')
         /\ InOrder(waiter'[b], applied'[b])
         /\ inited(waiter'[b]) => inited(waiter'[Common])
<1>1. /\ Timed(waiter[b], b \in byPts) /\ InOrder(waiter[b], applied[b])
      /\ inited(waiter[b]) => inited(waiter[Common])
  BY DEF WatchInv, BoxWatch
<1>2. waiter[b].good \in Nat /\ waiter[b].last \in Nat
  BY DEF IInv, TypeOK, Waiters
<1>3. Timed(waiter'[b], b \in byPts')
  <2>1. ~inited(waiter'[b]) => waiter'[b].last = 0
    BY <1>1 DEF Steady, Timed, inited
  <2>2. ASSUME ~waiter'[b].requesting, waiter'[b].good /= waiter'[b].last
        PROVE  /\ waiter'[b].last /= waiter'[b].count
               /\ waiter'[b].waitingForSkipped /\ b \in byPts'
    <3>1. /\ ~waiter[b].requesting /\ waiter[b].good /= waiter[b].last
          /\ waiter'[b].last = waiter[b].last
          /\ waiter'[b].count = waiter[b].count
          /\ waiter'[b].waitingForSkipped = waiter[b].waitingForSkipped
      BY <2>2 DEF Steady
    <3>2. waiter[b].last /= waiter[b].count
          /\ waiter[b].waitingForSkipped /\ b \in byPts
      BY <1>1, <3>1 DEF Timed
    <3>3. inited(waiter[b])
      BY <1>1, <1>2, <3>1 DEF Timed, inited
    <3> QED BY <2>2, <3>1, <3>2, <3>3 DEF Steady
  <2> QED BY <2>1, <2>2 DEF Timed
<1>4. InOrder(waiter'[b], applied'[b])
  BY <1>1 DEF Steady, InOrder
<1>5. inited(waiter'[b]) => inited(waiter'[Common])
  BY <1>1 DEF Steady, inited
<1> QED BY <1>3, <1>4, <1>5

(* And what it lacks is still to come, or asked for.                       *)
LEMMA SteadyBox ==
  ASSUME IInv, WatchInv, Takes, NEW b \in Boxes, Steady(b), Covered(b),
         requestingDifference => waiter'[Common].requesting,
         inited(waiter[Common]) => inited(waiter'[Common])
  PROVE  /\ Timed(waiter'[b], b \in byPts')
         /\ InOrder(waiter'[b], applied'[b])
         /\ inited(waiter'[b]) => inited(waiter'[Common])
         /\ Outstanding(b)'
<1>1. Outstanding(b)
  BY DEF WatchInv, BoxWatch
<1>2. Outstanding(b)'
  <2> SUFFICES ASSUME NEW u \in log'[b], inited(waiter'[b]),
                      u.pts > waiter'[b].good
               PROVE  \/ u \in counted'[b] \/ waiter'[b].requesting
                      \/ waiter'[Common].requesting \/ Coming(0, b, u)'
    BY DEF Outstanding, requestingDifference
  <2>1. u \in log[b] /\ inited(waiter[b]) /\ u.pts > waiter[b].good
    BY DEF Steady, inited, Takes
  <2>2. \/ u \in counted[b] \/ waiter[b].requesting
        \/ requestingDifference \/ Coming(0, b, u)
    BY <1>1, <2>1 DEF Outstanding
  <2>3. CASE Coming(0, b, u)
    BY <2>1, <2>3, ComingTaken DEF Covered
  <2> QED BY <2>2, <2>3 DEF Steady
<1> QED BY <1>2, SteadyTimed

(* All boxes are steady.                                                   *)
LEMMA SteadyStep ==
  ASSUME IInv, WatchInv, Takes,
         \A b \in Boxes : Steady(b) /\ Covered(b)
  PROVE  WatchInv'
<1>1. \A b \in Boxes : inited(waiter'[b]) <=> inited(waiter[b])
  BY DEF Steady, inited
<1>2. Common \in Boxes /\ Channels \subseteq Boxes
  BY CommonIsBox
<1>3. NetWatch'
  BY <1>1, <1>2, NetWatchKept
<1>4. requestingDifference => waiter'[Common].requesting
  BY <1>2 DEF Steady, requestingDifference
<1>5. ASSUME NEW b \in Boxes
      PROVE  /\ Timed(waiter'[b], b \in byPts')
             /\ InOrder(waiter'[b], applied'[b])
             /\ inited(waiter'[b]) => inited(waiter'[Common])
             /\ Outstanding(b)'
  BY <1>1, <1>2, <1>4, SteadyBox
<1>6. inited(waiter'[Common]) \/ waiter'[Common].requesting
  BY <1>1, <1>2, <1>4 DEF WatchInv, BoxWatch
<1>7. BoxWatch'
  BY <1>5, <1>6 DEF BoxWatch, requestingDifference
<1> QED BY <1>3, <1>7 DEF WatchInv, Takes

(* Asking about the boxes in bs leaves every box steady.                   *)
LEMMA AskSteady ==
  ASSUME IInv, WatchInv,
         NEW w \in [Boxes -> Waiters], NEW bs \in SUBSET Boxes, Ask(w, bs),
         UNCHANGED <<applied, counted>>,
         byPts \ bs \subseteq byPts', NEW b \in Boxes,
         \/ w[b] = waiter[b]
         \/ /\ b \in bs /\ MayAsk(w, b)
            /\ w[b].good = waiter[b].good /\ w[b].last = waiter[b].last
  PROVE  /\ Steady(b)
         /\ b \in bs /\ inited(waiter[b]) => waiter'[b].requesting
         /\ b \in bs /\ b = Common => waiter'[b].requesting
<1>1. IF b \in bs /\ MayAsk(w, b)
        THEN /\ waiter'[b].requesting
             /\ waiter'[b].good = w[b].good /\ waiter'[b].last = w[b].last
        ELSE waiter'[b] = w[b]
  BY AskResult DEF IInv
<1>2. CASE b \in bs /\ MayAsk(w, b)
  BY <1>1, <1>2 DEF Steady
<1>3. CASE ~(b \in bs /\ MayAsk(w, b))
  <2>1. waiter'[b] = waiter[b]
    BY <1>1, <1>3
  <2>2. b \in bs => waiter[b].requesting \/ (b \in Channels /\ ~inited(waiter[b]))
    BY <1>1, <1>3 DEF MayAsk
  <2>3. b = Common => b \notin Channels
    BY BoxesAssumption
  <2>4. Steady(b)
    BY <2>1, <2>2 DEF Steady
  <2> QED BY <2>1, <2>2, <2>3, <2>4
<1> QED BY <1>2, <1>3

-----------------------------------------------------------------------------
(* A box that is handed an update, or its pts.                             *)

(* While it is requesting, an answer to another request changes nothing;   *)
(* else what Noted says is enough: nothing that was counted or is told by  *)
(* the message is left behind when the pts moves.                          *)
LEMMA WatchGiven ==
  ASSUME IInv, WatchInv, IInv', FeedStep,
         net /= <<>>, net' = Tail(net), UNCHANGED <<log, serverPts, unsent, spent>>,
         NEW b \in Boxes, NEW u \in Update, NEW r, NEW done,
         Given(b, r, u, done),
         \/ /\ waiter[b].requesting /\ r.w.requesting
            /\ r.w.good = waiter[b].good /\ r.w.last = waiter[b].last
            /\ \A v \in done : v.via /= "push"
         \/ /\ ~waiter[b].requesting
            /\ Noted(waiter[b], r, u.pts, b \in byPts)
            /\ \A v \in done : v.via = "push" => v \in r.fed,
         \A c \in Boxes : \A v \in log[c] :
           Brings(Head(net), c, v) => c = b /\ v = u,
         \/ inited(waiter[b])
         \/ b = Common
         \/ Settles(Head(net), b, u.pts) /\ inited(waiter[Common])
              /\ \A i \in DOMAIN net' :
                   ~(net'[i].type = "received" /\ net'[i].box = b)
  PROVE  WatchInv'
<1>1. /\ waiter'[b] = r.w /\ \A c \in Boxes \ {b} : waiter'[c] = waiter[c]
      /\ applied'[b] = applied[b] \cup done
      /\ \A c \in Boxes \ {b} : applied'[c] = applied[c]
      /\ counted'[b] = IF r.w.good /= waiter[b].good THEN {}
                       ELSE IF r.w.count /= waiter[b].count
                         THEN counted[b] \cup {u}
                       ELSE counted[b]
      /\ \A c \in Boxes \ {b} : counted'[c] = counted[c]
      /\ \A c \in Boxes \ {b} : c \in byPts => c \in byPts'
      /\ b \in byPts' <=> (r.timer = "start" \/ (r.timer /= "stop" /\ b \in byPts))
  BY DEF Given, ptsWaiterStartTimerFor, IInv, TypeOK
<1>2. Common \in Boxes /\ Channels \subseteq Boxes
  BY CommonIsBox
<1>3. TypeOK /\ TypeOK'
  BY DEF IInv
<1>4. \A c \in Boxes : /\ waiter[c].good \in Nat /\ waiter'[c].good \in Nat
                       /\ waiter'[c].good >= waiter[c].good
  BY <1>3, FeedMoves DEF TypeOK, Waiters
<1>5. \A c \in Boxes : inited(waiter[c]) => inited(waiter'[c])
  BY <1>4 DEF inited
<1>6. \A c \in Boxes \ {b} : inited(waiter'[c]) => inited(waiter[c])
  BY <1>1
<1>7. Takes
  BY DEF Takes
<1>8. NetWatch'
  <2>1. ASSUME NEW c \in Channels
        PROVE  \/ inited(waiter'[c]) => inited(waiter[c])
               \/ \A i \in DOMAIN net' :
                    ~(net'[i].type = "received" /\ net'[i].box = c)
    BY <1>2, <1>6, BoxesAssumption
  <2> QED BY <1>5, <1>7, <2>1, NetWatchKept
<1>9. requestingDifference => waiter'[Common].requesting
  BY <1>1, <1>2 DEF requestingDifference
<1>10. inited(waiter'[Common]) \/ waiter'[Common].requesting
  BY <1>2, <1>5, <1>9 DEF WatchInv, BoxWatch
<1>11. ASSUME NEW c \in Boxes, c /= b
       PROVE  /\ Timed(waiter'[c], c \in byPts')
              /\ InOrder(waiter'[c], applied'[c])
              /\ inited(waiter'[c]) => inited(waiter'[Common])
              /\ Outstanding(c)'
  <2>1. Steady(c)
    BY <1>1, <1>11 DEF Steady
  <2>2. Covered(c)
    BY <1>11 DEF Covered
  <2> QED BY <1>2, <1>5, <1>7, <1>9, <2>1, <2>2, SteadyBox
<1>12. inited(waiter'[b]) => inited(waiter'[Common])
  BY <1>2, <1>5 DEF WatchInv, BoxWatch
<1>13. /\ Timed(waiter[b], b \in byPts) /\ InOrder(waiter[b], applied[b])
       /\ Outstanding(b)
  BY DEF WatchInv, BoxWatch
<1>14. /\ Timed(waiter'[b], b \in byPts') /\ InOrder(waiter'[b], applied'[b])
       /\ Outstanding(b)'
  <2>1. CASE /\ waiter[b].requesting /\ r.w.requesting
             /\ r.w.good = waiter[b].good /\ r.w.last = waiter[b].last
             /\ \A v \in done : v.via /= "push"
    <3>1. waiter'[b].requesting
      BY <1>1, <2>1
    <3>2. Timed(waiter'[b], b \in byPts')
      BY <1>1, <1>13, <2>1 DEF Timed, inited
    <3>3. InOrder(waiter'[b], applied'[b])
      BY <1>1, <1>13, <2>1 DEF InOrder
    <3> QED BY <3>1, <3>2, <3>3 DEF Outstanding
  <2>2. CASE /\ ~waiter[b].requesting
             /\ Noted(waiter[b], r, u.pts, b \in byPts)
             /\ \A v \in done : v.via = "push" => v \in r.fed
    <3>1. Timed(waiter'[b], b \in byPts')
      BY <1>1, <2>2 DEF Noted, Timed
    <3>2. InOrder(waiter'[b], applied'[b])
      <4>1. ASSUME NEW v \in applied'[b], v.via = "push"
            PROVE  v.pts <= waiter'[b].good
        <5>1. CASE v \in applied[b]
          <6>1. v.pts \in Nat /\ v.pts <= waiter[b].good
            BY <1>3, <1>13, <4>1, <5>1 DEF TypeOK, Update, InOrder
          <6> QED BY <1>4, <6>1
        <5>2. CASE v \in done
          BY <1>1, <2>2, <4>1, <5>2 DEF Noted
        <5> QED BY <1>1, <5>1, <5>2
      <4> QED BY <4>1 DEF InOrder
    <3>3. ASSUME NEW v \in log[b], inited(waiter'[b]), v.pts > waiter'[b].good
          PROVE  \/ v \in counted'[b] \/ waiter'[b].requesting
                 \/ waiter'[Common].requesting \/ Coming(0, b, v)'
      <4>0. v.pts \in Nat /\ u.pts \in Nat /\ v.pts > waiter[b].good
        BY <1>3, <1>4, <3>3 DEF TypeOK, Update
      <4>1. CASE ~inited(waiter[b])
        <5>1. waiter'[b].good /= waiter[b].good
          BY <3>3, <4>1 DEF inited
        <5>2. u.pts <= waiter'[b].good
          BY <1>1, <2>2, <5>1 DEF Noted
        <5>3. Settles(Head(net), b, u.pts) /\ v.pts > u.pts
          BY <1>4, <2>2, <3>3, <4>0, <4>1, <5>2
          DEF WatchInv, BoxWatch, requestingDifference
        <5>4. Head(net) = net[1] /\ 1 \in DOMAIN net
          BY <1>3, TailOf DEF TypeOK
        <5>5. Coming(1, b, v)
          BY <4>0, <5>3, <5>4 DEF WatchInv, NetWatch
        <5>6. Coming(0 + 1, b, v) /\ 0 \in Nat
          BY <5>5
        <5> QED BY <5>6, ComingBehind
      <4>2. CASE inited(waiter[b])
        <5>1. \/ v \in counted[b] \/ waiter[b].requesting
              \/ requestingDifference \/ Coming(0, b, v)
          BY <1>13, <4>0, <4>2 DEF Outstanding
        <5>2. CASE v \in counted[b]
          <6>1. v.pts <= waiter[b].last
            BY <2>2, <5>2 DEF IInv, BoxInv, WaiterInv
          <6>2. r.w.good /= waiter[b].good => waiter[b].last <= waiter'[b].good
            BY <1>1, <2>2 DEF Noted
          <6>3. waiter[b].last \in Nat
            BY <1>3 DEF TypeOK, Waiters
          <6>4. r.w.good = waiter[b].good
            BY <1>4, <3>3, <4>0, <6>1, <6>2, <6>3
          <6> QED BY <1>1, <5>2, <6>4
        <5>3. CASE requestingDifference
          BY <1>9, <5>3
        <5>4. CASE Coming(0, b, v)
          <6>1. Coming(0, b, v)' \/ Brings(Head(net), b, v)
            BY <1>7, <5>4, ComingTaken
          <6>2. CASE Brings(Head(net), b, v)
            <7>1. v = u
              BY <6>2
            <7>2. r.w.good = waiter[b].good
              BY <1>1, <1>4, <2>2, <3>3, <4>0, <7>1 DEF Noted
            <7>3. r.w.count /= waiter[b].count
              BY <1>4, <2>2, <4>0, <7>1, <7>2 DEF Noted
            <7> QED BY <1>1, <7>1, <7>2, <7>3
          <6> QED BY <6>1, <6>2
        <5> QED BY <2>2, <5>1, <5>2, <5>3, <5>4
      <4> QED BY <4>1, <4>2
    <3>4. UNCHANGED log
      OBVIOUS
    <3> QED BY <3>1, <3>2, <3>3, <3>4 DEF Outstanding, requestingDifference
  <2> QED BY <2>1, <2>2
<1>15. BoxWatch'
  BY <1>10, <1>11, <1>12, <1>14 DEF BoxWatch, requestingDifference
<1> QED BY <1>8, <1>15 DEF WatchInv

(* What arrives as an update of the log, as Plain and MessageInv have it.  *)
LEMMA PlainHead ==
  ASSUME IInv, WatchInv, net /= <<>>, IsUpdate(Head(net)),
         NEW b, b = Head(net).box, NEW u, u = Head(net).update
  PROVE  /\ b \in Boxes /\ u \in Update /\ u \in log[b]
         /\ u.cnt > 0 /\ u.pts >= 1 /\ u.via = Head(net).type
         /\ \A c \in Boxes : \A v \in log[c] :
              Brings(Head(net), c, v) => c = b /\ v = u
         /\ IsReply(Head(net)) /\ b \in Channels => inited(waiter[b])
<1>1. /\ Head(net) \in Messages /\ Head(net) = net[1] /\ 1 \in DOMAIN net
      /\ MessageInv(Head(net), waiter, counted, log, serverPts)
  BY LeftTail, TailOf DEF IInv, TypeOK
<1>2. Plain(Head(net), waiter)
  BY <1>1 DEF WatchInv, NetWatch
<1>3. /\ b \in Boxes /\ u \in Update /\ u.cnt /= 0 /\ u \in log[b]
      /\ u.via = Head(net).type
  BY <1>1, <1>2, MessageKinds DEF MessageInv, Plain
<1>4. u.cnt > 0 /\ u.pts >= 1
  BY <1>3 DEF IInv, BoxInv, Tiles, Update
<1>5. ASSUME NEW c \in Boxes, NEW v \in log[c], Brings(Head(net), c, v)
      PROVE  c = b /\ v = u
  BY <1>5 DEF Brings, UpdateMsg, IsUpdate
<1> QED BY <1>2, <1>3, <1>4, <1>5 DEF Plain

(* feedUpdate(): what is not handed to a waiter is skipped because a       *)
(* difference is requested, or makes us request one.                       *)
LEMMA WatchFeed ==
  ASSUME IInv, WatchInv, NoLooseEnds, IInv', FeedStep,
         net /= <<>>, net' = Tail(net), IsUpdate(Head(net)),
         UNCHANGED <<log, serverPts, unsent, spent>>,
         Head(net).type = "push" => ~requestingDifference,
         feedUpdate(Head(net).box, Head(net).update)
  PROVE  WatchInv'
<1>0. PICK b, u : b = Head(net).box /\ u = Head(net).update
  OBVIOUS
<1>1. /\ b \in Boxes /\ u \in Update /\ u \in log[b]
      /\ u.cnt > 0 /\ u.pts >= 1 /\ u.via = Head(net).type
      /\ \A c \in Boxes : \A v \in log[c] :
           Brings(Head(net), c, v) => c = b /\ v = u
  BY <1>0, PlainHead
<1>2. Takes /\ Common \in Boxes /\ feedUpdate(b, u)
  BY <1>0, CommonIsBox DEF Takes
<1>3. CASE /\ b \in Channels
           /\ ~inited(waiter[b]) \/ waiter[b].requesting
           /\ UNCHANGED <<waiter, byPts, applied, counted>>
  <2>1. \A c \in Boxes : Steady(c)
    BY <1>3 DEF Steady
  <2>2. \A c \in Boxes : Covered(c)
    BY <1>1, <1>3 DEF Covered
  <2> QED BY <1>2, <2>1, <2>2, SteadyStep
<1>4. CASE getDifference /\ UNCHANGED <<applied, counted>>
  <2>1. /\ waiter \in [Boxes -> Waiters] /\ {Common} \in SUBSET Boxes
        /\ Ask(waiter, {Common}) /\ byPts \ {Common} \subseteq byPts'
    BY <1>2, <1>4 DEF IInv, TypeOK, getDifference
  <2>2. \A c \in Boxes : /\ Steady(c)
                         /\ c = Common => waiter'[c].requesting
    BY <1>4, <2>1, AskSteady
  <2>3. \A c \in Boxes : Covered(c)
    BY <1>2, <2>2 DEF Covered
  <2> QED BY <1>2, <2>2, <2>3, SteadyStep
<1>5. ASSUME NEW r, r = updateAndApply(waiter[b], u),
             Given(b, r, u, {v \in r.fed : v.cnt > 0}),
             b \in Channels => ~waiter[b].requesting /\ inited(waiter[b])
      PROVE  WatchInv'
  <2> DEFINE done == {v \in r.fed : v.cnt > 0}
  <2>1. inited(waiter[b]) \/ b = Common
    BY <1>1, <1>5 DEF Boxes
  <2>2. waiter[b] \in Waiters
    BY <1>1 DEF IInv, TypeOK
  <2>3. CASE waiter[b].requesting
    <3>1. waiter[b].queue = {}
      BY <1>1, <2>3 DEF IInv, BoxInv, WaiterInv
    <3>2. r.w = waiter[b] /\ r.fed = {u}
      BY <1>5, <2>2, <2>3, <3>1, GivenWhileRequesting
    <3>3. u.via /= "push"
      BY <1>0, <1>1, <1>5, <2>1, <2>3 DEF requestingDifference, Boxes
    <3>4. \A v \in done : v.via /= "push"
      BY <3>2, <3>3
    <3>5. Given(b, r, u, done)
      BY <1>5
    <3> HIDE DEF done
    <3> QED BY <1>1, <2>1, <2>3, <3>2, <3>4, <3>5, WatchGiven
  <2>4. CASE ~waiter[b].requesting
    <3>1. Timed(waiter[b], b \in byPts)
      BY <1>1 DEF WatchInv, BoxWatch
    <3>2. Ready(waiter[b])
      BY <1>1, <2>4, <3>1, BoxReady
    <3>3. Noted(waiter[b], r, u.pts, b \in byPts)
      BY <1>1, <1>5, <3>1, <3>2, NotedUpdate
    <3>4. \A v \in done : v.via = "push" => v \in r.fed
      OBVIOUS
    <3>5. Given(b, r, u, done)
      BY <1>5
    <3> HIDE DEF done
    <3> QED BY <1>1, <2>1, <2>4, <3>3, <3>4, <3>5, WatchGiven
  <2> QED BY <2>3, <2>4
<1> QED BY <1>2, <1>3, <1>4, <1>5
    DEF feedUpdate, Ignored, clientVars, historyVars, NoLooseEnds

(* mtpUpdateReceived().                                                    *)
LEMMA WatchPush ==
  ASSUME IInv, WatchInv, NoLooseEnds, IInv', FeedStep, ReceivePush
  PROVE  WatchInv'
<1>1. /\ net /= <<>> /\ net' = Tail(net) /\ Head(net).type = "push"
      /\ IsUpdate(Head(net)) /\ UNCHANGED <<log, serverPts, unsent, spent>>
  BY DEF ReceivePush, Receive, IsUpdate
<1>2. CASE requestingDifference
  <2>1. UNCHANGED <<waiter, byPts, applied, counted>> /\ Takes
    BY <1>1, <1>2 DEF ReceivePush, Ignored, clientVars, historyVars, Takes
  <2>2. \A c \in Boxes : Steady(c) /\ Covered(c)
    BY <1>2, <2>1 DEF Steady, Covered, requestingDifference
  <2> QED BY <2>1, <2>2, SteadyStep
<1>3. CASE ~requestingDifference
  BY <1>1, <1>3, WatchFeed DEF ReceivePush
<1> QED BY <1>2, <1>3

(* ApiWrap::applyUpdates().                                                *)
LEMMA WatchReply ==
  ASSUME IInv, WatchInv, NoLooseEnds, IInv', FeedStep, ReceiveReply
  PROVE  WatchInv'
<1>1. /\ net /= <<>> /\ net' = Tail(net) /\ Head(net).type = "reply"
      /\ IsUpdate(Head(net)) /\ UNCHANGED <<log, serverPts, unsent, spent>>
      /\ feedUpdate(Head(net).box, Head(net).update)
  BY DEF ReceiveReply, Receive, IsUpdate
<1> QED BY <1>1, WatchFeed

(* applyAffectedHistory(), applyAffectedMessages().                        *)
LEMMA WatchAffected ==
  ASSUME IInv, WatchInv, IInv', FeedStep, ReceiveAffected
  PROVE  WatchInv'
<1>0. PICK b, u : b = Head(net).box /\ u = Head(net).update
  OBVIOUS
<1> DEFINE r == updateAndApplyAffected(waiter[b], u.pts, u.cnt)
           done == r.fed \cup {u}
<1>1. /\ net /= <<>> /\ net' = Tail(net) /\ Head(net).type = "affected"
      /\ IsUpdate(Head(net)) /\ IsReply(Head(net))
      /\ UNCHANGED <<log, serverPts, unsent, spent>> /\ Given(b, r, u, done)
  BY <1>0 DEF ReceiveAffected, Receive, IsUpdate, IsReply
<1>2. /\ b \in Boxes /\ u \in Update /\ u \in log[b]
      /\ u.cnt > 0 /\ u.pts >= 1 /\ u.via = "affected"
      /\ \A c \in Boxes : \A v \in log[c] :
           Brings(Head(net), c, v) => c = b /\ v = u
      /\ b \in Channels => inited(waiter[b])
  BY <1>0, <1>1, PlainHead
<1>3. inited(waiter[b]) \/ b = Common
  BY <1>2 DEF Boxes
<1>4. waiter[b] \in Waiters
  BY <1>2 DEF IInv, TypeOK
<1> HIDE DEF r
<1>5. CASE waiter[b].requesting
  <2>1. waiter[b].queue = {}
    BY <1>2, <1>5 DEF IInv, BoxInv, WaiterInv
  <2>2. r.fed = {} /\ r.w.good = waiter[b].good /\ r.w.last = waiter[b].last
    BY <1>4, <1>5, <2>1, GivenWhileRequesting DEF r
  <2>3. r.w.requesting
    BY <1>4, <1>5, GivenRequesting DEF r
  <2>4. \A v \in done : v.via /= "push"
    BY <1>2, <2>2
  <2> HIDE DEF done
  <2> QED BY <1>1, <1>2, <1>3, <1>5, <2>2, <2>3, <2>4, WatchGiven
<1>6. CASE ~waiter[b].requesting
  <2>1. Timed(waiter[b], b \in byPts)
    BY <1>2 DEF WatchInv, BoxWatch
  <2>2. Ready(waiter[b])
    BY <1>2, <1>6, <2>1, BoxReady
  <2>3. u.pts \in Nat /\ u.cnt \in Nat
    BY <1>2 DEF Update
  <2>4. Noted(waiter[b], r, u.pts, b \in byPts)
    BY <1>2, <2>1, <2>2, <2>3, NotedAffected DEF r
  <2>5. \A v \in done : v.via = "push" => v \in r.fed
    BY <1>2
  <2> HIDE DEF done
  <2> QED BY <1>1, <1>2, <1>3, <1>6, <2>4, <2>5, WatchGiven
<1> QED BY <1>5, <1>6

(* ptsReceived() of a channel that had no pts: what the server logged      *)
(* since is still to come behind the answer.                               *)
LEMMA WatchPtsReceived ==
  ASSUME IInv, WatchInv, IInv', FeedStep, ReceivePtsReceived
  PROVE  WatchInv'
<1>0. PICK b, p : b = Head(net).box /\ p = Head(net).pts
  OBVIOUS
<1> DEFINE r == updateAndApplyAffected(waiter[b], p, 0)
           none == [pts |-> p, cnt |-> 0, via |-> "reply"]
<1>1. /\ net /= <<>> /\ net' = Tail(net) /\ Head(net).type = "received"
      /\ UNCHANGED <<log, serverPts, unsent, spent>>
      /\ Given(b, r, none, r.fed)
  BY <1>0 DEF ReceivePtsReceived, Receive
<1>2. /\ Head(net) \in Messages /\ Head(net) = net[1] /\ 1 \in DOMAIN net
      /\ MessageInv(Head(net), waiter, counted, log, serverPts)
  BY <1>1, LeftTail, TailOf DEF IInv, TypeOK
<1>3. b \in Boxes /\ p \in Nat /\ b \in Channels /\ p >= 1
  BY <1>0, <1>1, <1>2, MessageKinds DEF MessageInv
<1>4. ~inited(waiter[b]) /\ inited(waiter[Common])
  BY <1>0, <1>1, <1>2 DEF WatchInv, NetWatch, Plain
<1>5. ~waiter[b].requesting
  BY <1>3, <1>4 DEF IInv, RequestInv
<1>6. none \in Update /\ none.pts = p
  BY <1>3 DEF Update
<1>7. \A c \in Boxes : \A v \in log[c] :
        Brings(Head(net), c, v) => c = b /\ v = none
  <2>1. \A v \in Update : v.via /= "received"
    BY DEF Update
  <2>2. \A c \in Boxes : log[c] \subseteq Update
    BY DEF IInv, TypeOK
  <2> QED BY <1>1, <2>1, <2>2 DEF Brings, UpdateMsg
<1>8. Settles(Head(net), b, p)
  BY <1>0, <1>1 DEF Settles
<1>9. \A i \in DOMAIN net' : ~(net'[i].type = "received" /\ net'[i].box = b)
  <2>1. \A i \in DOMAIN net' : i \in Nat /\ i + 1 \in DOMAIN net /\ i + 1 /= 1
                                 /\ net'[i] = net[i + 1]
    BY <1>1, TailOf DEF IInv, TypeOK
  <2> QED BY <1>0, <1>1, <1>2, <2>1 DEF WatchInv, NetWatch
<1> HIDE DEF r, none
<1>10. Noted(waiter[b], r, p, b \in byPts)
  <2>1. Timed(waiter[b], b \in byPts)
    BY <1>3 DEF WatchInv, BoxWatch
  <2>2. Ready(waiter[b])
    BY <1>3, <1>5, <2>1, BoxReady
  <2> QED BY <1>3, <1>4, <2>1, <2>2, NotedAffected DEF r
<1> QED BY <1>1, <1>3, <1>4, <1>5, <1>6, <1>7, <1>8, <1>9, <1>10, WatchGiven

(* updatesTooLong and updateChannelTooLong: the box is asked about, unless *)
(* the common difference is requested or the channel is as far.            *)
LEMMA WatchTooLong ==
  ASSUME IInv, WatchInv, ReceiveTooLong
  PROVE  WatchInv'
<1>0. PICK b : b = Head(net).box
  OBVIOUS
<1>1. /\ net /= <<>> /\ net' = Tail(net) /\ Head(net).type = "tooLong"
      /\ UNCHANGED <<log, serverPts, unsent, spent>> /\ Takes
  BY DEF ReceiveTooLong, Receive, Takes
<1>2. /\ b \in Boxes /\ Head(net).pts \in Nat /\ Common \in Boxes
  BY <1>0, <1>1, LeftTail, MessageKinds, CommonIsBox
<1>3. \A c \in Boxes : \A v \in log[c] :
        Brings(Head(net), c, v) => c = b /\ Head(net).pts >= v.pts
  <2>1. \A v \in Update : v.via /= "tooLong"
    BY DEF Update
  <2>2. \A c \in Boxes : log[c] \subseteq Update
    BY DEF IInv, TypeOK
  <2> QED BY <1>0, <1>1, <2>1, <2>2 DEF Brings, UpdateMsg
<1>4. CASE /\ requestingDifference \/ (b \in Channels
                                         /\ waiter[b].good >= Head(net).pts)
           /\ Ignored
  <2>1. UNCHANGED <<waiter, byPts, applied, counted>>
    BY <1>4 DEF Ignored, clientVars, historyVars
  <2>2. \A c \in Boxes : Steady(c)
    BY <2>1 DEF Steady
  <2>3. ASSUME NEW c \in Boxes, NEW v \in log[c], v.pts > waiter[c].good,
               Brings(Head(net), c, v)
        PROVE  waiter'[Common].requesting
    <3>1. v.pts \in Nat /\ waiter[c].good \in Nat
      BY DEF IInv, TypeOK, Waiters, Update
    <3> QED BY <1>2, <1>3, <1>4, <2>1, <2>3, <3>1 DEF requestingDifference
  <2>4. \A c \in Boxes : Covered(c)
    BY <2>3 DEF Covered
  <2> QED BY <1>1, <2>2, <2>4, SteadyStep
<1>5. CASE /\ Ask(waiter, {b}) /\ byPts' = byPts \ {b}
           /\ UNCHANGED <<byMinChannel, active, applied, historyVars>>
  <2>1. /\ waiter \in [Boxes -> Waiters] /\ {b} \in SUBSET Boxes
        /\ byPts \ {b} \subseteq byPts' /\ UNCHANGED <<applied, counted>>
    BY <1>2, <1>5 DEF IInv, TypeOK, historyVars
  <2>2. \A c \in Boxes : /\ Steady(c)
                         /\ c = b /\ inited(waiter[c]) => waiter'[c].requesting
    BY <1>5, <2>1, AskSteady
  <2>3. \A c \in Boxes : Covered(c)
    BY <1>3, <2>2 DEF Covered
  <2> QED BY <1>1, <2>2, <2>3, SteadyStep
<1> QED BY <1>0, <1>4, <1>5 DEF ReceiveTooLong

(* Asking about boxes without taking a message, or after one that only the *)
(* common difference can make up for.                                      *)
LEMMA WatchAsk ==
  ASSUME IInv, WatchInv, Takes, NEW bs \in SUBSET Boxes, Ask(waiter, bs),
         byPts \ bs \subseteq byPts', UNCHANGED <<applied, counted>>,
         net' = net \/ Common \in bs
  PROVE  WatchInv'
<1>1. waiter \in [Boxes -> Waiters] /\ Common \in Boxes
  BY CommonIsBox DEF IInv, TypeOK
<1>2. \A c \in Boxes : /\ Steady(c)
                       /\ c \in bs /\ c = Common => waiter'[c].requesting
  BY <1>1, AskSteady
<1>3. \A c \in Boxes : Covered(c)
  BY <1>1, <1>2 DEF Covered
<1> QED BY <1>2, <1>3, SteadyStep

(* mtpNewSessionCreated(), _byMinChannelTimer and getDifferenceByPts().    *)
LEMMA WatchNewSession ==
  ASSUME IInv, WatchInv, ReceiveNewSession
  PROVE  WatchInv'
<1>1. /\ Takes /\ {Common} \in SUBSET Boxes /\ Ask(waiter, {Common})
      /\ byPts \ {Common} \subseteq byPts' /\ UNCHANGED <<applied, counted>>
      /\ Common \in {Common}
  BY CommonIsBox DEF ReceiveNewSession, Receive, getDifference, Takes, historyVars
<1> QED BY <1>1, WatchAsk

LEMMA WatchMinChannel ==
  ASSUME IInv, WatchInv, MinChannelTimer
  PROVE  WatchInv'
<1>1. /\ Takes /\ {Common} \in SUBSET Boxes /\ Ask(waiter, {Common})
      /\ byPts \ {Common} \subseteq byPts' /\ UNCHANGED <<applied, counted>>
      /\ net' = net
  BY CommonIsBox DEF MinChannelTimer, getDifference, Takes, historyVars
<1> QED BY <1>1, WatchAsk

LEMMA WatchPtsTimer ==
  ASSUME IInv, WatchInv, NEW due \in SUBSET byPts, PtsTimer(due)
  PROVE  WatchInv'
<1>1. /\ Takes /\ due \in SUBSET Boxes /\ Ask(waiter, due)
      /\ byPts \ due \subseteq byPts' /\ UNCHANGED <<applied, counted>>
      /\ net' = net
  BY DEF PtsTimer, Takes, historyVars, IInv, TypeOK
<1> QED BY <1>1, WatchAsk

(* differenceFail(): the box waits for the retry timer.                    *)
LEMMA WatchFail ==
  ASSUME IInv, WatchInv, ReceiveFail
  PROVE  WatchInv'
<1>1. /\ net /= <<>> /\ Head(net).type = "fail" /\ Takes
      /\ UNCHANGED <<waiter, byPts, applied, counted>>
  BY DEF ReceiveFail, Receive, Takes, historyVars
<1>2. \A c \in Boxes : \A v \in log[c] : ~Brings(Head(net), c, v)
  <2>1. \A v \in Update : v.via /= "fail"
    BY DEF Update
  <2>2. \A c \in Boxes : log[c] \subseteq Update
    BY DEF IInv, TypeOK
  <2> QED BY <1>1, <2>1, <2>2 DEF Brings, UpdateMsg
<1>3. \A c \in Boxes : Steady(c) /\ Covered(c)
  BY <1>1, <1>2 DEF Steady, Covered
<1> QED BY <1>1, <1>3, SteadyStep

(* getDifferenceAfterFail().                                               *)
LEMMA WatchFailTimer ==
  ASSUME IInv, WatchInv, NEW due \in SUBSET afterFail, FailTimer(due)
  PROVE  WatchInv'
<1> DEFINE w == [b \in Boxes |-> IF b \in due THEN setRequesting(waiter[b], FALSE)
                                              ELSE waiter[b]]
<1>1. /\ Takes /\ due \in SUBSET Boxes /\ Ask(w, due)
      /\ byPts \ due \subseteq byPts' /\ UNCHANGED <<applied, counted>>
      /\ net' = net
  BY DEF FailTimer, Takes, historyVars, IInv, TypeOK
<1>2. ASSUME NEW b \in Boxes
      PROVE  /\ w[b] \in Waiters
             /\ \/ w[b] = waiter[b]
                \/ /\ b \in due /\ MayAsk(w, b)
                   /\ w[b].good = waiter[b].good /\ w[b].last = waiter[b].last
  <2>1. waiter[b] \in Waiters
    BY DEF IInv, TypeOK
  <2>2. CASE b \in due
    <3>1. w[b] = setRequesting(waiter[b], FALSE)
      BY <2>2
    <3> HIDE DEF w
    <3>2. /\ w[b] \in Waiters /\ ~w[b].requesting
          /\ w[b].good = waiter[b].good /\ w[b].last = waiter[b].last
      BY <2>1, <3>1 DEF setRequesting, Waiters
    <3>3. b \in Channels => inited(waiter[b])
      BY <2>2 DEF IInv, RequestInv
    <3> QED BY <2>2, <3>2, <3>3 DEF MayAsk, inited
  <2>3. CASE b \notin due
    BY <2>1, <2>3
  <2> QED BY <2>2, <2>3
<1>3. w \in [Boxes -> Waiters]
  BY <1>2
<1> HIDE DEF w
<1>4. \A c \in Boxes : Steady(c)
  BY <1>1, <1>2, <1>3, AskSteady
<1>5. \A c \in Boxes : Covered(c)
  BY <1>1 DEF Covered
<1> QED BY <1>1, <1>4, <1>5, SteadyStep

(* addActiveChat(): no longer polling stops the timer only when no hole is *)
(* waited for.                                                             *)
LEMMA WatchShowChat ==
  ASSUME IInv, WatchInv, NEW b \in Channels, NEW show \in BOOLEAN,
         ShowChat(b, show)
  PROVE  WatchInv'
<1> DEFINE r == setWaitingForShortPoll(waiter[b], show)
<1>1. /\ Takes /\ b \in Boxes /\ UNCHANGED <<applied, counted>> /\ net' = net
      /\ waiter' = [waiter EXCEPT ![b] = r.w]
      /\ ptsWaiterStartTimerFor(b, r.timer)
  BY CommonIsBox DEF ShowChat, Takes, historyVars, serverVars
<1>2. waiter[b] \in Waiters
  BY <1>1 DEF IInv, TypeOK
<1>3. /\ r.w.requesting = waiter[b].requesting
      /\ r.w.waitingForSkipped = waiter[b].waitingForSkipped
      /\ r.w.good = waiter[b].good
      /\ r.w.last = waiter[b].last /\ r.w.count = waiter[b].count
  BY <1>2, ShortPollResult
<1>4. waiter[b].waitingForSkipped => r.timer /= "stop"
  BY <1>2 DEF setWaitingForShortPoll, checkForWaiting, Waiters
<1> HIDE DEF r
<1>5. \A c \in Boxes : Steady(c)
  BY <1>1, <1>3, <1>4 DEF Steady, ptsWaiterStartTimerFor, IInv, TypeOK
<1>6. \A c \in Boxes : Covered(c)
  BY <1>1 DEF Covered
<1> QED BY <1>1, <1>5, <1>6, SteadyStep

LEMMA WatchCloseWindow ==
  ASSUME IInv, WatchInv, NEW b \in active, CloseWindow(b)
  PROVE  WatchInv'
<1>1. Takes /\ net' = net /\ UNCHANGED <<waiter, byPts, applied, counted>>
  BY DEF CloseWindow, Takes, historyVars, serverVars
<1>2. \A c \in Boxes : Steady(c) /\ Covered(c)
  BY <1>1 DEF Steady, Covered
<1> QED BY <1>1, <1>2, SteadyStep

(* The box that a difference is about: what the server logged since it was *)
(* made is behind it, or is asked for.                                     *)
LEMMA WatchAnsweredBox ==
  ASSUME IInv, WatchInv, IInv', net /= <<>>, net' = Tail(net),
         UNCHANGED <<log, unsent>>,
         NEW d, d = Head(net), d.type = "difference", NEW b, b = d.box,
         waiter'[b].good = d.pts, waiter'[b].last = d.pts,
         waiter'[b].requesting \/ d.final,
         applied'[b] = applied[b] \cup d.updates
  PROVE  /\ Timed(waiter'[b], b \in byPts')
         /\ InOrder(waiter'[b], applied'[b])
         /\ Outstanding(b)' /\ inited(waiter'[b])
<1>1. /\ d \in Messages /\ d = net[1] /\ 1 \in DOMAIN net
      /\ MessageInv(d, waiter, counted, log, serverPts)
  BY LeftTail, TailOf DEF IInv, TypeOK
<1>2. b \in Boxes /\ d.pts \in Nat
  BY <1>1, MessageKinds DEF IsAnswer
<1>3. Plain(d, waiter)
  BY <1>1 DEF WatchInv, NetWatch
<1>4. waiter[b].good <= d.pts /\ d.pts >= 1 /\ d.from = waiter[b].good
  BY <1>1 DEF MessageInv, IsAnswer
<1>5. Timed(waiter'[b], b \in byPts') /\ inited(waiter'[b])
  BY <1>2, <1>4 DEF Timed, inited
<1>6. ASSUME NEW u \in applied'[b], u.via = "push"
      PROVE  u.pts <= waiter'[b].good
  <2>1. CASE u \in applied[b]
    <3>1. InOrder(waiter[b], applied[b])
      BY <1>2 DEF WatchInv, BoxWatch
    <3>2. u.pts <= waiter[b].good
      BY <1>6, <2>1, <3>1 DEF InOrder
    <3>3. applied[b] \subseteq Update /\ waiter[b] \in Waiters
      BY <1>2 DEF IInv, TypeOK
    <3>4. u.pts \in Nat /\ waiter[b].good \in Nat
      BY <2>1, <3>3 DEF Update, Waiters
    <3> QED BY <1>2, <1>4, <3>2, <3>4
  <2>2. CASE u \in d.updates
    BY <1>3, <2>2 DEF Plain
  <2> QED BY <1>6, <2>1, <2>2
<1>7. ASSUME NEW u \in log[b], u.pts > d.pts, d.final
      PROVE  Coming(0, b, u)'
  <2>1. Settles(net[1], b, d.pts)
    BY <1>1, <1>7 DEF Settles
  <2>2. Coming(0 + 1, b, u) /\ 0 \in Nat
    BY <1>1, <1>2, <1>7, <2>1 DEF WatchInv, NetWatch
  <2> QED BY <2>2, ComingBehind
<1>8. Outstanding(b)'
  BY <1>7 DEF Outstanding
<1> QED BY <1>5, <1>6, <1>8 DEF InOrder

(* stateDone() and differenceDone(): the pushes of channels that were      *)
(* thrown away are made up for by asking about the channels that are       *)
(* behind.                                                                 *)
LEMMA WatchDifference ==
  ASSUME IInv, WatchInv, IInv', ReceiveDifference
  PROVE  WatchInv'
<1>0. PICK d : d = Head(net)
  OBVIOUS
<1> DEFINE x == setRequesting(init(waiter[Common], d.pts), FALSE)
           w == [waiter EXCEPT ![Common] = x]
           behind == IF d.forget THEN {}
                     ELSE {c \in Channels : waiter[c].good < d.channels[c]}
           bs == behind \cup (IF d.final THEN {} ELSE {Common})
<1>1. /\ net /= <<>> /\ net' = Tail(net) /\ d.type = "difference"
      /\ d.box = Common
      /\ Ask(w, bs) /\ byPts' = byPts \ bs
      /\ applied' = [applied EXCEPT ![Common] = @ \cup d.updates]
      /\ counted' = [counted EXCEPT ![Common] = {}]
      /\ UNCHANGED <<log, serverPts, unsent, spent>>
  BY <1>0 DEF ReceiveDifference, Receive
<1>2. TypeOK /\ Common \in Boxes /\ Common \notin Channels /\ Channels \subseteq Boxes
  BY CommonIsBox, BoxesAssumption DEF IInv
<1>3. /\ d \in Messages /\ d = net[1] /\ 1 \in DOMAIN net
      /\ MessageInv(d, waiter, counted, log, serverPts)
  BY <1>0, <1>1, <1>2, LeftTail, TailOf DEF TypeOK
<1>4. d.pts \in Nat /\ d.channels \in [Boxes -> Nat]
  BY <1>1, <1>3, MessageKinds
<1>5. /\ x \in Waiters /\ ~x.requesting
      /\ x.good = d.pts /\ x.last = d.pts /\ x.count = d.pts
  <2>1. waiter[Common] \in Waiters /\ x = setRequesting(init(waiter[Common], d.pts), FALSE)
    BY <1>2 DEF TypeOK
  <2> HIDE DEF x
  <2>2. ~x.requesting
    BY <1>4, <2>1, AnsweredResult
  <2>3. x \in Waiters
    BY <1>4, <2>1, AnsweredResult
  <2>4. x.good = d.pts /\ x.last = d.pts /\ x.count = d.pts
    BY <1>4, <2>1 DEF setRequesting, init, Waiters
  <2> QED BY <2>2, <2>3, <2>4
<1> HIDE DEF x
<1>6. /\ w \in [Boxes -> Waiters] /\ w[Common] = x
      /\ \A b \in Boxes \ {Common} : w[b] = waiter[b]
  BY <1>2, <1>5 DEF TypeOK
<1> HIDE DEF w
<1>7. /\ bs \in SUBSET Boxes
      /\ Common \in bs <=> ~d.final
      /\ \A c \in Channels : c \in bs <=> (~d.forget /\ waiter[c].good < d.channels[c])
  BY <1>2
<1> HIDE DEF bs
<1>8. \A b \in Boxes :
        IF b \in bs /\ MayAsk(w, b)
          THEN /\ waiter'[b].requesting
               /\ waiter'[b].good = w[b].good
               /\ waiter'[b].last = w[b].last
          ELSE /\ waiter'[b] = w[b]
  BY <1>1, <1>2, <1>6, <1>7, AskResult
<1>9. /\ waiter'[Common].good = d.pts /\ waiter'[Common].last = d.pts
      /\ waiter'[Common].requesting \/ d.final
      /\ applied'[Common] = applied[Common] \cup d.updates
  BY <1>1, <1>2, <1>5, <1>6, <1>7, <1>8 DEF MayAsk, TypeOK
<1>10. /\ Timed(waiter'[Common], Common \in byPts')
       /\ InOrder(waiter'[Common], applied'[Common])
       /\ Outstanding(Common)' /\ inited(waiter'[Common])
  BY <1>0, <1>1, <1>9, WatchAnsweredBox
<1>11. ASSUME NEW c \in Channels
       PROVE  /\ Steady(c)
              /\ c \in bs /\ inited(waiter[c]) => waiter'[c].requesting
  <2>1. w[c] = waiter[c] /\ c \in Boxes
    BY <1>2, <1>6
  <2>2. applied'[c] = applied[c] /\ counted'[c] = counted[c]
    BY <1>1, <1>2, <2>1 DEF TypeOK
  <2>3. c \in bs \/ ~(c \in byPts) \/ c \in byPts'
    BY <1>1
  <2> QED BY <1>2, <1>8, <2>1, <2>2, <2>3 DEF Steady, MayAsk
<1>12. ASSUME NEW c \in Channels
       PROVE  Outstanding(c)'
  <2> SUFFICES ASSUME NEW u \in log[c], inited(waiter'[c]), u.pts > waiter'[c].good
               PROVE  waiter'[c].requesting \/ Coming(0, c, u)'
    BY <1>1 DEF Outstanding
  <2>1. c \in Boxes /\ inited(waiter[c]) /\ u.pts > waiter[c].good
    BY <1>2, <1>11 DEF Steady, inited
  <2>2. ~d.forget
    <3>1. d.forget => d.from = GetState
      BY <1>1, <1>3 DEF WatchInv, NetWatch, Plain
    <3>2. d.from = waiter[Common].good
      BY <1>1, <1>3 DEF MessageInv, IsAnswer
    <3>3. inited(waiter[Common])
      BY <2>1 DEF WatchInv, BoxWatch
    <3> QED BY <3>1, <3>2, <3>3 DEF inited
  <2>3. CASE c \in bs
    BY <1>11, <2>1, <2>3
  <2>4. CASE c \notin bs
    <3>1. /\ waiter[c].good \in Nat /\ d.channels[c] \in Nat /\ u.pts \in Nat
      BY <1>2, <1>4, <2>1 DEF TypeOK, Waiters, Update
    <3>2. u.pts > d.channels[c]
      BY <1>7, <2>1, <2>2, <2>4, <3>1
    <3>3. Settles(net[1], c, d.channels[c])
      BY <1>1, <1>3, <2>2 DEF Settles
    <3>4. Coming(0 + 1, c, u) /\ 0 \in Nat
      BY <1>3, <2>1, <3>1, <3>2, <3>3 DEF WatchInv, NetWatch
    <3> QED BY <1>1, <3>4, ComingBehind
  <2> QED BY <2>3, <2>4
<1>13. NetWatch'
  <2>1. Takes
    BY <1>1 DEF Takes
  <2>2. \A b \in Boxes : inited(waiter[b]) => inited(waiter'[b])
    BY <1>10, <1>11 DEF Steady, inited, Boxes
  <2>3. \A b \in Channels : inited(waiter'[b]) => inited(waiter[b])
    BY <1>11 DEF Steady, inited
  <2> QED BY <2>1, <2>2, <2>3, NetWatchKept
<1>14. ASSUME NEW b \in Boxes
       PROVE  /\ Timed(waiter'[b], b \in byPts')
              /\ InOrder(waiter'[b], applied'[b])
              /\ inited(waiter'[b]) => inited(waiter'[Common])
              /\ Outstanding(b)'
  BY <1>10, <1>11, <1>12, SteadyTimed DEF Boxes
<1>15. BoxWatch'
  BY <1>10, <1>14 DEF BoxWatch
<1> QED BY <1>1, <1>13, <1>15 DEF WatchInv

(* channelDifferenceDone().                                                *)
LEMMA WatchChannelDifference ==
  ASSUME IInv, WatchInv, IInv', ReceiveChannelDifference
  PROVE  WatchInv'
<1>0. PICK d, b : d = Head(net) /\ b = d.box
  OBVIOUS
<1> DEFINE x == setRequesting(init(waiter[b], d.pts), FALSE)
           w == [waiter EXCEPT ![b] = x]
           wait == b \in active
           r == setWaitingForShortPoll(x, wait)
<1>1. /\ net /= <<>> /\ net' = Tail(net) /\ d.type = "difference"
      /\ b \in Channels
      /\ applied' = [applied EXCEPT ![b] = @ \cup d.updates]
      /\ counted' = [counted EXCEPT ![b] = {}]
      /\ UNCHANGED <<log, serverPts, unsent, spent>>
      /\ IF d.final
           THEN /\ waiter' = [waiter EXCEPT ![b] = r.w]
                /\ ptsWaiterStartTimerFor(b, r.timer)
                /\ UNCHANGED <<asked, afterFail>>
           ELSE /\ Ask(w, {b})
                /\ byPts' = byPts \ {b}
  BY <1>0 DEF ReceiveChannelDifference, Receive
<1>2. TypeOK /\ b \in Boxes /\ Common \in Boxes /\ b /= Common
  BY <1>1, CommonIsBox, BoxesAssumption DEF IInv
<1>3. d \in Messages /\ MessageInv(d, waiter, counted, log, serverPts)
  BY <1>0, <1>1, LeftTail
<1>4. d.pts \in Nat
  BY <1>1, <1>3, MessageKinds
<1>5. /\ x \in Waiters /\ ~x.requesting
      /\ x.good = d.pts /\ x.last = d.pts /\ x.count = d.pts
  <2>1. waiter[b] \in Waiters /\ x = setRequesting(init(waiter[b], d.pts), FALSE)
    BY <1>2 DEF TypeOK
  <2> HIDE DEF x
  <2>2. ~x.requesting
    BY <1>4, <2>1, AnsweredResult
  <2>3. x \in Waiters
    BY <1>4, <2>1, AnsweredResult
  <2>4. x.good = d.pts /\ x.last = d.pts /\ x.count = d.pts
    BY <1>4, <2>1 DEF setRequesting, init, Waiters
  <2> QED BY <2>2, <2>3, <2>4
<1> HIDE DEF x
<1>6. /\ w \in [Boxes -> Waiters] /\ w[b] = x
      /\ \A c \in Boxes \ {b} : w[c] = waiter[c]
  BY <1>2, <1>5 DEF TypeOK
<1>7. r.w.good = x.good /\ r.w.last = x.last
  <2>1. wait \in BOOLEAN /\ r = setWaitingForShortPoll(x, wait)
    OBVIOUS
  <2> HIDE DEF r, wait
  <2> QED BY <1>5, <2>1, ShortPollResult
<1> HIDE DEF w, r
<1>8. /\ waiter'[b].good = d.pts /\ waiter'[b].last = d.pts
      /\ waiter'[b].requesting \/ d.final
      /\ \A c \in Boxes \ {b} : /\ waiter'[c] = waiter[c]
                                /\ c \in byPts => c \in byPts'
  <2>1. CASE d.final
    BY <1>1, <1>2, <1>5, <1>7, <2>1 DEF ptsWaiterStartTimerFor, TypeOK
  <2>2. CASE ~d.final
    <3>1. \A c \in Boxes :
            IF c \in {b} /\ MayAsk(w, c)
              THEN /\ waiter'[c].requesting
                   /\ waiter'[c].good = w[c].good
                   /\ waiter'[c].last = w[c].last
              ELSE /\ waiter'[c] = w[c]
      BY <1>1, <1>2, <1>6, <2>2, AskResult
    <3>2. MayAsk(w, b)
      <4>1. inited(x)
        BY <1>3, <1>1, <1>4, <1>5 DEF inited, MessageInv
      <4> QED BY <1>5, <1>6, <4>1 DEF MayAsk
    <3> QED BY <1>1, <1>2, <1>5, <1>6, <2>2, <3>1, <3>2
  <2> QED BY <2>1, <2>2
<1>9. applied'[b] = applied[b] \cup d.updates
  BY <1>1, <1>2 DEF TypeOK
<1>10. /\ Timed(waiter'[b], b \in byPts')
       /\ InOrder(waiter'[b], applied'[b])
       /\ Outstanding(b)' /\ inited(waiter'[b])
  BY <1>0, <1>1, <1>8, <1>9, WatchAnsweredBox
<1>11. inited(waiter[b])
  BY <1>0, <1>1, <1>2, <1>3 DEF MessageInv, IsAnswer, IInv, RequestInv
<1>12. Takes
  BY <1>1 DEF Takes
<1>13. waiter'[Common] = waiter[Common]
  BY <1>2, <1>8
<1>14. NetWatch'
  <2>1. \A c \in Boxes : inited(waiter'[c]) <=> inited(waiter[c])
    BY <1>8, <1>10, <1>11
  <2> QED BY <1>12, <2>1, CommonIsBox, NetWatchKept
<1>15. ASSUME NEW c \in Boxes, c /= b
       PROVE  /\ Timed(waiter'[c], c \in byPts')
              /\ InOrder(waiter'[c], applied'[c])
              /\ inited(waiter'[c]) => inited(waiter'[Common])
              /\ Outstanding(c)'
  <2>1. Steady(c)
    BY <1>1, <1>2, <1>8, <1>15 DEF Steady, TypeOK
  <2>2. ASSUME NEW v \in log[c] PROVE ~Brings(Head(net), c, v)
    <3>1. v \in Update
      BY <1>2 DEF TypeOK
    <3>2. v.via /= "difference"
      BY <3>1 DEF Update
    <3> QED BY <1>0, <1>1, <3>2 DEF Brings, UpdateMsg
  <2>3. Covered(c)
    BY <2>2 DEF Covered
  <2> QED BY <1>12, <1>13, <2>1, <2>3, SteadyBox DEF requestingDifference
<1>16. inited(waiter'[b]) => inited(waiter'[Common])
  BY <1>2, <1>11, <1>13 DEF WatchInv, BoxWatch
<1>17. inited(waiter'[Common]) \/ waiter'[Common].requesting
  BY <1>13 DEF WatchInv, BoxWatch, requestingDifference
<1>18. BoxWatch'
  BY <1>10, <1>15, <1>16, <1>17 DEF BoxWatch, requestingDifference
<1> QED BY <1>1, <1>14, <1>18 DEF WatchInv

-----------------------------------------------------------------------------
(* The actions of the server.                                              *)

(* What is still to come does not get lost, a new update is on its way,    *)
(* and a new message settles nothing that the server has not logged.       *)
LEMMA WatchServer ==
  ASSUME IInv, WatchInv, UNCHANGED <<clientVars, historyVars>>,
         spent' \in [zero : Nat, fails : Nat, tooLong : Nat, sessions : Nat],
         \A c \in Boxes : \A u \in log'[c] :
           u \in log[c] \/ \A i \in Nat : Coming(i, c, u)',
         \A c \in Boxes : \A u \in log[c] : Coming(0, c, u) => Coming(0, c, u)',
         \A i \in DOMAIN net' :
           \/ /\ i \in DOMAIN net /\ net'[i] = net[i]
              /\ \A c \in Boxes : \A u \in log[c] :
                   Coming(i, c, u) => Coming(i, c, u)'
           \/ /\ Plain(net'[i], waiter)
              /\ net'[i].type = "received" =>
                   \A j \in DOMAIN net' :
                     net'[j].type = "received" /\ net'[j].box = net'[i].box
                       => i = j
              /\ \A c \in Boxes : \A p \in Nat : \A u \in log'[c] :
                   Settles(net'[i], c, p) => u.pts <= p,
         \A m \in unsent' : Plain(m, waiter), TypeOK'
  PROVE  WatchInv'
<1>1. UNCHANGED <<waiter, byPts, applied, counted>> /\ waiter' = waiter
  BY DEF clientVars, historyVars
<1>2. net' \in Seq(Messages) /\ net \in Seq(Messages)
  BY DEF IInv, TypeOK
<1>3. \A i \in DOMAIN net' : i \in Nat
  BY <1>2, LenProperties
<1>4. BoxWatch'
  <2>1. ASSUME NEW b \in Boxes, NEW u \in log'[b], inited(waiter[b]),
               u.pts > waiter[b].good
        PROVE  \/ u \in counted[b] \/ waiter[b].requesting
               \/ requestingDifference \/ Coming(0, b, u)'
    BY <2>1 DEF WatchInv, BoxWatch, Outstanding
  <2>2. \A b \in Boxes : Outstanding(b)'
    BY <1>1, <2>1 DEF Outstanding, requestingDifference
  <2> QED BY <1>1, <2>2 DEF WatchInv, BoxWatch, requestingDifference
<1>5. \A i \in DOMAIN net' : Plain(net'[i], waiter')
  BY <1>1 DEF WatchInv, NetWatch
<1>6. \A m \in unsent' : Plain(m, waiter')
  BY <1>1
<1>7. \A i, j \in DOMAIN net' :
        net'[i].type = "received" /\ net'[j].type = "received"
          /\ net'[i].box = net'[j].box => i = j
  BY DEF WatchInv, NetWatch
<1>8. ASSUME NEW i \in DOMAIN net', NEW b \in Boxes, NEW p \in Nat,
             NEW u \in log'[b], Settles(net'[i], b, p), u.pts > p
      PROVE  Coming(i, b, u)'
  <2>1. u.pts \in Nat
    BY DEF TypeOK, Update
  <2>2. /\ i \in DOMAIN net /\ net'[i] = net[i]
        /\ \A c \in Boxes : \A v \in log[c] : Coming(i, c, v) => Coming(i, c, v)'
    BY <1>8, <2>1
  <2>3. CASE u \in log[b]
    <3>1. Coming(i, b, u)
      BY <1>8, <2>2, <2>3 DEF WatchInv, NetWatch
    <3> QED BY <2>2, <2>3, <3>1
  <2>4. CASE u \notin log[b]
    BY <1>3, <2>4
  <2> QED BY <2>3, <2>4
<1>9. NetWatch'
  BY <1>5, <1>6, <1>7, <1>8 DEF NetWatch, Settles
<1> QED BY <1>4, <1>9 DEF WatchInv

(* The server logs an update and sends it.                                 *)
LEMMA WatchServerUpdate ==
  ASSUME IInv, WatchInv, IInv', NEW b \in Boxes, NEW n \in Counts,
         NEW via \in Vias, ServerUpdate(b, n, via)
  PROVE  WatchInv'
<1>0. PICK u, m : /\ u = [pts |-> serverPts[b] + n, cnt |-> n, via |-> via]
                  /\ m = UpdateMsg(b, u)
  OBVIOUS
<1>1. /\ log' = [log EXCEPT ![b] = @ \cup {u}]
      /\ unsent' = unsent \cup {m} /\ net' = net /\ spent' = spent
      /\ UNCHANGED <<clientVars, historyVars>>
      /\ via /= "push" /\ b \in Channels => inited(waiter[b])
  BY <1>0 DEF ServerUpdate
<1>2. /\ m.type = via /\ m.box = b /\ m.update = u /\ u.cnt = n
      /\ n /= 0 /\ via \in {"push", "reply", "affected"}
  BY <1>0, CountsAssumption, ViasAssumption DEF UpdateMsg
<1>3. m = UpdateMsg(b, u)
  BY <1>0
<1>4. Plain(m, waiter)
  BY <1>1, <1>2 DEF Plain, IsReply
<1>5. \A c \in Boxes : \A v \in log'[c] : v \in log[c] \/ (c = b /\ v = u)
  BY <1>1 DEF IInv, TypeOK
<1>6. \A i \in Nat : Coming(i, b, u)'
  BY <1>1, <1>3 DEF Coming, Brings
<1>7. \A i, c, v : Coming(i, c, v) => Coming(i, c, v)'
  BY <1>1 DEF Coming
<1>8. \A x \in unsent' : Plain(x, waiter)
  BY <1>1, <1>4 DEF WatchInv, NetWatch
<1>9. \A i \in DOMAIN net' :
        /\ i \in DOMAIN net /\ net'[i] = net[i]
        /\ \A c \in Boxes : \A v \in log[c] : Coming(i, c, v) => Coming(i, c, v)'
  BY <1>1, <1>7
<1>10. spent' \in [zero : Nat, fails : Nat, tooLong : Nat, sessions : Nat]
  BY <1>1 DEF WatchInv
<1>11. TypeOK'
  BY DEF IInv
<1> QED BY <1>1, <1>5, <1>6, <1>7, <1>8, <1>9, <1>10, <1>11, WatchServer

(* A message goes on its way, one the server has held back or a new one.   *)
LEMMA WatchAppend ==
  ASSUME IInv, WatchInv, IInv', UNCHANGED <<clientVars, historyVars, log>>,
         spent' \in [zero : Nat, fails : Nat, tooLong : Nat, sessions : Nat],
         NEW m \in Messages, net' = Append(net, m),
         unsent' \subseteq unsent, unsent \subseteq unsent' \cup {m},
         Plain(m, waiter),
         m.type = "received" =>
           \A i \in DOMAIN net : ~(net[i].type = "received" /\ net[i].box = m.box),
         \A c \in Boxes : \A p \in Nat : \A u \in log[c] :
           Settles(m, c, p) => u.pts <= p
  PROVE  WatchInv'
<1>1. net \in Seq(Messages)
  BY DEF IInv, TypeOK
<1>2. \A i \in DOMAIN net' :
        \/ i \in DOMAIN net /\ net'[i] = net[i]
        \/ i = Len(net) + 1 /\ net'[i] = m
  BY <1>1, AppendOf
<1>3. /\ \A i \in DOMAIN net : /\ i \in Nat /\ i < Len(net) + 1
                               /\ i \in DOMAIN net' /\ net'[i] = net[i]
      /\ Len(net) + 1 \in DOMAIN net' /\ net'[Len(net) + 1] = m
  BY <1>1, AppendKeeps
<1>4. Len(net) \in Nat
  BY <1>1, LenProperties
<1>5. ASSUME NEW i \in Nat, i < Len(net) + 1, NEW c, NEW u, Coming(i, c, u)
      PROVE  Coming(i, c, u)'
  <2>1. CASE \E x \in unsent : Brings(x, c, u)
    <3>1. (\E x \in unsent' : Brings(x, c, u)) \/ Brings(m, c, u)
      BY <2>1
    <3>2. Brings(m, c, u) => Brings(net'[Len(net) + 1], c, u)
      BY <1>3
    <3> QED BY <1>3, <1>4, <1>5, <3>1, <3>2 DEF Coming
  <2>2. CASE \E j \in DOMAIN net : j > i /\ Brings(net[j], c, u)
    BY <1>3, <2>2 DEF Coming
  <2> QED BY <1>5, <2>1, <2>2 DEF Coming
<1>6. \A c \in Boxes : \A u \in log[c] : Coming(0, c, u) => Coming(0, c, u)'
  <2>1. 0 \in Nat /\ 0 < Len(net) + 1
    BY <1>4
  <2> QED BY <1>5, <2>1
<1>7. ASSUME NEW i \in DOMAIN net'
      PROVE  \/ /\ i \in DOMAIN net /\ net'[i] = net[i]
                /\ \A c \in Boxes : \A u \in log[c] :
                     Coming(i, c, u) => Coming(i, c, u)'
             \/ /\ Plain(net'[i], waiter)
                /\ net'[i].type = "received" =>
                     \A j \in DOMAIN net' :
                       net'[j].type = "received" /\ net'[j].box = net'[i].box
                         => i = j
                /\ \A c \in Boxes : \A p \in Nat : \A u \in log'[c] :
                     Settles(net'[i], c, p) => u.pts <= p
  <2>1. CASE i \in DOMAIN net /\ net'[i] = net[i]
    BY <1>3, <1>5, <2>1
  <2>2. CASE i = Len(net) + 1 /\ net'[i] = m
    <3>1. m.type = "received" =>
            \A j \in DOMAIN net' :
              net'[j].type = "received" /\ net'[j].box = m.box => i = j
      BY <1>2, <2>2
    <3> QED BY <2>2, <3>1
  <2> QED BY <1>2, <2>1, <2>2
<1>8. \A x \in unsent' : Plain(x, waiter)
  BY DEF WatchInv, NetWatch
<1>9. TypeOK' /\ \A c \in Boxes : \A u \in log'[c] : u \in log[c]
  BY DEF IInv
<1> QED BY <1>6, <1>7, <1>8, <1>9, WatchServer

(* The answer to stateDone()'s request for dialogs: what the box's log     *)
(* holds does not go past the pts it brings.                               *)
LEMMA WatchAnswerDialogs ==
  ASSUME IInv, WatchInv, IInv', NEW b \in Channels, AnswerDialogs(b)
  PROVE  WatchInv'
<1>0. PICK m : m = PtsMsg("received", b)
  OBVIOUS
<1>1. /\ net' = Append(net, m) /\ UNCHANGED <<clientVars, historyVars, log>>
      /\ unsent' = unsent /\ spent' = spent
      /\ inited(waiter[Common]) /\ ~inited(waiter[b])
      /\ \A i \in DOMAIN net : net[i].type = "received" => net[i].box /= b
  BY <1>0 DEF AnswerDialogs, serverVars
<1>2. m.type = "received" /\ m.box = b /\ m.pts = serverPts[b] /\ b \in Boxes
  BY <1>0, CommonIsBox DEF PtsMsg
<1>3. m \in Messages
  BY <1>0, <1>2 DEF PtsMsg, Messages, IInv, TypeOK
<1>4. Plain(m, waiter)
  BY <1>1, <1>2 DEF Plain, IsUpdate, IsReply
<1>5. \A c \in Boxes : \A p \in Nat : \A u \in log[c] :
        Settles(m, c, p) => u.pts <= p
  BY <1>2 DEF Settles, IInv, BoxInv, Tiles
<1>6. spent' \in [zero : Nat, fails : Nat, tooLong : Nat, sessions : Nat]
  BY <1>1 DEF WatchInv
<1> QED BY <1>1, <1>2, <1>3, <1>4, <1>5, <1>6, WatchAppend

(* What the server held back goes out.                                     *)
LEMMA WatchSend ==
  ASSUME IInv, WatchInv, IInv', NEW m \in unsent, Send(m)
  PROVE  WatchInv'
<1>1. /\ net' = Append(net, m) /\ UNCHANGED <<clientVars, historyVars, log>>
      /\ unsent' = unsent \ {m} /\ spent' = spent
  BY DEF Send
<1>2. m \in Messages /\ (IsUpdate(m) \/ m.type = "tooLong")
  BY DEF IInv, TypeOK, NetInv
<1>3. Plain(m, waiter)
  BY DEF WatchInv, NetWatch
<1>4. m.type /= "received" /\ \A c, p : ~Settles(m, c, p)
  BY <1>2 DEF IsUpdate, Settles
<1>5. spent' \in [zero : Nat, fails : Nat, tooLong : Nat, sessions : Nat]
  BY <1>1 DEF WatchInv
<1> QED BY <1>1, <1>2, <1>3, <1>4, <1>5, WatchAppend

(* An answer brings a box up to all that is logged, unless it is a slice;  *)
(* and names the last point of every other.                                *)
LEMMA WatchAnswer ==
  ASSUME IInv, WatchInv, IInv', NEW b \in Boxes, Answer(b)
  PROVE  WatchInv'
<1>1. PICK till \in Stops(b, asked[b]), forget \in BOOLEAN :
        /\ b = Common => forget = (asked[b] = GetState)
        /\ net' = Append(net, Difference(b, asked[b], till, forget))
        /\ spent' = IF forget /\ b \in Channels
                     THEN [spent EXCEPT !.tooLong = @ + 1] ELSE spent
  BY DEF Answer
<1>2. PICK m : m = Difference(b, asked[b], till, forget)
  OBVIOUS
<1>3. /\ net' = Append(net, m) /\ UNCHANGED <<clientVars, historyVars, log>>
      /\ unsent' = unsent
  BY <1>1, <1>2 DEF Answer
<1>4. net' \in Seq(Messages) /\ net \in Seq(Messages)
  BY DEF IInv, TypeOK
<1>5. m \in Messages
  BY <1>3, <1>4, AppendProperties
<1>6. /\ m.type = "difference" /\ m.box = b /\ m.from = asked[b] /\ m.pts = till
      /\ m.updates = (IF forget THEN {}
                      ELSE {u \in log[b] : asked[b] < u.pts /\ u.pts <= till})
      /\ m.channels = serverPts
  BY <1>2 DEF Difference
<1>7. (m.forget <=> forget) /\ (m.final <=> till = serverPts[b])
  BY <1>2 DEF Difference
<1>8. Plain(m, waiter)
  <2>1. \A u \in m.updates : u.pts <= m.pts
    BY <1>6
  <2>2. m.forget /\ m.box = Common => m.from = GetState
    BY <1>1, <1>6, <1>7
  <2>3. ~IsUpdate(m) /\ ~IsReply(m) /\ m.type /= "received"
    BY <1>6 DEF IsUpdate, IsReply
  <2> QED BY <2>1, <2>2, <2>3 DEF Plain
<1>9. \A c \in Boxes : \A p \in Nat : \A u \in log[c] :
        Settles(m, c, p) => u.pts <= p
  <2> SUFFICES ASSUME NEW c \in Boxes, NEW p \in Nat, NEW u \in log[c],
                      Settles(m, c, p)
               PROVE  u.pts <= p
    OBVIOUS
  <2>1. u.pts <= serverPts[c]
    BY DEF IInv, BoxInv, Tiles
  <2>2. p = serverPts[c]
    BY <1>6, <1>7 DEF Settles
  <2> QED BY <2>1, <2>2
<1>10. spent' \in [zero : Nat, fails : Nat, tooLong : Nat, sessions : Nat]
  BY <1>1 DEF WatchInv
<1> QED BY <1>3, <1>5, <1>6, <1>8, <1>9, <1>10, WatchAppend

LEMMA WatchAnswerFail ==
  ASSUME IInv, WatchInv, IInv', NEW b \in Boxes, AnswerFail(b)
  PROVE  WatchInv'
<1>0. PICK m : m = [type |-> "fail", box |-> b, from |-> asked[b]]
  OBVIOUS
<1>1. /\ net' = Append(net, m) /\ UNCHANGED <<clientVars, historyVars, log>>
      /\ unsent' = unsent /\ spent' = [spent EXCEPT !.fails = @ + 1]
  BY <1>0 DEF AnswerFail
<1>2. m.type = "fail" /\ net' \in Seq(Messages) /\ net \in Seq(Messages)
  BY <1>0 DEF IInv, TypeOK
<1>3. m \in Messages
  BY <1>1, <1>2, AppendProperties
<1>4. Plain(m, waiter) /\ \A c, p : ~Settles(m, c, p)
  BY <1>2 DEF Plain, Settles, IsUpdate, IsReply
<1>5. spent' \in [zero : Nat, fails : Nat, tooLong : Nat, sessions : Nat]
  BY <1>1 DEF WatchInv
<1> QED BY <1>1, <1>2, <1>3, <1>4, <1>5, WatchAppend

(* The pushes that the server gives up are named by its "too long".        *)
LEMMA WatchServerTooLong ==
  ASSUME IInv, WatchInv, IInv', NEW b \in Boxes, ServerTooLong(b)
  PROVE  WatchInv'
<1>0. PICK m : m = PtsMsg("tooLong", b)
  OBVIOUS
<1>1. /\ net' = net /\ UNCHANGED <<clientVars, historyVars, log>>
      /\ unsent' = {x \in unsent : ~(x.type = "push" /\ x.box = b)} \cup {m}
      /\ spent' = [spent EXCEPT !.tooLong = @ + 1]
  BY <1>0 DEF ServerTooLong
<1>2. m.type = "tooLong" /\ m.box = b /\ m.pts = serverPts[b]
  BY <1>0 DEF PtsMsg
<1>3. ASSUME NEW c \in Boxes, NEW u \in log[c], NEW i, Coming(i, c, u)
      PROVE  Coming(i, c, u)'
  <2>1. CASE \E x \in unsent : Brings(x, c, u)
    <3>1. PICK x \in unsent : Brings(x, c, u)
      BY <2>1
    <3>2. CASE x \in unsent'
      BY <3>1, <3>2 DEF Coming
    <3>3. CASE x \notin unsent'
      <4>1. x.type = "push" /\ x.box = b
        BY <1>1, <3>3
      <4>2. c = b
        BY <3>1, <4>1 DEF Brings, UpdateMsg
      <4>3. serverPts[b] >= u.pts
        BY <4>2 DEF IInv, BoxInv, Tiles, TypeOK, Update
      <4> QED BY <1>1, <1>2, <4>2, <4>3 DEF Coming, Brings
    <3> QED BY <3>2, <3>3
  <2>2. CASE ~\E x \in unsent : Brings(x, c, u)
    BY <1>1, <1>3, <2>2 DEF Coming
  <2> QED BY <2>1, <2>2
<1>4. \A x \in unsent' : Plain(x, waiter)
  <2>1. Plain(m, waiter)
    BY <1>2 DEF Plain, IsUpdate, IsReply
  <2> QED BY <1>1, <2>1 DEF WatchInv, NetWatch
<1>5. spent' \in [zero : Nat, fails : Nat, tooLong : Nat, sessions : Nat]
  BY <1>1 DEF WatchInv
<1>6. TypeOK' /\ \A c \in Boxes : \A u \in log'[c] : u \in log[c]
  BY <1>1 DEF IInv
<1>7. \A i \in DOMAIN net' :
        /\ i \in DOMAIN net /\ net'[i] = net[i]
        /\ \A c \in Boxes : \A u \in log[c] : Coming(i, c, u) => Coming(i, c, u)'
  BY <1>1, <1>3
<1>8. \A c \in Boxes : \A u \in log[c] : Coming(0, c, u) => Coming(0, c, u)'
  BY <1>3
<1> QED BY <1>1, <1>4, <1>5, <1>6, <1>7, <1>8, WatchServer

(* A lost session takes its pushes with it, but new_session_created comes  *)
(* behind all that is left.                                                *)
LEMMA WatchNewSessionServer ==
  ASSUME IInv, WatchInv, IInv', NewSession
  PROVE  WatchInv'
<1>0. PICK s : s = [type |-> "newSession"]
  OBVIOUS
<1>1. PICK k \in 0 .. Len(net) :
        /\ net' = Append(SubSeq(net, 1, k), s)
        /\ unsent' = {m \in unsent \cup {net[i] : i \in (k + 1) .. Len(net)} :
                        IsReply(m)}
  BY <1>0 DEF NewSession
<1>2. /\ UNCHANGED <<clientVars, historyVars, log>>
      /\ spent' = [spent EXCEPT !.sessions = @ + 1]
  BY DEF NewSession
<1>3. net \in Seq(Messages) /\ s \in Messages /\ s.type = "newSession"
  BY <1>0 DEF IInv, TypeOK, Messages
<1>4. /\ \A i \in DOMAIN net' :
           \/ i \in 1 .. k /\ i \in DOMAIN net /\ net'[i] = net[i]
           \/ i = k + 1 /\ net'[i] = s
      /\ k \in Nat /\ k + 1 \in DOMAIN net' /\ net'[k + 1] = s
  BY <1>1, <1>3, PrefixAppend, PrefixKeeps
<1>5. \A c, u : Brings(s, c, u)
  BY <1>3 DEF Brings
<1>6. ASSUME NEW i \in 0 .. k, NEW c, NEW u
      PROVE  Coming(i, c, u)'
  BY <1>4, <1>5, <1>6 DEF Coming
<1>7. \A i \in (k + 1) .. Len(net) : i \in DOMAIN net
  BY <1>3, <1>4, LenProperties
<1>8. \A x \in unsent' : Plain(x, waiter)
  BY <1>1, <1>7 DEF WatchInv, NetWatch
<1>9. Plain(s, waiter) /\ s.type /= "received" /\ \A c, p : ~Settles(s, c, p)
  BY <1>3 DEF Plain, Settles, IsUpdate, IsReply
<1>10. ASSUME NEW i \in DOMAIN net'
       PROVE  \/ /\ i \in DOMAIN net /\ net'[i] = net[i]
                 /\ \A c \in Boxes : \A u \in log[c] :
                      Coming(i, c, u) => Coming(i, c, u)'
              \/ /\ Plain(net'[i], waiter)
                 /\ net'[i].type = "received" =>
                      \A j \in DOMAIN net' :
                        net'[j].type = "received" /\ net'[j].box = net'[i].box
                          => i = j
                 /\ \A c \in Boxes : \A p \in Nat : \A u \in log'[c] :
                      Settles(net'[i], c, p) => u.pts <= p
  <2>1. CASE i \in 1 .. k /\ i \in DOMAIN net /\ net'[i] = net[i]
    <3>1. i \in 0 .. k
      BY <2>1
    <3> QED BY <1>6, <2>1, <3>1
  <2>2. CASE net'[i] = s
    BY <1>9, <2>2
  <2> QED BY <1>4, <2>1, <2>2
<1>11. \A c \in Boxes : \A u \in log[c] : Coming(0, c, u) => Coming(0, c, u)'
  <2>1. 0 \in 0 .. k
    BY <1>4
  <2> QED BY <1>6, <2>1
<1>12. spent' \in [zero : Nat, fails : Nat, tooLong : Nat, sessions : Nat]
  BY <1>2 DEF WatchInv
<1>13. TypeOK' /\ \A c \in Boxes : \A u \in log'[c] : u \in log[c]
  BY <1>2 DEF IInv
<1> QED BY <1>2, <1>8, <1>10, <1>11, <1>12, <1>13, WatchServer

-----------------------------------------------------------------------------
(* The theorems.                                                           *)

LEMMA WatchInit ==
  ASSUME Init PROVE WatchInv
<1>1. \A b \in Boxes : /\ waiter[b].good = 0 /\ waiter[b].last = 0
                       /\ b = Common => waiter[b].requesting
  BY DEF Init, setRequesting, NewWaiter
<1>2. Common \in Boxes
  BY CommonIsBox
<1>3. BoxWatch
  BY <1>1, <1>2
  DEF Init, BoxWatch, Timed, InOrder, Outstanding, inited, requestingDifference
<1>4. NetWatch
  BY DEF Init, NetWatch
<1> QED BY <1>3, <1>4 DEF Init, WatchInv

(* Every step keeps WatchInv.                                              *)
LEMMA WatchNext ==
  ASSUME IInv, WatchInv, NoLooseEnds, [Next]_vars PROVE WatchInv'
<1>0. IInv' /\ FeedStep
  BY NextStep
<1>1. CASE Server
  <2>1. ASSUME NEW b \in Boxes, ServerZero(b) PROVE WatchInv'
    BY <2>1 DEF ServerZero, NoLooseEnds, WatchInv
  <2>2. ASSUME NEW b \in Channels, AnswerMessages(b) PROVE WatchInv'
    BY <2>2 DEF AnswerMessages, NoLooseEnds, WatchInv
  <2> QED
    BY <1>0, <1>1, <2>1, <2>2, WatchServerUpdate, WatchAnswerDialogs,
       WatchServerTooLong, WatchSend, WatchAnswer, WatchAnswerFail,
       WatchNewSessionServer DEF Server
<1>2. CASE Receives
  BY <1>0, <1>2, WatchPush, WatchReply, WatchAffected, WatchPtsReceived,
     WatchTooLong, WatchDifference, WatchChannelDifference, WatchFail,
     WatchNewSession DEF Receives
<1>3. CASE Client
  <2>1. ASSUME NEW due \in SUBSET byPts \ {{}}, PtsTimer(due) PROVE WatchInv'
    BY <2>1, WatchPtsTimer
  <2>2. ASSUME NEW due \in SUBSET afterFail \ {{}}, FailTimer(due) PROVE WatchInv'
    BY <2>2, WatchFailTimer
  <2> QED BY <1>2, <1>3, <2>1, <2>2, WatchMinChannel, WatchShowChat,
            WatchCloseWindow DEF Client
<1>4. CASE UNCHANGED vars
  <2>1. Takes /\ net' = net /\ UNCHANGED <<waiter, byPts, applied, counted>>
    BY <1>4 DEF vars, clientVars, serverVars, historyVars, Takes
  <2>2. \A c \in Boxes : Steady(c) /\ Covered(c)
    BY <2>1 DEF Steady, Covered
  <2> QED BY <2>1, <2>2, SteadyStep
<1> QED BY <1>1, <1>3, <1>4 DEF Next

(* Where every update takes points and a channel is loaded with its pts,   *)
(* WatchInv is inductive.                                                  *)
THEOREM Watched ==
  ASSUME NoLooseEnds
  PROVE  Spec => []WatchInv
<1>1. Init => WatchInv
  BY WatchInit
<1>2. IInv /\ WatchInv /\ [Next]_vars => WatchInv'
  BY WatchNext
<1> QED BY <1>1, <1>2, Inductive, PTL DEF Spec

(* A hole never outlives its timer: check() starts it, checkForWaiting()   *)
(* stops it only with nothing skipped, and getDifference takes over.       *)
THEOREM GapsTimed ==
  ASSUME NoLooseEnds
  PROVE  Spec => []GapIsWatched
<1>1. IInv /\ WatchInv => GapIsWatched
  <2> SUFFICES ASSUME IInv, WatchInv, NEW b \in Boxes, ~waiter[b].requesting,
                      waiter[b].last /= waiter[b].count \/ waiter[b].queue /= {}
               PROVE  b \in byPts
    BY DEF GapIsWatched
  <2>1. Timed(waiter[b], b \in byPts)
    BY DEF WatchInv, BoxWatch
  <2>2. Ready(waiter[b])
    BY <2>1, BoxReady
  <2> QED BY <2>1, <2>2 DEF Ready, Timed
<1> QED BY <1>1, Inductive, Watched, PTL

(* No push is applied while one before it is missing: updated() saves it,  *)
(* and applySkippedUpdates() runs only once the hole is closed.            *)
THEOREM InOrderApplied ==
  ASSUME NoLooseEnds
  PROVE  Spec => []AppliedInOrder
<1>1. WatchInv => AppliedInOrder
  BY DEF WatchInv, BoxWatch, InOrder, AppliedInOrder
<1> QED BY <1>1, Watched, PTL

(* What a box lacks is on its way, timed, announced or asked for: the      *)
(* pushes that mtpUpdateReceived() and feedUpdate() throw away included.   *)
THEOREM Remembered ==
  ASSUME NoLooseEnds
  PROVE  Spec => []NothingForgotten
<1>1. IInv /\ WatchInv => NothingForgotten
  <2> SUFFICES ASSUME IInv, WatchInv, NEW b \in Boxes, NEW u \in log[b],
                      inited(waiter[b]), u.pts > waiter[b].good,
                      ~waiter[b].requesting, ~requestingDifference
               PROVE  \/ InFlight(UpdateMsg(b, u)) \/ b \in byPts
                      \/ Announced(b, u.pts)
    BY DEF NothingForgotten
  <2>1. u \in counted[b] \/ Coming(0, b, u)
    BY DEF WatchInv, BoxWatch, Outstanding
  <2>2. CASE u \in counted[b]
    <3>1. u.pts <= waiter[b].last
      BY <2>2 DEF IInv, BoxInv, WaiterInv
    <3>2. u.pts \in Nat /\ waiter[b].good \in Nat /\ waiter[b].last \in Nat
      BY DEF IInv, TypeOK, Update, Waiters
    <3>3. waiter[b].good /= waiter[b].last
      BY <3>1, <3>2
    <3>4. Timed(waiter[b], b \in byPts)
      BY DEF WatchInv, BoxWatch
    <3> QED BY <3>3, <3>4 DEF Timed
  <2>3. CASE Coming(0, b, u)
    BY <2>3 DEF Coming, Brings, InFlight, Announced
  <2> QED BY <2>1, <2>2, <2>3
<1> QED BY <1>1, Inductive, Watched, PTL
=============================================================================
