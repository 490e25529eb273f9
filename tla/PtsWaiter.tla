----------------------------- MODULE PtsWaiter -----------------------------
(***************************************************************************)
(* The gap detector of data/data_pts_waiter.{h,cpp}.  Each "box" of        *)
(* updates (the account's common box and every channel) numbers its        *)
(* updates: an update takes `cnt' points and ends at point `pts'.  The     *)
(* waiter counts the points it was handed (_count) against the highest     *)
(* point it saw (_last) and knows itself complete up to _good.             *)
(*                                                                         *)
(* The operators below are the methods of PtsWaiter, as functions from a   *)
(* waiter to what the method leaves behind.  A method that may also start  *)
(* or stop the box's timer in Api::Updates (ptsWaiterStartTimerFor) says so *)
(* in the `timer' field of its result; the updates it hands to             *)
(* Api::Updates::applyUpdate(s)NoPtsCheck are in the field `fed'.          *)
(*                                                                         *)
(* _applySkippedLevel is nonzero only inside applySkippedUpdates, whose    *)
(* callees do not reach the same waiter again, so no state between two     *)
(* handlers has it.  _updateQueue and _updatesQueue are one queue: they    *)
(* differ only in the wire type of what they keep, and _skippedKey only    *)
(* makes keys distinct.                                                    *)
(***************************************************************************)
EXTENDS Integers

(* A zero _good means that the waiter was never given a pts.               *)
NewWaiter ==
  [good |-> 0, last |-> 0, count |-> 0, queue |-> {}, requesting |-> FALSE,
   waitingForSkipped |-> FALSE, waitingForShortPoll |-> FALSE]

inited(w) == w.good > 0

init(w, pts) ==
  [w EXCEPT !.good = pts, !.last = pts, !.count = pts, !.queue = {}]

(* Starting a request forgets the queue, but not _waitingForSkipped.       *)
setRequesting(w, isRequesting) ==
  [w EXCEPT !.requesting = isRequesting,
            !.queue = IF isRequesting THEN {} ELSE @]

qMax(a, b) == IF a < b THEN b ELSE a

(* A timer that is not needed for short polling either is stopped.         *)
checkForWaiting(w, otherwise) ==
  IF w.waitingForSkipped \/ w.waitingForShortPoll THEN otherwise ELSE "stop"

setWaitingForShortPoll(w, wait) ==
  LET new == [w EXCEPT !.waitingForShortPoll = wait]
  IN  [w |-> new,
       timer |-> IF wait THEN "start" ELSE checkForWaiting(new, "keep")]

(* Mutants of check(): an update past a hole passes; a hole starts no      *)
(* timer; the points are subtracted.                                       *)
checkPasses(w, pts, count) ==
  IF inited(w)
    THEN [yes |-> TRUE, timer |-> "keep",
          w |-> [w EXCEPT !.last = qMax(@, pts), !.count = @ + count]]
    ELSE [yes |-> TRUE, timer |-> "keep", w |-> init(w, pts)]

checkWithoutTimer(w, pts, count) ==
  LET last   == qMax(w.last, pts)
      points == w.count + count
      seen   == [w EXCEPT !.last = last, !.count = points]
  IN  IF ~inited(w)
        THEN [yes |-> TRUE, w |-> init(w, pts), timer |-> "keep"]
      ELSE IF last = points
        THEN [yes |-> TRUE, w |-> [seen EXCEPT !.good = last],
              timer |-> "keep"]
      ELSE [yes |-> (count = 0),
            w |-> [seen EXCEPT !.waitingForSkipped = TRUE],
            timer |-> "keep"]

checkSubtracts(w, pts, count) ==
  [yes |-> FALSE, timer |-> "start",
   w |-> [w EXCEPT !.last = qMax(@, pts), !.count = @ - count,
                   !.waitingForSkipped = TRUE]]

(* check(): `yes' is its result, "return false if need to save that update *)
(* and apply later".                                                       *)
check(w, pts, count) ==
  LET last   == qMax(w.last, pts)
      points == w.count + count
      seen   == [w EXCEPT !.last = last, !.count = points]
  IN  IF ~inited(w)
        THEN [yes |-> TRUE, w |-> init(w, pts), timer |-> "keep"]
      ELSE IF last = points
        THEN [yes |-> TRUE, w |-> [seen EXCEPT !.good = last],
              timer |-> "keep"]
      ELSE [yes |-> (count = 0),
            w |-> [seen EXCEPT !.waitingForSkipped = TRUE],
            timer |-> "start"]

(* Mutants of updated(): a late update is counted again; updates are       *)
(* counted while a difference is being requested.                          *)
updatedLate(w, pts, count) ==
  LET c == check(w, pts, count)
  IN  IF w.requesting
        THEN [verdict |-> "apply", w |-> w, timer |-> "keep"]
        ELSE [verdict |-> IF c.yes THEN "apply" ELSE "save",
              w |-> c.w, timer |-> c.timer]

updatedRequesting(w, pts, count) ==
  LET c == check(w, pts, count)
  IN  IF pts <= w.good /\ count > 0
        THEN [verdict |-> "drop", w |-> w, timer |-> "keep"]
        ELSE [verdict |-> IF c.yes THEN "apply" ELSE "save",
              w |-> c.w, timer |-> c.timer]

(* The part of updated() before the update is saved: while a difference is *)
(* being requested everything passes, a late update is dropped.            *)
updated(w, pts, count) ==
  IF w.requesting
    THEN [verdict |-> "apply", w |-> w, timer |-> "keep"]
  ELSE IF pts <= w.good /\ count > 0
    THEN [verdict |-> "drop", w |-> w, timer |-> "keep"]
  ELSE LET c == check(w, pts, count)
       IN  [verdict |-> IF c.yes THEN "apply" ELSE "save",
            w |-> c.w, timer |-> c.timer]

applySkippedUpdates(w, timer) ==
  LET rested == [w EXCEPT !.waitingForSkipped = FALSE]
  IN  IF ~w.waitingForSkipped
        THEN [w |-> w, fed |-> {}, timer |-> timer]
        ELSE [w |-> [rested EXCEPT !.queue = {}], fed |-> w.queue,
              timer |-> checkForWaiting(rested, timer)]

(* updateAndApply(channel, pts, count, update).                            *)
updateAndApply(w, update) ==
  LET u      == updated(w, update.pts, update.cnt)
      queued == [u.w EXCEPT !.queue = @ \cup {update}]
  IN  CASE u.verdict = "drop" -> [w |-> u.w, fed |-> {}, timer |-> u.timer]
        [] u.verdict = "save" -> [w |-> queued, fed |-> {}, timer |-> u.timer]
        [] u.verdict = "apply"
           /\ (~u.w.waitingForSkipped \/ u.w.queue = {})
             -> [w |-> u.w, fed |-> {update}, timer |-> u.timer]
        [] OTHER -> applySkippedUpdates(queued, u.timer)

(* updateAndApply(channel, pts, count): the answer to a request of ours    *)
(* tells the new pts; what it changed is already applied locally.          *)
updateAndApplyAffected(w, pts, count) ==
  LET u == updated(w, pts, count)
  IN  IF u.verdict = "apply" THEN applySkippedUpdates(u.w, u.timer)
                             ELSE [w |-> u.w, fed |-> {}, timer |-> u.timer]
=============================================================================
