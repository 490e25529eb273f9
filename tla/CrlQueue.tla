------------------------------ MODULE CrlQueue ------------------------------
(***************************************************************************)
(* crl::queue, the serial queue that the cache, the loaders, the readers   *)
(* and the main thread run on.  Any thread pushes entries to a lock-free   *)
(* list; the one that pushed to an empty list wakes the queue, which hands *)
(* a callback to the thread pool unless one is under way (_queued); the    *)
(* callback takes the whole list, runs it in the order of the pushes,      *)
(* clears _queued and looks at the list again.                             *)
(*                                                                         *)
(* Every step is one atomic operation of one thread.  A callable that      *)
(* pushes to its own queue is one of the producers.  Entries are addresses *)
(* and are used again once they are freed, so that a compare-and-exchange  *)
(* may meet an address that it knows from before.                          *)
(***************************************************************************)
EXTENDS Integers, Sequences

CONSTANTS
  Producers, Workers, Entries, None,
  MaxPushes            \* bound: how many entries are ever pushed

ASSUME CrlAssumption ==
  None \notin Entries /\ None \notin Producers /\ MaxPushes \in Nat

VARIABLES
  head,        \* _head and the entries after it, the newest first
  queued,      \* _queued
  callbacks,   \* ProcessCallbacks that wait in the thread pool
  producer,    \* where each producer is in async() or sync()
  worker,      \* where each pool thread is in process()
  semaphore,   \* producers whose waiter is released
  pushed,      \* history: the entries in the order of the pushes
  begun        \* history: the entries in the order in which they ran

vars == <<head, queued, callbacks, producer, worker, semaphore, pushed, begun>>

(* at: the next step.  entry: what is pushed.  seen: the value of _head    *)
(* that is expected.  sync: whether the producer waits for the entry.      *)
IdleProducer == [at |-> "idle", entry |-> None, seen |-> None, sync |-> FALSE]

(* batch: the entries that were taken and have not begun, oldest first.    *)
(* entry: what runs.                                                       *)
IdleWorker == [at |-> "idle", batch |-> <<>>, entry |-> None]

Init ==
  /\ head = <<>> /\ queued = FALSE /\ callbacks = 0
  /\ producer = [p \in Producers |-> IdleProducer]
  /\ worker = [w \in Workers |-> IdleWorker]
  /\ semaphore = {} /\ pushed = <<>> /\ begun = <<>>

Elements(s) == {s[i] : i \in DOMAIN s}

(* An entry that new may return: nobody holds it, nor waits for it.        *)
Free(e) ==
  /\ e \notin Elements(head)
  /\ \A p \in Producers :
       producer[p].entry = e => producer[p].at /= "push" /\ ~producer[p].sync
  /\ \A w \in Workers : e \notin Elements(worker[w].batch) /\ worker[w].entry /= e

First == IF head = <<>> THEN None ELSE Head(head)

-----------------------------------------------------------------------------
(* async() and sync(): push_is_first() allocates an entry.                 *)
Async(p, e, sync) ==
  /\ producer[p].at = "idle" /\ Free(e)
  /\ Len(pushed) < MaxPushes
  /\ producer' = [producer EXCEPT ![p] = [at |-> "push", entry |-> e,
                                          seen |-> None, sync |-> sync]]
  /\ UNCHANGED <<head, queued, callbacks, worker, semaphore, pushed, begun>>

(* push_entry(): _head is not what was expected.                           *)
PushRetry(p) ==
  /\ producer[p].at = "push" /\ producer[p].seen /= First
  /\ producer' = [producer EXCEPT ![p].seen = First]
  /\ UNCHANGED <<head, queued, callbacks, worker, semaphore, pushed, begun>>

(* async() ends; sync() goes on to wait for its semaphore.                 *)
Pushed(p) ==
  IF producer[p].sync THEN [producer[p] EXCEPT !.at = "wait"] ELSE IdleProducer

(* Mutant: the queue is woken for every entry but the first.               *)
PushEntrySecond(p) ==
  /\ producer[p].at = "push" /\ producer[p].seen = First
  /\ head' = <<producer[p].entry>> \o head
  /\ pushed' = Append(pushed, producer[p].entry)
  /\ producer' = [producer EXCEPT ![p] = IF producer[p].seen /= None
                                         THEN [@ EXCEPT !.at = "wake"] ELSE Pushed(p)]
  /\ UNCHANGED <<queued, callbacks, worker, semaphore, begun>>

PushEntry(p) ==
  /\ producer[p].at = "push" /\ producer[p].seen = First
  /\ head' = <<producer[p].entry>> \o head
  /\ pushed' = Append(pushed, producer[p].entry)
  /\ producer' = [producer EXCEPT ![p] = IF producer[p].seen = None
                                         THEN [@ EXCEPT !.at = "wake"] ELSE Pushed(p)]
  /\ UNCHANGED <<queued, callbacks, worker, semaphore, begun>>

(* wake_async() of a producer: test_and_set(), and the call of the pool.   *)
ProducerWakes(p) ==
  /\ producer[p].at = "wake"
  /\ queued' = TRUE
  /\ producer' = [producer EXCEPT ![p] = IF queued THEN Pushed(p)
                                         ELSE [@ EXCEPT !.at = "submit"]]
  /\ UNCHANGED <<head, callbacks, worker, semaphore, pushed, begun>>

ProducerSubmits(p) ==
  /\ producer[p].at = "submit"
  /\ callbacks' = callbacks + 1
  /\ producer' = [producer EXCEPT ![p] = Pushed(p)]
  /\ UNCHANGED <<head, queued, worker, semaphore, pushed, begun>>

(* waiter.acquire().                                                       *)
Acquire(p) ==
  /\ producer[p].at = "wait" /\ p \in semaphore
  /\ semaphore' = semaphore \ {p}
  /\ producer' = [producer EXCEPT ![p] = IdleProducer]
  /\ UNCHANGED <<head, queued, callbacks, worker, pushed, begun>>

-----------------------------------------------------------------------------
(* The thread pool runs a ProcessCallback.                                 *)
Start(w) ==
  /\ worker[w].at = "idle" /\ callbacks > 0
  /\ callbacks' = callbacks - 1
  /\ worker' = [worker EXCEPT ![w].at = "take"]
  /\ UNCHANGED <<head, queued, producer, semaphore, pushed, begun>>

ReverseList(s) == [i \in 1 .. Len(s) |-> s[Len(s) + 1 - i]]

(* list::process(): _head.exchange(nullptr).                               *)
Take(w) ==
  /\ worker[w].at = "take"
  /\ head' = <<>>
  /\ worker' = [worker EXCEPT ![w].batch = ReverseList(head),
                              ![w].at = IF head = <<>> THEN "clear" ELSE "next"]
  /\ UNCHANGED <<queued, callbacks, producer, semaphore, pushed, begun>>

BeginEntry(w) ==
  /\ worker[w].at = "next"
  /\ worker' = [worker EXCEPT ![w].at = "run", ![w].entry = Head(worker[w].batch),
                              ![w].batch = Tail(@)]
  /\ begun' = Append(begun, Head(worker[w].batch))
  /\ UNCHANGED <<head, queued, callbacks, producer, semaphore, pushed>>

(* Mutant: the semaphore is released only when a batch ends.               *)
EndEntryLate(w) ==
  /\ worker[w].at = "run"
  /\ worker' = [worker EXCEPT ![w].at = IF worker[w].batch = <<>> THEN "clear" ELSE "next",
                              ![w].entry = None]
  /\ semaphore' = IF worker[w].batch = <<>>
                    THEN semaphore \cup {p \in Producers : /\ producer[p].sync
                                                           /\ producer[p].entry = worker[w].entry}
                    ELSE semaphore
  /\ UNCHANGED <<head, queued, callbacks, producer, pushed, begun>>

(* The callable returns: sync() has its semaphore released, and the entry  *)
(* is freed.                                                               *)
EndEntry(w) ==
  /\ worker[w].at = "run"
  /\ worker' = [worker EXCEPT ![w].at = IF worker[w].batch = <<>> THEN "clear" ELSE "next",
                              ![w].entry = None]
  /\ semaphore' = semaphore \cup {p \in Producers : /\ producer[p].sync
                                                    /\ producer[p].entry = worker[w].entry}
  /\ UNCHANGED <<head, queued, callbacks, producer, pushed, begun>>

(* queue::process(): _queued.clear(), then _list.empty().                  *)
Clear(w) ==
  /\ worker[w].at = "clear"
  /\ queued' = FALSE
  /\ worker' = [worker EXCEPT ![w].at = "check"]
  /\ UNCHANGED <<head, callbacks, producer, semaphore, pushed, begun>>

(* Mutant: the list is not looked at again.                                *)
CheckNot(w) ==
  /\ worker[w].at = "check"
  /\ worker' = [worker EXCEPT ![w].at = "idle"]
  /\ UNCHANGED <<head, queued, callbacks, producer, semaphore, pushed, begun>>

Check(w) ==
  /\ worker[w].at = "check"
  /\ worker' = [worker EXCEPT ![w].at = IF head = <<>> THEN "idle" ELSE "wake"]
  /\ UNCHANGED <<head, queued, callbacks, producer, semaphore, pushed, begun>>

(* Mutant: the flag is read and then set.                                  *)
WorkerWakesAlways(w) ==
  /\ worker[w].at = "wake"
  /\ queued' = TRUE
  /\ worker' = [worker EXCEPT ![w].at = "submit"]
  /\ UNCHANGED <<head, callbacks, producer, semaphore, pushed, begun>>

(* wake_async() at the end of process().                                   *)
WorkerWakes(w) ==
  /\ worker[w].at = "wake"
  /\ queued' = TRUE
  /\ worker' = [worker EXCEPT ![w].at = IF queued THEN "idle" ELSE "submit"]
  /\ UNCHANGED <<head, callbacks, producer, semaphore, pushed, begun>>

WorkerSubmits(w) ==
  /\ worker[w].at = "submit"
  /\ callbacks' = callbacks + 1
  /\ worker' = [worker EXCEPT ![w].at = "idle"]
  /\ UNCHANGED <<head, queued, producer, semaphore, pushed, begun>>

ProducerStep(p) ==
  PushRetry(p) \/ PushEntry(p) \/ ProducerWakes(p) \/ ProducerSubmits(p) \/ Acquire(p)

WorkerStep(w) ==
  \/ Take(w) \/ BeginEntry(w) \/ EndEntry(w)
  \/ Clear(w) \/ Check(w) \/ WorkerWakes(w) \/ WorkerSubmits(w)

Next ==
  \/ \E p \in Producers : \/ \E e \in Entries, sync \in BOOLEAN : Async(p, e, sync)
                          \/ ProducerStep(p)
  \/ \E w \in Workers : Start(w) \/ WorkerStep(w)

Spec == Init /\ [][Next]_vars

(* Threads are not starved, the pool runs what it is given, and callables  *)
(* return.                                                                 *)
FairSpec ==
  /\ Spec
  /\ \A p \in Producers : WF_vars(ProducerStep(p))
  /\ \A w \in Workers : WF_vars(WorkerStep(w))
  /\ WF_vars(\E w \in Workers : Start(w))

-----------------------------------------------------------------------------
ProducerAt == {"idle", "push", "wake", "submit", "wait"}
WorkerAt == {"idle", "take", "next", "run", "clear", "check", "wake", "submit"}

(* Every variable has its type.                                            *)
TypeOK ==
  /\ head \in Seq(Entries) /\ queued \in BOOLEAN /\ callbacks \in {0, 1}
  /\ producer \in [Producers -> [at : ProducerAt, entry : Entries \cup {None},
                                 seen : Entries \cup {None}, sync : BOOLEAN]]
  /\ worker \in [Workers -> [at : WorkerAt, batch : Seq(Entries),
                             entry : Entries \cup {None}]]
  /\ semaphore \subseteq Producers
  /\ pushed \in Seq(Entries) /\ begun \in Seq(Entries)

(* Two threads are never inside list::process() of one queue, so that no   *)
(* two callables run at the same time and no entry is freed twice.         *)
OneAtATime ==
  \A v, w \in Workers :
    worker[v].at \in {"next", "run"} /\ worker[w].at \in {"next", "run"} => v = w

(* Entries run in the order of their pushes: nothing is skipped, repeated  *)
(* or overtaken, whatever the threads do between two atomic operations.    *)
InOrder ==
  /\ Len(begun) <= Len(pushed)
  /\ \A i \in 1 .. Len(begun) : begun[i] = pushed[i]

(* No wake-up is lost: if an entry is in the list, some thread is still on *)
(* its way to take it, or will look at the list before it rests.           *)
NoLostWakeUp ==
  head /= <<>> =>
    \/ callbacks > 0
    \/ \E p \in Producers : producer[p].at \in {"wake", "submit"}
    \/ \E w \in Workers : worker[w].at /= "idle"

(* The queue promises what SerialQueue says.                               *)
InProcess(workers) == {w \in Workers : workers[w].at \in {"next", "run"}}
BatchOf(workers) ==
  IF InProcess(workers) = {} THEN <<>>
  ELSE workers[CHOOSE w \in InProcess(workers) : TRUE].batch
RunningOf(workers) ==
  IF InProcess(workers) = {} THEN None
  ELSE workers[CHOOSE w \in InProcess(workers) : TRUE].entry

Abstract == INSTANCE SerialQueue
              WITH waiting <- BatchOf(worker) \o ReverseList(head),
                   running <- RunningOf(worker)
Serial == Abstract!Spec

(* Every callable that was given to the queue runs.                        *)
AllRun == []<>(begun = pushed)

(* sync() returns.                                                         *)
SyncReturns ==
  \A p \in Producers : producer[p].at = "wait" ~> producer[p].at = "idle"
=============================================================================
