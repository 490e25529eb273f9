--------------------------- MODULE CrlQueueProofs ---------------------------
(***************************************************************************)
(* For any number of threads, entries and pushes: at most one thread is    *)
(* inside list::process(), entries run in the order of the pushes, no      *)
(* wake-up is lost, and crl::queue implements SerialQueue.                 *)
(*                                                                         *)
(* The argument follows the one that sets _queued: from then on exactly    *)
(* one of the thread, the callback in the pool and the thread that runs it *)
(* holds the right to process the list, until _queued is cleared.          *)
(***************************************************************************)
EXTENDS CrlQueue, SequenceTheorems, TLAPS

Typed ==
  /\ head \in Seq(Entries) /\ queued \in BOOLEAN /\ callbacks \in Nat
  /\ producer \in [Producers -> [at : ProducerAt, entry : Entries \cup {None},
                                 seen : Entries \cup {None}, sync : BOOLEAN]]
  /\ worker \in [Workers -> [at : WorkerAt, batch : Seq(Entries),
                             entry : Entries \cup {None}]]
  /\ semaphore \subseteq Producers
  /\ pushed \in Seq(Entries) /\ begun \in Seq(Entries)

(* Producers that push have an entry.                                      *)
Holding == \A p \in Producers : producer[p].at = "push" => producer[p].entry \in Entries

Active == {"take", "next", "run", "clear", "submit"}

(* Who holds the right to process: a callback, a worker or a producer.     *)
OneHolder ==
  /\ callbacks \in {0, 1}
  /\ callbacks = 1 => /\ \A w \in Workers : worker[w].at \notin Active
                      /\ \A p \in Producers : producer[p].at /= "submit"
  /\ \A v, w \in Workers : worker[v].at \in Active /\ worker[w].at \in Active => v = w
  /\ \A p, q \in Producers :
       producer[p].at = "submit" /\ producer[q].at = "submit" => p = q
  /\ \A w \in Workers, p \in Producers :
       ~(worker[w].at \in Active /\ producer[p].at = "submit")

Held ==
  \/ callbacks = 1
  \/ \E w \in Workers : worker[w].at \in Active
  \/ \E p \in Producers : producer[p].at = "submit"

FlagIsHeld == queued <=> Held

(* Who has a batch, and who has an entry.                                  *)
Batches ==
  \A w \in Workers :
    /\ worker[w].at \notin {"next", "run"} => worker[w].batch = <<>>
    /\ worker[w].at = "next" => worker[w].batch /= <<>>
    /\ worker[w].at = "run" => worker[w].entry \in Entries
    /\ worker[w].at /= "run" => worker[w].entry = None

(* What was pushed has begun, is in the batch, or is in the list.          *)
Conserved ==
  /\ \A w \in Workers : worker[w].at \in {"next", "run"} =>
       pushed = begun \o (worker[w].batch \o ReverseList(head))
  /\ (\A w \in Workers : worker[w].at \notin {"next", "run"}) =>
       pushed = begun \o ReverseList(head)

Watched ==
  head /= <<>> =>
    \/ queued
    \/ \E p \in Producers : producer[p].at = "wake"
    \/ \E w \in Workers : worker[w].at \in {"wake", "check"}

IInv == Typed /\ Holding /\ OneHolder /\ FlagIsHeld /\ Batches /\ Conserved /\ Watched

-----------------------------------------------------------------------------
(* Sequences.                                                              *)

(* ReverseList() keeps the length and the elements.                        *)
LEMMA ReverseProperties ==
  ASSUME NEW S, NEW s \in Seq(S)
  PROVE  /\ ReverseList(s) \in Seq(S)
         /\ Len(ReverseList(s)) = Len(s)
         /\ \A i \in 1 .. Len(s) : ReverseList(s)[i] = s[Len(s) + 1 - i]
  <1>1. Len(s) \in Nat /\ \A i \in 1 .. Len(s) : s[i] \in S
    BY LenProperties, ElementOfSeq
  <1>2. \A i \in 1 .. Len(s) : s[Len(s) + 1 - i] \in S
    BY <1>1
  <1>3. ReverseList(s) \in [1 .. Len(s) -> S]
    BY <1>2 DEF ReverseList
  <1> QED
    BY <1>1, <1>3, IsASeq, LenProperties DEF ReverseList

(* The newest entry of the list is the last one to run.                    *)
LEMMA ReverseOfLonger ==
  ASSUME NEW S, NEW s \in Seq(S), NEW e \in S, NEW t \in Seq(S),
         Len(t) = Len(s) + 1, t[1] = e, \A i \in 1 .. Len(s) : t[i + 1] = s[i]
  PROVE  ReverseList(t) = Append(ReverseList(s), e)
  <1> DEFINE n == Len(s)
             r == ReverseList(s)
             q == ReverseList(t)
             a == Append(r, e)
  <1>1. n \in Nat
    BY LenProperties
  <1>2. r \in Seq(S) /\ Len(r) = n /\ \A i \in 1 .. n : r[i] = s[n + 1 - i]
    BY ReverseProperties
  <1>3. q \in Seq(S) /\ Len(q) = n + 1 /\ \A i \in 1 .. n + 1 : q[i] = t[n + 1 + 1 - i]
    BY ReverseProperties
  <1>4. /\ a \in Seq(S) /\ Len(a) = n + 1 /\ a[n + 1] = e
        /\ \A i \in 1 .. n : a[i] = r[i]
    BY <1>2, AppendProperties
  <1>5. \A i \in 1 .. n : t[i + 1] = s[i]
    OBVIOUS
  <1> HIDE DEF n, r, q, a
  <1>6. \A i \in 1 .. n + 1 : q[i] = a[i]
    <2> TAKE i \in 1 .. n + 1
    <2>1. CASE i = n + 1
      <3>1. n + 1 + 1 - i = 1
        BY <1>1, <2>1
      <3> QED
        BY <3>1, <2>1, <1>3, <1>4
    <2>2. CASE i /= n + 1
      <3>1. i \in 1 .. n /\ n + 1 - i \in 1 .. n
        BY <1>1, <2>2
      <3>2. n + 1 + 1 - i = (n + 1 - i) + 1
        BY <1>1
      <3>3. t[n + 1 + 1 - i] = s[n + 1 - i]
        BY <3>1, <3>2, <1>5
      <3> QED
        BY <3>1, <3>3, <1>2, <1>3, <1>4
    <2> QED
      BY <2>1, <2>2
  <1>7. q = a
    BY <1>3, <1>4, <1>6, SeqEqual
  <1> QED
    BY <1>7 DEF q, a, r

LEMMA ReverseOfPush ==
  ASSUME NEW S, NEW s \in Seq(S), NEW e \in S
  PROVE  /\ <<e>> \o s \in Seq(S)
         /\ ReverseList(<<e>> \o s) = Append(ReverseList(s), e)
  <1> DEFINE t == <<e>> \o s
  <1>1. /\ <<e>> \in Seq(S) /\ Len(<<e>>) = 1 /\ <<e>>[1] = e
    OBVIOUS
  <1>2. Len(s) \in Nat
    BY LenProperties
  <1>3. /\ t \in Seq(S) /\ Len(t) = Len(s) + 1 /\ t[1] = e
        /\ \A i \in 1 .. Len(s) : t[i + 1] = s[i]
    BY <1>1, <1>2, ConcatProperties
  <1> HIDE DEF t
  <1>4. ReverseList(t) = Append(ReverseList(s), e)
    BY <1>3, ReverseOfLonger
  <1> QED
    BY <1>3, <1>4 DEF t

(* What a push, and the begin of an entry, do to the equation of Conserved. *)
LEMMA AppendOfConcat ==
  ASSUME NEW s \in Seq(Entries), NEW t \in Seq(Entries), NEW e \in Entries
  PROVE  Append(s \o t, e) = s \o Append(t, e)
  <1>1. <<e>> \in Seq(Entries) /\ s \o t \in Seq(Entries)
    BY ConcatProperties
  <1>2. Append(s \o t, e) = (s \o t) \o <<e>> /\ Append(t, e) = t \o <<e>>
    BY <1>1, AppendIsConcat
  <1> QED
    BY <1>1, <1>2, ConcatAssociative

LEMMA PushOfConcat ==
  ASSUME NEW s \in Seq(Entries), NEW t \in Seq(Entries), NEW u \in Seq(Entries), NEW e \in Entries
  PROVE  Append(s \o (t \o u), e) = s \o (t \o Append(u, e))
  <1>1. t \o u \in Seq(Entries)
    BY ConcatProperties
  <1>2. Append(s \o (t \o u), e) = s \o Append(t \o u, e)
    BY <1>1, AppendOfConcat
  <1>3. Append(t \o u, e) = t \o Append(u, e)
    BY AppendOfConcat
  <1> QED
    BY <1>2, <1>3

LEMMA BeginOfConcat ==
  ASSUME NEW s \in Seq(Entries), NEW t \in Seq(Entries), NEW u \in Seq(Entries), t /= <<>>
  PROVE  /\ Head(t) \in Entries /\ Tail(t) \in Seq(Entries)
         /\ s \o (t \o u) = Append(s, Head(t)) \o (Tail(t) \o u)
  <1>1. Head(t) \in Entries /\ Tail(t) \in Seq(Entries) /\ t = <<Head(t)>> \o Tail(t)
    BY HeadTailProperties, ConcatProperties, SeqEqual
  <1>2. <<Head(t)>> \in Seq(Entries) /\ Tail(t) \o u \in Seq(Entries)
    BY <1>1, ConcatProperties
  <1>3. t \o u = <<Head(t)>> \o (Tail(t) \o u)
    BY <1>1, <1>2, ConcatAssociative
  <1>4. s \o (<<Head(t)>> \o (Tail(t) \o u)) = (s \o <<Head(t)>>) \o (Tail(t) \o u)
    BY <1>1, <1>2, ConcatAssociative, SMTT(60)
  <1>5. Append(s, Head(t)) = s \o <<Head(t)>>
    BY <1>1, AppendIsConcat
  <1> QED
    BY <1>1, <1>3, <1>4, <1>5

LEMMA HeadOfConcat ==
  ASSUME NEW s \in Seq(Entries), NEW t \in Seq(Entries), s /= <<>>
  PROVE  s \o t /= <<>> /\ Head(s \o t) = Head(s) /\ Tail(s \o t) = Tail(s) \o t
  <1>1. Len(s) \in Nat /\ Len(t) \in Nat /\ Len(s) > 0
    BY LenProperties, EmptySeq
  <1>2. /\ s \o t \in Seq(Entries) /\ Len(s \o t) = Len(s) + Len(t)
        /\ \A i \in 1 .. Len(s) + Len(t) : (s \o t)[i] = IF i <= Len(s) THEN s[i] ELSE t[i - Len(s)]
    BY ConcatProperties
  <1>3. s \o t /= <<>> /\ Head(s \o t) = Head(s)
    BY <1>1, <1>2
  <1>4. Tail(s) \in Seq(Entries) /\ Tail(s \o t) \in Seq(Entries)
    BY <1>2, <1>3, HeadTailProperties
  <1>5. /\ Len(Tail(s)) = Len(s) - 1 /\ \A i \in 1 .. Len(s) - 1 : Tail(s)[i] = s[i + 1]
        /\ Len(Tail(s \o t)) = Len(s) + Len(t) - 1
        /\ \A i \in 1 .. Len(s) + Len(t) - 1 : Tail(s \o t)[i] = (s \o t)[i + 1]
    BY <1>1, <1>2, <1>3, HeadTailProperties
  <1>6. Tail(s) \o t \in Seq(Entries) /\ Len(Tail(s) \o t) = Len(s) + Len(t) - 1
        /\ \A i \in 1 .. Len(s) + Len(t) - 1 :
             (Tail(s) \o t)[i] = IF i <= Len(s) - 1 THEN Tail(s)[i] ELSE t[i - (Len(s) - 1)]
    BY <1>1, <1>4, <1>5, ConcatProperties
  <1>7. \A i \in 1 .. Len(s) + Len(t) - 1 : Tail(s \o t)[i] = (Tail(s) \o t)[i]
    BY <1>1, <1>2, <1>5, <1>6
  <1> QED
    BY <1>3, <1>4, <1>5, <1>6, <1>7, SeqEqual

-----------------------------------------------------------------------------
(* The inductive invariant.                                                *)

LEMMA InitHolds == Init => IInv
  <1> SUFFICES ASSUME Init PROVE IInv
    OBVIOUS
  <1> USE DEF Init, IdleProducer, IdleWorker
  <1>1. Typed
    <2>1. <<>> \in Seq(Entries)
      OBVIOUS
    <2>2. IdleProducer \in [at : ProducerAt, entry : Entries \cup {None},
                           seen : Entries \cup {None}, sync : BOOLEAN]
      BY DEF ProducerAt
    <2>3. IdleWorker \in [at : WorkerAt, batch : Seq(Entries), entry : Entries \cup {None}]
      BY <2>1 DEF WorkerAt
    <2> HIDE DEF IdleProducer, IdleWorker
    <2> QED
      BY <2>1, <2>2, <2>3 DEF Typed
  <1>2. Holding /\ OneHolder /\ FlagIsHeld
    BY DEF Holding, OneHolder, FlagIsHeld, Held, Active
  <1>3. Batches /\ Watched
    BY DEF Batches, Watched
  <1>4. ReverseList(head) = <<>> /\ pushed = begun \o ReverseList(head)
    BY DEF ReverseList
  <1>5. Conserved
    BY <1>4 DEF Conserved
  <1> QED
    BY <1>1, <1>2, <1>3, <1>5 DEF IInv

(* An entry is allocated. *)
LEMMA AsyncHolds ==
  ASSUME IInv, NEW p \in Producers, NEW e \in Entries, NEW sync \in BOOLEAN, Async(p, e, sync)
  PROVE  IInv'
  <1>0. Typed /\ Holding /\ OneHolder /\ FlagIsHeld /\ Batches /\ Conserved /\ Watched
    BY DEF IInv
  <1>1. /\ producer' \in [Producers -> [at : ProducerAt, entry : Entries \cup {None},
                              seen : Entries \cup {None}, sync : BOOLEAN]]
        /\ \A x \in Producers : producer'[x].at = IF x = p THEN "push" ELSE producer[x].at
        /\ \A x \in Producers : producer'[x].entry = IF x = p THEN e ELSE producer[x].entry
    BY <1>0 DEF Async, Typed, ProducerAt, WorkerAt
  <1>2. Typed'
    BY <1>0, <1>1 DEF Async, Typed
  <1>3. Holding'
    BY <1>0, <1>1 DEF Async, Holding
  <1>4. OneHolder'
    BY <1>0, <1>1 DEF Async, OneHolder, FlagIsHeld, Held, Active, Typed
  <1>5. FlagIsHeld'
    BY <1>0, <1>1 DEF Async, OneHolder, FlagIsHeld, Held, Active, Typed
  <1>6. Batches'
    BY <1>0, <1>1 DEF Async, Batches
  <1>7. Conserved'
    BY <1>0, <1>1 DEF Async, Conserved
  <1>8. Watched'
    BY <1>0, <1>1 DEF Async, Watched
  <1> QED
    BY <1>2, <1>3, <1>4, <1>5, <1>6, <1>7, <1>8 DEF IInv

(* The compare-and-exchange fails. *)
LEMMA PushRetryHolds ==
  ASSUME IInv, NEW p \in Producers, PushRetry(p)
  PROVE  IInv'
  <1>0. Typed /\ Holding /\ OneHolder /\ FlagIsHeld /\ Batches /\ Conserved /\ Watched
    BY DEF IInv
  <1>1. /\ producer' \in [Producers -> [at : ProducerAt, entry : Entries \cup {None},
                              seen : Entries \cup {None}, sync : BOOLEAN]]
        /\ \A x \in Producers : producer'[x].at = IF x = p THEN producer[p].at ELSE producer[x].at
        /\ \A x \in Producers : producer'[x].entry = IF x = p THEN producer[p].entry ELSE producer[x].entry
    <2>1. First \in Entries \cup {None}
      BY <1>0, HeadTailProperties DEF Typed, First
    <2> QED
      BY <1>0, <2>1 DEF PushRetry, Typed, ProducerAt
  <1>2. Typed'
    BY <1>0, <1>1 DEF PushRetry, Typed
  <1>3. Holding'
    BY <1>0, <1>1 DEF PushRetry, Holding
  <1>4. OneHolder'
    BY <1>0, <1>1 DEF PushRetry, OneHolder, FlagIsHeld, Held, Active, Typed
  <1>5. FlagIsHeld'
    BY <1>0, <1>1 DEF PushRetry, OneHolder, FlagIsHeld, Held, Active, Typed
  <1>6. Batches'
    BY <1>0, <1>1 DEF PushRetry, Batches
  <1>7. Conserved'
    BY <1>0, <1>1 DEF PushRetry, Conserved
  <1>8. Watched'
    BY <1>0, <1>1 DEF PushRetry, Watched
  <1> QED
    BY <1>2, <1>3, <1>4, <1>5, <1>6, <1>7, <1>8 DEF IInv

(* The compare-and-exchange succeeds. *)
LEMMA PushEntryHolds ==
  ASSUME IInv, NEW p \in Producers, PushEntry(p)
  PROVE  IInv'
  <1>0. Typed /\ Holding /\ OneHolder /\ FlagIsHeld /\ Batches /\ Conserved /\ Watched
    BY DEF IInv
  <1>1. /\ producer' \in [Producers -> [at : ProducerAt, entry : Entries \cup {None},
                              seen : Entries \cup {None}, sync : BOOLEAN]]
        /\ \A x \in Producers : producer'[x].at = IF x = p THEN (IF producer[p].seen = None THEN "wake" ELSE (IF producer[p].sync THEN "wait" ELSE "idle")) ELSE producer[x].at
        /\ \A x \in Producers : producer'[x].entry = IF x = p THEN (IF producer[p].seen = None THEN producer[p].entry ELSE (IF producer[p].sync THEN producer[p].entry ELSE None)) ELSE producer[x].entry
    BY <1>0, SMTT(60) DEF PushEntry, Typed, ProducerAt, WorkerAt, Pushed, IdleProducer
  <1>2. Typed'
    <2>1. producer[p].entry \in Entries
      BY <1>0 DEF PushEntry, Holding
    <2>2. head' \in Seq(Entries) /\ pushed' \in Seq(Entries)
      BY <1>0, <2>1, ReverseOfPush, AppendProperties DEF PushEntry, Typed
    <2> QED
      BY <1>0, <1>1, <2>2 DEF PushEntry, Typed
  <1>3. Holding'
    BY <1>0, <1>1 DEF PushEntry, Holding
  <1>4. OneHolder'
    BY <1>0, <1>1 DEF PushEntry, OneHolder, FlagIsHeld, Held, Active, Typed
  <1>5. FlagIsHeld'
    BY <1>0, <1>1 DEF PushEntry, OneHolder, FlagIsHeld, Held, Active, Typed
  <1>6. Batches'
    BY <1>0, <1>1 DEF PushEntry, Batches
  <1>7. Conserved'
    <2>1. producer[p].entry \in Entries /\ head \in Seq(Entries) /\ begun \in Seq(Entries)
      BY <1>0 DEF PushEntry, Holding, Typed
    <2> DEFINE e == producer[p].entry
               r == ReverseList(head)
    <2>2. r \in Seq(Entries) /\ ReverseList(head') = Append(r, e)
      BY <2>1, ReverseProperties, ReverseOfPush DEF PushEntry
    <2>3. pushed' = Append(pushed, e) /\ begun' = begun /\ worker' = worker
      BY DEF PushEntry
    <2>4. \A w \in Workers : worker[w].batch \in Seq(Entries)
      BY <1>0 DEF Typed
    <2>5. \A w \in Workers : Append(begun \o (worker[w].batch \o r), e)
                            = begun \o (worker[w].batch \o Append(r, e))
      <3> TAKE w \in Workers
      <3>1. worker[w].batch \in Seq(Entries)
        BY <2>4
      <3> QED
        BY <2>1, <2>2, <3>1, PushOfConcat, ZenonT(60)
    <2>6. Append(begun \o r, e) = begun \o Append(r, e)
      BY <2>1, <2>2, AppendOfConcat
    <2> QED
      BY <1>0, <2>2, <2>3, <2>5, <2>6 DEF Conserved
  <1>8. Watched'
    <2>1. CASE producer[p].seen = None
      BY <1>1, <2>1 DEF Watched
    <2>2. CASE producer[p].seen /= None
      <3>1. head /= <<>> /\ producer[p].at = "push"
        BY <2>2 DEF PushEntry, First
      <3> QED
        BY <1>0, <1>1, <3>1 DEF PushEntry, Watched
    <2> QED
      BY <2>1, <2>2
  <1> QED
    BY <1>2, <1>3, <1>4, <1>5, <1>6, <1>7, <1>8 DEF IInv

(* A producer sets the flag, or finds it set. *)
LEMMA ProducerWakesHolds ==
  ASSUME IInv, NEW p \in Producers, ProducerWakes(p)
  PROVE  IInv'
  <1>0. Typed /\ Holding /\ OneHolder /\ FlagIsHeld /\ Batches /\ Conserved /\ Watched
    BY DEF IInv
  <1>1. /\ producer' \in [Producers -> [at : ProducerAt, entry : Entries \cup {None},
                              seen : Entries \cup {None}, sync : BOOLEAN]]
        /\ \A x \in Producers : producer'[x].at = IF x = p THEN (IF ~queued THEN "submit" ELSE (IF producer[p].sync THEN "wait" ELSE "idle")) ELSE producer[x].at
        /\ \A x \in Producers : producer'[x].entry = IF x = p THEN (IF ~queued THEN producer[p].entry ELSE (IF producer[p].sync THEN producer[p].entry ELSE None)) ELSE producer[x].entry
    <2>1. CASE queued
      BY <1>0, <2>1, ZenonT(60) DEF ProducerWakes, Typed, ProducerAt, Pushed, IdleProducer
    <2>2. CASE ~queued
      BY <1>0, <2>2 DEF ProducerWakes, Typed, ProducerAt
    <2> QED
      BY <2>1, <2>2
  <1>2. Typed'
    BY <1>0, <1>1 DEF ProducerWakes, Typed
  <1>3. Holding'
    BY <1>0, <1>1 DEF ProducerWakes, Holding
  <1>4. OneHolder'
    BY <1>0, <1>1 DEF ProducerWakes, OneHolder, FlagIsHeld, Held, Active, Typed
  <1>5. FlagIsHeld'
    BY <1>0, <1>1 DEF ProducerWakes, OneHolder, FlagIsHeld, Held, Active, Typed
  <1>6. Batches'
    BY <1>0, <1>1 DEF ProducerWakes, Batches
  <1>7. Conserved'
    BY <1>0, <1>1 DEF ProducerWakes, Conserved
  <1>8. Watched'
    BY <1>0, <1>1 DEF ProducerWakes, Watched
  <1> QED
    BY <1>2, <1>3, <1>4, <1>5, <1>6, <1>7, <1>8 DEF IInv

(* A producer hands the callback to the pool. *)
LEMMA ProducerSubmitsHolds ==
  ASSUME IInv, NEW p \in Producers, ProducerSubmits(p)
  PROVE  IInv'
  <1>0. Typed /\ Holding /\ OneHolder /\ FlagIsHeld /\ Batches /\ Conserved /\ Watched
    BY DEF IInv
  <1>1. /\ producer' \in [Producers -> [at : ProducerAt, entry : Entries \cup {None},
                              seen : Entries \cup {None}, sync : BOOLEAN]]
        /\ \A x \in Producers : producer'[x].at = IF x = p THEN (IF producer[p].sync THEN "wait" ELSE "idle") ELSE producer[x].at
        /\ \A x \in Producers : producer'[x].entry = IF x = p THEN (IF producer[p].sync THEN producer[p].entry ELSE None) ELSE producer[x].entry
    BY <1>0, ZenonT(60) DEF ProducerSubmits, Typed, ProducerAt, WorkerAt, Pushed, IdleProducer
  <1>2. Typed'
    BY <1>0, <1>1 DEF ProducerSubmits, Typed
  <1>3. Holding'
    BY <1>0, <1>1 DEF ProducerSubmits, Holding
  <1>4. OneHolder'
    BY <1>0, <1>1 DEF ProducerSubmits, OneHolder, FlagIsHeld, Held, Active, Typed
  <1>5. FlagIsHeld'
    BY <1>0, <1>1 DEF ProducerSubmits, OneHolder, FlagIsHeld, Held, Active, Typed
  <1>6. Batches'
    BY <1>0, <1>1 DEF ProducerSubmits, Batches
  <1>7. Conserved'
    BY <1>0, <1>1 DEF ProducerSubmits, Conserved
  <1>8. Watched'
    BY <1>0, <1>1 DEF ProducerSubmits, Watched
  <1> QED
    BY <1>2, <1>3, <1>4, <1>5, <1>6, <1>7, <1>8 DEF IInv

(* sync() returns. *)
LEMMA AcquireHolds ==
  ASSUME IInv, NEW p \in Producers, Acquire(p)
  PROVE  IInv'
  <1>0. Typed /\ Holding /\ OneHolder /\ FlagIsHeld /\ Batches /\ Conserved /\ Watched
    BY DEF IInv
  <1>1. /\ producer' \in [Producers -> [at : ProducerAt, entry : Entries \cup {None},
                              seen : Entries \cup {None}, sync : BOOLEAN]]
        /\ \A x \in Producers : producer'[x].at = IF x = p THEN "idle" ELSE producer[x].at
        /\ \A x \in Producers : producer'[x].entry = IF x = p THEN None ELSE producer[x].entry
    BY <1>0 DEF Acquire, Typed, ProducerAt, WorkerAt, IdleProducer
  <1>2. Typed'
    BY <1>0, <1>1 DEF Acquire, Typed
  <1>3. Holding'
    BY <1>0, <1>1 DEF Acquire, Holding
  <1>4. OneHolder'
    BY <1>0, <1>1 DEF Acquire, OneHolder, FlagIsHeld, Held, Active, Typed
  <1>5. FlagIsHeld'
    BY <1>0, <1>1 DEF Acquire, OneHolder, FlagIsHeld, Held, Active, Typed
  <1>6. Batches'
    BY <1>0, <1>1 DEF Acquire, Batches
  <1>7. Conserved'
    BY <1>0, <1>1 DEF Acquire, Conserved
  <1>8. Watched'
    BY <1>0, <1>1 DEF Acquire, Watched
  <1> QED
    BY <1>2, <1>3, <1>4, <1>5, <1>6, <1>7, <1>8 DEF IInv

(* The pool runs the callback. *)
LEMMA StartHolds ==
  ASSUME IInv, NEW w \in Workers, Start(w)
  PROVE  IInv'
  <1>0. Typed /\ Holding /\ OneHolder /\ FlagIsHeld /\ Batches /\ Conserved /\ Watched
    BY DEF IInv
  <1>1. /\ worker' \in [Workers -> [at : WorkerAt, batch : Seq(Entries),
                            entry : Entries \cup {None}]]
        /\ \A x \in Workers : worker'[x].at = IF x = w THEN "take" ELSE worker[x].at
        /\ \A x \in Workers : worker'[x].batch = IF x = w THEN worker[w].batch ELSE worker[x].batch
        /\ \A x \in Workers : worker'[x].entry = IF x = w THEN worker[w].entry ELSE worker[x].entry
    BY <1>0 DEF Start, Typed, ProducerAt, WorkerAt
  <1>2. Typed'
    BY <1>0, <1>1 DEF Start, Typed
  <1>3. Holding'
    BY <1>0, <1>1 DEF Start, Holding
  <1>4. OneHolder'
    BY <1>0, <1>1 DEF Start, OneHolder, FlagIsHeld, Held, Active, Typed
  <1>5. FlagIsHeld'
    BY <1>0, <1>1 DEF Start, OneHolder, FlagIsHeld, Held, Active, Typed
  <1>6. Batches'
    BY <1>0, <1>1 DEF Start, Batches
  <1>7. Conserved'
    BY <1>0, <1>1 DEF Start, Conserved
  <1>8. Watched'
    BY <1>0, <1>1 DEF Start, Watched
  <1> QED
    BY <1>2, <1>3, <1>4, <1>5, <1>6, <1>7, <1>8 DEF IInv

(* The list is taken. *)
LEMMA TakeHolds ==
  ASSUME IInv, NEW w \in Workers, Take(w)
  PROVE  IInv'
  <1>0. Typed /\ Holding /\ OneHolder /\ FlagIsHeld /\ Batches /\ Conserved /\ Watched
    BY DEF IInv
  <1>1. /\ worker' \in [Workers -> [at : WorkerAt, batch : Seq(Entries),
                            entry : Entries \cup {None}]]
        /\ \A x \in Workers : worker'[x].at = IF x = w THEN (IF head = <<>> THEN "clear" ELSE "next") ELSE worker[x].at
        /\ \A x \in Workers : worker'[x].batch = IF x = w THEN ReverseList(head) ELSE worker[x].batch
        /\ \A x \in Workers : worker'[x].entry = IF x = w THEN worker[w].entry ELSE worker[x].entry
    BY <1>0, ReverseProperties DEF Take, Typed, ProducerAt, WorkerAt
  <1>2. Typed'
    BY <1>0, <1>1 DEF Take, Typed
  <1>3. Holding'
    BY <1>0, <1>1 DEF Take, Holding
  <1>4. OneHolder'
    BY <1>0, <1>1 DEF Take, OneHolder, FlagIsHeld, Held, Active, Typed
  <1>5. FlagIsHeld'
    BY <1>0, <1>1 DEF Take, OneHolder, FlagIsHeld, Held, Active, Typed
  <1>6. Batches'
    <2>1. head = <<>> => ReverseList(head) = <<>>
      BY DEF ReverseList
    <2>2. head /= <<>> => ReverseList(head) /= <<>>
      <3>1. Len(ReverseList(head)) = Len(head)
        BY <1>0, ReverseProperties DEF Typed
      <3> QED
        BY <1>0, <3>1, EmptySeq DEF Typed
    <2> QED
      BY <1>0, <1>1, <2>1, <2>2 DEF Take, Batches
  <1>7. Conserved'
    <2>1. \A v \in Workers : worker[v].at \notin {"next", "run"}
      BY <1>0 DEF Take, OneHolder, Active
    <2>2. pushed = begun \o ReverseList(head)
      BY <1>0, <2>1 DEF Conserved
    <2>3. ReverseList(head') = <<>> /\ head' = <<>>
      BY DEF Take, ReverseList
    <2>4. begun \in Seq(Entries) /\ ReverseList(head) \in Seq(Entries)
      BY <1>0, ReverseProperties DEF Typed
    <2>5. ReverseList(head) \o <<>> = ReverseList(head)
      BY <2>4, ConcatEmptySeq
    <2>6. CASE head = <<>>
      BY <1>1, <2>1, <2>2, <2>3, <2>6 DEF Take, Conserved
    <2>7. CASE head /= <<>>
      BY <1>1, <2>1, <2>2, <2>3, <2>5, <2>7 DEF Take, Conserved
    <2> QED
      BY <2>6, <2>7
  <1>8. Watched'
    BY <1>0, <1>1 DEF Take, Watched
  <1> QED
    BY <1>2, <1>3, <1>4, <1>5, <1>6, <1>7, <1>8 DEF IInv

(* An entry begins. *)
LEMMA BeginEntryHolds ==
  ASSUME IInv, NEW w \in Workers, BeginEntry(w)
  PROVE  IInv'
  <1>0. Typed /\ Holding /\ OneHolder /\ FlagIsHeld /\ Batches /\ Conserved /\ Watched
    BY DEF IInv
  <1>1. /\ worker' \in [Workers -> [at : WorkerAt, batch : Seq(Entries),
                            entry : Entries \cup {None}]]
        /\ \A x \in Workers : worker'[x].at = IF x = w THEN "run" ELSE worker[x].at
        /\ \A x \in Workers : worker'[x].batch = IF x = w THEN Tail(worker[w].batch) ELSE worker[x].batch
        /\ \A x \in Workers : worker'[x].entry = IF x = w THEN Head(worker[w].batch) ELSE worker[x].entry
    <2>1. worker[w].batch /= <<>> /\ worker[w].batch \in Seq(Entries)
      BY <1>0 DEF BeginEntry, Batches, Typed
    <2>2. Head(worker[w].batch) \in Entries /\ Tail(worker[w].batch) \in Seq(Entries)
      BY <2>1, HeadTailProperties
    <2> QED
      BY <1>0, <2>2 DEF BeginEntry, Typed, WorkerAt
  <1>2. Typed'
    <2>1. worker[w].batch /= <<>> /\ worker[w].batch \in Seq(Entries)
      BY <1>0 DEF BeginEntry, Batches, Typed
    <2>2. begun' \in Seq(Entries)
      BY <1>0, <2>1, HeadTailProperties, AppendProperties DEF BeginEntry, Typed
    <2> QED
      BY <1>0, <1>1, <2>2 DEF BeginEntry, Typed
  <1>3. Holding'
    BY <1>0, <1>1 DEF BeginEntry, Holding
  <1>4. OneHolder'
    BY <1>0, <1>1 DEF BeginEntry, OneHolder, FlagIsHeld, Held, Active, Typed
  <1>5. FlagIsHeld'
    BY <1>0, <1>1 DEF BeginEntry, OneHolder, FlagIsHeld, Held, Active, Typed
  <1>6. Batches'
    <2>1. worker[w].batch /= <<>> /\ worker[w].batch \in Seq(Entries)
      BY <1>0 DEF BeginEntry, Batches, Typed
    <2>2. Head(worker[w].batch) \in Entries
      BY <2>1, HeadTailProperties
    <2> QED
      BY <1>0, <1>1, <2>2 DEF BeginEntry, Batches
  <1>7. Conserved'
    <2>1. worker[w].batch /= <<>> /\ worker[w].batch \in Seq(Entries) /\ begun \in Seq(Entries)
      BY <1>0 DEF BeginEntry, Batches, Typed
    <2>2. ReverseList(head) \in Seq(Entries) /\ head' = head /\ pushed' = pushed
      BY <1>0, ReverseProperties DEF BeginEntry, Typed
    <2>3. pushed = begun \o (worker[w].batch \o ReverseList(head))
      BY <1>0 DEF BeginEntry, Conserved
    <2>4. pushed = begun' \o (worker'[w].batch \o ReverseList(head))
      <3>1. begun \o (worker[w].batch \o ReverseList(head))
              = Append(begun, Head(worker[w].batch)) \o (Tail(worker[w].batch) \o ReverseList(head))
        BY <2>1, <2>2, BeginOfConcat
      <3> QED
        BY <1>1, <2>3, <3>1 DEF BeginEntry
    <2>5. \A v \in Workers : worker'[v].at \in {"next", "run"} => v = w
      BY <1>0, <1>1 DEF BeginEntry, OneHolder, Active
    <2> QED
      BY <1>1, <2>2, <2>4, <2>5 DEF Conserved
  <1>8. Watched'
    BY <1>0, <1>1 DEF BeginEntry, Watched
  <1> QED
    BY <1>2, <1>3, <1>4, <1>5, <1>6, <1>7, <1>8 DEF IInv

(* An entry ends. *)
LEMMA EndEntryHolds ==
  ASSUME IInv, NEW w \in Workers, EndEntry(w)
  PROVE  IInv'
  <1>0. Typed /\ Holding /\ OneHolder /\ FlagIsHeld /\ Batches /\ Conserved /\ Watched
    BY DEF IInv
  <1>1. /\ worker' \in [Workers -> [at : WorkerAt, batch : Seq(Entries),
                            entry : Entries \cup {None}]]
        /\ \A x \in Workers : worker'[x].at = IF x = w THEN (IF worker[w].batch = <<>> THEN "clear" ELSE "next") ELSE worker[x].at
        /\ \A x \in Workers : worker'[x].batch = IF x = w THEN worker[w].batch ELSE worker[x].batch
        /\ \A x \in Workers : worker'[x].entry = IF x = w THEN None ELSE worker[x].entry
    <2>1. CASE worker[w].batch = <<>>
      BY <1>0, <2>1, ZenonT(60) DEF EndEntry, Typed, WorkerAt
    <2>2. CASE worker[w].batch /= <<>>
      BY <1>0, <2>2 DEF EndEntry, Typed, WorkerAt
    <2> QED
      BY <2>1, <2>2
  <1>2. Typed'
    BY <1>0, <1>1 DEF EndEntry, Typed
  <1>3. Holding'
    BY <1>0, <1>1 DEF EndEntry, Holding
  <1>4. OneHolder'
    BY <1>0, <1>1 DEF EndEntry, OneHolder, FlagIsHeld, Held, Active, Typed
  <1>5. FlagIsHeld'
    BY <1>0, <1>1 DEF EndEntry, OneHolder, FlagIsHeld, Held, Active, Typed
  <1>6. Batches'
    BY <1>0, <1>1 DEF EndEntry, Batches
  <1>7. Conserved'
    <2>1. pushed = begun \o (worker[w].batch \o ReverseList(head))
      BY <1>0 DEF EndEntry, Conserved
    <2>2. \A v \in Workers : worker[v].at \in {"next", "run"} => v = w
      BY <1>0 DEF EndEntry, OneHolder, Active
    <2>3. ReverseList(head) \in Seq(Entries) /\ head' = head
      BY <1>0, ReverseProperties DEF EndEntry, Typed
    <2>4. <<>> \o ReverseList(head) = ReverseList(head)
      BY <2>3, ConcatEmptySeq
    <2> QED
      BY <1>1, <2>1, <2>2, <2>3, <2>4 DEF EndEntry, Conserved
  <1>8. Watched'
    BY <1>0, <1>1 DEF EndEntry, Watched
  <1> QED
    BY <1>2, <1>3, <1>4, <1>5, <1>6, <1>7, <1>8 DEF IInv

(* The flag is cleared. *)
LEMMA ClearHolds ==
  ASSUME IInv, NEW w \in Workers, Clear(w)
  PROVE  IInv'
  <1>0. Typed /\ Holding /\ OneHolder /\ FlagIsHeld /\ Batches /\ Conserved /\ Watched
    BY DEF IInv
  <1>1. /\ worker' \in [Workers -> [at : WorkerAt, batch : Seq(Entries),
                            entry : Entries \cup {None}]]
        /\ \A x \in Workers : worker'[x].at = IF x = w THEN "check" ELSE worker[x].at
        /\ \A x \in Workers : worker'[x].batch = IF x = w THEN worker[w].batch ELSE worker[x].batch
        /\ \A x \in Workers : worker'[x].entry = IF x = w THEN worker[w].entry ELSE worker[x].entry
    BY <1>0 DEF Clear, Typed, ProducerAt, WorkerAt
  <1>2. Typed'
    BY <1>0, <1>1 DEF Clear, Typed
  <1>3. Holding'
    BY <1>0, <1>1 DEF Clear, Holding
  <1>4. OneHolder'
    BY <1>0, <1>1 DEF Clear, OneHolder, FlagIsHeld, Held, Active, Typed
  <1>5. FlagIsHeld'
    BY <1>0, <1>1 DEF Clear, OneHolder, FlagIsHeld, Held, Active, Typed
  <1>6. Batches'
    BY <1>0, <1>1 DEF Clear, Batches
  <1>7. Conserved'
    BY <1>0, <1>1 DEF Clear, Conserved
  <1>8. Watched'
    BY <1>0, <1>1 DEF Clear, Watched
  <1> QED
    BY <1>2, <1>3, <1>4, <1>5, <1>6, <1>7, <1>8 DEF IInv

(* The list is looked at again. *)
LEMMA CheckHolds ==
  ASSUME IInv, NEW w \in Workers, Check(w)
  PROVE  IInv'
  <1>0. Typed /\ Holding /\ OneHolder /\ FlagIsHeld /\ Batches /\ Conserved /\ Watched
    BY DEF IInv
  <1>1. /\ worker' \in [Workers -> [at : WorkerAt, batch : Seq(Entries),
                            entry : Entries \cup {None}]]
        /\ \A x \in Workers : worker'[x].at = IF x = w THEN (IF head = <<>> THEN "idle" ELSE "wake") ELSE worker[x].at
        /\ \A x \in Workers : worker'[x].batch = IF x = w THEN worker[w].batch ELSE worker[x].batch
        /\ \A x \in Workers : worker'[x].entry = IF x = w THEN worker[w].entry ELSE worker[x].entry
    BY <1>0, ZenonT(60) DEF Check, Typed, ProducerAt, WorkerAt
  <1>2. Typed'
    BY <1>0, <1>1 DEF Check, Typed
  <1>3. Holding'
    BY <1>0, <1>1 DEF Check, Holding
  <1>4. OneHolder'
    BY <1>0, <1>1 DEF Check, OneHolder, FlagIsHeld, Held, Active, Typed
  <1>5. FlagIsHeld'
    BY <1>0, <1>1 DEF Check, OneHolder, FlagIsHeld, Held, Active, Typed
  <1>6. Batches'
    BY <1>0, <1>1 DEF Check, Batches
  <1>7. Conserved'
    BY <1>0, <1>1 DEF Check, Conserved
  <1>8. Watched'
    BY <1>0, <1>1 DEF Check, Watched
  <1> QED
    BY <1>2, <1>3, <1>4, <1>5, <1>6, <1>7, <1>8 DEF IInv

(* A worker sets the flag, or finds it set. *)
LEMMA WorkerWakesHolds ==
  ASSUME IInv, NEW w \in Workers, WorkerWakes(w)
  PROVE  IInv'
  <1>0. Typed /\ Holding /\ OneHolder /\ FlagIsHeld /\ Batches /\ Conserved /\ Watched
    BY DEF IInv
  <1>1. /\ worker' \in [Workers -> [at : WorkerAt, batch : Seq(Entries),
                            entry : Entries \cup {None}]]
        /\ \A x \in Workers : worker'[x].at = IF x = w THEN (IF queued THEN "idle" ELSE "submit") ELSE worker[x].at
        /\ \A x \in Workers : worker'[x].batch = IF x = w THEN worker[w].batch ELSE worker[x].batch
        /\ \A x \in Workers : worker'[x].entry = IF x = w THEN worker[w].entry ELSE worker[x].entry
    BY <1>0, ZenonT(60) DEF WorkerWakes, Typed, ProducerAt, WorkerAt
  <1>2. Typed'
    BY <1>0, <1>1 DEF WorkerWakes, Typed
  <1>3. Holding'
    BY <1>0, <1>1 DEF WorkerWakes, Holding
  <1>4. OneHolder'
    BY <1>0, <1>1 DEF WorkerWakes, OneHolder, FlagIsHeld, Held, Active, Typed
  <1>5. FlagIsHeld'
    BY <1>0, <1>1 DEF WorkerWakes, OneHolder, FlagIsHeld, Held, Active, Typed
  <1>6. Batches'
    BY <1>0, <1>1 DEF WorkerWakes, Batches
  <1>7. Conserved'
    BY <1>0, <1>1 DEF WorkerWakes, Conserved
  <1>8. Watched'
    BY <1>0, <1>1 DEF WorkerWakes, Watched
  <1> QED
    BY <1>2, <1>3, <1>4, <1>5, <1>6, <1>7, <1>8 DEF IInv

(* A worker hands the callback to the pool. *)
LEMMA WorkerSubmitsHolds ==
  ASSUME IInv, NEW w \in Workers, WorkerSubmits(w)
  PROVE  IInv'
  <1>0. Typed /\ Holding /\ OneHolder /\ FlagIsHeld /\ Batches /\ Conserved /\ Watched
    BY DEF IInv
  <1>1. /\ worker' \in [Workers -> [at : WorkerAt, batch : Seq(Entries),
                            entry : Entries \cup {None}]]
        /\ \A x \in Workers : worker'[x].at = IF x = w THEN "idle" ELSE worker[x].at
        /\ \A x \in Workers : worker'[x].batch = IF x = w THEN worker[w].batch ELSE worker[x].batch
        /\ \A x \in Workers : worker'[x].entry = IF x = w THEN worker[w].entry ELSE worker[x].entry
    BY <1>0 DEF WorkerSubmits, Typed, ProducerAt, WorkerAt
  <1>2. Typed'
    BY <1>0, <1>1 DEF WorkerSubmits, Typed
  <1>3. Holding'
    BY <1>0, <1>1 DEF WorkerSubmits, Holding
  <1>4. OneHolder'
    BY <1>0, <1>1 DEF WorkerSubmits, OneHolder, FlagIsHeld, Held, Active, Typed
  <1>5. FlagIsHeld'
    BY <1>0, <1>1 DEF WorkerSubmits, OneHolder, FlagIsHeld, Held, Active, Typed
  <1>6. Batches'
    BY <1>0, <1>1 DEF WorkerSubmits, Batches
  <1>7. Conserved'
    BY <1>0, <1>1 DEF WorkerSubmits, Conserved
  <1>8. Watched'
    BY <1>0, <1>1 DEF WorkerSubmits, Watched
  <1> QED
    BY <1>2, <1>3, <1>4, <1>5, <1>6, <1>7, <1>8 DEF IInv

LEMMA StutterHolds ==
  ASSUME IInv, UNCHANGED vars
  PROVE  IInv'
  BY DEF IInv, vars, Typed, Holding, OneHolder, FlagIsHeld, Held, Batches, Conserved, Watched

LEMMA NextHolds == IInv /\ [Next]_vars => IInv'
  <1> SUFFICES ASSUME IInv, [Next]_vars PROVE IInv'
    OBVIOUS
  <1>1. ASSUME NEW p \in Producers, NEW e \in Entries, NEW sync \in BOOLEAN, Async(p, e, sync)
        PROVE  IInv'
    BY <1>1, AsyncHolds
  <1>2. ASSUME NEW p \in Producers, ProducerStep(p) PROVE IInv'
    BY <1>2, PushRetryHolds, PushEntryHolds, ProducerWakesHolds, ProducerSubmitsHolds,
       AcquireHolds DEF ProducerStep
  <1>3. ASSUME NEW w \in Workers, Start(w) PROVE IInv'
    BY <1>3, StartHolds
  <1>4. ASSUME NEW w \in Workers, WorkerStep(w) PROVE IInv'
    BY <1>4, TakeHolds, BeginEntryHolds, EndEntryHolds, ClearHolds, CheckHolds,
       WorkerWakesHolds, WorkerSubmitsHolds DEF WorkerStep
  <1>5. ASSUME UNCHANGED vars PROVE IInv'
    BY <1>5, StutterHolds
  <1> QED
    BY <1>1, <1>2, <1>3, <1>4, <1>5 DEF Next

(* The inductive invariant holds in every state of every run.              *)
THEOREM InvariantHolds == Spec => []IInv
  BY InitHolds, NextHolds, PTL DEF Spec

-----------------------------------------------------------------------------
(* What the queue guarantees.                                              *)

(* Every variable keeps its type, and never more than one callback of a    *)
(* queue waits in the thread pool.                                         *)
THEOREM TypeCorrect == Spec => []TypeOK
  <1>1. IInv => TypeOK
    BY DEF IInv, Typed, OneHolder, TypeOK
  <1> QED
    BY <1>1, InvariantHolds, PTL

(* list::process() is never entered by two threads.                        *)
THEOREM ProcessIsSerial == Spec => []OneAtATime
  <1>1. IInv => OneAtATime
    BY DEF IInv, OneHolder, Active, OneAtATime
  <1> QED
    BY <1>1, InvariantHolds, PTL

(* Entries run in the order of the pushes.                                 *)
THEOREM RunsInOrder == Spec => []InOrder
  <1>1. IInv => InOrder
    <2> SUFFICES ASSUME IInv PROVE InOrder
      OBVIOUS
    <2>1. begun \in Seq(Entries) /\ ReverseList(head) \in Seq(Entries)
      BY ReverseProperties DEF IInv, Typed
    <2>2. \E r \in Seq(Entries) : pushed = begun \o r
      <3>1. CASE \E w \in Workers : worker[w].at \in {"next", "run"}
        <4> PICK w \in Workers : worker[w].at \in {"next", "run"}
          BY <3>1
        <4>1. worker[w].batch \o ReverseList(head) \in Seq(Entries)
          BY <2>1, ConcatProperties DEF IInv, Typed
        <4> QED
          BY <4>1 DEF IInv, Conserved
      <3>2. CASE ~ \E w \in Workers : worker[w].at \in {"next", "run"}
        BY <2>1, <3>2 DEF IInv, Conserved
      <3> QED
        BY <3>1, <3>2
    <2> PICK r \in Seq(Entries) : pushed = begun \o r
      BY <2>2
    <2>3. Len(begun) \in Nat /\ Len(r) \in Nat
      BY <2>1, LenProperties
    <2> QED
      BY <2>1, <2>3, ConcatProperties DEF InOrder
  <1> QED
    BY <1>1, InvariantHolds, PTL

(* No wake-up is lost.                                                     *)
THEOREM WakesUp == Spec => []NoLostWakeUp
  <1>1. IInv => NoLostWakeUp
    BY DEF IInv, Watched, FlagIsHeld, Held, Active, NoLostWakeUp
  <1> QED
    BY <1>1, InvariantHolds, PTL

-----------------------------------------------------------------------------
(* The queue implements SerialQueue.                                       *)

LEMMA OneInProcess ==
  ASSUME NEW workers, NEW w \in Workers, workers[w].at \in {"next", "run"},
         \A v \in Workers : workers[v].at \in {"next", "run"} => v = w
  PROVE  BatchOf(workers) = workers[w].batch /\ RunningOf(workers) = workers[w].entry
  <1>1. InProcess(workers) = {w}
    BY DEF InProcess
  <1>2. (CHOOSE v \in {w} : TRUE) = w
    OBVIOUS
  <1> QED
    BY <1>1, <1>2 DEF BatchOf, RunningOf

LEMMA NoneInProcess ==
  ASSUME NEW workers, \A v \in Workers : workers[v].at \notin {"next", "run"}
  PROVE  BatchOf(workers) = <<>> /\ RunningOf(workers) = None
  BY DEF BatchOf, RunningOf, InProcess

(* A step in which nobody enters or leaves list::process() is not seen.    *)
LEMMA NotSeen ==
  ASSUME IInv,
         \A v \in Workers :
           /\ worker'[v].at \in {"next", "run"} <=> worker[v].at \in {"next", "run"}
           /\ worker'[v].batch = worker[v].batch /\ worker'[v].entry = worker[v].entry
  PROVE  BatchOf(worker') = BatchOf(worker) /\ RunningOf(worker') = RunningOf(worker)
  <1>1. CASE \E w \in Workers : worker[w].at \in {"next", "run"}
    <2> PICK w \in Workers : worker[w].at \in {"next", "run"}
      BY <1>1
    <2>1. \A v \in Workers : worker[v].at \in {"next", "run"} => v = w
      BY DEF IInv, OneHolder, Active
    <2>2. BatchOf(worker) = worker[w].batch /\ RunningOf(worker) = worker[w].entry
      BY <2>1, OneInProcess
    <2>3. BatchOf(worker') = worker'[w].batch /\ RunningOf(worker') = worker'[w].entry
      BY <2>1, OneInProcess
    <2> QED
      BY <2>2, <2>3
  <1>2. CASE ~ \E w \in Workers : worker[w].at \in {"next", "run"}
    BY <1>2, NoneInProcess
  <1> QED
    BY <1>1, <1>2

LEMMA BatchIsSeq ==
  ASSUME IInv
  PROVE  BatchOf(worker) \in Seq(Entries)
  <1>1. CASE \E w \in Workers : worker[w].at \in {"next", "run"}
    <2> PICK w \in Workers : worker[w].at \in {"next", "run"}
      BY <1>1
    <2>1. \A v \in Workers : worker[v].at \in {"next", "run"} => v = w
      BY DEF IInv, OneHolder, Active
    <2>2. BatchOf(worker) = worker[w].batch
      BY <2>1, OneInProcess
    <2> QED
      BY <2>2 DEF IInv, Typed
  <1>2. CASE ~ \E w \in Workers : worker[w].at \in {"next", "run"}
    <2>1. BatchOf(worker) = <<>>
      BY <1>2, NoneInProcess
    <2> QED
      BY <2>1
  <1> QED
    BY <1>1, <1>2

(* Every step is a step of SerialQueue or is not seen there.               *)
Waiting == BatchOf(worker) \o ReverseList(head)
Unseen == Waiting' = Waiting /\ RunningOf(worker)' = RunningOf(worker)

LEMMA ProducerRefines ==
  ASSUME IInv, NEW p \in Producers,
         ProducerStep(p) \/ \E e \in Entries, sync \in BOOLEAN : Async(p, e, sync)
  PROVE  (\E e \in Entries : Abstract!Async(e)) \/ Unseen
  <1>1. CASE PushEntry(p)
    <2>1. producer[p].entry \in Entries /\ head \in Seq(Entries)
      BY <1>1 DEF IInv, Holding, Typed, PushEntry
    <2>2. ReverseList(head') = Append(ReverseList(head), producer[p].entry)
      BY <1>1, <2>1, ReverseOfPush DEF PushEntry
    <2>3. ReverseList(head) \in Seq(Entries) /\ BatchOf(worker) \in Seq(Entries)
      BY <2>1, ReverseProperties, BatchIsSeq
    <2>4. BatchOf(worker) \o Append(ReverseList(head), producer[p].entry)
            = Append(BatchOf(worker) \o ReverseList(head), producer[p].entry)
      BY <2>1, <2>3, AppendOfConcat
    <2>5. worker' = worker
      BY <1>1 DEF PushEntry
    <2> QED
      BY <2>1, <2>2, <2>4, <2>5 DEF Abstract!Async
  <1>2. CASE \/ PushRetry(p) \/ ProducerWakes(p) \/ ProducerSubmits(p) \/ Acquire(p)
             \/ \E e \in Entries, sync \in BOOLEAN : Async(p, e, sync)
    <2>1. worker' = worker /\ head' = head
      BY <1>2 DEF PushRetry, ProducerWakes, ProducerSubmits, Acquire, Async
    <2> QED
      BY <2>1 DEF Unseen, Waiting
  <1> QED
    BY <1>1, <1>2 DEF ProducerStep

LEMMA TakeRefines ==
  ASSUME IInv, NEW w \in Workers, Take(w)
  PROVE  Unseen
  <1>1. \A v \in Workers : worker[v].at \notin {"next", "run"}
    BY DEF IInv, OneHolder, Active, Take
  <1>2. BatchOf(worker) = <<>> /\ RunningOf(worker) = None
    BY <1>1, NoneInProcess
  <1>3. ReverseList(head) \in Seq(Entries) /\ ReverseList(<<>>) = <<>> /\ head' = <<>>
    BY ReverseProperties DEF IInv, Typed, Take, ReverseList
  <1>4. /\ worker'[w].batch = ReverseList(head) /\ worker'[w].entry = None
        /\ worker'[w].at = (IF head = <<>> THEN "clear" ELSE "next")
        /\ \A v \in Workers \ {w} : worker'[v] = worker[v]
    BY DEF IInv, Typed, Batches, Take
  <1>5. CASE head = <<>>
    <2>1. \A v \in Workers : worker'[v].at \notin {"next", "run"}
      BY <1>1, <1>4, <1>5
    <2>2. BatchOf(worker') = <<>> /\ RunningOf(worker') = None
      BY <2>1, NoneInProcess
    <2> QED
      BY <1>2, <1>3, <1>5, <2>2 DEF Unseen, Waiting
  <1>6. CASE head /= <<>>
    <2>1. worker'[w].at \in {"next", "run"}
          /\ \A v \in Workers : worker'[v].at \in {"next", "run"} => v = w
      BY <1>1, <1>4, <1>6
    <2>2. BatchOf(worker') = ReverseList(head) /\ RunningOf(worker') = None
      BY <1>4, <2>1, OneInProcess
    <2>3. ReverseList(head) \o <<>> = ReverseList(head) /\ <<>> \o ReverseList(head) = ReverseList(head)
      BY <1>3, ConcatEmptySeq
    <2> QED
      BY <1>2, <1>3, <2>2, <2>3 DEF Unseen, Waiting
  <1> QED
    BY <1>5, <1>6

LEMMA BeginRefines ==
  ASSUME IInv, NEW w \in Workers, BeginEntry(w)
  PROVE  Abstract!Begin
  <1>1. /\ worker[w].batch \in Seq(Entries) /\ worker[w].batch /= <<>>
        /\ worker[w].entry = None /\ worker[w].at = "next" /\ head' = head
    BY DEF IInv, Typed, Batches, BeginEntry
  <1>2. \A v \in Workers : worker[v].at \in {"next", "run"} => v = w
    BY <1>1 DEF IInv, OneHolder, Active
  <1>3. BatchOf(worker) = worker[w].batch /\ RunningOf(worker) = None
    BY <1>1, <1>2, OneInProcess
  <1>4. /\ worker'[w].batch = Tail(worker[w].batch)
        /\ worker'[w].entry = Head(worker[w].batch) /\ worker'[w].at = "run"
        /\ \A v \in Workers \ {w} : worker'[v] = worker[v]
    BY DEF IInv, Typed, BeginEntry
  <1>5. worker'[w].at \in {"next", "run"}
        /\ \A v \in Workers : worker'[v].at \in {"next", "run"} => v = w
    BY <1>2, <1>4
  <1>6. /\ BatchOf(worker') = Tail(worker[w].batch)
        /\ RunningOf(worker') = Head(worker[w].batch)
    BY <1>4, <1>5, OneInProcess
  <1>7. ReverseList(head) \in Seq(Entries)
    BY ReverseProperties DEF IInv, Typed
  <1>8. LET b == worker[w].batch
            r == ReverseList(head)
        IN  b \o r /= <<>> /\ Head(b \o r) = Head(b) /\ Tail(b \o r) = Tail(b) \o r
    BY <1>1, <1>7, HeadOfConcat
  <1> QED
    BY <1>1, <1>3, <1>6, <1>8 DEF Abstract!Begin

LEMMA EndRefines ==
  ASSUME IInv, NEW w \in Workers, EndEntry(w)
  PROVE  Abstract!End
  <1>1. /\ worker[w].batch \in Seq(Entries) /\ worker[w].entry \in Entries
        /\ worker[w].at = "run" /\ head' = head
    BY DEF IInv, Typed, Batches, EndEntry
  <1>2. \A v \in Workers : worker[v].at \in {"next", "run"} => v = w
    BY <1>1 DEF IInv, OneHolder, Active
  <1>3. BatchOf(worker) = worker[w].batch /\ RunningOf(worker) = worker[w].entry
    BY <1>1, <1>2, OneInProcess
  <1>4. /\ worker'[w].batch = worker[w].batch /\ worker'[w].entry = None
        /\ worker'[w].at = (IF worker[w].batch = <<>> THEN "clear" ELSE "next")
        /\ \A v \in Workers \ {w} : worker'[v] = worker[v]
    BY DEF IInv, Typed, EndEntry
  <1>5. RunningOf(worker') = None /\ BatchOf(worker') = worker[w].batch
    <2>1. CASE worker[w].batch = <<>>
      <3>1. \A v \in Workers : worker'[v].at \notin {"next", "run"}
        BY <1>2, <1>4, <2>1
      <3> QED
        BY <3>1, <2>1, NoneInProcess
    <2>2. CASE worker[w].batch /= <<>>
      <3>1. worker'[w].at \in {"next", "run"}
            /\ \A v \in Workers : worker'[v].at \in {"next", "run"} => v = w
        BY <1>2, <1>4, <2>2
      <3> QED
        BY <3>1, <1>4, OneInProcess
    <2> QED
      BY <2>1, <2>2
  <1>6. None \notin Entries
    BY CrlAssumption
  <1> QED
    BY <1>1, <1>3, <1>5, <1>6 DEF Abstract!End

LEMMA OtherRefines ==
  ASSUME IInv, NEW w \in Workers,
         Start(w) \/ Clear(w) \/ Check(w) \/ WorkerWakes(w) \/ WorkerSubmits(w)
  PROVE  Unseen
  <1>1. \A v \in Workers :
          /\ worker'[v].at \in {"next", "run"} <=> worker[v].at \in {"next", "run"}
          /\ worker'[v].batch = worker[v].batch /\ worker'[v].entry = worker[v].entry
    <2>1. /\ \A v \in Workers \ {w} : worker'[v] = worker[v]
          /\ worker'[w].batch = worker[w].batch /\ worker'[w].entry = worker[w].entry
      BY DEF IInv, Typed, Start, Clear, Check, WorkerWakes, WorkerSubmits
    <2>2. /\ worker[w].at \notin {"next", "run"} /\ worker'[w].at \notin {"next", "run"}
      BY DEF IInv, Typed, Start, Clear, Check, WorkerWakes, WorkerSubmits
    <2> QED
      BY <2>1, <2>2
  <1>2. head' = head
    BY DEF Start, Clear, Check, WorkerWakes, WorkerSubmits
  <1> QED
    BY <1>1, <1>2, NotSeen DEF Unseen, Waiting

(* crl::queue runs what it is given one at a time and in order, however    *)
(* its threads interleave: it implements SerialQueue.                      *)
THEOREM QueueIsSerial == Spec => Serial
  <1>1. Init => Abstract!Init
    <2> SUFFICES ASSUME Init PROVE Abstract!Init
      OBVIOUS
    <2>1. \A v \in Workers : worker[v].at \notin {"next", "run"}
      BY DEF Init, IdleWorker
    <2>2. BatchOf(worker) = <<>> /\ RunningOf(worker) = None
      BY <2>1, NoneInProcess
    <2>3. ReverseList(head) = <<>>
      BY DEF Init, ReverseList
    <2> QED
      BY <2>2, <2>3 DEF Abstract!Init
  <1>2. IInv /\ [Next]_vars =>
          [Abstract!Next]_<<BatchOf(worker) \o ReverseList(head), RunningOf(worker)>>
    <2> SUFFICES ASSUME IInv, [Next]_vars PROVE Abstract!Next \/ Unseen
      BY DEF Unseen, Waiting
    <2>1. ASSUME NEW p \in Producers,
                 ProducerStep(p) \/ \E e \in Entries, sync \in BOOLEAN : Async(p, e, sync)
          PROVE  Abstract!Next \/ Unseen
      BY <2>1, ProducerRefines DEF Abstract!Next
    <2>2. ASSUME NEW w \in Workers, Start(w) \/ WorkerStep(w)
          PROVE  Abstract!Next \/ Unseen
      BY <2>2, TakeRefines, BeginRefines, EndRefines, OtherRefines
      DEF Abstract!Next, WorkerStep
    <2>3. ASSUME UNCHANGED vars PROVE Unseen
      BY <2>3 DEF vars, Unseen, Waiting
    <2> QED
      BY <2>1, <2>2, <2>3 DEF Next
  <1> QED
    BY <1>1, <1>2, InvariantHolds, PTL DEF Spec, Serial, Abstract!Spec
=============================================================================
