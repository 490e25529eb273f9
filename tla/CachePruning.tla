---------------------------- MODULE CachePruning ----------------------------
(***************************************************************************)
(* How the cache database keeps to its limits (lib_storage/storage/cache). *)
(* Every entry has a size and the time when it was used last; a timer      *)
(* prunes what is older than the time limit, then the oldest entries until *)
(* the size limit is met.  Many entries are cleared in chunks, between     *)
(* which the database goes on working.  The oldest time is kept by         *)
(* counting, so that the timer need not look at every entry.               *)
(*                                                                         *)
(* Files and the log are in CacheDatabase.  The estimated clock is one     *)
(* clock `now' that goes forward; when the prune timer fires is left open, *)
(* so that only its being armed matters.                                   *)
(***************************************************************************)
EXTENDS Integers, Sequences, FiniteSets, FiniteSetsExt

SeqExt == INSTANCE SequencesExt

CONSTANTS
  Keys, Sizes,
  TotalSizeLimit, TotalTimeLimit,
  StaleRemoveChunk,    \* how many entries are cleared in one go
  MaxBundledRecords,   \* accesses that are written together
  WriteBundleDelay,    \* changes of the time below this are not recorded
  MaxTime,             \* bound: the clock stops here
  MaxPutTime           \* bound: entries are put and moved until then

ASSUME PruningAssumption ==
  /\ Sizes \subseteq Nat \ {0} /\ IsFiniteSet(Keys)
  /\ {TotalSizeLimit, TotalTimeLimit, StaleRemoveChunk, MaxBundledRecords, MaxTime}
       \subseteq Nat \ {0}
  /\ {WriteBundleDelay, MaxPutTime} \subseteq Nat

VARIABLES
  map,         \* _map: the size and the use time of each key
  total,       \* _totalSize
  minimal,     \* _minimalEntryTime and _entriesWithMinimalTimeCount
  time, now,   \* _time, and the clock
  accessed,    \* _accessed
  timer,       \* whether _pruneTimer is armed
  stale,       \* _stale, as a set
  clearing,    \* _clearingStale: clearStaleChunk() is queued
  fresh        \* history: keys put or moved to since _stale was filled

vars == <<map, total, minimal, time, now, accessed, timer, stale, clearing, fresh>>

Absent == [size |-> 0, useTime |-> 0]
Present(m) == {k \in Keys : m[k] /= Absent}

Init ==
  /\ map = [k \in Keys |-> Absent] /\ total = 0
  /\ minimal = [time |-> 0, count |-> 0]
  /\ time = 1 /\ now = 1
  /\ accessed = {} /\ timer = FALSE
  /\ stale = {} /\ clearing = FALSE /\ fresh = {}

(* The entries, and what is counted of them.                               *)
Entries == [map |-> map, total |-> total, minimal |-> minimal]

Become(d) == map' = d.map /\ total' = d.total /\ minimal' = d.minimal

Forget(min) == IF min.count = 1 THEN [time |-> 0, count |-> 0] ELSE [min EXCEPT !.count = @ - 1]

setMapEntry(d, k, e) ==
  LET was == d.map[k]
      min == d.minimal
  IN  [map |-> [d.map EXCEPT ![k] = e],
       total |-> d.total + e.size - was.size,
       minimal |->
         IF e.useTime < min.time \/ min.time = 0 THEN [time |-> e.useTime, count |-> 1]
         ELSE IF was.useTime = e.useTime THEN min
         ELSE IF e.useTime = min.time THEN [min EXCEPT !.count = @ + 1]
         ELSE IF was.useTime = min.time THEN Forget(min) ELSE min]

(* Mutant: the oldest time is kept when its last entry goes.               *)
eraseMapEntryKeepsTime(d, k) ==
  [map |-> [d.map EXCEPT ![k] = Absent],
   total |-> d.total - d.map[k].size,
   minimal |-> IF d.minimal.time /= 0 /\ d.map[k].useTime = d.minimal.time
                 THEN [d.minimal EXCEPT !.count = @ - 1] ELSE d.minimal]

eraseMapEntry(d, k) ==
  [map |-> [d.map EXCEPT ![k] = Absent],
   total |-> d.total - d.map[k].size,
   minimal |-> IF d.minimal.time /= 0 /\ d.map[k].useTime = d.minimal.time
                 THEN Forget(d.minimal) ELSE d.minimal]

(* remove() of several keys that are in the map, one after another.        *)
removeAll(d, keys) ==
  FoldSet(LAMBDA k, left : eraseMapEntry(left, k), d, keys \cap Present(d.map))

(* startDelayedPruning(): with an entry in the map the timer is armed, for *)
(* soon when a limit is passed or the oldest time is not known, and for    *)
(* the moment when the oldest entry expires otherwise.                     *)
optimize(d) == timer' = (timer \/ Present(d.map) /= {})

pruneBeforeTime == IF now > TotalTimeLimit THEN now - TotalTimeLimit ELSE 0

-----------------------------------------------------------------------------
(* Mutant: a key that waits to be cleared is still cleared after a put().  *)
PutStaysStale(k, s) ==
  LET t == IF now - time < WriteBundleDelay THEN time ELSE now
      d == setMapEntry(Entries, k, [size |-> s, useTime |-> t])
  IN  /\ now <= MaxPutTime
      /\ Become(d)
      /\ time' = t
      /\ fresh' = fresh \cup {k}
      /\ optimize(d)
      /\ UNCHANGED <<now, accessed, stale, clearing>>

(* put(): the time of the record is the old one if it changed little.      *)
Put(k, s) ==
  LET t == IF now - time < WriteBundleDelay THEN time ELSE now
      d == setMapEntry(Entries, k, [size |-> s, useTime |-> t])
  IN  /\ now <= MaxPutTime
      /\ Become(d)
      /\ time' = t
      /\ stale' = stale \ {k}
      /\ fresh' = fresh \cup {k}
      /\ optimize(d)
      /\ UNCHANGED <<now, accessed, clearing>>

(* writeMultiAccessBlock(): the entries get the time, but the oldest time  *)
(* and its count stay as they are.                                         *)
WriteAccessed(keys) ==
  /\ accessed' = {}
  /\ time' = now
  /\ map' = [k \in Keys |-> IF k \in keys /\ map[k] /= Absent
                              THEN [map[k] EXCEPT !.useTime = now] ELSE map[k]]

recordEntryAccess(k) ==
  /\ LET keys == accessed \cup {k}
     IN  IF Cardinality(keys) = MaxBundledRecords
           THEN WriteAccessed(keys)
           ELSE accessed' = keys /\ UNCHANGED <<map, time>>
  /\ optimize(Entries)

(* get() of a value that is there.                                         *)
Get(k) ==
  /\ map[k] /= Absent
  /\ recordEntryAccess(k)
  /\ UNCHANGED <<total, minimal, now, stale, clearing, fresh>>

(* put() of the value that is there already.                               *)
PutSame(k) ==
  /\ map[k] /= Absent
  /\ recordEntryAccess(k)
  /\ stale' = stale \ {k}
  /\ fresh' = fresh \cup {k}
  /\ UNCHANGED <<total, minimal, now, clearing>>

(* writeBundles(), by its timer.                                           *)
WriteBundles ==
  /\ accessed /= {}
  /\ WriteAccessed(accessed)
  /\ UNCHANGED <<total, minimal, now, timer, stale, clearing, fresh>>

Remove(k) ==
  /\ map[k] /= Absent
  /\ Become(eraseMapEntry(Entries, k))
  /\ UNCHANGED <<time, now, accessed, timer, stale, clearing, fresh>>

(* moveIfEmpty(): the value is used now, but optimize() is not called.     *)
MoveIfEmpty(from, to) ==
  LET t == IF now - time < WriteBundleDelay THEN time ELSE now
      d == setMapEntry(eraseMapEntry(Entries, from), to, [size |-> map[from].size, useTime |-> t])
  IN  /\ now <= MaxPutTime
      /\ map[to] = Absent /\ map[from] /= Absent
      /\ Become(d)
      /\ time' = t
      /\ stale' = stale \ {to}
      /\ fresh' = fresh \cup {to}
      /\ UNCHANGED <<now, accessed, timer, clearing>>

Tick ==
  /\ now < MaxTime
  /\ now' = now + 1
  /\ UNCHANGED <<map, total, minimal, time, accessed, timer, stale, clearing, fresh>>

-----------------------------------------------------------------------------
(* Mutant: the timer is not armed again after the last chunk.              *)
clearStaleChunkLast(keys, pending) ==
  \E chunk \in SUBSET keys :
    LET d == removeAll(Entries, chunk) IN
    /\ Cardinality(chunk) = IF Cardinality(keys) < StaleRemoveChunk
                              THEN Cardinality(keys) ELSE StaleRemoveChunk
    /\ Become(d)
    /\ stale' = keys \ chunk
    /\ clearing' = (pending \/ keys /= chunk)
    /\ UNCHANGED timer

(* clearStaleChunk(), and clearStaleChunkDelayed() for the rest; pending   *)
(* is _clearingStale by then.                                              *)
clearStaleChunk(keys, pending) ==
  \E chunk \in SUBSET keys :
    LET d == removeAll(Entries, chunk) IN
    /\ Cardinality(chunk) = IF Cardinality(keys) < StaleRemoveChunk
                              THEN Cardinality(keys) ELSE StaleRemoveChunk
    /\ Become(d)
    /\ stale' = keys \ chunk
    /\ clearing' = (pending \/ keys /= chunk)
    /\ IF keys /= {} /\ keys = chunk THEN optimize(d) ELSE UNCHANGED timer

(* Mutant: a chunk is not followed by another one.                         *)
ClearNextChunkOnce ==
  /\ clearing /\ clearing' = FALSE
  /\ \E k \in stale : Become(removeAll(Entries, {k})) /\ stale' = stale \ {k}
  /\ UNCHANGED timer
  /\ UNCHANGED <<time, now, accessed, fresh>>

ClearNextChunk ==
  /\ clearing
  /\ clearStaleChunk(stale, FALSE)
  /\ UNCHANGED <<time, now, accessed, fresh>>

(* clearByTag(), of the keys that have the tag.                            *)
ClearByTag(keys) ==
  /\ IF stale = {} THEN clearStaleChunk(keys, clearing)
     ELSE stale' = stale \cup keys /\ UNCHANGED <<map, total, minimal, clearing, timer>>
  /\ fresh' = fresh \ keys
  /\ UNCHANGED <<time, now, accessed>>

(* collectTimeStale(): only if the oldest time is known and has passed.    *)
TimeIsUp == minimal.time /= 0 /\ minimal.time <= pruneBeforeTime

TimeStale == IF TimeIsUp THEN {k \in Present(map) : map[k].useTime <= pruneBeforeTime} ELSE {}

Recounted ==
  LET left == {map[k].useTime : k \in Present(map) \ TimeStale}
      min == CHOOSE t \in left : \A u \in left : t <= u
  IN  IF ~TimeIsUp THEN minimal
      ELSE IF left = {} THEN [time |-> 0, count |-> 0]
      ELSE [time |-> min, count |-> Cardinality({k \in Present(map) : map[k].useTime = min})]

(* The size of some entries of the map m.                                  *)
SizeOf(m, keys) == FoldSet(LAMBDA k, sum : sum + m[k].size, 0, keys)
TotalSize(keys) == SizeOf(map, keys)

(* collectSizeStale(): the map is walked in some order, and `oldest' has   *)
(* the newest of the chosen keys first, of two with one time the one that  *)
(* was walked over first.                                                  *)
Ahead(k, l, order) ==
  \/ map[k].useTime > map[l].useTime
  \/ /\ map[k].useTime = map[l].useTime
     /\ \E i, j \in DOMAIN order : i < j /\ order[i] = k /\ order[j] = l

First(oldest, order) == CHOOSE k \in oldest : \A l \in oldest \ {k} : Ahead(k, l, order)

canRemoveFirst(oldest, k, removeSize, order) ==
  LET first == map[First(oldest, order)]
  IN  /\ map[k].useTime <= first.useTime
      /\ TotalSize(oldest) + map[k].size - removeSize >= first.size

(* The first is removed as long as it can be.                              *)
WithoutFirst(oldest, k, removeSize, order) ==
  LET left[o \in SUBSET oldest] ==
        IF o /= {} /\ canRemoveFirst(o, k, removeSize, order)
          THEN left[o \ {First(o, order)}] ELSE o
  IN  left[oldest]

(* Mutant: an entry is passed over when the size is reached.               *)
ConsiderEnough(oldest, k, removeSize, order) ==
  IF TotalSize(oldest) < removeSize
    THEN WithoutFirst(oldest, k, removeSize, order) \cup {k} ELSE oldest

Consider(oldest, k, removeSize, order) ==
  IF \/ TotalSize(oldest) < removeSize
     \/ map[k].useTime < map[First(oldest, order)].useTime
    THEN WithoutFirst(oldest, k, removeSize, order) \cup {k} ELSE oldest

SizeStale(order) ==
  LET removeSize == total - TotalSize(TimeStale) - TotalSizeLimit
  IN  IF removeSize <= 0 THEN {}
      ELSE SeqExt!FoldLeft(LAMBDA oldest, k : IF k \in TimeStale THEN oldest
                                              ELSE Consider(oldest, k, removeSize, order), {}, order)

(* prune(): a few entries are cleared now, many in chunks.                 *)
Prune(order) ==
  /\ timer
  /\ IF stale /= {}
       THEN timer' = FALSE /\ UNCHANGED <<map, total, minimal, stale, clearing, fresh>>
       ELSE LET keys == TimeStale \cup SizeStale(order)
                few == Cardinality(keys) <= StaleRemoveChunk
            IN  \E chunk \in SUBSET keys :
                  LET d == removeAll([Entries EXCEPT !.minimal = Recounted], chunk) IN
                  /\ Cardinality(chunk) = IF few THEN Cardinality(keys) ELSE StaleRemoveChunk
                  /\ Become(d)
                  /\ stale' = keys \ chunk
                  /\ clearing' = (clearing \/ ~few)
                  /\ timer' = (few /\ keys /= {} /\ Present(d.map) /= {})
                  /\ fresh' = fresh \ keys
  /\ UNCHANGED <<time, now, accessed>>

Orders == Bijection(1 .. Cardinality(Present(map)), Present(map))

Next ==
  \/ \E k \in Keys : (\E s \in Sizes : Put(k, s)) \/ PutSame(k) \/ Get(k) \/ Remove(k)
  \/ \E from, to \in Keys : MoveIfEmpty(from, to)
  \/ WriteBundles \/ Tick \/ ClearNextChunk
  \/ \E keys \in SUBSET Present(map) : ClearByTag(keys)
  \/ \E order \in Orders : Prune(order)

Spec == Init /\ [][Next]_vars

(* Timers fire, what is queued is run, and time goes on.  The first two    *)
(* say what WF_vars says, with the guards that enable these actions.       *)
FairSpec ==
  /\ Spec
  /\ []<>~timer \/ []<><<\E order \in Orders : Prune(order)>>_vars
  /\ []<>~clearing \/ []<><<ClearNextChunk>>_vars
  /\ WF_vars(Tick)

-----------------------------------------------------------------------------
(* Every variable has its type.                                            *)
TypeOK ==
  /\ map \in [Keys -> {Absent} \cup [size : Sizes, useTime : 1 .. MaxTime]]
  /\ total \in Nat /\ minimal \in [time : 0 .. MaxTime, count : 0 .. Cardinality(Keys)]
  /\ now \in 1 .. MaxTime /\ time \in 1 .. now
  /\ accessed \subseteq Keys /\ Cardinality(accessed) < MaxBundledRecords
  /\ {timer, clearing} \subseteq BOOLEAN /\ stale \subseteq Keys /\ fresh \subseteq Keys

(* The total that the limits are checked against, and that the settings    *)
(* show, is the size of what is in the map, and the count of the oldest    *)
(* time is positive wherever the code asserts it.                          *)
CountsAreRight ==
  /\ total = TotalSize(Present(map))
  /\ minimal.time /= 0 <=> minimal.count > 0

(* A value that is put or moved to a key after pruning chose the key is    *)
(* not cleared by it.                                                      *)
PutIsKept == stale \cap fresh = {}

(* As long as there is something to clear, the next chunk is on its way.   *)
StaleIsWatched == stale /= {} => clearing

Gone == Present(map) \ (Present(map') \ stale')

(* Pruning for the size takes the oldest entries, and enough of them, in   *)
(* whichever order the map is walked: nothing older than what is taken     *)
(* stays, the limit is met, and it would not be with one of the newest     *)
(* that are taken.                                                         *)
TakesOldest ==
  [][stale = {} /\ (\E order \in Orders : Prune(order)) =>
       LET kept == Present(map) \ Gone
           taken == Gone \ TimeStale
       IN  /\ TotalSize(kept) <= TotalSizeLimit
           /\ \A k \in taken, l \in kept : map[k].useTime <= map[l].useTime
           /\ taken /= {} => \E k \in taken :
                /\ \A l \in taken : map[l].useTime <= map[k].useTime
                /\ TotalSize(kept \cup {k}) > TotalSizeLimit
    ]_vars

(* moveIfEmpty() filled the last key that waited to be cleared: the next   *)
(* chunk finds nothing to clear, and nobody looks at the limit.            *)
Overtaken == clearing /\ stale = {} /\ ~timer /\ total > TotalSizeLimit

(* The cache comes to its size limit and stays there once nothing more is  *)
(* put or moved (after MaxPutTime), with gets, removals and tags cleared   *)
(* in between, and with chunks left to clear while the timer fires; but    *)
(* for a cache that was overtaken and where nothing armed the timer since, *)
(* as moveIfEmpty() does not call optimize() and any get() or put() does.  *)
SizeIsLimited == <>[](total <= TotalSizeLimit) \/ (<>Overtaken /\ <>[]~timer)
=============================================================================
