------------------------ MODULE CacheDatabaseProofs ------------------------
(***************************************************************************)
(* What is proved about CacheDatabase, for any keys, values and numbers of *)
(* files, moves, compactions, stops and faults: no two keys own one file,  *)
(* nothing stale is read whatever fails, and as long as the disk does not  *)
(* fail nothing is lost but a value whose move was cut by a stop.          *)
(*                                                                         *)
(* All of it is about where the log says that a key is: open() would find  *)
(* the place in the map, or a file that is not there any more.  What the   *)
(* compactor writes must come to the same once it has caught up.           *)
(***************************************************************************)
EXTENDS CacheDatabase, SequenceTheorems, FiniteSetTheorems, TLAPS

(* The records that are written while n places are used.                   *)
Records(n) == {Store(k, p) : k \in Keys, p \in 1 .. n} \cup {MultiRemove(keys) : keys \in SUBSET Keys}

IsDisk(d, n) ==
  /\ d = [logs |-> d.logs, files |-> d.files]
  /\ d.logs = [name \in DOMAIN d.logs |-> d.logs[name]]
  /\ DOMAIN d.logs \subseteq {"binlog", "ready"}
  /\ \A name \in DOMAIN d.logs : d.logs[name] \in Seq(Records(n))
  /\ d.files \in [Places -> Values \cup {None}]

(* What a key has on a disk, when open() would look for it now.            *)
LogOf(d) ==
  IF Exists(d, "ready") THEN d.logs["ready"]
  ELSE IF Exists(d, "binlog") THEN d.logs["binlog"] ELSE <<>>
Where(d, k)  == Recovered(LogOf(d), k)
FileAt(d, p) == IF p = NoPlace THEN None ELSE d.files[p]

Types ==
  /\ mode \in {"closed", "open", "failed"}
  /\ used \in 0 .. MaxPlaces
  /\ map \in [Keys -> 0 .. used]
  /\ removing \subseteq Keys /\ IsFiniteSet(removing)
  /\ Cardinality(removing) < MaxBundledRecords
  /\ IsDisk(disk, used)
  /\ compactor \in [state : {"none", "copying", "done"}, till : Nat, pos : Nat,
                    last : Nat, log : Seq(Records(used))]
  /\ latest \in [Keys -> Values \cup {None}] /\ cut \subseteq Keys
  /\ spent \in [stops : Nat, faults : Nat, moves : Nat, compactions : Nat]

(* What is there in each mode.                                             *)
Modes ==
  /\ mode = "open" => DOMAIN disk.logs = {"binlog"}
  /\ mode = "failed" => "ready" \notin DOMAIN disk.logs
  /\ mode = "closed" => /\ \A k \in Keys : map[k] = NoPlace
                        /\ removing = {} /\ compactor = Idle

(* No place is of two keys, and none has what is not the latest.           *)
Apart ==
  \A k, l \in Keys : k /= l =>
    /\ map[k] = map[l] => map[k] = NoPlace
    /\ Where(disk, k) = Where(disk, l) => Where(disk, k) = NoPlace

Latest ==
  \A k \in Keys : {FileAt(disk, map[k]), FileAt(disk, Where(disk, k))} \subseteq {None, latest[k]}

(* The log agrees with the map, but for removals that are not logged yet.  *)
(* What it still says of a key that the map does not have is harmless: the *)
(* file is gone, or it could not be removed and has the latest value.      *)
Agree ==
  mode = "open" =>
    /\ \A k \in Keys : map[k] /= NoPlace => Where(disk, k) = map[k]
    /\ \A k \in removing : map[k] = NoPlace

Safe ==
  spent.faults = 0 =>
    /\ mode /= "failed"
    /\ \A k \in Keys : /\ FileAt(disk, Where(disk, k)) = Expected(k)
                       /\ mode /= "closed" => FileAt(disk, map[k]) = Expected(k)

(* What the compactor has not copied yet: what was logged since, and the   *)
(* stored keys that it has still to ask for.                               *)
Since(k) ==
  \E i \in DOMAIN Binlog : i > compactor.pos /\ i > compactor.till /\ k \in Binlog[i].keys
Pending(k) ==
  \E i \in DOMAIN Binlog :
    i > compactor.pos /\ i <= compactor.till /\ k \in Binlog[i].keys /\ Binlog[i].place /= NoPlace

(* A key that is not to be copied any more is where the log says, or is in *)
(* neither the map nor what the compactor wrote.                           *)
Copied ==
  mode = "open" /\ compactor.state /= "none" =>
    /\ compactor.till <= Len(Binlog) /\ compactor.pos <= Len(Binlog)
    /\ compactor.state = "done" => compactor.pos >= compactor.till
    /\ \A k \in Keys :
         \/ Since(k)
         \/ Recovered(compactor.log, k) = Recovered(Binlog, k)
         \/ Recovered(compactor.log, k) = NoPlace /\ (map[k] = NoPlace \/ Pending(k))

(* What a disk d has of a key when it says no more of it than before.      *)
FileKept(d, k) ==
  /\ FileAt(d, Where(d, k)) \in {None, FileAt(disk, Where(disk, k))}
  /\ spent.faults = 0 => FileAt(d, Where(d, k)) = FileAt(disk, Where(disk, k))

(* The inductive invariant.                                                *)
IInv == Types /\ Modes /\ Apart /\ Latest /\ Agree /\ Safe /\ Copied

-----------------------------------------------------------------------------
(* Where a log says that a key is.                                         *)

(* The last of some numbers that are not above another.                    *)
LEMMA LastOf ==
  ASSUME NEW n \in Nat, NEW T, T \subseteq 1 .. n, T /= {}
  PROVE  \E i \in T : \A j \in T : j <= i
<1> DEFINE U == {n - i : i \in T}
<1>1. U \subseteq Nat /\ U /= {}
  <2>1. \A i \in T : i \in 1 .. n /\ n - i \in Nat
    OBVIOUS
  <2> QED BY <2>1
<1> HIDE DEF U
<1>2. \E u \in U : \A w \in U : ~(<<w, u>> \in OpToRel(<, Nat))
  BY <1>1, WFMin, NatLessThanWellFounded
<1>3. PICK u \in U : \A w \in U : ~(<<w, u>> \in OpToRel(<, Nat))
  BY <1>2
<1>4. \A w \in U : u <= w
  <2>1. \A w \in U : ~(w < u)
    BY <1>1, <1>3 DEF OpToRel
  <2> QED BY <1>1, <2>1
<1>5. PICK i \in T : u = n - i
  BY DEF U
<1>6. \A j \in T : n - i <= n - j
  BY <1>4, <1>5 DEF U
<1> QED BY <1>6

(* The last record of a key says it.                                       *)
LEMMA RecoveredLast ==
  ASSUME NEW S, NEW log \in Seq(S), NEW k, NEW i \in DOMAIN log, k \in log[i].keys,
         \A j \in DOMAIN log : k \in log[j].keys => j <= i
  PROVE  Recovered(log, k) = log[i].place
<1> DEFINE about == {j \in DOMAIN log : k \in log[j].keys}
<1>1. DOMAIN log = 1 .. Len(log) /\ Len(log) \in Nat
  BY LenProperties
<1>2. i \in about /\ \A j \in about : j <= i
  OBVIOUS
<1>3. \A l \in about : (\A j \in about : j <= l) => l = i
  BY <1>1, <1>2
<1>4. Recovered(log, k) = log[CHOOSE l \in about : \A j \in about : j <= l].place
  BY <1>2 DEF Recovered
<1> HIDE DEF about
<1>5. (CHOOSE l \in about : \A j \in about : j <= l) = i
  BY <1>2, <1>3
<1> QED BY <1>4, <1>5

(* Without a record of it a key is nowhere, otherwise there is a last.     *)
LEMMA RecoveredIn ==
  ASSUME NEW S, NEW log \in Seq(S), NEW k
  PROVE  \/ /\ \A j \in DOMAIN log : k \notin log[j].keys
            /\ Recovered(log, k) = NoPlace
         \/ \E i \in DOMAIN log :
              /\ k \in log[i].keys /\ Recovered(log, k) = log[i].place
              /\ \A j \in DOMAIN log : k \in log[j].keys => j <= i
<1> DEFINE about == {j \in DOMAIN log : k \in log[j].keys}
<1>1. CASE about = {}
  BY <1>1 DEF Recovered
<1>2. CASE about /= {}
  <2>1. Len(log) \in Nat /\ about \subseteq 1 .. Len(log)
    BY LenProperties
  <2> HIDE DEF about
  <2>2. PICK i \in about : \A j \in about : j <= i
    BY <1>2, <2>1, LastOf
  <2> QED BY <2>2, RecoveredLast DEF about
<1> QED BY <1>1, <1>2

(* What comes later prevails.                                              *)
LEMMA RecoveredConcat ==
  ASSUME NEW S, NEW log \in Seq(S), NEW more \in Seq(S), NEW k
  PROVE  Recovered(log \o more, k) =
           IF \E i \in DOMAIN more : k \in more[i].keys
             THEN Recovered(more, k) ELSE Recovered(log, k)
<1> DEFINE both == log \o more
           n == Len(log)
<1>1. /\ n \in Nat /\ Len(more) \in Nat /\ DOMAIN log = 1 .. n /\ DOMAIN more = 1 .. Len(more)
      /\ both \in Seq(S) /\ Len(both) = n + Len(more)
      /\ \A i \in 1 .. n + Len(more) : both[i] = IF i <= n THEN log[i] ELSE more[i - n]
  BY LenProperties, ConcatProperties
<1>2. DOMAIN both = 1 .. n + Len(more)
  BY <1>1, LenProperties
<1> HIDE DEF both, n
<1>3. CASE \E i \in DOMAIN more : k \in more[i].keys
  <2>1. PICK i \in DOMAIN more :
           /\ k \in more[i].keys /\ Recovered(more, k) = more[i].place
           /\ \A j \in DOMAIN more : k \in more[j].keys => j <= i
    BY <1>3, RecoveredIn
  <2>2. n + i \in DOMAIN both /\ both[n + i] = more[i]
    BY <1>1, <1>2
  <2>3. ASSUME NEW j \in DOMAIN both, k \in both[j].keys, j > n
        PROVE  j <= n + i
    <3>1. j - n \in DOMAIN more /\ both[j] = more[j - n]
      BY <1>1, <1>2, <2>3
    <3>2. j - n <= i
      BY <2>1, <2>3, <3>1
    <3> QED BY <1>1, <1>2, <3>2
  <2>4. \A j \in DOMAIN both : k \in both[j].keys => j <= n + i
    BY <1>1, <1>2, <2>3
  <2>5. Recovered(both, k) = both[n + i].place
    BY <1>1, <2>1, <2>2, <2>4, RecoveredLast
  <2> QED BY <1>3, <2>1, <2>2, <2>5 DEF both
<1>4. CASE ~\E i \in DOMAIN more : k \in more[i].keys
  <2>1. ASSUME NEW j \in DOMAIN both, k \in both[j].keys
        PROVE  j \in DOMAIN log /\ both[j] = log[j]
    <3>1. CASE j > n
      <4>1. j - n \in DOMAIN more /\ both[j] = more[j - n]
        BY <1>1, <1>2, <3>1
      <4> QED BY <1>4, <2>1, <4>1
    <3> QED BY <1>1, <1>2, <3>1
  <2>2. \A j \in DOMAIN log : j \in DOMAIN both /\ both[j] = log[j]
    BY <1>1, <1>2
  <2>3. CASE \A j \in DOMAIN log : k \notin log[j].keys
    <3>1. Recovered(log, k) = NoPlace /\ Recovered(both, k) = NoPlace
      BY <2>1, <2>3 DEF Recovered
    <3> QED BY <1>4, <3>1 DEF both
  <2>4. CASE ~\A j \in DOMAIN log : k \notin log[j].keys
    <3>1. PICK i \in DOMAIN log :
             /\ k \in log[i].keys /\ Recovered(log, k) = log[i].place
             /\ \A j \in DOMAIN log : k \in log[j].keys => j <= i
      BY <2>4, RecoveredIn
    <3>2. Recovered(both, k) = both[i].place
      BY <1>1, <2>1, <2>2, <3>1, RecoveredLast
    <3> QED BY <1>4, <2>2, <3>1, <3>2 DEF both
  <2> QED BY <2>3, <2>4
<1> QED BY <1>3, <1>4

(* One record more.                                                        *)
LEMMA RecoveredOne ==
  ASSUME NEW S, NEW log \in Seq(S), NEW rec \in S, NEW k
  PROVE  Recovered(log \o <<rec>>, k) = IF k \in rec.keys THEN rec.place ELSE Recovered(log, k)
<1> DEFINE one == <<rec>>
<1>1. one \in Seq(S) /\ DOMAIN one = {1} /\ one[1] = rec
  OBVIOUS
<1> HIDE DEF one
<1>2. k \in rec.keys => Recovered(one, k) = rec.place
  BY <1>1, RecoveredLast
<1>3. Recovered(log \o one, k) = IF k \in rec.keys THEN rec.place ELSE Recovered(log, k)
  BY <1>1, <1>2, RecoveredConcat
<1> QED BY <1>3 DEF one

(* A removed key is nowhere, and places are given by single records.       *)
LEMMA RecoveredType ==
  ASSUME NEW n \in Nat, NEW log \in Seq(Records(n)), NEW k
  PROVE  /\ Recovered(log, k) \in 0 .. n
         /\ Recovered(log, k) /= NoPlace =>
              \E i \in DOMAIN log : k \in log[i].keys /\ log[i].place /= NoPlace
<1>1. \A i \in DOMAIN log : log[i] \in Records(n)
  BY ElementOfSeq, LenProperties
<1>2. \A rec \in Records(n) : rec.place \in 0 .. n
  BY DEF Records, Store, MultiRemove, NoPlace
<1> QED BY <1>1, <1>2, RecoveredIn DEF NoPlace

(* What was not copied from a log is read behind what was.                 *)
LEMMA SuffixOf ==
  ASSUME NEW S, NEW log \in Seq(S), NEW copy \in Seq(S), NEW n \in 0 .. Len(log)
  PROVE  LET q == copy \o SubSeq(log, n + 1, Len(log))
         IN  /\ q \in Seq(S)
             /\ \A k : Recovered(q, k) =
                  IF \E i \in DOMAIN log : i > n /\ k \in log[i].keys
                    THEN Recovered(log, k) ELSE Recovered(copy, k)
<1> DEFINE rest == SubSeq(log, n + 1, Len(log))
<1>1. DOMAIN log = 1 .. Len(log) /\ Len(log) \in Nat /\ n \in Nat /\ n <= Len(log)
  BY LenProperties
<1>2. /\ rest \in Seq(S) /\ Len(rest) = Len(log) - n
      /\ \A i \in 1 .. Len(log) - n : rest[i] = log[n + i]
  <2>1. n + 1 \in Int /\ Len(log) \in Int /\ \A i \in n + 1 .. Len(log) : log[i] \in S
    BY <1>1, ElementOfSeq
  <2>2. /\ rest \in Seq(S)
        /\ Len(rest) = IF n + 1 <= Len(log) THEN Len(log) - (n + 1) + 1 ELSE 0
        /\ \A i \in 1 .. Len(log) - (n + 1) + 1 : rest[i] = log[n + 1 + i - 1]
    BY <2>1, SubSeqProperties
  <2> HIDE DEF rest
  <2>3. ASSUME NEW i \in 1 .. Len(log) - n
        PROVE  rest[i] = log[n + i]
    <3>1. i \in 1 .. Len(log) - (n + 1) + 1 /\ n + 1 + i - 1 = n + i
      BY <1>1
    <3>2. rest[i] = log[n + 1 + i - 1]
      BY <2>2, <3>1
    <3> QED BY <3>1, <3>2
  <2>4. Len(rest) = Len(log) - n
    <3>1. ASSUME NEW l \in Nat, n <= l
          PROVE  (IF n + 1 <= l THEN l - (n + 1) + 1 ELSE 0) = l - n
      BY <1>1, <3>1
    <3> QED BY <1>1, <2>2, <3>1
  <2> QED BY <2>2, <2>3, <2>4
<1>3. DOMAIN rest = 1 .. Len(log) - n
  BY <1>2, LenProperties
<1> HIDE DEF rest
<1>4. ASSUME NEW k
      PROVE  Recovered(copy \o rest, k) =
               IF \E i \in DOMAIN log : i > n /\ k \in log[i].keys
                 THEN Recovered(log, k) ELSE Recovered(copy, k)
  <2>1. CASE \E i \in DOMAIN log : i > n /\ k \in log[i].keys
    <3>1. PICK i \in DOMAIN log : i > n /\ k \in log[i].keys
      BY <2>1
    <3>2. PICK l \in DOMAIN log :
             /\ k \in log[l].keys /\ Recovered(log, k) = log[l].place
             /\ \A j \in DOMAIN log : k \in log[j].keys => j <= l
      BY <3>1, RecoveredIn
    <3>3. i <= l /\ l > n
      BY <1>1, <3>1, <3>2
    <3>4. l - n \in DOMAIN rest /\ rest[l - n] = log[l]
      BY <1>1, <1>2, <1>3, <3>3
    <3>5. ASSUME NEW j \in DOMAIN rest, k \in rest[j].keys
          PROVE  j <= l - n
      <4>1. n + j \in DOMAIN log /\ rest[j] = log[n + j]
        BY <1>1, <1>2, <1>3
      <4>2. n + j <= l
        BY <3>2, <3>5, <4>1
      <4> QED BY <1>1, <1>3, <4>2
    <3>6. Recovered(rest, k) = rest[l - n].place
      BY <1>2, <3>2, <3>4, <3>5, RecoveredLast
    <3>7. Recovered(copy \o rest, k) = Recovered(rest, k)
      BY <1>2, <3>2, <3>4, RecoveredConcat
    <3> QED BY <2>1, <3>2, <3>4, <3>6, <3>7
  <2>2. CASE ~\E i \in DOMAIN log : i > n /\ k \in log[i].keys
    <3>1. ASSUME NEW j \in DOMAIN rest
          PROVE  k \notin rest[j].keys
      <4>1. n + j \in DOMAIN log /\ rest[j] = log[n + j] /\ n + j > n
        BY <1>1, <1>2, <1>3
      <4> QED BY <2>2, <4>1
    <3>2. Recovered(copy \o rest, k) = Recovered(copy, k)
      BY <1>2, <3>1, RecoveredConcat
    <3> QED BY <2>2, <3>2
  <2> QED BY <2>1, <2>2
<1>5. copy \o rest \in Seq(S)
  BY <1>2, ConcatProperties
<1> QED BY <1>4, <1>5 DEF rest

(* Records of fewer places.                                                *)
LEMMA RecordsGrow ==
  ASSUME NEW n \in Nat, NEW m \in Nat, n <= m
  PROVE  Records(n) \subseteq Records(m) /\ Seq(Records(n)) \subseteq Seq(Records(m))
<1>1. Records(n) \subseteq Records(m)
  BY DEF Records
<1>2. ASSUME NEW q \in Seq(Records(n))
      PROVE  q \in Seq(Records(m))
  <2>1. Len(q) \in Nat /\ q \in [1 .. Len(q) -> Records(n)]
    BY LenProperties
  <2>2. q \in [1 .. Len(q) -> Records(m)]
    BY <1>1, <2>1
  <2> QED BY <2>1, <2>2, SeqDef
<1> QED BY <1>1, <1>2

-----------------------------------------------------------------------------
(* The operations on files.                                                *)
LEMMA DiskGrows ==
  ASSUME NEW n \in Nat, NEW m \in Nat, n <= m, NEW d, IsDisk(d, n)
  PROVE  IsDisk(d, m)
BY RecordsGrow DEF IsDisk

(* A value is written to one place.                                        *)
LEMMA WriteOf ==
  ASSUME NEW n, NEW d, IsDisk(d, n), NEW p \in Places, NEW v \in Values \cup {None}
  PROVE  LET e == Write(d, p, v)
         IN  /\ IsDisk(e, n) /\ e.logs = d.logs
             /\ \A q \in Places : e.files[q] = IF q = p THEN v ELSE d.files[q]
BY DEF IsDisk, Write

(* A value is taken away, if there is one.                                 *)
LEMMA RemoveValueOf ==
  ASSUME NEW n, NEW d, IsDisk(d, n), NEW p \in 0 .. MaxPlaces
  PROVE  LET e == RemoveValue(d, p)
         IN  /\ IsDisk(e, n) /\ e.logs = d.logs
             /\ \A q \in Places : e.files[q] = IF q = p THEN None ELSE d.files[q]
<1>1. CASE p = NoPlace
  BY <1>1 DEF RemoveValue, NoPlace, Places
<1>2. CASE p /= NoPlace
  <2>1. p \in Places
    BY <1>2, CacheAssumption DEF NoPlace, Places
  <2> QED BY <1>2, <2>1 DEF IsDisk, RemoveValue
<1> QED BY <1>1, <1>2

(* A log gets more records.                                                *)
LEMMA AppendToOf ==
  ASSUME NEW n, NEW d, IsDisk(d, n), NEW name \in DOMAIN d.logs, NEW recs \in Seq(Records(n))
  PROVE  LET e == AppendTo(d, name, recs)
         IN  /\ IsDisk(e, n) /\ e.files = d.files /\ DOMAIN e.logs = DOMAIN d.logs
             /\ e.logs[name] = d.logs[name] \o recs
             /\ \A other \in DOMAIN d.logs \ {name} : e.logs[other] = d.logs[other]
<1>1. d.logs[name] \o recs \in Seq(Records(n))
  BY ConcatProperties DEF IsDisk
<1> DEFINE e == AppendTo(d, name, recs)
<1>2. d = [logs |-> d.logs, files |-> d.files]
  BY DEF IsDisk
<1> DEFINE L == [d.logs EXCEPT ![name] = d.logs[name] \o recs]
<1>3. e = [d EXCEPT !.logs = L]
  BY <1>2 DEF AppendTo
<1>4. /\ L = [other \in DOMAIN L |-> L[other]] /\ DOMAIN L = DOMAIN d.logs
      /\ L[name] = d.logs[name] \o recs
      /\ \A other \in DOMAIN d.logs \ {name} : L[other] = d.logs[other]
  BY <1>2
<1> HIDE DEF e, L
<1>5. e = [logs |-> L, files |-> d.files]
  BY <1>2, <1>3
<1>6. e.logs = L /\ e.files = d.files /\ e = [logs |-> e.logs, files |-> e.files]
  BY <1>5
<1>7. \A other \in DOMAIN L : L[other] \in Seq(Records(n))
  BY <1>1, <1>4 DEF IsDisk
<1>8. IsDisk(e, n)
  BY <1>4, <1>6, <1>7 DEF IsDisk
<1> QED BY <1>4, <1>6, <1>8 DEF e

(* A log is written as a whole.                                            *)
LEMMA SetLogOf ==
  ASSUME NEW n, NEW d, IsDisk(d, n), NEW name \in {"binlog", "ready"}, NEW log \in Seq(Records(n))
  PROVE  LET e == SetLog(d, name, log)
         IN  /\ IsDisk(e, n) /\ e.files = d.files /\ DOMAIN e.logs = DOMAIN d.logs \cup {name}
             /\ e.logs[name] = log
             /\ \A other \in DOMAIN d.logs \ {name} : e.logs[other] = d.logs[other]
<1> DEFINE L == [other \in DOMAIN d.logs \cup {name} |-> IF other = name THEN log ELSE d.logs[other]]
           e == SetLog(d, name, log)
<1>1. d = [logs |-> d.logs, files |-> d.files] /\ d.files \in [Places -> Values \cup {None}]
  BY DEF IsDisk
<1>2. e = [d EXCEPT !.logs = L]
  BY <1>1 DEF SetLog
<1>3. /\ L = [other \in DOMAIN L |-> L[other]] /\ DOMAIN L = DOMAIN d.logs \cup {name}
      /\ L[name] = log
      /\ \A other \in DOMAIN d.logs \ {name} : L[other] = d.logs[other]
  OBVIOUS
<1> HIDE DEF e, L
<1>4. e = [logs |-> L, files |-> d.files]
  BY <1>1, <1>2
<1>5. e.logs = L /\ e.files = d.files /\ e = [logs |-> e.logs, files |-> e.files]
  BY <1>4
<1>6. DOMAIN L \subseteq {"binlog", "ready"} /\ \A other \in DOMAIN L : L[other] \in Seq(Records(n))
  BY <1>3 DEF IsDisk
<1>7. IsDisk(e, n)
  BY <1>1, <1>3, <1>5, <1>6 DEF IsDisk
<1> QED BY <1>3, <1>5, <1>7 DEF e

(* A log is removed.                                                       *)
LEMMA RemoveLogOf ==
  ASSUME NEW n, NEW d, IsDisk(d, n), NEW name
  PROVE  LET e == RemoveLog(d, name)
         IN  /\ IsDisk(e, n) /\ e.files = d.files /\ DOMAIN e.logs = DOMAIN d.logs \ {name}
             /\ \A other \in DOMAIN d.logs \ {name} : e.logs[other] = d.logs[other]
BY DEF IsDisk, RemoveLog, Restrict

-----------------------------------------------------------------------------
(* Where the keys are.                                                     *)

(* At places that were used, or nowhere.                                   *)
LEMMA WhereType ==
  ASSUME NEW n \in Nat, NEW d, IsDisk(d, n)
  PROVE  /\ LogOf(d) \in Seq(Records(n))
         /\ \A k \in Keys : Where(d, k) \in 0 .. n
<1>1. <<>> \in Seq(Records(n))
  OBVIOUS
<1>2. LogOf(d) \in Seq(Records(n))
  BY <1>1 DEF IsDisk, LogOf, Exists
<1> QED BY <1>2, RecoveredType DEF Where

(* With one log it is the one.                                             *)
LEMMA WhereOf ==
  ASSUME NEW d, DOMAIN d.logs = {"binlog"}
  PROVE  \A k : Where(d, k) = Recovered(d.logs["binlog"], k)
BY DEF Where, LogOf, Exists

(* A record more, of one key or of a bundle.                               *)
LEMMA AppendedOf ==
  ASSUME NEW n \in Nat, NEW d, IsDisk(d, n), DOMAIN d.logs = {"binlog"}, NEW rec \in Records(n)
  PROVE  LET e == AppendTo(d, "binlog", <<rec>>)
         IN  /\ IsDisk(e, n) /\ e.files = d.files /\ DOMAIN e.logs = {"binlog"}
             /\ e.logs["binlog"] = d.logs["binlog"] \o <<rec>>
             /\ \A k \in Keys : Where(e, k) = IF k \in rec.keys THEN rec.place ELSE Where(d, k)
<1> DEFINE recs == <<rec>>
           e == AppendTo(d, "binlog", recs)
<1>1. recs \in Seq(Records(n)) /\ "binlog" \in DOMAIN d.logs
  OBVIOUS
<1> HIDE DEF recs
<1>2. /\ IsDisk(e, n) /\ e.files = d.files /\ DOMAIN e.logs = {"binlog"}
      /\ e.logs["binlog"] = d.logs["binlog"] \o recs
  BY <1>1, AppendToOf
<1> HIDE DEF e
<1>3. d.logs["binlog"] \in Seq(Records(n))
  BY DEF IsDisk
<1>4. ASSUME NEW k \in Keys
      PROVE  Where(e, k) = IF k \in rec.keys THEN rec.place ELSE Where(d, k)
  <2>1. Where(e, k) = Recovered(d.logs["binlog"] \o <<rec>>, k)
    BY <1>2, WhereOf DEF recs
  <2>2. Where(d, k) = Recovered(d.logs["binlog"], k)
    BY WhereOf
  <2> QED BY <1>3, <2>1, <2>2, RecoveredOne
<1> QED BY <1>2, <1>4 DEF e, recs

(* Removals are logged together.                                           *)
LEMMA LoggedOf ==
  ASSUME NEW n \in Nat, NEW d, IsDisk(d, n), DOMAIN d.logs = {"binlog"},
         NEW keys, keys \subseteq Keys
  PROVE  LET e == Logged(d, keys)
         IN  /\ IsDisk(e, n) /\ e.files = d.files /\ DOMAIN e.logs = {"binlog"}
             /\ \E recs \in Seq(Records(n)) : e.logs["binlog"] = d.logs["binlog"] \o recs
             /\ \A k \in Keys : Where(e, k) = IF k \in keys THEN NoPlace ELSE Where(d, k)
<1>1. CASE keys = {}
  <2>1. d.logs["binlog"] \in Seq(Records(n)) /\ <<>> \in Seq(Records(n))
    BY DEF IsDisk
  <2>2. d.logs["binlog"] = d.logs["binlog"] \o <<>>
    BY <2>1, ConcatEmptySeq
  <2> QED BY <1>1, <2>1, <2>2 DEF Logged
<1>2. CASE keys /= {}
  <2> DEFINE rec == MultiRemove(keys)
             recs == <<rec>>
             e == AppendTo(d, "binlog", recs)
  <2>1. rec \in Records(n) /\ rec.keys = keys /\ rec.place = NoPlace
    BY DEF Records, MultiRemove
  <2>2. Logged(d, keys) = e
    BY <1>2 DEF Logged
  <2>3. recs \in Seq(Records(n))
    BY <2>1
  <2> HIDE DEF rec
  <2>4. /\ IsDisk(e, n) /\ e.files = d.files /\ DOMAIN e.logs = {"binlog"}
        /\ e.logs["binlog"] = d.logs["binlog"] \o recs
        /\ \A k \in Keys : Where(e, k) = IF k \in rec.keys THEN rec.place ELSE Where(d, k)
    BY <2>1, AppendedOf
  <2> HIDE DEF recs, e
  <2> QED BY <2>1, <2>2, <2>3, <2>4
<1> QED BY <1>1, <1>2

-----------------------------------------------------------------------------
(* What a step leaves.                                                     *)

(* All memory is lost.                                                     *)
LEMMA StopInv ==
  ASSUME IInv, Stop,
         used' \in 0 .. MaxPlaces, IsDisk(disk, used)',
         latest' \in [Keys -> Values \cup {None}], cut' \subseteq Keys,
         \A k, l \in Keys :
           k /= l /\ Where(disk', k) = Where(disk', l) => Where(disk', k) = NoPlace,
         \A k \in Keys : FileAt(disk', Where(disk', k)) \in {None, latest'[k]},
         spent.faults = 0 => \A k \in Keys : FileAt(disk', Where(disk', k)) = Expected(k)'
  PROVE  IInv'
<1>1. /\ mode' = "closed" /\ map' = [k \in Keys |-> NoPlace] /\ removing' = {}
      /\ compactor' = Idle /\ spent' = [spent EXCEPT !.stops = @ + 1]
  BY DEF Stop
<1>2. spent' \in [stops : Nat, faults : Nat, moves : Nat, compactions : Nat]
      /\ spent'.faults = spent.faults
  <2>1. spent \in [stops : Nat, faults : Nat, moves : Nat, compactions : Nat]
    BY DEF IInv, Types
  <2> QED BY <1>1, <2>1
<1>3. IsFiniteSet(removing') /\ Cardinality(removing') < MaxBundledRecords
  BY <1>1, FS_EmptySet, CacheAssumption
<1>4. compactor' \in [state : {"none", "copying", "done"}, till : Nat, pos : Nat,
                      last : Nat, log : Seq(Records(used'))]
  <2>1. <<>> \in Seq(Records(used'))
    OBVIOUS
  <2> QED BY <1>1, <2>1 DEF Idle
<1>5. map' \in [Keys -> 0 .. used']
  BY <1>1, CacheAssumption DEF NoPlace
<1>6. Types'
  BY <1>1, <1>2, <1>3, <1>4, <1>5 DEF Types
<1>7. \A k \in Keys : map'[k] = NoPlace /\ FileAt(disk', map'[k]) = None
  BY <1>1 DEF FileAt
<1>8. Modes' /\ Agree' /\ Copied'
  BY <1>1, <1>7 DEF Modes, Agree, Copied
<1>9. Apart' /\ Latest'
  BY <1>7 DEF Apart, Latest
<1>10. Safe'
  BY <1>1, <1>2 DEF Safe
<1> QED BY <1>6, <1>8, <1>9, <1>10 DEF IInv

(* The log grows: what the compactor has is as good for the other keys.    *)
LEMMA CopiedFrame ==
  ASSUME IInv, mode = "open", NEW n \in Nat, used <= n,
         NEW recs \in Seq(Records(n)), Binlog' = Binlog \o recs, UNCHANGED compactor,
         \A k \in Keys : map'[k] \in {map[k], NoPlace} \/ \E i \in DOMAIN recs : k \in recs[i].keys
  PROVE  Copied'
<1> SUFFICES ASSUME compactor.state /= "none"
             PROVE  /\ compactor.till <= Len(Binlog') /\ compactor.pos <= Len(Binlog')
                    /\ compactor.state = "done" => compactor.pos >= compactor.till
                    /\ \A k \in Keys :
                         \/ Since(k)'
                         \/ Recovered(compactor.log, k) = Recovered(Binlog', k)
                         \/ /\ Recovered(compactor.log, k) = NoPlace
                            /\ map'[k] = NoPlace \/ Pending(k)'
  BY DEF Copied
<1>1. /\ used \in Nat /\ Binlog \in Seq(Records(used))
      /\ compactor.till \in Nat /\ compactor.pos \in Nat
  BY CacheAssumption DEF IInv, Types, Modes, Binlog, IsDisk
<1>2. /\ compactor.till <= Len(Binlog) /\ compactor.pos <= Len(Binlog)
      /\ compactor.state = "done" => compactor.pos >= compactor.till
  BY DEF IInv, Copied
<1>3. Binlog \in Seq(Records(n))
  BY <1>1, RecordsGrow
<1>4. /\ Binlog' \in Seq(Records(n)) /\ Len(Binlog') = Len(Binlog) + Len(recs)
      /\ Len(Binlog) \in Nat /\ Len(recs) \in Nat
      /\ DOMAIN Binlog = 1 .. Len(Binlog) /\ DOMAIN recs = 1 .. Len(recs)
      /\ \A i \in 1 .. Len(Binlog) + Len(recs) :
           Binlog'[i] = IF i <= Len(Binlog) THEN Binlog[i] ELSE recs[i - Len(Binlog)]
  BY <1>3, LenProperties, ConcatProperties
<1>5. DOMAIN Binlog' = 1 .. Len(Binlog) + Len(recs)
  BY <1>4, LenProperties
<1>6. \A i \in DOMAIN Binlog : i \in DOMAIN Binlog' /\ Binlog'[i] = Binlog[i]
  BY <1>4, <1>5
<1>7. \A i \in DOMAIN recs :
        Len(Binlog) + i \in DOMAIN Binlog' /\ Binlog'[Len(Binlog) + i] = recs[i]
        /\ Len(Binlog) + i > compactor.pos /\ Len(Binlog) + i > compactor.till
  BY <1>1, <1>2, <1>4, <1>5
<1>8. ASSUME NEW k \in Keys
      PROVE  \/ Since(k)'
             \/ Recovered(compactor.log, k) = Recovered(Binlog', k)
             \/ /\ Recovered(compactor.log, k) = NoPlace
                /\ map'[k] = NoPlace \/ Pending(k)'
  <2>1. CASE \E i \in DOMAIN recs : k \in recs[i].keys
    <3>1. Since(k)'
      BY <1>7, <2>1 DEF Since
    <3> QED BY <3>1
  <2>2. CASE ~\E i \in DOMAIN recs : k \in recs[i].keys
    <3>1. Recovered(Binlog', k) = Recovered(Binlog, k)
      BY <1>3, <2>2, RecoveredConcat
    <3>2. map'[k] \in {map[k], NoPlace}
      BY <2>2
    <3>3. Since(k) => Since(k)'
      BY <1>6 DEF Since
    <3>4. Pending(k) => Pending(k)'
      BY <1>6 DEF Pending
    <3>5. \/ Since(k)
          \/ Recovered(compactor.log, k) = Recovered(Binlog, k)
          \/ Recovered(compactor.log, k) = NoPlace /\ (map[k] = NoPlace \/ Pending(k))
      BY DEF IInv, Copied
    <3> QED BY <3>1, <3>2, <3>3, <3>4, <3>5
  <2> QED BY <2>1, <2>2
<1>9. compactor.till <= Len(Binlog') /\ compactor.pos <= Len(Binlog')
  BY <1>1, <1>2, <1>4
<1> QED BY <1>2, <1>8, <1>9

(* A compactor starts with everything before it.                           *)
LEMMA CopiedStart ==
  ASSUME NEW n \in Nat, Binlog' \in Seq(Records(n)),
         compactor' = [Idle EXCEPT !.state = "copying", !.till = Len(Binlog')]
  PROVE  Copied'
<1>1. /\ compactor'.state = "copying" /\ compactor'.till = Len(Binlog')
      /\ compactor'.pos = 0 /\ compactor'.log = <<>>
  BY DEF Idle
<1>2. Len(Binlog') \in Nat /\ DOMAIN Binlog' = 1 .. Len(Binlog')
  BY LenProperties
<1>3. ASSUME NEW k \in Keys
      PROVE  /\ Recovered(compactor'.log, k) = NoPlace
             /\ Recovered(Binlog', k) = NoPlace \/ Pending(k)'
  <2>1. Recovered(<<>>, k) = NoPlace
    BY DEF Recovered
  <2>2. \/ Recovered(Binlog', k) = NoPlace
        \/ \E i \in DOMAIN Binlog' : k \in Binlog'[i].keys /\ Binlog'[i].place /= NoPlace
    BY RecoveredType
  <2>3. \A i \in DOMAIN Binlog' : i > compactor'.pos /\ i <= compactor'.till
    BY <1>1, <1>2
  <2> QED BY <1>1, <2>1, <2>2, <2>3 DEF Pending
<1> QED BY <1>1, <1>2, <1>3 DEF Copied

(* The same logs say the same.                                             *)
LEMMA WhereSame ==
  ASSUME NEW d, NEW e, e.logs = d.logs
  PROVE  \A k : Where(e, k) = Where(d, k)
BY DEF Where, LogOf, Exists

(* An open database.                                                       *)
LEMMA OpenOf ==
  ASSUME IInv, mode = "open"
  PROVE  /\ used \in Nat /\ MaxPlaces \in Nat /\ used <= MaxPlaces
         /\ IsDisk(disk, used) /\ DOMAIN disk.logs = {"binlog"} /\ Binlog \in Seq(Records(used))
         /\ \A k \in Keys : Where(disk, k) = Recovered(Binlog, k)
         /\ \A k \in Keys : Where(disk, k) \in 0 .. used /\ map[k] \in 0 .. used
         /\ \A k \in Keys : map[k] /= NoPlace => Where(disk, k) = map[k]
         /\ spent.faults = 0 =>
              \A k \in Keys : map[k] = NoPlace => FileAt(disk, Where(disk, k)) = None
         /\ \A k, l \in Keys : k /= l =>
              /\ map[k] = map[l] => map[k] = NoPlace
              /\ Where(disk, k) = Where(disk, l) => Where(disk, k) = NoPlace
<1>1. used \in Nat /\ MaxPlaces \in Nat /\ used <= MaxPlaces /\ IsDisk(disk, used)
  BY CacheAssumption DEF IInv, Types
<1>2. DOMAIN disk.logs = {"binlog"}
  BY DEF IInv, Modes
<1>3. Binlog \in Seq(Records(used))
  BY <1>1, <1>2 DEF IsDisk, Binlog
<1>4. \A k \in Keys : Where(disk, k) = Recovered(Binlog, k)
  BY <1>2, WhereOf DEF Binlog
<1>5. \A k \in Keys : Where(disk, k) \in 0 .. used
  BY <1>1, WhereType
<1>6. \A k \in Keys : map[k] /= NoPlace => Where(disk, k) = map[k]
  BY DEF IInv, Agree
<1>7. ASSUME spent.faults = 0, NEW k \in Keys, map[k] = NoPlace
      PROVE  FileAt(disk, Where(disk, k)) = None
  <2>1. FileAt(disk, Where(disk, k)) = FileAt(disk, map[k])
    BY <1>7 DEF IInv, Safe
  <2> QED BY <1>7, <2>1 DEF FileAt
<1> QED BY <1>1, <1>2, <1>3, <1>4, <1>5, <1>6, <1>7 DEF IInv, Types, Apart

(* A compactor may be started after the log has grown.                     *)
LEMMA CheckedOf ==
  ASSUME IInv, checkCompactor, used' \in Nat, used <= used', Binlog' \in Seq(Records(used'))
  PROVE  /\ compactor' \in [state : {"none", "copying", "done"}, till : Nat, pos : Nat,
                            last : Nat, log : Seq(Records(used'))]
         /\ spent' \in [stops : Nat, faults : Nat, moves : Nat, compactions : Nat]
         /\ spent'.faults = spent.faults
         /\ UNCHANGED compactor \/ Copied'
<1>1. /\ used \in Nat
      /\ compactor \in [state : {"none", "copying", "done"}, till : Nat, pos : Nat,
                        last : Nat, log : Seq(Records(used))]
      /\ spent \in [stops : Nat, faults : Nat, moves : Nat, compactions : Nat]
  BY CacheAssumption DEF IInv, Types
<1>2. Seq(Records(used)) \subseteq Seq(Records(used'))
  BY <1>1, RecordsGrow
<1>3. CASE UNCHANGED <<compactor, spent>>
  BY <1>1, <1>2, <1>3
<1>4. CASE /\ spent' = [spent EXCEPT !.compactions = @ + 1]
           /\ compactor' = [Idle EXCEPT !.state = "copying", !.till = Len(disk'.logs["binlog"])]
  <2>1. Len(Binlog') \in Nat /\ Binlog' = disk'.logs["binlog"]
    BY LenProperties DEF Binlog
  <2>2. <<>> \in Seq(Records(used'))
    OBVIOUS
  <2>3. compactor' = [Idle EXCEPT !.state = "copying", !.till = Len(Binlog')]
    BY <1>4, <2>1
  <2>4. Copied'
    BY <2>3, CopiedStart
  <2>5. compactor' \in [state : {"none", "copying", "done"}, till : Nat, pos : Nat,
                         last : Nat, log : Seq(Records(used'))]
    BY <2>1, <2>2, <2>3 DEF Idle
  <2>6. spent' \in [stops : Nat, faults : Nat, moves : Nat, compactions : Nat]
        /\ spent'.faults = spent.faults
    BY <1>1, <1>4
  <2> QED BY <2>4, <2>5, <2>6
<1> QED BY <1>3, <1>4 DEF checkCompactor

-----------------------------------------------------------------------------
(* put().                                                                  *)

(* What is on the disk in the middle of it, and at the end.                *)
PutDone(i, d, k, v) ==
  /\ IsDisk(d, used + 1) /\ DOMAIN d.logs = {"binlog"}
  /\ \A l \in Keys : Where(d, l) = IF i /= 1 /\ l = k THEN used + 1 ELSE Where(disk, l)
  /\ \A p \in Places :
       d.files[p] = IF i = 3 /\ p = map[k] THEN None
                    ELSE IF p = used + 1 THEN v ELSE disk.files[p]

(* The three steps of put().                                               *)
LEMMA PutDisksOf ==
  ASSUME IInv, mode = "open", used < MaxPlaces, NEW k \in Keys, NEW v \in Values
  PROVE  /\ Len(PutDisks(k, v)) = 3
         /\ \A i \in 1 .. 3 : PutDone(i, PutDisks(k, v)[i], k, v)
         /\ PutDisks(k, v)[3].logs["binlog"] = Binlog \o <<Store(k, used + 1)>>
<1> DEFINE n == used + 1
           rec == Store(k, n)
           d1 == Write(disk, n, v)
           d2 == AppendTo(d1, "binlog", <<rec>>)
           d3 == RemoveValue(d2, map[k])
<1>1. /\ used \in Nat /\ MaxPlaces \in Nat /\ IsDisk(disk, used) /\ DOMAIN disk.logs = {"binlog"}
      /\ map[k] \in 0 .. MaxPlaces
  BY OpenOf
<1>2. n \in Nat /\ n \in Places /\ IsDisk(disk, n)
  BY <1>1, DiskGrows DEF Places
<1>3. rec \in Records(n) /\ rec.keys = {k} /\ rec.place = n
  BY <1>2 DEF Records, Store, Places
<1>4. PutDisks(k, v) = <<d1, d2, d3>>
  BY DEF PutDisks
<1> HIDE DEF n, rec
<1>5. /\ IsDisk(d1, n) /\ d1.logs = disk.logs
      /\ \A q \in Places : d1.files[q] = IF q = n THEN v ELSE disk.files[q]
  <2>1. IsDisk(disk, n) /\ n \in Places /\ v \in Values \cup {None}
    BY <1>2
  <2> QED BY <2>1, WriteOf
<1> HIDE DEF d1
<1>6. /\ IsDisk(d2, n) /\ d2.files = d1.files /\ DOMAIN d2.logs = {"binlog"}
      /\ d2.logs["binlog"] = d1.logs["binlog"] \o <<rec>>
      /\ \A l \in Keys : Where(d2, l) = IF l \in rec.keys THEN rec.place ELSE Where(d1, l)
  <2>1. n \in Nat /\ IsDisk(d1, n) /\ DOMAIN d1.logs = {"binlog"} /\ rec \in Records(n)
    BY <1>1, <1>2, <1>3, <1>5
  <2> QED BY <2>1, AppendedOf
<1> HIDE DEF d2
<1>7. /\ IsDisk(d3, n) /\ d3.logs = d2.logs
      /\ \A q \in Places : d3.files[q] = IF q = map[k] THEN None ELSE d2.files[q]
  <2>1. IsDisk(d2, n) /\ map[k] \in 0 .. MaxPlaces
    BY <1>1, <1>6
  <2> QED BY <2>1, RemoveValueOf
<1> HIDE DEF d3
<1>8. \A l : Where(d1, l) = Where(disk, l) /\ Where(d3, l) = Where(d2, l)
  BY <1>5, <1>7, WhereSame
<1>9. \A l \in Keys : Where(d2, l) = IF l = k THEN n ELSE Where(disk, l)
  BY <1>3, <1>6, <1>8
<1>10. d3.logs["binlog"] = Binlog \o <<Store(k, used + 1)>>
  BY <1>5, <1>6, <1>7 DEF Binlog, rec, n
<1> DEFINE D == <<d1, d2, d3>>
<1>11. Len(D) = 3 /\ D[1] = d1 /\ D[2] = d2 /\ D[3] = d3
  OBVIOUS
<1> HIDE DEF D
<1>12. PutDone(1, d1, k, v)
  BY <1>1, <1>5, <1>8 DEF PutDone, n
<1>13. PutDone(2, d2, k, v)
  BY <1>5, <1>6, <1>9 DEF PutDone, n
<1>14. PutDone(3, d3, k, v)
  BY <1>5, <1>6, <1>7, <1>8, <1>9 DEF PutDone, n
<1>15. \A i \in 1 .. 3 : PutDone(i, D[i], k, v)
  <2>1. ASSUME NEW i \in 1 .. 3 PROVE i = 1 \/ i = 2 \/ i = 3
    OBVIOUS
  <2> QED BY <1>11, <1>12, <1>13, <1>14, <2>1
<1>16. PutDisks(k, v) = D
  BY <1>4 DEF D
<1> QED BY <1>10, <1>11, <1>15, <1>16

(* A stored record is of one key.                                          *)
LEMMA StoreOf ==
  ASSUME NEW n \in Nat \ {0}, NEW p \in 1 .. n, NEW k \in Keys
  PROVE  Store(k, p) \in Records(n) /\ Store(k, p).keys = {k} /\ Store(k, p).place = p
<1>1. \E l \in Keys, q \in 1 .. n : Store(k, p) = Store(l, q)
  OBVIOUS
<1>2. Store(k, p) \in Records(n)
  BY <1>1 DEF Records
<1> QED BY <1>2 DEF Store

(* put(): the key is at a new place, and nobody is at its old one.         *)
LEMMA PutInv ==
  ASSUME IInv, NEW k \in Keys, NEW v \in Values, Put(k, v)
  PROVE  IInv'
<1> DEFINE n == used + 1
           D == PutDisks(k, v)
<1>1. /\ mode = "open" /\ used < MaxPlaces /\ mode' = "open" /\ used' = n
      /\ map' = [map EXCEPT ![k] = n] /\ removing' = removing \ {k}
      /\ latest' = [latest EXCEPT ![k] = v] /\ cut' = cut \ {k} /\ checkCompactor
      /\ disk' = D[Len(D)]
  BY DEF Put, Completes, history
<1>2. /\ used \in Nat /\ MaxPlaces \in Nat /\ Binlog \in Seq(Records(used))
      /\ \A l \in Keys : Where(disk, l) \in 0 .. used /\ map[l] \in 0 .. used
      /\ \A l \in Keys : map[l] /= NoPlace => Where(disk, l) = map[l]
      /\ spent.faults = 0 =>
           \A l \in Keys : map[l] = NoPlace => FileAt(disk, Where(disk, l)) = None
      /\ \A l, j \in Keys : l /= j =>
              /\ map[l] = map[j] => map[l] = NoPlace
              /\ Where(disk, l) = Where(disk, j) => Where(disk, l) = NoPlace
  BY <1>1, OpenOf
<1>3. /\ map \in [Keys -> 0 .. used] /\ latest \in [Keys -> Values \cup {None}]
      /\ cut \subseteq Keys /\ removing \subseteq Keys /\ IsFiniteSet(removing) /\ Cardinality(removing) < MaxBundledRecords
  BY DEF IInv, Types
<1>4. /\ IsDisk(disk', n) /\ DOMAIN disk'.logs = {"binlog"}
      /\ disk'.logs["binlog"] = Binlog \o <<Store(k, n)>>
      /\ \A l \in Keys : Where(disk', l) = IF l = k THEN n ELSE Where(disk, l)
      /\ \A p \in Places :
           disk'.files[p] = IF p = map[k] THEN None ELSE IF p = n THEN v ELSE disk.files[p]
  <2>1. Len(D) = 3 /\ PutDone(3, D[3], k, v) /\ D[3].logs["binlog"] = Binlog \o <<Store(k, n)>>
    BY <1>1, PutDisksOf
  <2> HIDE DEF D
  <2> QED BY <1>1, <2>1 DEF PutDone
<1> HIDE DEF D
<1>5. \A l \in Keys : map'[l] = (IF l = k THEN n ELSE map[l])
                      /\ latest'[l] = (IF l = k THEN v ELSE latest[l])
  BY <1>1, <1>3
<1>expected. \A l \in Keys : Expected(l)' = IF l = k THEN v ELSE Expected(l)
  BY <1>1, <1>5 DEF Expected
<1>6. n \in Nat /\ n \in Places /\ n /= NoPlace /\ n > used
  BY <1>1, <1>2 DEF Places, NoPlace
<1> HIDE DEF n
<1>7. Places = 1 .. MaxPlaces /\ NoPlace = 0
  BY DEF Places, NoPlace
<1>8. /\ FileAt(disk', n) = v
      /\ \A p \in 0 .. used : FileAt(disk', p) = IF p = map[k] THEN None ELSE FileAt(disk, p)
  <2>1. map[k] /= n
    BY <1>2, <1>6
  <2>2. FileAt(disk', n) = v
    BY <1>4, <1>6, <2>1 DEF FileAt
  <2>3. ASSUME NEW p \in 0 .. used
        PROVE  FileAt(disk', p) = IF p = map[k] THEN None ELSE FileAt(disk, p)
    <3>1. CASE p = NoPlace
      BY <3>1 DEF FileAt
    <3>2. CASE p /= NoPlace
      <4>1. p \in Places /\ p /= n
        BY <1>2, <1>6, <1>7, <3>2
      <4> QED BY <1>4, <3>2, <4>1 DEF FileAt
    <3> QED BY <3>1, <3>2
  <2> QED BY <2>2, <2>3
<1>9. \A l \in Keys : l /= k => /\ FileAt(disk', map'[l]) = FileAt(disk, map[l])
                                /\ FileAt(disk', Where(disk', l)) = FileAt(disk, Where(disk, l))
  <2>1. ASSUME NEW l \in Keys, l /= k
        PROVE  /\ map[l] = map[k] => FileAt(disk, map[l]) = None
               /\ Where(disk, l) = map[k] => FileAt(disk, Where(disk, l)) = None
    BY <1>2, <2>1 DEF FileAt
  <2> QED BY <1>2, <1>4, <1>5, <1>8, <2>1
<1>10. Binlog' = Binlog \o <<Store(k, n)>> /\ Binlog' \in Seq(Records(n))
  BY <1>4 DEF Binlog, IsDisk
<1>11. /\ compactor' \in [state : {"none", "copying", "done"}, till : Nat, pos : Nat,
                          last : Nat, log : Seq(Records(n))]
       /\ spent' \in [stops : Nat, faults : Nat, moves : Nat, compactions : Nat]
       /\ spent'.faults = spent.faults
       /\ UNCHANGED compactor \/ Copied'
  <2>1. used' = n /\ used <= n
    BY <1>1, <1>2, <1>6
  <2> QED BY <1>1, <1>6, <1>10, <2>1, CheckedOf
<1>12. Copied'
  <2> DEFINE recs == <<Store(k, n)>>
  <2>0. Store(k, n) \in Records(n) /\ k \in Store(k, n).keys
    <3>1. n \in Nat \ {0} /\ n \in 1 .. n
      BY <1>6, <1>7
    <3> QED BY <3>1, StoreOf
  <2>1. recs \in Seq(Records(n)) /\ 1 \in DOMAIN recs /\ k \in recs[1].keys
    BY <2>0
  <2> HIDE DEF recs
  <2>2. Binlog' = Binlog \o recs
    BY <1>10 DEF recs
  <2>3. \A l \in Keys : map'[l] \in {map[l], NoPlace} \/ \E i \in DOMAIN recs : l \in recs[i].keys
    BY <1>5, <2>1
  <2>4. used <= n
    BY <1>2, <1>6
  <2> QED BY <1>1, <1>6, <1>11, <2>1, <2>2, <2>3, <2>4, CopiedFrame
<1>13. IsFiniteSet(removing') /\ Cardinality(removing') < MaxBundledRecords
  <2>1. removing' \in SUBSET removing
    BY <1>1
  <2>2. IsFiniteSet(removing') /\ Cardinality(removing') <= Cardinality(removing)
    BY <1>3, <2>1, FS_Subset
  <2> QED BY <1>3, <2>2, FS_CardinalityType, CacheAssumption
<1>14. Types'
  <2>1. map' \in [Keys -> 0 .. n]
    BY <1>1, <1>2, <1>3, <1>6
  <2>2. latest' \in [Keys -> Values \cup {None}] /\ cut' \subseteq Keys
    BY <1>1, <1>3
  <2>3. n \in 0 .. MaxPlaces
    BY <1>6, <1>7
  <2> QED BY <1>1, <1>3, <1>4, <1>11, <1>13, <2>1, <2>2, <2>3 DEF Types
<1>15. Modes'
  BY <1>1, <1>4 DEF Modes
<1>16. Apart'
  BY <1>2, <1>4, <1>5, <1>6 DEF Apart
<1>17. Latest'
  BY <1>4, <1>5, <1>8, <1>9 DEF Latest, IInv
<1>18. Agree'
  BY <1>1, <1>2, <1>4, <1>5, <1>6 DEF Agree, IInv
<1>19. Safe'
  BY <1>1, <1>4, <1>5, <1>expected, <1>8, <1>9, <1>11 DEF Safe, IInv
<1> QED BY <1>12, <1>14, <1>15, <1>16, <1>17, <1>18, <1>19 DEF IInv

(* A stop in put(): the key has the old value or the new one.              *)
LEMMA StopInPutInv ==
  ASSUME IInv, NEW k \in Keys, NEW v \in Values, StopInPut(k, v)
  PROVE  IInv'
<1> DEFINE n == used + 1
           D == PutDisks(k, v)
<1>1. PICK i \in 1 .. 3 :
         /\ disk' = D[i]
         /\ latest' = IF i = 1 THEN latest ELSE [latest EXCEPT ![k] = v]
         /\ cut' = IF i = 1 THEN cut ELSE cut \ {k}
  BY DEF StopInPut, history
<1>2. mode = "open" /\ used < MaxPlaces /\ used' = n /\ Stop
  BY DEF StopInPut, history
<1>3. /\ used \in Nat /\ MaxPlaces \in Nat
      /\ \A l \in Keys : Where(disk, l) \in 0 .. used /\ map[l] \in 0 .. used
      /\ \A l \in Keys : map[l] /= NoPlace => Where(disk, l) = map[l]
      /\ spent.faults = 0 =>
           \A l \in Keys : map[l] = NoPlace => FileAt(disk, Where(disk, l)) = None
      /\ \A l, j \in Keys : l /= j =>
              /\ map[l] = map[j] => map[l] = NoPlace
              /\ Where(disk, l) = Where(disk, j) => Where(disk, l) = NoPlace
  BY <1>2, OpenOf
<1>4. latest \in [Keys -> Values \cup {None}] /\ cut \subseteq Keys
  BY DEF IInv, Types
<1>5. /\ IsDisk(disk', n)
      /\ \A l \in Keys : Where(disk', l) = IF i /= 1 /\ l = k THEN n ELSE Where(disk, l)
      /\ \A p \in Places :
           disk'.files[p] = IF i = 3 /\ p = map[k] THEN None ELSE IF p = n THEN v ELSE disk.files[p]
  <2>1. PutDone(i, D[i], k, v)
    BY <1>2, PutDisksOf
  <2> HIDE DEF D
  <2> QED BY <1>1, <2>1 DEF PutDone
<1> HIDE DEF D
<1>6. n \in Nat /\ n \in Places /\ n /= NoPlace /\ n > used /\ n \in 0 .. MaxPlaces
  BY <1>2, <1>3 DEF Places, NoPlace
<1>7. Places = 1 .. MaxPlaces /\ NoPlace = 0
  BY DEF Places, NoPlace
<1> HIDE DEF n
<1>8. /\ FileAt(disk', n) = v
      /\ \A p \in 0 .. used : FileAt(disk', p) = IF i = 3 /\ p = map[k] THEN None ELSE FileAt(disk, p)
  BY <1>2, <1>3, <1>5, <1>6, <1>7 DEF FileAt
<1>9. \A l \in Keys : l /= k =>
        FileAt(disk', Where(disk', l)) = FileAt(disk, Where(disk, l)) /\ latest'[l] = latest[l]
        /\ Expected(l)' = Expected(l)
  <2>1. ASSUME NEW l \in Keys, l /= k
        PROVE  Where(disk, l) = map[k] => FileAt(disk, Where(disk, l)) = None
    BY <1>3, <2>1 DEF FileAt
  <2> QED BY <1>1, <1>3, <1>4, <1>5, <1>8, <2>1 DEF Expected
<1>10. IF i = 1 THEN /\ FileAt(disk', Where(disk', k)) = FileAt(disk, Where(disk, k))
                     /\ latest'[k] = latest[k] /\ Expected(k)' = Expected(k)
                ELSE FileAt(disk', Where(disk', k)) = v /\ latest'[k] = v /\ Expected(k)' = v
  BY <1>1, <1>3, <1>4, <1>5, <1>8 DEF Expected
<1>11. latest' \in [Keys -> Values \cup {None}] /\ cut' \subseteq Keys
  BY <1>1, <1>4
<1>12. \A l, j \in Keys :
         l /= j /\ Where(disk', l) = Where(disk', j) => Where(disk', l) = NoPlace
  BY <1>3, <1>5, <1>6
<1>13. \A l \in Keys : FileAt(disk', Where(disk', l)) \in {None, latest'[l]}
  BY <1>9, <1>10 DEF IInv, Latest
<1>14. spent.faults = 0 => \A l \in Keys : FileAt(disk', Where(disk', l)) = Expected(l)'
  BY <1>9, <1>10 DEF IInv, Safe
<1>15. IsDisk(disk, used)' /\ used' \in 0 .. MaxPlaces
  BY <1>2, <1>5, <1>6
<1> QED BY <1>2, <1>11, <1>12, <1>13, <1>14, <1>15, StopInv

(* The failing steps: the disk does not fail for nothing.                  *)
LEMMA FailedInv ==
  ASSUME IInv, mode' = "failed", used' \in used .. MaxPlaces,
         spent' \in [stops : Nat, faults : Nat, moves : Nat, compactions : Nat],
         spent'.faults /= 0,
         map' \in [Keys -> 0 .. used], \A k \in Keys : map'[k] \in {map[k], NoPlace},
         removing' \subseteq removing, compactor' \in {compactor, Idle},
         latest' \in [Keys -> Values \cup {None}], cut' \subseteq Keys,
         IsDisk(disk, used)', "ready" \notin DOMAIN disk'.logs,
         \A k \in Keys : Where(disk', k) \in {Where(disk, k), NoPlace},
         \A k \in Keys : /\ FileAt(disk', map'[k]) \in {None, latest'[k]}
                         /\ FileAt(disk', Where(disk', k)) \in {None, latest'[k]}
  PROVE  IInv'
<1>1. /\ used \in Nat /\ used' \in Nat /\ used <= used' /\ used' \in 0 .. MaxPlaces
      /\ compactor \in [state : {"none", "copying", "done"}, till : Nat, pos : Nat,
                        last : Nat, log : Seq(Records(used))]
      /\ IsFiniteSet(removing) /\ Cardinality(removing) < MaxBundledRecords /\ removing \subseteq Keys
  <2>1. /\ used \in 0 .. MaxPlaces
        /\ compactor \in [state : {"none", "copying", "done"}, till : Nat, pos : Nat,
                          last : Nat, log : Seq(Records(used))]
        /\ IsFiniteSet(removing) /\ Cardinality(removing) < MaxBundledRecords /\ removing \subseteq Keys
    BY DEF IInv, Types
  <2>2. used \in Nat /\ used' \in Nat /\ used <= used' /\ used' \in 0 .. MaxPlaces
    <3>1. used \in 0 .. MaxPlaces /\ MaxPlaces \in Nat /\ used' \in used .. MaxPlaces
      BY <2>1, CacheAssumption
    <3> QED BY <3>1
  <2> QED BY <2>1, <2>2
<1>2. Seq(Records(used)) \subseteq Seq(Records(used'))
  BY <1>1, RecordsGrow
<1>3. compactor' \in [state : {"none", "copying", "done"}, till : Nat, pos : Nat,
                      last : Nat, log : Seq(Records(used'))]
  <2>1. <<>> \in Seq(Records(used'))
    OBVIOUS
  <2>2. CASE compactor' = Idle
    BY <2>1, <2>2 DEF Idle
  <2>3. CASE compactor' = compactor
    BY <1>1, <1>2, <2>3
  <2> QED BY <2>2, <2>3
<1>4. IsFiniteSet(removing') /\ Cardinality(removing') < MaxBundledRecords
  <2>1. removing' \in SUBSET removing
    OBVIOUS
  <2>2. IsFiniteSet(removing') /\ Cardinality(removing') <= Cardinality(removing)
    BY <1>1, <2>1, FS_Subset
  <2>3. /\ Cardinality(removing) \in Nat /\ Cardinality(removing') \in Nat
        /\ MaxBundledRecords \in Nat
    BY <1>1, <2>2, FS_CardinalityType, CacheAssumption
  <2> QED BY <1>1, <2>2, <2>3
<1>5. map' \in [Keys -> 0 .. used']
  BY <1>1
<1>6. Types'
  BY <1>1, <1>3, <1>4, <1>5 DEF Types
<1>7. Apart'
  BY DEF IInv, Apart
<1>8. Modes' /\ Latest' /\ Agree' /\ Safe' /\ Copied'
  BY DEF Modes, Latest, Agree, Safe, Copied
<1> QED BY <1>6, <1>7, <1>8 DEF IInv

(* A fault counts.                                                         *)
LEMMA FaultOf ==
  ASSUME IInv, Fault
  PROVE  /\ spent' \in [stops : Nat, faults : Nat, moves : Nat, compactions : Nat]
         /\ spent'.faults /= 0
<1>1. spent \in [stops : Nat, faults : Nat, moves : Nat, compactions : Nat]
  BY DEF IInv, Types
<1>2. spent' = [spent EXCEPT !.faults = @ + 1]
  BY DEF Fault
<1> QED BY <1>1, <1>2

(* The disk and the log are as they were.                                  *)
LEMMA NothingDone ==
  ASSUME IInv, UNCHANGED <<mode, map, disk, latest, cut>>, mode /= "closed", used' \in used .. MaxPlaces,
         removing' \subseteq removing, compactor' \in {compactor, Idle},
         spent' \in [stops : Nat, faults : Nat, moves : Nat, compactions : Nat],
         spent'.faults /= 0 \/ spent'.faults = spent.faults
  PROVE  IInv'
<1>1. /\ used \in Nat /\ used' \in Nat /\ used <= used' /\ used' \in 0 .. MaxPlaces
      /\ compactor \in [state : {"none", "copying", "done"}, till : Nat, pos : Nat,
                        last : Nat, log : Seq(Records(used))]
      /\ IsFiniteSet(removing) /\ Cardinality(removing) < MaxBundledRecords /\ removing \subseteq Keys
      /\ map \in [Keys -> 0 .. used] /\ latest \in [Keys -> Values \cup {None}]
      /\ mode \in {"closed", "open", "failed"} /\ IsDisk(disk, used) /\ cut \subseteq Keys
  <2>1. /\ used \in 0 .. MaxPlaces
        /\ compactor \in [state : {"none", "copying", "done"}, till : Nat, pos : Nat,
                          last : Nat, log : Seq(Records(used))]
        /\ IsFiniteSet(removing) /\ Cardinality(removing) < MaxBundledRecords /\ removing \subseteq Keys
        /\ map \in [Keys -> 0 .. used] /\ latest \in [Keys -> Values \cup {None}]
        /\ mode \in {"closed", "open", "failed"} /\ IsDisk(disk, used) /\ cut \subseteq Keys
    BY DEF IInv, Types
  <2>2. used \in Nat /\ used' \in Nat /\ used <= used' /\ used' \in 0 .. MaxPlaces
    <3>1. used \in 0 .. MaxPlaces /\ MaxPlaces \in Nat /\ used' \in used .. MaxPlaces
      BY <2>1, CacheAssumption
    <3> QED BY <3>1
  <2> QED BY <2>1, <2>2
<1>2. Seq(Records(used)) \subseteq Seq(Records(used'))
  BY <1>1, RecordsGrow
<1>3. compactor' \in [state : {"none", "copying", "done"}, till : Nat, pos : Nat,
                      last : Nat, log : Seq(Records(used'))]
  <2>1. <<>> \in Seq(Records(used'))
    OBVIOUS
  <2>2. CASE compactor' = Idle
    BY <2>1, <2>2 DEF Idle
  <2>3. CASE compactor' = compactor
    BY <1>1, <1>2, <2>3
  <2> QED BY <2>2, <2>3
<1>4. IsFiniteSet(removing') /\ Cardinality(removing') < MaxBundledRecords
  <2>1. removing' \in SUBSET removing
    OBVIOUS
  <2>2. IsFiniteSet(removing') /\ Cardinality(removing') <= Cardinality(removing)
    BY <1>1, <2>1, FS_Subset
  <2>3. /\ Cardinality(removing) \in Nat /\ Cardinality(removing') \in Nat
        /\ MaxBundledRecords \in Nat
    BY <1>1, <2>2, FS_CardinalityType, CacheAssumption
  <2> QED BY <1>1, <2>2, <2>3
<1>5. IsDisk(disk, used')
  BY <1>1, DiskGrows
<1>6. Types'
  BY <1>1, <1>3, <1>4, <1>5 DEF Types
<1>7. Modes' /\ Apart' /\ Latest' /\ Agree' /\ Safe'
  BY DEF IInv, Modes, Apart, Latest, Agree, Safe, Expected
<1>8. Copied'
  BY DEF IInv, Copied, Idle, Since, Pending, Binlog
<1> QED BY <1>6, <1>7, <1>8 DEF IInv

(* A put() that fails leaves the old value.                                *)
LEMMA PutFailsInv ==
  ASSUME IInv, NEW k \in Keys, NEW v \in Values, PutFails(k, v)
  PROVE  IInv'
<1>1. /\ mode = "open" /\ used < MaxPlaces /\ Fault /\ used' = used + 1
      /\ removing' = removing \ {k} /\ mode' \in {"open", "failed"}
      /\ UNCHANGED <<map, compactor, disk, latest, cut>>
  BY DEF PutFails, history
<1>2. used \in Nat /\ MaxPlaces \in Nat /\ used' \in used .. MaxPlaces /\ used' \in Nat
  BY <1>1, OpenOf
<1>3. IsDisk(disk, used) /\ IsDisk(disk, used') /\ DOMAIN disk.logs = {"binlog"}
  BY <1>1, <1>2, OpenOf, DiskGrows
<1>4. CASE mode' = "open"
  BY <1>1, <1>2, <1>4, FaultOf, NothingDone
<1>5. CASE mode' = "failed"
  <2>1. /\ map' \in [Keys -> 0 .. used] /\ latest' \in [Keys -> Values \cup {None}]
        /\ cut' \subseteq Keys
    BY <1>1 DEF IInv, Types
  <2>2. \A l \in Keys : /\ FileAt(disk', map'[l]) \in {None, latest'[l]}
                        /\ FileAt(disk', Where(disk', l)) \in {None, latest'[l]}
    BY <1>1 DEF IInv, Latest
  <2>3. /\ spent' \in [stops : Nat, faults : Nat, moves : Nat, compactions : Nat]
        /\ spent'.faults /= 0
    BY <1>1, FaultOf
  <2> QED BY <1>1, <1>2, <1>3, <1>5, <2>1, <2>2, <2>3, FailedInv
<1> QED BY <1>1, <1>4, <1>5

-----------------------------------------------------------------------------
(* remove() and the bundles of removals.                                   *)

(* Removals of some keys are logged, and one file is taken away.           *)
Logging(d, keys, p) ==
  /\ IsDisk(d, used) /\ DOMAIN d.logs = {"binlog"}
  /\ \E recs \in Seq(Records(used)) : d.logs["binlog"] = Binlog \o recs
  /\ \A l \in Keys : Where(d, l) = IF l \in keys THEN NoPlace ELSE Where(disk, l)
  /\ \A q \in 0 .. MaxPlaces : FileAt(d, q) = IF q = p THEN None ELSE FileAt(disk, q)

(* A full bundle of remove(), with the file.                               *)
LEMMA LoggingOf ==
  ASSUME IInv, mode = "open", NEW keys, keys \subseteq Keys, NEW p \in 0 .. used
  PROVE  Logging(RemoveValue(Logged(disk, keys), p), keys, p)
<1> DEFINE d1 == Logged(disk, keys)
           d2 == RemoveValue(d1, p)
<1>1. /\ used \in Nat /\ MaxPlaces \in Nat /\ used <= MaxPlaces
      /\ IsDisk(disk, used) /\ DOMAIN disk.logs = {"binlog"}
  BY OpenOf
<1>2. /\ IsDisk(d1, used) /\ d1.files = disk.files /\ DOMAIN d1.logs = {"binlog"}
      /\ \E recs \in Seq(Records(used)) : d1.logs["binlog"] = disk.logs["binlog"] \o recs
      /\ \A k \in Keys : Where(d1, k) = IF k \in keys THEN NoPlace ELSE Where(disk, k)
  <2>1. used \in Nat /\ IsDisk(disk, used) /\ DOMAIN disk.logs = {"binlog"} /\ keys \subseteq Keys
    BY <1>1
  <2> QED BY <2>1, LoggedOf
<1> HIDE DEF d1
<1>3. p \in 0 .. MaxPlaces
  BY <1>1
<1>4. /\ IsDisk(d2, used) /\ d2.logs = d1.logs
      /\ \A q \in Places : d2.files[q] = IF q = p THEN None ELSE d1.files[q]
  BY <1>2, <1>3, RemoveValueOf
<1> HIDE DEF d2
<1>5. \A k : Where(d2, k) = Where(d1, k)
  BY <1>4, WhereSame
<1>6. \A q \in 0 .. MaxPlaces : FileAt(d2, q) = IF q = p THEN None ELSE FileAt(disk, q)
  <2>1. \A q \in 0 .. MaxPlaces : q \in Places \/ q = NoPlace
    BY <1>1 DEF Places, NoPlace
  <2> QED BY <1>2, <1>4, <2>1 DEF FileAt
<1>7. Logging(d2, keys, p)
  BY <1>2, <1>4, <1>5, <1>6 DEF Logging, Binlog
<1> QED BY <1>7 DEF d1, d2

(* A bundle is logged when it is full.                                     *)
LEMMA BundleOf ==
  ASSUME IInv, NEW k \in Keys, NEW full, full = (Cardinality(removing \cup {k}) = MaxBundledRecords),
         removing' = IF full THEN {} ELSE removing \cup {k}
  PROVE  /\ removing' \subseteq Keys /\ IsFiniteSet(removing')
         /\ Cardinality(removing') < MaxBundledRecords
<1>1. /\ removing \subseteq Keys /\ IsFiniteSet(removing)
      /\ Cardinality(removing) < MaxBundledRecords /\ MaxBundledRecords \in Nat \ {0}
  BY CacheAssumption DEF IInv, Types
<1>2. CASE full
  BY <1>1, <1>2, FS_EmptySet
<1>3. CASE ~full
  <2>1. /\ IsFiniteSet(removing \cup {k})
        /\ Cardinality(removing \cup {k}) = IF k \in removing THEN Cardinality(removing)
                                            ELSE Cardinality(removing) + 1
    BY <1>1, FS_AddElement
  <2>2. Cardinality(removing) \in Nat
    BY <1>1, FS_CardinalityType
  <2>3. Cardinality(removing \cup {k}) /= MaxBundledRecords
    BY <1>3
  <2> QED BY <1>1, <1>3, <2>1, <2>2, <2>3
<1> QED BY <1>2, <1>3

(* remove(): the log may name the file still, but it is not there.         *)
LEMMA RemoveInv ==
  ASSUME IInv, NEW k \in Keys, Remove(k)
  PROVE  IInv'
<1> DEFINE full == Cardinality(removing \cup {k}) = MaxBundledRecords
           keys == IF full THEN removing \cup {k} ELSE {}
<1>1. /\ mode = "open" /\ mode' = "open" /\ map[k] /= NoPlace
      /\ map' = [map EXCEPT ![k] = NoPlace] /\ latest' = [latest EXCEPT ![k] = None]
      /\ removing' = IF full THEN {} ELSE removing \cup {k}
      /\ UNCHANGED <<compactor, used, spent, cut>>
  BY DEF Remove, Completes, history
<1>2. /\ used \in Nat /\ MaxPlaces \in Nat /\ used <= MaxPlaces
      /\ \A l \in Keys : Where(disk, l) \in 0 .. used /\ map[l] \in 0 .. used
      /\ \A l \in Keys : map[l] /= NoPlace => Where(disk, l) = map[l]
      /\ spent.faults = 0 =>
           \A l \in Keys : map[l] = NoPlace => FileAt(disk, Where(disk, l)) = None
      /\ \A l, j \in Keys : l /= j =>
              /\ map[l] = map[j] => map[l] = NoPlace
              /\ Where(disk, l) = Where(disk, j) => Where(disk, l) = NoPlace
  BY <1>1, OpenOf
<1>3. /\ map \in [Keys -> 0 .. used] /\ latest \in [Keys -> Values \cup {None}]
      /\ removing \subseteq Keys /\ IsFiniteSet(removing)
  BY DEF IInv, Types
<1>4. Logging(disk', keys, map[k])
  <2>1. disk' = RemoveValue(IF full THEN Logged(disk, removing \cup {k}) ELSE disk, map[k])
    BY DEF Remove, Completes, history
  <2>2. disk' = RemoveValue(Logged(disk, keys), map[k])
    BY <2>1 DEF Logged
  <2>3. keys \subseteq Keys
    BY <1>3
  <2> HIDE DEF keys
  <2> QED BY <1>1, <1>2, <2>2, <2>3, LoggingOf
<1>5. \A l \in Keys : map'[l] = (IF l = k THEN NoPlace ELSE map[l])
                      /\ latest'[l] = (IF l = k THEN None ELSE latest[l])
  BY <1>1, <1>3
<1>expected. \A l \in Keys : Expected(l)' = IF l = k THEN None ELSE Expected(l)
  BY <1>1, <1>5 DEF Expected
<1>6. /\ removing' \subseteq Keys /\ IsFiniteSet(removing')
      /\ Cardinality(removing') < MaxBundledRecords
  BY <1>1, BundleOf
<1>7. keys \subseteq removing \cup {k} /\ removing' \subseteq removing \cup {k}
  BY <1>1
<1> HIDE DEF full, keys
<1>8. \A l \in removing : map[l] = NoPlace
  BY <1>1 DEF IInv, Agree
<1>9. \A q \in 0 .. used : q \in 0 .. MaxPlaces
  BY <1>2
<1>10. /\ \A l \in Keys : Where(disk', l) = IF l \in keys THEN NoPlace ELSE Where(disk, l)
       /\ \A q \in 0 .. used : FileAt(disk', q) = IF q = map[k] THEN None ELSE FileAt(disk, q)
       /\ FileAt(disk', NoPlace) = None /\ FileAt(disk, NoPlace) = None
  BY <1>4, <1>9 DEF Logging, FileAt
<1>11. FileAt(disk', map'[k]) = None /\ FileAt(disk', Where(disk', k)) = None
  BY <1>1, <1>2, <1>5, <1>10
<1>12. ASSUME NEW l \in Keys, l /= k
       PROVE  /\ FileAt(disk', map'[l]) = FileAt(disk, map[l])
              /\ FileKept(disk', l)
  <2>1. map[l] /= map[k]
    BY <1>1, <1>2, <1>12
  <2>2. Where(disk, l) /= map[k]
    BY <1>1, <1>2, <1>12
  <2>3. l \in keys => map[l] = NoPlace
    BY <1>7, <1>8, <1>12
  <2> QED BY <1>2, <1>5, <1>10, <1>12, <2>1, <2>2, <2>3 DEF FileKept
<1>13. Types'
  <2>1. map' \in [Keys -> 0 .. used] /\ latest' \in [Keys -> Values \cup {None}]
    BY <1>1, <1>2, <1>3 DEF NoPlace
  <2>2. IsDisk(disk, used)'
    BY <1>1, <1>4 DEF Logging
  <2> QED BY <1>1, <1>6, <2>1, <2>2 DEF IInv, Types
<1>14. Modes'
  BY <1>1, <1>4 DEF Modes, Logging
<1>15. Apart'
  BY <1>2, <1>5, <1>10 DEF Apart
<1>16. Latest'
  BY <1>5, <1>11, <1>12 DEF IInv, Latest, FileKept
<1>17. Agree'
  <2>1. ASSUME NEW l \in Keys
        PROVE  map'[l] /= NoPlace => Where(disk', l) = map'[l]
    <3>1. CASE l = k
      BY <1>5, <3>1
    <3>2. CASE l /= k
      BY <1>2, <1>5, <1>7, <1>8, <1>10, <3>2
    <3> QED BY <3>1, <3>2
  <2>2. \A l \in removing' : map'[l] = NoPlace
    BY <1>5, <1>6, <1>7, <1>8
  <2> QED BY <2>1, <2>2 DEF Agree
<1>18. Safe'
  BY <1>1, <1>5, <1>expected, <1>11, <1>12 DEF IInv, Safe, FileKept
<1>19. Copied'
  <2>1. PICK recs \in Seq(Records(used)) : Binlog' = Binlog \o recs
    BY <1>4 DEF Logging, Binlog
  <2>2. \A l \in Keys : map'[l] \in {map[l], NoPlace}
    BY <1>5
  <2>3. used <= used
    BY <1>2
  <2> QED BY <1>1, <1>2, <2>1, <2>2, <2>3, CopiedFrame
<1> QED BY <1>13, <1>14, <1>15, <1>16, <1>17, <1>18, <1>19 DEF IInv

(* The bundle is not logged, and the file is taken away or stays.          *)
LEMMA BundleFailsInv ==
  ASSUME IInv, NEW k \in Keys, mode = "open", mode' = "failed", Fault, removing' = {},
         map' = [map EXCEPT ![k] = NoPlace], map[k] /= NoPlace,
         \/ disk' = disk /\ latest' = latest
         \/ disk' = RemoveValue(disk, map[k]) /\ latest' = [latest EXCEPT ![k] = None],
         UNCHANGED <<compactor, used, cut>>
  PROVE  IInv'
<1>1. /\ used \in Nat /\ MaxPlaces \in Nat /\ used <= MaxPlaces
      /\ \A l \in Keys : Where(disk, l) \in 0 .. used /\ map[l] \in 0 .. used
      /\ Where(disk, k) = map[k] /\ IsDisk(disk, used) /\ DOMAIN disk.logs = {"binlog"}
  BY OpenOf
<1>2. /\ map \in [Keys -> 0 .. used] /\ latest \in [Keys -> Values \cup {None}] /\ cut \subseteq Keys
  BY DEF IInv, Types
<1>3. /\ map' \in [Keys -> 0 .. used] /\ latest' \in [Keys -> Values \cup {None}]
      /\ \A l \in Keys : map'[l] = (IF l = k THEN NoPlace ELSE map[l])
  BY <1>1, <1>2 DEF NoPlace
<1>4. \A l \in Keys : {FileAt(disk, map[l]), FileAt(disk, Where(disk, l))} \subseteq {None, latest[l]}
  BY DEF IInv, Latest
<1>5. FileAt(disk, NoPlace) = None /\ FileAt(disk', NoPlace) = None
  BY DEF FileAt
<1>6. /\ IsDisk(disk', used) /\ "ready" \notin DOMAIN disk'.logs
      /\ \A l \in Keys : Where(disk', l) = Where(disk, l)
      /\ \A l \in Keys : /\ FileAt(disk', map'[l]) \in {None, latest'[l]}
                         /\ FileAt(disk', Where(disk', l)) \in {None, latest'[l]}
  <2>1. CASE disk' = disk /\ latest' = latest
    BY <1>1, <1>3, <1>4, <1>5, <2>1
  <2>2. CASE disk' = RemoveValue(disk, map[k]) /\ latest' = [latest EXCEPT ![k] = None]
    <3>1. Logging(disk', {}, map[k])
      <4>1. disk' = RemoveValue(Logged(disk, {}), map[k])
        BY <2>2 DEF Logged
      <4> QED BY <1>1, <4>1, LoggingOf
    <3>2. /\ \A l \in Keys : Where(disk', l) = Where(disk, l)
          /\ \A q \in 0 .. MaxPlaces :
               FileAt(disk', q) = IF q = map[k] THEN None ELSE FileAt(disk, q)
          /\ IsDisk(disk', used) /\ "ready" \notin DOMAIN disk'.logs
      BY <3>1 DEF Logging
    <3>3. \A l \in Keys : map'[l] \in 0 .. MaxPlaces /\ Where(disk, l) \in 0 .. MaxPlaces
      BY <1>1, <1>3 DEF NoPlace
    <3>4. ASSUME NEW l \in Keys
          PROVE  /\ FileAt(disk', map'[l]) \in {None, latest'[l]}
                 /\ FileAt(disk', Where(disk', l)) \in {None, latest'[l]}
      <4>1. CASE l = k
        BY <1>1, <1>3, <1>5, <3>2, <3>3, <4>1
      <4>2. CASE l /= k
        <5>1. latest'[l] = latest[l]
          BY <1>2, <2>2, <4>2
        <5> QED BY <1>3, <1>4, <3>2, <3>3, <4>2, <5>1
      <4> QED BY <4>1, <4>2
    <3> QED BY <3>2, <3>4
  <2> QED BY <2>1, <2>2
<1>7. used' \in used .. MaxPlaces /\ IsDisk(disk, used)' /\ cut' \subseteq Keys
  BY <1>1, <1>2, <1>6
<1>8. \A l \in Keys : map'[l] \in {map[l], NoPlace}
  BY <1>3
<1> QED BY <1>3, <1>6, <1>7, <1>8, FaultOf, FailedInv

(* The file stays: the log may name it still, and it has the latest value. *)
LEMMA FileStaysInv ==
  ASSUME IInv, NEW k \in Keys, NEW full, full = (Cardinality(removing \cup {k}) = MaxBundledRecords),
         mode = "open", mode' = "open", Fault,
         removing' = IF full THEN {} ELSE removing \cup {k},
         disk' = IF full THEN Logged(disk, removing \cup {k}) ELSE disk,
         map' = [map EXCEPT ![k] = NoPlace], UNCHANGED <<compactor, used, latest, cut>>
  PROVE  IInv'
<1> DEFINE keys == IF full THEN removing \cup {k} ELSE {}
<1>1. /\ used \in Nat /\ MaxPlaces \in Nat /\ used <= MaxPlaces
      /\ \A l \in Keys : Where(disk, l) \in 0 .. used /\ map[l] \in 0 .. used
      /\ \A l \in Keys : map[l] /= NoPlace => Where(disk, l) = map[l]
      /\ \A l, j \in Keys : l /= j =>
              /\ map[l] = map[j] => map[l] = NoPlace
              /\ Where(disk, l) = Where(disk, j) => Where(disk, l) = NoPlace
  BY OpenOf
<1>2. /\ map \in [Keys -> 0 .. used] /\ removing \subseteq Keys
      /\ \A l \in removing : map[l] = NoPlace
  BY DEF IInv, Types, Agree
<1>3. Logging(disk', keys, NoPlace)
  <2>1. disk' = Logged(disk, keys)
    BY DEF Logged
  <2>2. keys \subseteq Keys
    BY <1>2
  <2>3. RemoveValue(Logged(disk, keys), NoPlace) = Logged(disk, keys)
    BY DEF RemoveValue
  <2>4. NoPlace \in 0 .. used
    BY <1>1 DEF NoPlace
  <2> HIDE DEF keys
  <2> QED BY <2>1, <2>2, <2>3, <2>4, LoggingOf
<1>4. \A l \in Keys : map'[l] = (IF l = k THEN NoPlace ELSE map[l])
  BY <1>2
<1>5. /\ removing' \subseteq Keys /\ IsFiniteSet(removing')
      /\ Cardinality(removing') < MaxBundledRecords
  BY BundleOf
<1>6. /\ keys \subseteq removing \cup {k} /\ removing' \subseteq removing \cup {k}
  OBVIOUS
<1> HIDE DEF keys
<1>7. /\ spent' \in [stops : Nat, faults : Nat, moves : Nat, compactions : Nat]
      /\ spent'.faults /= 0
  BY FaultOf
<1>8. /\ \A l \in Keys : Where(disk', l) = IF l \in keys THEN NoPlace ELSE Where(disk, l)
      /\ \A q \in 0 .. used : FileAt(disk', q) = FileAt(disk, q)
      /\ FileAt(disk', NoPlace) = None
  <2>1. \A q \in 0 .. used : q \in 0 .. MaxPlaces
    BY <1>1
  <2> QED BY <1>3, <2>1 DEF Logging, FileAt
<1>9. Types'
  <2>1. map' \in [Keys -> 0 .. used]
    BY <1>1, <1>2 DEF NoPlace
  <2>2. IsDisk(disk, used)'
    BY <1>3 DEF Logging
  <2> QED BY <1>5, <1>7, <2>1, <2>2 DEF IInv, Types
<1>10. Modes'
  BY <1>3 DEF Modes, Logging
<1>11. Apart'
  BY <1>1, <1>4, <1>8 DEF Apart
<1>12. Latest'
  <2>1. \A l \in Keys : {FileAt(disk, map[l]), FileAt(disk, Where(disk, l))} \subseteq {None, latest[l]}
    BY DEF IInv, Latest
  <2> QED BY <1>1, <1>4, <1>8, <2>1 DEF Latest
<1>13. Agree'
  BY <1>1, <1>2, <1>4, <1>5, <1>6, <1>8 DEF Agree
<1>14. Safe'
  BY <1>7 DEF Safe
<1>15. Copied'
  <2>1. PICK recs \in Seq(Records(used)) : Binlog' = Binlog \o recs
    BY <1>3 DEF Logging, Binlog
  <2>2. \A l \in Keys : map'[l] \in {map[l], NoPlace}
    BY <1>4
  <2>3. used <= used
    BY <1>1
  <2> QED BY <1>1, <2>1, <2>2, <2>3, CopiedFrame
<1> QED BY <1>9, <1>10, <1>11, <1>12, <1>13, <1>14, <1>15 DEF IInv

(* remove() with a file that stays, or a bundle that is not logged.        *)
LEMMA RemoveFailsInv ==
  ASSUME IInv, NEW k \in Keys, RemoveFails(k)
  PROVE  IInv'
<1> DEFINE full == Cardinality(removing \cup {k}) = MaxBundledRecords
<1>1. /\ mode = "open" /\ map[k] /= NoPlace /\ Fault
      /\ map' = [map EXCEPT ![k] = NoPlace] /\ UNCHANGED <<compactor, used, cut>>
  BY DEF RemoveFails
<1>2. CASE /\ full /\ mode' = "failed" /\ removing' = {}
           /\ \/ disk' = disk /\ latest' = latest
              \/ disk' = RemoveValue(disk, map[k]) /\ latest' = [latest EXCEPT ![k] = None]
  BY <1>1, <1>2, BundleFailsInv
<1>3. CASE /\ removing' = IF full THEN {} ELSE removing \cup {k}
           /\ disk' = IF full THEN Logged(disk, removing \cup {k}) ELSE disk
           /\ mode' = mode /\ latest' = latest
  BY <1>1, <1>3, FileStaysInv
<1>4. \/ /\ full /\ mode' = "failed" /\ removing' = {}
         /\ \/ disk' = disk /\ latest' = latest
            \/ disk' = RemoveValue(disk, map[k]) /\ latest' = [latest EXCEPT ![k] = None]
      \/ /\ removing' = IF full THEN {} ELSE removing \cup {k}
         /\ disk' = IF full THEN Logged(disk, removing \cup {k}) ELSE disk
         /\ mode' = mode /\ latest' = latest
  BY DEF RemoveFails, Completes
<1> HIDE DEF full
<1> QED BY <1>2, <1>3, <1>4

(* The timer of the bundles.                                               *)
LEMMA BundleLogged ==
  ASSUME IInv, mode = "open", NEW keys, keys \subseteq Keys
  PROVE  Logging(Logged(disk, keys), keys, NoPlace)
<1>1. RemoveValue(Logged(disk, keys), NoPlace) = Logged(disk, keys)
  BY DEF RemoveValue
<1>2. NoPlace \in 0 .. used
  BY OpenOf DEF NoPlace
<1> QED BY <1>1, <1>2, LoggingOf

(* The bundle only removes keys that are not in the map.                   *)
LEMMA WriteBundlesInv ==
  ASSUME IInv, WriteBundles
  PROVE  IInv'
<1>1. /\ mode = "open" /\ mode' = "open" /\ removing' = {} /\ checkCompactor
      /\ disk' = Logged(disk, removing) /\ UNCHANGED <<map, used, latest, cut>>
  BY DEF WriteBundles, Completes, history
<1>2. /\ used \in Nat /\ MaxPlaces \in Nat /\ used <= MaxPlaces /\ Binlog \in Seq(Records(used))
      /\ \A l \in Keys : Where(disk, l) \in 0 .. used /\ map[l] \in 0 .. used
      /\ \A l \in Keys : map[l] /= NoPlace => Where(disk, l) = map[l]
      /\ spent.faults = 0 =>
           \A l \in Keys : map[l] = NoPlace => FileAt(disk, Where(disk, l)) = None
      /\ \A l, j \in Keys : l /= j =>
              /\ map[l] = map[j] => map[l] = NoPlace
              /\ Where(disk, l) = Where(disk, j) => Where(disk, l) = NoPlace
  BY <1>1, OpenOf
<1>3. removing \subseteq Keys /\ \A l \in removing : map[l] = NoPlace
  BY <1>1 DEF IInv, Types, Agree
<1>4. Logging(disk', removing, NoPlace)
  BY <1>1, <1>3, BundleLogged
<1>5. /\ \A l \in Keys : Where(disk', l) = IF l \in removing THEN NoPlace ELSE Where(disk, l)
      /\ \A q \in 0 .. used : FileAt(disk', q) = FileAt(disk, q)
      /\ FileAt(disk', NoPlace) = None /\ FileAt(disk, NoPlace) = None
  <2>1. \A q \in 0 .. used : q \in 0 .. MaxPlaces
    BY <1>2
  <2> QED BY <1>4, <2>1 DEF Logging, FileAt
<1>6. \A l \in Keys :
        /\ FileAt(disk', map'[l]) = FileAt(disk, map[l])
        /\ FileKept(disk', l)
  BY <1>1, <1>2, <1>3, <1>5 DEF FileKept
<1>7. PICK recs \in Seq(Records(used)) : Binlog' = Binlog \o recs
  BY <1>4 DEF Logging, Binlog
<1>8. Binlog' \in Seq(Records(used)) /\ IsDisk(disk', used) /\ DOMAIN disk'.logs = {"binlog"}
  BY <1>4 DEF Logging, IsDisk, Binlog
<1>9. /\ compactor' \in [state : {"none", "copying", "done"}, till : Nat, pos : Nat,
                         last : Nat, log : Seq(Records(used'))]
      /\ spent' \in [stops : Nat, faults : Nat, moves : Nat, compactions : Nat]
      /\ spent'.faults = spent.faults
      /\ UNCHANGED compactor \/ Copied'
  <2>1. used' \in Nat /\ used <= used' /\ Binlog' \in Seq(Records(used'))
    BY <1>1, <1>2, <1>8
  <2> QED BY <1>1, <2>1, CheckedOf
<1>10. Copied'
  <2>1. used <= used /\ \A l \in Keys : map'[l] \in {map[l], NoPlace}
    BY <1>1, <1>2
  <2> QED BY <1>1, <1>2, <1>7, <1>9, <2>1, CopiedFrame
<1>11. Types'
  <2>1. /\ mode' \in {"closed", "open", "failed"} /\ used' \in 0 .. MaxPlaces
        /\ map' \in [Keys -> 0 .. used'] /\ latest' \in [Keys -> Values \cup {None}]
        /\ cut' \subseteq Keys
    BY <1>1 DEF IInv, Types
  <2>2. /\ removing' \subseteq Keys /\ IsFiniteSet(removing')
        /\ Cardinality(removing') < MaxBundledRecords
    BY <1>1, FS_EmptySet, CacheAssumption
  <2>3. IsDisk(disk, used)'
    BY <1>1, <1>8
  <2> QED BY <1>9, <2>1, <2>2, <2>3 DEF Types
<1>12. Modes' /\ Apart'
  BY <1>1, <1>2, <1>5, <1>8 DEF Modes, Apart
<1>13. Latest' /\ Safe'
  BY <1>1, <1>6, <1>9 DEF IInv, Latest, Safe, Expected, FileKept
<1>14. Agree'
  BY <1>1, <1>2, <1>3, <1>5 DEF Agree
<1> QED BY <1>10, <1>11, <1>12, <1>13, <1>14 DEF IInv

(* The bundle is lost, and the log is closed.                              *)
LEMMA WriteBundlesFailsInv ==
  ASSUME IInv, WriteBundlesFails
  PROVE  IInv'
<1>1. /\ mode = "open" /\ mode' = "failed" /\ removing' = {} /\ Fault
      /\ UNCHANGED <<map, compactor, disk, used, latest, cut>>
  BY DEF WriteBundlesFails, history
<1>2. /\ used \in Nat /\ MaxPlaces \in Nat /\ used <= MaxPlaces
      /\ IsDisk(disk, used) /\ DOMAIN disk.logs = {"binlog"}
  BY <1>1, OpenOf
<1>3. /\ map' \in [Keys -> 0 .. used] /\ latest' \in [Keys -> Values \cup {None}]
      /\ cut' \subseteq Keys
  BY <1>1 DEF IInv, Types
<1>4. \A l \in Keys : /\ FileAt(disk', map'[l]) \in {None, latest'[l]}
                      /\ FileAt(disk', Where(disk', l)) \in {None, latest'[l]}
  BY <1>1 DEF IInv, Latest
<1>5. used' \in used .. MaxPlaces /\ IsDisk(disk, used)' /\ "ready" \notin DOMAIN disk'.logs
  BY <1>1, <1>2
<1> QED BY <1>1, <1>3, <1>4, <1>5, FaultOf, FailedInv

-----------------------------------------------------------------------------
(* close() and a crash.                                                    *)

(* Nothing is written any more.                                            *)
LEMMA CrashInv ==
  ASSUME IInv, mode /= "closed", Stop, UNCHANGED <<disk, used, latest, cut>>
  PROVE  IInv'
<1>1. /\ used' \in 0 .. MaxPlaces /\ IsDisk(disk, used)' /\ latest' \in [Keys -> Values \cup {None}]
      /\ cut' \subseteq Keys
  BY DEF IInv, Types
<1>2. \A k, l \in Keys :
        k /= l /\ Where(disk', k) = Where(disk', l) => Where(disk', k) = NoPlace
  BY DEF IInv, Apart
<1>3. \A k \in Keys : FileAt(disk', Where(disk', k)) \in {None, latest'[k]}
  BY DEF IInv, Latest
<1>4. spent.faults = 0 => \A k \in Keys : FileAt(disk', Where(disk', k)) = Expected(k)'
  BY DEF IInv, Safe, Expected
<1> QED BY <1>1, <1>2, <1>3, <1>4, StopInv

(* close() logs the last bundle.                                           *)
LEMMA CloseInv ==
  ASSUME IInv, Close
  PROVE  IInv'
<1>1. CASE mode /= "open"
  <2>1. mode /= "closed" /\ Stop /\ UNCHANGED <<disk, used, latest, cut>>
    BY <1>1 DEF Close, history
  <2> QED BY <2>1, CrashInv
<1>2. CASE mode = "open"
  <2>1. Stop /\ disk' = Logged(disk, removing) /\ UNCHANGED <<used, latest, cut>>
    BY <1>2 DEF Close, history
  <2>2. removing \subseteq Keys /\ \A l \in removing : map[l] = NoPlace
    BY <1>2 DEF IInv, Types, Agree
  <2>3. Logging(disk', removing, NoPlace)
    BY <1>2, <2>1, <2>2, BundleLogged
  <2>4. /\ used \in Nat /\ MaxPlaces \in Nat /\ used <= MaxPlaces
        /\ \A l \in Keys : Where(disk, l) \in 0 .. used /\ map[l] \in 0 .. used
        /\ spent.faults = 0 =>
             \A l \in Keys : map[l] = NoPlace => FileAt(disk, Where(disk, l)) = None
        /\ \A l, j \in Keys :
             l /= j /\ Where(disk, l) = Where(disk, j) => Where(disk, l) = NoPlace
    BY <1>2, OpenOf
  <2>5. /\ \A l \in Keys : Where(disk', l) = IF l \in removing THEN NoPlace ELSE Where(disk, l)
        /\ \A q \in 0 .. used : FileAt(disk', q) = FileAt(disk, q)
        /\ FileAt(disk', NoPlace) = None /\ FileAt(disk, NoPlace) = None
    <3>1. \A q \in 0 .. used : q \in 0 .. MaxPlaces
      BY <2>4
    <3> QED BY <2>3, <3>1 DEF Logging, FileAt
  <2>6. \A l \in Keys : FileKept(disk', l)
    BY <2>2, <2>4, <2>5 DEF FileKept
  <2>7. /\ used' \in 0 .. MaxPlaces /\ IsDisk(disk, used)' /\ latest' \in [Keys -> Values \cup {None}]
        /\ cut' \subseteq Keys
    BY <2>1, <2>3 DEF IInv, Types, Logging
  <2>8. \A k, l \in Keys :
          k /= l /\ Where(disk', k) = Where(disk', l) => Where(disk', k) = NoPlace
    BY <2>4, <2>5
  <2>9. \A k \in Keys : FileAt(disk', Where(disk', k)) \in {None, latest'[k]}
    BY <2>1, <2>6 DEF IInv, Latest, FileKept
  <2>10. spent.faults = 0 => \A k \in Keys : FileAt(disk', Where(disk', k)) = Expected(k)'
    BY <2>1, <2>6 DEF IInv, Safe, Expected, FileKept
  <2> QED BY <2>1, <2>7, <2>8, <2>9, <2>10, StopInv
<1> QED BY <1>1, <1>2

-----------------------------------------------------------------------------
(* moveIfEmpty().                                                          *)

(* The removal of the old key is logged together with others, and then     *)
(* what the new key gets.                                                  *)
LEMMA MoveDisksOf ==
  ASSUME IInv, mode = "open", NEW from \in Keys, NEW to \in Keys, MayMove(from, to)
  PROVE  LET d == MoveDisks(from, to)
             keys == removing \cup {from}
             rec == Store(to, map[from])
         IN  /\ Len(d) = 2
             /\ Logging(d[1], keys, NoPlace)
             /\ IsDisk(d[2], used) /\ DOMAIN d[2].logs = {"binlog"}
             /\ \A q : FileAt(d[2], q) = FileAt(d[1], q)
             /\ \A l \in Keys : Where(d[2], l) = IF l = to THEN map[from] ELSE Where(d[1], l)
             /\ d[2].logs["binlog"] = d[1].logs["binlog"] \o <<rec>>
             /\ rec \in Records(used) /\ rec.keys = {to}
<1> DEFINE keys == removing \cup {from}
           rec == Store(to, map[from])
           d1 == Logged(disk, keys)
           d2 == AppendTo(d1, "binlog", <<rec>>)
           D == <<d1, d2>>
<1>1. Len(D) = 2 /\ D[1] = d1 /\ D[2] = d2
  OBVIOUS
<1>2. MoveDisks(from, to) = D
  BY DEF MoveDisks
<1> HIDE DEF D
<1>3. keys \subseteq Keys
  BY DEF IInv, Types
<1> HIDE DEF keys
<1>4. Logging(d1, keys, NoPlace)
  BY <1>3, BundleLogged
<1> HIDE DEF d1
<1>5. used \in Nat /\ map[from] \in 1 .. used
  BY OpenOf DEF MayMove, NoPlace
<1>6. rec \in Records(used) /\ rec.keys = {to} /\ rec.place = map[from]
  <2>1. used \in Nat \ {0}
    BY <1>5
  <2> QED BY <1>5, <2>1, StoreOf
<1> HIDE DEF rec
<1>7. IsDisk(d1, used) /\ DOMAIN d1.logs = {"binlog"}
  BY <1>4 DEF Logging
<1>8. /\ IsDisk(d2, used) /\ d2.files = d1.files /\ DOMAIN d2.logs = {"binlog"}
      /\ d2.logs["binlog"] = d1.logs["binlog"] \o <<rec>>
      /\ \A l \in Keys : Where(d2, l) = IF l \in rec.keys THEN rec.place ELSE Where(d1, l)
  BY <1>5, <1>6, <1>7, AppendedOf
<1> HIDE DEF d2
<1>9. \A q : FileAt(d2, q) = FileAt(d1, q)
  BY <1>8 DEF FileAt
<1>10. \A l \in Keys : Where(d2, l) = IF l = to THEN map[from] ELSE Where(d1, l)
  BY <1>6, <1>8
<1> QED BY <1>1, <1>2, <1>4, <1>6, <1>8, <1>9, <1>10 DEF keys, rec

(* moveIfEmpty(): the file gets the other key, and the old key loses it.   *)
LEMMA MoveIfEmptyInv ==
  ASSUME IInv, NEW from \in Keys, NEW to \in Keys, MoveIfEmpty(from, to)
  PROVE  IInv'
<1> DEFINE keys == removing \cup {from}
           rec == Store(to, map[from])
           D == MoveDisks(from, to)
<1>1. /\ mode = "open" /\ mode' = "open" /\ MayMove(from, to) /\ removing' = {}
      /\ map' = [map EXCEPT ![to] = map[from], ![from] = NoPlace]
      /\ latest' = [latest EXCEPT ![to] = Read(map, from), ![from] = None]
      /\ cut' = cut \ {to}
      /\ spent' = [spent EXCEPT !.moves = @ + 1] /\ UNCHANGED <<compactor, used>>
      /\ disk' = D[Len(D)]
  BY DEF MoveIfEmpty, Completes, history
<1>2. from /= to /\ map[to] = NoPlace /\ map[from] /= NoPlace
  BY <1>1 DEF MayMove
<1>3. /\ used \in Nat /\ MaxPlaces \in Nat /\ used <= MaxPlaces /\ Binlog \in Seq(Records(used))
      /\ \A l \in Keys : Where(disk, l) \in 0 .. used /\ map[l] \in 0 .. used
      /\ \A l \in Keys : map[l] /= NoPlace => Where(disk, l) = map[l]
      /\ spent.faults = 0 =>
           \A l \in Keys : map[l] = NoPlace => FileAt(disk, Where(disk, l)) = None
      /\ \A l, j \in Keys : l /= j =>
              /\ map[l] = map[j] => map[l] = NoPlace
              /\ Where(disk, l) = Where(disk, j) => Where(disk, l) = NoPlace
  BY <1>1, OpenOf
<1>4. /\ map \in [Keys -> 0 .. used] /\ latest \in [Keys -> Values \cup {None}]
      /\ spent \in [stops : Nat, faults : Nat, moves : Nat, compactions : Nat]
      /\ cut \subseteq Keys /\ removing \subseteq Keys /\ \A l \in removing : map[l] = NoPlace
  BY <1>1 DEF IInv, Types, Agree
<1>5. /\ Len(D) = 2 /\ Logging(D[1], keys, NoPlace)
      /\ IsDisk(D[2], used) /\ DOMAIN D[2].logs = {"binlog"}
      /\ \A q : FileAt(D[2], q) = FileAt(D[1], q)
      /\ \A l \in Keys : Where(D[2], l) = IF l = to THEN map[from] ELSE Where(D[1], l)
      /\ D[2].logs["binlog"] = D[1].logs["binlog"] \o <<rec>>
      /\ rec \in Records(used) /\ rec.keys = {to}
  BY <1>1, MoveDisksOf
<1>6. disk' = D[2]
  BY <1>1, <1>5
<1> HIDE DEF D, rec, keys
<1>7. /\ \A l \in Keys : Where(disk', l) = IF l = to THEN map[from]
                                           ELSE IF l \in keys THEN NoPlace ELSE Where(disk, l)
      /\ \A q \in 0 .. used : FileAt(disk', q) = FileAt(disk, q)
      /\ FileAt(disk', NoPlace) = None /\ FileAt(disk, NoPlace) = None
  <2>1. \A q \in 0 .. used : q \in 0 .. MaxPlaces
    BY <1>3
  <2> QED BY <1>5, <1>6, <2>1 DEF Logging, FileAt
<1>8. \A l \in Keys :
        /\ map'[l] = IF l = from THEN NoPlace ELSE IF l = to THEN map[from] ELSE map[l]
        /\ latest'[l] = IF l = from THEN None
                        ELSE IF l = to THEN FileAt(disk, map[from]) ELSE latest[l]
  <2>1. Read(map, from) = FileAt(disk, map[from])
    BY DEF Read, FileAt
  <2> QED BY <1>1, <1>4, <2>1
<1>expected. \A l \in Keys :
               Expected(l)' = IF l = from THEN None
                              ELSE IF l = to THEN FileAt(disk, map[from]) ELSE Expected(l)
  BY <1>1, <1>2, <1>8 DEF Expected
<1>9. \A l \in Keys : l \in keys => l = from \/ map[l] = NoPlace
  BY <1>4 DEF keys
<1>10. from \in keys
  BY DEF keys
<1>11. /\ FileAt(disk', map'[from]) = None /\ FileAt(disk', Where(disk', from)) = None
       /\ latest'[from] = None
  BY <1>2, <1>7, <1>8, <1>10
<1>12. /\ FileAt(disk', map'[to]) = latest'[to] /\ FileAt(disk', Where(disk', to)) = latest'[to]
       /\ Where(disk', to) = map'[to]
  BY <1>2, <1>3, <1>7, <1>8
<1>13. ASSUME NEW l \in Keys, l /= from, l /= to
       PROVE  /\ FileAt(disk', map'[l]) = FileAt(disk, map[l]) /\ latest'[l] = latest[l]
              /\ FileKept(disk', l) /\ map'[l] = map[l]
  BY <1>3, <1>7, <1>8, <1>9, <1>13 DEF FileKept
<1>14. Types'
  <2>1. /\ mode' \in {"closed", "open", "failed"} /\ used' \in 0 .. MaxPlaces
    BY <1>1, <1>3
  <2>2. /\ removing' \subseteq Keys /\ IsFiniteSet(removing')
        /\ Cardinality(removing') < MaxBundledRecords
    BY <1>1, FS_EmptySet, CacheAssumption
  <2>3. IsDisk(disk, used)'
    BY <1>1, <1>5, <1>6
  <2>4. map' \in [Keys -> 0 .. used']
    <3>1. /\ map \in [Keys -> 0 .. used] /\ map[from] \in 0 .. used /\ NoPlace \in 0 .. used
          /\ used' = used /\ map' = [map EXCEPT ![to] = map[from], ![from] = NoPlace]
      BY <1>1, <1>3, <1>4 DEF NoPlace
    <3> QED BY <3>1
  <2>5. FileAt(disk, map[from]) \in Values \cup {None}
    <3>1. disk.files \in [Places -> Values \cup {None}]
      BY DEF IInv, Types, IsDisk
    <3>2. map[from] \in Places
      BY <1>2, <1>3 DEF NoPlace, Places
    <3> QED BY <1>2, <3>1, <3>2 DEF FileAt
  <2>6. latest' \in [Keys -> Values \cup {None}] /\ cut' \subseteq Keys
    <3>1. Read(map, from) = FileAt(disk, map[from])
      BY DEF Read, FileAt
    <3> QED BY <1>1, <1>4, <2>5, <3>1
  <2>7. compactor' \in [state : {"none", "copying", "done"}, till : Nat, pos : Nat,
                        last : Nat, log : Seq(Records(used'))]
    BY <1>1 DEF IInv, Types
  <2>8. spent' \in [stops : Nat, faults : Nat, moves : Nat, compactions : Nat]
    <3>1. /\ spent' = [spent EXCEPT !.moves = @ + 1]
          /\ spent \in [stops : Nat, faults : Nat, moves : Nat, compactions : Nat]
      BY <1>1, <1>4
    <3> QED BY <3>1
  <2> QED BY <2>1, <2>2, <2>3, <2>4, <2>6, <2>7, <2>8 DEF Types
<1>15. Modes'
  BY <1>1, <1>5, <1>6 DEF Modes
<1>16. Apart'
  <2>1. ASSUME NEW l \in Keys, l /= from
        PROVE  Where(disk, l) /= map[from]
    BY <1>2, <1>3, <2>1
  <2> QED BY <1>2, <1>3, <1>7, <1>8, <1>10, <2>1 DEF Apart
<1>17. Latest'
  <2>1. ASSUME NEW l \in Keys
        PROVE  {FileAt(disk', map'[l]), FileAt(disk', Where(disk', l))} \subseteq {None, latest'[l]}
    <3>1. CASE l = from \/ l = to
      BY <1>11, <1>12, <3>1
    <3>2. CASE l /= from /\ l /= to
      BY <1>13, <3>2 DEF IInv, Latest, FileKept
    <3> QED BY <3>1, <3>2
  <2> QED BY <2>1 DEF Latest
<1>18. Agree'
  <2>1. ASSUME NEW l \in Keys
        PROVE  map'[l] /= NoPlace => Where(disk', l) = map'[l]
    <3>1. CASE l = from
      BY <1>8, <3>1
    <3>2. CASE l = to
      BY <1>2, <1>8, <1>12, <3>2
    <3>3. CASE l /= from /\ l /= to
      BY <1>3, <1>7, <1>9, <1>13, <3>3
    <3> QED BY <3>1, <3>2, <3>3
  <2> QED BY <1>1, <2>1 DEF Agree
<1>19. Safe'
  <2>1. spent'.faults = spent.faults
    BY <1>1, <1>4
  <2>2. ASSUME spent.faults = 0, NEW l \in Keys
        PROVE  FileAt(disk', Where(disk', l)) = Expected(l)' /\ FileAt(disk', map'[l]) = Expected(l)'
    <3>1. CASE l = from \/ l = to
      BY <1>2, <1>8, <1>expected, <1>11, <1>12, <3>1
    <3>2. CASE l /= from /\ l /= to
      BY <1>1, <1>expected, <1>13, <2>2, <3>2 DEF IInv, Safe, FileKept
    <3> QED BY <3>1, <3>2
  <2> QED BY <1>1, <2>1, <2>2 DEF Safe
<1>20. Copied'
  <2>1. PICK recs \in Seq(Records(used)) : D[1].logs["binlog"] = Binlog \o recs
    BY <1>5 DEF Logging
  <2> DEFINE one == <<rec>>
             both == recs \o one
  <2>2. one \in Seq(Records(used)) /\ Len(one) = 1 /\ one[1] = rec
    BY <1>5
  <2>3. Binlog' = (Binlog \o recs) \o one
    BY <1>5, <1>6, <2>1 DEF Binlog
  <2> HIDE DEF one
  <2>4. Binlog' = Binlog \o both /\ both \in Seq(Records(used))
    <3>1. (Binlog \o recs) \o one = Binlog \o (recs \o one)
      <4>1. /\ Binlog \in Seq(Records(used)) /\ recs \in Seq(Records(used))
            /\ one \in Seq(Records(used))
        BY <1>3, <2>2
      <4> QED BY <4>1, ConcatAssociative, SMTT(30)
    <3>2. recs \o one \in Seq(Records(used))
      BY <2>2, ConcatProperties
    <3> QED BY <2>3, <3>1, <3>2
  <2>5. Len(recs) + 1 \in DOMAIN both /\ both[Len(recs) + 1] = rec
    <3>1. /\ Len(recs) \in Nat /\ Len(both) = Len(recs) + 1
          /\ \A i \in 1 .. Len(recs) + 1 :
               both[i] = IF i <= Len(recs) THEN recs[i] ELSE one[i - Len(recs)]
      <4>1. /\ Len(both) = Len(recs) + Len(one)
            /\ \A i \in 1 .. Len(recs) + Len(one) :
                 both[i] = IF i <= Len(recs) THEN recs[i] ELSE one[i - Len(recs)]
        BY <2>2, ConcatProperties
      <4>2. Len(recs) \in Nat
        BY LenProperties
      <4> HIDE DEF both
      <4> QED BY <2>2, <4>1, <4>2
    <3>2. DOMAIN both = 1 .. Len(recs) + 1
      BY <2>4, <3>1, LenProperties
    <3> HIDE DEF both
    <3>3. Len(recs) + 1 \in 1 .. Len(recs) + 1 /\ ~(Len(recs) + 1 <= Len(recs))
          /\ Len(recs) + 1 - Len(recs) = 1
      BY <3>1
    <3> QED BY <2>2, <3>1, <3>2, <3>3
  <2> HIDE DEF both
  <2>6. \A l \in Keys : map'[l] \in {map[l], NoPlace} \/ \E i \in DOMAIN both : l \in both[i].keys
    BY <1>5, <1>8, <2>5
  <2>7. used <= used
    BY <1>3
  <2> QED BY <1>1, <1>3, <2>4, <2>6, <2>7, CopiedFrame
<1> QED BY <1>14, <1>15, <1>16, <1>17, <1>18, <1>19, <1>20 DEF IInv

(* A stop in it loses the value to both keys.                              *)
LEMMA StopInMoveInv ==
  ASSUME IInv, NEW from \in Keys, NEW to \in Keys, StopInMove(from, to)
  PROVE  IInv'
<1> DEFINE keys == removing \cup {from}
           D == MoveDisks(from, to)
<1>1. /\ mode = "open" /\ MayMove(from, to) /\ disk' = D[1] /\ Stop
      /\ cut' = cut \cup {from} /\ UNCHANGED <<used, latest>>
  BY DEF StopInMove, history
<1>2. Logging(disk', keys, NoPlace)
  <2>1. Logging(D[1], keys, NoPlace)
    BY <1>1, MoveDisksOf
  <2> HIDE DEF D, keys
  <2> QED BY <1>1, <2>1
<1>3. from \in keys /\ \A l \in keys : l = from \/ map[l] = NoPlace
  BY <1>1 DEF IInv, Agree
<1> HIDE DEF D, keys
<1>4. /\ used \in Nat /\ MaxPlaces \in Nat /\ used <= MaxPlaces
      /\ \A l \in Keys : Where(disk, l) \in 0 .. used
      /\ spent.faults = 0 =>
           \A l \in Keys : map[l] = NoPlace => FileAt(disk, Where(disk, l)) = None
      /\ \A l, j \in Keys :
           l /= j /\ Where(disk, l) = Where(disk, j) => Where(disk, l) = NoPlace
  BY <1>1, OpenOf
<1>5. /\ \A l \in Keys : Where(disk', l) = IF l \in keys THEN NoPlace ELSE Where(disk, l)
      /\ \A q \in 0 .. used : FileAt(disk', q) = FileAt(disk, q)
      /\ FileAt(disk', NoPlace) = None /\ FileAt(disk, NoPlace) = None
  <2>1. \A q \in 0 .. used : q \in 0 .. MaxPlaces
    BY <1>4
  <2> QED BY <1>2, <2>1 DEF Logging, FileAt
<1>6. latest \in [Keys -> Values \cup {None}] /\ cut \subseteq Keys
  BY DEF IInv, Types
<1>7. \A l \in Keys : Expected(l)' = IF l = from THEN None ELSE Expected(l)
  BY <1>1 DEF Expected
<1>8. FileAt(disk', Where(disk', from)) = None
  BY <1>3, <1>5
<1>9. \A l \in Keys : l /= from => FileKept(disk', l)
  BY <1>3, <1>4, <1>5 DEF FileKept
<1>10. /\ used' \in 0 .. MaxPlaces /\ IsDisk(disk, used)' /\ latest' \in [Keys -> Values \cup {None}]
       /\ cut' \subseteq Keys
  BY <1>1, <1>2, <1>4, <1>6 DEF Logging
<1>11. \A k, l \in Keys :
         k /= l /\ Where(disk', k) = Where(disk', l) => Where(disk', k) = NoPlace
  BY <1>4, <1>5
<1>12. \A k \in Keys : FileAt(disk', Where(disk', k)) \in {None, latest'[k]}
  BY <1>1, <1>8, <1>9 DEF IInv, Latest, FileKept
<1>13. spent.faults = 0 => \A k \in Keys : FileAt(disk', Where(disk', k)) = Expected(k)'
  BY <1>1, <1>7, <1>8, <1>9 DEF IInv, Safe, FileKept
<1> QED BY <1>1, <1>10, <1>11, <1>12, <1>13, StopInv

(* The old key is forgotten, in the log or only in the map.                *)
LEMMA MoveFailsInv ==
  ASSUME IInv, NEW from \in Keys, NEW to \in Keys, MoveFails(from, to)
  PROVE  IInv'
<1>1. /\ mode /= "closed" /\ MayMove(from, to) /\ mode' = "failed" /\ removing' = {}
      /\ map' = [map EXCEPT ![from] = NoPlace] /\ UNCHANGED <<compactor, used, latest, cut>>
  BY DEF MoveFails, history
<1>2. /\ used \in Nat /\ MaxPlaces \in Nat /\ used \in 0 .. MaxPlaces /\ map \in [Keys -> 0 .. used]
      /\ latest \in [Keys -> Values \cup {None}] /\ cut \subseteq Keys /\ IsDisk(disk, used)
      /\ spent \in [stops : Nat, faults : Nat, moves : Nat, compactions : Nat]
  <2>1. /\ used \in 0 .. MaxPlaces /\ map \in [Keys -> 0 .. used]
        /\ latest \in [Keys -> Values \cup {None}] /\ cut \subseteq Keys /\ IsDisk(disk, used)
        /\ spent \in [stops : Nat, faults : Nat, moves : Nat, compactions : Nat]
    BY DEF IInv, Types
  <2>2. used \in Nat /\ MaxPlaces \in Nat
    BY <2>1, CacheAssumption
  <2> QED BY <2>1, <2>2
<1>3. \A l \in Keys : Where(disk, l) \in 0 .. MaxPlaces /\ map[l] \in 0 .. MaxPlaces
  <2>1. \A l \in Keys : Where(disk, l) \in 0 .. used /\ map[l] \in 0 .. used
    BY <1>2, WhereType
  <2> QED BY <1>2, <2>1
<1>4. /\ IsDisk(disk', used) /\ "ready" \notin DOMAIN disk'.logs
      /\ \A l \in Keys : Where(disk', l) \in {Where(disk, l), NoPlace}
      /\ \A q \in 0 .. MaxPlaces : FileAt(disk', q) = FileAt(disk, q)
      /\ spent' \in [stops : Nat, faults : Nat, moves : Nat, compactions : Nat]
      /\ spent'.faults /= 0
  <2>1. CASE mode = "failed" /\ UNCHANGED <<disk, spent>>
    <3>1. "ready" \notin DOMAIN disk.logs /\ spent.faults /= 0
      BY <2>1 DEF IInv, Modes, Safe, Expected
    <3> QED BY <1>2, <2>1, <3>1
  <2>2. CASE mode = "open" /\ Fault /\ disk' \in {disk, MoveDisks(from, to)[1]}
    <3>1. /\ spent' \in [stops : Nat, faults : Nat, moves : Nat, compactions : Nat]
          /\ spent'.faults /= 0
      BY <2>2, FaultOf
    <3>2. CASE disk' = disk
      BY <1>2, <2>2, <3>1, <3>2 DEF IInv, Modes
    <3>3. CASE disk' = MoveDisks(from, to)[1]
      <4>1. Logging(disk', removing \cup {from}, NoPlace)
        BY <1>1, <2>2, <3>3, MoveDisksOf
      <4> QED BY <3>1, <4>1 DEF Logging, FileAt
    <3> QED BY <2>2, <3>2, <3>3
  <2> QED BY <2>1, <2>2 DEF MoveFails, history
<1>5. map' \in [Keys -> 0 .. used] /\ \A l \in Keys : map'[l] \in {map[l], NoPlace}
  BY <1>1, <1>2 DEF NoPlace
<1>6. ASSUME NEW l \in Keys
      PROVE  /\ FileAt(disk', map'[l]) \in {None, latest'[l]}
             /\ FileAt(disk', Where(disk', l)) \in {None, latest'[l]}
  <2>1. {FileAt(disk, map[l]), FileAt(disk, Where(disk, l))} \subseteq {None, latest[l]}
    BY DEF IInv, Latest
  <2>2. FileAt(disk', NoPlace) = None
    BY DEF FileAt
  <2> QED BY <1>1, <1>3, <1>4, <1>5, <2>1, <2>2
<1>7. used' \in used .. MaxPlaces /\ IsDisk(disk, used)' /\ removing' \subseteq removing
      /\ latest' \in [Keys -> Values \cup {None}] /\ cut' \subseteq Keys /\ compactor' = compactor
  BY <1>1, <1>2, <1>4
<1> QED BY <1>1, <1>4, <1>5, <1>6, <1>7, FailedInv

-----------------------------------------------------------------------------
(* open().                                                                 *)

(* A log that is ready takes the place of the other, in two moves.         *)
LEMMA MoveReadyOf ==
  ASSUME NEW n \in Nat, NEW d, IsDisk(d, n), "ready" \in DOMAIN d.logs
  PROVE  LET e == MoveReady(d)
         IN  /\ Len(e) = 2
             /\ \A i \in {1, 2} : /\ IsDisk(e[i], n) /\ e[i].files = d.files
                                  /\ LogOf(e[i]) = d.logs["ready"]
             /\ DOMAIN e[1].logs = {"ready"} /\ e[1].logs["ready"] = d.logs["ready"]
             /\ DOMAIN e[2].logs = {"binlog"} /\ e[2].logs["binlog"] = d.logs["ready"]
<1> DEFINE d1 == RemoveLog(d, "binlog")
           d2 == SetLog(d1, "binlog", d.logs["ready"])
           d3 == RemoveLog(d2, "ready")
           E == <<d1, d3>>
<1>1. Len(E) = 2 /\ E[1] = d1 /\ E[2] = d3
  OBVIOUS
<1>2. MoveReady(d) = E
  BY DEF MoveReady
<1> HIDE DEF E
<1>3. DOMAIN d.logs \subseteq {"binlog", "ready"} /\ d.logs["ready"] \in Seq(Records(n))
  BY DEF IsDisk
<1>4. /\ IsDisk(d1, n) /\ d1.files = d.files /\ DOMAIN d1.logs = DOMAIN d.logs \ {"binlog"}
      /\ \A other \in DOMAIN d.logs \ {"binlog"} : d1.logs[other] = d.logs[other]
  BY RemoveLogOf
<1> HIDE DEF d1
<1>5. DOMAIN d1.logs = {"ready"} /\ d1.logs["ready"] = d.logs["ready"]
  BY <1>3, <1>4
<1>6. /\ IsDisk(d2, n) /\ d2.files = d1.files /\ DOMAIN d2.logs = DOMAIN d1.logs \cup {"binlog"}
      /\ d2.logs["binlog"] = d.logs["ready"]
  <2>1. d.logs["ready"] \in Seq(Records(n)) /\ IsDisk(d1, n) /\ "binlog" \in {"binlog", "ready"}
    BY <1>3, <1>4
  <2> QED BY <2>1, SetLogOf
<1> HIDE DEF d2
<1>7. /\ IsDisk(d3, n) /\ d3.files = d2.files /\ DOMAIN d3.logs = DOMAIN d2.logs \ {"ready"}
      /\ \A other \in DOMAIN d2.logs \ {"ready"} : d3.logs[other] = d2.logs[other]
  BY <1>6, RemoveLogOf
<1> HIDE DEF d3
<1>8. DOMAIN d3.logs = {"binlog"} /\ d3.logs["binlog"] = d.logs["ready"]
  BY <1>5, <1>6, <1>7
<1>9. LogOf(d1) = d.logs["ready"] /\ LogOf(d3) = d.logs["ready"]
  BY <1>5, <1>8 DEF LogOf, Exists
<1> QED BY <1>1, <1>2, <1>4, <1>5, <1>6, <1>7, <1>8, <1>9

(* Whatever it finds, it opens what a read would have looked for.          *)
LEMMA OpenDisksOf ==
  ASSUME NEW n \in Nat, IsDisk(disk, n)
  PROVE  LET last == OpenDisks[Len(OpenDisks)]
         IN  /\ IsDisk(last, n) /\ last.files = disk.files /\ DOMAIN last.logs = {"binlog"}
             /\ \A k : Where(last, k) = Where(disk, k)
             /\ Len(OpenDisks) = 2 =>
                  /\ IsDisk(OpenDisks[1], n) /\ OpenDisks[1].files = disk.files
                  /\ \A k : Where(OpenDisks[1], k) = Where(disk, k)
<1>1. CASE "ready" \in DOMAIN disk.logs
  <2> DEFINE E == MoveReady(disk)
  <2>1. OpenDisks = E
    BY <1>1 DEF OpenDisks, Exists
  <2>2. /\ Len(E) = 2
        /\ \A i \in {1, 2} : /\ IsDisk(E[i], n) /\ E[i].files = disk.files
                             /\ LogOf(E[i]) = disk.logs["ready"]
        /\ DOMAIN E[2].logs = {"binlog"}
    BY <1>1, MoveReadyOf
  <2> HIDE DEF E
  <2>3. LogOf(disk) = disk.logs["ready"]
    BY <1>1 DEF LogOf, Exists
  <2>4. \A i \in {1, 2} : \A k : Where(E[i], k) = Where(disk, k)
    BY <2>2, <2>3 DEF Where
  <2> QED BY <2>1, <2>2, <2>4
<1>2. CASE "ready" \notin DOMAIN disk.logs /\ "binlog" \in DOMAIN disk.logs
  <2>1. OpenDisks = <<disk>> /\ DOMAIN disk.logs = {"binlog"}
    BY <1>2 DEF OpenDisks, Exists, IsDisk
  <2>2. Len(<<disk>>) = 1 /\ <<disk>>[1] = disk
    OBVIOUS
  <2> QED BY <2>1, <2>2
<1>3. CASE "ready" \notin DOMAIN disk.logs /\ "binlog" \notin DOMAIN disk.logs
  <2> DEFINE empty == <<>>
             e == SetLog(disk, "binlog", empty)
  <2>1. OpenDisks = <<e>>
    BY <1>3 DEF OpenDisks, Exists
  <2>2. empty \in Seq(Records(n))
    OBVIOUS
  <2> HIDE DEF empty
  <2>3. /\ IsDisk(e, n) /\ e.files = disk.files /\ DOMAIN e.logs = DOMAIN disk.logs \cup {"binlog"}
        /\ e.logs["binlog"] = <<>>
    <3>1. "binlog" \in {"binlog", "ready"}
      OBVIOUS
    <3>2. /\ IsDisk(e, n) /\ e.files = disk.files /\ DOMAIN e.logs = DOMAIN disk.logs \cup {"binlog"}
          /\ e.logs["binlog"] = empty
      BY <2>2, <3>1, SetLogOf
    <3> HIDE DEF e
    <3> QED BY <3>2 DEF empty
  <2> HIDE DEF e
  <2>4. DOMAIN e.logs = {"binlog"}
    BY <1>3, <2>3 DEF IsDisk
  <2>5. LogOf(e) = <<>> /\ LogOf(disk) = <<>>
    BY <1>3, <2>3, <2>4 DEF LogOf, Exists
  <2>6. \A k : Where(e, k) = Where(disk, k)
    BY <2>5 DEF Where
  <2>7. Len(<<e>>) = 1 /\ <<e>>[1] = e
    OBVIOUS
  <2> QED BY <2>1, <2>3, <2>4, <2>6, <2>7
<1> QED BY <1>1, <1>2, <1>3

(* open(): the map is what the log says.                                   *)
LEMMA OpenInv ==
  ASSUME IInv, Open
  PROVE  IInv'
<1>1. /\ mode = "closed" /\ mode' = "open" /\ checkCompactor
      /\ disk' = OpenDisks[Len(OpenDisks)]
      /\ map' = [k \in Keys |-> Recovered(disk'.logs["binlog"], k)]
      /\ UNCHANGED <<removing, used, latest, cut>>
  BY DEF Open, history
<1>2. /\ used \in Nat /\ MaxPlaces \in Nat /\ used \in 0 .. MaxPlaces /\ IsDisk(disk, used)
      /\ latest \in [Keys -> Values \cup {None}] /\ cut \subseteq Keys
      /\ removing = {} /\ compactor = Idle
  <2>1. /\ used \in 0 .. MaxPlaces /\ IsDisk(disk, used) /\ latest \in [Keys -> Values \cup {None}]
        /\ cut \subseteq Keys
    BY DEF IInv, Types
  <2>2. removing = {} /\ compactor = Idle
    BY <1>1 DEF IInv, Modes
  <2>3. used \in Nat /\ MaxPlaces \in Nat
    BY <2>1, CacheAssumption
  <2> QED BY <2>1, <2>2, <2>3
<1>3. /\ IsDisk(disk', used) /\ disk'.files = disk.files /\ DOMAIN disk'.logs = {"binlog"}
      /\ \A k : Where(disk', k) = Where(disk, k)
  <2>1. LET last == OpenDisks[Len(OpenDisks)]
        IN  /\ IsDisk(last, used) /\ last.files = disk.files /\ DOMAIN last.logs = {"binlog"}
            /\ \A k : Where(last, k) = Where(disk, k)
    BY <1>2, OpenDisksOf
  <2> QED BY <1>1, <2>1
<1>4. \A k \in Keys : map'[k] = Where(disk, k) /\ Where(disk, k) \in 0 .. used
  <2>1. \A k : Where(disk', k) = Recovered(disk'.logs["binlog"], k)
    BY <1>3, WhereOf
  <2> QED BY <1>1, <1>2, <1>3, <2>1, WhereType
<1>5. \A p : FileAt(disk', p) = FileAt(disk, p)
  BY <1>3 DEF FileAt
<1>6. Binlog' \in Seq(Records(used))
  BY <1>3 DEF Binlog, IsDisk
<1>7. /\ compactor' \in [state : {"none", "copying", "done"}, till : Nat, pos : Nat,
                         last : Nat, log : Seq(Records(used'))]
      /\ spent' \in [stops : Nat, faults : Nat, moves : Nat, compactions : Nat]
      /\ spent'.faults = spent.faults
      /\ UNCHANGED compactor \/ Copied'
  <2>1. used' \in Nat /\ used <= used' /\ Binlog' \in Seq(Records(used'))
    BY <1>1, <1>2, <1>6
  <2> QED BY <1>1, <2>1, CheckedOf
<1>8. Copied'
  BY <1>2, <1>7 DEF Copied, Idle
<1>9. Types'
  <2>1. /\ removing' \subseteq Keys /\ IsFiniteSet(removing')
        /\ Cardinality(removing') < MaxBundledRecords
    BY <1>1 DEF IInv, Types
  <2>2. map' \in [Keys -> 0 .. used']
    <3>1. map' = [k \in Keys |-> map'[k]]
      BY <1>1
    <3> QED BY <1>1, <1>4, <3>1
  <2>3. IsDisk(disk, used)' /\ latest' \in [Keys -> Values \cup {None}] /\ cut' \subseteq Keys
        /\ mode' \in {"closed", "open", "failed"} /\ used' \in 0 .. MaxPlaces
    BY <1>1, <1>2, <1>3
  <2> QED BY <1>7, <2>1, <2>2, <2>3 DEF Types
<1>10. Modes'
  BY <1>1, <1>3 DEF Modes
<1>11. Apart'
  BY <1>3, <1>4 DEF IInv, Apart
<1>12. Latest'
  BY <1>1, <1>3, <1>4, <1>5 DEF IInv, Latest
<1>13. Agree'
  <2>1. \A p : p = NoPlace => FileAt(disk', p) = None
    BY DEF FileAt
  <2> QED BY <1>1, <1>2, <1>3, <1>4, <2>1 DEF Agree
<1>14. Safe'
  BY <1>1, <1>3, <1>4, <1>5, <1>7 DEF IInv, Safe, Expected
<1> QED BY <1>8, <1>9, <1>10, <1>11, <1>12, <1>13, <1>14 DEF IInv

(* A stop in it leaves the log that is ready.                              *)
LEMMA StopInOpenInv ==
  ASSUME IInv, StopInOpen
  PROVE  IInv'
<1>1. /\ Len(OpenDisks) = 2 /\ disk' = OpenDisks[1] /\ Stop /\ UNCHANGED <<used, latest, cut>>
  BY DEF StopInOpen, history
<1>2. used \in Nat /\ IsDisk(disk, used)
  BY CacheAssumption DEF IInv, Types
<1>3. /\ IsDisk(disk', used) /\ disk'.files = disk.files
      /\ \A k : Where(disk', k) = Where(disk, k)
  BY <1>1, <1>2, OpenDisksOf
<1>4. \A p : FileAt(disk', p) = FileAt(disk, p)
  BY <1>3 DEF FileAt
<1>5. /\ used' \in 0 .. MaxPlaces /\ IsDisk(disk, used)' /\ latest' \in [Keys -> Values \cup {None}]
      /\ cut' \subseteq Keys
  BY <1>1, <1>3 DEF IInv, Types
<1>6. \A k, l \in Keys :
        k /= l /\ Where(disk', k) = Where(disk', l) => Where(disk', k) = NoPlace
  BY <1>3 DEF IInv, Apart
<1>7. \A k \in Keys : FileAt(disk', Where(disk', k)) \in {None, latest'[k]}
  BY <1>1, <1>3, <1>4 DEF IInv, Latest
<1>8. spent.faults = 0 => \A k \in Keys : FileAt(disk', Where(disk', k)) = Expected(k)'
  BY <1>1, <1>3, <1>4 DEF IInv, Safe, Expected
<1> QED BY <1>1, <1>5, <1>6, <1>7, <1>8, StopInv

-----------------------------------------------------------------------------
(* The compactor.                                                          *)

(* A list of one key, or of none.                                          *)
LEMMA ListOf ==
  ASSUME NEW T
  PROVE  /\ T = {} => SeqExt!SetToSeq(T) = <<>>
         /\ \A x : T = {x} => SeqExt!SetToSeq(T) = <<x>>
<1>0. SeqExt!Cardinality(T) = Cardinality(T)
  BY DEF SeqExt!Cardinality, Cardinality, SeqExt!IsFiniteSet, IsFiniteSet
<1>1. ASSUME T = {} PROVE SeqExt!SetToSeq(T) = <<>>
  <2>1. SeqExt!Cardinality(T) = 0
    BY <1>0, <1>1, FS_EmptySet
  <2>2. \A f \in [1 .. 0 -> T] : f = <<>>
    OBVIOUS
  <2>3. <<>> \in [1 .. 0 -> T] /\ SeqExt!IsInjective(<<>>)
    BY DEF SeqExt!IsInjective
  <2>4. SeqExt!SetToSeq(T) \in [1 .. 0 -> T]
    BY <2>1, <2>3 DEF SeqExt!SetToSeq
  <2> QED BY <2>2, <2>4
<1>2. ASSUME NEW x, T = {x} PROVE SeqExt!SetToSeq(T) = <<x>>
  <2>1. SeqExt!Cardinality(T) = 1
    BY <1>0, <1>2, FS_Singleton
  <2>2. \A f \in [1 .. 1 -> T] : f = <<x>>
    BY <1>2
  <2>3. <<x>> \in [1 .. 1 -> T] /\ SeqExt!IsInjective(<<x>>)
    BY <1>2 DEF SeqExt!IsInjective
  <2>4. SeqExt!SetToSeq(T) \in [1 .. 1 -> T]
    BY <2>1, <2>3 DEF SeqExt!SetToSeq
  <2> QED BY <2>2, <2>4
<1> QED BY <1>1, <1>2

(* An open database with a compactor.                                      *)
LEMMA CompactorOf ==
  ASSUME IInv, mode = "open", compactor.state /= "none"
  PROVE  /\ used \in Nat /\ Binlog \in Seq(Records(used))
         /\ Len(Binlog) \in Nat /\ DOMAIN Binlog = 1 .. Len(Binlog)
         /\ compactor \in [state : {"none", "copying", "done"}, till : Nat, pos : Nat,
                           last : Nat, log : Seq(Records(used))]
         /\ compactor.till \in Nat /\ compactor.pos \in Nat
         /\ compactor.log \in Seq(Records(used))
         /\ compactor.till <= Len(Binlog) /\ compactor.pos <= Len(Binlog)
         /\ compactor.state = "done" => compactor.pos >= compactor.till
         /\ \A k \in Keys :
              \/ Since(k)
              \/ Recovered(compactor.log, k) = Recovered(Binlog, k)
              \/ Recovered(compactor.log, k) = NoPlace /\ (map[k] = NoPlace \/ Pending(k))
<1>1. used \in Nat /\ Binlog \in Seq(Records(used))
  BY OpenOf
<1>2. Len(Binlog) \in Nat /\ DOMAIN Binlog = 1 .. Len(Binlog)
  BY <1>1, LenProperties
<1>3. compactor \in [state : {"none", "copying", "done"}, till : Nat, pos : Nat,
                     last : Nat, log : Seq(Records(used))]
  BY DEF IInv, Types
<1>4. /\ compactor.till <= Len(Binlog) /\ compactor.pos <= Len(Binlog)
      /\ compactor.state = "done" => compactor.pos >= compactor.till
      /\ \A k \in Keys :
           \/ Since(k)
           \/ Recovered(compactor.log, k) = Recovered(Binlog, k)
           \/ Recovered(compactor.log, k) = NoPlace /\ (map[k] = NoPlace \/ Pending(k))
  BY DEF IInv, Copied
<1>5. compactor.till \in Nat /\ compactor.pos \in Nat /\ compactor.log \in Seq(Records(used))
  BY <1>3
<1> QED BY <1>1, <1>2, <1>3, <1>4, <1>5

(* Only the compactor does something.                                      *)
LEMMA CompactorStep ==
  ASSUME IInv, UNCHANGED <<mode, map, removing, disk, used, spent, latest, cut>>, mode = "open",
         compactor' \in [state : {"none", "copying", "done"}, till : Nat, pos : Nat,
                         last : Nat, log : Seq(Records(used))],
         Copied'
  PROVE  IInv'
<1>1. Types'
  BY DEF IInv, Types
<1>2. Modes' /\ Apart' /\ Latest' /\ Agree' /\ Safe'
  BY DEF IInv, Modes, Apart, Latest, Agree, Safe, Expected
<1> QED BY <1>1, <1>2 DEF IInv

(* It asks for one stored key at a time.                                   *)
LEMMA CompactorCopiesInv ==
  ASSUME IInv, CompactorCopies
  PROVE  IInv'
<1> DEFINE rec == Binlog[compactor.pos + 1]
           new == {k \in rec.keys : /\ rec.place /= NoPlace /\ map[k] /= NoPlace
                                    /\ Recovered(compactor.log, k) = NoPlace}
           stored == {Store(k, map[k]) : k \in new}
           more == SeqExt!SetToSeq(stored)
           log == compactor.log \o more
<1>1. /\ compactor.state = "copying" /\ mode = "open" /\ compactor.pos < compactor.till
      /\ compactor' = [compactor EXCEPT !.pos = @ + 1, !.log = @ \o more]
      /\ UNCHANGED <<mode, map, removing, disk, used, spent, latest, cut>>
  BY DEF CompactorCopies, history
<1>2. /\ used \in Nat /\ Binlog \in Seq(Records(used))
      /\ Len(Binlog) \in Nat /\ DOMAIN Binlog = 1 .. Len(Binlog)
      /\ compactor \in [state : {"none", "copying", "done"}, till : Nat, pos : Nat,
                        last : Nat, log : Seq(Records(used))]
      /\ compactor.till \in Nat /\ compactor.pos \in Nat
      /\ compactor.log \in Seq(Records(used))
      /\ compactor.till <= Len(Binlog) /\ compactor.pos <= Len(Binlog)
      /\ \A k \in Keys :
           \/ Since(k)
           \/ Recovered(compactor.log, k) = Recovered(Binlog, k)
           \/ Recovered(compactor.log, k) = NoPlace /\ (map[k] = NoPlace \/ Pending(k))
  BY <1>1, CompactorOf
<1>3. compactor.pos + 1 \in DOMAIN Binlog /\ rec \in Records(used)
  <2>1. compactor.pos + 1 \in 1 .. Len(Binlog)
    BY <1>1, <1>2
  <2> QED BY <1>2, <2>1, ElementOfSeq
<1> HIDE DEF rec
<1>4. ASSUME rec.place /= NoPlace
      PROVE  \E k \in Keys : rec.keys = {k}
  <2>1. CASE rec \in {Store(k, p) : k \in Keys, p \in 1 .. used}
    BY <2>1 DEF Store
  <2>2. CASE rec \in {MultiRemove(keys) : keys \in SUBSET Keys}
    BY <1>4, <2>2 DEF MultiRemove
  <2> QED BY <1>3, <2>1, <2>2 DEF Records
<1>5. new = {} \/ \E k \in Keys : new = {k} /\ map[k] /= NoPlace
  <2>1. CASE rec.place = NoPlace
    BY <2>1
  <2>2. CASE rec.place /= NoPlace
    <3>1. PICK k \in Keys : rec.keys = {k}
      BY <1>4, <2>2
    <3> QED BY <3>1
  <2> QED BY <2>1, <2>2
<1>6. \A k \in rec.keys : rec.place /= NoPlace /\ k \notin new =>
        map[k] = NoPlace \/ Recovered(compactor.log, k) /= NoPlace
  OBVIOUS
<1> HIDE DEF new
<1>7. /\ log \in Seq(Records(used))
      /\ \A k \in Keys : Recovered(log, k) = IF k \in new THEN map[k] ELSE Recovered(compactor.log, k)
  <2>1. CASE new = {}
    <3>1. stored = {}
      BY <2>1
    <3> HIDE DEF stored
    <3>2. more = <<>>
      BY <3>1, ListOf
    <3> HIDE DEF more
    <3>3. log = compactor.log
      BY <1>2, <3>2, ConcatEmptySeq
    <3> QED BY <1>2, <2>1, <3>3
  <2>2. CASE \E k \in Keys : new = {k} /\ map[k] /= NoPlace
    <3>1. PICK k \in Keys : new = {k} /\ map[k] /= NoPlace
      BY <2>2
    <3> DEFINE one == Store(k, map[k])
    <3>2. stored = {one}
      BY <3>1
    <3>3. map[k] \in 1 .. used /\ used \in Nat \ {0}
      <4>1. map[k] \in 0 .. used
        BY <1>1, OpenOf
      <4> QED BY <1>2, <3>1, <4>1 DEF NoPlace
    <3>4. one \in Records(used) /\ one.keys = {k} /\ one.place = map[k]
      BY <3>3, StoreOf
    <3> HIDE DEF stored, one
    <3>5. more = <<one>>
      BY <3>2, ListOf
    <3> HIDE DEF more
    <3>6. log \in Seq(Records(used))
      <4>1. more \in Seq(Records(used))
        BY <3>4, <3>5
      <4> QED BY <1>2, <4>1, ConcatProperties
    <3>7. \A l \in Keys : Recovered(log, l) = IF l = k THEN map[k] ELSE Recovered(compactor.log, l)
      BY <1>2, <3>4, <3>5, RecoveredOne
    <3> QED BY <3>1, <3>6, <3>7
  <2> QED BY <1>5, <2>1, <2>2
<1>8. compactor'.till = compactor.till /\ compactor'.pos = compactor.pos + 1
      /\ compactor'.log = log /\ compactor'.state = "copying"
      /\ compactor' \in [state : {"none", "copying", "done"}, till : Nat, pos : Nat,
                         last : Nat, log : Seq(Records(used))]
  <2> HIDE DEF more
  <2>1. /\ compactor \in [state : {"none", "copying", "done"}, till : Nat, pos : Nat,
                          last : Nat, log : Seq(Records(used))]
        /\ compactor' = [compactor EXCEPT !.pos = compactor.pos + 1, !.log = log]
        /\ compactor.state = "copying" /\ compactor.pos + 1 \in Nat
    BY <1>1, <1>2
  <2> HIDE DEF log
  <2> QED BY <1>7, <2>1
<1> HIDE DEF log
<1>9. Binlog' = Binlog
  BY <1>1 DEF Binlog
<1>10. ASSUME NEW k \in Keys
       PROVE  \/ Since(k)'
              \/ Recovered(log, k) = Recovered(Binlog, k)
              \/ Recovered(log, k) = NoPlace /\ (map[k] = NoPlace \/ Pending(k)')
  <2>1. Since(k) => Since(k)'
    BY <1>1, <1>2, <1>8, <1>9 DEF Since
  <2>2. CASE k \in new
    <3>1. map[k] /= NoPlace => Recovered(Binlog, k) = map[k]
      BY <1>1, OpenOf
    <3> QED BY <1>5, <1>7, <2>2, <3>1
  <2>3. CASE k \notin new /\ Recovered(compactor.log, k) = NoPlace /\ Pending(k)
    <3>1. PICK i \in DOMAIN Binlog : /\ i > compactor.pos /\ i <= compactor.till
                                     /\ k \in Binlog[i].keys /\ Binlog[i].place /= NoPlace
      BY <2>3 DEF Pending
    <3>2. CASE i = compactor.pos + 1
      <4>1. k \in rec.keys /\ rec.place /= NoPlace
        BY <3>1, <3>2 DEF rec
      <4> QED BY <1>6, <1>7, <2>3, <4>1
    <3>3. CASE i /= compactor.pos + 1
      <4>1. i > compactor.pos + 1
        BY <1>2, <3>1, <3>3
      <4>2. Pending(k)'
        BY <1>8, <1>9, <3>1, <4>1 DEF Pending
      <4> QED BY <1>7, <2>3, <4>2
    <3> QED BY <3>2, <3>3
  <2> QED BY <1>2, <1>7, <2>1, <2>2, <2>3
<1>11. Copied'
  <2>1. compactor.pos + 1 <= Len(Binlog)
    BY <1>1, <1>2
  <2> QED BY <1>1, <1>2, <1>8, <1>9, <1>10, <2>1 DEF Copied
<1> QED BY <1>1, <1>8, <1>11, CompactorStep

(* What has grown is copied: the new log says what the old one does.       *)
LEMMA CatchUpOf ==
  ASSUME IInv, mode = "open", compactor.state /= "none", compactor.pos >= compactor.till
  PROVE  /\ CatchUp \in Seq(Records(used))
         /\ \A k \in Keys : \/ Recovered(CatchUp, k) = Recovered(Binlog, k)
                            \/ Recovered(CatchUp, k) = NoPlace /\ map[k] = NoPlace
<1>1. /\ used \in Nat /\ Binlog \in Seq(Records(used))
      /\ Len(Binlog) \in Nat /\ DOMAIN Binlog = 1 .. Len(Binlog)
      /\ compactor.till \in Nat /\ compactor.pos \in Nat
      /\ compactor.log \in Seq(Records(used)) /\ compactor.pos <= Len(Binlog)
      /\ \A k \in Keys :
           \/ Since(k)
           \/ Recovered(compactor.log, k) = Recovered(Binlog, k)
           \/ Recovered(compactor.log, k) = NoPlace /\ (map[k] = NoPlace \/ Pending(k))
  BY CompactorOf
<1>2. compactor.pos \in 0 .. Len(Binlog)
  BY <1>1
<1>3. /\ CatchUp \in Seq(Records(used))
      /\ \A k : Recovered(CatchUp, k) =
           IF \E i \in DOMAIN Binlog : i > compactor.pos /\ k \in Binlog[i].keys
             THEN Recovered(Binlog, k) ELSE Recovered(compactor.log, k)
  <2>1. Binlog \in Seq(Records(used)) /\ compactor.log \in Seq(Records(used))
    BY <1>1
  <2> QED BY <1>2, <2>1, SuffixOf DEF CatchUp
<1>4. \A k : Since(k) => \E i \in DOMAIN Binlog : i > compactor.pos /\ k \in Binlog[i].keys
  BY DEF Since
<1>5. \A k : ~Pending(k)
  <2>1. ASSUME NEW i \in DOMAIN Binlog, i > compactor.pos, i <= compactor.till
        PROVE  FALSE
    <3>1. i \in Nat /\ compactor.pos \in Nat /\ compactor.till \in Nat
      BY <1>1
    <3> QED BY <2>1, <3>1
  <2> QED BY <2>1 DEF Pending
<1> QED BY <1>1, <1>3, <1>4, <1>5

(* finalize() copies what has grown.                                       *)
LEMMA CompactorCatchesUpInv ==
  ASSUME IInv, CompactorCatchesUp
  PROVE  IInv'
<1> DEFINE n == Len(Binlog)
           grown == n - compactor.pos
           state == IF grown = 0 \/ (compactor.last > 0 /\ grown >= compactor.last)
                      THEN "done" ELSE compactor.state
<1>1. /\ compactor.state = "copying" /\ mode = "open" /\ compactor.pos >= compactor.till
      /\ compactor' = [compactor EXCEPT !.pos = n, !.last = grown, !.log = CatchUp, !.state = state]
      /\ UNCHANGED <<mode, map, removing, disk, used, spent, latest, cut>>
  BY DEF CompactorCatchesUp, history
<1>2. /\ n \in Nat
      /\ compactor \in [state : {"none", "copying", "done"}, till : Nat, pos : Nat,
                        last : Nat, log : Seq(Records(used))]
      /\ compactor.till <= n /\ compactor.pos <= n
  BY <1>1, CompactorOf
<1>3. grown \in Nat /\ state \in {"copying", "done"}
  BY <1>1, <1>2
<1>4. /\ CatchUp \in Seq(Records(used))
      /\ \A k \in Keys : \/ Recovered(CatchUp, k) = Recovered(Binlog, k)
                         \/ Recovered(CatchUp, k) = NoPlace /\ map[k] = NoPlace
  BY <1>1, CatchUpOf
<1>5. n = Len(Binlog) /\ Binlog' = Binlog
  BY <1>1 DEF Binlog
<1> HIDE DEF n, grown, state
<1>6. /\ compactor'.till = compactor.till /\ compactor'.pos = n /\ compactor'.log = CatchUp
      /\ compactor' \in [state : {"none", "copying", "done"}, till : Nat, pos : Nat,
                         last : Nat, log : Seq(Records(used))]
  BY <1>1, <1>2, <1>3, <1>4
<1>7. Copied'
  BY <1>1, <1>2, <1>4, <1>5, <1>6 DEF Copied
<1> QED BY <1>1, <1>6, <1>7, CompactorStep

(* At each moment of compactorDone() the disk has the old or the new log.  *)
LEMMA DoneDisksOf ==
  ASSUME IInv, mode = "open", compactor.state = "done"
  PROVE  LET D == DoneDisks
         IN  /\ Len(D) = 3 /\ Range(D) = {D[1], D[2], D[3]}
             /\ \A i \in 1 .. 3 : /\ IsDisk(D[i], used) /\ D[i].files = disk.files
                                  /\ \A k : Where(D[i], k) = Recovered(CatchUp, k)
             /\ DOMAIN D[1].logs = {"binlog", "ready"} /\ D[1].logs["binlog"] = Binlog
             /\ DOMAIN D[2].logs = {"ready"} /\ DOMAIN D[3].logs = {"binlog"}
<1> DEFINE d1 == SetLog(disk, "ready", CatchUp)
           E == MoveReady(d1)
           D == <<d1>> \o E
<1>1. /\ used \in Nat /\ IsDisk(disk, used) /\ DOMAIN disk.logs = {"binlog"}
      /\ CatchUp \in Seq(Records(used))
  <2>1. compactor.pos >= compactor.till
    BY CompactorOf
  <2> QED BY <2>1, OpenOf, CatchUpOf
<1>2. /\ IsDisk(d1, used) /\ d1.files = disk.files /\ DOMAIN d1.logs = {"binlog", "ready"}
      /\ d1.logs["ready"] = CatchUp /\ d1.logs["binlog"] = Binlog
  <2>1. "ready" \in {"binlog", "ready"}
    OBVIOUS
  <2>2. /\ IsDisk(d1, used) /\ d1.files = disk.files /\ DOMAIN d1.logs = DOMAIN disk.logs \cup {"ready"}
        /\ d1.logs["ready"] = CatchUp
        /\ \A other \in DOMAIN disk.logs \ {"ready"} : d1.logs[other] = disk.logs[other]
    BY <1>1, <2>1, SetLogOf
  <2> HIDE DEF d1
  <2> QED BY <1>1, <2>2 DEF Binlog
<1>3. DoneDisks = D
  BY DEF DoneDisks
<1> HIDE DEF d1
<1>4. /\ Len(E) = 2
      /\ \A i \in {1, 2} : /\ IsDisk(E[i], used) /\ E[i].files = d1.files
                           /\ LogOf(E[i]) = d1.logs["ready"]
      /\ DOMAIN E[1].logs = {"ready"} /\ DOMAIN E[2].logs = {"binlog"}
  <2>1. "ready" \in DOMAIN d1.logs
    BY <1>2
  <2> QED BY <1>1, <1>2, <2>1, MoveReadyOf
<1>5. \E a, b : E = <<a, b>>
  BY DEF MoveReady
<1> HIDE DEF E
<1>6. PICK a, b : E = <<a, b>>
  BY <1>5
<1>7. Len(D) = 3 /\ D[1] = d1 /\ D[2] = E[1] /\ D[3] = E[2] /\ DOMAIN D = 1 .. 3
  <2> DEFINE S == {d1, a, b}
             s1 == <<d1>>
             s2 == <<a, b>>
  <2>1. s1 \in Seq(S) /\ Len(s1) = 1 /\ s1[1] = d1
    OBVIOUS
  <2>2. s2 \in Seq(S) /\ Len(s2) = 2 /\ s2[1] = a /\ s2[2] = b /\ E = s2
    BY <1>6
  <2>3. D = s1 \o s2
    BY <1>6
  <2> HIDE DEF D, S, s1, s2
  <2>4. /\ D \in Seq(S) /\ Len(D) = Len(s1) + Len(s2)
        /\ \A i \in 1 .. Len(s1) + Len(s2) :
             D[i] = IF i <= Len(s1) THEN s1[i] ELSE s2[i - Len(s1)]
    BY <2>1, <2>2, <2>3, ConcatProperties
  <2>5. Len(D) = 3 /\ \A i \in 1 .. 3 : D[i] = IF i <= 1 THEN s1[i] ELSE s2[i - 1]
    BY <2>1, <2>2, <2>4
  <2>6. DOMAIN D = 1 .. 3
    BY <2>4, <2>5, LenProperties
  <2> QED BY <2>1, <2>2, <2>5, <2>6
<1> HIDE DEF D
<1>8. Range(D) = {D[1], D[2], D[3]}
  BY <1>7 DEF Range
<1>9. LogOf(d1) = CatchUp
  BY <1>2 DEF LogOf, Exists
<1>10. ASSUME NEW i \in 1 .. 3
       PROVE  IsDisk(D[i], used) /\ D[i].files = disk.files /\ LogOf(D[i]) = CatchUp
  <2>1. i = 1 \/ i = 2 \/ i = 3
    OBVIOUS
  <2> QED BY <1>2, <1>4, <1>7, <1>9, <2>1
<1>11. \A i \in 1 .. 3 : \A k : Where(D[i], k) = Recovered(CatchUp, k)
  BY <1>10 DEF Where
<1> QED BY <1>2, <1>3, <1>4, <1>7, <1>8, <1>10, <1>11

(* What the new log says of a key.                                         *)
LEMMA DoneWhere ==
  ASSUME IInv, mode = "open", compactor.state = "done", NEW d,
         d.files = disk.files, \A k \in Keys : Where(d, k) = Recovered(CatchUp, k)
  PROVE  /\ \A k \in Keys : \/ Where(d, k) = Where(disk, k)
                            \/ Where(d, k) = NoPlace /\ map[k] = NoPlace
         /\ \A p : FileAt(d, p) = FileAt(disk, p)
         /\ \A k \in Keys : FileKept(d, k)
<1>1. compactor.pos >= compactor.till
  BY CompactorOf
<1>2. \A k \in Keys : \/ Recovered(CatchUp, k) = Recovered(Binlog, k)
                      \/ Recovered(CatchUp, k) = NoPlace /\ map[k] = NoPlace
  BY <1>1, CatchUpOf
<1>3. \A k \in Keys : \/ Where(d, k) = Where(disk, k)
                      \/ Where(d, k) = NoPlace /\ map[k] = NoPlace
  BY <1>2, OpenOf
<1>4. \A p : FileAt(d, p) = FileAt(disk, p)
  BY DEF FileAt
<1>5. spent.faults = 0 =>
        \A k \in Keys : map[k] = NoPlace => FileAt(disk, Where(disk, k)) = None
  BY OpenOf
<1>6. FileAt(disk, NoPlace) = None
  BY DEF FileAt
<1> QED BY <1>3, <1>4, <1>5, <1>6 DEF FileKept

(* compactorDone(): a key that the new log has not is in neither.          *)
LEMMA CompactorDoneInv ==
  ASSUME IInv, CompactorDone
  PROVE  IInv'
<1>1. /\ compactor.state = "done" /\ mode = "open" /\ mode' = "open"
      /\ disk' = DoneDisks[Len(DoneDisks)] /\ compactor' = Idle
      /\ UNCHANGED <<map, removing, used, spent, latest, cut>>
  BY DEF CompactorDone, Completes, history
<1>2. /\ IsDisk(disk', used) /\ disk'.files = disk.files /\ DOMAIN disk'.logs = {"binlog"}
      /\ \A k \in Keys : Where(disk', k) = Recovered(CatchUp, k)
  <2>1. LET D == DoneDisks
        IN  /\ Len(D) = 3
            /\ \A i \in 1 .. 3 : /\ IsDisk(D[i], used) /\ D[i].files = disk.files
                                 /\ \A k : Where(D[i], k) = Recovered(CatchUp, k)
            /\ DOMAIN D[3].logs = {"binlog"}
    BY <1>1, DoneDisksOf
  <2>2. disk' = DoneDisks[3] /\ 3 \in 1 .. 3
    BY <1>1, <2>1
  <2> QED BY <2>1, <2>2
<1>3. /\ \A k \in Keys : \/ Where(disk', k) = Where(disk, k)
                         \/ Where(disk', k) = NoPlace /\ map[k] = NoPlace
      /\ \A p : FileAt(disk', p) = FileAt(disk, p)
      /\ \A k \in Keys : FileKept(disk', k)
  BY <1>1, <1>2, DoneWhere
<1>4. Types'
  <2>1. <<>> \in Seq(Records(used'))
    OBVIOUS
  <2>2. compactor' \in [state : {"none", "copying", "done"}, till : Nat, pos : Nat,
                        last : Nat, log : Seq(Records(used'))]
    BY <1>1, <2>1 DEF Idle
  <2>3. IsDisk(disk, used)'
    BY <1>1, <1>2
  <2> QED BY <1>1, <2>2, <2>3 DEF IInv, Types
<1>5. Modes' /\ Copied'
  BY <1>1, <1>2 DEF Modes, Copied, Idle
<1>6. Apart'
  BY <1>1, <1>3 DEF IInv, Apart
<1>7. Latest' /\ Safe'
  BY <1>1, <1>3 DEF IInv, Latest, Safe, Expected, FileKept
<1>8. Agree'
  BY <1>1, <1>3 DEF IInv, Agree
<1> QED BY <1>4, <1>5, <1>6, <1>7, <1>8 DEF IInv

(* A stop between the moves leaves a whole log.                            *)
LEMMA StopInCompactorDoneInv ==
  ASSUME IInv, StopInCompactorDone
  PROVE  IInv'
<1>1. /\ compactor.state = "done" /\ mode = "open" /\ disk' \in Range(DoneDisks) /\ Stop
      /\ UNCHANGED <<used, latest, cut>>
  BY DEF StopInCompactorDone, history
<1>2. /\ IsDisk(disk', used) /\ disk'.files = disk.files
      /\ \A k \in Keys : Where(disk', k) = Recovered(CatchUp, k)
  <2>1. LET D == DoneDisks
        IN  /\ Range(D) = {D[1], D[2], D[3]}
            /\ \A i \in 1 .. 3 : /\ IsDisk(D[i], used) /\ D[i].files = disk.files
                                 /\ \A k : Where(D[i], k) = Recovered(CatchUp, k)
    BY <1>1, DoneDisksOf
  <2>2. \E i \in 1 .. 3 : disk' = DoneDisks[i]
    BY <1>1, <2>1
  <2> QED BY <2>1, <2>2
<1>3. /\ \A k \in Keys : \/ Where(disk', k) = Where(disk, k)
                         \/ Where(disk', k) = NoPlace /\ map[k] = NoPlace
      /\ \A k \in Keys : FileKept(disk', k)
  BY <1>1, <1>2, DoneWhere
<1>4. /\ used' \in 0 .. MaxPlaces /\ IsDisk(disk, used)' /\ latest' \in [Keys -> Values \cup {None}]
      /\ cut' \subseteq Keys
  BY <1>1, <1>2 DEF IInv, Types
<1>5. \A k, l \in Keys :
        k /= l /\ Where(disk', k) = Where(disk', l) => Where(disk', k) = NoPlace
  BY <1>3 DEF IInv, Apart
<1>6. \A k \in Keys : FileAt(disk', Where(disk', k)) \in {None, latest'[k]}
  BY <1>1, <1>3 DEF IInv, Latest, FileKept
<1>7. spent.faults = 0 => \A k \in Keys : FileAt(disk', Where(disk', k)) = Expected(k)'
  BY <1>1, <1>3 DEF IInv, Safe, Expected, FileKept
<1> QED BY <1>1, <1>4, <1>5, <1>6, <1>7, StopInv

(* It may also have removed the ready log, with or without the other.      *)
LEMMA CompactorFailsInv ==
  ASSUME IInv, CompactorFails
  PROVE  IInv'
<1>1. /\ compactor.state /= "none" /\ Fault /\ compactor' = Idle
      /\ UNCHANGED <<map, removing, used, latest, cut>>
  BY DEF CompactorFails, history
<1>2. /\ used \in Nat /\ used' \in used .. MaxPlaces /\ used' \in Nat
      /\ map' \in [Keys -> 0 .. used] /\ latest' \in [Keys -> Values \cup {None}]
      /\ cut' \subseteq Keys
  BY <1>1, CacheAssumption DEF IInv, Types
<1>3. /\ spent' \in [stops : Nat, faults : Nat, moves : Nat, compactions : Nat]
      /\ spent'.faults /= 0
  BY <1>1, FaultOf
<1>4. CASE UNCHANGED <<mode, disk>>
  <2>1. mode /= "closed"
    BY <1>1 DEF IInv, Modes, Idle
  <2> QED BY <1>1, <1>2, <1>3, <1>4, <2>1, NothingDone
<1>5. CASE /\ compactor.state = "done" /\ mode = "open" /\ mode' = "failed"
           /\ disk' \in {RemoveLog(d, "ready") : d \in Range(DoneDisks)}
  <2> DEFINE D == DoneDisks
  <2>1. /\ Range(D) = {D[1], D[2], D[3]}
        /\ \A i \in 1 .. 3 : /\ IsDisk(D[i], used) /\ D[i].files = disk.files
                             /\ \A k : Where(D[i], k) = Recovered(CatchUp, k)
        /\ DOMAIN D[1].logs = {"binlog", "ready"} /\ D[1].logs["binlog"] = Binlog
        /\ DOMAIN D[2].logs = {"ready"} /\ DOMAIN D[3].logs = {"binlog"}
    BY <1>5, DoneDisksOf
  <2> HIDE DEF D
  <2>2. PICK i \in 1 .. 3 : disk' = RemoveLog(D[i], "ready")
    BY <1>5, <2>1 DEF D
  <2>3. /\ IsDisk(disk', used) /\ disk'.files = disk.files
        /\ DOMAIN disk'.logs = DOMAIN D[i].logs \ {"ready"}
        /\ \A other \in DOMAIN D[i].logs \ {"ready"} : disk'.logs[other] = D[i].logs[other]
    <3>1. IsDisk(D[i], used) /\ D[i].files = disk.files
      BY <2>1
    <3> QED BY <2>2, <3>1, RemoveLogOf
  <2>4. ASSUME NEW k \in Keys
        PROVE  Where(disk', k) \in {Where(disk, k), NoPlace}
    <3>1. CASE i = 1
      <4>1. DOMAIN disk'.logs = {"binlog"} /\ disk'.logs["binlog"] = Binlog
        BY <2>1, <2>3, <3>1
      <4>2. Where(disk', k) = Recovered(Binlog, k)
        BY <4>1, WhereOf
      <4>3. Where(disk, k) = Recovered(Binlog, k)
        BY <1>5, OpenOf
      <4> QED BY <4>2, <4>3
    <3>2. CASE i = 2
      <4>1. DOMAIN disk'.logs = {}
        BY <2>1, <2>3, <3>2
      <4>2. LogOf(disk') = <<>>
        BY <4>1 DEF LogOf, Exists
      <4> QED BY <4>2 DEF Where, Recovered
    <3>3. CASE i = 3
      <4>1. DOMAIN disk'.logs = {"binlog"} /\ disk'.logs["binlog"] = D[3].logs["binlog"]
            /\ DOMAIN D[3].logs = {"binlog"}
        BY <2>1, <2>3, <3>3
      <4>2. Where(disk', k) = Where(D[3], k)
        BY <4>1, WhereOf
      <4>3. D[3].files = disk.files /\ \A l \in Keys : Where(D[3], l) = Recovered(CatchUp, l)
        BY <2>1
      <4>4. Where(D[3], k) \in {Where(disk, k), NoPlace}
        BY <1>5, <4>3, DoneWhere
      <4> QED BY <4>2, <4>4
    <3> QED BY <3>1, <3>2, <3>3
  <2>5. \A p : FileAt(disk', p) = FileAt(disk, p)
    BY <2>3 DEF FileAt
  <2>6. FileAt(disk, NoPlace) = None
    BY DEF FileAt
  <2>7. \A k \in Keys : /\ FileAt(disk', map'[k]) \in {None, latest'[k]}
                        /\ FileAt(disk', Where(disk', k)) \in {None, latest'[k]}
    <3>1. \A k \in Keys :
            {FileAt(disk, map[k]), FileAt(disk, Where(disk, k))} \subseteq {None, latest[k]}
      BY DEF IInv, Latest
    <3> QED BY <1>1, <2>4, <2>5, <2>6, <3>1
  <2>8. IsDisk(disk, used)' /\ "ready" \notin DOMAIN disk'.logs /\ compactor' \in {compactor, Idle}
        /\ removing' \subseteq removing /\ \A k \in Keys : map'[k] \in {map[k], NoPlace}
    BY <1>1, <2>3
  <2> QED BY <1>2, <1>3, <1>5, <2>4, <2>7, <2>8, FailedInv
<1> QED BY <1>4, <1>5 DEF CompactorFails, history

-----------------------------------------------------------------------------
(* A new database is empty.                                                *)
LEMMA InitInv == Init => IInv
<1> SUFFICES ASSUME Init PROVE IInv
  OBVIOUS
<1>1. /\ mode = "open" /\ map = [k \in Keys |-> NoPlace] /\ removing = {} /\ compactor = Idle
      /\ used = 0 /\ latest = [k \in Keys |-> None] /\ cut = {}
      /\ spent = [stops |-> 0, faults |-> 0, moves |-> 0, compactions |-> 0]
      /\ disk = [logs |-> [n \in {"binlog"} |-> <<>>], files |-> [p \in Places |-> None]]
  BY DEF Init, history
<1>2. <<>> \in Seq(Records(used))
  OBVIOUS
<1>3. /\ IsDisk(disk, used) /\ DOMAIN disk.logs = {"binlog"} /\ disk.logs["binlog"] = <<>>
  BY <1>1, <1>2 DEF IsDisk
<1>4. \A k : Where(disk, k) = NoPlace /\ FileAt(disk, NoPlace) = None
  <2>1. LogOf(disk) = <<>>
    BY <1>3 DEF LogOf, Exists
  <2> QED BY <2>1 DEF Where, Recovered, FileAt
<1>5. Types
  <2>1. IsFiniteSet(removing) /\ Cardinality(removing) < MaxBundledRecords
    BY <1>1, FS_EmptySet, CacheAssumption
  <2>2. compactor \in [state : {"none", "copying", "done"}, till : Nat, pos : Nat,
                       last : Nat, log : Seq(Records(used))]
    BY <1>1, <1>2 DEF Idle
  <2>3. /\ used \in 0 .. MaxPlaces /\ map \in [Keys -> 0 .. used]
        /\ latest \in [Keys -> Values \cup {None}] /\ cut \subseteq Keys
    BY <1>1, CacheAssumption DEF NoPlace
  <2>4. spent \in [stops : Nat, faults : Nat, moves : Nat, compactions : Nat]
    BY <1>1
  <2> QED BY <1>1, <1>3, <2>1, <2>2, <2>3, <2>4 DEF Types
<1>6. Modes /\ Agree /\ Safe /\ Copied
  BY <1>1, <1>3, <1>4 DEF Modes, Agree, Safe, Expected, Copied, Idle
<1>7. Apart /\ Latest
  BY <1>1, <1>4 DEF Apart, Latest
<1> QED BY <1>5, <1>6, <1>7 DEF IInv

(* Every step keeps what the log says and what the map says together.      *)
LEMMA StepKeeps == IInv /\ [Next]_vars => IInv'
<1> SUFFICES ASSUME IInv, [Next]_vars PROVE IInv'
  OBVIOUS
<1>1. CASE \E k \in Keys, v \in Values : Put(k, v) \/ StopInPut(k, v) \/ PutFails(k, v)
  BY <1>1, PutInv, StopInPutInv, PutFailsInv
<1>2. CASE \E k \in Keys : Remove(k) \/ RemoveFails(k)
  BY <1>2, RemoveInv, RemoveFailsInv
<1>3. CASE \E from, to \in Keys :
             MoveIfEmpty(from, to) \/ StopInMove(from, to) \/ MoveFails(from, to)
  BY <1>3, MoveIfEmptyInv, StopInMoveInv, MoveFailsInv
<1>4. CASE WriteBundles \/ WriteBundlesFails
  BY <1>4, WriteBundlesInv, WriteBundlesFailsInv
<1>5. CASE Open \/ StopInOpen \/ Close
  BY <1>5, OpenInv, StopInOpenInv, CloseInv
<1>6. CASE Crash
  BY <1>6, CrashInv DEF Crash, history
<1>7. CASE CompactorCopies \/ CompactorCatchesUp \/ CompactorDone
  BY <1>7, CompactorCopiesInv, CompactorCatchesUpInv, CompactorDoneInv
<1>8. CASE StopInCompactorDone \/ CompactorFails
  BY <1>8, StopInCompactorDoneInv, CompactorFailsInv
<1>9. CASE UNCHANGED vars
  <2>1. UNCHANGED <<mode, map, removing, compactor, disk, used, spent, latest, cut>>
    BY <1>9 DEF vars, history
  <2>2. Types' /\ Modes' /\ Apart' /\ Latest' /\ Agree' /\ Safe'
    BY <2>1 DEF IInv, Types, Modes, Apart, Latest, Agree, Safe, Expected
  <2>3. Copied'
    BY <2>1 DEF IInv, Copied, Since, Pending, Binlog
  <2> QED BY <2>2, <2>3 DEF IInv
<1> QED BY <1>1, <1>2, <1>3, <1>4, <1>5, <1>6, <1>7, <1>8, <1>9 DEF Next

(* In every state of the database what the log says of a key and what the  *)
(* map says of it agree as far as a failed disk lets them.                 *)
THEOREM Inductive == Spec => []IInv
<1> QED BY InitInv, StepKeeps, PTL DEF Spec

(* The records of the log are as in the type invariant.                    *)
LEMMA RecordsAre ==
  ASSUME NEW n \in Nat, n <= MaxPlaces, NEW log \in Seq(Records(n))
  PROVE  log \in Seq(Record)
<1>1. Records(n) \subseteq Record
  BY CacheAssumption DEF Records, Record, Store, MultiRemove, NoPlace
<1>2. Len(log) \in Nat /\ log \in [1 .. Len(log) -> Records(n)]
  BY LenProperties
<1>3. log \in [1 .. Len(log) -> Record]
  BY <1>1, <1>2
<1> QED BY <1>2, <1>3, SeqDef

(* Every variable has its type, whatever stops and fails.                  *)
THEOREM TypeCorrect == Spec => []TypeOK
<1>1. IInv => TypeOK
  <2> SUFFICES ASSUME IInv PROVE TypeOK
    OBVIOUS
  <2>1. /\ used \in Nat /\ used <= MaxPlaces /\ MaxPlaces \in Nat /\ IsDisk(disk, used)
        /\ compactor \in [state : {"none", "copying", "done"}, till : Nat, pos : Nat,
                          last : Nat, log : Seq(Records(used))]
    BY CacheAssumption DEF IInv, Types
  <2>2. \A name \in DOMAIN disk.logs : disk.logs[name] \in Seq(Record)
    BY <2>1, RecordsAre DEF IsDisk
  <2>3. compactor \in [state : {"none", "copying", "done"}, till : Nat, pos : Nat,
                       last : Nat, log : Seq(Record)]
    <3>1. \A log \in Seq(Records(used)) : log \in Seq(Record)
      BY <2>1, RecordsAre
    <3> QED BY <2>1, <3>1
  <2>4. map \in [Keys -> 0 .. MaxPlaces]
    BY <2>1 DEF IInv, Types
  <2>5. disk.files \in [Places -> Values \cup {None}] /\ DOMAIN disk.logs \subseteq {"binlog", "ready"}
    BY <2>1 DEF IsDisk
  <2> QED BY <2>2, <2>3, <2>4, <2>5 DEF IInv, Types, TypeOK
<1> QED BY <1>1, Inductive, PTL

(* What the properties call the disk.                                      *)
LEMMA OnDiskOf ==
  ASSUME NEW k \in Keys
  PROVE  OnDisk[k] = Where(disk, k)
<1>1. LogOnDisk = LogOf(disk)
  BY DEF LogOnDisk, LogOf, Exists, Binlog
<1> QED BY <1>1 DEF OnDisk, Where

(* A read is of the file in the place.                                     *)
LEMMA ReadOf ==
  ASSUME NEW k \in Keys
  PROVE  Read(map, k) = FileAt(disk, map[k]) /\ Read(OnDisk, k) = FileAt(disk, Where(disk, k))
BY OnDiskOf DEF Read, FileAt

(* put(), remove() and moveIfEmpty() of one key never touch the file of    *)
(* another, however the disk fails and wherever the process stops.         *)
THEOREM FilesAreOwn == Spec => []OwnFile
<1>1. IInv => OwnFile
  <2> SUFFICES ASSUME IInv, NEW k \in Keys, NEW l \in Keys, k /= l
               PROVE  /\ map[k] = map[l] => Read(map, k) = None
                      /\ OnDisk[k] = OnDisk[l] => Read(OnDisk, k) = None
    BY DEF OwnFile
  <2>1. /\ map[k] = map[l] => map[k] = NoPlace
        /\ Where(disk, k) = Where(disk, l) => Where(disk, k) = NoPlace
    BY DEF IInv, Apart
  <2>2. OnDisk[k] = Where(disk, k) /\ OnDisk[l] = Where(disk, l)
    BY OnDiskOf
  <2> QED BY <2>1, <2>2 DEF Read
<1> QED BY <1>1, Inductive, PTL

(* A read after any put(), remove() or moveIfEmpty() returns what was      *)
(* stored last or nothing, whatever fails.                                 *)
THEOREM ReadsAreLatest == Spec => []NeverStale
<1>1. IInv => NeverStale
  BY ReadOf DEF IInv, Latest, NeverStale
<1> QED BY <1>1, Inductive, PTL

(* put(), remove(), compactorDone() and openBinlog() are crash safe: as    *)
(* long as the disk does not fail, what the application was told is there, *)
(* in memory and after a stop at any moment, but for the one value that a  *)
(* stop inside moveIfEmpty() takes between its two records.                *)
THEOREM CrashSafe == Spec => []NothingLost
<1>1. IInv => NothingLost
  BY ReadOf DEF IInv, Safe, Expected, NothingLost
<1> QED BY <1>1, Inductive, PTL

=============================================================================
