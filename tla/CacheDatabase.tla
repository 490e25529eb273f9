--------------------------- MODULE CacheDatabase ---------------------------
(***************************************************************************)
(* The cache database of lib_storage (storage/cache): every value is a     *)
(* file of its own at a random place, and a log, `binlog', says which key  *)
(* is at which place.  A put writes the file, then the log, then removes   *)
(* the file it replaces; a removal takes the file away at once and is      *)
(* logged later, together with others.  A compactor on another queue       *)
(* writes a short log beside the growing one and the database then         *)
(* replaces the one by the other.  The process may stop anywhere.          *)
(*                                                                         *)
(* A place is never used twice (it is a random number of 56 bits).  When   *)
(* values are used, and which of them are pruned, is in CachePruning; here *)
(* a pruned value is one that is removed.                                  *)
(***************************************************************************)
EXTENDS Integers, Sequences, FiniteSets, Functions

SeqExt == INSTANCE SequencesExt

CONSTANTS
  Keys, Values, None,
  MaxBundledRecords,   \* removals that are logged together
  MaxPlaces,           \* bound: how many files are ever written
  MaxMoves,            \* bound: how many values are moved to another key
  MaxCompactions,      \* bound: how many compactions are started
  MaxFaults,           \* bound: how many disk operations fail
  MaxTroubles          \* bound: how often the disk fails or the process stops

ASSUME CacheAssumption ==
  /\ None \notin Values /\ MaxBundledRecords \in Nat \ {0}
  /\ {MaxPlaces, MaxMoves, MaxCompactions, MaxFaults, MaxTroubles} \subseteq Nat

VARIABLES
  mode,        \* "closed", "open", or "failed": _binlog was closed by an error
  map,         \* _map: the place of each key
  removing,    \* _removing
  compactor,   \* the compactor's state
  disk,        \* the logs by name, and the values in the places
  used,        \* how many places were ever used
  spent,       \* how much of each bound is used up
  latest,      \* history: what the application was told to be stored
  cut          \* history: keys whose value a stop took in the middle of a move

history == <<latest, cut>>
vars == <<mode, map, removing, compactor, disk, used, spent, history>>

NoPlace == 0
Places == 1 .. MaxPlaces

(* The compactor has read the log up to pos and will read it up to till;   *)
(* log is what it wrote to binlog-temp, which no one else reads and which  *)
(* the next compactor starts anew; last is lastCatchUp in finalize().      *)
Idle == [state |-> "none", till |-> 0, pos |-> 0, last |-> 0, log |-> <<>>]

(* A log record gives one key a place, or takes the place from some keys.  *)
Store(k, p) == [keys |-> {k}, place |-> p]
MultiRemove(keys) == [keys |-> keys, place |-> NoPlace]

(* readBinlog(): where the log says that a key is.                         *)
Recovered(log, k) ==
  LET about == {i \in DOMAIN log : k \in log[i].keys}
  IN  IF about = {} THEN NoPlace
      ELSE log[CHOOSE i \in about : \A j \in about : j <= i].place

(* File operations.                                                        *)
Exists(d, name) == name \in DOMAIN d.logs
Write(d, p, v) == [d EXCEPT !.files[p] = v]
RemoveValue(d, p) == IF p = NoPlace THEN d ELSE [d EXCEPT !.files[p] = None]
AppendTo(d, name, recs) == [d EXCEPT !.logs[name] = @ \o recs]
SetLog(d, name, log) ==
  [d EXCEPT !.logs = [n \in DOMAIN @ \cup {name} |-> IF n = name THEN log ELSE @[n]]]
RemoveLog(d, name) == [d EXCEPT !.logs = Restrict(@, DOMAIN @ \ {name})]

(* File::Move() of the ready log is not atomic: it removes binlog first.   *)
MoveReady(d) ==
  LET d1 == RemoveLog(d, "binlog")
  IN  <<d1, RemoveLog(SetLog(d1, "binlog", d.logs["ready"]), "ready")>>

Init ==
  /\ mode = "open"
  /\ map = [k \in Keys |-> NoPlace]
  /\ removing = {} /\ compactor = Idle
  /\ disk = [logs |-> [n \in {"binlog"} |-> <<>>],
             files |-> [p \in Places |-> None]]
  /\ used = 0 /\ latest = [k \in Keys |-> None] /\ cut = {}
  /\ spent = [stops |-> 0, faults |-> 0, moves |-> 0, compactions |-> 0]

(* readValueData() of a key.                                               *)
Read(m, k) == IF m[k] = NoPlace THEN None ELSE disk.files[m[k]]

Binlog == disk.logs["binlog"]

(* A handler makes these changes to the disk one after another.            *)
Completes(disks) == disk' = disks[Len(disks)] /\ UNCHANGED mode

(* The process stops after some of them, and all memory is lost.           *)
Stop ==
  /\ spent.stops + spent.faults < MaxTroubles
  /\ spent' = [spent EXCEPT !.stops = @ + 1]
  /\ mode' = "closed"
  /\ map' = [k \in Keys |-> NoPlace] /\ removing' = {} /\ compactor' = Idle

(* A disk operation fails; an error while writing the log closes it.       *)
Fault == /\ spent.faults < MaxFaults
         /\ spent.stops + spent.faults < MaxTroubles
         /\ spent' = [spent EXCEPT !.faults = @ + 1]

(* checkCompactor(): whether the log has grown enough is left open.        *)
checkCompactor ==
  \/ UNCHANGED <<compactor, spent>>
  \/ /\ compactor.state = "none" /\ mode' = "open"
     /\ disk'.logs["binlog"] /= <<>>
     /\ spent.compactions < MaxCompactions
     /\ spent' = [spent EXCEPT !.compactions = @ + 1]
     /\ compactor' = [Idle EXCEPT !.state = "copying",
                                  !.till = Len(disk'.logs["binlog"])]

-----------------------------------------------------------------------------
(* put() of a value that is not there already.  Should the file that it    *)
(* replaces not go away, no key is at its place any more, as after a stop. *)
PutDisks(k, v) ==
  LET d1 == Write(disk, used + 1, v)
      d2 == AppendTo(d1, "binlog", <<Store(k, used + 1)>>)
  IN  <<d1, d2, RemoveValue(d2, map[k])>>

Put(k, v) ==
  /\ mode = "open" /\ used < MaxPlaces /\ Read(map, k) /= v
  /\ used' = used + 1
  /\ Completes(PutDisks(k, v))
  /\ map' = [map EXCEPT ![k] = used + 1]
  /\ removing' = removing \ {k}
  /\ latest' = [latest EXCEPT ![k] = v] /\ cut' = cut \ {k}
  /\ checkCompactor

StopInPut(k, v) ==
  /\ mode = "open" /\ used < MaxPlaces /\ Read(map, k) /= v
  /\ used' = used + 1
  /\ \E i \in 1 .. 3 :
       /\ disk' = PutDisks(k, v)[i]
       /\ IF i = 1 THEN UNCHANGED history
          ELSE latest' = [latest EXCEPT ![k] = v] /\ cut' = cut \ {k}
  /\ Stop

(* The file or the log cannot be written; the file is taken away again.    *)
PutFails(k, v) ==
  /\ mode = "open" /\ used < MaxPlaces /\ Read(map, k) /= v
  /\ Fault
  /\ used' = used + 1
  /\ removing' = removing \ {k}
  /\ mode' \in {"open", "failed"}
  /\ UNCHANGED <<map, compactor, disk, history>>

(* writeMultiRemove().                                                     *)
Logged(d, keys) ==
  IF keys = {} THEN d ELSE AppendTo(d, "binlog", <<MultiRemove(keys)>>)

(* Mutant: the file stays until the removal is logged.                     *)
RemoveKeepsFile(k) ==
  /\ mode = "open" /\ map[k] /= NoPlace
  /\ LET keys == removing \cup {k}
         full == Cardinality(keys) = MaxBundledRecords
     IN  /\ removing' = IF full THEN {} ELSE keys
         /\ Completes(<<IF full THEN RemoveValue(Logged(disk, keys), map[k]) ELSE disk>>)
  /\ map' = [map EXCEPT ![k] = NoPlace]
  /\ latest' = [latest EXCEPT ![k] = None]
  /\ UNCHANGED <<compactor, used, spent, cut>>

(* remove(), for the application, for pruning, or in get() of a value that *)
(* is not in its place.  To stop in the middle of it is like to stop       *)
(* before or after it, but for a file that no key refers to.               *)
Remove(k) ==
  /\ mode = "open" /\ map[k] /= NoPlace
  /\ LET keys == removing \cup {k}
         full == Cardinality(keys) = MaxBundledRecords
     IN  /\ removing' = IF full THEN {} ELSE keys
         /\ Completes(<<RemoveValue(IF full THEN Logged(disk, keys) ELSE disk, map[k])>>)
  /\ map' = [map EXCEPT ![k] = NoPlace]
  /\ latest' = [latest EXCEPT ![k] = None]
  /\ UNCHANGED <<compactor, used, spent, cut>>

(* A full bundle of removals cannot be written, or the file does not go    *)
(* away, or both.  Only for its file is the application told of an error.  *)
RemoveFails(k) ==
  /\ mode = "open" /\ map[k] /= NoPlace
  /\ Fault
  /\ LET keys == removing \cup {k}
         full == Cardinality(keys) = MaxBundledRecords
         stays == UNCHANGED latest
         goes(d) == disk' = RemoveValue(d, map[k]) /\ latest' = [latest EXCEPT ![k] = None]
     IN  \/ /\ full /\ mode' = "failed" /\ removing' = {}
            /\ (disk' = disk /\ stays) \/ goes(disk)
         \/ /\ removing' = IF full THEN {} ELSE keys
            /\ Completes(<<IF full THEN Logged(disk, keys) ELSE disk>>) /\ stays
  /\ map' = [map EXCEPT ![k] = NoPlace]
  /\ UNCHANGED <<compactor, used, cut>>

(* Mutant: the removal of the old key is left to a later bundle.           *)
MoveDisksUnlogged(from, to) ==
  <<disk, AppendTo(disk, "binlog", <<Store(to, map[from])>>)>>

(* moveIfEmpty().                                                          *)
MoveDisks(from, to) ==
  LET d1 == Logged(disk, removing \cup {from})
  IN  <<d1, AppendTo(d1, "binlog", <<Store(to, map[from])>>)>>

MayMove(from, to) ==
  from /= to /\ map[to] = NoPlace /\ map[from] /= NoPlace /\ spent.moves < MaxMoves

MoveIfEmpty(from, to) ==
  /\ mode = "open" /\ MayMove(from, to)
  /\ Completes(MoveDisks(from, to))
  /\ removing' = {}
  /\ map' = [map EXCEPT ![to] = map[from], ![from] = NoPlace]
  /\ latest' = [latest EXCEPT ![to] = Read(map, from), ![from] = None]
  /\ cut' = cut \ {to}
  /\ spent' = [spent EXCEPT !.moves = @ + 1]
  /\ UNCHANGED <<compactor, used>>

(* A stop between the two records loses the value to both keys, and nobody *)
(* is told.                                                                *)
StopInMove(from, to) ==
  /\ mode = "open" /\ MayMove(from, to)
  /\ disk' = MoveDisks(from, to)[1]
  /\ cut' = cut \cup {from}
  /\ Stop
  /\ UNCHANGED <<used, latest>>

(* The first or the second log record cannot be written.  The log is not   *)
(* looked at before: a move in a failed database also forgets the key.     *)
MoveFails(from, to) ==
  /\ mode /= "closed" /\ MayMove(from, to)
  /\ \/ /\ mode = "failed" /\ UNCHANGED <<disk, spent>>
     \/ /\ mode = "open" /\ Fault
        /\ disk' \in {disk, MoveDisks(from, to)[1]}
  /\ mode' = "failed" /\ removing' = {}
  /\ map' = [map EXCEPT ![from] = NoPlace]
  /\ UNCHANGED <<compactor, used, history>>

(* The timer of writeBundlesLazy().                                        *)
WriteBundles ==
  /\ mode = "open" /\ removing /= {}
  /\ Completes(<<Logged(disk, removing)>>)
  /\ removing' = {}
  /\ checkCompactor
  /\ UNCHANGED <<map, used, history>>

WriteBundlesFails ==
  /\ mode = "open" /\ removing /= {}
  /\ Fault
  /\ mode' = "failed" /\ removing' = {}
  /\ UNCHANGED <<map, compactor, disk, used, history>>

-----------------------------------------------------------------------------
(* open() and openBinlog(): a log that a compactor finished is taken over, *)
(* and the process may stop while it is.                                   *)
OpenDisks ==
  IF Exists(disk, "ready") THEN MoveReady(disk)
  ELSE IF Exists(disk, "binlog") THEN <<disk>>
  ELSE <<SetLog(disk, "binlog", <<>>)>>

Open ==
  /\ mode = "closed"
  /\ mode' = "open"
  /\ disk' = OpenDisks[Len(OpenDisks)]
  /\ map' = [k \in Keys |-> Recovered(disk'.logs["binlog"], k)]
  /\ checkCompactor
  /\ UNCHANGED <<removing, used, history>>

StopInOpen ==
  /\ mode = "closed" /\ Len(OpenDisks) = 2
  /\ disk' = OpenDisks[1]
  /\ Stop
  /\ UNCHANGED <<used, history>>

Close ==
  /\ mode /= "closed"
  /\ disk' = IF mode = "open" THEN Logged(disk, removing) ELSE disk
  /\ Stop
  /\ UNCHANGED <<used, history>>

Crash ==
  /\ mode /= "closed"
  /\ Stop
  /\ UNCHANGED <<disk, used, history>>

-----------------------------------------------------------------------------
(* The compactor.  It takes the keys of the next stored records below till *)
(* to the database, which answers with where they are now (getManyRaw),    *)
(* and writes those that it has not written yet.  What it reads does not   *)
(* change any more and nobody reads what it writes, so that the moment of  *)
(* the answer is all that matters.                                         *)
CompactorCopies ==
  /\ compactor.state = "copying" /\ mode = "open"
  /\ compactor.pos < compactor.till
  /\ LET rec == Binlog[compactor.pos + 1]
         new == {k \in rec.keys : /\ rec.place /= NoPlace /\ map[k] /= NoPlace
                                  /\ Recovered(compactor.log, k) = NoPlace}
     IN  compactor' = [compactor EXCEPT
                         !.pos = @ + 1,
                         !.log = @ \o SeqExt!SetToSeq({Store(k, map[k]) : k \in new})]
  /\ UNCHANGED <<mode, map, removing, disk, used, spent, history>>

(* CatchUp() copies what the log has grown by.                             *)
CatchUp == compactor.log \o SubSeq(Binlog, compactor.pos + 1, Len(Binlog))

(* finalize(): until the log grows no more, or not less than before.       *)
CompactorCatchesUp ==
  /\ compactor.state = "copying" /\ mode = "open"
  /\ compactor.pos >= compactor.till
  /\ LET grown == Len(Binlog) - compactor.pos
     IN  compactor' =
           [compactor EXCEPT
              !.pos = Len(Binlog), !.last = grown, !.log = CatchUp,
              !.state = IF grown = 0 \/ (compactor.last > 0 /\ grown >= compactor.last)
                          THEN "done" ELSE @]
  /\ UNCHANGED <<mode, map, removing, disk, used, spent, history>>

(* Mutant: what was logged after finalize() is not copied.                 *)
DoneDisksNoCatchUp ==
  LET d1 == SetLog(disk, "ready", compactor.log) IN <<d1>> \o MoveReady(d1)

(* compactorDone(): what was logged since is copied, the new log gets its  *)
(* name in two moves and is opened.                                        *)
DoneDisks ==
  LET d1 == SetLog(disk, "ready", CatchUp) IN <<d1>> \o MoveReady(d1)

CompactorDone ==
  /\ compactor.state = "done" /\ mode = "open"
  /\ Completes(DoneDisks)
  /\ compactor' = Idle
  /\ UNCHANGED <<map, removing, used, spent, history>>

StopInCompactorDone ==
  /\ compactor.state = "done" /\ mode = "open"
  /\ disk' \in Range(DoneDisks)
  /\ Stop
  /\ UNCHANGED <<used, history>>

(* compactorFail(), also from inside compactorDone(), which may have       *)
(* closed the log by then, or have removed it.                             *)
CompactorFails ==
  /\ compactor.state /= "none"
  /\ Fault
  /\ compactor' = Idle
  /\ \/ UNCHANGED <<mode, disk>>
     \/ /\ compactor.state = "done" /\ mode = "open"
        /\ mode' = "failed"
        /\ disk' \in {RemoveLog(d, "ready") : d \in Range(DoneDisks)}
  /\ UNCHANGED <<map, removing, used, history>>

Next ==
  \/ \E k \in Keys, v \in Values : Put(k, v) \/ StopInPut(k, v) \/ PutFails(k, v)
  \/ \E k \in Keys : Remove(k) \/ RemoveFails(k)
  \/ \E from, to \in Keys :
       MoveIfEmpty(from, to) \/ StopInMove(from, to) \/ MoveFails(from, to)
  \/ WriteBundles \/ WriteBundlesFails
  \/ Open \/ StopInOpen \/ Close \/ Crash
  \/ CompactorCopies \/ CompactorCatchesUp \/ CompactorDone
  \/ StopInCompactorDone \/ CompactorFails

Spec == Init /\ [][Next]_vars

-----------------------------------------------------------------------------
Record == [keys : SUBSET Keys, place : 0 .. MaxPlaces]

(* Every variable has its type.                                            *)
TypeOK ==
  /\ mode \in {"closed", "open", "failed"}
  /\ map \in [Keys -> 0 .. MaxPlaces]
  /\ removing \subseteq Keys /\ Cardinality(removing) < MaxBundledRecords
  /\ disk.files \in [Places -> Values \cup {None}]
  /\ DOMAIN disk.logs \subseteq {"binlog", "ready"}
  /\ \A n \in DOMAIN disk.logs : disk.logs[n] \in Seq(Record)
  /\ compactor \in [state : {"none", "copying", "done"}, till : Nat, pos : Nat,
                   last : Nat, log : Seq(Record)]
  /\ used \in 0 .. MaxPlaces /\ latest \in [Keys -> Values \cup {None}]
  /\ cut \subseteq Keys

(* What open() would find if the process stopped now.                      *)
LogOnDisk ==
  IF Exists(disk, "ready") THEN disk.logs["ready"]
  ELSE IF Exists(disk, "binlog") THEN Binlog ELSE <<>>

OnDisk == [k \in Keys |-> Recovered(LogOnDisk, k)]

(* What should be there of a key: what the application was told, but that  *)
(* a value is lost when the process stops inside its moveIfEmpty(), which  *)
(* logs that the old key has nothing before it logs the new key.           *)
Expected(k) == IF k \in cut THEN None ELSE latest[k]

(* As long as the disk does not fail, the database has exactly that, in    *)
(* memory and after a stop at any moment, with removals not logged yet and *)
(* a compaction under way: put(), remove(), compactorDone() and            *)
(* openBinlog() are crash safe, and a stop in moveIfEmpty() costs at most  *)
(* the one value that is moved, until something is stored for its key.     *)
NothingLost ==
  spent.faults = 0 =>
    \A k \in Keys : /\ Read(OnDisk, k) = Expected(k)
                    /\ mode /= "closed" => Read(map, k) = Expected(k)

(* Whatever fails on the disk, a read after any put(), remove() or         *)
(* moveIfEmpty() returns what was stored last or nothing, never an older   *)
(* value nor another key's, nor one whose removal succeeded, now and after *)
(* a stop at any moment.                                                   *)
NeverStale ==
  \A k \in Keys : {Read(map, k), Read(OnDisk, k)} \subseteq {None, latest[k]}

(* No two keys own the same file, in memory or on the disk, so that        *)
(* remove() of one never takes the value of another.                       *)
OwnFile ==
  \A m \in {map, OnDisk} : \A k, l \in Keys :
    k /= l /\ m[k] = m[l] => Read(m, k) = None
=============================================================================
