# Telegram Desktop: a verification of its protocols and queues

This directory holds TLA+ models of the parts of Telegram Desktop that have a
protocol of their own: how the client keeps in step with the server's *updates*,
how a request lives in an MTProto session until it is answered, how the requests
about one chat are kept in order, how the cache keeps its promises on a disk that
may fail at any moment, and the lock-free serial queue that much of this runs on.
The models are translated from the code under `Telegram/SourceFiles`,
`Telegram/lib_storage` and `Telegram/lib_crl`; TLC checks them on small instances,
and TLAPS proves the central safety results for every instance.

## The system

| Part | State it keeps | Operations | What is hard about it | Modules |
| --- | --- | --- | --- | --- |
| pts waiter (`data/data_pts_waiter`) | `_good`, `_last`, `_count`, a queue, three flags | `init`, `setRequesting`, `updateAndApply` (three forms), `setWaitingForShortPoll` | a hole is recognised by comparing two sums only | `PtsWaiter` |
| updates (`api/api_updates`) | a waiter for the account and one per channel, three timers, pending requests, active chats | pushes, replies, differences, failures, new sessions, timers | answers overwrite state that pushes also move; pushes are thrown away on purpose | `Updates` |
| seq of containers (`api/api_updates`) | `_updatesSeq`, `_bySeqUpdates`, `_bySeqTimer` | `applyUpdates`, `setState` | the two call each other while the queue is being emptied | `UpdatesSeq` |
| MTProto session (`mtproto`) | messages to send, sent, acknowledged; ids received | send, resend, acknowledge, cancel, reconnect | two threads share the maps, one lock at a time; answers are lost, late or repeated | `MtpSession`, `ReceivedIds` |
| histories (`data/data_histories`) | requests, read positions and wanted entries per chat | load, read, send, delete, postpone | requests that must not overtake each other, one timer for all reads | `Histories` |
| cache database (`lib_storage/storage/cache`) | log, map of entries, bundles of lazy writes, a compactor | put, get, remove, move, prune, clear, compact | a stop between two writes; a compaction that runs while the log grows | `CacheDatabase`, `CachePruning` |
| serial queues (`lib_crl`) | a lock-free list and a flag | `async`, `sync`, `process` | a wake-up must not be lost; addresses are used again | `CrlQueue` |
| download manager (`storage/download_manager_mtproto`) | queues and sessions per datacentre | enqueue, cancel, timeouts | sessions are opened and closed while requests run | — |
| streaming reader (`media/streaming`) | slices of a file | fill, load, put to cache | the player's thread and the main thread share it | — |

How they interact: `crl::queue` runs the cache's database object and its
compactor, each on a queue of its own, and stands under the main thread's event
queue. The session's thread drops messages that it has seen (`ReceivedIds`) and
hands answers and pushes to the main thread, where `Updates` and `Histories` get
them one at a time, in the order of their arrival. `Updates` therefore takes for
granted what `ReceivedIds` shows, that a message comes at most once in a session,
and what `MtpSession` shows under fairness, that a request is answered in the end.
`Updates` and `UpdatesSeq` have one difference request in common; each has the other
as "somebody else asks". `Histories` relies on answers in the end (`MtpSession`,
`Answered`) and on a cancelled request getting none (the callback is gone from
`_parserMap`). `CachePruning` chooses which keys the removal of `CacheDatabase`
takes. The components are composed by these assumptions and not in one state
machine, which would be out of TLC's reach.

### How updates work

A *box* is one numbered sequence of updates: the account's common one (private
chats and basic groups) and one per channel or supergroup. An update takes
`pts_count` points and ends at point `pts`. The waiter of a box remembers the
point up to which it has everything (`_good`), the highest point it saw
(`_last`) and the sum of the points it was handed (`_count`). When the last two
are equal nothing is missing, and `_good` moves up. Otherwise updates are saved
and a timer of one second starts; when it fires, `getDifference` or
`getChannelDifference` asks the server for everything past `_good`. While such a
request runs, the pushes of the box are thrown away, and for the common box the
pushes of *all* boxes: the answer has to make up for them. A failed request is
repeated after a growing pause, and an answer may be a slice, to be followed by
the next request.

## The modules

- `PtsWaiter` has the methods of the class `PtsWaiter` as operators, one per
  method, each from a waiter to what the method leaves behind. The timer that a
  method starts or stops, and the updates it applies, are fields of the result.
- `Updates` is the state machine: the client's actions are the handlers of
  `Api::Updates`, and the server is an environment that logs updates, sends them
  in any order and answers requests from its log. One message queue `net` stands
  for what is on its way to the main thread.
- `UpdateFeed` is the abstract specification of `Updates`: no waiters, timers,
  messages or requests, only the promise to the rest of the application. Per box,
  what is applied grows and is never made up; the reported pts moves forward only,
  and only over updates that were applied, unless the client openly starts anew
  from the server's state (`getState`, or a channel's difference that is too long).
- `UpdatesSeq` models the numbers of the *containers* that updates come in, which
  are independent of the pts of the updates inside.
- `MtpSession` follows requests through one MTProto session: the main thread, the
  session's thread, the connection and the server's end of the session.
- `ReceivedIds` has the ids of what the server sent, and which of them are kept.
- `Histories` has the requests about a chat, its reads and its entry in the list.
- `CacheDatabase` has the cache's values and log on the disk with stops and
  failures between any two writes, and the compaction. `CachePruning` has its
  limits of size and age.
- `CrlQueue` has the lock-free list and the flag of `crl::queue`, one atomic
  operation a step; `SerialQueue` is what it promises, the abstract specification.
- `UpdatesInv` states the inductive invariant of `Updates`, and `UpdatesWatch` two
  more on top of it.
- `UpdatesProofs` (of `PtsWaiter`, `Updates` and `UpdatesWatch`), `UpdatesSeqProofs`,
  `MtpSessionProofs`, `HistoriesProofs`, `CacheDatabaseProofs`,
  `CachePruningProofs`, `CrlQueueProofs` and `ReceivedIdsProofs` hold the lemmas and
  theorems.
- `MCUpdates`, `MCMtpSession` and `MCHistories` give constants their values for TLC,
  `MCCache` a symmetry; the other runs need neither.

Operators preceded by the comment "Mutant" are likely mistakes in the code that
the next definition models. They are used only to see that a property notices.

Every `TypeOK` can be added to the `INVARIANTS` of its module's `.cfg`. Where it is
not there, the other properties of the run say more about the same state.

### `Updates`

| Model | Code |
| --- | --- |
| `waiter[b]` | `Updates::_ptsWaiter`, `ChannelData::_ptsWaiter` |
| `byPts` | the boxes that have a moment in `_getDifferenceTimeByPts`, `_whenGetDiffByPts` |
| `afterFail` | the same for `_getDifferenceTimeAfterFail`, `_whenGetDiffAfterFail` |
| `byMinChannel` | `_byMinChannelTimer` is active |
| `active` | the channels in `_activeChats` |
| `applied` | what the session's data took over (history, not code) |
| `counted`, `base` | history variables: what is in `_count`, where knowledge starts |
| `ReceivePush`, `ReceiveReply`, `feedUpdate` | `mtpUpdateReceived`, `ApiWrap::applyUpdates`, `feedUpdate` |
| `ReceiveAffected`, `ReceivePtsReceived` | `applyAffectedHistory`, `applyAffectedMessages`, `ChannelData::ptsReceived` |
| `ReceiveTooLong` | `updatesTooLong`, `updateChannelTooLong` |
| `ReceiveDifference`, `ReceiveChannelDifference`, `ReceiveFail` | `stateDone`, `differenceDone`, `channelDifferenceDone`, `differenceFail`, `channelDifferenceFail` |
| `ReceiveNewSession` | `mtpNewSessionCreated`, and the session reset in `main_account.cpp`, which does the same |
| `PtsTimer`, `FailTimer`, `MinChannelTimer` | `getDifferenceByPts`, `getDifferenceAfterFail`, the lambda of `_byMinChannelTimer` |
| `ShowChat`, `CloseWindow` | the two callbacks of `addActiveChat` |

- Timers are flags: an armed timer may fire at any moment. The pauses
  (one second, a poll's timeout, the doubling pause after failures) only decide
  when.
- `ptsWaiterStartTimerFor` may call `getDifferenceByPts` at once and so ask for
  *another* box whose moment has passed; this is the same as that box's timer
  firing right after, which the model allows.
- A container holds one update and no seq. A channel that is not loaded is one
  without pts. With `LoadedWithoutPts` a channel may also be loaded before its
  pts is known and take its first pts from a push.
- The server (external) keeps its log for ever, tiles the points of a box
  without overlap, answers a difference completely up to an update's end, lists
  in a common difference the channels that moved, and repeats in a new session
  what it had not yet delivered of its *answers*, not of its pushes.
- `updates.differenceTooLong` and a failing `updates.getState` do not occur: the
  code has no way out of either, see the hazards in `PROJECT.json`.
- `requestChannelRangeDifference`, which refreshes a loaded part of a history
  and moves no pts, the exceptions for group calls and for a forced logout in
  `mtpUpdateReceived`, qts and the online status are left out.

### `UpdatesSeq`

A container takes one number, or several if it is a combined one. `applyUpdates`
drops a container whose number is old, feeds the next one and saves a later one
in `_bySeqUpdates` for a second. `setState` takes over a number and feeds the saved
containers that follow by calling `applyUpdates`, which calls `setState` again; the
model takes this whole recursion as one step that feeds a *run* of saved
containers without a hole. A fed container may ask for the common difference,
which empties the queue, so a run may also stop there. All that matters of a
container is its numbers; containers without a seq are left out.

| Model | Code |
| --- | --- |
| `updatesSeq`, `bySeqUpdates`, `bySeqTimer` | `_updatesSeq`, `_bySeqUpdates`, `_bySeqTimer` |
| `requesting`, `afterFail` | `requestingDifference()`, `_getDifferenceTimeAfterFail` |
| `Feed`, `Keep` | the two parts of `setState`: what is fed, what waits on |
| `Ask` | `getDifference` |
| `AskElsewhere` | the pts waiters ask for the difference |
| `taken`, `covered` | history: containers fed, containers a difference made up for |

### `MtpSession` and `ReceivedIds`

A step of `MtpSession` is what one thread does under one lock, so a request may be
seen between two maps: `hand` is what the session's thread took from one and has
not put to the other, `main` is what the main thread is in the middle of.

| Model | Code |
| --- | --- |
| `callback`, `delayed` | `_parserMap`, `_delayedRequests` of `Instance::Private` |
| `toSend`, `haveSent`, `received` | `SessionData`'s maps of the same names, shared by the threads |
| `msgId`, `owner` | the message id in a request's bytes; which request an id was given to |
| `resending`, `acked`, `containers`, `asking`, `pinging` | `_resendingIds`, `_ackedIds`, `_sentContainers`, `_stateRequestData`, `_pingId` |
| `Send`, `CancelBegin` … `CancelCallback` | `sendRequest`, the four steps of `cancel` |
| `HandleResponse`, `Restore`, `checkDelayedRequests` | `tryToReceive`, `execCallback`, `onErrorDefault` and the delayed resend |
| `TryToSendNothing`, `TryToSendSingle`, `TryToSendContainer`, `PutHaveSent` | `tryToSend` |
| `TakeHaveSent`, `PutToSend` | `resend`, one id at a time |
| `clearOldContainers`, `checkSentRequests` | the timers of the same names |
| `Connect`, `Lose` | `restart`, `onConnected`, a broken connection |
| `Receive…` | `handleOneReceived`, one action for each constructor |
| `ServerReceive`, `ServerAnswer`, `ServerRefuse`, `ServerForget` | the server (external) |

Left out: keys, salts, clocks, acks of answers (any answer may come again after a
reconnect), `invokeAfter` dependencies, and which of several connections wins.
A container holds the requests of the head of `toSend`, however many fit.

`ReceivedIds` has `_idsNeedAck` as `known`. A message is registered when it comes
(`Receive`), and so is each message in a container (`ReceiveInner`); after the
message the buffer is shrunk or the session reset (`Finish`). The time of an id
that the code checks before is not modelled: ids come in any order.

### `Histories`

All of it runs on the main thread; handlers call each other and are operators on
a record that has everything they change. The code's `Histories::State` is
`state[h]`, field by field.

| Model | Code |
| --- | --- |
| `inboxReadBefore` | `History::_inboxReadBefore` |
| `historyByRequest` | `_historyByRequest` |
| `dialogRequests`, `dialogRequestsPending`, `readers`, `posted` | the two maps of wanted entries, whether a callback reads on, whether `sendDialogRequests` is queued |
| `timer`, `Tick` | `_readRequestsTimer`, in ticks |
| `sendRequest`, `finishSentRequest`, `cancelRequest` | the methods of these names, `checkPostponed` included |
| `Request`, `DeleteChannel`, `ReadInbox`, `NewMessage`, `RequestDialogEntry`, `SendPendingReadInbox` | what the rest of the application asks |
| `ReadTimer`, `sendDialogRequests` | the timer, the queued call |
| `EntryAnswered`, `Answered`, `DeletedInPart`, `ReadAnswered` | answers of the server |
| `ServerRead`, `DialogLoaded` | reads on another device, a loaded list of chats |

How many messages stay unread is chosen freely, as is what the server says of a
chat; every chat in one answer gets the same entry.

### `CacheDatabase` and `CachePruning`

| Model | Code |
| --- | --- |
| `map`, `removing`, `mode` | `_map`, `_removing`, whether `_binlog` is open, closed or failed |
| `disk.files`, `disk.logs` | the values at their places; `binlog` and `binlog-ready` |
| `compactor` | `CompactorObject` and `_compactor`: how far it read, what it wrote |
| `PutDisks`, `MoveDisks`, `OpenDisks`, `DoneDisks` | the disk after each write of `put`, `moveIfEmpty`, `openBinlog`, `compactorDone` |
| `Put`, `Remove`, `MoveIfEmpty`, `WriteBundles`, `Open`, `Close` | the operations, when all their writes succeed |
| `StopIn…`, `Crash` | the process ends after any of the writes, or between two operations |
| `…Fails` | one of the writes fails, and a failed log is closed; or the file of `remove` does not go away |
| `CompactorCopies`, `CompactorCatchesUp`, `CompactorDone`, `CompactorFails` | `readChunk` … `addListRecord`, `finalize`, `compactorDone`, `compactorFail` |
| `latest` | history: what the application was told to be stored |
| `cut` | history: the old keys of moves in the middle of which the process stopped |

A record is written whole, and a place is never used twice (the code draws it at
random and looks whether the file is there). Left out: the directory's versions
with `clear` and the cleaner, encryption, torn records.

In `CachePruning`, `minimal` is the pair of the oldest time and how many entries
have it, `accessed` the bundle of uses not yet written, `timer` `_pruneTimer`,
`stale` and `clearing` the keys that wait to be cleared in chunks and whether the
next chunk is queued. `MoveIfEmpty` is the one step that puts an entry without
arming the timer. `Prune(order)` walks the map in any `order`, as an
`unordered_map` may.

### `CrlQueue`

| Model | Code |
| --- | --- |
| `head` | `list::_head` and the entries behind it |
| `queued`, `callbacks` | `queue::_queued`; `ProcessCallback`s in the thread pool |
| `Async`, `PushRetry`, `PushEntry` | `async`, `sync`, the loop of `push_entry` around its compare-and-exchange |
| `ProducerWakes`, `ProducerSubmits`, `WorkerWakes`, `WorkerSubmits` | `wake_async` |
| `Take`, `BeginEntry`, `EndEntry` | `list::process`: `_head.exchange`, `ReverseList`, each entry |
| `Clear`, `Check` | `_queued.clear()` and the second look at the list |
| `Acquire` | the semaphore of `sync` |

An entry is an address, and is used again as soon as it is freed, so that the
compare-and-exchange may succeed on an address read before. Left out: a queue
destroyed from inside one of its own callables, and the platforms that use
another queue.

## What is checked

| Run | Instance | Shows |
| --- | --- | --- |
| `common_box` | the common box, up to three updates of 1 or 2 points, pushed, in replies or confirmed by affected-messages answers; one failure, one too-long notice, one lost session | `AppliedInOrder`, `GapIsWatched`, `PtsNeverGoesBack`, `CatchesUp` |
| `channel` | the common box and a channel with two updates, pushed; slices, and two out of a failure, a difference that is too long and a lost session | `NothingSkipped`, `NothingForgotten`, `OneRequest`, `CatchesUp` |
| `feed` | a channel with pushes, affected messages, an update without points, a first pts from a push, a lost session | `ImplementsFeed`, and `IInv`, the invariant of the proofs |
| `seq` | containers of 1 or 2 numbers up to number 3, pushed and in replies, a slice, a failure, a difference asked for elsewhere, a lost session | `SeqInOrder`, `SeqNothingForgotten`, `HeldBackIsWatched`, `AllTakenAtLast` |
| `mtp` | one or two requests in each of four scenarios of troubles | `NothingForgotten`, `NotRepeated`, `SentOnce` |
| `mtp_live` | three scenarios under fairness: errors retried at once, slow answers, a cancel during a break and a lost session | `Answered`, `Drains` |
| `received_ids` | seven ids, a buffer of three | `NeverTwice`, `ResetsForOld` |
| `histories` | two chats; three things asked of one and its channel deleted, or three asked of both | `LoadsAfterDeletions`, `EntryIsWatched`, `EntryIsPostponed`, `ReadsInOrder`, `ReadIsSent`, `ComesToRest` |
| `cache` | two keys, two values, three files, a move, a compaction, bundles of two, two troubles of which one may be a failing disk | `NothingLost`, `NeverStale`, `OwnFile` |
| `cache_pruning` | three keys of two sizes, four moments of which entries are put and moved in two, chunks of one | `CountsAreRight`, `PutIsKept`, `StaleIsWatched`, `TakesOldest`, `SizeIsLimited` |
| `crl_queue` | two producers, two pool threads, two addresses, four pushes | `NoLostWakeUp`, `Serial`, `AllRun`, `SyncReturns` |
| `gap_after_first_push` | a channel that takes its first pts from a push | the finding below |

The comment above each property says what it states of which code. Deadlock is
not checked where a bound, or an application that asks nothing more, lets the
system rest.

### Bounds

- `Updates`: `MaxPts` stops the server's numbering; `MaxZero`, `MaxFails`,
  `MaxTooLong` and `MaxSessions` count rare events, and `MaxTroubles` the last three
  together (any two of them in `channel`, all three in `common_box`). Three points from the first
  one are a hole, a late arrival and a further update after it, the shortest way
  to hide a hole behind a point that was counted twice (the mutant `updatedLate`
  needs exactly this). Two points per update separate the sum from the number of
  updates. Updates without points flush the queue early and cancel the wait, so
  `AppliedInOrder`, `GapIsWatched` and `NothingForgotten` are stated without them
  (`MaxZero = 0`); the others hold with them.
- `UpdatesSeq`: `MaxSeq` and `MaxSpan` for the numbers, `MaxSlices`, `MaxFails`,
  `MaxAsks` and `MaxSessions` for rare events. Three numbers make a hole with a
  saved container behind it. The server numbers replies or loses the session,
  never both: a reply saved while a difference is awaited survives a new session,
  because `getDifference` returns before it clears the queue, and is then compared
  with the numbers of the next session. Whether the server numbers replies at all
  is not visible in this repository.
- `MtpSession`: every trouble multiplies the states, so a behaviour keeps to one of
  the `Scenarios`, each a pair or more of troubles that meet in the code. Two
  requests make a container, one is enough for everything else. In `Missed`, which is
  for `Drains`, the steps of the cancel fall between those of the session's thread,
  so that it may find the request in neither map: a request that nobody waits for is
  then sent, resent after the break, and taken away by its answer.
- `ReceivedIds`: seven ids are a full buffer of three, one id below it that was
  dropped, one that never came, and a container that overfills it.
- `Histories`: three requests are a deletion, one that waits for it, and a read or
  an entry between them; two chats share the timer and the requests of entries.
- `CacheDatabase`: `MaxTroubles` counts stops and failures together and
  `MaxFaults` the failures: a stop and a second one in the recovery, or a failure
  and a stop after it. `MaxPlaces`, `MaxMoves` and `MaxCompactions` count writes.
  Bundles of two leave one removal unlogged, two keys are a key and another's file.
- `CachePruning`: after `MaxPutTime` nothing is put or moved, so that there is an end to come
  to; three keys are one taken, one that a larger one makes superfluous, one kept.
- `CrlQueue`: four pushes use both addresses twice.

### Fairness

- `CatchesUp` and `AllTakenAtLast` assume weak fairness of: sending what the server
  has to send, answering each request, the main thread taking the next message,
  and each armed timer firing. The first two are the server's and the transport's
  part, the last two hold because the main thread runs an event loop and no
  handler of this machinery blocks. Failures and lost sessions are bounded and not
  fair.
- `Answered` and `Drains` of `MtpSession` assume it of both threads, of the timer of
  `checkSentRequests`, of connecting again and of a server that takes, answers and
  asks for what it gets.
- `ReadIsSent` and `ComesToRest` assume that time passes, that a due timer and a
  queued call run, and that some request is answered as long as there is one
  awaited. `SizeIsLimited` assumes the same of the prune timer and the queued
  chunk.
- In most modules weak fairness is written out as `[]<>~guard \/ []<><<A>>_vars`, with
  the guard that enables the action, since every step of these actions changes
  something; it is the same as `WF_vars(A)` and spares TLC evaluating `ENABLED`.
- `AllRun` and `SyncReturns` assume that no thread is starved, that the pool runs
  what it is given and that callables return.

### Finding

`gap_after_first_push`: `ChannelData::ptsReceived` hands the waiter a pts with a
count of zero. If that pts is ahead, `check()` starts the one-second wait, but
returns true because the count is zero, and `updateAndApply` goes on to
`applySkippedUpdates`, which cancels the wait it just started. The comment in
`data_pts_waiter.h` says "1s wait for skipped seq or pts in updates."; here
nothing waits and nothing asks until the next update of the channel arrives.
TLC needs a channel that is loaded without pts, two updates of which one is
dropped during `getState`, and the list of dialogs. With the constants of this
run `CatchesUp` fails as well.

## What is proved

All theorems hold for every value of the constants that the named `ASSUME`s of the
module allow.

**Updates** (`UpdatesProofs`): `TypeCorrect` (`Spec => []TypeOK`), `Inductive`
(`Spec => []IInv`), `AllApplied` (`Spec => []NothingSkipped`), `NeverBack`
(`Spec => PtsNeverGoesBack`), `Implements` (`Spec => ImplementsFeed`). The
assumptions are that the common box is not a channel, that update sizes are
positive and that the bounds are natural numbers.

`NothingSkipped` is far from inductive: that `_last = _count` means "nothing is
missing" rests on what was counted. The invariant says that the server's updates
tile the points (`Tiles`), that a waiter's `_count` is `_good` plus the number
of points of a set `counted` of distinct updates past `_good` which are queued
or applied (`WaiterInv`), that an update under way has not been counted and is
under way once (`MessageInv`, `Clash`), and that an answer finds its box still
requesting and at the pts it was asked from (`MessageInv`, `RequestInv`). The key
lemmas about the waiter are about sets of points: `PointsAdd` (one more update
adds its count, because the updates do not overlap) and `GapClosed` (as many
distinct points as lie between `_good` and `_last` are all of them). Each action
has a lemma that concludes both that the invariant is kept and that the step is
one of `UpdateFeed`.

**Updates, waiting and watching** (`UpdatesProofs` as well): two invariants on top
of `IInv`, stated in `UpdatesWatch`. `AwaitInv` says that a box which is marked as
requesting has a request at the server, an answer on its way or the retry timer;
`Awaits` and `AskedOnce` (`[]OneRequest`) follow from it, without any hypothesis.
`WatchInv` is behind `GapsTimed` (`[]GapIsWatched`), `InOrderApplied`
(`[]AppliedInOrder`) and `Remembered` (`[]NothingForgotten`). None of the three is
inductive alone: an update that is thrown away during a request is made up for only
if the answer that clears the flag is not older than the update, and that depends
on the order of what is in `net`. So `WatchInv` says that an answer which brings a
box up to `p` is followed by whatever is needed to learn of the updates past `p`
(`Settles`, `Coming`), that each missing update is counted, on its way, or covered
by a request (`Outstanding`), that a hole has its timer and `_last /= _count`
(`Timed`), and that nothing pushed is applied past `_good` (`InOrder`).

These three theorems assume `NoLooseEnds`: `MaxZero = 0` and `~LoadedWithoutPts`.
The runs `UpdatesCommon` and `UpdatesChannel` satisfy it. Without it the code really
behaves otherwise: `UpdatesGap` shows `GapIsWatched` violated when a channel is
loaded without its pts, and an update that takes no points flushes the queue over a
hole (the finding and the hazards name the lines).

**Updates, containers** (`UpdatesSeqProofs`): `TypeCorrect`, `NoContainerForgotten`
(`[]SeqNothingForgotten`), `SavedIsWatched` (`[]HeldBackIsWatched`) and `FedInOrder`
(the action property `SeqInOrder`), for any number of containers, sessions and
troubles. The invariant follows the messages on their way: the numbers of the
containers of a session do not overlap (`IssuedInv`), the messages of a session come
in order and behind the news of it (`NetInv`), a difference covers what is ahead of
it or saved before it comes, and what it does not cover is still to come
(`DifferenceInv`), and what the client has passed was fed, or a difference will bring
it (`PassedInv`). So an answer that leaves `_bySeqUpdates` alone finds it empty.

**Serial queue** (`CrlQueueProofs`): `TypeCorrect`, `ProcessIsSerial`
(`[]OneAtATime`), `RunsInOrder` (`[]InOrder`), `WakesUp` (`[]NoLostWakeUp`) and
`QueueIsSerial` (`Spec => Serial`, the refinement of `SerialQueue`), for any number
of threads, addresses and pushes. Serial processing rests on one thing that the
code never names: the right to process. A callback that waits in the pool, a thread
that is about to submit one, and a worker that has not come past its
`_queued.clear()` exclude each other (`OneHolder`), and `_queued` is set exactly
when there is one of them (`FlagIsHeld`). What has begun, followed by the batch and
by the list reversed, is always what was pushed (`Conserved`); that gives the order
and the refinement.

**Received ids** (`ReceivedIdsProofs`): `TypeCorrect`, `HandledOnce`
(`[]NeverTwice`) and `ResetIsForOld` (`[]ResetsForOld`), for any set of ids and any
size of the buffer. The invariant is `Remembered`: an id that was handled and
forgotten is below everything still known, and then the buffer is full, so that
the test against the least known id refuses it.

**MTProto session** (`MtpSessionProofs`): `TypeCorrect`, `AnsweredOnce`
(`[]NotRepeated`), `NeverSentTwice` (`[]SentOnce`) and `NeverForgotten`
(`[]NothingForgotten`), for any number of requests and any scenarios. None of the
three is inductive: whether an answer finds its request depends on which id the
server may still answer, after resends under old and new ids. `Given` says whose
each id is: `owner` never changes for an id, renaming by `replaceMsgId()` keeps it,
and a container owns no request. `OnePlace` says of each request, unless it was
refused for good, that it is in one of `toSend`, `haveSent`, the hands of the
session's thread, the delayed ones and the answers that wait for the main thread;
and that every answer that was not seen and may still come (`Flying`: packets on
their way, results on their way, what the server has got) is for the id that the
request has now, and that there is none once it is answered. `seen` and the change
of the session, which forgets `seen` and the server's end together, are what keeps
that. These have no hypothesis.

`KeptInv` adds what the main thread is in the middle of: an id read at the start of
a cancel is of the request that is cancelled, and a request whose error is handled
is delayed or held while its callback is out. Its theorems assume `RetriesApart`: a
scenario with errors that are retried at once is without acks and without questions
about what was sent. The code does not keep these apart: without the hypothesis
`NothingForgotten` is false, as the first of the observations about MTProto below
says. All scenarios of the two runs satisfy it, those of `MtpSafe` since their
errors are retried from a timer.

**Cache database** (`CacheDatabaseProofs`): `TypeCorrect`, `FilesAreOwn`
(`[]OwnFile`), `ReadsAreLatest` (`[]NeverStale`) and `CrashSafe`
(`[]NothingLost`), for any keys, values, sizes of a bundle and numbers of files,
moves, compactions, stops and failures; nothing but `CacheAssumption` is assumed.
The invariant is about `Where(disk, k)`, the place in which `open()` would look for
a key now. `Agree` says that it is the place in the map, or, for a key that the map
does not have, one without a file, or with the value that the application was told
of last: `remove()` takes the file away at once, so that it does not matter that the
log still names it, and when that fails it says so. No other key can be given that
file (`Apart`). `CrashSafe` leaves one loss out, that of a value whose move was cut
by a stop (`cut`, `Expected`): the code logs that the old key has nothing before it
logs the new key. The observations about the cache say where. `Copied` says of a compaction under way that each key is already
where the log says, or in neither the map nor the new log, or has still to come: it
is logged behind what the compactor has read (`Since`), or stored in a record that
the compactor has not asked about yet (`Pending`). Both are empty once it has caught
up, which is what `compactorDone()` rests on, also when a stop or an error leaves
only one of its moves done (`DoneWhere`). `RecoveredConcat` and `SuffixOf` say what
a log that grows, or that is copied from its middle, says of a key.

**Histories** (`HistoriesProofs`): `TypeCorrect`, `LoadsAreAfterDeletions`
(`[]LoadsAfterDeletions`), `EntriesAreWatched` (`[]EntryIsWatched`),
`EntriesArePostponed` (`[]EntryIsPostponed`) and `ReadsAreInOrder`
(`[]ReadsInOrder`), for any number of chats and messages and any scenarios; nothing
but `HistoriesAssumption` is assumed. Handlers call each other with the world half
changed, so the invariant is a predicate `Good` on worlds, and there is one lemma for
each operator of `Histories`: from a good world it makes a good one. Two parameters
say how far that is from the invariant: `asked`, the chats an entry still comes to,
and `free`, the chats whose read waits for an entry that is just being taken.
`RequestsGood` says that no id is used twice, that no load is beside a deletion and
that what is postponed waits for one. `ReadsGood` is why an answer finds the read
the code asserts: everything on its way is before what will be read, and not after
what was sent last, or is read anyway once that is known to be done (`sentReadTill`
is 0). `EntryGood` says that an entry is postponed exactly if it was asked for and
the chat does something.

Handlers that go through several chats use `FoldSet`, which is a recursive function
chosen by `CHOOSE`. `FoldExists` shows that there is such a function on a finite
set, by the least size of a set where there is none, and `FoldWithin` that it keeps
what every call keeps. For `sendReadRequests` that is an equation: the reads of a set
of chats are sent in whichever order (`ReadsFold`, the world `ReadsSent`).

**Cache pruning** (`CachePruningProofs`): `TypeCorrect`, `CountsStayRight`
(`[]CountsAreRight`), `PutsAreKept` (`[]PutIsKept`), `ClearingGoesOn`
(`[]StaleIsWatched`) and `OldestAreTaken` (the action property `TakesOldest`), for
any finite set of keys, any sizes, limits, chunks and times; nothing but
`PruningAssumption` is assumed. `DataGood` says what the two counts are worth. The
total is exact. The count of the oldest time is not: a batch of accesses moves
entries to another time and leaves the count alone, so that it may be more or less
than the number of entries with that time. What is true, and is all the three
assertions in the code need, is that it is positive exactly if the time is known;
and it cannot pass the number of keys, since it grows only while the oldest time is
the current one, and then it is at most the number of entries used at that time.

`TakesOldest` is about a walk that keeps a running choice in a sorted map. Its
invariant is `LoopInv`, of the keys walked over so far: either all of them are
chosen, or enough is chosen, nothing chosen is newer than what was passed over,
and it would not be enough without the first of the chosen. `WithoutFirstLeaves`
says this of the inner loop, `ConsiderKeeps` of one step of the walk,
`SizeStaleTakes` of its end, whichever way equal times and different sizes meet.
`Recursion` shows that a recursive function on the subsets of a finite set is what
its definition says, and `SetInduction` takes the least size of a set that would
be a counterexample; with these two `SizeUnion` and the rest add up sizes.

Model-checked only: liveness, which is out of this prover's reach (`CatchesUp`,
`AllTakenAtLast`, `AllRun`, `SyncReturns`, `SizeIsLimited`, `Answered`, `Drains`,
`ReadIsSent`, `ComesToRest`). Each invariant and each action property of a passing
run, and both refinements, are theorems. Those of `UpdatesWatch` and `KeptInv`
have the hypotheses named above, which the runs satisfy.

## Observations

Things in the code that the models show or that came up while translating it.
Nothing in the repository says that they should be otherwise, so that they are not
findings. Paths are below `Telegram/`.

Cache (`lib_storage/storage/cache/storage_cache_database_object.cpp`):

- Once the last entry with the oldest time is removed or put anew, the oldest time
  is 0 ("not known", :601, :656), and `collectTimeStale` returns at once (:416)
  instead of looking for the oldest entry that is left. What is past the time limit
  then stays until an entry that is put later expires too, and `startDelayedPruning`
  returns true meanwhile, so that no compaction is started (:300). The settings say
  "Clear files older than: {limit}". In `CachePruning`,
  `Present(map) /= {} => minimal.time /= 0` is not an invariant.
- With several entries of the newest time that is taken, `collectSizeStale` may take
  one entry more than the limit asks for: with a limit of 1, an entry of
  size 2, one of size 1 with the same time and an older one of size 2, walked in this
  order, all three are chosen, though the one of size 1 may stay: `canRemoveFirst`
  (:452) only looks at the first of the newest. So `TakesOldest` says that the limit would not be met with *one of* the
  newest that are taken, not with any of them.
- A prune that finds nothing (the timer fires after `maxPruneCheckTimeout` at the
  latest) does not start the timer again; the next put or get does.
- If the second `File::Move` of `compactorDone` fails (:705) the log was removed by
  it already, and `compactorFail` removes the new one: the entries are forgotten
  at the next start. This is the `CompactorFails` of the model, after which
  `NeverStale` holds but `NothingLost` does not, and need not.
- `moveIfEmpty` flushes a `MultiRemove` with the old key (:1100, :1150) before it
  writes the `Store` of the new one (:1107). A stop between the two loses the value
  to both keys, and nobody is told: with `Expected(k) == latest[k]` `NothingLost` does
  not hold. What is lost is one cached value, and the other order would need a log
  in which two keys may own one file.
- `moveIfEmpty` is also the one operation that changes `_map` without `optimize()`.
  When it fills the last key that waits in `_stale` (:1106) while the prune timer is
  off, as it is after the prune that filled `_stale`, the next chunk finds nothing to
  clear (:391) and does not look at the limits either, so that the cache may stay
  above its size limit until the next `get` or `put`. `SizeIsLimited` makes this
  exception (`Overtaken`); without it TLC finds it violated.
- `compactorFail` inside `compactorDone` sets a delay for the next attempt, and the
  guard that runs on return overwrites it (:699).
- A record torn by a stop is overwritten when the log is opened again, but a
  compactor that starts before takes the file's size as its end (:1245).

MTProto (`SourceFiles/mtproto`):

- While an error is handled, the callback is out of `_parserMap`
  (`mtp_instance.cpp:1150`), and the session's thread judges acks by that map. With
  an error that is retried at once, an ack in between and a server that then
  forgets the session, a request is never answered: add to `Live` in
  `MCMtpSession` the scenario with one each of `requests`, `errors`, `retries`,
  `acks`, `forgets` and `checks`, and `Answered` does not hold.
- Only the first container of a new session gives its requests new ids
  (`session_private.cpp:597`); requests put back to be sent keep theirs otherwise.
- A request refused for good is answered with an error but stays in `haveSent`
  (:1648), where a reconnect sends it again. `NotRepeated` and `SentOnce` leave
  these requests out.
- The assertion that is commented out at :923 is `SentOnce`; it holds otherwise.
- A message that is ignored ends the handling of the rest of its container (:1520).

Histories (`SourceFiles/data/data_histories.cpp`):

- `channels.deleteChannel` (:806) is a `Delete` request whose answer never calls
  `finish`. Whatever waits in that chat waits for ever if the chat stays; hence the
  exception in `ComesToRest`.
- An answer with an entry that was requested before a deletion, and that comes when
  the deletion is over, is taken for the answer to the request made since.
- `sendDialogRequests` sends an empty request when all the chats are postponed (:430).

Updates: a failing `updates.getState` has no handler (`api_updates.cpp:165`), and pts
are sums of `int32` without a check. Neither is in the model.

## Plan

1. `DownloadManager`: queues per datacentre, sessions that are added and removed on
   timeouts while requests run. `StreamingReader`: slices shared by two threads.
2. A byte-level model of the log with torn records, and the directory's versions
   with `clear` and the cleaner.
3. In `Histories`, topics that are created before a message is sent, and delivery
   reports; in `Updates`, qts and `requestChannelRangeDifference`.

## Not modelled

The user interface (no protocol), calls (their protocol is in submodules that are
not in this tree), the export of chats (a sequential pipeline), the background
export, encrypted local files and settings, and everything that an update does to
chats and messages once it is applied. Third-party and generated code, which is
most of the tree's lines, is not part of the program's own logic. `PROJECT.json`
lists each part with the reason.
