----------------------------- MODULE Histories -----------------------------
(***************************************************************************)
(* The requests about one chat that must not pass each other               *)
(* (data/data_histories.cpp).  Messages are not loaded while others are    *)
(* being deleted: such requests are taken back and sent again later.  The  *)
(* entry of the chat in the list is not taken from an answer that comes    *)
(* while messages are read, deleted or sent: it is requested again.  Reads *)
(* are put together by a timer, and the place up to which messages are     *)
(* read moves on when the server has it.                                   *)
(*                                                                         *)
(* All of it runs on the main thread.  Handlers call each other, so they   *)
(* are operators on a record that has what they change.  How many messages *)
(* stay unread after a read is chosen freely, as is what the server says   *)
(* of a chat.  A request that is cancelled gets no answer (external).      *)
(***************************************************************************)
EXTENDS Integers, FiniteSets, FiniteSetsExt

CONSTANTS
  Chats,
  MaxTill,             \* bound: ids of messages
  Timeout,             \* kReadRequestTimeout
  Scenarios            \* bound: how often something is asked of each chat, and
                       \* how many deletions of channels there are

ASSUME HistoriesAssumption ==
  /\ IsFiniteSet(Chats) /\ Timeout \in Nat \ {0}
  /\ MaxTill \in Nat /\ Scenarios \subseteq [asks : [Chats -> Nat], channels : Nat]

VARIABLES
  state,               \* _states
  inboxReadBefore,     \* History::_inboxReadBefore, 0 if not known
  historyByRequest,    \* _historyByRequest: the ids of each chat
  dialogRequests, dialogRequestsPending,
  readers,             \* chats with a callback of readInbox() in one of these
  posted,              \* a call of sendDialogRequests() is queued
  timer,               \* _readRequestsTimer
  told,                \* history: up to where the server was told of reads
  entries,             \* requests of entries on their way: an id, and whose
  left                 \* what is left of the scenario

clientVars == <<state, inboxReadBefore, historyByRequest, dialogRequests,
                dialogRequestsPending, readers, posted, timer, told>>
vars == <<clientVars, entries, left>>

(* Times are how many ticks are left, and one more: 1 is due, 0 is none.   *)
NoState == [exists |-> FALSE, postponed |-> {}, sent |-> {}, willReadTill |-> 0,
            sentReadTill |-> 0, willReadWhen |-> 0, sentReadDone |-> FALSE,
            postponedRequestEntry |-> FALSE]

Init ==
  /\ state = [h \in Chats |-> NoState]
  /\ inboxReadBefore \in [Chats -> {0, 1}]
  /\ historyByRequest = [h \in Chats |-> {}]
  /\ dialogRequests = {} /\ dialogRequestsPending = {} /\ readers = {}
  /\ posted = FALSE /\ timer = 0 /\ told = [h \in Chats |-> 0]
  /\ entries = {} /\ left \in Scenarios

World ==
  [state |-> state, before |-> inboxReadBefore, byRequest |-> historyByRequest,
   requested |-> dialogRequests, pending |-> dialogRequestsPending, readers |-> readers,
   posted |-> posted, timer |-> timer, told |-> told]

Become(next) == \E w \in {next} :
  /\ state' = w.state /\ inboxReadBefore' = w.before /\ historyByRequest' = w.byRequest
  /\ dialogRequests' = w.requested /\ dialogRequestsPending' = w.pending
  /\ readers' = w.readers /\ posted' = w.posted /\ timer' = w.timer /\ told' = w.told

Larger(a, b) == IF a > b THEN a ELSE b
Least(S) == CHOOSE x \in S : \A y \in S : x <= y

(* An id that no request of the chat has.                                  *)
Fresh(ids) == Least((1 .. Cardinality(ids) + 1) \ ids)
Ids(requests) == {r.id : r \in requests}
InUse(st) == Ids(st.sent) \cup st.postponed

postponeHistoryRequest(sent) == \E r \in sent : r.type = "Delete"
postponeEntryRequest(sent) == \E r \in sent : r.type /= "History"

-----------------------------------------------------------------------------
(* The entry of a chat.                                                    *)
postponeRequestDialogEntries(w) ==
  IF Cardinality(w.pending) > 1 THEN w ELSE [w EXCEPT !.posted = TRUE]

(* Mutant: asked for again while a request is on its way.                  *)
requestDialogEntryAgain(w, h, reads) ==
  LET u == IF reads THEN [w EXCEPT !.readers = @ \cup {h}] ELSE w
  IN  IF h \in w.pending THEN u
      ELSE postponeRequestDialogEntries([u EXCEPT !.pending = @ \cup {h}])

requestDialogEntry(w, h, reads) ==
  LET u == IF reads THEN [w EXCEPT !.readers = @ \cup {h}] ELSE w
  IN  IF h \in w.requested \cup w.pending THEN u
      ELSE postponeRequestDialogEntries([u EXCEPT !.pending = @ \cup {h}])

checkEmptyState(w, h) ==
  LET st == w.state[h]
  IN  IF /\ st.postponed = {} /\ ~st.postponedRequestEntry /\ st.sent = {}
         /\ st.willReadTill = 0 /\ st.sentReadTill = 0
        THEN [w EXCEPT !.state[h] = NoState] ELSE w

(* Mutant: requests that are on their way stay there.                      *)
sendRequestBeside(w, h, type, till, answers) ==
  LET st == w.state[h]
      id == Fresh(InUse(st))
      sent == st.sent \cup {[id |-> id, type |-> type, till |-> till, answers |-> answers]}
      u == [w EXCEPT !.byRequest[h] = @ \cup {id}, !.state[h].exists = TRUE]
  IN  IF type = "History" /\ postponeHistoryRequest(st.sent)
        THEN [u EXCEPT !.state[h].postponed = @ \cup {id}]
        ELSE [u EXCEPT
          !.state[h].sent = sent,
          !.state[h].postponedRequestEntry =
             @ \/ (postponeEntryRequest(sent) /\ h \in w.requested)]

(* Mutant: an entry that was asked for before is taken as it comes.        *)
sendRequestUnseen(w, h, type, till, answers) ==
  [sendRequestBeside(w, h, type, till, answers) EXCEPT
     !.state[h].postponedRequestEntry = w.state[h].postponedRequestEntry]

(* sendRequest(): a deletion takes back the requests that load messages.   *)
(* `answers' is whether the answer is waited for.                          *)
sendRequest(w, h, type, till, answers) ==
  LET st == w.state[h]
      id == Fresh(InUse(st))
      sent == st.sent \cup {[id |-> id, type |-> type, till |-> till, answers |-> answers]}
      back == IF postponeHistoryRequest(sent) THEN {r \in sent : r.type = "History"} ELSE {}
      u == [w EXCEPT !.byRequest[h] = @ \cup {id}]
  IN  IF type = "History" /\ postponeHistoryRequest(st.sent)
        THEN [u EXCEPT !.state[h] =
               [st EXCEPT !.exists = TRUE, !.postponed = @ \cup {id}]]
        ELSE [u EXCEPT !.state[h] =
               [st EXCEPT !.exists = TRUE, !.sent = sent \ back,
                          !.postponed = @ \cup Ids(back),
                          !.postponedRequestEntry =
                             @ \/ (postponeEntryRequest(sent) /\ h \in w.requested)]]

(* Mutant: what was postponed stays so.                                    *)
finishSentRequestOnly(w, h, id) ==
  checkEmptyState([w EXCEPT !.byRequest[h] = @ \ {id},
                            !.state[h].sent = {r \in @ : r.id /= id}], h)

(* finishSentRequest(): what was postponed goes on if nothing is in its    *)
(* way any more.                                                           *)
finishSentRequest(w, h, id) ==
  LET st == w.state[h]
      rest == {r \in st.sent : r.id /= id}
      resume == IF postponeHistoryRequest(rest) THEN {} ELSE st.postponed
      sent == rest \cup {[id |-> i, type |-> "History", till |-> 0, answers |-> TRUE] : i \in resume}
      entry == st.postponedRequestEntry /\ ~postponeEntryRequest(sent)
      u == [w EXCEPT !.byRequest[h] = @ \ {id},
                     !.state[h] = [st EXCEPT !.sent = sent, !.postponed = @ \ resume,
                                             !.postponedRequestEntry = @ /\ ~entry]]
  IN  checkEmptyState(
        IF entry THEN postponeRequestDialogEntries(
                        [u EXCEPT !.requested = @ \ {h}, !.pending = @ \cup {h}])
                 ELSE u, h)

-----------------------------------------------------------------------------
(* Reads.                                                                  *)
sendReadRequest(w, h) ==
  LET st == w.state[h]
      till == st.willReadTill
  IN  sendRequest([w EXCEPT !.state[h] = [st EXCEPT !.willReadTill = 0, !.willReadWhen = 0,
                                                    !.sentReadTill = till, !.sentReadDone = FALSE],
                            !.told[h] = Larger(@, till)],
                  h, "ReadInbox", till, TRUE)

(* Mutant: the timer is not started again.                                 *)
sendReadRequestsOnce(w) ==
  LET due == {h \in Chats : w.state[h].willReadTill /= 0 /\ w.state[h].willReadWhen <= 1}
  IN  [FoldSet(LAMBDA h, u : sendReadRequest(u, h), w, due) EXCEPT !.timer = 0]

(* sendReadRequests(): what is due is sent, the timer waits for the rest.  *)
sendReadRequests(w) ==
  LET waiting == {h \in Chats : w.state[h].willReadTill /= 0}
      due == {h \in waiting : w.state[h].willReadWhen <= 1}
      later == {w.state[h].willReadWhen : h \in waiting \ due}
  IN  IF \A h \in Chats : ~w.state[h].exists THEN w
      ELSE [FoldSet(LAMBDA h, u : sendReadRequest(u, h), w, due) EXCEPT
              !.timer = IF later = {} THEN 0 ELSE Least(later)]

readInboxTillNeedsRequest(w, h, t) == t /= 0 /\ Larger(w.before[h], 1) <= t
setInboxReadTill(w, h, t) == [w EXCEPT !.before[h] = Larger(@, t + 1)]

(* What is known of a chat when it is read: up to which message, how many  *)
(* messages stay unread after it, and whether that is as many as before.   *)
Looks == {x \in [till : 0 .. MaxTill, still : {"unknown", "none", "some"}, same : BOOLEAN] :
            x.same => x.still /= "unknown"}

sendPendingReadInbox(w, h) ==
  IF w.state[h].willReadTill /= 0 /\ w.state[h].willReadWhen /= 0
    THEN sendReadRequests([w EXCEPT !.state[h].willReadWhen = 0]) ELSE w

readInboxTill(w, h, force, x) ==
  LET needs == readInboxTillNeedsRequest(w, h, x.till)
      st == w.state[h]
      u == [w EXCEPT !.state[h] = [st EXCEPT !.willReadTill = x.till, !.exists = TRUE]]
      now == sendReadRequests([u EXCEPT !.state[h].willReadWhen = 0])
  IN  IF (~needs /\ ~force) \/ st.sentReadTill >= x.till THEN w
      ELSE IF st.willReadTill >= x.till THEN IF force THEN sendPendingReadInbox(w, h) ELSE w
      ELSE IF ~needs /\ st.willReadTill = 0 THEN w
      ELSE IF ~force /\ x.same THEN setInboxReadTill(w, h, x.till)
      ELSE IF x.still = "unknown" THEN now
      ELSE IF force \/ x.still = "none" THEN setInboxReadTill(now, h, x.till)
      ELSE IF st.willReadWhen /= 0 THEN setInboxReadTill(u, h, x.till)
      ELSE setInboxReadTill([u EXCEPT !.state[h].willReadWhen = Timeout + 1,
                                      !.timer = IF @ = 0 THEN Timeout + 1 ELSE @], h, x.till)

(* Mutant: the read is not taken as done.                                  *)
dialogEntryAppliedOnly(w, h, x) ==
  LET u == [w EXCEPT !.requested = @ \ {h}, !.pending = @ \ {h}, !.readers = @ \ {h}]
  IN  CASE w.state[h].exists /\ w.state[h].postponedRequestEntry -> w
        [] h \in w.readers /\ ~w.state[h].postponedRequestEntry -> readInboxTill(u, h, FALSE, x)
        [] OTHER -> u

(* dialogEntryApplied(): whoever waits for the entry goes on, and reads    *)
(* that the server has count as such.                                      *)
dialogEntryApplied(w, h, x) ==
  LET u == [w EXCEPT !.requested = @ \ {h}, !.pending = @ \ {h}, !.readers = @ \ {h}]
      v == IF h \in w.readers THEN readInboxTill(u, h, FALSE, x) ELSE u
      sent == v.state[h].sentReadTill
  IN  CASE w.state[h].exists /\ w.state[h].postponedRequestEntry -> w
        [] w.state[h].exists /\ ~w.state[h].postponedRequestEntry
             /\ sent /= 0 /\ v.state[h].sentReadDone ->
             checkEmptyState(setInboxReadTill([v EXCEPT !.state[h].sentReadTill = 0], h, sent), h)
        [] OTHER -> v

-----------------------------------------------------------------------------
(* What the user and the server ask for.                                   *)
Ask(h) == /\ left.asks[h] > 0
          /\ left' = [left EXCEPT !.asks[h] = @ - 1]
          /\ entries' = entries

(* Messages are loaded; messages are deleted; one is sent.                 *)
Request(h, type) == Ask(h) /\ Become(sendRequest(World, h, type, 0, TRUE))

(* deleteAllMessages() of a channel: its answer finishes nothing.          *)
DeleteChannel(h) ==
  /\ left.channels > 0
  /\ left' = [left EXCEPT !.channels = @ - 1] /\ entries' = entries
  /\ Become(sendRequest(World, h, "Delete", 0, FALSE))

(* cancelRequest()                                                         *)
cancelRequest(w, h, id) ==
  finishSentRequest([w EXCEPT !.state[h].postponed = @ \ {id}], h, id)

(* Loading of messages is not wanted any more.                             *)
Cancel(h, id) ==
  /\ id \in historyByRequest[h]
  /\ \A r \in state[h].sent : r.id = id => r.type = "History"
  /\ Become(cancelRequest(World, h, id))
  /\ UNCHANGED <<entries, left>>

(* readInbox(): up to the last message, if it is known.                    *)
ReadInbox(h) ==
  /\ Ask(h)
  /\ \/ \E x \in Looks : Become(readInboxTill(World, h, FALSE, x))
     \/ Become(requestDialogEntry(World, h, TRUE))

(* readInboxOnNewMessage()                                                 *)
NewMessage(h) ==
  /\ Ask(h)
  /\ \E x \in Looks : x.till > 0 /\ Become(readInboxTill(World, h, TRUE, x))

SendPendingReadInbox(h) ==
  /\ Become(sendPendingReadInbox(World, h))
  /\ UNCHANGED <<entries, left>>

(* Something needs the entry: a read elsewhere, an unknown message.        *)
RequestDialogEntry(h) == Ask(h) /\ Become(requestDialogEntry(World, h, FALSE))

(* applyInboxReadUpdate(): messages are read by another client.            *)
ServerRead(h, upTo) ==
  /\ Ask(h) /\ Larger(inboxReadBefore[h], 1) <= upTo
  /\ \E refresh \in BOOLEAN :
       Become(setInboxReadTill(
         IF refresh THEN requestDialogEntry(World, h, FALSE) ELSE World, h, upTo))

(* applyDialog() from the list of chats.                                   *)
DialogLoaded(h) ==
  /\ Ask(h)
  /\ \E upTo \in 0 .. MaxTill, x \in Looks :
       Become(dialogEntryApplied(setInboxReadTill(World, h, upTo), h, x))

-----------------------------------------------------------------------------
(* The timers and the queued call.                                         *)
ReadTimer ==
  /\ timer = 1
  /\ UNCHANGED <<entries, left>>
  /\ Become(sendReadRequests([World EXCEPT !.timer = 0]))

Less(time) == IF time > 1 THEN time - 1 ELSE time

Tick ==
  /\ timer /= 1 /\ \E h \in Chats : state[h].willReadWhen > 1
  /\ timer' = Less(timer)
  /\ state' = [h \in Chats |-> [state[h] EXCEPT !.willReadWhen = Less(@)]]
  /\ UNCHANGED <<inboxReadBefore, historyByRequest, dialogRequests, dialogRequestsPending,
                 readers, posted, told, entries, left>>

(* sendDialogRequests(): one request for all but the chats where messages  *)
(* are read, deleted or sent.                                              *)
sendDialogRequests ==
  LET later == {h \in dialogRequestsPending : postponeEntryRequest(state[h].sent)}
      who == dialogRequestsPending \ later
  IN  /\ posted
      /\ Become([World EXCEPT
           !.posted = FALSE, !.pending = {}, !.requested = @ \cup dialogRequestsPending,
           !.state = [h \in Chats |-> IF h \in later
                        THEN [state[h] EXCEPT !.postponedRequestEntry = TRUE] ELSE state[h]]])
      /\ entries' = IF who = {} THEN entries
                    ELSE entries \cup {[id |-> Fresh(Ids(entries)), who |-> who]}
      /\ left' = left

(* The answer: entries are applied, then whoever waits for them goes on.   *)
(* All chats of an answer get the same entry (a bound).                    *)
EntryAnswered(e) ==
  LET finalize(w, x) == FoldSet(LAMBDA h, u : dialogEntryApplied(u, h, x), w, e.who)
      apply(w, upTo, x) ==
        FoldSet(LAMBDA h, u : dialogEntryApplied(setInboxReadTill(u, h, upTo), h, x), w, e.who)
  IN  /\ left' = left
      /\ entries' = entries \ {e}
      /\ \E x \in Looks :
           \/ \E upTo \in 0 .. MaxTill : Become(finalize(apply(World, upTo, x), x))
           \/ Become(finalize(World, x))

(* The answer to a request.  A deletion may go on with a next one.         *)
Answered(h, r) ==
  /\ r.answers /\ r.type /= "ReadInbox"
  /\ UNCHANGED <<entries, left>>
  /\ Become(finishSentRequest(World, h, r.id))

DeletedInPart(h, r) ==
  /\ r.answers /\ r.type = "Delete" /\ Ask(h)
  /\ Become(finishSentRequest(sendRequest(World, h, "Delete", 0, TRUE), h, r.id))

(* `finished': the read counts if the number of unread messages is known,  *)
(* otherwise when the entry comes.                                         *)
ReadAnswered(h, r) ==
  \E unreadCountKnown \in BOOLEAN :
    LET refresh == ~unreadCountKnown \/ r.till + 1 > inboxReadBefore[h]
        w == IF state[h].sentReadTill /= r.till THEN World
             ELSE IF refresh
               THEN requestDialogEntry([World EXCEPT !.state[h].sentReadDone = TRUE], h, FALSE)
               ELSE [World EXCEPT !.state[h] = [@ EXCEPT !.sentReadDone = TRUE,
                                                         !.sentReadTill = 0]]
    IN  /\ r.type = "ReadInbox"
        /\ UNCHANGED <<entries, left>>
        /\ Become(finishSentRequest(sendReadRequests(w), h, r.id))

Answers ==
  \/ \E e \in entries : EntryAnswered(e)
  \/ \E h \in Chats : \E r \in state[h].sent : Answered(h, r) \/ ReadAnswered(h, r)

Next ==
  \/ \E h \in Chats :
       \/ \E type \in {"History", "Delete", "Send"} : Request(h, type)
       \/ DeleteChannel(h)
       \/ \E id \in historyByRequest[h] : Cancel(h, id)
       \/ ReadInbox(h) \/ NewMessage(h) \/ SendPendingReadInbox(h)
       \/ RequestDialogEntry(h) \/ DialogLoaded(h)
       \/ \E upTo \in 1 .. MaxTill : ServerRead(h, upTo)
       \/ \E r \in state[h].sent : DeletedInPart(h, r)
  \/ Answers \/ ReadTimer \/ Tick \/ sendDialogRequests

Spec == Init /\ [][Next]_vars

(* Every request is answered in the end, and what is queued is called.     *)
(* Weak fairness of each, written out: their steps always change something.*)
Awaited == entries /= {} \/ \E h \in Chats : \E r \in state[h].sent : r.answers
FairSpec == /\ Spec /\ WF_vars(Tick)
            /\ []<>~Awaited \/ []<><<Answers>>_vars
            /\ []<>~posted \/ []<><<sendDialogRequests>>_vars
            /\ []<>(timer /= 1) \/ []<><<ReadTimer>>_vars

-----------------------------------------------------------------------------
(* Properties.                                                             *)

TypeOK ==
  /\ state \in [Chats -> [exists : BOOLEAN, postponed : SUBSET Nat,
       sent : SUBSET [id : Nat, type : {"History", "Delete", "Send", "ReadInbox"},
                      till : 0 .. MaxTill, answers : BOOLEAN],
       willReadTill : 0 .. MaxTill, sentReadTill : 0 .. MaxTill,
       willReadWhen : 0 .. Timeout + 1, sentReadDone : BOOLEAN,
       postponedRequestEntry : BOOLEAN]]
  /\ inboxReadBefore \in [Chats -> 0 .. MaxTill + 1]
  /\ historyByRequest \in [Chats -> SUBSET Nat]
  /\ dialogRequests \subseteq Chats /\ dialogRequestsPending \subseteq Chats
  /\ readers \subseteq dialogRequests \cup dialogRequestsPending
  /\ posted \in BOOLEAN /\ timer \in 0 .. Timeout + 1 /\ told \in [Chats -> 0 .. MaxTill]
  /\ entries \subseteq [id : Nat, who : (SUBSET Chats) \ {{}}]
  /\ left \in [asks : [Chats -> Nat], channels : Nat]

DeletionsOf(h) == {r \in state[h].sent : r.type = "Delete"}

(* No messages are loaded while others of the chat are being deleted, and  *)
(* what was postponed for that has a deletion to wait for; both can be     *)
(* cancelled by the id the caller got.                                     *)
LoadsAfterDeletions ==
  \A h \in Chats :
    /\ DeletionsOf(h) /= {} => \A r \in state[h].sent : r.type /= "History"
    /\ state[h].postponed /= {} => DeletionsOf(h) /= {}
    /\ historyByRequest[h] = InUse(state[h])

(* An entry that is wanted is asked for: by a queued call, by a request on *)
(* its way, or when what the chat does is over.  The code asserts that a   *)
(* postponed entry is among the requested ones and not among the pending.  *)
EntryIsWatched ==
  /\ dialogRequests \cap dialogRequestsPending = {}
  /\ dialogRequestsPending /= {} => posted
  /\ \A h \in dialogRequests :
       \/ state[h].postponedRequestEntry /\ postponeEntryRequest(state[h].sent)
       \/ ~state[h].postponedRequestEntry /\ \E e \in entries : h \in e.who
  /\ \A h \in Chats : state[h].postponedRequestEntry => h \in dialogRequests

(* An entry is not taken while messages of the chat are read, deleted or   *)
(* sent: whoever waits for it, waits for the next one.                     *)
EntryIsPostponed ==
  \A h \in dialogRequests :
    postponeEntryRequest(state[h].sent) => state[h].postponedRequestEntry

(* Reads go forward: what will be read is after what the server was sent   *)
(* last, and answers of earlier reads come to nothing, as the code asserts.*)
ReadsInOrder ==
  \A h \in Chats :
    LET st == state[h]
        reads == {r \in st.sent : r.type = "ReadInbox"}
    IN  /\ st.willReadTill /= 0 => st.willReadTill > st.sentReadTill
        /\ \A r \in reads : st.sentReadTill = 0 \/ st.sentReadTill >= r.till
        /\ st.sentReadTill /= 0 =>
             IF st.sentReadDone THEN h \in dialogRequests \cup dialogRequestsPending
                                ELSE \E r \in reads : r.till = st.sentReadTill

(* What is read is told to the server in the end.                          *)
ReadIsSent ==
  \A h \in Chats, till \in 1 .. MaxTill :
    (state[h].willReadTill = till) ~> (told[h] >= till)

(* In the end nothing is postponed, no entry is waited for and the record  *)
(* of a chat is gone, except in the chats whose deletion never finishes.   *)
ComesToRest ==
  <>[](\A h \in Chats : \/ \E r \in state[h].sent : ~r.answers
                        \/ ~state[h].exists /\ h \notin dialogRequests \cup dialogRequestsPending)

=============================================================================
