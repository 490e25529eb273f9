----------------------------- MODULE MtpSession -----------------------------
(***************************************************************************)
(* One MTProto session (mtproto/session.cpp, session_private.cpp, the part *)
(* of mtp_instance.cpp that keeps requests): requests get message ids, are *)
(* sent alone or in containers, and stay in a map until their answer comes *)
(* through a connection that may break at any moment.  What the server may *)
(* not have got is put back to be sent, with the same message id as long   *)
(* as the session is the same.                                             *)
(*                                                                         *)
(* The main thread and the session's thread share toSend, haveSent and the *)
(* bytes of the requests; a step here is what one of them does under one   *)
(* lock.  `hand' has what the session's thread has taken from a map and    *)
(* not yet put to another, `todo' the ids that it is yet to resend.        *)
(*                                                                         *)
(* Requests are numbered as they are sent.  owner[id] is the request that  *)
(* a message id was given to, 0 for a container.  A service message alone  *)
(* has the id 0.  Keys, salts, the clock and acks of answers are left out: *)
(* any answer may come again after a reconnect.                            *)
(***************************************************************************)
EXTENDS Integers, Sequences, FiniteSets

CONSTANTS
  Requests,
  Scenarios     \* bound: how often what may happen; a behaviour keeps to one of them

Happenings == {"requests", "losses", "forgets", "salts", "resets", "fatals", "errors",
               "retries", "checks", "old", "cancels", "acks"}

ASSUME SessionAssumption ==
  /\ Requests \subseteq Nat \ {0} /\ IsFiniteSet(Requests)
  /\ Scenarios \subseteq [Happenings -> Nat]

VARIABLES
  asked, answered, cancelled,  \* history of the requests
  refused,                     \* history: refused by a fatal bad_msg_notification
  callback,                    \* _parserMap: who waits for an answer
  delayed,                     \* _delayedRequests
  received,                    \* haveReceivedMessages(), the answers of them
  main,                        \* what the main thread is in the middle of
  msgId,                       \* the id in the bytes of the request, 0 for none
  toSend, haveSent,            \* toSendMap(), haveSentMap()
  resending, acked,            \* _resendingIds, _ackedIds
  containers,                  \* _sentContainers
  started,                     \* _sessionMarkedAsStarted
  seen,                        \* _receivedMessageIds: the answers in it
  asking,                      \* _stateRequestData
  pinging,                     \* _pingId
  owner,
  checking,                    \* _checkSentRequestsTimer
  todo, hand,
  wake,                        \* tryToSend() will be called
  up, toServer, toClient,      \* the connection
  server,                      \* the server's end of the session
  left                         \* what may still happen

mainVars    == <<asked, answered, cancelled, refused, callback, delayed, received, main>>
sharedVars  == <<msgId, toSend, haveSent>>
restVars    == <<owner, checking>>
privateVars == <<resending, acked, containers, started, seen, asking, pinging, restVars>>
threadVars  == <<todo, hand, wake>>
netVars     == <<up, toServer, toClient>>
vars == <<mainVars, sharedVars, privateVars, threadVars, netVars, server, left>>

UseAll(whats) ==
  /\ \A what \in whats : left[what] > 0
  /\ left' = [what \in Happenings |-> left[what] - (IF what \in whats THEN 1 ELSE 0)]
Use(what) == UseAll({what})

NewServer  == [known |-> FALSE, got |-> {}, failing |-> {}, told |-> {}]
IdleMain   == [step |-> "idle", request |-> 0, id |-> 0]
EmptyHand  == [ids |-> {}, to |-> "nothing"]
ThreadIdle == todo = {} /\ hand = EmptyHand
MainIdle   == main = IdleMain
Last       == Len(owner)
Owners(ids) == {owner[i] : i \in ids}

Init ==
  /\ asked = {} /\ answered = {} /\ cancelled = {} /\ refused = {} /\ callback = {} /\ delayed = {}
  /\ received = <<>> /\ main = IdleMain
  /\ msgId = [r \in Requests |-> 0] /\ toSend = {} /\ haveSent = {}
  /\ resending = {} /\ acked = {} /\ containers = {} /\ started = FALSE
  /\ seen = {} /\ asking = {} /\ pinging = FALSE /\ owner = <<>>
  /\ checking = FALSE
  /\ todo = {} /\ hand = EmptyHand /\ wake = FALSE
  /\ up = FALSE /\ toServer = <<>> /\ toClient = <<>>
  /\ server = NewServer
  /\ left \in Scenarios

-----------------------------------------------------------------------------
(* The main thread.                                                        *)
sendPrepared(r) ==
  /\ toSend' = toSend \cup {r}
  /\ msgId' = [msgId EXCEPT ![r] = 0]
  /\ wake' = TRUE

Send(r) ==
  /\ MainIdle /\ r \notin asked /\ \A q \in Requests : q < r => q \in asked
  /\ Use("requests")
  /\ asked' = asked \cup {r}
  /\ callback' = callback \cup {r}
  /\ sendPrepared(r)
  /\ UNCHANGED <<refused, answered, cancelled, delayed, received, main, haveSent, privateVars,
                 todo, hand, netVars, server>>

(* Instance::cancel(): the id is read from the bytes of the request, then  *)
(* the maps are cleaned one after another, and the callback goes last.     *)
CancelBegin(r) ==
  /\ MainIdle /\ r \in callback
  /\ Use("cancels")
  /\ main' = [step |-> "toSend", request |-> r, id |-> msgId[r]]
  /\ delayed' = delayed \ {r}
  /\ UNCHANGED <<refused, asked, answered, cancelled, callback, received, sharedVars, privateVars,
                 threadVars, netVars, server>>

CancelToSend ==
  /\ main.step = "toSend"
  /\ toSend' = toSend \ {main.request}
  /\ main' = [main EXCEPT !.step = "haveSent"]
  /\ UNCHANGED <<refused, asked, answered, cancelled, callback, delayed, received, msgId, haveSent,
                 privateVars, threadVars, netVars, server, left>>

CancelHaveSent ==
  /\ main.step = "haveSent"
  /\ haveSent' = haveSent \ {main.id}
  /\ main' = [main EXCEPT !.step = "parser"]
  /\ UNCHANGED <<refused, asked, answered, cancelled, callback, delayed, received, msgId, toSend,
                 privateVars, threadVars, netVars, server, left>>

CancelCallback ==
  /\ main.step = "parser"
  /\ callback' = callback \ {main.request}
  /\ cancelled' = cancelled \cup {main.request}
  /\ main' = IdleMain
  /\ UNCHANGED <<refused, asked, answered, delayed, received, sharedVars, privateVars,
                 threadVars, netVars, server, left>>

(* processCallback(): the callback is out of the map while it is called,   *)
(* and is put back when the error is handled by default.  Then the request *)
(* is sent again, at once or from a timer.                                 *)
HandleResponse ==
  /\ MainIdle /\ received /= <<>>
  /\ received' = Tail(received)
  /\ LET r == Head(received).request IN
       \/ /\ r \notin callback
          /\ UNCHANGED <<answered, callback, delayed, main, msgId, toSend, wake>>
       \/ /\ r \in callback /\ ~Head(received).error
          /\ callback' = callback \ {r}
          /\ answered' = answered \cup {r}
          /\ delayed' = delayed \ {r}
          /\ UNCHANGED <<main, msgId, toSend, wake>>
       \/ /\ r \in callback /\ Head(received).error
          /\ callback' = callback \ {r}
          /\ main' = [step |-> "restore", request |-> r, id |-> 0]
          /\ \/ delayed' = delayed \cup {r} /\ UNCHANGED <<msgId, toSend, wake>>
             \/ left.retries > 0 /\ sendPrepared(r) /\ UNCHANGED delayed
          /\ UNCHANGED answered
  /\ UNCHANGED <<refused, asked, cancelled, haveSent, privateVars, todo, hand, netVars, server, left>>

Restore ==
  /\ main.step = "restore"
  /\ callback' = callback \cup {main.request}
  /\ main' = IdleMain
  /\ UNCHANGED <<refused, asked, answered, cancelled, delayed, received, sharedVars, privateVars,
                 threadVars, netVars, server, left>>

checkDelayedRequests(r) ==
  /\ MainIdle /\ r \in delayed
  /\ delayed' = delayed \ {r}
  /\ sendPrepared(r)
  /\ UNCHANGED <<refused, asked, answered, cancelled, callback, received, main, haveSent, privateVars,
                 todo, hand, netVars, server, left>>

-----------------------------------------------------------------------------
(* The session's thread: sending.                                          *)
Packet(id, ids, states, ping) == [id |-> id, ids |-> ids, states |-> states, ping |-> ping]

(* Nothing is sent without a connection, or with nothing to send.          *)
TryToSendNothing ==
  /\ ThreadIdle /\ wake
  /\ ~up \/ (toSend = {} /\ asking = {})
  /\ wake' = FALSE
  /\ started' = (started \/ up)
  /\ UNCHANGED <<mainVars, sharedVars, resending, acked, containers, seen, asking, pinging,
                 restVars, todo, hand, netVars, server, left>>

(* One request that was not resent goes alone: it leaves toSend under one  *)
(* lock, gets its id, and is put to haveSent under another.                *)
TryToSendSingle(r) ==
  /\ ThreadIdle /\ wake /\ up
  /\ toSend = {r} /\ msgId[r] = 0 /\ asking = {}
  /\ toSend' = {}
  /\ owner' = Append(owner, r) /\ UNCHANGED checking
  /\ msgId' = [msgId EXCEPT ![r] = Last + 1]
  /\ hand' = [ids |-> {Last + 1}, to |-> "haveSent"]
  /\ wake' = FALSE /\ started' = TRUE
  /\ UNCHANGED <<mainVars, haveSent, resending, acked, containers, seen, asking, pinging,
                 todo, netVars, server, left>>

PutHaveSent ==
  /\ hand.to = "haveSent"
  /\ haveSent' = haveSent \cup hand.ids
  /\ toServer' = Append(toServer, Packet(CHOOSE i \in hand.ids : TRUE, hand.ids, {}, FALSE))
  /\ hand' = EmptyHand
  /\ UNCHANGED <<mainVars, msgId, toSend, privateVars, todo, wake, up, toClient, server, left>>

(* prepareToSend(): a request that has an id keeps it, unless the session  *)
(* is a new one; replaceMsgId() then renames it everywhere.                *)
Fresh(batch) == {r \in batch : msgId[r] = 0 \/ ~started}

NewId(batch, r) ==
  IF r \in Fresh(batch) THEN Last + Cardinality({q \in Fresh(batch) : q <= r}) ELSE msgId[r]

Renamed(batch, ids) ==
  {IF \E r \in Fresh(batch) : msgId[r] = i
     THEN NewId(batch, CHOOSE r \in Fresh(batch) : msgId[r] = i) ELSE i : i \in ids}

(* The rest goes in a container, and both maps are locked for all of it.   *)
(* What does not fit waits for the next tryToSend().                       *)
Prefix(batch) == \A r \in batch, q \in toSend : q <= r => q \in batch

TryToSendContainer(batch) ==
  /\ ThreadIdle /\ wake /\ up
  /\ batch \subseteq toSend /\ Prefix(batch)
  /\ batch = {} <=> toSend = {}
  /\ batch \cup asking /= {}
  /\ LET ids   == {NewId(batch, r) : r \in batch}
         count == Cardinality(Fresh(batch))
         id    == IF batch = {} THEN 0 ELSE Last + count + 1
         next(i) == CHOOSE r \in Fresh(batch) : NewId(batch, r) = Last + i
     IN  /\ owner' = IF batch = {} THEN owner
                     ELSE owner \o [i \in 1 .. count |-> next(i)] \o <<0>>
         /\ msgId' = [r \in Requests |-> IF r \in batch THEN NewId(batch, r) ELSE msgId[r]]
         /\ resending' = Renamed(batch, resending \ {msgId[r] : r \in batch})
         /\ acked' = Renamed(batch, acked)
         /\ haveSent' = Renamed(batch, haveSent) \cup ids
         /\ containers' = {[c EXCEPT !.messages = Renamed(batch, @)] : c \in containers}
              \cup (IF batch = {} THEN {} ELSE {[id |-> id, messages |-> ids]})
         /\ toServer' = Append(toServer, Packet(id, ids, asking, FALSE))
  /\ toSend' = toSend \ batch
  /\ asking' = {} /\ started' = TRUE
  /\ checking' = (checking \/ batch /= {})
  /\ wake' = (toSend /= batch)
  /\ UNCHANGED <<mainVars, seen, pinging, todo, hand, up, toClient, server, left>>

(* Bound: these timers are slow, so they fire when nothing is on its way.  *)
Silence == toServer = <<>> /\ toClient = <<>>

(* sendPingByTimer() and the ping in tryToSend().                          *)
Ping ==
  /\ ThreadIdle /\ up /\ ~pinging
  /\ haveSent /= {} /\ Silence
  /\ pinging' = TRUE
  /\ started' = TRUE
  /\ toServer' = Append(toServer, Packet(0, {}, {}, TRUE))
  /\ UNCHANGED <<mainVars, sharedVars, resending, acked, containers, seen, asking, restVars,
                 threadVars, up, toClient, server, left>>

-----------------------------------------------------------------------------
(* The session's thread: putting back what is to be sent again.            *)

(* resend(): the ids of a container one by one.  Each request leaves       *)
(* haveSent under one lock and goes to toSend under another.               *)
Inner(ids) == UNION {c.messages : c \in {d \in containers : d.id \in ids}}
Without(ids) == {c \in containers : c.id \notin ids}

TakeHaveSent(i) ==
  /\ i \in todo /\ hand = EmptyHand
  /\ todo' = todo \ {i}
  /\ haveSent' = haveSent \ {i}
  /\ hand' = IF i \in haveSent THEN [ids |-> {i}, to |-> "toSend"] ELSE EmptyHand
  /\ wake' = TRUE
  /\ UNCHANGED <<mainVars, msgId, toSend, privateVars, netVars, server, left>>

PutToSend ==
  /\ hand.to = "toSend"
  /\ toSend' = toSend \cup Owners(hand.ids)
  /\ resending' = resending \cup hand.ids
  /\ hand' = EmptyHand
  /\ wake' = TRUE
  /\ UNCHANGED <<mainVars, msgId, haveSent, acked, containers, started, seen, asking, pinging,
                 restVars, todo, netVars, server, left>>

clearOldContainers(c) ==
  /\ ThreadIdle /\ Use("old")
  /\ containers' = containers \ {c}
  /\ todo' = c.messages
  /\ wake' = TRUE
  /\ UNCHANGED <<mainVars, sharedVars, resending, acked, started, seen, asking, pinging, restVars,
                 hand, netVars, server>>

(* The timer goes on only when some of what is sent was not asked about.   *)
checkSentRequests(ids) ==
  /\ ThreadIdle /\ left.checks > 0 /\ checking /\ Silence
  /\ asking' = asking \cup ids
  /\ wake' = (wake \/ ids \ asking /= {})
  /\ checking' = (ids /= haveSent)
  /\ UNCHANGED <<mainVars, sharedVars, resending, acked, containers, started, seen, pinging,
                 owner, todo, hand, netVars, server, left>>

(* Mutant: what is to be sent again stays in haveSent too.                 *)
ConnectCopying ==
  /\ ThreadIdle /\ ~up
  /\ up' = TRUE
  /\ hand' = IF haveSent = {} THEN EmptyHand ELSE [ids |-> haveSent, to |-> "toSend"]
  /\ pinging' = FALSE
  /\ wake' = TRUE
  /\ UNCHANGED <<mainVars, msgId, toSend, haveSent, resending, acked, containers, started, seen, asking,
                 restVars, todo, toServer, toClient, server, left>>

(* authKeyChecked(): the first half of resendAll().                        *)
Connect ==
  /\ ThreadIdle /\ ~up
  /\ up' = TRUE
  /\ hand' = IF haveSent = {} THEN EmptyHand ELSE [ids |-> haveSent, to |-> "toSend"]
  /\ haveSent' = {}
  /\ pinging' = FALSE
  /\ wake' = TRUE
  /\ UNCHANGED <<mainVars, msgId, toSend, resending, acked, containers, started, seen, asking,
                 restVars, todo, toServer, toClient, server, left>>

(* Whatever breaks the connection takes what is on its way.                *)
Disconnect ==
  /\ up' = FALSE /\ toServer' = <<>> /\ toClient' = <<>>

Lose ==
  /\ ThreadIdle /\ up /\ Use("losses")
  /\ Disconnect
  /\ server' = [server EXCEPT !.told = {}]
  /\ UNCHANGED <<mainVars, sharedVars, privateVars, threadVars>>

-----------------------------------------------------------------------------
(* The session's thread: what comes from the server.                       *)
Incoming(type) == ThreadIdle /\ toClient /= <<>> /\ Head(toClient).type = type

(* Mutant: an ack is enough for a request that waits for an answer.        *)
requestsAckedAll(ids, byResponse) ==
  LET gone   == ids \cup Inner(ids)
      sent   == gone \cap haveSent
      resent == (gone \ haveSent) \cap resending
  IN  /\ containers' = Without(ids)
      /\ haveSent' = haveSent \ sent
      /\ resending' = resending \ resent
      /\ toSend' = toSend \ Owners(resent)
      /\ acked' = acked \cup sent \cup {i \in resent : owner[i] \in toSend}

(* Mutant: an answered request is still sent again.                        *)
requestsAckedOnlySent(ids, byResponse) ==
  LET gone   == {i \in ids \cup Inner(ids) : byResponse \/ owner[i] \notin callback}
      sent   == gone \cap haveSent
  IN  /\ containers' = Without(ids)
      /\ haveSent' = haveSent \ sent
      /\ acked' = acked \cup sent
      /\ UNCHANGED <<toSend, resending>>

(* Mutant: the answer to a cancelled request is only dropped.              *)
requestsAckedAsked(ids, byResponse) ==
  LET gone   == {i \in ids \cup Inner(ids) : IF byResponse THEN owner[i] \notin cancelled
                                                          ELSE owner[i] \notin callback}
      sent   == gone \cap haveSent
      resent == (gone \ haveSent) \cap resending
  IN  /\ containers' = Without(ids)
      /\ haveSent' = haveSent \ sent
      /\ resending' = resending \ resent
      /\ toSend' = toSend \ Owners(resent)
      /\ acked' = acked \cup sent \cup {i \in resent : owner[i] \in toSend}

(* requestsAcked(): an ack by itself does not do for a request that waits  *)
(* for an answer.                                                          *)
requestsAcked(ids, byResponse) ==
  LET gone   == {i \in ids \cup Inner(ids) : byResponse \/ owner[i] \notin callback}
      sent   == gone \cap haveSent
      resent == (gone \ haveSent) \cap resending
  IN  /\ containers' = Without(ids)
      /\ haveSent' = haveSent \ sent
      /\ resending' = resending \ resent
      /\ toSend' = toSend \ Owners(resent)
      /\ acked' = acked \cup sent \cup {i \in resent : owner[i] \in toSend}

wasSent(id) ==
  \/ id \in resending \cup acked \cup haveSent
  \/ \E c \in containers : c.id = id
  \/ id = 0 /\ pinging

ReceiveResult ==
  /\ Incoming("result")
  /\ toClient' = Tail(toClient)
  /\ LET m == Head(toClient) IN
       IF m.id \in seen
         THEN UNCHANGED <<received, toSend, haveSent, resending, acked, containers, seen>>
         ELSE /\ seen' = seen \cup {m.id}
              /\ requestsAcked({m.id}, TRUE)
              /\ received' = IF wasSent(m.id)
                               THEN Append(received, [request |-> owner[m.id], error |-> m.error])
                               ELSE received
  /\ UNCHANGED <<refused, asked, answered, cancelled, callback, delayed, main, msgId, started, asking,
                 pinging, restVars, threadVars, up, toServer, server, left>>

ReceiveAck ==
  /\ Incoming("ack")
  /\ toClient' = Tail(toClient)
  /\ requestsAcked(Head(toClient).ids, FALSE)
  /\ UNCHANGED <<mainVars, msgId, started, seen, asking, pinging, restVars, threadVars,
                 up, toServer, server, left>>

ReceiveBadSalt ==
  /\ Incoming("bad_server_salt")
  /\ toClient' = Tail(toClient)
  /\ LET id == Head(toClient).id IN
       IF ~wasSent(id) THEN UNCHANGED <<todo, wake, containers, pinging>>
       ELSE /\ todo' = IF Inner({id}) /= {} THEN Inner({id}) ELSE {id} \ {0}
            /\ containers' = Without({id})
            /\ pinging' = (pinging /\ id /= 0)
            /\ wake' = TRUE
  /\ UNCHANGED <<mainVars, sharedVars, resending, acked, started, seen, asking, restVars, hand,
                 up, toServer, server, left>>

(* changeSessionId(), in restart(): what was sent waits for the new        *)
(* connection, of which the server has not heard.                          *)
ReceiveBadMsg ==
  /\ Incoming("bad_msg_notification")
  /\ IF ~wasSent(Head(toClient).id)
       THEN /\ toClient' = Tail(toClient)
            /\ UNCHANGED <<up, toServer, server, started, asking, seen>>
       ELSE /\ Disconnect
            /\ server' = NewServer
            /\ started' = FALSE /\ asking' = {} /\ seen' = {}
  /\ UNCHANGED <<mainVars, sharedVars, resending, acked, containers, pinging, owner,
                 checking, threadVars, left>>

(* What can't be sent again in any way is answered with an error.          *)
ReceiveFatal ==
  /\ Incoming("fatal")
  /\ toClient' = Tail(toClient)
  /\ LET id == Head(toClient).id IN
       IF id = 0 \/ ~wasSent(id) \/ owner[id] = 0 THEN UNCHANGED <<received, refused>>
       ELSE /\ received' = Append(received, [request |-> owner[id], error |-> TRUE])
            /\ refused' = refused \cup {owner[id]}
  /\ UNCHANGED <<asked, answered, cancelled, callback, delayed, main, sharedVars, privateVars,
                 threadVars, up, toServer, server, left>>

(* Mutant: only what was sent after the first message is sent again.       *)
ReceiveNewSessionAfter ==
  /\ Incoming("new_session_created")
  /\ toClient' = Tail(toClient)
  /\ todo' = {i \in haveSent : i > Head(toClient).first}
  /\ UNCHANGED <<mainVars, sharedVars, privateVars, hand, wake, up, toServer, server, left>>

ReceiveNewSession ==
  /\ Incoming("new_session_created")
  /\ toClient' = Tail(toClient)
  /\ todo' = {i \in haveSent : i < Head(toClient).first}
  /\ UNCHANGED <<mainVars, sharedVars, privateVars, hand, wake, up, toServer, server, left>>

(* handleMsgsStates(): what the server has not got is sent again, the rest *)
(* is acked.                                                               *)
ReceiveStates ==
  /\ Incoming("msgs_state_info")
  /\ toClient' = Tail(toClient)
  /\ LET m == Head(toClient) IN
       /\ todo' = (m.ids \ m.got) \cap haveSent
       /\ requestsAcked(m.got \cap (haveSent \cup resending), FALSE)
  /\ UNCHANGED <<mainVars, msgId, started, seen, asking, pinging, restVars, hand, wake,
                 up, toServer, server, left>>

ReceivePong ==
  /\ Incoming("pong")
  /\ toClient' = Tail(toClient)
  /\ pinging' = FALSE
  /\ UNCHANGED <<mainVars, sharedVars, resending, acked, containers, started, seen, asking,
                 restVars, threadVars, up, toServer, server, left>>

-----------------------------------------------------------------------------
(* The server: it does not do the same message twice in a session, keeps   *)
(* the answers, and may lose the session with all that.                    *)
Reply(messages) == toClient' = toClient \o messages

ServerReceive(failing, ackIds) ==
  /\ toServer' = Tail(toServer)
  /\ LET p == Head(toServer)
         when(condition, message) == IF condition THEN <<message>> ELSE <<>>
     IN  /\ UseAll((IF failing = {} THEN {} ELSE {"errors"}) \cup (IF ackIds = {} THEN {} ELSE {"acks"}))
         /\ server' = [server EXCEPT !.known = TRUE, !.got = @ \cup p.ids,
                                     !.failing = @ \cup failing]
         /\ Reply(when(~server.known,
                       [type |-> "new_session_created",
                        first |-> IF p.ids = {} THEN Last + 1
                                  ELSE CHOOSE i \in p.ids : \A j \in p.ids : i <= j])
               \o when(p.ping, [type |-> "pong"])
               \o when(p.states /= {}, [type |-> "msgs_state_info", ids |-> p.states,
                                        got |-> p.states \cap server.got])
               \o when(ackIds /= {}, [type |-> "ack", ids |-> ackIds]))
  /\ UNCHANGED <<mainVars, sharedVars, privateVars, threadVars, up>>

ServerRefuse(type, what) ==
  /\ toServer /= <<>> /\ Use(what)
  /\ toServer' = Tail(toServer)
  /\ Reply(<<[type |-> type, id |-> Head(toServer).id]>>)
  /\ UNCHANGED <<mainVars, sharedVars, privateVars, threadVars, up, server>>

ServerAnswer(id) ==
  /\ up /\ id \in server.got \ server.told
  /\ server' = [server EXCEPT !.told = @ \cup {id}]
  /\ Reply(<<[type |-> "result", id |-> id, error |-> id \in server.failing]>>)
  /\ UNCHANGED <<mainVars, sharedVars, privateVars, threadVars, up, toServer, left>>

ServerForget ==
  /\ server.known /\ Use("forgets")
  /\ server' = NewServer
  /\ UNCHANGED <<mainVars, sharedVars, privateVars, threadVars, netVars>>

-----------------------------------------------------------------------------
MainStep ==
  \/ CancelToSend \/ CancelHaveSent \/ CancelCallback \/ HandleResponse \/ Restore
  \/ \E r \in Requests : checkDelayedRequests(r)

Sending ==
  \/ TryToSendNothing \/ PutHaveSent
  \/ \E r \in Requests : TryToSendSingle(r)
  \/ \E batch \in SUBSET toSend : TryToSendContainer(batch)

Resending == PutToSend \/ \E i \in todo : TakeHaveSent(i)

Receiving ==
  \/ ReceiveResult \/ ReceiveAck \/ ReceiveBadSalt \/ ReceiveBadMsg \/ ReceiveNewSession
  \/ ReceiveFatal \/ ReceiveStates \/ ReceivePong

Serving ==
  /\ toServer /= <<>>
  /\ LET p == Head(toServer) IN
       \E failing \in SUBSET (p.ids \ server.got), ackIds \in {{}, p.ids, {p.id} \ {0}} :
         ServerReceive(failing, ackIds)

CheckSent == \E ids \in SUBSET haveSent : (ids = {} => haveSent = {}) /\ checkSentRequests(ids)

Next ==
  \/ \E r \in Requests : Send(r) \/ CancelBegin(r)
  \/ MainStep \/ Sending \/ Ping \/ Resending \/ Receiving \/ Serving
  \/ \E c \in containers : clearOldContainers(c)
  \/ CheckSent
  \/ Connect \/ Lose
  \/ ServerRefuse("bad_server_salt", "salts") \/ ServerRefuse("bad_msg_notification", "resets")
  \/ ServerRefuse("fatal", "fatals")
  \/ \E id \in server.got : ServerAnswer(id)
  \/ ServerForget

Spec == Init /\ [][Next]_vars

(* Threads run what is queued, timers fire, a broken connection is tried   *)
(* again, and the server answers.                                          *)
FairSpec ==
  /\ Spec
  /\ WF_vars(MainStep) /\ WF_vars(Sending) /\ WF_vars(Ping) /\ WF_vars(Resending)
  /\ WF_vars(Receiving) /\ WF_vars(Connect) /\ WF_vars(Serving) /\ WF_vars(CheckSent)
  /\ WF_vars(\E id \in server.got : ServerAnswer(id))

-----------------------------------------------------------------------------
(* What the session promises.                                              *)
TypeOK ==
  /\ asked \subseteq Requests /\ callback \subseteq asked
  /\ answered \subseteq asked /\ cancelled \subseteq asked /\ delayed \subseteq asked
  /\ toSend \subseteq asked
  /\ msgId \in [Requests -> 0 .. Last]
  /\ haveSent \cup resending \cup acked \cup asking \cup todo \cup hand.ids \cup server.got
       \subseteq 1 .. Last
  /\ \A c \in containers : c.id \in 1 .. Last /\ c.messages \subseteq 1 .. Last

(* A request whose callback is still in _parserMap is not forgotten: it    *)
(* waits to be sent, or to be answered, or its answer waits for the main   *)
(* thread.  Two threads move it between the maps, one lock at a time.      *)
NothingForgotten ==
  \A r \in callback :
    \/ r \in toSend \cup Owners(haveSent) \cup Owners(hand.ids) \cup delayed
    \/ \E i \in DOMAIN received : received[i].request = r
    \/ main.step /= "idle" /\ main.request = r

(* What was answered is not sent again: requestsAcked() takes it from      *)
(* haveSent, or from toSend when it was put back there.  A request that    *)
(* was refused for good may be: it is answered, but stays in haveSent.     *)
NotRepeated ==
  (answered \ refused)
    \cap (toSend \cup Owners(haveSent) \cup Owners(hand.ids) \cup delayed) = {}

(* A request is not sent under an id that already waits for an answer, nor *)
(* is one request to be sent while it is sent: the assertion commented out *)
(* in tryToSend().  One refused for good and tried again may be.           *)
SentOnce ==
  /\ \A r \in toSend \ refused : msgId[r] \notin haveSent
  /\ (toSend \ refused) \cap Owners(haveSent) = {}

(* Every request is answered in the end, unless it is cancelled: it is     *)
(* sent again after a broken connection, a lost session or a refusal.      *)
Answered == \A r \in Requests : r \in asked ~> r \in answered \cup cancelled

(* In the end there is nothing to send, nor to wait for, also when         *)
(* cancel() missed a request that was on its way from one map to the       *)
(* other: its answer, which nobody waits for, still takes it away.         *)
Drains == <>[](toSend = {} /\ haveSent = {})
=============================================================================
