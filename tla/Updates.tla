------------------------------ MODULE Updates ------------------------------
(***************************************************************************)
(* How the client keeps up with the server's updates: api/api_updates.cpp  *)
(* over one PtsWaiter per box.  A box is the account's common sequence or  *)
(* one channel.  Updates come as pushes and as answers to requests of      *)
(* ours; a hole in the numbers is waited for and then closed by a          *)
(* "difference" request; while a request runs the pushes are thrown away   *)
(* and the answer must make up for them.                                   *)
(*                                                                         *)
(* All handlers run on the main thread, which takes what arrives from one  *)
(* ordered queue (`net').  The server (external) logs the updates of each  *)
(* box, sends them in any order, and answers a difference request with     *)
(* what the log holds past the pts it names.  Containers carry no seq      *)
(* here: the `updates' constructor with seq = 0 and the short forms.       *)
(***************************************************************************)
EXTENDS PtsWaiter, Sequences, FiniteSets

CONSTANTS
  Common,       \* the box of private chats and basic groups
  Channels,     \* the boxes of channels and supergroups
  Counts,       \* the pts_count values of the server's updates
  Vias,         \* how updates reach us, a subset of {"push","reply","affected"}
  LoadedWithoutPts, \* whether a channel may be loaded before its pts is known
  MaxPts,       \* bound: [Boxes -> the point at which the server stops]
  MaxZero,      \* bound: how many updates that take no points it sends
  MaxFails,     \* bound: how many difference requests fail
  MaxTooLong,   \* bound: how often the server gives up pushing or listing
  MaxSessions,  \* bound: how often the server loses our session
  MaxTroubles   \* bound: how many of the last three happen in all

Boxes == {Common} \cup Channels

ASSUME BoxesAssumption == Common \notin Channels
ASSUME CountsAssumption == Counts \subseteq Nat \ {0}
ASSUME ViasAssumption == Vias \subseteq {"push", "reply", "affected"}
ASSUME BoundsAssumption ==
  /\ MaxPts \in [Boxes -> Nat]
  /\ MaxZero \in Nat /\ MaxFails \in Nat
  /\ MaxTooLong \in Nat /\ MaxSessions \in Nat /\ MaxTroubles \in Nat
ASSUME LoadedAssumption == LoadedWithoutPts \in BOOLEAN

VARIABLES
  waiter,      \* [Boxes -> waiter], Updates::_ptsWaiter, ChannelData::_ptsWaiter
  byPts,       \* boxes in _getDifferenceTimeByPts / _whenGetDiffByPts
  byMinChannel, \* _byMinChannelTimer runs
  afterFail,   \* boxes in _getDifferenceTimeAfterFail / _whenGetDiffAfterFail
  active,      \* channels among _activeChats
  applied,     \* [Boxes -> updates the session's data has taken]
  log,         \* server: [Boxes -> its updates]
  serverPts,   \* server: [Boxes -> the last point it gave out]
  unsent,      \* server: messages it has not sent yet
  asked,       \* server: [Boxes -> pts of the request it has to answer]
  net,         \* messages on their way to the main thread, in order
  spent,       \* how much of each bound is used up
  counted,     \* history: [Boxes -> updates in _count since the last init]
  base         \* history: [Boxes -> where our knowledge of the box starts]

clientVars == <<waiter, byPts, byMinChannel, afterFail, active, applied>>
serverVars == <<log, serverPts, unsent, asked, spent>>
historyVars == <<counted, base>>
vars == <<clientVars, serverVars, net, historyVars>>

NoRequest == -1
GetState == 0      \* a pts that getDifference never asks from

(* An update of the server's log: it takes the points pts-cnt+1 .. pts.    *)
Update == [pts : Nat, cnt : Nat, via : {"push", "reply", "affected"}]

UpdateMsg(b, u) == [type |-> u.via, box |-> b, update |-> u]
PtsMsg(t, b) == [type |-> t, box |-> b, pts |-> serverPts[b]]

IsUpdate(m) == m.type \in {"push", "reply", "affected"}
IsAnswer(m) == m.type \in {"difference", "fail"}

(* What the server repeats in a new session: answers to our requests.      *)
IsReply(m) == m.type \in {"reply", "affected"}

-----------------------------------------------------------------------------
(* The constructor: the first request is updates.getState, and the common  *)
(* box counts as requesting until its answer.                              *)
Init ==
  /\ waiter = [b \in Boxes |-> IF b = Common
                                 THEN setRequesting(NewWaiter, TRUE)
                                 ELSE NewWaiter]
  /\ byPts = {}
  /\ byMinChannel = FALSE
  /\ afterFail = {}
  /\ active = {}
  /\ applied = [b \in Boxes |-> {}]
  /\ log = [b \in Boxes |-> {}]
  /\ serverPts = [b \in Boxes |-> 1]
  /\ unsent = {}
  /\ asked = [b \in Boxes |-> IF b = Common THEN GetState ELSE NoRequest]
  /\ net = <<>>
  /\ spent = [zero |-> 0, fails |-> 0, tooLong |-> 0, sessions |-> 0]
  /\ counted = [b \in Boxes |-> {}]
  /\ base = [b \in Boxes |-> 0]

-----------------------------------------------------------------------------
(* The server (external).                                                  *)

MayHappen(what, bound) ==
  /\ spent[what] < bound
  /\ spent.fails + spent.tooLong + spent.sessions < MaxTroubles

(* Something happens in a box; it is pushed, or it is the outcome of a     *)
(* request of ours, in a chat that we know, and comes with the answer.     *)
ServerUpdate(b, n, via) ==
  LET u == [pts |-> serverPts[b] + n, cnt |-> n, via |-> via]
  IN  /\ u.pts <= MaxPts[b]
      /\ via /= "push" /\ b \in Channels => inited(waiter[b])
      /\ log' = [log EXCEPT ![b] = @ \cup {u}]
      /\ serverPts' = [serverPts EXCEPT ![b] = u.pts]
      /\ unsent' = unsent \cup {UpdateMsg(b, u)}
      /\ UNCHANGED <<clientVars, asked, spent, net, historyVars>>

(* An update that takes no points, such as updateWebPage: it is not part   *)
(* of what a difference has to bring.                                      *)
ServerZero(b) ==
  /\ spent.zero < MaxZero
  /\ spent' = [spent EXCEPT !.zero = @ + 1]
  /\ unsent' = unsent \cup
       {UpdateMsg(b, [pts |-> serverPts[b], cnt |-> 0, via |-> "push"])}
  /\ UNCHANGED <<clientVars, log, serverPts, asked, net, historyVars>>

(* The answer to a request for dialogs, which stateDone() makes, brings    *)
(* the pts of a channel.                                                   *)
AnswerDialogs(b) ==
  /\ inited(waiter[Common]) /\ ~inited(waiter[b])
  /\ \A i \in DOMAIN net : net[i].type = "received" => net[i].box /= b
  /\ net' = Append(net, PtsMsg("received", b))
  /\ UNCHANGED <<clientVars, serverVars, historyVars>>

(* So do the answers to later requests for a channel's messages.           *)
AnswerMessages(b) ==
  /\ inited(waiter[b])
  /\ spent.zero < MaxZero
  /\ spent' = [spent EXCEPT !.zero = @ + 1]
  /\ net' = Append(net, PtsMsg("received", b))
  /\ UNCHANGED <<clientVars, log, serverPts, unsent, asked, historyVars>>

(* Too much to push: updatesTooLong or updateChannelTooLong instead.       *)
ServerTooLong(b) ==
  /\ MayHappen("tooLong", MaxTooLong)
  /\ spent' = [spent EXCEPT !.tooLong = @ + 1]
  /\ unsent' = {m \in unsent : ~(m.type = "push" /\ m.box = b)}
                 \cup {PtsMsg("tooLong", b)}
  /\ UNCHANGED <<clientVars, log, serverPts, asked, net, historyVars>>

Send(m) ==
  /\ m \in unsent
  /\ unsent' = unsent \ {m}
  /\ net' = Append(net, m)
  /\ UNCHANGED <<clientVars, log, serverPts, asked, spent, historyVars>>

(* The points at which a difference may stop: a slice ends with an update. *)
Stops(b, from) == {u.pts : u \in {v \in log[b] : v.pts > from}}
                    \cup {serverPts[b]}

(* The answer to the request about box b: everything logged past the pts   *)
(* it names, up to a stop.  getState answers with the state alone, and so  *)
(* does a channel's "too long".  The answer for the common box also tells  *)
(* how far the channels are (updateChannelTooLong).                        *)
Difference(b, from, till, forget) ==
  [type |-> "difference", box |-> b, from |-> from, pts |-> till,
   updates |-> IF forget THEN {}
               ELSE {u \in log[b] : from < u.pts /\ u.pts <= till},
   forget |-> forget, final |-> till = serverPts[b],
   channels |-> serverPts]

Answer(b) ==
  /\ asked[b] /= NoRequest
  /\ \E till \in Stops(b, asked[b]), forget \in BOOLEAN :
       /\ b = Common => forget = (asked[b] = GetState)
       /\ forget => till = serverPts[b]
       /\ forget /\ b \in Channels => MayHappen("tooLong", MaxTooLong)
       /\ net' = Append(net, Difference(b, asked[b], till, forget))
       /\ spent' = IF forget /\ b \in Channels
                     THEN [spent EXCEPT !.tooLong = @ + 1] ELSE spent
  /\ asked' = [asked EXCEPT ![b] = NoRequest]
  /\ UNCHANGED <<clientVars, log, serverPts, unsent, historyVars>>

AnswerFail(b) ==
  /\ asked[b] \notin {NoRequest, GetState}
  /\ MayHappen("fails", MaxFails)
  /\ spent' = [spent EXCEPT !.fails = @ + 1]
  /\ net' = Append(net, [type |-> "fail", box |-> b, from |-> asked[b]])
  /\ asked' = [asked EXCEPT ![b] = NoRequest]
  /\ UNCHANGED <<clientVars, log, serverPts, unsent, historyVars>>

(* The server loses the session: pushes that did not arrive are gone, what *)
(* was asked and not answered is asked again.                              *)
NewSession ==
  /\ MayHappen("sessions", MaxSessions)
  /\ spent' = [spent EXCEPT !.sessions = @ + 1]
  /\ \E k \in 0 .. Len(net) :
       LET lost == {net[i] : i \in (k + 1) .. Len(net)}
       IN  /\ net' = Append(SubSeq(net, 1, k), [type |-> "newSession"])
           /\ unsent' = {m \in unsent \cup lost : IsReply(m)}
           /\ asked' = [b \in Boxes |->
                IF \E m \in lost : IsAnswer(m) /\ m.box = b
                  THEN (CHOOSE m \in lost : IsAnswer(m) /\ m.box = b).from
                  ELSE asked[b]]
  /\ UNCHANGED <<clientVars, log, serverPts, historyVars>>

-----------------------------------------------------------------------------
(* The client: requests.                                                   *)

requestingDifference == waiter[Common].requesting

(* getDifference() and getChannelDifference() return early when the box is *)
(* already requesting; a channel must know its pts.                        *)
MayAsk(w, b) == ~w[b].requesting /\ (b \in Channels => inited(w[b]))

(* Sending the requests for the boxes in bs, in the state where the        *)
(* waiters are w: both ways of asking remember that a request runs, drop   *)
(* the waiter's queue and the timers of the box, and name the box's pts.   *)
Ask(w, bs) ==
  LET asking == {b \in bs : MayAsk(w, b)}
  IN  /\ waiter' = [b \in Boxes |-> IF b \in asking
                                      THEN setRequesting(w[b], TRUE)
                                      ELSE w[b]]
      /\ asked' = [b \in Boxes |-> IF b \in asking THEN w[b].good
                                                   ELSE asked[b]]
      /\ afterFail' = afterFail \ asking

(* getDifference() outside of a difference answer.                         *)
getDifference ==
  /\ Ask(waiter, {Common})
  /\ byPts' = byPts \ {Common}

-----------------------------------------------------------------------------
(* The client: what arrives.                                               *)

Receive(t) == /\ net /= <<>>
              /\ Head(net).type = t
              /\ net' = Tail(net)
              /\ UNCHANGED <<log, serverPts, unsent, spent>>

(* ptsWaiterStartTimerFor: the timers keep the earliest moment, here only  *)
(* whether there is one.                                                   *)
ptsWaiterStartTimerFor(b, timer) ==
  byPts' = CASE timer = "start" -> byPts \cup {b}
             [] timer = "stop"  -> byPts \ {b}
             [] OTHER           -> byPts

(* Box b's waiter was given u and answered r; `done' is what the session's *)
(* data takes.                                                             *)
Given(b, r, u, done) ==
  LET w == waiter[b]
  IN  /\ waiter' = [waiter EXCEPT ![b] = r.w]
      /\ ptsWaiterStartTimerFor(b, r.timer)
      /\ applied' = [applied EXCEPT ![b] = @ \cup done]
      /\ counted' = [counted EXCEPT ![b] =
                       IF r.w.good /= w.good THEN {}
                       ELSE IF r.w.count /= w.count THEN @ \cup {u}
                       ELSE @]
      /\ base' = [base EXCEPT ![b] = IF inited(w) THEN @ ELSE r.w.good]
      /\ UNCHANGED <<byMinChannel, afterFail, active, asked>>

Ignored == UNCHANGED <<clientVars, asked, historyVars>>

(* feedUpdate() of an update with a pts.  An update of a channel that is   *)
(* not loaded waits for the common difference, a channel that is loaded    *)
(* may get its first pts from it; one of a channel whose difference is     *)
(* requested is skipped; a new message from somebody unknown makes us ask  *)
(* for the common difference instead.                                      *)
feedUpdate(b, u) ==
  \/ /\ b \in Channels /\ ~inited(waiter[b])
     /\ byMinChannel' = TRUE
     /\ UNCHANGED <<waiter, byPts, afterFail, active, applied, asked, historyVars>>
  \/ /\ b \in Channels /\ waiter[b].requesting
     /\ Ignored
  \/ /\ b = Common /\ ~requestingDifference
     /\ getDifference
     /\ UNCHANGED <<byMinChannel, active, applied, historyVars>>
  \/ /\ b \in Channels => /\ ~waiter[b].requesting
                          /\ inited(waiter[b]) \/ LoadedWithoutPts
     /\ LET r == updateAndApply(waiter[b], u)
        IN  Given(b, r, u, {v \in r.fed : v.cnt > 0})

(* mtpUpdateReceived(): no push is looked at while the common difference   *)
(* is requested, of whichever box it is.                                   *)
ReceivePush ==
  /\ Receive("push")
  /\ IF requestingDifference
       THEN Ignored
       ELSE feedUpdate(Head(net).box, Head(net).update)

(* ApiWrap::applyUpdates(): the updates in the answer to our request are   *)
(* fed even then.                                                          *)
ReceiveReply ==
  /\ Receive("reply")
  /\ feedUpdate(Head(net).box, Head(net).update)

(* ApiWrap::applyAffectedHistory(), applyAffectedMessages().               *)
ReceiveAffected ==
  /\ Receive("affected")
  /\ LET b == Head(net).box
         u == Head(net).update
         r == updateAndApplyAffected(waiter[b], u.pts, u.cnt)
     IN  Given(b, r, u, r.fed \cup {u})

(* Mutant: ptsInit() in place of ptsReceived().                            *)
ReceivePtsInit ==
  /\ Receive("received")
  /\ LET b == Head(net).box
         w == init(waiter[b], Head(net).pts)
     IN  /\ waiter' = [waiter EXCEPT ![b] = w]
         /\ counted' = [counted EXCEPT ![b] = {}]
         /\ base' = [base EXCEPT ![b] = IF inited(waiter[b]) THEN @ ELSE w.good]
         /\ UNCHANGED <<byPts, byMinChannel, afterFail, active, applied, asked>>

(* ChannelData::ptsReceived().                                             *)
ReceivePtsReceived ==
  /\ Receive("received")
  /\ LET b == Head(net).box
         r == updateAndApplyAffected(waiter[b], Head(net).pts, 0)
         none == [pts |-> Head(net).pts, cnt |-> 0, via |-> "reply"]
     IN  Given(b, r, none, r.fed)

(* updatesTooLong, or updateChannelTooLong with a pts.                     *)
ReceiveTooLong ==
  /\ Receive("tooLong")
  /\ LET b == Head(net).box
     IN  \/ /\ requestingDifference \/ (b \in Channels
                                          /\ waiter[b].good >= Head(net).pts)
            /\ Ignored
         \/ /\ ~requestingDifference
            /\ b \in Channels => waiter[b].good < Head(net).pts
            /\ Ask(waiter, {b})
            /\ byPts' = byPts \ {b}
            /\ UNCHANGED <<byMinChannel, active, applied, historyVars>>

(* Mutant: the channels that the answer lists are not looked at.           *)
ReceiveDifferenceAlone ==
  /\ Receive("difference")
  /\ Head(net).box = Common
  /\ LET d == Head(net)
         w == setRequesting(init(waiter[Common], d.pts), FALSE)
         bs == IF d.final THEN {} ELSE {Common}
     IN  /\ Ask([waiter EXCEPT ![Common] = w], bs)
         /\ byPts' = byPts \ bs
         /\ applied' = [applied EXCEPT ![Common] = @ \cup d.updates]
         /\ counted' = [counted EXCEPT ![Common] = {}]
         /\ base' = [base EXCEPT ![Common] = IF d.forget THEN d.pts ELSE @]
         /\ UNCHANGED <<byMinChannel, active>>

(* stateDone() and differenceDone(): the answer is fed, its pts taken over *)
(* and after a slice the next one is asked for.  The channels that it says *)
(* are further than we know are asked for first.                           *)
ReceiveDifference ==
  /\ Receive("difference")
  /\ Head(net).box = Common
  /\ LET d == Head(net)
         w == setRequesting(init(waiter[Common], d.pts), FALSE)
         behind == IF d.forget THEN {}
                   ELSE {c \in Channels : waiter[c].good < d.channels[c]}
         bs == behind \cup (IF d.final THEN {} ELSE {Common})
     IN  /\ Ask([waiter EXCEPT ![Common] = w], bs)
         /\ byPts' = byPts \ bs
         /\ applied' = [applied EXCEPT ![Common] = @ \cup d.updates]
         /\ counted' = [counted EXCEPT ![Common] = {}]
         /\ base' = [base EXCEPT ![Common] = IF d.forget THEN d.pts ELSE @]
         /\ UNCHANGED <<byMinChannel, active>>

(* Mutants of channelDifferenceDone(): a slice counts as the end; a slice  *)
(* is not fed.                                                             *)
ReceiveSliceAsFinal ==
  /\ Receive("difference")
  /\ Head(net).box \in Channels
  /\ LET d == Head(net)
         b == d.box
         w == setRequesting(init(waiter[b], d.pts), FALSE)
     IN  /\ waiter' = [waiter EXCEPT ![b] = w]
         /\ applied' = [applied EXCEPT ![b] = @ \cup d.updates]
         /\ counted' = [counted EXCEPT ![b] = {}]
         /\ base' = [base EXCEPT ![b] = IF d.forget THEN d.pts ELSE @]
         /\ UNCHANGED <<byPts, byMinChannel, afterFail, active, asked>>

ReceiveSliceUnfed ==
  /\ Receive("difference")
  /\ Head(net).box \in Channels
  /\ LET d == Head(net)
         b == d.box
         w == setRequesting(init(waiter[b], d.pts), FALSE)
     IN  /\ Ask([waiter EXCEPT ![b] = w], IF d.final THEN {} ELSE {b})
         /\ byPts' = byPts \ {b}
         /\ applied' = [applied EXCEPT ![b] = @ \cup (IF d.final THEN d.updates
                                                               ELSE {})]
         /\ counted' = [counted EXCEPT ![b] = {}]
         /\ base' = [base EXCEPT ![b] = IF d.forget THEN d.pts ELSE @]
         /\ UNCHANGED <<byMinChannel, active>>

(* channelDifferenceDone().                                                *)
ReceiveChannelDifference ==
  /\ Receive("difference")
  /\ Head(net).box \in Channels
  /\ LET d == Head(net)
         b == d.box
         w == setRequesting(init(waiter[b], d.pts), FALSE)
         r == setWaitingForShortPoll(w, b \in active)
     IN  /\ IF d.final
              THEN /\ waiter' = [waiter EXCEPT ![b] = r.w]
                   /\ ptsWaiterStartTimerFor(b, r.timer)
                   /\ UNCHANGED <<asked, afterFail>>
              ELSE /\ Ask([waiter EXCEPT ![b] = w], {b})
                   /\ byPts' = byPts \ {b}
         /\ applied' = [applied EXCEPT ![b] = @ \cup d.updates]
         /\ counted' = [counted EXCEPT ![b] = {}]
         /\ base' = [base EXCEPT ![b] = IF d.forget THEN d.pts ELSE @]
         /\ UNCHANGED <<byMinChannel, active>>

(* differenceFail(), channelDifferenceFail(): try again after a while; the *)
(* box still counts as requesting.                                         *)
ReceiveFail ==
  /\ Receive("fail")
  /\ afterFail' = afterFail \cup {Head(net).box}
  /\ UNCHANGED <<waiter, byPts, byMinChannel, active, applied, asked, historyVars>>

(* mtpNewSessionCreated().                                                 *)
ReceiveNewSession ==
  /\ Receive("newSession")
  /\ getDifference
  /\ UNCHANGED <<byMinChannel, active, applied, historyVars>>

-----------------------------------------------------------------------------
(* The client: timers and windows.                                         *)

(* getDifferenceByPts() when the moments of the boxes in due have passed.  *)
PtsTimer(due) ==
  /\ due \subseteq byPts
  /\ Ask(waiter, due)
  /\ byPts' = byPts \ due
  /\ UNCHANGED <<byMinChannel, active, applied, log, serverPts, unsent, net,
                  spent, historyVars>>

(* Mutants of getDifferenceAfterFail(): the box still counts as            *)
(* requesting, so nothing is asked; the retry timer runs on.               *)
FailTimerStuck(due) ==
  /\ due \subseteq afterFail
  /\ afterFail' = afterFail \ due
  /\ UNCHANGED <<waiter, byPts, byMinChannel, active, applied, log, serverPts,
                  unsent, asked, net, spent, historyVars>>

FailTimerRunsOn(due) ==
  /\ due \subseteq afterFail
  /\ waiter' = [b \in Boxes |-> IF b \in due THEN setRequesting(waiter[b], TRUE)
                                             ELSE waiter[b]]
  /\ asked' = [b \in Boxes |-> IF b \in due THEN waiter[b].good ELSE asked[b]]
  /\ byPts' = byPts \ due
  /\ UNCHANGED <<byMinChannel, active, applied, afterFail, log, serverPts,
                  unsent, net, spent, historyVars>>

(* getDifferenceAfterFail(): a failed request gives way to a new one.      *)
FailTimer(due) ==
  /\ due \subseteq afterFail
  /\ Ask([b \in Boxes |-> IF b \in due THEN setRequesting(waiter[b], FALSE)
                                       ELSE waiter[b]], due)
  /\ byPts' = byPts \ due
  /\ UNCHANGED <<byMinChannel, active, applied, log, serverPts, unsent, net,
                  spent, historyVars>>

(* _byMinChannelTimer.                                                     *)
MinChannelTimer ==
  /\ byMinChannel
  /\ byMinChannel' = FALSE
  /\ getDifference
  /\ UNCHANGED <<active, applied, log, serverPts, unsent, net, spent, historyVars>>

(* addActiveChat(): the chat shown in a window is polled, and no longer    *)
(* when the window turns to another one.                                   *)
ShowChat(b, show) ==
  LET r == setWaitingForShortPoll(waiter[b], show)
  IN  /\ show \/ b \in active
      /\ active' = IF show THEN active \cup {b} ELSE active \ {b}
      /\ waiter' = [waiter EXCEPT ![b] = r.w]
      /\ ptsWaiterStartTimerFor(b, r.timer)
      /\ UNCHANGED <<byMinChannel, afterFail, applied, serverVars, net, historyVars>>

(* A window that closes only leaves _activeChats: the poll that runs is    *)
(* the last one.                                                           *)
CloseWindow(b) ==
  /\ b \in active
  /\ active' = active \ {b}
  /\ UNCHANGED <<waiter, byPts, byMinChannel, afterFail, applied, serverVars,
                  net, historyVars>>

-----------------------------------------------------------------------------
Server ==
  \/ \E b \in Boxes, n \in Counts, via \in Vias : ServerUpdate(b, n, via)
  \/ \E b \in Boxes : ServerZero(b)
  \/ \E b \in Channels : AnswerDialogs(b)
  \/ \E b \in Channels : AnswerMessages(b)
  \/ \E b \in Boxes : ServerTooLong(b)
  \/ \E m \in unsent : Send(m)
  \/ \E b \in Boxes : Answer(b)
  \/ \E b \in Boxes : AnswerFail(b)
  \/ NewSession

Receives ==
  \/ ReceivePush
  \/ ReceiveReply
  \/ ReceiveAffected
  \/ ReceivePtsReceived
  \/ ReceiveTooLong
  \/ ReceiveDifference
  \/ ReceiveChannelDifference
  \/ ReceiveFail
  \/ ReceiveNewSession

Client ==
  \/ Receives
  \/ \E due \in SUBSET byPts \ {{}} : PtsTimer(due)
  \/ \E due \in SUBSET afterFail \ {{}} : FailTimer(due)
  \/ MinChannelTimer
  \/ \E b \in Channels, show \in BOOLEAN : ShowChat(b, show)
  \/ \E b \in active : CloseWindow(b)

Next == Server \/ Client

Spec == Init /\ [][Next]_vars

(* The server sends what it has and answers what it is asked, the main     *)
(* thread takes what arrives, a timer fires: weak fairness of each, with   *)
(* the guards that enable these actions, which always change something.    *)
Fairness ==
  /\ []<>(unsent = {}) \/ []<><<\E m \in unsent : Send(m)>>_vars
  /\ []<>(net = <<>>) \/ []<><<Receives>>_vars
  /\ []<>~byMinChannel \/ []<><<MinChannelTimer>>_vars
  /\ \A b \in Boxes :
       /\ []<>(asked[b] = NoRequest) \/ []<><<Answer(b)>>_vars
       /\ \/ []<>(b \notin byPts)
          \/ []<><<\E due \in SUBSET byPts : b \in due /\ PtsTimer(due)>>_vars
       /\ \/ []<>(b \notin afterFail)
          \/ []<><<\E due \in SUBSET afterFail : b \in due /\ FailTimer(due)>>_vars

FairSpec == Spec /\ Fairness

-----------------------------------------------------------------------------
(* Properties.                                                             *)

Waiters ==
  [good : Nat, last : Nat, count : Nat, queue : SUBSET Update,
   requesting : BOOLEAN, waitingForSkipped : BOOLEAN,
   waitingForShortPoll : BOOLEAN]

Messages ==
  [type : {"push", "reply", "affected"}, box : Boxes, update : Update]
    \cup [type : {"received", "tooLong"}, box : Boxes, pts : Nat]
    \cup [type : {"difference"}, box : Boxes, from : Nat, pts : Nat,
          updates : SUBSET Update, forget : BOOLEAN, final : BOOLEAN,
          channels : [Boxes -> Nat]]
    \cup [type : {"fail"}, box : Boxes, from : Nat]
    \cup [type : {"newSession"}]

(* The type invariant of the client's, the server's and the history state. *)
TypeOK ==
  /\ waiter \in [Boxes -> Waiters]
  /\ byPts \subseteq Boxes /\ byMinChannel \in BOOLEAN
  /\ afterFail \subseteq Boxes /\ active \subseteq Channels
  /\ applied \in [Boxes -> SUBSET Update]
  /\ log \in [Boxes -> SUBSET Update]
  /\ serverPts \in [Boxes -> Nat]
  /\ unsent \subseteq Messages
  /\ asked \in [Boxes -> Nat \cup {NoRequest}]
  /\ net \in Seq(Messages)
  /\ counted \in [Boxes -> SUBSET Update]
  /\ base \in [Boxes -> Nat]

(* What a client may claim: every update of the server up to the pts that  *)
(* the client reports in its requests (_good) has been applied, unless it  *)
(* is older than the state the client started from.  A queue that is       *)
(* flushed too early, or a point counted twice, would break it.            *)
NothingSkipped ==
  \A b \in Boxes : \A u \in log[b] :
    base[b] < u.pts /\ u.pts <= waiter[b].good => u \in applied[b]

(* A pushed update is applied only together with all the updates before    *)
(* it: edits never come before the message, reads never before what is     *)
(* read.                                                                   *)
AppliedInOrder ==
  \A b \in Boxes : \A u \in applied[b] :
    u.via = "push" => u.pts <= waiter[b].good

(* While updates are missing or held back in the queue a difference is     *)
(* requested, or the timer that will request it runs.                      *)
GapIsWatched ==
  \A b \in Boxes :
    LET w == waiter[b]
    IN  (w.last /= w.count \/ w.queue /= {}) =>
          w.requesting \/ b \in byPts

InFlight(m) == m \in unsent \/ \E i \in DOMAIN net : net[i] = m

(* Something on its way will make us ask for the difference of b past pts. *)
Announced(b, pts) ==
  LET tells(m) == \/ m.type = "newSession"
                  \/ m.type = "tooLong" /\ m.box = b /\ m.pts >= pts
  IN  \/ \E m \in unsent : tells(m)
      \/ \E i \in DOMAIN net : tells(net[i])

(* No update is forgotten: one past the pts that the client reports is on  *)
(* its way, or a difference that covers it is requested, timed or          *)
(* announced.  Pushes dropped while the common difference is requested are *)
(* made up for by that difference, channels' ones too.                     *)
NothingForgotten ==
  \A b \in Boxes : \A u \in log[b] :
    inited(waiter[b]) /\ u.pts > waiter[b].good =>
      \/ InFlight(UpdateMsg(b, u))
      \/ waiter[b].requesting \/ requestingDifference
      \/ b \in byPts \/ byMinChannel \/ Announced(b, u.pts)

(* One request per box: a box that counts as requesting has exactly one of *)
(* a request at the server, its answer on the way, or the retry timer; any *)
(* other box has none, so no answer finds the box in another state than    *)
(* the one it was asked in.                                                *)
OneRequest ==
  \A b \in Boxes :
    LET answers == {i \in DOMAIN net : IsAnswer(net[i]) /\ net[i].box = b}
    IN  Cardinality(answers)
          + (IF asked[b] = NoRequest THEN 0 ELSE 1)
          + (IF b \in afterFail THEN 1 ELSE 0)
        = IF waiter[b].requesting THEN 1 ELSE 0

(* The pts of a box never goes back, whatever answer comes when.           *)
PtsNeverGoesBack ==
  [][\A b \in Boxes : waiter'[b].good >= waiter[b].good]_vars

(* Every update of a box that the client follows gets applied, however the *)
(* pushes were reordered, dropped or lost with a session.                  *)
CatchesUp ==
  \A b \in Boxes :
    inited(waiter[b]) ~> (waiter[b].good = serverPts[b])

(* The machinery of waiters, timers and difference requests implements the *)
(* plain promise of UpdateFeed, for all boxes at once.                     *)
Feed == INSTANCE UpdateFeed WITH good <- [b \in Boxes |-> waiter[b].good]

ImplementsFeed == Feed!Spec
=============================================================================
