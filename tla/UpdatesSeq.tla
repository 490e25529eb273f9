----------------------------- MODULE UpdatesSeq -----------------------------
(***************************************************************************)
(* The seq of containers in api/api_updates.cpp.  Independently of the pts *)
(* of the updates inside, the containers (`updates', `updatesCombined')    *)
(* that the server sends in a session are numbered; one that comes too     *)
(* early is saved in _bySeqUpdates for a second, after which the common    *)
(* difference is asked for.  setState() takes over a new seq and applies   *)
(* the saved containers that now follow, through applyUpdates(), which     *)
(* calls setState() again.                                                 *)
(*                                                                         *)
(* Containers without a seq do not touch this state and are left out.  The *)
(* pts machinery is an environment here that may ask for the difference at *)
(* any moment (module Updates has it).  The server is external.            *)
(***************************************************************************)
EXTENDS Integers, Sequences, FiniteSets

CONSTANTS
  Vias,         \* how containers reach us, a subset of {"push", "reply"}
  MaxSpan,      \* bound: how many numbers a combined container takes
  MaxSeq,       \* bound: the number at which the server stops
  MaxSlices,    \* bound: how many answers are not final
  MaxFails,     \* bound: how many difference requests fail
  MaxAsks,      \* bound: how often a difference is asked for elsewhere
  MaxSessions   \* bound: how often the server loses our session

ASSUME SeqAssumption ==
  /\ Vias \subseteq {"push", "reply"} /\ MaxSpan \in Nat \ {0}
  /\ {MaxSeq, MaxSlices, MaxFails, MaxAsks, MaxSessions} \subseteq Nat

VARIABLES
  updatesSeq,    \* _updatesSeq
  bySeqUpdates,  \* _bySeqUpdates
  bySeqTimer,    \* _bySeqTimer is active
  requesting,    \* requestingDifference()
  afterFail,     \* _getDifferenceTimeAfterFail is set
  taken,         \* containers that were fed
  serverSeq,     \* server: the last number it gave out in this session
  session,       \* server: the number of the session
  issued,        \* server: all containers so far
  unsent,        \* server: containers it has not sent yet
  asked,         \* server: the request it has to answer
  net,           \* messages on their way to the main thread, in order
  spent,         \* how much of each bound is used up
  covered        \* history: containers made up for by a difference

clientVars == <<updatesSeq, bySeqUpdates, bySeqTimer, requesting, afterFail, taken>>
serverVars == <<serverSeq, session, issued, unsent, spent>>
vars == <<clientVars, serverVars, asked, net, covered>>

NoRequest == "none"

(* The constructor asks for the state at once.                             *)
Init ==
  /\ updatesSeq = 0 /\ bySeqUpdates = {} /\ bySeqTimer = FALSE
  /\ requesting = TRUE /\ afterFail = FALSE /\ taken = {}
  /\ serverSeq = 0 /\ session = 0 /\ issued = {} /\ unsent = {}
  /\ asked = "state" /\ net = <<>> /\ covered = {}
  /\ spent = [slices |-> 0, fails |-> 0, asks |-> 0]

-----------------------------------------------------------------------------
(* The server (external).                                                  *)

IsAnswer(m) == m.type \in {"difference", "fail"}

(* A container takes the numbers first .. last (seq_start and seq).  A     *)
(* bound: the server numbers replies, or loses the session, never both.    *)
Issue(span, via) ==
  LET c == [type |-> via, session |-> session,
            first |-> serverSeq + 1, last |-> serverSeq + span]
  IN  /\ c.last <= MaxSeq /\ (via = "reply" => session = 0)
      /\ serverSeq' = c.last
      /\ issued' = issued \cup {c}
      /\ unsent' = unsent \cup {c}
      /\ UNCHANGED <<clientVars, session, spent, asked, net, covered>>

Send(c) ==
  /\ c \in unsent
  /\ unsent' = unsent \ {c}
  /\ net' = Append(net, c)
  /\ UNCHANGED <<clientVars, serverSeq, session, issued, spent, asked, covered>>

(* An answer carries the state.  A final one makes up for all that happened *)
(* before it; a slice is followed by another request.                      *)
Answer(final) ==
  /\ asked /= NoRequest
  /\ ~final => asked = "difference" /\ spent.slices < MaxSlices
  /\ spent' = IF final THEN spent ELSE [spent EXCEPT !.slices = @ + 1]
  /\ asked' = NoRequest
  /\ net' = Append(net, [type |-> "difference", session |-> session, to |-> asked,
                         seq |-> serverSeq, final |-> final,
                         covers |-> IF final THEN issued ELSE {}])
  /\ UNCHANGED <<clientVars, serverSeq, session, issued, unsent, covered>>

AnswerFail ==
  /\ asked = "difference" /\ spent.fails < MaxFails
  /\ spent' = [spent EXCEPT !.fails = @ + 1]
  /\ asked' = NoRequest
  /\ net' = Append(net, [type |-> "fail", session |-> session, to |-> asked])
  /\ UNCHANGED <<clientVars, serverSeq, session, issued, unsent, covered>>

(* The server loses the session and what it had to send in it; it may      *)
(* number the next one from the start.  A request that was not answered is *)
(* sent again.                                                             *)
NewSession ==
  /\ session < MaxSessions /\ ~\E c \in issued : c.type = "reply"
  /\ session' = session + 1
  /\ unsent' = {}
  /\ serverSeq' \in {0, serverSeq}
  /\ \E k \in 0 .. Len(net) :
       /\ net' = Append(SubSeq(net, 1, k), [type |-> "newSession", session |-> session'])
       /\ asked' = IF \E i \in (k + 1) .. Len(net) : IsAnswer(net[i])
                     THEN net[CHOOSE i \in (k + 1) .. Len(net) : IsAnswer(net[i])].to
                     ELSE asked
  /\ UNCHANGED <<clientVars, issued, spent, covered>>

-----------------------------------------------------------------------------
(* The client.                                                             *)

Receive(t) == /\ net /= <<>>
              /\ Head(net).type = t
              /\ net' = Tail(net)
              /\ UNCHANGED serverVars

(* The runs of saved containers that follow seq without a hole.            *)
Runs(queue, seq) ==
  {run \in SUBSET queue : \A c \in run :
     c.first = seq + 1 \/ \E d \in run : d.last + 1 = c.first}

EndOf(run, seq) ==
  IF run = {} THEN seq
  ELSE CHOOSE last \in {c.last : c \in run} : \A c \in run : c.last <= last

(* setState() with a new seq: the saved containers that follow are fed one *)
(* after another, each by applyUpdates() and its own setState(), the       *)
(* outrun ones are dropped, and those past a hole wait again.              *)
Feed(run, seq) ==
  /\ updatesSeq' = EndOf(run, seq)
  /\ taken' = taken \cup run

(* Mutant: the timer is cancelled and not started again.                   *)
KeepWithoutTimer(queue, seq) ==
  /\ \A c \in queue : c.first /= seq + 1
  /\ bySeqUpdates' = {c \in queue : c.first > seq}
  /\ bySeqTimer' = FALSE

(* The rest of setState(): the loop over what is not fed.                  *)
Keep(queue, seq) ==
  /\ \A c \in queue : c.first /= seq + 1
  /\ bySeqUpdates' = {c \in queue : c.first > seq}
  /\ bySeqTimer' = (bySeqUpdates' /= {})

(* getDifference() when it is not requested already.                       *)
Ask ==
  /\ bySeqUpdates' = {} /\ bySeqTimer' = FALSE /\ afterFail' = FALSE
  /\ requesting' = TRUE /\ asked' = "difference"

(* Mutant: a container that comes too early is fed at once.                *)
applyUpdatesEarly(c) ==
  \/ /\ c.first <= updatesSeq
     /\ UNCHANGED <<clientVars, asked>>
  \/ /\ c.first > updatesSeq
     /\ Feed({c}, updatesSeq)
     /\ UNCHANGED <<bySeqUpdates, bySeqTimer, requesting, afterFail, asked>>

(* applyUpdates() of a container.  The map keeps the first of two          *)
(* containers with one number.  What is fed may itself ask for the         *)
(* difference, which empties the queue, so nothing follows it.             *)
applyUpdates(c) ==
  \/ /\ c.first <= updatesSeq
     /\ UNCHANGED <<clientVars, asked>>
  \/ /\ c.first > updatesSeq + 1
     /\ bySeqUpdates' = IF \E d \in bySeqUpdates : d.first = c.first
                          THEN bySeqUpdates ELSE bySeqUpdates \cup {c}
     /\ bySeqTimer' = TRUE
     /\ UNCHANGED <<updatesSeq, requesting, afterFail, taken, asked>>
  \/ /\ c.first = updatesSeq + 1
     /\ LET queue == bySeqUpdates \cup {c}
        IN  \E run \in Runs(queue, updatesSeq) \ {{}} :
              /\ Feed(run, updatesSeq)
              /\ \/ /\ ~requesting
                    /\ Ask
                 \/ /\ Keep(queue \ run, EndOf(run, updatesSeq))
                    /\ UNCHANGED <<requesting, afterFail, asked>>

(* mtpUpdateReceived(): a push is ignored while a difference is awaited.   *)
ReceivePush ==
  /\ Receive("push")
  /\ IF requesting THEN UNCHANGED <<clientVars, asked>>
                   ELSE applyUpdates(Head(net))
  /\ UNCHANGED covered

(* Api::applyUpdates() of the answer to some other request.                *)
ReceiveReply ==
  /\ Receive("reply")
  /\ applyUpdates(Head(net))
  /\ UNCHANGED covered

(* The timer of the saved containers calls getDifference().                *)
BySeqTimer ==
  /\ bySeqTimer
  /\ IF requesting
       THEN /\ bySeqTimer' = FALSE
            /\ UNCHANGED <<bySeqUpdates, requesting, afterFail, asked>>
       ELSE Ask
  /\ UNCHANGED <<updatesSeq, taken, serverVars, net, covered>>

(* getDifference() for any of the reasons in module Updates.               *)
AskElsewhere ==
  /\ ~requesting
  /\ spent.asks < MaxAsks
  /\ spent' = [spent EXCEPT !.asks = @ + 1]
  /\ Ask
  /\ UNCHANGED <<updatesSeq, taken, serverSeq, session, issued, unsent, net, covered>>

(* stateDone(), differenceDone(): a seq of zero, or the one that we have,  *)
(* leaves the saved containers alone.  The difference counts as requested  *)
(* until they are fed; after a slice the next one is asked for.            *)
ReceiveDifference ==
  /\ Receive("difference")
  /\ LET d == Head(net)
     IN  /\ covered' = covered \cup d.covers
         /\ \E run \in Runs(bySeqUpdates, d.seq) :
              LET same == d.seq \in {0, updatesSeq}
              IN  /\ IF same THEN run = {} /\ UNCHANGED <<updatesSeq, taken>>
                             ELSE Feed(run, d.seq)
                  /\ \/ /\ ~d.final
                        /\ Ask
                     \/ /\ d.final
                        /\ IF same THEN UNCHANGED <<bySeqUpdates, bySeqTimer>>
                                   ELSE Keep(bySeqUpdates \ run, EndOf(run, d.seq))
                        /\ requesting' = FALSE
                        /\ UNCHANGED <<afterFail, asked>>

ReceiveFail ==
  /\ Receive("fail")
  /\ afterFail' = TRUE
  /\ UNCHANGED <<updatesSeq, bySeqUpdates, bySeqTimer, requesting, taken, asked, covered>>

(* Mutant: the failed request still counts as awaited, so none is sent.    *)
FailTimerStillRequesting ==
  /\ afterFail
  /\ afterFail' = FALSE
  /\ UNCHANGED <<updatesSeq, bySeqUpdates, bySeqTimer, requesting, taken,
                 asked, serverVars, net, covered>>

(* getDifferenceAfterFail().                                               *)
FailTimer ==
  /\ afterFail
  /\ Ask
  /\ UNCHANGED <<updatesSeq, taken, serverVars, net, covered>>

(* Mutant: the seq of the lost session stays.                              *)
ReceiveNewSessionOldSeq ==
  /\ Receive("newSession")
  /\ IF requesting
       THEN UNCHANGED <<bySeqUpdates, bySeqTimer, requesting, afterFail, asked>>
       ELSE Ask
  /\ UNCHANGED <<updatesSeq, taken, covered>>

(* mtpNewSessionCreated(), whose getDifference() does nothing when one is  *)
(* awaited already.                                                        *)
ReceiveNewSession ==
  /\ Receive("newSession")
  /\ updatesSeq' = 0
  /\ IF requesting
       THEN UNCHANGED <<bySeqUpdates, bySeqTimer, requesting, afterFail, asked>>
       ELSE Ask
  /\ UNCHANGED <<taken, covered>>

-----------------------------------------------------------------------------
Server ==
  \/ \E span \in 1 .. MaxSpan, via \in Vias : Issue(span, via)
  \/ \E c \in unsent : Send(c)
  \/ \E final \in BOOLEAN : Answer(final)
  \/ AnswerFail
  \/ NewSession

Receives ==
  \/ ReceivePush \/ ReceiveReply \/ ReceiveDifference \/ ReceiveFail
  \/ ReceiveNewSession

Client ==
  \/ Receives
  \/ BySeqTimer \/ FailTimer \/ AskElsewhere

Next == Server \/ Client

Spec == Init /\ [][Next]_vars

(* The timers of the client go off, its event loop delivers, and the       *)
(* server sends what it has and answers; how often it answers with a slice *)
(* or an error is bounded.  Weak fairness of each, written out with the    *)
(* guards that enable these actions.                                       *)
Fairness ==
  /\ []<>(net = <<>>) \/ []<><<Receives>>_vars
  /\ []<>~bySeqTimer \/ []<><<BySeqTimer>>_vars
  /\ []<>~afterFail \/ []<><<FailTimer>>_vars
  /\ []<>(unsent = {}) \/ []<><<\E c \in unsent : Send(c)>>_vars
  /\ []<>(asked = NoRequest) \/ []<><<\E final \in BOOLEAN : Answer(final)>>_vars

FairSpec == Spec /\ Fairness

-----------------------------------------------------------------------------
Containers ==
  [type : Vias, session : 0 .. MaxSessions, first : 1 .. MaxSeq, last : 1 .. MaxSeq]

Messages ==
  Containers
    \cup [type : {"difference"}, session : 0 .. MaxSessions, to : {"state", "difference"},
          seq : 0 .. MaxSeq, final : BOOLEAN, covers : SUBSET Containers]
    \cup [type : {"fail"}, session : 0 .. MaxSessions, to : {"difference"}]
    \cup [type : {"newSession"}, session : 0 .. MaxSessions]

InNet == {net[i] : i \in DOMAIN net}

(* The type invariant of the client's, the server's and the history state. *)
TypeOK ==
  /\ updatesSeq \in 0 .. MaxSeq /\ serverSeq \in 0 .. MaxSeq
  /\ bySeqTimer \in BOOLEAN /\ requesting \in BOOLEAN /\ afterFail \in BOOLEAN
  /\ asked \in {NoRequest, "state", "difference"}
  /\ session \in 0 .. MaxSessions
  /\ issued \subseteq Containers
  /\ bySeqUpdates \subseteq issued /\ taken \subseteq issued
  /\ covered \subseteq issued /\ unsent \subseteq issued
  /\ net \in Seq(Messages)

(* applyUpdates() and setState() feed the containers of a session in order *)
(* and without a hole: what comes before one that is fed was fed, or a     *)
(* difference has made up for it, or one is awaited.                       *)
SeqInOrder ==
  [][\A c \in taken' \ taken, d \in issued' :
        d.session = c.session /\ d.first < c.first
        => d \in taken' \cup covered' \/ requesting]_vars

(* No container is forgotten, whatever is dropped as old, as coming during *)
(* a difference, by clearing the queue, or with a session: it was fed, a   *)
(* difference made up for it, it is saved or still on its way, or there is *)
(* a difference to come that will bring it.                                *)
SeqNothingForgotten ==
  \A c \in issued :
    \/ c \in taken \cup covered \cup bySeqUpdates \cup unsent \cup InNet
    \/ asked /= NoRequest \/ afterFail
    \/ \E m \in InNet : \/ m.type \in {"fail", "newSession"}
                        \/ m.type = "difference" /\ (m.final => c \in m.covers)

(* A saved container is never left to itself: the timer runs, or a         *)
(* difference is awaited.                                                  *)
HeldBackIsWatched == bySeqUpdates /= {} => bySeqTimer \/ requesting

(* Every container is fed in the end, or a difference makes up for it.     *)
AllTakenAtLast == <>[](issued \subseteq taken \cup covered)
=============================================================================
