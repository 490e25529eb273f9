-------------------------- MODULE MtpSessionProofs --------------------------
(***************************************************************************)
(* What is proved about MtpSession, for any number of requests and any     *)
(* troubles: nothing that was answered is sent again, and nothing is sent  *)
(* under an id that waits for an answer.  And no request is forgotten,     *)
(* unless acks come while an error is retried at once.                     *)
(*                                                                         *)
(* A request is in one place at a time, and that rests on what the server  *)
(* may still answer: an answer that was not seen is for the id that the    *)
(* request has now, and never comes once the request is done.              *)
(***************************************************************************)
EXTENDS MtpSession, SequenceTheorems, FiniteSetTheorems, TLAPS

Packets == [id : Nat, ids : SUBSET Nat, states : SUBSET Nat, ping : BOOLEAN]

Messages ==
  [type : {"result"}, id : Nat, error : BOOLEAN]
    \cup [type : {"bad_server_salt", "bad_msg_notification", "fatal"}, id : Nat]
    \cup [type : {"new_session_created"}, first : Nat]
    \cup [type : {"pong"}]
    \cup [type : {"msgs_state_info"}, ids : SUBSET Nat, got : SUBSET Nat]
    \cup [type : {"ack"}, ids : SUBSET Nat]

(* The answers that may still come, as far as the client can tell.         *)
PacketIds(q) == UNION {q[k].ids : k \in DOMAIN q}
ResultIds(q) == {q[k].id : k \in {j \in DOMAIN q : q[j].type = "result"}}
Flying == PacketIds(toServer) \cup ResultIds(toClient) \cup server.got

Types ==
  /\ asked \subseteq Requests /\ callback \subseteq asked
  /\ answered \subseteq asked /\ cancelled \subseteq asked /\ delayed \subseteq asked
  /\ toSend \subseteq asked
  /\ msgId \in [Requests -> 0 .. Last]
  /\ owner \in Seq(Requests \cup {0})
  /\ received \in Seq([request : Requests, error : BOOLEAN])
  /\ main \in [step : {"idle", "toSend", "haveSent", "parser", "restore"},
               request : Requests \cup {0}, id : Nat]
  /\ main.step /= "idle" => main.request \in asked
  /\ hand \in [ids : SUBSET Nat, to : {"nothing", "haveSent", "toSend"}]
  /\ hand.to = "haveSent" => hand.ids /= {}
  /\ started \in BOOLEAN
  /\ toServer \in Seq(Packets) /\ toClient \in Seq(Messages)
  /\ left \in [Happenings -> Nat]

(* Ids that were given: to requests all but those of containers.           *)
Given ==
  /\ haveSent \cup resending \cup acked \cup asking \cup todo \cup hand.ids \cup Flying
       \subseteq 1 .. Last
  /\ \A c \in containers :
       c \in [id : 1 .. Last, messages : SUBSET (1 .. Last)] /\ owner[c.id] = 0
  /\ \A i \in 1 .. Last : owner[i] \in asked \cup {0}
  /\ \A i \in haveSent \cup hand.ids \cup Flying : owner[i] /= 0
  /\ \A k \in DOMAIN received : received[k].request \in asked
  /\ \A r \in Requests : msgId[r] /= 0 => owner[msgId[r]] = r
  /\ ~started => Flying = {} /\ hand.to /= "haveSent"

(* The answer is here, or was.                                             *)
Got(r)  == \E k \in DOMAIN received : received[k].request = r
Once(r) == \A j, k \in DOMAIN received :
             received[j].request = r /\ received[k].request = r => j = k
Done(r) == r \in delayed \cup answered \/ Got(r)

(* In one place only, with what may still come for it.                     *)
OnePlace(r) ==
  /\ r \in toSend => r \notin Owners(haveSent) \cup Owners(hand.ids)
  /\ r \in Owners(haveSent) => r \notin Owners(hand.ids)
  /\ Done(r) => r \notin toSend \cup Owners(haveSent) \cup Owners(hand.ids)
  /\ Got(r) => r \notin delayed \cup answered
  /\ Once(r)
  /\ r \in answered => r \notin delayed
  /\ \A i \in haveSent \cup hand.ids : owner[i] = r => i = msgId[r]
  /\ r \in toSend /\ msgId[r] /= 0 => msgId[r] \in resending
  /\ \A i \in Flying \ seen : owner[i] = r => i = msgId[r] /\ ~Done(r)

(* The inductive invariant.                                                *)
IInv == Types /\ Given /\ \A r \in Requests \ refused : OnePlace(r)

-----------------------------------------------------------------------------
(* Where a request may be that is not forgotten.                           *)
Held(r) ==
  r \in toSend \cup Owners(haveSent) \cup Owners(hand.ids) \cup delayed \/ Got(r)

(* No acks of any kind are there.                                          *)
NoAcks ==
  /\ left.acks = 0 /\ left.checks = 0 /\ asking = {}
  /\ \A k \in DOMAIN toServer : toServer[k].states = {}
  /\ \A k \in DOMAIN toClient : toClient[k].type \notin {"ack", "msgs_state_info"}

KeptInv ==
  /\ \A r \in callback :
       Held(r) \/ (main.step \in {"toSend", "haveSent", "parser"} /\ main.request = r)
  /\ main.step \in {"toSend", "haveSent"} /\ main.id /= 0 =>
       main.id \in 1 .. Last /\ owner[main.id] = main.request
  /\ main.step = "restore" =>
       main.request \in delayed \/ (NoAcks /\ Held(main.request))
  /\ left.retries = 0 \/ NoAcks

(* A scenario with errors that are retried at once is without acks, and    *)
(* without questions about what was sent, whose answers are acks too.      *)
RetriesApart ==
  \A s \in Scenarios : s.retries = 0 \/ (s.acks = 0 /\ s.checks = 0)
-----------------------------------------------------------------------------
(* Sequences: of packets, of messages and of answers.                      *)

(* The first is taken.                                                     *)
LEMMA TailOf ==
  ASSUME NEW S, NEW q \in Seq(S), q /= <<>>
  PROVE  /\ Head(q) = q[1] /\ 1 \in DOMAIN q /\ Head(q) \in S
         /\ Tail(q) \in Seq(S)
         /\ \A i \in DOMAIN Tail(q) :
              i \in Nat \ {0} /\ i + 1 \in DOMAIN q /\ Tail(q)[i] = q[i + 1] /\ Tail(q)[i] \in S
<1>1. Len(q) \in Nat /\ Len(q) >= 1 /\ DOMAIN q = 1 .. Len(q)
  BY EmptySeq, LenProperties
<1>2. /\ Head(q) \in S /\ Head(q) = q[1]
      /\ Tail(q) \in Seq(S) /\ Len(Tail(q)) = Len(q) - 1
      /\ \A i \in 1 .. Len(Tail(q)) : Tail(q)[i] = q[i + 1]
  BY HeadTailProperties
<1>3. DOMAIN Tail(q) = 1 .. Len(q) - 1
  BY <1>2, LenProperties
<1>4. \A i \in DOMAIN q : q[i] \in S
  BY ElementOfSeq, <1>1
<1> QED BY <1>1, <1>2, <1>3, <1>4

(* One is added.                                                           *)
LEMMA AppendOf ==
  ASSUME NEW S, NEW q \in Seq(S), NEW e \in S
  PROVE  /\ Append(q, e) \in Seq(S)
         /\ \A i \in DOMAIN q : i \in DOMAIN Append(q, e) /\ Append(q, e)[i] = q[i]
         /\ \A i \in DOMAIN Append(q, e) \ DOMAIN q : Append(q, e)[i] = e /\ i = Len(q) + 1
         /\ Len(q) + 1 \in DOMAIN Append(q, e) /\ Append(q, e)[Len(q) + 1] = e
<1>1. Len(q) \in Nat /\ DOMAIN q = 1 .. Len(q)
  BY LenProperties
<1>2. /\ Append(q, e) \in Seq(S) /\ Len(Append(q, e)) = Len(q) + 1
      /\ \A i \in 1 .. Len(q) : Append(q, e)[i] = q[i]
      /\ Append(q, e)[Len(q) + 1] = e
  BY AppendProperties
<1>3. DOMAIN Append(q, e) = 1 .. Len(q) + 1
  BY <1>2, LenProperties
<1> QED BY <1>1, <1>2, <1>3

(* Some are added.                                                         *)
LEMMA ConcatOf ==
  ASSUME NEW S, NEW q \in Seq(S), NEW p \in Seq(S)
  PROVE  /\ q \o p \in Seq(S) /\ Len(q \o p) = Len(q) + Len(p)
         /\ \A i \in DOMAIN q : i \in DOMAIN (q \o p) /\ (q \o p)[i] = q[i]
         /\ \A i \in DOMAIN (q \o p) \ DOMAIN q :
              i - Len(q) \in DOMAIN p /\ (q \o p)[i] = p[i - Len(q)]
         /\ \A j \in DOMAIN p : (q \o p)[Len(q) + j] = p[j]
<1>1. Len(q) \in Nat /\ DOMAIN q = 1 .. Len(q) /\ Len(p) \in Nat /\ DOMAIN p = 1 .. Len(p)
  BY LenProperties
<1>2. /\ q \o p \in Seq(S) /\ Len(q \o p) = Len(q) + Len(p)
      /\ \A i \in 1 .. Len(q) + Len(p) :
           (q \o p)[i] = IF i <= Len(q) THEN q[i] ELSE p[i - Len(q)]
  BY ConcatProperties
<1>3. DOMAIN (q \o p) = 1 .. Len(q) + Len(p)
  BY <1>2, LenProperties
<1> QED BY <1>1, <1>2, <1>3

(* A sequence of certain elements.                                         *)
LEMMA SeqOf ==
  ASSUME NEW S, NEW T, NEW q \in Seq(T), \A i \in 1 .. Len(q) : q[i] \in S
  PROVE  q \in Seq(S)
<1>1. Len(q) \in Nat /\ q \in [1 .. Len(q) -> T]
  BY LenProperties
<1>2. q \in [1 .. Len(q) -> S]
  BY <1>1
<1> QED BY <1>1, <1>2, SeqDef

(* The ids of the rest.                                                    *)
LEMMA TailIds ==
  ASSUME NEW S, NEW q \in Seq(S), q /= <<>>
  PROVE  /\ PacketIds(Tail(q)) \subseteq PacketIds(q) /\ Head(q).ids \subseteq PacketIds(q)
         /\ ResultIds(Tail(q)) \subseteq ResultIds(q)
         /\ Head(q).type = "result" => Head(q).id \in ResultIds(q)
<1>1. /\ Head(q) = q[1] /\ 1 \in DOMAIN q
      /\ \A i \in DOMAIN Tail(q) : i + 1 \in DOMAIN q /\ Tail(q)[i] = q[i + 1]
  BY TailOf
<1> QED BY <1>1 DEF PacketIds, ResultIds

(* The ids with one more.                                                  *)
LEMMA AppendIds ==
  ASSUME NEW S, NEW q \in Seq(S), NEW e \in S
  PROVE  /\ PacketIds(Append(q, e)) = PacketIds(q) \cup e.ids
         /\ ResultIds(Append(q, e)) \subseteq ResultIds(q) \cup {e.id}
         /\ e.type /= "result" => ResultIds(Append(q, e)) = ResultIds(q)
<1>1. /\ \A i \in DOMAIN q : i \in DOMAIN Append(q, e) /\ Append(q, e)[i] = q[i]
      /\ \A i \in DOMAIN Append(q, e) \ DOMAIN q : Append(q, e)[i] = e
      /\ Len(q) + 1 \in DOMAIN Append(q, e) /\ Append(q, e)[Len(q) + 1] = e
  BY AppendOf
<1> QED BY <1>1 DEF PacketIds, ResultIds

(* The ids with some more, that are not results.                           *)
LEMMA ConcatIds ==
  ASSUME NEW S, NEW q \in Seq(S), NEW p \in Seq(S), \A j \in DOMAIN p : p[j].type /= "result"
  PROVE  ResultIds(q \o p) = ResultIds(q)
<1>1. /\ \A i \in DOMAIN q : i \in DOMAIN (q \o p) /\ (q \o p)[i] = q[i]
      /\ \A i \in DOMAIN (q \o p) \ DOMAIN q :
           i - Len(q) \in DOMAIN p /\ (q \o p)[i] = p[i - Len(q)]
  BY ConcatOf
<1> QED BY <1>1 DEF ResultIds

(* No ids in nothing.                                                      *)
LEMMA EmptyIds == PacketIds(<<>>) = {} /\ ResultIds(<<>>) = {}
BY DEF PacketIds, ResultIds

(* A set of ids has a least one.                                           *)
LEMMA LeastId ==
  ASSUME NEW T, T \subseteq Nat, T /= {}
  PROVE  (CHOOSE i \in T : \A j \in T : i <= j) \in T
<1>1. \E i \in T : \A j \in T : ~(<<j, i>> \in OpToRel(<, Nat))
  BY WFMin, NatLessThanWellFounded
<1>2. PICK i \in T : \A j \in T : ~(<<j, i>> \in OpToRel(<, Nat))
  BY <1>1
<1>3. \A j \in T : ~(j < i)
  BY <1>2 DEF OpToRel
<1>4. \E k \in T : \A j \in T : k <= j
  BY <1>3
<1> QED BY <1>4

-----------------------------------------------------------------------------
(* The numbers of new messages in a container.                             *)

(* The ranks in a finite set of n numbers are 1 to n.                      *)
LEMMA Ranks ==
  ASSUME NEW F, IsFiniteSet(F), F \subseteq Nat
  PROVE  /\ Cardinality(F) \in Nat
         /\ \A r \in F : Cardinality({q \in F : q <= r}) \in 1 .. Cardinality(F)
         /\ \A r, s \in F :
              Cardinality({q \in F : q <= r}) = Cardinality({q \in F : q <= s}) => r = s
         /\ \A i \in 1 .. Cardinality(F) : \E r \in F : Cardinality({q \in F : q <= r}) = i
<1> DEFINE Upto(r) == {q \in F : q <= r}
           f == [r \in F |-> Cardinality(Upto(r))]
<1>1. \A r \in F : Upto(r) \subseteq F /\ r \in Upto(r)
  OBVIOUS
<1>2. Cardinality(F) \in Nat
  BY FS_CardinalityType
<1>3. ASSUME NEW r \in F
      PROVE  IsFiniteSet(Upto(r)) /\ Cardinality(Upto(r)) \in 1 .. Cardinality(F)
  <2>1. Upto(r) \in SUBSET F
    BY <1>1
  <2> HIDE DEF Upto
  <2>2. IsFiniteSet(Upto(r)) /\ Cardinality(Upto(r)) <= Cardinality(F)
    BY <2>1, FS_Subset
  <2>3. Cardinality(Upto(r)) \in Nat
    BY <2>2, FS_CardinalityType
  <2>4. Cardinality(Upto(r)) /= 0
    BY <2>2, <1>1, FS_EmptySet
  <2> QED BY <2>2, <2>3, <2>4, <1>2
<1>4. ASSUME NEW r \in F, NEW s \in F, r < s
      PROVE  Cardinality(Upto(r)) /= Cardinality(Upto(s))
  <2>1. r \in Nat /\ s \in Nat /\ \A q \in F : q \in Nat
    OBVIOUS
  <2>2. r < s /\ ~(s <= r) /\ s <= s /\ \A q \in F : q <= r => q <= s
    BY <1>4, <2>1
  <2>3. Upto(r) \subseteq Upto(s) /\ s \in Upto(s) /\ s \notin Upto(r)
    BY <2>2, Zenon
  <2> HIDE DEF Upto
  <2>4. Upto(r) /= Upto(s)
    BY <2>3
  <2>5. IsFiniteSet(Upto(s))
    BY <1>3
  <2>6. Cardinality(Upto(s)) = Cardinality(Upto(r)) => Upto(s) = Upto(r)
    BY <2>3, <2>5, FS_Subset
  <2> QED BY <2>4, <2>6
<1>5. \A r, s \in F : Cardinality(Upto(r)) = Cardinality(Upto(s)) => r = s
  <2> HIDE DEF Upto
  <2> QED BY <1>4
<1>6. \A i \in 1 .. Cardinality(F) : \E r \in F : Cardinality(Upto(r)) = i
  <2> HIDE DEF Upto
  <2> DEFINE n == Cardinality(F)
  <2>1. f \in [F -> 1 .. n]
    BY <1>3
  <2>2. \A r, s \in F : f[r] = f[s] => r = s
    BY <1>5
  <2>3. IsFiniteSet(1 .. n) /\ Cardinality(1 .. n) = n
    <3>1. n \in Nat
      BY <1>2
    <3> HIDE DEF n
    <3>2. IsFiniteSet(1 .. n) /\ Cardinality(1 .. n) = IF 1 > n THEN 0 ELSE n - 1 + 1
      BY <3>1, FS_Interval
    <3> QED BY <3>1, <3>2
  <2> HIDE DEF f
  <2>4. f \in Injection(F, 1 .. n)
    BY <2>1, <2>2 DEF Injection, IsInjective
  <2>5. f \in Surjection(F, 1 .. n)
    <3> DEFINE T == 1 .. n
    <3>1. f \in Injection(F, T) /\ IsFiniteSet(T) /\ Cardinality(F) = Cardinality(T)
      BY <2>3, <2>4
    <3> HIDE DEF T
    <3>2. f \in Surjection(F, T)
      BY <3>1, FS_Injection
    <3> QED BY <3>2 DEF T
  <2>6. \A i \in 1 .. n : \E r \in F : f[r] = i
    BY <2>5 DEF Surjection
  <2> QED BY <2>6 DEF f
<1> QED BY <1>2, <1>3, <1>5, <1>6
(* What is to be sent is known, and owns the id in its bytes.              *)
LEMMA BatchOf ==
  ASSUME IInv, NEW batch, batch \subseteq toSend
  PROVE  /\ Last \in Nat /\ batch \subseteq Requests /\ batch \subseteq asked
         /\ Requests \subseteq Nat \ {0} /\ IsFiniteSet(Fresh(batch))
         /\ Fresh(batch) \subseteq batch
         /\ \A r \in Requests : msgId[r] \in 0 .. Last /\ (msgId[r] /= 0 => owner[msgId[r]] = r)
<1>1. Last \in Nat
  BY LenProperties DEF IInv, Types, Last
<1>2. batch \subseteq asked /\ asked \subseteq Requests
  BY DEF IInv, Types
<1>3. IsFiniteSet(Fresh(batch))
  <2>1. Fresh(batch) \in SUBSET Requests
    BY <1>2 DEF Fresh
  <2> QED BY <2>1, SessionAssumption, FS_Subset
<1> QED BY <1>1, <1>2, <1>3, SessionAssumption DEF IInv, Types, Given, Fresh

(* prepareToSend() gives the new ids one after another.                    *)
LEMMA NewIds ==
  ASSUME IInv, NEW batch, batch \subseteq toSend
  PROVE  /\ Cardinality(Fresh(batch)) \in Nat
         /\ \A r \in Fresh(batch) : NewId(batch, r) \in Last + 1 .. Last + Cardinality(Fresh(batch))
         /\ \A r, s \in Fresh(batch) : NewId(batch, r) = NewId(batch, s) => r = s
         /\ \A i \in 1 .. Cardinality(Fresh(batch)) :
              \E r \in Fresh(batch) : NewId(batch, r) = Last + i
         /\ \A r \in batch \ Fresh(batch) :
              NewId(batch, r) = msgId[r] /\ msgId[r] \in 1 .. Last /\ owner[msgId[r]] = r
<1> DEFINE F == Fresh(batch)
           rank(r) == Cardinality({q \in F : q <= r})
<1>1. /\ Last \in Nat /\ batch \subseteq Requests /\ IsFiniteSet(F) /\ F \subseteq Nat
      /\ \A r \in Requests : msgId[r] \in 0 .. Last /\ (msgId[r] /= 0 => owner[msgId[r]] = r)
  BY BatchOf
<1>2. \A r \in batch \ F : msgId[r] /= 0
  BY DEF Fresh
<1>3. \A r \in F : NewId(batch, r) = Last + rank(r)
  BY DEF NewId
<1>4. \A r \in batch \ F : NewId(batch, r) = msgId[r]
  BY DEF NewId
<1> HIDE DEF F
<1>5. /\ Cardinality(F) \in Nat
      /\ \A r \in F : rank(r) \in 1 .. Cardinality(F)
      /\ \A r, s \in F : rank(r) = rank(s) => r = s
      /\ \A i \in 1 .. Cardinality(F) : \E r \in F : rank(r) = i
  BY <1>1, Ranks
<1> HIDE DEF rank
<1>6. /\ \A r \in F : NewId(batch, r) \in Last + 1 .. Last + Cardinality(F)
      /\ \A r, s \in F : NewId(batch, r) = NewId(batch, s) => r = s
      /\ \A i \in 1 .. Cardinality(F) : \E r \in F : NewId(batch, r) = Last + i
  BY <1>1, <1>3, <1>5
<1>7. \A r \in batch \ F : msgId[r] \in 1 .. Last /\ owner[msgId[r]] = r
  BY <1>1, <1>2
<1> QED BY <1>4, <1>5, <1>6, <1>7 DEF F

(* What replaceMsgId() makes of an id.                                     *)
NewName(batch, i) ==
  IF owner[i] \in Fresh(batch) /\ msgId[owner[i]] = i THEN NewId(batch, owner[i]) ELSE i

(* It renames an id when its request gets a new one.                       *)
LEMMA RenamedOf ==
  ASSUME IInv, NEW batch, batch \subseteq toSend, NEW ids, ids \subseteq 1 .. Last
  PROVE  Renamed(batch, ids) = {NewName(batch, i) : i \in ids}
<1>1. \A r \in Fresh(batch) : msgId[r] /= 0 => owner[msgId[r]] = r
  BY BatchOf
<1>2. \A i \in ids : i /= 0
  BY BatchOf
<1>3. ASSUME NEW i \in ids, NEW r \in Fresh(batch), msgId[r] = i
      PROVE  r = owner[i] /\ (CHOOSE q \in Fresh(batch) : msgId[q] = i) = r
  <2>1. \A q \in Fresh(batch) : msgId[q] = i => q = owner[i]
    BY <1>1, <1>2
  <2> QED BY <1>3, <2>1
<1>4. ASSUME NEW i \in ids
      PROVE  (IF \E r \in Fresh(batch) : msgId[r] = i
                THEN NewId(batch, CHOOSE r \in Fresh(batch) : msgId[r] = i) ELSE i)
               = NewName(batch, i)
  <2>1. CASE \E r \in Fresh(batch) : msgId[r] = i
    <3>1. PICK r \in Fresh(batch) : msgId[r] = i
      BY <2>1
    <3>2. r = owner[i] /\ (CHOOSE q \in Fresh(batch) : msgId[q] = i) = r
      BY <3>1, <1>3
    <3> QED BY <2>1, <3>1, <3>2 DEF NewName
  <2>2. CASE ~ \E r \in Fresh(batch) : msgId[r] = i
    BY <2>2 DEF NewName
  <2> QED BY <2>1, <2>2
<1> QED BY <1>4 DEF Renamed

(* What owner becomes when the batch goes in a container.                  *)
Owned(batch) ==
  LET count   == Cardinality(Fresh(batch))
      next(i) == CHOOSE r \in Fresh(batch) : NewId(batch, r) = Last + i
  IN  owner \o [i \in 1 .. count |-> next(i)] \o <<0>>

(* New messages are added for the requests that get ids, and a container.  *)
LEMMA OwnedOf ==
  ASSUME IInv, NEW batch, batch \subseteq toSend
  PROVE  /\ Owned(batch) \in Seq(Requests \cup {0})
         /\ \A i \in 1 .. Len(Owned(batch)) : Owned(batch)[i] \in asked \cup {0}
         /\ Len(Owned(batch)) = Last + Cardinality(Fresh(batch)) + 1
         /\ \A i \in 1 .. Last : Owned(batch)[i] = owner[i]
         /\ \A r \in Fresh(batch) : Owned(batch)[NewId(batch, r)] = r
         /\ Owned(batch)[Last + Cardinality(Fresh(batch)) + 1] = 0
<1> DEFINE n == Cardinality(Fresh(batch))
           new == [i \in 1 .. n |-> CHOOSE r \in Fresh(batch) : NewId(batch, r) = Last + i]
           S == asked \cup {0}
<1>1. /\ n \in Nat /\ Last \in Nat /\ Fresh(batch) \subseteq asked
      /\ \A r \in Fresh(batch) : NewId(batch, r) \in Last + 1 .. Last + n
      /\ \A r, s \in Fresh(batch) : NewId(batch, r) = NewId(batch, s) => r = s
      /\ \A i \in 1 .. n : \E r \in Fresh(batch) : NewId(batch, r) = Last + i
  BY BatchOf, NewIds
<1> HIDE DEF n
<1>2. ASSUME NEW i \in 1 .. n
      PROVE  new[i] \in Fresh(batch) /\ NewId(batch, new[i]) = Last + i
  BY <1>1
<1>3. \A r \in Fresh(batch) : NewId(batch, r) - Last \in 1 .. n /\ new[NewId(batch, r) - Last] = r
  <2> SUFFICES ASSUME NEW r \in Fresh(batch)
               PROVE  NewId(batch, r) - Last \in 1 .. n /\ new[NewId(batch, r) - Last] = r
    OBVIOUS
  <2>1. NewId(batch, r) - Last \in 1 .. n /\ Last + (NewId(batch, r) - Last) = NewId(batch, r)
    BY <1>1
  <2> HIDE DEF new
  <2>2. NewId(batch, new[NewId(batch, r) - Last]) = NewId(batch, r)
    BY <1>2, <2>1
  <2> QED BY <1>1, <1>2, <2>1, <2>2
<1>4. new \in [1 .. n -> S]
  BY <1>1, <1>2
<1>5. new \in Seq(S) /\ Len(new) = n
  BY <1>1, <1>4, IsASeq, LenProperties
<1>6. owner \in Seq(S)
  BY SeqOf DEF IInv, Types, Given, Last
<1>7. Owned(batch) = owner \o new \o <<0>>
  BY DEF Owned, n
<1> HIDE DEF new
<1>8. <<0>> \in Seq(S) /\ Len(<<0>>) = 1 /\ <<0>>[1] = 0
  OBVIOUS
<1>9. /\ owner \o new \in Seq(S) /\ Len(owner \o new) = Last + n
      /\ \A i \in 1 .. Last : i \in 1 .. Last + n /\ (owner \o new)[i] = owner[i]
      /\ \A j \in 1 .. n : Last + j \in 1 .. Last + n /\ (owner \o new)[Last + j] = new[j]
  <2>1. Len(owner) = Last
    BY DEF Last
  <2>2. /\ owner \o new \in Seq(S) /\ Len(owner \o new) = Len(owner) + Len(new)
        /\ \A i \in 1 .. Len(owner) + Len(new) :
             (owner \o new)[i] = IF i <= Len(owner) THEN owner[i] ELSE new[i - Len(owner)]
    BY <1>5, <1>6, ConcatProperties
  <2> HIDE DEF S
  <2>3. \A j \in 1 .. n : Last + j \in 1 .. Last + n /\ (Last + j) - Last = j
                          /\ ~(Last + j <= Last)
    BY <1>1
  <2>4. \A i \in 1 .. Last : i \in 1 .. Last + n /\ i <= Last
    BY <1>1
  <2> QED BY <1>5, <2>1, <2>2, <2>3, <2>4
<1>10. /\ Owned(batch) \in Seq(S) /\ Len(Owned(batch)) = Last + n + 1
       /\ \A i \in 1 .. Last + n : Owned(batch)[i] = (owner \o new)[i]
       /\ Owned(batch)[Last + n + 1] = 0
  <2> DEFINE long == owner \o new
  <2>1. long \in Seq(S) /\ Len(long) = Last + n
    BY <1>9
  <2> HIDE DEF long
  <2>2. /\ long \o <<0>> \in Seq(S) /\ Len(long \o <<0>>) = Len(long) + Len(<<0>>)
        /\ \A i \in 1 .. Len(long) + Len(<<0>>) :
             (long \o <<0>>)[i] = IF i <= Len(long) THEN long[i] ELSE <<0>>[i - Len(long)]
    BY <1>8, <2>1, ConcatProperties
  <2>3. Owned(batch) = long \o <<0>>
    BY <1>7 DEF long
  <2>4. Last + n + 1 \in 1 .. Last + n + 1 /\ ~(Last + n + 1 <= Last + n)
        /\ (Last + n + 1) - (Last + n) = 1
        /\ \A i \in 1 .. Last + n : i \in 1 .. Last + n + 1 /\ i <= Last + n
    BY <1>1
  <2>5. Owned(batch) \in Seq(S) /\ Len(Owned(batch)) = Last + n + 1
    BY <1>8, <2>1, <2>2, <2>3
  <2>6. \A i \in 1 .. Last + n : Owned(batch)[i] = long[i]
    BY <1>8, <2>1, <2>2, <2>3, <2>4
  <2>7. Owned(batch)[Last + n + 1] = 0
    BY <1>8, <2>1, <2>2, <2>3, <2>4
  <2> QED BY <2>5, <2>6, <2>7 DEF long
<1>11. \A r \in Fresh(batch) : Owned(batch)[NewId(batch, r)] = r
  <2> SUFFICES ASSUME NEW r \in Fresh(batch)
               PROVE  Owned(batch)[NewId(batch, r)] = r
    OBVIOUS
  <2> DEFINE j == NewId(batch, r) - Last
  <2>1. j \in 1 .. n /\ new[j] = r /\ Last + j = NewId(batch, r)
    BY <1>1, <1>3
  <2> QED BY <1>9, <1>10, <2>1
<1>12. \A i \in 1 .. Len(Owned(batch)) : Owned(batch)[i] \in S
  BY <1>10, ElementOfSeq
<1>13. Owned(batch) \in Seq(Requests \cup {0})
  <2>1. asked \subseteq Requests
    BY DEF IInv, Types
  <2>2. \A i \in 1 .. Len(Owned(batch)) : Owned(batch)[i] \in Requests \cup {0}
    BY <1>12, <2>1
  <2> QED BY <1>10, <2>2, SeqOf
<1> QED BY <1>9, <1>10, <1>11, <1>12, <1>13 DEF n

-----------------------------------------------------------------------------
(* The types.                                                              *)
USE DEF vars, mainVars, sharedVars, restVars, privateVars, threadVars, netVars

(* What UseAll() leaves.                                                   *)
LEMMA UseType ==
  ASSUME left \in [Happenings -> Nat], NEW whats, whats \subseteq Happenings, UseAll(whats)
  PROVE  left' \in [Happenings -> Nat]
<1>1. \A what \in Happenings : left[what] - (IF what \in whats THEN 1 ELSE 0) \in Nat
  BY DEF UseAll
<1> QED BY <1>1 DEF UseAll

(* Nothing happens.                                                        *)
LEMMA TypesInit == Init => Types
<1> SUFFICES ASSUME Init PROVE Types
  OBVIOUS
<1>1. <<>> \in Seq(Requests \cup {0}) /\ <<>> \in Seq([request : Requests, error : BOOLEAN])
      /\ <<>> \in Seq(Packets) /\ <<>> \in Seq(Messages) /\ Len(<<>>) = 0
  OBVIOUS
<1>2. left \in [Happenings -> Nat]
  BY SessionAssumption DEF Init
<1>3. main \in [step : {"idle", "toSend", "haveSent", "parser", "restore"},
               request : Requests \cup {0}, id : Nat] /\ main.step = "idle"
  BY DEF Init, IdleMain
<1>4. hand \in [ids : SUBSET Nat, to : {"nothing", "haveSent", "toSend"}] /\ hand.to = "nothing"
  BY DEF Init, EmptyHand
<1>5. msgId \in [Requests -> 0 .. Last]
  BY <1>1 DEF Init, Last
<1> QED BY <1>1, <1>2, <1>3, <1>4, <1>5 DEF Init, Types

(* The main thread.                                                        *)
LEMMA TypesMain ==
  ASSUME IInv,
         \/ MainStep
         \/ \E r \in Requests : Send(r) \/ CancelBegin(r)
  PROVE  Types'
<1>1. Types /\ Requests \subseteq Nat \ {0} /\ Last \in Nat
  BY SessionAssumption, LenProperties DEF IInv, Types, Last
<1>2. ASSUME NEW r \in Requests, Send(r) PROVE Types'
  <2>1. left' \in [Happenings -> Nat]
    BY <1>1, <1>2, UseType DEF Send, Types, Use, Happenings
  <2> QED BY <1>1, <1>2, <2>1, SMTT(60) DEF Send, sendPrepared, Types, Last
<1>3. ASSUME NEW r \in Requests, CancelBegin(r) PROVE Types'
  <2>1. left' \in [Happenings -> Nat]
    BY <1>1, <1>3, UseType DEF CancelBegin, Types, Use, Happenings
  <2> QED BY <1>1, <1>3, <2>1, SMTT(60) DEF CancelBegin, Types, Last
<1>4. CASE CancelToSend
  BY <1>1, <1>4 DEF CancelToSend, Types, Last
<1>5. CASE CancelHaveSent
  BY <1>1, <1>5 DEF CancelHaveSent, Types, Last
<1>6. CASE CancelCallback
  BY <1>1, <1>6 DEF CancelCallback, Types, Last, IdleMain
<1>7. CASE HandleResponse
  <2>1. /\ Head(received) \in [request : Requests, error : BOOLEAN]
        /\ Tail(received) \in Seq([request : Requests, error : BOOLEAN])
    BY <1>1, <1>7, TailOf DEF HandleResponse, Types
  <2> DEFINE r == Head(received).request
  <2>2. r \in Requests
    BY <2>1
  <2>3. CASE r \notin callback
    BY <1>1, <1>7, <2>1, <2>3 DEF HandleResponse, Types, Last
  <2>4. CASE r \in callback /\ ~Head(received).error
    BY <1>1, <1>7, <2>1, <2>4 DEF HandleResponse, Types, Last
  <2>5. CASE r \in callback /\ Head(received).error
    <3>1. r \in asked
      BY <1>1, <2>5 DEF Types
    <3>2. main' = [step |-> "restore", request |-> r, id |-> 0] /\ owner' = owner
      BY <1>7, <2>5 DEF HandleResponse
    <3>3. /\ main' \in [step : {"idle", "toSend", "haveSent", "parser", "restore"},
                        request : Requests \cup {0}, id : Nat]
          /\ main'.request \in asked
      BY <2>2, <3>1, <3>2
    <3>4. toSend' \subseteq asked /\ delayed' \subseteq asked /\ callback' \subseteq asked
      BY <1>1, <1>7, <2>5, <3>1 DEF HandleResponse, sendPrepared, Types
    <3>5. msgId' \in [Requests -> 0 .. Last]
      BY <1>1, <1>7, <2>2, <2>5 DEF HandleResponse, sendPrepared, Types
    <3> QED BY <1>1, <1>7, <2>1, <2>5, <3>2, <3>3, <3>4, <3>5 DEF HandleResponse, Types, Last
  <2> QED BY <2>3, <2>4, <2>5
<1>8. CASE Restore
  BY <1>1, <1>8 DEF Restore, Types, Last, IdleMain
<1>9. ASSUME NEW r \in Requests, checkDelayedRequests(r) PROVE Types'
  BY <1>1, <1>9, SMTT(60) DEF checkDelayedRequests, sendPrepared, Types, Last
<1> QED BY <1>2, <1>3, <1>4, <1>5, <1>6, <1>7, <1>8, <1>9 DEF MainStep

(* The session's thread, sending and putting back.                         *)
LEMMA TypesThread ==
  ASSUME IInv,
         \/ Sending \/ Ping \/ Resending \/ CheckSent \/ Connect \/ Lose
         \/ \E c \in containers : clearOldContainers(c)
  PROVE  Types'
<1>1. Types /\ Requests \subseteq Nat \ {0} /\ Last \in Nat
      /\ haveSent \cup hand.ids \cup asking \subseteq 1 .. Last
      /\ Owners(hand.ids) \subseteq asked
  BY SessionAssumption, LenProperties, SMTT(60) DEF IInv, Types, Last, Given, Owners
<1>2. CASE TryToSendNothing
  BY <1>1, <1>2 DEF TryToSendNothing, Types, Last
<1>3. CASE PutHaveSent
  <2> DEFINE p == Packet(CHOOSE i \in hand.ids : TRUE, hand.ids, {}, FALSE)
  <2>1. p \in Packets
    <3>1. hand.ids /= {} /\ hand.ids \subseteq Nat
      BY <1>1, <1>3 DEF PutHaveSent, Types
    <3>2. (CHOOSE i \in hand.ids : TRUE) \in Nat
      BY <3>1
    <3> QED BY <3>1, <3>2 DEF Packet, Packets
  <2>2. toServer' \in Seq(Packets)
    <3>1. toServer' = Append(toServer, p) /\ toServer \in Seq(Packets)
      BY <1>1, <1>3 DEF PutHaveSent, Types
    <3> HIDE DEF p
    <3> QED BY <2>1, <3>1, AppendOf
  <2> QED BY <1>1, <1>3, <2>2 DEF PutHaveSent, Types, Last, EmptyHand
<1>4. ASSUME NEW r \in Requests, TryToSendSingle(r) PROVE Types'
  BY <1>1, <1>4 DEF TryToSendSingle, Types, Last
<1>5. ASSUME NEW batch \in SUBSET toSend, TryToSendContainer(batch) PROVE Types'
  <2> DEFINE ids == {NewId(batch, r) : r \in batch}
             id == IF batch = {} THEN 0 ELSE Last + Cardinality(Fresh(batch)) + 1
  <2>1. /\ Owned(batch) \in Seq(Requests \cup {0})
        /\ Len(Owned(batch)) = Last + Cardinality(Fresh(batch)) + 1
        /\ Cardinality(Fresh(batch)) \in Nat
    BY OwnedOf, NewIds
  <2>2. owner' = IF batch = {} THEN owner ELSE Owned(batch)
    BY <1>5 DEF TryToSendContainer, Owned
  <2>3. owner' \in Seq(Requests \cup {0}) /\ Last' \in Nat /\ Last <= Last'
        /\ (batch /= {} => Last' = Last + Cardinality(Fresh(batch)) + 1)
    <3>1. CASE batch = {}
      BY <1>1, <2>2, <3>1 DEF Types, Last
    <3>2. CASE batch /= {}
      <4>1. owner' = Owned(batch)
        BY <2>2, <3>2
      <4>2. Last' = Last + Cardinality(Fresh(batch)) + 1
        BY <2>1, <4>1 DEF Last
      <4> QED BY <1>1, <2>1, <4>1, <4>2
    <3> QED BY <3>1, <3>2
  <2>4. \A r \in batch : NewId(batch, r) \in 1 .. Last'
    <3> SUFFICES ASSUME NEW r \in batch PROVE NewId(batch, r) \in 1 .. Last'
      OBVIOUS
    <3>1. CASE r \in Fresh(batch)
      BY <1>1, <2>1, <2>3, <3>1, NewIds
    <3>2. CASE r \notin Fresh(batch)
      <4>1. NewId(batch, r) \in 1 .. Last
        BY <3>2, NewIds
      <4> QED BY <1>1, <2>3, <4>1
    <3> QED BY <3>1, <3>2
  <2>5. msgId' \in [Requests -> 0 .. Last']
    <3>1. msgId' = [r \in Requests |-> IF r \in batch THEN NewId(batch, r) ELSE msgId[r]]
      BY <1>5 DEF TryToSendContainer
    <3>2. \A r \in Requests : msgId[r] \in 0 .. Last'
      BY <1>1, <2>3 DEF Types
    <3> QED BY <2>3, <2>4, <3>1, <3>2
  <2>6. ids \in SUBSET Nat /\ id \in Nat /\ asking \in SUBSET Nat
    BY <1>1, <2>1, <2>3, <2>4
  <2> HIDE DEF ids, id
  <2>7. Packet(id, ids, asking, FALSE) \in Packets
    BY <2>6 DEF Packet, Packets
  <2>8. toServer' = Append(toServer, Packet(id, ids, asking, FALSE))
    BY <1>5 DEF TryToSendContainer, ids, id
  <2>9. toServer' \in Seq(Packets)
    BY <1>1, <2>7, <2>8, AppendOf DEF Types
  <2>10. UNCHANGED <<asked, callback, answered, cancelled, delayed, received, main, hand,
                    toClient, left>> /\ toSend' \subseteq toSend /\ started' = TRUE
    BY <1>5 DEF TryToSendContainer
  <2> QED BY <1>1, <2>3, <2>5, <2>9, <2>10 DEF Types
<1>6. CASE Ping
  <2>1. Packet(0, {}, {}, TRUE) \in Packets
    BY DEF Packet, Packets
  <2>2. toServer' \in Seq(Packets)
    BY <1>1, <1>6, <2>1, AppendOf DEF Ping, Types
  <2> QED BY <1>1, <1>6, <2>2 DEF Ping, Types, Last
<1>7. CASE PutToSend
  BY <1>1, <1>7 DEF PutToSend, Types, Last, EmptyHand
<1>8. ASSUME NEW i \in todo, TakeHaveSent(i) PROVE Types'
  BY <1>1, <1>8 DEF TakeHaveSent, Types, Last, EmptyHand
<1>9. CASE CheckSent
  BY <1>1, <1>9 DEF CheckSent, checkSentRequests, Types, Last
<1>10. CASE Connect
  BY <1>1, <1>10, SMTT(60) DEF Connect, Types, Last, EmptyHand
<1>11. CASE Lose
  <2>1. left' \in [Happenings -> Nat]
    BY <1>1, <1>11, UseType DEF Lose, Types, Use, Happenings
  <2> QED BY <1>1, <1>11, <2>1 DEF Lose, Disconnect, Types, Last
<1>12. ASSUME NEW c \in containers, clearOldContainers(c) PROVE Types'
  <2>1. left' \in [Happenings -> Nat]
    BY <1>1, <1>12, UseType DEF clearOldContainers, Types, Use, Happenings
  <2> QED BY <1>1, <1>12, <2>1 DEF clearOldContainers, Types, Last
<1> QED BY <1>2, <1>3, <1>4, <1>5, <1>6, <1>7, <1>8, <1>9, <1>10, <1>11, <1>12
        DEF Sending, Resending

(* requestsAcked() only takes away, and what it takes from resending is    *)
(* not to be sent.  Without an answer, it leaves those that wait for one.  *)
LEMMA AckedOf ==
  ASSUME NEW ids, NEW byResponse \in BOOLEAN, requestsAcked(ids, byResponse)
  PROVE  /\ toSend' \subseteq toSend /\ haveSent' \subseteq haveSent
         /\ resending' \subseteq resending /\ containers' \subseteq containers
         /\ acked' \subseteq acked \cup haveSent \cup resending
         /\ \A i \in resending \ resending' : owner[i] \notin toSend'
         /\ ~byResponse =>
              /\ \A i \in haveSent \ haveSent' : owner[i] \notin callback
              /\ \A r \in toSend \ toSend' : r \notin callback
         /\ \A i \in haveSent \ haveSent' : i \in ids \cup Inner(ids)
         /\ \A r \in toSend \ toSend' : r \in Owners(ids \cup Inner(ids))
         /\ byResponse => \A i \in ids :
              i \notin haveSent' /\ (i \in resending \ haveSent => owner[i] \notin toSend')
BY DEF requestsAcked, Without, Owners

(* What comes from the server.                                             *)
LEMMA TypesReceiving ==
  ASSUME IInv, Receiving
  PROVE  Types'
<1>1. Types /\ Given /\ Last \in Nat
  BY LenProperties DEF IInv, Types, Last
<1>2. \A type : Incoming(type) =>
        /\ Tail(toClient) \in Seq(Messages) /\ Head(toClient) \in Messages
        /\ Head(toClient).type = type
        /\ type = "result" => Head(toClient).id \in Flying
  BY <1>1, TailOf, TailIds DEF Types, Incoming, Flying
<1>3. CASE ReceiveResult
  <2> DEFINE m == Head(toClient)
  <2>1. m \in Messages /\ m.type = "result" /\ m.id \in Flying /\ Tail(toClient) \in Seq(Messages)
    BY <1>2, <1>3 DEF ReceiveResult
  <2>2. m.error \in BOOLEAN /\ m.id \in 1 .. Last
    BY <1>1, <2>1 DEF Messages, Given
  <2>3. owner[m.id] \in Requests
    BY <1>1, <2>1, <2>2 DEF Given, Types
  <2> HIDE DEF m
  <2>4. [request |-> owner[m.id], error |-> m.error] \in [request : Requests, error : BOOLEAN]
    BY <2>2, <2>3
  <2>5. Append(received, [request |-> owner[m.id], error |-> m.error])
          \in Seq([request : Requests, error : BOOLEAN])
    BY <1>1, <2>4, AppendOf DEF Types
  <2>6. received' \in Seq([request : Requests, error : BOOLEAN])
    BY <1>1, <1>3, <2>5 DEF ReceiveResult, Types, m
  <2>7. toSend' \subseteq toSend
    BY <1>3, AckedOf DEF ReceiveResult
  <2>8. UNCHANGED <<asked, answered, cancelled, callback, delayed, main, msgId, started, owner, hand,
                   toServer, left>> /\ toClient' = Tail(toClient)
    BY <1>3 DEF ReceiveResult
  <2> QED BY <1>1, <2>1, <2>6, <2>7, <2>8 DEF Types, Last
<1>4. CASE ReceiveAck
  <2>1. toSend' \subseteq toSend
    BY <1>4, AckedOf DEF ReceiveAck
  <2>2. toClient' \in Seq(Messages)
    BY <1>2, <1>4 DEF ReceiveAck
  <2> QED BY <1>1, <1>4, <2>1, <2>2 DEF ReceiveAck, Types, Last
<1>5. CASE ReceiveBadSalt
  <2>1. toClient' \in Seq(Messages)
    BY <1>2, <1>5 DEF ReceiveBadSalt
  <2> QED BY <1>1, <1>5, <2>1 DEF ReceiveBadSalt, Types, Last
<1>6. CASE ReceiveBadMsg
  <2>1. toClient' \in Seq(Messages) /\ toServer' \in Seq(Packets) /\ started' \in BOOLEAN
    <3>1. <<>> \in Seq(Messages) /\ <<>> \in Seq(Packets)
      OBVIOUS
    <3> QED BY <1>1, <1>2, <1>6, <3>1 DEF ReceiveBadMsg, Disconnect, Types
  <2> QED BY <1>1, <1>6, <2>1 DEF ReceiveBadMsg, Types, Last
<1>7. CASE ReceiveNewSession
  <2>1. toClient' \in Seq(Messages)
    BY <1>2, <1>7 DEF ReceiveNewSession
  <2> QED BY <1>1, <1>7, <2>1 DEF ReceiveNewSession, Types, Last
<1>8. CASE ReceiveFatal
  <2> DEFINE id == Head(toClient).id
  <2>1. toClient' \in Seq(Messages) /\ Head(toClient) \in Messages /\ Head(toClient).type = "fatal"
    BY <1>2, <1>8 DEF ReceiveFatal
  <2>2. received' \in Seq([request : Requests, error : BOOLEAN])
    <3>1. CASE id = 0 \/ ~wasSent(id) \/ owner[id] = 0
      BY <1>1, <1>8, <3>1 DEF ReceiveFatal, Types
    <3>2. CASE ~(id = 0 \/ ~wasSent(id) \/ owner[id] = 0)
      <4>1. id \in 1 .. Last
        BY <1>1, <3>2 DEF wasSent, Given
      <4>2. owner[id] \in Requests
        BY <1>1, <3>2, <4>1 DEF Given, Types
      <4>3. received' = Append(received, [request |-> owner[id], error |-> TRUE])
        BY <1>8, <3>2 DEF ReceiveFatal
      <4> HIDE DEF id
      <4>4. [request |-> owner[id], error |-> TRUE] \in [request : Requests, error : BOOLEAN]
        BY <4>2
      <4> QED BY <1>1, <4>3, <4>4, AppendOf DEF Types
    <3> QED BY <3>1, <3>2
  <2> QED BY <1>1, <1>8, <2>1, <2>2 DEF ReceiveFatal, Types, Last
<1>9. CASE ReceiveStates
  <2>1. toSend' \subseteq toSend
    BY <1>9, AckedOf DEF ReceiveStates
  <2>2. toClient' \in Seq(Messages)
    BY <1>2, <1>9 DEF ReceiveStates
  <2> QED BY <1>1, <1>9, <2>1, <2>2 DEF ReceiveStates, Types, Last
<1>10. CASE ReceivePong
  <2>1. toClient' \in Seq(Messages)
    BY <1>2, <1>10 DEF ReceivePong
  <2> QED BY <1>1, <1>10, <2>1 DEF ReceivePong, Types, Last
<1> QED BY <1>3, <1>4, <1>5, <1>6, <1>7, <1>8, <1>9, <1>10 DEF Receiving

(* The server's answers to a packet.                                       *)
when(condition, message) == IF condition THEN <<message>> ELSE <<>>

Replies(p, ackIds) ==
  when(~server.known, [type |-> "new_session_created",
                       first |-> IF p.ids = {} THEN Last + 1
                                 ELSE CHOOSE i \in p.ids : \A j \in p.ids : i <= j])
    \o when(p.ping, [type |-> "pong"])
    \o when(p.states /= {}, [type |-> "msgs_state_info", ids |-> p.states,
                             got |-> p.states \cap server.got])
    \o when(ackIds /= {}, [type |-> "ack", ids |-> ackIds])

(* None is a result, and only questions and acks are answered by such.     *)
LEMMA RepliesOf ==
  ASSUME Last \in Nat, NEW p \in Packets, NEW ackIds \in SUBSET Nat
  PROVE  /\ Replies(p, ackIds) \in Seq(Messages)
         /\ \A k \in DOMAIN Replies(p, ackIds) :
              /\ Replies(p, ackIds)[k].type /= "result"
              /\ Replies(p, ackIds)[k].type = "ack" => ackIds /= {}
              /\ Replies(p, ackIds)[k].type = "msgs_state_info" => p.states /= {}
<1> DEFINE Ok(m) == /\ m \in Messages /\ m.type /= "result"
                    /\ m.type = "ack" => ackIds /= {}
                    /\ m.type = "msgs_state_info" => p.states /= {}
           T == {m \in Messages : Ok(m)}
           m1 == [type |-> "new_session_created",
                  first |-> IF p.ids = {} THEN Last + 1
                            ELSE CHOOSE i \in p.ids : \A j \in p.ids : i <= j]
           m2 == [type |-> "pong"]
           m3 == [type |-> "msgs_state_info", ids |-> p.states, got |-> p.states \cap server.got]
           m4 == [type |-> "ack", ids |-> ackIds]
<1>1. m1 \in T
  <2>1. p.ids \subseteq Nat
    BY DEF Packets
  <2>2. (IF p.ids = {} THEN Last + 1 ELSE CHOOSE i \in p.ids : \A j \in p.ids : i <= j) \in Nat
    BY <2>1, LeastId
  <2> QED BY <2>2 DEF Messages
<1>2. m2 \in T
  BY DEF Messages
<1>3. p.states /= {} => m3 \in T
  BY DEF Messages, Packets
<1>4. ackIds /= {} => m4 \in T
  BY DEF Messages
<1>5. Replies(p, ackIds) =
        when(~server.known, m1) \o when(p.ping, m2) \o when(p.states /= {}, m3)
          \o when(ackIds /= {}, m4)
  BY DEF Replies
<1> HIDE DEF m1, m2, m3, m4, T
<1>6. \A c, m : (c => m \in T) => when(c, m) \in Seq(T)
  BY DEF when
<1>7. when(~server.known, m1) \in Seq(T) /\ when(p.ping, m2) \in Seq(T)
      /\ when(p.states /= {}, m3) \in Seq(T) /\ when(ackIds /= {}, m4) \in Seq(T)
  BY <1>1, <1>2, <1>3, <1>4, <1>6
<1>8. Replies(p, ackIds) \in Seq(T)
  BY <1>5, <1>7, ConcatProperties
<1>9. \A k \in 1 .. Len(Replies(p, ackIds)) : Replies(p, ackIds)[k] \in T
  BY <1>8, ElementOfSeq
<1>10. DOMAIN Replies(p, ackIds) = 1 .. Len(Replies(p, ackIds))
  BY <1>8, LenProperties
<1>11. \A m \in T : Ok(m)
  BY DEF T
<1>12. Replies(p, ackIds) \in Seq(Messages)
  BY <1>8, <1>9, <1>11, SeqOf
<1> QED BY <1>9, <1>10, <1>11, <1>12

(* What the server does with a packet.                                     *)
LEMMA ServingOf ==
  ASSUME IInv, Serving
  PROVE  \E p \in Packets, ackIds \in SUBSET Nat :
           /\ p = Head(toServer) /\ toServer /= <<>>
           /\ ackIds /= {} => left.acks > 0
           /\ toServer' = Tail(toServer) /\ toClient' = toClient \o Replies(p, ackIds)
           /\ server'.got = server.got \cup p.ids
           /\ left' \in [Happenings -> Nat] /\ \A what \in Happenings : left'[what] <= left[what]
           /\ UNCHANGED <<mainVars, sharedVars, privateVars, threadVars, up>>
<1> DEFINE p == Head(toServer)
<1>1. toServer /= <<>> /\ p \in Packets /\ left \in [Happenings -> Nat]
  BY TailOf DEF IInv, Types, Serving
<1>2. PICK failing \in SUBSET (p.ids \ server.got), ackIds \in {{}, p.ids, {p.id} \ {0}} :
        ServerReceive(failing, ackIds)
  BY DEF Serving
<1>3. ackIds \in SUBSET Nat
  BY <1>1 DEF Packets
<1> DEFINE whats == (IF failing = {} THEN {} ELSE {"errors"}) \cup (IF ackIds = {} THEN {} ELSE {"acks"})
<1>4. UseAll(whats)
  BY <1>2 DEF ServerReceive
<1>5. ackIds /= {} => left.acks > 0
  BY <1>4 DEF UseAll
<1>6. left' \in [Happenings -> Nat]
  BY <1>1, <1>4, UseType DEF Happenings
<1>7. \A what \in Happenings : left'[what] <= left[what]
  BY <1>1, <1>4 DEF UseAll
<1>8. toServer' = Tail(toServer) /\ toClient' = toClient \o Replies(p, ackIds)
  BY <1>2 DEF ServerReceive, Reply, Replies, when
<1>9. server'.got = server.got \cup p.ids
  BY <1>2 DEF ServerReceive
<1>10. UNCHANGED <<mainVars, sharedVars, privateVars, threadVars, up>>
  BY <1>2 DEF ServerReceive
<1> QED BY <1>1, <1>3, <1>5, <1>6, <1>7, <1>8, <1>9, <1>10

(* What comes of a refusal.                                                *)
LEMMA RefusalOf ==
  ASSUME IInv, NEW type \in {"bad_server_salt", "bad_msg_notification", "fatal"},
         NEW what \in Happenings, ServerRefuse(type, what)
  PROVE  \E m \in Messages :
           /\ m.type = type /\ toServer /= <<>>
           /\ toServer' = Tail(toServer) /\ toClient' = toClient \o <<m>>
           /\ left' \in [Happenings -> Nat] /\ \A w \in Happenings : left'[w] <= left[w]
           /\ UNCHANGED <<mainVars, sharedVars, privateVars, threadVars, up, server>>
<1> DEFINE m == [type |-> type, id |-> Head(toServer).id]
<1>1. Head(toServer) \in Packets /\ left \in [Happenings -> Nat]
  BY TailOf DEF IInv, Types, ServerRefuse
<1>2. m \in Messages /\ m.type = type
  BY <1>1 DEF Packets, Messages
<1>3. left' \in [Happenings -> Nat] /\ \A w \in Happenings : left'[w] <= left[w]
  BY <1>1, UseType DEF ServerRefuse, Use, UseAll
<1>4. toServer' = Tail(toServer) /\ toClient' = toClient \o <<m>> /\ toServer /= <<>>
      /\ UNCHANGED <<mainVars, sharedVars, privateVars, threadVars, up, server>>
  BY DEF ServerRefuse, Reply
<1> QED BY <1>2, <1>3, <1>4

(* And of an answer.                                                       *)
LEMMA AnswerOf ==
  ASSUME IInv, NEW id \in server.got, ServerAnswer(id)
  PROVE  \E m \in Messages :
           /\ m.type = "result" /\ m.id = id
           /\ toClient' = Append(toClient, m) /\ server'.got = server.got
           /\ UNCHANGED <<mainVars, sharedVars, privateVars, threadVars, up, toServer, left>>
<1> DEFINE m == [type |-> "result", id |-> id, error |-> id \in server.failing]
<1>1. Last \in Nat /\ server.got \subseteq 1 .. Last
  BY LenProperties DEF IInv, Types, Given, Last, Flying
<1>2. m \in Messages /\ m.type = "result" /\ m.id = id
  BY <1>1 DEF Messages
<1> HIDE DEF m
<1>3. toClient' = toClient \o <<m>> /\ server'.got = server.got
      /\ UNCHANGED <<mainVars, sharedVars, privateVars, threadVars, up, toServer, left>>
  BY DEF ServerAnswer, Reply, m
<1>4. toClient \o <<m>> = Append(toClient, m)
  BY <1>2, AppendIsConcat DEF IInv, Types
<1> QED BY <1>2, <1>3, <1>4

Server ==
  \/ Serving \/ ServerForget
  \/ ServerRefuse("bad_server_salt", "salts") \/ ServerRefuse("bad_msg_notification", "resets")
  \/ ServerRefuse("fatal", "fatals")
  \/ \E id \in server.got : ServerAnswer(id)

(* The server and the network do nothing to the client, and whatever is    *)
(* on its way now was there before.                                        *)
LEMMA ServerOf ==
  ASSUME IInv, Server
  PROVE  /\ UNCHANGED <<mainVars, sharedVars, privateVars, threadVars, up>>
         /\ toServer' \in Seq(Packets) /\ toClient' \in Seq(Messages)
         /\ left' \in [Happenings -> Nat] /\ \A what \in Happenings : left'[what] <= left[what]
         /\ Flying' \subseteq Flying
<1>1. /\ toServer \in Seq(Packets) /\ toClient \in Seq(Messages) /\ left \in [Happenings -> Nat]
      /\ Last \in Nat
  BY LenProperties DEF IInv, Types, Last
<1>2. toServer /= <<>> =>
        /\ Tail(toServer) \in Seq(Packets) /\ PacketIds(Tail(toServer)) \subseteq PacketIds(toServer)
        /\ Head(toServer).ids \subseteq PacketIds(toServer)
  BY <1>1, TailOf, TailIds
<1>3. CASE Serving
  <2>1. PICK p \in Packets, ackIds \in SUBSET Nat :
           /\ p = Head(toServer) /\ toServer /= <<>>
           /\ toServer' = Tail(toServer) /\ toClient' = toClient \o Replies(p, ackIds)
           /\ server'.got = server.got \cup p.ids
           /\ left' \in [Happenings -> Nat] /\ \A what \in Happenings : left'[what] <= left[what]
           /\ UNCHANGED <<mainVars, sharedVars, privateVars, threadVars, up>>
    BY <1>3, ServingOf
  <2>2. Replies(p, ackIds) \in Seq(Messages)
        /\ \A k \in DOMAIN Replies(p, ackIds) : Replies(p, ackIds)[k].type /= "result"
    BY <1>1, RepliesOf
  <2>3. toClient' \in Seq(Messages) /\ ResultIds(toClient') = ResultIds(toClient)
    BY <1>1, <2>1, <2>2, ConcatIds, ConcatProperties
  <2> QED BY <1>2, <2>1, <2>3 DEF Flying
<1>4. ASSUME NEW type \in {"bad_server_salt", "bad_msg_notification", "fatal"},
             NEW what \in Happenings, ServerRefuse(type, what)
      PROVE  /\ UNCHANGED <<mainVars, sharedVars, privateVars, threadVars, up>>
             /\ toServer' \in Seq(Packets) /\ toClient' \in Seq(Messages)
             /\ left' \in [Happenings -> Nat] /\ \A w \in Happenings : left'[w] <= left[w]
             /\ Flying' \subseteq Flying
  <2>1. PICK m \in Messages :
           /\ m.type = type /\ toServer /= <<>>
           /\ toServer' = Tail(toServer) /\ toClient' = toClient \o <<m>>
           /\ left' \in [Happenings -> Nat] /\ \A w \in Happenings : left'[w] <= left[w]
           /\ UNCHANGED <<mainVars, sharedVars, privateVars, threadVars, up, server>>
    BY <1>4, RefusalOf
  <2>2. toClient' = Append(toClient, m) /\ m.type /= "result"
    BY <1>1, <2>1, AppendIsConcat
  <2>3. toClient' \in Seq(Messages) /\ ResultIds(toClient') = ResultIds(toClient)
    BY <1>1, <2>2, AppendIds, AppendOf
  <2> QED BY <1>2, <2>1, <2>3 DEF Flying
<1>5. ASSUME NEW id \in server.got, ServerAnswer(id)
      PROVE  /\ UNCHANGED <<mainVars, sharedVars, privateVars, threadVars, up>>
             /\ toServer' \in Seq(Packets) /\ toClient' \in Seq(Messages)
             /\ left' \in [Happenings -> Nat] /\ \A what \in Happenings : left'[what] <= left[what]
             /\ Flying' \subseteq Flying
  <2>1. PICK m \in Messages :
           /\ m.type = "result" /\ m.id = id
           /\ toClient' = Append(toClient, m) /\ server'.got = server.got
           /\ UNCHANGED <<mainVars, sharedVars, privateVars, threadVars, up, toServer, left>>
    BY <1>5, AnswerOf
  <2>2. toClient' \in Seq(Messages) /\ ResultIds(toClient') \subseteq ResultIds(toClient) \cup {id}
    BY <1>1, <2>1, AppendIds, AppendOf
  <2>3. toServer' = toServer /\ left' = left
    BY <2>1
  <2>4. \A what \in Happenings : left'[what] <= left[what]
    BY <1>1, <2>3
  <2> QED BY <1>1, <2>1, <2>2, <2>3, <2>4 DEF Flying
<1>6. CASE ServerForget
  <2>1. left' \in [Happenings -> Nat] /\ \A what \in Happenings : left'[what] <= left[what]
    BY <1>1, <1>6, UseType DEF ServerForget, Use, UseAll, Happenings
  <2> QED BY <1>1, <1>6, <2>1 DEF ServerForget, NewServer, Flying
<1>7. {"salts", "resets", "fatals"} \subseteq Happenings
  BY DEF Happenings
<1> QED BY <1>3, <1>4, <1>5, <1>6, <1>7 DEF Server

(* The types are kept.                                                     *)
LEMMA TypesNext ==
  ASSUME IInv, [Next]_vars
  PROVE  Types'
<1>1. CASE UNCHANGED vars
  BY <1>1 DEF IInv, Types, Last
<1>2. CASE Server
  <2>1. /\ UNCHANGED <<mainVars, sharedVars, privateVars, threadVars>>
        /\ toServer' \in Seq(Packets) /\ toClient' \in Seq(Messages)
        /\ left' \in [Happenings -> Nat]
    BY <1>2, ServerOf
  <2> QED BY <2>1 DEF IInv, Types, Last
<1> QED BY <1>1, <1>2, TypesMain, TypesThread, TypesReceiving DEF Next, Server

-----------------------------------------------------------------------------
(* The ids that were given.                                                *)

(* A step that gives no ids.                                               *)
LEMMA GivenFrame ==
  ASSUME IInv, owner' = owner, asked \subseteq asked',
         \A r \in Requests : msgId'[r] = msgId[r] \/ msgId'[r] = 0,
         resending' \cup acked' \cup asking' \cup todo' \subseteq 1 .. Last,
         haveSent' \cup hand'.ids \cup Flying' \subseteq haveSent \cup hand.ids \cup Flying,
         containers' \subseteq containers,
         \A k \in DOMAIN received' : received'[k].request \in asked',
         ~started' => Flying' = {} /\ hand'.to /= "haveSent"
  PROVE  Given'
<1>1. Given /\ Last' = Last
  BY DEF IInv, Last
<1>2. (haveSent \cup resending \cup acked \cup asking \cup todo \cup hand.ids \cup Flying)'
        \subseteq 1 .. Last'
  BY <1>1 DEF Given
<1>3. \A c \in containers' :
        c \in [id : 1 .. Last', messages : SUBSET (1 .. Last')] /\ owner'[c.id] = 0
  BY <1>1 DEF Given
<1>4. \A i \in 1 .. Last' : owner'[i] \in asked' \cup {0}
  BY <1>1 DEF Given
<1>5. \A i \in haveSent' \cup hand'.ids \cup Flying' : owner'[i] /= 0
  BY <1>1 DEF Given
<1>6. \A r \in Requests : msgId'[r] /= 0 => owner'[msgId'[r]] = r
  BY <1>1 DEF Given
<1> QED BY <1>2, <1>3, <1>4, <1>5, <1>6 DEF Given

(* The main thread.                                                        *)
LEMMA GivenMain ==
  ASSUME IInv,
         \/ MainStep
         \/ \E r \in Requests : Send(r) \/ CancelBegin(r)
  PROVE  Given'
<1>1. Types /\ Given
  BY DEF IInv
<1>2. ASSUME haveSent' \subseteq haveSent,
             UNCHANGED <<privateVars, todo, hand, netVars, server>>,
             asked \subseteq asked',
             \A r \in Requests : msgId'[r] = msgId[r] \/ msgId'[r] = 0,
             \A k \in DOMAIN received' : received'[k].request \in asked'
      PROVE  Given'
  BY <1>1, <1>2, GivenFrame DEF Given, Flying
<1>3. \A k \in DOMAIN received : received[k].request \in asked
  BY <1>1 DEF Given
<1>4. ASSUME NEW r \in Requests, Send(r) PROVE Given'
  BY <1>1, <1>2, <1>3, <1>4 DEF Send, sendPrepared, Types
<1>5. ASSUME NEW r \in Requests, CancelBegin(r) PROVE Given'
  BY <1>2, <1>3, <1>5 DEF CancelBegin
<1>6. CASE CancelToSend
  BY <1>2, <1>3, <1>6 DEF CancelToSend
<1>7. CASE CancelHaveSent
  BY <1>2, <1>3, <1>7 DEF CancelHaveSent
<1>8. CASE CancelCallback
  BY <1>2, <1>3, <1>8 DEF CancelCallback
<1>9. CASE HandleResponse
  <2>1. \A k \in DOMAIN Tail(received) : Tail(received)[k].request \in asked
    BY <1>1, <1>3, <1>9, TailOf DEF HandleResponse, Types
  <2>2. \A r \in Requests : msgId'[r] = msgId[r] \/ msgId'[r] = 0
    BY <1>1, <1>9 DEF HandleResponse, sendPrepared, Types
  <2> QED BY <1>2, <1>9, <2>1, <2>2 DEF HandleResponse
<1>10. CASE Restore
  BY <1>2, <1>3, <1>10 DEF Restore
<1>11. ASSUME NEW r \in Requests, checkDelayedRequests(r) PROVE Given'
  BY <1>1, <1>2, <1>3, <1>11 DEF checkDelayedRequests, sendPrepared, Types
<1> QED BY <1>4, <1>5, <1>6, <1>7, <1>8, <1>9, <1>10, <1>11 DEF MainStep

(* One request goes alone.                                                 *)
LEMMA GivenSingle ==
  ASSUME IInv, NEW r \in Requests, TryToSendSingle(r)
  PROVE  Given'
<1>1. Types /\ Given /\ Last \in Nat /\ r \in asked /\ Flying' = Flying /\ r /= 0
  BY LenProperties, SessionAssumption DEF IInv, Types, Last, TryToSendSingle, Flying
<1>2. /\ Last' = Last + 1 /\ owner'[Last + 1] = r
      /\ \A i \in 1 .. Last : owner'[i] = owner[i]
  BY <1>1, AppendProperties DEF TryToSendSingle, Types, Last
<1>3. 1 .. Last' = 1 .. Last \cup {Last + 1}
  BY <1>1, <1>2
<1>4. msgId' = [msgId EXCEPT ![r] = Last + 1] /\ hand'.ids = {Last + 1} /\ started'
      /\ UNCHANGED <<haveSent, resending, acked, asking, todo, containers, received, asked>>
  BY DEF TryToSendSingle
<1>5. (haveSent \cup resending \cup acked \cup asking \cup todo \cup hand.ids \cup Flying)'
        \subseteq 1 .. Last'
  BY <1>1, <1>3, <1>4 DEF Given
<1>6. \A c \in containers' :
        c \in [id : 1 .. Last', messages : SUBSET (1 .. Last')] /\ owner'[c.id] = 0
  BY <1>1, <1>2, <1>3, <1>4 DEF Given
<1>7. \A i \in 1 .. Last' : owner'[i] \in asked' \cup {0}
  BY <1>1, <1>2, <1>3, <1>4 DEF Given
<1>8. \A i \in haveSent' \cup hand'.ids \cup Flying' : owner'[i] /= 0
  BY <1>1, <1>2, <1>4 DEF Given
<1>9. \A q \in Requests : msgId'[q] /= 0 => owner'[msgId'[q]] = q
  BY <1>1, <1>2, <1>4 DEF Given, Types
<1> QED BY <1>1, <1>4, <1>5, <1>6, <1>7, <1>8, <1>9 DEF Given

(* What a container does to the ids, in terms of NewName().                *)
LEMMA ContainerOf ==
  ASSUME IInv, NEW batch \in SUBSET toSend, TryToSendContainer(batch)
  PROVE  /\ Last' \in Nat /\ Last <= Last' /\ Last \in Nat
         /\ \A i \in 1 .. Last : i \in 1 .. Last' /\ owner'[i] = owner[i]
         /\ \A i \in 1 .. Last' : owner'[i] \in asked \cup {0}
         /\ \A r \in batch : NewId(batch, r) \in 1 .. Last' /\ owner'[NewId(batch, r)] = r
         /\ \A i \in 1 .. Last : NewName(batch, i) \in 1 .. Last'
                                 /\ owner'[NewName(batch, i)] = owner[i]
         /\ haveSent' = {NewName(batch, i) : i \in haveSent} \cup {NewId(batch, r) : r \in batch}
         /\ resending' = {NewName(batch, i) : i \in resending \ {msgId[r] : r \in batch}}
         /\ acked' = {NewName(batch, i) : i \in acked}
         /\ \A c \in containers' :
              c \in [id : 1 .. Last', messages : SUBSET (1 .. Last')] /\ owner'[c.id] = 0
         /\ Flying' = Flying \cup {NewId(batch, r) : r \in batch}
         /\ msgId' = [r \in Requests |-> IF r \in batch THEN NewId(batch, r) ELSE msgId[r]]
<1> DEFINE n == Cardinality(Fresh(batch))
           ids == {NewId(batch, r) : r \in batch}
           id == IF batch = {} THEN 0 ELSE Last + n + 1
<1>1. Types /\ Given /\ Last \in Nat /\ n \in Nat /\ Fresh(batch) \subseteq batch
  BY LenProperties, NewIds, BatchOf DEF IInv, Types, Last
<1>2. /\ Len(Owned(batch)) = Last + n + 1
      /\ \A i \in 1 .. Len(Owned(batch)) : Owned(batch)[i] \in asked \cup {0}
      /\ \A i \in 1 .. Last : Owned(batch)[i] = owner[i]
      /\ \A r \in Fresh(batch) : Owned(batch)[NewId(batch, r)] = r
      /\ Owned(batch)[Last + n + 1] = 0
  BY OwnedOf
<1>3. owner' = IF batch = {} THEN owner ELSE Owned(batch)
  BY DEF TryToSendContainer, Owned
<1>4. Last' \in Nat /\ Last <= Last' /\ (batch /= {} => Last' = Last + n + 1)
  <2>1. CASE batch = {}
    BY <1>1, <1>3, <2>1 DEF Last
  <2>2. CASE batch /= {}
    <3>1. Last' = Last + n + 1
      BY <1>2, <1>3, <2>2 DEF Last
    <3> QED BY <1>1, <3>1
  <2> QED BY <2>1, <2>2
<1>5. \A i \in 1 .. Last : i \in 1 .. Last' /\ owner'[i] = owner[i]
  BY <1>1, <1>2, <1>3, <1>4
<1>6. \A i \in 1 .. Last' : owner'[i] \in asked \cup {0}
  <2>1. CASE batch = {}
    BY <1>1, <1>3, <2>1 DEF Given, Last
  <2>2. CASE batch /= {}
    BY <1>2, <1>3, <1>4, <2>2
  <2> QED BY <2>1, <2>2
<1>7. \A r \in batch : NewId(batch, r) \in 1 .. Last' /\ owner'[NewId(batch, r)] = r
  <2> SUFFICES ASSUME NEW r \in batch
               PROVE  NewId(batch, r) \in 1 .. Last' /\ owner'[NewId(batch, r)] = r
    OBVIOUS
  <2>1. CASE r \in Fresh(batch)
    <3>1. NewId(batch, r) \in Last + 1 .. Last + n
      BY <2>1, NewIds
    <3>2. NewId(batch, r) \in 1 .. Last'
      BY <1>1, <1>4, <3>1
    <3> QED BY <1>2, <1>3, <2>1, <3>2
  <2>2. CASE r \notin Fresh(batch)
    <3>1. NewId(batch, r) = msgId[r] /\ msgId[r] \in 1 .. Last /\ owner[msgId[r]] = r
      BY <2>2, NewIds
    <3> QED BY <1>5, <3>1
  <2> QED BY <2>1, <2>2
<1>8. \A i \in 1 .. Last : NewName(batch, i) \in 1 .. Last' /\ owner'[NewName(batch, i)] = owner[i]
  BY <1>1, <1>5, <1>7 DEF NewName
<1>9. /\ haveSent \subseteq 1 .. Last /\ acked \subseteq 1 .. Last
      /\ resending \ {msgId[r] : r \in batch} \subseteq 1 .. Last
      /\ \A c \in containers :
           c \in [id : 1 .. Last, messages : SUBSET (1 .. Last)] /\ owner[c.id] = 0
  BY <1>1 DEF Given
<1>10. haveSent' = {NewName(batch, i) : i \in haveSent} \cup {NewId(batch, r) : r \in batch}
  BY <1>9, RenamedOf DEF TryToSendContainer
<1>11. resending' = {NewName(batch, i) : i \in resending \ {msgId[r] : r \in batch}}
  <2>1. resending' = Renamed(batch, resending \ {msgId[r] : r \in batch})
    BY DEF TryToSendContainer
  <2> QED BY <1>9, <2>1, RenamedOf
<1>12. acked' = {NewName(batch, i) : i \in acked}
  BY <1>9, RenamedOf DEF TryToSendContainer
<1>13. ASSUME NEW c \in containers'
       PROVE  c \in [id : 1 .. Last', messages : SUBSET (1 .. Last')] /\ owner'[c.id] = 0
  <2>1. containers' = {[d EXCEPT !.messages = Renamed(batch, @)] : d \in containers}
              \cup (IF batch = {} THEN {} ELSE {[id |-> id, messages |-> ids]})
    BY DEF TryToSendContainer
  <2>2. ASSUME NEW d \in containers, c = [d EXCEPT !.messages = Renamed(batch, @)]
        PROVE  c \in [id : 1 .. Last', messages : SUBSET (1 .. Last')] /\ owner'[c.id] = 0
    <3>1. d \in [id : 1 .. Last, messages : SUBSET (1 .. Last)] /\ owner[d.id] = 0
      BY <1>9
    <3>2. Renamed(batch, d.messages) = {NewName(batch, i) : i \in d.messages}
      BY <3>1, RenamedOf
    <3>3. Renamed(batch, d.messages) \subseteq 1 .. Last'
      BY <1>8, <3>1, <3>2
    <3>4. c = [id |-> d.id, messages |-> Renamed(batch, d.messages)]
      BY <2>2, <3>1
    <3>5. c.id = d.id /\ d.id \in 1 .. Last' /\ owner'[d.id] = 0
      BY <1>5, <3>1, <3>4
    <3> QED BY <3>3, <3>4, <3>5
  <2>3. CASE batch /= {} /\ c = [id |-> id, messages |-> ids]
    <3>1. id = Last' /\ owner'[id] = 0 /\ id \in 1 .. Last'
      BY <1>1, <1>2, <1>3, <1>4, <2>3
    <3>2. ids \in SUBSET (1 .. Last')
      BY <1>7
    <3> HIDE DEF id, ids
    <3> QED BY <2>3, <3>1, <3>2
  <2> QED BY <2>1, <2>2, <2>3
<1>14. Flying' = Flying \cup ids
  <2>1. id \in Nat /\ ids \in SUBSET Nat /\ asking \in SUBSET Nat
    BY <1>1, <1>4, <1>7 DEF Given
  <2>2. toServer' = Append(toServer, Packet(id, ids, asking, FALSE))
        /\ toClient' = toClient /\ server' = server
    BY DEF TryToSendContainer
  <2> HIDE DEF id, ids
  <2> DEFINE p == Packet(id, ids, asking, FALSE)
  <2>3. p \in Packets /\ p.ids = ids /\ toServer' = Append(toServer, p)
    BY <2>1, <2>2 DEF Packet, Packets
  <2>4. PacketIds(toServer') = PacketIds(toServer) \cup ids
    <3>1. toServer \in Seq(Packets)
      BY <1>1 DEF Types
    <3> HIDE DEF p
    <3> QED BY <2>3, <3>1, AppendIds
  <2> QED BY <2>2, <2>4 DEF Flying
<1>15. msgId' = [r \in Requests |-> IF r \in batch THEN NewId(batch, r) ELSE msgId[r]]
  BY DEF TryToSendContainer
<1> QED BY <1>1, <1>4, <1>5, <1>6, <1>7, <1>8, <1>10, <1>11, <1>12, <1>13, <1>14, <1>15

(* The ids that PutHaveSent sends were in hand.                            *)
LEMMA PutHaveSentIds ==
  ASSUME IInv, PutHaveSent
  PROVE  Flying' = Flying \cup hand.ids
<1> DEFINE p == Packet(CHOOSE i \in hand.ids : TRUE, hand.ids, {}, FALSE)
<1>1. hand.ids /= {} /\ hand.ids \subseteq Nat /\ toServer \in Seq(Packets)
  BY DEF PutHaveSent, IInv, Types
<1>2. p \in Packets /\ p.ids = hand.ids
  <2>1. (CHOOSE i \in hand.ids : TRUE) \in Nat
    BY <1>1
  <2> QED BY <1>1, <2>1 DEF Packet, Packets
<1>3. toServer' = Append(toServer, p) /\ toClient' = toClient /\ server' = server
  BY DEF PutHaveSent
<1> HIDE DEF p
<1>4. PacketIds(toServer') = PacketIds(toServer) \cup hand.ids
  BY <1>1, <1>2, <1>3, AppendIds
<1> QED BY <1>3, <1>4 DEF Flying

(* A ping has no ids.                                                      *)
LEMMA PingIds ==
  ASSUME IInv, Ping
  PROVE  Flying' = Flying
<1> DEFINE p == Packet(0, {}, {}, TRUE)
<1>1. p \in Packets /\ p.ids = {}
  BY DEF Packet, Packets
<1>2. toServer' = Append(toServer, p) /\ toClient' = toClient /\ server' = server
  BY DEF Ping
<1>3. toServer \in Seq(Packets)
  BY DEF IInv, Types
<1> HIDE DEF p
<1>4. p \in Packets
  BY <1>1
<1>5. PacketIds(Append(toServer, p)) = PacketIds(toServer) \cup p.ids
  BY <1>3, <1>4, AppendIds
<1>6. PacketIds(toServer') = PacketIds(toServer)
  BY <1>1, <1>2, <1>5
<1> QED BY <1>2, <1>6 DEF Flying

(* A broken connection only takes away.                                    *)
LEMMA LoseIds ==
  ASSUME Lose
  PROVE  Flying' \subseteq Flying
BY EmptyIds DEF Lose, Disconnect, Flying

(* The session's thread, sending and putting back.                         *)
LEMMA GivenThread ==
  ASSUME IInv,
         \/ Sending \/ Ping \/ Resending \/ CheckSent \/ Connect \/ Lose
         \/ \E c \in containers : clearOldContainers(c)
  PROVE  Given'
<1>1. Types /\ Given
  BY DEF IInv
<1>2. ASSUME UNCHANGED <<asked, msgId, received, owner>>,
             resending' \cup acked' \cup asking' \cup todo' \subseteq 1 .. Last,
             haveSent' \cup hand'.ids \cup Flying' \subseteq haveSent \cup hand.ids \cup Flying,
             containers' \subseteq containers,
             ~started' => Flying' = {} /\ hand'.to /= "haveSent"
      PROVE  Given'
  BY <1>1, <1>2, GivenFrame DEF Given
<1>3. /\ resending \cup acked \cup asking \cup todo \cup hand.ids \cup haveSent \subseteq 1 .. Last
      /\ ~started => Flying = {} /\ hand.to /= "haveSent"
      /\ UNCHANGED netVars /\ UNCHANGED server => Flying' = Flying
  BY <1>1 DEF Given, Flying
<1>4. CASE TryToSendNothing
  BY <1>2, <1>3, <1>4 DEF TryToSendNothing
<1>5. CASE PutHaveSent
  <2>1. Flying' = Flying \cup hand.ids
    BY <1>5, PutHaveSentIds
  <2> QED BY <1>2, <1>3, <1>5, <2>1 DEF PutHaveSent, EmptyHand
<1>6. ASSUME NEW r \in Requests, TryToSendSingle(r) PROVE Given'
  BY <1>6, GivenSingle
<1>7. ASSUME NEW batch \in SUBSET toSend, TryToSendContainer(batch) PROVE Given'
  <2> DEFINE ids == {NewId(batch, r) : r \in batch}
  <2>1. /\ Last' \in Nat /\ Last <= Last' /\ Last \in Nat
        /\ \A i \in 1 .. Last : i \in 1 .. Last' /\ owner'[i] = owner[i]
        /\ \A i \in 1 .. Last' : owner'[i] \in asked \cup {0}
        /\ \A r \in batch : NewId(batch, r) \in 1 .. Last' /\ owner'[NewId(batch, r)] = r
        /\ \A i \in 1 .. Last : NewName(batch, i) \in 1 .. Last'
                                /\ owner'[NewName(batch, i)] = owner[i]
        /\ haveSent' = {NewName(batch, i) : i \in haveSent} \cup ids
        /\ resending' = {NewName(batch, i) : i \in resending \ {msgId[r] : r \in batch}}
        /\ acked' = {NewName(batch, i) : i \in acked}
        /\ \A c \in containers' :
             c \in [id : 1 .. Last', messages : SUBSET (1 .. Last')] /\ owner'[c.id] = 0
        /\ Flying' = Flying \cup ids
        /\ msgId' = [r \in Requests |-> IF r \in batch THEN NewId(batch, r) ELSE msgId[r]]
    BY <1>7, ContainerOf
  <2>2. asking' = {} /\ todo' = todo /\ hand' = hand /\ started' = TRUE
        /\ asked' = asked /\ received' = received
    BY <1>7 DEF TryToSendContainer
  <2>3. 0 \notin batch
    BY <1>1, SessionAssumption DEF Types
  <2>4. (haveSent \cup resending \cup acked \cup asking \cup todo \cup hand.ids \cup Flying)'
          \subseteq 1 .. Last'
    BY <1>1, <2>1, <2>2 DEF Given
  <2>5. \A i \in 1 .. Last' : owner'[i] \in asked' \cup {0}
    BY <2>1, <2>2
  <2>6. \A i \in haveSent' \cup hand'.ids \cup Flying' : owner'[i] /= 0
    BY <1>1, <2>1, <2>2, <2>3 DEF Given
  <2>7. \A r \in Requests : msgId'[r] /= 0 => owner'[msgId'[r]] = r
    <3> SUFFICES ASSUME NEW r \in Requests, msgId'[r] /= 0 PROVE owner'[msgId'[r]] = r
      OBVIOUS
    <3>1. CASE r \in batch
      BY <2>1, <3>1
    <3>2. CASE r \notin batch
      BY <1>1, <2>1, <3>2, SMTT(60) DEF Given, Types
    <3> QED BY <3>1, <3>2
  <2> QED BY <1>1, <2>1, <2>2, <2>4, <2>5, <2>6, <2>7 DEF Given
<1>8. CASE Ping
  <2>1. Flying' = Flying
    BY <1>8, PingIds
  <2> QED BY <1>2, <1>3, <1>8, <2>1 DEF Ping
<1>9. CASE PutToSend
  BY <1>2, <1>3, <1>9 DEF PutToSend, EmptyHand
<1>10. ASSUME NEW i \in todo, TakeHaveSent(i) PROVE Given'
  BY <1>2, <1>3, <1>10 DEF TakeHaveSent, EmptyHand
<1>11. CASE CheckSent
  BY <1>2, <1>3, <1>11 DEF CheckSent, checkSentRequests
<1>12. CASE Connect
  <2>1. Flying' = Flying
    BY <1>12 DEF Connect, Flying
  <2> QED BY <1>2, <1>3, <1>12, <2>1 DEF Connect, EmptyHand
<1>13. CASE Lose
  <2>1. Flying' \subseteq Flying
    BY <1>13, LoseIds
  <2> QED BY <1>2, <1>3, <1>13, <2>1 DEF Lose
<1>14. ASSUME NEW c \in containers, clearOldContainers(c) PROVE Given'
  <2>1. c.messages \subseteq 1 .. Last
    BY <1>1 DEF Given
  <2> QED BY <1>2, <1>3, <1>14, <2>1 DEF clearOldContainers
<1> QED BY <1>4, <1>5, <1>6, <1>7, <1>8, <1>9, <1>10, <1>11, <1>12, <1>13, <1>14
        DEF Sending, Resending

(* A message that comes takes nothing along.                               *)
LEMMA ReceivingIds ==
  ASSUME IInv, Receiving
  PROVE  /\ Flying' \subseteq Flying
         /\ toClient /= <<>>
         /\ ~ReceiveBadMsg => started' = started
         /\ ReceiveBadMsg => started' = started \/ Flying' = {}
<1>1. toClient /= <<>>
  BY DEF Receiving, Incoming, ReceiveResult, ReceiveAck, ReceiveBadSalt, ReceiveBadMsg,
         ReceiveNewSession, ReceiveFatal, ReceiveStates, ReceivePong
<1>2. ResultIds(Tail(toClient)) \subseteq ResultIds(toClient)
  BY <1>1, TailIds DEF IInv, Types
<1>3. CASE ReceiveBadMsg /\ wasSent(Head(toClient).id)
  BY <1>1, <1>3, EmptyIds DEF ReceiveBadMsg, Disconnect, NewServer, Flying
<1>4. CASE ~(ReceiveBadMsg /\ wasSent(Head(toClient).id))
  <2>1. toServer' = toServer /\ toClient' = Tail(toClient) /\ server' = server /\ started' = started
    BY <1>4 DEF Receiving, ReceiveResult, ReceiveAck, ReceiveBadSalt, ReceiveBadMsg,
         ReceiveNewSession, ReceiveFatal, ReceiveStates, ReceivePong
  <2> QED BY <1>1, <1>2, <2>1 DEF Flying
<1> QED BY <1>3, <1>4

(* What comes from the server.                                             *)
LEMMA GivenReceiving ==
  ASSUME IInv, Receiving
  PROVE  Given'
<1>1. Types /\ Given
  BY DEF IInv
<1>2. ASSUME UNCHANGED <<asked, msgId, owner, hand>>,
             resending' \cup acked' \cup asking' \cup todo' \subseteq 1 .. Last,
             haveSent' \subseteq haveSent, containers' \subseteq containers,
             \A k \in DOMAIN received' : received'[k].request \in asked
      PROVE  Given'
  <2>1. Flying' \subseteq Flying
    BY ReceivingIds
  <2>2. ~started' => Flying' = {} /\ hand'.to /= "haveSent"
    <3>1. CASE started' = started
      BY <1>1, <1>2, <2>1, <3>1 DEF Given
    <3>2. CASE started' /= started
      <4>1. ReceiveBadMsg /\ Flying' = {}
        BY <3>2, ReceivingIds
      <4>2. hand = EmptyHand
        BY <4>1 DEF ReceiveBadMsg, Incoming, ThreadIdle
      <4> QED BY <1>2, <4>1, <4>2 DEF EmptyHand
    <3> QED BY <3>1, <3>2
  <2> QED BY <1>1, <1>2, <2>1, <2>2, GivenFrame DEF Given
<1>3. /\ resending \cup acked \cup asking \cup todo \cup haveSent \subseteq 1 .. Last
      /\ \A k \in DOMAIN received : received[k].request \in asked
      /\ \A i \in 1 .. Last : owner[i] \in asked \cup {0}
      /\ \A c \in containers : c.id \in 1 .. Last /\ c.messages \subseteq 1 .. Last
  BY <1>1 DEF Given
<1>4. \A id : wasSent(id) => id \in 1 .. Last \cup {0}
  BY <1>3 DEF wasSent
<1>5. CASE ReceiveResult
  <2> DEFINE m == Head(toClient)
  <2>1. m \in Messages /\ m.type = "result" /\ m.id \in Flying
    BY <1>1, <1>5, TailOf, TailIds DEF ReceiveResult, Incoming, Flying, Types
  <2>2. owner[m.id] \in asked /\ m.error \in BOOLEAN
    BY <1>1, <2>1 DEF Given, Messages
  <2> HIDE DEF m
  <2>3. received' = received \/ received' = Append(received, [request |-> owner[m.id], error |-> m.error])
    BY <1>5 DEF ReceiveResult, m
  <2>4. \A k \in DOMAIN received' : received'[k].request \in asked
    <3>1. asked \subseteq Requests /\ received \in Seq([request : Requests, error : BOOLEAN])
      BY <1>1 DEF Types
    <3> DEFINE e == [request |-> owner[m.id], error |-> m.error]
    <3>2. e \in [request : Requests, error : BOOLEAN] /\ e.request \in asked
      BY <2>2, <3>1
    <3>3. received' = received \/ received' = Append(received, e)
      BY <2>3
    <3> HIDE DEF e
    <3>4. \A k \in DOMAIN Append(received, e) :
            \/ k \in DOMAIN received /\ Append(received, e)[k] = received[k]
            \/ Append(received, e)[k] = e
      BY <3>1, <3>2, AppendOf
    <3> QED BY <1>3, <3>2, <3>3, <3>4
  <2>5. haveSent' \subseteq haveSent /\ containers' \subseteq containers /\ resending' \subseteq resending
        /\ acked' \subseteq acked \cup haveSent \cup resending
    BY <1>5, AckedOf DEF ReceiveResult
  <2> QED BY <1>2, <1>3, <1>5, <2>4, <2>5 DEF ReceiveResult
<1>6. CASE ReceiveAck
  <2>1. haveSent' \subseteq haveSent /\ containers' \subseteq containers /\ resending' \subseteq resending
        /\ acked' \subseteq acked \cup haveSent \cup resending
    BY <1>6, AckedOf DEF ReceiveAck
  <2> QED BY <1>2, <1>3, <1>6, <2>1 DEF ReceiveAck
<1>7. CASE ReceiveBadSalt
  <2>1. todo' \subseteq 1 .. Last /\ containers' \subseteq containers
    BY <1>3, <1>4, <1>7 DEF ReceiveBadSalt, Inner, Without
  <2> QED BY <1>2, <1>3, <1>7, <2>1 DEF ReceiveBadSalt
<1>8. CASE ReceiveBadMsg
  BY <1>2, <1>3, <1>8 DEF ReceiveBadMsg
<1>9. CASE ReceiveNewSession
  BY <1>2, <1>3, <1>9 DEF ReceiveNewSession
<1>10. CASE ReceiveFatal
  <2> DEFINE id == Head(toClient).id
  <2>1. CASE id = 0 \/ ~wasSent(id) \/ owner[id] = 0
    BY <1>2, <1>3, <1>10, <2>1 DEF ReceiveFatal
  <2>2. CASE ~(id = 0 \/ ~wasSent(id) \/ owner[id] = 0)
    <3>1. owner[id] \in asked
      BY <1>3, <1>4, <2>2
    <3>2. received' = Append(received, [request |-> owner[id], error |-> TRUE])
      BY <1>10, <2>2 DEF ReceiveFatal
    <3> DEFINE e == [request |-> owner[id], error |-> TRUE]
    <3>3. asked \subseteq Requests /\ received \in Seq([request : Requests, error : BOOLEAN])
      BY <1>1 DEF Types
    <3>4. e \in [request : Requests, error : BOOLEAN] /\ e.request \in asked
      BY <3>1, <3>3
    <3> HIDE DEF e
    <3>5. \A k \in DOMAIN Append(received, e) :
            \/ k \in DOMAIN received /\ Append(received, e)[k] = received[k]
            \/ Append(received, e)[k] = e
      BY <3>3, <3>4, AppendOf
    <3>6. \A k \in DOMAIN received' : received'[k].request \in asked
      BY <1>3, <3>2, <3>4, <3>5 DEF e
    <3> QED BY <1>2, <1>3, <1>10, <3>6 DEF ReceiveFatal
  <2> QED BY <2>1, <2>2
<1>11. CASE ReceiveStates
  <2>1. haveSent' \subseteq haveSent /\ containers' \subseteq containers /\ resending' \subseteq resending
        /\ acked' \subseteq acked \cup haveSent \cup resending
    BY <1>11, AckedOf DEF ReceiveStates
  <2> QED BY <1>2, <1>3, <1>11, <2>1 DEF ReceiveStates
<1>12. CASE ReceivePong
  BY <1>2, <1>3, <1>12 DEF ReceivePong
<1> QED BY <1>5, <1>6, <1>7, <1>8, <1>9, <1>10, <1>11, <1>12 DEF Receiving

(* The ids fit in every step.                                              *)
LEMMA GivenNext ==
  ASSUME IInv, [Next]_vars
  PROVE  Given'
<1>1. CASE UNCHANGED vars
  BY <1>1, GivenFrame DEF IInv, Given, Flying
<1>2. CASE Server
  <2>1. /\ UNCHANGED <<mainVars, sharedVars, privateVars, threadVars>>
        /\ Flying' \subseteq Flying
    BY <1>2, ServerOf
  <2> QED BY <2>1, GivenFrame DEF IInv, Given
<1> QED BY <1>1, <1>2, GivenMain, GivenThread, GivenReceiving DEF Next, Server

-----------------------------------------------------------------------------
(* One place for each request.                                             *)

(* A step that takes a request nowhere.                                    *)
LEMMA PlaceFrame ==
  ASSUME NEW r, OnePlace(r),
         r \in toSend' => r \in toSend,
         \A i \in haveSent' : owner'[i] = r => i \in haveSent /\ owner[i] = r,
         \A i \in hand'.ids : owner'[i] = r => i \in hand.ids /\ owner[i] = r,
         \A i \in (Flying \ seen)' : owner'[i] = r => i \in Flying \ seen /\ owner[i] = r,
         r \in delayed' => r \in delayed, r \in answered' => r \in answered,
         Got(r)' => Got(r), Once(r)',
         msgId'[r] = msgId[r],
         r \in toSend' /\ msgId[r] \in resending => msgId[r] \in resending'
  PROVE  OnePlace(r)'
<1>1. Done(r)' => Done(r)
  BY DEF Done
<1>2. /\ r \in Owners(haveSent)' => r \in Owners(haveSent)
      /\ r \in Owners(hand.ids)' => r \in Owners(hand.ids)
  BY DEF Owners
<1> QED BY <1>1, <1>2 DEF OnePlace

(* The first answer is taken.                                              *)
LEMMA GotTail ==
  ASSUME IInv, received /= <<>>, received' = Tail(received), NEW r, Once(r)
  PROVE  /\ Got(r)' => Got(r)
         /\ Once(r)'
         /\ Head(received).request = r => Got(r) /\ ~Got(r)'
<1>1. /\ Head(received) = received[1] /\ 1 \in DOMAIN received
      /\ \A i \in DOMAIN Tail(received) :
           i \in Nat \ {0} /\ i + 1 \in DOMAIN received /\ Tail(received)[i] = received[i + 1]
  BY TailOf DEF IInv, Types
<1>2. \A i, j \in DOMAIN Tail(received) : i + 1 = j + 1 => i = j
  BY <1>1
<1>3. \A i \in DOMAIN Tail(received) : i + 1 /= 1
  BY <1>1
<1> QED BY <1>1, <1>2, <1>3 DEF Got, Once

(* An answer is added.                                                     *)
LEMMA GotAppend ==
  ASSUME IInv, NEW e \in [request : Requests, error : BOOLEAN],
         received' = Append(received, e), NEW r, Once(r), ~(Got(r) /\ e.request = r)
  PROVE  /\ Got(r)' => Got(r) \/ e.request = r
         /\ Once(r)'
<1>1. received \in Seq([request : Requests, error : BOOLEAN])
  BY DEF IInv, Types
<1>2. \A i \in DOMAIN received' :
        \/ i \in DOMAIN received /\ received'[i] = received[i]
        \/ i = Len(received) + 1 /\ received'[i] = e
  BY <1>1, AppendOf
<1>3. CASE e.request = r
  <2>1. \A i \in DOMAIN received : received[i].request /= r
    BY <1>3 DEF Got
  <2>2. \A i \in DOMAIN received' : received'[i].request = r => i = Len(received) + 1
    BY <1>2, <2>1
  <2> QED BY <1>3, <2>2 DEF Once
<1>4. CASE e.request /= r
  <2>1. \A i \in DOMAIN received' :
          received'[i].request = r => i \in DOMAIN received /\ received[i].request = r
    BY <1>2, <1>4
  <2> QED BY <2>1 DEF Got, Once
<1> QED BY <1>3, <1>4

(* What is to be said of a request that was not refused.                   *)
Placed == \A r \in Requests \ refused : OnePlace(r)

(* The main thread.                                                        *)
LEMMA PlacedMain ==
  ASSUME IInv,
         \/ MainStep
         \/ \E r \in Requests : Send(r) \/ CancelBegin(r)
  PROVE  Placed'
<1> SUFFICES ASSUME NEW r \in Requests, r \notin refused'
             PROVE  OnePlace(r)'
  BY DEF Placed
<1>1. Types /\ Given
  BY DEF IInv
<1>2. UNCHANGED <<privateVars, hand, netVars, server, refused>>
  BY DEF MainStep, Send, CancelBegin, CancelToSend, CancelHaveSent, CancelCallback, HandleResponse,
         Restore, checkDelayedRequests
<1>3. OnePlace(r)
  BY <1>2 DEF IInv
<1>4. Flying' = Flying
  BY <1>2 DEF Flying
<1>5. ASSUME r \in toSend' => r \in toSend, haveSent' \subseteq haveSent,
             r \in delayed' => r \in delayed, r \in answered' => r \in answered,
             Got(r)' => Got(r), Once(r)',
             msgId'[r] = msgId[r]
      PROVE  OnePlace(r)'
  BY <1>2, <1>3, <1>4, <1>5, PlaceFrame
<1>6. received' = received => (Got(r)' => Got(r)) /\ Once(r)'
  BY <1>3 DEF OnePlace, Got, Once
<1>7. ASSUME NEW q \in Requests, Send(q) PROVE OnePlace(r)'
  <2>1. CASE r /= q
    BY <1>1, <1>5, <1>6, <1>7, <2>1 DEF Send, sendPrepared, Types
  <2>2. CASE r = q
    <3>1. r \notin asked
      BY <1>7, <2>2 DEF Send
    <3>2. \A i \in haveSent \cup hand.ids \cup Flying : owner[i] /= r
      BY <1>1, <3>1, SessionAssumption DEF Given
    <3>3. \A k \in DOMAIN received : received[k].request /= r
      BY <1>1, <3>1 DEF Given
    <3>4. r \notin delayed \cup answered
      BY <1>1, <3>1 DEF Types
    <3>5. msgId'[r] = 0 /\ UNCHANGED <<delayed, answered, received, haveSent>>
      BY <1>1, <1>7, <2>2 DEF Send, sendPrepared, Types
    <3>6. ~Done(r)' /\ ~Got(r)' /\ Once(r)'
      BY <3>3, <3>4, <3>5 DEF Done, Got, Once
    <3>7. r \notin Owners(haveSent)' /\ r \notin Owners(hand.ids)'
      BY <1>2, <3>2, <3>5 DEF Owners
    <3> QED BY <1>2, <1>4, <3>2, <3>4, <3>5, <3>6, <3>7 DEF OnePlace
  <2> QED BY <2>1, <2>2
<1>8. ASSUME NEW q \in Requests, CancelBegin(q) PROVE OnePlace(r)'
  BY <1>5, <1>6, <1>8 DEF CancelBegin
<1>9. CASE CancelToSend
  BY <1>5, <1>6, <1>9 DEF CancelToSend
<1>10. CASE CancelHaveSent
  BY <1>5, <1>6, <1>10 DEF CancelHaveSent
<1>11. CASE CancelCallback
  BY <1>5, <1>6, <1>11 DEF CancelCallback
<1>12. CASE Restore
  BY <1>5, <1>6, <1>12 DEF Restore
<1>13. CASE HandleResponse
  <2> DEFINE q == Head(received).request
  <2>1. received /= <<>> /\ received' = Tail(received) /\ haveSent' = haveSent
    BY <1>13 DEF HandleResponse
  <2>2. (Got(r)' => Got(r)) /\ Once(r)' /\ (q = r => Got(r) /\ ~Got(r)')
    BY <1>3, <2>1, GotTail DEF OnePlace
  <2>3. CASE q /= r \/ q \notin callback
    BY <1>1, <1>5, <1>13, <2>1, <2>2, <2>3 DEF HandleResponse, sendPrepared, Types
  <2>4. CASE q = r /\ q \in callback
    <3>1. Got(r) /\ ~Got(r)' /\ Done(r)
      BY <2>2, <2>4 DEF Done
    <3>2. /\ r \notin toSend \cup Owners(haveSent) \cup Owners(hand.ids) \cup delayed \cup answered
          /\ \A i \in Flying \ seen : owner[i] /= r
      BY <1>3, <3>1 DEF OnePlace
    <3>3. Owners(haveSent)' = Owners(haveSent) /\ Owners(hand.ids)' = Owners(hand.ids)
      BY <1>2, <2>1 DEF Owners
    <3>4. \A i \in (Flying \ seen)' : owner'[i] /= r
      BY <1>2, <1>4, <3>2
    <3>5. \A i \in haveSent' \cup hand'.ids : owner'[i] /= r
      BY <1>2, <2>1, <3>2 DEF Owners
    <3>6. CASE ~Head(received).error
      <4>1. toSend' = toSend /\ delayed' = delayed \ {r} /\ answered' = answered \cup {r}
        BY <1>13, <2>4, <3>6 DEF HandleResponse
      <4> QED BY <2>2, <3>1, <3>2, <3>3, <3>4, <3>5, <4>1 DEF OnePlace
    <3>7. CASE Head(received).error /\ toSend' = toSend /\ delayed' = delayed \cup {r}
                 /\ answered' = answered
      BY <2>2, <3>1, <3>2, <3>3, <3>4, <3>5, <3>7 DEF OnePlace
    <3>8. CASE Head(received).error /\ sendPrepared(r) /\ delayed' = delayed /\ answered' = answered
      <4>1. msgId'[r] = 0
        BY <1>1, <3>8 DEF sendPrepared, Types
      <4>2. ~Done(r)'
        BY <3>1, <3>2, <3>8 DEF Done
      <4> QED BY <2>2, <3>1, <3>2, <3>3, <3>4, <3>5, <3>8, <4>1, <4>2 DEF OnePlace
    <3> QED BY <1>13, <2>4, <3>6, <3>7, <3>8 DEF HandleResponse
  <2> QED BY <2>3, <2>4
<1>14. ASSUME NEW q \in Requests, checkDelayedRequests(q) PROVE OnePlace(r)'
  <2>1. CASE r /= q
    BY <1>1, <1>5, <1>6, <1>14, <2>1 DEF checkDelayedRequests, sendPrepared, Types
  <2>2. CASE r = q
    <3>1. Done(r) /\ r \in delayed /\ ~Got(r) /\ r \notin answered
      BY <1>3, <1>14, <2>2 DEF checkDelayedRequests, Done, OnePlace
    <3>2. /\ r \notin toSend \cup Owners(haveSent) \cup Owners(hand.ids)
          /\ \A i \in Flying \ seen : owner[i] /= r
      BY <1>3, <3>1 DEF OnePlace
    <3>3. msgId'[r] = 0 /\ delayed' = delayed \ {r}
          /\ UNCHANGED <<answered, received, haveSent>>
      BY <1>1, <1>14, <2>2 DEF checkDelayedRequests, sendPrepared, Types
    <3>4. ~Done(r)' /\ ~Got(r)' /\ Once(r)'
      BY <1>3, <3>1, <3>3 DEF Done, Got, Once, OnePlace
    <3>5. Owners(haveSent)' = Owners(haveSent) /\ Owners(hand.ids)' = Owners(hand.ids)
      BY <1>2, <3>3 DEF Owners
    <3>6. \A i \in haveSent' \cup hand'.ids : owner'[i] /= r
      BY <1>2, <3>2, <3>3 DEF Owners
    <3>7. \A i \in (Flying \ seen)' : owner'[i] /= r
      BY <1>2, <1>4, <3>2
    <3> QED BY <3>1, <3>2, <3>3, <3>4, <3>5, <3>6, <3>7 DEF OnePlace
  <2> QED BY <2>1, <2>2
<1> QED BY <1>7, <1>8, <1>9, <1>10, <1>11, <1>12, <1>13, <1>14 DEF MainStep

(* One request goes alone: from toSend to hand.                            *)
LEMMA PlacedSingle ==
  ASSUME IInv, NEW q \in Requests, TryToSendSingle(q),
         NEW r \in Requests, OnePlace(r)
  PROVE  OnePlace(r)'
<1>1. Types /\ Given /\ Last \in Nat
  BY LenProperties DEF IInv, Types, Last
<1>2. /\ owner'[Last + 1] = q
      /\ \A i \in 1 .. Last : owner'[i] = owner[i]
  BY <1>1, AppendProperties DEF TryToSendSingle, Types, Last
<1>3. /\ toSend = {q} /\ toSend' = {} /\ hand = EmptyHand /\ hand'.ids = {Last + 1}
      /\ msgId' = [msgId EXCEPT ![q] = Last + 1] /\ msgId[q] = 0
      /\ UNCHANGED <<haveSent, seen, delayed, answered, received, resending, netVars, server>>
  BY DEF TryToSendSingle, ThreadIdle
<1>4. Flying' = Flying /\ (Done(r)' <=> Done(r)) /\ (Got(r)' <=> Got(r)) /\ (Once(r)' <=> Once(r))
  BY <1>3 DEF Flying, Done, Got, Once
<1>5. \A i \in haveSent \cup Flying : owner'[i] = owner[i] /\ i \in 1 .. Last
  BY <1>1, <1>2 DEF Given
<1>6. Owners(haveSent)' = Owners(haveSent) /\ Owners(hand.ids)' = {q} /\ hand.ids = {}
  BY <1>2, <1>3, <1>5 DEF Owners, EmptyHand
<1>7. CASE r /= q
  <2>1. msgId'[r] = msgId[r] /\ r \notin toSend' /\ r \notin Owners(hand.ids)'
        /\ \A i \in hand'.ids : owner'[i] /= r
    BY <1>1, <1>2, <1>3, <1>6, <1>7 DEF Types
  <2> QED BY <1>3, <1>4, <1>5, <1>6, <2>1 DEF OnePlace
<1>8. CASE r = q
  <2>1. ~Done(r) /\ \A i \in haveSent : owner[i] /= r
    BY <1>3, <1>8 DEF OnePlace, Owners
  <2>2. \A i \in Flying \ seen : owner[i] /= r
    BY <1>1, <1>3, <1>5, <1>8 DEF OnePlace
  <2>3. msgId'[r] = Last + 1
    BY <1>1, <1>3, <1>8 DEF Types
  <2> QED BY <1>3, <1>4, <1>5, <1>6, <2>1, <2>2, <2>3, <1>8 DEF OnePlace, Done, Owners
<1> QED BY <1>7, <1>8

(* Some go in a container: from toSend to haveSent.  An id that changes    *)
(* was never sent in this session.                                         *)
LEMMA PlacedContainer ==
  ASSUME IInv, NEW batch \in SUBSET toSend, TryToSendContainer(batch),
         NEW r \in Requests, OnePlace(r)
  PROVE  OnePlace(r)'
<1>1. Types /\ Given /\ Last \in Nat
  BY LenProperties DEF IInv, Types, Last
<1>2. /\ \A i \in 1 .. Last : owner'[i] = owner[i]
      /\ \A q \in batch : owner'[NewId(batch, q)] = q
      /\ \A i \in 1 .. Last : owner'[NewName(batch, i)] = owner[i]
      /\ haveSent' = {NewName(batch, i) : i \in haveSent} \cup {NewId(batch, q) : q \in batch}
      /\ resending' = {NewName(batch, i) : i \in resending \ {msgId[q] : q \in batch}}
      /\ Flying' = Flying \cup {NewId(batch, q) : q \in batch}
      /\ msgId' = [q \in Requests |-> IF q \in batch THEN NewId(batch, q) ELSE msgId[q]]
  BY ContainerOf
<1>3. /\ toSend' = toSend \ batch /\ hand = EmptyHand
      /\ UNCHANGED <<hand, seen, delayed, answered, received>>
  BY DEF TryToSendContainer, ThreadIdle
<1>4. (Done(r)' <=> Done(r)) /\ (Got(r)' <=> Got(r)) /\ (Once(r)' <=> Once(r))
      /\ hand.ids = {} /\ hand'.ids = {} /\ Owners(hand.ids)' = {}
  BY <1>3 DEF Done, Got, Once, EmptyHand, Owners
<1>5. haveSent \subseteq 1 .. Last /\ Flying \subseteq 1 .. Last /\ resending \subseteq 1 .. Last
  BY <1>1 DEF Given
<1>6. \A i \in 1 .. Last : owner[i] \notin batch => NewName(batch, i) = i
  BY BatchOf DEF NewName
<1>7. CASE r \notin batch
  <2>1. \A i \in haveSent' : owner'[i] = r => i \in haveSent /\ owner[i] = r
    <3> SUFFICES ASSUME NEW i \in haveSent', owner'[i] = r PROVE i \in haveSent /\ owner[i] = r
      OBVIOUS
    <3>1. \A q \in batch : i /= NewId(batch, q)
      BY <1>2, <1>7
    <3>2. PICK j \in haveSent : i = NewName(batch, j)
      BY <1>2, <3>1
    <3>3. owner[j] = r
      BY <1>2, <1>5, <3>2
    <3> QED BY <1>5, <1>6, <1>7, <3>2, <3>3
  <2>2. \A i \in (Flying \ seen)' : owner'[i] = r => i \in Flying \ seen /\ owner[i] = r
    BY <1>2, <1>3, <1>5, <1>7
  <2>3. msgId'[r] = msgId[r]
    BY <1>2, <1>7
  <2>4. r \in toSend' /\ msgId[r] \in resending => msgId[r] \in resending'
    <3> SUFFICES ASSUME msgId[r] \in resending PROVE msgId[r] \in resending'
      OBVIOUS
    <3>1. owner[msgId[r]] = r /\ msgId[r] \in 1 .. Last
      BY <1>1, <1>5 DEF Given
    <3>2. \A q \in batch : msgId[q] /= msgId[r]
      <4> SUFFICES ASSUME NEW q \in batch, msgId[q] = msgId[r] PROVE FALSE
        OBVIOUS
      <4>1. q \in Requests /\ msgId[q] /= 0
        BY <1>1, <3>1 DEF Types
      <4>2. owner[msgId[q]] = q
        BY <1>1, <4>1 DEF Given
      <4> QED BY <1>7, <3>1, <4>2
    <3>3. NewName(batch, msgId[r]) = msgId[r]
      BY <1>6, <1>7, <3>1
    <3> QED BY <1>2, <3>2, <3>3
  <2> QED BY <1>3, <1>4, <2>1, <2>2, <2>3, <2>4, PlaceFrame DEF OnePlace
<1>8. CASE r \in batch
  <2>1. r \in toSend /\ r \notin toSend' /\ ~Done(r) /\ \A i \in haveSent : owner[i] /= r
    BY <1>3, <1>8 DEF OnePlace, Owners
  <2>2. msgId'[r] = NewId(batch, r)
    BY <1>2, <1>8
  <2>3. \A i \in haveSent' : owner'[i] = r => i = msgId'[r]
    <3> SUFFICES ASSUME NEW i \in haveSent', owner'[i] = r PROVE i = NewId(batch, r)
      BY <2>2
    <3>1. \A j \in haveSent : i /= NewName(batch, j)
      BY <1>2, <1>5, <2>1
    <3>2. PICK q \in batch : i = NewId(batch, q)
      BY <1>2, <3>1
    <3> QED BY <1>2, <3>2
  <2>4. \A i \in Flying \ seen : owner[i] = r => i = NewId(batch, r)
    <3> SUFFICES ASSUME NEW i \in Flying \ seen, owner[i] = r PROVE i = NewId(batch, r)
      OBVIOUS
    <3>1. i = msgId[r] /\ i /= 0 /\ started
      BY <1>1, <1>5 DEF OnePlace, Given
    <3>2. r \notin Fresh(batch)
      BY <3>1 DEF Fresh
    <3> QED BY <3>1, <3>2 DEF NewId
  <2>5. \A i \in (Flying \ seen)' : owner'[i] = r => i = msgId'[r]
    <3> SUFFICES ASSUME NEW i \in (Flying \ seen)', owner'[i] = r PROVE i = NewId(batch, r)
      BY <2>2
    <3>1. CASE i \in Flying
      BY <1>2, <1>3, <1>5, <2>4, <3>1
    <3>2. CASE i \notin Flying
      BY <1>2, <3>2
    <3> QED BY <3>1, <3>2
  <2>6. r \notin Owners(hand.ids)' /\ ~Done(r)' /\ ~Got(r)' /\ r \notin delayed' \cup answered' /\ Once(r)'
    BY <1>3, <1>4, <2>1 DEF Done, OnePlace
  <2> QED BY <1>4, <2>1, <2>3, <2>5, <2>6 DEF OnePlace
<1> QED BY <1>7, <1>8

(* The session's thread, sending and putting back.                         *)
LEMMA PlacedThread ==
  ASSUME IInv,
         \/ Sending \/ Ping \/ Resending \/ CheckSent \/ Connect \/ Lose
         \/ \E c \in containers : clearOldContainers(c)
  PROVE  Placed'
<1> SUFFICES ASSUME NEW r \in Requests, r \notin refused'
             PROVE  OnePlace(r)'
  BY DEF Placed
<1>1. Types /\ Given
  BY DEF IInv
<1>2. UNCHANGED <<mainVars, seen>>
  BY DEF Sending, Ping, Resending, CheckSent, Connect, Lose, clearOldContainers, TryToSendNothing,
         TryToSendSingle, TryToSendContainer, PutHaveSent, PutToSend, TakeHaveSent, checkSentRequests
<1>3. OnePlace(r)
  BY <1>2 DEF IInv
<1>4. (Done(r)' <=> Done(r)) /\ (Got(r)' <=> Got(r)) /\ (Once(r)' <=> Once(r))
  BY <1>2 DEF Done, Got, Once
<1>5. ASSUME UNCHANGED <<toSend, haveSent, hand, msgId, owner, resending>>, Flying' \subseteq Flying
      PROVE  OnePlace(r)'
  BY <1>2, <1>3, <1>4, <1>5, PlaceFrame DEF OnePlace
<1>6. UNCHANGED netVars /\ UNCHANGED server => Flying' = Flying
  BY DEF Flying
<1>7. CASE TryToSendNothing
  BY <1>5, <1>6, <1>7 DEF TryToSendNothing
<1>8. CASE PutHaveSent
  <2>1. Flying' = Flying \cup hand.ids
    BY <1>8, PutHaveSentIds
  <2>2. haveSent' = haveSent \cup hand.ids /\ hand'.ids = {}
        /\ UNCHANGED <<toSend, msgId, owner, resending>>
    BY <1>8 DEF PutHaveSent, EmptyHand
  <2>3. r \in Owners(haveSent)' <=> r \in Owners(haveSent) \/ r \in Owners(hand.ids)
    BY <2>2 DEF Owners
  <2>4. r \notin Owners(hand.ids)'
    BY <2>2 DEF Owners
  <2>5. \A i \in hand.ids : owner[i] = r => ~Done(r)
    BY <1>3 DEF OnePlace, Owners
  <2> QED BY <1>2, <1>3, <1>4, <2>1, <2>2, <2>3, <2>4, <2>5 DEF OnePlace
<1>9. ASSUME NEW q \in Requests, TryToSendSingle(q) PROVE OnePlace(r)'
  BY <1>3, <1>9, PlacedSingle
<1>10. ASSUME NEW batch \in SUBSET toSend, TryToSendContainer(batch) PROVE OnePlace(r)'
  BY <1>3, <1>10, PlacedContainer
<1>11. CASE Ping
  <2>1. Flying' = Flying
    BY <1>11, PingIds
  <2> QED BY <1>5, <1>11, <2>1 DEF Ping
<1>12. CASE PutToSend
  <2>1. /\ toSend' = toSend \cup Owners(hand.ids) /\ resending' = resending \cup hand.ids
        /\ hand'.ids = {} /\ UNCHANGED <<haveSent, msgId, owner, netVars, server>>
    BY <1>12 DEF PutToSend, EmptyHand
  <2>2. Owners(haveSent)' = Owners(haveSent) /\ r \notin Owners(hand.ids)' /\ Flying' = Flying
    BY <1>6, <2>1 DEF Owners
  <2>3. r \in Owners(hand.ids) => msgId[r] \in hand.ids
    BY <1>3 DEF OnePlace, Owners
  <2> QED BY <1>2, <1>3, <1>4, <2>1, <2>2, <2>3 DEF OnePlace
<1>13. ASSUME NEW i \in todo, TakeHaveSent(i) PROVE OnePlace(r)'
  <2>1. /\ hand.ids = {} /\ haveSent' = haveSent \ {i}
        /\ hand'.ids = {j \in {i} : j \in haveSent}
        /\ UNCHANGED <<toSend, msgId, owner, resending, netVars, server>>
    BY <1>13 DEF TakeHaveSent, EmptyHand
  <2>2. Flying' = Flying
    BY <1>6, <2>1
  <2>3. \A j \in haveSent : owner[j] = r => j = msgId[r]
    BY <1>3 DEF OnePlace
  <2>4. r \in Owners(haveSent)' => r \in Owners(haveSent) /\ ~(i \in haveSent /\ owner[i] = r)
    BY <2>1, <2>3 DEF Owners
  <2>5. r \in Owners(hand.ids)' => r \in Owners(haveSent) /\ i \in haveSent /\ owner[i] = r
    BY <2>1 DEF Owners
  <2> QED BY <1>2, <1>3, <1>4, <2>1, <2>2, <2>4, <2>5 DEF OnePlace
<1>14. CASE CheckSent
  BY <1>5, <1>6, <1>14 DEF CheckSent, checkSentRequests
<1>15. CASE Connect
  <2>1. /\ hand.ids = {} /\ haveSent' = {} /\ hand'.ids = haveSent
        /\ UNCHANGED <<toSend, msgId, owner, resending, toServer, toClient, server>>
    BY <1>15 DEF Connect, EmptyHand, ThreadIdle
  <2>2. Flying' = Flying
    BY <2>1 DEF Flying
  <2>3. r \notin Owners(haveSent)' /\ (r \in Owners(hand.ids)' <=> r \in Owners(haveSent))
    BY <2>1 DEF Owners
  <2> QED BY <1>2, <1>3, <1>4, <2>1, <2>2, <2>3 DEF OnePlace
<1>16. CASE Lose
  <2>1. Flying' \subseteq Flying
    BY <1>16, LoseIds
  <2> QED BY <1>5, <1>16, <2>1 DEF Lose
<1>17. ASSUME NEW c \in containers, clearOldContainers(c) PROVE OnePlace(r)'
  BY <1>5, <1>6, <1>17 DEF clearOldContainers
<1> QED BY <1>7, <1>8, <1>9, <1>10, <1>11, <1>12, <1>13, <1>14, <1>15, <1>16, <1>17
        DEF Sending, Resending

(* An answer that was not seen comes for a request that waits for it, and  *)
(* takes it away from where it waits.                                      *)
LEMMA PlacedResult ==
  ASSUME IInv, ReceiveResult, NEW r \in Requests, OnePlace(r)
  PROVE  OnePlace(r)'
<1> DEFINE m == Head(toClient)
<1>1. Types /\ Given
  BY DEF IInv
<1>2. m \in Messages /\ m.type = "result" /\ m.id \in Flying /\ Flying' \subseteq Flying
  BY <1>1, TailOf, TailIds, ReceivingIds DEF ReceiveResult, Incoming, Flying, Types, Receiving
<1>3. /\ UNCHANGED <<delayed, answered, msgId, owner, hand>> /\ hand.ids = {}
  BY DEF ReceiveResult, Incoming, ThreadIdle, EmptyHand
<1> HIDE DEF m
<1>4. CASE m.id \in seen
  <2>1. UNCHANGED <<received, toSend, haveSent, resending, seen>>
    BY <1>4 DEF ReceiveResult, m
  <2>2. (Got(r)' => Got(r)) /\ Once(r)'
    BY <2>1 DEF OnePlace, Got, Once
  <2> QED BY <1>2, <1>3, <2>1, <2>2, PlaceFrame
<1>5. CASE m.id \notin seen
  <2>1. /\ seen' = seen \cup {m.id}
        /\ requestsAcked({m.id}, TRUE)
        /\ received' = IF wasSent(m.id)
                         THEN Append(received, [request |-> owner[m.id], error |-> m.error])
                         ELSE received
    BY <1>5 DEF ReceiveResult, m
  <2>2. /\ toSend' \subseteq toSend /\ haveSent' \subseteq haveSent
        /\ \A i \in resending \ resending' : owner[i] \notin toSend'
        /\ m.id \notin haveSent' /\ (m.id \in resending \ haveSent => owner[m.id] \notin toSend')
    BY <2>1, AckedOf
  <2>3. r \in toSend' /\ msgId[r] \in resending => msgId[r] \in resending'
    <3>1. msgId[r] \in resending => owner[msgId[r]] = r
      BY <1>1 DEF Given
    <3> QED BY <2>2, <3>1
  <2>4. CASE ~wasSent(m.id) \/ owner[m.id] /= r
    <3>1. (Got(r)' => Got(r)) /\ Once(r)'
      <4>1. CASE ~wasSent(m.id)
        BY <2>1, <4>1 DEF OnePlace, Got, Once
      <4>2. CASE owner[m.id] /= r /\ wasSent(m.id)
        <5> DEFINE e == [request |-> owner[m.id], error |-> m.error]
        <5>1. owner[m.id] \in Requests /\ m.error \in BOOLEAN
          BY <1>1, <1>2 DEF Given, Types, Messages
        <5>2. e \in [request : Requests, error : BOOLEAN] /\ e.request /= r
          BY <4>2, <5>1
        <5>3. received' = Append(received, e)
          BY <2>1, <4>2
        <5> HIDE DEF e
        <5> QED BY <5>2, <5>3, GotAppend DEF OnePlace
      <4> QED BY <2>4, <4>1, <4>2
    <3> QED BY <1>2, <1>3, <2>1, <2>2, <2>3, <3>1, PlaceFrame
  <2>5. CASE wasSent(m.id) /\ owner[m.id] = r
    <3>1. m.id = msgId[r] /\ ~Done(r)
      BY <1>2, <1>5, <2>5 DEF OnePlace
    <3>2. r \notin toSend'
      <4> SUFFICES ASSUME r \in toSend' PROVE FALSE
        OBVIOUS
      <4>1. r \in toSend /\ msgId[r] /= 0
        BY <1>1, <1>2, <2>2, <3>1 DEF Given
      <4>2. m.id \in resending /\ r \notin Owners(haveSent)
        BY <3>1, <4>1 DEF OnePlace
      <4>3. m.id \notin haveSent
        BY <2>5, <4>2 DEF Owners
      <4> QED BY <2>2, <2>5, <4>2, <4>3
    <3>3. \A i \in haveSent' : owner[i] /= r
      BY <2>2, <3>1 DEF OnePlace
    <3>4. \A i \in (Flying \ seen)' : owner[i] /= r
      BY <1>2, <2>1, <3>1 DEF OnePlace
    <3>5. r \notin Owners(haveSent)' /\ r \notin Owners(hand.ids)'
      BY <1>3, <3>3 DEF Owners
    <3>6. Once(r)'
      <4> DEFINE e == [request |-> owner[m.id], error |-> m.error]
      <4>1. owner[m.id] \in Requests /\ m.error \in BOOLEAN
        BY <1>1, <1>2 DEF Given, Types, Messages
      <4>2. e \in [request : Requests, error : BOOLEAN]
        BY <4>1
      <4>3. received' = Append(received, e)
        BY <2>1, <2>5
      <4>4. ~Got(r)
        BY <3>1 DEF Done
      <4> HIDE DEF e
      <4> QED BY <4>2, <4>3, <4>4, GotAppend DEF OnePlace
    <3>7. r \notin delayed' \cup answered'
      BY <1>3, <3>1 DEF Done
    <3> QED BY <1>3, <3>2, <3>3, <3>4, <3>5, <3>6, <3>7 DEF OnePlace
  <2> QED BY <2>4, <2>5
<1> QED BY <1>4, <1>5

(* What comes from the server.                                             *)
LEMMA PlacedReceiving ==
  ASSUME IInv, Receiving
  PROVE  Placed'
<1> SUFFICES ASSUME NEW r \in Requests, r \notin refused'
             PROVE  OnePlace(r)'
  BY DEF Placed
<1>1. Types /\ Given /\ Flying' \subseteq Flying
  BY ReceivingIds DEF IInv
<1>2. UNCHANGED <<delayed, answered, msgId, owner, hand>> /\ refused \subseteq refused'
  BY DEF Receiving, ReceiveResult, ReceiveAck, ReceiveBadSalt, ReceiveBadMsg,
         ReceiveNewSession, ReceiveFatal, ReceiveStates, ReceivePong
<1>3. OnePlace(r)
  BY <1>2 DEF IInv
<1>4. received' = received => (Got(r)' => Got(r)) /\ Once(r)'
  BY <1>3 DEF OnePlace, Got, Once
<1>5. ASSUME UNCHANGED <<toSend, haveSent, resending, seen>>, Got(r)' => Got(r), Once(r)'
      PROVE  OnePlace(r)'
  BY <1>1, <1>2, <1>3, <1>5, PlaceFrame
<1>6. ASSUME NEW ids, requestsAcked(ids, FALSE), UNCHANGED <<received, seen>>
      PROVE  OnePlace(r)'
  <2>1. /\ toSend' \subseteq toSend /\ haveSent' \subseteq haveSent
        /\ \A i \in resending \ resending' : owner[i] \notin toSend'
    BY <1>6, AckedOf
  <2>2. msgId[r] \in resending => owner[msgId[r]] = r
    BY <1>1 DEF Given
  <2>3. r \in toSend' /\ msgId[r] \in resending => msgId[r] \in resending'
    BY <2>1, <2>2
  <2> QED BY <1>1, <1>2, <1>3, <1>4, <1>6, <2>1, <2>3, PlaceFrame
<1>7. CASE ReceiveResult
  BY <1>3, <1>7, PlacedResult
<1>8. CASE ReceiveAck
  BY <1>6, <1>8 DEF ReceiveAck
<1>9. CASE ReceiveBadSalt
  BY <1>4, <1>5, <1>9 DEF ReceiveBadSalt
<1>10. CASE ReceiveBadMsg
  <2>1. CASE wasSent(Head(toClient).id)
    <3>1. Flying' = {} /\ UNCHANGED <<toSend, haveSent, resending, received>>
      BY <1>10, <2>1, EmptyIds DEF ReceiveBadMsg, Disconnect, NewServer, Flying
    <3> QED BY <1>2, <1>3, <1>4, <3>1, PlaceFrame
  <2>2. CASE ~wasSent(Head(toClient).id)
    BY <1>4, <1>5, <1>10, <2>2 DEF ReceiveBadMsg
  <2> QED BY <2>1, <2>2
<1>11. CASE ReceiveNewSession
  BY <1>4, <1>5, <1>11 DEF ReceiveNewSession
<1>12. CASE ReceiveFatal
  <2> DEFINE id == Head(toClient).id
  <2>1. CASE id = 0 \/ ~wasSent(id) \/ owner[id] = 0
    BY <1>4, <1>5, <1>12, <2>1 DEF ReceiveFatal
  <2>2. CASE ~(id = 0 \/ ~wasSent(id) \/ owner[id] = 0)
    <3> DEFINE e == [request |-> owner[id], error |-> TRUE]
    <3>1. received' = Append(received, e) /\ owner[id] \in refused'
          /\ UNCHANGED <<toSend, haveSent, resending, seen>>
      BY <1>12, <2>2 DEF ReceiveFatal
    <3>2. id \in 1 .. Last
      BY <1>1, <2>2 DEF wasSent, Given
    <3>3. owner[id] \in Requests /\ owner[id] /= r
      BY <1>1, <2>2, <3>1, <3>2 DEF Given, Types
    <3>4. e \in [request : Requests, error : BOOLEAN] /\ e.request /= r
      BY <3>3
    <3> HIDE DEF e
    <3>5. (Got(r)' => Got(r)) /\ Once(r)'
      BY <1>3, <3>1, <3>4, GotAppend DEF OnePlace
    <3> QED BY <1>5, <3>1, <3>5
  <2> QED BY <2>1, <2>2
<1>13. CASE ReceiveStates
  BY <1>6, <1>13 DEF ReceiveStates
<1>14. CASE ReceivePong
  BY <1>4, <1>5, <1>14 DEF ReceivePong
<1> QED BY <1>7, <1>8, <1>9, <1>10, <1>11, <1>12, <1>13, <1>14 DEF Receiving

(* One place for each request, in every step.                              *)
LEMMA PlacedNext ==
  ASSUME IInv, [Next]_vars
  PROVE  Placed'
<1>1. ASSUME UNCHANGED <<mainVars, sharedVars, privateVars, threadVars>>, Flying' \subseteq Flying
      PROVE  Placed'
  <2> SUFFICES ASSUME NEW r \in Requests, r \notin refused'
               PROVE  OnePlace(r)'
    BY DEF Placed
  <2>1. OnePlace(r)
    BY <1>1 DEF IInv
  <2>2. (Got(r)' => Got(r)) /\ Once(r)'
    BY <1>1, <2>1 DEF OnePlace, Got, Once
  <2> QED BY <1>1, <2>1, <2>2, PlaceFrame
<1>2. CASE UNCHANGED vars
  BY <1>1, <1>2 DEF Flying
<1>3. CASE Server
  BY <1>1, <1>3, ServerOf
<1> QED BY <1>2, <1>3, PlacedMain, PlacedThread, PlacedReceiving DEF Next, Server

(* At first there is nothing.                                              *)
LEMMA InvInit == Init => IInv
<1> SUFFICES ASSUME Init PROVE IInv
  OBVIOUS
<1>1. Types
  BY TypesInit
<1>2. Flying = {} /\ Last = 0
  BY EmptyIds DEF Init, Flying, NewServer, Last
<1>3. Given
  BY <1>2 DEF Init, Given, EmptyHand
<1>4. \A r \in Requests : OnePlace(r)
  BY <1>2 DEF Init, OnePlace, Owners, EmptyHand, Done, Got, Once
<1> QED BY <1>1, <1>3, <1>4 DEF IInv

(* The maps of mtp_instance.cpp and session_private.cpp agree, whatever    *)
(* the two threads, the connection and the server do: a request that was   *)
(* not refused for good is in one place, with one id that is waited for.   *)
THEOREM Inductive == Spec => []IInv
<1>1. Init => IInv
  BY InvInit
<1>2. IInv /\ [Next]_vars => IInv'
  <2>1. IInv /\ [Next]_vars => Types' /\ Given' /\ Placed'
    BY TypesNext, GivenNext, PlacedNext
  <2> QED BY <2>1 DEF IInv, Placed
<1> QED BY <1>1, <1>2, PTL DEF Spec

(* Ids are in what was given, and requests in what was asked.              *)
THEOREM TypeCorrect == Spec => []TypeOK
<1>1. IInv => TypeOK
  BY DEF IInv, Types, Given, TypeOK, Flying
<1> QED BY <1>1, Inductive, PTL

(* An answered request leaves toSendMap() and haveSentMap() for good, even *)
(* when the session's thread had taken it to send it again.                *)
THEOREM AnsweredOnce == Spec => []NotRepeated
<1>1. IInv => NotRepeated
  <2> SUFFICES ASSUME IInv, NEW r \in answered, r \notin refused
               PROVE  r \notin toSend \cup Owners(haveSent) \cup Owners(hand.ids) \cup delayed
    BY DEF NotRepeated
  <2>1. r \in Requests
    BY DEF IInv, Types
  <2> QED BY <2>1 DEF IInv, OnePlace, Done
<1> QED BY <1>1, Inductive, PTL

(* The assertion that is commented out in tryToSend().                     *)
THEOREM NeverSentTwice == Spec => []SentOnce
<1>1. IInv => SentOnce
  <2> SUFFICES ASSUME IInv, NEW r \in toSend, r \notin refused
               PROVE  msgId[r] \notin haveSent /\ r \notin Owners(haveSent)
    BY DEF SentOnce
  <2>1. r \in Requests
    BY DEF IInv, Types
  <2>2. r \notin Owners(haveSent)
    BY <2>1 DEF IInv, OnePlace
  <2>3. msgId[r] \in haveSent => owner[msgId[r]] = r
    BY <2>1 DEF IInv, Given
  <2> QED BY <2>2, <2>3 DEF Owners
<1> QED BY <1>1, Inductive, PTL

-----------------------------------------------------------------------------
(* No request is forgotten.                                                *)

(* What has happened does not come back.                                   *)
LEMMA LeftDown ==
  ASSUME IInv, [Next]_vars
  PROVE  \A what \in Happenings : left'[what] <= left[what] /\ left'[what] \in Nat
<1>1. left \in [Happenings -> Nat]
  BY DEF IInv, Types
<1>2. \A whats : UseAll(whats) => \A what \in Happenings : left'[what] <= left[what] /\ left'[what] \in Nat
  BY <1>1 DEF UseAll
<1>3. CASE left' = left
  BY <1>1, <1>3
<1>4. CASE Server
  BY <1>4, ServerOf
<1>5. CASE Lose \/ \E c \in containers : clearOldContainers(c)
  BY <1>2, <1>5 DEF Lose, clearOldContainers, Use
<1>6. CASE \E r \in Requests : Send(r) \/ CancelBegin(r)
  BY <1>2, <1>6 DEF Send, CancelBegin, Use
<1>7. CASE MainStep
  <2>1. left' = left
    BY <1>7 DEF MainStep, CancelToSend, CancelHaveSent, CancelCallback, HandleResponse,
         Restore, checkDelayedRequests
  <2> QED BY <1>3, <2>1
<1>8. CASE Sending \/ Ping \/ Resending \/ CheckSent \/ Connect
  <2>1. left' = left
    BY <1>8 DEF Sending, Ping, Resending, CheckSent, Connect, TryToSendNothing,
         TryToSendSingle, TryToSendContainer, PutHaveSent, PutToSend, TakeHaveSent, checkSentRequests
  <2> QED BY <1>3, <2>1
<1>9. CASE Receiving
  <2>1. left' = left
    BY <1>9 DEF Receiving, ReceiveResult, ReceiveAck, ReceiveBadSalt, ReceiveBadMsg,
         ReceiveNewSession, ReceiveFatal, ReceiveStates, ReceivePong
  <2> QED BY <1>3, <2>1
<1> QED BY <1>3, <1>4, <1>5, <1>6, <1>7, <1>8, <1>9 DEF Next, Server

(* Without acks and questions, none come.                                  *)
LEMMA NoAcksNext ==
  ASSUME IInv, [Next]_vars
  PROVE  (NoAcks => NoAcks') /\ (left.retries = 0 => left'.retries = 0)
<1>1. /\ left'.retries <= left.retries /\ left'.acks <= left.acks /\ left'.checks <= left.checks
      /\ left'.retries \in Nat /\ left'.acks \in Nat /\ left'.checks \in Nat
      /\ left.retries \in Nat /\ left.acks \in Nat /\ left.checks \in Nat
  BY LeftDown DEF Happenings, IInv, Types
<1>2. left.retries = 0 => left'.retries = 0
  BY <1>1
<1>3. ASSUME NoAcks
      PROVE  NoAcks'
  <2>1. left.acks = 0 /\ left.checks = 0 /\ left'.acks = 0 /\ left'.checks = 0 /\ asking = {}
    BY <1>1, <1>3 DEF NoAcks
  <2>2. /\ toServer \in Seq(Packets) /\ toClient \in Seq(Messages)
        /\ \A k \in DOMAIN toServer : toServer[k].states = {}
        /\ \A k \in DOMAIN toClient : toClient[k].type \notin {"ack", "msgs_state_info"}
    BY <1>3 DEF NoAcks, IInv, Types
  <2>3. \A k \in DOMAIN Tail(toServer) : toServer /= <<>> => Tail(toServer)[k].states = {}
    BY <2>2, TailOf
  <2>4. \A k \in DOMAIN Tail(toClient) :
          toClient /= <<>> => Tail(toClient)[k].type \notin {"ack", "msgs_state_info"}
    BY <2>2, TailOf
  <2>5. ASSUME asking' = {}, NEW p \in Packets, p.states = {},
               toServer' = Append(toServer, p), toClient' = toClient
        PROVE  NoAcks'
    <3>1. \A k \in DOMAIN Append(toServer, p) :
            \/ Append(toServer, p)[k] = p
            \/ k \in DOMAIN toServer /\ Append(toServer, p)[k] = toServer[k]
      <4>1. toServer \in Seq(Packets) /\ p \in Packets
        BY <2>2, <2>5
      <4>2. /\ \A i \in DOMAIN toServer : Append(toServer, p)[i] = toServer[i]
            /\ \A i \in DOMAIN Append(toServer, p) \ DOMAIN toServer : Append(toServer, p)[i] = p
        BY ONLY <4>1, AppendOf
      <4> QED BY ONLY <4>2
    <3>2. \A k \in DOMAIN toServer' : toServer'[k].states = {}
      BY <2>2, <2>5, <3>1
    <3> QED BY <2>1, <2>2, <2>5, <3>2 DEF NoAcks
  <2>6. CASE UNCHANGED <<asking, toServer, toClient>>
    BY <2>1, <2>2, <2>6 DEF NoAcks
  <2>7. CASE MainStep \/ \E r \in Requests : Send(r) \/ CancelBegin(r)
    BY <2>6, <2>7 DEF MainStep, Send, CancelBegin, CancelToSend, CancelHaveSent, CancelCallback,
         HandleResponse, Restore, checkDelayedRequests
  <2>8. CASE \/ TryToSendNothing \/ Resending \/ Connect
             \/ \E r \in Requests : TryToSendSingle(r)
             \/ \E c \in containers : clearOldContainers(c)
    BY <2>6, <2>8 DEF TryToSendNothing, TryToSendSingle, Resending, PutToSend, TakeHaveSent,
         Connect, clearOldContainers
  <2>9. CASE PutHaveSent
    <3> DEFINE p == Packet(CHOOSE i \in hand.ids : TRUE, hand.ids, {}, FALSE)
    <3>1. hand.ids /= {} /\ hand.ids \subseteq Nat
      BY <2>9 DEF PutHaveSent, IInv, Types
    <3>2. (CHOOSE i \in hand.ids : TRUE) \in Nat
      BY <3>1
    <3>3. p \in Packets /\ p.states = {}
      BY <3>1, <3>2 DEF Packet, Packets
    <3>4. toServer' = Append(toServer, p) /\ toClient' = toClient /\ asking' = {}
      BY <2>1, <2>9 DEF PutHaveSent
    <3> HIDE DEF p
    <3> QED BY <2>5, <3>3, <3>4
  <2>10. ASSUME NEW batch \in SUBSET toSend, TryToSendContainer(batch)
         PROVE  NoAcks'
    <3> DEFINE ids == {NewId(batch, r) : r \in batch}
               id == IF batch = {} THEN 0 ELSE Last + Cardinality(Fresh(batch)) + 1
               p == Packet(id, ids, asking, FALSE)
    <3>1. Last \in Nat /\ Cardinality(Fresh(batch)) \in Nat /\ Last' \in Nat
          /\ \A r \in batch : NewId(batch, r) \in 1 .. Last'
      BY <2>10, NewIds, ContainerOf
    <3>2. id \in Nat /\ ids \in SUBSET Nat
      BY <3>1
    <3>3. toServer' = Append(toServer, p) /\ toClient' = toClient /\ asking' = {}
      BY <2>10 DEF TryToSendContainer
    <3> HIDE DEF id, ids
    <3>4. p \in Packets /\ p.states = {}
      BY <2>1, <3>2 DEF Packet, Packets
    <3> HIDE DEF p
    <3> QED BY <2>5, <3>3, <3>4
  <2>11. CASE Ping
    <3> DEFINE p == Packet(0, {}, {}, TRUE)
    <3>1. p \in Packets /\ p.states = {}
      BY DEF Packet, Packets
    <3>2. toServer' = Append(toServer, p) /\ toClient' = toClient /\ asking' = {}
      BY <2>1, <2>11 DEF Ping
    <3> HIDE DEF p
    <3> QED BY <2>5, <3>1, <3>2
  <2>12. CASE CheckSent
    BY <1>1, <2>1, <2>12 DEF CheckSent, checkSentRequests
  <2>13. CASE Lose
    BY <2>1, <2>13 DEF Lose, Disconnect, NoAcks
  <2>14. CASE Receiving
    <3>1. asking' = {} /\ toClient /= <<>>
      BY <2>1, <2>14, ReceivingIds DEF Receiving, ReceiveResult, ReceiveAck, ReceiveBadSalt, ReceiveBadMsg,
         ReceiveNewSession, ReceiveFatal, ReceiveStates, ReceivePong
    <3>2. \/ toServer' = toServer /\ toClient' = Tail(toClient)
          \/ toServer' = <<>> /\ toClient' = <<>>
      BY <2>14 DEF Receiving, ReceiveResult, ReceiveAck, ReceiveBadSalt, ReceiveBadMsg, Disconnect,
         ReceiveNewSession, ReceiveFatal, ReceiveStates, ReceivePong
    <3> QED BY <2>1, <2>2, <2>4, <3>1, <3>2 DEF NoAcks
  <2>15. CASE Serving
    <3>1. PICK p \in Packets, ackIds \in SUBSET Nat :
             /\ p = Head(toServer) /\ toServer /= <<>>
             /\ ackIds /= {} => left.acks > 0
             /\ toServer' = Tail(toServer) /\ toClient' = toClient \o Replies(p, ackIds)
             /\ UNCHANGED privateVars
      BY <2>15, ServingOf
    <3>2. ackIds = {} /\ p.states = {}
      <4>1. Head(toServer) = toServer[1] /\ 1 \in DOMAIN toServer
        BY <2>2, <3>1, TailOf
      <4> QED BY <2>1, <2>2, <3>1, <4>1
    <3>3. Last \in Nat
      BY LenProperties DEF IInv, Types, Last
    <3>4. Replies(p, ackIds) \in Seq(Messages)
          /\ \A k \in DOMAIN Replies(p, ackIds) :
               Replies(p, ackIds)[k].type \notin {"ack", "msgs_state_info"}
      BY <3>2, <3>3, RepliesOf
    <3>5. \A k \in DOMAIN toClient' : toClient'[k].type \notin {"ack", "msgs_state_info"}
      BY <2>2, <3>1, <3>4, ConcatOf
    <3> QED BY <2>1, <2>3, <3>1, <3>5 DEF NoAcks
  <2>16. ASSUME NEW type \in {"bad_server_salt", "bad_msg_notification", "fatal"},
                NEW what \in Happenings, ServerRefuse(type, what)
         PROVE  NoAcks'
    <3>1. PICK m \in Messages :
             /\ m.type = type /\ toServer /= <<>>
             /\ toServer' = Tail(toServer) /\ toClient' = toClient \o <<m>>
             /\ UNCHANGED privateVars
      BY <2>16, RefusalOf
    <3>2. toClient' = Append(toClient, m)
      BY <2>2, <3>1, AppendIsConcat
    <3>3. \A k \in DOMAIN toClient' : toClient'[k].type \notin {"ack", "msgs_state_info"}
      BY <2>2, <3>1, <3>2, AppendOf
    <3> QED BY <2>1, <2>3, <3>1, <3>3 DEF NoAcks
  <2>17. ASSUME NEW id \in server.got, ServerAnswer(id)
         PROVE  NoAcks'
    <3>1. PICK m \in Messages :
             /\ m.type = "result"
             /\ toClient' = Append(toClient, m)
             /\ UNCHANGED <<privateVars, toServer>>
      BY <2>17, AnswerOf
    <3>2. \A k \in DOMAIN toClient' : toClient'[k].type \notin {"ack", "msgs_state_info"}
      BY <2>2, <3>1, AppendOf
    <3> QED BY <2>1, <2>2, <3>1, <3>2 DEF NoAcks
  <2>18. CASE ServerForget
    BY <2>6, <2>18 DEF ServerForget
  <2>19. {"salts", "resets", "fatals"} \subseteq Happenings
    BY DEF Happenings
  <2>20. CASE Sending
    BY <2>8, <2>9, <2>10, <2>20 DEF Sending
  <2>21. CASE UNCHANGED vars
    BY <2>6, <2>21
  <2> QED BY <2>7, <2>8, <2>11, <2>12, <2>13, <2>14, <2>15, <2>16, <2>17, <2>18, <2>19, <2>20, <2>21
          DEF Next
<1> QED BY <1>2, <1>3

(* The ids stay whose they are.                                            *)
LEMMA OwnerGrows ==
  ASSUME IInv, [Next]_vars
  PROVE  \A i \in 1 .. Last : i \in 1 .. Last' /\ owner'[i] = owner[i]
<1>1. Last \in Nat /\ Types
  BY LenProperties DEF IInv, Types, Last
<1>2. CASE owner' = owner
  BY <1>2 DEF Last
<1>3. ASSUME NEW r \in Requests, TryToSendSingle(r)
      PROVE  \A i \in 1 .. Last : i \in 1 .. Last' /\ owner'[i] = owner[i]
  <2>1. Last' = Last + 1 /\ \A i \in 1 .. Last : owner'[i] = owner[i]
    BY <1>1, <1>3, AppendProperties DEF TryToSendSingle, Types, Last
  <2> QED BY <1>1, <2>1
<1>4. ASSUME NEW batch \in SUBSET toSend, TryToSendContainer(batch)
      PROVE  \A i \in 1 .. Last : i \in 1 .. Last' /\ owner'[i] = owner[i]
  BY <1>4, ContainerOf
<1>5. CASE Server \/ UNCHANGED vars
  <2>1. owner' = owner
    BY <1>5, ServerOf
  <2> QED BY <1>2, <2>1
<1>6. CASE MainStep \/ \E r \in Requests : Send(r) \/ CancelBegin(r)
  <2>1. owner' = owner
    BY <1>6 DEF MainStep, CancelToSend, CancelHaveSent, CancelCallback, HandleResponse,
         Restore, checkDelayedRequests, Send, CancelBegin
  <2> QED BY <1>2, <2>1
<1>7. CASE \/ TryToSendNothing \/ PutHaveSent \/ Ping \/ Resending \/ CheckSent \/ Connect \/ Lose
           \/ \E c \in containers : clearOldContainers(c)
  <2>1. owner' = owner
    BY <1>7 DEF TryToSendNothing, PutHaveSent, Ping, Resending, CheckSent, Connect, Lose, PutToSend,
         TakeHaveSent, checkSentRequests, clearOldContainers
  <2> QED BY <1>2, <2>1
<1>8. CASE Receiving
  <2>1. owner' = owner
    BY <1>8 DEF Receiving, ReceiveResult, ReceiveAck, ReceiveBadSalt, ReceiveBadMsg,
         ReceiveNewSession, ReceiveFatal, ReceiveStates, ReceivePong
  <2> QED BY <1>2, <2>1
<1> QED BY <1>3, <1>4, <1>5, <1>6, <1>7, <1>8 DEF Next, Server, Sending

(* What an unseen answer is for owns no container.                         *)
LEMMA ResultInner ==
  ASSUME IInv, NEW i \in Flying
  PROVE  Inner({i}) = {}
BY DEF IInv, Given, Inner

(* The session's thread and the server leave a request somewhere, if it    *)
(* waits for an answer or no acks come.                                    *)
LEMMA HeldThread ==
  ASSUME IInv, NEW r \in Requests, Held(r), r \in callback \/ NoAcks,
         \/ Sending \/ Ping \/ Resending \/ CheckSent \/ Connect \/ Lose
         \/ \E c \in containers : clearOldContainers(c)
         \/ Receiving \/ Server
  PROVE  Held(r)'
<1>1. Types /\ Given /\ Last \in Nat
  BY LenProperties DEF IInv, Types, Last
<1>2. haveSent \subseteq 1 .. Last /\ hand.ids \subseteq 1 .. Last
  BY <1>1 DEF Given
<1>3. received' = received => (Got(r)' <=> Got(r))
  BY DEF Got
<1>4. ASSUME \A i \in 1 .. Last : owner'[i] = owner[i]
      PROVE  Owners(haveSent) \subseteq {owner'[i] : i \in haveSent}
             /\ Owners(hand.ids) \subseteq {owner'[i] : i \in hand.ids}
  BY <1>2, <1>4 DEF Owners
<1>5. CASE UNCHANGED <<toSend, haveSent, hand, owner, delayed, received>>
  BY <1>3, <1>5 DEF Held, Owners
<1>6. CASE \/ TryToSendNothing \/ Ping \/ CheckSent \/ Lose
           \/ \E c \in containers : clearOldContainers(c)
  BY <1>5, <1>6 DEF TryToSendNothing, Ping, CheckSent, checkSentRequests, Lose, clearOldContainers
<1>7. CASE Server
  BY <1>5, <1>7, ServerOf
<1>8. CASE PutHaveSent
  <2>1. haveSent' = haveSent \cup hand.ids /\ UNCHANGED <<toSend, owner, delayed, received>>
    BY <1>8 DEF PutHaveSent
  <2> QED BY <1>3, <2>1 DEF Held, Owners
<1>9. ASSUME NEW q \in Requests, TryToSendSingle(q) PROVE Held(r)'
  <2>1. owner'[Last + 1] = q /\ \A i \in 1 .. Last : owner'[i] = owner[i]
    BY <1>1, <1>9, AppendProperties DEF TryToSendSingle, Types, Last
  <2>2. toSend = {q} /\ hand'.ids = {Last + 1} /\ UNCHANGED <<haveSent, delayed, received>>
        /\ hand.ids = {}
    BY <1>9 DEF TryToSendSingle, ThreadIdle, EmptyHand
  <2> QED BY <1>2, <1>3, <2>1, <2>2 DEF Held, Owners
<1>10. ASSUME NEW batch \in SUBSET toSend, TryToSendContainer(batch) PROVE Held(r)'
  <2>1. /\ \A q \in batch : owner'[NewId(batch, q)] = q
        /\ \A i \in 1 .. Last : owner'[NewName(batch, i)] = owner[i]
        /\ haveSent' = {NewName(batch, i) : i \in haveSent} \cup {NewId(batch, q) : q \in batch}
    BY <1>10, ContainerOf
  <2>2. toSend' = toSend \ batch /\ hand.ids = {} /\ UNCHANGED <<delayed, received>>
    BY <1>10 DEF TryToSendContainer, ThreadIdle, EmptyHand
  <2>3. r \in Owners(haveSent) \cup batch => r \in Owners(haveSent)'
    BY <1>2, <2>1 DEF Owners
  <2>4. r \notin Owners(hand.ids)
    BY <2>2 DEF Owners
  <2> QED BY <1>3, <2>2, <2>3, <2>4 DEF Held
<1>11. CASE PutToSend
  <2>1. toSend' = toSend \cup Owners(hand.ids) /\ UNCHANGED <<haveSent, owner, delayed, received>>
    BY <1>11 DEF PutToSend
  <2> QED BY <1>3, <2>1 DEF Held, Owners
<1>12. ASSUME NEW i \in todo, TakeHaveSent(i) PROVE Held(r)'
  <2>1. /\ hand.ids = {} /\ haveSent' = haveSent \ {i}
        /\ i \in haveSent => hand'.ids = {i}
        /\ UNCHANGED <<toSend, owner, delayed, received>>
    BY <1>12 DEF TakeHaveSent, EmptyHand
  <2>2. r \in Owners(haveSent) => r \in Owners(haveSent)' \/ r \in Owners(hand.ids)'
    BY <2>1 DEF Owners
  <2>3. r \notin Owners(hand.ids)
    BY <2>1 DEF Owners
  <2> QED BY <1>3, <2>1, <2>2, <2>3 DEF Held
<1>13. CASE Connect
  <2>1. hand.ids = {} /\ hand'.ids = haveSent /\ UNCHANGED <<toSend, owner, delayed, received>>
    BY <1>13 DEF Connect, EmptyHand, ThreadIdle
  <2>2. r \in Owners(haveSent) => r \in Owners(hand.ids)'
    BY <2>1 DEF Owners
  <2>3. r \notin Owners(hand.ids)
    BY <2>1 DEF Owners
  <2> QED BY <1>3, <2>1, <2>2, <2>3 DEF Held
<1>14. ASSUME NEW ids, requestsAcked(ids, FALSE), r \in callback,
              UNCHANGED <<hand, owner, delayed, received>>
       PROVE  Held(r)'
  <2>1. /\ \A i \in haveSent \ haveSent' : owner[i] \notin callback
        /\ \A q \in toSend \ toSend' : q \notin callback
    BY <1>14, AckedOf
  <2>2. r \in Owners(haveSent) => r \in Owners(haveSent)'
    BY <1>14, <2>1 DEF Owners
  <2>3. r \in toSend => r \in toSend'
    BY <1>14, <2>1
  <2> QED BY <1>3, <1>14, <2>2, <2>3 DEF Held, Owners
<1>15. CASE ReceiveAck \/ ReceiveStates
  <2>1. toClient /= <<>> /\ Head(toClient).type \in {"ack", "msgs_state_info"}
        /\ toClient \in Seq(Messages)
    BY <1>1, <1>15 DEF ReceiveAck, ReceiveStates, Incoming, Types
  <2>2. Head(toClient) = toClient[1] /\ 1 \in DOMAIN toClient
    BY <2>1, TailOf
  <2>3. r \in callback
    BY <2>1, <2>2 DEF NoAcks
  <2> QED BY <1>14, <1>15, <2>3 DEF ReceiveAck, ReceiveStates
<1>16. CASE ReceiveResult
  <2> DEFINE m == Head(toClient)
  <2>1. m \in Messages /\ m.type = "result" /\ m.id \in Flying
    BY <1>1, <1>16, TailOf, TailIds DEF ReceiveResult, Incoming, Flying, Types
  <2>2. UNCHANGED <<owner, hand, delayed>>
    BY <1>16 DEF ReceiveResult
  <2> HIDE DEF m
  <2>3. CASE m.id \in seen
    <3>1. UNCHANGED <<toSend, haveSent, received>>
      BY <1>16, <2>3 DEF ReceiveResult, m
    <3> QED BY <1>5, <2>2, <3>1
  <2>4. CASE m.id \notin seen
    <3>1. /\ requestsAcked({m.id}, TRUE)
          /\ received' = IF wasSent(m.id)
                           THEN Append(received, [request |-> owner[m.id], error |-> m.error])
                           ELSE received
      BY <1>16, <2>4 DEF ReceiveResult, m
    <3>2. Inner({m.id}) = {}
      BY <2>1, ResultInner
    <3>3. /\ haveSent \ haveSent' = haveSent \cap {m.id}
          /\ toSend \ toSend' \subseteq Owners(({m.id} \ haveSent) \cap resending)
      BY <3>1, <3>2 DEF requestsAcked
    <3>4. Got(r) => Got(r)'
      <4>1. CASE ~wasSent(m.id)
        BY <1>3, <3>1, <4>1
      <4>2. CASE wasSent(m.id)
        <5> DEFINE e == [request |-> owner[m.id], error |-> m.error]
        <5>1. e \in [request : Requests, error : BOOLEAN]
          BY <1>1, <2>1 DEF Given, Types, Messages
        <5>2. received' = Append(received, e) /\ received \in Seq([request : Requests, error : BOOLEAN])
          BY <1>1, <3>1, <4>2 DEF Types
        <5> HIDE DEF e
        <5>3. \A k \in DOMAIN received : k \in DOMAIN received' /\ received'[k] = received[k]
          BY <5>1, <5>2, AppendOf
        <5> QED BY <5>3 DEF Got
      <4> QED BY <4>1, <4>2
    <3>5. wasSent(m.id) /\ owner[m.id] = r => Got(r)'
      <4> SUFFICES ASSUME wasSent(m.id), owner[m.id] = r PROVE Got(r)'
        OBVIOUS
      <4> DEFINE e == [request |-> owner[m.id], error |-> m.error]
      <4>1. e \in [request : Requests, error : BOOLEAN] /\ e.request = r
        BY <1>1, <2>1 DEF Given, Types, Messages
      <4>2. received' = Append(received, e) /\ received \in Seq([request : Requests, error : BOOLEAN])
        BY <1>1, <3>1 DEF Types
      <4> HIDE DEF e
      <4>3. Len(received) + 1 \in DOMAIN received' /\ received'[Len(received) + 1] = e
        BY <4>1, <4>2, AppendOf
      <4> QED BY <4>1, <4>3 DEF Got
    <3>6. r \in Owners(haveSent) => r \in Owners(haveSent)' \/ Got(r)'
      <4>1. m.id \in haveSent => wasSent(m.id)
        BY DEF wasSent
      <4> QED BY <2>2, <3>3, <3>5, <4>1 DEF Owners
    <3>7. r \in toSend => r \in toSend' \/ Got(r)'
      <4>1. m.id \in resending => wasSent(m.id)
        BY DEF wasSent
      <4> QED BY <3>3, <3>5, <4>1 DEF Owners
    <3> QED BY <2>2, <3>4, <3>6, <3>7 DEF Held, Owners
  <2> QED BY <2>3, <2>4
<1>17. CASE ReceiveFatal
  <2> DEFINE id == Head(toClient).id
  <2>1. UNCHANGED <<toSend, haveSent, hand, owner, delayed>>
    BY <1>17 DEF ReceiveFatal
  <2>2. Got(r) => Got(r)'
    <3>1. CASE id = 0 \/ ~wasSent(id) \/ owner[id] = 0
      BY <1>3, <1>17, <3>1 DEF ReceiveFatal
    <3>2. CASE ~(id = 0 \/ ~wasSent(id) \/ owner[id] = 0)
      <4> DEFINE e == [request |-> owner[id], error |-> TRUE]
      <4>1. received' = Append(received, e) /\ received \in Seq([request : Requests, error : BOOLEAN])
        BY <1>1, <1>17, <3>2 DEF ReceiveFatal, Types
      <4>2. id \in 1 .. Last
        BY <1>1, <3>2 DEF wasSent, Given
      <4>3. owner[id] \in Requests
        BY <1>1, <3>2, <4>2 DEF Given, Types
      <4>4. e \in [request : Requests, error : BOOLEAN]
        BY <4>3
      <4> HIDE DEF e
      <4>5. \A k \in DOMAIN received : k \in DOMAIN received' /\ received'[k] = received[k]
        BY <4>1, <4>4, AppendOf
      <4> QED BY <4>5 DEF Got
    <3> QED BY <3>1, <3>2
  <2> QED BY <2>1, <2>2 DEF Held, Owners
<1>18. CASE ReceiveBadSalt \/ ReceiveBadMsg \/ ReceiveNewSession \/ ReceivePong
  BY <1>5, <1>18 DEF ReceiveBadSalt, ReceiveBadMsg, ReceiveNewSession, ReceivePong
<1> QED BY <1>6, <1>7, <1>8, <1>9, <1>10, <1>11, <1>12, <1>13, <1>15, <1>16, <1>17, <1>18
        DEF Sending, Resending, Receiving

(* An answer that waits for the main thread waits on, unless it is first.  *)
LEMMA GotStays ==
  ASSUME IInv, received /= <<>>, received' = Tail(received), NEW r, Got(r),
         Head(received).request /= r
  PROVE  Got(r)'
<1>1. /\ Head(received) = received[1]
      /\ received \in Seq([request : Requests, error : BOOLEAN])
  BY TailOf DEF IInv, Types
<1>2. PICK k \in DOMAIN received : received[k].request = r
  BY DEF Got
<1>3. /\ Len(received) \in Nat /\ DOMAIN received = 1 .. Len(received)
      /\ Len(Tail(received)) = Len(received) - 1
      /\ DOMAIN Tail(received) = 1 .. Len(Tail(received))
      /\ \A i \in 1 .. Len(Tail(received)) : Tail(received)[i] = received[i + 1]
  BY <1>1, HeadTailProperties, LenProperties
<1>4. k \in 2 .. Len(received)
  BY <1>1, <1>2, <1>3
<1>5. k - 1 \in DOMAIN Tail(received) /\ Tail(received)[k - 1] = received[k]
  BY <1>3, <1>4
<1> QED BY <1>2, <1>5 DEF Got

(* The main thread: what it cancels it takes from the callbacks too, and   *)
(* what it sends again is to be sent before its callback is back.          *)
LEMMA KeptMain ==
  ASSUME IInv, KeptInv,
         \/ MainStep
         \/ \E r \in Requests : Send(r) \/ CancelBegin(r)
  PROVE  KeptInv'
<1>1. Types /\ Given
  BY DEF IInv
<1>2. (left.retries = 0 \/ NoAcks)' /\ (NoAcks => NoAcks')
  <2>1. Next
    BY DEF Next
  <2>2. (NoAcks => NoAcks') /\ (left.retries = 0 => left'.retries = 0)
    BY <2>1, NoAcksNext
  <2> QED BY <2>2 DEF KeptInv
<1>3. ASSUME NEW r, UNCHANGED received
      PROVE  Got(r)' <=> Got(r)
  BY <1>3 DEF Got
<1>4. ASSUME NEW r \in Requests, Send(r)
      PROVE  KeptInv'
  <2>1. /\ callback' = callback \cup {r} /\ toSend' = toSend \cup {r} /\ MainIdle
        /\ UNCHANGED <<delayed, received, main, haveSent, hand, owner>>
    BY <1>4 DEF Send, sendPrepared, privateVars, restVars
  <2>2. \A q \in callback' : Held(q)'
    BY <1>3, <2>1 DEF KeptInv, Held, Owners, MainIdle, IdleMain
  <2> QED BY <1>2, <2>1, <2>2 DEF KeptInv, MainIdle, IdleMain
<1>5. ASSUME NEW r \in Requests, CancelBegin(r)
      PROVE  KeptInv'
  <2>1. /\ MainIdle /\ main' = [step |-> "toSend", request |-> r, id |-> msgId[r]]
        /\ delayed' = delayed \ {r}
        /\ UNCHANGED <<callback, received, toSend, haveSent, hand, owner>>
    BY <1>5 DEF CancelBegin, sharedVars, privateVars, restVars, threadVars
  <2>2. \A q \in callback' \ {r} : Held(q)'
    BY <1>3, <2>1 DEF KeptInv, Held, Owners, MainIdle, IdleMain
  <2>3. msgId[r] /= 0 => msgId[r] \in 1 .. Last' /\ owner'[msgId[r]] = r
    BY <1>1, <2>1, LenProperties DEF Types, Given, Last
  <2> QED BY <1>2, <2>1, <2>2, <2>3 DEF KeptInv
<1>6. CASE CancelToSend
  <2>1. /\ main.step = "toSend" /\ main' = [main EXCEPT !.step = "haveSent"]
        /\ toSend' = toSend \ {main.request}
        /\ UNCHANGED <<callback, delayed, received, haveSent, hand, owner>>
    BY <1>6 DEF CancelToSend, privateVars, restVars, threadVars
  <2>2. main'.step = "haveSent" /\ main'.request = main.request /\ main'.id = main.id
    BY <1>1, <2>1 DEF Types
  <2>3. \A q \in callback' \ {main.request} : Held(q)'
    BY <1>3, <2>1 DEF KeptInv, Held, Owners
  <2> QED BY <1>2, <2>1, <2>2, <2>3 DEF KeptInv, Last
<1>7. CASE CancelHaveSent
  <2>1. /\ main.step = "haveSent" /\ main' = [main EXCEPT !.step = "parser"]
        /\ haveSent' = haveSent \ {main.id}
        /\ UNCHANGED <<callback, delayed, received, toSend, hand, owner>>
    BY <1>7 DEF CancelHaveSent, privateVars, restVars, threadVars
  <2>2. main'.step = "parser" /\ main'.request = main.request
    BY <1>1, <2>1 DEF Types
  <2>3. main.id \in haveSent => owner[main.id] = main.request
    BY <1>1, <2>1, LenProperties DEF KeptInv, Given, Types, Last
  <2>4. \A q \in callback' \ {main.request} : Held(q)'
    BY <1>3, <2>1, <2>3 DEF KeptInv, Held, Owners
  <2> QED BY <1>2, <2>1, <2>2, <2>4 DEF KeptInv
<1>8. CASE CancelCallback
  <2>1. /\ main.step = "parser" /\ main' = IdleMain
        /\ callback' = callback \ {main.request}
        /\ UNCHANGED <<delayed, received, toSend, haveSent, hand, owner>>
    BY <1>8 DEF CancelCallback, sharedVars, privateVars, restVars, threadVars
  <2>2. \A q \in callback' : Held(q)'
    BY <1>3, <2>1 DEF KeptInv, Held, Owners
  <2> QED BY <1>2, <2>1, <2>2 DEF KeptInv, IdleMain
<1>9. CASE HandleResponse
  <2> DEFINE r == Head(received).request
  <2>1. /\ MainIdle /\ received /= <<>> /\ received' = Tail(received)
        /\ callback' \in {callback, callback \ {r}} /\ (r \in callback => callback' = callback \ {r})
        /\ delayed \ {r} \subseteq delayed' /\ toSend \subseteq toSend'
        /\ UNCHANGED <<haveSent, hand, owner>>
    BY <1>9 DEF HandleResponse, sendPrepared, privateVars, restVars
  <2>2. \/ main' = main
        \/ /\ main' = [step |-> "restore", request |-> r, id |-> 0]
           /\ r \in delayed' \/ (left.retries > 0 /\ r \in toSend')
    BY <1>9 DEF HandleResponse, sendPrepared
  <2> HIDE DEF r
  <2>3. ASSUME NEW q, q /= r
        PROVE  Got(q) => Got(q)'
    BY <2>1, <2>3, GotStays DEF r
  <2>4. \A q \in callback' : q \in callback /\ q /= r
    BY <2>1
  <2>5. \A q \in callback' : Held(q)'
    BY <2>1, <2>3, <2>4 DEF KeptInv, Held, Owners, MainIdle, IdleMain
  <2>6. CASE main' = main
    BY <1>2, <2>1, <2>5, <2>6 DEF KeptInv, MainIdle, IdleMain
  <2>7. CASE /\ main' = [step |-> "restore", request |-> r, id |-> 0]
             /\ r \in delayed' \/ (left.retries > 0 /\ r \in toSend')
    <3>1. left.retries > 0 => NoAcks'
      BY <1>2 DEF KeptInv
    <3> QED BY <1>2, <2>5, <2>7, <3>1 DEF KeptInv, Held
  <2> QED BY <2>2, <2>6, <2>7
<1>10. CASE Restore
  <2>1. /\ main.step = "restore" /\ main' = IdleMain
        /\ callback' = callback \cup {main.request}
        /\ UNCHANGED <<delayed, received, toSend, haveSent, hand, owner>>
    BY <1>10 DEF Restore, sharedVars, privateVars, restVars, threadVars
  <2>2. \A q \in callback' : Held(q)'
    BY <1>3, <2>1 DEF KeptInv, Held, Owners
  <2> QED BY <1>2, <2>1, <2>2 DEF KeptInv, IdleMain
<1>11. ASSUME NEW r \in Requests, checkDelayedRequests(r)
       PROVE  KeptInv'
  <2>1. /\ MainIdle /\ delayed' = delayed \ {r} /\ toSend' = toSend \cup {r}
        /\ UNCHANGED <<callback, received, main, haveSent, hand, owner>>
    BY <1>11 DEF checkDelayedRequests, sendPrepared, privateVars, restVars
  <2>2. \A q \in callback' : Held(q)'
    BY <1>3, <2>1 DEF KeptInv, Held, Owners, MainIdle, IdleMain
  <2> QED BY <1>2, <2>1, <2>2 DEF KeptInv, MainIdle, IdleMain
<1> QED BY <1>4, <1>5, <1>6, <1>7, <1>8, <1>9, <1>10, <1>11 DEF MainStep

(* The other steps leave the callbacks alone.                              *)
LEMMA KeptThread ==
  ASSUME IInv, KeptInv,
         \/ Sending \/ Ping \/ Resending \/ CheckSent \/ Connect \/ Lose
         \/ \E c \in containers : clearOldContainers(c)
         \/ Receiving \/ Server
  PROVE  KeptInv'
<1>1. Types
  BY DEF IInv
<1>2. Next
  BY DEF Next, Server
<1>3. UNCHANGED <<callback, delayed, main>>
  <2>1. CASE Server
    BY <2>1, ServerOf DEF mainVars
  <2>2. CASE Receiving
    BY <2>2 DEF Receiving, ReceiveResult, ReceiveAck, ReceiveBadSalt, ReceiveBadMsg,
       ReceiveNewSession, ReceiveFatal, ReceiveStates, ReceivePong, mainVars
  <2>3. CASE \/ Sending \/ Ping \/ Resending \/ CheckSent \/ Connect \/ Lose
             \/ \E c \in containers : clearOldContainers(c)
    BY <2>3 DEF Sending, Ping, Resending, CheckSent, Connect, Lose, TryToSendNothing,
       TryToSendSingle, TryToSendContainer, PutHaveSent, PutToSend, TakeHaveSent,
       checkSentRequests, clearOldContainers, mainVars
  <2> QED BY <2>1, <2>2, <2>3
<1>4. (left.retries = 0 \/ NoAcks)' /\ (NoAcks => NoAcks')
  BY <1>2, NoAcksNext DEF KeptInv
<1>5. ASSUME NEW r \in Requests, Held(r), r \in callback \/ NoAcks
      PROVE  Held(r)'
  BY <1>5, HeldThread
<1>6. main.step /= "idle" => main.request \in Requests
  BY <1>1 DEF Types
<1>7. callback \subseteq Requests
  BY <1>1 DEF Types
<1>8. \A i \in 1 .. Last : i \in 1 .. Last' /\ owner'[i] = owner[i]
  BY <1>2, OwnerGrows
<1>9. \A r \in callback' :
        Held(r)' \/ (main'.step \in {"toSend", "haveSent", "parser"} /\ main'.request = r)
  BY <1>3, <1>5, <1>7 DEF KeptInv
<1>10. main'.step \in {"toSend", "haveSent"} /\ main'.id /= 0 =>
         main'.id \in 1 .. Last' /\ owner'[main'.id] = main'.request
  BY <1>3, <1>8 DEF KeptInv
<1>11. main'.step = "restore" => main'.request \in delayed' \/ (NoAcks' /\ Held(main.request)')
  BY <1>3, <1>4, <1>5, <1>6 DEF KeptInv, Held, Got
<1> QED BY <1>3, <1>4, <1>9, <1>10, <1>11 DEF KeptInv

(* Where the requests are, whatever happens.  The session's thread never   *)
(* drops a request whose callback is in _parserMap: what leaves haveSent   *)
(* or toSend is put to the other, or its answer is in                      *)
(* haveReceivedMessages(), or the ack was of a request out of _parserMap.  *)
(* That last is why acks and errors that are retried at once are apart:    *)
(* processCallback() has the callback out of the map meanwhile.            *)
THEOREM Kept == ASSUME RetriesApart PROVE Spec => []KeptInv
<1>1. Init => KeptInv
  <2> SUFFICES ASSUME Init PROVE KeptInv
    OBVIOUS
  <2>1. callback = {} /\ main.step = "idle"
    BY DEF Init, IdleMain
  <2>2. /\ asking = {} /\ toServer = <<>> /\ toClient = <<>> /\ left \in Scenarios
    BY DEF Init
  <2>3. left.retries = 0 \/ NoAcks
    BY <2>2, RetriesApart DEF RetriesApart, NoAcks
  <2> QED BY <2>1, <2>3 DEF KeptInv
<1>2. IInv /\ KeptInv /\ [Next]_vars => KeptInv'
  <2> SUFFICES ASSUME IInv, KeptInv, [Next]_vars PROVE KeptInv'
    OBVIOUS
  <2>1. CASE UNCHANGED vars
    BY <2>1 DEF KeptInv, Held, Got, NoAcks, Owners, Last, vars, mainVars, sharedVars, privateVars,
       restVars, threadVars, netVars
  <2>2. CASE Next
    BY <2>2, KeptMain, KeptThread DEF Next, Server
  <2> QED BY <2>1, <2>2
<1> QED BY <1>1, <1>2, Inductive, PTL DEF Spec

(* A request whose callback is in _parserMap waits in one of the maps or   *)
(* in a thread's hands, or its answer waits, or the main thread is at it.  *)
THEOREM NeverForgotten == ASSUME RetriesApart PROVE Spec => []NothingForgotten
<1>1. IInv /\ KeptInv => NothingForgotten
  BY DEF KeptInv, Held, Got, NothingForgotten
<1>2. Spec => []KeptInv
  BY RetriesApart, Kept
<1> QED BY <1>1, <1>2, Inductive, PTL

=============================================================================
