-------------------------- MODULE UpdatesSeqProofs --------------------------
(***************************************************************************)
(* What is proved about the seq of containers, for any number of sessions, *)
(* containers and requests.  A container that is dropped as old was fed,   *)
(* or is in a difference that was or will be received; that rests on the   *)
(* order in which messages arrive in a session, and on a request being     *)
(* either at the server, or answered, or waiting for its retry.            *)
(***************************************************************************)
EXTENDS UpdatesSeq, SequenceTheorems, FiniteSetTheorems, WellFoundedInduction, TLAPS

IsContainer(m) == m.type \in {"push", "reply"}

(* The numbers of the containers of one session do not overlap.            *)
Tiles(cs) ==
  \A c, d \in cs :
    c.session = d.session => c = d \/ c.last < d.first \/ d.last < c.first

IssuedInv ==
  /\ Tiles(issued)
  /\ \A c \in issued :
       /\ c.first <= c.last /\ c.session <= session
       /\ c.session = session => c.last <= serverSeq
       /\ c.type = "reply" => session = 0
  /\ \A c \in unsent : c.session = session

(* requestingDifference() means that there is one request at the server,   *)
(* or its answer is on the way, or it failed and the retry timer runs.     *)
RequestInv ==
  /\ asked /= NoRequest \/ afterFail => requesting
  /\ ~(asked /= NoRequest /\ afterFail)
  /\ \A i \in DOMAIN net : IsAnswer(net[i]) => requesting /\ asked = NoRequest /\ ~afterFail
  /\ \A i, j \in DOMAIN net : IsAnswer(net[i]) /\ IsAnswer(net[j]) => i = j
  /\ requesting => asked /= NoRequest \/ afterFail \/ \E i \in DOMAIN net : IsAnswer(net[i])

(* Messages arrive in the order in which the server sent them, those of a  *)
(* session behind the news of it.                                          *)
NetInv ==
  /\ \A i \in DOMAIN net :
       /\ IsContainer(net[i]) => net[i] \in issued
       /\ net[i].session <= session
       /\ net[i].type = "newSession" => net[i].session > 0
  /\ \A i, j \in DOMAIN net :
       j = i + 1 /\ net[j].type /= "newSession" => net[j].session = net[i].session
  /\ net /= <<>> => net[Len(net)].session = session

(* What is ahead of a difference, or saved before it comes, is part of it. *)
(* What is not is still to come.                                           *)
DifferenceInv ==
  \A j \in DOMAIN net :
    net[j].type = "difference" =>
      /\ net[j].covers \subseteq issued
      /\ net[j].session = session => net[j].seq <= serverSeq
      /\ \A c \in issued :
           c \in bySeqUpdates \/ (\E i \in DOMAIN net : i < j /\ net[i] = c) =>
             /\ net[j].final => c \in net[j].covers
             /\ c.session = net[j].session => c.last <= net[j].seq
      /\ net[j].final =>
           \A c \in issued \ net[j].covers :
             /\ c.session = net[j].session => net[j].seq < c.first
             /\ \/ c \in unsent
                \/ \E k \in DOMAIN net :
                     k > j /\ (net[k] = c \/ net[k].type = "newSession")

(* The client's session, when the next message is not a new one.           *)
Steady == net = <<>> \/ Head(net).type /= "newSession"
Heard  == IF net = <<>> THEN session ELSE Head(net).session

(* A difference that will bring c is requested, or on its way.             *)
Pending(c) ==
  \/ asked /= NoRequest \/ afterFail
  \/ \E i \in DOMAIN net :
       \/ net[i].type = "fail"
       \/ net[i].type = "difference" /\ (net[i].final => c \in net[i].covers)

(* What the client has passed was fed, or a difference makes up for it.    *)
PassedInv ==
  \A c \in issued :
    c.session = Heard /\ c.first <= updatesSeq => c \in taken \cup covered \/ Pending(c)

ClientInv ==
  /\ requesting => \A c \in bySeqUpdates : c.type = "reply"
  /\ \A c \in bySeqUpdates : updatesSeq < c.first
  /\ Steady =>
       /\ \A c \in bySeqUpdates : c.session = Heard
       /\ Heard = session => updatesSeq <= serverSeq
       /\ PassedInv

(* The inductive invariant.                                                *)
IInv ==
  /\ TypeOK /\ IssuedInv /\ RequestInv /\ NetInv /\ DifferenceInv /\ ClientInv
  /\ SeqNothingForgotten /\ HeldBackIsWatched

-----------------------------------------------------------------------------
(* Sequences of messages.                                                  *)

(* The main thread takes the first message.                                *)
LEMMA TailOf ==
  ASSUME NEW q \in Seq(Messages), q /= <<>>
  PROVE  /\ Head(q) = q[1] /\ 1 \in DOMAIN q /\ Head(q) \in Messages
         /\ Tail(q) \in Seq(Messages) /\ DOMAIN q \subseteq Nat \ {0}
         /\ \A i \in DOMAIN Tail(q) : i \in Nat /\ i + 1 \in DOMAIN q /\ Tail(q)[i] = q[i + 1]
         /\ \A i \in DOMAIN q : i > 1 => i - 1 \in DOMAIN Tail(q) /\ Tail(q)[i - 1] = q[i]
         /\ Tail(q) = <<>> => q[Len(q)] = q[1]
         /\ Tail(q) /= <<>> => /\ 2 \in DOMAIN q /\ Head(Tail(q)) = q[2]
                               /\ Tail(q)[Len(Tail(q))] = q[Len(q)]
<1>1. Len(q) \in Nat /\ Len(q) >= 1 /\ DOMAIN q = 1 .. Len(q)
  BY EmptySeq, LenProperties
<1>2. /\ Head(q) \in Messages /\ Head(q) = q[1]
      /\ Tail(q) \in Seq(Messages) /\ Len(Tail(q)) = Len(q) - 1
      /\ \A i \in 1 .. Len(Tail(q)) : Tail(q)[i] = q[i + 1]
  BY HeadTailProperties
<1>3. DOMAIN Tail(q) = 1 .. Len(q) - 1
  BY <1>2, LenProperties
<1>4. Tail(q) = <<>> <=> Len(Tail(q)) = 0
  BY <1>2, EmptySeq
<1>5. Tail(q) /= <<>> => Head(Tail(q)) = Tail(q)[1]
  BY <1>2, HeadTailProperties
<1>6. Tail(q) = <<>> => Len(q) = 1
  BY <1>1, <1>2, <1>4
<1>7. Tail(q) /= <<>> => Len(q) >= 2
  BY <1>1, <1>2, <1>4
<1> QED BY <1>1, <1>2, <1>3, <1>5, <1>6, <1>7

(* The server adds a message behind the others.                            *)
LEMMA AppendOf ==
  ASSUME NEW q \in Seq(Messages), NEW m \in Messages
  PROVE  /\ Append(q, m) \in Seq(Messages) /\ Append(q, m) /= <<>>
         /\ Len(q) + 1 \in DOMAIN Append(q, m) /\ Append(q, m)[Len(q) + 1] = m
         /\ Append(q, m)[Len(Append(q, m))] = m
         /\ \A i \in DOMAIN q : i \in Nat /\ 0 < i /\ i <= Len(q)
         /\ \A i \in DOMAIN q : i \in DOMAIN Append(q, m) /\ Append(q, m)[i] = q[i]
         /\ \A i \in DOMAIN Append(q, m) :
              i = Len(q) + 1 \/ i \in DOMAIN q
         /\ Head(Append(q, m)) = IF q = <<>> THEN m ELSE Head(q)
         /\ Len(q) \in Nat
         /\ q /= <<>> => Len(q) \in DOMAIN q
<1>1. Len(q) \in Nat /\ DOMAIN q = 1 .. Len(q)
  BY LenProperties
<1>2. /\ Append(q, m) \in Seq(Messages)
      /\ Len(Append(q, m)) = Len(q) + 1
      /\ \A i \in 1 .. Len(q) : Append(q, m)[i] = q[i]
      /\ Append(q, m)[Len(q) + 1] = m
  BY AppendProperties
<1>3. DOMAIN Append(q, m) = 1 .. Len(q) + 1
  BY <1>2, LenProperties
<1>4. Append(q, m) /= <<>>
  BY <1>1, <1>2, EmptySeq
<1>5. Head(Append(q, m)) = Append(q, m)[1]
  BY <1>2, <1>4, HeadTailProperties
<1>6. q = <<>> <=> Len(q) = 0
  BY EmptySeq
<1>7. q /= <<>> => Head(q) = q[1]
  BY HeadTailProperties
<1>8. Head(Append(q, m)) = IF q = <<>> THEN m ELSE Head(q)
  BY <1>1, <1>2, <1>5, <1>6, <1>7
<1> QED BY <1>1, <1>2, <1>3, <1>4, <1>6, <1>8

(* What is left of the messages when the server loses the session.         *)
LEMMA PrefixOf ==
  ASSUME NEW q \in Seq(Messages), NEW k \in 0 .. Len(q)
  PROVE  /\ SubSeq(q, 1, k) \in Seq(Messages) /\ Len(SubSeq(q, 1, k)) = k
         /\ DOMAIN SubSeq(q, 1, k) = 1 .. k
         /\ \A i \in 1 .. k : i \in DOMAIN q /\ SubSeq(q, 1, k)[i] = q[i]
         /\ SubSeq(q, 1, k) /= <<>> => k >= 1 /\ q /= <<>> /\ Head(SubSeq(q, 1, k)) = Head(q)
<1>1. Len(q) \in Nat /\ DOMAIN q = 1 .. Len(q)
  BY LenProperties
<1>2. \A i \in 1 .. k : q[i] \in Messages
  BY <1>1, ElementOfSeq
<1>3. /\ SubSeq(q, 1, k) \in Seq(Messages) /\ Len(SubSeq(q, 1, k)) = k
      /\ \A i \in 1 .. k : SubSeq(q, 1, k)[i] = q[i]
  BY <1>1, <1>2, SubSeqProperties
<1>4. DOMAIN SubSeq(q, 1, k) = 1 .. k
  BY <1>3, LenProperties
<1>5. SubSeq(q, 1, k) = <<>> <=> k = 0
  BY <1>3, EmptySeq
<1>6. SubSeq(q, 1, k) /= <<>> => Head(SubSeq(q, 1, k)) = SubSeq(q, 1, k)[1]
  BY <1>3, HeadTailProperties
<1>7. q = <<>> => Len(q) = 0
  BY EmptySeq
<1>8. q /= <<>> => Head(q) = q[1]
  BY HeadTailProperties
<1> QED BY <1>1, <1>3, <1>4, <1>5, <1>6, <1>7, <1>8

-----------------------------------------------------------------------------
(* The runs of saved containers.                                           *)

(* A set of numbers that is not empty has a least one.                     *)
LEMMA LeastOf ==
  ASSUME NEW S \in SUBSET Nat, S /= {}
  PROVE  \E x \in S : \A y \in S : x <= y
<1>1. \E x \in S : \A y \in S : ~(<<y, x>> \in OpToRel(<, Nat))
  BY WFMin, NatLessThanWellFounded
<1>2. PICK x \in S : \A y \in S : ~(<<y, x>> \in OpToRel(<, Nat))
  BY <1>1
<1>3. \A y \in S : ~(y < x)
  BY <1>2 DEF OpToRel
<1> QED BY <1>3

(* A bounded one also has a greatest one.                                  *)
LEMMA GreatestOf ==
  ASSUME NEW n \in Nat, NEW S \in SUBSET (0 .. n), S /= {}
  PROVE  \E x \in S : \A y \in S : y <= x
<1> DEFINE T == {n - x : x \in S}
<1>0. \A x \in S : n - x \in Nat
  OBVIOUS
<1>1. T \in SUBSET Nat /\ T /= {}
  BY <1>0
<1>2. PICK t \in T : \A y \in T : t <= y
  BY <1>1, LeastOf
<1>3. PICK x \in S : t = n - x
  OBVIOUS
<1>4. \A y \in S : n - x <= n - y
  BY <1>2, <1>3
<1> QED BY <1>3, <1>4

(* A container takes numbers of its session.                               *)
LEMMA ContainerType ==
  ASSUME NEW c \in Containers
  PROVE  /\ c.session \in Nat /\ c.first \in Nat \ {0} /\ c.last \in Nat /\ c.last <= MaxSeq
         /\ c.first <= MaxSeq
         /\ IsContainer(c) /\ c.type \notin {"difference", "fail", "newSession"}
<1>1. MaxSeq \in Nat /\ MaxSessions \in Nat
  BY SeqAssumption
<1>2. c.type \in Vias /\ c.session \in 0 .. MaxSessions /\ c.first \in 1 .. MaxSeq
      /\ c.last \in 1 .. MaxSeq
  BY DEF Containers
<1>3. c.type \in {"push", "reply"}
  BY <1>2, SeqAssumption
<1> QED BY <1>1, <1>2, <1>3 DEF IsContainer

(* What setState() feeds ends where the last of the run does, and leaves   *)
(* out nothing of the session on the way there.                            *)
LEMMA RunEnd ==
  ASSUME NEW cs \in SUBSET Containers, Tiles(cs), \A c \in cs : c.first <= c.last,
         NEW s, NEW seq \in 0 .. MaxSeq,
         NEW queue \in SUBSET cs, \A c \in queue : c.session = s,
         NEW run \in Runs(queue, seq)
  PROVE  /\ run \subseteq queue /\ EndOf(run, seq) \in 0 .. MaxSeq
         /\ EndOf(run, seq) = seq \/ \E c \in run : EndOf(run, seq) = c.last
         /\ \A c \in run : c.last <= EndOf(run, seq)
         /\ \A c \in cs : c.session = s /\ seq < c.first /\ c.first <= EndOf(run, seq) => c \in run
<1>1. run \subseteq queue /\ \A c \in run : c.first = seq + 1 \/ \E d \in run : d.last + 1 = c.first
  BY DEF Runs
<1>2. \A c \in cs : c.first \in Nat \ {0} /\ c.last \in 0 .. MaxSeq
  BY ContainerType, SeqAssumption
<1>3. CASE run = {}
  <2>1. EndOf(run, seq) = seq /\ MaxSeq \in Nat
    BY <1>3, SeqAssumption DEF EndOf
  <2> QED BY <1>1, <1>2, <1>3, <2>1
<1>4. CASE run /= {}
  <2> DEFINE lasts == {c.last : c \in run}
             e == EndOf(run, seq)
  <2>1. lasts \in SUBSET (0 .. MaxSeq) /\ lasts /= {} /\ MaxSeq \in Nat
    BY <1>1, <1>2, <1>4, SeqAssumption
  <2>2. \E x \in lasts : \A y \in lasts : y <= x
    BY <2>1, GreatestOf
  <2>3. \E x \in lasts : \A c \in run : c.last <= x
    BY <2>2
  <2>4. e = CHOOSE x \in lasts : \A c \in run : c.last <= x
    BY <1>4 DEF EndOf
  <2>5. e \in lasts /\ \A c \in run : c.last <= e
    BY <2>3, <2>4
  <2>6. ASSUME NEW c \in cs, c.session = s, seq < c.first, c.first <= e, c \notin run
        PROVE  FALSE
    <3> DEFINE above == {d.first : d \in {x \in run : c.last < x.first}}
    <3>1. PICK m \in run : m.last = e
      BY <2>5
    <3>2. c.last < m.first
      BY <1>1, <1>2, <2>6, <3>1 DEF Tiles
    <3>3. above \in SUBSET Nat /\ above /= {}
      BY <1>1, <1>2, <3>2
    <3>4. PICK x \in above : \A y \in above : x <= y
      BY <3>3, LeastOf
    <3>5. PICK l \in run : x = l.first /\ c.last < l.first
      OBVIOUS
    <3>6. l.first /= seq + 1
      BY <1>1, <1>2, <2>6, <3>5
    <3>7. PICK d \in run : d.last + 1 = l.first
      BY <1>1, <3>6
    <3>8. c.last < d.first
      BY <1>1, <1>2, <2>6, <3>5, <3>7 DEF Tiles
    <3>9. d.first < l.first
      BY <1>1, <1>2, <3>7
    <3>10. d.first \in above /\ d.first \in Nat /\ l.first \in Nat
      BY <1>1, <1>2, <3>8
    <3>11. l.first <= d.first
      BY <3>4, <3>5, <3>10
    <3> QED BY <3>9, <3>10, <3>11
  <2> QED BY <1>1, <2>1, <2>5, <2>6
<1> QED BY <1>3, <1>4

-----------------------------------------------------------------------------
(* What all steps have in common.                                          *)

(* A step that feeds containers feeds all that come before them.           *)
SeqStep ==
  \A c \in taken' \ taken, d \in issued' :
    d.session = c.session /\ d.first < c.first => d \in taken' \cup covered' \/ requesting

(* The message at the head is taken, and saved at most.                    *)
LEMMA Received ==
  ASSUME IInv, net /= <<>>, net' = Tail(net), UNCHANGED serverVars,
         bySeqUpdates' \subseteq bySeqUpdates \cup {net[1]}
  PROVE  IssuedInv' /\ NetInv' /\ DifferenceInv'
<1>1. /\ net \in Seq(Messages) /\ UNCHANGED <<serverSeq, session, issued, unsent>>
  BY DEF IInv, TypeOK, serverVars
<1>2. /\ 1 \in DOMAIN net /\ DOMAIN net \subseteq Nat \ {0}
      /\ \A i \in DOMAIN net' : i \in Nat /\ i + 1 \in DOMAIN net /\ net'[i] = net[i + 1]
      /\ \A i \in DOMAIN net : i > 1 => i - 1 \in DOMAIN net' /\ net'[i - 1] = net[i]
      /\ net' /= <<>> => net'[Len(net')] = net[Len(net)]
  BY <1>1, TailOf
<1>3. IssuedInv'
  BY <1>1 DEF IInv, IssuedInv, Tiles
<1>4. NetInv'
  <2>1. \A i \in DOMAIN net' :
          /\ IsContainer(net'[i]) => net'[i] \in issued'
          /\ net'[i].session <= session'
          /\ net'[i].type = "newSession" => net'[i].session > 0
    BY <1>1, <1>2 DEF IInv, NetInv
  <2>2. \A i, j \in DOMAIN net' :
          j = i + 1 /\ net'[j].type /= "newSession" => net'[j].session = net'[i].session
    BY <1>2 DEF IInv, NetInv
  <2>3. net' /= <<>> => net'[Len(net')].session = session'
    BY <1>1, <1>2 DEF IInv, NetInv
  <2> QED BY <2>1, <2>2, <2>3 DEF NetInv
<1>5. DifferenceInv'
  <2> SUFFICES ASSUME NEW j \in DOMAIN net', net'[j].type = "difference"
               PROVE  /\ net'[j].covers \subseteq issued
                      /\ net'[j].session = session => net'[j].seq <= serverSeq
                      /\ \A c \in issued :
                           c \in bySeqUpdates' \/ (\E i \in DOMAIN net' : i < j /\ net'[i] = c) =>
                             /\ net'[j].final => c \in net'[j].covers
                             /\ c.session = net'[j].session => c.last <= net'[j].seq
                      /\ net'[j].final =>
                           \A c \in issued \ net'[j].covers :
                             /\ c.session = net'[j].session => net'[j].seq < c.first
                             /\ \/ c \in unsent
                                \/ \E k \in DOMAIN net' :
                                     k > j /\ (net'[k] = c \/ net'[k].type = "newSession")
    BY <1>1 DEF DifferenceInv
  <2>1. j \in Nat /\ j + 1 \in DOMAIN net /\ net'[j] = net[j + 1] /\ j + 1 > 1
    BY <1>2
  <2>2. /\ net'[j].covers \subseteq issued
        /\ net'[j].session = session => net'[j].seq <= serverSeq
    BY <2>1 DEF IInv, DifferenceInv
  <2>3. ASSUME NEW c \in issued,
               c \in bySeqUpdates' \/ (\E i \in DOMAIN net' : i < j /\ net'[i] = c)
        PROVE  /\ net'[j].final => c \in net'[j].covers
               /\ c.session = net'[j].session => c.last <= net'[j].seq
    <3>1. c \in bySeqUpdates \/ (\E i \in DOMAIN net : i < j + 1 /\ net[i] = c)
      BY <1>2, <2>1, <2>3
    <3> QED BY <2>1, <3>1 DEF IInv, DifferenceInv
  <2>4. ASSUME net'[j].final, NEW c \in issued \ net'[j].covers
        PROVE  /\ c.session = net'[j].session => net'[j].seq < c.first
               /\ \/ c \in unsent
                  \/ \E k \in DOMAIN net' :
                       k > j /\ (net'[k] = c \/ net'[k].type = "newSession")
    <3>1. /\ c.session = net[j + 1].session => net[j + 1].seq < c.first
          /\ \/ c \in unsent
             \/ \E k \in DOMAIN net : k > j + 1 /\ (net[k] = c \/ net[k].type = "newSession")
      BY <2>1, <2>4 DEF IInv, DifferenceInv
    <3>2. ASSUME NEW k \in DOMAIN net, k > j + 1
          PROVE  k - 1 \in DOMAIN net' /\ net'[k - 1] = net[k] /\ k - 1 > j
      BY <1>2, <2>1, <3>2
    <3> QED BY <2>1, <3>1, <3>2
  <2> QED BY <2>2, <2>3, <2>4
<1> QED BY <1>3, <1>4, <1>5

(* Nothing arrives and nothing is saved.                                   *)
LEMMA Quiet ==
  ASSUME IInv, UNCHANGED <<serverSeq, session, issued, unsent, net>>,
         bySeqUpdates' \subseteq bySeqUpdates
  PROVE  IssuedInv' /\ NetInv' /\ DifferenceInv'
<1>1. IssuedInv' /\ NetInv'
  BY DEF IInv, IssuedInv, NetInv, Tiles
<1>2. DifferenceInv'
  BY DEF IInv, DifferenceInv
<1> QED BY <1>1, <1>2

(* A message that is no answer leaves the requests as they are.            *)
LEMMA RequestKept ==
  ASSUME IInv, net /= <<>>, net' = Tail(net), ~IsAnswer(net[1]),
         UNCHANGED <<requesting, asked, afterFail>>
  PROVE  RequestInv' /\ \A c : Pending(c) => Pending(c)'
<1>1. net \in Seq(Messages)
  BY DEF IInv, TypeOK
<1>2. /\ 1 \in DOMAIN net /\ DOMAIN net \subseteq Nat \ {0}
      /\ \A i \in DOMAIN net' : i \in Nat /\ i + 1 \in DOMAIN net /\ net'[i] = net[i + 1]
      /\ \A i \in DOMAIN net : i > 1 => i - 1 \in DOMAIN net' /\ net'[i - 1] = net[i]
  BY <1>1, TailOf
<1>3. \A i \in DOMAIN net : IsAnswer(net[i]) => i - 1 \in DOMAIN net' /\ net'[i - 1] = net[i]
  BY <1>2
<1>4. RequestInv'
  <2>1. \A i \in DOMAIN net' : IsAnswer(net'[i]) => requesting /\ asked = NoRequest /\ ~afterFail
    BY <1>2 DEF IInv, RequestInv
  <2>2. \A i, j \in DOMAIN net' : IsAnswer(net'[i]) /\ IsAnswer(net'[j]) => i = j
    <3> SUFFICES ASSUME NEW i \in DOMAIN net', NEW j \in DOMAIN net',
                        IsAnswer(net'[i]), IsAnswer(net'[j])
                 PROVE  i = j
      OBVIOUS
    <3>1. i + 1 = j + 1
      BY <1>2 DEF IInv, RequestInv
    <3> QED BY <1>2, <3>1
  <2>3. (\E i \in DOMAIN net : IsAnswer(net[i])) => \E i \in DOMAIN net' : IsAnswer(net'[i])
    BY <1>3
  <2> QED BY <2>1, <2>2, <2>3 DEF IInv, RequestInv, IsAnswer
<1>5. ASSUME NEW c, Pending(c) PROVE Pending(c)'
  <2>1. CASE asked /= NoRequest \/ afterFail
    BY <2>1 DEF Pending
  <2>2. ASSUME NEW i \in DOMAIN net,
               \/ net[i].type = "fail"
               \/ net[i].type = "difference" /\ (net[i].final => c \in net[i].covers)
        PROVE  Pending(c)'
    <3>1. i - 1 \in DOMAIN net' /\ net'[i - 1] = net[i]
      BY <1>3, <2>2 DEF IsAnswer
    <3> QED BY <2>2, <3>1 DEF Pending
  <2> QED BY <1>5, <2>1, <2>2 DEF Pending
<1> QED BY <1>4, <1>5

(* The other messages stay where they are.                                 *)
LEMMA OthersLeft ==
  ASSUME IInv, net /= <<>>, net' = Tail(net)
  PROVE  \A m \in InNet : m = net[1] \/ m \in InNet'
<1>1. net \in Seq(Messages)
  BY DEF IInv, TypeOK
<1>2. /\ DOMAIN net \subseteq Nat \ {0}
      /\ \A i \in DOMAIN net : i > 1 => i - 1 \in DOMAIN net' /\ net'[i - 1] = net[i]
  BY <1>1, TailOf
<1>3. \A i \in DOMAIN net : i = 1 \/ i > 1
  BY <1>2
<1> QED BY <1>2, <1>3 DEF InNet

(* The client's session goes on until there is news of another.            *)
LEMMA SteadyTail ==
  ASSUME IInv, net /= <<>>, net' = Tail(net), session' = session,
         net[1].type /= "newSession"
  PROVE  Steady /\ Heard = net[1].session /\ (Steady' => Heard' = Heard)
<1>1. net \in Seq(Messages)
  BY DEF IInv, TypeOK
<1>2. /\ 1 \in DOMAIN net /\ Head(net) = net[1]
      /\ net' = <<>> => net[Len(net)] = net[1]
      /\ net' /= <<>> => 2 \in DOMAIN net /\ Head(net') = net[2]
  BY <1>1, TailOf
<1>3. Steady /\ Heard = net[1].session
  BY <1>2 DEF Steady, Heard
<1>4. net' = <<>> => Heard' = net[1].session
  BY <1>2 DEF Heard, IInv, NetInv
<1>5. ASSUME net' /= <<>>, Steady' PROVE Heard' = net[1].session
  <2>1. net[2].type /= "newSession" /\ Heard' = net[2].session
    BY <1>2, <1>5 DEF Steady, Heard
  <2>2. 2 = 1 + 1
    OBVIOUS
  <2> QED BY <1>2, <1>5, <2>1, <2>2 DEF IInv, NetInv
<1> QED BY <1>3, <1>4, <1>5

(* Once the difference is asked for, it will bring everything.             *)
LEMMA AskStep ==
  ASSUME Ask, TypeOK', \A i \in DOMAIN net' : ~IsAnswer(net'[i]),
         Steady' /\ Heard' = session' => updatesSeq' <= serverSeq'
  PROVE  RequestInv' /\ ClientInv' /\ SeqNothingForgotten' /\ HeldBackIsWatched'
<1>1. /\ bySeqUpdates' = {} /\ ~afterFail' /\ requesting' /\ asked' = "difference"
  BY DEF Ask
<1>2. RequestInv'
  BY <1>1 DEF RequestInv, NoRequest
<1>3. \A c : Pending(c)'
  BY <1>1 DEF Pending, NoRequest
<1>4. ClientInv'
  BY <1>1, <1>3 DEF ClientInv, PassedInv
<1> QED BY <1>1, <1>2, <1>4 DEF SeqNothingForgotten, HeldBackIsWatched, NoRequest

(* What the client passes by feeding a run that follows seq was fed, when  *)
(* everything up to seq was.                                               *)
LEMMA FeedPasses ==
  ASSUME IInv, NEW seq \in 0 .. MaxSeq, NEW queue \in SUBSET issued,
         \A c \in queue : c.session = Heard,
         NEW run \in Runs(queue, seq), Feed(run, seq), UNCHANGED <<issued, covered>>
  PROVE  /\ run \subseteq queue /\ updatesSeq' = EndOf(run, seq)
         /\ updatesSeq' \in 0 .. MaxSeq /\ taken' \subseteq issued
         /\ updatesSeq' = seq \/ \E c \in run : updatesSeq' = c.last
         /\ \A c \in run : c.last <= updatesSeq'
         /\ \A c \in issued : c.session = Heard /\ c.first <= updatesSeq' =>
              c.first <= seq \/ c \in taken'
         /\ \A c \in taken' : c \in taken \/ c \in run
<1>1. /\ issued \in SUBSET Containers /\ Tiles(issued) /\ \A c \in issued : c.first <= c.last
      /\ taken \subseteq issued
  BY DEF IInv, TypeOK, IssuedInv
<1>2. updatesSeq' = EndOf(run, seq) /\ taken' = taken \cup run
  BY DEF Feed
<1>3. /\ run \subseteq queue /\ EndOf(run, seq) \in 0 .. MaxSeq
      /\ EndOf(run, seq) = seq \/ \E c \in run : EndOf(run, seq) = c.last
      /\ \A c \in run : c.last <= EndOf(run, seq)
      /\ \A c \in issued : c.session = Heard /\ seq < c.first /\ c.first <= EndOf(run, seq)
           => c \in run
  BY <1>1, RunEnd
<1>4. \A c \in issued : c.first \in Nat
  BY <1>1, ContainerType
<1> QED BY <1>1, <1>2, <1>3, <1>4

(* applyUpdates() of the container at the head.                            *)
LEMMA ApplyStep ==
  ASSUME IInv, net /= <<>>, net' = Tail(net), IsContainer(Head(net)),
         requesting => Head(net).type = "reply",
         UNCHANGED serverVars, UNCHANGED covered, applyUpdates(Head(net))
  PROVE  IInv' /\ SeqStep
<1> DEFINE c == Head(net)
<1>1. /\ net \in Seq(Messages) /\ UNCHANGED <<serverSeq, session, issued, unsent>>
      /\ issued \subseteq Containers
  BY DEF IInv, TypeOK, serverVars
<1>2. /\ c = net[1] /\ 1 \in DOMAIN net /\ net' \in Seq(Messages)
      /\ DOMAIN net \subseteq Nat \ {0}
      /\ \A i \in DOMAIN net' : i \in Nat /\ i + 1 \in DOMAIN net /\ net'[i] = net[i + 1]
  BY <1>1, TailOf
<1>3. /\ c \in issued /\ c \in Containers /\ ~IsAnswer(c) /\ c.type /= "newSession"
  BY <1>1, <1>2, ContainerType DEF IInv, NetInv, IsAnswer
<1>4. /\ Steady /\ Heard = c.session /\ (Steady' => Heard' = Heard)
  BY <1>1, <1>2, <1>3, SteadyTail
<1>5. \A m \in InNet : m = c \/ m \in InNet'
  BY <1>2, OthersLeft
<1>6. /\ updatesSeq \in 0 .. MaxSeq /\ MaxSeq \in Nat /\ serverSeq \in 0 .. MaxSeq
      /\ \A d \in issued : d.first \in Nat \ {0} /\ d.last \in Nat
  BY <1>1, ContainerType, SeqAssumption DEF IInv, TypeOK
<1>7. /\ \A d \in bySeqUpdates : d.session = Heard /\ updatesSeq < d.first /\ d \in issued
      /\ Heard = session => updatesSeq <= serverSeq
      /\ PassedInv
  BY <1>4 DEF IInv, ClientInv, TypeOK
<1>8. ASSUME NEW d \in issued
      PROVE  \/ d \in taken \cup covered \cup bySeqUpdates \cup unsent \cup InNet' \cup {c}
             \/ Pending(d)
             \/ \E m \in InNet' : m.type = "newSession"
  <2>1. \/ d \in taken \cup covered \cup bySeqUpdates \cup unsent \cup InNet
        \/ asked /= NoRequest \/ afterFail
        \/ \E m \in InNet : \/ m.type \in {"fail", "newSession"}
                            \/ m.type = "difference" /\ (m.final => d \in m.covers)
    BY DEF IInv, SeqNothingForgotten
  <2>2. ASSUME NEW m \in InNet,
               \/ m.type = "fail"
               \/ m.type = "difference" /\ (m.final => d \in m.covers)
        PROVE  Pending(d)
    BY <2>2 DEF Pending, InNet
  <2>3. ASSUME NEW m \in InNet, m.type = "newSession"
        PROVE  m \in InNet'
    BY <1>3, <1>5, <2>3
  <2>4. asked /= NoRequest \/ afterFail => Pending(d)
    BY DEF Pending
  <2> QED BY <1>5, <2>1, <2>2, <2>3, <2>4
<1>9. ASSUME NEW d, Pending(d)'
      PROVE  \/ asked' /= NoRequest \/ afterFail'
             \/ \E m \in InNet' : \/ m.type \in {"fail", "newSession"}
                                  \/ m.type = "difference" /\ (m.final => d \in m.covers)
  BY <1>9 DEF Pending, InNet
<1>10. CASE c.first <= updatesSeq /\ UNCHANGED <<clientVars, asked>>
  <2>1. UNCHANGED <<updatesSeq, bySeqUpdates, bySeqTimer, requesting, afterFail, taken, asked>>
    BY <1>10 DEF clientVars
  <2>2. TypeOK' /\ HeldBackIsWatched'
    BY <1>1, <1>2, <2>1 DEF IInv, TypeOK, HeldBackIsWatched
  <2>3. IssuedInv' /\ NetInv' /\ DifferenceInv'
    BY <2>1, Received
  <2>4. RequestInv' /\ \A d : Pending(d) => Pending(d)'
    BY <1>2, <1>3, <2>1, RequestKept
  <2>5. ClientInv'
    <3>1. Steady' => PassedInv'
      BY <1>1, <1>4, <1>7, <2>1, <2>4 DEF PassedInv
    <3> QED BY <1>1, <1>4, <1>7, <2>1, <3>1 DEF IInv, ClientInv
  <2>6. c \in taken \cup covered \/ Pending(c)
    BY <1>3, <1>4, <1>7, <1>10 DEF PassedInv
  <2>7. SeqNothingForgotten'
    <3> SUFFICES ASSUME NEW d \in issued
                 PROVE  \/ d \in taken' \cup covered' \cup bySeqUpdates' \cup unsent' \cup InNet'
                        \/ asked' /= NoRequest \/ afterFail'
                        \/ \E m \in InNet' :
                             \/ m.type \in {"fail", "newSession"}
                             \/ m.type = "difference" /\ (m.final => d \in m.covers)
      BY <1>1 DEF SeqNothingForgotten
    <3>1. \/ d \in taken \cup covered \cup bySeqUpdates \cup unsent \cup InNet'
          \/ Pending(d)
          \/ \E m \in InNet' : m.type = "newSession"
      BY <1>8, <2>6
    <3>2. Pending(d) => Pending(d)'
      BY <2>4
    <3> QED BY <1>1, <1>9, <2>1, <3>1, <3>2
  <2> QED BY <2>1, <2>2, <2>3, <2>4, <2>5, <2>7 DEF IInv, SeqStep
<1>11. CASE /\ c.first > updatesSeq + 1
            /\ bySeqUpdates' = IF \E d \in bySeqUpdates : d.first = c.first
                                 THEN bySeqUpdates ELSE bySeqUpdates \cup {c}
            /\ bySeqTimer' = TRUE
            /\ UNCHANGED <<updatesSeq, requesting, afterFail, taken, asked>>
  <2>1. c \in bySeqUpdates' /\ bySeqUpdates' \subseteq bySeqUpdates \cup {c}
        /\ bySeqUpdates \subseteq bySeqUpdates'
    <3>1. ASSUME NEW d \in bySeqUpdates, d.first = c.first PROVE d = c
      <4>1. d.session = c.session /\ d \in issued
        BY <1>4, <1>7
      <4>2. d.first <= d.last /\ c.first <= c.last
        BY <1>3, <4>1 DEF IInv, IssuedInv
      <4> QED BY <1>3, <1>6, <3>1, <4>1, <4>2 DEF IInv, IssuedInv, Tiles
    <3> QED BY <1>11, <3>1
  <2>2. TypeOK' /\ HeldBackIsWatched'
    BY <1>1, <1>2, <1>3, <1>11, <2>1 DEF IInv, TypeOK, HeldBackIsWatched
  <2>3. IssuedInv' /\ NetInv' /\ DifferenceInv'
    BY <1>2, <2>1, Received
  <2>4. RequestInv' /\ \A d : Pending(d) => Pending(d)'
    BY <1>2, <1>3, <1>11, RequestKept
  <2>5. ClientInv'
    <3>1. Steady' => PassedInv'
      BY <1>1, <1>4, <1>7, <1>11, <2>4 DEF PassedInv
    <3>2. requesting' => \A d \in bySeqUpdates' : d.type = "reply"
      BY <1>11, <2>1 DEF IInv, ClientInv
    <3>3. \A d \in bySeqUpdates' : updatesSeq' < d.first /\ d.session = Heard
      BY <1>3, <1>4, <1>6, <1>7, <1>11, <2>1
    <3> QED BY <1>1, <1>4, <1>7, <1>11, <3>1, <3>2, <3>3 DEF ClientInv
  <2>6. SeqNothingForgotten'
    <3> SUFFICES ASSUME NEW d \in issued
                 PROVE  \/ d \in taken' \cup covered' \cup bySeqUpdates' \cup unsent' \cup InNet'
                        \/ asked' /= NoRequest \/ afterFail'
                        \/ \E m \in InNet' :
                             \/ m.type \in {"fail", "newSession"}
                             \/ m.type = "difference" /\ (m.final => d \in m.covers)
      BY <1>1 DEF SeqNothingForgotten
    <3>1. \/ d \in taken' \cup covered' \cup bySeqUpdates' \cup unsent' \cup InNet'
          \/ Pending(d)
          \/ \E m \in InNet' : m.type = "newSession"
      BY <1>1, <1>8, <1>11, <2>1
    <3>2. Pending(d) => Pending(d)'
      BY <2>4
    <3> QED BY <1>9, <3>1, <3>2
  <2> QED BY <1>11, <2>2, <2>3, <2>4, <2>5, <2>6 DEF IInv, SeqStep
<1>12. ASSUME c.first = updatesSeq + 1,
              NEW run \in Runs(bySeqUpdates \cup {c}, updatesSeq), Feed(run, updatesSeq),
              \/ /\ ~requesting
                 /\ Ask
              \/ /\ Keep((bySeqUpdates \cup {c}) \ run, EndOf(run, updatesSeq))
                 /\ UNCHANGED <<requesting, afterFail, asked>>
       PROVE  IInv' /\ SeqStep
  <2> DEFINE queue == bySeqUpdates \cup {c}
  <2>1. queue \in SUBSET issued /\ \A d \in queue : d.session = Heard
    BY <1>3, <1>4, <1>7
  <2>2. UNCHANGED <<issued, covered>>
    BY <1>1
  <2>3. /\ run \subseteq queue /\ updatesSeq' = EndOf(run, updatesSeq)
        /\ updatesSeq' \in 0 .. MaxSeq /\ taken' \subseteq issued
        /\ updatesSeq' = updatesSeq \/ \E d \in run : updatesSeq' = d.last
        /\ \A d \in run : d.last <= updatesSeq'
        /\ \A d \in issued : d.session = Heard /\ d.first <= updatesSeq' =>
             d.first <= updatesSeq \/ d \in taken'
        /\ \A d \in taken' : d \in taken \/ d \in run
    BY <1>6, <1>12, <2>1, <2>2, FeedPasses
  <2>4. taken' = taken \cup run
    BY <1>12 DEF Feed
  <2>5. /\ \/ ~requesting /\ Ask
           \/ /\ bySeqUpdates' = {d \in queue \ run : d.first > updatesSeq'}
              /\ bySeqTimer' = (bySeqUpdates' /= {})
              /\ UNCHANGED <<requesting, afterFail, asked>>
        /\ bySeqUpdates' \subseteq queue
    BY <1>12, <2>3 DEF Keep, Ask
  <2>6. IssuedInv' /\ NetInv' /\ DifferenceInv'
    BY <1>2, <2>5, Received
  <2>7. TypeOK'
    BY <1>1, <1>2, <2>1, <2>3, <2>5 DEF IInv, TypeOK, Ask, NoRequest
  <2>8. Heard = session => updatesSeq' <= serverSeq
    BY <1>6, <1>7, <2>1, <2>3 DEF IInv, IssuedInv
  <2>9. SeqStep
    <3> SUFFICES ASSUME NEW d \in taken' \ taken, NEW e \in issued,
                        e.session = d.session, e.first < d.first, ~requesting
                 PROVE  e \in taken' \cup covered'
      BY <1>1 DEF SeqStep
    <3>1. d \in run /\ d \in queue /\ d \in issued /\ d.session = Heard
      BY <2>1, <2>3
    <3>2. d.first <= d.last /\ d.last <= updatesSeq'
      BY <2>3, <3>1 DEF IInv, IssuedInv
    <3>3. e.first <= updatesSeq \/ e \in taken'
      BY <1>6, <2>3, <3>1, <3>2
    <3>4. ~Pending(e)
      BY DEF IInv, RequestInv, Pending, IsAnswer
    <3> QED BY <1>1, <1>7, <2>4, <3>1, <3>3, <3>4 DEF PassedInv
  <2>10. CASE ~requesting /\ Ask
    <3>1. \A i \in DOMAIN net' : ~IsAnswer(net'[i])
      BY <1>2, <2>10 DEF IInv, RequestInv
    <3>2. Steady' /\ Heard' = session' => updatesSeq' <= serverSeq'
      BY <1>1, <1>4, <2>8
    <3>3. RequestInv' /\ ClientInv' /\ SeqNothingForgotten' /\ HeldBackIsWatched'
      BY <2>7, <2>10, <3>1, <3>2, AskStep
    <3> QED BY <2>6, <2>7, <2>9, <3>3 DEF IInv
  <2>11. CASE /\ bySeqUpdates' = {d \in queue \ run : d.first > updatesSeq'}
              /\ bySeqTimer' = (bySeqUpdates' /= {})
              /\ UNCHANGED <<requesting, afterFail, asked>>
    <3>1. RequestInv' /\ \A d : Pending(d) => Pending(d)'
      BY <1>2, <1>3, <2>11, RequestKept
    <3>2. ASSUME NEW d \in issued, d.session = Heard, d.first <= updatesSeq'
          PROVE  d \in taken' \cup covered' \/ Pending(d)'
      <4>1. d.first <= updatesSeq \/ d \in taken'
        BY <2>3, <3>2
      <4>2. d \in taken \cup covered \/ Pending(d) \/ d \in taken'
        BY <1>7, <3>2, <4>1 DEF PassedInv
      <4> QED BY <1>1, <2>4, <3>1, <4>2
    <3>3. ClientInv'
      <4>1. Steady' => PassedInv'
        BY <1>1, <1>4, <3>2 DEF PassedInv
      <4>2. requesting' => \A d \in bySeqUpdates' : d.type = "reply"
        BY <2>11 DEF IInv, ClientInv
      <4>3. \A d \in bySeqUpdates' : updatesSeq' < d.first /\ d.session = Heard
        BY <1>6, <2>1, <2>3, <2>11
      <4> QED BY <1>1, <1>4, <2>8, <4>1, <4>2, <4>3 DEF ClientInv
    <3>4. SeqNothingForgotten'
      <4> SUFFICES ASSUME NEW d \in issued
                   PROVE  \/ d \in taken' \cup covered' \cup bySeqUpdates' \cup unsent' \cup InNet'
                          \/ asked' /= NoRequest \/ afterFail'
                          \/ \E m \in InNet' :
                               \/ m.type \in {"fail", "newSession"}
                               \/ m.type = "difference" /\ (m.final => d \in m.covers)
        BY <1>1 DEF SeqNothingForgotten
      <4>1. d \in queue => \/ d \in taken' \cup covered' \cup bySeqUpdates'
                           \/ Pending(d)'
        <5>1. ASSUME d \in queue, d \notin run, d \notin bySeqUpdates'
              PROVE  d.first <= updatesSeq' /\ d.session = Heard
          BY <1>6, <2>1, <2>3, <2>11, <5>1
        <5> QED BY <2>4, <3>2, <5>1
      <4>2. \/ d \in taken' \cup covered' \cup unsent' \cup InNet'
            \/ d \in queue
            \/ Pending(d)
            \/ \E m \in InNet' : m.type = "newSession"
        BY <1>1, <1>8, <2>4
      <4> QED BY <1>9, <3>1, <4>1, <4>2
    <3> QED BY <2>6, <2>7, <2>9, <2>11, <3>1, <3>3, <3>4 DEF IInv, HeldBackIsWatched
  <2> QED BY <2>5, <2>10, <2>11
<1> QED BY <1>10, <1>11, <1>12 DEF applyUpdates

-----------------------------------------------------------------------------
(* The client's steps.                                                     *)

(* A push that is not looked at is in the difference that is awaited.      *)
LEMMA ReceivePushStep == ASSUME IInv, ReceivePush PROVE IInv' /\ SeqStep
<1>1. /\ net /= <<>> /\ net' = Tail(net) /\ Head(net).type = "push"
      /\ UNCHANGED serverVars /\ UNCHANGED covered
  BY DEF ReceivePush, Receive
<1>2. CASE ~requesting
  BY <1>1, <1>2, ApplyStep DEF ReceivePush, IsContainer
<1>3. CASE requesting
  <2> DEFINE c == Head(net)
  <2>1. UNCHANGED <<updatesSeq, bySeqUpdates, bySeqTimer, requesting, afterFail, taken, asked>>
        /\ UNCHANGED <<serverSeq, session, issued, unsent, covered>>
    BY <1>1, <1>3 DEF ReceivePush, clientVars, serverVars
  <2>2. /\ c = net[1] /\ 1 \in DOMAIN net /\ net \in Seq(Messages) /\ net' \in Seq(Messages)
        /\ DOMAIN net \subseteq Nat \ {0} /\ c.type = "push"
    BY <1>1, TailOf DEF IInv, TypeOK
  <2>3. ~IsAnswer(c) /\ c.type /= "newSession"
    BY <2>2 DEF IsAnswer
  <2>4. TypeOK'
    BY <2>1, <2>2 DEF IInv, TypeOK
  <2>5. IssuedInv' /\ NetInv' /\ DifferenceInv'
    BY <1>1, <2>1, Received
  <2>6. RequestInv' /\ \A d : Pending(d) => Pending(d)'
    BY <1>1, <2>1, <2>2, <2>3, RequestKept
  <2>7. Steady /\ (Steady' => Heard' = Heard)
    BY <1>1, <2>1, <2>2, <2>3, SteadyTail
  <2>8. ClientInv'
    <3>1. Steady' => PassedInv'
      BY <2>1, <2>6, <2>7 DEF IInv, ClientInv, PassedInv
    <3> QED BY <2>1, <2>7, <3>1 DEF IInv, ClientInv
  <2>9. \A m \in InNet : m = c \/ m \in InNet'
    BY <1>1, <2>2, OthersLeft
  <2>10. c \in issued => Pending(c)
    <3> SUFFICES ASSUME c \in issued, asked = NoRequest, ~afterFail PROVE Pending(c)
      BY DEF Pending
    <3>1. PICK i \in DOMAIN net : IsAnswer(net[i])
      BY <1>3 DEF IInv, RequestInv
    <3>2. 1 < i
      BY <2>2, <2>3, <3>1
    <3>3. net[i].type = "difference" /\ net[i].final => c \in net[i].covers
      BY <2>2, <3>2 DEF IInv, DifferenceInv
    <3> QED BY <3>1, <3>3 DEF Pending, IsAnswer
  <2>11. SeqNothingForgotten'
    <3> SUFFICES ASSUME NEW d \in issued
                 PROVE  \/ d \in taken \cup covered \cup bySeqUpdates \cup unsent \cup InNet'
                        \/ asked /= NoRequest \/ afterFail
                        \/ \E m \in InNet' : \/ m.type \in {"fail", "newSession"}
                                             \/ m.type = "difference" /\ (m.final => d \in m.covers)
      BY <2>1 DEF SeqNothingForgotten
    <3>1. CASE d = c
      BY <2>1, <2>6, <2>10, <3>1 DEF Pending, InNet
    <3>2. CASE d /= c
      BY <2>2, <2>9, <3>2 DEF IInv, SeqNothingForgotten
    <3> QED BY <3>1, <3>2
  <2> QED BY <2>1, <2>4, <2>5, <2>6, <2>8, <2>11 DEF IInv, HeldBackIsWatched, SeqStep
<1> QED BY <1>2, <1>3

(* The answer to another request is looked at in any case.                 *)
LEMMA ReceiveReplyStep == ASSUME IInv, ReceiveReply PROVE IInv' /\ SeqStep
BY ApplyStep DEF ReceiveReply, Receive, IsContainer

(* What asks for the difference when nothing arrives.                      *)
LEMMA AskQuietly ==
  ASSUME IInv, ~requesting \/ afterFail, Ask,
         UNCHANGED <<updatesSeq, taken, covered, serverSeq, session, issued, unsent, net>>
  PROVE  IInv' /\ SeqStep
<1>1. bySeqUpdates' = {} /\ ~bySeqTimer' /\ ~afterFail' /\ requesting' /\ asked' = "difference"
  BY DEF Ask
<1>2. IssuedInv' /\ NetInv' /\ DifferenceInv'
  BY <1>1, Quiet
<1>3. TypeOK'
  BY <1>1 DEF IInv, TypeOK, Ask, NoRequest
<1>4. \A i \in DOMAIN net' : ~IsAnswer(net'[i])
  BY DEF IInv, RequestInv
<1>5. Steady' /\ Heard' = session' => updatesSeq' <= serverSeq'
  BY DEF IInv, ClientInv, Steady, Heard
<1>6. RequestInv' /\ ClientInv' /\ SeqNothingForgotten' /\ HeldBackIsWatched'
  BY <1>3, <1>4, <1>5, AskStep
<1> QED BY <1>2, <1>3, <1>6 DEF IInv, SeqStep

(* The timer of the saved containers.                                      *)
LEMMA BySeqTimerStep == ASSUME IInv, BySeqTimer PROVE IInv' /\ SeqStep
<1>1. UNCHANGED <<updatesSeq, taken, covered, serverSeq, session, issued, unsent, net>>
  BY DEF BySeqTimer, serverVars
<1>2. CASE ~requesting
  BY <1>1, <1>2, AskQuietly DEF BySeqTimer
<1>3. CASE requesting
  <2>1. bySeqTimer' = FALSE /\ UNCHANGED <<bySeqUpdates, requesting, afterFail, asked>>
    BY <1>3 DEF BySeqTimer
  <2>2. IssuedInv' /\ NetInv' /\ DifferenceInv'
    BY <1>1, <2>1, Quiet
  <2>3. TypeOK'
    BY <1>1, <2>1 DEF IInv, TypeOK
  <2>4. RequestInv' /\ ClientInv'
    BY <1>1, <2>1 DEF IInv, RequestInv, ClientInv, PassedInv, Pending, Steady, Heard
  <2>5. SeqNothingForgotten' /\ HeldBackIsWatched'
    BY <1>1, <1>3, <2>1 DEF IInv, SeqNothingForgotten, InNet, HeldBackIsWatched
  <2> QED BY <1>1, <2>2, <2>3, <2>4, <2>5 DEF IInv, SeqStep
<1> QED BY <1>2, <1>3

(* Any other reason to ask.                                                *)
LEMMA AskElsewhereStep == ASSUME IInv, AskElsewhere PROVE IInv' /\ SeqStep
BY AskQuietly DEF AskElsewhere

(* The retry replaces the request that failed.                             *)
LEMMA FailTimerStep == ASSUME IInv, FailTimer PROVE IInv' /\ SeqStep
BY AskQuietly DEF FailTimer, serverVars

(* A failed request is left to the retry timer.                            *)
LEMMA ReceiveFailStep == ASSUME IInv, ReceiveFail PROVE IInv' /\ SeqStep
<1>1. /\ net /= <<>> /\ net' = Tail(net) /\ Head(net).type = "fail" /\ afterFail' = TRUE
      /\ UNCHANGED <<updatesSeq, bySeqUpdates, bySeqTimer, requesting, taken, asked, covered>>
      /\ UNCHANGED serverVars /\ UNCHANGED <<serverSeq, session, issued, unsent>>
  BY DEF ReceiveFail, Receive, serverVars
<1>2. /\ Head(net) = net[1] /\ 1 \in DOMAIN net /\ net' \in Seq(Messages)
      /\ \A i \in DOMAIN net' : i \in Nat /\ i + 1 \in DOMAIN net /\ net'[i] = net[i + 1]
      /\ DOMAIN net \subseteq Nat \ {0}
  BY <1>1, TailOf DEF IInv, TypeOK
<1>3. IsAnswer(net[1]) /\ net[1].type /= "newSession"
  BY <1>1, <1>2 DEF IsAnswer
<1>4. IssuedInv' /\ NetInv' /\ DifferenceInv'
  BY <1>1, Received
<1>5. TypeOK'
  BY <1>1, <1>2 DEF IInv, TypeOK
<1>6. RequestInv'
  <2>1. \A i \in DOMAIN net' : ~IsAnswer(net'[i])
    <3> SUFFICES ASSUME NEW i \in DOMAIN net', IsAnswer(net'[i]) PROVE FALSE
      OBVIOUS
    <3>1. i + 1 = 1
      BY <1>2, <1>3 DEF IInv, RequestInv
    <3> QED BY <1>2, <3>1
  <2>2. requesting /\ asked = NoRequest
    BY <1>2, <1>3 DEF IInv, RequestInv
  <2> QED BY <1>1, <2>1, <2>2 DEF RequestInv
<1>7. ClientInv'
  <2>1. Steady /\ (Steady' => Heard' = Heard)
    BY <1>1, <1>3, SteadyTail
  <2>2. PassedInv'
    BY <1>1 DEF PassedInv, Pending
  <2> QED BY <1>1, <2>1, <2>2 DEF IInv, ClientInv
<1> QED BY <1>1, <1>4, <1>5, <1>6, <1>7
        DEF IInv, SeqNothingForgotten, HeldBackIsWatched, SeqStep

(* Nothing of the old session is saved when the numbers start again.       *)
LEMMA ReceiveNewSessionStep == ASSUME IInv, ReceiveNewSession PROVE IInv' /\ SeqStep
<1>1. /\ net /= <<>> /\ net' = Tail(net) /\ Head(net).type = "newSession" /\ updatesSeq' = 0
      /\ UNCHANGED <<taken, covered>>
      /\ UNCHANGED serverVars /\ UNCHANGED <<serverSeq, session, issued, unsent>>
      /\ \/ ~requesting /\ Ask
         \/ requesting /\ UNCHANGED <<bySeqUpdates, bySeqTimer, requesting, afterFail, asked>>
  BY DEF ReceiveNewSession, Receive, serverVars
<1>2. /\ Head(net) = net[1] /\ 1 \in DOMAIN net /\ net' \in Seq(Messages)
      /\ \A i \in DOMAIN net' : i \in Nat /\ i + 1 \in DOMAIN net /\ net'[i] = net[i + 1]
      /\ DOMAIN net \subseteq Nat \ {0}
      /\ \A i \in DOMAIN net : i > 1 => i - 1 \in DOMAIN net' /\ net'[i - 1] = net[i]
  BY <1>1, TailOf DEF IInv, TypeOK
<1>3. ~IsAnswer(net[1])
  BY <1>1, <1>2 DEF IsAnswer
<1>4. MaxSeq \in Nat /\ serverSeq \in 0 .. MaxSeq
      /\ \A c \in issued : c.first \in Nat \ {0}
  BY ContainerType, SeqAssumption DEF IInv, TypeOK
<1>5. session > 0 /\ \A c \in issued : c.type /= "reply"
  <2>1. net[1].session <= session /\ net[1].session > 0
    BY <1>1, <1>2 DEF IInv, NetInv
  <2>2. \A c \in issued : c.type = "reply" => session = 0
    BY DEF IInv, IssuedInv
  <2>3. net[1] \in Messages /\ session \in 0 .. MaxSessions
    BY <1>2, <1>1, TailOf DEF IInv, TypeOK
  <2>4. net[1].session \in 0 .. MaxSessions
    BY <1>1, <1>2, <2>3 DEF Messages, Containers
  <2>5. MaxSessions \in Nat
    BY SeqAssumption
  <2>6. session > 0
    BY <2>1, <2>3, <2>4, <2>5
  <2> QED BY <2>2, <2>6
<1>6. bySeqUpdates' = {}
  BY <1>1, <1>5 DEF Ask, IInv, TypeOK, ClientInv
<1>7. IssuedInv' /\ NetInv' /\ DifferenceInv'
  BY <1>1, <1>6, Received
<1>8. TypeOK'
  <2>1. /\ updatesSeq' \in 0 .. MaxSeq /\ bySeqUpdates' \subseteq issued'
        /\ net' \in Seq(Messages)
    BY <1>1, <1>2, <1>4, <1>6
  <2>2. /\ bySeqTimer' \in BOOLEAN /\ requesting' \in BOOLEAN /\ afterFail' \in BOOLEAN
        /\ asked' \in {NoRequest, "state", "difference"}
    BY <1>1 DEF IInv, TypeOK, Ask, NoRequest
  <2> QED BY <1>1, <2>1, <2>2 DEF IInv, TypeOK
<1>9. CASE ~requesting /\ Ask
  <2>1. \A i \in DOMAIN net' : ~IsAnswer(net'[i])
    BY <1>2, <1>9 DEF IInv, RequestInv
  <2>2. Steady' /\ Heard' = session' => updatesSeq' <= serverSeq'
    BY <1>1, <1>4
  <2>3. RequestInv' /\ ClientInv' /\ SeqNothingForgotten' /\ HeldBackIsWatched'
    BY <1>8, <1>9, <2>1, <2>2, AskStep
  <2> QED BY <1>1, <1>7, <1>8, <2>3 DEF IInv, SeqStep
<1>10. CASE requesting /\ UNCHANGED <<bySeqUpdates, bySeqTimer, requesting, afterFail, asked>>
  <2>1. RequestInv'
    BY <1>1, <1>3, <1>10, RequestKept
  <2>2. ClientInv'
    <3>1. PassedInv'
      BY <1>1, <1>4 DEF PassedInv
    <3> QED BY <1>1, <1>4, <1>6, <3>1 DEF ClientInv
  <2>3. SeqNothingForgotten'
    <3> SUFFICES ASSUME NEW d \in issued, asked = NoRequest, ~afterFail
                 PROVE  \/ d \in unsent \cup InNet'
                        \/ \E m \in InNet' : \/ m.type \in {"fail", "newSession"}
                                             \/ m.type = "difference" /\ (m.final => d \in m.covers)
      BY <1>1, <1>10 DEF SeqNothingForgotten
    <3>1. PICK i \in DOMAIN net : IsAnswer(net[i])
      BY <1>10 DEF IInv, RequestInv
    <3>2. i > 1
      BY <1>2, <1>3, <3>1
    <3>3. \A k \in DOMAIN net : k > 1 => net[k] \in InNet'
      BY <1>2 DEF InNet
    <3>4. CASE net[i].type = "fail" \/ (net[i].final => d \in net[i].covers)
      BY <3>1, <3>2, <3>3, <3>4 DEF IsAnswer
    <3>5. CASE net[i].type = "difference" /\ net[i].final /\ d \notin net[i].covers
      <4>1. \/ d \in unsent
            \/ \E k \in DOMAIN net : k > i /\ (net[k] = d \/ net[k].type = "newSession")
        BY <3>5 DEF IInv, DifferenceInv
      <4>2. \A k \in DOMAIN net : k > i => k > 1
        BY <1>2, <3>2
      <4> QED BY <3>3, <4>1, <4>2
    <3> QED BY <3>1, <3>4, <3>5 DEF IsAnswer
  <2> QED BY <1>1, <1>6, <1>7, <1>8, <2>1, <2>2, <2>3 DEF IInv, HeldBackIsWatched, SeqStep
<1> QED BY <1>1, <1>9, <1>10

(* An answer outruns all that is saved; a final one brings what it outruns. *)
LEMMA ReceiveDifferenceStep == ASSUME IInv, ReceiveDifference PROVE IInv' /\ SeqStep
<1> DEFINE d == Head(net)
           same == d.seq \in {0, updatesSeq}
<1>1. /\ net /= <<>> /\ net' = Tail(net) /\ d.type = "difference"
      /\ UNCHANGED serverVars /\ UNCHANGED <<serverSeq, session, issued, unsent>>
      /\ covered' = covered \cup d.covers
  BY DEF ReceiveDifference, Receive, serverVars
<1>2. PICK run \in Runs(bySeqUpdates, d.seq) :
        /\ IF same THEN run = {} /\ UNCHANGED <<updatesSeq, taken>> ELSE Feed(run, d.seq)
        /\ \/ /\ ~d.final
              /\ Ask
           \/ /\ d.final
              /\ IF same THEN UNCHANGED <<bySeqUpdates, bySeqTimer>>
                         ELSE Keep(bySeqUpdates \ run, EndOf(run, d.seq))
              /\ requesting' = FALSE
              /\ UNCHANGED <<afterFail, asked>>
  BY DEF ReceiveDifference
<1>3. /\ d = net[1] /\ 1 \in DOMAIN net /\ net' \in Seq(Messages) /\ net \in Seq(Messages)
      /\ \A i \in DOMAIN net' : i \in Nat /\ i + 1 \in DOMAIN net /\ net'[i] = net[i + 1]
      /\ DOMAIN net \subseteq Nat \ {0} /\ d \in Messages
  BY <1>1, TailOf DEF IInv, TypeOK
<1>4. /\ MaxSeq \in Nat /\ serverSeq \in 0 .. MaxSeq /\ updatesSeq \in 0 .. MaxSeq
      /\ issued \subseteq Containers /\ bySeqUpdates \subseteq issued
      /\ \A c \in issued : c.first \in Nat \ {0} /\ c.last \in Nat
  BY ContainerType, SeqAssumption DEF IInv, TypeOK
<1>5. d.seq \in 0 .. MaxSeq /\ d.final \in BOOLEAN
  <2>1. d \notin Containers
    BY <1>1, ContainerType
  <2> QED BY <1>1, <1>3, <2>1 DEF Messages
<1>6. /\ requesting /\ asked = NoRequest /\ ~afterFail
      /\ \A i \in DOMAIN net' : ~IsAnswer(net'[i])
  <2>1. IsAnswer(net[1])
    BY <1>1, <1>3 DEF IsAnswer
  <2>2. ASSUME NEW i \in DOMAIN net', IsAnswer(net'[i]) PROVE FALSE
    <3>1. i + 1 = 1
      BY <1>3, <2>1, <2>2 DEF IInv, RequestInv
    <3> QED BY <1>3, <3>1
  <2> QED BY <1>3, <2>1, <2>2 DEF IInv, RequestInv
<1>7. /\ Steady /\ Heard = d.session /\ (Steady' => Heard' = Heard)
  BY <1>1, <1>3, SteadyTail
<1>8. /\ \A c \in bySeqUpdates : c.session = Heard /\ updatesSeq < c.first /\ c.first <= c.last
      /\ Heard = session => updatesSeq <= serverSeq
      /\ PassedInv
  BY <1>4, <1>7 DEF IInv, ClientInv, IssuedInv
<1>9. /\ d.covers \subseteq issued
      /\ d.session = session => d.seq <= serverSeq
      /\ \A c \in bySeqUpdates : /\ d.final => c \in d.covers
                                 /\ c.last <= d.seq
      /\ d.final => \A c \in issued \ d.covers :
           c.session = d.session => d.seq < c.first
  BY <1>1, <1>3, <1>4, <1>7, <1>8 DEF IInv, DifferenceInv
<1>10. ASSUME NEW c \in issued, Pending(c), d.final
       PROVE  c \in covered'
  <2>1. PICK i \in DOMAIN net :
          \/ net[i].type = "fail"
          \/ net[i].type = "difference" /\ (net[i].final => c \in net[i].covers)
    BY <1>6, <1>10 DEF Pending
  <2>2. i = 1
    BY <1>1, <1>3, <2>1 DEF IInv, RequestInv, IsAnswer
  <2> QED BY <1>1, <1>3, <1>10, <2>1, <2>2
<1>11. /\ updatesSeq' \in 0 .. MaxSeq /\ taken' \subseteq issued /\ taken \subseteq taken'
       /\ bySeqUpdates' \subseteq bySeqUpdates
       /\ Heard = session => updatesSeq' <= serverSeq
       /\ d.final => \A c \in issued : c.session = Heard /\ c.first <= updatesSeq' =>
                       c \in taken' \cup covered'
       /\ d.final => \A c \in bySeqUpdates' : updatesSeq' < c.first
       /\ d.final => (bySeqUpdates' /= {} => bySeqTimer')
       /\ bySeqTimer' \in BOOLEAN
       /\ d.final => \A c \in bySeqUpdates : c \in covered'
  <2>1. CASE same
    <3>1. bySeqUpdates = {}
      BY <1>4, <1>5, <1>8, <1>9, <2>1
    <3>2. UNCHANGED <<updatesSeq, taken>> /\ bySeqUpdates' \subseteq bySeqUpdates
      BY <1>2, <2>1, <3>1 DEF Ask
    <3>3. bySeqTimer' \in BOOLEAN /\ taken \subseteq issued
      BY <1>2, <2>1 DEF Ask, IInv, TypeOK
    <3>4. ASSUME d.final, NEW c \in issued, c.session = Heard, c.first <= updatesSeq'
          PROVE  c \in taken' \cup covered'
      BY <1>1, <1>8, <1>10, <3>2, <3>4 DEF PassedInv
    <3> QED BY <1>1, <1>4, <1>8, <3>1, <3>2, <3>3, <3>4
  <2>2. CASE ~same
    <3>1. Feed(run, d.seq) /\ bySeqUpdates \in SUBSET issued
      BY <1>2, <1>4, <2>2
    <3>2. run = {}
      <4>1. run \subseteq bySeqUpdates
        BY DEF Runs
      <4>2. \A c \in run : c.first = d.seq + 1 \/ \E e \in run : e.last + 1 = c.first
        BY DEF Runs
      <4>3. \A c \in bySeqUpdates : c.first <= d.seq
        BY <1>4, <1>5, <1>8, <1>9
      <4> DEFINE firsts == {c.first : c \in run}
      <4> SUFFICES ASSUME run /= {} PROVE FALSE
        OBVIOUS
      <4>4. firsts \in SUBSET Nat /\ firsts /= {}
        BY <1>4, <4>1
      <4>5. PICK x \in firsts : \A y \in firsts : x <= y
        BY <4>4, LeastOf
      <4>6. PICK c \in run : x = c.first
        OBVIOUS
      <4>7. PICK e \in run : e.last + 1 = c.first
        BY <1>4, <1>5, <4>1, <4>2, <4>3
      <4>8. e.first <= e.last /\ e.first \in Nat /\ e.last \in Nat /\ c.first \in Nat
        BY <1>4, <1>8, <4>1
      <4>9. c.first <= e.first
        BY <4>5, <4>6
      <4> QED BY <4>7, <4>8, <4>9
    <3>3. updatesSeq' = d.seq /\ taken' = taken
      BY <3>1, <3>2 DEF Feed, EndOf
    <3>4. \/ ~d.final /\ Ask
          \/ /\ d.final
             /\ bySeqUpdates' = {c \in bySeqUpdates : c.first > d.seq}
             /\ bySeqTimer' = (bySeqUpdates' /= {})
      BY <1>2, <2>2, <3>2, <3>3 DEF Keep, EndOf
    <3>5. /\ bySeqUpdates' \subseteq bySeqUpdates /\ bySeqTimer' \in BOOLEAN
          /\ d.final => (bySeqUpdates' /= {} => bySeqTimer')
      BY <3>4 DEF Ask
    <3>6. taken \subseteq issued
      BY DEF IInv, TypeOK
    <3>7. ASSUME d.final, NEW c \in issued, c.session = Heard, c.first <= updatesSeq'
          PROVE  c \in taken' \cup covered'
      BY <1>1, <1>4, <1>5, <1>7, <1>9, <3>3, <3>7
    <3>8. d.final => \A c \in bySeqUpdates' : updatesSeq' < c.first
      BY <1>4, <1>5, <3>3, <3>4
    <3> QED BY <1>1, <1>4, <1>5, <1>7, <1>9, <3>3, <3>5, <3>6, <3>7, <3>8
  <2> QED BY <2>1, <2>2
<1>12. IssuedInv' /\ NetInv' /\ DifferenceInv'
  BY <1>1, <1>11, Received
<1>13. SeqStep
  BY <1>6 DEF SeqStep
<1>14. CASE ~d.final /\ Ask
  <2>1. TypeOK'
    <3>1. /\ requesting' \in BOOLEAN /\ afterFail' \in BOOLEAN
          /\ asked' \in {NoRequest, "state", "difference"}
      BY <1>14 DEF Ask
    <3>2. covered' \subseteq issued
      BY <1>1, <1>9 DEF IInv, TypeOK
    <3> QED BY <1>1, <1>3, <1>4, <1>11, <3>1, <3>2 DEF IInv, TypeOK
  <2>2. Steady' /\ Heard' = session' => updatesSeq' <= serverSeq'
    BY <1>1, <1>7, <1>11
  <2>3. RequestInv' /\ ClientInv' /\ SeqNothingForgotten' /\ HeldBackIsWatched'
    BY <1>6, <1>14, <2>1, <2>2, AskStep
  <2> QED BY <1>12, <1>13, <2>1, <2>3 DEF IInv
<1>15. CASE d.final /\ requesting' = FALSE /\ UNCHANGED <<afterFail, asked>>
  <2>1. TypeOK'
    <3>1. covered' \subseteq issued /\ requesting' \in BOOLEAN
      BY <1>1, <1>9, <1>15 DEF IInv, TypeOK
    <3> QED BY <1>1, <1>3, <1>4, <1>11, <1>15, <3>1 DEF IInv, TypeOK
  <2>2. RequestInv'
    BY <1>6, <1>15 DEF RequestInv
  <2>3. ClientInv'
    <3>1. Steady' => PassedInv'
      BY <1>1, <1>7, <1>11, <1>15 DEF PassedInv
    <3> QED BY <1>1, <1>7, <1>8, <1>11, <1>15, <3>1 DEF ClientInv
  <2>4. SeqNothingForgotten'
    <3> SUFFICES ASSUME NEW c \in issued
                 PROVE  \/ c \in taken' \cup covered' \cup unsent \cup InNet'
                        \/ \E m \in InNet' : m.type = "newSession"
      BY <1>1 DEF SeqNothingForgotten
    <3>1. \A m \in InNet : m = d \/ m \in InNet'
      BY <1>1, <1>3, OthersLeft
    <3>2. c /= d
      BY <1>1, <1>4, ContainerType
    <3>3. \/ c \in taken \cup covered \cup bySeqUpdates \cup unsent \cup InNet
          \/ asked /= NoRequest \/ afterFail
          \/ \E m \in InNet : \/ m.type \in {"fail", "newSession"}
                              \/ m.type = "difference" /\ (m.final => c \in m.covers)
      BY DEF IInv, SeqNothingForgotten
    <3>4. ASSUME NEW m \in InNet,
                 \/ m.type = "fail"
                 \/ m.type = "difference" /\ (m.final => c \in m.covers)
          PROVE  Pending(c)
      BY <3>4 DEF Pending, InNet
    <3>5. ASSUME NEW m \in InNet, m.type = "newSession" PROVE m \in InNet'
      BY <1>1, <3>1, <3>5
    <3>6. Pending(c) => c \in covered'
      BY <1>10, <1>15
    <3> QED BY <1>1, <1>6, <1>11, <1>15, <3>1, <3>2, <3>3, <3>4, <3>5, <3>6
  <2>5. HeldBackIsWatched'
    BY <1>11, <1>15 DEF HeldBackIsWatched
  <2> QED BY <1>12, <1>13, <2>1, <2>2, <2>3, <2>4, <2>5 DEF IInv
<1> QED BY <1>2, <1>14, <1>15

-----------------------------------------------------------------------------
(* The server's steps.                                                     *)

(* A new container is one that the client has not passed.                  *)
LEMMA IssueStep ==
  ASSUME IInv, NEW span \in 1 .. MaxSpan, NEW via \in Vias, Issue(span, via)
  PROVE  IInv' /\ SeqStep
<1> DEFINE n == [type |-> via, session |-> session,
                 first |-> serverSeq + 1, last |-> serverSeq + span]
<1>1. /\ n.last <= MaxSeq /\ (via = "reply" => session = 0)
      /\ serverSeq' = n.last /\ issued' = issued \cup {n} /\ unsent' = unsent \cup {n}
      /\ UNCHANGED <<clientVars, session, spent, asked, net, covered>>
  BY DEF Issue
<1>2. UNCHANGED <<updatesSeq, bySeqUpdates, bySeqTimer, requesting, afterFail, taken>>
  BY <1>1 DEF clientVars
<1>3. /\ MaxSeq \in Nat /\ MaxSpan \in Nat /\ span \in Nat /\ span >= 1
      /\ serverSeq \in 0 .. MaxSeq /\ session \in 0 .. MaxSessions
  BY SeqAssumption DEF IInv, TypeOK
<1>4. /\ n \in Containers /\ n.type = via /\ n.session = session
      /\ n.first = serverSeq + 1 /\ n.last = serverSeq + span
  BY <1>1, <1>3 DEF Containers
<1>5. \A c \in issued : /\ c \in Containers /\ c.first <= c.last /\ c.session <= session
                        /\ c.first \in Nat \ {0} /\ c.last \in Nat
                        /\ c.session = session => c.last <= serverSeq
                        /\ c.type = "reply" => session = 0
  BY ContainerType DEF IInv, TypeOK, IssuedInv
<1>6. TypeOK'
  BY <1>1, <1>2, <1>3, <1>4 DEF IInv, TypeOK
<1>7. IssuedInv'
  <2>1. Tiles(issued')
    <3> SUFFICES ASSUME NEW c \in issued', NEW e \in issued', c.session = e.session
                 PROVE  c = e \/ c.last < e.first \/ e.last < c.first
      BY DEF Tiles
    <3>1. CASE c \in issued /\ e \in issued
      BY <3>1 DEF IInv, IssuedInv, Tiles
    <3>2. CASE c = n /\ e \in issued
      BY <1>3, <1>4, <1>5, <3>2
    <3>3. CASE c \in issued /\ e = n
      BY <1>3, <1>4, <1>5, <3>3
    <3> HIDE DEF n
    <3> QED BY <1>1, <3>1, <3>2, <3>3
  <2>2. \A c \in issued' : /\ c.first <= c.last /\ c.session <= session'
                           /\ c.session = session' => c.last <= serverSeq'
                           /\ c.type = "reply" => session' = 0
    <3>1. ASSUME NEW c \in issued
          PROVE  /\ c.first <= c.last /\ c.session <= session'
                 /\ c.session = session' => c.last <= serverSeq'
                 /\ c.type = "reply" => session' = 0
      BY <1>1, <1>3, <1>5
    <3>2. /\ n.first <= n.last /\ n.session <= session'
          /\ n.session = session' => n.last <= serverSeq'
          /\ n.type = "reply" => session' = 0
      BY <1>1, <1>3, <1>4
    <3> HIDE DEF n
    <3> QED BY <1>1, <3>1, <3>2
  <2>3. \A c \in unsent' : c.session = session'
    BY <1>1, <1>4 DEF IInv, IssuedInv
  <2> QED BY <2>1, <2>2, <2>3 DEF IssuedInv
<1> HIDE DEF n
<1>8. RequestInv' /\ NetInv'
  BY <1>1, <1>2 DEF IInv, RequestInv, NetInv
<1>9. DifferenceInv'
  <2> SUFFICES ASSUME NEW j \in DOMAIN net, net[j].type = "difference"
               PROVE  /\ net[j].covers \subseteq issued'
                      /\ net[j].session = session => net[j].seq <= serverSeq'
                      /\ \A c \in issued' :
                           c \in bySeqUpdates \/ (\E i \in DOMAIN net : i < j /\ net[i] = c) =>
                             /\ net[j].final => c \in net[j].covers
                             /\ c.session = net[j].session => c.last <= net[j].seq
                      /\ net[j].final =>
                           \A c \in issued' \ net[j].covers :
                             /\ c.session = net[j].session => net[j].seq < c.first
                             /\ \/ c \in unsent'
                                \/ \E k \in DOMAIN net :
                                     k > j /\ (net[k] = c \/ net[k].type = "newSession")
    BY <1>1, <1>2 DEF DifferenceInv
  <2>1. /\ net[j].covers \subseteq issued
        /\ net[j].session = session => net[j].seq <= serverSeq
        /\ \A c \in issued :
             c \in bySeqUpdates \/ (\E i \in DOMAIN net : i < j /\ net[i] = c) =>
               /\ net[j].final => c \in net[j].covers
               /\ c.session = net[j].session => c.last <= net[j].seq
        /\ net[j].final =>
             \A c \in issued \ net[j].covers :
               /\ c.session = net[j].session => net[j].seq < c.first
               /\ \/ c \in unsent
                  \/ \E k \in DOMAIN net : k > j /\ (net[k] = c \/ net[k].type = "newSession")
    BY DEF IInv, DifferenceInv
  <2>2. net[j].seq \in 0 .. MaxSeq
    <3>1. net[j] \in Messages /\ net[j] \notin Containers
      BY ContainerType, ElementOfSeq DEF IInv, TypeOK
    <3> QED BY <3>1 DEF Messages
  <2>3. n \in bySeqUpdates \/ (\E i \in DOMAIN net : net[i] = n) => n \in issued
    BY <1>4, ContainerType DEF IInv, TypeOK, NetInv
  <2> QED BY <1>1, <1>3, <1>4, <2>1, <2>2, <2>3
<1>10. ClientInv'
  <2>1. Steady' = Steady /\ Heard' = Heard
    BY <1>1 DEF Steady, Heard
  <2>2. ASSUME Steady, Heard = session PROVE updatesSeq <= serverSeq' /\ updatesSeq < n.first
    BY <1>1, <1>3, <1>4, <2>2 DEF IInv, ClientInv, TypeOK
  <2>3. Steady => PassedInv'
    <3> SUFFICES ASSUME Steady, NEW c \in issued', c.session = Heard, c.first <= updatesSeq
                 PROVE  c \in taken \cup covered \/ Pending(c)
      BY <1>1, <1>2, <2>1 DEF PassedInv, Pending
    <3>1. CASE c \in issued
      BY <3>1 DEF IInv, ClientInv, PassedInv
    <3>2. c /= n
      BY <1>3, <1>4, <2>2 DEF IInv, TypeOK
    <3> QED BY <1>1, <3>1, <3>2
  <2> QED BY <1>1, <1>2, <2>1, <2>2, <2>3 DEF IInv, ClientInv
<1>11. SeqNothingForgotten' /\ HeldBackIsWatched'
  BY <1>1, <1>2 DEF IInv, SeqNothingForgotten, HeldBackIsWatched, InNet
<1> QED BY <1>2, <1>6, <1>7, <1>8, <1>9, <1>10, <1>11 DEF IInv, SeqStep

(* What the server sends comes behind what is on the way.                  *)
LEMMA Sent ==
  ASSUME IInv, NEW m \in Messages, m.session = session, m.type /= "newSession",
         net' = Append(net, m), IsContainer(m) => m \in unsent,
         unsent' \subseteq unsent, unsent \subseteq unsent' \cup {m},
         UNCHANGED <<clientVars, serverSeq, session, issued, covered>>,
         m.type = "difference" =>
           /\ m.seq = serverSeq
           /\ m.covers = IF m.final THEN issued ELSE {}
  PROVE  /\ net' \in Seq(Messages) /\ IssuedInv' /\ NetInv' /\ DifferenceInv'
         /\ Steady' = Steady /\ Heard' = Heard
         /\ InNet' = InNet \cup {m}
<1>1. UNCHANGED <<updatesSeq, bySeqUpdates, bySeqTimer, requesting, afterFail, taken>>
  BY DEF clientVars
<1> DEFINE l == Len(net) + 1
<1>2. /\ net' \in Seq(Messages) /\ net' /= <<>> /\ l \in DOMAIN net' /\ net'[l] = m
      /\ net'[Len(net')] = m
      /\ \A i \in DOMAIN net : i \in Nat /\ 0 < i /\ i <= Len(net)
      /\ \A i \in DOMAIN net : i \in DOMAIN net' /\ net'[i] = net[i]
      /\ \A i \in DOMAIN net' : i = l \/ i \in DOMAIN net
      /\ Head(net') = IF net = <<>> THEN m ELSE Head(net)
      /\ Len(net) \in Nat
      /\ net /= <<>> => Len(net) \in DOMAIN net
  BY AppendOf DEF IInv, TypeOK
<1>3. /\ issued \subseteq Containers /\ unsent \subseteq issued /\ session \in 0 .. MaxSessions
      /\ MaxSessions \in Nat /\ serverSeq \in 0 .. MaxSeq /\ MaxSeq \in Nat
      /\ bySeqUpdates \subseteq issued
  BY SeqAssumption DEF IInv, TypeOK
<1>4. IssuedInv'
  BY DEF IInv, IssuedInv, Tiles
<1>5. NetInv'
  <2>1. \A i \in DOMAIN net' :
          /\ IsContainer(net'[i]) => net'[i] \in issued'
          /\ net'[i].session <= session'
          /\ net'[i].type = "newSession" => net'[i].session > 0
    BY <1>2, <1>3 DEF IInv, NetInv
  <2>2. ASSUME NEW i \in DOMAIN net', NEW j \in DOMAIN net',
               j = i + 1, net'[j].type /= "newSession"
        PROVE  net'[j].session = net'[i].session
    <3>1. CASE j \in DOMAIN net /\ i \in DOMAIN net
      BY <1>2, <2>2, <3>1 DEF IInv, NetInv
    <3>2. CASE j = l /\ i \in DOMAIN net
      <4>1. i = Len(net) /\ net /= <<>>
        BY <1>2, <2>2, <3>2, EmptySeq
      <4> QED BY <1>2, <3>2, <4>1 DEF IInv, NetInv
    <3>3. i /= l
      BY <1>2, <2>2
    <3> QED BY <1>2, <3>1, <3>2, <3>3
  <2> QED BY <1>2, <2>1, <2>2 DEF NetInv
<1>6. DifferenceInv'
  <2> SUFFICES ASSUME NEW j \in DOMAIN net', net'[j].type = "difference"
               PROVE  /\ net'[j].covers \subseteq issued
                      /\ net'[j].session = session => net'[j].seq <= serverSeq
                      /\ \A c \in issued :
                           c \in bySeqUpdates \/ (\E i \in DOMAIN net' : i < j /\ net'[i] = c) =>
                             /\ net'[j].final => c \in net'[j].covers
                             /\ c.session = net'[j].session => c.last <= net'[j].seq
                      /\ net'[j].final =>
                           \A c \in issued \ net'[j].covers :
                             /\ c.session = net'[j].session => net'[j].seq < c.first
                             /\ \/ c \in unsent'
                                \/ \E k \in DOMAIN net' :
                                     k > j /\ (net'[k] = c \/ net'[k].type = "newSession")
    BY <1>1 DEF DifferenceInv
  <2>1. CASE j = l
    BY <1>2, <1>3, <2>1 DEF IInv, IssuedInv
  <2>2. CASE j \in DOMAIN net
    <3>1. net'[j] = net[j] /\ j \in Nat /\ j <= Len(net)
      BY <1>2, <2>2
    <3>2. \A i \in DOMAIN net' : i < j => i \in DOMAIN net /\ net'[i] = net[i]
      BY <1>2, <3>1
    <3>3. ASSUME net[j].final, NEW c \in issued \ net[j].covers
          PROVE  /\ c.session = net[j].session => net[j].seq < c.first
                 /\ \/ c \in unsent'
                    \/ \E k \in DOMAIN net' : k > j /\ (net'[k] = c \/ net'[k].type = "newSession")
      <4>1. /\ c.session = net[j].session => net[j].seq < c.first
            /\ \/ c \in unsent
               \/ \E k \in DOMAIN net : k > j /\ (net[k] = c \/ net[k].type = "newSession")
        BY <2>2, <3>1, <3>3 DEF IInv, DifferenceInv
      <4>2. c \in unsent => c \in unsent' \/ c = m
        OBVIOUS
      <4>3. l > j
        BY <1>2, <3>1
      <4> QED BY <1>2, <4>1, <4>2, <4>3
    <3> QED BY <2>2, <3>1, <3>2, <3>3 DEF IInv, DifferenceInv
  <2> QED BY <1>2, <2>1, <2>2
<1>7. Steady' = Steady /\ Heard' = Heard
  BY <1>2 DEF Steady, Heard
<1>8. InNet' = InNet \cup {m}
  BY <1>2 DEF InNet
<1> QED BY <1>2, <1>4, <1>5, <1>6, <1>7, <1>8

(* A container that is sent is still on its way.                           *)
LEMMA SendStep == ASSUME IInv, NEW c \in unsent, Send(c) PROVE IInv' /\ SeqStep
<1>1. /\ unsent' = unsent \ {c} /\ net' = Append(net, c)
      /\ UNCHANGED <<clientVars, serverSeq, session, issued, asked, covered>>
  BY DEF Send
<1>2. UNCHANGED <<updatesSeq, bySeqUpdates, bySeqTimer, requesting, afterFail, taken>>
  BY <1>1 DEF clientVars
<1>3. c \in Containers /\ c \in Messages /\ c.session = session /\ ~IsAnswer(c)
      /\ c.type \notin {"difference", "newSession"}
  BY ContainerType DEF IInv, TypeOK, IssuedInv, IsAnswer, Messages
<1>4. /\ net' \in Seq(Messages) /\ IssuedInv' /\ NetInv' /\ DifferenceInv'
      /\ Steady' = Steady /\ Heard' = Heard /\ InNet' = InNet \cup {c}
  BY <1>1, <1>3, Sent
<1>5. /\ \A i \in DOMAIN net : i \in DOMAIN net' /\ net'[i] = net[i]
      /\ \A i \in DOMAIN net' : IsAnswer(net'[i]) => i \in DOMAIN net
  BY <1>1, <1>3, AppendOf DEF IInv, TypeOK
<1>6. TypeOK'
  BY <1>1, <1>2, <1>4 DEF IInv, TypeOK
<1>7. RequestInv'
  <2>1. \A i \in DOMAIN net' : IsAnswer(net'[i]) => i \in DOMAIN net /\ IsAnswer(net[i])
    BY <1>5
  <2> QED BY <1>1, <1>2, <1>5, <2>1 DEF IInv, RequestInv
<1>8. \A e : Pending(e) => Pending(e)'
  BY <1>1, <1>2, <1>5 DEF Pending
<1>9. ClientInv'
  <2>1. Steady => PassedInv'
    BY <1>1, <1>2, <1>4, <1>8 DEF IInv, ClientInv, PassedInv
  <2> QED BY <1>1, <1>2, <1>4, <2>1 DEF IInv, ClientInv
<1>10. SeqNothingForgotten' /\ HeldBackIsWatched'
  BY <1>1, <1>2, <1>4 DEF IInv, SeqNothingForgotten, HeldBackIsWatched
<1> QED BY <1>2, <1>4, <1>6, <1>7, <1>9, <1>10 DEF IInv, SeqStep

(* Any answer but a final difference leads to another request.             *)
LEMMA AnswerSent ==
  ASSUME IInv, NEW m \in Messages, m.session = session, IsAnswer(m),
         asked /= NoRequest, asked' = NoRequest, net' = Append(net, m),
         UNCHANGED <<clientVars, serverSeq, session, issued, unsent, covered>>,
         m.type = "difference" =>
           /\ m.seq = serverSeq
           /\ m.covers = IF m.final THEN issued ELSE {}
  PROVE  IInv' /\ SeqStep
<1>1. UNCHANGED <<updatesSeq, bySeqUpdates, bySeqTimer, requesting, afterFail, taken>>
  BY DEF clientVars
<1>2. /\ net' \in Seq(Messages) /\ IssuedInv' /\ NetInv' /\ DifferenceInv'
      /\ Steady' = Steady /\ Heard' = Heard /\ InNet' = InNet \cup {m}
  BY Sent DEF IsAnswer, IsContainer
<1>3. /\ Len(net) + 1 \in DOMAIN net' /\ net'[Len(net) + 1] = m
      /\ \A i \in DOMAIN net : i \in DOMAIN net' /\ net'[i] = net[i]
      /\ \A i \in DOMAIN net' : i = Len(net) + 1 \/ i \in DOMAIN net
  BY AppendOf DEF IInv, TypeOK
<1>4. requesting /\ ~afterFail /\ \A i \in DOMAIN net : ~IsAnswer(net[i])
  BY DEF IInv, RequestInv
<1>5. TypeOK'
  BY <1>1, <1>2 DEF IInv, TypeOK
<1>6. RequestInv'
  BY <1>1, <1>3, <1>4 DEF RequestInv
<1>7. \A c \in issued : Pending(c)'
  BY <1>3 DEF Pending, IsAnswer
<1>8. ClientInv'
  <2>1. PassedInv'
    BY <1>7 DEF PassedInv
  <2> QED BY <1>1, <1>2, <2>1 DEF IInv, ClientInv
<1>9. SeqNothingForgotten'
  BY <1>7 DEF SeqNothingForgotten, Pending, InNet
<1>10. HeldBackIsWatched'
  BY <1>1 DEF IInv, HeldBackIsWatched
<1> QED BY <1>1, <1>2, <1>5, <1>6, <1>8, <1>9, <1>10 DEF IInv, SeqStep

(* A final difference holds all containers there are.                      *)
LEMMA AnswerStep ==
  ASSUME IInv, NEW final \in BOOLEAN, Answer(final) PROVE IInv' /\ SeqStep
<1> DEFINE m == [type |-> "difference", session |-> session, to |-> asked,
                 seq |-> serverSeq, final |-> final,
                 covers |-> IF final THEN issued ELSE {}]
<1>1. /\ asked /= NoRequest /\ asked' = NoRequest /\ net' = Append(net, m)
      /\ UNCHANGED <<clientVars, serverSeq, session, issued, unsent, covered>>
  BY DEF Answer
<1>2. asked \in {"state", "difference"} /\ session \in 0 .. MaxSessions
      /\ serverSeq \in 0 .. MaxSeq /\ issued \subseteq Containers
  BY <1>1 DEF IInv, TypeOK
<1>3. m \in Messages /\ m.session = session /\ IsAnswer(m) /\ m.seq = serverSeq
      /\ m.covers = IF m.final THEN issued ELSE {}
  BY <1>2 DEF Messages, IsAnswer
<1> HIDE DEF m
<1> QED BY <1>1, <1>3, AnswerSent

(* An error takes the place of the answer.                                 *)
LEMMA AnswerFailStep == ASSUME IInv, AnswerFail PROVE IInv' /\ SeqStep
<1> DEFINE m == [type |-> "fail", session |-> session, to |-> asked]
<1>1. /\ asked = "difference" /\ asked' = NoRequest /\ net' = Append(net, m)
      /\ UNCHANGED <<clientVars, serverSeq, session, issued, unsent, covered>>
  BY DEF AnswerFail
<1>2. m \in Messages /\ m.session = session /\ IsAnswer(m) /\ m.type /= "difference"
  BY <1>1 DEF Messages, IsAnswer, IInv, TypeOK
<1>3. asked /= NoRequest
  BY <1>1 DEF NoRequest
<1> HIDE DEF m
<1> QED BY <1>1, <1>2, <1>3, AnswerSent

(* With a new session everything is announced to be asked for again.       *)
LEMMA NewSessionStep == ASSUME IInv, NewSession PROVE IInv' /\ SeqStep
<1> DEFINE n == [type |-> "newSession", session |-> session']
<1>1. PICK k \in 0 .. Len(net) :
        /\ net' = Append(SubSeq(net, 1, k), n)
        /\ asked' = IF \E i \in (k + 1) .. Len(net) : IsAnswer(net[i])
                      THEN net[CHOOSE i \in (k + 1) .. Len(net) : IsAnswer(net[i])].to
                      ELSE asked
  BY DEF NewSession
<1>2. /\ session < MaxSessions /\ session' = session + 1 /\ unsent' = {}
      /\ serverSeq' \in {0, serverSeq}
      /\ ~\E c \in issued : c.type = "reply"
      /\ UNCHANGED <<clientVars, issued, covered>>
      /\ UNCHANGED <<updatesSeq, bySeqUpdates, bySeqTimer, requesting, afterFail, taken>>
  BY DEF NewSession, clientVars
<1>3. /\ MaxSeq \in Nat /\ MaxSessions \in Nat /\ session \in 0 .. MaxSessions
      /\ session' \in 0 .. MaxSessions /\ session' > session /\ session' > 0
      /\ net \in Seq(Messages) /\ Len(net) \in Nat /\ DOMAIN net = 1 .. Len(net)
      /\ issued \subseteq Containers
      /\ serverSeq' \in 0 .. MaxSeq
  BY <1>2, SeqAssumption, LenProperties DEF IInv, TypeOK
<1>4. n \in Messages /\ n.type = "newSession" /\ n.session = session' /\ ~IsAnswer(n)
      /\ ~IsContainer(n)
  BY <1>3 DEF Messages, IsAnswer, IsContainer
<1> HIDE DEF n
<1> DEFINE p == SubSeq(net, 1, k)
<1>5. /\ p \in Seq(Messages) /\ Len(p) = k /\ DOMAIN p = 1 .. k
      /\ \A i \in 1 .. k : i \in DOMAIN net /\ p[i] = net[i]
      /\ p /= <<>> => k >= 1 /\ net /= <<>> /\ Head(p) = Head(net)
  BY <1>3, PrefixOf
<1> HIDE DEF p
<1>6. net' = Append(p, n)
  BY <1>1 DEF p
<1>7. /\ net' \in Seq(Messages) /\ net' /= <<>> /\ k + 1 \in DOMAIN net' /\ net'[k + 1] = n
      /\ net'[Len(net')] = n
      /\ \A i \in DOMAIN p : i \in DOMAIN net' /\ net'[i] = p[i]
      /\ \A i \in DOMAIN net' : i = k + 1 \/ i \in DOMAIN p
      /\ Head(net') = IF p = <<>> THEN n ELSE Head(p)
  BY <1>4, <1>5, <1>6, AppendOf
<1>8. \A i \in DOMAIN net' :
        \/ i = k + 1 /\ net'[i] = n
        \/ i \in 1 .. k /\ i \in DOMAIN net /\ net'[i] = net[i]
  BY <1>5, <1>7
<1>9. \A i \in 1 .. k : i \in DOMAIN net /\ i \in DOMAIN net' /\ net'[i] = net[i]
  BY <1>5, <1>7
<1> USE DEF NoRequest
<1>10. /\ asked' \in {NoRequest, "state", "difference"}
       /\ \/ asked' = asked /\ \A i \in DOMAIN net : IsAnswer(net[i]) => i \in 1 .. k
          \/ /\ asked' /= NoRequest /\ requesting /\ ~afterFail
             /\ \A i \in 1 .. k : ~IsAnswer(net[i])
  <2>1. CASE \E i \in (k + 1) .. Len(net) : IsAnswer(net[i])
    <3>1. PICK i \in (k + 1) .. Len(net) : IsAnswer(net[i]) /\ asked' = net[i].to
      BY <1>1, <2>1
    <3>2. i \in DOMAIN net /\ i \notin 1 .. k
      BY <1>3
    <3>3. net[i].to \in {"state", "difference"}
      <4>1. net[i] \in Messages /\ net[i] \notin Containers
        BY <1>3, <3>1, <3>2, ContainerType DEF IsAnswer
      <4> QED BY <3>1, <4>1 DEF Messages, IsAnswer
    <3>4. \A j \in 1 .. k : ~IsAnswer(net[j])
      BY <1>9, <3>1, <3>2 DEF IInv, RequestInv
    <3> QED BY <3>1, <3>2, <3>3, <3>4 DEF IInv, RequestInv
  <2>2. CASE ~\E i \in (k + 1) .. Len(net) : IsAnswer(net[i])
    <3>1. \A i \in DOMAIN net : i \in (k + 1) .. Len(net) \/ i \in 1 .. k
      BY <1>3
    <3> QED BY <1>1, <2>2, <3>1 DEF IInv, TypeOK
  <2> QED BY <2>1, <2>2
<1>11. TypeOK'
  BY <1>2, <1>3, <1>7, <1>10 DEF IInv, TypeOK
<1>12. IssuedInv'
  <2>1. \A c \in issued : c.session \in Nat /\ c.session <= session /\ c.first <= c.last
    BY <1>3, ContainerType DEF IInv, IssuedInv
  <2> QED BY <1>2, <1>3, <2>1 DEF IInv, IssuedInv, Tiles
<1>13. RequestInv'
  <2>1. \A i \in DOMAIN net' : IsAnswer(net'[i]) => i \in 1 .. k /\ i \in DOMAIN net /\ IsAnswer(net[i])
    BY <1>4, <1>8
  <2>2. CASE asked' = asked /\ \A i \in DOMAIN net : IsAnswer(net[i]) => i \in 1 .. k
    BY <1>2, <1>9, <2>1, <2>2 DEF IInv, RequestInv
  <2>3. CASE /\ asked' /= NoRequest /\ requesting /\ ~afterFail
             /\ \A i \in 1 .. k : ~IsAnswer(net[i])
    BY <1>2, <2>1, <2>3 DEF RequestInv
  <2> QED BY <1>10, <2>2, <2>3
<1>14. NetInv'
  <2>1. ASSUME NEW i \in DOMAIN net'
        PROVE  /\ IsContainer(net'[i]) => net'[i] \in issued'
               /\ net'[i].session <= session'
               /\ net'[i].type = "newSession" => net'[i].session > 0
    <3>1. CASE net'[i] = n
      BY <1>3, <1>4, <3>1
    <3>2. CASE i \in DOMAIN net /\ net'[i] = net[i]
      <4>1. net[i] \in Messages
        BY <1>3, <3>2
      <4>2. net[i].session \in 0 .. MaxSessions
        BY <4>1 DEF Messages, Containers
      <4> QED BY <1>2, <1>3, <3>2, <4>2 DEF IInv, NetInv
    <3> QED BY <1>8, <3>1, <3>2
  <2>2. ASSUME NEW i \in DOMAIN net', NEW j \in DOMAIN net',
               j = i + 1, net'[j].type /= "newSession"
        PROVE  net'[j].session = net'[i].session
    <3>1. j \in 1 .. k /\ j \in DOMAIN net /\ net'[j] = net[j]
      BY <1>4, <1>8, <2>2
    <3>2. i /= k + 1
      BY <2>2, <3>1
    <3> QED BY <1>8, <2>2, <3>1, <3>2 DEF IInv, NetInv
  <2> QED BY <1>4, <1>7, <2>1, <2>2 DEF NetInv
<1>15. DifferenceInv'
  <2> SUFFICES ASSUME NEW j \in DOMAIN net', net'[j].type = "difference"
               PROVE  /\ net'[j].covers \subseteq issued
                      /\ net'[j].session = session' => net'[j].seq <= serverSeq'
                      /\ \A c \in issued :
                           c \in bySeqUpdates \/ (\E i \in DOMAIN net' : i < j /\ net'[i] = c) =>
                             /\ net'[j].final => c \in net'[j].covers
                             /\ c.session = net'[j].session => c.last <= net'[j].seq
                      /\ net'[j].final =>
                           \A c \in issued \ net'[j].covers :
                             /\ c.session = net'[j].session => net'[j].seq < c.first
                             /\ \/ c \in unsent'
                                \/ \E i \in DOMAIN net' :
                                     i > j /\ (net'[i] = c \/ net'[i].type = "newSession")
    BY <1>2 DEF DifferenceInv
  <2>1. j \in 1 .. k /\ j \in DOMAIN net /\ net'[j] = net[j]
    BY <1>4, <1>8
  <2>2. net[j].session /= session'
    <3>1. net[j] \in Messages
      BY <1>3, <2>1
    <3>2. net[j].session \in 0 .. MaxSessions
      BY <3>1 DEF Messages, Containers
    <3>3. net[j].session <= session
      BY <2>1 DEF IInv, NetInv
    <3> QED BY <1>3, <3>2, <3>3
  <2>3. \A i \in DOMAIN net' : i < j => i \in DOMAIN net /\ net'[i] = net[i]
    BY <1>8, <2>1
  <2>4. k + 1 > j /\ net'[k + 1].type = "newSession"
    BY <1>4, <1>7, <2>1
  <2> QED BY <1>7, <2>1, <2>2, <2>3, <2>4 DEF IInv, DifferenceInv
<1>16. Steady' => Steady /\ Heard' = Heard /\ Heard /= session'
  <2> SUFFICES ASSUME Steady' PROVE Steady /\ Heard' = Heard /\ Heard /= session'
    OBVIOUS
  <2>1. p /= <<>> /\ Head(net') = Head(net) /\ net /= <<>>
    BY <1>4, <1>5, <1>7 DEF Steady
  <2>2. Head(net) = net[1] /\ 1 \in DOMAIN net /\ net[1] \in Messages
    BY <1>3, <2>1, TailOf
  <2>3. net[1].session <= session /\ net[1].session \in 0 .. MaxSessions
    BY <2>2 DEF IInv, NetInv, Messages, Containers
  <2> QED BY <1>3, <1>7, <2>1, <2>2, <2>3 DEF Steady, Heard
<1>17. ClientInv'
  <2>1. Steady' => PassedInv'
    <3> SUFFICES ASSUME Steady', NEW c \in issued, c.session = Heard, c.first <= updatesSeq
                 PROVE  c \in taken \cup covered \/ Pending(c)'
      BY <1>2, <1>16 DEF PassedInv
    <3>1. c \in taken \cup covered \/ Pending(c)
      BY <1>16 DEF IInv, ClientInv, PassedInv
    <3>2. Pending(c) => Pending(c)'
      <4>1. CASE asked' /= NoRequest
        BY <4>1 DEF Pending
      <4>2. CASE asked' = asked /\ \A i \in DOMAIN net : IsAnswer(net[i]) => i \in 1 .. k
        <5>1. ASSUME NEW i \in DOMAIN net, IsAnswer(net[i]) PROVE i \in DOMAIN net' /\ net'[i] = net[i]
          BY <1>9, <4>2, <5>1
        <5> QED BY <1>2, <4>2, <5>1 DEF Pending, IsAnswer
      <4> QED BY <1>10, <4>1, <4>2
    <3> QED BY <3>1, <3>2
  <2> QED BY <1>2, <1>16, <2>1 DEF IInv, ClientInv
<1>18. SeqNothingForgotten'
  <2>1. n \in InNet' /\ n.type = "newSession"
    BY <1>4, <1>7 DEF InNet
  <2> QED BY <2>1 DEF SeqNothingForgotten
<1>19. HeldBackIsWatched'
  BY <1>2 DEF IInv, HeldBackIsWatched
<1> QED BY <1>2, <1>11, <1>12, <1>13, <1>14, <1>15, <1>17, <1>18, <1>19 DEF IInv, SeqStep

-----------------------------------------------------------------------------
(* The constructor's request is the first one.                             *)
LEMMA InitStep == ASSUME Init PROVE IInv
<1>1. MaxSeq \in Nat /\ MaxSessions \in Nat
  BY SeqAssumption
<1>2. net = <<>> /\ DOMAIN net = {} /\ net \in Seq(Messages)
  BY EmptySeq DEF Init
<1>3. TypeOK
  <2>1. updatesSeq \in 0 .. MaxSeq /\ serverSeq \in 0 .. MaxSeq /\ session \in 0 .. MaxSessions
    BY <1>1 DEF Init
  <2>2. /\ bySeqTimer \in BOOLEAN /\ requesting \in BOOLEAN /\ afterFail \in BOOLEAN
        /\ asked \in {NoRequest, "state", "difference"}
    BY DEF Init
  <2>3. /\ issued = {} /\ bySeqUpdates = {} /\ taken = {} /\ covered = {} /\ unsent = {}
    BY DEF Init
  <2> QED BY <1>2, <2>1, <2>2, <2>3 DEF TypeOK
<1>4. IssuedInv /\ RequestInv /\ NetInv /\ DifferenceInv
  BY <1>2 DEF Init, IssuedInv, Tiles, RequestInv, NetInv, DifferenceInv, NoRequest
<1>5. ClientInv
  BY <1>1 DEF Init, ClientInv, PassedInv
<1>6. SeqNothingForgotten /\ HeldBackIsWatched
  BY DEF Init, SeqNothingForgotten, HeldBackIsWatched
<1> QED BY <1>3, <1>4, <1>5, <1>6 DEF IInv

(* Every step of the client and of the server.                             *)
LEMMA NextStep == ASSUME IInv, [Next]_vars PROVE IInv' /\ SeqStep
<1>1. CASE UNCHANGED vars
  <2>1. UNCHANGED <<updatesSeq, bySeqUpdates, bySeqTimer, requesting, afterFail, taken, asked,
                    covered, serverSeq, session, issued, unsent, net>>
    BY <1>1 DEF vars, clientVars, serverVars
  <2>2. IssuedInv' /\ NetInv' /\ DifferenceInv'
    BY <2>1, Quiet
  <2>3. TypeOK'
    BY <2>1 DEF IInv, TypeOK
  <2>4. RequestInv' /\ ClientInv'
    BY <2>1 DEF IInv, RequestInv, ClientInv, PassedInv, Pending, Steady, Heard
  <2>5. SeqNothingForgotten' /\ HeldBackIsWatched'
    BY <2>1 DEF IInv, SeqNothingForgotten, InNet, HeldBackIsWatched
  <2> QED BY <2>1, <2>2, <2>3, <2>4, <2>5 DEF IInv, SeqStep
<1>2. CASE Server
  BY <1>2, IssueStep, SendStep, AnswerStep, AnswerFailStep, NewSessionStep DEF Server
<1>3. CASE Client
  BY <1>3, ReceivePushStep, ReceiveReplyStep, ReceiveDifferenceStep, ReceiveFailStep,
     ReceiveNewSessionStep, BySeqTimerStep, FailTimerStep, AskElsewhereStep
     DEF Client, Receives
<1> QED BY <1>1, <1>2, <1>3 DEF Next

(* IInv holds always: the order of messages, the requests and what is      *)
(* saved fit together whenever a handler of api_updates.cpp starts.        *)
THEOREM Inductive == Spec => []IInv
<1>1. Init => IInv
  BY InitStep
<1>2. IInv /\ [Next]_vars => IInv'
  BY NextStep
<1> QED BY <1>1, <1>2, PTL DEF Spec

(* _updatesSeq, _bySeqUpdates and the messages keep their types.           *)
THEOREM TypeCorrect == Spec => []TypeOK
<1>1. IInv => TypeOK
  BY DEF IInv
<1> QED BY <1>1, Inductive, PTL

(* However applyUpdates() and setState() drop a container as old, throw it *)
(* away during a difference, or clear _bySeqUpdates: it was fed, it is on  *)
(* its way, or a difference that will bring it is to come.                 *)
THEOREM NoContainerForgotten == Spec => []SeqNothingForgotten
<1>1. IInv => SeqNothingForgotten
  BY DEF IInv
<1> QED BY <1>1, Inductive, PTL

(* _bySeqUpdates is never left without _bySeqTimer or a request: the timer *)
(* may fire in vain during a request, whose answer then outruns all that   *)
(* is saved.                                                               *)
THEOREM SavedIsWatched == Spec => []HeldBackIsWatched
<1>1. IInv => HeldBackIsWatched
  BY DEF IInv
<1> QED BY <1>1, Inductive, PTL

(* A container is fed after all containers of its session before it, or a  *)
(* difference has made up for them, or one is awaited.                     *)
THEOREM FedInOrder == Spec => SeqInOrder
<1>1. IInv /\ [Next]_vars => [SeqStep]_vars
  BY NextStep
<1>2. SeqStep =>
        \A c \in taken' \ taken, d \in issued' :
          d.session = c.session /\ d.first < c.first
          => d \in taken' \cup covered' \/ requesting
  BY DEF SeqStep
<1>3. IInv /\ [Next]_vars =>
        [\A c \in taken' \ taken, d \in issued' :
           d.session = c.session /\ d.first < c.first
           => d \in taken' \cup covered' \/ requesting]_vars
  BY <1>1, <1>2
<1> QED BY <1>3, Inductive, PTL DEF Spec, SeqInOrder

=============================================================================
