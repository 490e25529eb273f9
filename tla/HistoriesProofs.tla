-------------------------- MODULE HistoriesProofs --------------------------
(***************************************************************************)
(* Proofs about Histories: messages are loaded after deletions, entries    *)
(* are watched and postponed, reads go in order.                           *)
(*                                                                         *)
(* The handlers are operators on worlds, and each changes one chat, so the *)
(* invariant is a predicate on a world that says of every chat the same.   *)
(* Handlers call each other before it holds again: it has the chats whose  *)
(* entry may come as a parameter, and those whose entry has just come.     *)
(***************************************************************************)
EXTENDS Histories, FiniteSetTheorems, TLAPS

(* What a request, what is kept of a chat, and a world may be.             *)
Requests == [id : Nat, type : {"History", "Delete", "Send", "ReadInbox"},
             till : 0 .. MaxTill, answers : BOOLEAN]
States == [exists : BOOLEAN, postponed : SUBSET Nat, sent : SUBSET Requests,
           willReadTill : 0 .. MaxTill, sentReadTill : 0 .. MaxTill,
           willReadWhen : 0 .. Timeout + 1, sentReadDone : BOOLEAN,
           postponedRequestEntry : BOOLEAN]
Worlds == [state : [Chats -> States], before : [Chats -> 0 .. MaxTill + 1],
           byRequest : [Chats -> SUBSET Nat], requested : SUBSET Chats,
           pending : SUBSET Chats, readers : SUBSET Chats, posted : BOOLEAN,
           timer : 0 .. Timeout + 1, told : [Chats -> 0 .. MaxTill]]

(* Every request of a chat has an id of its own; no messages are loaded    *)
(* beside a deletion, and what is postponed waits for one.                 *)
RequestsGood(st) ==
  /\ IsFiniteSet(st.sent) /\ IsFiniteSet(st.postponed)
  /\ ~st.exists => st = NoState
  /\ \A r, q \in st.sent : r.id = q.id => r = q
  /\ \A r \in st.sent : r.id \notin st.postponed
  /\ postponeHistoryRequest(st.sent) => \A r \in st.sent : r.type /= "History"
  /\ st.postponed /= {} => postponeHistoryRequest(st.sent)

(* What will be read is after all that is on its way, which is not after   *)
(* what was sent last or is read anyway.                                   *)
ReadsGood(st, before) ==
  /\ st.willReadTill /= 0 =>
       /\ st.willReadTill > st.sentReadTill
       /\ \A r \in st.sent : r.type = "ReadInbox" => r.till < st.willReadTill
  /\ \A r \in st.sent : r.type = "ReadInbox" =>
       \/ r.till <= st.sentReadTill
       \/ st.sentReadTill = 0 /\ r.till < before
  /\ st.sentReadTill /= 0 /\ ~st.sentReadDone =>
       \E r \in st.sent : r.type = "ReadInbox" /\ r.till = st.sentReadTill

(* An entry is postponed if it was asked for and the chat does something;  *)
(* one that is not postponed comes to the chats `asked'.  Who waits for    *)
(* one has asked for it, except a read in the chats `free'.                *)
EntryGood(w, h, asked, free) ==
  /\ w.state[h].postponedRequestEntry <=>
       h \in w.requested /\ postponeEntryRequest(w.state[h].sent)
  /\ h \in w.requested => h \notin w.pending
  /\ h \in w.requested /\ ~w.state[h].postponedRequestEntry => h \in asked
  /\ h \in w.readers => h \in w.requested \cup w.pending
  /\ w.state[h].sentReadTill /= 0 /\ w.state[h].sentReadDone /\ h \notin free =>
       h \in w.requested \cup w.pending

ChatGood(w, h, asked, free) ==
  /\ RequestsGood(w.state[h]) /\ ReadsGood(w.state[h], w.before[h])
  /\ w.byRequest[h] = InUse(w.state[h])
  /\ EntryGood(w, h, asked, free)

Good(w, asked, free) ==
  /\ w \in Worlds
  /\ w.pending /= {} => w.posted
  /\ \A h \in Chats : ChatGood(w, h, asked, free)

Asked(requests) == {h \in Chats : \E e \in requests : h \in e.who}

(* The inductive invariant.                                                *)
IInv ==
  /\ Good(World, Asked(entries), {})
  /\ entries \subseteq [id : Nat, who : (SUBSET Chats) \ {{}}] /\ IsFiniteSet(entries)
  /\ left \in [asks : [Chats -> Nat], channels : Nat]

-----------------------------------------------------------------------------
(* Numbers and finite sets.                                                *)

(* Some numbers have a least one.                                          *)
LEMMA LeastOf ==
  ASSUME NEW T, T \subseteq Nat, T /= {}
  PROVE  Least(T) \in T /\ \A n \in T : Least(T) <= n
<1>1. PICK m \in T : \A n \in T : ~(<<n, m>> \in OpToRel(<, Nat))
  BY WFMin, NatLessThanWellFounded
<1>2. \A n \in T : ~(n < m)
  BY <1>1 DEF OpToRel
<1>3. \A n \in T : m <= n
  BY <1>2
<1> QED BY <1>3 DEF Least

(* A fresh id is a number that is not used.                                *)
LEMMA FreshId ==
  ASSUME NEW ids, IsFiniteSet(ids)
  PROVE  Fresh(ids) \in Nat /\ Fresh(ids) \notin ids
<1> DEFINE n == Cardinality(ids)
           T == (1 .. n + 1) \ ids
<1>1. n \in Nat
  BY FS_CardinalityType
<1> HIDE DEF n
<1>2. Cardinality(1 .. n + 1) = n + 1
  BY <1>1, FS_Interval
<1>3. T /= {}
  <2>1. ASSUME T = {} PROVE FALSE
    <3>1. 1 .. n + 1 \in SUBSET ids
      BY <2>1
    <3>2. Cardinality(1 .. n + 1) <= Cardinality(ids)
      BY <3>1, FS_Subset
    <3> QED BY <1>1, <1>2, <3>2 DEF n
  <2> QED BY <2>1
<1>4. T \subseteq Nat
  OBVIOUS
<1>5. Least(T) \in T
  BY <1>3, <1>4, LeastOf
<1>6. Fresh(ids) = Least(T)
  BY DEF Fresh, n
<1> QED BY <1>4, <1>5, <1>6

(* What holds of the empty set, and of a set when it holds without one of  *)
(* its elements, holds of every finite set.                                *)
LEMMA SetInduction ==
  ASSUME NEW S, IsFiniteSet(S), NEW P, {} \in P,
         \A s \in SUBSET S : s /= {} => \E x \in s : s \ {x} \in P => s \in P
  PROVE  SUBSET S \subseteq P
<1> DEFINE bad == {s \in SUBSET S : s \notin P}
           sizes == {Cardinality(s) : s \in bad}
<1>1. \A s \in SUBSET S : IsFiniteSet(s) /\ Cardinality(s) \in Nat
  BY FS_Subset, FS_CardinalityType
<1>2. SUFFICES ASSUME bad /= {} PROVE FALSE
  OBVIOUS
<1>3. sizes \subseteq Nat /\ sizes /= {}
  BY <1>1, <1>2
<1>4. PICK s \in bad : Cardinality(s) = Least(sizes)
  BY <1>3, LeastOf
<1>5. PICK x \in s : s \ {x} \in P => s \in P
  BY <1>4
<1>6. s \ {x} \in bad
  BY <1>4, <1>5
<1>7. Cardinality(s \ {x}) \in sizes /\ Cardinality(s \ {x}) = Cardinality(s) - 1
  BY <1>1, <1>4, <1>5, <1>6, FS_RemoveElement
<1> HIDE DEF sizes
<1>8. Least(sizes) <= Cardinality(s \ {x})
  BY <1>3, <1>7, LeastOf
<1> QED BY <1>1, <1>4, <1>7, <1>8

(* What a fold over the subsets of S comes to is defined.                  *)
IsFold(f, S, G, w) ==
  f = [s \in SUBSET S |->
         IF s = {} THEN w ELSE G[CHOOSE y \in s : TRUE][f[s \ {CHOOSE y \in s : TRUE}]]]

LEMMA FoldExists ==
  ASSUME NEW S, IsFiniteSet(S), NEW G, NEW w
  PROVE  \E f : IsFold(f, S, G, w)
<1> DEFINE F(f) == [s \in SUBSET S |->
                      IF s = {} THEN w
                      ELSE G[CHOOSE y \in s : TRUE][f[s \ {CHOOSE y \in s : TRUE}]]]
           Upto(n) == {s \in SUBSET S : Cardinality(s) <= n}
           bad == {n \in Nat : ~\E f : \A s \in Upto(n) : f[s] = F(f)[s]}
<1>1. \A s \in SUBSET S : IsFiniteSet(s) /\ Cardinality(s) \in Nat
  BY FS_Subset, FS_CardinalityType
<1>2. 0 \notin bad
  <2>1. \A s \in Upto(0) : s = {}
    BY <1>1, FS_EmptySet
  <2> DEFINE f == [s \in SUBSET S |-> w]
  <2>2. \A s \in Upto(0) : f[s] = F(f)[s]
    BY <2>1
  <2> QED BY <2>2
<1>3. ASSUME NEW n \in Nat, n \notin bad
      PROVE  n + 1 \notin bad
  <2>1. PICK f : \A s \in Upto(n) : f[s] = F(f)[s]
    BY <1>3
  <2> DEFINE g == F(f)
  <2>2. ASSUME NEW s \in Upto(n + 1), s /= {}
        PROVE  g[s] = F(g)[s]
    <3> DEFINE x == CHOOSE y \in s : TRUE
    <3>1. x \in s
      BY <2>2
    <3>2. s \ {x} \in Upto(n)
      <4>1. Cardinality(s \ {x}) = Cardinality(s) - 1
        BY <1>1, <3>1, FS_RemoveElement
      <4> QED BY <1>1, <3>1, <4>1
    <3>3. f[s \ {x}] = g[s \ {x}]
      BY <2>1, <3>2
    <3>4. g[s] = G[x][f[s \ {x}]]
      BY <2>2
    <3> HIDE DEF g
    <3>5. F(g)[s] = G[x][g[s \ {x}]]
      BY <2>2
    <3> QED BY <3>3, <3>4, <3>5
  <2>3. \A s \in Upto(n + 1) : g[s] = F(g)[s]
    BY <2>2
  <2> HIDE DEF F
  <2> QED BY <2>3
<1> HIDE DEF bad
<1>4. bad = {}
  <2>1. SUFFICES ASSUME bad /= {} PROVE FALSE
    OBVIOUS
  <2>2. bad \subseteq Nat
    BY DEF bad
  <2>3. Least(bad) \in bad /\ \A n \in bad : Least(bad) <= n
    BY <2>1, <2>2, LeastOf
  <2>4. Least(bad) \in Nat /\ Least(bad) /= 0
    BY <1>2, <2>2, <2>3
  <2>5. Least(bad) - 1 \in Nat /\ Least(bad) - 1 \notin bad
    BY <2>3, <2>4
  <2> QED BY <1>3, <2>3, <2>4, <2>5
<1>5. Cardinality(S) \in Nat /\ Cardinality(S) \notin bad
  BY <1>1, <1>4
<1>6. PICK f : \A s \in Upto(Cardinality(S)) : f[s] = F(f)[s]
  BY <1>5 DEF bad
<1>7. \A s \in SUBSET S : s \in Upto(Cardinality(S))
  BY FS_Subset
<1> DEFINE g == F(f)
<1>8. ASSUME NEW s \in SUBSET S
      PROVE  g[s] = F(g)[s]
  <2>1. CASE s = {}
    BY <2>1
  <2>2. CASE s /= {}
    <3> DEFINE x == CHOOSE y \in s : TRUE
    <3>1. x \in s /\ s \ {x} \in SUBSET S
      BY <2>2
    <3>2. f[s \ {x}] = g[s \ {x}]
      BY <1>6, <1>7, <3>1
    <3>3. g[s] = G[x][f[s \ {x}]]
      BY <2>2
    <3> HIDE DEF g
    <3>4. F(g)[s] = G[x][g[s \ {x}]]
      BY <2>2
    <3> QED BY <3>2, <3>3, <3>4
  <2> QED BY <2>1, <2>2
<1>9. g = F(g)
  BY <1>8
<1> HIDE DEF g
<1> QED BY <1>9 DEF IsFold

(* A fold stays within sets that each step leads to the next of.           *)
Leads(S, G, W) ==
  \A s \in SUBSET S : s /= {} =>
    \A u \in W[s \ {CHOOSE y \in s : TRUE}] : G[CHOOSE y \in s : TRUE][u] \in W[s]

LEMMA FoldWithin ==
  ASSUME NEW S, IsFiniteSet(S), NEW G, NEW W, NEW w, w \in W[{}], Leads(S, G, W)
  PROVE  \E f : IsFold(f, S, G, w) /\ \A s \in SUBSET S : f[s] \in W[s]
<1>1. PICK f : IsFold(f, S, G, w)
  BY FoldExists
<1> DEFINE P == {s \in SUBSET S : f[s] \in W[s]}
<1>2. {} \in P
  <2>1. f[{}] = w
    BY <1>1 DEF IsFold
  <2> QED BY <2>1
<1>3. ASSUME NEW s \in SUBSET S, s /= {}
      PROVE  \E x \in s : s \ {x} \in P => s \in P
  <2> DEFINE x == CHOOSE y \in s : TRUE
  <2>1. x \in s
    BY <1>3
  <2>2. f[s] = G[x][f[s \ {x}]]
    BY <1>1, <1>3 DEF IsFold
  <2>3. s \ {x} \in P => f[s] \in W[s]
    BY <1>3, <2>2 DEF Leads
  <2> QED BY <2>1, <2>3
<1> HIDE DEF P
<1>4. SUBSET S \subseteq P
  BY <1>2, <1>3, SetInduction
<1>5. \A s \in SUBSET S : f[s] \in W[s]
  BY <1>4 DEF P
<1> QED BY <1>1, <1>5

-----------------------------------------------------------------------------
(* Reads are sent.                                                         *)

(* What a read makes of what is kept of a chat.                            *)
ReadOf(st) == [id |-> Fresh(InUse(st)), type |-> "ReadInbox", till |-> st.willReadTill,
               answers |-> TRUE]
AfterRead(w, h) ==
  LET st == w.state[h]
  IN  [exists |-> TRUE, postponed |-> st.postponed, sent |-> st.sent \cup {ReadOf(st)},
       willReadTill |-> 0, sentReadTill |-> st.willReadTill, willReadWhen |-> 0,
       sentReadDone |-> FALSE,
       postponedRequestEntry |-> st.postponedRequestEntry \/ h \in w.requested]

(* A world in which the reads of some chats are sent.                      *)
ReadsSent(w, S) ==
  [w EXCEPT
     !.state = [h \in Chats |-> IF h \in S THEN AfterRead(w, h)
                                           ELSE w.state[h]],
     !.byRequest = [h \in Chats |-> IF h \in S
                      THEN w.byRequest[h] \cup {Fresh(InUse(w.state[h]))}
                      ELSE w.byRequest[h]],
     !.told = [h \in Chats |-> IF h \in S THEN Larger(w.told[h], w.state[h].willReadTill)
                                          ELSE w.told[h]]]

(* The ids in use are finite.                                              *)
LEMMA InUseFinite ==
  ASSUME NEW st \in States, IsFiniteSet(st.sent), IsFiniteSet(st.postponed)
  PROVE  /\ IsFiniteSet(InUse(st)) /\ InUse(st) \subseteq Nat
         /\ Fresh(InUse(st)) \in Nat /\ Fresh(InUse(st)) \notin InUse(st)
<1>1. IsFiniteSet({r.id : r \in st.sent})
  <2> DEFINE f == [r \in st.sent |-> r.id]
  <2>1. f \in Surjection(st.sent, {r.id : r \in st.sent})
    BY DEF Surjection
  <2> QED BY <2>1, FS_Surjection
<1>2. IsFiniteSet(InUse(st))
  BY <1>1, FS_Union DEF InUse, Ids
<1>3. InUse(st) \subseteq Nat
  BY DEF InUse, Ids, States, Requests
<1> QED BY <1>2, <1>3, FreshId

LEMMA AfterReadType ==
  ASSUME NEW w \in Worlds, NEW h \in Chats, RequestsGood(w.state[h])
  PROVE  AfterRead(w, h) \in States
<1> DEFINE st == w.state[h]
<1>1. st \in States /\ IsFiniteSet(st.sent) /\ IsFiniteSet(st.postponed)
  BY DEF Worlds, RequestsGood
<1>2. AfterRead(w, h) =
        [exists |-> TRUE, postponed |-> st.postponed, sent |-> st.sent \cup {ReadOf(st)},
         willReadTill |-> 0, sentReadTill |-> st.willReadTill, willReadWhen |-> 0,
         sentReadDone |-> FALSE,
         postponedRequestEntry |-> st.postponedRequestEntry \/ h \in w.requested]
  BY DEF AfterRead
<1> HIDE DEF st
<1>3. Fresh(InUse(st)) \in Nat
  BY <1>1, InUseFinite
<1>4. ReadOf(st) \in Requests
  BY <1>1, <1>3 DEF ReadOf, States, Requests
<1>5. st.sent \cup {ReadOf(st)} \in SUBSET Requests
  BY <1>1, <1>4 DEF States
<1> QED BY <1>1, <1>2, <1>5, HistoriesAssumption DEF States

LEMMA ReadsSentType ==
  ASSUME NEW w \in Worlds, NEW S, \A h \in Chats : RequestsGood(w.state[h])
  PROVE  /\ ReadsSent(w, S) \in Worlds
         /\ ReadsSent(w, S).state = [h \in Chats |->
              IF h \in S THEN AfterRead(w, h) ELSE w.state[h]]
         /\ ReadsSent(w, S).byRequest = [h \in Chats |->
              IF h \in S THEN w.byRequest[h] \cup {Fresh(InUse(w.state[h]))}
                         ELSE w.byRequest[h]]
         /\ ReadsSent(w, S).told = [h \in Chats |->
              IF h \in S THEN Larger(w.told[h], w.state[h].willReadTill) ELSE w.told[h]]
         /\ ReadsSent(w, S).before = w.before /\ ReadsSent(w, S).requested = w.requested
         /\ ReadsSent(w, S).pending = w.pending /\ ReadsSent(w, S).readers = w.readers
         /\ ReadsSent(w, S).posted = w.posted /\ ReadsSent(w, S).timer = w.timer
<1> DEFINE states == [h \in Chats |->
              IF h \in S THEN AfterRead(w, h) ELSE w.state[h]]
           byRequest == [h \in Chats |->
              IF h \in S THEN w.byRequest[h] \cup {Fresh(InUse(w.state[h]))}
                         ELSE w.byRequest[h]]
           marks == [h \in Chats |->
              IF h \in S THEN Larger(w.told[h], w.state[h].willReadTill) ELSE w.told[h]]
<1>1. \A h \in Chats : w.state[h] \in States /\ w.byRequest[h] \in SUBSET Nat
                         /\ w.told[h] \in 0 .. MaxTill
  BY DEF Worlds
<1>2. states \in [Chats -> States]
  BY <1>1, AfterReadType
<1>3. byRequest \in [Chats -> SUBSET Nat]
  BY <1>1, InUseFinite DEF RequestsGood
<1>4. marks \in [Chats -> 0 .. MaxTill]
  <2>1. \A h \in Chats : w.state[h].willReadTill \in 0 .. MaxTill
    BY <1>1 DEF States
  <2> QED BY <1>1, <2>1 DEF Larger
<1>5. ReadsSent(w, S) = [w EXCEPT !.state = states, !.byRequest = byRequest, !.told = marks]
  BY DEF ReadsSent
<1> HIDE DEF states, byRequest, marks
<1>6. ReadsSent(w, S) = [state |-> states, before |-> w.before, byRequest |-> byRequest,
         requested |-> w.requested, pending |-> w.pending, readers |-> w.readers,
         posted |-> w.posted, timer |-> w.timer, told |-> marks]
  BY <1>5 DEF Worlds
<1>7. ReadsSent(w, S) \in Worlds
  BY <1>2, <1>3, <1>4, <1>6 DEF Worlds
<1> QED BY <1>6, <1>7 DEF states, byRequest, marks

(* A world is a record of its fields.                                      *)
LEMMA Fields ==
  ASSUME NEW w \in Worlds
  PROVE  w = [state |-> w.state, before |-> w.before, byRequest |-> w.byRequest,
              requested |-> w.requested, pending |-> w.pending, readers |-> w.readers,
              posted |-> w.posted, timer |-> w.timer, told |-> w.told]
  BY DEF Worlds

(* What is known of a chat is put into a world.                            *)
LEMMA PutState ==
  ASSUME NEW w \in Worlds, NEW h \in Chats, NEW st
  PROVE  [w EXCEPT !.state[h] = st] =
           [state |-> [w.state EXCEPT ![h] = st], before |-> w.before,
            byRequest |-> w.byRequest, requested |-> w.requested, pending |-> w.pending,
            readers |-> w.readers, posted |-> w.posted, timer |-> w.timer, told |-> w.told]
  BY DEF Worlds

LEMMA PutTold ==
  ASSUME NEW w \in Worlds, NEW h \in Chats, NEW st, NEW n
  PROVE  [w EXCEPT !.state[h] = st, !.told[h] = n] =
           [state |-> [w.state EXCEPT ![h] = st], before |-> w.before,
            byRequest |-> w.byRequest, requested |-> w.requested, pending |-> w.pending,
            readers |-> w.readers, posted |-> w.posted, timer |-> w.timer,
            told |-> [w.told EXCEPT ![h] = n]]
<1> DEFINE v == [w EXCEPT !.state[h] = st]
<1>1. [w EXCEPT !.state[h] = st, !.told[h] = n] = [v EXCEPT !.told[h] = n]
  BY DEF Worlds
<1>2. v = [state |-> [w.state EXCEPT ![h] = st], before |-> w.before,
           byRequest |-> w.byRequest, requested |-> w.requested, pending |-> w.pending,
           readers |-> w.readers, posted |-> w.posted, timer |-> w.timer, told |-> w.told]
  BY PutState
<1> HIDE DEF v
<1> QED BY <1>1, <1>2

LEMMA PutRequest ==
  ASSUME NEW w \in Worlds, NEW h \in Chats, NEW st, NEW ids
  PROVE  [w EXCEPT !.byRequest[h] = ids, !.state[h] = st] =
           [state |-> [w.state EXCEPT ![h] = st], before |-> w.before,
            byRequest |-> [w.byRequest EXCEPT ![h] = ids], requested |-> w.requested,
            pending |-> w.pending, readers |-> w.readers, posted |-> w.posted,
            timer |-> w.timer, told |-> w.told]
<1> DEFINE v == [w EXCEPT !.state[h] = st]
<1>1. [w EXCEPT !.byRequest[h] = ids, !.state[h] = st] = [v EXCEPT !.byRequest[h] = ids]
  BY DEF Worlds
<1>2. v = [state |-> [w.state EXCEPT ![h] = st], before |-> w.before,
           byRequest |-> w.byRequest, requested |-> w.requested, pending |-> w.pending,
           readers |-> w.readers, posted |-> w.posted, timer |-> w.timer, told |-> w.told]
  BY PutState
<1> HIDE DEF v
<1> QED BY <1>1, <1>2

(* Nothing is taken back for a read.                                       *)
LEMMA ReadRequest ==
  ASSUME NEW w \in Worlds, NEW h \in Chats, RequestsGood(w.state[h])
  PROVE  sendReadRequest(w, h) =
           [state |-> [w.state EXCEPT ![h] = AfterRead(w, h)], before |-> w.before,
            byRequest |-> [w.byRequest EXCEPT ![h] = @ \cup {Fresh(InUse(w.state[h]))}],
            requested |-> w.requested, pending |-> w.pending, readers |-> w.readers,
            posted |-> w.posted, timer |-> w.timer,
            told |-> [w.told EXCEPT ![h] = Larger(@, w.state[h].willReadTill)]]
<1> DEFINE st == w.state[h]
           till == st.willReadTill
           vst == [st EXCEPT !.willReadTill = 0, !.willReadWhen = 0,
                             !.sentReadTill = till, !.sentReadDone = FALSE]
           v == [w EXCEPT !.state[h] = vst, !.told[h] = Larger(@, till)]
           id == Fresh(InUse(vst))
           sent == vst.sent \cup {[id |-> id, type |-> "ReadInbox", till |-> till,
                                   answers |-> TRUE]}
           back == IF postponeHistoryRequest(sent) THEN {r \in sent : r.type = "History"} ELSE {}
           x == [vst EXCEPT !.exists = TRUE, !.sent = sent \ back, !.postponed = @ \cup Ids(back),
                            !.postponedRequestEntry =
                               @ \/ (postponeEntryRequest(sent) /\ h \in v.requested)]
<1>1. st \in States /\ w.state \in [Chats -> States]
  BY DEF Worlds
<1>2. v = [state |-> [w.state EXCEPT ![h] = vst], before |-> w.before,
           byRequest |-> w.byRequest, requested |-> w.requested, pending |-> w.pending,
           readers |-> w.readers, posted |-> w.posted, timer |-> w.timer,
           told |-> [w.told EXCEPT ![h] = Larger(@, till)]]
  <2> HIDE DEF vst, till
  <2> QED BY PutTold
<1>6. v.state[h] = vst
  BY <1>1, <1>2
<1>7. sendReadRequest(w, h) = [v EXCEPT !.byRequest[h] = @ \cup {id}, !.state[h] = x]
  BY <1>6 DEF sendReadRequest, sendRequest
<1>8. sendReadRequest(w, h) =
           [state |-> [w.state EXCEPT ![h] = x], before |-> w.before,
            byRequest |-> [w.byRequest EXCEPT ![h] = @ \cup {id}],
            requested |-> w.requested, pending |-> w.pending, readers |-> w.readers,
            posted |-> w.posted, timer |-> w.timer,
            told |-> [w.told EXCEPT ![h] = Larger(@, till)]]
  <2> HIDE DEF v, x, id, vst, till
  <2>1. [[w.state EXCEPT ![h] = vst] EXCEPT ![h] = x] = [w.state EXCEPT ![h] = x]
    BY <1>1
  <2> QED BY <1>2, <1>7, <2>1
<1>9. v.requested = w.requested
  BY <1>2
<1> HIDE DEF v
<1>10. vst.sent = st.sent /\ vst.postponed = st.postponed
  BY <1>1 DEF States
<1>11. id = Fresh(InUse(st)) /\ sent = st.sent \cup {ReadOf(st)}
  BY <1>10 DEF InUse, ReadOf
<1>12. ReadOf(st).type = "ReadInbox"
  BY DEF ReadOf
<1>13. back = {}
  <2>1. postponeHistoryRequest(sent) => postponeHistoryRequest(st.sent)
    BY <1>11, <1>12 DEF postponeHistoryRequest
  <2> QED BY <1>11, <1>12, <2>1 DEF RequestsGood
<1>14. postponeEntryRequest(sent)
  <2>1. ReadOf(st) \in sent
    BY <1>11
  <2> QED BY <1>12, <2>1 DEF postponeEntryRequest
<1>15. Ids(back) = {} /\ sent \ back = sent
  BY <1>13 DEF Ids
<1> HIDE DEF back, sent, id
<1>16. x = [vst EXCEPT !.exists = TRUE, !.sent = st.sent \cup {ReadOf(st)},
               !.postponedRequestEntry = st.postponedRequestEntry \/ h \in w.requested]
  BY <1>1, <1>9, <1>11, <1>14, <1>15 DEF States
<1> HIDE DEF x
<1>17. x = AfterRead(w, h)
  BY <1>1, <1>16 DEF AfterRead, States
<1> QED BY <1>8, <1>11, <1>17

(* What was sent for some chats and is sent for one more.                  *)
LEMMA ReadsSentMore ==
  ASSUME NEW w \in Worlds, \A h \in Chats : RequestsGood(w.state[h]),
         NEW S \in SUBSET Chats, NEW x \in S
  PROVE  sendReadRequest(ReadsSent(w, S \ {x}), x) = ReadsSent(w, S)
<1> DEFINE u == ReadsSent(w, S \ {x})
           v == ReadsSent(w, S)
<1>1. /\ u \in Worlds /\ u.before = w.before /\ u.requested = w.requested
      /\ u.pending = w.pending /\ u.readers = w.readers
      /\ u.posted = w.posted /\ u.timer = w.timer
  BY ReadsSentType
<1>2. /\ u.state = [h \in Chats |->
            IF h \in S \ {x} THEN AfterRead(w, h) ELSE w.state[h]]
      /\ u.byRequest = [h \in Chats |->
            IF h \in S \ {x} THEN w.byRequest[h] \cup {Fresh(InUse(w.state[h]))}
                             ELSE w.byRequest[h]]
      /\ u.told = [h \in Chats |->
            IF h \in S \ {x} THEN Larger(w.told[h], w.state[h].willReadTill) ELSE w.told[h]]
  BY ReadsSentType
<1>3. /\ v \in Worlds /\ v.before = w.before /\ v.requested = w.requested
      /\ v.pending = w.pending /\ v.readers = w.readers
      /\ v.posted = w.posted /\ v.timer = w.timer
  BY ReadsSentType
<1>4. /\ v.state = [h \in Chats |-> IF h \in S THEN AfterRead(w, h) ELSE w.state[h]]
      /\ v.byRequest = [h \in Chats |->
            IF h \in S THEN w.byRequest[h] \cup {Fresh(InUse(w.state[h]))}
                       ELSE w.byRequest[h]]
      /\ v.told = [h \in Chats |->
            IF h \in S THEN Larger(w.told[h], w.state[h].willReadTill) ELSE w.told[h]]
  BY ReadsSentType
<1> HIDE DEF u, v
<1>5. /\ u.state[x] = w.state[x] /\ u.byRequest[x] = w.byRequest[x] /\ u.told[x] = w.told[x]
      /\ AfterRead(u, x) = AfterRead(w, x)
  BY <1>1, <1>2 DEF AfterRead
<1>6. sendReadRequest(u, x) =
           [state |-> [u.state EXCEPT ![x] = AfterRead(w, x)], before |-> w.before,
            byRequest |-> [u.byRequest EXCEPT ![x] = @ \cup {Fresh(InUse(w.state[x]))}],
            requested |-> w.requested, pending |-> w.pending, readers |-> w.readers,
            posted |-> w.posted, timer |-> w.timer,
            told |-> [u.told EXCEPT ![x] = Larger(@, w.state[x].willReadTill)]]
  BY <1>1, <1>5, ReadRequest
<1>7. [u.state EXCEPT ![x] = AfterRead(w, x)] = v.state
  BY <1>2, <1>4
<1>8. [u.byRequest EXCEPT ![x] = @ \cup {Fresh(InUse(w.state[x]))}] = v.byRequest
  <2> DEFINE ids(h) == Fresh(InUse(w.state[h]))
  <2> HIDE DEF ids
  <2>1. u.byRequest = [h \in Chats |->
          IF h \in S \ {x} THEN w.byRequest[h] \cup {ids(h)} ELSE w.byRequest[h]]
    BY <1>2 DEF ids
  <2>2. v.byRequest = [h \in Chats |->
          IF h \in S THEN w.byRequest[h] \cup {ids(h)} ELSE w.byRequest[h]]
    BY <1>4 DEF ids
  <2>3. [u.byRequest EXCEPT ![x] = @ \cup {ids(x)}] = v.byRequest
    BY <2>1, <2>2
  <2> QED BY <2>3 DEF ids
<1>9. [u.told EXCEPT ![x] = Larger(@, w.state[x].willReadTill)] = v.told
  BY <1>2, <1>4
<1>10. v = [state |-> v.state, before |-> v.before, byRequest |-> v.byRequest,
            requested |-> v.requested, pending |-> v.pending, readers |-> v.readers,
            posted |-> v.posted, timer |-> v.timer, told |-> v.told]
  BY <1>3, Fields
<1> QED BY <1>3, <1>6, <1>7, <1>8, <1>9, <1>10 DEF u, v

(* The order in which reads are sent makes no difference.                  *)
LEMMA ReadsFold ==
  ASSUME NEW w \in Worlds, \A h \in Chats : RequestsGood(w.state[h]),
         NEW S \in SUBSET Chats
  PROVE  FoldSet(LAMBDA h, u : sendReadRequest(u, h), w, S) = ReadsSent(w, S)
<1> DEFINE D == {ReadsSent(w, s) : s \in SUBSET S}
           G == [h \in Chats |-> [u \in D |-> sendReadRequest(u, h)]]
           W == [s \in SUBSET S |-> {ReadsSent(w, s)}]
           IsIt(f) == f = [s \in SUBSET S |-> IF s = {} THEN w
                             ELSE sendReadRequest(f[s \ {CHOOSE y \in s : TRUE}],
                                                  CHOOSE y \in s : TRUE)]
<1>1. IsFiniteSet(S)
  BY FS_Subset, HistoriesAssumption
<1>2. w = ReadsSent(w, {})
  <2>1. ReadsSent(w, {}) \in Worlds
    BY ReadsSentType
  <2>2. /\ ReadsSent(w, {}).state = w.state /\ ReadsSent(w, {}).byRequest = w.byRequest
        /\ ReadsSent(w, {}).told = w.told
    BY ReadsSentType DEF Worlds
  <2>3. /\ ReadsSent(w, {}).before = w.before /\ ReadsSent(w, {}).requested = w.requested
        /\ ReadsSent(w, {}).pending = w.pending /\ ReadsSent(w, {}).readers = w.readers
        /\ ReadsSent(w, {}).posted = w.posted /\ ReadsSent(w, {}).timer = w.timer
    BY ReadsSentType
  <2> DEFINE v == ReadsSent(w, {})
  <2> HIDE DEF v
  <2>4. v = [state |-> v.state, before |-> v.before, byRequest |-> v.byRequest,
             requested |-> v.requested, pending |-> v.pending, readers |-> v.readers,
             posted |-> v.posted, timer |-> v.timer, told |-> v.told]
    BY <2>1, Fields DEF v
  <2> QED BY <2>2, <2>3, <2>4, Fields DEF v
<1>3. ASSUME NEW s \in SUBSET S, s /= {}
      PROVE  LET x == CHOOSE y \in s : TRUE
             IN  /\ x \in s /\ s \ {x} \in SUBSET S /\ ReadsSent(w, s \ {x}) \in D
                 /\ sendReadRequest(ReadsSent(w, s \ {x}), x) = ReadsSent(w, s)
  BY <1>3, ReadsSentMore
<1>4. PICK f : IsFold(f, S, G, w) /\ \A s \in SUBSET S : f[s] \in W[s]
  <2>1. w \in W[{}]
    BY <1>2
  <2>2. ASSUME NEW s \in SUBSET S, s /= {}
        PROVE  \A u \in W[s \ {CHOOSE y \in s : TRUE}] : G[CHOOSE y \in s : TRUE][u] \in W[s]
    <3> DEFINE x == CHOOSE y \in s : TRUE
    <3>1. x \in s /\ x \in Chats
      BY <2>2
    <3>2. W[s \ {x}] = {ReadsSent(w, s \ {x})} /\ W[s] = {ReadsSent(w, s)}
      BY <3>1
    <3>3. G[x][ReadsSent(w, s \ {x})] = ReadsSent(w, s)
      BY <1>3, <2>2, <3>1
    <3> QED BY <3>2, <3>3
  <2> HIDE DEF G, W, D
  <2>3. Leads(S, G, W)
    BY <2>2 DEF Leads
  <2> QED BY <1>1, <2>1, <2>3, FoldWithin
<1>5. IsIt(f)
  <2>1. ASSUME NEW s \in SUBSET S, s /= {}
        PROVE  LET x == CHOOSE y \in s : TRUE
               IN  G[x][f[s \ {x}]] = sendReadRequest(f[s \ {x}], x)
    <3> DEFINE x == CHOOSE y \in s : TRUE
    <3>1. x \in s /\ x \in Chats
      BY <2>1
    <3>2. f[s \ {x}] \in D
      BY <1>4
    <3> QED BY <3>1, <3>2
  <2> HIDE DEF G
  <2>2. \A s \in SUBSET S :
          f[s] = IF s = {} THEN w ELSE G[CHOOSE y \in s : TRUE][f[s \ {CHOOSE y \in s : TRUE}]]
    BY <1>4 DEF IsFold
  <2>3. f = [s \in SUBSET S |-> f[s]]
    BY <1>4 DEF IsFold
  <2>4. \A s \in SUBSET S :
          f[s] = IF s = {} THEN w ELSE sendReadRequest(f[s \ {CHOOSE y \in s : TRUE}],
                                                       CHOOSE y \in s : TRUE)
    BY <2>1, <2>2
  <2> QED BY <2>3, <2>4
<1> DEFINE c == CHOOSE g : IsIt(g)
<1>6. IsIt(c)
  BY <1>5
<1>7. FoldSet(LAMBDA h, u : sendReadRequest(u, h), w, S) = c[S]
  BY DEF FoldSet, MapThenFoldSet
<1> DEFINE P == {s \in SUBSET S : c[s] = ReadsSent(w, s)}
<1> HIDE DEF c
<1>8. {} \in P
  <2>1. c[{}] = w
    BY <1>6
  <2> QED BY <1>2, <2>1
<1>9. ASSUME NEW s \in SUBSET S, s /= {}
      PROVE  \E x \in s : s \ {x} \in P => s \in P
  <2> DEFINE x == CHOOSE y \in s : TRUE
  <2>1. x \in s
    BY <1>9
  <2>2. c[s] = sendReadRequest(c[s \ {x}], x)
    BY <1>6, <1>9
  <2>3. c[s \ {x}] = ReadsSent(w, s \ {x}) => c[s] = ReadsSent(w, s)
    BY <1>3, <1>9, <2>2
  <2> QED BY <2>1, <2>3
<1> HIDE DEF P
<1>10. SUBSET S \subseteq P
  BY <1>1, <1>8, <1>9, SetInduction
<1>11. c[S] = ReadsSent(w, S)
  BY <1>10 DEF P
<1> QED BY <1>7, <1>11

-----------------------------------------------------------------------------
(* One chat.                                                               *)

(* What is good of a chat does not depend on the others, and stays so when *)
(* more is read.                                                           *)
LEMMA SameChat ==
  ASSUME NEW w \in Worlds, NEW v \in Worlds, NEW h \in Chats,
         NEW asked, NEW free, NEW asked2, NEW free2, ChatGood(w, h, asked, free),
         v.state[h] = w.state[h], v.byRequest[h] = w.byRequest[h],
         w.before[h] <= v.before[h],
         h \in v.requested <=> h \in w.requested, h \in v.pending <=> h \in w.pending,
         h \in v.readers <=> h \in w.readers,
         h \in asked => h \in asked2, h \in free => h \in free2
  PROVE  ChatGood(v, h, asked2, free2)
<1>1. RequestsGood(v.state[h]) /\ v.byRequest[h] = InUse(v.state[h])
  BY DEF ChatGood
<1>2. ReadsGood(v.state[h], v.before[h])
  <2> DEFINE st == w.state[h]
             b == w.before[h]
             c == v.before[h]
  <2>1. st \in States /\ b \in Int /\ c \in Int /\ b <= c
    BY DEF Worlds
  <2>2. \A r \in st.sent : r.till \in Int
    BY <2>1 DEF States, Requests
  <2>3. ReadsGood(st, b)
    BY DEF ChatGood
  <2> HIDE DEF st, b, c
  <2>4. ReadsGood(st, c)
    BY <2>1, <2>2, <2>3 DEF ReadsGood
  <2> QED BY <2>4 DEF st, c
<1>3. EntryGood(v, h, asked2, free2)
  BY DEF ChatGood, EntryGood
<1> QED BY <1>1, <1>2, <1>3 DEF ChatGood

(* A request is sent, and takes back what it should not pass.              *)
TakenBack(requests) ==
  {r \in requests : postponeHistoryRequest(requests) /\ r.type = "History"}

LEMMA RequestAdded ==
  ASSUME NEW st \in States, RequestsGood(st), NEW q \in Requests, q.id \notin InUse(st),
         q.type = "History" => ~postponeHistoryRequest(st.sent),
         NEW t \in States, t.exists,
         t.sent = (st.sent \cup {q}) \ TakenBack(st.sent \cup {q}),
         t.postponed = st.postponed \cup Ids(TakenBack(st.sent \cup {q}))
  PROVE  /\ RequestsGood(t) /\ InUse(t) = InUse(st) \cup {q.id}
         /\ postponeEntryRequest(t.sent) <=> postponeEntryRequest(st.sent \cup {q})
<1> DEFINE sent == st.sent \cup {q}
           back == TakenBack(sent)
<1>19. \A r : r \in back <=> r \in sent /\ postponeHistoryRequest(sent) /\ r.type = "History"
  BY DEF TakenBack
<1> HIDE DEF back
<1>20. t.sent = sent \ back /\ t.postponed = st.postponed \cup Ids(back)
  BY DEF back
<1>21. \A i : i \in Ids(back) <=> \E r \in back : i = r.id
  BY DEF Ids
<1>22. \A i : i \in InUse(st) <=> i \in st.postponed \/ \E r \in st.sent : i = r.id
  BY DEF Ids, InUse
<1>23. \A i : i \in InUse(t) <=> i \in t.postponed \/ \E r \in t.sent : i = r.id
  BY DEF Ids, InUse
<1>1. IsFiniteSet(sent)
  BY FS_AddElement DEF RequestsGood
<1>2. IsFiniteSet(t.sent)
  <2>1. t.sent \in SUBSET sent
    BY <1>20
  <2> QED BY <1>1, <2>1, FS_Subset
<1>3. IsFiniteSet(t.postponed)
  <2>1. IsFiniteSet(back)
    <3>1. back \in SUBSET sent
      BY <1>19
    <3> QED BY <1>1, <3>1, FS_Subset
  <2>2. IsFiniteSet({r.id : r \in back})
    <3> DEFINE f == [r \in back |-> r.id]
    <3>1. f \in Surjection(back, {r.id : r \in back})
      BY DEF Surjection
    <3> QED BY <2>1, <3>1, FS_Surjection
  <2>3. IsFiniteSet(Ids(back)) /\ IsFiniteSet(st.postponed)
    BY <2>2 DEF Ids, RequestsGood
  <2> DEFINE ids == Ids(back)
             old == st.postponed
  <2> HIDE DEF ids, old
  <2>4. IsFiniteSet(old \cup ids)
    BY <2>3, FS_Union DEF ids, old
  <2> QED BY <1>20, <2>4 DEF ids, old
<1>4. \A r, p \in sent : r.id = p.id => r = p
  BY DEF RequestsGood, InUse, Ids
<1>5. \A r \in sent : r.id \notin st.postponed
  BY DEF RequestsGood, InUse
<1>6. \A r \in sent \ back : r.id \notin t.postponed
  <2> HIDE DEF sent
  <2> SUFFICES ASSUME NEW r \in sent, r \notin back, r.id \in t.postponed PROVE FALSE
    OBVIOUS
  <2>1. r.id \in Ids(back)
    BY <1>5, <1>20
  <2>2. PICK p \in back : r.id = p.id
    BY <1>21, <2>1
  <2> QED BY <1>4, <1>19, <2>2
<1>7. postponeHistoryRequest(t.sent) <=> postponeHistoryRequest(sent)
  BY <1>19, <1>20 DEF postponeHistoryRequest
<1>8. postponeHistoryRequest(t.sent) => \A r \in t.sent : r.type /= "History"
  BY <1>19, <1>20, <1>7
<1>9. t.postponed /= {} => postponeHistoryRequest(t.sent)
  <2>1. st.postponed /= {} => postponeHistoryRequest(sent)
    BY DEF RequestsGood, postponeHistoryRequest
  <2>2. back /= {} => postponeHistoryRequest(sent)
    BY <1>19
  <2> QED BY <1>20, <1>7, <2>1, <2>2 DEF Ids
<1>10. InUse(t) = InUse(st) \cup {q.id}
  <2>1. \A i : i \in t.postponed <=> i \in st.postponed \/ \E r \in back : i = r.id
    BY <1>20, <1>21
  <2>2. \A i : i \in InUse(t) <=> i \in st.postponed \/ \E r \in sent : i = r.id
    <3> HIDE DEF sent
    <3> QED BY <1>19, <1>20, <1>23, <2>1
  <2>3. \A i : i \in InUse(t) <=> i \in InUse(st) \/ i = q.id
    BY <1>22, <2>2
  <2> QED BY <2>3
<1>11. postponeEntryRequest(t.sent) <=> postponeEntryRequest(sent)
  BY <1>19, <1>20 DEF postponeEntryRequest
<1> QED BY <1>20, <1>2, <1>3, <1>4, <1>6, <1>8, <1>9, <1>10, <1>11 DEF RequestsGood

(* A read is sent.                                                         *)
LEMMA AfterReadGood ==
  ASSUME NEW w \in Worlds, NEW h \in Chats, NEW asked, NEW free,
         ChatGood(w, h, asked, free), w.state[h].willReadTill /= 0
  PROVE  LET t == AfterRead(w, h)
         IN  /\ t \in States /\ RequestsGood(t) /\ ReadsGood(t, w.before[h])
             /\ w.byRequest[h] \cup {Fresh(InUse(w.state[h]))} = InUse(t)
             /\ t.postponedRequestEntry <=> h \in w.requested
             /\ postponeEntryRequest(t.sent) /\ ~t.sentReadDone
<1> DEFINE st == w.state[h]
           q == ReadOf(st)
           t == AfterRead(w, h)
<1>1. st \in States /\ RequestsGood(st) /\ ReadsGood(st, w.before[h])
  BY DEF Worlds, ChatGood
<1>2. /\ t \in States /\ t.exists /\ t.sent = st.sent \cup {q} /\ t.postponed = st.postponed
      /\ t.willReadTill = 0 /\ t.sentReadTill = st.willReadTill /\ ~t.sentReadDone
      /\ t.postponedRequestEntry = (st.postponedRequestEntry \/ h \in w.requested)
  BY <1>1, AfterReadType DEF AfterRead
<1>3. q \in Requests /\ q.id \notin InUse(st) /\ q.type = "ReadInbox" /\ q.till = st.willReadTill
      /\ q.id = Fresh(InUse(st))
  <2>1. Fresh(InUse(st)) \in Nat /\ Fresh(InUse(st)) \notin InUse(st)
    BY <1>1, InUseFinite DEF RequestsGood
  <2> QED BY <1>1, <2>1 DEF ReadOf, Requests, States
<1>4. st.postponedRequestEntry => h \in w.requested
  BY DEF ChatGood, EntryGood
<1>5. w.byRequest[h] = InUse(st)
  BY DEF ChatGood
<1> HIDE DEF q, t
<1>6. TakenBack(st.sent \cup {q}) = {}
  <2>1. postponeHistoryRequest(st.sent \cup {q}) => postponeHistoryRequest(st.sent)
    BY <1>3 DEF postponeHistoryRequest
  <2> QED BY <1>1, <1>3, <2>1 DEF RequestsGood, TakenBack
<1>7. RequestsGood(t) /\ InUse(t) = InUse(st) \cup {q.id}
  <2>1. /\ t.sent = (st.sent \cup {q}) \ TakenBack(st.sent \cup {q})
        /\ t.postponed = st.postponed \cup Ids(TakenBack(st.sent \cup {q}))
    BY <1>2, <1>6 DEF Ids
  <2> HIDE DEF st
  <2> QED BY <1>1, <1>2, <1>3, <2>1, RequestAdded
<1>8. postponeEntryRequest(t.sent)
  BY <1>2, <1>3 DEF postponeEntryRequest
<1>9. ReadsGood(t, w.before[h])
  <2>1. \A r \in st.sent : r.till \in Int /\ (r.type = "ReadInbox" => r.till < st.willReadTill)
    BY <1>1 DEF ReadsGood, States, Requests
  <2>2. st.willReadTill \in Int
    BY <1>1 DEF States
  <2>3. \A r \in t.sent : r.type = "ReadInbox" => r.till <= t.sentReadTill
    BY <1>2, <1>3, <2>1, <2>2
  <2>4. q \in t.sent /\ q.till = t.sentReadTill
    BY <1>2, <1>3
  <2> QED BY <1>2, <1>3, <2>3, <2>4 DEF ReadsGood
<1> QED BY <1>2, <1>3, <1>4, <1>5, <1>7, <1>8, <1>9 DEF t

(* The reads of some chats with messages to read are sent.                 *)
LEMMA SendReads ==
  ASSUME NEW w, NEW asked, NEW free, Good(w, asked, free)
  PROVE  LET v == sendReadRequests(w)
         IN  /\ Good(v, asked, free)
             /\ \A h \in Chats : \/ v.state[h] = w.state[h]
                                 \/ w.state[h].willReadTill /= 0 /\ v.state[h] = AfterRead(w, h)
             /\ v.before = w.before /\ v.requested = w.requested
             /\ v.pending = w.pending /\ v.readers = w.readers
<1> DEFINE v == sendReadRequests(w)
<1>1. w \in Worlds /\ (w.pending /= {} => w.posted) /\ \A h \in Chats : ChatGood(w, h, asked, free)
  BY DEF Good
<1>2. \A h \in Chats : RequestsGood(w.state[h]) /\ w.state[h] \in States
  BY <1>1 DEF ChatGood, Worlds
<1>3. CASE \A h \in Chats : ~w.state[h].exists
  <2>1. v = w
    BY <1>3 DEF sendReadRequests
  <2> QED BY <2>1
<1>4. CASE ~\A h \in Chats : ~w.state[h].exists
  <2> DEFINE waiting == {h \in Chats : w.state[h].willReadTill /= 0}
             due == {h \in waiting : w.state[h].willReadWhen <= 1}
             later == {w.state[h].willReadWhen : h \in waiting \ due}
             t == IF later = {} THEN 0 ELSE Least(later)
             u == ReadsSent(w, due)
  <2>1. due \in SUBSET Chats /\ \A h \in due : h \in Chats /\ w.state[h].willReadTill /= 0
    OBVIOUS
  <2>2. v = [FoldSet(LAMBDA h, x : sendReadRequest(x, h), w, due) EXCEPT !.timer = t]
    BY <1>4 DEF sendReadRequests
  <2>3. t \in 0 .. Timeout + 1
    <3>1. later \subseteq 0 .. Timeout + 1
      BY <1>2 DEF States
    <3> HIDE DEF later
    <3>2. CASE later = {}
      BY <3>2, HistoriesAssumption
    <3>3. CASE later /= {}
      <4>1. later \subseteq Nat
        BY <3>1
      <4>2. Least(later) \in later
        BY <3>3, <4>1, LeastOf
      <4> QED BY <3>1, <3>3, <4>2
    <3> QED BY <3>2, <3>3
  <2> HIDE DEF due, t
  <2>4. FoldSet(LAMBDA h, x : sendReadRequest(x, h), w, due) = u
    BY <1>1, <1>2, <2>1, ReadsFold
  <2>5. v = [u EXCEPT !.timer = t]
    BY <2>2, <2>4
  <2>6. /\ u \in Worlds /\ u.before = w.before /\ u.requested = w.requested
        /\ u.pending = w.pending /\ u.readers = w.readers
        /\ u.posted = w.posted
    BY <1>1, <1>2, ReadsSentType
  <2>7. /\ u.state = [h \in Chats |-> IF h \in due THEN AfterRead(w, h) ELSE w.state[h]]
        /\ u.byRequest = [h \in Chats |->
             IF h \in due THEN w.byRequest[h] \cup {Fresh(InUse(w.state[h]))}
                          ELSE w.byRequest[h]]
    BY <1>1, <1>2, ReadsSentType
  <2> HIDE DEF u, v
  <2>8. v \in Worlds
    BY <2>3, <2>5, <2>6 DEF Worlds
  <2>9. /\ v.before = w.before /\ v.requested = w.requested
        /\ v.pending = w.pending /\ v.readers = w.readers /\ v.posted = w.posted
        /\ v.state = u.state /\ v.byRequest = u.byRequest
    BY <2>5, <2>6 DEF Worlds
  <2>10. ASSUME NEW h \in Chats
         PROVE  /\ ChatGood(v, h, asked, free)
                /\ \/ v.state[h] = w.state[h]
                   \/ w.state[h].willReadTill /= 0 /\ v.state[h] = AfterRead(w, h)
    <3>1. CASE h \in due
      <4>1. /\ v.state[h] = AfterRead(w, h)
            /\ v.byRequest[h] = w.byRequest[h] \cup {Fresh(InUse(w.state[h]))}
        BY <2>7, <2>9, <3>1
      <4>2. LET t2 == AfterRead(w, h)
            IN  /\ t2 \in States /\ RequestsGood(t2) /\ ReadsGood(t2, w.before[h])
                /\ w.byRequest[h] \cup {Fresh(InUse(w.state[h]))} = InUse(t2)
                /\ t2.postponedRequestEntry <=> h \in w.requested
                /\ postponeEntryRequest(t2.sent) /\ ~t2.sentReadDone
        BY <1>1, <2>1, <3>1, AfterReadGood
      <4>3. EntryGood(w, h, asked, free)
        BY <1>1 DEF ChatGood
      <4>4. EntryGood(v, h, asked, free)
        BY <2>9, <4>1, <4>2, <4>3 DEF EntryGood
      <4> QED BY <2>1, <2>9, <3>1, <4>1, <4>2, <4>4 DEF ChatGood
    <3>2. CASE h \notin due
      <4>1. v.state[h] = w.state[h] /\ v.byRequest[h] = w.byRequest[h]
        BY <2>7, <2>9, <3>2
      <4>2. w.before[h] <= v.before[h]
        BY <1>1, <2>9 DEF Worlds
      <4>3. ChatGood(w, h, asked, free)
        BY <1>1
      <4> QED BY <1>1, <2>8, <2>9, <4>1, <4>2, <4>3, SameChat
    <3> QED BY <3>1, <3>2
  <2>11. Good(v, asked, free)
    BY <1>1, <2>8, <2>9, <2>10 DEF Good
  <2> QED BY <2>9, <2>10, <2>11 DEF v
<1> QED BY <1>3, <1>4

-----------------------------------------------------------------------------
(* The operators on worlds, one by one.                                    *)

(* What changes one chat leaves the others as good as they were.           *)
Beside(w, v, h) ==
  \A g \in Chats : g /= h =>
    /\ v.state[g] = w.state[g] /\ v.byRequest[g] = w.byRequest[g]
    /\ v.before[g] = w.before[g]
    /\ g \in v.requested <=> g \in w.requested
    /\ g \in v.pending <=> g \in w.pending
    /\ g \in v.readers <=> g \in w.readers

LEMMA OneChat ==
  ASSUME NEW w \in Worlds, NEW v \in Worlds, NEW h \in Chats, NEW asked, NEW free,
         \A g \in Chats : g /= h => ChatGood(w, g, asked, free), Beside(w, v, h),
         NEW asked2, asked \ {h} \subseteq asked2, NEW free2, free \ {h} \subseteq free2,
         ChatGood(v, h, asked2, free2), v.pending /= {} => v.posted
  PROVE  Good(v, asked2, free2)
<1>1. ASSUME NEW g \in Chats, g /= h
      PROVE  ChatGood(v, g, asked2, free2)
  <2>1. /\ v.state[g] = w.state[g] /\ v.byRequest[g] = w.byRequest[g]
        /\ g \in v.requested <=> g \in w.requested
        /\ g \in v.pending <=> g \in w.pending
        /\ g \in v.readers <=> g \in w.readers
    BY <1>1 DEF Beside
  <2>2. w.before[g] <= v.before[g]
    BY <1>1 DEF Worlds, Beside
  <2>3. (g \in asked => g \in asked2) /\ (g \in free => g \in free2)
    BY <1>1
  <2> QED BY <1>1, <2>1, <2>2, <2>3, SameChat
<1> QED BY <1>1 DEF Good

(* What comes is good for more chats.                                      *)
LEMMA Weaker ==
  ASSUME NEW w, NEW asked, NEW free, NEW asked2, NEW free2, Good(w, asked, free),
         \A h \in Chats : (h \in asked => h \in asked2) /\ (h \in free => h \in free2)
  PROVE  Good(w, asked2, free2)
<1>1. w \in Worlds /\ \A h \in Chats : ChatGood(w, h, asked, free)
  BY DEF Good
<1>2. ASSUME NEW h \in Chats
      PROVE  ChatGood(w, h, asked2, free2)
  <2>1. EntryGood(w, h, asked2, free2)
    BY <1>1 DEF ChatGood, EntryGood
  <2> QED BY <1>1, <2>1 DEF ChatGood
<1> QED BY <1>2 DEF Good

(* A state is put into a world.                                            *)
LEMMA PutGood ==
  ASSUME NEW w \in Worlds, NEW h \in Chats, NEW t \in States
  PROVE  LET v == [w EXCEPT !.state[h] = t]
         IN  /\ v \in Worlds /\ v.state[h] = t
             /\ \A g \in Chats : g /= h => v.state[g] = w.state[g]
             /\ v.before = w.before /\ v.byRequest = w.byRequest
             /\ v.requested = w.requested /\ v.pending = w.pending
             /\ v.readers = w.readers /\ v.posted = w.posted
             /\ v.timer = w.timer /\ v.told = w.told
<1> DEFINE v == [w EXCEPT !.state[h] = t]
<1>1. v = [state |-> [w.state EXCEPT ![h] = t], before |-> w.before,
           byRequest |-> w.byRequest, requested |-> w.requested, pending |-> w.pending,
           readers |-> w.readers, posted |-> w.posted, timer |-> w.timer, told |-> w.told]
  BY PutState
<1> HIDE DEF v
<1>2. w.state \in [Chats -> States]
  BY DEF Worlds
<1>3. [w.state EXCEPT ![h] = t] \in [Chats -> States]
  BY <1>2
<1>4. v \in Worlds
  BY <1>1, <1>3 DEF Worlds
<1>5. v.state[h] = t /\ \A g \in Chats : g /= h => v.state[g] = w.state[g]
  BY <1>1, <1>2
<1> QED BY <1>1, <1>4, <1>5 DEF v

LEMMA ReadTill ==
  ASSUME NEW w, NEW asked, NEW free, Good(w, asked, free),
         NEW h \in Chats, NEW n \in 0 .. MaxTill
  PROVE  LET v == setInboxReadTill(w, h, n)
         IN  /\ Good(v, asked, free)
             /\ v.state = w.state /\ v.requested = w.requested /\ v.pending = w.pending
             /\ v.readers = w.readers /\ v.before[h] > n
<1> DEFINE v == setInboxReadTill(w, h, n)
           b == Larger(w.before[h], n + 1)
<1>1. w \in Worlds /\ (w.pending /= {} => w.posted) /\ \A g \in Chats : ChatGood(w, g, asked, free)
  BY DEF Good
<1>2. w.before \in [Chats -> 0 .. MaxTill + 1] /\ MaxTill \in Nat
  BY <1>1, HistoriesAssumption DEF Worlds
<1>3. b \in 0 .. MaxTill + 1 /\ b > n /\ b >= w.before[h]
  BY <1>2 DEF Larger
<1>4. v = [w EXCEPT !.before[h] = b]
  BY DEF setInboxReadTill
<1> HIDE DEF b, v
<1>5. /\ v.before = [w.before EXCEPT ![h] = b] /\ v.state = w.state
      /\ v.byRequest = w.byRequest /\ v.requested = w.requested
  BY <1>1, <1>4 DEF Worlds
<1>6. /\ v.pending = w.pending /\ v.readers = w.readers /\ v.posted = w.posted
      /\ v.timer = w.timer /\ v.told = w.told
  BY <1>1, <1>4 DEF Worlds
<1>7. v \in Worlds
  BY <1>1, <1>3, <1>4 DEF Worlds
<1>8. \A g \in Chats : w.before[g] <= v.before[g]
  BY <1>2, <1>3, <1>5
<1>9. \A g \in Chats : ChatGood(v, g, asked, free)
  BY <1>1, <1>5, <1>6, <1>7, <1>8, SameChat
<1>10. Good(v, asked, free)
  BY <1>1, <1>6, <1>7, <1>9 DEF Good
<1>11. v.before[h] > n
  BY <1>2, <1>3, <1>5
<1> QED BY <1>5, <1>6, <1>10, <1>11 DEF v

(* A call is queued for the chats that are pending.                        *)
LEMMA Posting ==
  ASSUME NEW w \in Worlds, NEW h \in Chats, NEW pending \in SUBSET Chats,
         pending /= {} => w.posted, w.pending = pending \cup {h}
  PROVE  LET v == postponeRequestDialogEntries(w)
         IN  /\ v \in Worlds /\ v.posted
             /\ v.state = w.state /\ v.before = w.before /\ v.byRequest = w.byRequest
             /\ v.requested = w.requested /\ v.pending = w.pending /\ v.readers = w.readers
<1>1. CASE Cardinality(w.pending) > 1
  <2>1. pending /= {}
    <3>1. SUFFICES ASSUME pending = {} PROVE FALSE
      OBVIOUS
    <3>2. w.pending = {h}
      BY <3>1
    <3>3. Cardinality({h}) = 1
      BY FS_Singleton
    <3> QED BY <1>1, <3>2, <3>3
  <2> QED BY <1>1, <2>1 DEF postponeRequestDialogEntries
<1>2. CASE ~(Cardinality(w.pending) > 1)
  <2>1. postponeRequestDialogEntries(w) = [w EXCEPT !.posted = TRUE]
    BY <1>2 DEF postponeRequestDialogEntries
  <2> QED BY <2>1 DEF Worlds
<1> QED BY <1>1, <1>2

LEMMA RequestEntry ==
  ASSUME NEW w, NEW asked, NEW free, Good(w, asked, free), NEW h \in Chats,
         NEW reads \in BOOLEAN
  PROVE  LET v == requestDialogEntry(w, h, reads)
         IN  Good(v, asked, free \ {h}) /\ v.state = w.state /\ v.before = w.before
<1> DEFINE v == requestDialogEntry(w, h, reads)
           u == IF reads THEN [w EXCEPT !.readers = @ \cup {h}] ELSE w
           p == [u EXCEPT !.pending = @ \cup {h}]
<1>1. w \in Worlds /\ (w.pending /= {} => w.posted) /\ \A g \in Chats : ChatGood(w, g, asked, free)
  BY DEF Good
<1>2. /\ u \in Worlds /\ u.state = w.state /\ u.before = w.before
      /\ u.byRequest = w.byRequest /\ u.requested = w.requested /\ u.pending = w.pending
      /\ u.posted = w.posted /\ u.readers \subseteq w.readers \cup {h}
      /\ w.readers \subseteq u.readers
  <2>1. CASE reads
    BY <1>1, <2>1 DEF Worlds
  <2>2. CASE ~reads
    BY <1>1, <2>2
  <2> QED BY <2>1, <2>2
<1>3. v = IF h \in w.requested \cup w.pending THEN u ELSE postponeRequestDialogEntries(p)
  BY DEF requestDialogEntry
<1> HIDE DEF u
<1>4. CASE h \in w.requested \cup w.pending
  <2>1. v = u
    BY <1>3, <1>4
  <2>2. EntryGood(v, h, asked, free \ {h})
    BY <1>1, <1>2, <1>4, <2>1 DEF ChatGood, EntryGood
  <2>3. ChatGood(v, h, asked, free \ {h})
    BY <1>1, <1>2, <2>1, <2>2 DEF ChatGood
  <2>4. Good(v, asked, free \ {h})
    <3>1. Beside(w, v, h)
      BY <1>2, <2>1 DEF Beside
    <3>2. v \in Worlds /\ (v.pending /= {} => v.posted)
      BY <1>1, <1>2, <2>1
    <3> HIDE DEF v
    <3> QED BY <1>1, <2>3, <3>1, <3>2, OneChat
  <2> QED BY <1>2, <2>1, <2>4
<1>5. CASE h \notin w.requested \cup w.pending
  <2>1. /\ p \in Worlds /\ p.state = u.state /\ p.before = u.before
        /\ p.byRequest = u.byRequest /\ p.requested = u.requested
        /\ p.pending = w.pending \cup {h} /\ p.posted = u.posted /\ p.readers = u.readers
    BY <1>2 DEF Worlds
  <2> HIDE DEF p
  <2>2. w.pending \in SUBSET Chats
    BY <1>1 DEF Worlds
  <2>3. /\ v \in Worlds /\ v.posted
        /\ v.state = p.state /\ v.before = p.before /\ v.byRequest = p.byRequest
        /\ v.requested = p.requested /\ v.pending = p.pending /\ v.readers = p.readers
    BY <1>1, <1>2, <1>3, <1>5, <2>1, <2>2, Posting
  <2> HIDE DEF v
  <2>4. EntryGood(v, h, asked, free \ {h})
    BY <1>1, <1>2, <1>5, <2>1, <2>3 DEF ChatGood, EntryGood
  <2>5. ChatGood(v, h, asked, free \ {h})
    BY <1>1, <1>2, <2>1, <2>3, <2>4 DEF ChatGood
  <2>6. Good(v, asked, free \ {h})
    <3>1. Beside(w, v, h)
      BY <1>2, <2>1, <2>3 DEF Beside
    <3> QED BY <1>1, <2>3, <2>5, <3>1, OneChat
  <2> QED BY <1>2, <2>1, <2>3, <2>6 DEF v
<1> QED BY <1>4, <1>5

LEMMA NoStateType == NoState \in States
  BY HistoriesAssumption DEF NoState, States

(* A chat that nothing is kept of is as good as a new one.                 *)
LEMMA CheckEmpty ==
  ASSUME NEW w, NEW asked, NEW free, Good(w, asked, free), NEW h \in Chats
  PROVE  LET v == checkEmptyState(w, h)
         IN  /\ Good(v, asked, free) /\ v.requested = w.requested
             /\ v.pending = w.pending /\ v.before = w.before
<1> DEFINE v == checkEmptyState(w, h)
           st == w.state[h]
<1>1. w \in Worlds /\ (w.pending /= {} => w.posted) /\ \A g \in Chats : ChatGood(w, g, asked, free)
  BY DEF Good
<1>2. CASE v = w
  BY <1>2
<1>3. CASE v /= w
  <2>1. /\ st.postponed = {} /\ ~st.postponedRequestEntry /\ st.sent = {}
        /\ st.willReadTill = 0 /\ st.sentReadTill = 0
        /\ v = [w EXCEPT !.state[h] = NoState]
    BY <1>3 DEF checkEmptyState
  <2> HIDE DEF v
  <2>2. /\ v \in Worlds /\ v.state[h] = NoState
        /\ \A g \in Chats : g /= h => v.state[g] = w.state[g]
        /\ v.before = w.before /\ v.byRequest = w.byRequest
        /\ v.requested = w.requested /\ v.pending = w.pending
        /\ v.readers = w.readers /\ v.posted = w.posted
    BY <1>1, <2>1, PutGood, NoStateType
  <2>3. InUse(NoState) = InUse(st)
    BY <2>1 DEF InUse, Ids, NoState
  <2>4. RequestsGood(NoState)
    BY FS_EmptySet DEF RequestsGood, NoState
  <2>5. ReadsGood(NoState, w.before[h])
    BY DEF ReadsGood, NoState
  <2>6. EntryGood(v, h, asked, free)
    <3>1. EntryGood(w, h, asked, free)
      BY <1>1 DEF ChatGood
    <3>2. /\ NoState.sent = {} /\ ~NoState.postponedRequestEntry /\ NoState.sentReadTill = 0
          /\ ~postponeEntryRequest({})
      BY DEF NoState, postponeEntryRequest
    <3> QED BY <2>1, <2>2, <3>1, <3>2 DEF EntryGood
  <2>7. ChatGood(v, h, asked, free)
    BY <1>1, <2>2, <2>3, <2>4, <2>5, <2>6 DEF ChatGood
  <2>8. Good(v, asked, free)
    <3>1. Beside(w, v, h)
      BY <2>2 DEF Beside
    <3> QED BY <1>1, <2>2, <2>7, <3>1, OneChat
  <2> QED BY <2>2, <2>8 DEF v
<1> QED BY <1>2, <1>3

(* A request that is not a read is sent, or postponed.                     *)
LEMMA SendRequest ==
  ASSUME NEW w, NEW asked, NEW free, Good(w, asked, free), NEW h \in Chats,
         NEW type \in {"History", "Delete", "Send"}, NEW answers \in BOOLEAN
  PROVE  LET v == sendRequest(w, h, type, 0, answers)
         IN  /\ Good(v, asked, free)
             /\ \A r \in w.state[h].sent : r.type /= "History" => r \in v.state[h].sent
<1> DEFINE v == sendRequest(w, h, type, 0, answers)
           st == w.state[h]
           id == Fresh(InUse(st))
           q == [id |-> id, type |-> type, till |-> 0, answers |-> answers]
           sent == st.sent \cup {q}
           back == IF postponeHistoryRequest(sent) THEN {r \in sent : r.type = "History"} ELSE {}
           t == v.state[h]
<1>1. w \in Worlds /\ (w.pending /= {} => w.posted) /\ \A g \in Chats : ChatGood(w, g, asked, free)
  BY DEF Good
<1>2. /\ st \in States /\ RequestsGood(st) /\ ReadsGood(st, w.before[h])
      /\ w.byRequest[h] = InUse(st) /\ EntryGood(w, h, asked, free)
  BY <1>1 DEF ChatGood, Worlds
<1>3. id \in Nat /\ id \notin InUse(st)
  BY <1>2, InUseFinite DEF RequestsGood
<1>4. /\ q \in Requests /\ q.id = id /\ q.type = type /\ q.type /= "ReadInbox"
  BY <1>3, HistoriesAssumption DEF Requests
<1> HIDE DEF id, q
<1>5. back = TakenBack(sent)
  BY DEF TakenBack
<1>6. back \subseteq sent /\ (\A r \in back : r.type = "History") /\ Ids(back) \subseteq Nat
  <2>1. sent \subseteq Requests
    BY <1>2, <1>4 DEF States
  <2> QED BY <2>1 DEF Ids, Requests
<1>7. /\ v \in Worlds
      /\ t \in States /\ t.exists /\ t.willReadTill = st.willReadTill
      /\ t.sentReadTill = st.sentReadTill /\ t.sentReadDone = st.sentReadDone
      /\ \A g \in Chats : g /= h => v.state[g] = w.state[g] /\ v.byRequest[g] = w.byRequest[g]
      /\ v.byRequest[h] = w.byRequest[h] \cup {id}
      /\ v.before = w.before /\ v.requested = w.requested /\ v.pending = w.pending
      /\ v.readers = w.readers /\ v.posted = w.posted
      /\ \/ /\ type = "History" /\ postponeHistoryRequest(st.sent)
            /\ t.sent = st.sent /\ t.postponed = st.postponed \cup {id}
            /\ t.postponedRequestEntry = st.postponedRequestEntry
         \/ /\ ~(type = "History" /\ postponeHistoryRequest(st.sent))
            /\ t.sent = sent \ back /\ t.postponed = st.postponed \cup Ids(back)
            /\ t.postponedRequestEntry <=>
                 st.postponedRequestEntry \/ (postponeEntryRequest(sent) /\ h \in w.requested)
  <2> DEFINE x == IF type = "History" /\ postponeHistoryRequest(st.sent)
                    THEN [st EXCEPT !.exists = TRUE, !.postponed = @ \cup {id}]
                    ELSE [st EXCEPT !.exists = TRUE, !.sent = sent \ back,
                                    !.postponed = @ \cup Ids(back),
                                    !.postponedRequestEntry =
                                       @ \/ (postponeEntryRequest(sent) /\ h \in w.requested)]
  <2>1. v = [w EXCEPT !.byRequest[h] = @ \cup {id}, !.state[h] = x]
    BY DEF sendRequest, id, q
  <2>2. /\ x \in States /\ x.exists /\ x.willReadTill = st.willReadTill
        /\ x.sentReadTill = st.sentReadTill /\ x.sentReadDone = st.sentReadDone
        /\ \/ /\ type = "History" /\ postponeHistoryRequest(st.sent)
              /\ x.sent = st.sent /\ x.postponed = st.postponed \cup {id}
              /\ x.postponedRequestEntry = st.postponedRequestEntry
           \/ /\ ~(type = "History" /\ postponeHistoryRequest(st.sent))
              /\ x.sent = sent \ back /\ x.postponed = st.postponed \cup Ids(back)
              /\ x.postponedRequestEntry <=>
                   st.postponedRequestEntry \/ (postponeEntryRequest(sent) /\ h \in w.requested)
    <3> HIDE DEF back
    <3>1. CASE type = "History" /\ postponeHistoryRequest(st.sent)
      BY <1>2, <1>3, <3>1 DEF States
    <3>2. CASE ~(type = "History" /\ postponeHistoryRequest(st.sent))
      <4>1. x = [st EXCEPT !.exists = TRUE, !.sent = sent \ back,
                           !.postponed = @ \cup Ids(back),
                           !.postponedRequestEntry =
                              @ \/ (postponeEntryRequest(sent) /\ h \in w.requested)]
        BY <3>2
      <4>2. sent \ back \in SUBSET Requests /\ st.postponed \cup Ids(back) \in SUBSET Nat
        BY <1>2, <1>4, <1>6 DEF States
      <4> HIDE DEF x, sent
      <4> QED BY <1>2, <3>2, <4>1, <4>2 DEF States
    <3> QED BY <3>1, <3>2
  <2> HIDE DEF x, v
  <2>3. v = [state |-> [w.state EXCEPT ![h] = x], before |-> w.before,
             byRequest |-> [w.byRequest EXCEPT ![h] = @ \cup {id}], requested |-> w.requested,
             pending |-> w.pending, readers |-> w.readers, posted |-> w.posted,
             timer |-> w.timer, told |-> w.told]
    <3> DEFINE ids == w.byRequest[h] \cup {id}
    <3>1. v = [w EXCEPT !.byRequest[h] = ids, !.state[h] = x]
      BY <2>1
    <3>2. [w.byRequest EXCEPT ![h] = @ \cup {id}] = [w.byRequest EXCEPT ![h] = ids]
      OBVIOUS
    <3> HIDE DEF ids
    <3>3. [w EXCEPT !.byRequest[h] = ids, !.state[h] = x] =
            [state |-> [w.state EXCEPT ![h] = x], before |-> w.before,
             byRequest |-> [w.byRequest EXCEPT ![h] = ids], requested |-> w.requested,
             pending |-> w.pending, readers |-> w.readers, posted |-> w.posted,
             timer |-> w.timer, told |-> w.told]
      BY <1>1, PutRequest, ZenonT(60)
    <3> QED BY <3>1, <3>2, <3>3
  <2>4. w.state \in [Chats -> States] /\ w.byRequest \in [Chats -> SUBSET Nat]
    BY <1>1 DEF Worlds
  <2>5. /\ [w.state EXCEPT ![h] = x] \in [Chats -> States]
        /\ [w.byRequest EXCEPT ![h] = @ \cup {id}] \in [Chats -> SUBSET Nat]
    BY <1>3, <2>2, <2>4
  <2>6. v \in Worlds
    BY <1>1, <2>3, <2>5 DEF Worlds
  <2>7. v.state[h] = x
    BY <2>3, <2>4
  <2>8. \A g \in Chats : g /= h => v.state[g] = w.state[g] /\ v.byRequest[g] = w.byRequest[g]
    BY <2>3, <2>4
  <2>9. v.byRequest[h] = w.byRequest[h] \cup {id}
    BY <2>3, <2>4
  <2> QED BY <2>2, <2>3, <2>6, <2>7, <2>8, <2>9
<1> HIDE DEF v, t
<1>8. /\ RequestsGood(t) /\ InUse(t) = InUse(st) \cup {id}
      /\ t.postponedRequestEntry <=> h \in w.requested /\ postponeEntryRequest(t.sent)
      /\ t.sent \subseteq sent /\ \A r \in st.sent : r.type /= "History" => r \in t.sent
  <2>1. CASE type = "History" /\ postponeHistoryRequest(st.sent)
    <3>1. /\ t.sent = st.sent /\ t.postponed = st.postponed \cup {id}
          /\ t.postponedRequestEntry = st.postponedRequestEntry
      BY <1>7, <2>1
    <3>2. IsFiniteSet(t.postponed)
      <4>1. IsFiniteSet(st.postponed)
        BY <1>2 DEF RequestsGood
      <4>2. IsFiniteSet(st.postponed \cup {id})
        BY <4>1, FS_AddElement
      <4> QED BY <3>1, <4>2
    <3>3. \A r \in st.sent : r.id /= id
      BY <1>3 DEF InUse, Ids
    <3>4. RequestsGood(t)
      BY <1>2, <1>7, <2>1, <3>1, <3>2, <3>3 DEF RequestsGood
    <3>5. InUse(t) = InUse(st) \cup {id}
      BY <3>1 DEF InUse
    <3>6. t.postponedRequestEntry <=> h \in w.requested /\ postponeEntryRequest(t.sent)
      BY <1>2, <3>1 DEF EntryGood
    <3> QED BY <3>1, <3>4, <3>5, <3>6
  <2>2. CASE ~(type = "History" /\ postponeHistoryRequest(st.sent))
    <3> HIDE DEF back
    <3>1. /\ t.sent = sent \ back /\ t.postponed = st.postponed \cup Ids(back)
          /\ t.postponedRequestEntry <=>
               st.postponedRequestEntry \/ (postponeEntryRequest(sent) /\ h \in w.requested)
      BY <1>7, <2>2
    <3>2. /\ RequestsGood(t) /\ InUse(t) = InUse(st) \cup {q.id}
          /\ postponeEntryRequest(t.sent) <=> postponeEntryRequest(sent)
      <4> HIDE DEF st
      <4> QED BY <1>2, <1>3, <1>4, <1>5, <1>7, <2>2, <3>1, RequestAdded
    <3>3. st.postponedRequestEntry => h \in w.requested /\ postponeEntryRequest(sent)
      BY <1>2 DEF EntryGood, postponeEntryRequest
    <3>4. t.sent \subseteq sent /\ \A r \in st.sent : r.type /= "History" => r \in t.sent
      BY <1>6, <3>1
    <3> QED BY <1>4, <3>1, <3>2, <3>3, <3>4
  <2> QED BY <2>1, <2>2
<1>9. ReadsGood(t, w.before[h])
  <2>1. \A r \in t.sent : r.type = "ReadInbox" => r \in st.sent
    BY <1>4, <1>8
  <2>2. \A r \in st.sent : r.type = "ReadInbox" => r \in t.sent
    BY <1>8
  <2> QED BY <1>2, <1>7, <2>1, <2>2 DEF ReadsGood
<1>10. EntryGood(v, h, asked, free)
  <2>1. v.state[h] = t
    BY DEF t
  <2>2. ~t.postponedRequestEntry => ~st.postponedRequestEntry
    BY <1>7
  <2> QED BY <1>2, <1>7, <1>8, <2>1, <2>2 DEF EntryGood
<1>11. ChatGood(v, h, asked, free)
  <2>1. v.state[h] = t
    BY DEF t
  <2> QED BY <1>2, <1>7, <1>8, <1>9, <1>10, <2>1 DEF ChatGood
<1>12. Good(v, asked, free)
  <2>1. Beside(w, v, h)
    BY <1>7 DEF Beside
  <2> QED BY <1>1, <1>7, <1>11, <2>1, OneChat
<1> QED BY <1>8, <1>12 DEF v, t

(* What is left of a chat when a request is over, and what goes on.        *)
Rest(st, id) == {r \in st.sent : r.id /= id}
Resumed(st, id) == IF postponeHistoryRequest(Rest(st, id)) THEN {} ELSE st.postponed
Going(st, id) ==
  Rest(st, id) \cup
    {[id |-> i, type |-> "History", till |-> 0, answers |-> TRUE] : i \in Resumed(st, id)}

LEMMA RequestOver ==
  ASSUME NEW st \in States, RequestsGood(st), NEW b, ReadsGood(st, b), NEW id,
         id \notin st.postponed,
         st.sentReadTill /= 0 /\ ~st.sentReadDone =>
           \E r \in st.sent : r.type = "ReadInbox" /\ r.till = st.sentReadTill /\ r.id /= id,
         NEW t \in States, t.sent = Going(st, id), t.postponed = st.postponed \ Resumed(st, id),
         ~t.exists => t = NoState, t.willReadTill = st.willReadTill,
         t.sentReadTill = st.sentReadTill, t.sentReadDone = st.sentReadDone
  PROVE  /\ RequestsGood(t) /\ InUse(t) = InUse(st) \ {id} /\ ReadsGood(t, b)
         /\ postponeEntryRequest(t.sent) => postponeEntryRequest(st.sent)
<1> DEFINE rest == Rest(st, id)
           resume == Resumed(st, id)
           again == {[id |-> i, type |-> "History", till |-> 0, answers |-> TRUE] : i \in resume}
<1>1. rest \subseteq st.sent /\ \A r : r \in rest <=> r \in st.sent /\ r.id /= id
  BY DEF Rest
<1>2. resume \subseteq st.postponed
  BY DEF Resumed
<1> DEFINE load(i) == [id |-> i, type |-> "History", till |-> 0, answers |-> TRUE]
<1>22. \A i : load(i).id = i /\ load(i).type = "History"
  OBVIOUS
<1>23. again = {load(i) : i \in resume}
  OBVIOUS
<1>3. \A r \in again : r.id \in resume /\ r.type = "History"
  <2> HIDE DEF load, again
  <2> QED BY <1>22, <1>23
<1>4. \A i \in resume : \E r \in again : r.id = i
  <2> HIDE DEF load, again, resume
  <2>1. \A i \in resume : load(i) \in again
    BY <1>23
  <2> QED BY <1>22, <2>1
<1>5. \A r, q \in again : r.id = q.id => r = q
  <2> HIDE DEF load, again, resume
  <2>1. \A r \in again : r = load(r.id)
    BY <1>22, <1>23
  <2> QED BY <2>1
<1>6. t.sent = rest \cup again
  BY DEF Going
<1>7. IsFiniteSet(t.sent)
  <2>1. IsFiniteSet(rest)
    BY <1>1, FS_Subset DEF RequestsGood
  <2>2. IsFiniteSet(resume)
    BY <1>2, FS_Subset DEF RequestsGood
  <2>3. IsFiniteSet(again)
    <3> DEFINE f == [i \in resume |-> load(i)]
    <3> HIDE DEF resume, load, again
    <3>1. f \in [resume -> again] /\ \A r \in again : \E i \in resume : f[i] = r
      BY <1>23
    <3> HIDE DEF f
    <3>2. f \in Surjection(resume, again)
      BY <3>1 DEF Surjection
    <3> QED BY <2>2, <3>2, FS_Surjection
  <2> HIDE DEF rest, again
  <2>4. IsFiniteSet(rest \cup again)
    BY <2>1, <2>3, FS_Union, ZenonT(60)
  <2> QED BY <1>6, <2>4
<1>8. IsFiniteSet(t.postponed)
  <2>1. t.postponed \in SUBSET st.postponed
    OBVIOUS
  <2> QED BY <2>1, FS_Subset DEF RequestsGood
<1>9. postponeHistoryRequest(rest) => resume = {} /\ postponeHistoryRequest(st.sent)
  BY <1>1 DEF Resumed, postponeHistoryRequest
<1>10. ~postponeHistoryRequest(rest) => t.postponed = {}
  BY DEF Resumed
<1> HIDE DEF rest, resume, again
<1>11. postponeHistoryRequest(t.sent) <=> postponeHistoryRequest(rest)
  BY <1>3, <1>6 DEF postponeHistoryRequest
<1>12. /\ \A r, q \in st.sent : r.id = q.id => r = q
       /\ \A r \in st.sent : r.id \notin st.postponed
       /\ postponeHistoryRequest(st.sent) => \A r \in st.sent : r.type /= "History"
  BY DEF RequestsGood
<1>13. \A r, q \in t.sent : r.id = q.id => r = q
  BY <1>1, <1>2, <1>3, <1>5, <1>6, <1>12
<1>14. t.postponed = st.postponed \ resume
  BY DEF resume
<1>15. \A r \in t.sent : r.id \notin t.postponed
  BY <1>1, <1>3, <1>6, <1>12, <1>14
<1>16. postponeHistoryRequest(t.sent) => \A r \in t.sent : r.type /= "History"
  <2>1. SUFFICES ASSUME postponeHistoryRequest(t.sent), NEW r \in t.sent PROVE r.type /= "History"
    OBVIOUS
  <2>2. resume = {} /\ postponeHistoryRequest(st.sent)
    BY <1>9, <1>11, <2>1
  <2>3. r \in rest
    BY <1>3, <1>6, <2>1, <2>2
  <2> QED BY <1>1, <1>12, <2>2, <2>3
<1>17. t.postponed /= {} => postponeHistoryRequest(t.sent)
  BY <1>10, <1>11
<1>18. RequestsGood(t)
  BY <1>7, <1>8, <1>13, <1>15, <1>16, <1>17 DEF RequestsGood
<1>19. InUse(t) = InUse(st) \ {id}
  <2>1. \A i : i \in InUse(t) <=> i \in t.postponed \/ \E r \in t.sent : i = r.id
    BY DEF InUse, Ids
  <2>2. \A i : i \in InUse(st) <=> i \in st.postponed \/ \E r \in st.sent : i = r.id
    BY DEF InUse, Ids
  <2>3. ASSUME NEW i, i \in InUse(t) PROVE i \in InUse(st) /\ i /= id
    <3>1. CASE i \in t.postponed
      BY <1>14, <2>2, <3>1
    <3>2. CASE \E r \in rest : i = r.id
      BY <1>1, <2>2, <3>2
    <3>3. CASE \E r \in again : i = r.id
      BY <1>2, <1>3, <2>2, <3>3
    <3> QED BY <1>6, <2>1, <2>3, <3>1, <3>2, <3>3
  <2>4. ASSUME NEW i, i \in InUse(st), i /= id PROVE i \in InUse(t)
    <3>1. CASE i \in st.postponed
      <4>1. CASE i \in resume
        BY <1>4, <1>6, <2>1, <4>1
      <4>2. CASE i \notin resume
        BY <1>14, <2>1, <3>1, <4>2
      <4> QED BY <4>1, <4>2
    <3>2. CASE \E r \in st.sent : i = r.id
      BY <1>1, <1>6, <2>1, <2>4, <3>2
    <3> QED BY <2>2, <2>4, <3>1, <3>2
  <2> QED BY <2>3, <2>4
<1>20. ReadsGood(t, b)
  <2>1. \A r \in t.sent : r.type = "ReadInbox" => r \in st.sent
    BY <1>1, <1>3, <1>6
  <2>2. \A r \in st.sent : r.id /= id => r \in t.sent
    BY <1>1, <1>6
  <2>3. t.sentReadTill /= 0 /\ ~t.sentReadDone =>
          \E r \in t.sent : r.type = "ReadInbox" /\ r.till = t.sentReadTill
    BY <2>2
  <2> QED BY <2>1, <2>3 DEF ReadsGood
<1>21. postponeEntryRequest(t.sent) => postponeEntryRequest(st.sent)
  BY <1>1, <1>3, <1>6 DEF postponeEntryRequest
<1> QED BY <1>18, <1>19, <1>20, <1>21

(* A request is over, and is not the read that is waited for.              *)
LEMMA FinishSent ==
  ASSUME NEW w \in Worlds, w.pending /= {} => w.posted, NEW h \in Chats,
         NEW asked, NEW free, \A g \in Chats : g /= h => ChatGood(w, g, asked, free),
         RequestsGood(w.state[h]), ReadsGood(w.state[h], w.before[h]),
         EntryGood(w, h, asked, free), NEW id, id \notin w.state[h].postponed,
         w.byRequest[h] \ {id} = InUse(w.state[h]) \ {id},
         w.state[h].sentReadTill /= 0 /\ ~w.state[h].sentReadDone =>
           \E r \in w.state[h].sent :
             r.type = "ReadInbox" /\ r.till = w.state[h].sentReadTill /\ r.id /= id
  PROVE  Good(finishSentRequest(w, h, id), asked, free)
<1> DEFINE st == w.state[h]
           sent == Going(st, id)
           resume == Resumed(st, id)
           entry == st.postponedRequestEntry /\ ~postponeEntryRequest(sent)
           t == [st EXCEPT !.sent = sent, !.postponed = @ \ resume,
                           !.postponedRequestEntry = @ /\ ~entry]
           u == [w EXCEPT !.byRequest[h] = @ \ {id}, !.state[h] = t]
           p == [u EXCEPT !.requested = @ \ {h}, !.pending = @ \cup {h}]
           v == IF entry THEN postponeRequestDialogEntries(p) ELSE u
<1>1. finishSentRequest(w, h, id) = checkEmptyState(v, h)
  BY DEF finishSentRequest, Going, Resumed, Rest
<1>2. st \in States /\ w.state \in [Chats -> States] /\ w.byRequest \in [Chats -> SUBSET Nat]
  BY DEF Worlds
<1>3. sent \in SUBSET Requests /\ resume \in SUBSET Nat
  <2>1. resume \in SUBSET Nat
    BY <1>2 DEF Resumed, States
  <2>2. \A i \in resume :
          [id |-> i, type |-> "History", till |-> 0, answers |-> TRUE] \in Requests
    BY <2>1, HistoriesAssumption DEF Requests
  <2>3. Rest(st, id) \subseteq Requests
    BY <1>2 DEF Rest, States
  <2> QED BY <2>1, <2>2, <2>3 DEF Going
<1>4. /\ t \in States /\ t.sent = sent /\ t.postponed = st.postponed \ resume
      /\ t.exists = st.exists /\ t.willReadTill = st.willReadTill
      /\ t.sentReadTill = st.sentReadTill /\ t.sentReadDone = st.sentReadDone
      /\ t.postponedRequestEntry <=> st.postponedRequestEntry /\ ~entry
  <2> HIDE DEF sent, resume, entry, st
  <2> QED BY <1>2, <1>3 DEF States
<1>5. ~t.exists => t = NoState
  <2>1. SUFFICES ASSUME ~st.exists PROVE t = NoState
    BY <1>4
  <2>2. st = NoState
    BY <2>1 DEF RequestsGood
  <2>3. NoState.sent = {} /\ NoState.postponed = {} /\ NoState.postponedRequestEntry = FALSE
    BY DEF NoState
  <2>4. sent = {} /\ resume = {}
    BY <2>2, <2>3 DEF Going, Resumed, Rest
  <2>5. t = [NoState EXCEPT !.sent = {}, !.postponed = {}, !.postponedRequestEntry = FALSE]
    BY <2>2, <2>3, <2>4
  <2> HIDE DEF t
  <2> QED BY <2>5 DEF NoState
<1> HIDE DEF t
<1>6. /\ RequestsGood(t) /\ InUse(t) = InUse(st) \ {id} /\ ReadsGood(t, w.before[h])
      /\ postponeEntryRequest(t.sent) => postponeEntryRequest(st.sent)
  <2> HIDE DEF st
  <2>1. RequestsGood(st) /\ ReadsGood(st, w.before[h]) /\ id \notin st.postponed
    BY DEF st
  <2>2. st.sentReadTill /= 0 /\ ~st.sentReadDone =>
          \E r \in st.sent : r.type = "ReadInbox" /\ r.till = st.sentReadTill /\ r.id /= id
    BY DEF st
  <2>3. t.sent = Going(st, id) /\ t.postponed = st.postponed \ Resumed(st, id)
    BY <1>4
  <2>4. /\ t.willReadTill = st.willReadTill /\ t.sentReadTill = st.sentReadTill
        /\ t.sentReadDone = st.sentReadDone /\ t \in States
    BY <1>4
  <2> DEFINE b == w.before[h]
  <2>5. ReadsGood(st, b)
    BY <2>1
  <2> HIDE DEF b
  <2>6. /\ RequestsGood(t) /\ InUse(t) = InUse(st) \ {id} /\ ReadsGood(t, b)
        /\ postponeEntryRequest(t.sent) => postponeEntryRequest(st.sent)
    BY <1>2, <1>5, <2>1, <2>2, <2>3, <2>4, <2>5, RequestOver
  <2> QED BY <2>6 DEF b
<1>7. u = [state |-> [w.state EXCEPT ![h] = t], before |-> w.before,
           byRequest |-> [w.byRequest EXCEPT ![h] = @ \ {id}], requested |-> w.requested,
           pending |-> w.pending, readers |-> w.readers, posted |-> w.posted,
           timer |-> w.timer, told |-> w.told]
  BY PutRequest, ZenonT(60)
<1> HIDE DEF u
<1>8. /\ [w.state EXCEPT ![h] = t] \in [Chats -> States]
      /\ [w.byRequest EXCEPT ![h] = @ \ {id}] \in [Chats -> SUBSET Nat]
  BY <1>2, <1>4
<1>9. u \in Worlds
  BY <1>7, <1>8 DEF Worlds
<1>10. /\ u.state[h] = t /\ u.byRequest[h] = w.byRequest[h] \ {id}
       /\ \A g \in Chats : g /= h => u.state[g] = w.state[g] /\ u.byRequest[g] = w.byRequest[g]
       /\ u.before = w.before /\ u.requested = w.requested /\ u.pending = w.pending
       /\ u.readers = w.readers /\ u.posted = w.posted
  BY <1>2, <1>7
<1>11. /\ v \in Worlds /\ (v.pending /= {} => v.posted)
       /\ v.state = u.state /\ v.byRequest = u.byRequest /\ v.before = u.before
       /\ v.readers = u.readers
       /\ IF entry THEN v.requested = w.requested \ {h} /\ v.pending = w.pending \cup {h}
                   ELSE v.requested = w.requested /\ v.pending = w.pending
  <2>1. CASE entry
    <3>1. /\ p \in Worlds /\ p.state = u.state /\ p.byRequest = u.byRequest
          /\ p.before = u.before /\ p.readers = u.readers /\ p.posted = u.posted
          /\ p.requested = w.requested \ {h} /\ p.pending = w.pending \cup {h}
      BY <1>9, <1>10 DEF Worlds
    <3> HIDE DEF p, entry
    <3>2. w.pending \in SUBSET Chats
      BY DEF Worlds
    <3>3. w.pending /= {} => p.posted
      BY <1>10, <3>1
    <3>4. v = postponeRequestDialogEntries(p)
      BY <2>1
    <3> HIDE DEF v
    <3>5. /\ v \in Worlds /\ v.posted
          /\ v.state = p.state /\ v.before = p.before /\ v.byRequest = p.byRequest
          /\ v.requested = p.requested /\ v.pending = p.pending /\ v.readers = p.readers
      BY <3>1, <3>2, <3>3, <3>4, Posting
    <3> QED BY <2>1, <3>1, <3>5
  <2>2. CASE ~entry
    BY <1>9, <1>10, <2>2
  <2> QED BY <2>1, <2>2
<1> HIDE DEF v, entry
<1>12. entry <=> st.postponedRequestEntry /\ ~postponeEntryRequest(t.sent)
  BY <1>4 DEF entry
<1>13. v.state[h] = t
  BY <1>10, <1>11
<1> HIDE DEF sent, resume
<1>14. EntryGood(v, h, asked, free)
  <2>1. st.postponedRequestEntry <=> h \in w.requested /\ postponeEntryRequest(st.sent)
    BY DEF EntryGood
  <2>2. CASE entry
    <3>1. h \notin v.requested /\ h \in v.pending /\ ~t.postponedRequestEntry
      BY <1>4, <1>11, <2>2
    <3> QED BY <1>13, <3>1 DEF EntryGood
  <2>3. CASE ~entry
    <3>1. v.requested = w.requested /\ v.pending = w.pending /\ v.readers = w.readers
      BY <1>10, <1>11, <2>3
    <3>2. t.postponedRequestEntry <=> st.postponedRequestEntry
      BY <1>4, <2>3
    <3>3. t.postponedRequestEntry <=> h \in v.requested /\ postponeEntryRequest(t.sent)
      BY <1>6, <1>12, <2>1, <2>3, <3>1, <3>2
    <3> QED BY <1>4, <1>13, <3>1, <3>2, <3>3 DEF EntryGood
  <2> QED BY <2>2, <2>3
<1>15. ChatGood(v, h, asked, free)
  <2>1. v.byRequest[h] = InUse(t)
    BY <1>6, <1>10, <1>11
  <2>2. v.before[h] = w.before[h]
    BY <1>10, <1>11
  <2> QED BY <1>6, <1>13, <1>14, <2>1, <2>2 DEF ChatGood
<1>16. Beside(w, v, h)
  <2>1. \A g \in Chats : g /= h =>
          /\ (g \in v.requested <=> g \in w.requested) /\ (g \in v.pending <=> g \in w.pending)
    BY <1>11
  <2> QED BY <1>10, <1>11, <2>1 DEF Beside
<1>17. Good(v, asked, free)
  BY <1>11, <1>15, <1>16, OneChat
<1> QED BY <1>1, <1>17, CheckEmpty

(* Something else is known of the reads of a chat.                         *)
LEMMA ReadsChanged ==
  ASSUME NEW w, NEW asked, NEW free, Good(w, asked, free), NEW h \in Chats, NEW t \in States,
         t.exists, t.sent = w.state[h].sent, t.postponed = w.state[h].postponed,
         t.postponedRequestEntry <=> w.state[h].postponedRequestEntry,
         ReadsGood(t, w.before[h]), NEW free2, free \ {h} \subseteq free2,
         t.sentReadTill /= 0 /\ t.sentReadDone /\ h \notin free2 =>
           h \in w.requested \cup w.pending
  PROVE  LET v == [w EXCEPT !.state[h] = t]
         IN  /\ Good(v, asked, free2) /\ v.state[h] = t /\ v.before = w.before
             /\ v.requested = w.requested /\ v.pending = w.pending
<1> DEFINE v == [w EXCEPT !.state[h] = t]
           st == w.state[h]
<1>1. w \in Worlds /\ (w.pending /= {} => w.posted) /\ \A g \in Chats : ChatGood(w, g, asked, free)
  BY DEF Good
<1>2. /\ v \in Worlds /\ v.state[h] = t
      /\ \A g \in Chats : g /= h => v.state[g] = w.state[g]
      /\ v.before = w.before /\ v.byRequest = w.byRequest
      /\ v.requested = w.requested /\ v.pending = w.pending
      /\ v.readers = w.readers /\ v.posted = w.posted
  BY <1>1, PutGood
<1> HIDE DEF v
<1>3. RequestsGood(st) /\ w.byRequest[h] = InUse(st) /\ EntryGood(w, h, asked, free)
  BY <1>1 DEF ChatGood
<1>4. RequestsGood(t) /\ InUse(t) = InUse(st)
  BY <1>3 DEF RequestsGood, InUse
<1>5. EntryGood(v, h, asked, free2)
  BY <1>2, <1>3 DEF EntryGood
<1>6. ChatGood(v, h, asked, free2)
  BY <1>2, <1>3, <1>4, <1>5 DEF ChatGood
<1>7. Beside(w, v, h)
  BY <1>2 DEF Beside
<1>8. Good(v, asked, free2)
  BY <1>1, <1>2, <1>6, <1>7, OneChat
<1> QED BY <1>2, <1>8 DEF v

(* A read that was put off is sent now.                                    *)
LEMMA SentNow ==
  ASSUME NEW w, NEW asked, NEW free, Good(w, asked, free), NEW h \in Chats,
         w.state[h].exists
  PROVE  Good(sendReadRequests([w EXCEPT !.state[h].willReadWhen = 0]), asked, free)
<1> DEFINE st == w.state[h]
           t == [st EXCEPT !.willReadWhen = 0]
           v == [w EXCEPT !.state[h] = t]
<1>1. w \in Worlds /\ st \in States /\ ReadsGood(st, w.before[h]) /\ EntryGood(w, h, asked, free)
  BY DEF Good, ChatGood, Worlds
<1>2. [w EXCEPT !.state[h].willReadWhen = 0] = v
  BY <1>1 DEF Worlds
<1>3. /\ t \in States /\ t.exists = st.exists /\ t.sent = st.sent /\ t.postponed = st.postponed
      /\ t.postponedRequestEntry = st.postponedRequestEntry
      /\ t.willReadTill = st.willReadTill /\ t.sentReadTill = st.sentReadTill
      /\ t.sentReadDone = st.sentReadDone
  <2>1. 0 \in 0 .. Timeout + 1
    BY HistoriesAssumption
  <2> HIDE DEF st
  <2> QED BY <1>1, <2>1 DEF States
<1> HIDE DEF t
<1>4. ReadsGood(t, w.before[h])
  BY <1>1, <1>3 DEF ReadsGood
<1>5. t.sentReadTill /= 0 /\ t.sentReadDone /\ h \notin free => h \in w.requested \cup w.pending
  BY <1>1, <1>3 DEF EntryGood
<1>6. Good(v, asked, free)
  BY <1>1, <1>3, <1>4, <1>5, ReadsChanged
<1> HIDE DEF v
<1> QED BY <1>2, <1>6, SendReads

LEMMA SendPending ==
  ASSUME NEW w, NEW asked, NEW free, Good(w, asked, free), NEW h \in Chats
  PROVE  Good(sendPendingReadInbox(w, h), asked, free)
<1>1. w.state[h].willReadTill /= 0 => w.state[h].exists
  BY DEF Good, ChatGood, RequestsGood, NoState
<1> QED BY <1>1, SentNow DEF sendPendingReadInbox

(* What will be read is after all that was sent.                           *)
LEMMA WillRead ==
  ASSUME NEW st \in States, NEW b \in 0 .. MaxTill + 1, ReadsGood(st, b),
         NEW n \in 0 .. MaxTill, n > st.sentReadTill,
         (n /= 0 /\ Larger(b, 1) <= n) \/ (st.willReadTill /= 0 /\ n > st.willReadTill),
         NEW t \in States, t.willReadTill = n, t.sentReadTill = st.sentReadTill,
         t.sentReadDone = st.sentReadDone, t.sent = st.sent
  PROVE  ReadsGood(t, b)
<1>1. st.sentReadTill \in Int /\ st.willReadTill \in Int /\ b \in Int /\ n \in Int
  BY DEF States
<1>2. \A r \in st.sent : r.till \in Int
  BY DEF States, Requests
<1>3. ASSUME NEW r \in st.sent, r.type = "ReadInbox"
      PROVE  r.till < n
  <2>1. r.till <= st.sentReadTill \/ r.till < b
    BY <1>3 DEF ReadsGood
  <2>2. CASE st.willReadTill /= 0 /\ n > st.willReadTill
    <3>1. r.till < st.willReadTill
      BY <1>3, <2>2 DEF ReadsGood
    <3> QED BY <1>1, <1>2, <2>2, <3>1
  <2>3. CASE n /= 0 /\ Larger(b, 1) <= n
    <3>1. b <= n
      BY <1>1, <2>3 DEF Larger
    <3> QED BY <1>1, <1>2, <2>1, <3>1
  <2> QED BY <2>2, <2>3
<1> QED BY <1>3 DEF ReadsGood

LEMMA ReadInboxTill ==
  ASSUME NEW w, NEW asked, NEW free, Good(w, asked, free), NEW h \in Chats,
         NEW force \in BOOLEAN, NEW x \in Looks
  PROVE  Good(readInboxTill(w, h, force, x), asked, free)
<1> DEFINE v == readInboxTill(w, h, force, x)
           needs == readInboxTillNeedsRequest(w, h, x.till)
           st == w.state[h]
           t == [st EXCEPT !.willReadTill = x.till, !.exists = TRUE]
           u == [w EXCEPT !.state[h] = t]
           now == sendReadRequests([u EXCEPT !.state[h].willReadWhen = 0])
           t2 == [t EXCEPT !.willReadWhen = Timeout + 1]
           u2 == [w EXCEPT !.state[h] = t2]
           putOff == [u EXCEPT !.state[h].willReadWhen = Timeout + 1,
                               !.timer = IF @ = 0 THEN Timeout + 1 ELSE @]
<1> SUFFICES Good(v, asked, free)
  OBVIOUS
<1>1. w \in Worlds /\ st \in States /\ ReadsGood(st, w.before[h]) /\ EntryGood(w, h, asked, free)
  BY DEF Good, ChatGood, Worlds
<1>2. x.till \in 0 .. MaxTill /\ w.before[h] \in 0 .. MaxTill + 1 /\ MaxTill \in Nat
  BY <1>1, HistoriesAssumption DEF Looks, Worlds
<1>3. \/ v = w
      \/ v = sendPendingReadInbox(w, h)
      \/ v = setInboxReadTill(w, h, x.till)
      \/ /\ ~(st.sentReadTill >= x.till)
         /\ ~(st.willReadTill >= x.till)
         /\ needs \/ st.willReadTill /= 0
         /\ \/ v = now
            \/ v = setInboxReadTill(now, h, x.till)
            \/ v = setInboxReadTill(u, h, x.till)
            \/ v = setInboxReadTill(putOff, h, x.till)
  <2> DEFINE pending == sendPendingReadInbox(w, h)
             read == setInboxReadTill(w, h, x.till)
             readNow == setInboxReadTill(now, h, x.till)
             waits == setInboxReadTill(u, h, x.till)
             starts == setInboxReadTill(putOff, h, x.till)
  <2>1. v = IF (~needs /\ ~force) \/ st.sentReadTill >= x.till THEN w
            ELSE IF st.willReadTill >= x.till THEN IF force THEN pending ELSE w
            ELSE IF ~needs /\ st.willReadTill = 0 THEN w
            ELSE IF ~force /\ x.same THEN read
            ELSE IF x.still = "unknown" THEN now
            ELSE IF force \/ x.still = "none" THEN readNow
            ELSE IF st.willReadWhen /= 0 THEN waits ELSE starts
    BY DEF readInboxTill
  <2> HIDE DEF v, needs, now, pending, read, readNow, waits, starts
  <2>2. \/ v = w \/ v = pending \/ v = read
        \/ /\ ~(st.sentReadTill >= x.till) /\ ~(st.willReadTill >= x.till)
           /\ needs \/ st.willReadTill /= 0
           /\ v = now \/ v = readNow \/ v = waits \/ v = starts
    BY <2>1
  <2> QED BY <2>2 DEF pending, read, readNow, waits, starts
<1> HIDE DEF v, now
<1>4. CASE v = w
  BY <1>4
<1>5. CASE v = sendPendingReadInbox(w, h)
  BY <1>5, SendPending
<1>6. CASE v = setInboxReadTill(w, h, x.till)
  BY <1>2, <1>6, ReadTill
<1>7. CASE /\ ~(st.sentReadTill >= x.till)
           /\ ~(st.willReadTill >= x.till)
           /\ needs \/ st.willReadTill /= 0
           /\ \/ v = now
              \/ v = setInboxReadTill(now, h, x.till)
              \/ v = setInboxReadTill(u, h, x.till)
              \/ v = setInboxReadTill(putOff, h, x.till)
  <2>1. x.till > st.sentReadTill /\ x.till > st.willReadTill
    <3>1. st.sentReadTill \in Int /\ st.willReadTill \in Int
      BY <1>1 DEF States
    <3> HIDE DEF st
    <3> QED BY <1>2, <1>7, <3>1
  <2>2. (x.till /= 0 /\ Larger(w.before[h], 1) <= x.till)
          \/ (st.willReadTill /= 0 /\ x.till > st.willReadTill)
    BY <1>7, <2>1 DEF readInboxTillNeedsRequest
  <2>3. /\ t \in States /\ t.exists /\ t.sent = st.sent /\ t.postponed = st.postponed
        /\ t.postponedRequestEntry = st.postponedRequestEntry
        /\ t.willReadTill = x.till /\ t.sentReadTill = st.sentReadTill
        /\ t.sentReadDone = st.sentReadDone
    <3> HIDE DEF st
    <3> QED BY <1>1, <1>2 DEF States
  <2> HIDE DEF t
  <2>4. /\ t2 \in States /\ t2.exists /\ t2.sent = st.sent /\ t2.postponed = st.postponed
        /\ t2.postponedRequestEntry = st.postponedRequestEntry
        /\ t2.willReadTill = x.till /\ t2.sentReadTill = st.sentReadTill
        /\ t2.sentReadDone = st.sentReadDone
    <3>1. Timeout + 1 \in 0 .. Timeout + 1
      BY HistoriesAssumption
    <3> HIDE DEF st
    <3> QED BY <2>3, <3>1 DEF States
  <2> HIDE DEF t2
  <2>5. ReadsGood(t, w.before[h]) /\ ReadsGood(t2, w.before[h])
    <3> HIDE DEF st
    <3> QED BY <1>1, <1>2, <2>1, <2>2, <2>3, <2>4, WillRead
  <2>6. t.sentReadTill /= 0 /\ t.sentReadDone /\ h \notin free => h \in w.requested \cup w.pending
    BY <1>1, <2>3 DEF EntryGood
  <2>7. t2.sentReadTill /= 0 /\ t2.sentReadDone /\ h \notin free => h \in w.requested \cup w.pending
    BY <1>1, <2>4 DEF EntryGood
  <2>8. Good(u, asked, free) /\ u.state[h] = t
    BY <2>3, <2>5, <2>6, ReadsChanged
  <2>9. Good(u2, asked, free)
    BY <2>4, <2>5, <2>7, ReadsChanged
  <2>10. Good(now, asked, free)
    <3> HIDE DEF u
    <3>1. u.state[h].exists
      BY <2>3, <2>8
    <3> QED BY <2>8, <3>1, SentNow DEF now
  <2>11. Good(putOff, asked, free)
    <3> DEFINE n == IF w.timer = 0 THEN Timeout + 1 ELSE w.timer
    <3>1. n \in 0 .. Timeout + 1
      BY <1>1, HistoriesAssumption DEF Worlds
    <3>2. u = [state |-> [w.state EXCEPT ![h] = t], before |-> w.before,
               byRequest |-> w.byRequest, requested |-> w.requested, pending |-> w.pending,
               readers |-> w.readers, posted |-> w.posted, timer |-> w.timer, told |-> w.told]
      BY <1>1, PutState
    <3>3. u2 = [state |-> [w.state EXCEPT ![h] = t2], before |-> w.before,
               byRequest |-> w.byRequest, requested |-> w.requested, pending |-> w.pending,
               readers |-> w.readers, posted |-> w.posted, timer |-> w.timer, told |-> w.told]
      BY <1>1, PutState
    <3>4. w.state \in [Chats -> States]
      BY <1>1 DEF Worlds
    <3>5. putOff = [u2 EXCEPT !.timer = n]
      <4> HIDE DEF u, n
      <4>1. u.timer = w.timer
        BY <3>2
      <4>2. putOff = [u EXCEPT !.state[h].willReadWhen = Timeout + 1, !.timer = n]
        BY <4>1 DEF n
      <4>3. u.state = [w.state EXCEPT ![h] = t] /\ u.state[h] = t
        BY <3>2, <3>4
      <4>4. [u.state EXCEPT ![h].willReadWhen = Timeout + 1] = [w.state EXCEPT ![h] = t2]
        BY <3>4, <4>3 DEF t2
      <4>5. [u EXCEPT !.state[h].willReadWhen = Timeout + 1] = u2
        <5> HIDE DEF u2
        <5> QED BY <3>2, <3>3, <4>4
      <4>6. putOff = [[u EXCEPT !.state[h].willReadWhen = Timeout + 1] EXCEPT !.timer = n]
        BY <3>2, <4>2
      <4> QED BY <4>5, <4>6
    <3> HIDE DEF u2, putOff, n
    <3>6. u2 \in Worlds
      BY <2>9 DEF Good
    <3>7. /\ putOff \in Worlds /\ putOff.state = u2.state /\ putOff.before = u2.before
          /\ putOff.byRequest = u2.byRequest /\ putOff.requested = u2.requested
      BY <3>1, <3>5, <3>6 DEF Worlds
    <3>8. /\ putOff.pending = u2.pending /\ putOff.readers = u2.readers
          /\ putOff.posted = u2.posted
      BY <3>5, <3>6 DEF Worlds
    <3> QED BY <2>9, <3>7, <3>8 DEF Good, ChatGood, EntryGood
  <2> HIDE DEF u, putOff
  <2> QED BY <1>2, <1>7, <2>8, <2>10, <2>11, ReadTill
<1> QED BY <1>3, <1>4, <1>5, <1>6, <1>7

(* An entry comes to a chat that waits for it no more, if it is taken.     *)
LEMMA EntryTaken ==
  ASSUME NEW w, NEW asked, Good(w, asked, {}), NEW h \in Chats,
         ~w.state[h].postponedRequestEntry
  PROVE  LET u == [w EXCEPT !.requested = @ \ {h}, !.pending = @ \ {h}, !.readers = @ \ {h}]
         IN  /\ Good(u, asked \ {h}, {h})
             /\ ~w.state[h].exists => Good(u, asked \ {h}, {})
<1> DEFINE u == [w EXCEPT !.requested = @ \ {h}, !.pending = @ \ {h}, !.readers = @ \ {h}]
           rest == asked \ {h}
<1>1. w \in Worlds /\ (w.pending /= {} => w.posted) /\ \A g \in Chats : ChatGood(w, g, asked, {})
  BY DEF Good
<1>2. /\ u.state = w.state /\ u.before = w.before /\ u.byRequest = w.byRequest
      /\ u.requested = w.requested \ {h} /\ u.pending = w.pending \ {h}
      /\ u.readers = w.readers \ {h} /\ u.posted = w.posted
  BY <1>1 DEF Worlds
<1>3. u \in Worlds
  BY <1>1 DEF Worlds
<1> HIDE DEF u, rest
<1>4. Beside(w, u, h)
  BY <1>2 DEF Beside
<1>5. asked \ {h} \subseteq rest
  BY DEF rest
<1>6. ASSUME NEW free, h \in free \/ w.state[h].sentReadTill = 0, {} \ {h} \subseteq free
      PROVE  Good(u, rest, free)
  <2>1. EntryGood(w, h, asked, {})
    BY <1>1 DEF ChatGood
  <2>2. EntryGood(u, h, rest, free)
    BY <1>2, <1>6, <2>1 DEF EntryGood
  <2>3. ChatGood(u, h, rest, free)
    BY <1>1, <1>2, <2>2 DEF ChatGood
  <2> QED BY <1>1, <1>2, <1>3, <1>4, <1>5, <1>6, <2>3, OneChat
<1>7. Good(u, rest, {h})
  <2> DEFINE free == {h}
  <2>1. h \in free /\ {} \ {h} \subseteq free
    OBVIOUS
  <2> HIDE DEF free
  <2>2. Good(u, rest, free)
    BY <1>6, <2>1
  <2> QED BY <2>2 DEF free
<1>8. ~w.state[h].exists => Good(u, rest, {})
  <2>1. SUFFICES ASSUME ~w.state[h].exists PROVE Good(u, rest, {})
    OBVIOUS
  <2>2. w.state[h].sentReadTill = 0
    BY <1>1, <2>1 DEF ChatGood, RequestsGood, NoState
  <2> DEFINE free == {}
  <2>3. {} \ {h} \subseteq free
    OBVIOUS
  <2> HIDE DEF free
  <2>4. Good(u, rest, free)
    BY <1>6, <2>2, <2>3
  <2> QED BY <2>4 DEF free
<1> QED BY <1>7, <1>8 DEF u, rest

(* A read the server has told of is over.                                  *)
LEMMA ReadDone ==
  ASSUME NEW w, NEW asked, NEW h \in Chats, Good(w, asked, {h}), w.state[h].sentReadTill /= 0
  PROVE  Good(setInboxReadTill([w EXCEPT !.state[h].sentReadTill = 0], h,
                               w.state[h].sentReadTill), asked, {})
<1> DEFINE st == w.state[h]
           n == st.sentReadTill
           t == [st EXCEPT !.sentReadTill = 0]
           v == setInboxReadTill(w, h, n)
           u == [v EXCEPT !.state[h] = t]
           r == setInboxReadTill([w EXCEPT !.state[h].sentReadTill = 0], h, n)
<1>1. w \in Worlds /\ st \in States /\ RequestsGood(st) /\ ReadsGood(st, w.before[h])
  BY DEF Good, ChatGood, Worlds
<1>2. n \in 0 .. MaxTill
  BY <1>1 DEF States
<1>3. /\ t \in States /\ t.exists = st.exists /\ t.sent = st.sent /\ t.postponed = st.postponed
      /\ t.postponedRequestEntry = st.postponedRequestEntry
      /\ t.willReadTill = st.willReadTill /\ t.sentReadTill = 0
  <2>1. 0 \in 0 .. MaxTill
    BY HistoriesAssumption
  <2> HIDE DEF st
  <2> QED BY <1>1, <2>1 DEF States
<1>4. st.exists
  BY <1>1 DEF RequestsGood, NoState
<1> HIDE DEF t
<1>5. r = u
  <2> DEFINE b == Larger(w.before[h], n + 1)
  <2>1. [w EXCEPT !.state[h].sentReadTill = 0] = [w EXCEPT !.state[h] = t]
    BY <1>1 DEF Worlds, t
  <2> DEFINE p == [w EXCEPT !.state[h] = t]
  <2> HIDE DEF n
  <2>2. p = [state |-> [w.state EXCEPT ![h] = t], before |-> w.before,
             byRequest |-> w.byRequest, requested |-> w.requested, pending |-> w.pending,
             readers |-> w.readers, posted |-> w.posted, timer |-> w.timer, told |-> w.told]
    BY <1>1, PutState
  <2> HIDE DEF p
  <2>3. r = [p EXCEPT !.before[h] = Larger(@, n + 1)]
    BY <2>1 DEF setInboxReadTill, p
  <2>4. r = [p EXCEPT !.before[h] = b]
    BY <2>2, <2>3
  <2> HIDE DEF b, r
  <2>5. r = [state |-> [w.state EXCEPT ![h] = t], before |-> [w.before EXCEPT ![h] = b],
             byRequest |-> w.byRequest, requested |-> w.requested, pending |-> w.pending,
             readers |-> w.readers, posted |-> w.posted, timer |-> w.timer, told |-> w.told]
    BY <2>2, <2>4
  <2>6. v = [w EXCEPT !.before[h] = b]
    BY DEF setInboxReadTill, b
  <2> HIDE DEF v
  <2>7. v = [state |-> w.state, before |-> [w.before EXCEPT ![h] = b],
             byRequest |-> w.byRequest, requested |-> w.requested, pending |-> w.pending,
             readers |-> w.readers, posted |-> w.posted, timer |-> w.timer, told |-> w.told]
    BY <1>1, <2>6 DEF Worlds
  <2>8. u = [state |-> [w.state EXCEPT ![h] = t], before |-> [w.before EXCEPT ![h] = b],
             byRequest |-> w.byRequest, requested |-> w.requested, pending |-> w.pending,
             readers |-> w.readers, posted |-> w.posted, timer |-> w.timer, told |-> w.told]
    BY <2>7
  <2> QED BY <2>5, <2>8
<1>6. Good(v, asked, {h}) /\ v.state = w.state /\ v.before[h] > n
  BY <1>2, ReadTill
<1>7. v \in Worlds /\ v.before[h] \in Int
  BY <1>6 DEF Good, Worlds
<1> HIDE DEF v
<1>8. ReadsGood(t, v.before[h])
  <2>1. \A q \in st.sent : q.till \in Int
    BY <1>1 DEF States, Requests
  <2>2. \A q \in st.sent : q.type = "ReadInbox" => q.till <= n
    BY <1>1 DEF ReadsGood
  <2>3. \A q \in st.sent : q.type = "ReadInbox" => q.till < v.before[h]
    BY <1>2, <1>6, <1>7, <2>1, <2>2
  <2>4. t.willReadTill /= 0 => t.willReadTill > 0
    BY <1>3 DEF States
  <2>5. t.willReadTill /= 0 => \A q \in st.sent : q.type = "ReadInbox" => q.till < t.willReadTill
    BY <1>1, <1>3 DEF ReadsGood
  <2> HIDE DEF st
  <2> QED BY <1>3, <2>3, <2>4, <2>5 DEF ReadsGood
<1>9. Good(u, asked, {})
  <2> DEFINE free == {}
             freed == {h}
  <2>1. freed \ {h} \subseteq free
    OBVIOUS
  <2>2. Good(v, asked, freed)
    BY <1>6
  <2> HIDE DEF free, freed
  <2>3. t.exists /\ t.sent = v.state[h].sent /\ t.postponed = v.state[h].postponed
    BY <1>3, <1>4, <1>6
  <2>4. t.postponedRequestEntry <=> v.state[h].postponedRequestEntry
    BY <1>3, <1>6
  <2>5. Good(u, asked, free)
    BY <1>3, <1>8, <2>1, <2>2, <2>3, <2>4, ReadsChanged
  <2> QED BY <2>5 DEF free
<1> QED BY <1>5, <1>9

(* An entry comes: a chat waits for it no more, or for the next one.       *)
LEMMA EntryApplied ==
  ASSUME NEW w, NEW asked, Good(w, asked, {}), NEW h \in Chats, NEW x \in Looks
  PROVE  Good(dialogEntryApplied(w, h, x), asked \ {h}, {})
<1> DEFINE u == [w EXCEPT !.requested = @ \ {h}, !.pending = @ \ {h}, !.readers = @ \ {h}]
           v == IF h \in w.readers THEN readInboxTill(u, h, FALSE, x) ELSE u
           sent == v.state[h].sentReadTill
           done == checkEmptyState(setInboxReadTill([v EXCEPT !.state[h].sentReadTill = 0],
                                                    h, sent), h)
           r == dialogEntryApplied(w, h, x)
           rest == asked \ {h}
           st == w.state[h]
<1>1. w \in Worlds /\ (w.pending /= {} => w.posted) /\ \A g \in Chats : ChatGood(w, g, asked, {})
  BY DEF Good
<1>2. r = CASE st.exists /\ st.postponedRequestEntry -> w
            [] st.exists /\ ~st.postponedRequestEntry /\ sent /= 0 /\ v.state[h].sentReadDone -> done
            [] OTHER -> v
  BY DEF dialogEntryApplied
<1>3. ~st.exists => ~st.postponedRequestEntry
  BY <1>1 DEF ChatGood, RequestsGood, NoState
<1> HIDE DEF r
<1>4. CASE st.postponedRequestEntry
  <2>1. r = w
    <3> HIDE DEF v, sent, done, st
    <3> QED BY <1>2, <1>3, <1>4
  <2>2. ASSUME NEW g \in Chats
        PROVE  ChatGood(w, g, rest, {})
    <3>1. ChatGood(w, g, asked, {})
      BY <1>1
    <3>2. EntryGood(w, g, rest, {})
      BY <1>4, <3>1 DEF ChatGood, EntryGood
    <3> QED BY <3>1, <3>2 DEF ChatGood
  <2>3. Good(w, rest, {})
    BY <1>1, <2>2 DEF Good
  <2> QED BY <2>1, <2>3 DEF r
<1>5. CASE ~st.postponedRequestEntry
  <2>1. Good(u, rest, {h}) /\ (~st.exists => Good(u, rest, {}))
    BY <1>1, <1>5, EntryTaken
  <2>2. Good(v, rest, {h}) /\ (~st.exists => Good(v, rest, {}))
    <3> DEFINE free == {h}
               none == {}
    <3> HIDE DEF u, rest, free, none
    <3>1. Good(u, rest, free) /\ (~st.exists => Good(u, rest, none))
      BY <2>1 DEF free, none
    <3>2. Good(v, rest, free) /\ (~st.exists => Good(v, rest, none))
      BY <3>1, ReadInboxTill
    <3> QED BY <3>2 DEF free, none
  <2> HIDE DEF v, rest
  <2>3. CASE ~st.exists
    <3>1. r = v
      <4> HIDE DEF sent, done, st
      <4> QED BY <1>2, <2>3
    <3> QED BY <2>2, <2>3, <3>1 DEF r, rest
  <2>4. CASE st.exists /\ sent /= 0 /\ v.state[h].sentReadDone
    <3>1. r = done
      <4> HIDE DEF sent, done, st
      <4> QED BY <1>2, <1>5, <2>4
    <3> DEFINE n == setInboxReadTill([v EXCEPT !.state[h].sentReadTill = 0], h, sent)
    <3>2. Good(n, rest, {})
      BY <2>2, <2>4, ReadDone
    <3> HIDE DEF n
    <3>3. Good(checkEmptyState(n, h), rest, {})
      BY <3>2, CheckEmpty
    <3> QED BY <3>1, <3>3 DEF r, rest, n
  <2>5. CASE st.exists /\ ~(sent /= 0 /\ v.state[h].sentReadDone)
    <3>1. r = v
      <4> HIDE DEF sent, done, st
      <4> QED BY <1>2, <1>5, <2>5
    <3>2. v \in Worlds /\ (v.pending /= {} => v.posted)
            /\ \A g \in Chats : ChatGood(v, g, rest, {h})
      BY <2>2 DEF Good
    <3>3. ASSUME NEW g \in Chats
          PROVE  ChatGood(v, g, rest, {})
      <4>1. EntryGood(v, g, rest, {})
        BY <2>5, <3>2 DEF ChatGood, EntryGood
      <4> QED BY <3>2, <4>1 DEF ChatGood
    <3>4. Good(v, rest, {})
      BY <3>2, <3>3 DEF Good
    <3> QED BY <3>1, <3>4 DEF r, rest
  <2> QED BY <2>3, <2>4, <2>5
<1> QED BY <1>4, <1>5

-----------------------------------------------------------------------------
(* The answer to a request of entries.                                     *)

(* Two ways to fold that go on alike come to the same.                     *)
LEMMA FoldSame ==
  ASSUME NEW S, IsFiniteSet(S), NEW f, NEW g, f[{}] = g[{}],
         \A s \in SUBSET S : s /= {} =>
           \E x \in s : f[s \ {x}] = g[s \ {x}] => f[s] = g[s]
  PROVE  f[S] = g[S]
<1> DEFINE P == {s \in SUBSET S : f[s] = g[s]}
<1>1. {} \in P
  OBVIOUS
<1>2. ASSUME NEW s \in SUBSET S, s /= {}
      PROVE  \E x \in s : s \ {x} \in P => s \in P
  <2>1. PICK x \in s : f[s \ {x}] = g[s \ {x}] => f[s] = g[s]
    BY <1>2
  <2> QED BY <2>1
<1> HIDE DEF P
<1>3. SUBSET S \subseteq P
  BY <1>1, <1>2, SetInduction
<1> QED BY <1>3 DEF P

(* Entries are taken one after another: those that are left still come.    *)
Takes(G, who) ==
  \A h \in who : \A u \in Worlds : \A asked \in SUBSET Chats :
    Good(u, asked, {}) => Good(G[h][u], asked \ {h}, {})

LEMMA FoldGood ==
  ASSUME NEW who \in SUBSET Chats, NEW A \in SUBSET Chats, NEW w, Good(w, A \cup who, {}),
         NEW G, Takes(G, who)
  PROVE  \E f : IsFold(f, who, G, w) /\ \A s \in SUBSET who : Good(f[s], A \cup (who \ s), {})
<1> DEFINE W == [s \in SUBSET who |-> {u \in Worlds : Good(u, A \cup (who \ s), {})}]
<1>1. IsFiniteSet(who)
  BY FS_Subset, HistoriesAssumption
<1>2. w \in W[{}]
  <2>1. w \in Worlds
    BY DEF Good
  <2>2. A \cup (who \ {}) = A \cup who
    OBVIOUS
  <2> QED BY <2>1, <2>2
<1>3. ASSUME NEW s \in SUBSET who, s /= {}
      PROVE  \A u \in W[s \ {CHOOSE y \in s : TRUE}] : G[CHOOSE y \in s : TRUE][u] \in W[s]
  <2> DEFINE x == CHOOSE y \in s : TRUE
             before == A \cup (who \ (s \ {x}))
             after == A \cup (who \ s)
  <2>1. x \in s
    BY <1>3
  <2> HIDE DEF x
  <2>2. before \in SUBSET Chats /\ before \ {x} \subseteq after
    BY <2>1
  <2>3. ASSUME NEW u \in W[s \ {x}]
        PROVE  G[x][u] \in W[s]
    <3>1. u \in Worlds /\ Good(u, before, {})
      BY <2>1
    <3> HIDE DEF before, after
    <3>2. Good(G[x][u], before \ {x}, {})
      BY <2>1, <2>2, <3>1 DEF Takes
    <3> DEFINE v == G[x][u]
               less == before \ {x}
    <3> HIDE DEF v, less
    <3>3. Good(v, less, {}) /\ less \subseteq after
      BY <2>2, <3>2 DEF v, less
    <3>4. Good(v, after, {})
      BY <3>3, Weaker
    <3>5. v \in Worlds
      BY <3>4 DEF Good
    <3> QED BY <3>4, <3>5 DEF v, after
  <2> QED BY <2>3 DEF x
<1>4. \A s \in SUBSET who : \A u \in W[s] : Good(u, A \cup (who \ s), {})
  OBVIOUS
<1> HIDE DEF W
<1>5. Leads(who, G, W)
  BY <1>3 DEF Leads
<1>6. PICK f : IsFold(f, who, G, w) /\ \A s \in SUBSET who : f[s] \in W[s]
  BY <1>1, <1>2, <1>5, FoldWithin
<1> QED BY <1>4, <1>6

(* The entries of an answer are taken, and other reads with them.          *)
Loaded(u, h, upTo, x) == dialogEntryApplied(setInboxReadTill(u, h, upTo), h, x)

LEMMA LoadedGood ==
  ASSUME NEW w, NEW asked, Good(w, asked, {}), NEW h \in Chats, NEW x \in Looks,
         NEW upTo \in 0 .. MaxTill
  PROVE  Good(Loaded(w, h, upTo, x), asked \ {h}, {})
<1> DEFINE v == setInboxReadTill(w, h, upTo)
           none == {}
<1> HIDE DEF none, v
<1>1. Good(w, asked, none)
  BY DEF none
<1>2. Good(v, asked, none)
  BY <1>1, ReadTill DEF v
<1>3. Good(v, asked, {})
  BY <1>2 DEF none
<1>4. Good(dialogEntryApplied(v, h, x), asked \ {h}, {})
  BY <1>3, EntryApplied
<1> QED BY <1>4 DEF Loaded, v

LEMMA LoadFold ==
  ASSUME NEW who \in SUBSET Chats, NEW A \in SUBSET Chats, NEW w, Good(w, A \cup who, {}),
         NEW x \in Looks, NEW upTo \in 0 .. MaxTill
  PROVE  Good(FoldSet(LAMBDA h, u : dialogEntryApplied(setInboxReadTill(u, h, upTo), h, x),
                      w, who), A, {})
<1> DEFINE G == [h \in Chats |-> [u \in Worlds |->
                   dialogEntryApplied(setInboxReadTill(u, h, upTo), h, x)]]
           IsIt(f) == f = [s \in SUBSET who |-> IF s = {} THEN w
             ELSE dialogEntryApplied(
                    setInboxReadTill(f[s \ {CHOOSE y \in s : TRUE}], CHOOSE y \in s : TRUE, upTo),
                    CHOOSE y \in s : TRUE, x)]
<1>1. Takes(G, who)
  BY LoadedGood DEF Takes, Loaded
<1>2. PICK f : IsFold(f, who, G, w) /\ \A s \in SUBSET who : Good(f[s], A \cup (who \ s), {})
  <2> HIDE DEF G
  <2> QED BY <1>1, FoldGood
<1>3. ASSUME NEW s \in SUBSET who, s /= {}
      PROVE  LET y == CHOOSE z \in s : TRUE
             IN  /\ y \in s /\ f[s] = G[y][f[s \ {y}]]
                 /\ G[y][f[s \ {y}]] =
                      dialogEntryApplied(setInboxReadTill(f[s \ {y}], y, upTo), y, x)
  <2> DEFINE y == CHOOSE z \in s : TRUE
  <2>1. y \in s
    BY <1>3
  <2>2. f[s] = G[y][f[s \ {y}]]
    <3> HIDE DEF G
    <3> QED BY <1>2, <1>3 DEF IsFold
  <2> HIDE DEF y
  <2>3. f[s \ {y}] \in Worlds
    BY <1>2, <2>1 DEF Good
  <2>4. G[y][f[s \ {y}]] = dialogEntryApplied(setInboxReadTill(f[s \ {y}], y, upTo), y, x)
    BY <2>1, <2>3
  <2> HIDE DEF G
  <2> QED BY <2>1, <2>2, <2>4 DEF y
<1> HIDE DEF G
<1>4. f[{}] = w
  BY <1>2 DEF IsFold
<1>5. IsIt(f)
  <2>1. f = [s \in SUBSET who |-> f[s]]
    BY <1>2 DEF IsFold
  <2>2. \A s \in SUBSET who :
          f[s] = IF s = {} THEN w
             ELSE dialogEntryApplied(
                    setInboxReadTill(f[s \ {CHOOSE y \in s : TRUE}], CHOOSE y \in s : TRUE, upTo),
                    CHOOSE y \in s : TRUE, x)
    BY <1>3, <1>4
  <2> QED BY <2>1, <2>2
<1> DEFINE c == CHOOSE g : IsIt(g)
<1>6. IsIt(c)
  BY <1>5
<1>7. FoldSet(LAMBDA h, u : dialogEntryApplied(setInboxReadTill(u, h, upTo), h, x), w, who) = c[who]
  BY DEF FoldSet, MapThenFoldSet
<1> HIDE DEF c
<1>8. c[{}] = f[{}]
  BY <1>4, <1>6
<1>9. ASSUME NEW s \in SUBSET who, s /= {}
      PROVE  \E y \in s : f[s \ {y}] = c[s \ {y}] => f[s] = c[s]
  <2> DEFINE y == CHOOSE z \in s : TRUE
  <2>1. c[s] = dialogEntryApplied(setInboxReadTill(c[s \ {y}], y, upTo), y, x)
    BY <1>6, <1>9
  <2>2. y \in s /\ f[s] = dialogEntryApplied(setInboxReadTill(f[s \ {y}], y, upTo), y, x)
    BY <1>3, <1>9
  <2> HIDE DEF y
  <2> QED BY <2>1, <2>2
<1>10. IsFiniteSet(who)
  BY FS_Subset, HistoriesAssumption
<1>11. f[who] = c[who]
  BY <1>8, <1>9, <1>10, FoldSame
<1>12. Good(f[who], A \cup (who \ who), {}) /\ A \cup (who \ who) = A
  BY <1>2
<1> QED BY <1>7, <1>11, <1>12

(* Entries that did not come are not waited for either.                    *)
LEMMA FinalFold ==
  ASSUME NEW who \in SUBSET Chats, NEW A \in SUBSET Chats, NEW w, Good(w, A \cup who, {}),
         NEW x \in Looks
  PROVE  Good(FoldSet(LAMBDA h, u : dialogEntryApplied(u, h, x),
                      w, who), A, {})
<1> DEFINE G == [h \in Chats |-> [u \in Worlds |->
                   dialogEntryApplied(u, h, x)]]
           IsIt(f) == f = [s \in SUBSET who |-> IF s = {} THEN w
             ELSE dialogEntryApplied(
                    f[s \ {CHOOSE y \in s : TRUE}],
                    CHOOSE y \in s : TRUE, x)]
<1>1. Takes(G, who)
  BY EntryApplied DEF Takes
<1>2. PICK f : IsFold(f, who, G, w) /\ \A s \in SUBSET who : Good(f[s], A \cup (who \ s), {})
  <2> HIDE DEF G
  <2> QED BY <1>1, FoldGood
<1>3. ASSUME NEW s \in SUBSET who, s /= {}
      PROVE  LET y == CHOOSE z \in s : TRUE
             IN  /\ y \in s /\ f[s] = G[y][f[s \ {y}]]
                 /\ G[y][f[s \ {y}]] =
                      dialogEntryApplied(f[s \ {y}], y, x)
  <2> DEFINE y == CHOOSE z \in s : TRUE
  <2>1. y \in s
    BY <1>3
  <2>2. f[s] = G[y][f[s \ {y}]]
    <3> HIDE DEF G
    <3> QED BY <1>2, <1>3 DEF IsFold
  <2> HIDE DEF y
  <2>3. f[s \ {y}] \in Worlds
    BY <1>2, <2>1 DEF Good
  <2>4. G[y][f[s \ {y}]] = dialogEntryApplied(f[s \ {y}], y, x)
    BY <2>1, <2>3
  <2> HIDE DEF G
  <2> QED BY <2>1, <2>2, <2>4 DEF y
<1> HIDE DEF G
<1>4. f[{}] = w
  BY <1>2 DEF IsFold
<1>5. IsIt(f)
  <2>1. f = [s \in SUBSET who |-> f[s]]
    BY <1>2 DEF IsFold
  <2>2. \A s \in SUBSET who :
          f[s] = IF s = {} THEN w
             ELSE dialogEntryApplied(
                    f[s \ {CHOOSE y \in s : TRUE}],
                    CHOOSE y \in s : TRUE, x)
    BY <1>3, <1>4
  <2> QED BY <2>1, <2>2
<1> DEFINE c == CHOOSE g : IsIt(g)
<1>6. IsIt(c)
  BY <1>5
<1>7. FoldSet(LAMBDA h, u : dialogEntryApplied(u, h, x), w, who) = c[who]
  BY DEF FoldSet, MapThenFoldSet
<1> HIDE DEF c
<1>8. c[{}] = f[{}]
  BY <1>4, <1>6
<1>9. ASSUME NEW s \in SUBSET who, s /= {}
      PROVE  \E y \in s : f[s \ {y}] = c[s \ {y}] => f[s] = c[s]
  <2> DEFINE y == CHOOSE z \in s : TRUE
  <2>1. c[s] = dialogEntryApplied(c[s \ {y}], y, x)
    BY <1>6, <1>9
  <2>2. y \in s /\ f[s] = dialogEntryApplied(f[s \ {y}], y, x)
    BY <1>3, <1>9
  <2> HIDE DEF y
  <2> QED BY <2>1, <2>2
<1>10. IsFiniteSet(who)
  BY FS_Subset, HistoriesAssumption
<1>11. f[who] = c[who]
  BY <1>8, <1>9, <1>10, FoldSame
<1>12. Good(f[who], A \cup (who \ who), {}) /\ A \cup (who \ who) = A
  BY <1>2
<1> QED BY <1>7, <1>11, <1>12

-----------------------------------------------------------------------------
(* Steps.                                                                  *)

(* The client becomes what a handler makes of it.                          *)
LEMMA Became ==
  ASSUME NEW w \in Worlds, Become(w)
  PROVE  World' = w
<1>1. /\ state' = w.state /\ inboxReadBefore' = w.before /\ historyByRequest' = w.byRequest
      /\ dialogRequests' = w.requested /\ dialogRequestsPending' = w.pending
      /\ readers' = w.readers /\ posted' = w.posted /\ timer' = w.timer /\ told' = w.told
  BY DEF Become
<1> QED BY <1>1, Fields DEF World

(* A handler that makes a good world of the client, and sends no entries.  *)
LEMMA Handled ==
  ASSUME IInv, NEW w, Good(w, Asked(entries), {}), Become(w), entries' = entries,
         left' \in [asks : [Chats -> Nat], channels : Nat]
  PROVE  IInv'
<1>1. World' = w
  BY Became DEF Good
<1>2. Asked(entries)' = Asked(entries)
  BY DEF Asked
<1>3. Good(World', Asked(entries)', {})
  BY <1>1, <1>2
<1>4. Good(World, Asked(entries), {})'
  BY <1>3 DEF Good, ChatGood, EntryGood
<1> QED BY <1>4 DEF IInv

(* Something is asked of a chat.                                           *)
LEMMA Asking ==
  ASSUME IInv, NEW h \in Chats, Ask(h)
  PROVE  entries' = entries /\ left' \in [asks : [Chats -> Nat], channels : Nat]
<1>1. left \in [asks : [Chats -> Nat], channels : Nat] /\ left.asks[h] > 0
        /\ left' = [left EXCEPT !.asks[h] = @ - 1]
  BY DEF Ask, IInv
<1>2. left.asks[h] - 1 \in Nat
  BY <1>1
<1> QED BY <1>1, <1>2 DEF Ask

(* Of nothing, nothing is wanted.                                          *)
LEMMA Initially == Init => IInv
<1> SUFFICES ASSUME Init PROVE IInv
  OBVIOUS
<1>1. World \in Worlds
  <2>1. state \in [Chats -> States]
    BY NoStateType DEF Init
  <2>2. inboxReadBefore \in [Chats -> 0 .. MaxTill + 1] /\ told \in [Chats -> 0 .. MaxTill]
    BY HistoriesAssumption DEF Init
  <2>3. timer \in 0 .. Timeout + 1
    BY HistoriesAssumption DEF Init
  <2> QED BY <2>1, <2>2, <2>3 DEF Init, World, Worlds
<1>2. ASSUME NEW h \in Chats
      PROVE  ChatGood(World, h, Asked(entries), {})
  <2>1. /\ World.state[h] = NoState /\ World.byRequest[h] = {} /\ World.requested = {}
        /\ World.pending = {} /\ World.readers = {}
    BY DEF World, Init
  <2>2. RequestsGood(NoState)
    BY FS_EmptySet DEF RequestsGood, NoState
  <2>3. ReadsGood(NoState, World.before[h])
    BY DEF ReadsGood, NoState
  <2>4. InUse(NoState) = {}
    BY DEF InUse, Ids, NoState
  <2>5. EntryGood(World, h, Asked(entries), {})
    BY <2>1 DEF EntryGood, NoState
  <2> QED BY <2>1, <2>2, <2>3, <2>4, <2>5 DEF ChatGood
<1>3. World.pending = {}
  BY DEF World, Init
<1>4. left \in [asks : [Chats -> Nat], channels : Nat]
  BY HistoriesAssumption DEF Init
<1>5. entries = {} /\ IsFiniteSet({})
  BY FS_EmptySet DEF Init
<1> QED BY <1>1, <1>2, <1>3, <1>4, <1>5 DEF IInv, Good

(* The entry of a chat is asked for, by a read that waits for it too.      *)
LEMMA EntryAsked ==
  ASSUME NEW w, NEW asked, NEW h \in Chats, NEW reads \in BOOLEAN,
         Good(w, asked, {}) \/ Good(w, asked, {h})
  PROVE  LET v == requestDialogEntry(w, h, reads)
         IN  Good(v, asked, {}) /\ v.state = w.state /\ v.before = w.before
<1> DEFINE v == requestDialogEntry(w, h, reads)
           none == {}
<1>1. ASSUME NEW free, Good(w, asked, free), \A g \in free : g = h
      PROVE  Good(v, asked, none) /\ v.state = w.state /\ v.before = w.before
  <2> DEFINE less == free \ {h}
  <2>1. Good(v, asked, less) /\ v.state = w.state /\ v.before = w.before
    BY <1>1, RequestEntry
  <2>2. \A g \in Chats : g \in less => g \in none
    BY <1>1
  <2> HIDE DEF v, less, none
  <2> QED BY <2>1, <2>2, Weaker
<1>2. CASE Good(w, asked, {})
  <2> DEFINE free == {}
  <2>1. \A g \in free : g = h
    OBVIOUS
  <2> HIDE DEF free, v, none
  <2>2. Good(w, asked, free)
    BY <1>2 DEF free
  <2>3. Good(v, asked, none) /\ v.state = w.state /\ v.before = w.before
    BY <1>1, <2>1, <2>2
  <2> QED BY <2>3 DEF v, none
<1>3. CASE Good(w, asked, {h})
  <2> DEFINE free == {h}
  <2>1. \A g \in free : g = h
    OBVIOUS
  <2> HIDE DEF free, v, none
  <2>2. Good(w, asked, free)
    BY <1>3 DEF free
  <2>3. Good(v, asked, none) /\ v.state = w.state /\ v.before = w.before
    BY <1>1, <2>1, <2>2
  <2> QED BY <2>3 DEF v, none
<1> QED BY <1>2, <1>3

(* Messages are loaded, deleted or sent.                                   *)
LEMMA Requesting ==
  ASSUME IInv, NEW h \in Chats, NEW type \in {"History", "Delete", "Send"},
         Request(h, type)
  PROVE  IInv'
<1> DEFINE w == sendRequest(World, h, type, 0, TRUE)
           none == {}
<1>1. Ask(h) /\ Become(w)
  BY DEF Request
<1> HIDE DEF w, none
<1>2. Good(World, Asked(entries), none)
  BY DEF IInv, none
<1>3. Good(w, Asked(entries), none)
  BY <1>2, SendRequest DEF w
<1>4. Good(w, Asked(entries), {})
  BY <1>3 DEF none
<1> QED BY <1>1, <1>4, Asking, Handled

(* All messages of a channel are deleted.                                  *)
LEMMA DeletingChannel ==
  ASSUME IInv, NEW h \in Chats, DeleteChannel(h)
  PROVE  IInv'
<1> DEFINE w == sendRequest(World, h, "Delete", 0, FALSE)
           none == {}
<1>1. Become(w) /\ entries' = entries /\ left.channels > 0
        /\ left' = [left EXCEPT !.channels = @ - 1]
  BY DEF DeleteChannel
<1> HIDE DEF w, none
<1>2. Good(World, Asked(entries), none)
  BY DEF IInv, none
<1>3. Good(w, Asked(entries), none)
  BY <1>2, SendRequest DEF w
<1>4. Good(w, Asked(entries), {})
  BY <1>3 DEF none
<1>5. left' \in [asks : [Chats -> Nat], channels : Nat]
  <2>1. left \in [asks : [Chats -> Nat], channels : Nat]
    BY DEF IInv
  <2>2. left.channels - 1 \in Nat
    BY <1>1, <2>1
  <2> QED BY <1>1, <2>1, <2>2
<1> QED BY <1>1, <1>4, <1>5, Handled

(* A request is not wanted any more.                                       *)
LEMMA Cancelling ==
  ASSUME IInv, NEW h \in Chats, NEW id, Cancel(h, id)
  PROVE  IInv'
<1> DEFINE st == state[h]
           t == [st EXCEPT !.postponed = @ \ {id}]
           w == [World EXCEPT !.state[h] = t]
           v == finishSentRequest(w, h, id)
           none == {}
           asked == Asked(entries)
<1>1. /\ id \in historyByRequest[h] /\ \A r \in state[h].sent : r.id = id => r.type = "History"
      /\ Become(cancelRequest(World, h, id)) /\ entries' = entries /\ left' = left
  BY DEF Cancel
<1>2. World \in Worlds /\ (World.pending /= {} => World.posted)
        /\ \A g \in Chats : ChatGood(World, g, asked, none)
  BY DEF IInv, Good
<1>3. World.state[h] = st /\ World.byRequest[h] = historyByRequest[h]
        /\ World.before[h] = inboxReadBefore[h]
  BY DEF World
<1>4. st \in States /\ RequestsGood(st) /\ ReadsGood(st, World.before[h])
        /\ EntryGood(World, h, asked, none) /\ World.byRequest[h] = InUse(st)
  <2>1. World.state[h] \in States
    BY <1>2 DEF Worlds
  <2> QED BY <1>2, <1>3, <2>1 DEF ChatGood
<1>5. cancelRequest(World, h, id) = v
  <2>1. [World EXCEPT !.state[h].postponed = @ \ {id}] = w
    BY <1>3, <1>2 DEF Worlds
  <2> QED BY <2>1 DEF cancelRequest
<1>6. /\ t \in States /\ t.exists = st.exists /\ t.sent = st.sent
      /\ t.postponed = st.postponed \ {id}
      /\ t.postponedRequestEntry = st.postponedRequestEntry
      /\ t.willReadTill = st.willReadTill /\ t.sentReadTill = st.sentReadTill
      /\ t.sentReadDone = st.sentReadDone
  <2> HIDE DEF st
  <2> QED BY <1>4 DEF States
<1>7. ~t.exists => t = NoState
  <2>1. SUFFICES ASSUME ~st.exists PROVE t = NoState
    BY <1>6
  <2>2. st = NoState
    BY <1>4, <2>1 DEF RequestsGood
  <2>3. t = [NoState EXCEPT !.postponed = {}]
    BY <2>2 DEF NoState
  <2> HIDE DEF t
  <2> QED BY <2>3 DEF NoState
<1> HIDE DEF t, v, st, none, asked
<1>8. /\ w \in Worlds /\ w.state[h] = t
      /\ \A g \in Chats : g /= h => w.state[g] = World.state[g]
      /\ w.before = World.before /\ w.byRequest = World.byRequest
      /\ w.requested = World.requested /\ w.pending = World.pending
      /\ w.readers = World.readers /\ w.posted = World.posted
  BY <1>2, <1>6, PutGood
<1> HIDE DEF w
<1>9. RequestsGood(t)
  <2>1. IsFiniteSet(st.postponed) /\ t.postponed \in SUBSET st.postponed
    BY <1>4, <1>6 DEF RequestsGood
  <2>2. IsFiniteSet(t.postponed)
    BY <2>1, FS_Subset
  <2> QED BY <1>4, <1>6, <1>7, <2>1, <2>2 DEF RequestsGood
<1>10. ReadsGood(t, w.before[h])
  BY <1>4, <1>6, <1>8 DEF ReadsGood
<1>11. EntryGood(w, h, asked, none)
  BY <1>3, <1>4, <1>6, <1>8 DEF EntryGood
<1>12. \A g \in Chats : g /= h => ChatGood(w, g, asked, none)
  BY <1>2, <1>8 DEF ChatGood, EntryGood
<1>13. w.byRequest[h] \ {id} = InUse(t) \ {id}
  BY <1>4, <1>6, <1>8 DEF InUse
<1>14. t.sentReadTill /= 0 /\ ~t.sentReadDone =>
         \E r \in t.sent : r.type = "ReadInbox" /\ r.till = t.sentReadTill /\ r.id /= id
  <2>1. \A r \in st.sent : r.type = "ReadInbox" => r.id /= id
    BY <1>1 DEF st
  <2> QED BY <1>4, <1>6, <2>1 DEF ReadsGood
<1>15. id \notin t.postponed
  BY <1>6
<1>16. w.pending /= {} => w.posted
  BY <1>2, <1>8
<1>17. Good(v, asked, none)
  BY <1>8, <1>9, <1>10, <1>11, <1>12, <1>13, <1>14, <1>15, <1>16, FinishSent DEF v
<1>18. Good(v, Asked(entries), {})
  BY <1>17 DEF asked, none
<1>19. Become(v)
  BY <1>1, <1>5
<1>20. left' \in [asks : [Chats -> Nat], channels : Nat]
  BY <1>1 DEF IInv
<1> QED BY <1>1, <1>18, <1>19, <1>20, Handled

(* A chat is read: up to the last message, or when its entry comes.        *)
LEMMA Reading ==
  ASSUME IInv, NEW h \in Chats, ReadInbox(h)
  PROVE  IInv'
<1> DEFINE none == {}
           asked == Asked(entries)
<1> HIDE DEF none, asked
<1>1. Good(World, asked, none)
  BY DEF IInv, asked, none
<1>2. Ask(h)
  BY DEF ReadInbox
<1>3. ASSUME NEW x \in Looks, Become(readInboxTill(World, h, FALSE, x))
      PROVE  IInv'
  <2> DEFINE w == readInboxTill(World, h, FALSE, x)
  <2> HIDE DEF w
  <2>1. Good(w, asked, none)
    BY <1>1, ReadInboxTill DEF w
  <2>2. Good(w, Asked(entries), {}) /\ Become(w)
    BY <1>3, <2>1 DEF asked, none, w
  <2> QED BY <1>2, <2>2, Asking, Handled
<1>4. CASE Become(requestDialogEntry(World, h, TRUE))
  <2> DEFINE w == requestDialogEntry(World, h, TRUE)
  <2> HIDE DEF w
  <2>1. Good(World, asked, {})
    BY <1>1 DEF none
  <2>2. Good(w, asked, {})
    BY <2>1, EntryAsked DEF w
  <2>3. Good(w, Asked(entries), {}) /\ Become(w)
    BY <1>4, <2>2 DEF asked, w
  <2> QED BY <1>2, <2>3, Asking, Handled
<1> QED BY <1>3, <1>4 DEF ReadInbox

(* A new message comes to a chat that is looked at.                        *)
LEMMA Arriving ==
  ASSUME IInv, NEW h \in Chats, NewMessage(h)
  PROVE  IInv'
<1> DEFINE none == {}
           asked == Asked(entries)
<1> HIDE DEF none, asked
<1>1. Good(World, asked, none)
  BY DEF IInv, asked, none
<1>2. Ask(h)
  BY DEF NewMessage
<1>3. PICK x \in Looks : Become(readInboxTill(World, h, TRUE, x))
  BY DEF NewMessage
<1> DEFINE w == readInboxTill(World, h, TRUE, x)
<1> HIDE DEF w
<1>4. Good(w, asked, none)
  BY <1>1, ReadInboxTill DEF w
<1>5. Good(w, Asked(entries), {}) /\ Become(w)
  BY <1>3, <1>4 DEF asked, none, w
<1> QED BY <1>2, <1>5, Asking, Handled

(* A read that was put off is sent.                                        *)
LEMMA SendingPending ==
  ASSUME IInv, NEW h \in Chats, SendPendingReadInbox(h)
  PROVE  IInv'
<1> DEFINE none == {}
           asked == Asked(entries)
           w == sendPendingReadInbox(World, h)
<1>1. Become(w) /\ entries' = entries /\ left' = left
  BY DEF SendPendingReadInbox
<1> HIDE DEF none, asked, w
<1>2. Good(World, asked, none)
  BY DEF IInv, asked, none
<1>3. Good(w, asked, none)
  BY <1>2, SendPending DEF w
<1>4. Good(w, Asked(entries), {})
  BY <1>3 DEF asked, none
<1>5. left' \in [asks : [Chats -> Nat], channels : Nat]
  BY <1>1 DEF IInv
<1> QED BY <1>1, <1>4, <1>5, Handled

(* Something needs the entry of a chat.                                    *)
LEMMA RequestingEntry ==
  ASSUME IInv, NEW h \in Chats, RequestDialogEntry(h)
  PROVE  IInv'
<1> DEFINE asked == Asked(entries)
           w == requestDialogEntry(World, h, FALSE)
<1>1. Become(w) /\ Ask(h)
  BY DEF RequestDialogEntry
<1> HIDE DEF asked, w
<1>2. Good(World, asked, {})
  BY DEF IInv, asked
<1>3. Good(w, asked, {})
  BY <1>2, EntryAsked DEF w
<1>4. Good(w, Asked(entries), {})
  BY <1>3 DEF asked
<1> QED BY <1>1, <1>4, Asking, Handled

(* Messages are read by another client.                                    *)
LEMMA ReadElsewhere ==
  ASSUME IInv, NEW h \in Chats, NEW upTo \in 1 .. MaxTill, ServerRead(h, upTo)
  PROVE  IInv'
<1> DEFINE none == {}
           asked == Asked(entries)
<1>1. Ask(h)
  BY DEF ServerRead
<1>2. PICK refresh \in BOOLEAN : Become(setInboxReadTill(
         IF refresh THEN requestDialogEntry(World, h, FALSE) ELSE World, h, upTo))
  BY DEF ServerRead
<1> DEFINE u == IF refresh THEN requestDialogEntry(World, h, FALSE) ELSE World
           w == setInboxReadTill(u, h, upTo)
<1>3. Become(w)
  BY <1>2
<1> HIDE DEF asked, w
<1>4. Good(World, asked, {})
  BY DEF IInv, asked
<1>5. Good(requestDialogEntry(World, h, FALSE), asked, {})
  BY <1>4, EntryAsked
<1>6. Good(u, asked, {})
  BY <1>4, <1>5
<1> HIDE DEF u, none
<1>7. Good(u, asked, none) /\ upTo \in 0 .. MaxTill
  BY <1>6 DEF none
<1>8. Good(w, asked, none)
  BY <1>7, ReadTill DEF w
<1>9. Good(w, Asked(entries), {})
  BY <1>8 DEF asked, none
<1> QED BY <1>1, <1>3, <1>9, Asking, Handled

(* The entry of a chat comes with the list of chats.                       *)
LEMMA Loading ==
  ASSUME IInv, NEW h \in Chats, DialogLoaded(h)
  PROVE  IInv'
<1>1. Ask(h)
  BY DEF DialogLoaded
<1>2. PICK upTo \in 0 .. MaxTill, x \in Looks : Become(Loaded(World, h, upTo, x))
  BY DEF DialogLoaded, Loaded
<1> DEFINE asked == Asked(entries)
           less == asked \ {h}
           none == {}
           w == Loaded(World, h, upTo, x)
<1> HIDE DEF asked, w
<1>3. Good(World, asked, {})
  BY DEF IInv, asked
<1>4. Good(w, less, {})
  BY <1>3, LoadedGood DEF w
<1>5. \A g \in Chats : (g \in less => g \in asked) /\ (g \in none => g \in none)
  OBVIOUS
<1> HIDE DEF less, none
<1>6. Good(w, less, none)
  BY <1>4 DEF none
<1>7. Good(w, asked, none)
  BY <1>5, <1>6, Weaker
<1>8. Good(w, Asked(entries), {}) /\ Become(w)
  BY <1>2, <1>7 DEF asked, none, w
<1> QED BY <1>1, <1>8, Asking, Handled

(* The timer of reads is due.                                              *)
LEMMA TimerDue ==
  ASSUME IInv, ReadTimer
  PROVE  IInv'
<1> DEFINE none == {}
           asked == Asked(entries)
           u == [World EXCEPT !.timer = 0]
           w == sendReadRequests(u)
<1>1. Become(w) /\ entries' = entries /\ left' = left
  BY DEF ReadTimer
<1> HIDE DEF none, asked, w
<1>2. Good(World, asked, none)
  BY DEF IInv, asked, none
<1>3. World \in Worlds
  BY <1>2 DEF Good
<1>4. /\ u \in Worlds /\ u.state = World.state /\ u.before = World.before
      /\ u.byRequest = World.byRequest /\ u.requested = World.requested
  BY <1>3, HistoriesAssumption DEF Worlds
<1>5. u.pending = World.pending /\ u.readers = World.readers /\ u.posted = World.posted
  BY <1>3 DEF Worlds
<1> HIDE DEF u
<1>6. Good(u, asked, none)
  BY <1>2, <1>4, <1>5 DEF Good, ChatGood, EntryGood
<1>7. Good(w, asked, none)
  BY <1>6, SendReads DEF w
<1>8. Good(w, Asked(entries), {})
  BY <1>7 DEF asked, none
<1>9. left' \in [asks : [Chats -> Nat], channels : Nat]
  BY <1>1 DEF IInv
<1> QED BY <1>1, <1>8, <1>9, Handled

(* Time goes on.                                                           *)
LEMMA Ticking ==
  ASSUME IInv, Tick
  PROVE  IInv'
<1> DEFINE asked == Asked(entries)
           w == World
           v == World'
<1>1. /\ timer' = Less(timer)
      /\ state' = [h \in Chats |-> [state[h] EXCEPT !.willReadWhen = Less(@)]]
      /\ entries' = entries /\ left' = left
      /\ inboxReadBefore' = inboxReadBefore /\ historyByRequest' = historyByRequest
      /\ dialogRequests' = dialogRequests /\ dialogRequestsPending' = dialogRequestsPending
      /\ readers' = readers /\ posted' = posted /\ told' = told
  BY DEF Tick
<1>2. /\ v.state = state' /\ v.before = w.before /\ v.byRequest = w.byRequest
      /\ v.requested = w.requested /\ v.pending = w.pending /\ v.readers = w.readers
      /\ v.posted = w.posted /\ v.told = w.told /\ v.timer = Less(w.timer)
      /\ w.state = state
  BY <1>1 DEF World
<1>3. Become(v)
  BY DEF Become, World
<1>4. v = [state |-> v.state, before |-> w.before, byRequest |-> w.byRequest,
           requested |-> w.requested, pending |-> w.pending, readers |-> w.readers,
           posted |-> w.posted, timer |-> v.timer, told |-> w.told]
  BY <1>1 DEF World
<1>5. Good(w, asked, {})
  BY DEF IInv
<1> HIDE DEF asked, w, v
<1>6. w \in Worlds /\ (w.pending /= {} => w.posted) /\ \A h \in Chats : ChatGood(w, h, asked, {})
  BY <1>5 DEF Good
<1>7. ASSUME NEW h \in Chats
      PROVE  /\ v.state[h] \in States /\ v.state[h].exists = w.state[h].exists
             /\ v.state[h].sent = w.state[h].sent
             /\ v.state[h].postponed = w.state[h].postponed
             /\ v.state[h].postponedRequestEntry = w.state[h].postponedRequestEntry
             /\ v.state[h].willReadTill = w.state[h].willReadTill
             /\ v.state[h].sentReadTill = w.state[h].sentReadTill
             /\ v.state[h].sentReadDone = w.state[h].sentReadDone
             /\ w.state[h] = NoState => v.state[h] = NoState
  <2> DEFINE st == w.state[h]
             t == v.state[h]
             n == Less(st.willReadWhen)
  <2>1. st \in States
    BY <1>6 DEF Worlds
  <2>2. t = [st EXCEPT !.willReadWhen = n]
    BY <1>1, <1>2
  <2>3. n \in 0 .. Timeout + 1 /\ (st.willReadWhen = 0 => n = 0)
    <3>1. st.willReadWhen \in 0 .. Timeout + 1
      BY <2>1 DEF States
    <3> QED BY <3>1, HistoriesAssumption DEF Less
  <2> HIDE DEF st, t, n
  <2>4. /\ t \in States /\ t.exists = st.exists /\ t.sent = st.sent
        /\ t.postponed = st.postponed /\ t.postponedRequestEntry = st.postponedRequestEntry
        /\ t.willReadTill = st.willReadTill /\ t.sentReadTill = st.sentReadTill
        /\ t.sentReadDone = st.sentReadDone
    BY <2>1, <2>2, <2>3 DEF States
  <2>5. st = NoState => t = NoState
    <3>1. SUFFICES ASSUME st = NoState PROVE t = NoState
      OBVIOUS
    <3>2. n = 0
      BY <2>3, <3>1 DEF NoState
    <3> QED BY <2>2, <3>1, <3>2 DEF NoState
  <2> QED BY <2>4, <2>5 DEF st, t
<1>8. v \in Worlds
  <2>1. v.state \in [Chats -> States]
    <3>1. v.state = [h \in Chats |-> v.state[h]]
      BY <1>1, <1>2
    <3> QED BY <1>7, <3>1
  <2>2. v.timer \in 0 .. Timeout + 1
    <3>1. w.timer \in 0 .. Timeout + 1
      BY <1>6 DEF Worlds
    <3> QED BY <1>2, <3>1, HistoriesAssumption DEF Less
  <2> QED BY <1>4, <1>6, <2>1, <2>2 DEF Worlds
<1>9. ASSUME NEW h \in Chats
      PROVE  ChatGood(v, h, asked, {})
  <2>1. ChatGood(w, h, asked, {})
    BY <1>6
  <2>2. RequestsGood(v.state[h])
    BY <1>7, <2>1 DEF ChatGood, RequestsGood
  <2>3. ReadsGood(v.state[h], v.before[h])
    BY <1>2, <1>7, <2>1 DEF ChatGood, ReadsGood
  <2>4. v.byRequest[h] = InUse(v.state[h])
    BY <1>2, <1>7, <2>1 DEF ChatGood, InUse
  <2>5. EntryGood(v, h, asked, {})
    BY <1>2, <1>7, <2>1 DEF ChatGood, EntryGood
  <2> QED BY <2>2, <2>3, <2>4, <2>5 DEF ChatGood
<1>10. Good(v, Asked(entries), {})
  BY <1>2, <1>6, <1>8, <1>9 DEF Good, asked
<1>11. left' \in [asks : [Chats -> Nat], channels : Nat]
  BY <1>1 DEF IInv
<1> QED BY <1>1, <1>3, <1>10, <1>11, Handled

(* A handler that changes the entries on their way, too.                   *)
LEMMA HandledEntries ==
  ASSUME IInv, NEW w, Good(w, Asked(entries'), {}), Become(w),
         entries' \subseteq [id : Nat, who : (SUBSET Chats) \ {{}}], IsFiniteSet(entries'),
         left' = left
  PROVE  IInv'
<1>1. World' = w
  BY Became DEF Good
<1>2. Good(World', Asked(entries'), {})
  BY <1>1
<1>3. Good(World, Asked(entries), {})'
  BY <1>2 DEF Good, ChatGood, EntryGood, Asked
<1>4. (left \in [asks : [Chats -> Nat], channels : Nat])'
  BY DEF IInv
<1> QED BY <1>3, <1>4 DEF IInv

(* The entries that are pending are asked for.                             *)
LEMMA SendingRequests ==
  ASSUME IInv, sendDialogRequests
  PROVE  IInv'
<1> DEFINE w == World
           later == {h \in w.pending : postponeEntryRequest(w.state[h].sent)}
           who == w.pending \ later
           states == [h \in Chats |-> IF h \in later
                        THEN [w.state[h] EXCEPT !.postponedRequestEntry = TRUE] ELSE w.state[h]]
           v == [w EXCEPT !.posted = FALSE, !.pending = {},
                          !.requested = @ \cup w.pending, !.state = states]
           before == Asked(entries)
           asked == Asked(entries')
<1>1. /\ Become(v) /\ left' = left
      /\ entries' = IF who = {} THEN entries
                    ELSE entries \cup {[id |-> Fresh(Ids(entries)), who |-> who]}
  <2>1. w.pending = dialogRequestsPending /\ w.state = state
    BY DEF World
  <2> HIDE DEF w
  <2> QED BY <2>1 DEF sendDialogRequests, w
<1>2. Good(w, before, {}) /\ IsFiniteSet(entries)
        /\ entries \subseteq [id : Nat, who : (SUBSET Chats) \ {{}}]
  BY DEF IInv
<1> HIDE DEF w
<1>3. w \in Worlds /\ \A h \in Chats : ChatGood(w, h, before, {})
  BY <1>2 DEF Good
<1>4. who \in SUBSET Chats
  BY <1>3 DEF Worlds
<1>5. /\ v.state = states /\ v.before = w.before /\ v.byRequest = w.byRequest
      /\ v.requested = w.requested \cup w.pending /\ v.pending = {}
      /\ v.readers = w.readers
  <2> HIDE DEF states
  <2> QED BY <1>3 DEF Worlds
<1>6. ASSUME NEW h \in Chats
      PROVE  /\ states[h] \in States /\ states[h].exists = w.state[h].exists
             /\ states[h].sent = w.state[h].sent
             /\ states[h].postponed = w.state[h].postponed
             /\ states[h].willReadTill = w.state[h].willReadTill
             /\ states[h].sentReadTill = w.state[h].sentReadTill
             /\ states[h].sentReadDone = w.state[h].sentReadDone
             /\ states[h].postponedRequestEntry <=>
                  w.state[h].postponedRequestEntry \/ h \in later
             /\ h \notin later => states[h] = w.state[h]
  <2> DEFINE st == w.state[h]
             t == states[h]
  <2>1. st \in States
    BY <1>3 DEF Worlds
  <2>2. t = IF h \in later THEN [st EXCEPT !.postponedRequestEntry = TRUE] ELSE st
    OBVIOUS
  <2> HIDE DEF st, t, later
  <2>3. /\ t \in States /\ t.exists = st.exists /\ t.sent = st.sent
        /\ t.postponed = st.postponed
        /\ t.willReadTill = st.willReadTill /\ t.sentReadTill = st.sentReadTill
        /\ t.sentReadDone = st.sentReadDone
        /\ t.postponedRequestEntry <=> st.postponedRequestEntry \/ h \in later
        /\ h \notin later => t = st
    BY <2>1, <2>2 DEF States
  <2> QED BY <2>3 DEF st, t
<1>7. v \in Worlds
  <2>1. states \in [Chats -> States]
    BY <1>6
  <2> HIDE DEF states
  <2>2. w.requested \cup w.pending \in SUBSET Chats
    BY <1>3 DEF Worlds
  <2> QED BY <1>3, <2>1, <2>2 DEF Worlds
<1>8. \A h \in Chats : h \in who \/ h \in before => h \in asked
  <2> HIDE DEF who
  <2>1. entries \subseteq entries'
    BY <1>1
  <2>2. ASSUME who /= {} PROVE \E e \in entries' : e.who = who
    <3> DEFINE e == [id |-> Fresh(Ids(entries)), who |-> who]
    <3>1. e \in entries' /\ e.who = who
      BY <1>1, <2>2
    <3> QED BY <3>1
  <2> QED BY <2>1, <2>2 DEF Asked
<1>9. ASSUME NEW h \in Chats
      PROVE  h \in later <=> h \in w.pending /\ postponeEntryRequest(w.state[h].sent)
  OBVIOUS
<1>10. \A h \in Chats : h \in who <=> h \in w.pending /\ h \notin later
  OBVIOUS
<1> HIDE DEF v, states, before, asked, later, who
<1>11. ASSUME NEW h \in Chats
       PROVE  ChatGood(v, h, asked, {})
  <2>1. ChatGood(w, h, before, {})
    BY <1>3
  <2>2. v.state[h].exists = w.state[h].exists /\ v.state[h].sent = w.state[h].sent
          /\ v.state[h].postponed = w.state[h].postponed
    BY <1>5, <1>6
  <2>3. RequestsGood(v.state[h])
    <3>1. ~w.state[h].exists => w.state[h].sent = {}
      BY <2>1 DEF ChatGood, RequestsGood, NoState
    <3>2. ~w.state[h].exists => h \notin later
      BY <1>9, <3>1 DEF postponeEntryRequest
    <3>3. ~w.state[h].exists => v.state[h] = w.state[h]
      BY <1>5, <1>6, <3>2
    <3> QED BY <2>1, <2>2, <3>3 DEF ChatGood, RequestsGood
  <2>4. ReadsGood(v.state[h], v.before[h])
    BY <1>5, <1>6, <2>1 DEF ChatGood, ReadsGood
  <2>5. v.byRequest[h] = InUse(v.state[h])
    BY <1>5, <2>1, <2>2 DEF ChatGood, InUse
  <2>6. EntryGood(v, h, asked, {})
    <3>1. EntryGood(w, h, before, {})
      BY <2>1 DEF ChatGood
    <3>2. v.state[h].postponedRequestEntry <=> w.state[h].postponedRequestEntry \/ h \in later
      BY <1>5, <1>6
    <3>3. v.state[h].sentReadTill = w.state[h].sentReadTill
            /\ v.state[h].sentReadDone = w.state[h].sentReadDone
      BY <1>5, <1>6
    <3>4. h \in v.requested <=> h \in w.requested \/ h \in w.pending
      BY <1>5
    <3> QED BY <1>5, <1>8, <1>9, <1>10, <2>2, <3>1, <3>2, <3>3, <3>4 DEF EntryGood
  <2> QED BY <2>3, <2>4, <2>5, <2>6 DEF ChatGood
<1>12. Good(v, asked, {})
  BY <1>5, <1>7, <1>11 DEF Good
<1>13. entries' \subseteq [id : Nat, who : (SUBSET Chats) \ {{}}] /\ IsFiniteSet(entries')
  <2>1. CASE who = {}
    BY <1>1, <1>2, <2>1
  <2>2. CASE who /= {}
    <3> DEFINE e == [id |-> Fresh(Ids(entries)), who |-> who]
    <3>1. IsFiniteSet({d.id : d \in entries})
      <4> DEFINE f == [d \in entries |-> d.id]
      <4>1. f \in Surjection(entries, {d.id : d \in entries})
        BY DEF Surjection
      <4> QED BY <1>2, <4>1, FS_Surjection
    <3>2. Fresh(Ids(entries)) \in Nat
      BY <3>1, FreshId DEF Ids
    <3>3. e \in [id : Nat, who : (SUBSET Chats) \ {{}}]
      BY <1>4, <2>2, <3>2
    <3>4. entries' = entries \cup {e}
      BY <1>1, <2>2
    <3> HIDE DEF e
    <3> QED BY <1>2, <3>3, <3>4, FS_AddElement
  <2> QED BY <2>1, <2>2
<1>14. Good(v, Asked(entries'), {})
  BY <1>12 DEF asked
<1> QED BY <1>1, <1>13, <1>14, HandledEntries

(* The answer to a request of entries.                                     *)
LEMMA EntriesAnswered ==
  ASSUME IInv, NEW e \in entries, EntryAnswered(e)
  PROVE  IInv'
<1> DEFINE A == Asked(entries \ {e})
           who == e.who
           both == A \cup who
           none == {}
           Load(w, upTo, x) ==
             FoldSet(LAMBDA h, u : dialogEntryApplied(setInboxReadTill(u, h, upTo), h, x), w, who)
           Final(w, x) == FoldSet(LAMBDA h, u : dialogEntryApplied(u, h, x), w, who)
<1>1. /\ left' = left /\ entries' = entries \ {e}
      /\ \E x \in Looks : \/ \E upTo \in 0 .. MaxTill : Become(Final(Load(World, upTo, x), x))
                          \/ Become(Final(World, x))
  BY DEF EntryAnswered
<1>2. Good(World, Asked(entries), {}) /\ IsFiniteSet(entries)
        /\ entries \subseteq [id : Nat, who : (SUBSET Chats) \ {{}}]
  BY DEF IInv
<1>3. A \in SUBSET Chats /\ who \in SUBSET Chats
  BY <1>2 DEF Asked
<1>4. \A h \in Chats : h \in Asked(entries) => h \in both
  BY DEF Asked
<1>5. ASSUME NEW w, Good(w, both, {}), NEW x \in Looks
      PROVE  Good(Final(w, x), A, {})
  <2> HIDE DEF A, who
  <2> QED BY <1>3, <1>5, FinalFold
<1>6. ASSUME NEW w, Good(w, both, {}), NEW x \in Looks, NEW upTo \in 0 .. MaxTill
      PROVE  Good(Load(w, upTo, x), both, {})
  <2> DEFINE v == Load(w, upTo, x)
  <2>1. Good(v, A, {})
    <3> HIDE DEF A, who
    <3> QED BY <1>3, <1>6, LoadFold
  <2>2. \A h \in Chats : h \in A => h \in both
    OBVIOUS
  <2> HIDE DEF v, A, both, none
  <2>3. Good(v, A, none)
    BY <2>1 DEF none
  <2>4. Good(v, both, none)
    BY <2>2, <2>3, Weaker
  <2> QED BY <2>4 DEF v, none
<1>7. Good(World, both, {})
  <2> DEFINE asked == Asked(entries)
  <2>1. Good(World, asked, none)
    BY <1>2
  <2>2. \A h \in Chats : h \in asked => h \in both
    BY <1>4
  <2> HIDE DEF asked, both, none
  <2>3. Good(World, both, none)
    BY <2>1, <2>2, Weaker
  <2> QED BY <2>3 DEF none
<1> HIDE DEF Load, Final, both
<1>8. PICK w : Become(w) /\ Good(w, A, {})
  BY <1>1, <1>5, <1>6, <1>7
<1>9. Good(w, Asked(entries'), {})
  BY <1>1, <1>8
<1>10. entries' \subseteq [id : Nat, who : (SUBSET Chats) \ {{}}] /\ IsFiniteSet(entries')
  BY <1>1, <1>2, FS_RemoveElement
<1> QED BY <1>1, <1>8, <1>9, <1>10, HandledEntries

(* A request that is not the read that is waited for is over.              *)
LEMMA Finishing ==
  ASSUME NEW w, NEW asked, Good(w, asked, {}), NEW h \in Chats, NEW r \in w.state[h].sent,
         \/ r.type /= "ReadInbox" \/ r.till /= w.state[h].sentReadTill
         \/ w.state[h].sentReadDone
  PROVE  Good(finishSentRequest(w, h, r.id), asked, {})
<1> DEFINE st == w.state[h]
           id == r.id
           none == {}
           v == finishSentRequest(w, h, id)
<1>1. /\ w \in Worlds /\ (w.pending /= {} => w.posted)
      /\ \A g \in Chats : ChatGood(w, g, asked, none)
  BY DEF Good
<1>2. RequestsGood(st) /\ ReadsGood(st, w.before[h]) /\ w.byRequest[h] = InUse(st)
        /\ EntryGood(w, h, asked, none)
  BY <1>1 DEF ChatGood
<1>3. id \notin st.postponed
  BY <1>2 DEF RequestsGood
<1>4. st.sentReadTill /= 0 /\ ~st.sentReadDone =>
        \E q \in st.sent : q.type = "ReadInbox" /\ q.till = st.sentReadTill /\ q.id /= id
  <2>1. SUFFICES ASSUME st.sentReadTill /= 0, ~st.sentReadDone
                 PROVE  \E q \in st.sent : /\ q.type = "ReadInbox" /\ q.till = st.sentReadTill
                                           /\ q.id /= id
    OBVIOUS
  <2>2. PICK q \in st.sent : q.type = "ReadInbox" /\ q.till = st.sentReadTill
    BY <1>2, <2>1 DEF ReadsGood
  <2>3. q /= r
    BY <2>1, <2>2
  <2>4. q.id /= id
    BY <1>2, <2>3 DEF RequestsGood
  <2> QED BY <2>2, <2>4
<1> HIDE DEF v, none, id
<1>5. Good(v, asked, none)
  BY <1>1, <1>2, <1>3, <1>4, FinishSent DEF v
<1> QED BY <1>5 DEF v, none, id

(* A request is answered.                                                  *)
LEMMA Answering ==
  ASSUME IInv, NEW h \in Chats, NEW r \in state[h].sent, Answered(h, r)
  PROVE  IInv'
<1> DEFINE asked == Asked(entries)
           v == finishSentRequest(World, h, r.id)
<1>1. r.type /= "ReadInbox" /\ entries' = entries /\ left' = left /\ Become(v)
  BY DEF Answered
<1> HIDE DEF asked, v
<1>2. Good(World, asked, {})
  BY DEF IInv, asked
<1>3. r \in World.state[h].sent
  BY DEF World
<1>4. Good(v, asked, {})
  BY <1>1, <1>2, <1>3, Finishing DEF v
<1>5. Good(v, Asked(entries), {})
  BY <1>4 DEF asked
<1>6. left' \in [asks : [Chats -> Nat], channels : Nat]
  BY <1>1 DEF IInv
<1> QED BY <1>1, <1>5, <1>6, Handled

(* A deletion is answered in part, and goes on with a next one.            *)
LEMMA DeletingInPart ==
  ASSUME IInv, NEW h \in Chats, NEW r \in state[h].sent, DeletedInPart(h, r)
  PROVE  IInv'
<1> DEFINE asked == Asked(entries)
           none == {}
           w == sendRequest(World, h, "Delete", 0, TRUE)
           v == finishSentRequest(w, h, r.id)
<1>1. r.type = "Delete" /\ Ask(h) /\ Become(v)
  BY DEF DeletedInPart
<1> HIDE DEF asked, none, w, v
<1>2. Good(World, asked, none)
  BY DEF IInv, asked, none
<1>3. r \in World.state[h].sent
  BY DEF World
<1>4. Good(w, asked, none) /\ \A q \in World.state[h].sent : q.type /= "History" => q \in w.state[h].sent
  BY <1>2, SendRequest DEF w
<1>5. Good(w, asked, {}) /\ r \in w.state[h].sent
  BY <1>1, <1>3, <1>4 DEF none
<1>6. Good(v, asked, {})
  BY <1>1, <1>5, Finishing DEF v
<1>7. Good(v, Asked(entries), {})
  BY <1>6 DEF asked
<1> QED BY <1>1, <1>7, Asking, Handled

(* What the answer to a read says of the read that is waited for.          *)
ReadKnown(w, h, r, refresh) ==
  IF w.state[h].sentReadTill /= r.till THEN w
  ELSE IF refresh
    THEN requestDialogEntry([w EXCEPT !.state[h].sentReadDone = TRUE], h, FALSE)
    ELSE [w EXCEPT !.state[h] = [@ EXCEPT !.sentReadDone = TRUE, !.sentReadTill = 0]]

LEMMA KnownGood ==
  ASSUME NEW w, NEW asked, Good(w, asked, {}), NEW h \in Chats, NEW r \in w.state[h].sent,
         r.type = "ReadInbox", NEW refresh \in BOOLEAN,
         ~refresh => r.till + 1 <= w.before[h]
  PROVE  LET v == ReadKnown(w, h, r, refresh)
         IN  /\ Good(v, asked, {}) /\ r \in v.state[h].sent
             /\ r.till /= v.state[h].sentReadTill \/ v.state[h].sentReadDone
<1> DEFINE st == w.state[h]
           v == ReadKnown(w, h, r, refresh)
           done == [st EXCEPT !.sentReadDone = TRUE]
           over == [st EXCEPT !.sentReadDone = TRUE, !.sentReadTill = 0]
<1>1. /\ w \in Worlds /\ st \in States /\ RequestsGood(st) /\ ReadsGood(st, w.before[h])
      /\ EntryGood(w, h, asked, {}) /\ w.before[h] \in Int
  BY DEF Good, ChatGood, Worlds
<1>2. st.exists
  BY <1>1 DEF RequestsGood, NoState
<1>3. CASE st.sentReadTill /= r.till
  <2>1. v = w
    BY <1>3 DEF ReadKnown
  <2> QED BY <1>3, <2>1
<1>4. CASE st.sentReadTill = r.till /\ refresh
  <2> DEFINE u == [w EXCEPT !.state[h] = done]
             free == {}
             freed == {h}
  <2>1. v = requestDialogEntry(u, h, FALSE)
    <3>1. [w EXCEPT !.state[h].sentReadDone = TRUE] = u
      BY <1>1 DEF Worlds
    <3> QED BY <1>4, <3>1 DEF ReadKnown
  <2>2. /\ done \in States /\ done.exists = st.exists /\ done.sent = st.sent
        /\ done.postponed = st.postponed
        /\ done.postponedRequestEntry = st.postponedRequestEntry
        /\ done.willReadTill = st.willReadTill /\ done.sentReadTill = st.sentReadTill
        /\ done.sentReadDone = TRUE
    <3> HIDE DEF st
    <3> QED BY <1>1 DEF States
  <2> HIDE DEF done
  <2>3. ReadsGood(done, w.before[h])
    BY <1>1, <2>2 DEF ReadsGood
  <2>4. free \ {h} \subseteq freed /\ h \in freed
    OBVIOUS
  <2> HIDE DEF free, freed
  <2>5. Good(w, asked, free)
    BY DEF free
  <2>6. Good(u, asked, freed) /\ u.state[h] = done
    <3>1. done.exists /\ done.sent = w.state[h].sent /\ done.postponed = w.state[h].postponed
      BY <1>2, <2>2
    <3>2. done.postponedRequestEntry <=> w.state[h].postponedRequestEntry
      BY <2>2
    <3>3. done.sentReadTill /= 0 /\ done.sentReadDone /\ h \notin freed =>
            h \in w.requested \cup w.pending
      BY <2>2, <2>4
    <3> QED BY <2>2, <2>3, <2>4, <2>5, <3>1, <3>2, <3>3, ReadsChanged
  <2> HIDE DEF u
  <2>7. Good(u, asked, {h})
    BY <2>6 DEF freed
  <2>8. Good(v, asked, {}) /\ v.state = u.state
    BY <2>1, <2>7, EntryAsked
  <2> QED BY <2>2, <2>6, <2>8
<1>5. CASE st.sentReadTill = r.till /\ ~refresh
  <2> DEFINE u == [w EXCEPT !.state[h] = over]
             free == {}
  <2>1. v = u
    BY <1>5 DEF ReadKnown
  <2>2. /\ over \in States /\ over.exists = st.exists /\ over.sent = st.sent
        /\ over.postponed = st.postponed
        /\ over.postponedRequestEntry = st.postponedRequestEntry
        /\ over.willReadTill = st.willReadTill /\ over.sentReadTill = 0
        /\ over.sentReadDone = TRUE
    <3>1. 0 \in 0 .. MaxTill
      BY HistoriesAssumption
    <3> HIDE DEF st
    <3> QED BY <1>1, <3>1 DEF States
  <2> HIDE DEF over
  <2>3. ReadsGood(over, w.before[h])
    <3>1. \A q \in st.sent : q.till \in Int
      BY <1>1 DEF States, Requests
    <3>2. r.till < w.before[h]
      BY <1>1, <1>5, <3>1
    <3>3. \A q \in st.sent : q.type = "ReadInbox" => q.till < w.before[h]
      <4>1. \A q \in st.sent : q.type = "ReadInbox" =>
              q.till <= r.till \/ q.till < w.before[h]
        BY <1>1, <1>5 DEF ReadsGood
      <4> QED BY <1>1, <3>1, <3>2, <4>1
    <3>4. st.willReadTill /= 0 => st.willReadTill > 0
      BY <1>1 DEF States
    <3>5. st.willReadTill /= 0 =>
            \A q \in st.sent : q.type = "ReadInbox" => q.till < st.willReadTill
      BY <1>1 DEF ReadsGood
    <3> HIDE DEF st
    <3> QED BY <2>2, <3>3, <3>4, <3>5 DEF ReadsGood
  <2>4. free \ {h} \subseteq free
    OBVIOUS
  <2> HIDE DEF free
  <2>5. Good(w, asked, free)
    BY DEF free
  <2>6. Good(u, asked, free) /\ u.state[h] = over
    <3>1. over.exists /\ over.sent = w.state[h].sent /\ over.postponed = w.state[h].postponed
      BY <1>2, <2>2
    <3>2. over.postponedRequestEntry <=> w.state[h].postponedRequestEntry
      BY <2>2
    <3>3. over.sentReadTill /= 0 /\ over.sentReadDone /\ h \notin free =>
            h \in w.requested \cup w.pending
      BY <2>2, <2>4
    <3> QED BY <2>2, <2>3, <2>4, <2>5, <3>1, <3>2, <3>3, ReadsChanged
  <2> HIDE DEF u, v
  <2> QED BY <2>1, <2>2, <2>6 DEF free, v
<1> QED BY <1>3, <1>4, <1>5

(* A read is answered; what is due is sent meanwhile.                      *)
LEMMA ReadAnswering ==
  ASSUME IInv, NEW h \in Chats, NEW r \in state[h].sent, ReadAnswered(h, r)
  PROVE  IInv'
<1> DEFINE asked == Asked(entries)
           none == {}
<1>1. PICK known \in BOOLEAN :
        LET refresh == ~known \/ r.till + 1 > inboxReadBefore[h]
        IN  /\ r.type = "ReadInbox" /\ entries' = entries /\ left' = left
            /\ Become(finishSentRequest(
                 sendReadRequests(ReadKnown(World, h, r, refresh)), h, r.id))
  <2>1. World.state = state
    BY DEF World
  <2> QED BY <2>1 DEF ReadAnswered, ReadKnown
<1> DEFINE refresh == ~known \/ r.till + 1 > inboxReadBefore[h]
           w == ReadKnown(World, h, r, refresh)
           v == sendReadRequests(w)
           u == finishSentRequest(v, h, r.id)
<1>2. r.type = "ReadInbox" /\ entries' = entries /\ left' = left /\ Become(u)
  BY <1>1
<1> HIDE DEF asked
<1>3. Good(World, asked, {}) /\ r \in World.state[h].sent
        /\ World.before[h] = inboxReadBefore[h]
  BY DEF IInv, asked, World
<1>4. r.till \in Int /\ inboxReadBefore[h] \in Int
  BY <1>3 DEF Good, Worlds, States, Requests
<1>5. refresh \in BOOLEAN /\ (~refresh => r.till + 1 <= inboxReadBefore[h])
  BY <1>4
<1> HIDE DEF refresh, w, v, u
<1>6. /\ Good(w, asked, {}) /\ r \in w.state[h].sent
      /\ r.till /= w.state[h].sentReadTill \/ w.state[h].sentReadDone
  BY <1>2, <1>3, <1>5, KnownGood DEF w
<1>7. /\ Good(v, asked, {})
      /\ \/ v.state[h] = w.state[h]
         \/ w.state[h].willReadTill /= 0 /\ v.state[h] = AfterRead(w, h)
  <2> HIDE DEF none
  <2>1. Good(w, asked, none)
    BY <1>6 DEF none
  <2>2. /\ Good(v, asked, none)
        /\ \/ v.state[h] = w.state[h]
           \/ w.state[h].willReadTill /= 0 /\ v.state[h] = AfterRead(w, h)
    BY <2>1, SendReads DEF v
  <2> QED BY <2>2 DEF none
<1>8. r \in v.state[h].sent
        /\ (r.till /= v.state[h].sentReadTill \/ v.state[h].sentReadDone)
  <2>1. CASE v.state[h] = w.state[h]
    BY <1>6, <2>1
  <2>2. CASE w.state[h].willReadTill /= 0 /\ v.state[h] = AfterRead(w, h)
    <3>1. r \in v.state[h].sent /\ v.state[h].sentReadTill = w.state[h].willReadTill
      BY <1>6, <2>2 DEF AfterRead
    <3>2. r.till < w.state[h].willReadTill
      BY <1>2, <1>6, <2>2 DEF Good, ChatGood, ReadsGood
    <3>3. w.state[h].willReadTill \in Int
      BY <1>6 DEF Good, Worlds, States
    <3> QED BY <1>4, <3>1, <3>2, <3>3
  <2> QED BY <1>7, <2>1, <2>2
<1>9. Good(u, asked, {})
  BY <1>7, <1>8, Finishing DEF u
<1>10. Good(u, Asked(entries), {})
  BY <1>9 DEF asked
<1>11. left' \in [asks : [Chats -> Nat], channels : Nat]
  BY <1>2 DEF IInv
<1> QED BY <1>2, <1>10, <1>11, Handled

(* The inductive invariant of the histories.                               *)
THEOREM Inductive == Spec => []IInv
<1>1. IInv /\ [Next]_vars => IInv'
  <2> SUFFICES ASSUME IInv, [Next]_vars PROVE IInv'
    OBVIOUS
  <2>1. CASE UNCHANGED vars
    <3>1. World' = World /\ entries' = entries /\ left' = left
      BY <2>1 DEF vars, clientVars, World
    <3>2. Become(World)
      BY <2>1 DEF vars, clientVars, Become, World
    <3>3. Good(World, Asked(entries), {})
      BY DEF IInv
    <3>4. left' \in [asks : [Chats -> Nat], channels : Nat]
      BY <3>1 DEF IInv
    <3> DEFINE w == World
    <3> HIDE DEF w
    <3>5. Good(w, Asked(entries), {}) /\ Become(w)
      BY <3>2, <3>3 DEF w
    <3> QED BY <3>1, <3>4, <3>5, Handled
  <2>2. ASSUME NEW h \in Chats, NEW type \in {"History", "Delete", "Send"}, Request(h, type)
        PROVE  IInv'
    BY <2>2, Requesting
  <2>3. ASSUME NEW h \in Chats,
               DeleteChannel(h) \/ (\E id \in historyByRequest[h] : Cancel(h, id))
        PROVE  IInv'
    BY <2>3, DeletingChannel, Cancelling
  <2>4. ASSUME NEW h \in Chats, ReadInbox(h) \/ NewMessage(h) \/ SendPendingReadInbox(h)
        PROVE  IInv'
    BY <2>4, Reading, Arriving, SendingPending
  <2>5. ASSUME NEW h \in Chats, RequestDialogEntry(h) \/ DialogLoaded(h)
        PROVE  IInv'
    BY <2>5, RequestingEntry, Loading
  <2>6. ASSUME NEW h \in Chats, NEW upTo \in 1 .. MaxTill, ServerRead(h, upTo)
        PROVE  IInv'
    BY <2>6, ReadElsewhere
  <2>7. ASSUME NEW h \in Chats, NEW r \in state[h].sent,
               DeletedInPart(h, r) \/ Answered(h, r) \/ ReadAnswered(h, r)
        PROVE  IInv'
    BY <2>7, DeletingInPart, Answering, ReadAnswering
  <2>8. ASSUME NEW e \in entries, EntryAnswered(e)
        PROVE  IInv'
    BY <2>8, EntriesAnswered
  <2>9. CASE ReadTimer \/ Tick \/ sendDialogRequests
    BY <2>9, TimerDue, Ticking, SendingRequests
  <2> QED BY <2>1, <2>2, <2>3, <2>4, <2>5, <2>6, <2>7, <2>8, <2>9 DEF Next, Answers
<1> QED BY <1>1, Initially, PTL DEF Spec

(* What is kept of the chats, the requests and the timer have their types. *)
THEOREM TypeCorrect == Spec => []TypeOK
<1>1. IInv => TypeOK
  <2> SUFFICES ASSUME IInv PROVE TypeOK
    OBVIOUS
  <2>1. World \in Worlds /\ \A h \in Chats : EntryGood(World, h, Asked(entries), {})
    BY DEF IInv, Good, ChatGood
  <2>2. readers \subseteq dialogRequests \cup dialogRequestsPending
    BY <2>1 DEF EntryGood, World, Worlds
  <2>3. state \in [Chats -> States] /\ inboxReadBefore \in [Chats -> 0 .. MaxTill + 1]
          /\ historyByRequest \in [Chats -> SUBSET Nat]
          /\ dialogRequests \in SUBSET Chats /\ dialogRequestsPending \in SUBSET Chats
    BY <2>1 DEF World, Worlds
  <2>4. posted \in BOOLEAN /\ timer \in 0 .. Timeout + 1 /\ told \in [Chats -> 0 .. MaxTill]
    BY <2>1 DEF World, Worlds
  <2> QED BY <2>2, <2>3, <2>4 DEF IInv, TypeOK, States, Requests
<1> QED BY <1>1, Inductive, PTL

(* sendRequest() and finishSentRequest(): no messages are loaded while     *)
(* others are deleted, and what is postponed has a deletion to wait for.   *)
THEOREM LoadsAreAfterDeletions == Spec => []LoadsAfterDeletions
<1>1. IInv => LoadsAfterDeletions
  <2> SUFFICES ASSUME IInv, NEW h \in Chats
               PROVE  /\ DeletionsOf(h) /= {} => \A r \in state[h].sent : r.type /= "History"
                      /\ state[h].postponed /= {} => DeletionsOf(h) /= {}
                      /\ historyByRequest[h] = InUse(state[h])
    BY DEF LoadsAfterDeletions
  <2>1. RequestsGood(state[h]) /\ historyByRequest[h] = InUse(state[h])
    BY DEF IInv, Good, ChatGood, World
  <2>2. DeletionsOf(h) /= {} <=> postponeHistoryRequest(state[h].sent)
    BY DEF DeletionsOf, postponeHistoryRequest
  <2> QED BY <2>1, <2>2 DEF RequestsGood
<1> QED BY <1>1, Inductive, PTL

(* requestDialogEntry() and sendDialogRequests(): an entry that is wanted  *)
(* is asked for, on its way, or waits for what the chat does.              *)
THEOREM EntriesAreWatched == Spec => []EntryIsWatched
<1>1. IInv => EntryIsWatched
  <2> SUFFICES ASSUME IInv PROVE EntryIsWatched
    OBVIOUS
  <2>1. \A h \in Chats : EntryGood(World, h, Asked(entries), {})
    BY DEF IInv, Good, ChatGood
  <2>2. dialogRequests \subseteq Chats /\ dialogRequestsPending \subseteq Chats
    BY DEF IInv, Good, World, Worlds
  <2>3. dialogRequestsPending /= {} => posted
    BY DEF IInv, Good, World
  <2>4. World.state = state /\ World.requested = dialogRequests
          /\ World.pending = dialogRequestsPending
    BY DEF World
  <2>5. ASSUME NEW h \in Chats
        PROVE  /\ h \in dialogRequests => h \notin dialogRequestsPending
               /\ state[h].postponedRequestEntry => h \in dialogRequests
               /\ h \in dialogRequests =>
                    \/ state[h].postponedRequestEntry /\ postponeEntryRequest(state[h].sent)
                    \/ ~state[h].postponedRequestEntry /\ \E e \in entries : h \in e.who
    BY <2>1, <2>4 DEF EntryGood, Asked
  <2> QED BY <2>2, <2>3, <2>5 DEF EntryIsWatched
<1> QED BY <1>1, Inductive, PTL

(* dialogEntryApplied(): an entry is not taken while messages of the chat  *)
(* are read, deleted or sent.                                              *)
THEOREM EntriesArePostponed == Spec => []EntryIsPostponed
<1>1. IInv => EntryIsPostponed
  <2> SUFFICES ASSUME IInv, NEW h \in dialogRequests, postponeEntryRequest(state[h].sent)
               PROVE  state[h].postponedRequestEntry
    BY DEF EntryIsPostponed
  <2>1. h \in Chats
    BY DEF IInv, Good, World, Worlds
  <2>2. EntryGood(World, h, Asked(entries), {})
    BY <2>1 DEF IInv, Good, ChatGood
  <2> QED BY <2>2 DEF EntryGood, World
<1> QED BY <1>1, Inductive, PTL

(* readInboxTill(), sendReadRequest() and the answer to a read: what will  *)
(* be read is after what was sent, and the read that is waited for is on   *)
(* its way or its entry is.                                                *)
THEOREM ReadsAreInOrder == Spec => []ReadsInOrder
<1>1. IInv => ReadsInOrder
  <2> SUFFICES ASSUME IInv, NEW h \in Chats
               PROVE  LET st == state[h]
                          reads == {r \in st.sent : r.type = "ReadInbox"}
                      IN  /\ st.willReadTill /= 0 => st.willReadTill > st.sentReadTill
                          /\ \A r \in reads : st.sentReadTill = 0 \/ st.sentReadTill >= r.till
                          /\ st.sentReadTill /= 0 =>
                               IF st.sentReadDone
                                 THEN h \in dialogRequests \cup dialogRequestsPending
                                 ELSE \E r \in reads : r.till = st.sentReadTill
    BY DEF ReadsInOrder
  <2> DEFINE st == state[h]
  <2>1. ReadsGood(st, inboxReadBefore[h]) /\ EntryGood(World, h, Asked(entries), {}) /\ st \in States
    BY DEF IInv, Good, ChatGood, World, Worlds
  <2>2. st.sentReadTill \in Int /\ \A r \in st.sent : r.till \in Int
    BY <2>1 DEF States, Requests
  <2>3. st.sentReadTill /= 0 /\ st.sentReadDone => h \in dialogRequests \cup dialogRequestsPending
    BY <2>1 DEF EntryGood, World
  <2> QED BY <2>1, <2>2, <2>3 DEF ReadsGood
<1> QED BY <1>1, Inductive, PTL

=============================================================================
