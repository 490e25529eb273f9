------------------------- MODULE CachePruningProofs -------------------------
(***************************************************************************)
(* Proofs about CachePruning: what is counted of the entries is right, and *)
(* pruning for the size takes the oldest entries, for every set of keys    *)
(* and of sizes, all limits and every order of walking the map.            *)
(*                                                                         *)
(* Sums and loops are folds, which are recursive functions.  The first     *)
(* part is about those: `Recursion' shows that there is such a function,   *)
(* and that it keeps what each of its calls keeps.                         *)
(***************************************************************************)
EXTENDS CachePruning, FiniteSetTheorems, TLAPS

(* What is kept of the keys, and what the database counts of it.           *)
EntryType == {Absent} \cup [size : Sizes, useTime : 1 .. MaxTime]
Maps == [Keys -> EntryType]
Data == [map : Maps, total : Nat,
         minimal : [time : 0 .. MaxTime, count : 0 .. Cardinality(Keys)]]

UsedAt(m, t) == {k \in Keys : m[k].useTime = t}

(* What is right of the counts at the time t.  The count of the oldest     *)
(* time may be more than there are such entries, since accesses change     *)
(* the times without it, but not while puts can still add to it, which is  *)
(* as long as that time is the current one.                                *)
DataGood(d, t) ==
  /\ d \in Data
  /\ d.total = SizeOf(d.map, Present(d.map))
  /\ d.minimal.time /= 0 <=> d.minimal.count > 0
  /\ d.minimal.time <= t /\ \A k \in Keys : d.map[k].useTime <= t
  /\ d.minimal.time = t => d.minimal.count <= Cardinality(UsedAt(d.map, t))

(* The inductive invariant.                                                *)
IInv == TypeOK /\ DataGood(Entries, time) /\ PutIsKept /\ StaleIsWatched

-----------------------------------------------------------------------------
(* Numbers, finite sets and recursive functions on them.                   *)

Least(T) == CHOOSE n \in T : \A m \in T : n <= m

(* Some numbers have a least one.                                          *)
LEMMA LeastOf ==
  ASSUME NEW T, T \subseteq Nat, T /= {}
  PROVE  Least(T) \in T /\ \A n \in T : Least(T) <= n
<1>1. PICK m \in T : \A n \in T : ~(<<n, m>> \in OpToRel(<, Nat))
  BY WFMin, NatLessThanWellFounded
<1>2. \A n \in T : ~(n < m)
  BY <1>1 DEF OpToRel
<1>3. \A n \in T : m <= n
  BY <1>2
<1> QED BY <1>3 DEF Least

(* What holds of a set if it holds without any one of its elements holds   *)
(* of every finite set.                                                    *)
LEMMA SetInduction ==
  ASSUME NEW S, IsFiniteSet(S), NEW P,
         \A s \in SUBSET S : (\A x \in s : s \ {x} \in P) => s \in P
  PROVE  SUBSET S \subseteq P
<1> DEFINE bad == {s \in SUBSET S : s \notin P}
           sizes == {Cardinality(s) : s \in bad}
<1>1. \A s \in SUBSET S : IsFiniteSet(s) /\ Cardinality(s) \in Nat
  BY FS_Subset, FS_CardinalityType
<1>2. SUFFICES ASSUME bad /= {} PROVE FALSE
  OBVIOUS
<1>3. sizes \subseteq Nat /\ sizes /= {}
  BY <1>1, <1>2
<1>4. PICK s \in bad : Cardinality(s) = Least(sizes)
  BY <1>3, LeastOf
<1>5. PICK x \in s : s \ {x} \notin P
  BY <1>4
<1>6. s \ {x} \in bad
  BY <1>4, <1>5
<1>7. Cardinality(s \ {x}) \in sizes /\ Cardinality(s \ {x}) = Cardinality(s) - 1
  BY <1>1, <1>4, <1>5, <1>6, FS_RemoveElement
<1> HIDE DEF sizes
<1>8. Least(sizes) <= Cardinality(s \ {x})
  BY <1>3, <1>7, LeastOf
<1> QED BY <1>1, <1>4, <1>7, <1>8

(* A recursive function on the subsets of S: it goes on from the sets in   *)
(* `goes', to the same set without one element.                            *)
IsRec(f, S, goes, pick, G, base) ==
  f = [s \in SUBSET S |-> IF s \in goes THEN G[s][f[s \ {pick[s]}]] ELSE base[s]]

LEMMA RecExists ==
  ASSUME NEW S, IsFiniteSet(S), NEW goes, NEW pick, NEW G, NEW base,
         \A s \in SUBSET S : s \in goes => pick[s] \in s
  PROVE  \E f : IsRec(f, S, goes, pick, G, base)
<1> DEFINE F(f) == [s \in SUBSET S |->
                      IF s \in goes THEN G[s][f[s \ {pick[s]}]] ELSE base[s]]
           Upto(n) == {s \in SUBSET S : Cardinality(s) <= n}
           bad == {n \in Nat : ~\E f : \A s \in Upto(n) : f[s] = F(f)[s]}
<1>1. \A s \in SUBSET S : IsFiniteSet(s) /\ Cardinality(s) \in Nat
  BY FS_Subset, FS_CardinalityType
<1>2. 0 \notin bad
  <2>1. \A s \in Upto(0) : s \notin goes
    BY <1>1, FS_EmptySet
  <2>2. \A s \in Upto(0) : base[s] = F(base)[s]
    BY <2>1
  <2> HIDE DEF F, Upto
  <2> QED BY <2>2
<1>3. ASSUME NEW n \in Nat, n \notin bad
      PROVE  n + 1 \notin bad
  <2>1. PICK f : \A s \in Upto(n) : f[s] = F(f)[s]
    BY <1>3
  <2> DEFINE g == F(f)
  <2>2. ASSUME NEW s \in Upto(n + 1)
        PROVE  g[s] = F(g)[s]
    <3>1. CASE s \notin goes
      BY <3>1
    <3>2. CASE s \in goes
      <4>1. s \ {pick[s]} \in Upto(n)
        <5>1. Cardinality(s \ {pick[s]}) = Cardinality(s) - 1
          BY <1>1, <3>2, FS_RemoveElement
        <5> QED BY <1>1, <3>2, <5>1
      <4>2. f[s \ {pick[s]}] = g[s \ {pick[s]}]
        BY <2>1, <4>1
      <4>3. g[s] = G[s][f[s \ {pick[s]}]]
        BY <3>2
      <4> HIDE DEF g
      <4>4. F(g)[s] = G[s][g[s \ {pick[s]}]]
        BY <3>2
      <4> QED BY <4>2, <4>3, <4>4
    <3> QED BY <3>1, <3>2
  <2>3. \A s \in Upto(n + 1) : g[s] = F(g)[s]
    BY <2>2
  <2> HIDE DEF F
  <2> QED BY <2>3
<1> HIDE DEF bad
<1>4. bad = {}
  <2>1. SUFFICES ASSUME bad /= {} PROVE FALSE
    OBVIOUS
  <2>2. bad \subseteq Nat
    BY DEF bad
  <2>3. Least(bad) \in bad /\ \A n \in bad : Least(bad) <= n
    BY <2>1, <2>2, LeastOf
  <2>4. Least(bad) \in Nat /\ Least(bad) /= 0
    BY <1>2, <2>2, <2>3
  <2>5. Least(bad) - 1 \in Nat /\ Least(bad) - 1 \notin bad
    BY <2>3, <2>4
  <2> QED BY <1>3, <2>3, <2>4, <2>5
<1>5. Cardinality(S) \in Nat /\ Cardinality(S) \notin bad
  BY <1>1, <1>4
<1>6. PICK f : \A s \in Upto(Cardinality(S)) : f[s] = F(f)[s]
  BY <1>5 DEF bad
<1>7. \A s \in SUBSET S : s \in Upto(Cardinality(S))
  BY FS_Subset
<1> DEFINE g == F(f)
<1>8. ASSUME NEW s \in SUBSET S
      PROVE  g[s] = F(g)[s]
  <2>1. CASE s \notin goes
    BY <2>1
  <2>2. CASE s \in goes
    <3>1. s \ {pick[s]} \in SUBSET S
      OBVIOUS
    <3>2. f[s \ {pick[s]}] = g[s \ {pick[s]}]
      BY <1>6, <1>7, <3>1
    <3>3. g[s] = G[s][f[s \ {pick[s]}]]
      BY <2>2
    <3> HIDE DEF g
    <3>4. F(g)[s] = G[s][g[s \ {pick[s]}]]
      BY <2>2
    <3> QED BY <3>2, <3>3, <3>4
  <2> QED BY <2>1, <2>2
<1>9. g = F(g)
  BY <1>8
<1> HIDE DEF g
<1> QED BY <1>9 DEF IsRec

(* It stays within sets that each of its calls leads to the next of.       *)
LEMMA Recursion ==
  ASSUME NEW S, IsFiniteSet(S), NEW goes, NEW pick, NEW G, NEW base, NEW W,
         \A s \in SUBSET S : s \in goes => pick[s] \in s,
         \A s \in SUBSET S : s \notin goes => base[s] \in W[s],
         \A s \in SUBSET S : s \in goes => \A u \in W[s \ {pick[s]}] : G[s][u] \in W[s]
  PROVE  \E f : IsRec(f, S, goes, pick, G, base) /\ \A s \in SUBSET S : f[s] \in W[s]
<1>1. PICK f : IsRec(f, S, goes, pick, G, base)
  BY RecExists
<1> DEFINE P == {s \in SUBSET S : f[s] \in W[s]}
<1>2. ASSUME NEW s \in SUBSET S, \A x \in s : s \ {x} \in P
      PROVE  s \in P
  <2>1. CASE s \notin goes
    BY <1>1, <2>1 DEF IsRec
  <2>2. CASE s \in goes
    <3>1. f[s] = G[s][f[s \ {pick[s]}]]
      BY <1>1, <2>2 DEF IsRec
    <3>2. f[s \ {pick[s]}] \in W[s \ {pick[s]}]
      BY <1>2, <2>2
    <3> QED BY <2>2, <3>1, <3>2
  <2> QED BY <2>1, <2>2
<1> HIDE DEF P
<1>3. SUBSET S \subseteq P
  BY <1>2, SetInduction
<1> QED BY <1>1, <1>3 DEF P

-----------------------------------------------------------------------------
(* The size of some entries.                                               *)

SumRec(f, S, m) ==
  f = [s \in SUBSET S |-> IF s = {} THEN 0
                          ELSE f[s \ {CHOOSE y \in s : TRUE}] + m[CHOOSE y \in s : TRUE].size]

Sized(m, S) == \A k \in S : m[k].size \in Nat

LEMMA SumExists ==
  ASSUME NEW S, IsFiniteSet(S), NEW m, Sized(m, S)
  PROVE  \E f : SumRec(f, S, m)
<1> DEFINE goes == (SUBSET S) \ {{}}
           pick == [s \in SUBSET S |-> CHOOSE y \in s : TRUE]
           G == [s \in SUBSET S |-> [u \in Nat |-> u + m[pick[s]].size]]
           base == [s \in SUBSET S |-> 0]
           W == [s \in SUBSET S |-> Nat]
<1>1. \A s \in SUBSET S : s \in goes => pick[s] \in s
  OBVIOUS
<1>2. \A s \in SUBSET S : s \notin goes => base[s] \in W[s]
  OBVIOUS
<1>3. ASSUME NEW s \in SUBSET S, s \in goes
      PROVE  \A u \in W[s \ {pick[s]}] : G[s][u] \in W[s]
  <2>1. pick[s] \in S
    BY <1>1, <1>3
  <2>2. m[pick[s]].size \in Nat
    BY <2>1 DEF Sized
  <2> HIDE DEF pick
  <2>3. \A u \in Nat : G[s][u] = u + m[pick[s]].size
    OBVIOUS
  <2> HIDE DEF G
  <2> QED BY <2>2, <2>3
<1> HIDE DEF goes, pick, G, base, W
<1>4. PICK f : IsRec(f, S, goes, pick, G, base) /\ \A s \in SUBSET S : f[s] \in W[s]
  BY <1>1, <1>2, <1>3, Recursion
<1>5. \A s \in SUBSET S : f[s] \in Nat
  BY <1>4 DEF W
<1>6. ASSUME NEW s \in SUBSET S
      PROVE  f[s] = IF s = {} THEN 0
                    ELSE f[s \ {CHOOSE y \in s : TRUE}] + m[CHOOSE y \in s : TRUE].size
  <2>1. CASE s = {}
    BY <1>4, <2>1 DEF IsRec, goes, base
  <2>2. CASE s /= {}
    <3>1. f[s] = G[s][f[s \ {pick[s]}]]
      BY <1>4, <2>2 DEF IsRec, goes
    <3>2. G[s][f[s \ {pick[s]}]] = f[s \ {pick[s]}] + m[pick[s]].size
      BY <1>5 DEF G
    <3> QED BY <2>2, <3>1, <3>2 DEF pick
  <2> QED BY <2>1, <2>2
<1>7. f = [s \in SUBSET S |-> f[s]]
  BY <1>4 DEF IsRec
<1>8. f = [s \in SUBSET S |-> IF s = {} THEN 0
             ELSE f[s \ {CHOOSE y \in s : TRUE}] + m[CHOOSE y \in s : TRUE].size]
  BY <1>6, <1>7, Zenon
<1> QED BY <1>8 DEF SumRec

(* SizeOf, which folds over each set anew, is one such function.           *)
LEMMA SumIsSize ==
  ASSUME NEW S, IsFiniteSet(S), NEW m, Sized(m, S), NEW f, SumRec(f, S, m)
  PROVE  \A s \in SUBSET S : f[s] \in Nat /\ SizeOf(m, s) = f[s]
<1>1. ASSUME NEW s \in SUBSET S
      PROVE  SizeOf(m, s) = f[s]
  <2> DEFINE c == CHOOSE g : SumRec(g, s, m)
             P == {t \in SUBSET s : c[t] = f[t]}
  <2>1. IsFiniteSet(s) /\ Sized(m, s)
    BY FS_Subset DEF Sized
  <2>2. SumRec(c, s, m)
    BY <2>1, SumExists
  <2>3. SizeOf(m, s) = c[s]
    BY DEF SizeOf, FoldSet, MapThenFoldSet, SumRec
  <2> HIDE DEF c
  <2>4. ASSUME NEW t \in SUBSET s, \A x \in t : t \ {x} \in P
        PROVE  t \in P
    <3>1. CASE t = {}
      BY <2>2, <3>1 DEF SumRec
    <3>2. CASE t /= {}
      <4> DEFINE x == CHOOSE y \in t : TRUE
      <4>1. x \in t
        BY <3>2
      <4>2. c[t] = c[t \ {x}] + m[x].size /\ f[t] = f[t \ {x}] + m[x].size
        BY <2>2, <3>2 DEF SumRec
      <4>3. c[t \ {x}] = f[t \ {x}]
        BY <2>4, <4>1
      <4> QED BY <4>2, <4>3
    <3> QED BY <3>1, <3>2
  <2> HIDE DEF P
  <2>5. SUBSET s \subseteq P
    BY <2>1, <2>4, SetInduction
  <2> QED BY <2>3, <2>5 DEF P
<1> DEFINE Q == {t \in SUBSET S : f[t] \in Nat}
<1>2. ASSUME NEW t \in SUBSET S, \A x \in t : t \ {x} \in Q
      PROVE  t \in Q
  <2>1. CASE t = {}
    BY <2>1 DEF SumRec
  <2>2. CASE t /= {}
    <3> DEFINE x == CHOOSE y \in t : TRUE
    <3>1. x \in t
      BY <2>2
    <3>2. f[t] = f[t \ {x}] + m[x].size
      BY <2>2 DEF SumRec
    <3>3. f[t \ {x}] \in Nat /\ m[x].size \in Nat
      BY <1>2, <3>1 DEF Sized
    <3> QED BY <3>2, <3>3
  <2> QED BY <2>1, <2>2
<1> HIDE DEF Q
<1>3. SUBSET S \subseteq Q
  BY <1>2, SetInduction
<1> QED BY <1>1, <1>3 DEF Q

(* Any entry adds its size to that of the others.                          *)
LEMMA SizeStep ==
  ASSUME NEW S, IsFiniteSet(S), NEW m, Sized(m, S)
  PROVE  /\ SizeOf(m, S) \in Nat /\ SizeOf(m, {}) = 0
         /\ \A x \in S : SizeOf(m, S) = SizeOf(m, S \ {x}) + m[x].size
<1>1. PICK f : SumRec(f, S, m)
  BY SumExists
<1>2. \A s \in SUBSET S : f[s] \in Nat /\ SizeOf(m, s) = f[s]
  BY <1>1, SumIsSize
<1> DEFINE P == {s \in SUBSET S : \A x \in s : f[s] = f[s \ {x}] + m[x].size}
<1>3. ASSUME NEW s \in SUBSET S, \A x \in s : s \ {x} \in P
      PROVE  s \in P
  <2> SUFFICES ASSUME NEW x \in s PROVE f[s] = f[s \ {x}] + m[x].size
    OBVIOUS
  <2> DEFINE y == CHOOSE z \in s : TRUE
  <2>1. y \in s /\ f[s] = f[s \ {y}] + m[y].size
    BY <1>1 DEF SumRec
  <2> HIDE DEF y
  <2>2. CASE x = y
    BY <2>1, <2>2
  <2>3. CASE x /= y
    <3>1. s \ {y} \in P /\ s \ {x} \in P /\ x \in s \ {y} /\ y \in s \ {x}
      BY <1>3, <2>1, <2>3
    <3>2. f[s \ {y}] = f[(s \ {y}) \ {x}] + m[x].size
      BY <3>1
    <3>3. f[s \ {x}] = f[(s \ {x}) \ {y}] + m[y].size
      BY <3>1
    <3>4. (s \ {x}) \ {y} = (s \ {y}) \ {x}
      OBVIOUS
    <3>5. f[(s \ {y}) \ {x}] \in Nat /\ m[x].size \in Nat /\ m[y].size \in Nat
      BY <1>2, <2>1 DEF Sized
    <3> DEFINE u == f[(s \ {y}) \ {x}]
               a == m[x].size
               b == m[y].size
    <3>6. f[s] = (u + a) + b /\ f[s \ {x}] = u + b
      BY <2>1, <3>2, <3>3, <3>4
    <3> HIDE DEF u, a, b
    <3>7. u \in Nat /\ a \in Nat /\ b \in Nat
      BY <3>5 DEF u, a, b
    <3>8. f[s] = f[s \ {x}] + a
      BY <3>6, <3>7
    <3> QED BY <3>8 DEF a
  <2> QED BY <2>2, <2>3
<1> HIDE DEF P
<1>4. SUBSET S \subseteq P
  BY <1>3, SetInduction
<1>5. f[{}] = 0
  BY <1>1 DEF SumRec
<1>6. ASSUME NEW x \in S
      PROVE  SizeOf(m, S) = SizeOf(m, S \ {x}) + m[x].size
  <2>1. f[S] = f[S \ {x}] + m[x].size
    BY <1>4 DEF P
  <2>2. SizeOf(m, S) = f[S] /\ SizeOf(m, S \ {x}) = f[S \ {x}]
    BY <1>2
  <2> QED BY <2>1, <2>2
<1> QED BY <1>2, <1>5, <1>6

(* What is not looked at does not count, nor does the size 0.              *)
LEMMA SizeSame ==
  ASSUME NEW S, IsFiniteSet(S), NEW m, Sized(m, S), NEW n, \A k \in S : n[k].size = m[k].size
  PROVE  SizeOf(n, S) = SizeOf(m, S)
<1> DEFINE P == {s \in SUBSET S : SizeOf(n, s) = SizeOf(m, s)}
<1>1. ASSUME NEW s \in SUBSET S, \A x \in s : s \ {x} \in P
      PROVE  s \in P
  <2>1. IsFiniteSet(s) /\ Sized(m, s) /\ Sized(n, s)
    BY FS_Subset DEF Sized
  <2>2. CASE s = {}
    BY <2>1, <2>2, SizeStep
  <2>3. CASE s /= {}
    <3>1. PICK x \in s : TRUE
      BY <2>3
    <3>2. SizeOf(n, s) = SizeOf(n, s \ {x}) + n[x].size
      BY <2>1, SizeStep
    <3>3. SizeOf(m, s) = SizeOf(m, s \ {x}) + m[x].size
      BY <2>1, SizeStep
    <3> QED BY <1>1, <3>2, <3>3
  <2> QED BY <2>2, <2>3
<1> HIDE DEF P
<1>2. SUBSET S \subseteq P
  BY <1>1, SetInduction
<1> QED BY <1>2 DEF P

(* Two sets of entries without a common one have their sizes together.     *)
LEMMA SizeUnion ==
  ASSUME NEW S, IsFiniteSet(S), NEW T, IsFiniteSet(T), S \cap T = {},
         NEW m, Sized(m, S), Sized(m, T)
  PROVE  SizeOf(m, S \cup T) = SizeOf(m, S) + SizeOf(m, T)
<1> DEFINE P == {s \in SUBSET T : SizeOf(m, S \cup s) = SizeOf(m, S) + SizeOf(m, s)}
<1>1. ASSUME NEW s \in SUBSET T, \A x \in s : s \ {x} \in P
      PROVE  s \in P
  <2>1. IsFiniteSet(s) /\ Sized(m, s)
    BY FS_Subset DEF Sized
  <2>2. IsFiniteSet(S \cup s) /\ Sized(m, S \cup s)
    BY <2>1, FS_Union DEF Sized
  <2>3. SizeOf(m, S) \in Nat
    BY SizeStep
  <2>4. CASE s = {}
    <3>1. SizeOf(m, s) = 0 /\ S \cup s = S
      BY <2>1, <2>4, SizeStep
    <3> QED BY <2>3, <3>1
  <2>5. CASE s /= {}
    <3>1. PICK x \in s : TRUE
      BY <2>5
    <3>2. SizeOf(m, s) = SizeOf(m, s \ {x}) + m[x].size
      BY <2>1, SizeStep
    <3>3. SizeOf(m, S \cup s) = SizeOf(m, (S \cup s) \ {x}) + m[x].size
      BY <2>2, <3>1, SizeStep
    <3>4. (S \cup s) \ {x} = S \cup (s \ {x})
      BY <3>1
    <3>5. SizeOf(m, S \cup (s \ {x})) = SizeOf(m, S) + SizeOf(m, s \ {x})
      BY <1>1, <3>1
    <3>6. IsFiniteSet(s \ {x}) /\ Sized(m, s \ {x})
      BY <2>1, FS_Subset DEF Sized
    <3>7. SizeOf(m, s \ {x}) \in Nat /\ m[x].size \in Nat
      BY <2>1, <3>1, <3>6, SizeStep DEF Sized
    <3>8. SizeOf(m, S \cup s) = SizeOf(m, S) + SizeOf(m, s)
      BY <2>3, <3>2, <3>3, <3>4, <3>5, <3>7
    <3> QED BY <3>8
  <2> QED BY <2>4, <2>5
<1> HIDE DEF P
<1>2. SUBSET T \subseteq P
  BY <1>1, SetInduction
<1> QED BY <1>2 DEF P

-----------------------------------------------------------------------------
(* The entries and the counts.                                             *)

LEMMA EntryFacts ==
  ASSUME NEW m \in Maps, NEW k \in Keys
  PROVE  /\ m[k] \in EntryType /\ m[k].size \in Nat /\ m[k].useTime \in 0 .. MaxTime
         /\ m[k] = Absent => m[k].size = 0 /\ m[k].useTime = 0
         /\ m[k] /= Absent => m[k].useTime >= 1
<1>1. m[k] \in EntryType
  BY DEF Maps
<1>2. CASE m[k] = Absent
  BY <1>1, <1>2, PruningAssumption DEF Absent
<1>3. CASE m[k] \in [size : Sizes, useTime : 1 .. MaxTime]
  <2>1. m[k].size \in Nat /\ m[k].useTime \in 1 .. MaxTime /\ MaxTime \in Nat
    BY <1>3, PruningAssumption
  <2>2. m[k] /= Absent
    BY <2>1 DEF Absent
  <2> QED BY <1>1, <2>1, <2>2
<1> QED BY <1>1, <1>2, <1>3 DEF EntryType

LEMMA KeysFinite ==
  /\ IsFiniteSet(Keys) /\ Cardinality(Keys) \in Nat /\ MaxTime \in Nat \ {0}
  /\ \A s \in SUBSET Keys : IsFiniteSet(s) /\ Cardinality(s) \in 0 .. Cardinality(Keys)
<1>1. IsFiniteSet(Keys) /\ MaxTime \in Nat \ {0}
  BY PruningAssumption
<1>2. Cardinality(Keys) \in Nat
  BY <1>1, FS_CardinalityType
<1>3. ASSUME NEW s \in SUBSET Keys
      PROVE  IsFiniteSet(s) /\ Cardinality(s) \in 0 .. Cardinality(Keys)
  <2>1. IsFiniteSet(s) /\ Cardinality(s) <= Cardinality(Keys)
    BY <1>1, FS_Subset
  <2>2. Cardinality(s) \in Nat
    BY <2>1, FS_CardinalityType
  <2> QED BY <1>2, <2>1, <2>2
<1> QED BY <1>1, <1>2, <1>3

LEMMA SizedMap ==
  ASSUME NEW m \in Maps, NEW s \in SUBSET Keys
  PROVE  IsFiniteSet(s) /\ Sized(m, s)
  BY EntryFacts, KeysFinite DEF Sized

(* The absent have no size, so that the total is a sum over all keys.      *)
LEMMA SizeAll ==
  ASSUME NEW m \in Maps
  PROVE  SizeOf(m, Present(m)) = SizeOf(m, Keys) /\ SizeOf(m, Keys) \in Nat
<1> DEFINE A == Keys \ Present(m)
           P == {s \in SUBSET A : SizeOf(m, s) = 0}
<1>1. A \in SUBSET Keys /\ Present(m) \in SUBSET Keys /\ Keys = Present(m) \cup A
      /\ Present(m) \cap A = {}
  BY DEF Present
<1>2. \A k \in A : m[k].size = 0
  BY EntryFacts DEF Present
<1> HIDE DEF A
<1>3. ASSUME NEW s \in SUBSET A, \A x \in s : s \ {x} \in P
      PROVE  s \in P
  <2>1. IsFiniteSet(s) /\ Sized(m, s)
    BY <1>1, SizedMap
  <2>2. CASE s = {}
    BY <2>1, <2>2, SizeStep
  <2>3. CASE s /= {}
    <3>1. PICK x \in s : TRUE
      BY <2>3
    <3>2. SizeOf(m, s) = SizeOf(m, s \ {x}) + m[x].size
      BY <2>1, SizeStep
    <3>3. SizeOf(m, s \ {x}) = 0 /\ m[x].size = 0
      BY <1>2, <1>3
    <3> QED BY <3>2, <3>3
  <2> QED BY <2>2, <2>3
<1> HIDE DEF P
<1>4. IsFiniteSet(A) /\ Sized(m, A) /\ IsFiniteSet(Present(m)) /\ Sized(m, Present(m))
  BY <1>1, SizedMap
<1>5. SUBSET A \subseteq P
  BY <1>3, <1>4, SetInduction
<1>6. SizeOf(m, A) = 0
  BY <1>5 DEF P
<1>7. SizeOf(m, Present(m) \cup A) = SizeOf(m, Present(m)) + SizeOf(m, A)
  BY <1>1, <1>4, SizeUnion
<1>8. SizeOf(m, Present(m)) \in Nat
  BY <1>4, SizeStep
<1> QED BY <1>1, <1>6, <1>7, <1>8

(* An entry changes the total by the change of its size.                   *)
LEMMA SizeExcept ==
  ASSUME NEW m \in Maps, NEW k \in Keys, NEW n \in Maps,
         \A l \in Keys \ {k} : n[l].size = m[l].size
  PROVE  SizeOf(n, Present(n)) = SizeOf(m, Present(m)) + n[k].size - m[k].size
<1> DEFINE rest == Keys \ {k}
<1>1. rest \in SUBSET Keys /\ Keys \in SUBSET Keys
  OBVIOUS
<1>2. IsFiniteSet(Keys) /\ Sized(m, Keys) /\ Sized(n, Keys)
  BY <1>1, SizedMap
<1>3. IsFiniteSet(rest) /\ Sized(m, rest)
  BY <1>1, SizedMap
<1>4. SizeOf(n, rest) = SizeOf(m, rest) /\ SizeOf(m, rest) \in Nat
  BY <1>3, SizeSame, SizeStep
<1>5. SizeOf(n, Keys) = SizeOf(n, rest) + n[k].size
  BY <1>2, SizeStep
<1>6. SizeOf(m, Keys) = SizeOf(m, rest) + m[k].size
  BY <1>2, SizeStep
<1>7. n[k].size \in Nat /\ m[k].size \in Nat
  BY EntryFacts
<1>8. SizeOf(n, Present(n)) = SizeOf(n, Keys) /\ SizeOf(m, Present(m)) = SizeOf(m, Keys)
  BY SizeAll
<1> HIDE DEF rest
<1> QED BY <1>4, <1>5, <1>6, <1>7, <1>8

(* setMapEntry(), with a time that is not before the last one.             *)
LEMMA PutGood ==
  ASSUME NEW d, NEW t \in 1 .. MaxTime, DataGood(d, t), NEW k \in Keys, NEW s \in Sizes,
         NEW u \in t .. MaxTime
  PROVE  DataGood(setMapEntry(d, k, [size |-> s, useTime |-> u]), u)
<1> DEFINE e == [size |-> s, useTime |-> u]
           r == setMapEntry(d, k, e)
           n == [d.map EXCEPT ![k] = e]
           was == d.map[k]
           min == d.minimal
           A == UsedAt(d.map, u)
           B == UsedAt(n, u)
<1>1. d \in Data /\ d.map \in Maps /\ min \in [time : 0 .. MaxTime, count : 0 .. Cardinality(Keys)]
      /\ min.time <= t /\ t \in Nat /\ u \in Nat /\ t <= u /\ u >= 1 /\ MaxTime \in Nat
      /\ (min.time /= 0 <=> min.count > 0)
  BY KeysFinite DEF DataGood, Data
<1>2. e \in EntryType /\ e.size \in Nat /\ e.useTime = u
  BY <1>1, PruningAssumption DEF EntryType
<1>3. n \in Maps /\ n[k] = e /\ \A l \in Keys \ {k} : n[l] = d.map[l]
  BY <1>1, <1>2 DEF Maps
<1>4. r.map = n /\ r.total = d.total + e.size - was.size
  BY DEF setMapEntry
<1>5. r.total = SizeOf(n, Present(n)) /\ r.total \in Nat
  <2>1. SizeOf(n, Present(n)) = SizeOf(d.map, Present(d.map)) + n[k].size - was.size
    BY <1>1, <1>3, SizeExcept
  <2>2. SizeOf(n, Present(n)) \in Nat
    BY <1>3, SizeAll
  <2> QED BY <1>3, <1>4, <2>1, <2>2 DEF DataGood
<1>6. \A l \in Keys : n[l].useTime <= u
  <2>1. \A l \in Keys : d.map[l].useTime <= t /\ d.map[l].useTime \in Nat
    BY <1>1, EntryFacts DEF DataGood
  <2> QED BY <1>1, <1>2, <1>3, <2>1
<1>7. /\ A \in SUBSET Keys /\ B = A \cup {k}
      /\ IsFiniteSet(A) /\ IsFiniteSet(B)
      /\ Cardinality(A) \in Nat /\ Cardinality(B) \in 0 .. Cardinality(Keys)
      /\ Cardinality(B) = IF k \in A THEN Cardinality(A) ELSE Cardinality(A) + 1
  <2>1. A \in SUBSET Keys /\ B = A \cup {k} /\ B \in SUBSET Keys
    BY <1>2, <1>3 DEF UsedAt
  <2> HIDE DEF A, B
  <2>2. IsFiniteSet(A) /\ IsFiniteSet(B) /\ Cardinality(A) \in Nat
        /\ Cardinality(B) \in 0 .. Cardinality(Keys)
    BY <2>1, KeysFinite
  <2>3. Cardinality(B) = IF k \in A THEN Cardinality(A) ELSE Cardinality(A) + 1
    BY <2>1, <2>2, FS_AddElement
  <2> QED BY <2>1, <2>2, <2>3
<1>8. k \in A <=> was.useTime = u
  BY DEF UsedAt
<1>9. min.time = u => min.count <= Cardinality(A)
  BY <1>1 DEF DataGood
<1>10. /\ r.minimal \in [time : 0 .. MaxTime, count : 0 .. Cardinality(Keys)]
       /\ r.minimal.time /= 0 <=> r.minimal.count > 0
       /\ r.minimal.time <= u
       /\ r.minimal.time = u => r.minimal.count <= Cardinality(B)
  <2>1. Cardinality(Keys) \in Nat
    BY KeysFinite
  <2>2. k \in B
    BY <1>7
  <2>3. Cardinality(B) >= 1
    <3>1. Cardinality(B) /= 0
      BY <1>7, <2>2, FS_EmptySet
    <3> QED BY <1>7, <2>1, <3>1
  <2>4. r.minimal = IF u < min.time \/ min.time = 0 THEN [time |-> u, count |-> 1]
                    ELSE IF was.useTime = u THEN min
                    ELSE IF u = min.time THEN [min EXCEPT !.count = @ + 1]
                    ELSE IF was.useTime = min.time THEN Forget(min) ELSE min
    BY <1>2 DEF setMapEntry
  <2> HIDE DEF r, A, B, n, was, min
  <2>5. CASE u < min.time \/ min.time = 0
    BY <1>1, <1>7, <2>1, <2>3, <2>4, <2>5
  <2>6. CASE ~(u < min.time \/ min.time = 0) /\ was.useTime = u
    BY <1>1, <1>7, <1>8, <1>9, <2>1, <2>4, <2>6
  <2>7. CASE ~(u < min.time \/ min.time = 0) /\ was.useTime /= u /\ u = min.time
    <3>1. r.minimal.time = u /\ r.minimal.count = min.count + 1
          /\ r.minimal = [time |-> u, count |-> min.count + 1]
      BY <1>1, <2>4, <2>7
    <3>2. min.count + 1 <= Cardinality(B) /\ min.count \in Nat
      BY <1>1, <1>7, <1>8, <1>9, <2>1, <2>7
    <3>3. min.count + 1 \in 0 .. Cardinality(Keys)
      BY <1>7, <2>1, <3>2
    <3> QED BY <1>1, <3>1, <3>2, <3>3
  <2>8. CASE ~(u < min.time \/ min.time = 0) /\ was.useTime /= u /\ u /= min.time
             /\ was.useTime = min.time
    BY <1>1, <2>1, <2>4, <2>8 DEF Forget
  <2>9. CASE ~(u < min.time \/ min.time = 0) /\ was.useTime /= u /\ u /= min.time
             /\ was.useTime /= min.time
    BY <1>1, <2>1, <2>4, <2>9
  <2> QED BY <2>5, <2>6, <2>7, <2>8, <2>9
<1>11. r = [map |-> r.map, total |-> r.total, minimal |-> r.minimal]
  BY DEF setMapEntry
<1>12. r \in Data
  <2> HIDE DEF r, n
  <2> QED BY <1>3, <1>4, <1>5, <1>10, <1>11 DEF Data
<1>13. DataGood(r, u)
  <2> HIDE DEF r, n, A
  <2> QED BY <1>4, <1>5, <1>6, <1>10, <1>12 DEF DataGood
<1> QED BY <1>13

(* eraseMapEntry()                                                         *)
LEMMA EraseGood ==
  ASSUME NEW d, NEW t \in 1 .. MaxTime, DataGood(d, t), NEW k \in Keys
  PROVE  /\ DataGood(eraseMapEntry(d, k), t)
         /\ eraseMapEntry(d, k).map = [d.map EXCEPT ![k] = Absent]
<1> DEFINE r == eraseMapEntry(d, k)
           n == [d.map EXCEPT ![k] = Absent]
           was == d.map[k]
           min == d.minimal
           A == UsedAt(d.map, t)
           B == UsedAt(n, t)
<1>1. d \in Data /\ d.map \in Maps /\ min \in [time : 0 .. MaxTime, count : 0 .. Cardinality(Keys)]
      /\ min.time <= t /\ t \in Nat /\ t >= 1 /\ MaxTime \in Nat
      /\ (min.time /= 0 <=> min.count > 0)
  BY KeysFinite DEF DataGood, Data
<1>2. n \in Maps /\ n[k] = Absent /\ \A l \in Keys \ {k} : n[l] = d.map[l]
  BY <1>1 DEF Maps, EntryType
<1>3. Absent.size = 0 /\ Absent.useTime = 0
  BY DEF Absent
<1>4. r.map = n /\ r.total = d.total - was.size
  BY DEF eraseMapEntry
<1>5. r.total = SizeOf(n, Present(n)) /\ r.total \in Nat
  <2>1. SizeOf(n, Present(n)) = SizeOf(d.map, Present(d.map)) + n[k].size - was.size
    BY <1>1, <1>2, SizeExcept
  <2>2. SizeOf(n, Present(n)) \in Nat /\ SizeOf(d.map, Present(d.map)) \in Nat
    BY <1>1, <1>2, SizeAll
  <2>3. was.size \in Nat
    BY <1>1, EntryFacts
  <2> QED BY <1>2, <1>3, <1>4, <2>1, <2>2, <2>3 DEF DataGood
<1>6. \A l \in Keys : n[l].useTime <= t
  <2>1. \A l \in Keys : d.map[l].useTime <= t
    BY DEF DataGood
  <2> QED BY <1>1, <1>2, <1>3, <2>1
<1>7. /\ IsFiniteSet(A) /\ Cardinality(A) \in Nat
      /\ Cardinality(B) = IF k \in A THEN Cardinality(A) - 1 ELSE Cardinality(A)
  <2>1. A \in SUBSET Keys /\ B = A \ {k}
    BY <1>1, <1>2, <1>3 DEF UsedAt
  <2> HIDE DEF A, B
  <2>2. IsFiniteSet(A) /\ Cardinality(A) \in Nat
    BY <2>1, KeysFinite
  <2> QED BY <2>1, <2>2, FS_RemoveElement
<1>8. k \in A <=> was.useTime = t
  BY DEF UsedAt
<1>9. min.time = t => min.count <= Cardinality(A)
  BY DEF DataGood
<1>10. /\ r.minimal \in [time : 0 .. MaxTime, count : 0 .. Cardinality(Keys)]
       /\ r.minimal.time /= 0 <=> r.minimal.count > 0
       /\ r.minimal.time <= t
       /\ r.minimal.time = t => r.minimal.count <= Cardinality(B)
  <2>1. Cardinality(Keys) \in Nat
    BY KeysFinite
  <2>2. r.minimal = IF min.time /= 0 /\ was.useTime = min.time THEN Forget(min) ELSE min
    BY DEF eraseMapEntry
  <2> HIDE DEF r, A, B, n, was, min
  <2>3. CASE ~(min.time /= 0 /\ was.useTime = min.time)
    BY <1>1, <1>7, <1>8, <1>9, <2>2, <2>3
  <2>4. CASE min.time /= 0 /\ was.useTime = min.time /\ min.count = 1
    BY <1>1, <2>1, <2>2, <2>4 DEF Forget
  <2>5. CASE min.time /= 0 /\ was.useTime = min.time /\ min.count /= 1
    <3>1. r.minimal = [time |-> min.time, count |-> min.count - 1]
      BY <1>1, <2>2, <2>5 DEF Forget
    <3>2. min.count \in Nat /\ min.count > 1 /\ min.count <= Cardinality(Keys)
      BY <1>1, <2>1, <2>5
    <3>3. min.count - 1 \in 0 .. Cardinality(Keys)
      BY <2>1, <3>2
    <3> QED BY <1>1, <1>7, <1>8, <1>9, <2>5, <3>1, <3>2, <3>3
  <2> QED BY <2>3, <2>4, <2>5
<1>11. r = [map |-> r.map, total |-> r.total, minimal |-> r.minimal]
  BY DEF eraseMapEntry
<1>12. r \in Data
  <2> HIDE DEF r, n
  <2> QED BY <1>2, <1>4, <1>5, <1>10, <1>11 DEF Data
<1>13. DataGood(r, t)
  <2> HIDE DEF r, n, A
  <2> QED BY <1>4, <1>5, <1>6, <1>10, <1>12 DEF DataGood
<1> QED BY <1>4, <1>13

(* removeAll() takes the keys out of the map and keeps the counts right.   *)
Erased(m, s) == [k \in Keys |-> IF k \in s THEN Absent ELSE m[k]]

EraseRec(f, S, d) ==
  f = [s \in SUBSET S |-> IF s = {} THEN d
                          ELSE eraseMapEntry(f[s \ {CHOOSE y \in s : TRUE}],
                                             CHOOSE y \in s : TRUE)]

LEMMA EraseOne ==
  ASSUME NEW d, NEW t \in 1 .. MaxTime, NEW m \in Maps, NEW s \in SUBSET Keys, NEW x \in s,
         DataGood(d, t), d.map = Erased(m, s \ {x})
  PROVE  DataGood(eraseMapEntry(d, x), t) /\ eraseMapEntry(d, x).map = Erased(m, s)
<1>1. DataGood(eraseMapEntry(d, x), t) /\ eraseMapEntry(d, x).map = [d.map EXCEPT ![x] = Absent]
  BY EraseGood
<1>2. [Erased(m, s \ {x}) EXCEPT ![x] = Absent] = Erased(m, s)
  BY DEF Erased
<1> QED BY <1>1, <1>2

LEMMA EraseExists ==
  ASSUME NEW S \in SUBSET Keys, NEW d, NEW t \in 1 .. MaxTime, DataGood(d, t)
  PROVE  \E f : EraseRec(f, S, d)
<1> DEFINE goes == (SUBSET S) \ {{}}
           pick == [s \in SUBSET S |-> CHOOSE y \in s : TRUE]
           G == [s \in SUBSET S |-> [u \in Data |-> eraseMapEntry(u, pick[s])]]
           base == [s \in SUBSET S |-> d]
           W == [s \in SUBSET S |-> {u \in Data : DataGood(u, t) /\ u.map = Erased(d.map, s)}]
<1>0. IsFiniteSet(S)
  BY KeysFinite
<1>1. \A s \in SUBSET S : s \in goes => pick[s] \in s
  OBVIOUS
<1>2. d \in Data /\ d.map \in Maps
  BY DEF DataGood, Data
<1>3. \A s \in SUBSET S : s \notin goes => base[s] \in W[s]
  <2>1. d.map = Erased(d.map, {})
    BY <1>2 DEF Erased, Maps
  <2> QED BY <1>2, <2>1
<1>4. ASSUME NEW s \in SUBSET S, s \in goes
      PROVE  \A u \in W[s \ {pick[s]}] : G[s][u] \in W[s]
  <2> SUFFICES ASSUME NEW u \in W[s \ {pick[s]}] PROVE G[s][u] \in W[s]
    OBVIOUS
  <2>1. pick[s] \in s /\ s \in SUBSET Keys /\ s \ {pick[s]} \in SUBSET S
    BY <1>1, <1>4
  <2> HIDE DEF pick
  <2>2. u \in Data /\ DataGood(u, t) /\ u.map = Erased(d.map, s \ {pick[s]})
    BY <2>1
  <2>3. G[s][u] = eraseMapEntry(u, pick[s])
    BY <2>2
  <2>4. DataGood(eraseMapEntry(u, pick[s]), t)
        /\ eraseMapEntry(u, pick[s]).map = Erased(d.map, s)
    <3> DEFINE m == d.map
               x == pick[s]
    <3>1. m \in Maps /\ x \in s /\ u.map = Erased(m, s \ {x})
      BY <1>2, <2>1, <2>2
    <3> HIDE DEF m, x
    <3>2. DataGood(eraseMapEntry(u, x), t) /\ eraseMapEntry(u, x).map = Erased(m, s)
      BY <2>1, <2>2, <3>1, EraseOne
    <3> QED BY <3>2 DEF m, x
  <2>5. eraseMapEntry(u, pick[s]) \in Data
    BY <2>4 DEF DataGood
  <2> HIDE DEF G
  <2> QED BY <2>3, <2>4, <2>5
<1> HIDE DEF goes, pick, G, base, W
<1>5. PICK f : IsRec(f, S, goes, pick, G, base) /\ \A s \in SUBSET S : f[s] \in W[s]
  BY <1>0, <1>1, <1>3, <1>4, Recursion
<1>6. \A s \in SUBSET S : f[s] \in Data
  BY <1>5 DEF W
<1>7. ASSUME NEW s \in SUBSET S
      PROVE  f[s] = IF s = {} THEN d ELSE eraseMapEntry(f[s \ {CHOOSE y \in s : TRUE}],
                                                        CHOOSE y \in s : TRUE)
  <2>1. CASE s = {}
    BY <1>5, <2>1 DEF IsRec, goes, base
  <2>2. CASE s /= {}
    <3>1. f[s] = G[s][f[s \ {pick[s]}]]
      BY <1>5, <2>2 DEF IsRec, goes
    <3>2. G[s][f[s \ {pick[s]}]] = eraseMapEntry(f[s \ {pick[s]}], pick[s])
      BY <1>6 DEF G
    <3> QED BY <2>2, <3>1, <3>2 DEF pick
  <2> QED BY <2>1, <2>2
<1>8. f = [s \in SUBSET S |-> f[s]]
  BY <1>5 DEF IsRec
<1> QED BY <1>7, <1>8 DEF EraseRec

LEMMA RemoveAllGood ==
  ASSUME NEW d, NEW t \in 1 .. MaxTime, DataGood(d, t), NEW keys \in SUBSET Keys
  PROVE  DataGood(removeAll(d, keys), t) /\ removeAll(d, keys).map = Erased(d.map, keys)
<1> DEFINE S == keys \cap Present(d.map)
           c == CHOOSE g : EraseRec(g, S, d)
           P == {s \in SUBSET S : DataGood(c[s], t) /\ c[s].map = Erased(d.map, s)}
<1>1. S \in SUBSET Keys /\ d.map \in Maps
  BY DEF DataGood, Data
<1>2. EraseRec(c, S, d)
  <2> HIDE DEF S
  <2> QED BY <1>1, EraseExists
<1>3. removeAll(d, keys) = c[S]
  BY DEF removeAll, FoldSet, MapThenFoldSet, EraseRec
<1> HIDE DEF c, S
<1>4. ASSUME NEW s \in SUBSET S, \A x \in s : s \ {x} \in P
      PROVE  s \in P
  <2>1. CASE s = {}
    <3>1. c[s] = d
      BY <1>2, <2>1 DEF EraseRec
    <3>2. Erased(d.map, s) = d.map
      BY <1>1, <2>1 DEF Erased, Maps
    <3> QED BY <3>1, <3>2
  <2>2. CASE s /= {}
    <3> DEFINE x == CHOOSE y \in s : TRUE
    <3>1. x \in s
      BY <2>2
    <3>2. c[s] = eraseMapEntry(c[s \ {x}], x)
      BY <1>2, <2>2 DEF EraseRec
    <3>3. DataGood(c[s \ {x}], t) /\ c[s \ {x}].map = Erased(d.map, s \ {x})
      BY <1>4, <3>1
    <3> HIDE DEF x
    <3>4. s \in SUBSET Keys
      BY <1>1
    <3>5. DataGood(c[s], t) /\ c[s].map = Erased(d.map, s)
      BY <1>1, <3>1, <3>2, <3>3, <3>4, EraseOne
    <3> QED BY <3>5
  <2> QED BY <2>1, <2>2
<1> HIDE DEF P
<1>5. IsFiniteSet(S)
  BY <1>1, KeysFinite
<1>6. SUBSET S \subseteq P
  BY <1>4, <1>5, SetInduction
<1>7. DataGood(c[S], t) /\ c[S].map = Erased(d.map, S)
  BY <1>6 DEF P
<1>8. Erased(d.map, S) = Erased(d.map, keys)
  BY DEF Erased, S, Present
<1> QED BY <1>3, <1>7, <1>8

-----------------------------------------------------------------------------
(* The walk over the map.                                                  *)

(* The size that has to go for the limit.                                  *)
ToRemove == total - TotalSize(TimeStale) - TotalSizeLimit

WalkRec(f, order, R) ==
  f = [s \in SUBSET (DOMAIN order) |->
         IF s = {} THEN {}
         ELSE IF order[Max(s)] \in TimeStale THEN f[s \ {Max(s)}]
         ELSE Consider(f[s \ {Max(s)}], order[Max(s)], R, order)]

LEMMA SizeStaleIs ==
  ASSUME NEW order, ~(ToRemove <= 0)
  PROVE  SizeStale(order) = (CHOOSE f : WalkRec(f, order, ToRemove))[DOMAIN order]
  BY DEF SizeStale, ToRemove, SeqExt!FoldLeft, SeqExt!MapThenFoldSet, SeqExt!Max, WalkRec, Max

(* Where a key comes in the walk.                                          *)
Position(order, k) == CHOOSE i \in DOMAIN order : order[i] = k

LEMMA OrderFacts ==
  ASSUME map \in Maps, NEW order \in Orders
  PROVE  /\ Present(map) \in SUBSET Keys
         /\ DOMAIN order = 1 .. Cardinality(Present(map)) /\ IsFiniteSet(DOMAIN order)
         /\ \A i \in DOMAIN order : order[i] \in Present(map) /\ Position(order, order[i]) = i
         /\ \A k \in Present(map) : Position(order, k) \in DOMAIN order
                                    /\ order[Position(order, k)] = k
<1> DEFINE n == Cardinality(Present(map))
<1>1. Present(map) \in SUBSET Keys
  BY DEF Present
<1>2. n \in Nat
  BY <1>1, KeysFinite
<1>3. /\ order \in [1 .. n -> Present(map)]
      /\ \A i, j \in DOMAIN order : order[i] = order[j] => i = j
      /\ \A k \in Present(map) : \E i \in 1 .. n : order[i] = k
  BY DEF Orders, Bijection, Injection, Surjection, IsInjective
<1>4. DOMAIN order = 1 .. n /\ IsFiniteSet(1 .. n)
  BY <1>2, <1>3, FS_Interval
<1> HIDE DEF n
<1>5. \A k \in Present(map) : Position(order, k) \in DOMAIN order
                               /\ order[Position(order, k)] = k
  BY <1>3, <1>4 DEF Position
<1>6. \A i \in DOMAIN order : order[i] \in Present(map)
  BY <1>3, <1>4
<1>7. \A i \in DOMAIN order : Position(order, order[i]) = i
  BY <1>3, <1>5, <1>6
<1> QED BY <1>1, <1>4, <1>5, <1>6, <1>7 DEF n

(* Ahead is a strict order of the keys in the map.                         *)
LEMMA AheadIs ==
  ASSUME map \in Maps, NEW order \in Orders, NEW k \in Present(map), NEW l \in Present(map)
  PROVE  /\ map[k].useTime \in Nat /\ map[l].useTime \in Nat
         /\ Position(order, k) \in Nat /\ Position(order, l) \in Nat
         /\ Position(order, k) = Position(order, l) => k = l
         /\ Ahead(k, l, order) <=> \/ map[k].useTime > map[l].useTime
                                   \/ /\ map[k].useTime = map[l].useTime
                                      /\ Position(order, k) < Position(order, l)
<1>1. map[k].useTime \in Nat /\ map[l].useTime \in Nat
  BY EntryFacts, KeysFinite DEF Present
<1>2. /\ Position(order, k) \in DOMAIN order /\ order[Position(order, k)] = k
      /\ Position(order, l) \in DOMAIN order /\ order[Position(order, l)] = l
      /\ \A i \in DOMAIN order : Position(order, order[i]) = i
  BY OrderFacts
<1>3. Position(order, k) \in Nat /\ Position(order, l) \in Nat
  <2>1. DOMAIN order = 1 .. Cardinality(Present(map)) /\ Cardinality(Present(map)) \in Nat
    BY OrderFacts, KeysFinite
  <2> QED BY <1>2, <2>1
<1>4. (\E i, j \in DOMAIN order : i < j /\ order[i] = k /\ order[j] = l)
        <=> Position(order, k) < Position(order, l)
  BY <1>2
<1> QED BY <1>1, <1>2, <1>3, <1>4 DEF Ahead

LEMMA FirstExists ==
  ASSUME map \in Maps, NEW order \in Orders, NEW S \in SUBSET Present(map), S /= {}
  PROVE  \E k \in S : \A l \in S \ {k} : Ahead(k, l, order)
<1> DEFINE Leader(s) == \E k \in s : \A l \in s \ {k} : Ahead(k, l, order)
           P == {s \in SUBSET S : s /= {} => Leader(s)}
<1>1. ASSUME NEW s \in SUBSET S, \A x \in s : s \ {x} \in P, s /= {}
      PROVE  Leader(s)
  <2>1. PICK x \in s : TRUE
    BY <1>1
  <2>2. CASE s = {x}
    BY <2>2
  <2>3. CASE s /= {x}
    <3>1. PICK k \in s \ {x} : \A l \in (s \ {x}) \ {k} : Ahead(k, l, order)
      BY <1>1, <2>1, <2>3
    <3>2. k \in Present(map) /\ x \in Present(map) /\ k /= x
      BY <2>1, <3>1
    <3>3. CASE Ahead(k, x, order)
      BY <3>1, <3>3
    <3>4. CASE ~Ahead(k, x, order)
      <4>1. Ahead(x, k, order)
        BY <3>2, <3>4, AheadIs
      <4>2. ASSUME NEW l \in s \ {x}
            PROVE  Ahead(x, l, order)
        <5>1. CASE l = k
          BY <4>1, <5>1
        <5>2. CASE l /= k
          <6>1. Ahead(k, l, order) /\ l \in Present(map)
            BY <3>1, <5>2
          <6> QED BY <3>2, <4>1, <6>1, AheadIs
        <5> QED BY <5>1, <5>2
      <4> QED BY <2>1, <4>2
    <3> QED BY <3>3, <3>4
  <2> QED BY <2>2, <2>3
<1>2. \A s \in SUBSET S : (\A x \in s : s \ {x} \in P) => s \in P
  BY <1>1
<1>3. IsFiniteSet(S)
  BY OrderFacts, KeysFinite
<1> HIDE DEF P
<1>4. SUBSET S \subseteq P
  BY <1>2, <1>3, SetInduction
<1> QED BY <1>4 DEF P

LEMMA FirstIs ==
  ASSUME map \in Maps, NEW order \in Orders, NEW S \in SUBSET Present(map)
  PROVE  /\ S /= {} => /\ First(S, order) \in S
                       /\ \A l \in S : map[l].useTime <= map[First(S, order)].useTime
         /\ \A k \in S : (\A l \in S \ {k} : Ahead(k, l, order)) => First(S, order) = k
<1>1. ASSUME S /= {}
      PROVE  First(S, order) \in S /\ \A l \in S \ {First(S, order)} : Ahead(First(S, order), l, order)
  BY <1>1, FirstExists DEF First
<1>2. ASSUME S /= {}, NEW l \in S
      PROVE  map[l].useTime <= map[First(S, order)].useTime
  <2> DEFINE f == First(S, order)
  <2>1. f \in S /\ (l /= f => Ahead(f, l, order))
    BY <1>1, <1>2
  <2> HIDE DEF f
  <2>2. f \in Present(map) /\ l \in Present(map)
    BY <2>1
  <2>3. map[l].useTime <= map[f].useTime
    BY <2>1, <2>2, AheadIs
  <2> QED BY <2>3 DEF f
<1>3. ASSUME NEW k \in S, \A l \in S \ {k} : Ahead(k, l, order)
      PROVE  First(S, order) = k
  <2> DEFINE f == First(S, order)
  <2>1. f \in S /\ (k /= f => Ahead(f, k, order)) /\ (k /= f => Ahead(k, f, order))
    BY <1>1, <1>3
  <2> HIDE DEF f
  <2>2. f \in Present(map) /\ k \in Present(map)
    BY <2>1
  <2>3. f = k
    BY <2>1, <2>2, AheadIs
  <2> QED BY <2>3 DEF f
<1> QED BY <1>1, <1>2, <1>3

LEMMA TotalFacts ==
  ASSUME map \in Maps, NEW S \in SUBSET Keys
  PROVE  /\ TotalSize(S) \in Nat /\ TotalSize({}) = 0
         /\ \A x \in S : TotalSize(S) = TotalSize(S \ {x}) + map[x].size
         /\ \A x \in Keys \ S : TotalSize(S \cup {x}) = TotalSize(S) + map[x].size
         /\ \A A \in SUBSET S : TotalSize(S) = TotalSize(A) + TotalSize(S \ A)
<1>1. IsFiniteSet(S) /\ Sized(map, S)
  BY SizedMap
<1>2. /\ TotalSize(S) \in Nat /\ TotalSize({}) = 0
      /\ \A x \in S : TotalSize(S) = TotalSize(S \ {x}) + map[x].size
  BY <1>1, SizeStep DEF TotalSize
<1>3. ASSUME NEW x \in Keys \ S
      PROVE  TotalSize(S \cup {x}) = TotalSize(S) + map[x].size
  <2> DEFINE U == S \cup {x}
  <2>1. U \in SUBSET Keys /\ x \in U /\ U \ {x} = S
    OBVIOUS
  <2> HIDE DEF U
  <2>2. IsFiniteSet(U) /\ Sized(map, U)
    BY <2>1, SizedMap
  <2>3. TotalSize(U) = TotalSize(U \ {x}) + map[x].size
    BY <2>1, <2>2, SizeStep DEF TotalSize
  <2> QED BY <2>1, <2>3 DEF U
<1>4. ASSUME NEW A \in SUBSET S
      PROVE  TotalSize(S) = TotalSize(A) + TotalSize(S \ A)
  <2> DEFINE B == S \ A
  <2>1. A \in SUBSET Keys /\ B \in SUBSET Keys /\ A \cap B = {} /\ S = A \cup B
    OBVIOUS
  <2> HIDE DEF B
  <2>2. IsFiniteSet(A) /\ Sized(map, A) /\ IsFiniteSet(B) /\ Sized(map, B)
    BY <2>1, SizedMap
  <2>3. TotalSize(A \cup B) = TotalSize(A) + TotalSize(B)
    BY <2>1, <2>2, SizeUnion DEF TotalSize
  <2> QED BY <2>1, <2>3 DEF B
<1> QED BY <1>2, <1>3, <1>4

LEMMA TotalLess ==
  ASSUME map \in Maps, NEW S \in SUBSET Keys, NEW A \in SUBSET S
  PROVE  TotalSize(A) <= TotalSize(S)
<1>1. TotalSize(S) = TotalSize(A) + TotalSize(S \ A)
  BY TotalFacts
<1>2. A \in SUBSET Keys /\ S \ A \in SUBSET Keys
  OBVIOUS
<1>3. TotalSize(A) \in Nat /\ TotalSize(S \ A) \in Nat
  BY <1>2, TotalFacts
<1> QED BY <1>1, <1>3

(* What is left of the chosen keys S for the entry k: nothing more can be  *)
(* removed, and what was removed is not needed.                            *)
LeftFor(left, S, k, R, order) ==
  /\ left \in SUBSET S
  /\ left = {} \/ ~canRemoveFirst(left, k, R, order)
  /\ left /= S => TotalSize(left) + map[k].size >= R /\ First(S, order) \notin left
  /\ \A x \in S \ left : /\ map[k].useTime <= map[x].useTime
                         /\ \A l \in left : map[l].useTime <= map[x].useTime

DropRec(f, S, k, R, order) ==
  f = [o \in SUBSET S |-> IF o /= {} /\ canRemoveFirst(o, k, R, order)
                            THEN f[o \ {First(o, order)}] ELSE o]

LEMMA WithoutFirstLeaves ==
  ASSUME map \in Maps, NEW order \in Orders, NEW S \in SUBSET Present(map),
         NEW k \in Present(map), NEW R \in Int
  PROVE  LeftFor(WithoutFirst(S, k, R, order), S, k, R, order)
<1> DEFINE goes == {o \in SUBSET S : o /= {} /\ canRemoveFirst(o, k, R, order)}
           pick == [o \in SUBSET S |-> First(o, order)]
           G == [o \in SUBSET S |-> [u \in SUBSET S |-> u]]
           base == [o \in SUBSET S |-> o]
           W == [o \in SUBSET S |-> SUBSET S]
           c == CHOOSE f : DropRec(f, S, k, R, order)
           P == {o \in SUBSET S : LeftFor(c[o], o, k, R, order)}
<1>1. S \in SUBSET Keys /\ IsFiniteSet(S) /\ \A o \in SUBSET S : o \in SUBSET Present(map)
  BY OrderFacts, KeysFinite
<1>2. \A o \in SUBSET S : o /= {} =>
        First(o, order) \in o /\ \A l \in o : map[l].useTime <= map[First(o, order)].useTime
  BY <1>1, FirstIs
<1>3. DropRec(c, S, k, R, order)
  <2>1. \A o \in SUBSET S : o \in goes => pick[o] \in o
    BY <1>2
  <2>2. \A o \in SUBSET S : o \notin goes => base[o] \in W[o]
    OBVIOUS
  <2>3. \A o \in SUBSET S : o \in goes => \A u \in W[o \ {pick[o]}] : G[o][u] \in W[o]
    <3> SUFFICES ASSUME NEW o \in SUBSET S, NEW u \in W[o \ {pick[o]}] PROVE G[o][u] \in W[o]
      OBVIOUS
    <3>1. o \ {pick[o]} \in SUBSET S
      OBVIOUS
    <3> HIDE DEF pick
    <3> QED BY <3>1
  <2> HIDE DEF goes, pick, G, base, W
  <2>4. PICK f : IsRec(f, S, goes, pick, G, base) /\ \A o \in SUBSET S : f[o] \in W[o]
    BY <1>1, <2>1, <2>2, <2>3, Recursion
  <2>5. ASSUME NEW o \in SUBSET S
        PROVE  f[o] = IF o /= {} /\ canRemoveFirst(o, k, R, order)
                        THEN f[o \ {First(o, order)}] ELSE o
    <3>1. CASE o \in goes
      <4>1. f[o] = G[o][f[o \ {pick[o]}]]
        BY <2>4, <3>1 DEF IsRec
      <4>2. f[o \ {pick[o]}] \in SUBSET S
        BY <2>4 DEF W
      <4>3. f[o] = f[o \ {pick[o]}]
        BY <4>1, <4>2 DEF G
      <4> QED BY <3>1, <4>3 DEF goes, pick
    <3>2. CASE o \notin goes
      <4>1. f[o] = base[o]
        BY <2>4, <3>2 DEF IsRec
      <4> QED BY <3>2, <4>1 DEF goes, base
    <3> QED BY <3>1, <3>2
  <2>6. f = [o \in SUBSET S |-> f[o]]
    BY <2>4 DEF IsRec
  <2>7. DropRec(f, S, k, R, order)
    BY <2>5, <2>6 DEF DropRec
  <2> QED BY <2>7
<1>4. WithoutFirst(S, k, R, order) = c[S]
  BY DEF WithoutFirst, DropRec
<1> HIDE DEF c
<1>5. ASSUME NEW o \in SUBSET S, \A x \in o : o \ {x} \in P
      PROVE  o \in P
  <2>1. CASE ~(o /= {} /\ canRemoveFirst(o, k, R, order))
    <3>1. c[o] = o
      BY <1>3, <2>1 DEF DropRec
    <3>2. LeftFor(o, o, k, R, order)
      BY <2>1 DEF LeftFor
    <3> QED BY <3>1, <3>2
  <2>2. CASE o /= {} /\ canRemoveFirst(o, k, R, order)
    <3> DEFINE x == First(o, order)
               rest == o \ {x}
               left == c[o]
    <3>1. x \in o /\ \A l \in o : map[l].useTime <= map[x].useTime
      BY <1>2, <2>2
    <3>2. left = c[rest]
      BY <1>3, <2>2 DEF DropRec
    <3>3. LeftFor(left, rest, k, R, order)
      BY <1>5, <3>1, <3>2
    <3>4. map[k].useTime <= map[x].useTime
          /\ TotalSize(o) + map[k].size - R >= map[x].size
      BY <2>2 DEF canRemoveFirst
    <3>5. TotalSize(o) = TotalSize(rest) + map[x].size
      <4>1. o \in SUBSET Keys
        BY <1>1
      <4> QED BY <3>1, <4>1, TotalFacts
    <3>6. TotalSize(rest) \in Nat /\ map[x].size \in Nat /\ map[k].size \in Nat
      <4>1. rest \in SUBSET Keys /\ x \in Keys /\ k \in Keys
        BY <1>1, <3>1 DEF Present
      <4> QED BY <4>1, TotalFacts, EntryFacts
    <3> HIDE DEF x, left
    <3>7. left = rest => TotalSize(left) + map[k].size >= R
      BY <3>4, <3>5, <3>6
    <3>8. x \notin left /\ left \in SUBSET o
      BY <3>3 DEF LeftFor
    <3>9. TotalSize(left) + map[k].size >= R /\ First(o, order) \notin left
      BY <3>3, <3>7, <3>8 DEF LeftFor, x
    <3>10. ASSUME NEW y \in o \ left
           PROVE  map[k].useTime <= map[y].useTime /\ \A l \in left : map[l].useTime <= map[y].useTime
      <4>1. CASE y = x
        BY <3>1, <3>4, <3>8, <4>1
      <4>2. CASE y /= x
        BY <3>3, <4>2 DEF LeftFor
      <4> QED BY <4>1, <4>2
    <3>11. left = {} \/ ~canRemoveFirst(left, k, R, order)
      BY <3>3 DEF LeftFor
    <3>12. LeftFor(left, o, k, R, order)
      BY <3>8, <3>9, <3>10, <3>11 DEF LeftFor
    <3> QED BY <3>12 DEF left
  <2> QED BY <2>1, <2>2
<1> HIDE DEF P
<1>6. SUBSET S \subseteq P
  BY <1>1, <1>5, SetInduction
<1> QED BY <1>4, <1>6 DEF P

(* The loop has walked over the keys S and chosen C: enough of them or all *)
(* of them, no newer ones than those passed over, and not enough without   *)
(* the first.                                                              *)
LoopInv(C, S, R, order) ==
  /\ C \in SUBSET S
  /\ TotalSize(C) >= R \/ C = S
  /\ \A k \in C, l \in S \ C : map[k].useTime <= map[l].useTime
  /\ C /= {} => TotalSize(C \ {First(C, order)}) < R

LEMMA ConsiderKeeps ==
  ASSUME map \in Maps, NEW order \in Orders, NEW S \in SUBSET Present(map),
         NEW k \in Present(map) \ S,
         \A l \in S : Position(order, l) < Position(order, k),
         NEW R \in Int, R > 0, NEW C, LoopInv(C, S, R, order)
  PROVE  LoopInv(Consider(C, k, R, order), S \cup {k}, R, order)
<1> DEFINE T == S \cup {k}
           first == First(C, order)
           left == WithoutFirst(C, k, R, order)
           D == left \cup {k}
<1>1. /\ C \in SUBSET S /\ C \in SUBSET Present(map) /\ C \in SUBSET Keys /\ k \notin C
      /\ k \in Keys /\ T \in SUBSET Keys
  BY DEF LoopInv, Present
<1>2. TotalSize(C) \in Nat /\ map[k].size \in Nat /\ map[k].useTime \in Nat
      /\ \A l \in S : map[l].useTime \in Nat
  BY <1>1, TotalFacts, EntryFacts DEF Present
<1>3. C /= {} => first \in C /\ \A l \in C : map[l].useTime <= map[first].useTime
  BY <1>1, FirstIs
<1>4. LeftFor(left, C, k, R, order)
  BY <1>1, WithoutFirstLeaves
<1>5. left \in SUBSET C /\ left \in SUBSET Present(map) /\ left \in SUBSET Keys /\ k \notin left
      /\ TotalSize(left) \in Nat /\ TotalSize(left) <= TotalSize(C)
      /\ TotalSize(D) = TotalSize(left) + map[k].size
  <2>1. left \in SUBSET C
    BY <1>4 DEF LeftFor
  <2> HIDE DEF left
  <2> QED BY <1>1, <2>1, TotalFacts, TotalLess
<1> HIDE DEF first, left
<1>6. CASE TotalSize(C) < R \/ map[k].useTime < map[first].useTime
  <2>1. Consider(C, k, R, order) = D
    BY <1>6 DEF Consider, first, left
  <2>2. ASSUME NEW l \in S \ C
        PROVE  map[k].useTime <= map[l].useTime
    <3>1. TotalSize(C) >= R
      BY <2>2 DEF LoopInv
    <3>2. C /= {}
      BY <3>1, TotalFacts
    <3>3. map[k].useTime < map[first].useTime
      BY <1>2, <1>6, <3>1
    <3>4. map[first].useTime <= map[l].useTime /\ first \in S
      BY <1>1, <1>3, <2>2, <3>2 DEF LoopInv
    <3> QED BY <1>2, <3>3, <3>4
  <2>3. D \in SUBSET T
    BY <1>1, <1>5
  <2>4. TotalSize(D) >= R \/ D = T
    <3>1. CASE left = C
      BY <1>2, <1>5, <3>1 DEF LoopInv
    <3>2. CASE left /= C
      BY <1>4, <1>5, <3>2 DEF LeftFor
    <3> QED BY <3>1, <3>2
  <2>5. ASSUME NEW x \in D, NEW l \in T \ D
        PROVE  map[x].useTime <= map[l].useTime
    <3>1. l \in S
      BY <2>5
    <3>2. CASE l \in C
      <4>1. l \in C \ left
        BY <2>5, <3>2
      <4> QED BY <1>4, <4>1 DEF LeftFor
    <3>3. CASE l \notin C
      <4>1. CASE x = k
        BY <2>2, <3>1, <3>3, <4>1
      <4>2. CASE x \in left
        BY <1>5, <3>1, <3>3, <4>2 DEF LoopInv
      <4> QED BY <4>1, <4>2
    <3> QED BY <3>2, <3>3
  <2>6. TotalSize(D \ {First(D, order)}) < R
    <3>0. D \in SUBSET Present(map) /\ D \in SUBSET Keys
      BY <1>1, <1>5
    <3>1. CASE left = {}
      <4>1. First(D, order) = k /\ D \ {k} = {}
        <5>1. \A l \in D \ {k} : Ahead(k, l, order)
          BY <3>1
        <5> QED BY <3>0, <3>1, <5>1, FirstIs
      <4>2. TotalSize(D \ {First(D, order)}) = 0
        BY <1>1, <4>1, TotalFacts
      <4> QED BY <4>2
    <3>2. CASE left /= {}
      <4> DEFINE f == First(left, order)
      <4>1. f \in left /\ \A l \in left : map[l].useTime <= map[f].useTime
        BY <1>5, <3>2, FirstIs
      <4>2. f \in S /\ f \in Keys /\ map[f].useTime \in Nat /\ map[f].size \in Nat /\ f /= k
        BY <1>1, <1>2, <1>5, <4>1, EntryFacts
      <4>3. ~(map[k].useTime <= map[f].useTime
              /\ TotalSize(left) + map[k].size - R >= map[f].size)
        BY <1>4, <3>2 DEF LeftFor, canRemoveFirst
      <4>4. CASE map[k].useTime > map[f].useTime
        <5>1. \A l \in left : Ahead(k, l, order)
          <6>1. \A l \in left : map[l].useTime \in Nat
            BY <1>1, <1>2, <1>5
          <6> QED BY <1>2, <4>1, <4>2, <4>4, <6>1 DEF Ahead
        <5>2. \A l \in D \ {k} : Ahead(k, l, order)
          BY <5>1
        <5>3. First(D, order) = k
          BY <3>0, <5>2, FirstIs
        <5>4. D \ {k} = left
          BY <1>5
        <5>5. TotalSize(left) < R
          <6>1. CASE left = C
            <7>1. f = first
              BY <6>1 DEF first
            <7> QED BY <1>2, <1>5, <1>6, <4>2, <4>4, <6>1, <7>1
          <6>2. CASE left /= C
            <7>1. left \in SUBSET (C \ {first})
              BY <1>4, <1>5, <6>2 DEF LeftFor, first
            <7>2. C \ {first} \in SUBSET Keys
              BY <1>1
            <7>3. TotalSize(left) <= TotalSize(C \ {first}) /\ TotalSize(C \ {first}) \in Nat
              BY <7>1, <7>2, TotalLess, TotalFacts
            <7>4. C /= {}
              BY <1>5, <3>2
            <7>5. TotalSize(C \ {first}) < R
              BY <7>4 DEF LoopInv, first
            <7> QED BY <1>5, <7>3, <7>5
          <6> QED BY <6>1, <6>2
        <5> HIDE DEF f
        <5> QED BY <5>3, <5>4, <5>5
      <4>5. CASE map[k].useTime <= map[f].useTime
        <5>1. Ahead(f, k, order)
          <6>1. f \in Present(map) /\ k \in Present(map)
            BY <4>2
          <6>2. Position(order, f) < Position(order, k)
            BY <4>2
          <6> HIDE DEF f
          <6> QED BY <4>5, <6>1, <6>2, AheadIs
        <5>2. \A l \in D \ {f} : Ahead(f, l, order)
          <6>1. \A l \in left \ {f} : Ahead(f, l, order)
            BY <1>5, <3>2, FirstExists DEF First
          <6> QED BY <5>1, <6>1
        <5>3. First(D, order) = f
          <6>1. f \in D
            BY <4>1
          <6> HIDE DEF f
          <6> QED BY <3>0, <5>2, <6>1, FirstIs
        <5> HIDE DEF f
        <5>4. TotalSize(D) = TotalSize(D \ {f}) + map[f].size
          BY <3>0, <4>1, TotalFacts
        <5>5. TotalSize(D \ {f}) \in Nat
          <6>1. D \ {f} \in SUBSET Keys
            BY <3>0
          <6> QED BY <6>1, TotalFacts
        <5>6. TotalSize(D \ {f}) < R
          BY <1>2, <1>5, <4>2, <4>3, <4>5, <5>4, <5>5
        <5> QED BY <5>3, <5>6
      <4> QED BY <1>2, <4>2, <4>4, <4>5
    <3> QED BY <3>1, <3>2
  <2> HIDE DEF D, T
  <2>7. LoopInv(D, T, R, order)
    BY <2>3, <2>4, <2>5, <2>6 DEF LoopInv
  <2> QED BY <2>1, <2>7 DEF T
<1>7. CASE ~(TotalSize(C) < R \/ map[k].useTime < map[first].useTime)
  <2>1. Consider(C, k, R, order) = C
    BY <1>7 DEF Consider, first
  <2>2. TotalSize(C) >= R
    BY <1>2, <1>7
  <2>3. C /= {}
    BY <2>2, TotalFacts
  <2>4. ASSUME NEW x \in C, NEW l \in T \ C
        PROVE  map[x].useTime <= map[l].useTime
    <3>1. CASE l = k
      <4>1. map[x].useTime <= map[first].useTime /\ first \in S /\ x \in S
        BY <1>1, <1>3, <2>3
      <4> QED BY <1>2, <1>7, <3>1, <4>1
    <3>2. CASE l /= k
      BY <2>4, <3>2 DEF LoopInv
    <3> QED BY <3>1, <3>2
  <2>5. C \in SUBSET T /\ TotalSize(C \ {First(C, order)}) < R
    BY <1>1, <2>3 DEF LoopInv
  <2> HIDE DEF T
  <2>6. LoopInv(C, T, R, order)
    BY <2>2, <2>4, <2>5 DEF LoopInv
  <2> QED BY <2>1, <2>6 DEF T
<1> QED BY <1>6, <1>7

LEMMA MaxOf ==
  ASSUME NEW n \in Nat, NEW s \in SUBSET (1 .. n), s /= {}
  PROVE  Max(s) \in s /\ \A i \in s : i <= Max(s)
<1> DEFINE T == {n - i : i \in s}
<1>1. T \subseteq Nat /\ T /= {}
  <2>1. \A i \in s : n - i \in Nat
    OBVIOUS
  <2> QED BY <2>1
<1>2. Least(T) \in T /\ \A m \in T : Least(T) <= m
  BY <1>1, LeastOf
<1>3. PICK j \in s : Least(T) = n - j
  BY <1>2
<1>4. \A i \in s : n - j <= n - i
  BY <1>2, <1>3
<1>5. \A i \in s : j >= i
  BY <1>4
<1>6. Max(s) \in s /\ \A i \in s : Max(s) >= i
  BY <1>5 DEF Max
<1> QED BY <1>6

(* The keys that the walk has come past in the places s.                   *)
Walked(order, s) == {order[i] : i \in s} \ TimeStale

WalkOn(C, k, R, order) == IF k \in TimeStale THEN C ELSE Consider(C, k, R, order)

LEMMA WalkStep ==
  ASSUME map \in Maps, NEW order \in Orders, NEW R \in Int, R > 0,
         NEW s \in SUBSET (DOMAIN order), s /= {},
         NEW C, LoopInv(C, Walked(order, s \ {Max(s)}), R, order)
  PROVE  Max(s) \in s /\ LoopInv(WalkOn(C, order[Max(s)], R, order), Walked(order, s), R, order)
<1> DEFINE j == Max(s)
           k == order[j]
           S == Walked(order, s \ {j})
<1>1. DOMAIN order = 1 .. Cardinality(Present(map)) /\ Cardinality(Present(map)) \in Nat
  BY OrderFacts, KeysFinite
<1>2. j \in s /\ \A i \in s : i <= j
  BY <1>1, MaxOf
<1> HIDE DEF j
<1>3. j \in DOMAIN order /\ k \in Present(map) /\ Position(order, k) = j
  BY <1>2, OrderFacts
<1>4. CASE k \in TimeStale
  <2>1. Walked(order, s) = S
    BY <1>2, <1>4 DEF Walked
  <2> QED BY <1>2, <1>4, <2>1 DEF WalkOn, j
<1>5. CASE k \notin TimeStale
  <2>1. Walked(order, s) = S \cup {k}
    BY <1>2, <1>5 DEF Walked
  <2>2. \A i \in s \ {j} : order[i] \in Present(map) /\ Position(order, order[i]) = i
    BY OrderFacts
  <2>3. \A i \in s \ {j} : i < j
    <3>1. s \subseteq Nat
      BY <1>1
    <3> QED BY <1>2, <3>1
  <2>4. S \in SUBSET Present(map) /\ \A l \in S : Position(order, l) < Position(order, k)
    BY <1>3, <2>2, <2>3 DEF Walked
  <2>5. k \notin S
    <3>1. \A l \in S : Position(order, l) \in s \ {j}
      BY <2>2 DEF Walked
    <3> QED BY <1>3, <3>1
  <2>6. LoopInv(C, S, R, order)
    BY DEF j
  <2> HIDE DEF S, k
  <2>7. LoopInv(Consider(C, k, R, order), S \cup {k}, R, order)
    BY <1>3, <2>4, <2>5, <2>6, ConsiderKeeps
  <2> QED BY <1>2, <1>5, <2>1, <2>7 DEF WalkOn, j, k
<1> QED BY <1>4, <1>5

LEMMA WalkStarts ==
  ASSUME map \in Maps, NEW order, NEW R \in Int, R > 0
  PROVE  LoopInv({}, Walked(order, {}), R, order)
<1>1. Walked(order, {}) = {}
  BY DEF Walked
<1> QED BY <1>1 DEF LoopInv

LEMMA WalkExists ==
  ASSUME map \in Maps, NEW order \in Orders, NEW R \in Int, R > 0
  PROVE  \E f : WalkRec(f, order, R)
<1> DEFINE S == DOMAIN order
           goes == (SUBSET S) \ {{}}
           pick == [s \in SUBSET S |-> Max(s)]
           G == [s \in SUBSET S |-> [u \in SUBSET Keys |-> WalkOn(u, order[pick[s]], R, order)]]
           base == [s \in SUBSET S |-> {}]
           W == [s \in SUBSET S |-> {u \in SUBSET Keys : LoopInv(u, Walked(order, s), R, order)}]
<1>1. IsFiniteSet(S) /\ \A s \in SUBSET S : Walked(order, s) \in SUBSET Keys
  BY OrderFacts DEF Walked
<1>2. \A s \in SUBSET S : s \in goes => pick[s] \in s
  <2>1. S = 1 .. Cardinality(Present(map)) /\ Cardinality(Present(map)) \in Nat
    BY OrderFacts, KeysFinite
  <2> HIDE DEF S
  <2> QED BY <2>1, MaxOf
<1>3. \A s \in SUBSET S : s \notin goes => base[s] \in W[s]
  BY WalkStarts
<1>4. ASSUME NEW s \in SUBSET S, s \in goes
      PROVE  \A u \in W[s \ {pick[s]}] : G[s][u] \in W[s]
  <2> SUFFICES ASSUME NEW u \in W[s \ {pick[s]}] PROVE G[s][u] \in W[s]
    OBVIOUS
  <2>1. s \in SUBSET (DOMAIN order) /\ s /= {} /\ s \ {pick[s]} \in SUBSET S
    BY <1>4
  <2>2. u \in SUBSET Keys /\ LoopInv(u, Walked(order, s \ {pick[s]}), R, order)
    BY <2>1
  <2>3. G[s][u] = WalkOn(u, order[pick[s]], R, order)
    BY <2>2
  <2>4. pick[s] = Max(s)
    OBVIOUS
  <2> HIDE DEF pick, G
  <2>5. LoopInv(WalkOn(u, order[Max(s)], R, order), Walked(order, s), R, order)
    BY <2>1, <2>2, <2>4, WalkStep
  <2>6. LoopInv(G[s][u], Walked(order, s), R, order)
    BY <2>3, <2>4, <2>5
  <2>7. G[s][u] \in SUBSET Keys
    BY <1>1, <2>6 DEF LoopInv
  <2> QED BY <2>6, <2>7
<1> HIDE DEF goes, pick, G, base, W
<1>5. PICK f : IsRec(f, S, goes, pick, G, base) /\ \A s \in SUBSET S : f[s] \in W[s]
  BY <1>1, <1>2, <1>3, <1>4, Recursion
<1>6. \A s \in SUBSET S : f[s] \in SUBSET Keys
  BY <1>5 DEF W
<1>7. ASSUME NEW s \in SUBSET S
      PROVE  f[s] = IF s = {} THEN {}
                    ELSE IF order[Max(s)] \in TimeStale THEN f[s \ {Max(s)}]
                    ELSE Consider(f[s \ {Max(s)}], order[Max(s)], R, order)
  <2>1. CASE s = {}
    BY <1>5, <2>1 DEF IsRec, goes, base
  <2>2. CASE s /= {}
    <3>1. f[s] = G[s][f[s \ {pick[s]}]]
      BY <1>5, <2>2 DEF IsRec, goes
    <3>2. G[s][f[s \ {pick[s]}]] = WalkOn(f[s \ {pick[s]}], order[pick[s]], R, order)
      BY <1>6 DEF G
    <3>3. pick[s] = Max(s)
      BY DEF pick
    <3> QED BY <2>2, <3>1, <3>2, <3>3 DEF WalkOn
  <2> QED BY <2>1, <2>2
<1>8. f = [s \in SUBSET S |-> f[s]]
  BY <1>5 DEF IsRec
<1>9. f = [s \in SUBSET S |-> IF s = {} THEN {}
                             ELSE IF order[Max(s)] \in TimeStale THEN f[s \ {Max(s)}]
                             ELSE Consider(f[s \ {Max(s)}], order[Max(s)], R, order)]
  BY <1>7, <1>8, Zenon
<1> QED BY <1>9 DEF WalkRec

(* What collectSizeStale() comes to.                                       *)
LEMMA SizeStaleTakes ==
  ASSUME map \in Maps, NEW order \in Orders, ToRemove \in Int
  PROVE  IF ToRemove <= 0 THEN SizeStale(order) = {}
         ELSE LoopInv(SizeStale(order), Present(map) \ TimeStale, ToRemove, order)
<1>1. CASE ToRemove <= 0
  BY <1>1 DEF SizeStale, ToRemove
<1>2. CASE ~(ToRemove <= 0)
  <2> DEFINE c == CHOOSE f : WalkRec(f, order, ToRemove)
             S == DOMAIN order
             P == {s \in SUBSET S : LoopInv(c[s], Walked(order, s), ToRemove, order)}
  <2>1. ToRemove \in Int /\ ToRemove > 0
    BY <1>2
  <2>2. SizeStale(order) = c[S]
    BY <1>2, SizeStaleIs
  <2> HIDE DEF ToRemove
  <2>3. WalkRec(c, order, ToRemove)
    <3>1. \E f : WalkRec(f, order, ToRemove)
      BY <2>1, WalkExists
    <3> QED BY <3>1
  <2> HIDE DEF c
  <2>4. ASSUME NEW s \in SUBSET S, \A x \in s : s \ {x} \in P
        PROVE  s \in P
    <3>1. CASE s = {}
      <4>1. c[s] = {}
        BY <2>3, <3>1 DEF WalkRec
      <4>2. LoopInv({}, Walked(order, {}), ToRemove, order)
        BY <2>1, WalkStarts
      <4> QED BY <3>1, <4>1, <4>2
    <3>2. CASE s /= {}
      <4>1. Max(s) \in s
        <5>1. S = 1 .. Cardinality(Present(map)) /\ Cardinality(Present(map)) \in Nat
          BY OrderFacts, KeysFinite
        <5> HIDE DEF S
        <5> QED BY <3>2, <5>1, MaxOf
      <4>2. c[s] = WalkOn(c[s \ {Max(s)}], order[Max(s)], ToRemove, order)
        BY <2>3, <3>2 DEF WalkRec, WalkOn
      <4>3. LoopInv(c[s \ {Max(s)}], Walked(order, s \ {Max(s)}), ToRemove, order)
        BY <2>4, <4>1
      <4>4. LoopInv(WalkOn(c[s \ {Max(s)}], order[Max(s)], ToRemove, order),
                    Walked(order, s), ToRemove, order)
        BY <2>1, <3>2, <4>3, WalkStep
      <4> QED BY <4>2, <4>4
    <3> QED BY <3>1, <3>2
  <2> HIDE DEF P
  <2>5. SUBSET S \subseteq P
    <3>1. IsFiniteSet(S)
      BY OrderFacts
    <3> HIDE DEF S
    <3> QED BY <2>4, <3>1, SetInduction
  <2>6. LoopInv(c[S], Walked(order, S), ToRemove, order)
    BY <2>5 DEF P
  <2>7. Walked(order, S) = Present(map) \ TimeStale
    BY OrderFacts DEF Walked
  <2> QED BY <1>2, <2>2, <2>6, <2>7
<1> QED BY <1>1, <1>2

-----------------------------------------------------------------------------
(* The actions keep the invariant.                                         *)

(* writeMultiAccessBlock() changes times only.                             *)
LEMMA AccessGood ==
  ASSUME NEW d, NEW t \in 1 .. MaxTime, DataGood(d, t), NEW u \in t .. MaxTime, NEW keys, NEW n,
         n = [k \in Keys |-> IF k \in keys /\ d.map[k] /= Absent
                               THEN [d.map[k] EXCEPT !.useTime = u] ELSE d.map[k]]
  PROVE  DataGood([d EXCEPT !.map = n], u)
<1> DEFINE r == [d EXCEPT !.map = n]
           m == d.map
<1>1. /\ d \in Data /\ m \in Maps /\ t \in Nat /\ u \in Nat /\ u \in 1 .. MaxTime /\ t <= u
      /\ d.minimal \in [time : 0 .. MaxTime, count : 0 .. Cardinality(Keys)]
  BY KeysFinite DEF DataGood, Data
<1>2. r \in [map : {n}, total : {d.total}, minimal : {d.minimal}]
      /\ r.map = n /\ r.total = d.total /\ r.minimal = d.minimal
  BY <1>1 DEF Data
<1>3. ASSUME NEW k \in Keys
      PROVE  /\ n[k] \in EntryType /\ n[k].size = m[k].size /\ (n[k] = Absent <=> m[k] = Absent)
             /\ n[k].useTime \in {m[k].useTime, u}
  <2>1. m[k] \in EntryType
    BY <1>1, EntryFacts
  <2>2. CASE ~(k \in keys /\ m[k] /= Absent)
    BY <2>1, <2>2
  <2>3. CASE k \in keys /\ m[k] /= Absent
    <3>1. m[k] \in [size : Sizes, useTime : 1 .. MaxTime]
      BY <2>1, <2>3 DEF EntryType
    <3>2. n[k] = [m[k] EXCEPT !.useTime = u]
      BY <2>3
    <3>3. n[k] \in [size : Sizes, useTime : 1 .. MaxTime] /\ n[k].size = m[k].size
          /\ n[k].useTime = u
      BY <1>1, <3>1, <3>2
    <3>4. n[k] /= Absent
      BY <1>1, <3>3 DEF Absent
    <3> QED BY <2>3, <3>3, <3>4 DEF EntryType
  <2> QED BY <2>2, <2>3
<1>4. n \in Maps /\ Present(n) = Present(m)
  <2>1. DOMAIN n = Keys /\ n = [k \in Keys |-> n[k]]
    OBVIOUS
  <2> QED BY <1>3, <2>1 DEF Maps, Present
<1>5. SizeOf(n, Present(n)) = SizeOf(m, Present(m))
  <2>1. IsFiniteSet(Present(m)) /\ Sized(m, Present(m)) /\ Present(m) \in SUBSET Keys
    BY <1>1, SizedMap DEF Present
  <2>2. \A k \in Present(m) : n[k].size = m[k].size
    BY <1>3, <2>1
  <2>3. SizeOf(n, Present(m)) = SizeOf(m, Present(m))
    BY <2>1, <2>2, SizeSame
  <2> QED BY <1>4, <2>3
<1>6. \A k \in Keys : n[k].useTime <= u
  <2> SUFFICES ASSUME NEW k \in Keys PROVE n[k].useTime <= u
    OBVIOUS
  <2>1. m[k].useTime \in Nat /\ m[k].useTime <= t
    BY <1>1, EntryFacts, KeysFinite DEF DataGood
  <2> QED BY <1>1, <1>3, <2>1
<1>7. ASSUME d.minimal.time = u
      PROVE  d.minimal.count <= Cardinality(UsedAt(n, u))
  <2>1. d.minimal.time <= t /\ t = u
    BY <1>1, <1>7 DEF DataGood
  <2>2. UsedAt(m, u) \in SUBSET UsedAt(n, u) /\ UsedAt(n, u) \in SUBSET Keys
    <3>1. ASSUME NEW k \in Keys, m[k].useTime = u PROVE n[k].useTime = u
      BY <1>3, <3>1
    <3> QED BY <3>1 DEF UsedAt
  <2>3. Cardinality(UsedAt(m, u)) <= Cardinality(UsedAt(n, u))
    BY <2>2, KeysFinite, FS_Subset
  <2>4. d.minimal.count <= Cardinality(UsedAt(m, u))
    BY <1>7, <2>1 DEF DataGood
  <2>5. Cardinality(UsedAt(m, u)) \in Nat /\ Cardinality(UsedAt(n, u)) \in Nat
        /\ d.minimal.count \in Nat
    <3>1. UsedAt(m, u) \in SUBSET Keys
      BY <2>2
    <3> QED BY <1>1, <2>2, <3>1, KeysFinite
  <2> QED BY <2>3, <2>4, <2>5
<1>8. r \in Data
  <2> HIDE DEF r
  <2> QED BY <1>1, <1>2, <1>4 DEF Data
<1>9. d.minimal.time <= u
  BY <1>1 DEF DataGood
<1>10. DataGood(r, u)
  <2> HIDE DEF r
  <2> QED BY <1>2, <1>5, <1>6, <1>7, <1>8, <1>9 DEF DataGood
<1> QED BY <1>10

(* collectTimeStale() counts anew, if it looks at all.                     *)
LEMMA RecountGood ==
  ASSUME NEW t \in 1 .. MaxTime, DataGood(Entries, t)
  PROVE  DataGood([Entries EXCEPT !.minimal = Recounted], t)
<1> DEFINE left == {map[k].useTime : k \in Present(map) \ TimeStale}
           min == Least(left)
           A == {k \in Present(map) : map[k].useTime = min}
           r == [Entries EXCEPT !.minimal = Recounted]
<1>1. /\ map \in Maps /\ total \in Nat /\ t \in Nat
      /\ minimal \in [time : 0 .. MaxTime, count : 0 .. Cardinality(Keys)]
      /\ Present(map) \in SUBSET Keys
      /\ \A k \in Keys : map[k].useTime <= t
  BY KeysFinite DEF DataGood, Data, Entries, Present
<1>2. r = [map |-> map, total |-> total, minimal |-> Recounted]
  BY DEF Entries
<1>3. /\ Recounted \in [time : 0 .. MaxTime, count : 0 .. Cardinality(Keys)]
      /\ Recounted.time /= 0 <=> Recounted.count > 0
      /\ Recounted.time <= t
      /\ Recounted.time = t => Recounted.count <= Cardinality(UsedAt(map, t))
  <2>1. CASE ~TimeIsUp
    <3>1. Recounted = minimal
      BY <2>1 DEF Recounted
    <3> QED BY <1>1, <3>1 DEF DataGood, Entries
  <2>2. CASE TimeIsUp /\ left = {}
    <3>1. Recounted = [time |-> 0, count |-> 0]
      BY <2>2 DEF Recounted
    <3> QED BY <1>1, <3>1, KeysFinite
  <2>3. CASE TimeIsUp /\ left /= {}
    <3>1. Recounted = [time |-> min, count |-> Cardinality(A)]
      BY <2>3 DEF Recounted, Least
    <3>2. left \subseteq 1 .. MaxTime
      <4>1. \A k \in Present(map) : map[k].useTime \in 1 .. MaxTime
        BY <1>1, EntryFacts, KeysFinite DEF Present
      <4> QED BY <4>1
    <3>3. min \in left
      <4>1. left \subseteq Nat
        BY <3>2
      <4> HIDE DEF left
      <4> QED BY <2>3, <4>1, LeastOf
    <3>4. PICK k \in Present(map) : map[k].useTime = min
      BY <3>3
    <3>5. min \in 1 .. MaxTime /\ min <= t
      BY <1>1, <3>2, <3>3, <3>4
    <3> HIDE DEF min, left
    <3>6. A \in SUBSET Keys /\ A /= {} /\ (min = t => A \subseteq UsedAt(map, t))
      BY <1>1, <3>4 DEF UsedAt
    <3> HIDE DEF A
    <3>7. IsFiniteSet(A) /\ Cardinality(A) \in 0 .. Cardinality(Keys) /\ Cardinality(A) /= 0
          /\ Cardinality(Keys) \in Nat
      BY <3>6, KeysFinite, FS_EmptySet
    <3>8. min = t => Cardinality(A) <= Cardinality(UsedAt(map, t))
      <4>1. IsFiniteSet(UsedAt(map, t))
        BY KeysFinite DEF UsedAt
      <4> QED BY <3>6, <4>1, FS_Subset
    <3> QED BY <3>1, <3>5, <3>7, <3>8
  <2> QED BY <2>1, <2>2, <2>3
<1> HIDE DEF r
<1>4. r \in Data
  BY <1>1, <1>2, <1>3 DEF Data
<1>5. DataGood(r, t)
  BY <1>1, <1>2, <1>3, <1>4 DEF DataGood, Entries
<1> QED BY <1>5 DEF r

(* What is left to show of a step.                                         *)
LEMMA StepGood ==
  ASSUME DataGood(Entries, time)', now' \in 1 .. MaxTime, time' \in 1 .. now',
         accessed' \subseteq Keys, Cardinality(accessed') < MaxBundledRecords,
         timer' \in BOOLEAN, clearing' \in BOOLEAN, stale' \subseteq Keys, fresh' \subseteq Keys,
         stale' \cap fresh' = {}, stale' /= {} => clearing'
  PROVE  IInv'
<1>1. (map \in Maps)' /\ (total \in Nat)'
      /\ (minimal \in [time : 0 .. MaxTime, count : 0 .. Cardinality(Keys)])'
  BY DEF DataGood, Data, Entries
<1>2. TypeOK'
  BY <1>1 DEF TypeOK, Maps, EntryType
<1> QED BY <1>2 DEF IInv, PutIsKept, StaleIsWatched

LEMMA BecomeGood ==
  ASSUME NEW d, NEW t, DataGood(d, t), Become(d), time' = t
  PROVE  DataGood(Entries, time)'
<1>1. d = [map |-> d.map, total |-> d.total, minimal |-> d.minimal]
  BY DEF DataGood, Data
<1>2. Entries' = d
  BY <1>1 DEF Become, Entries
<1> QED BY <1>2

LEMMA Facts ==
  ASSUME IInv
  PROVE  /\ map \in Maps /\ total \in Nat /\ DataGood(Entries, time) /\ Entries.map = map
         /\ now \in 1 .. MaxTime /\ time \in 1 .. now /\ time \in 1 .. MaxTime
         /\ time \in Nat /\ now \in Nat /\ MaxTime \in Nat /\ now \in time .. MaxTime
         /\ accessed \subseteq Keys /\ Cardinality(accessed) < MaxBundledRecords
         /\ timer \in BOOLEAN /\ clearing \in BOOLEAN /\ stale \subseteq Keys
         /\ fresh \subseteq Keys /\ stale \cap fresh = {} /\ (stale /= {} => clearing)
  BY KeysFinite DEF IInv, TypeOK, Maps, EntryType, PutIsKept, StaleIsWatched, Entries

LEMMA InitGood == Init => IInv
<1> SUFFICES ASSUME Init PROVE IInv
  OBVIOUS
<1> USE DEF Init
<1>1. map \in Maps /\ Present(map) = {} /\ \A k \in Keys : map[k].useTime = 0
  BY DEF Maps, EntryType, Present, Absent
<1>2. SizeOf(map, Present(map)) = 0
  <2>1. IsFiniteSet({}) /\ Sized(map, {})
    BY FS_EmptySet DEF Sized
  <2> QED BY <1>1, <2>1, SizeStep
<1>3. Entries \in Data
  <2>1. 0 \in 0 .. MaxTime /\ 0 \in 0 .. Cardinality(Keys)
    BY KeysFinite
  <2> QED BY <1>1, <2>1 DEF Data, Entries
<1>4. DataGood(Entries, time)
  BY <1>1, <1>2, <1>3 DEF DataGood, Entries
<1>5. TypeOK
  <2>1. Cardinality({}) = 0 /\ MaxBundledRecords \in Nat \ {0}
    BY FS_EmptySet, PruningAssumption
  <2>2. 1 \in 1 .. MaxTime
    BY KeysFinite
  <2>3. (map \in Maps) /\ (total \in Nat)
        /\ (minimal \in [time : 0 .. MaxTime, count : 0 .. Cardinality(Keys)])
    BY <1>1, <1>3 DEF Data, Entries
  <2>4. accessed \subseteq Keys /\ Cardinality(accessed) < MaxBundledRecords
    BY <2>1
  <2>5. {timer, clearing} \subseteq BOOLEAN /\ stale \subseteq Keys /\ fresh \subseteq Keys
    OBVIOUS
  <2>6. now \in 1 .. MaxTime /\ time \in 1 .. now
    BY <2>2
  <2> QED BY <2>3, <2>4, <2>5, <2>6 DEF TypeOK, Maps, EntryType
<1> QED BY <1>4, <1>5 DEF IInv, PutIsKept, StaleIsWatched

LEMMA StepPut ==
  ASSUME IInv, NEW k \in Keys, NEW s \in Sizes, Put(k, s)
  PROVE  IInv'
<1> DEFINE t == IF now - time < WriteBundleDelay THEN time ELSE now
           d == setMapEntry(Entries, k, [size |-> s, useTime |-> t])
<1>1. t \in time .. MaxTime /\ t \in 1 .. now
  BY Facts
<1>2. Become(d) /\ time' = t /\ stale' = stale \ {k} /\ fresh' = fresh \cup {k}
      /\ timer' = (timer \/ Present(d.map) /= {}) /\ UNCHANGED <<now, accessed, clearing>>
  BY DEF Put, optimize
<1> HIDE DEF t
<1>3. DataGood(d, t)
  BY <1>1, Facts, PutGood
<1> HIDE DEF d
<1>4. DataGood(Entries, time)'
  BY <1>2, <1>3, BecomeGood
<1>5. now' \in 1 .. MaxTime /\ time' \in 1 .. now' /\ accessed' \subseteq Keys
      /\ Cardinality(accessed') < MaxBundledRecords /\ timer' \in BOOLEAN
      /\ clearing' \in BOOLEAN /\ stale' \subseteq Keys /\ fresh' \subseteq Keys
      /\ stale' \cap fresh' = {} /\ (stale' /= {} => clearing')
  BY <1>1, <1>2, Facts
<1> QED BY <1>4, <1>5, StepGood

(* The accesses are written.                                               *)
LEMMA WriteGood ==
  ASSUME IInv, NEW keys, WriteAccessed(keys), UNCHANGED <<total, minimal>>
  PROVE  DataGood(Entries, time)' /\ accessed' = {} /\ time' = now
<1> DEFINE e == Entries
           n == [k \in Keys |-> IF k \in keys /\ e.map[k] /= Absent
                                  THEN [e.map[k] EXCEPT !.useTime = now] ELSE e.map[k]]
<1>1. time' = now /\ accessed' = {} /\ map' = n
  BY DEF WriteAccessed, Entries
<1>2. Entries' = [e EXCEPT !.map = n]
  BY <1>1 DEF Entries
<1>3. time \in 1 .. MaxTime /\ DataGood(e, time) /\ now \in time .. MaxTime
  BY Facts
<1> HIDE DEF e
<1>4. DataGood([e EXCEPT !.map = n], now)
  BY <1>3, AccessGood
<1> HIDE DEF n
<1> QED BY <1>1, <1>2, <1>4

LEMMA RecordAccess ==
  ASSUME IInv, NEW k \in Keys, recordEntryAccess(k), UNCHANGED <<total, minimal, now>>
  PROVE  /\ DataGood(Entries, time)' /\ time' \in 1 .. now' /\ accessed' \subseteq Keys
         /\ Cardinality(accessed') < MaxBundledRecords /\ timer' \in BOOLEAN
<1> DEFINE keys == accessed \cup {k}
<1>1. timer' \in BOOLEAN
  BY Facts DEF recordEntryAccess, optimize
<1>2. keys \subseteq Keys /\ Cardinality(keys) \in Nat
      /\ Cardinality(keys) <= MaxBundledRecords /\ MaxBundledRecords \in Nat \ {0}
  <2>1. keys \in SUBSET Keys /\ accessed \in SUBSET Keys
    BY Facts
  <2>2. Cardinality(accessed) \in Nat /\ Cardinality(keys) \in Nat /\ IsFiniteSet(accessed)
    BY <2>1, KeysFinite
  <2>3. Cardinality(keys) <= Cardinality(accessed) + 1
    <3>1. Cardinality(keys) \in {Cardinality(accessed), Cardinality(accessed) + 1}
      BY <2>2, FS_AddElement
    <3> HIDE DEF keys
    <3> QED BY <2>2, <3>1
  <2>4. MaxBundledRecords \in Nat \ {0} /\ Cardinality(accessed) < MaxBundledRecords
    BY PruningAssumption, Facts
  <2> HIDE DEF keys
  <2> QED BY <2>1, <2>2, <2>3, <2>4
<1>3. CASE Cardinality(keys) = MaxBundledRecords
  <2>1. WriteAccessed(keys)
    BY <1>3 DEF recordEntryAccess
  <2> HIDE DEF keys
  <2>2. DataGood(Entries, time)' /\ accessed' = {} /\ time' = now
    BY <2>1, WriteGood
  <2>3. Cardinality({}) = 0
    BY FS_EmptySet
  <2>4. now \in 1 .. now
    BY Facts
  <2> QED BY <1>1, <1>2, <2>2, <2>3, <2>4
<1>4. CASE Cardinality(keys) /= MaxBundledRecords
  <2>1. accessed' = keys /\ UNCHANGED <<map, time>>
    BY <1>4 DEF recordEntryAccess
  <2>2. DataGood(Entries, time)'
    <3>1. Entries' = Entries /\ time' = time
      BY <2>1 DEF Entries
    <3>2. DataGood(Entries, time)
      BY Facts
    <3> QED BY <3>1, <3>2
  <2> HIDE DEF keys
  <2>3. Cardinality(keys) < MaxBundledRecords
    BY <1>2, <1>4
  <2> QED BY <1>1, <1>2, <2>1, <2>2, <2>3, Facts
<1> QED BY <1>3, <1>4

LEMMA StepGet ==
  ASSUME IInv, NEW k \in Keys, Get(k) \/ PutSame(k)
  PROVE  IInv'
<1>1. recordEntryAccess(k) /\ UNCHANGED <<total, minimal, now, clearing>>
  BY DEF Get, PutSame
<1>2. /\ DataGood(Entries, time)' /\ time' \in 1 .. now' /\ accessed' \subseteq Keys
      /\ Cardinality(accessed') < MaxBundledRecords /\ timer' \in BOOLEAN
  BY <1>1, RecordAccess
<1>3. \/ stale' = stale /\ fresh' = fresh
      \/ stale' = stale \ {k} /\ fresh' = fresh \cup {k}
  BY DEF Get, PutSame
<1>4. now' \in 1 .. MaxTime /\ clearing' \in BOOLEAN /\ stale' \subseteq Keys
      /\ fresh' \subseteq Keys /\ stale' \cap fresh' = {} /\ (stale' /= {} => clearing')
  BY <1>1, <1>3, Facts
<1> QED BY <1>2, <1>4, StepGood

LEMMA StepWriteBundles ==
  ASSUME IInv, WriteBundles
  PROVE  IInv'
<1>1. WriteAccessed(accessed) /\ UNCHANGED <<total, minimal, now, timer, stale, clearing, fresh>>
  BY DEF WriteBundles
<1>2. DataGood(Entries, time)' /\ accessed' = {} /\ time' = now
  BY <1>1, WriteGood
<1>3. Cardinality({}) = 0 /\ MaxBundledRecords \in Nat \ {0}
  BY FS_EmptySet, PruningAssumption
<1>4. now' \in 1 .. MaxTime /\ time' \in 1 .. now' /\ accessed' \subseteq Keys
      /\ Cardinality(accessed') < MaxBundledRecords /\ timer' \in BOOLEAN
      /\ clearing' \in BOOLEAN /\ stale' \subseteq Keys /\ fresh' \subseteq Keys
      /\ stale' \cap fresh' = {} /\ (stale' /= {} => clearing')
  BY <1>1, <1>2, <1>3, Facts
<1> QED BY <1>2, <1>4, StepGood

LEMMA StepRemove ==
  ASSUME IInv, NEW k \in Keys, Remove(k)
  PROVE  IInv'
<1> DEFINE d == eraseMapEntry(Entries, k)
<1>1. Become(d) /\ UNCHANGED <<time, now, accessed, timer, stale, clearing, fresh>>
  BY DEF Remove
<1>2. DataGood(d, time)
  BY Facts, EraseGood
<1> HIDE DEF d
<1>3. DataGood(Entries, time)'
  BY <1>1, <1>2, BecomeGood
<1> QED BY <1>1, <1>3, Facts, StepGood

(* moveIfEmpty(): one entry goes, and another comes with its size.         *)
LEMMA StepMove ==
  ASSUME IInv, NEW from \in Keys, NEW to \in Keys, MoveIfEmpty(from, to)
  PROVE  IInv'
<1> DEFINE t == IF now - time < WriteBundleDelay THEN time ELSE now
           s == map[from].size
           d == setMapEntry(eraseMapEntry(Entries, from), to, [size |-> s, useTime |-> t])
<1>1. t \in time .. MaxTime /\ t \in 1 .. now
  BY Facts
<1>2. Become(d) /\ time' = t /\ stale' = stale \ {to} /\ fresh' = fresh \cup {to}
      /\ UNCHANGED <<now, accessed, timer, clearing>> /\ map[from] /= Absent
  BY DEF MoveIfEmpty
<1> HIDE DEF t
<1>3. s \in Sizes
  BY <1>2, Facts DEF Maps, EntryType
<1> HIDE DEF s
<1>4. DataGood(eraseMapEntry(Entries, from), time)
  BY Facts, EraseGood
<1>5. DataGood(d, t)
  BY <1>1, <1>3, <1>4, Facts, PutGood
<1> HIDE DEF d
<1>6. DataGood(Entries, time)'
  BY <1>2, <1>5, BecomeGood
<1>7. now' \in 1 .. MaxTime /\ time' \in 1 .. now' /\ accessed' \subseteq Keys
      /\ Cardinality(accessed') < MaxBundledRecords /\ timer' \in BOOLEAN
      /\ clearing' \in BOOLEAN /\ stale' \subseteq Keys /\ fresh' \subseteq Keys
      /\ stale' \cap fresh' = {} /\ (stale' /= {} => clearing')
  BY <1>1, <1>2, Facts
<1> QED BY <1>6, <1>7, StepGood

LEMMA StepTick ==
  ASSUME IInv, Tick
  PROVE  IInv'
<1>1. now' = now + 1 /\ now < MaxTime
      /\ UNCHANGED <<map, total, minimal, time, accessed, timer, stale, clearing, fresh>>
  BY DEF Tick
<1>2. DataGood(Entries, time)'
  <2>1. Entries' = Entries /\ time' = time
    BY <1>1 DEF Entries
  <2> QED BY <2>1, Facts
<1>3. now' \in 1 .. MaxTime /\ time' \in 1 .. now'
  BY <1>1, Facts
<1> QED BY <1>1, <1>2, <1>3, Facts, StepGood

(* clearStaleChunk(), of keys that wait or have just been chosen.          *)
LEMMA ChunkGood ==
  ASSUME IInv, NEW keys \in SUBSET Keys, NEW pending \in BOOLEAN,
         clearStaleChunk(keys, pending), time' = time
  PROVE  /\ DataGood(Entries, time)' /\ timer' \in BOOLEAN /\ clearing' \in BOOLEAN
         /\ stale' \subseteq keys /\ (stale' /= {} => clearing')
<1>1. PICK chunk \in SUBSET keys :
        LET d == removeAll(Entries, chunk)
        IN  /\ Become(d) /\ stale' = keys \ chunk
            /\ clearing' = (pending \/ keys /= chunk)
            /\ IF keys /= {} /\ keys = chunk THEN optimize(d) ELSE UNCHANGED timer
  BY DEF clearStaleChunk
<1> DEFINE d == removeAll(Entries, chunk)
<1>2. DataGood(d, time)
  <2>1. chunk \in SUBSET Keys
    OBVIOUS
  <2> QED BY <2>1, Facts, RemoveAllGood
<1>3. timer' \in BOOLEAN
  BY <1>1, Facts DEF optimize
<1>4. clearing' \in BOOLEAN /\ stale' \subseteq keys /\ (stale' /= {} => clearing')
  BY <1>1
<1>5. Become(d)
  BY <1>1
<1> HIDE DEF d
<1>6. DataGood(Entries, time)'
  BY <1>2, <1>5, BecomeGood
<1> QED BY <1>3, <1>4, <1>6

LEMMA StepClearNextChunk ==
  ASSUME IInv, ClearNextChunk
  PROVE  IInv'
<1>1. clearStaleChunk(stale, FALSE) /\ UNCHANGED <<time, now, accessed, fresh>>
  BY DEF ClearNextChunk
<1>2. stale \in SUBSET Keys /\ FALSE \in BOOLEAN
  BY Facts
<1>3. /\ DataGood(Entries, time)' /\ timer' \in BOOLEAN /\ clearing' \in BOOLEAN
      /\ stale' \subseteq stale /\ (stale' /= {} => clearing')
  BY <1>1, <1>2, ChunkGood
<1>4. now' \in 1 .. MaxTime /\ time' \in 1 .. now' /\ accessed' \subseteq Keys
      /\ Cardinality(accessed') < MaxBundledRecords
      /\ stale' \subseteq Keys /\ fresh' \subseteq Keys /\ stale' \cap fresh' = {}
  BY <1>1, <1>3, Facts
<1> QED BY <1>3, <1>4, StepGood

LEMMA StepClearByTag ==
  ASSUME IInv, NEW keys \in SUBSET Present(map), ClearByTag(keys)
  PROVE  IInv'
<1>1. keys \in SUBSET Keys /\ fresh' = fresh \ keys /\ UNCHANGED <<time, now, accessed>>
  BY DEF ClearByTag, Present
<1>2. /\ DataGood(Entries, time)' /\ timer' \in BOOLEAN /\ clearing' \in BOOLEAN
      /\ stale' \subseteq stale \cup keys /\ (stale' /= {} => clearing')
  <2>1. CASE stale = {}
    <3>1. clearStaleChunk(keys, clearing)
      BY <2>1 DEF ClearByTag
    <3>2. clearing \in BOOLEAN
      BY Facts
    <3>3. /\ DataGood(Entries, time)' /\ timer' \in BOOLEAN /\ clearing' \in BOOLEAN
          /\ stale' \subseteq keys /\ (stale' /= {} => clearing')
      BY <1>1, <3>1, <3>2, ChunkGood
    <3> QED BY <3>3
  <2>2. CASE stale /= {}
    <3>1. stale' = stale \cup keys /\ UNCHANGED <<map, total, minimal, clearing, timer>>
      BY <2>2 DEF ClearByTag
    <3>2. DataGood(Entries, time)'
      <4>1. Entries' = Entries /\ time' = time
        BY <1>1, <3>1 DEF Entries
      <4> QED BY <4>1, Facts
    <3> QED BY <2>2, <3>1, <3>2, Facts
  <2> QED BY <2>1, <2>2
<1>3. now' \in 1 .. MaxTime /\ time' \in 1 .. now' /\ accessed' \subseteq Keys
      /\ Cardinality(accessed') < MaxBundledRecords
      /\ stale' \subseteq Keys /\ fresh' \subseteq Keys /\ stale' \cap fresh' = {}
  BY <1>1, <1>2, Facts
<1> QED BY <1>2, <1>3, StepGood

(* What pruning chooses is in the map.                                     *)
LEMMA ChosenFacts ==
  ASSUME IInv, NEW order \in Orders
  PROVE  /\ TimeStale \in SUBSET Present(map) /\ TimeStale \in SUBSET Keys
         /\ SizeStale(order) \in SUBSET (Present(map) \ TimeStale)
         /\ TotalSize(TimeStale) \in Nat
         /\ ToRemove \in Int /\ ToRemove = total - TotalSize(TimeStale) - TotalSizeLimit
         /\ ToRemove > 0 =>
              LoopInv(SizeStale(order), Present(map) \ TimeStale, ToRemove, order)
         /\ ToRemove <= 0 => SizeStale(order) = {}
<1>1. TimeStale \in SUBSET Present(map) /\ TimeStale \in SUBSET Keys
  BY DEF TimeStale, Present
<1>2. map \in Maps /\ total \in Nat /\ TotalSizeLimit \in Nat
  BY Facts, PruningAssumption
<1>3. TotalSize(TimeStale) \in Nat
  BY <1>1, <1>2, TotalFacts
<1>4. ToRemove \in Int /\ ToRemove = total - TotalSize(TimeStale) - TotalSizeLimit
  BY <1>2, <1>3 DEF ToRemove
<1>5. IF ToRemove <= 0 THEN SizeStale(order) = {}
      ELSE LoopInv(SizeStale(order), Present(map) \ TimeStale, ToRemove, order)
  BY <1>2, <1>4, SizeStaleTakes
<1>6. SizeStale(order) \in SUBSET (Present(map) \ TimeStale)
  <2> DEFINE P == Present(map) \ TimeStale
  <2>1. CASE ToRemove <= 0
    BY <1>5, <2>1
  <2>2. CASE ~(ToRemove <= 0)
    <3>1. LoopInv(SizeStale(order), P, ToRemove, order)
      BY <1>5, <2>2
    <3> QED BY <3>1 DEF LoopInv
  <2> QED BY <2>1, <2>2
<1>7. ToRemove > 0 => ~(ToRemove <= 0)
  BY <1>4
<1> QED BY <1>1, <1>3, <1>4, <1>5, <1>6, <1>7

(* What a step of pruning does with what it has chosen.                    *)
LEMMA PruneDoes ==
  ASSUME IInv, NEW order \in Orders, Prune(order), stale = {}
  PROVE  LET keys == TimeStale \cup SizeStale(order)
         IN  \E chunk \in SUBSET keys :
               /\ DataGood(Entries, time)'
               /\ map' = Erased(map, chunk) /\ stale' = keys \ chunk
               /\ timer' \in BOOLEAN /\ clearing' \in BOOLEAN /\ fresh' = fresh \ keys
               /\ stale' /= {} => clearing'
<1> DEFINE keys == TimeStale \cup SizeStale(order)
           few == Cardinality(keys) <= StaleRemoveChunk
           e == [Entries EXCEPT !.minimal = Recounted]
<1>1. PICK chunk \in SUBSET keys :
        LET d == removeAll(e, chunk) IN
        /\ Cardinality(chunk) = IF few THEN Cardinality(keys) ELSE StaleRemoveChunk
        /\ Become(d)
        /\ stale' = keys \ chunk
        /\ clearing' = (clearing \/ ~few)
        /\ timer' = (few /\ keys /= {} /\ Present(d.map) /= {})
        /\ fresh' = fresh \ keys
  BY DEF Prune
<1> DEFINE d == removeAll(e, chunk)
<1>2. keys \in SUBSET Keys
  BY ChosenFacts DEF Present
<1>3. DataGood(d, time) /\ d.map = Erased(map, chunk)
  <2>1. DataGood(e, time) /\ time \in 1 .. MaxTime
    BY Facts, RecountGood
  <2>2. e.map = map
    BY DEF Entries
  <2>3. chunk \in SUBSET Keys
    BY <1>2
  <2> HIDE DEF e
  <2>4. DataGood(d, time) /\ d.map = Erased(e.map, chunk)
    BY <2>1, <2>3, RemoveAllGood
  <2> QED BY <2>2, <2>4
<1>4. Become(d) /\ time' = time
  BY <1>1 DEF Prune
<1>5. stale' = keys \ chunk /\ clearing' = (clearing \/ ~few) /\ fresh' = fresh \ keys
      /\ Cardinality(chunk) = IF few THEN Cardinality(keys) ELSE StaleRemoveChunk
  BY <1>1
<1>6. timer' \in BOOLEAN
  BY <1>1
<1> HIDE DEF d, keys
<1>7. DataGood(Entries, time)' /\ map' = Erased(map, chunk)
  BY <1>3, <1>4, BecomeGood DEF Become
<1>8. few => chunk = keys
  BY <1>2, <1>5, KeysFinite, FS_Subset
<1>9. clearing' \in BOOLEAN /\ (stale' /= {} => clearing')
  <2>1. few \/ ~few
    OBVIOUS
  <2> HIDE DEF few
  <2> QED BY <1>5, <1>8, <2>1, Facts
<1>10. \E c \in SUBSET keys :
         /\ DataGood(Entries, time)'
         /\ map' = Erased(map, c) /\ stale' = keys \ c
         /\ timer' \in BOOLEAN /\ clearing' \in BOOLEAN /\ fresh' = fresh \ keys
         /\ stale' /= {} => clearing'
  <2> HIDE DEF few, e
  <2> QED BY <1>5, <1>6, <1>7, <1>9
<1> QED BY <1>10 DEF keys

LEMMA StepPrune ==
  ASSUME IInv, NEW order \in Orders, Prune(order)
  PROVE  IInv'
<1> DEFINE keys == TimeStale \cup SizeStale(order)
<1>1. UNCHANGED <<time, now, accessed>>
  BY DEF Prune
<1>2. keys \in SUBSET Keys
  BY ChosenFacts DEF Present
<1>3. CASE stale = {}
  <2>1. PICK chunk \in SUBSET keys :
          /\ DataGood(Entries, time)'
          /\ map' = Erased(map, chunk) /\ stale' = keys \ chunk
          /\ timer' \in BOOLEAN /\ clearing' \in BOOLEAN /\ fresh' = fresh \ keys
          /\ stale' /= {} => clearing'
    BY <1>3, PruneDoes
  <2> HIDE DEF keys
  <2>2. now' \in 1 .. MaxTime /\ time' \in 1 .. now' /\ accessed' \subseteq Keys
        /\ Cardinality(accessed') < MaxBundledRecords
        /\ stale' \subseteq Keys /\ fresh' \subseteq Keys /\ stale' \cap fresh' = {}
    BY <1>1, <1>2, <2>1, Facts
  <2> QED BY <2>1, <2>2, StepGood
<1>4. CASE stale /= {}
  <2>1. timer' = FALSE /\ UNCHANGED <<map, total, minimal, stale, clearing, fresh>>
    BY <1>4 DEF Prune
  <2>2. DataGood(Entries, time)'
    <3>1. Entries' = Entries /\ time' = time
      BY <1>1, <2>1 DEF Entries
    <3> QED BY <3>1, Facts
  <2> QED BY <1>1, <2>1, <2>2, Facts, StepGood
<1> QED BY <1>3, <1>4

LEMMA StepKeeps ==
  ASSUME IInv, [Next]_vars
  PROVE  IInv'
<1>1. CASE UNCHANGED vars
  <2>1. Entries' = Entries /\ time' = time
    BY <1>1 DEF vars, Entries
  <2>2. DataGood(Entries, time)'
    BY <2>1, Facts
  <2> QED BY <1>1, <2>2, Facts, StepGood DEF vars
<1>2. CASE Next
  <2>1. CASE \E k \in Keys : (\E s \in Sizes : Put(k, s)) \/ PutSame(k) \/ Get(k) \/ Remove(k)
    BY <2>1, StepPut, StepGet, StepRemove
  <2>2. CASE WriteBundles \/ Tick \/ ClearNextChunk
    BY <2>2, StepWriteBundles, StepTick, StepClearNextChunk
  <2>3. CASE \E keys \in SUBSET Present(map) : ClearByTag(keys)
    BY <2>3, StepClearByTag
  <2>4. CASE \E order \in Orders : Prune(order)
    BY <2>4, StepPrune
  <2>5. CASE \E from, to \in Keys : MoveIfEmpty(from, to)
    BY <2>5, StepMove
  <2> QED BY <1>2, <2>1, <2>2, <2>3, <2>4, <2>5 DEF Next
<1> QED BY <1>1, <1>2

(* Pruning takes the oldest: from the loop invariant at the end of the     *)
(* walk, and the total, which says how much has to go.                     *)
LEMMA PruneTakes ==
  ASSUME IInv, NEW order \in Orders, Prune(order), stale = {}
  PROVE  LET kept == Present(map) \ Gone
             taken == Gone \ TimeStale
         IN  /\ TotalSize(kept) <= TotalSizeLimit
             /\ \A k \in taken, l \in kept : map[k].useTime <= map[l].useTime
             /\ taken /= {} => \E k \in taken :
                  /\ \A l \in taken : map[l].useTime <= map[k].useTime
                  /\ TotalSize(kept \cup {k}) > TotalSizeLimit
<1> DEFINE P == Present(map) \ TimeStale
           C == SizeStale(order)
           kept == Present(map) \ Gone
           taken == Gone \ TimeStale
<1>1. Gone = TimeStale \cup C
  <2>1. PICK chunk \in SUBSET (TimeStale \cup C) :
          map' = Erased(map, chunk) /\ stale' = (TimeStale \cup C) \ chunk
    BY PruneDoes
  <2>2. Present(map') = Present(map) \ chunk
    BY <2>1 DEF Present, Erased
  <2>3. TimeStale \cup C \in SUBSET Present(map)
    BY ChosenFacts
  <2> HIDE DEF C
  <2> QED BY <2>1, <2>2, <2>3 DEF Gone
<1>2. /\ C \in SUBSET P /\ P \in SUBSET Keys /\ P \in SUBSET Present(map)
      /\ TimeStale \in SUBSET Present(map) /\ Present(map) \in SUBSET Keys
  BY ChosenFacts DEF Present
<1>3. taken = C /\ kept = P \ C
  BY <1>1, <1>2
<1>4. map \in Maps /\ TotalSizeLimit \in Nat /\ total = TotalSize(Present(map))
  BY Facts, PruningAssumption DEF DataGood, Entries, TotalSize
<1>5. TotalSize(P) \in Nat /\ ToRemove = TotalSize(P) - TotalSizeLimit /\ ToRemove \in Int
  <2>1. TotalSize(Present(map)) = TotalSize(TimeStale) + TotalSize(P)
    BY <1>2, <1>4, TotalFacts
  <2>2. TotalSize(P) \in Nat
    BY <1>2, <1>4, TotalFacts
  <2>3. TotalSize(TimeStale) \in Nat /\ ToRemove = total - TotalSize(TimeStale) - TotalSizeLimit
    BY ChosenFacts
  <2> HIDE DEF P
  <2> QED BY <1>4, <2>1, <2>2, <2>3
<1>6. CASE ToRemove <= 0
  <2>1. C = {}
    BY <1>6, ChosenFacts
  <2>2. TotalSize(kept) <= TotalSizeLimit
    <3>1. kept = P
      BY <1>3, <2>1
    <3>2. TotalSize(P) <= TotalSizeLimit
      BY <1>4, <1>5, <1>6
    <3> QED BY <3>1, <3>2
  <2> HIDE DEF C, kept, taken
  <2>3. taken = {}
    BY <1>3, <2>1
  <2>4. \A k \in taken, l \in kept : map[k].useTime <= map[l].useTime
    BY <2>3
  <2> QED BY <2>2, <2>3, <2>4 DEF kept, taken
<1>7. CASE ToRemove > 0
  <2>1. LoopInv(C, P, ToRemove, order)
    BY <1>7, ChosenFacts
  <2> HIDE DEF C, P
  <2>2. TotalSize(kept) <= TotalSizeLimit
    <3>1. TotalSize(P) = TotalSize(C) + TotalSize(P \ C)
      BY <1>2, <1>4, TotalFacts
    <3>2. C \in SUBSET Keys /\ P \ C \in SUBSET Keys
      BY <1>2
    <3>3. TotalSize(C) \in Nat /\ TotalSize(P \ C) \in Nat /\ TotalSize({}) = 0
      BY <1>4, <3>2, TotalFacts
    <3>4. CASE TotalSize(C) >= ToRemove
      <4>1. TotalSize(P \ C) <= TotalSizeLimit
        BY <1>4, <1>5, <3>1, <3>3, <3>4
      <4> QED BY <1>3, <4>1
    <3>5. CASE C = P
      <4>1. P \ C = {}
        BY <3>5
      <4> QED BY <1>3, <1>4, <3>3, <4>1
    <3> QED BY <2>1, <3>4, <3>5 DEF LoopInv
  <2>3. ASSUME NEW k \in taken, NEW l \in kept
        PROVE  map[k].useTime <= map[l].useTime
    BY <1>3, <2>1, <2>3 DEF LoopInv
  <2>4. ASSUME taken /= {}
        PROVE  \E k \in taken : /\ \A l \in taken : map[l].useTime <= map[k].useTime
                                /\ TotalSize(kept \cup {k}) > TotalSizeLimit
    <3> DEFINE f == First(C, order)
               rest == C \ {f}
    <3>1. f \in C /\ \A l \in C : map[l].useTime <= map[f].useTime
      <4>1. C \in SUBSET Present(map) /\ C /= {}
        BY <1>2, <1>3, <2>4
      <4> QED BY <1>4, <4>1, FirstIs
    <3>2. TotalSize(rest) < ToRemove
      BY <1>3, <2>1, <2>4 DEF LoopInv
    <3> HIDE DEF f
    <3>3. rest \in SUBSET P /\ rest \in SUBSET Keys
          /\ P \ rest = kept \cup {f} /\ P \ rest \in SUBSET Keys
      BY <1>2, <1>3, <3>1
    <3> HIDE DEF rest
    <3>4. TotalSize(P) = TotalSize(rest) + TotalSize(P \ rest)
      BY <1>2, <1>4, <3>3, TotalFacts
    <3>5. TotalSize(rest) \in Nat /\ TotalSize(P \ rest) \in Nat
      BY <1>4, <3>3, TotalFacts
    <3>6. TotalSize(P \ rest) > TotalSizeLimit
      BY <1>4, <1>5, <3>2, <3>4, <3>5
    <3> QED BY <1>3, <3>1, <3>3, <3>6
  <2> HIDE DEF kept, taken
  <2>5. /\ TotalSize(kept) <= TotalSizeLimit
        /\ \A k \in taken, l \in kept : map[k].useTime <= map[l].useTime
        /\ taken /= {} => \E k \in taken : /\ \A l \in taken : map[l].useTime <= map[k].useTime
                                           /\ TotalSize(kept \cup {k}) > TotalSizeLimit
    BY <2>2, <2>3, <2>4
  <2> QED BY <2>5 DEF kept, taken
<1> QED BY <1>5, <1>6, <1>7

-----------------------------------------------------------------------------
(* The counts and what waits are as IInv says, whatever is put, used,      *)
(* removed, pruned or cleared, at any time and in any order.               *)
THEOREM Inductive == Spec => []IInv
<1>1. Init => IInv
  BY InitGood
<1>2. IInv /\ [Next]_vars => IInv'
  BY StepKeeps
<1> QED BY <1>1, <1>2, PTL DEF Spec

(* Every variable of the pruning has its type; that the count of the       *)
(* oldest time is at most the number of keys needs what IInv says of it.   *)
THEOREM TypeCorrect == Spec => []TypeOK
<1>1. IInv => TypeOK
  BY DEF IInv
<1> QED BY <1>1, Inductive, PTL

(* setMapEntry(), eraseMapEntry(), the writing of accesses and the         *)
(* recounting keep _totalSize equal to the sizes in _map, and the count of *)
(* the oldest time positive where the code asserts it.                     *)
THEOREM CountsStayRight == Spec => []CountsAreRight
<1>1. IInv => CountsAreRight
  BY DEF IInv, DataGood, Entries, CountsAreRight, TotalSize
<1> QED BY <1>1, Inductive, PTL

(* put() takes its key out of _stale, so that no chunk of clearing removes *)
(* what was put after the key was chosen.                                  *)
THEOREM PutsAreKept == Spec => []PutIsKept
<1>1. IInv => PutIsKept
  BY DEF IInv
<1> QED BY <1>1, Inductive, PTL

(* While _stale has keys, clearStaleChunkDelayed() has queued a chunk.     *)
THEOREM ClearingGoesOn == Spec => []StaleIsWatched
<1>1. IInv => StaleIsWatched
  BY DEF IInv
<1> QED BY <1>1, Inductive, PTL

(* Whatever the order of _map, collectSizeStale() meets the limit with the *)
(* oldest entries, and not without one of the newest of them.              *)
THEOREM OldestAreTaken == Spec => TakesOldest
<1> DEFINE Takes == stale = {} /\ (\E order \in Orders : Prune(order)) =>
                      LET kept == Present(map) \ Gone
                          taken == Gone \ TimeStale
                      IN  /\ TotalSize(kept) <= TotalSizeLimit
                          /\ \A k \in taken, l \in kept : map[k].useTime <= map[l].useTime
                          /\ taken /= {} => \E k \in taken :
                               /\ \A l \in taken : map[l].useTime <= map[k].useTime
                               /\ TotalSize(kept \cup {k}) > TotalSizeLimit
<1>1. IInv => Takes
  BY PruneTakes
<1>2. IInv /\ [Next]_vars => [Takes]_vars
  BY <1>1
<1> QED BY <1>2, Inductive, PTL DEF Spec, TakesOldest
=============================================================================
