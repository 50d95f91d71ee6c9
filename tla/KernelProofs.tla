---------------------------- MODULE KernelProofs ----------------------------
(***************************************************************************)
(* Proofs about module Kernel, for any tasks and calls, any length of the  *)
(* queue, and any range of the tick count and of the number of its         *)
(* overflows.  The invariant has three parts: the lists of the scheduler   *)
(* and their times (SchedInv), what each call has waited and has left      *)
(* (TaskInv), and that there are never more messages or slots than tasks   *)
(* about to look at them while another sleeps (WakeupInv).  Lists are      *)
(* spoken of as sequences without repetition of a set (Lists, Timed), so   *)
(* that nothing is proved by recursion over them.  At the end each step of *)
(* the kernel is shown to be one of BlockingQueue, or none.                *)
(***************************************************************************)
EXTENDS Kernel, FiniteSetTheorems, SequenceTheorems, TLAPS

-----------------------------------------------------------------------------
(* Sequences *)

\* The rank of place i among the places K.
Rank(K, i) == Cardinality({j \in K : j <= i})

LEMMA RankGrows ==
  ASSUME NEW n \in Nat, NEW K \in SUBSET (1 .. n)
  PROVE  /\ IsFiniteSet(K) /\ Cardinality(K) \in Nat
         /\ \A i \in K : Rank(K, i) \in 1 .. Cardinality(K)
         /\ \A i, j \in K : i < j => Rank(K, i) < Rank(K, j)
<1>1. IsFiniteSet(1 .. n)
  BY FS_Interval
<1>2. IsFiniteSet(K) /\ Cardinality(K) \in Nat
  BY <1>1, FS_Subset, FS_CardinalityType
<1> DEFINE upTo(i) == {j \in K : j <= i}
<1>3. \A i \in K : /\ IsFiniteSet(upTo(i)) /\ Cardinality(upTo(i)) \in Nat
                   /\ Cardinality(upTo(i)) <= Cardinality(K)
  <2> TAKE i \in K
  <2>1. upTo(i) \in SUBSET K
    OBVIOUS
  <2> QED
    BY <1>2, <2>1, FS_Subset, FS_CardinalityType
<1>4. \A i \in K : Cardinality(upTo(i)) # 0
  <2> TAKE i \in K
  <2>1. i \in upTo(i)
    OBVIOUS
  <2> QED
    BY <1>3, <2>1, FS_EmptySet
<1>5. \A i, j \in K : i < j => Cardinality(upTo(i)) < Cardinality(upTo(j))
  <2> SUFFICES ASSUME NEW i \in K, NEW j \in K, i < j
               PROVE  Cardinality(upTo(i)) < Cardinality(upTo(j))
    OBVIOUS
  <2>0. (\A x \in K : x <= i => x <= j) /\ j <= j /\ ~(j <= i)
    OBVIOUS
  <2>1. upTo(i) \in SUBSET upTo(j) /\ j \in upTo(j) /\ j \notin upTo(i)
    BY <2>0, Zenon
  <2>2. upTo(i) # upTo(j)
    BY <2>1
  <2>3. /\ Cardinality(upTo(i)) <= Cardinality(upTo(j))
        /\ Cardinality(upTo(j)) # Cardinality(upTo(i))
    BY <1>3, <2>1, <2>2, FS_Subset
  <2> QED
    BY <1>3, <2>3
<1>6. \A i \in K : Rank(K, i) = Cardinality(upTo(i))
  BY DEF Rank
<1> HIDE DEF upTo
<1> QED
  BY <1>2, <1>3, <1>4, <1>5, <1>6

\* Every rank is taken.
LEMMA RanksTaken ==
  ASSUME NEW n \in Nat, NEW K \in SUBSET (1 .. n), NEW k \in 1 .. Cardinality(K)
  PROVE  \E i \in K : Rank(K, i) = k
<1> DEFINE R == 1 .. Cardinality(K)
           rank == [i \in K |-> Rank(K, i)]
<1>1. /\ IsFiniteSet(K) /\ Cardinality(K) \in Nat
      /\ \A i \in K : Rank(K, i) \in R
      /\ \A i, j \in K : i < j => Rank(K, i) < Rank(K, j)
  BY RankGrows
<1>2. rank \in [K -> R]
  BY <1>1
<1>3. \A i, j \in K : rank[i] = rank[j] => i = j
  <2> SUFFICES ASSUME NEW i \in K, NEW j \in K, i # j
               PROVE  Rank(K, i) # Rank(K, j)
    OBVIOUS
  <2>1. i < j \/ j < i
    OBVIOUS
  <2>2. Rank(K, i) \in Nat /\ Rank(K, j) \in Nat
    BY <1>1
  <2> QED
    BY <1>1, <2>1, <2>2
<1>4. rank \in Injection(K, R)
  BY <1>2, <1>3 DEF Injection, IsInjective
<1>5. IsFiniteSet(R) /\ Cardinality(R) = Cardinality(K)
  BY <1>1, FS_Interval
<1>6. rank \in Surjection(K, R)
  BY <1>4, <1>5, FS_Injection
<1> QED
  BY <1>6 DEF Surjection

\* What is kept of a sequence, and that it stays in its order.
LEMMA KeepProperties ==
  ASSUME NEW S, NEW s \in Seq(S), NEW T
  PROVE  /\ Keep(s, T) \in Seq(S)
         /\ ToSet(Keep(s, T)) = ToSet(s) \cap T
         /\ \A k, l \in DOMAIN Keep(s, T) : k < l =>
              \E i, j \in DOMAIN s : /\ i < j
                                     /\ s[i] = Keep(s, T)[k]
                                     /\ s[j] = Keep(s, T)[l]
<1> DEFINE K == {i \in DOMAIN s : s[i] \in T}
           Place(k) == CHOOSE i \in K : Rank(K, i) = k
           N == Cardinality(K)
<1>1. K \in SUBSET (1 .. Len(s)) /\ Len(s) \in Nat
  OBVIOUS
<1>2. Keep(s, T) = [k \in 1 .. N |-> s[Place(k)]]
  BY DEF Keep, Rank
<1>3. /\ IsFiniteSet(K) /\ N \in Nat
      /\ \A i \in K : Rank(K, i) \in 1 .. N
      /\ \A i, j \in K : i < j => Rank(K, i) < Rank(K, j)
  BY <1>1, RankGrows
<1>4. \A k \in 1 .. N : Place(k) \in K /\ Rank(K, Place(k)) = k
  BY <1>1, RanksTaken
<1> HIDE DEF Place
<1>5. \A i \in K : \E k \in 1 .. N : Place(k) = i
  <2> SUFFICES ASSUME NEW i \in K PROVE \E k \in 1 .. N : Place(k) = i
    OBVIOUS
  <2> DEFINE k == Rank(K, i)
  <2>1. k \in 1 .. N /\ Place(k) \in K /\ Rank(K, Place(k)) = k
    BY <1>3, <1>4
  <2>2. i \in Nat /\ Place(k) \in Nat
    BY <1>1, <2>1
  <2>3. ~(i < Place(k)) /\ ~(Place(k) < i)
    BY <1>3, <2>1
  <2>4. Place(k) = i
    BY <2>2, <2>3
  <2> QED
    BY <2>1, <2>4
<1>6. \A k, l \in 1 .. N : k < l => Place(k) < Place(l)
  <2> SUFFICES ASSUME NEW k \in 1 .. N, NEW l \in 1 .. N, k < l
               PROVE  Place(k) < Place(l)
    OBVIOUS
  <2>1. Place(k) \in Nat /\ Place(l) \in Nat
    BY <1>1, <1>4
  <2>2. Place(k) # Place(l)
    BY <1>4
  <2>3. ~(Place(l) < Place(k))
    BY <1>3, <1>4
  <2> QED
    BY <2>1, <2>2, <2>3
<1>7. \A k \in 1 .. N : s[Place(k)] \in S
  BY <1>4
<1>8. Keep(s, T) \in Seq(S)
  BY <1>2, <1>3, <1>7
<1>9. ToSet(Keep(s, T)) = ToSet(s) \cap T
  <2>1. DOMAIN Keep(s, T) = 1 .. N /\ \A k \in 1 .. N : Keep(s, T)[k] = s[Place(k)]
    BY <1>2
  <2>2. \A x \in ToSet(Keep(s, T)) : x \in ToSet(s) /\ x \in T
    BY <1>4, <2>1 DEF ToSet
  <2>3. \A x \in ToSet(s) : x \in T => x \in ToSet(Keep(s, T))
    BY <1>5, <2>1 DEF ToSet
  <2> QED
    BY <2>2, <2>3
<1> QED
  BY <1>2, <1>4, <1>6, <1>8, <1>9

\* Sequence s lists the elements of M, each of them once.
Lists(s, M) == s \in Seq(M) /\ IsInjective(s) /\ ToSet(s) = M

LEMMA SeqOfSet ==
  ASSUME NEW S, NEW s \in Seq(S)
  PROVE  /\ s \in Seq(ToSet(s))
         /\ ToSet(s) \subseteq S
         /\ s = << >> <=> ToSet(s) = {}
         /\ s # << >> => Head(s) = s[1] /\ Head(s) \in ToSet(s)
<1>1. DOMAIN s = 1 .. Len(s) /\ Len(s) \in Nat
  OBVIOUS
<1>2. \A i \in 1 .. Len(s) : s[i] \in ToSet(s)
  BY <1>1 DEF ToSet
<1>3. s \in [1 .. Len(s) -> ToSet(s)]
  BY <1>1, <1>2
<1>4. s \in Seq(ToSet(s))
  BY <1>1, <1>3, SeqDef
<1>5. ToSet(s) \subseteq S
  BY DEF ToSet
<1>6. s # << >> => Head(s) = s[1] /\ Head(s) \in ToSet(s)
  BY <1>1, <1>2
<1>7. s = << >> => ToSet(s) = {}
  BY DEF ToSet
<1> QED
  BY <1>4, <1>5, <1>6, <1>7

LEMMA ListsEmpty == Lists(<< >>, {})
BY DEF Lists, IsInjective, ToSet

LEMMA ListsOne ==
  ASSUME NEW x
  PROVE  Lists(<<x>>, {x})
BY DEF Lists, IsInjective, ToSet

LEMMA ListsConcat ==
  ASSUME NEW A, NEW B, NEW a, NEW b, Lists(a, A), Lists(b, B), A \cap B = {}
  PROVE  Lists(a \o b, A \cup B)
<1> DEFINE c == a \o b
<1>1. /\ a \in Seq(A) /\ b \in Seq(B) /\ IsInjective(a) /\ IsInjective(b)
      /\ ToSet(a) = A /\ ToSet(b) = B
  BY DEF Lists
<1>2. a \in Seq(A \cup B) /\ b \in Seq(A \cup B)
  BY <1>1, SeqMonotonic
<1>3. /\ c \in Seq(A \cup B) /\ Len(c) = Len(a) + Len(b)
      /\ \A i \in 1 .. Len(c) : c[i] = IF i <= Len(a) THEN a[i] ELSE b[i - Len(a)]
  BY <1>2, ConcatProperties
<1>4. Len(a) \in Nat /\ Len(b) \in Nat /\ DOMAIN a = 1 .. Len(a)
      /\ DOMAIN b = 1 .. Len(b) /\ DOMAIN c = 1 .. Len(c)
  BY <1>1, <1>3
<1> HIDE DEF c
<1>5. \A i \in DOMAIN a : i \in DOMAIN c /\ c[i] = a[i] /\ a[i] \in A
  BY <1>1, <1>3, <1>4
<1>6. \A i \in DOMAIN b : i + Len(a) \in DOMAIN c /\ c[i + Len(a)] = b[i] /\ b[i] \in B
  BY <1>1, <1>3, <1>4
<1>7. \A i \in DOMAIN c :
        \/ i \in DOMAIN a /\ c[i] = a[i]
        \/ i - Len(a) \in DOMAIN b /\ c[i] = b[i - Len(a)]
  BY <1>3, <1>4
<1>8. ToSet(c) = A \cup B
  <2>1. \A x \in ToSet(c) : x \in A \cup B
    BY <1>3, <1>4 DEF ToSet
  <2>2. \A x \in A : x \in ToSet(c)
    <3>1. \A x \in ToSet(a) : x \in ToSet(c)
      BY <1>5 DEF ToSet
    <3> QED BY <1>1, <3>1
  <2>3. \A x \in B : x \in ToSet(c)
    <3>1. \A x \in ToSet(b) : x \in ToSet(c)
      BY <1>6 DEF ToSet
    <3> QED BY <1>1, <3>1
  <2> QED
    BY <2>1, <2>2, <2>3
<1>9. IsInjective(c)
  <2> SUFFICES ASSUME NEW i \in DOMAIN c, NEW j \in DOMAIN c, c[i] = c[j]
               PROVE  i = j
    BY DEF IsInjective
  <2>1. CASE i \in DOMAIN a /\ j \in DOMAIN a
    BY <2>1, <1>1, <1>5 DEF IsInjective
  <2>2. CASE i \in DOMAIN a /\ j \notin DOMAIN a
    BY <2>2, <1>5, <1>6, <1>7
  <2>3. CASE i \notin DOMAIN a /\ j \in DOMAIN a
    BY <2>3, <1>5, <1>6, <1>7
  <2>4. CASE i \notin DOMAIN a /\ j \notin DOMAIN a
    <3>1. /\ i - Len(a) \in DOMAIN b /\ j - Len(a) \in DOMAIN b
          /\ b[i - Len(a)] = b[j - Len(a)]
      BY <2>4, <1>7
    <3>2. i - Len(a) = j - Len(a)
      BY <1>1, <3>1 DEF IsInjective
    <3> QED
      BY <3>2, <1>4
  <2> QED
    BY <2>1, <2>2, <2>3, <2>4
<1> QED
  BY <1>3, <1>8, <1>9 DEF Lists, c

LEMMA ListsAppend ==
  ASSUME NEW M, NEW s, NEW x, Lists(s, M), x \notin M
  PROVE  Lists(Append(s, x), M \cup {x})
<1>1. s \in Seq(M) /\ <<x>> \in Seq({x})
  BY DEF Lists
<1>2. Append(s, x) = s \o <<x>>
  <2>1. s \in Seq(M \cup {x})
    BY <1>1, SeqMonotonic
  <2> QED BY <2>1
<1>3. Lists(<<x>>, {x}) /\ M \cap {x} = {}
  BY ListsOne
<1>4. Lists(s \o <<x>>, M \cup {x})
  BY <1>3, ListsConcat
<1> QED
  BY <1>2, <1>4

LEMMA ListsTail ==
  ASSUME NEW M, NEW s, Lists(s, M), s # << >>
  PROVE  Head(s) \in M /\ Lists(Tail(s), M \ {Head(s)})
<1>1. s \in Seq(M) /\ IsInjective(s) /\ ToSet(s) = M
  BY DEF Lists
<1>2. /\ Tail(s) \in Seq(M) /\ Len(s) \in Nat \ {0} /\ Len(Tail(s)) = Len(s) - 1
      /\ \A i \in 1 .. Len(Tail(s)) : Tail(s)[i] = s[i + 1]
      /\ Head(s) = s[1]
  BY <1>1, HeadTailProperties
<1>3. DOMAIN s = 1 .. Len(s) /\ DOMAIN Tail(s) = 1 .. (Len(s) - 1)
  BY <1>1, <1>2
<1> DEFINE r == Tail(s)
<1> HIDE DEF r
<1>4. IsInjective(r)
  BY <1>1, <1>2, <1>3 DEF IsInjective, r
<1>5. \A i \in DOMAIN r : r[i] \in M /\ r[i] # Head(s)
  BY <1>1, <1>2, <1>3 DEF IsInjective, r
<1>6. \A x \in ToSet(s) : x # Head(s) => x \in ToSet(r)
  <2> SUFFICES ASSUME NEW x \in ToSet(s), x # Head(s)
               PROVE  x \in ToSet(r)
    OBVIOUS
  <2>1. PICK i \in DOMAIN s : x = s[i]
    BY DEF ToSet
  <2>2. i # 1 /\ i - 1 \in DOMAIN r /\ r[i - 1] = s[i]
    BY <2>1, <1>2, <1>3 DEF r
  <2> QED
    BY <2>1, <2>2 DEF ToSet
<1>7. ToSet(r) = M \ {Head(s)}
  <2>1. \A x \in ToSet(r) : x \in M /\ x # Head(s)
    BY <1>5 DEF ToSet
  <2> QED
    BY <1>1, <1>6, <2>1
<1>8. r \in Seq(M)
  BY <1>2 DEF r
<1>9. r \in Seq(M \ {Head(s)})
  BY <1>7, <1>8, SeqOfSet
<1> QED
  BY <1>1, <1>2, <1>4, <1>7, <1>9, SeqOfSet DEF Lists, r

LEMMA ListsKeep ==
  ASSUME NEW M, NEW s, NEW T, Lists(s, M)
  PROVE  Lists(Keep(s, T), M \cap T)
<1> DEFINE r == Keep(s, T)
<1>1. s \in Seq(M) /\ IsInjective(s) /\ ToSet(s) = M
  BY DEF Lists
<1>2. /\ r \in Seq(M) /\ ToSet(r) = M \cap T
      /\ \A k, l \in DOMAIN r : k < l =>
           \E i, j \in DOMAIN s : i < j /\ s[i] = r[k] /\ s[j] = r[l]
  BY <1>1, KeepProperties
<1> HIDE DEF r
<1>3. \A k, l \in DOMAIN r : k < l => r[k] # r[l]
  <2> SUFFICES ASSUME NEW k \in DOMAIN r, NEW l \in DOMAIN r, k < l
               PROVE  r[k] # r[l]
    OBVIOUS
  <2>1. PICK i \in DOMAIN s, j \in DOMAIN s : i < j /\ s[i] = r[k] /\ s[j] = r[l]
    BY <1>2
  <2>2. i # j
    BY <1>1, <2>1
  <2> QED
    BY <1>1, <2>1, <2>2 DEF IsInjective
<1>4. \A k, l \in DOMAIN r : k < l \/ l < k \/ k = l
  BY <1>2
<1>5. IsInjective(r)
  BY <1>3, <1>4 DEF IsInjective
<1>6. r \in Seq(M \cap T)
  BY <1>2, SeqOfSet
<1> QED
  BY <1>2, <1>5, <1>6 DEF Lists, r

LEMMA ListsFront ==
  ASSUME NEW M, NEW s, Lists(s, M), s # << >>
  PROVE  Last(s) \in M /\ Lists(Front(s), M \ {Last(s)})
<1> DEFINE r == Front(s)
<1>1. s \in Seq(M) /\ IsInjective(s) /\ ToSet(s) = M
  BY DEF Lists
<1>2. Len(s) \in Nat \ {0} /\ DOMAIN s = 1 .. Len(s) /\ Last(s) = s[Len(s)]
  BY <1>1 DEF Last
<1>3. /\ r \in Seq(M) /\ Len(r) = Len(s) - 1
      /\ \A i \in 1 .. Len(r) : r[i] = s[i]
  BY <1>1, <1>2 DEF Front
<1>4. DOMAIN r = 1 .. (Len(s) - 1)
  BY <1>2, <1>3
<1> HIDE DEF r
<1>5. IsInjective(r)
  BY <1>1, <1>2, <1>3, <1>4 DEF IsInjective
<1>6. \A i \in DOMAIN r : r[i] \in M /\ r[i] # Last(s)
  BY <1>1, <1>2, <1>3, <1>4 DEF IsInjective
<1>7. \A x \in ToSet(s) : x # Last(s) => x \in ToSet(r)
  <2> SUFFICES ASSUME NEW x \in ToSet(s), x # Last(s)
               PROVE  x \in ToSet(r)
    OBVIOUS
  <2>1. PICK i \in DOMAIN s : x = s[i]
    BY DEF ToSet
  <2>2. i \in DOMAIN r /\ r[i] = s[i]
    BY <2>1, <1>2, <1>3, <1>4
  <2> QED
    BY <2>1, <2>2 DEF ToSet
<1>8. ToSet(r) = M \ {Last(s)}
  <2>1. \A x \in ToSet(r) : x \in M /\ x # Last(s)
    BY <1>6 DEF ToSet
  <2> QED
    BY <1>1, <1>7, <2>1
<1>9. r \in Seq(M \ {Last(s)})
  BY <1>3, <1>8, SeqOfSet
<1> QED
  BY <1>1, <1>2, <1>5, <1>8, <1>9 DEF Lists, r

\* The ring: the first item goes to the end, ...
LEMMA ListsRotate ==
  ASSUME NEW M, NEW s, Lists(s, M), s # << >>
  PROVE  Lists(Tail(s) \o <<Head(s)>>, M)
<1>1. Head(s) \in M /\ Lists(Tail(s), M \ {Head(s)})
  BY ListsTail
<1>2. Lists(<<Head(s)>>, {Head(s)})
  BY ListsOne
<1>3. (M \ {Head(s)}) \cap {Head(s)} = {} /\ (M \ {Head(s)}) \cup {Head(s)} = M
  BY <1>1
<1>4. Lists(Tail(s) \o <<Head(s)>>, (M \ {Head(s)}) \cup {Head(s)})
  BY <1>1, <1>2, <1>3, ListsConcat, Zenon
<1> QED
  BY <1>3, <1>4

LEMMA NextEntryOfRing ==
  ASSUME NEW M, NEW ring, Lists(ring, M), ring # << >>
  PROVE  Lists(OwnerOfNextEntry(ring), M)
<1> DEFINE next == Tail(ring) \o <<Head(ring)>>
<1>1. Lists(next, M)
  BY ListsRotate
<1>2. M # {}
  BY ListsTail
<1>3. next # << >>
  BY <1>1, <1>2 DEF Lists, ToSet
<1> HIDE DEF next
<1>4. Lists(Tail(next) \o <<Head(next)>>, M)
  BY <1>1, <1>3, ListsRotate
<1> QED
  BY <1>1, <1>4 DEF OwnerOfNextEntry, next

\* ... and when it leaves, the last item becomes the first.
LEMMA RemovedFromRing ==
  ASSUME NEW M, NEW ring, Lists(ring, M), ring # << >>, M # {Head(ring)}
  PROVE  Lists(uxListRemove(ring, Head(ring)), M \ {Head(ring)})
<1> DEFINE t == Head(ring)
           r == Tail(ring)
           X == M \ {t}
<1>1. t \in M /\ Lists(r, X)
  BY ListsTail
<1>2. r # << >>
  BY <1>1, ListsEmpty DEF Lists, ToSet
<1>3. Last(ring) = Last(r)
  <2>1. ring \in Seq(M) /\ Len(ring) \in Nat \ {0}
    BY DEF Lists
  <2>2. /\ r \in Seq(M) /\ Len(r) = Len(ring) - 1
        /\ \A i \in 1 .. Len(r) : r[i] = ring[i + 1]
    BY <2>1, HeadTailProperties
  <2>3. Len(r) # 0
    BY <1>2, <2>2
  <2> HIDE DEF r
  <2> QED
    BY <2>1, <2>2, <2>3 DEF Last
<1> HIDE DEF r, X
<1>4. Last(r) \in X /\ Lists(Front(r), X \ {Last(r)})
  BY <1>1, <1>2, ListsFront
<1>5. Lists(<<Last(r)>>, {Last(r)})
  BY ListsOne
<1>6. {Last(r)} \cap (X \ {Last(r)}) = {} /\ {Last(r)} \cup (X \ {Last(r)}) = X
  BY <1>4
<1>7. Lists(<<Last(r)>> \o Front(r), {Last(r)} \cup (X \ {Last(r)}))
  BY <1>4, <1>5, <1>6, ListsConcat, Zenon
<1> QED
  BY <1>3, <1>6, <1>7 DEF uxListRemove, r, X

-----------------------------------------------------------------------------
(* The delayed lists *)

\* The list holds the items L, at most one of a task, by their time.
Timed(list, L) ==
  /\ list \in Seq(Items)
  /\ ToSet(list) = L
  /\ \A i, j \in DOMAIN list : i < j =>
       list[i].task # list[j].task /\ list[i].at <= list[j].at

LEMMA TimedEmpty == Timed(<< >>, {})
BY DEF Timed, ToSet

LEMMA TimedOne ==
  ASSUME NEW item \in Items
  PROVE  Timed(<<item>>, {item})
BY DEF Timed, ToSet

LEMMA TimedConcat ==
  ASSUME NEW A, NEW B, NEW a, NEW b, Timed(a, A), Timed(b, B),
         \A x \in A, y \in B : x.task # y.task /\ x.at <= y.at
  PROVE  Timed(a \o b, A \cup B)
<1> DEFINE c == a \o b
<1>1. /\ a \in Seq(Items) /\ b \in Seq(Items) /\ ToSet(a) = A /\ ToSet(b) = B
  BY DEF Timed
<1>2. /\ c \in Seq(Items) /\ Len(c) = Len(a) + Len(b)
      /\ \A i \in 1 .. Len(c) : c[i] = IF i <= Len(a) THEN a[i] ELSE b[i - Len(a)]
  BY <1>1, ConcatProperties
<1>3. Len(a) \in Nat /\ Len(b) \in Nat /\ DOMAIN a = 1 .. Len(a)
      /\ DOMAIN b = 1 .. Len(b) /\ DOMAIN c = 1 .. Len(c)
  BY <1>1, <1>2
<1> HIDE DEF c
<1>4. \A i \in DOMAIN a : i \in DOMAIN c /\ c[i] = a[i] /\ a[i] \in A
  BY <1>1, <1>2, <1>3 DEF ToSet
<1>5. \A i \in DOMAIN b : i + Len(a) \in DOMAIN c /\ c[i + Len(a)] = b[i] /\ b[i] \in B
  BY <1>1, <1>2, <1>3 DEF ToSet
<1>6. \A i \in DOMAIN c :
        \/ i \in DOMAIN a /\ c[i] = a[i]
        \/ i \notin DOMAIN a /\ i - Len(a) \in DOMAIN b /\ c[i] = b[i - Len(a)]
  BY <1>2, <1>3
<1>7. ToSet(c) = A \cup B
  <2>1. \A x \in ToSet(c) : x \in A \cup B
    BY <1>4, <1>5, <1>6 DEF ToSet
  <2>2. \A x \in ToSet(a) : x \in ToSet(c)
    BY <1>4 DEF ToSet
  <2>3. \A x \in ToSet(b) : x \in ToSet(c)
    BY <1>5 DEF ToSet
  <2> QED
    BY <1>1, <2>1, <2>2, <2>3
<1>8. ASSUME NEW i \in DOMAIN c, NEW j \in DOMAIN c, i < j
      PROVE  c[i].task # c[j].task /\ c[i].at <= c[j].at
  <2>1. CASE j \in DOMAIN a
    <3>1. i \in DOMAIN a
      BY <1>3, <1>8, <2>1
    <3> QED
      BY <1>4, <1>8, <2>1, <3>1 DEF Timed
  <2>2. CASE i \in DOMAIN a /\ j \notin DOMAIN a
    BY <1>4, <1>5, <1>6, <2>2
  <2>3. CASE i \notin DOMAIN a /\ j \notin DOMAIN a
    <3>1. /\ i - Len(a) \in DOMAIN b /\ c[i] = b[i - Len(a)]
          /\ j - Len(a) \in DOMAIN b /\ c[j] = b[j - Len(a)]
      BY <1>6, <2>3
    <3>2. i - Len(a) < j - Len(a)
      BY <1>3, <1>8
    <3> QED
      BY <3>1, <3>2 DEF Timed
  <2> QED
    BY <2>1, <2>2, <2>3
<1> QED
  BY <1>2, <1>7, <1>8 DEF Timed, c

LEMMA TimedKeep ==
  ASSUME NEW L, NEW list, NEW T, Timed(list, L)
  PROVE  Timed(Keep(list, T), L \cap T)
<1> DEFINE r == Keep(list, T)
<1>1. list \in Seq(Items) /\ ToSet(list) = L
  BY DEF Timed
<1>2. /\ r \in Seq(Items) /\ ToSet(r) = L \cap T
      /\ \A k, l \in DOMAIN r : k < l =>
           \E i, j \in DOMAIN list : i < j /\ list[i] = r[k] /\ list[j] = r[l]
  BY <1>1, KeepProperties
<1> HIDE DEF r
<1>3. ASSUME NEW k \in DOMAIN r, NEW l \in DOMAIN r, k < l
      PROVE  r[k].task # r[l].task /\ r[k].at <= r[l].at
  <2>1. PICK i \in DOMAIN list, j \in DOMAIN list :
          i < j /\ list[i] = r[k] /\ list[j] = r[l]
    BY <1>2, <1>3
  <2>2. list[i].task # list[j].task /\ list[i].at <= list[j].at
    BY <2>1 DEF Timed
  <2> QED
    BY <2>1, <2>2
<1> QED
  BY <1>2, <1>3 DEF Timed, r

LEMMA TimedInsert ==
  ASSUME NEW L, NEW list, NEW item \in Items, Timed(list, L),
         \A i \in L : i.task # item.task
  PROVE  Timed(vListInsert(list, item), L \cup {item})
<1> DEFINE before == {i \in ToSet(list) : i.at <= item.at}
           a == Keep(list, before)
           b == Keep(list, ToSet(list) \ before)
<1>1. list \in Seq(Items) /\ ToSet(list) = L
  BY DEF Timed
<1>2. L \subseteq Items
  BY <1>1, SeqOfSet
<1>3. \A i \in L : i.at \in Nat /\ item.at \in Nat
  BY <1>2, KernelAssumption DEF Items, portMAX_DELAY
<1>4. Timed(a, L \cap before) /\ Timed(b, L \cap (ToSet(list) \ before))
  BY TimedKeep
<1> DEFINE A == L \cap before
           B == L \cap (ToSet(list) \ before)
<1>5. /\ A \cup B = L
      /\ \A x \in A : x.task # item.task /\ x.at <= item.at
      /\ \A y \in B : item.task # y.task /\ item.at <= y.at
      /\ \A x \in A, y \in B : x.at <= y.at
  BY <1>1, <1>3
<1>6. \A x \in A, y \in B : x.task # y.task
  <2> SUFFICES ASSUME NEW x \in A, NEW y \in B
               PROVE  x.task # y.task
    OBVIOUS
  <2>1. x # y
    OBVIOUS
  <2>2. PICK i \in DOMAIN list, j \in DOMAIN list : x = list[i] /\ y = list[j]
    BY <1>1 DEF ToSet
  <2>3. i < j \/ j < i
    BY <1>1, <2>1, <2>2
  <2> QED
    BY <2>2, <2>3 DEF Timed
<1>7. Timed(<<item>>, {item})
  BY TimedOne
<1>8. vListInsert(list, item) = a \o <<item>> \o b
  BY DEF vListInsert
<1> HIDE DEF a, b, before, A, B
<1>9. Timed(a, A) /\ Timed(b, B)
  BY <1>4 DEF A, B
<1>10. Timed(a \o <<item>>, A \cup {item})
  BY <1>5, <1>7, <1>9, TimedConcat
<1>11. \A x \in A \cup {item}, y \in B : x.task # y.task /\ x.at <= y.at
  BY <1>5, <1>6
<1>12. Timed(a \o <<item>> \o b, (A \cup {item}) \cup B)
  BY <1>9, <1>10, <1>11, TimedConcat
<1>13. (A \cup {item}) \cup B = L \cup {item}
  BY <1>5
<1> QED
  BY <1>8, <1>12, <1>13

TasksOf(L) == {i.task : i \in L}

LEMMA TimedOwners ==
  ASSUME NEW L, NEW list, Timed(list, L)
  PROVE  /\ L \subseteq Items
         /\ Lists(Owners(list), TasksOf(L))
         /\ ToSet(Owners(list)) = TasksOf(L)
         /\ \A x, y \in L : x.task = y.task => x = y
<1>1. list \in Seq(Items) /\ ToSet(list) = L
  BY DEF Timed
<1>2. DOMAIN list = 1 .. Len(list) /\ Len(list) \in Nat
  BY <1>1
<1>3. \A i \in DOMAIN list : list[i] \in L /\ list[i] \in Items
  BY <1>1, <1>2 DEF ToSet
<1>4. \A i, j \in DOMAIN list : list[i].task = list[j].task => i = j
  <2> SUFFICES ASSUME NEW i \in DOMAIN list, NEW j \in DOMAIN list, i # j
               PROVE  list[i].task # list[j].task
    OBVIOUS
  <2>1. i < j \/ j < i
    BY <1>2
  <2> QED
    BY <2>1 DEF Timed
<1> DEFINE r == Owners(list)
<1>5. DOMAIN r = DOMAIN list /\ \A i \in DOMAIN list : r[i] = list[i].task
  BY DEF Owners
<1>6. ToSet(r) = TasksOf(L)
  <2>1. \A x \in ToSet(r) : x \in TasksOf(L)
    BY <1>3, <1>5 DEF ToSet, TasksOf
  <2>2. \A x \in TasksOf(L) : x \in ToSet(r)
    BY <1>1, <1>5 DEF ToSet, TasksOf
  <2> QED
    BY <2>1, <2>2
<1>7. r \in Seq(TasksOf(L))
  BY <1>2, <1>3 DEF Owners, TasksOf
<1>8. IsInjective(r)
  BY <1>4, <1>5 DEF IsInjective
<1>9. \A x, y \in L : x.task = y.task => x = y
  <2> SUFFICES ASSUME NEW x \in L, NEW y \in L, x.task = y.task PROVE x = y
    OBVIOUS
  <2>1. PICK i \in DOMAIN list, j \in DOMAIN list : x = list[i] /\ y = list[j]
    BY <1>1 DEF ToSet
  <2> QED
    BY <1>4, <2>1
<1>10. L \subseteq Items
  BY <1>1, SeqOfSet
<1> QED
  BY <1>6, <1>7, <1>8, <1>9, <1>10 DEF Lists

LEMMA TimedHead ==
  ASSUME NEW L, NEW list, Timed(list, L), list # << >>
  PROVE  Head(list) \in L /\ \A i \in L : Head(list).at <= i.at
<1>1. list \in Seq(Items) /\ ToSet(list) = L
  BY DEF Timed
<1>2. DOMAIN list = 1 .. Len(list) /\ Len(list) \in Nat \ {0} /\ Head(list) = list[1]
  BY <1>1
<1>3. Head(list) \in L
  BY <1>1, SeqOfSet
<1>4. \A i \in L : i.at \in Nat
  <2>1. L \subseteq Items /\ portMAX_DELAY \in Nat
    BY <1>1, SeqOfSet, KernelAssumption DEF portMAX_DELAY
  <2> QED
    BY <2>1 DEF Items
<1>5. ASSUME NEW x \in L PROVE Head(list).at <= x.at
  <2>1. PICK i \in DOMAIN list : x = list[i]
    BY <1>1 DEF ToSet
  <2>2. CASE i = 1
    BY <1>2, <1>4, <2>1, <2>2
  <2>3. CASE 1 < i
    BY <1>2, <2>1, <2>3 DEF Timed
  <2> QED
    BY <1>2, <2>2, <2>3
<1> QED
  BY <1>3, <1>5

-----------------------------------------------------------------------------
(* The scheduler *)

Delayed(s) == ToSet(s.delayed)
Overflow(s) == ToSet(s.overflow)
QueueOps == {"send", "receive"}
AllItems == Tasks \cup {xListEnd}

SchedShape(s) ==
  s \in [xTickCount : 0 .. portMAX_DELAY,
         xNumOfOverflows : 0 .. (OverflowRange - 1),
         xNextTaskUnblockTime : 0 .. portMAX_DELAY,
         ready : Seq(AllItems),
         delayed : Seq(Items), overflow : Seq(Items),
         suspended : SUBSET Tasks,
         waiting : [QueueOps -> Seq(Tasks)]]

\* A task is on one list, ...
StateLists(s) ==
  /\ Timed(s.delayed, Delayed(s)) /\ Timed(s.overflow, Overflow(s))
  /\ TasksOf(Delayed(s)) \cap TasksOf(Overflow(s)) = {}
  /\ TasksOf(Delayed(s)) \cap s.suspended = {}
  /\ TasksOf(Overflow(s)) \cap s.suspended = {}
  /\ Lists(s.ready, AllItems \ Blocked(s))

\* ... on one event list at most, and blocked while it is on one.
EventLists(s) ==
  /\ \A op \in QueueOps : /\ Lists(s.waiting[op], ToSet(s.waiting[op]))
                          /\ ToSet(s.waiting[op]) \subseteq Blocked(s)
  /\ ToSet(s.waiting["send"]) \cap ToSet(s.waiting["receive"]) = {}

ListsInv(s) == StateLists(s) /\ EventLists(s)

\* Who is delayed will wake later than now, before or after the wrap, and not
\* before the next time at which the kernel looks.
TimesInv(s) ==
  /\ \A i \in Delayed(s) : s.xTickCount < i.at /\ s.xNextTaskUnblockTime <= i.at
  /\ \A i \in Overflow(s) : i.at < s.xTickCount

SchedInv(s) == SchedShape(s) /\ ListsInv(s) /\ TimesInv(s)

LEMMA BlockedTasks ==
  ASSUME NEW s, SchedShape(s), ListsInv(s)
  PROVE  /\ Blocked(s) = TasksOf(Delayed(s)) \cup TasksOf(Overflow(s)) \cup s.suspended
         /\ Blocked(s) \subseteq Tasks
<1>1. /\ ToSet(Owners(s.delayed)) = TasksOf(Delayed(s))
      /\ ToSet(Owners(s.overflow)) = TasksOf(Overflow(s))
      /\ Delayed(s) \subseteq Items /\ Overflow(s) \subseteq Items
  BY TimedOwners DEF ListsInv, StateLists, EventLists
<1>2. TasksOf(Delayed(s)) \subseteq Tasks /\ TasksOf(Overflow(s)) \subseteq Tasks
  BY <1>1 DEF TasksOf, Items
<1>3. s.suspended \subseteq Tasks
  BY DEF SchedShape
<1> QED
  BY <1>1, <1>2, <1>3 DEF Blocked

LEMMA Reset ==
  ASSUME NEW s, SchedShape(s), Timed(s.delayed, Delayed(s))
  PROVE  LET r == ResetNextTaskUnblockTime(s)
         IN  /\ SchedShape(r)
             /\ r = [s EXCEPT !.xNextTaskUnblockTime = r.xNextTaskUnblockTime]
             /\ \A i \in Delayed(s) : r.xNextTaskUnblockTime <= i.at
             /\ s.delayed = << >> => r.xNextTaskUnblockTime = portMAX_DELAY
<1> DEFINE next == IF s.delayed = << >> THEN portMAX_DELAY ELSE Head(s.delayed).at
           r == ResetNextTaskUnblockTime(s)
<1>1. portMAX_DELAY \in Nat /\ Delayed(s) \subseteq Items
  BY KernelAssumption, TimedOwners DEF portMAX_DELAY
<1>2. next \in 0 .. portMAX_DELAY /\ \A i \in Delayed(s) : next <= i.at
  <2>1. CASE s.delayed = << >>
    <3>1. Delayed(s) = {}
      BY <2>1 DEF Delayed, ToSet
    <3> QED
      BY <1>1, <2>1, <3>1
  <2>2. CASE s.delayed # << >>
    BY <1>1, <2>2, TimedHead DEF Items
  <2> QED
    BY <2>1, <2>2
<1>3. r = [s EXCEPT !.xNextTaskUnblockTime = next]
  BY DEF ResetNextTaskUnblockTime
<1>4. s.delayed = << >> => next = portMAX_DELAY
  OBVIOUS
<1> HIDE DEF next
<1>5. r.xNextTaskUnblockTime = next /\ SchedShape(r)
  BY <1>2, <1>3 DEF SchedShape
<1> QED
  BY <1>2, <1>3, <1>4, <1>5

\* Taking the tasks X off the lists they are blocked on and making them ready.
LEMMA Unblock ==
  ASSUME NEW s, NEW r, NEW X, NEW awake, SchedShape(s), ListsInv(s), SchedShape(r),
         Lists(awake, X), X \subseteq Blocked(s),
         Timed(r.delayed, Delayed(r)), Delayed(r) = {i \in Delayed(s) : i.task \notin X},
         Timed(r.overflow, Overflow(r)), Overflow(r) = {i \in Overflow(s) : i.task \notin X},
         r.suspended = s.suspended \ X,
         r.ready = s.ready \o awake,
         \A op \in QueueOps :
           Lists(r.waiting[op], ToSet(s.waiting[op]) \ X)
  PROVE  /\ ListsInv(r)
         /\ Blocked(r) = Blocked(s) \ X
         /\ \A op \in QueueOps :
              ToSet(r.waiting[op]) = ToSet(s.waiting[op]) \cap Blocked(r)
<1>1. /\ Blocked(s) = TasksOf(Delayed(s)) \cup TasksOf(Overflow(s)) \cup s.suspended
      /\ Blocked(s) \subseteq Tasks
  BY BlockedTasks
<1>2. Blocked(r) = TasksOf(Delayed(r)) \cup TasksOf(Overflow(r)) \cup r.suspended
  <2>1. /\ ToSet(Owners(r.delayed)) = TasksOf(Delayed(r))
        /\ ToSet(Owners(r.overflow)) = TasksOf(Overflow(r))
    BY TimedOwners
  <2> QED
    BY <2>1 DEF Blocked
<1>3. /\ TasksOf(Delayed(r)) = TasksOf(Delayed(s)) \ X
      /\ TasksOf(Overflow(r)) = TasksOf(Overflow(s)) \ X
  BY DEF TasksOf
<1>4. Blocked(r) = Blocked(s) \ X
  BY <1>1, <1>2, <1>3
<1>5. Lists(r.ready, AllItems \ Blocked(r))
  <2>1. Lists(s.ready, AllItems \ Blocked(s))
    BY DEF ListsInv, StateLists, EventLists
  <2>2. (AllItems \ Blocked(s)) \cap X = {}
    OBVIOUS
  <2>3. (AllItems \ Blocked(s)) \cup X = AllItems \ Blocked(r)
    BY <1>1, <1>4 DEF AllItems
  <2>4. Lists(s.ready \o awake, (AllItems \ Blocked(s)) \cup X)
    BY <2>1, <2>2, ListsConcat
  <2> QED
    BY <2>3, <2>4
<1>6. \A op \in QueueOps :
        /\ ToSet(r.waiting[op]) = ToSet(s.waiting[op]) \ X
        /\ ToSet(s.waiting[op]) \subseteq Blocked(s)
  BY DEF Lists, ListsInv, StateLists, EventLists
<1>7. \A op \in QueueOps :
        /\ Lists(r.waiting[op], ToSet(r.waiting[op]))
        /\ ToSet(r.waiting[op]) \subseteq Blocked(r)
        /\ ToSet(r.waiting[op]) = ToSet(s.waiting[op]) \cap Blocked(r)
  BY <1>4, <1>6
<1>8. ToSet(r.waiting["send"]) \cap ToSet(r.waiting["receive"]) = {}
  <2>1. /\ ToSet(r.waiting["send"]) \subseteq ToSet(s.waiting["send"])
        /\ ToSet(r.waiting["receive"]) \subseteq ToSet(s.waiting["receive"])
    BY <1>6 DEF QueueOps
  <2> QED
    BY <2>1 DEF ListsInv, StateLists, EventLists
<1>9. /\ TasksOf(Delayed(r)) \cap TasksOf(Overflow(r)) = {}
      /\ TasksOf(Delayed(r)) \cap r.suspended = {}
      /\ TasksOf(Overflow(r)) \cap r.suspended = {}
  BY <1>3 DEF ListsInv, StateLists, EventLists
<1> QED
  BY <1>4, <1>5, <1>7, <1>8, <1>9 DEF ListsInv, StateLists, EventLists

LEMMA WhoIsDue ==
  ASSUME NEW s, SchedShape(s), ListsInv(s)
  PROVE  LET r == UnblockDue(s)
         IN  /\ SchedShape(r) /\ ListsInv(r)
             /\ r.xTickCount = s.xTickCount /\ r.xNumOfOverflows = s.xNumOfOverflows
             /\ Delayed(r) = {i \in Delayed(s) : i.at > s.xTickCount}
             /\ \A i \in Delayed(r) : r.xNextTaskUnblockTime <= i.at
             /\ r.overflow = s.overflow /\ r.suspended = s.suspended
             /\ \A op \in QueueOps :
                  ToSet(r.waiting[op]) = ToSet(s.waiting[op]) \cap Blocked(r)
             /\ Blocked(r) \subseteq Blocked(s)
<1> DEFINE items == {i \in Delayed(s) : i.at <= s.xTickCount}
           kept == Keep(s.delayed, items)
           due == Owners(kept)
           rest == Keep(s.delayed, Delayed(s) \ items)
           waiting == [op \in QueueOps |->
                         Keep(s.waiting[op], ToSet(s.waiting[op]) \ ToSet(due))]
           u == [s EXCEPT !.delayed = rest, !.waiting = waiting, !.ready = @ \o due]
           X == TasksOf(items)
<1>1. DOMAIN s.waiting = QueueOps
  BY DEF SchedShape
<1>2. UnblockDue(s) = ResetNextTaskUnblockTime(u)
  BY <1>1 DEF UnblockDue, Delayed
<1>3. Timed(s.delayed, Delayed(s)) /\ Delayed(s) \subseteq Items
  BY TimedOwners DEF ListsInv, StateLists, EventLists
<1>4. /\ Timed(kept, items) /\ Timed(rest, Delayed(s) \ items)
      /\ Lists(due, X) /\ ToSet(due) = X
  <2>1. Delayed(s) \cap items = items /\ Delayed(s) \cap (Delayed(s) \ items) = Delayed(s) \ items
    OBVIOUS
  <2>2. Timed(kept, Delayed(s) \cap items) /\ Timed(rest, Delayed(s) \cap (Delayed(s) \ items))
    BY <1>3, TimedKeep
  <2>3. Timed(kept, items) /\ Timed(rest, Delayed(s) \ items)
    BY <2>1, <2>2
  <2> QED
    BY <2>3, TimedOwners
<1>5. \A op \in QueueOps :
        /\ waiting[op] \in Seq(Tasks)
        /\ Lists(waiting[op], ToSet(s.waiting[op]) \ X)
  <2> SUFFICES ASSUME NEW op \in QueueOps
               PROVE  /\ waiting[op] \in Seq(Tasks)
                      /\ Lists(waiting[op], ToSet(s.waiting[op]) \ X)
    OBVIOUS
  <2>1. s.waiting[op] \in Seq(Tasks) /\ Lists(s.waiting[op], ToSet(s.waiting[op]))
    BY DEF SchedShape, ListsInv, StateLists, EventLists
  <2>2. Lists(waiting[op], ToSet(s.waiting[op]) \cap (ToSet(s.waiting[op]) \ X))
    BY <1>4, <2>1, ListsKeep
  <2>3. ToSet(s.waiting[op]) \cap (ToSet(s.waiting[op]) \ X) = ToSet(s.waiting[op]) \ X
    OBVIOUS
  <2> QED
    BY <2>1, <2>2, <2>3, KeepProperties
<1>6. waiting \in [QueueOps -> Seq(Tasks)]
  BY <1>5
<1>7. rest \in Seq(Items) /\ ToSet(rest) = Delayed(s) \ items
  BY <1>4 DEF Timed
<1>8. s.ready \o due \in Seq(AllItems)
  <2>1. X \subseteq AllItems
    BY <1>3 DEF TasksOf, Items, AllItems
  <2>2. due \in Seq(AllItems)
    BY <1>4, <2>1, SeqMonotonic DEF Lists
  <2>3. s.ready \in Seq(AllItems)
    BY DEF SchedShape
  <2> QED
    BY <2>2, <2>3
<1> HIDE DEF kept, due, rest, waiting
<1>9. /\ SchedShape(u) /\ u.delayed = rest /\ u.waiting = waiting
      /\ u.ready = s.ready \o due /\ u.overflow = s.overflow
      /\ u.suspended = s.suspended /\ u.xTickCount = s.xTickCount
      /\ u.xNumOfOverflows = s.xNumOfOverflows
  BY <1>6, <1>7, <1>8 DEF SchedShape
<1> HIDE DEF u
<1> DEFINE r == ResetNextTaskUnblockTime(u)
<1>10. Delayed(u) = Delayed(s) \ items
  BY <1>7, <1>9 DEF Delayed
<1>11. Timed(u.delayed, Delayed(u))
  BY <1>4, <1>9, <1>10
<1>12. /\ SchedShape(r)
       /\ r = [u EXCEPT !.xNextTaskUnblockTime = r.xNextTaskUnblockTime]
       /\ \A i \in Delayed(u) : r.xNextTaskUnblockTime <= i.at
  BY <1>9, <1>11, Reset
<1> HIDE DEF r
<1>13. /\ r.delayed = rest /\ r.waiting = waiting
       /\ r.ready = s.ready \o due /\ r.overflow = s.overflow
       /\ r.suspended = s.suspended /\ r.xTickCount = s.xTickCount
       /\ r.xNumOfOverflows = s.xNumOfOverflows
  BY <1>9, <1>12 DEF SchedShape
<1>14. /\ Delayed(r) = Delayed(s) \ items /\ Overflow(r) = Overflow(s)
       /\ Timed(r.delayed, Delayed(r)) /\ Timed(r.overflow, Overflow(r))
  BY <1>4, <1>7, <1>13 DEF Delayed, Overflow, ListsInv, StateLists, EventLists
<1>15. /\ X \subseteq TasksOf(Delayed(s)) /\ X \subseteq Blocked(s)
       /\ X \cap TasksOf(Overflow(s)) = {} /\ X \cap s.suspended = {}
  BY BlockedTasks DEF TasksOf, ListsInv, StateLists, EventLists
<1>16. Delayed(r) = {i \in Delayed(s) : i.task \notin X}
  <2>1. \A x, y \in Delayed(s) : x.task = y.task => x = y
    BY <1>3, TimedOwners
  <2> QED
    BY <1>14, <2>1 DEF TasksOf
<1>17. Overflow(r) = {i \in Overflow(s) : i.task \notin X}
  BY <1>14, <1>15 DEF TasksOf
<1>18. r.suspended = s.suspended \ X
  BY <1>13, <1>15
<1>19. \A op \in QueueOps : Lists(r.waiting[op], ToSet(s.waiting[op]) \ X)
  BY <1>5, <1>13
<1> HIDE DEF X
<1>20. /\ ListsInv(r) /\ Blocked(r) = Blocked(s) \ X
       /\ \A op \in QueueOps :
            ToSet(r.waiting[op]) = ToSet(s.waiting[op]) \cap Blocked(r)
  <2>1. /\ SchedShape(r) /\ Lists(due, X) /\ X \subseteq Blocked(s)
        /\ r.ready = s.ready \o due
        /\ Timed(r.delayed, Delayed(r)) /\ Timed(r.overflow, Overflow(r))
    BY <1>4, <1>12, <1>13, <1>14, <1>15
  <2> QED
    BY <1>16, <1>17, <1>18, <1>19, <2>1, Unblock
<1>21. Delayed(r) = {i \in Delayed(s) : i.at > s.xTickCount}
  <2>1. \A i \in Delayed(s) : i.at \in Nat /\ s.xTickCount \in Nat
    BY <1>3, KernelAssumption DEF Items, SchedShape, portMAX_DELAY
  <2> QED
    BY <1>14, <2>1
<1> QED
  BY <1>2, <1>10, <1>12, <1>13, <1>14, <1>20, <1>21 DEF r

\* What the tick leaves of each list.
NextTick(s) == (s.xTickCount + 1) % TickRange
StillDelayed(s) ==
  {i \in IF NextTick(s) = 0 THEN Overflow(s) ELSE Delayed(s) : i.at > NextTick(s)}
StillOverflow(s) == IF NextTick(s) = 0 THEN {} ELSE Overflow(s)

\* Who is not blocked any more does not wait for the queue any more.
OnlyWakes(s, r) ==
  /\ Blocked(r) \subseteq Blocked(s)
  /\ r.suspended = s.suspended
  /\ \A op \in QueueOps :
       ToSet(r.waiting[op]) = ToSet(s.waiting[op]) \cap Blocked(r)

LEMMA NextTickValue ==
  ASSUME NEW s, SchedShape(s)
  PROVE  /\ NextTick(s) \in 0 .. portMAX_DELAY
         /\ s.xTickCount \in Nat /\ s.xTickCount <= portMAX_DELAY
         /\ s.xTickCount # portMAX_DELAY => NextTick(s) = s.xTickCount + 1
         /\ s.xTickCount = portMAX_DELAY <=> NextTick(s) = 0
<1>1. s.xTickCount \in 0 .. portMAX_DELAY /\ TickRange \in Nat \ {0, 1}
  BY KernelAssumption DEF SchedShape
<1> DEFINE n == s.xTickCount
<1>2. n \in Nat /\ n < TickRange /\ portMAX_DELAY = TickRange - 1
  BY <1>1 DEF portMAX_DELAY
<1> HIDE DEF n
<1>3. CASE n = TickRange - 1
  <2>1. n + 1 = TickRange /\ (n + 1) % TickRange = 0
    BY <1>1, <1>2, <1>3
  <2> QED
    BY <1>1, <1>2, <1>3, <2>1 DEF NextTick, n
<1>4. CASE n # TickRange - 1
  <2>1. n + 1 < TickRange /\ (n + 1) % TickRange = n + 1
    BY <1>1, <1>2, <1>4
  <2> QED
    BY <1>1, <1>2, <1>4, <2>1 DEF NextTick, n
<1> QED
  BY <1>3, <1>4

LEMMA TickOfScheduler ==
  ASSUME NEW s, SchedInv(s)
  PROVE  LET r == xTaskIncrementTick(s)
         IN  /\ SchedInv(r) /\ OnlyWakes(s, r)
             /\ r.xTickCount = NextTick(s)
             /\ r.xNumOfOverflows = IF NextTick(s) = 0
                                    THEN (s.xNumOfOverflows + 1) % OverflowRange
                                    ELSE s.xNumOfOverflows
             /\ Delayed(r) = StillDelayed(s) /\ Overflow(r) = StillOverflow(s)
<1> DEFINE tick == NextTick(s)
           counted == [s EXCEPT !.xTickCount = tick]
           current == IF tick = 0 THEN SwitchDelayedLists(counted) ELSE counted
           r == IF tick >= current.xNextTaskUnblockTime THEN UnblockDue(current) ELSE current
<1>1. r = xTaskIncrementTick(s)
  BY DEF xTaskIncrementTick, NextTick
<1>2. SchedShape(s) /\ ListsInv(s) /\ TimesInv(s) /\ tick \in 0 .. portMAX_DELAY
  BY NextTickValue DEF SchedInv
<1>3. portMAX_DELAY \in Nat
  BY KernelAssumption DEF portMAX_DELAY
<1>4. Delayed(s) \subseteq Items /\ Overflow(s) \subseteq Items
  BY <1>2, TimedOwners DEF ListsInv, StateLists, EventLists
<1> HIDE DEF tick
<1>5. /\ SchedShape(counted) /\ counted.xTickCount = tick
      /\ counted.delayed = s.delayed /\ counted.overflow = s.overflow
      /\ counted.ready = s.ready /\ counted.suspended = s.suspended
      /\ counted.waiting = s.waiting /\ counted.xNumOfOverflows = s.xNumOfOverflows
      /\ counted.xNextTaskUnblockTime = s.xNextTaskUnblockTime
  BY <1>2 DEF SchedShape
<1> HIDE DEF counted
\* Whether the lists have been switched or not, what is left is to wake who is due.
<1>6. /\ SchedShape(current) /\ ListsInv(current)
      /\ current.xTickCount = tick
      /\ current.xNumOfOverflows = IF tick = 0 THEN (s.xNumOfOverflows + 1) % OverflowRange
                                   ELSE s.xNumOfOverflows
      /\ current.suspended = s.suspended /\ current.waiting = s.waiting
      /\ Blocked(current) = Blocked(s)
      /\ Delayed(current) = IF tick = 0 THEN Overflow(s) ELSE Delayed(s)
      /\ Overflow(current) = IF tick = 0 THEN {} ELSE Overflow(s)
      /\ \A i \in Delayed(current) : current.xNextTaskUnblockTime <= i.at
      /\ \A i \in Overflow(current) : i.at < tick
  <2>1. CASE tick # 0
    <3>1. current = counted
      BY <2>1
    <3>2. tick = s.xTickCount + 1 /\ s.xTickCount \in Nat
      BY <1>2, <2>1, NextTickValue DEF tick
    <3>3. Blocked(counted) = Blocked(s) /\ ListsInv(counted)
      BY <1>2, <1>5 DEF Blocked, ListsInv, StateLists, EventLists, Delayed, Overflow
    <3>4. Delayed(counted) = Delayed(s) /\ Overflow(counted) = Overflow(s)
      BY <1>5 DEF Delayed, Overflow
    <3>5. \A i \in Overflow(s) : i.at < tick
      <4>1. \A i \in Overflow(s) : i.at < s.xTickCount /\ i.at \in Nat
        BY <1>2, <1>3, <1>4 DEF TimesInv, Items
      <4> QED
        BY <3>2, <4>1
    <3> QED
      BY <1>2, <1>5, <2>1, <3>1, <3>3, <3>4, <3>5 DEF TimesInv
  <2>2. CASE tick = 0
    <3> DEFINE overflows == (s.xNumOfOverflows + 1) % OverflowRange
               switched == [counted EXCEPT !.delayed = s.overflow, !.overflow = s.delayed,
                                           !.xNumOfOverflows = overflows]
    <3>1. Delayed(s) = {}
      <4>1. s.xTickCount = portMAX_DELAY
        BY <1>2, <2>2, NextTickValue DEF tick
      <4>2. \A i \in Delayed(s) : i.at <= portMAX_DELAY /\ i.at \in Nat
        BY <1>3, <1>4 DEF Items
      <4> QED
        BY <1>2, <1>3, <4>1, <4>2 DEF TimesInv
    <3>2. current = ResetNextTaskUnblockTime(switched)
      BY <1>5, <2>2 DEF SwitchDelayedLists
    <3>3. overflows \in 0 .. (OverflowRange - 1)
      <4>1. s.xNumOfOverflows \in Nat /\ OverflowRange \in Nat \ {0}
        BY <1>2, KernelAssumption DEF SchedShape
      <4> QED
        BY <4>1
    <3> HIDE DEF overflows
    <3>4. /\ SchedShape(switched) /\ switched.delayed = s.overflow
          /\ switched.overflow = s.delayed /\ switched.xTickCount = tick
          /\ switched.ready = s.ready /\ switched.suspended = s.suspended
          /\ switched.waiting = s.waiting /\ switched.xNumOfOverflows = overflows
      BY <1>2, <1>5, <3>3 DEF SchedShape
    <3> HIDE DEF switched, current
    <3>5. Delayed(switched) = Overflow(s) /\ Timed(switched.delayed, Delayed(switched))
      BY <1>2, <3>4 DEF Delayed, Overflow, ListsInv, StateLists, EventLists
    <3>6. /\ SchedShape(current)
          /\ current = [switched EXCEPT !.xNextTaskUnblockTime = current.xNextTaskUnblockTime]
          /\ \A i \in Delayed(switched) : current.xNextTaskUnblockTime <= i.at
      BY <3>2, <3>4, <3>5, Reset
    <3>7. /\ current.delayed = s.overflow /\ current.overflow = s.delayed
          /\ current.ready = s.ready /\ current.suspended = s.suspended
          /\ current.waiting = s.waiting /\ current.xNumOfOverflows = overflows
          /\ current.xTickCount = tick
      BY <3>4, <3>6 DEF SchedShape
    <3>8. Delayed(current) = Overflow(s) /\ Overflow(current) = Delayed(s)
      BY <3>7 DEF Delayed, Overflow
    <3>9. Blocked(current) = Blocked(s)
      BY <3>7 DEF Blocked
    <3>10. ListsInv(current)
      BY <1>2, <3>7, <3>8, <3>9 DEF ListsInv, StateLists, EventLists
    <3> QED
      BY <2>2, <3>1, <3>5, <3>6, <3>7, <3>8, <3>9, <3>10 DEF overflows
  <2> QED
    BY <2>1, <2>2
<1> HIDE DEF current
<1>7. Delayed(current) \subseteq Items
  BY <1>6, TimedOwners DEF ListsInv, StateLists, EventLists
<1>8. CASE tick >= current.xNextTaskUnblockTime
  <2>1. r = UnblockDue(current)
    BY <1>8
  <2> HIDE DEF r
  <2>2. /\ SchedShape(r) /\ ListsInv(r)
        /\ r.xTickCount = tick /\ r.xNumOfOverflows = current.xNumOfOverflows
        /\ Delayed(r) = {i \in Delayed(current) : i.at > tick}
        /\ \A i \in Delayed(r) : r.xNextTaskUnblockTime <= i.at
        /\ r.overflow = current.overflow /\ r.suspended = current.suspended
        /\ \A op \in QueueOps :
             ToSet(r.waiting[op]) = ToSet(current.waiting[op]) \cap Blocked(r)
        /\ Blocked(r) \subseteq Blocked(current)
    BY <1>6, <2>1, WhoIsDue
  <2>3. Overflow(r) = Overflow(current)
    BY <2>2 DEF Overflow
  <2>4. \A i \in Delayed(r) : tick < i.at
    <3>1. tick \in Nat /\ \A i \in Delayed(current) : i.at \in Nat
      BY <1>2, <1>3, <1>7 DEF Items
    <3> QED
      BY <2>2, <3>1
  <2>5. TimesInv(r)
    BY <1>6, <2>2, <2>3, <2>4 DEF TimesInv
  <2>6. OnlyWakes(s, r)
    BY <1>6, <2>2 DEF OnlyWakes
  <2>7. Delayed(r) = StillDelayed(s) /\ Overflow(r) = StillOverflow(s)
    BY <1>6, <2>2, <2>3 DEF StillDelayed, StillOverflow, tick
  <2> QED
    BY <1>1, <1>6, <2>2, <2>5, <2>6, <2>7 DEF SchedInv, tick
<1>9. CASE ~(tick >= current.xNextTaskUnblockTime)
  <2>1. r = current
    BY <1>9
  <2>2. \A i \in Delayed(current) : i.at > tick /\ tick < i.at
    <3>1. /\ tick \in Nat /\ \A i \in Delayed(current) : i.at \in Nat
          /\ current.xNextTaskUnblockTime \in Nat
      BY <1>2, <1>3, <1>6, <1>7 DEF Items, SchedShape
    <3> QED
      BY <1>6, <1>9, <3>1
  <2>3. TimesInv(current)
    BY <1>6, <2>2 DEF TimesInv
  <2>4. OnlyWakes(s, current)
    <3>1. \A op \in QueueOps : ToSet(s.waiting[op]) \subseteq Blocked(s)
      BY <1>2 DEF ListsInv, StateLists, EventLists
    <3> QED
      BY <1>6, <3>1 DEF OnlyWakes
  <2>5. Delayed(current) = StillDelayed(s) /\ Overflow(current) = StillOverflow(s)
    BY <1>6, <2>2 DEF StillDelayed, StillOverflow, tick
  <2> QED
    BY <1>1, <1>6, <2>1, <2>3, <2>4, <2>5 DEF SchedInv, tick
<1> QED
  BY <1>8, <1>9

LEMMA SwitchContext ==
  ASSUME NEW s, SchedInv(s)
  PROVE  LET r == vTaskSwitchContext(s)
         IN  /\ SchedInv(r)
             /\ r = [s EXCEPT !.ready = r.ready]
<1> DEFINE r == vTaskSwitchContext(s)
           ring == OwnerOfNextEntry(s.ready)
           M == AllItems \ Blocked(s)
<1>1. SchedShape(s) /\ ListsInv(s) /\ TimesInv(s)
  BY DEF SchedInv
<1>2. Lists(s.ready, M)
  BY <1>1 DEF ListsInv, StateLists
<1>3. s.ready # << >>
  <2>1. xListEnd \in M
    BY <1>1, BlockedTasks, KernelAssumption DEF AllItems
  <2> QED
    BY <1>2, <2>1, ListsEmpty DEF Lists
<1>4. Lists(ring, M)
  BY <1>2, <1>3, NextEntryOfRing
<1>5. ring \in Seq(AllItems)
  BY <1>4, SeqMonotonic DEF Lists
<1>6. r = [s EXCEPT !.ready = ring]
  BY DEF vTaskSwitchContext
<1> HIDE DEF ring, r
<1>7. /\ SchedShape(r) /\ r.ready = ring
      /\ r.delayed = s.delayed /\ r.overflow = s.overflow
      /\ r.suspended = s.suspended /\ r.waiting = s.waiting
      /\ r.xTickCount = s.xTickCount
      /\ r.xNextTaskUnblockTime = s.xNextTaskUnblockTime
  BY <1>1, <1>5, <1>6 DEF SchedShape
<1>8. Blocked(r) = Blocked(s) /\ Delayed(r) = Delayed(s) /\ Overflow(r) = Overflow(s)
  BY <1>7 DEF Blocked, Delayed, Overflow
<1>9. ListsInv(r) /\ TimesInv(r)
  BY <1>1, <1>4, <1>7, <1>8 DEF ListsInv, StateLists, EventLists, TimesInv
<1> QED
  BY <1>6, <1>7, <1>9 DEF SchedInv, r

\* From s the scheduler gets to r while so many ticks pass.
Passed(s, r, ticks) ==
  /\ SchedInv(r) /\ OnlyWakes(s, r)
  /\ IF ticks = 0
     THEN /\ r.xTickCount = s.xTickCount /\ r.xNumOfOverflows = s.xNumOfOverflows
          /\ Delayed(r) = Delayed(s) /\ Overflow(r) = Overflow(s)
     ELSE /\ r.xTickCount = NextTick(s)
          /\ r.xNumOfOverflows = IF NextTick(s) = 0
                                 THEN (s.xNumOfOverflows + 1) % OverflowRange
                                 ELSE s.xNumOfOverflows
          /\ Delayed(r) = StillDelayed(s) /\ Overflow(r) = StillOverflow(s)

LEMMA ResumeAll ==
  ASSUME NEW s, SchedInv(s), NEW ticks \in {0, 1}, NEW yield \in BOOLEAN
  PROVE  Passed(s, xTaskResumeAll(s, ticks, yield), ticks)
<1> DEFINE resumed == IF ticks = 0 THEN s ELSE xTaskIncrementTick(s)
           r == xTaskResumeAll(s, ticks, yield)
<1>1. Passed(s, resumed, ticks)
  <2>1. CASE ticks = 0
    <3>1. OnlyWakes(s, s)
      BY DEF OnlyWakes, SchedInv, ListsInv, StateLists, EventLists
    <3> QED
      BY <2>1, <3>1 DEF Passed
  <2>2. CASE ticks = 1
    BY <2>2, TickOfScheduler DEF Passed
  <2> QED
    BY <2>1, <2>2
<1> HIDE DEF resumed
<1>2. SchedInv(resumed)
  BY <1>1 DEF Passed
<1>3. CASE ticks > 0 \/ yield
  <2>1. r = vTaskSwitchContext(resumed)
    BY <1>3 DEF xTaskResumeAll, resumed
  <2> HIDE DEF r
  <2>2. SchedInv(r) /\ r = [resumed EXCEPT !.ready = r.ready]
    BY <1>2, <2>1, SwitchContext
  <2>3. /\ r.delayed = resumed.delayed /\ r.overflow = resumed.overflow
        /\ r.suspended = resumed.suspended /\ r.waiting = resumed.waiting
        /\ r.xTickCount = resumed.xTickCount
        /\ r.xNumOfOverflows = resumed.xNumOfOverflows
    BY <1>2, <2>2 DEF SchedInv, SchedShape
  <2>4. Blocked(r) = Blocked(resumed) /\ Delayed(r) = Delayed(resumed)
        /\ Overflow(r) = Overflow(resumed)
    BY <2>3 DEF Blocked, Delayed, Overflow
  <2>5. OnlyWakes(s, r)
    BY <1>1, <2>3, <2>4 DEF Passed, OnlyWakes
  <2>6. Passed(s, r, ticks)
    BY <1>1, <2>2, <2>3, <2>4, <2>5 DEF Passed
  <2> QED
    BY <2>6 DEF r
<1>4. CASE ~(ticks > 0 \/ yield)
  BY <1>1, <1>4 DEF xTaskResumeAll, resumed
<1> QED
  BY <1>3, <1>4

\* The tick handler always asks for a switch.
LEMMA TickHandler ==
  ASSUME NEW s, SchedInv(s)
  PROVE  Passed(s, vTaskSwitchContext(xTaskIncrementTick(s)), 1)
<1>1. xTaskResumeAll(s, 1, TRUE) = vTaskSwitchContext(xTaskIncrementTick(s))
  BY DEF xTaskResumeAll
<1> QED
  BY <1>1, ResumeAll

LEMMA WakeTime ==
  ASSUME NEW now \in 0 .. portMAX_DELAY, NEW ticks \in 1 .. portMAX_DELAY
  PROVE  LET at == (now + ticks) % TickRange
         IN  /\ at \in 0 .. portMAX_DELAY
             /\ \/ at = now + ticks /\ now < at
                \/ at = now + ticks - TickRange /\ at < now
<1>1. TickRange \in Nat \ {0, 1} /\ portMAX_DELAY = TickRange - 1
  BY KernelAssumption DEF portMAX_DELAY
<1>2. CASE now + ticks < TickRange
  <2>1. (now + ticks) % TickRange = now + ticks
    BY <1>1, <1>2
  <2> QED
    BY <1>1, <1>2, <2>1
<1>3. CASE now + ticks >= TickRange
  <2>1. now + ticks - TickRange \in 0 .. (TickRange - 1)
    BY <1>1, <1>3
  <2>2. (now + ticks) % TickRange = now + ticks - TickRange
    BY <1>1, <2>1
  <2> QED
    BY <1>1, <1>3, <2>1, <2>2
<1> QED
  BY <1>1, <1>2, <1>3

\* The item of a task that is to wake so many ticks from now.
ItemFor(s, t, ticks) == [task |-> t, at |-> (s.xTickCount + ticks) % TickRange]

\* Task t, which was ready in s, is blocked in r for so many ticks or for ever.
Blocks(s, r, t, ticks, forever) ==
  /\ t \notin Blocked(s) /\ Blocked(r) = Blocked(s) \cup {t}
  /\ r.xTickCount = s.xTickCount /\ r.xNumOfOverflows = s.xNumOfOverflows
  /\ IF ticks = portMAX_DELAY /\ forever
     THEN /\ r.suspended = s.suspended \cup {t}
          /\ Delayed(r) = Delayed(s) /\ Overflow(r) = Overflow(s)
     ELSE /\ r.suspended = s.suspended
          /\ LET item == ItemFor(s, t, ticks)
             IN  \/ /\ item.at < s.xTickCount
                    /\ Delayed(r) = Delayed(s) /\ Overflow(r) = Overflow(s) \cup {item}
                 \/ /\ s.xTickCount < item.at
                    /\ Delayed(r) = Delayed(s) \cup {item} /\ Overflow(r) = Overflow(s)

LEMMA AddToDelayed ==
  ASSUME NEW s, SchedShape(s), StateLists(s), TimesInv(s),
         NEW t \in Tasks, Head(s.ready) = t,
         NEW ticks \in 1 .. portMAX_DELAY, NEW forever \in BOOLEAN,
         Blocked(s) \subseteq Tasks
  PROVE  LET r == AddCurrentTaskToDelayedList(s, t, ticks, forever)
         IN  /\ SchedShape(r) /\ StateLists(r) /\ TimesInv(r)
             /\ r.waiting = s.waiting /\ Blocks(s, r, t, ticks, forever)
<1> DEFINE ring == uxListRemove(s.ready, t)
           removed == [s EXCEPT !.ready = ring]
           at == (s.xTickCount + ticks) % TickRange
           item == [task |-> t, at |-> at]
           r == AddCurrentTaskToDelayedList(s, t, ticks, forever)
           M == AllItems \ Blocked(s)
<1>1. xListEnd \in M /\ xListEnd # t
  BY KernelAssumption DEF AllItems
<1>2. Lists(s.ready, M)
  BY DEF StateLists
<1>3. s.ready # << >>
  BY <1>1, <1>2, ListsEmpty DEF Lists
<1>4. t \in M /\ t \notin Blocked(s)
  <2>1. \A X : Lists(s.ready, X) => Head(s.ready) \in X
    BY <1>3, ListsTail
  <2> QED
    BY <1>2, <2>1
<1>5. Lists(ring, M \ {t})
  BY <1>1, <1>2, <1>3, RemovedFromRing
<1>6. ring \in Seq(AllItems)
  BY <1>5, SeqMonotonic DEF Lists
<1>7. s.xTickCount \in 0 .. portMAX_DELAY /\ portMAX_DELAY \in Nat
  BY KernelAssumption DEF SchedShape, portMAX_DELAY
<1>8. /\ at \in 0 .. portMAX_DELAY /\ item \in Items
      /\ at < s.xTickCount \/ s.xTickCount < at
  <2>1. at \in 0 .. portMAX_DELAY /\ (at < s.xTickCount \/ s.xTickCount < at)
    BY <1>7, WakeTime
  <2> HIDE DEF at
  <2> QED
    BY <2>1 DEF Items
<1>9. at < s.xTickCount => ~(s.xTickCount < at)
  BY <1>7, <1>8
<1>10. item.task = t /\ item.at = at /\ item = ItemFor(s, t, ticks)
  BY DEF ItemFor
<1> HIDE DEF ring, item, at
<1>11. /\ SchedShape(removed) /\ removed.ready = ring
       /\ removed.delayed = s.delayed /\ removed.overflow = s.overflow
       /\ removed.suspended = s.suspended /\ removed.waiting = s.waiting
       /\ removed.xTickCount = s.xTickCount
       /\ removed.xNumOfOverflows = s.xNumOfOverflows
       /\ removed.xNextTaskUnblockTime = s.xNextTaskUnblockTime
  BY <1>6 DEF SchedShape
<1> HIDE DEF removed
<1>12. r = IF ticks = portMAX_DELAY /\ forever
             THEN [removed EXCEPT !.suspended = @ \cup {t}]
           ELSE IF at < s.xTickCount
             THEN [removed EXCEPT !.overflow = vListInsert(@, item)]
           ELSE [removed EXCEPT !.delayed = vListInsert(@, item),
                   !.xNextTaskUnblockTime = IF at < @ THEN at ELSE @]
  BY DEF AddCurrentTaskToDelayedList, removed, ring, item, at
<1>13. /\ Blocked(s) = TasksOf(Delayed(s)) \cup TasksOf(Overflow(s)) \cup s.suspended
       /\ Delayed(s) \subseteq Items /\ Overflow(s) \subseteq Items
  <2>1. /\ ToSet(Owners(s.delayed)) = TasksOf(Delayed(s))
        /\ ToSet(Owners(s.overflow)) = TasksOf(Overflow(s))
        /\ Delayed(s) \subseteq Items /\ Overflow(s) \subseteq Items
    BY TimedOwners DEF StateLists
  <2> QED
    BY <2>1 DEF Blocked
<1>14. t \notin TasksOf(Delayed(s)) /\ t \notin TasksOf(Overflow(s)) /\ t \notin s.suspended
  BY <1>4, <1>13
<1>15. (\A i \in Delayed(s) : i.task # t) /\ (\A i \in Overflow(s) : i.task # t)
  BY <1>14 DEF TasksOf
<1>16. /\ Timed(vListInsert(s.delayed, item), Delayed(s) \cup {item})
       /\ Timed(vListInsert(s.overflow, item), Overflow(s) \cup {item})
  <2>1. Timed(s.delayed, Delayed(s)) /\ Timed(s.overflow, Overflow(s))
    BY DEF StateLists
  <2> QED
    BY <1>8, <1>10, <1>15, <2>1, TimedInsert
<1>17. \A L : TasksOf(L \cup {item}) = TasksOf(L) \cup {t}
  BY <1>10 DEF TasksOf
\* The lists follow from the sets.
<1>18. ASSUME NEW q, q.ready = ring,
              Timed(q.delayed, Delayed(q)), Timed(q.overflow, Overflow(q)),
              \/ /\ Delayed(q) = Delayed(s) /\ Overflow(q) = Overflow(s)
                 /\ q.suspended = s.suspended \cup {t}
              \/ /\ Delayed(q) = Delayed(s) /\ Overflow(q) = Overflow(s) \cup {item}
                 /\ q.suspended = s.suspended
              \/ /\ Delayed(q) = Delayed(s) \cup {item} /\ Overflow(q) = Overflow(s)
                 /\ q.suspended = s.suspended
       PROVE  StateLists(q) /\ Blocked(q) = Blocked(s) \cup {t}
  <2>1. /\ ToSet(Owners(q.delayed)) = TasksOf(Delayed(q))
        /\ ToSet(Owners(q.overflow)) = TasksOf(Overflow(q))
    BY <1>18, TimedOwners
  <2>2. Blocked(q) = TasksOf(Delayed(q)) \cup TasksOf(Overflow(q)) \cup q.suspended
    BY <2>1 DEF Blocked
  <2>3. Blocked(q) = Blocked(s) \cup {t}
    BY <1>13, <1>17, <1>18, <2>2
  <2>4. Lists(q.ready, AllItems \ Blocked(q))
    <3>1. AllItems \ Blocked(q) = M \ {t}
      BY <2>3
    <3> QED
      BY <1>5, <1>18, <3>1
  <2>5. /\ TasksOf(Delayed(q)) \cap TasksOf(Overflow(q)) = {}
        /\ TasksOf(Delayed(q)) \cap q.suspended = {}
        /\ TasksOf(Overflow(q)) \cap q.suspended = {}
    BY <1>14, <1>17, <1>18 DEF StateLists
  <2> QED
    BY <1>18, <2>3, <2>4, <2>5 DEF StateLists
<1>19. Timed(s.delayed, Delayed(s)) /\ Timed(s.overflow, Overflow(s))
  BY DEF StateLists
<1> HIDE DEF r
<1>20. CASE ticks = portMAX_DELAY /\ forever
  <2>1. r = [removed EXCEPT !.suspended = @ \cup {t}]
    BY <1>12, <1>20
  <2>2. /\ SchedShape(r) /\ r.ready = ring
        /\ r.delayed = s.delayed /\ r.overflow = s.overflow
        /\ r.suspended = s.suspended \cup {t} /\ r.waiting = s.waiting
        /\ r.xTickCount = s.xTickCount /\ r.xNumOfOverflows = s.xNumOfOverflows
        /\ r.xNextTaskUnblockTime = s.xNextTaskUnblockTime
    BY <1>11, <2>1 DEF SchedShape
  <2>3. Delayed(r) = Delayed(s) /\ Overflow(r) = Overflow(s)
    BY <2>2 DEF Delayed, Overflow
  <2>4. StateLists(r) /\ Blocked(r) = Blocked(s) \cup {t}
    BY <1>18, <1>19, <2>2, <2>3
  <2>5. TimesInv(r)
    BY <2>2, <2>3 DEF TimesInv
  <2> QED
    BY <1>4, <1>20, <2>2, <2>3, <2>4, <2>5 DEF Blocks, r
<1>21. CASE ~(ticks = portMAX_DELAY /\ forever) /\ at < s.xTickCount
  <2> DEFINE list == vListInsert(s.overflow, item)
  <2>1. r = [removed EXCEPT !.overflow = list]
    BY <1>11, <1>12, <1>21
  <2>2. Timed(list, Overflow(s) \cup {item}) /\ list \in Seq(Items)
    BY <1>16 DEF Timed
  <2> HIDE DEF list
  <2>3. /\ SchedShape(r) /\ r.ready = ring
        /\ r.delayed = s.delayed /\ r.overflow = list
        /\ r.suspended = s.suspended /\ r.waiting = s.waiting
        /\ r.xTickCount = s.xTickCount /\ r.xNumOfOverflows = s.xNumOfOverflows
        /\ r.xNextTaskUnblockTime = s.xNextTaskUnblockTime
    BY <1>11, <2>1, <2>2 DEF SchedShape
  <2>4. Delayed(r) = Delayed(s) /\ Overflow(r) = Overflow(s) \cup {item}
    BY <2>2, <2>3 DEF Delayed, Overflow, Timed
  <2>5. StateLists(r) /\ Blocked(r) = Blocked(s) \cup {t}
    BY <1>18, <1>19, <2>2, <2>3, <2>4
  <2>6. TimesInv(r)
    BY <1>10, <1>21, <2>3, <2>4 DEF TimesInv
  <2> QED
    BY <1>4, <1>10, <1>21, <2>3, <2>4, <2>5, <2>6 DEF Blocks, r
<1>22. CASE ~(ticks = portMAX_DELAY /\ forever) /\ ~(at < s.xTickCount)
  <2> DEFINE list == vListInsert(s.delayed, item)
             next == IF at < s.xNextTaskUnblockTime THEN at ELSE s.xNextTaskUnblockTime
  <2>1. r = [removed EXCEPT !.delayed = list, !.xNextTaskUnblockTime = next]
    BY <1>11, <1>12, <1>22
  <2>2. Timed(list, Delayed(s) \cup {item}) /\ list \in Seq(Items)
    BY <1>16 DEF Timed
  <2>3. /\ next \in 0 .. portMAX_DELAY /\ next <= at
        /\ next <= s.xNextTaskUnblockTime /\ next \in Nat
        /\ s.xNextTaskUnblockTime \in Nat
    <3>1. s.xNextTaskUnblockTime \in 0 .. portMAX_DELAY
      BY DEF SchedShape
    <3> QED
      BY <1>7, <1>8, <3>1
  <2> HIDE DEF list, next
  <2>4. /\ SchedShape(r) /\ r.ready = ring
        /\ r.delayed = list /\ r.overflow = s.overflow
        /\ r.suspended = s.suspended /\ r.waiting = s.waiting
        /\ r.xTickCount = s.xTickCount /\ r.xNumOfOverflows = s.xNumOfOverflows
        /\ r.xNextTaskUnblockTime = next
    BY <1>11, <2>1, <2>2, <2>3 DEF SchedShape
  <2>5. Delayed(r) = Delayed(s) \cup {item} /\ Overflow(r) = Overflow(s)
    BY <2>2, <2>4 DEF Delayed, Overflow, Timed
  <2>6. StateLists(r) /\ Blocked(r) = Blocked(s) \cup {t}
    BY <1>18, <1>19, <2>2, <2>4, <2>5
  <2>7. TimesInv(r)
    <3>1. \A i \in Delayed(s) : next <= i.at
      <4>1. \A i \in Delayed(s) : s.xNextTaskUnblockTime <= i.at /\ i.at \in Nat
        BY <1>7, <1>13 DEF TimesInv, Items
      <4> QED
        BY <2>3, <4>1
    <3> QED
      BY <1>8, <1>10, <1>22, <2>3, <2>4, <2>5, <3>1 DEF TimesInv
  <2> QED
    BY <1>4, <1>8, <1>10, <1>22, <2>4, <2>5, <2>6, <2>7 DEF Blocks, r
<1> QED
  BY <1>20, <1>21, <1>22

\* It waits for op.
Joins(s, r, t, op) ==
  \A o \in QueueOps : ToSet(r.waiting[o]) =
    IF o = op THEN ToSet(s.waiting[o]) \cup {t} ELSE ToSet(s.waiting[o])

LEMMA PlaceOnEventList ==
  ASSUME NEW s, SchedInv(s), NEW t \in Tasks, Head(s.ready) = t,
         NEW op \in QueueOps, NEW ticks \in 1 .. portMAX_DELAY
  PROVE  LET r == vTaskPlaceOnEventList(s, op, t, ticks)
         IN  SchedInv(r) /\ Blocks(s, r, t, ticks, TRUE) /\ Joins(s, r, t, op)
<1> DEFINE q == [s EXCEPT !.waiting[op] = Append(@, t)]
           r == AddCurrentTaskToDelayedList(q, t, ticks, TRUE)
<1>1. SchedShape(s) /\ ListsInv(s) /\ TimesInv(s)
  BY DEF SchedInv
<1>2. s.waiting \in [QueueOps -> Seq(Tasks)]
  BY <1>1 DEF SchedShape
<1>3. /\ SchedShape(q) /\ q.waiting = [s.waiting EXCEPT ![op] = Append(@, t)]
      /\ q.delayed = s.delayed /\ q.overflow = s.overflow /\ q.ready = s.ready
      /\ q.suspended = s.suspended /\ q.xTickCount = s.xTickCount
      /\ q.xNumOfOverflows = s.xNumOfOverflows
      /\ q.xNextTaskUnblockTime = s.xNextTaskUnblockTime
  <2> DEFINE w == [s.waiting EXCEPT ![op] = Append(@, t)]
  <2>1. s.waiting[op] \in Seq(Tasks) /\ Append(s.waiting[op], t) \in Seq(Tasks)
    BY <1>2
  <2>2. w \in [QueueOps -> Seq(Tasks)]
    BY <1>2, <2>1
  <2>3. q = [s EXCEPT !.waiting = w]
    OBVIOUS
  <2> HIDE DEF w, q
  <2>4. /\ SchedShape(q) /\ q.waiting = w
        /\ q.delayed = s.delayed /\ q.overflow = s.overflow /\ q.ready = s.ready
        /\ q.suspended = s.suspended /\ q.xTickCount = s.xTickCount
        /\ q.xNumOfOverflows = s.xNumOfOverflows
        /\ q.xNextTaskUnblockTime = s.xNextTaskUnblockTime
    BY <1>1, <2>2, <2>3 DEF SchedShape
  <2> QED
    BY <2>4 DEF w
<1> HIDE DEF q
<1>4. Blocked(q) = Blocked(s) /\ Delayed(q) = Delayed(s) /\ Overflow(q) = Overflow(s)
  BY <1>3 DEF Blocked, Delayed, Overflow
<1>5. StateLists(q) /\ TimesInv(q) /\ Head(q.ready) = t /\ Blocked(q) \subseteq Tasks
  <2>1. Blocked(s) \subseteq Tasks
    BY <1>1, BlockedTasks
  <2> QED
    BY <1>1, <1>3, <1>4, <2>1 DEF ListsInv, StateLists, TimesInv
<1>6. /\ SchedShape(r) /\ StateLists(r) /\ TimesInv(r)
      /\ r.waiting = q.waiting /\ Blocks(q, r, t, ticks, TRUE)
  BY <1>3, <1>5, AddToDelayed
<1> HIDE DEF r
<1>7. Blocks(s, r, t, ticks, TRUE)
  BY <1>3, <1>4, <1>6 DEF Blocks, ItemFor
<1>8. t \notin Blocked(s) /\ Blocked(r) = Blocked(s) \cup {t}
  BY <1>7 DEF Blocks
<1>9. \A o \in QueueOps : r.waiting[o] = IF o = op THEN Append(s.waiting[o], t)
                                         ELSE s.waiting[o]
  BY <1>2, <1>3, <1>6
<1>10. \A o \in QueueOps :
         /\ Lists(s.waiting[o], ToSet(s.waiting[o]))
         /\ ToSet(s.waiting[o]) \subseteq Blocked(s) /\ t \notin ToSet(s.waiting[o])
  BY <1>1, <1>8 DEF ListsInv, EventLists
<1>11. \A o \in QueueOps :
         /\ ToSet(r.waiting[o]) =
              IF o = op THEN ToSet(s.waiting[o]) \cup {t} ELSE ToSet(s.waiting[o])
         /\ Lists(r.waiting[o], ToSet(r.waiting[o]))
  <2> TAKE o \in QueueOps
  <2>1. CASE o # op
    BY <1>9, <1>10, <2>1
  <2>2. CASE o = op
    <3>1. Lists(Append(s.waiting[o], t), ToSet(s.waiting[o]) \cup {t})
      BY <1>10, ListsAppend
    <3>2. ToSet(Append(s.waiting[o], t)) = ToSet(s.waiting[o]) \cup {t}
      BY <3>1 DEF Lists
    <3> QED
      BY <1>9, <2>2, <3>1, <3>2
  <2> QED
    BY <2>1, <2>2
<1>12. EventLists(r)
  <2>1. ToSet(r.waiting["send"]) \cap ToSet(r.waiting["receive"]) = {}
    <3>1. ToSet(s.waiting["send"]) \cap ToSet(s.waiting["receive"]) = {}
      BY <1>1 DEF ListsInv, EventLists
    <3> QED
      BY <1>10, <1>11, <3>1 DEF QueueOps
  <2>2. \A o \in QueueOps : ToSet(r.waiting[o]) \subseteq Blocked(r)
    BY <1>8, <1>10, <1>11
  <2> QED
    BY <1>11, <2>1, <2>2 DEF EventLists
<1> QED
  BY <1>6, <1>7, <1>11, <1>12
     DEF SchedInv, ListsInv, Joins, vTaskPlaceOnEventList, r, q

\* Task t, the first on the event list of op, is made ready.
Wakes(s, r, t) ==
  /\ t \in Blocked(s) /\ Blocked(r) = Blocked(s) \ {t}
  /\ r.xTickCount = s.xTickCount /\ r.xNumOfOverflows = s.xNumOfOverflows
  /\ r.suspended = s.suspended \ {t}
  /\ Delayed(r) = {i \in Delayed(s) : i.task # t}
  /\ Overflow(r) = {i \in Overflow(s) : i.task # t}
  /\ \A o \in QueueOps : ToSet(r.waiting[o]) = ToSet(s.waiting[o]) \ {t}

LEMMA RemoveFromEventList ==
  ASSUME NEW s, SchedInv(s), NEW op \in QueueOps, s.waiting[op] # << >>
  PROVE  LET r == xTaskRemoveFromEventList(s, op)
         IN  /\ SchedInv(r)
             /\ \E t \in ToSet(s.waiting[op]) : Wakes(s, r, t)
<1> DEFINE t == Head(s.waiting[op])
           delayed == Keep(s.delayed, {i \in ToSet(s.delayed) : i.task # t})
           overflow == Keep(s.overflow, {i \in ToSet(s.overflow) : i.task # t})
           ring == Append(s.ready, t)
           r == [s EXCEPT !.waiting[op] = Tail(@), !.delayed = delayed,
                          !.overflow = overflow, !.suspended = @ \ {t}, !.ready = ring]
<1>1. SchedShape(s) /\ ListsInv(s) /\ TimesInv(s)
  BY DEF SchedInv
<1>2. r = xTaskRemoveFromEventList(s, op)
  BY DEF xTaskRemoveFromEventList, listINSERT_END
<1>3. s.waiting \in [QueueOps -> Seq(Tasks)]
  BY <1>1 DEF SchedShape
<1>4. \A o \in QueueOps : /\ Lists(s.waiting[o], ToSet(s.waiting[o]))
                          /\ ToSet(s.waiting[o]) \subseteq Blocked(s)
  BY <1>1 DEF ListsInv, EventLists
<1>5. /\ t \in ToSet(s.waiting[op])
      /\ Lists(Tail(s.waiting[op]), ToSet(s.waiting[op]) \ {t})
  BY <1>4, ListsTail
<1> HIDE DEF t
<1>6. t \in Blocked(s) /\ t \in Tasks /\ Tail(s.waiting[op]) \in Seq(Tasks)
  <2>1. ToSet(s.waiting[op]) \subseteq Tasks
    BY <1>3, SeqOfSet
  <2> QED
    BY <1>3, <1>4, <1>5, <2>1
<1>7. /\ Timed(delayed, {i \in Delayed(s) : i.task # t})
      /\ Timed(overflow, {i \in Overflow(s) : i.task # t})
  <2>1. Timed(s.delayed, Delayed(s)) /\ Timed(s.overflow, Overflow(s))
    BY <1>1 DEF ListsInv, StateLists
  <2> DEFINE A == {i \in Delayed(s) : i.task # t}
             B == {i \in Overflow(s) : i.task # t}
  <2>2. Delayed(s) \cap A = A /\ Overflow(s) \cap B = B
    OBVIOUS
  <2>3. delayed = Keep(s.delayed, A) /\ overflow = Keep(s.overflow, B)
    BY DEF Delayed, Overflow
  <2> HIDE DEF A, B, delayed, overflow
  <2>4. /\ Timed(Keep(s.delayed, A), Delayed(s) \cap A)
        /\ Timed(Keep(s.overflow, B), Overflow(s) \cap B)
    BY <2>1, TimedKeep
  <2> QED
    BY <2>2, <2>3, <2>4 DEF A, B
<1>8. /\ delayed \in Seq(Items) /\ overflow \in Seq(Items)
      /\ ToSet(delayed) = {i \in Delayed(s) : i.task # t}
      /\ ToSet(overflow) = {i \in Overflow(s) : i.task # t}
  BY <1>7 DEF Timed
<1>9. ring \in Seq(AllItems) /\ ring = s.ready \o <<t>>
  <2>1. s.ready \in Seq(AllItems) /\ t \in AllItems
    BY <1>1, <1>6 DEF SchedShape, AllItems
  <2> QED
    BY <2>1
<1> HIDE DEF delayed, overflow, ring
<1>10. /\ SchedShape(r) /\ r.delayed = delayed /\ r.overflow = overflow
       /\ r.suspended = s.suspended \ {t} /\ r.ready = ring
       /\ r.waiting = [s.waiting EXCEPT ![op] = Tail(@)]
       /\ r.xTickCount = s.xTickCount /\ r.xNumOfOverflows = s.xNumOfOverflows
       /\ r.xNextTaskUnblockTime = s.xNextTaskUnblockTime
  BY <1>1, <1>3, <1>6, <1>8, <1>9 DEF SchedShape
<1> HIDE DEF r
<1>11. /\ Delayed(r) = {i \in Delayed(s) : i.task # t}
       /\ Overflow(r) = {i \in Overflow(s) : i.task # t}
       /\ Timed(r.delayed, Delayed(r)) /\ Timed(r.overflow, Overflow(r))
  BY <1>7, <1>8, <1>10 DEF Delayed, Overflow
<1>12. \A o \in QueueOps : Lists(r.waiting[o], ToSet(s.waiting[o]) \ {t})
  <2> TAKE o \in QueueOps
  <2>1. CASE o = op
    BY <1>3, <1>5, <1>10, <2>1
  <2>2. CASE o # op
    <3>1. t \notin ToSet(s.waiting[o])
      BY <1>1, <1>5, <2>2 DEF QueueOps, ListsInv, EventLists
    <3>2. ToSet(s.waiting[o]) \ {t} = ToSet(s.waiting[o]) /\ r.waiting[o] = s.waiting[o]
      BY <1>3, <1>10, <2>2, <3>1
    <3> QED
      BY <1>4, <3>2
  <2> QED
    BY <2>1, <2>2
<1> DEFINE X == {t}
           awake == <<t>>
<1>13. /\ Lists(awake, X) /\ X \subseteq Blocked(s)
       /\ Delayed(r) = {i \in Delayed(s) : i.task \notin X}
       /\ Overflow(r) = {i \in Overflow(s) : i.task \notin X}
       /\ r.ready = s.ready \o awake /\ r.suspended = s.suspended \ X
       /\ \A o \in QueueOps : Lists(r.waiting[o], ToSet(s.waiting[o]) \ X)
       /\ SchedShape(s) /\ SchedShape(r) /\ ListsInv(s)
       /\ Timed(r.delayed, Delayed(r)) /\ Timed(r.overflow, Overflow(r))
  BY <1>1, <1>6, <1>9, <1>10, <1>11, <1>12, ListsOne
<1> HIDE DEF X, awake
<1>14. ListsInv(r) /\ Blocked(r) = Blocked(s) \ X
  BY <1>13, Unblock
<1>15. TimesInv(r)
  BY <1>1, <1>10, <1>11 DEF TimesInv
<1>16. Wakes(s, r, t)
  <2>1. \A o \in QueueOps : ToSet(r.waiting[o]) = ToSet(s.waiting[o]) \ {t}
    BY <1>12 DEF Lists
  <2> QED
    BY <1>6, <1>10, <1>11, <1>14, <2>1 DEF Wakes, X
<1> QED
  BY <1>2, <1>5, <1>10, <1>14, <1>15, <1>16 DEF SchedInv

-----------------------------------------------------------------------------
(* The calls.  What holds of a task is said of its call c, the ticks a it has *)
(* waited and the scheduler s, which a step takes through several states.     *)

CallRecords == [op : {"none", "send", "receive", "delay"},
                pc : {"none", "try", "check", "expired", "delay", "delayed"},
                asked : 0 .. portMAX_DELAY, xTicksToWait : 0 .. portMAX_DELAY,
                xEntryTimeSet : BOOLEAN, xTimeOnEntering : 0 .. portMAX_DELAY,
                xOverflowCount : 0 .. (OverflowRange - 1)]

\* Where a call is, and what it was given.
CallInv(t, c, a) ==
  /\ c.op = "none" => c = NoCall
  /\ c.pc = "none" <=> c.op = "none"
  /\ c.pc \in {"delay", "delayed"} <=> c.op = "delay"
  /\ c.op # "none" => \E k \in Calls[t] : k.op = c.op /\ k.ticks = c.asked
  /\ c.xTicksToWait <= c.asked
  /\ c.asked = portMAX_DELAY => c.xTicksToWait = portMAX_DELAY
  /\ c.pc \in {"check", "expired", "delayed"} => c.xEntryTimeSet
  /\ c.pc = "delay" => ~c.xEntryTimeSet
  /\ c.pc = "check" => c.xTicksToWait # 0
  /\ c.pc = "expired" => c.xTicksToWait = 0
  /\ ~c.xEntryTimeSet => c.xTicksToWait = c.asked /\ a = 0

\* A blocked task is in vTaskDelay or will look at the queue when it wakes; it
\* is on the event list of its call and on no other.
BlockedInv(s, t, c) ==
  /\ t \in Blocked(s) =>
       \/ c.pc = "delayed" /\ t \notin s.suspended
       \/ c.pc = "try" /\ c.xEntryTimeSet /\ t \in ToSet(s.waiting[c.op])
  /\ \A op \in QueueOps : t \in ToSet(s.waiting[op]) => c.pc = "try" /\ c.op = op

\* The ticks that have passed are at least those the call has used up and those
\* that show in the tick count and the number of its overflows.
ElapsedAt(s, c) == (s.xTickCount + TickRange - c.xTimeOnEntering) % TickRange

AgeInv(s, c, a) ==
  c.op \in QueueOps /\ c.xEntryTimeSet /\ c.asked # portMAX_DELAY =>
    IF c.xTicksToWait = 0 THEN a >= c.asked
    ELSE \/ a = MaxAge
         \/ /\ a >= c.asked - c.xTicksToWait + ElapsedAt(s, c)
            /\ s.xNumOfOverflows # c.xOverflowCount =>
                 a >= c.asked - c.xTicksToWait
                        + TickRange - c.xTimeOnEntering + s.xTickCount

\* The ticks that have passed and those to come are those vTaskDelay was given.
DelayInv(s, t, c, a) ==
  c.pc = "delayed" =>
    /\ t \notin Blocked(s) => a >= c.asked
    /\ \A i \in Delayed(s) : i.task = t => a + i.at = c.asked + s.xTickCount
    /\ \A i \in Overflow(s) : i.task = t =>
         a + TickRange + i.at = c.asked + s.xTickCount

TaskInv(s, t, c, a) ==
  CallInv(t, c, a) /\ BlockedInv(s, t, c) /\ AgeInv(s, c, a) /\ DelayInv(s, t, c, a)

\* For every message (slot) a task is about to look, if one is still blocked.
Trying(s, f, op) == {t \in Tasks : f[t].op = op /\ f[t].pc = "try" /\ t \notin Blocked(s)}
Free(m, op) == IF op = "receive" THEN Len(m) ELSE uxLength - Len(m)

WakeupInv(s, f, m) ==
  \A op \in QueueOps :
    ToSet(s.waiting[op]) # {} => Free(m, op) <= Cardinality(Trying(s, f, op))

Inv(s, m, f, g) ==
  /\ SchedInv(s)
  /\ f \in [Tasks -> CallRecords] /\ g \in [Tasks -> 0 .. MaxAge]
  /\ m \in Seq(Tasks) /\ Len(m) <= uxLength
  /\ WakeupInv(s, f, m)
  /\ \A t \in Tasks : TaskInv(s, t, f[t], g[t])

KernelInv == Inv(sched, messages, call, age)

-----------------------------------------------------------------------------
(* Time passes *)

LEMMA Constants ==
  /\ TickRange \in Nat /\ TickRange > 1 /\ portMAX_DELAY = TickRange - 1
  /\ portMAX_DELAY \in Nat /\ portMAX_DELAY > 0
  /\ MaxAge \in Nat /\ uxLength \in Nat /\ uxLength > 0
  /\ OverflowRange \in Nat /\ OverflowRange > 1
BY KernelAssumption DEF portMAX_DELAY

LEMMA ElapsedValue ==
  ASSUME NEW n \in 0 .. portMAX_DELAY, NEW e \in 0 .. portMAX_DELAY
  PROVE  (n + TickRange - e) % TickRange = IF e <= n THEN n - e ELSE n + TickRange - e
<1>1. CASE e <= n
  <2>1. n - e \in 0 .. (TickRange - 1)
    BY <1>1, Constants
  <2> DEFINE d == n - e
  <2>2. n + TickRange - e = d + TickRange
    BY Constants
  <2>3. d \in 0 .. (TickRange - 1)
    BY <2>1
  <2> HIDE DEF d
  <2>4. (d + TickRange) % TickRange = d
    BY <2>3, Constants
  <2> QED
    BY <1>1, <2>2, <2>4 DEF d
<1>2. CASE ~(e <= n)
  <2> DEFINE d == n + TickRange - e
  <2>1. d \in 0 .. (TickRange - 1)
    BY <1>2, Constants
  <2> HIDE DEF d
  <2>2. d % TickRange = d
    BY <2>1, Constants
  <2> QED
    BY <1>2, <2>2 DEF d
<1> QED
  BY <1>1, <1>2

AgedBy(c, a, ticks) ==
  IF ~c.xEntryTimeSet THEN a ELSE IF a + ticks > MaxAge THEN MaxAge ELSE a + ticks

LEMMA AgedByType ==
  ASSUME NEW c, NEW a \in 0 .. MaxAge, NEW ticks \in {0, 1}
  PROVE  AgedBy(c, a, ticks) \in 0 .. MaxAge /\ AgedBy(c, a, ticks) >= a
BY Constants DEF AgedBy

\* The time a call has asked for is counted in full.
LEMMA AskedIsCounted ==
  ASSUME NEW t \in Tasks, NEW c \in CallRecords, NEW a, CallInv(t, c, a), c.op # "none",
         c.asked # portMAX_DELAY \/ c.op = "delay"
  PROVE  c.asked <= MaxAge
<1>1. PICK k \in Calls[t] : k.op = c.op /\ k.ticks = c.asked
  BY DEF CallInv
<1> QED
  BY <1>1, KernelAssumption

LEMMA PassedAge ==
  ASSUME NEW s, NEW r, NEW ticks \in {0, 1}, SchedInv(s), Passed(s, r, ticks),
         NEW t \in Tasks, NEW c \in CallRecords, NEW a \in 0 .. MaxAge,
         CallInv(t, c, a), AgeInv(s, c, a)
  PROVE  AgeInv(r, c, AgedBy(c, a, ticks))
<1> SUFFICES ASSUME c.op \in QueueOps, c.xEntryTimeSet, c.asked # portMAX_DELAY
             PROVE  AgeInv(r, c, AgedBy(c, a, ticks))
  BY DEF AgeInv
<1> DEFINE b == AgedBy(c, a, ticks)
           n == s.xTickCount
           e == c.xTimeOnEntering
           x == c.xTicksToWait
           used == c.asked - x
<1>1. /\ n \in 0 .. portMAX_DELAY /\ e \in 0 .. portMAX_DELAY
      /\ x \in 0 .. portMAX_DELAY /\ c.asked \in 0 .. portMAX_DELAY
      /\ used \in 0 .. portMAX_DELAY
  <2>1. x <= c.asked
    BY DEF CallInv
  <2> QED
    BY <2>1, Constants DEF SchedInv, SchedShape, CallRecords
<1>2. b = IF a + ticks > MaxAge THEN MaxAge ELSE a + ticks
  BY DEF AgedBy
<1>3. ElapsedAt(s, c) = IF e <= n THEN n - e ELSE n + TickRange - e
  BY <1>1, ElapsedValue DEF ElapsedAt
<1>4. CASE x = 0
  <2>1. a >= c.asked
    BY <1>4 DEF AgeInv
  <2>2. b >= a /\ b \in Nat
    BY AgedByType, Constants
  <2>3. b >= c.asked
    <3> HIDE DEF b
    <3> QED
      BY <1>1, <2>1, <2>2, Constants
  <2> QED
    BY <1>4, <2>3 DEF AgeInv
<1>5. CASE x # 0 /\ a = MaxAge
  <2>1. b = MaxAge
    BY <1>2, <1>5, Constants
  <2> QED
    BY <1>5, <2>1 DEF AgeInv
<1>6. CASE x # 0 /\ a # MaxAge
  <2>1. /\ a >= used + ElapsedAt(s, c)
        /\ s.xNumOfOverflows # c.xOverflowCount => a >= used + TickRange - e + n
    BY <1>6, Constants, <1>1 DEF AgeInv
  <2>2. b = a + ticks
    BY <1>2, <1>6, Constants
  <2>3. CASE ticks = 0
    <3>1. r.xTickCount = s.xTickCount /\ r.xNumOfOverflows = s.xNumOfOverflows
      BY <2>3 DEF Passed
    <3>2. b = a
      BY <2>2, <2>3
    <3> QED
      BY <3>1, <3>2 DEF AgeInv, ElapsedAt
  <2>4. CASE ticks = 1
    <3> DEFINE m == NextTick(s)
    <3>1. /\ m \in 0 .. portMAX_DELAY
          /\ n # portMAX_DELAY => m = n + 1
          /\ n = portMAX_DELAY <=> m = 0
      BY NextTickValue DEF SchedInv
    <3>2. /\ r.xTickCount = m
          /\ m # 0 => r.xNumOfOverflows = s.xNumOfOverflows
      BY <2>4 DEF Passed
    <3>3. ElapsedAt(r, c) = IF e <= m THEN m - e ELSE m + TickRange - e
      BY <1>1, <3>1, <3>2, ElapsedValue DEF ElapsedAt
    <3> DEFINE E0 == ElapsedAt(s, c)
               E1 == ElapsedAt(r, c)
    <3> HIDE DEF m, n, e, used, x, E0, E1
    <3>4. /\ E0 = IF e <= n THEN n - e ELSE n + TickRange - e
          /\ E1 = IF e <= m THEN m - e ELSE m + TickRange - e
          /\ a >= used + E0
      BY <1>3, <2>1, <3>3 DEF E0, E1
    <3>5. a + 1 >= used + E1
      BY <1>1, <3>1, <3>4, Constants
    <3>6. r.xNumOfOverflows # c.xOverflowCount => a + 1 >= used + TickRange - e + m
      <4>1. CASE m # 0
        BY <1>1, <2>1, <3>1, <3>2, <4>1, Constants
      <4>2. CASE m = 0
        <5>1. e <= n /\ E0 = n - e /\ n = TickRange - 1
          BY <1>1, <3>1, <3>4, <4>2, Constants
        <5> QED
          BY <1>1, <3>4, <4>2, <5>1, Constants
      <4> QED
        BY <4>1, <4>2
    <3>7. b = a + 1
      BY <2>2, <2>4
    <3> HIDE DEF b
    <3>8. AgeInv(r, c, b)
      <4>1. x # 0 /\ b >= used + E1
        BY <1>6, <3>5, <3>7
      <4>2. r.xNumOfOverflows # c.xOverflowCount => b >= used + TickRange - e + r.xTickCount
        BY <3>2, <3>6, <3>7
      <4> QED
        BY <4>1, <4>2 DEF AgeInv, used, x, e, E1
    <3> QED
      BY <3>8 DEF b
  <2> QED
    BY <2>3, <2>4
<1> QED
  BY <1>4, <1>5, <1>6

LEMMA PassedDelay ==
  ASSUME NEW s, NEW r, NEW ticks \in {0, 1}, SchedInv(s), Passed(s, r, ticks),
         NEW t \in Tasks, NEW c \in CallRecords, NEW a \in 0 .. MaxAge,
         CallInv(t, c, a), BlockedInv(s, t, c), DelayInv(s, t, c, a)
  PROVE  DelayInv(r, t, c, AgedBy(c, a, ticks))
<1> SUFFICES ASSUME c.pc = "delayed" PROVE DelayInv(r, t, c, AgedBy(c, a, ticks))
  BY DEF DelayInv
<1> DEFINE b == AgedBy(c, a, ticks)
           n == s.xTickCount
           asked == c.asked
<1>1. c.op = "delay" /\ c.xEntryTimeSet
  BY DEF CallInv
<1>2. asked \in 0 .. portMAX_DELAY /\ asked <= MaxAge /\ n \in 0 .. portMAX_DELAY
  BY <1>1, AskedIsCounted DEF CallRecords, SchedInv, SchedShape
<1>3. b = IF a + ticks > MaxAge THEN MaxAge ELSE a + ticks
  BY <1>1 DEF AgedBy
<1>4. b >= a /\ b \in 0 .. MaxAge
  BY AgedByType
<1>5. SchedInv(r) /\ OnlyWakes(s, r)
  BY DEF Passed
<1>6. /\ Blocked(s) = TasksOf(Delayed(s)) \cup TasksOf(Overflow(s)) \cup s.suspended
      /\ Blocked(r) = TasksOf(Delayed(r)) \cup TasksOf(Overflow(r)) \cup r.suspended
      /\ Delayed(s) \subseteq Items /\ Overflow(s) \subseteq Items
  BY <1>5, BlockedTasks, TimedOwners DEF SchedInv, ListsInv, StateLists
<1>7. /\ t \notin Blocked(s) => a >= asked
      /\ \A i \in Delayed(s) : i.task = t => a + i.at = asked + n
      /\ \A i \in Overflow(s) : i.task = t => a + TickRange + i.at = asked + n
  BY DEF DelayInv
<1>8. \A i \in Delayed(s) \cup Overflow(s) : i.at \in 0 .. portMAX_DELAY
  BY <1>6 DEF Items
<1>9. t \in Blocked(s) => \E i \in Delayed(s) \cup Overflow(s) : i.task = t
  <2>1. t \in Blocked(s) => t \notin s.suspended
    BY DEF BlockedInv
  <2> QED
    BY <1>6, <2>1 DEF TasksOf
<1> HIDE DEF b, n, asked
<1>10. CASE ticks = 0
  <2>1. /\ Delayed(r) = Delayed(s) /\ Overflow(r) = Overflow(s)
        /\ r.xTickCount = n /\ r.suspended = s.suspended
    BY <1>5, <1>10 DEF Passed, OnlyWakes, n
  <2>2. Blocked(r) = Blocked(s)
    BY <1>6, <2>1
  <2>3. b = a
    BY <1>3, <1>10, Constants
  <2> QED
    BY <1>7, <2>1, <2>2, <2>3 DEF DelayInv, b, n, asked
<1>11. CASE ticks = 1
  <2> DEFINE m == NextTick(s)
  <2>1. /\ m \in 0 .. portMAX_DELAY
        /\ n # portMAX_DELAY => m = n + 1
        /\ n = portMAX_DELAY <=> m = 0
    BY NextTickValue DEF SchedInv, n
  <2>2. /\ r.xTickCount = m
        /\ Delayed(r) = {i \in IF m = 0 THEN Overflow(s) ELSE Delayed(s) : i.at > m}
        /\ Overflow(r) = IF m = 0 THEN {} ELSE Overflow(s)
    BY <1>11 DEF Passed, StillDelayed, StillOverflow
  <2>3. \A i \in Delayed(s) : n < i.at
    BY DEF SchedInv, TimesInv, n
  <2>4. m = 0 => Delayed(s) = {}
    BY <1>8, <2>1, <2>3, Constants
  <2>5. b = IF a + 1 > MaxAge THEN MaxAge ELSE a + 1
    BY <1>3, <1>11
  <2> HIDE DEF m
  <2>6. ASSUME NEW i \in Delayed(r), i.task = t PROVE b + i.at = asked + m
    <3>1. CASE m = 0
      <4>1. a + TickRange + i.at = asked + n /\ n = TickRange - 1 /\ i.at \in Nat
        BY <1>7, <1>8, <2>1, <2>2, <2>6, <3>1, Constants
      <4>2. a + 1 <= MaxAge
        BY <1>2, <4>1, Constants
      <4> QED
        BY <1>2, <2>5, <3>1, <4>1, <4>2, Constants
    <3>2. CASE m # 0
      <4>1. a + i.at = asked + n /\ m = n + 1 /\ i.at \in Nat /\ i.at > m
        BY <1>7, <1>8, <2>1, <2>2, <2>6, <3>2, Constants
      <4>2. a + 1 <= MaxAge
        BY <1>2, <4>1, Constants
      <4> QED
        BY <1>2, <2>5, <4>1, <4>2, Constants
    <3> QED
      BY <3>1, <3>2
  <2>7. ASSUME NEW i \in Overflow(r), i.task = t PROVE b + TickRange + i.at = asked + m
    <3>1. m # 0 /\ i \in Overflow(s)
      BY <2>2
    <3>2. a + TickRange + i.at = asked + n /\ m = n + 1 /\ i.at \in Nat
      BY <1>7, <1>8, <2>1, <2>7, <3>1, Constants
    <3>3. a + 1 <= MaxAge
      BY <1>2, <3>2, Constants
    <3> QED
      BY <1>2, <2>5, <3>2, <3>3, Constants
  <2>8. ASSUME t \notin Blocked(r) PROVE b >= asked
    <3>1. CASE t \notin Blocked(s)
      BY <1>2, <1>4, <1>7, <3>1, Constants
    <3>2. CASE t \in Blocked(s)
      <4>1. PICK i \in Delayed(s) \cup Overflow(s) : i.task = t
        BY <1>9, <3>2
      <4>2. i \notin Delayed(r) /\ i \notin Overflow(r)
        BY <1>6, <2>8, <4>1 DEF TasksOf
      <4>3. CASE m = 0
        <5>1. i \in Overflow(s) /\ ~(i.at > 0)
          BY <2>2, <2>4, <4>2, <4>3
        <5>2. a + TickRange + i.at = asked + n /\ n = TickRange - 1 /\ i.at = 0
          BY <1>7, <1>8, <2>1, <4>1, <4>3, <5>1, Constants
        <5>3. a = asked - 1
          BY <1>2, <5>2, Constants
        <5> QED
          BY <1>2, <2>5, <5>3, Constants
      <4>4. CASE m # 0
        <5>1. i \in Delayed(s) /\ ~(i.at > m) /\ m = n + 1
          BY <2>1, <2>2, <4>1, <4>2, <4>4
        <5>2. n < i.at /\ i.at \in Nat /\ a + i.at = asked + n
          BY <1>7, <1>8, <2>3, <4>1, <5>1, Constants
        <5>3. a = asked - 1
          BY <1>2, <5>1, <5>2, Constants
        <5> QED
          BY <1>2, <2>5, <5>3, Constants
      <4> QED
        BY <4>3, <4>4
    <3> QED
      BY <3>1, <3>2
  <2> QED
    BY <2>2, <2>6, <2>7, <2>8 DEF DelayInv, b, asked
<1> QED
  BY <1>10, <1>11

LEMMA QueueOpOfTry ==
  ASSUME NEW t, NEW c \in CallRecords, NEW a, CallInv(t, c, a)
  PROVE  /\ c.pc \in {"try", "check", "expired"} <=> c.op \in QueueOps
         /\ c.op \in QueueOps \cup {"none", "delay"}
<1>1. /\ c.op \in {"none", "send", "receive", "delay"}
      /\ c.pc \in {"none", "try", "check", "expired", "delay", "delayed"}
  BY DEF CallRecords
<1>2. (c.pc = "none" <=> c.op = "none") /\ (c.pc \in {"delay", "delayed"} <=> c.op = "delay")
  BY DEF CallInv
<1> QED
  BY <1>1, <1>2 DEF QueueOps

LEMMA PassedTask ==
  ASSUME NEW s, NEW r, NEW ticks \in {0, 1}, SchedInv(s), Passed(s, r, ticks),
         NEW t \in Tasks, NEW c \in CallRecords, NEW a \in 0 .. MaxAge,
         TaskInv(s, t, c, a)
  PROVE  TaskInv(r, t, c, AgedBy(c, a, ticks))
<1>1. CallInv(t, c, AgedBy(c, a, ticks))
  BY DEF CallInv, TaskInv, AgedBy
<1>2. BlockedInv(r, t, c)
  <2>1. /\ Blocked(r) \subseteq Blocked(s) /\ r.suspended = s.suspended
        /\ \A op \in QueueOps : ToSet(r.waiting[op]) = ToSet(s.waiting[op]) \cap Blocked(r)
    BY DEF Passed, OnlyWakes
  <2>2. c.pc = "try" => c.op \in QueueOps
    BY QueueOpOfTry DEF TaskInv
  <2>3. BlockedInv(s, t, c)
    BY DEF TaskInv
  <2> QED
    BY <2>1, <2>2, <2>3 DEF BlockedInv
<1>3. AgeInv(r, c, AgedBy(c, a, ticks)) /\ DelayInv(r, t, c, AgedBy(c, a, ticks))
  BY PassedAge, PassedDelay DEF TaskInv
<1> QED
  BY <1>1, <1>2, <1>3 DEF TaskInv

-----------------------------------------------------------------------------
(* A task blocks or is woken *)

LEMMA OthersWhenBlocking ==
  ASSUME NEW s, NEW r, NEW t \in Tasks, NEW ticks, NEW forever,
         Blocks(s, r, t, ticks, forever), NEW u \in Tasks, u # t,
         \A o \in QueueOps : u \in ToSet(r.waiting[o]) <=> u \in ToSet(s.waiting[o]),
         NEW c \in CallRecords, NEW a, TaskInv(s, u, c, a)
  PROVE  TaskInv(r, u, c, a)
<1>1. /\ u \in Blocked(r) <=> u \in Blocked(s)
      /\ u \in r.suspended <=> u \in s.suspended
      /\ r.xTickCount = s.xTickCount /\ r.xNumOfOverflows = s.xNumOfOverflows
  BY DEF Blocks
<1>2. /\ \A i \in Delayed(r) : i.task = u => i \in Delayed(s)
      /\ \A i \in Overflow(r) : i.task = u => i \in Overflow(s)
  BY DEF Blocks, ItemFor
<1>3. CallInv(u, c, a) /\ AgeInv(r, c, a)
  BY <1>1 DEF TaskInv, AgeInv, ElapsedAt
<1>4. c.pc = "try" => c.op \in QueueOps
  BY <1>3, QueueOpOfTry
<1>5. BlockedInv(r, u, c)
  BY <1>1, <1>4 DEF TaskInv, BlockedInv
<1>6. DelayInv(r, u, c, a)
  BY <1>1, <1>2 DEF TaskInv, DelayInv
<1> QED
  BY <1>3, <1>5, <1>6 DEF TaskInv

LEMMA TasksWhenWaking ==
  ASSUME NEW s, NEW r, NEW w, NEW op \in QueueOps, w \in ToSet(s.waiting[op]),
         Wakes(s, r, w), NEW u \in Tasks,
         NEW c \in CallRecords, NEW a, TaskInv(s, u, c, a)
  PROVE  TaskInv(r, u, c, a)
<1>1. /\ Blocked(r) = Blocked(s) \ {w} /\ r.suspended = s.suspended \ {w}
      /\ r.xTickCount = s.xTickCount /\ r.xNumOfOverflows = s.xNumOfOverflows
      /\ Delayed(r) \subseteq Delayed(s) /\ Overflow(r) \subseteq Overflow(s)
      /\ \A o \in QueueOps : ToSet(r.waiting[o]) = ToSet(s.waiting[o]) \ {w}
  BY DEF Wakes
<1>2. CallInv(u, c, a) /\ AgeInv(r, c, a)
  BY <1>1 DEF TaskInv, AgeInv, ElapsedAt
<1>3. c.pc = "try" => c.op \in QueueOps
  BY <1>2, QueueOpOfTry
<1>4. BlockedInv(r, u, c)
  BY <1>1, <1>3 DEF TaskInv, BlockedInv
<1>5. c.pc = "delayed" => u # w
  BY DEF TaskInv, BlockedInv
<1>6. DelayInv(r, u, c, a)
  BY <1>1, <1>5 DEF TaskInv, DelayInv
<1> QED
  BY <1>2, <1>4, <1>6 DEF TaskInv

-----------------------------------------------------------------------------
(* Who is about to look at the queue *)

WakeupFor(s, f, m, op) ==
  ToSet(s.waiting[op]) # {} => Free(m, op) <= Cardinality(Trying(s, f, op))

LEMMA TryingIsFinite ==
  ASSUME NEW s, NEW f, NEW op
  PROVE  IsFiniteSet(Trying(s, f, op)) /\ Cardinality(Trying(s, f, op)) \in Nat
<1>1. Trying(s, f, op) \in SUBSET Tasks
  BY DEF Trying
<1> QED
  BY <1>1, KernelAssumption, FS_Subset, FS_CardinalityType

LEMMA FreeType ==
  ASSUME NEW m \in Seq(Tasks), NEW op \in QueueOps
  PROVE  Free(m, op) \in Int
BY Constants DEF Free

\* More tasks try, for no more messages (slots).
LEMMA MoreTry ==
  ASSUME NEW s, NEW r, NEW f, NEW g, NEW m \in Seq(Tasks), NEW n \in Seq(Tasks),
         NEW op \in QueueOps, WakeupFor(s, f, m, op),
         ToSet(r.waiting[op]) # {} => ToSet(s.waiting[op]) # {},
         Trying(s, f, op) \subseteq Trying(r, g, op), Free(n, op) <= Free(m, op)
  PROVE  WakeupFor(r, g, n, op)
<1>1. Cardinality(Trying(s, f, op)) <= Cardinality(Trying(r, g, op))
  BY TryingIsFinite, FS_Subset
<1>2. /\ Cardinality(Trying(s, f, op)) \in Nat /\ Cardinality(Trying(r, g, op)) \in Nat
      /\ Free(m, op) \in Int /\ Free(n, op) \in Int
  BY TryingIsFinite, FreeType
<1> QED
  BY <1>1, <1>2 DEF WakeupFor

\* One more tries for one more message (slot).
LEMMA OneMoreTries ==
  ASSUME NEW s, NEW r, NEW f, NEW g, NEW m \in Seq(Tasks), NEW n \in Seq(Tasks),
         NEW op \in QueueOps, WakeupFor(s, f, m, op),
         ToSet(r.waiting[op]) # {} => ToSet(s.waiting[op]) # {},
         NEW w, w \notin Trying(s, f, op),
         Trying(s, f, op) \cup {w} \subseteq Trying(r, g, op),
         Free(n, op) = Free(m, op) + 1
  PROVE  WakeupFor(r, g, n, op)
<1>1. /\ IsFiniteSet(Trying(s, f, op) \cup {w})
      /\ Cardinality(Trying(s, f, op) \cup {w}) = Cardinality(Trying(s, f, op)) + 1
  BY TryingIsFinite, FS_AddElement
<1>2. Cardinality(Trying(s, f, op) \cup {w}) <= Cardinality(Trying(r, g, op))
  BY TryingIsFinite, FS_Subset
<1>3. /\ Cardinality(Trying(s, f, op)) \in Nat /\ Cardinality(Trying(r, g, op)) \in Nat
      /\ Free(m, op) \in Int /\ Free(n, op) \in Int
  BY TryingIsFinite, FreeType
<1> QED
  BY <1>1, <1>2, <1>3 DEF WakeupFor

\* One less tries for one message (slot) less.
LEMMA OneLessTries ==
  ASSUME NEW s, NEW r, NEW f, NEW g, NEW m \in Seq(Tasks), NEW n \in Seq(Tasks),
         NEW op \in QueueOps, WakeupFor(s, f, m, op),
         ToSet(r.waiting[op]) # {} => ToSet(s.waiting[op]) # {},
         NEW t, t \in Trying(s, f, op),
         Trying(s, f, op) \ {t} \subseteq Trying(r, g, op),
         Free(n, op) = Free(m, op) - 1
  PROVE  WakeupFor(r, g, n, op)
<1>1. /\ IsFiniteSet(Trying(s, f, op) \ {t})
      /\ Cardinality(Trying(s, f, op) \ {t}) = Cardinality(Trying(s, f, op)) - 1
  BY TryingIsFinite, FS_RemoveElement
<1>2. Cardinality(Trying(s, f, op) \ {t}) <= Cardinality(Trying(r, g, op))
  BY TryingIsFinite, FS_Subset
<1>3. /\ Cardinality(Trying(s, f, op)) \in Nat /\ Cardinality(Trying(r, g, op)) \in Nat
      /\ Free(m, op) \in Int /\ Free(n, op) \in Int
  BY TryingIsFinite, FreeType
<1> QED
  BY <1>1, <1>2, <1>3 DEF WakeupFor

\* Nobody needs to try where there is nothing.
LEMMA NothingFree ==
  ASSUME NEW r, NEW g, NEW n \in Seq(Tasks), NEW op \in QueueOps, Free(n, op) <= 0
  PROVE  WakeupFor(r, g, n, op)
BY TryingIsFinite, FreeType DEF WakeupFor

\* The tick only wakes tasks that try.
LEMMA PassedWakeup ==
  ASSUME NEW s, NEW r, NEW f, NEW m \in Seq(Tasks), NEW ticks, Passed(s, r, ticks),
         NEW op \in QueueOps, WakeupFor(s, f, m, op)
  PROVE  WakeupFor(r, f, m, op)
<1>1. /\ Blocked(r) \subseteq Blocked(s)
      /\ ToSet(r.waiting[op]) \subseteq ToSet(s.waiting[op])
  BY DEF Passed, OnlyWakes
<1>2. Trying(s, f, op) \subseteq Trying(r, f, op)
  BY <1>1 DEF Trying
<1>3. Free(m, op) <= Free(m, op)
  BY FreeType
<1> QED
  BY <1>1, <1>2, <1>3, MoreTry

-----------------------------------------------------------------------------
(* The initial state *)

LEMMA ListsSetToSeq ==
  ASSUME NEW S, IsFiniteSet(S)
  PROVE  Lists(SetToSeq(S), S)
<1> DEFINE n == Cardinality(S)
           s == SetToSeq(S)
<1>1. n \in Nat /\ ExistsBijection(1 .. n, S)
  BY FS_CardinalityType
<1>2. \E f \in [1 .. n -> S] : IsInjective(f)
  <2>1. PICK f : f \in Bijection(1 .. n, S)
    BY <1>1 DEF ExistsBijection
  <2> QED
    BY <2>1 DEF Bijection, Injection
<1>3. s \in [1 .. n -> S] /\ IsInjective(s)
  BY <1>2 DEF SetToSeq
<1> HIDE DEF s
<1>4. s \in Injection(1 .. n, S)
  BY <1>3 DEF Injection
<1>5. IsFiniteSet(1 .. n) /\ Cardinality(1 .. n) = n
  BY <1>1, FS_Interval
<1>6. s \in Surjection(1 .. n, S)
  BY <1>4, <1>5, FS_Injection
<1>7. s \in Seq(S) /\ DOMAIN s = 1 .. n
  BY <1>1, <1>3, SeqDef
<1>8. ToSet(s) = S
  <2>1. \A x \in S : \E i \in 1 .. n : s[i] = x
    BY <1>6 DEF Surjection
  <2>2. \A i \in 1 .. n : s[i] \in S
    BY <1>3
  <2> QED
    BY <1>7, <2>1, <2>2 DEF ToSet
<1>9. Lists(s, S)
  BY <1>3, <1>7, <1>8 DEF Lists
<1> QED
  BY <1>9 DEF s

LEMMA InitIsKernelInv == Init => KernelInv
<1> SUFFICES ASSUME Init PROVE KernelInv
  OBVIOUS
<1> DEFINE ring == SetToSeq(Tasks) \o <<xListEnd>>
           s == SchedInit
<1>1. /\ sched = s /\ messages = << >>
      /\ call = [t \in Tasks |-> NoCall] /\ age = [t \in Tasks |-> 0]
  BY DEF Init
<1>2. Lists(ring, AllItems)
  <2>1. Lists(SetToSeq(Tasks), Tasks) /\ Lists(<<xListEnd>>, {xListEnd})
    BY KernelAssumption, ListsSetToSeq, ListsOne
  <2>2. Tasks \cap {xListEnd} = {}
    BY KernelAssumption
  <2> QED
    BY <2>1, <2>2, ListsConcat DEF AllItems
<1> HIDE DEF ring
<1>3. /\ s.xTickCount = 0 /\ s.xNumOfOverflows = 0
      /\ s.xNextTaskUnblockTime = portMAX_DELAY /\ s.ready = ring
      /\ s.delayed = << >> /\ s.overflow = << >> /\ s.suspended = {}
      /\ s.waiting = [op \in QueueOps |-> << >>]
  BY DEF SchedInit, ring, QueueOps
<1>4. SchedShape(s)
  <2>1. ring \in Seq(AllItems)
    BY <1>2 DEF Lists
  <2>2. [op \in QueueOps |-> << >>] \in [QueueOps -> Seq(Tasks)]
    OBVIOUS
  <2>3. 0 \in 0 .. portMAX_DELAY /\ portMAX_DELAY \in 0 .. portMAX_DELAY
        /\ 0 \in 0 .. (OverflowRange - 1)
    BY Constants
  <2> QED
    BY <2>1, <2>2, <2>3 DEF SchedShape, SchedInit, ring, QueueOps
<1> HIDE DEF s
<1>5. /\ Delayed(s) = {} /\ Overflow(s) = {} /\ Blocked(s) = {}
      /\ \A op \in QueueOps : ToSet(s.waiting[op]) = {} /\ s.waiting[op] = << >>
  BY <1>3 DEF Delayed, Overflow, Blocked, Owners, ToSet
<1>6. StateLists(s)
  BY <1>2, <1>3, <1>5, TimedEmpty DEF StateLists, TasksOf
<1>7. EventLists(s)
  BY <1>5, ListsEmpty DEF EventLists, QueueOps
<1>8. SchedInv(s)
  BY <1>4, <1>5, <1>6, <1>7 DEF SchedInv, ListsInv, TimesInv
<1>9. NoCall \in CallRecords
  BY Constants DEF NoCall, CallRecords
<1>10. /\ call \in [Tasks -> CallRecords] /\ age \in [Tasks -> 0 .. MaxAge]
       /\ messages \in Seq(Tasks) /\ Len(messages) <= uxLength
  BY <1>1, <1>9, Constants
<1>11. WakeupInv(s, call, messages)
  BY <1>5 DEF WakeupInv
<1>12. ASSUME NEW t \in Tasks PROVE TaskInv(s, t, call[t], age[t])
  <2>1. call[t] = NoCall /\ age[t] = 0
    BY <1>1
  <2>2. CallInv(t, NoCall, 0)
    BY Constants DEF CallInv, NoCall
  <2>3. BlockedInv(s, t, NoCall) /\ AgeInv(s, NoCall, 0) /\ DelayInv(s, t, NoCall, 0)
    BY <1>5 DEF BlockedInv, AgeInv, DelayInv, NoCall, QueueOps
  <2> QED
    BY <2>1, <2>2, <2>3 DEF TaskInv
<1> QED
  BY <1>1, <1>8, <1>10, <1>11, <1>12 DEF KernelInv, Inv

-----------------------------------------------------------------------------
(* The steps, taken apart: a call goes on, time passes, a task blocks or one *)
(* is woken.                                                                 *)

LEMMA RunningIsReady ==
  ASSUME NEW s, SchedInv(s), NEW t \in Tasks, Head(s.ready) = t
  PROVE  t \notin Blocked(s) /\ \A op \in QueueOps : t \notin ToSet(s.waiting[op])
<1>1. StateLists(s) /\ EventLists(s) /\ SchedShape(s) /\ ListsInv(s)
  BY DEF SchedInv, ListsInv
<1>2. Lists(s.ready, AllItems \ Blocked(s))
  BY <1>1 DEF StateLists
<1>3. s.ready # << >>
  <2>1. xListEnd \in AllItems \ Blocked(s)
    BY <1>1, BlockedTasks, KernelAssumption DEF AllItems
  <2> QED
    BY <1>2, <2>1, ListsEmpty DEF Lists
<1>4. Head(s.ready) \in AllItems \ Blocked(s)
  BY <1>2, <1>3 DEF Lists
<1> QED
  BY <1>1, <1>4 DEF EventLists

LEMMA TimePasses ==
  ASSUME NEW s, NEW m, NEW f, NEW g, Inv(s, m, f, g),
         NEW r, NEW ticks \in {0, 1}, Passed(s, r, ticks)
  PROVE  Inv(r, m, f, [u \in Tasks |-> AgedBy(f[u], g[u], ticks)])
<1> DEFINE h == [u \in Tasks |-> AgedBy(f[u], g[u], ticks)]
<1>1. ASSUME NEW u \in Tasks
      PROVE  h[u] \in 0 .. MaxAge /\ TaskInv(r, u, f[u], h[u])
  <2>1. /\ SchedInv(s) /\ f[u] \in CallRecords /\ g[u] \in 0 .. MaxAge
        /\ TaskInv(s, u, f[u], g[u])
    BY DEF Inv
  <2>2. /\ TaskInv(r, u, f[u], AgedBy(f[u], g[u], ticks))
        /\ AgedBy(f[u], g[u], ticks) \in 0 .. MaxAge
    BY <2>1, PassedTask, AgedByType
  <2> QED
    BY <2>2
<1>2. h \in [Tasks -> 0 .. MaxAge]
  BY <1>1
<1> HIDE DEF h
<1>3. WakeupInv(r, f, m)
  BY PassedWakeup DEF Inv, WakeupInv, WakeupFor
<1>4. Inv(r, m, f, h)
  BY <1>1, <1>2, <1>3 DEF Inv, Passed
<1> QED
  BY <1>4 DEF h

\* A call goes on, and either did not try or found nothing.
LEMMA CallGoesOn ==
  ASSUME NEW s, NEW m, NEW f, NEW g, Inv(s, m, f, g),
         NEW t \in Tasks, Head(s.ready) = t,
         NEW d \in CallRecords, NEW b \in 0 .. MaxAge, TaskInv(s, t, d, b),
         f[t].pc = "try" => Free(m, f[t].op) <= 0
  PROVE  Inv(s, m, [f EXCEPT ![t] = d], [g EXCEPT ![t] = b])
<1> DEFINE h == [f EXCEPT ![t] = d]
           k == [g EXCEPT ![t] = b]
<1>1. /\ h \in [Tasks -> CallRecords] /\ h[t] = d
      /\ \A u \in Tasks : u # t => h[u] = f[u]
  BY DEF Inv
<1>2. /\ k \in [Tasks -> 0 .. MaxAge] /\ k[t] = b
      /\ \A u \in Tasks : u # t => k[u] = g[u]
  BY DEF Inv
<1> HIDE DEF h, k
<1>3. \A u \in Tasks : TaskInv(s, u, h[u], k[u])
  BY <1>1, <1>2 DEF Inv
<1>4. ASSUME NEW op \in QueueOps PROVE WakeupFor(s, h, m, op)
  <2>1. m \in Seq(Tasks) /\ WakeupFor(s, f, m, op)
    BY DEF Inv, WakeupInv, WakeupFor
  <2>2. CASE f[t].pc = "try" /\ f[t].op = op
    BY <2>1, <2>2, NothingFree
  <2>3. CASE ~(f[t].pc = "try" /\ f[t].op = op)
    <3>1. Trying(s, f, op) \subseteq Trying(s, h, op)
      BY <1>1, <2>3 DEF Trying
    <3>2. Free(m, op) <= Free(m, op)
      BY <2>1, FreeType
    <3> QED
      BY <2>1, <3>1, <3>2, MoreTry
  <2> QED
    BY <2>2, <2>3
<1>5. Inv(s, m, h, k)
  BY <1>1, <1>2, <1>3, <1>4 DEF Inv, WakeupInv, WakeupFor
<1> QED
  BY <1>5 DEF h, k

\* A call that found nothing blocks.
LEMMA CallBlocks ==
  ASSUME NEW s, NEW m, NEW f, NEW g, Inv(s, m, f, g),
         NEW t \in Tasks, Head(s.ready) = t, f[t].pc # "try",
         NEW op \in QueueOps, NEW ticks \in 1 .. portMAX_DELAY, Free(m, op) <= 0,
         NEW d \in CallRecords, CallInv(t, d, g[t]), AgeInv(s, d, g[t]),
         d.pc = "try", d.op = op, d.xEntryTimeSet
  PROVE  Inv(vTaskPlaceOnEventList(s, op, t, ticks), m, [f EXCEPT ![t] = d], g)
<1> DEFINE h == [f EXCEPT ![t] = d]
           r == vTaskPlaceOnEventList(s, op, t, ticks)
<1>1. /\ h \in [Tasks -> CallRecords] /\ h[t] = d
      /\ \A u \in Tasks : u # t => h[u] = f[u]
  BY DEF Inv
<1>2. SchedInv(s)
  BY DEF Inv
<1>3. t \notin Blocked(s) /\ \A o \in QueueOps : t \notin ToSet(s.waiting[o])
  BY <1>2, RunningIsReady
<1>4. SchedInv(r) /\ Blocks(s, r, t, ticks, TRUE) /\ Joins(s, r, t, op)
  BY <1>2, PlaceOnEventList
<1> HIDE DEF h, r
<1>5. /\ Blocked(r) = Blocked(s) \cup {t}
      /\ r.xTickCount = s.xTickCount /\ r.xNumOfOverflows = s.xNumOfOverflows
      /\ \A o \in QueueOps : ToSet(r.waiting[o]) =
           IF o = op THEN ToSet(s.waiting[o]) \cup {t} ELSE ToSet(s.waiting[o])
  BY <1>4 DEF Blocks, Joins
<1>6. ASSUME NEW u \in Tasks PROVE TaskInv(r, u, h[u], g[u])
  <2>1. CASE u = t
    <3>1. AgeInv(r, d, g[t])
      BY <1>5 DEF AgeInv, ElapsedAt
    <3>2. BlockedInv(r, t, d)
      BY <1>3, <1>5 DEF BlockedInv
    <3>3. DelayInv(r, t, d, g[t])
      BY DEF DelayInv
    <3> QED
      BY <1>1, <2>1, <3>1, <3>2, <3>3 DEF TaskInv
  <2>2. CASE u # t
    <3>1. h[u] = f[u] /\ f[u] \in CallRecords /\ TaskInv(s, u, f[u], g[u])
      BY <1>1, <2>2 DEF Inv
    <3>2. \A o \in QueueOps : u \in ToSet(r.waiting[o]) <=> u \in ToSet(s.waiting[o])
      BY <1>5, <2>2
    <3> QED
      BY <1>4, <2>2, <3>1, <3>2, OthersWhenBlocking
  <2> QED
    BY <2>1, <2>2
<1>7. ASSUME NEW o \in QueueOps PROVE WakeupFor(r, h, m, o)
  <2>1. m \in Seq(Tasks) /\ WakeupFor(s, f, m, o)
    BY DEF Inv, WakeupInv, WakeupFor
  <2>2. CASE o = op
    BY <2>1, <2>2, NothingFree
  <2>3. CASE o # op
    <3>1. Trying(s, f, o) \subseteq Trying(r, h, o)
      BY <1>1, <1>5 DEF Trying
    <3>2. Free(m, o) <= Free(m, o)
      BY <2>1, FreeType
    <3>3. ToSet(r.waiting[o]) # {} => ToSet(s.waiting[o]) # {}
      BY <1>5, <2>3
    <3> QED
      BY <2>1, <3>1, <3>2, <3>3, MoreTry
  <2> QED
    BY <2>2, <2>3
<1>8. Inv(r, m, h, g)
  BY <1>1, <1>4, <1>6, <1>7 DEF Inv, WakeupInv, WakeupFor
<1> QED
  BY <1>8 DEF h, r

LEMMA DelayBlocks ==
  ASSUME NEW s, NEW m, NEW f, NEW g, Inv(s, m, f, g),
         NEW t \in Tasks, Head(s.ready) = t, f[t].pc = "delay",
         NEW ticks \in 1 .. portMAX_DELAY,
         NEW d \in CallRecords, CallInv(t, d, 0), d.pc = "delayed", d.asked = ticks
  PROVE  Inv(AddCurrentTaskToDelayedList(s, t, ticks, FALSE), m,
             [f EXCEPT ![t] = d], [g EXCEPT ![t] = 0])
<1> DEFINE h == [f EXCEPT ![t] = d]
           k == [g EXCEPT ![t] = 0]
           r == AddCurrentTaskToDelayedList(s, t, ticks, FALSE)
<1>1. /\ h \in [Tasks -> CallRecords] /\ h[t] = d
      /\ \A u \in Tasks : u # t => h[u] = f[u]
  BY DEF Inv
<1>2. /\ k \in [Tasks -> 0 .. MaxAge] /\ k[t] = 0
      /\ \A u \in Tasks : u # t => k[u] = g[u]
  BY Constants DEF Inv
<1>3. SchedInv(s) /\ SchedShape(s) /\ ListsInv(s) /\ StateLists(s) /\ EventLists(s)
      /\ TimesInv(s)
  BY DEF Inv, SchedInv, ListsInv
<1>4. t \notin Blocked(s) /\ \A o \in QueueOps : t \notin ToSet(s.waiting[o])
  BY <1>3, RunningIsReady
<1>5. /\ Blocked(s) = TasksOf(Delayed(s)) \cup TasksOf(Overflow(s)) \cup s.suspended
      /\ Blocked(s) \subseteq Tasks
  BY <1>3, BlockedTasks
<1>6. /\ SchedShape(r) /\ StateLists(r) /\ TimesInv(r)
      /\ r.waiting = s.waiting /\ Blocks(s, r, t, ticks, FALSE)
  BY <1>3, <1>5, AddToDelayed
<1> HIDE DEF h, k, r
<1>7. /\ Blocked(r) = Blocked(s) \cup {t} /\ r.suspended = s.suspended
      /\ r.xTickCount = s.xTickCount
  BY <1>6 DEF Blocks
<1>8. SchedInv(r)
  BY <1>3, <1>6, <1>7 DEF SchedInv, ListsInv, EventLists
<1>9. DelayInv(r, t, d, 0)
  <2> DEFINE n == s.xTickCount
             at == (n + ticks) % TickRange
             item == ItemFor(s, t, ticks)
  <2>1. n \in 0 .. portMAX_DELAY
    BY <1>3 DEF SchedShape
  <2>2. /\ at \in 0 .. portMAX_DELAY
        /\ \/ at = n + ticks /\ n < at
           \/ at = n + ticks - TickRange /\ at < n
    BY <2>1, WakeTime
  <2>3. item.at = at /\ item.task = t
    BY DEF ItemFor
  <2> HIDE DEF n, at, item
  <2>4. \A i \in Delayed(s) \cup Overflow(s) : i.task # t
    BY <1>4, <1>5 DEF TasksOf
  <2>5. \/ at < n /\ Delayed(r) = Delayed(s) /\ Overflow(r) = Overflow(s) \cup {item}
        \/ n < at /\ Delayed(r) = Delayed(s) \cup {item} /\ Overflow(r) = Overflow(s)
    BY <1>6, <2>3 DEF Blocks, n, item
  <2>6. \A i \in Delayed(r) : i.task = t => i = item /\ n < at
    BY <2>4, <2>5
  <2>7. \A i \in Overflow(r) : i.task = t => i = item /\ at < n
    BY <2>4, <2>5
  <2>8. n < at => 0 + at = ticks + n
    BY <2>1, <2>2, Constants
  <2>9. at < n => 0 + TickRange + at = ticks + n
    BY <2>1, <2>2, Constants
  <2>10. t \in Blocked(r) /\ r.xTickCount = n
    BY <1>7 DEF n
  <2> QED
    BY <2>3, <2>6, <2>7, <2>8, <2>9, <2>10 DEF DelayInv
<1>10. ASSUME NEW u \in Tasks PROVE TaskInv(r, u, h[u], k[u])
  <2>1. CASE u = t
    <3>1. d.op = "delay"
      BY DEF CallInv
    <3>2. AgeInv(r, d, 0)
      BY <3>1 DEF AgeInv, QueueOps
    <3>3. BlockedInv(r, t, d)
      <4>1. s.suspended \subseteq Blocked(s)
        BY <1>5
      <4> QED
        BY <1>4, <1>6, <1>7, <4>1 DEF BlockedInv
    <3> QED
      BY <1>1, <1>2, <1>9, <2>1, <3>2, <3>3 DEF TaskInv
  <2>2. CASE u # t
    <3>1. /\ h[u] = f[u] /\ k[u] = g[u]
          /\ f[u] \in CallRecords /\ TaskInv(s, u, f[u], g[u])
          /\ \A o \in QueueOps : u \in ToSet(r.waiting[o]) <=> u \in ToSet(s.waiting[o])
      BY <1>1, <1>2, <1>6, <2>2 DEF Inv
    <3> QED
      BY <1>6, <2>2, <3>1, OthersWhenBlocking
  <2> QED
    BY <2>1, <2>2
<1>11. ASSUME NEW o \in QueueOps PROVE WakeupFor(r, h, m, o)
  <2>1. m \in Seq(Tasks) /\ WakeupFor(s, f, m, o)
    BY DEF Inv, WakeupInv, WakeupFor
  <2>2. Trying(s, f, o) \subseteq Trying(r, h, o)
    BY <1>1, <1>7 DEF Trying
  <2>3. Free(m, o) <= Free(m, o)
    BY <2>1, FreeType
  <2> QED
    BY <1>6, <2>1, <2>2, <2>3, MoreTry
<1>12. Inv(r, m, h, k)
  BY <1>1, <1>2, <1>8, <1>10, <1>11 DEF Inv, WakeupInv, WakeupFor
<1> QED
  BY <1>12 DEF h, k, r

\* A call succeeds and makes the first that waits for what it leaves ready.
LEMMA CallSucceeds ==
  ASSUME NEW s, NEW m, NEW f, NEW g, Inv(s, m, f, g),
         NEW t \in Tasks, Head(s.ready) = t,
         NEW op \in QueueOps, f[t].pc = "try", f[t].op = op,
         NEW other \in QueueOps, other # op,
         NEW n \in Seq(Tasks), Len(n) <= uxLength,
         Free(n, op) = Free(m, op) - 1, Free(n, other) = Free(m, other) + 1
  PROVE  Inv(xTaskRemoveFromEventList(s, other), n,
             [f EXCEPT ![t] = NoCall], [g EXCEPT ![t] = 0])
<1> DEFINE h == [f EXCEPT ![t] = NoCall]
           k == [g EXCEPT ![t] = 0]
           r == xTaskRemoveFromEventList(s, other)
<1>1. NoCall \in CallRecords
  BY Constants DEF NoCall, CallRecords
<1>2. /\ h \in [Tasks -> CallRecords] /\ h[t] = NoCall
      /\ \A u \in Tasks : u # t => h[u] = f[u]
  BY <1>1 DEF Inv
<1>3. /\ k \in [Tasks -> 0 .. MaxAge] /\ k[t] = 0
      /\ \A u \in Tasks : u # t => k[u] = g[u]
  BY Constants DEF Inv
<1>4. SchedInv(s) /\ m \in Seq(Tasks) /\ s.waiting[other] \in Seq(Tasks)
  BY DEF Inv, SchedInv, SchedShape
<1>5. t \notin Blocked(s) /\ \A o \in QueueOps : t \notin ToSet(s.waiting[o])
  BY <1>4, RunningIsReady
<1>6. \A o \in QueueOps : WakeupFor(s, f, m, o)
  BY DEF Inv, WakeupInv, WakeupFor
<1>7. t \in Trying(s, f, op)
  BY <1>5 DEF Trying
<1>8. CallInv(t, NoCall, 0) /\ NoCall.pc = "none" /\ NoCall.op = "none"
  BY Constants DEF CallInv, NoCall
<1>9. QueueOps = {op, other}
  BY DEF QueueOps
<1>10. CASE s.waiting[other] = << >>
  <2>1. r = s
    BY <1>10 DEF xTaskRemoveFromEventList
  <2>2. TaskInv(s, t, NoCall, 0)
    BY <1>5, <1>8 DEF TaskInv, BlockedInv, AgeInv, DelayInv, QueueOps
  <2> HIDE DEF h, k, r
  <2>3. \A u \in Tasks : TaskInv(s, u, h[u], k[u])
    BY <1>2, <1>3, <2>2 DEF Inv
  <2>4. WakeupFor(s, h, n, other)
    BY <1>10 DEF WakeupFor, ToSet
  <2>5. WakeupFor(s, h, n, op)
    <3>1. Trying(s, f, op) \ {t} \subseteq Trying(s, h, op)
      BY <1>2 DEF Trying
    <3> QED
      BY <1>4, <1>6, <1>7, <3>1, OneLessTries
  <2>6. Inv(s, n, h, k)
    BY <1>2, <1>3, <1>4, <1>9, <2>3, <2>4, <2>5 DEF Inv, WakeupInv, WakeupFor
  <2> QED
    BY <2>1, <2>6 DEF h, k, r
<1>11. CASE s.waiting[other] # << >>
  <2>1. SchedInv(r) /\ \E w \in ToSet(s.waiting[other]) : Wakes(s, r, w)
    BY <1>4, <1>11, RemoveFromEventList
  <2> HIDE DEF h, k, r
  <2>2. PICK w \in ToSet(s.waiting[other]) : Wakes(s, r, w)
    BY <2>1
  <2>3. /\ w \in Blocked(s) /\ Blocked(r) = Blocked(s) \ {w}
        /\ \A o \in QueueOps : ToSet(r.waiting[o]) = ToSet(s.waiting[o]) \ {w}
    BY <2>2 DEF Wakes
  <2>4. w \in Tasks /\ w # t
    BY <1>4, <1>5, <2>2, SeqOfSet
  <2>5. f[w].pc = "try" /\ f[w].op = other
    BY <2>2, <2>4 DEF Inv, TaskInv, BlockedInv
  <2>6. ASSUME NEW u \in Tasks PROVE TaskInv(r, u, h[u], k[u])
    <3>1. CASE u = t
      <4>1. t \notin Blocked(r) /\ \A o \in QueueOps : t \notin ToSet(r.waiting[o])
        BY <1>5, <2>3
      <4>2. TaskInv(r, t, NoCall, 0)
        BY <1>8, <4>1 DEF TaskInv, BlockedInv, AgeInv, DelayInv, QueueOps
      <4> QED
        BY <1>2, <1>3, <3>1, <4>2
    <3>2. CASE u # t
      <4>1. f[u] \in CallRecords /\ TaskInv(s, u, f[u], g[u])
        BY DEF Inv
      <4>2. TaskInv(r, u, f[u], g[u])
        BY <2>2, <4>1, TasksWhenWaking
      <4> QED
        BY <1>2, <1>3, <3>2, <4>2
    <3> QED
      BY <3>1, <3>2
  <2>7. WakeupFor(r, h, n, other)
    <3>1. w \notin Trying(s, f, other) /\ Trying(s, f, other) \cup {w} \subseteq Trying(r, h, other)
      BY <1>2, <2>3, <2>4, <2>5 DEF Trying
    <3>2. ToSet(r.waiting[other]) # {} => ToSet(s.waiting[other]) # {}
      BY <2>3
    <3> QED
      BY <1>4, <1>6, <3>1, <3>2, OneMoreTries
  <2>8. WakeupFor(r, h, n, op)
    <3>1. Trying(s, f, op) \ {t} \subseteq Trying(r, h, op)
      BY <1>2, <2>3 DEF Trying
    <3>2. ToSet(r.waiting[op]) # {} => ToSet(s.waiting[op]) # {}
      BY <2>3
    <3> QED
      BY <1>4, <1>6, <1>7, <3>1, <3>2, OneLessTries
  <2>9. Inv(r, n, h, k)
    BY <1>2, <1>3, <1>9, <2>1, <2>6, <2>7, <2>8 DEF Inv, WakeupInv, WakeupFor
  <2> QED
    BY <2>9 DEF h, k, r
<1> QED
  BY <1>10, <1>11

\* A task that is ready is not held by the lists, whatever it does.
LEMMA ReadyInv ==
  ASSUME NEW s, SchedInv(s), NEW t \in Tasks, Head(s.ready) = t, NEW d
  PROVE  /\ BlockedInv(s, t, d)
         /\ d.pc = "delayed" /\ d.asked = 0 => DelayInv(s, t, d, 0)
         /\ d.pc # "delayed" => \A b : DelayInv(s, t, d, b)
<1>1. t \notin Blocked(s) /\ \A op \in QueueOps : t \notin ToSet(s.waiting[op])
  BY RunningIsReady
<1>2. Blocked(s) = TasksOf(Delayed(s)) \cup TasksOf(Overflow(s)) \cup s.suspended
  BY BlockedTasks DEF SchedInv
<1>3. \A i \in Delayed(s) \cup Overflow(s) : i.task # t
  BY <1>1, <1>2 DEF TasksOf
<1> QED
  BY <1>1, <1>3 DEF BlockedInv, DelayInv

LEMMA CallReturns ==
  ASSUME NEW s, NEW m, NEW f, NEW g, Inv(s, m, f, g),
         NEW t \in Tasks, Head(s.ready) = t,
         f[t].pc = "try" => Free(m, f[t].op) <= 0
  PROVE  Inv(s, m, [f EXCEPT ![t] = NoCall], [g EXCEPT ![t] = 0])
<1>1. /\ NoCall \in CallRecords /\ 0 \in 0 .. MaxAge
      /\ NoCall.pc = "none" /\ NoCall.op = "none"
  BY Constants DEF NoCall, CallRecords
<1>2. CallInv(t, NoCall, 0)
  BY Constants DEF CallInv, NoCall
<1>3. AgeInv(s, NoCall, 0)
  BY <1>1 DEF AgeInv, QueueOps
<1>4. BlockedInv(s, t, NoCall) /\ DelayInv(s, t, NoCall, 0)
  BY <1>1, ReadyInv DEF Inv
<1>5. TaskInv(s, t, NoCall, 0)
  BY <1>2, <1>3, <1>4 DEF TaskInv
<1> QED
  BY <1>1, <1>5, CallGoesOn

\* xTaskCheckForTimeOut is right that time is up, ...
LEMMA TimeIsUp ==
  ASSUME NEW s, SchedInv(s), NEW t \in Tasks, NEW c \in CallRecords, NEW a \in 0 .. MaxAge,
         CallInv(t, c, a), AgeInv(s, c, a), c.pc = "check",
         c.xTicksToWait # portMAX_DELAY,
         \/ /\ s.xNumOfOverflows # c.xOverflowCount
            /\ s.xTickCount >= c.xTimeOnEntering
         \/ ElapsedAt(s, c) >= c.xTicksToWait
  PROVE  c.asked # portMAX_DELAY /\ a >= c.asked
<1> DEFINE n == s.xTickCount
           e == c.xTimeOnEntering
           x == c.xTicksToWait
           asked == c.asked
           elapsed == ElapsedAt(s, c)
<1>1. /\ n \in 0 .. portMAX_DELAY /\ e \in 0 .. portMAX_DELAY
      /\ x \in 0 .. portMAX_DELAY /\ asked \in 0 .. portMAX_DELAY
  BY DEF SchedInv, SchedShape, CallRecords
<1>2. c.op \in QueueOps /\ c.op # "none" /\ c.xEntryTimeSet
  BY QueueOpOfTry DEF CallInv, QueueOps
<1>3. c.asked # portMAX_DELAY /\ x # 0
  BY DEF CallInv
<1>4. asked <= MaxAge
  BY <1>2, <1>3, AskedIsCounted
<1>5. elapsed = IF e <= n THEN n - e ELSE n + TickRange - e
  BY <1>1, ElapsedValue DEF ElapsedAt
<1>6. \/ a = MaxAge
      \/ /\ a >= asked - x + elapsed
         /\ s.xNumOfOverflows # c.xOverflowCount => a >= asked - x + TickRange - e + n
  BY <1>2, <1>3 DEF AgeInv
<1>7. (s.xNumOfOverflows # c.xOverflowCount /\ n >= e) \/ elapsed >= x
  OBVIOUS
<1> HIDE DEF n, e, x, asked, elapsed
<1>8. a >= asked
  BY <1>1, <1>4, <1>5, <1>6, <1>7, Constants
<1> QED
  BY <1>3, <1>8 DEF asked

\* ... and otherwise about the time that is left.
Left(s, c) ==
  IF c.xTicksToWait = portMAX_DELAY THEN c
  ELSE [c EXCEPT !.xTicksToWait = @ - ElapsedAt(s, c),
                 !.xTimeOnEntering = s.xTickCount,
                 !.xOverflowCount = s.xNumOfOverflows]

LEMMA TimeIsLeft ==
  ASSUME NEW s, SchedInv(s), NEW t \in Tasks, NEW c \in CallRecords, NEW a \in 0 .. MaxAge,
         CallInv(t, c, a), AgeInv(s, c, a), c.pc = "check",
         c.xTicksToWait = portMAX_DELAY \/ ElapsedAt(s, c) < c.xTicksToWait
  PROVE  LET d == [Left(s, c) EXCEPT !.pc = "try"]
         IN  /\ Left(s, c).xTicksToWait \in 1 .. portMAX_DELAY
             /\ d \in CallRecords /\ CallInv(t, d, a) /\ AgeInv(s, d, a)
             /\ d.pc = "try" /\ d.op = c.op /\ d.xEntryTimeSet
<1> DEFINE elapsed == ElapsedAt(s, c)
           x == c.xTicksToWait
           y == x - elapsed
           n == s.xTickCount
           e == c.xTimeOnEntering
           o == s.xNumOfOverflows
           moved == [c EXCEPT !.xTicksToWait = y, !.xTimeOnEntering = n,
                              !.xOverflowCount = o]
<1>1. /\ n \in 0 .. portMAX_DELAY /\ o \in 0 .. (OverflowRange - 1)
      /\ e \in 0 .. portMAX_DELAY
      /\ x \in 0 .. portMAX_DELAY /\ c.asked \in 0 .. portMAX_DELAY
  BY DEF SchedInv, SchedShape, CallRecords
<1>2. c.op \in QueueOps /\ c.op # "none" /\ c.xEntryTimeSet
  BY QueueOpOfTry DEF CallInv, QueueOps
<1>3. x # 0 /\ x <= c.asked
  BY DEF CallInv
<1>4. elapsed = IF e <= n THEN n - e ELSE n + TickRange - e
  BY <1>1, ElapsedValue DEF ElapsedAt
<1>5. CASE x = portMAX_DELAY
  <2> DEFINE d == [c EXCEPT !.pc = "try"]
  <2>1. x \in 1 .. portMAX_DELAY
    BY <1>1, <1>3
  <2>2. /\ d \in CallRecords /\ d.pc = "try" /\ d.op = c.op /\ d.asked = c.asked
        /\ d.xEntryTimeSet = c.xEntryTimeSet /\ d.xTicksToWait = c.xTicksToWait
    BY DEF CallRecords
  <2>3. c.asked = portMAX_DELAY
    BY <1>1, <1>3, <1>5
  <2> HIDE DEF d
  <2>4. CallInv(t, d, a)
    BY <1>2, <2>2 DEF CallInv, QueueOps
  <2>5. AgeInv(s, d, a)
    BY <2>2, <2>3 DEF AgeInv
  <2>6. Left(s, c) = c
    BY <1>5 DEF Left
  <2> QED
    BY <1>2, <2>1, <2>2, <2>4, <2>5, <2>6 DEF d
<1>6. CASE x # portMAX_DELAY
  <2> DEFINE d == [moved EXCEPT !.pc = "try"]
  <2>1. elapsed < x
    BY <1>6
  <2>2. /\ y \in 1 .. portMAX_DELAY /\ y \in 0 .. portMAX_DELAY
        /\ y <= c.asked /\ c.asked - y = c.asked - x + elapsed
    <3> HIDE DEF elapsed, x, n, e
    <3> QED
      BY <1>1, <1>3, <1>4, <2>1, Constants
  <2>3. \/ a = MaxAge
        \/ a >= c.asked - x + elapsed
    BY <1>2, <1>3, <1>6 DEF AgeInv, CallInv
  <2>4. c.asked # portMAX_DELAY
    BY <1>6 DEF CallInv
  <2>5. Left(s, c) = moved
    BY <1>6 DEF Left
  <2> HIDE DEF y, elapsed, x, n, o
  <2>6. /\ d \in CallRecords /\ d.pc = "try" /\ d.op = c.op /\ d.asked = c.asked
        /\ d.xEntryTimeSet = c.xEntryTimeSet /\ d.xTicksToWait = y
        /\ d.xTimeOnEntering = n /\ d.xOverflowCount = o /\ moved.xTicksToWait = y
    BY <1>1, <2>2 DEF CallRecords
  <2> HIDE DEF d, moved
  <2>7. CallInv(t, d, a)
    BY <1>2, <2>2, <2>4, <2>6 DEF CallInv, QueueOps
  <2>8. ElapsedAt(s, d) = 0
    <3>1. (n + TickRange - n) % TickRange = 0
      BY <1>1, ElapsedValue, Constants
    <3> QED
      BY <2>6, <3>1 DEF ElapsedAt, n
  <2>9. AgeInv(s, d, a)
    <3>1. a = MaxAge \/ a >= c.asked - y + 0
      BY <1>1, <2>2, <2>3
    <3> QED
      BY <2>2, <2>6, <2>8, <3>1 DEF AgeInv, o
  <2> QED
    BY <1>2, <2>2, <2>5, <2>6, <2>7, <2>9 DEF d
<1> QED
  BY <1>5, <1>6

-----------------------------------------------------------------------------
(* The actions *)

LEMMA MustWaitMeans ==
  ASSUME KernelInv, NEW op \in QueueOps
  PROVE  MustWait(op) <=> Free(messages, op) <= 0
<1>1. messages \in Seq(Tasks) /\ Len(messages) <= uxLength /\ Len(messages) \in Nat
  BY DEF KernelInv, Inv
<1>2. messages = << >> <=> Len(messages) = 0
  BY <1>1
<1> QED
  BY <1>1, <1>2, Constants DEF MustWait, Free, QueueOps

\* What the steps need to know of the state and of the task that takes them.
LEMMA Unpacked ==
  ASSUME KernelInv, NEW t \in Tasks, Running(t)
  PROVE  /\ Inv(sched, messages, call, age) /\ SchedInv(sched)
         /\ Head(sched.ready) = t
         /\ call[t] \in CallRecords /\ age[t] \in 0 .. MaxAge
         /\ CallInv(t, call[t], age[t]) /\ AgeInv(sched, call[t], age[t])
         /\ call[t].pc \in {"try", "check", "expired"} <=> call[t].op \in QueueOps
         /\ age = [age EXCEPT ![t] = age[t]]
<1>1. Inv(sched, messages, call, age) /\ Head(sched.ready) = t
  BY DEF KernelInv, Running
<1>2. /\ SchedInv(sched) /\ call[t] \in CallRecords /\ age \in [Tasks -> 0 .. MaxAge]
      /\ TaskInv(sched, t, call[t], age[t])
  BY <1>1 DEF Inv
<1>3. CallInv(t, call[t], age[t]) /\ AgeInv(sched, call[t], age[t])
  BY <1>2 DEF TaskInv
<1> QED
  BY <1>1, <1>2, <1>3, QueueOpOfTry

LEMMA TickKeeps == KernelInv /\ Tick => KernelInv'
<1> SUFFICES ASSUME KernelInv, Tick PROVE KernelInv'
  OBVIOUS
<1>1. SchedInv(sched) /\ Inv(sched, messages, call, age)
  BY DEF KernelInv, Inv
<1>2. /\ sched' = vTaskSwitchContext(xTaskIncrementTick(sched))
      /\ age' = [u \in Tasks |-> AgedBy(call[u], age[u], 1)]
      /\ messages' = messages /\ call' = call
  BY DEF Tick, Pass, Waits, Aged, AgedBy
<1>3. Passed(sched, sched', 1)
  BY <1>1, <1>2, TickHandler
<1>4. Inv(sched', messages, call, [u \in Tasks |-> AgedBy(call[u], age[u], 1)])
  BY <1>1, <1>3, TimePasses
<1> QED
  BY <1>2, <1>4 DEF KernelInv

LEMMA ComputeKeeps ==
  ASSUME KernelInv, NEW t \in Tasks, Compute(t) PROVE KernelInv'
BY DEF Compute, KernelInv

LEMMA BeginKeeps ==
  ASSUME KernelInv, NEW t \in Tasks, Running(t), Begin(t) PROVE KernelInv'
<1>1. PICK c \in Calls[t] :
        call' = [call EXCEPT ![t] = [NoCall EXCEPT
          !.op = c.op, !.pc = IF c.op = "delay" THEN "delay" ELSE "try",
          !.asked = c.ticks, !.xTicksToWait = c.ticks]]
  BY DEF Begin
<1> DEFINE pc == IF c.op = "delay" THEN "delay" ELSE "try"
           d == [NoCall EXCEPT !.op = c.op, !.pc = pc,
                               !.asked = c.ticks, !.xTicksToWait = c.ticks]
<1>2. c.op \in {"send", "receive", "delay"} /\ c.ticks \in 0 .. portMAX_DELAY
  BY KernelAssumption
<1>3. /\ d \in CallRecords /\ d.op = c.op /\ d.asked = c.ticks
      /\ d.pc = IF c.op = "delay" THEN "delay" ELSE "try"
      /\ d.xTicksToWait = c.ticks /\ ~d.xEntryTimeSet
  <2>1. pc \in {"delay", "try"}
    OBVIOUS
  <2> HIDE DEF pc
  <2>2. /\ d \in CallRecords /\ d.op = c.op /\ d.asked = c.ticks /\ d.pc = pc
        /\ d.xTicksToWait = c.ticks /\ ~d.xEntryTimeSet
    <3>1. NoCall \in CallRecords /\ ~NoCall.xEntryTimeSet
      BY Constants DEF NoCall, CallRecords
    <3> QED
      BY <1>2, <2>1, <3>1 DEF CallRecords
  <2> QED
    BY <2>2 DEF pc
<1> HIDE DEF d
<1>4. age[t] = 0
  <2>1. call[t] = NoCall
    BY DEF Begin
  <2> QED
    BY <2>1, Unpacked DEF CallInv, NoCall
<1>5. CallInv(t, d, 0) /\ AgeInv(sched, d, 0)
  BY <1>2, <1>3 DEF CallInv, AgeInv
<1>6. TaskInv(sched, t, d, age[t])
  <2>1. d.pc # "delayed"
    BY <1>3
  <2> QED
    BY <1>4, <1>5, <2>1, Unpacked, ReadyInv DEF TaskInv
<1>7. call[t].pc # "try"
  BY DEF Begin, NoCall
<1>8. Inv(sched, messages, [call EXCEPT ![t] = d], [age EXCEPT ![t] = age[t]])
  BY <1>3, <1>6, <1>7, Unpacked, CallGoesOn
<1>9. sched' = sched /\ messages' = messages /\ age' = age
      /\ call' = [call EXCEPT ![t] = d]
  BY <1>1 DEF Begin, d
<1> QED
  BY <1>8, <1>9, Unpacked DEF KernelInv

LEMMA SendKeeps ==
  ASSUME KernelInv, NEW t \in Tasks, Running(t), Send(t) PROVE KernelInv'
<1>1. /\ call[t].op = "send" /\ call[t].pc = "try" /\ Len(messages) < uxLength
      /\ messages' = Append(messages, t)
      /\ sched' = xTaskRemoveFromEventList(sched, "receive")
      /\ call' = [call EXCEPT ![t] = NoCall] /\ age' = [age EXCEPT ![t] = 0]
  <2>1. messages \in Seq(Tasks)
    BY DEF KernelInv, Inv
  <2> QED
    BY <2>1, Constants DEF Send, MustWait, Return
<1>2. /\ messages' \in Seq(Tasks) /\ Len(messages') <= uxLength
      /\ Free(messages', "send") = Free(messages, "send") - 1
      /\ Free(messages', "receive") = Free(messages, "receive") + 1
  <2>1. messages \in Seq(Tasks) /\ Len(messages) \in Nat
    BY DEF KernelInv, Inv
  <2>2. messages' \in Seq(Tasks) /\ Len(messages') = Len(messages) + 1
    BY <1>1, <2>1
  <2> QED
    BY <1>1, <2>1, <2>2, Constants DEF Free
<1>3. PICK n \in Seq(Tasks) : n = messages'
  BY <1>2
<1>4. "send" \in QueueOps /\ "receive" \in QueueOps
  BY DEF QueueOps
<1>5. Inv(xTaskRemoveFromEventList(sched, "receive"), n,
          [call EXCEPT ![t] = NoCall], [age EXCEPT ![t] = 0])
  BY <1>1, <1>2, <1>3, <1>4, Unpacked, CallSucceeds
<1> QED
  BY <1>1, <1>3, <1>5 DEF KernelInv

LEMMA ReceiveKeeps ==
  ASSUME KernelInv, NEW t \in Tasks, Running(t), Receive(t) PROVE KernelInv'
<1>1. /\ call[t].op = "receive" /\ call[t].pc = "try" /\ messages # << >>
      /\ messages' = Tail(messages)
      /\ sched' = xTaskRemoveFromEventList(sched, "send")
      /\ call' = [call EXCEPT ![t] = NoCall] /\ age' = [age EXCEPT ![t] = 0]
  BY DEF Receive, MustWait, Return
<1>2. /\ messages' \in Seq(Tasks) /\ Len(messages') <= uxLength
      /\ Free(messages', "send") = Free(messages, "send") + 1
      /\ Free(messages', "receive") = Free(messages, "receive") - 1
  <2>1. messages \in Seq(Tasks) /\ Len(messages) \in Nat /\ Len(messages) <= uxLength
    BY DEF KernelInv, Inv
  <2>2. messages' \in Seq(Tasks) /\ Len(messages') = Len(messages) - 1
    BY <1>1, <2>1
  <2> QED
    BY <1>1, <2>1, <2>2, Constants DEF Free
<1>3. PICK n \in Seq(Tasks) : n = messages'
  BY <1>2
<1>4. "send" \in QueueOps /\ "receive" \in QueueOps
  BY DEF QueueOps
<1>5. Inv(xTaskRemoveFromEventList(sched, "send"), n,
          [call EXCEPT ![t] = NoCall], [age EXCEPT ![t] = 0])
  BY <1>1, <1>2, <1>3, <1>4, Unpacked, CallSucceeds
<1> QED
  BY <1>1, <1>3, <1>5 DEF KernelInv

LEMMA FindNothingKeeps ==
  ASSUME KernelInv, NEW t \in Tasks, Running(t), FindNothing(t) PROVE KernelInv'
<1>1. /\ sched' = sched /\ messages' = messages
      /\ call[t].pc = "try" /\ MustWait(call[t].op)
  BY DEF FindNothing
<1>2. call[t].op \in QueueOps
  BY <1>1, Unpacked
<1>3. Free(messages, call[t].op) <= 0
  BY <1>1, <1>2, MustWaitMeans
<1>4. CASE call[t].xTicksToWait = 0
  <2>1. Inv(sched, messages, [call EXCEPT ![t] = NoCall], [age EXCEPT ![t] = 0])
    BY <1>3, Unpacked, CallReturns
  <2>2. call' = [call EXCEPT ![t] = NoCall] /\ age' = [age EXCEPT ![t] = 0]
    BY <1>4 DEF FindNothing, Return
  <2> QED
    BY <1>1, <2>1, <2>2 DEF KernelInv
<1>5. CASE call[t].xTicksToWait # 0
  <2>1. PICK c \in CallRecords : c = call[t]
    BY Unpacked
  <2> DEFINE set == [c EXCEPT !.pc = "check", !.xEntryTimeSet = TRUE,
                              !.xTimeOnEntering = sched.xTickCount,
                              !.xOverflowCount = sched.xNumOfOverflows]
             kept == [c EXCEPT !.pc = "check", !.xEntryTimeSet = TRUE]
             waits == c.xEntryTimeSet \/ c.xTicksToWait = portMAX_DELAY
  <2>2. PICK d : d = IF waits THEN kept ELSE set
    OBVIOUS
  <2>3. /\ sched.xTickCount \in 0 .. portMAX_DELAY
        /\ sched.xNumOfOverflows \in 0 .. (OverflowRange - 1)
    BY Unpacked DEF SchedInv, SchedShape
  <2>4. /\ d \in CallRecords /\ d.op = c.op /\ d.pc = "check" /\ d.asked = c.asked
        /\ d.xTicksToWait = c.xTicksToWait /\ d.xEntryTimeSet = TRUE
        /\ waits => /\ d.xTimeOnEntering = c.xTimeOnEntering
                    /\ d.xOverflowCount = c.xOverflowCount
        /\ ~waits => /\ d.xTimeOnEntering = sched.xTickCount
                     /\ d.xOverflowCount = sched.xNumOfOverflows
    <3>1. CASE waits
      <4>1. d = kept
        BY <2>2, <3>1
      <4>2. d \in CallRecords
        BY <2>1, <4>1 DEF CallRecords
      <4> QED
        BY <2>1, <3>1, <4>1, <4>2 DEF CallRecords
    <3>2. CASE ~waits
      <4>1. d = set
        BY <2>2, <3>2
      <4>2. d \in CallRecords
        BY <2>1, <2>3, <4>1 DEF CallRecords
      <4> QED
        BY <2>1, <3>2, <4>1, <4>2 DEF CallRecords
    <3> QED
      BY <3>1, <3>2
  <2>5. call' = [call EXCEPT ![t] = d] /\ age' = age
    BY <1>5, <2>1, <2>2, Unpacked DEF FindNothing, Waits
  <2> HIDE DEF set, kept
  <2>6. CallInv(t, c, age[t]) /\ AgeInv(sched, c, age[t]) /\ age[t] \in 0 .. MaxAge
    BY <2>1, Unpacked
  <2>7. CallInv(t, d, age[t])
    BY <1>2, <1>5, <2>1, <2>4, <2>6 DEF CallInv, QueueOps
  <2>8. AgeInv(sched, d, age[t])
    <3>1. CASE waits
      <4>1. CASE c.xEntryTimeSet
        BY <2>4, <2>6, <3>1, <4>1 DEF AgeInv, ElapsedAt
      <4>2. CASE c.xTicksToWait = portMAX_DELAY
        <5>1. c.asked = portMAX_DELAY
          BY <2>1, <2>6, <4>2, Constants DEF CallInv, CallRecords
        <5> QED
          BY <2>4, <5>1 DEF AgeInv
      <4> QED
        BY <3>1, <4>1, <4>2
    <3>2. CASE ~waits
      <4>1. c.xTicksToWait = c.asked /\ age[t] = 0
        BY <2>6, <3>2 DEF CallInv
      <4>2. PICK n \in 0 .. portMAX_DELAY : n = sched.xTickCount
        BY <2>3
      <4>3. (n + TickRange - n) % TickRange = 0
        BY ElapsedValue, Constants
      <4>4. ElapsedAt(sched, d) = 0
        BY <2>4, <3>2, <4>2, <4>3 DEF ElapsedAt
      <4>5. d.xTicksToWait # 0 /\ d.asked = d.xTicksToWait /\ d.asked \in Nat
        BY <1>5, <2>1, <2>4, <4>1 DEF CallRecords
      <4>6. age[t] >= d.asked - d.xTicksToWait + 0
        BY <4>1, <4>5
      <4> QED
        BY <2>4, <3>2, <4>4, <4>5, <4>6 DEF AgeInv
    <3> QED
      BY <3>1, <3>2
  <2>9. TaskInv(sched, t, d, age[t])
    <3>1. BlockedInv(sched, t, d) /\ DelayInv(sched, t, d, age[t])
      BY <2>4, Unpacked, ReadyInv
    <3> QED
      BY <2>7, <2>8, <3>1 DEF TaskInv
  <2>10. Inv(sched, messages, [call EXCEPT ![t] = d], [age EXCEPT ![t] = age[t]])
    BY <1>3, <2>4, <2>9, Unpacked, CallGoesOn
  <2> QED
    BY <1>1, <2>5, <2>10, Unpacked DEF KernelInv
<1> QED
  BY <1>4, <1>5

LEMMA ExpireKeeps ==
  ASSUME KernelInv, NEW t \in Tasks, Running(t), Expire(t) PROVE KernelInv'
<1>1. sched' = sched /\ messages' = messages /\ call[t].pc = "expired"
  BY DEF Expire
<1>2. CASE call[t].op = "send" \/ MustWait("receive")
  <2>1. Inv(sched, messages, [call EXCEPT ![t] = NoCall], [age EXCEPT ![t] = 0])
    BY <1>1, Unpacked, CallReturns
  <2>2. call' = [call EXCEPT ![t] = NoCall] /\ age' = [age EXCEPT ![t] = 0]
    BY <1>2 DEF Expire, Return
  <2> QED
    BY <1>1, <2>1, <2>2 DEF KernelInv
<1>3. CASE ~(call[t].op = "send" \/ MustWait("receive"))
  <2>1. PICK c \in CallRecords : c = call[t]
    BY Unpacked
  <2> DEFINE d == [c EXCEPT !.pc = "try"]
  <2>2. call' = [call EXCEPT ![t] = d] /\ age' = age
    BY <1>3, <2>1, Unpacked DEF Expire, KernelInv, Inv
  <2>3. /\ d \in CallRecords /\ d.op = c.op /\ d.pc = "try" /\ d.asked = c.asked
        /\ d.xTicksToWait = c.xTicksToWait /\ d.xEntryTimeSet = c.xEntryTimeSet
        /\ d.xTimeOnEntering = c.xTimeOnEntering /\ d.xOverflowCount = c.xOverflowCount
    BY DEF CallRecords
  <2> HIDE DEF d
  <2>4. /\ CallInv(t, c, age[t]) /\ AgeInv(sched, c, age[t])
        /\ c.pc = "expired" /\ c.op \in QueueOps
    BY <1>1, <2>1, Unpacked
  <2>5. CallInv(t, d, age[t]) /\ AgeInv(sched, d, age[t])
    BY <2>3, <2>4 DEF CallInv, AgeInv, ElapsedAt, QueueOps
  <2>6. TaskInv(sched, t, d, age[t])
    <3>1. BlockedInv(sched, t, d) /\ DelayInv(sched, t, d, age[t])
      BY <2>3, Unpacked, ReadyInv
    <3> QED
      BY <2>5, <3>1 DEF TaskInv
  <2>7. Inv(sched, messages, [call EXCEPT ![t] = d], [age EXCEPT ![t] = age[t]])
    BY <1>1, <2>3, <2>6, Unpacked, CallGoesOn
  <2> QED
    BY <1>1, <2>2, <2>7, Unpacked DEF KernelInv
<1> QED
  BY <1>2, <1>3

LEMMA DelayReturnsKeeps ==
  ASSUME KernelInv, NEW t \in Tasks, Running(t), DelayReturns(t) PROVE KernelInv'
<1>1. /\ sched' = sched /\ messages' = messages /\ call[t].pc = "delayed"
      /\ call' = [call EXCEPT ![t] = NoCall] /\ age' = [age EXCEPT ![t] = 0]
  BY DEF DelayReturns, Return
<1>2. Inv(sched, messages, [call EXCEPT ![t] = NoCall], [age EXCEPT ![t] = 0])
  BY <1>1, Unpacked, CallReturns
<1> QED
  BY <1>1, <1>2 DEF KernelInv

\* What is left of a step in which so many ticks are pended.
LEMMA ResumeKeeps ==
  ASSUME NEW s, NEW f, NEW g, Inv(s, messages, f, g),
         NEW ticks \in {0, 1}, NEW yield \in BOOLEAN,
         sched' = xTaskResumeAll(s, ticks, yield), messages' = messages, call' = f,
         age' = [u \in Tasks |-> AgedBy(f[u], g[u], ticks)]
  PROVE  KernelInv'
<1>1. Passed(s, xTaskResumeAll(s, ticks, yield), ticks)
  BY ResumeAll DEF Inv
<1>2. Inv(xTaskResumeAll(s, ticks, yield), messages, f,
          [u \in Tasks |-> AgedBy(f[u], g[u], ticks)])
  BY <1>1, TimePasses
<1> QED
  BY <1>2 DEF KernelInv

LEMMA BlockKeeps ==
  ASSUME KernelInv, NEW t \in Tasks, Running(t), Block(t) PROVE KernelInv'
<1>1. PICK c \in CallRecords : c = call[t]
  BY Unpacked
<1> DEFINE left == Remaining(c)
           placed == vTaskPlaceOnEventList(sched, c.op, t, left.xTicksToWait)
<1>2. PICK ticks \in {0, 1} :
        /\ IF TimedOut(c)
           THEN /\ call' = [call EXCEPT ![t].pc = "expired", ![t].xTicksToWait = 0]
                /\ sched' = xTaskResumeAll(sched, ticks, FALSE)
           ELSE /\ call' = [call EXCEPT ![t] = [left EXCEPT !.pc = "try"]]
                /\ sched' = IF MustWait(c.op)
                            THEN xTaskResumeAll(placed, ticks, TRUE)
                            ELSE xTaskResumeAll(sched, ticks, FALSE)
        /\ Pass(ticks)
  BY <1>1 DEF Block
<1>3. /\ messages' = messages /\ c.pc = "check" /\ c.op \in QueueOps
      /\ CallInv(t, c, age[t]) /\ AgeInv(sched, c, age[t]) /\ c.xEntryTimeSet
  BY <1>1, Unpacked DEF Block, CallInv
<1>4. age' = [u \in Tasks |-> AgedBy(call[u], age[u], ticks)]
  BY <1>2 DEF Pass, Waits, Aged, AgedBy
<1>5. \A d : d.xEntryTimeSet = c.xEntryTimeSet =>
        age' = [u \in Tasks |-> AgedBy([call EXCEPT ![t] = d][u], age[u], ticks)]
  <2> TAKE d
  <2> HAVE d.xEntryTimeSet = c.xEntryTimeSet
  <2>1. ASSUME NEW u \in Tasks
        PROVE  AgedBy([call EXCEPT ![t] = d][u], age[u], ticks)
                 = AgedBy(call[u], age[u], ticks)
    <3>1. call \in [Tasks -> CallRecords]
      BY DEF KernelInv, Inv
    <3>2. [call EXCEPT ![t] = d][u] = IF u = t THEN d ELSE call[u]
      BY <3>1
    <3> QED
      BY <1>1, <3>2 DEF AgedBy
  <2> QED
    BY <1>4, <2>1
<1>6. CASE TimedOut(c)
  <2> DEFINE d == [c EXCEPT !.pc = "expired", !.xTicksToWait = 0]
  <2>1. call' = [call EXCEPT ![t] = d]
    <3>1. call \in [Tasks -> CallRecords]
      BY DEF KernelInv, Inv
    <3> QED
      BY <1>1, <1>2, <1>6, <3>1
  <2>2. /\ d \in CallRecords /\ d.op = c.op /\ d.pc = "expired" /\ d.asked = c.asked
        /\ d.xTicksToWait = 0 /\ d.xEntryTimeSet = c.xEntryTimeSet
    <3>1. 0 \in 0 .. portMAX_DELAY
      BY Constants
    <3> QED
      BY <3>1 DEF CallRecords
  <2> HIDE DEF d
  <2>3. c.asked # portMAX_DELAY /\ age[t] >= c.asked
    <3>1. /\ c.xTicksToWait # portMAX_DELAY
          /\ \/ /\ sched.xNumOfOverflows # c.xOverflowCount
                /\ sched.xTickCount >= c.xTimeOnEntering
             \/ ElapsedAt(sched, c) >= c.xTicksToWait
      BY <1>6 DEF TimedOut, Elapsed, ElapsedAt
    <3> QED
      BY <1>3, <3>1, Unpacked, TimeIsUp
  <2>4. CallInv(t, d, age[t]) /\ AgeInv(sched, d, age[t])
    <3>1. c.asked \in Nat
      BY DEF CallRecords
    <3> QED
      BY <1>3, <2>2, <2>3, <3>1 DEF CallInv, AgeInv, QueueOps
  <2>5. TaskInv(sched, t, d, age[t])
    <3>1. BlockedInv(sched, t, d) /\ DelayInv(sched, t, d, age[t])
      BY <2>2, Unpacked, ReadyInv
    <3> QED
      BY <2>4, <3>1 DEF TaskInv
  <2>6. Inv(sched, messages, [call EXCEPT ![t] = d], [age EXCEPT ![t] = age[t]])
    BY <1>1, <1>3, <2>2, <2>5, Unpacked, CallGoesOn
  <2>7. Inv(sched, messages, [call EXCEPT ![t] = d], age)
    BY <2>6, Unpacked
  <2>8. sched' = xTaskResumeAll(sched, ticks, FALSE)
    BY <1>2, <1>6
  <2> DEFINE f == [call EXCEPT ![t] = d]
  <2>9. age' = [u \in Tasks |-> AgedBy(f[u], age[u], ticks)]
    BY <1>5, <2>2
  <2> HIDE DEF f
  <2>10. Inv(sched, messages, f, age) /\ call' = f
    BY <2>1, <2>7 DEF f
  <2> QED
    BY <1>3, <2>8, <2>9, <2>10, ResumeKeeps
<1>7. CASE ~TimedOut(c)
  <2> DEFINE d == [left EXCEPT !.pc = "try"]
  <2>1. /\ left.xTicksToWait \in 1 .. portMAX_DELAY
        /\ d \in CallRecords /\ CallInv(t, d, age[t]) /\ AgeInv(sched, d, age[t])
        /\ d.pc = "try" /\ d.op = c.op /\ d.xEntryTimeSet
    <3>1. c.xTicksToWait = portMAX_DELAY \/ ElapsedAt(sched, c) < c.xTicksToWait
      <4>1. c.xTicksToWait = portMAX_DELAY \/ ~(ElapsedAt(sched, c) >= c.xTicksToWait)
        BY <1>7 DEF TimedOut, Elapsed, ElapsedAt
      <4>2. PICK n \in 0 .. portMAX_DELAY : n = sched.xTickCount
        BY Unpacked DEF SchedInv, SchedShape
      <4>3. c.xTimeOnEntering \in 0 .. portMAX_DELAY /\ c.xTicksToWait \in 0 .. portMAX_DELAY
        BY DEF CallRecords
      <4>4. (n + TickRange - c.xTimeOnEntering) % TickRange \in Int
        BY <4>3, ElapsedValue, Constants
      <4>5. ElapsedAt(sched, c) \in Int
        BY <4>2, <4>4 DEF ElapsedAt
      <4> QED
        BY <4>1, <4>3, <4>5
    <3>2. left = Left(sched, c)
      BY DEF Remaining, Elapsed, Left, ElapsedAt
    <3> QED
      BY <1>3, <3>1, <3>2, Unpacked, TimeIsLeft
  <2>2. PICK w \in 1 .. portMAX_DELAY : w = left.xTicksToWait
    BY <2>1
  <2>3. PICK e \in CallRecords : e = d
    BY <2>1
  <2>4. call' = [call EXCEPT ![t] = e]
    BY <1>2, <1>7, <2>3
  <2>5. /\ CallInv(t, e, age[t]) /\ AgeInv(sched, e, age[t])
        /\ e.pc = "try" /\ e.op = c.op /\ e.xEntryTimeSet
    BY <2>1, <2>3
  <2>6. e.xEntryTimeSet = c.xEntryTimeSet
    BY <1>3, <2>3, <2>5 DEF CallRecords
  <2> HIDE DEF d, left
  <2> DEFINE f == [call EXCEPT ![t] = e]
  <2>9. age' = [u \in Tasks |-> AgedBy(f[u], age[u], ticks)]
    BY <1>5, <2>6
  <2>7. CASE MustWait(c.op)
    <3>1. Free(messages, c.op) <= 0
      BY <1>3, <2>7, MustWaitMeans
    <3>2. Inv(vTaskPlaceOnEventList(sched, c.op, t, w), messages, f, age)
      BY <1>1, <1>3, <2>5, <3>1, Unpacked, CallBlocks
    <3>3. sched' = xTaskResumeAll(vTaskPlaceOnEventList(sched, c.op, t, w), ticks, TRUE)
      BY <1>2, <1>7, <2>2, <2>7
    <3>4. call' = f
      BY <2>4
    <3> HIDE DEF f
    <3> QED
      BY <1>3, <2>9, <3>2, <3>3, <3>4, ResumeKeeps
  <2>8. CASE ~MustWait(c.op)
    <3>1. TaskInv(sched, t, e, age[t])
      <4>1. BlockedInv(sched, t, e) /\ DelayInv(sched, t, e, age[t])
        BY <2>5, Unpacked, ReadyInv
      <4> QED
        BY <2>5, <4>1 DEF TaskInv
    <3>2. Inv(sched, messages, [call EXCEPT ![t] = e], [age EXCEPT ![t] = age[t]])
      BY <1>1, <1>3, <3>1, Unpacked, CallGoesOn
    <3>3. Inv(sched, messages, f, age) /\ call' = f
      BY <2>4, <3>2, Unpacked
    <3>4. sched' = xTaskResumeAll(sched, ticks, FALSE)
      BY <1>2, <1>7, <2>8
    <3> HIDE DEF f
    <3> QED
      BY <1>3, <2>9, <3>3, <3>4, ResumeKeeps
  <2> QED
    BY <2>7, <2>8
<1> QED
  BY <1>6, <1>7

LEMMA DelayKeeps ==
  ASSUME KernelInv, NEW t \in Tasks, Running(t), Delay(t) PROVE KernelInv'
<1>1. PICK c \in CallRecords : c = call[t]
  BY Unpacked
<1> DEFINE d == [c EXCEPT !.pc = "delayed", !.xEntryTimeSet = TRUE]
<1>2. PICK ticks \in {0, 1} :
        /\ c.asked = 0 => ticks = 0
        /\ sched' = xTaskResumeAll(
             IF c.asked = 0 THEN sched
             ELSE AddCurrentTaskToDelayedList(sched, t, c.asked, FALSE), ticks, TRUE)
        /\ age' = [u \in Tasks |->
             IF u = t THEN ticks ELSE IF Waits(u) THEN Aged(u, ticks) ELSE age[u]]
  BY <1>1 DEF Delay
<1>3. messages' = messages /\ c.pc = "delay" /\ call' = [call EXCEPT ![t] = d]
  <2>1. call \in [Tasks -> CallRecords]
    BY DEF KernelInv, Inv
  <2> QED
    BY <1>1, <2>1 DEF Delay
<1>4. /\ d \in CallRecords /\ d.pc = "delayed" /\ d.op = c.op /\ d.asked = c.asked
      /\ d.xTicksToWait = c.xTicksToWait /\ d.xEntryTimeSet
  BY DEF CallRecords
<1>5. PICK e \in CallRecords : e = d
  BY <1>4
<1> HIDE DEF d
<1>6. CallInv(t, c, age[t]) /\ age[t] \in 0 .. MaxAge
  BY <1>1, Unpacked
<1>7. c.op = "delay" /\ CallInv(t, e, 0)
  BY <1>3, <1>4, <1>5, <1>6 DEF CallInv
<1>8. c.asked \in 0 .. portMAX_DELAY /\ c.asked <= MaxAge
  BY <1>6, <1>7, AskedIsCounted DEF CallRecords
<1> DEFINE f == [call EXCEPT ![t] = e]
           g == [age EXCEPT ![t] = 0]
<1>9. age' = [u \in Tasks |-> AgedBy(f[u], g[u], ticks)]
  <2>1. call \in [Tasks -> CallRecords] /\ age \in [Tasks -> 0 .. MaxAge]
    BY DEF KernelInv, Inv
  <2>2. ASSUME NEW u \in Tasks
        PROVE  (IF u = t THEN ticks ELSE IF Waits(u) THEN Aged(u, ticks) ELSE age[u])
                 = AgedBy(f[u], g[u], ticks)
    <3>1. CASE u = t
      <4>1. f[u] = e /\ g[u] = 0 /\ e.xEntryTimeSet
        BY <1>4, <1>5, <2>1, <3>1
      <4>2. ticks <= MaxAge
        BY <1>2, <1>8, Constants
      <4> QED
        BY <3>1, <4>1, <4>2, Constants DEF AgedBy
    <3>2. CASE u # t
      BY <2>1, <3>2 DEF AgedBy, Waits, Aged
    <3> QED
      BY <3>1, <3>2
  <2> QED
    BY <1>2, <2>2
<1>10. CASE c.asked = 0
  <2>1. AgeInv(sched, e, 0)
    BY <1>4, <1>5, <1>7 DEF AgeInv, QueueOps
  <2>2. BlockedInv(sched, t, e) /\ DelayInv(sched, t, e, 0)
    BY <1>4, <1>5, <1>10, Unpacked, ReadyInv
  <2>3. TaskInv(sched, t, e, 0) /\ 0 \in 0 .. MaxAge
    BY <1>7, <2>1, <2>2, Constants DEF TaskInv
  <2>4. Inv(sched, messages, f, g)
    BY <1>1, <1>3, <2>3, Unpacked, CallGoesOn
  <2>5. sched' = xTaskResumeAll(sched, ticks, TRUE) /\ call' = f
    BY <1>2, <1>3, <1>5, <1>10
  <2> HIDE DEF f, g
  <2>6. messages' = messages /\ TRUE \in BOOLEAN
    BY <1>3
  <2> QED
    BY ONLY <1>9, <2>4, <2>5, <2>6, ResumeKeeps
<1>11. CASE c.asked # 0
  <2>1. PICK w \in 1 .. portMAX_DELAY : w = c.asked
    BY <1>8, <1>11
  <2>2. Inv(AddCurrentTaskToDelayedList(sched, t, w, FALSE), messages, f, g)
    <3>1. e.pc = "delayed" /\ e.asked = w
      BY <1>4, <1>5, <2>1
    <3> QED
      BY <1>1, <1>3, <1>7, <3>1, Unpacked, DelayBlocks
  <2>3. /\ sched' = xTaskResumeAll(AddCurrentTaskToDelayedList(sched, t, w, FALSE),
                                   ticks, TRUE)
        /\ call' = f
    BY <1>2, <1>3, <1>5, <1>11, <2>1
  <2> HIDE DEF f, g
  <2>4. messages' = messages /\ TRUE \in BOOLEAN
    BY <1>3
  <2> QED
    BY ONLY <1>9, <2>2, <2>3, <2>4, ResumeKeeps
<1> QED
  BY <1>10, <1>11

LEMMA StepKeeps ==
  ASSUME KernelInv, NEW t \in Tasks, Step(t) PROVE KernelInv'
BY ComputeKeeps, BeginKeeps, SendKeeps, ReceiveKeeps, FindNothingKeeps, BlockKeeps,
   ExpireKeeps, DelayKeeps, DelayReturnsKeeps DEF Step

LEMMA NextKeepsKernelInv == KernelInv /\ [Next]_vars => KernelInv'
<1> SUFFICES ASSUME KernelInv, [Next]_vars PROVE KernelInv'
  OBVIOUS
<1>1. CASE Next
  BY <1>1, TickKeeps, StepKeeps DEF Next, Run
<1>2. CASE UNCHANGED vars
  BY <1>2 DEF KernelInv, vars
<1> QED
  BY <1>1, <1>2

LEMMA KernelInvariantOfSpec == SafetySpec => []KernelInv
<1>1. Init => KernelInv
  BY InitIsKernelInv
<1>2. KernelInv /\ [Next]_vars => KernelInv'
  BY NextKeepsKernelInv
<1> QED
  BY <1>1, <1>2, PTL DEF SafetySpec

-----------------------------------------------------------------------------
(* What follows for the program *)

LEMMA OnceInList ==
  ASSUME NEW S, NEW s, Lists(s, S), NEW x \in S
  PROVE  Cardinality({i \in DOMAIN s : s[i] = x}) = 1
<1>1. PICK i \in DOMAIN s : s[i] = x
  BY DEF Lists, ToSet
<1>2. {j \in DOMAIN s : s[j] = x} = {i}
  BY <1>1 DEF Lists, IsInjective
<1> QED
  BY <1>2, FS_Singleton

LEMMA TypeOK == KernelInv => KernelTypeOK
<1> SUFFICES ASSUME KernelInv PROVE KernelTypeOK
  OBVIOUS
<1>1. PICK s : s = sched
  OBVIOUS
<1>2. SchedShape(s) /\ ListsInv(s) /\ StateLists(s)
  BY <1>1 DEF KernelInv, Inv, SchedInv, ListsInv
<1> DEFINE all == s.ready \o Owners(s.delayed) \o Owners(s.overflow)
                    \o SetToSeq(s.suspended)
<1>3. Lists(all, AllItems)
  <2>1. /\ Lists(s.ready, AllItems \ Blocked(s))
        /\ Lists(Owners(s.delayed), TasksOf(Delayed(s)))
        /\ Lists(Owners(s.overflow), TasksOf(Overflow(s)))
    BY <1>2, TimedOwners DEF StateLists
  <2>2. Lists(SetToSeq(s.suspended), s.suspended)
    <3>1. s.suspended \in SUBSET Tasks
      BY <1>2 DEF SchedShape
    <3> QED
      BY <3>1, KernelAssumption, FS_Subset, ListsSetToSeq
  <2>3. /\ Blocked(s) = TasksOf(Delayed(s)) \cup TasksOf(Overflow(s)) \cup s.suspended
        /\ Blocked(s) \subseteq AllItems
    BY <1>2, BlockedTasks DEF AllItems
  <2>4. /\ TasksOf(Delayed(s)) \cap TasksOf(Overflow(s)) = {}
        /\ TasksOf(Delayed(s)) \cap s.suspended = {}
        /\ TasksOf(Overflow(s)) \cap s.suspended = {}
    BY <1>2 DEF StateLists
  <2>5. PICK D, O, U : D = TasksOf(Delayed(s)) /\ O = TasksOf(Overflow(s)) /\ U = s.suspended
    OBVIOUS
  <2>6. PICK R : R = AllItems \ Blocked(s)
    OBVIOUS
  <2>7. /\ R \cap D = {} /\ (R \cup D) \cap O = {} /\ (R \cup D \cup O) \cap U = {}
        /\ R \cup D \cup O \cup U = AllItems
    BY <2>3, <2>4, <2>5, <2>6
  <2>8. Lists(s.ready \o Owners(s.delayed), R \cup D)
    BY <2>1, <2>5, <2>6, <2>7, ListsConcat
  <2>9. Lists(s.ready \o Owners(s.delayed) \o Owners(s.overflow), R \cup D \cup O)
    BY <2>1, <2>5, <2>7, <2>8, ListsConcat
  <2>10. Lists(all, R \cup D \cup O \cup U)
    BY <2>2, <2>5, <2>7, <2>9, ListsConcat
  <2> QED
    BY <2>7, <2>10
<1>4. \A t \in Tasks : Cardinality({i \in DOMAIN all : all[i] = t}) = 1
  <2> HIDE DEF all
  <2> QED
    BY <1>3, OnceInList DEF AllItems
<1>5. /\ sched.xTickCount \in 0 .. portMAX_DELAY
      /\ sched.xNextTaskUnblockTime \in 0 .. portMAX_DELAY
      /\ sched.delayed \in Seq(Items) /\ sched.overflow \in Seq(Items)
  BY <1>1, <1>2 DEF SchedShape
<1>6. ASSUME NEW t \in Tasks
      PROVE  call[t].xTicksToWait \in 0 .. call[t].asked /\ age[t] \in 0 .. MaxAge
  <2>1. /\ call[t] \in CallRecords /\ age[t] \in 0 .. MaxAge
        /\ call[t].xTicksToWait <= call[t].asked
    BY DEF KernelInv, Inv, TaskInv, CallInv
  <2>2. call[t].xTicksToWait \in Nat /\ call[t].asked \in Nat
    BY <2>1 DEF CallRecords
  <2> QED
    BY <2>1, <2>2
<1>7. messages \in Seq(Tasks) /\ Len(messages) <= uxLength
  BY DEF KernelInv, Inv
<1>8. ASSUME NEW t \in Tasks
      PROVE  LET held == sched.ready \o Owners(sched.delayed) \o Owners(sched.overflow)
                           \o SetToSeq(sched.suspended)
             IN Cardinality({i \in DOMAIN held : held[i] = t}) = 1
  BY <1>1, <1>4, Zenon
<1> HIDE DEF all
<1> QED
  BY <1>5, <1>6, <1>7, <1>8 DEF KernelTypeOK

LEMMA NobodyDelayedAtSwitch == KernelInv => DelayedListEmptyAtSwitch
<1> SUFFICES ASSUME KernelInv, sched.xTickCount = portMAX_DELAY PROVE sched.delayed = << >>
  BY DEF DelayedListEmptyAtSwitch
<1>1. sched.delayed \in Seq(Items)
  BY DEF KernelInv, Inv, SchedInv, SchedShape
<1>2. \A i \in Delayed(sched) : i \in Items /\ sched.xTickCount < i.at
  BY <1>1, SeqOfSet DEF KernelInv, Inv, SchedInv, TimesInv, Delayed
<1>3. Delayed(sched) = {}
  BY <1>2, Constants DEF Items
<1> QED
  BY <1>1, <1>3, SeqOfSet DEF Delayed

LEMMA DelayEnds ==
  ASSUME KernelInv, NEW t \in Tasks, call[t].pc = "delayed"
  PROVE  t \in Blocked(sched) <=> age[t] < call[t].asked
<1>1. PICK s : s = sched
  OBVIOUS
<1>2. PICK c \in CallRecords : c = call[t]
  BY DEF KernelInv, Inv
<1>3. PICK a \in 0 .. MaxAge : a = age[t]
  BY DEF KernelInv, Inv
<1>4. SchedInv(s) /\ BlockedInv(s, t, c) /\ DelayInv(s, t, c, a) /\ c.pc = "delayed"
  BY <1>1, <1>2, <1>3 DEF KernelInv, Inv, TaskInv
<1>5. s.xTickCount \in 0 .. portMAX_DELAY /\ c.asked \in 0 .. portMAX_DELAY
  BY <1>4 DEF SchedInv, SchedShape, CallRecords
<1>6. t \notin Blocked(s) => ~(a < c.asked)
  BY <1>4, <1>5 DEF DelayInv
<1>7. ASSUME t \in Blocked(s) PROVE a < c.asked
  <2>1. t \notin s.suspended
    BY <1>4, <1>7 DEF BlockedInv
  <2>2. /\ Blocked(s) = TasksOf(Delayed(s)) \cup TasksOf(Overflow(s)) \cup s.suspended
        /\ Delayed(s) \subseteq Items /\ Overflow(s) \subseteq Items
    BY <1>4, BlockedTasks, TimedOwners DEF SchedInv, ListsInv, StateLists
  <2>3. PICK i \in Delayed(s) \cup Overflow(s) : i.task = t
    BY <1>7, <2>1, <2>2 DEF TasksOf
  <2>4. i.at \in 0 .. portMAX_DELAY
    BY <2>2 DEF Items
  <2>5. CASE i \in Delayed(s)
    <3>1. a + i.at = c.asked + s.xTickCount /\ s.xTickCount < i.at
      BY <1>4, <2>3, <2>5 DEF DelayInv, SchedInv, TimesInv
    <3> QED
      BY <1>5, <2>4, <3>1, Constants
  <2>6. CASE i \in Overflow(s)
    <3>1. a + TickRange + i.at = c.asked + s.xTickCount
      BY <1>4, <2>3, <2>6 DEF DelayInv
    <3> QED
      BY <1>5, <2>4, <3>1, Constants
  <2> QED
    BY <2>5, <2>6
<1> QED
  BY <1>1, <1>2, <1>3, <1>6, <1>7

LEMMA EnoughAwake ==
  ASSUME KernelInv, NEW op \in QueueOps, sched.waiting[op] # << >>
  PROVE  Free(messages, op) <= Cardinality(Active(op))
<1>1. sched.waiting[op] \in Seq(Tasks)
  BY DEF KernelInv, Inv, SchedInv, SchedShape
<1>2. Free(messages, op) <= Cardinality(Trying(sched, call, op))
  <2>1. ToSet(sched.waiting[op]) # {}
    BY <1>1, SeqOfSet
  <2> QED
    BY <2>1 DEF KernelInv, Inv, WakeupInv
<1>3. Trying(sched, call, op) \subseteq Active(op) /\ Active(op) \in SUBSET Tasks
  BY DEF Trying, Active
<1>4. IsFiniteSet(Active(op))
  BY <1>3, KernelAssumption, FS_Subset
<1>5. /\ Cardinality(Trying(sched, call, op)) <= Cardinality(Active(op))
      /\ Cardinality(Active(op)) \in Nat
  BY <1>3, <1>4, FS_Subset, FS_CardinalityType
<1>6. Free(messages, op) \in Int
  BY FreeType DEF KernelInv, Inv
<1> QED
  BY <1>2, <1>5, <1>6, TryingIsFinite

-----------------------------------------------------------------------------
(* Every step of the kernel is a step of the abstract queue, or none.        *)

\* Asked, Refused and Waited (module Kernel), for one call.
AskedBy(c) == IF c.op \in QueueOps THEN [op |-> c.op, ticks |-> c.asked]
              ELSE [op |-> "nothing", ticks |-> 0]
Refuses(c) == c.op \in QueueOps /\ c.xEntryTimeSet
WaitedBy(c, a) == IF c.op \in QueueOps THEN a ELSE 0

LEMMA Mapped ==
  /\ Asked = [t \in Tasks |-> AskedBy(call[t])]
  /\ Asked' = [t \in Tasks |-> AskedBy(call'[t])]
  /\ Refused = {t \in Tasks : Refuses(call[t])}
  /\ Refused' = {t \in Tasks : Refuses(call'[t])}
  /\ Waited = [t \in Tasks |-> WaitedBy(call[t], age[t])]
  /\ Waited' = [t \in Tasks |-> WaitedBy(call'[t], age'[t])]
BY DEF Asked, Refused, Waited, AskedBy, Refuses, WaitedBy, QueueCall, QueueOps, Waits

AbstractTick ==
  /\ Waited' = [c \in Tasks |->
       IF c \in Refused /\ Waited[c] < MaxAge THEN Waited[c] + 1 ELSE Waited[c]]
  /\ messages' = messages /\ Asked' = Asked /\ Refused' = Refused

AbstractStutter ==
  messages' = messages /\ Asked' = Asked /\ Refused' = Refused /\ Waited' = Waited

\* Ticks pass for all calls, and none of them changes for its user.
LEMMA TicksAreTicks ==
  ASSUME KernelInv, NEW f, NEW g, NEW ticks \in {0, 1},
         messages' = messages, call' = f,
         age' = [u \in Tasks |-> AgedBy(f[u], g[u], ticks)],
         \A u \in Tasks : /\ AskedBy(f[u]) = AskedBy(call[u])
                          /\ f[u].op = call[u].op
                          /\ f[u].op \in QueueOps =>
                               /\ f[u].xEntryTimeSet = call[u].xEntryTimeSet
                               /\ g[u] = age[u]
  PROVE  IF ticks = 0 THEN AbstractStutter ELSE AbstractTick
<1>1. Asked' = Asked
  BY Mapped
<1>2. Refused' = Refused
  BY Mapped DEF Refuses
<1>3. ASSUME NEW u \in Tasks
      PROVE  WaitedBy(f[u], AgedBy(f[u], g[u], ticks)) =
               IF ticks = 1 /\ u \in Refused /\ WaitedBy(call[u], age[u]) < MaxAge
               THEN WaitedBy(call[u], age[u]) + 1 ELSE WaitedBy(call[u], age[u])
  <2>1. call[u] \in CallRecords /\ age[u] \in 0 .. MaxAge
    BY DEF KernelInv, Inv
  <2>2. CASE f[u].op \in QueueOps
    <3>1. u \in Refused <=> f[u].xEntryTimeSet
      BY <2>2, Mapped DEF Refuses
    <3>2. WaitedBy(call[u], age[u]) = age[u] /\ g[u] = age[u]
      BY <2>2 DEF WaitedBy
    <3>3. WaitedBy(f[u], AgedBy(f[u], g[u], ticks)) = AgedBy(f[u], age[u], ticks)
      BY <2>2 DEF WaitedBy
    <3> QED
      BY <2>1, <3>1, <3>2, <3>3, Constants DEF AgedBy
  <2>3. CASE f[u].op \notin QueueOps
    BY <2>3, Mapped DEF WaitedBy, Refuses
  <2> QED
    BY <2>2, <2>3
<1>4. Waited' = [u \in Tasks |-> WaitedBy(f[u], AgedBy(f[u], g[u], ticks))]
  BY Mapped
<1>5. \A u \in Tasks : Waited[u] = WaitedBy(call[u], age[u])
  BY Mapped
<1>6. CASE ticks = 0
  <2>1. Waited' = Waited
    BY <1>3, <1>4, <1>6, Mapped
  <2> QED
    BY <1>1, <1>2, <1>6, <2>1 DEF AbstractStutter
<1>7. CASE ticks = 1
  BY <1>1, <1>2, <1>3, <1>4, <1>5, <1>7 DEF AbstractTick
<1> QED
  BY <1>6, <1>7

\* One task's call changes, or is over.
LEMMA OneCallChanges ==
  ASSUME KernelInv, NEW t \in Tasks, NEW d, NEW b,
         call' = [call EXCEPT ![t] = d], age' = [age EXCEPT ![t] = b]
  PROVE  /\ Asked' = [Asked EXCEPT ![t] = AskedBy(d)]
         /\ Waited' = [Waited EXCEPT ![t] = WaitedBy(d, b)]
         /\ Refused' = IF Refuses(d) THEN Refused \cup {t}
                        ELSE Refused \ {t}
<1>1. /\ call \in [Tasks -> CallRecords] /\ age \in [Tasks -> 0 .. MaxAge]
  BY DEF KernelInv, Inv
<1>2. \A u \in Tasks : call'[u] = IF u = t THEN d ELSE call[u]
  BY <1>1
<1>3. \A u \in Tasks : age'[u] = IF u = t THEN b ELSE age[u]
  BY <1>1
<1>4. Asked' = [Asked EXCEPT ![t] = AskedBy(d)]
  <2>1. Asked' = [u \in Tasks |-> IF u = t THEN AskedBy(d) ELSE Asked[u]]
    BY <1>2, Mapped
  <2>2. DOMAIN Asked = Tasks
    BY Mapped
  <2> QED
    BY <2>1, <2>2
<1>5. Waited' = [Waited EXCEPT ![t] = WaitedBy(d, b)]
  <2>1. Waited' = [u \in Tasks |-> IF u = t THEN WaitedBy(d, b) ELSE Waited[u]]
    BY <1>2, <1>3, Mapped
  <2>2. DOMAIN Waited = Tasks
    BY Mapped
  <2> QED
    BY <2>1, <2>2
<1>6. Refused' = IF Refuses(d) THEN Refused \cup {t}
                  ELSE Refused \ {t}
  BY <1>2, Mapped DEF Refuses
<1> QED
  BY <1>4, <1>5, <1>6

LEMMA ReturnIsOver ==
  ASSUME KernelInv, NEW t \in Tasks, Return(t)
  PROVE  Abstract!Over(t)
<1>1. call' = [call EXCEPT ![t] = NoCall] /\ age' = [age EXCEPT ![t] = 0]
  BY DEF Return
<1>2. NoCall.op \notin QueueOps
  BY DEF NoCall, QueueOps
<1>3. AskedBy(NoCall) = Abstract!Nothing /\ WaitedBy(NoCall, 0) = 0
  BY <1>2 DEF AskedBy, WaitedBy, Abstract!Nothing
<1>4. /\ Asked' = [Asked EXCEPT ![t] = AskedBy(NoCall)]
      /\ Waited' = [Waited EXCEPT ![t] = WaitedBy(NoCall, 0)]
      /\ Refused' = IF Refuses(NoCall) THEN Refused \cup {t} ELSE Refused \ {t}
  BY <1>1, OneCallChanges
<1> QED
  BY <1>2, <1>3, <1>4 DEF Abstract!Over, Refuses

\* A task that is in no queue call returns unseen.
LEMMA ReturnUnseen ==
  ASSUME KernelInv, NEW t \in Tasks, Return(t), call[t].op \notin QueueOps,
         messages' = messages
  PROVE  AbstractStutter
<1>1. call' = [call EXCEPT ![t] = NoCall] /\ age' = [age EXCEPT ![t] = 0]
  BY DEF Return
<1>2. NoCall.op \notin QueueOps
  BY DEF NoCall, QueueOps
<1>3. /\ AskedBy(NoCall) = Asked[t] /\ WaitedBy(NoCall, 0) = Waited[t] /\ t \notin Refused
  BY <1>2, Mapped DEF AskedBy, WaitedBy, Refuses
<1>4. /\ Asked' = [Asked EXCEPT ![t] = Asked[t]]
      /\ Waited' = [Waited EXCEPT ![t] = Waited[t]]
      /\ Refused' = Refused \ {t}
  <2>1. /\ Asked' = [Asked EXCEPT ![t] = AskedBy(NoCall)]
        /\ Waited' = [Waited EXCEPT ![t] = WaitedBy(NoCall, 0)]
        /\ Refused' = IF Refuses(NoCall) THEN Refused \cup {t} ELSE Refused \ {t}
    BY <1>1, OneCallChanges
  <2> QED
    BY <1>2, <1>3, <2>1 DEF Refuses
<1>5. Asked' = Asked /\ Waited' = Waited
  <2>1. /\ Asked = [u \in Tasks |-> Asked[u]] /\ Waited = [u \in Tasks |-> Waited[u]]
    BY Mapped
  <2> QED
    BY <1>4, <2>1
<1> QED
  BY <1>3, <1>4, <1>5 DEF AbstractStutter

LEMMA TickMaps == ASSUME KernelInv, Tick PROVE Abstract!Next
<1>1. /\ messages' = messages /\ call' = call
      /\ age' = [u \in Tasks |-> AgedBy(call[u], age[u], 1)]
  BY DEF Tick, Pass, Waits, Aged, AgedBy
<1>2. AbstractTick
  BY <1>1, TicksAreTicks
<1> QED
  BY <1>2 DEF AbstractTick, Abstract!Next, Abstract!Tick

LEMMA ComputeMaps ==
  ASSUME KernelInv, NEW t \in Tasks, Compute(t) PROVE AbstractStutter
BY Mapped DEF Compute, AbstractStutter

LEMMA BeginMaps ==
  ASSUME KernelInv, NEW t \in Tasks, Running(t), Begin(t)
  PROVE  AbstractStutter \/ Abstract!Next
<1>1. PICK c \in Calls[t] :
        call' = [call EXCEPT ![t] = [NoCall EXCEPT
          !.op = c.op, !.pc = IF c.op = "delay" THEN "delay" ELSE "try",
          !.asked = c.ticks, !.xTicksToWait = c.ticks]]
  BY DEF Begin
<1>2. PICK d : d = [NoCall EXCEPT
          !.op = c.op, !.pc = IF c.op = "delay" THEN "delay" ELSE "try",
          !.asked = c.ticks, !.xTicksToWait = c.ticks]
  OBVIOUS
<1>3. d.op = c.op /\ d.asked = c.ticks /\ ~d.xEntryTimeSet
  BY <1>2 DEF NoCall
<1>4. c.op \in {"send", "receive", "delay"} /\ c.ticks \in BlockTimes
  BY KernelAssumption DEF BlockTimes
<1>5. call' = [call EXCEPT ![t] = d] /\ messages' = messages /\ age' = age
  BY <1>1, <1>2 DEF Begin
<1>6. age' = [age EXCEPT ![t] = 0] /\ call[t] = NoCall
  <2>1. call[t] = NoCall
    BY DEF Begin
  <2>2. age[t] = 0
    BY <2>1, Unpacked DEF CallInv, NoCall
  <2> QED
    BY <1>5, <2>1, <2>2, Unpacked
<1>7. /\ Asked' = [Asked EXCEPT ![t] = AskedBy(d)]
      /\ Waited' = [Waited EXCEPT ![t] = WaitedBy(d, 0)]
      /\ Refused' = Refused \ {t}
  <2>1. /\ Asked' = [Asked EXCEPT ![t] = AskedBy(d)]
        /\ Waited' = [Waited EXCEPT ![t] = WaitedBy(d, 0)]
        /\ Refused' = IF Refuses(d) THEN Refused \cup {t} ELSE Refused \ {t}
    BY <1>5, <1>6, OneCallChanges
  <2> QED
    BY <1>3, <2>1 DEF Refuses
<1>8. /\ Asked[t] = Abstract!Nothing /\ Waited[t] = 0 /\ t \notin Refused
  BY <1>6, Mapped DEF AskedBy, WaitedBy, Refuses, NoCall, QueueOps, Abstract!Nothing
<1>9. WaitedBy(d, 0) = 0
  BY DEF WaitedBy
<1>10. Waited' = Waited /\ Refused' = Refused
  <2>1. Waited = [u \in Tasks |-> Waited[u]]
    BY Mapped
  <2> QED
    BY <1>7, <1>8, <1>9, <2>1
<1>11. CASE c.op = "delay"
  <2>1. AskedBy(d) = Asked[t]
    BY <1>3, <1>8, <1>11 DEF AskedBy, QueueOps, Abstract!Nothing
  <2>2. Asked = [u \in Tasks |-> Asked[u]]
    BY Mapped
  <2>3. Asked' = Asked
    BY <1>7, <2>1, <2>2
  <2> QED
    BY <1>5, <1>10, <2>3 DEF AbstractStutter
<1>12. CASE c.op # "delay"
  <2>1. c.op \in {"send", "receive"} /\ AskedBy(d) = [op |-> c.op, ticks |-> c.ticks]
    BY <1>3, <1>4, <1>12 DEF AskedBy, QueueOps
  <2>2. Abstract!Call(t, c.op, c.ticks)
    BY <1>5, <1>7, <1>8, <1>10, <2>1 DEF Abstract!Call
  <2> QED
    BY <1>4, <2>1, <2>2 DEF Abstract!Next
<1> QED
  BY <1>11, <1>12

\* A queue call is not nothing.
LEMMA QueueCallsAsk ==
  ASSUME NEW t \in Tasks, call[t].op \in QueueOps
  PROVE  /\ Asked[t] = [op |-> call[t].op, ticks |-> call[t].asked]
         /\ Asked[t].op = call[t].op /\ Asked[t].ticks = call[t].asked
         /\ Asked[t] # Abstract!Nothing
         /\ Waited[t] = age[t]
         /\ t \in Refused <=> call[t].xEntryTimeSet
<1>1. Asked[t] = [op |-> call[t].op, ticks |-> call[t].asked]
  BY Mapped DEF AskedBy
<1>2. Abstract!Nothing.op = "nothing"
  BY DEF Abstract!Nothing
<1>3. Asked[t].op = call[t].op /\ Asked[t] # Abstract!Nothing
  BY <1>1, <1>2 DEF QueueOps
<1> QED
  BY <1>1, <1>3, Mapped DEF WaitedBy, Refuses

LEMMA CannotMeans ==
  ASSUME KernelInv, NEW op \in QueueOps PROVE Abstract!Cannot(op) <=> MustWait(op)
<1>1. messages \in Seq(Tasks) /\ Len(messages) <= uxLength /\ Len(messages) \in Nat
  BY DEF KernelInv, Inv
<1> QED
  BY <1>1, Constants DEF Abstract!Cannot, MustWait, QueueOps

LEMMA SendMaps ==
  ASSUME KernelInv, NEW t \in Tasks, Send(t) PROVE Abstract!Next
<1>1. call[t].op = "send" /\ "send" \in QueueOps
  BY DEF Send, QueueOps
<1>2. Asked[t].op = "send" /\ Asked[t] # Abstract!Nothing
  BY <1>1, QueueCallsAsk
<1>3. ~Abstract!Cannot("send") /\ messages' = Append(messages, t)
  BY <1>1, CannotMeans DEF Send
<1>4. Abstract!Over(t)
  BY ReturnIsOver DEF Send
<1>5. Abstract!Put(t)
  BY <1>2, <1>3, <1>4 DEF Abstract!Put
<1> QED
  BY <1>2, <1>5 DEF Abstract!Next

LEMMA ReceiveMaps ==
  ASSUME KernelInv, NEW t \in Tasks, Receive(t) PROVE Abstract!Next
<1>1. call[t].op = "receive" /\ "receive" \in QueueOps
  BY DEF Receive, QueueOps
<1>2. Asked[t].op = "receive" /\ Asked[t] # Abstract!Nothing
  BY <1>1, QueueCallsAsk
<1>3. ~Abstract!Cannot("receive") /\ messages' = Tail(messages)
  BY <1>1, CannotMeans DEF Receive
<1>4. Abstract!Over(t)
  BY ReturnIsOver DEF Receive
<1>5. Abstract!Get(t)
  BY <1>2, <1>3, <1>4 DEF Abstract!Get
<1> QED
  BY <1>2, <1>5 DEF Abstract!Next

\* In a step that changes no call for the user of the queue, ticks may pass.
LEMMA SameForTheUser ==
  ASSUME KernelInv, NEW t \in Tasks, NEW d, NEW g, NEW ticks \in {0, 1},
         messages' = messages, call' = [call EXCEPT ![t] = d],
         AskedBy(d) = AskedBy(call[t]), d.op = call[t].op,
         d.op \in QueueOps => d.xEntryTimeSet = call[t].xEntryTimeSet /\ g[t] = age[t],
         \A u \in Tasks : u # t => g[u] = age[u],
         age' = [u \in Tasks |-> AgedBy(call'[u], g[u], ticks)]
  PROVE  AbstractStutter \/ Abstract!Next
<1>1. PICK f : f = call'
  OBVIOUS
<1>2. \A u \in Tasks : f[u] = IF u = t THEN d ELSE call[u]
  BY <1>1 DEF KernelInv, Inv
<1>3. \A u \in Tasks : /\ AskedBy(f[u]) = AskedBy(call[u])
                       /\ f[u].op = call[u].op
                       /\ f[u].op \in QueueOps =>
                            /\ f[u].xEntryTimeSet = call[u].xEntryTimeSet
                            /\ g[u] = age[u]
  BY <1>2
<1>4. age' = [u \in Tasks |-> AgedBy(f[u], g[u], ticks)]
  BY <1>1
<1>5. IF ticks = 0 THEN AbstractStutter ELSE AbstractTick
  <2>1. call' = f
    BY <1>1
  <2> HIDE <1>1
  <2> QED
    BY <1>3, <1>4, <2>1, TicksAreTicks
<1>6. AbstractTick => Abstract!Next
  BY DEF AbstractTick, Abstract!Next, Abstract!Tick
<1> QED
  BY <1>5, <1>6

LEMMA FindNothingMaps ==
  ASSUME KernelInv, NEW t \in Tasks, Running(t), FindNothing(t) PROVE Abstract!Next
<1>1. /\ messages' = messages /\ call[t].pc = "try" /\ MustWait(call[t].op)
  BY DEF FindNothing
<1>2. call[t].op \in QueueOps
  BY <1>1, Unpacked
<1>3. PICK c \in CallRecords : c = call[t]
  BY Unpacked
<1>4. /\ Asked[t] = [op |-> c.op, ticks |-> c.asked]
      /\ Asked[t].op = c.op /\ Asked[t].ticks = c.asked
      /\ Asked[t] # Abstract!Nothing /\ Waited[t] = age[t]
      /\ Abstract!Cannot(Asked[t].op)
  BY <1>1, <1>2, <1>3, QueueCallsAsk, CannotMeans
<1>5. CallInv(t, c, age[t]) /\ AgeInv(sched, c, age[t]) /\ age[t] \in 0 .. MaxAge
  BY <1>3, Unpacked
<1>6. CASE c.xTicksToWait = 0
  <2>1. c.asked # portMAX_DELAY
    BY <1>5, <1>6, Constants DEF CallInv
  <2>2. age[t] >= c.asked
    <3>1. CASE c.xEntryTimeSet
      BY <1>2, <1>3, <1>5, <1>6, <2>1, <3>1 DEF AgeInv
    <3>2. CASE ~c.xEntryTimeSet
      <4>1. c.asked = 0
        BY <1>5, <1>6, <3>2 DEF CallInv
      <4> QED
        BY <1>5, <4>1
    <3> QED
      BY <3>1, <3>2
  <2>3. Abstract!Over(t)
    BY <1>3, <1>6, ReturnIsOver DEF FindNothing
  <2>4. Abstract!GiveUp(t)
    BY <1>1, <1>4, <2>1, <2>2, <2>3 DEF Abstract!GiveUp
  <2> QED
    BY <1>4, <2>4 DEF Abstract!Next
<1>7. CASE c.xTicksToWait # 0
  <2>1. PICK d : d = IF c.xEntryTimeSet \/ c.xTicksToWait = portMAX_DELAY
                     THEN [c EXCEPT !.pc = "check", !.xEntryTimeSet = TRUE]
                     ELSE [c EXCEPT !.pc = "check", !.xEntryTimeSet = TRUE,
                                    !.xTimeOnEntering = sched.xTickCount,
                                    !.xOverflowCount = sched.xNumOfOverflows]
    OBVIOUS
  <2>2. call' = [call EXCEPT ![t] = d] /\ age' = age
    BY <1>3, <1>7, <2>1, Unpacked DEF FindNothing, Waits, KernelInv, Inv
  <2>3. d.op = c.op /\ d.asked = c.asked /\ d.xEntryTimeSet
    BY <2>1 DEF CallRecords
  <2>4. age' = [age EXCEPT ![t] = age[t]]
    BY <2>2, Unpacked
  <2>5. /\ Asked' = [Asked EXCEPT ![t] = AskedBy(d)]
        /\ Waited' = [Waited EXCEPT ![t] = WaitedBy(d, age[t])]
        /\ Refused' = IF Refuses(d) THEN Refused \cup {t} ELSE Refused \ {t}
    BY <2>2, <2>4, OneCallChanges
  <2>6. AskedBy(d) = Asked[t] /\ WaitedBy(d, age[t]) = Waited[t] /\ Refuses(d)
    BY <1>2, <1>3, <1>4, <2>3 DEF AskedBy, WaitedBy, Refuses
  <2>7. Asked' = Asked /\ Waited' = Waited /\ Refused' = Refused \cup {t}
    <3>1. /\ Asked = [u \in Tasks |-> Asked[u]] /\ Waited = [u \in Tasks |-> Waited[u]]
      BY Mapped
    <3> QED
      BY <2>5, <2>6, <3>1
  <2>8. Abstract!Refuse(t)
    BY <1>1, <1>4, <2>7 DEF Abstract!Refuse
  <2> QED
    BY <1>4, <2>8 DEF Abstract!Next
<1> QED
  BY <1>6, <1>7

LEMMA ExpireMaps ==
  ASSUME KernelInv, NEW t \in Tasks, Running(t), Expire(t)
  PROVE  AbstractStutter \/ Abstract!Next
<1>1. messages' = messages /\ call[t].pc = "expired"
  BY DEF Expire
<1>2. PICK c \in CallRecords : c = call[t]
  BY Unpacked
<1>3. /\ c.op \in QueueOps /\ CallInv(t, c, age[t]) /\ AgeInv(sched, c, age[t])
      /\ age[t] \in 0 .. MaxAge /\ c.pc = "expired"
  BY <1>1, <1>2, Unpacked
<1>4. /\ Asked[t].op = c.op /\ Asked[t].ticks = c.asked
      /\ Asked[t] # Abstract!Nothing /\ Waited[t] = age[t]
      /\ t \in Refused <=> c.xEntryTimeSet
  BY <1>2, <1>3, QueueCallsAsk
<1>5. CASE c.op = "send" \/ MustWait("receive")
  <2>1. c.xEntryTimeSet /\ c.asked # portMAX_DELAY /\ age[t] >= c.asked
    <3>1. c.xEntryTimeSet /\ c.xTicksToWait = 0 /\ c.asked # portMAX_DELAY
      BY <1>3, Constants DEF CallInv
    <3> QED
      BY <1>3, <3>1 DEF AgeInv
  <2>2. Abstract!Cannot(c.op) \/ (c.op = "send" /\ t \in Refused)
    <3>1. CASE c.op = "send"
      BY <1>4, <2>1, <3>1
    <3>2. CASE c.op # "send"
      <4>1. c.op = "receive" /\ MustWait("receive")
        BY <1>3, <1>5, <3>2 DEF QueueOps
      <4> QED
        BY <1>3, <4>1, CannotMeans
    <3> QED
      BY <3>1, <3>2
  <2>3. Abstract!Over(t)
    BY <1>2, <1>5, ReturnIsOver DEF Expire
  <2>4. Abstract!GiveUp(t)
    BY <1>1, <1>4, <2>1, <2>2, <2>3 DEF Abstract!GiveUp
  <2> QED
    BY <1>4, <2>4 DEF Abstract!Next
<1>6. CASE ~(c.op = "send" \/ MustWait("receive"))
  <2>1. PICK d : d = [c EXCEPT !.pc = "try"]
    OBVIOUS
  <2>2. call' = [call EXCEPT ![t] = d] /\ age' = age
    BY <1>2, <1>6, <2>1 DEF Expire, KernelInv, Inv
  <2>3. d.op = c.op /\ d.asked = c.asked /\ d.xEntryTimeSet = c.xEntryTimeSet
    BY <2>1 DEF CallRecords
  <2>4. AskedBy(d) = AskedBy(call[t])
    BY <1>2, <2>3 DEF AskedBy
  <2>5. age' = [u \in Tasks |-> AgedBy(call'[u], age[u], 0)]
    <3>1. age \in [Tasks -> 0 .. MaxAge]
      BY DEF KernelInv, Inv
    <3>2. \A u \in Tasks : AgedBy(call'[u], age[u], 0) = age[u]
      BY <3>1, Constants DEF AgedBy
    <3> QED
      BY <2>2, <3>1, <3>2
  <2> QED
    BY <1>1, <1>2, <2>2, <2>3, <2>4, <2>5, SameForTheUser
<1> QED
  BY <1>5, <1>6

LEMMA DelayReturnsMaps ==
  ASSUME KernelInv, NEW t \in Tasks, Running(t), DelayReturns(t) PROVE AbstractStutter
<1>1. call[t].pc = "delayed" /\ messages' = messages /\ Return(t)
  BY DEF DelayReturns
<1>2. call[t].op \notin QueueOps
  BY <1>1, Unpacked
<1> QED
  BY <1>1, <1>2, ReturnUnseen

LEMMA BlockMaps ==
  ASSUME KernelInv, NEW t \in Tasks, Running(t), Block(t)
  PROVE  AbstractStutter \/ Abstract!Next
<1>1. PICK c \in CallRecords : c = call[t]
  BY Unpacked
<1>2. PICK left : left = Remaining(c)
  OBVIOUS
<1>3. left.op = c.op /\ left.asked = c.asked /\ left.xEntryTimeSet = c.xEntryTimeSet
      /\ left = [left EXCEPT !.pc = left.pc] /\ "pc" \in DOMAIN left
  BY <1>2 DEF Remaining, CallRecords
<1>4. PICK ticks \in {0, 1} :
        /\ IF TimedOut(c)
           THEN call' = [call EXCEPT ![t].pc = "expired", ![t].xTicksToWait = 0]
           ELSE call' = [call EXCEPT ![t] = [left EXCEPT !.pc = "try"]]
        /\ Pass(ticks)
  BY <1>1, <1>2 DEF Block
<1>5. messages' = messages
  BY DEF Block
<1>6. PICK d : /\ call' = [call EXCEPT ![t] = d]
               /\ d.op = c.op /\ d.asked = c.asked /\ d.xEntryTimeSet = c.xEntryTimeSet
  <2>1. CASE TimedOut(c)
    <3>1. PICK d : d = [c EXCEPT !.pc = "expired", !.xTicksToWait = 0]
      OBVIOUS
    <3>2. call' = [call EXCEPT ![t] = d]
      BY <1>1, <1>4, <2>1, <3>1 DEF KernelInv, Inv
    <3>3. d.op = c.op /\ d.asked = c.asked /\ d.xEntryTimeSet = c.xEntryTimeSet
      BY <3>1 DEF CallRecords
    <3> QED
      BY <3>2, <3>3
  <2>2. CASE ~TimedOut(c)
    <3>1. PICK d : d = [left EXCEPT !.pc = "try"]
      OBVIOUS
    <3>2. call' = [call EXCEPT ![t] = d]
      BY <1>4, <2>2, <3>1
    <3>3. d.op = c.op /\ d.asked = c.asked /\ d.xEntryTimeSet = c.xEntryTimeSet
      BY <1>2, <3>1 DEF Remaining, CallRecords
    <3> QED
      BY <3>2, <3>3
  <2> QED
    BY <2>1, <2>2
<1>7. age' = [u \in Tasks |-> AgedBy(call'[u], age[u], ticks)]
  <2>1. ASSUME NEW u \in Tasks PROVE AgedBy(call'[u], age[u], ticks) =
                                       AgedBy(call[u], age[u], ticks)
    <3>1. call'[u] = IF u = t THEN d ELSE call[u]
      BY <1>6 DEF KernelInv, Inv
    <3> QED
      BY <1>1, <1>6, <3>1 DEF AgedBy
  <2>2. age' = [u \in Tasks |-> AgedBy(call[u], age[u], ticks)]
    BY <1>4 DEF Pass, Waits, Aged, AgedBy
  <2> QED
    BY <2>1, <2>2
<1>8. AskedBy(d) = AskedBy(call[t])
  BY <1>1, <1>6 DEF AskedBy
<1> QED
  BY <1>1, <1>5, <1>6, <1>7, <1>8, SameForTheUser

LEMMA DelayMaps ==
  ASSUME KernelInv, NEW t \in Tasks, Running(t), Delay(t)
  PROVE  AbstractStutter \/ Abstract!Next
<1>1. PICK c \in CallRecords : c = call[t]
  BY Unpacked
<1>2. PICK ticks \in {0, 1} :
        /\ c.asked = 0 => ticks = 0
        /\ age' = [u \in Tasks |->
             IF u = t THEN ticks ELSE IF Waits(u) THEN Aged(u, ticks) ELSE age[u]]
  BY <1>1 DEF Delay
<1>3. PICK d : d = [c EXCEPT !.pc = "delayed", !.xEntryTimeSet = TRUE]
  OBVIOUS
<1>4. messages' = messages /\ c.pc = "delay" /\ call' = [call EXCEPT ![t] = d]
  BY <1>1, <1>3 DEF Delay, KernelInv, Inv
<1>5. d.op = c.op /\ d.asked = c.asked /\ d.xEntryTimeSet
  BY <1>3 DEF CallRecords
<1>6. c.op = "delay" /\ c.op \notin QueueOps
  BY <1>1, <1>4, Unpacked DEF CallInv, QueueOps
<1>7. ticks <= MaxAge
  <2>1. c.asked \in 0 .. portMAX_DELAY /\ c.asked <= MaxAge
    BY <1>1, <1>6, Unpacked, AskedIsCounted DEF CallRecords
  <2> QED
    BY <1>2, <2>1, Constants
<1>8. PICK g : g = [age EXCEPT ![t] = 0]
  OBVIOUS
<1>9. \A u \in Tasks : g[u] = IF u = t THEN 0 ELSE age[u]
  BY <1>8 DEF KernelInv, Inv
<1>10. age' = [u \in Tasks |-> AgedBy(call'[u], g[u], ticks)]
  <2>1. ASSUME NEW u \in Tasks
        PROVE  (IF u = t THEN ticks ELSE IF Waits(u) THEN Aged(u, ticks) ELSE age[u])
                 = AgedBy(call'[u], g[u], ticks)
    <3>1. call'[u] = IF u = t THEN d ELSE call[u]
      BY <1>4 DEF KernelInv, Inv
    <3>2. CASE u = t
      <4>1. call'[u] = d /\ g[u] = 0
        BY <1>9, <3>1, <3>2
      <4>2. AgedBy(d, 0, ticks) = ticks
        BY <1>5, <1>7, Constants DEF AgedBy
      <4> QED
        BY <3>2, <4>1, <4>2
    <3>3. CASE u # t
      <4>1. call'[u] = call[u] /\ g[u] = age[u]
        BY <1>9, <3>1, <3>3
      <4> QED
        BY <3>3, <4>1 DEF AgedBy, Waits, Aged
    <3> QED
      BY <3>2, <3>3
  <2> QED
    BY <1>2, <2>1
<1>11. AskedBy(d) = AskedBy(call[t])
  BY <1>1, <1>5 DEF AskedBy
<1>12. /\ d.op = call[t].op /\ d.op \notin QueueOps
       /\ \A u \in Tasks : u # t => g[u] = age[u]
  BY <1>1, <1>5, <1>6, <1>9
<1>13. messages' = messages /\ call' = [call EXCEPT ![t] = d]
  BY <1>4
<1> HIDE <1>8, <1>3
<1> QED
  BY <1>10, <1>11, <1>12, <1>13, SameForTheUser

LEMMA StepMaps ==
  ASSUME KernelInv, NEW t \in Tasks, Step(t) PROVE AbstractStutter \/ Abstract!Next
BY ComputeMaps, BeginMaps, SendMaps, ReceiveMaps, FindNothingMaps, BlockMaps,
   ExpireMaps, DelayMaps, DelayReturnsMaps DEF Step

LEMMA InitMaps == Init => Abstract!Init
<1> SUFFICES ASSUME Init PROVE Abstract!Init
  OBVIOUS
<1>1. /\ messages = << >> /\ call = [t \in Tasks |-> NoCall]
      /\ age = [t \in Tasks |-> 0]
  BY DEF Init
<1>2. NoCall.op \notin QueueOps
  BY DEF NoCall, QueueOps
<1>3. AskedBy(NoCall) = Abstract!Nothing /\ ~Refuses(NoCall) /\ WaitedBy(NoCall, 0) = 0
  BY <1>2 DEF AskedBy, Refuses, WaitedBy, Abstract!Nothing
<1>4. /\ Asked = [t \in Tasks |-> Abstract!Nothing]
      /\ Refused = {} /\ Waited = [t \in Tasks |-> 0]
  BY <1>1, <1>3, Mapped
<1> QED
  BY <1>1, <1>4 DEF Abstract!Init

LEMMA NextMaps ==
  KernelInv /\ [Next]_vars => [Abstract!Next]_<<messages, Asked, Refused, Waited>>
<1> SUFFICES ASSUME KernelInv, [Next]_vars
             PROVE  Abstract!Next \/ UNCHANGED <<messages, Asked, Refused, Waited>>
  OBVIOUS
<1>1. CASE Tick
  BY <1>1, TickMaps
<1>2. ASSUME NEW t \in Tasks, Step(t)
      PROVE  Abstract!Next \/ UNCHANGED <<messages, Asked, Refused, Waited>>
  BY <1>2, StepMaps DEF AbstractStutter
<1>3. CASE UNCHANGED vars
  BY <1>3, Mapped DEF vars
<1> QED
  BY <1>1, <1>2, <1>3 DEF Next, Run

-----------------------------------------------------------------------------
(* The theorems *)

\* What the scheduler's lists, its times and every call have to do with each
\* other is an invariant of the kernel: for any tasks, calls, queue length and
\* ranges of the tick count and of the number of its overflows.
THEOREM KernelInvariant == SafetySpec => []KernelInv
BY KernelInvariantOfSpec

\* Every task is on one list at any time, and the tick count and all times
\* derived from it keep their type, for any width of TickType_t.
THEOREM KernelTypeCorrect == SafetySpec => []KernelTypeOK
BY KernelInvariantOfSpec, TypeOK, PTL

\* The assertion of taskSWITCH_DELAYED_LISTS never fails.
THEOREM SwitchIsSafe == SafetySpec => []DelayedListEmptyAtSwitch
BY KernelInvariantOfSpec, NobodyDelayedAtSwitch, PTL

\* vTaskDelay waits for as many ticks as it was given, neither more nor fewer,
\* whatever the tick count is when it begins.
THEOREM DelaysAreExact == SafetySpec => []DelayEndsOnTime
<1>1. KernelInv => DelayEndsOnTime
  BY DelayEnds DEF DelayEndsOnTime
<1> QED
  BY <1>1, KernelInvariantOfSpec, PTL

\* Nobody stays on an event list of the queue while there is more for it than
\* tasks awake to take it: no wake-up is lost between the critical section that
\* finds nothing and the one that blocks, or to a task that times out.
THEOREM WakeupsAreNotLost == SafetySpec => []NoLostWakeup
<1>1. ASSUME KernelInv PROVE NoLostWakeup
  <2>1. sched.waiting["receive"] # << >> => Len(messages) <= Cardinality(Active("receive"))
    BY <1>1, EnoughAwake DEF QueueOps, Free
  <2>2. sched.waiting["send"] # << >> =>
          uxLength - Len(messages) <= Cardinality(Active("send"))
    BY <1>1, EnoughAwake DEF QueueOps, Free
  <2> QED
    BY <2>1, <2>2 DEF NoLostWakeup
<1> QED
  BY <1>1, KernelInvariantOfSpec, PTL

\* xQueueGenericSend and xQueueReceive keep the promises of BlockingQueue: every
\* step of the kernel is a step of the abstract queue or none, so no call fails
\* before its ticks have passed, and none that waits forever ever fails, however
\* often the tick count has wrapped in between.
THEOREM KernelImplementsBlockingQueue == SafetySpec => ImplementsBlockingQueue
BY InitMaps, NextMaps, KernelInvariantOfSpec, PTL
DEF SafetySpec, ImplementsBlockingQueue, Abstract!SafetySpec
=============================================================================
