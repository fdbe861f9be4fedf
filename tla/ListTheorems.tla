--------------------------- MODULE ListTheorems ---------------------------
(***************************************************************************)
(* What the list operations of RecencyList do to a list that enumerates a  *)
(* set of keys: the facts behind "the map and the list stay in step" of    *)
(* the two bounded tables of the service.  Then induction and recursion on *)
(* the numbers, and with them what joining a list of sequences yields.     *)
(***************************************************************************)
EXTENDS RecencyList, SequenceTheorems, WellFoundedInduction, TLAPS

(* --------------------- lists that enlist a set of keys ------------------ *)

(* PushFront (list.PushFront) puts the key at position 1 and moves the     *)
(* others one up.                                                          *)
LEMMA PushFrontProperties ==
  ASSUME NEW K, NEW list \in Seq(K), NEW key \in K
  PROVE  /\ PushFront(list, key) \in Seq(K)
         /\ Len(PushFront(list, key)) = Len(list) + 1
         /\ PushFront(list, key)[1] = key
         /\ \A i \in 1..Len(list) : PushFront(list, key)[i + 1] = list[i]
<1>1. <<key>> \in Seq(K) /\ Len(<<key>>) = 1 /\ <<key>>[1] = key
  OBVIOUS
<1>2. Len(list) \in Nat
  BY LenProperties
<1> QED  BY <1>1, <1>2, ConcatProperties DEF PushFront, Cons

(* Unlink (list.Remove) of the element at position p closes the gap.       *)
LEMMA UnlinkProperties ==
  ASSUME NEW K, NEW list \in Seq(K), NEW p \in 1..Len(list),
         \A i, j \in 1..Len(list) : list[i] = list[j] => i = j
  PROVE  /\ Unlink(list, list[p]) \in Seq(K)
         /\ Len(Unlink(list, list[p])) = Len(list) - 1
         /\ \A i \in 1..Len(list) - 1 :
              Unlink(list, list[p])[i] = IF i < p THEN list[i] ELSE list[i + 1]
<1> DEFINE before == SubSeq(list, 1, p - 1)
           after == SubSeq(list, p + 1, Len(list))
<1>1. Len(list) \in Nat /\ \A i \in 1..Len(list) : list[i] \in K
  BY LenProperties, ElementOfSeq
<1>2. (CHOOSE i \in 1..Len(list) : list[i] = list[p]) = p
  OBVIOUS
<1>3. Unlink(list, list[p]) = before \o after
  BY <1>2 DEF Unlink, RemoveAt
<1>4. /\ before \in Seq(K)
      /\ Len(before) = p - 1
      /\ \A i \in 1..p - 1 : before[i] = list[i]
  <2>1. \A i \in 1..p - 1 : list[i] \in K
    BY <1>1
  <2> QED  BY <1>1, <2>1, SubSeqProperties
<1>5. /\ after \in Seq(K)
      /\ Len(after) = Len(list) - p
      /\ \A i \in 1..Len(list) - p : after[i] = list[p + i]
  <2>1. \A i \in p + 1..Len(list) : list[i] \in K
    BY <1>1
  <2> QED  BY <1>1, <2>1, SubSeqProperties
<1> HIDE DEF before, after
<1>6. /\ before \o after \in Seq(K)
      /\ Len(before \o after) = Len(list) - 1
      /\ \A i \in 1..Len(list) - 1 :
           (before \o after)[i] = IF i < p THEN before[i] ELSE after[i - (p - 1)]
  <2>1. /\ before \o after \in Seq(K)
        /\ Len(before \o after) = Len(before) + Len(after)
        /\ \A i \in 1..Len(before) + Len(after) : (before \o after)[i] =
              IF i <= Len(before) THEN before[i] ELSE after[i - Len(before)]
    <3>1. before \in Seq(K) /\ after \in Seq(K)
      BY <1>4, <1>5
    <3> QED  BY ONLY <3>1, ConcatProperties, Zenon
  <2>2. Len(before) + Len(after) = Len(list) - 1
    BY <1>1, <1>4, <1>5
  <2> DEFINE joined == before \o after
  <2>3. joined \in Seq(K) /\ Len(joined) = Len(list) - 1
    BY <2>1, <2>2, Zenon
  <2>4. \A i \in 1..Len(list) - 1 : joined[i] =
          IF i <= Len(before) THEN before[i] ELSE after[i - Len(before)]
    BY <2>1, <2>2, Zenon
  <2> HIDE DEF joined
  <2>5. ASSUME NEW i \in 1..Len(list) - 1
        PROVE  joined[i] = IF i < p THEN before[i] ELSE after[i - (p - 1)]
    <3>1. Len(before) = p - 1 /\ (i <= p - 1 <=> i < p)
      BY <1>1, <1>4
    <3> QED  BY ONLY <2>4, <3>1, SMTT(30)
  <2> QED  BY <2>3, <2>5, Zenon DEF joined
<1>7. \A i \in 1..Len(list) - 1 :
        (before \o after)[i] = IF i < p THEN list[i] ELSE list[i + 1]
  BY <1>1, <1>4, <1>5, <1>6
<1> QED  BY <1>3, <1>6, <1>7

(* A key that is not listed may be pushed to the front.                    *)
LEMMA PushFrontEnlists ==
  ASSUME NEW K, NEW list \in Seq(K), NEW S, Enlists(list, S),
         NEW key \in K, key \notin S
  PROVE  Enlists(PushFront(list, key), S \cup {key})
<1> DEFINE new == PushFront(list, key)
<1>1. /\ Len(list) \in Nat
      /\ Len(new) = Len(list) + 1
      /\ new[1] = key
      /\ \A i \in 1..Len(list) : new[i + 1] = list[i]
  BY PushFrontProperties, LenProperties
<1> HIDE DEF new
<1>2. \A i \in 2..Len(new) : i - 1 \in 1..Len(list) /\ new[i] = list[i - 1]
  BY <1>1
<1>3. \A i \in 1..Len(new) : new[i] \in S \cup {key}
  <2>1. \A i \in 2..Len(new) : new[i] \in S
    BY <1>2 DEF Enlists
  <2>2. \A i \in 1..Len(new) : i = 1 \/ i \in 2..Len(new)
    BY <1>1
  <2> QED  BY <1>1, <2>1, <2>2
<1>4. \A k \in S \cup {key} : \E i \in 1..Len(new) : new[i] = k
  <2>1. \E i \in 1..Len(new) : new[i] = key
    BY <1>1
  <2>2. ASSUME NEW k \in S  PROVE \E i \in 1..Len(new) : new[i] = k
    <3>1. PICK i \in 1..Len(list) : list[i] = k
      BY DEF Enlists
    <3>2. i + 1 \in 1..Len(new) /\ new[i + 1] = k
      BY <1>1, <3>1
    <3> QED  BY <3>2
  <2> QED  BY <2>1, <2>2
<1>5. ASSUME NEW i \in 1..Len(new), NEW j \in 1..Len(new), new[i] = new[j]
      PROVE  i = j
  <2>1. CASE i = 1 /\ j = 1
    BY <2>1
  <2>2. CASE i # 1 /\ j # 1
    <3>1. list[i - 1] = list[j - 1] /\ i - 1 \in 1..Len(list) /\ j - 1 \in 1..Len(list)
      BY <1>1, <1>2, <1>5, <2>2
    <3> QED  BY <1>1, <3>1 DEF Enlists
  <2>3. CASE (i = 1) # (j = 1)
    <3>1. \A k \in 2..Len(new) : new[k] \in S
      BY <1>2 DEF Enlists
    <3> QED  BY <1>1, <1>5, <2>3, <3>1
  <2> QED  BY <2>1, <2>2, <2>3
<1> QED  BY <1>3, <1>4, <1>5 DEF Enlists, new

(* Removing a listed key removes exactly that key.                         *)
LEMMA UnlinkEnlists ==
  ASSUME NEW K, NEW list \in Seq(K), NEW S, Enlists(list, S), NEW key \in S
  PROVE  /\ Unlink(list, key) \in Seq(K)
         /\ Enlists(Unlink(list, key), S \ {key})
<1>1. PICK p \in 1..Len(list) : list[p] = key
  BY DEF Enlists
<1> DEFINE new == Unlink(list, key)
<1>2. Len(list) \in Nat
  BY LenProperties
<1>3. /\ new \in Seq(K)
      /\ Len(new) = Len(list) - 1
      /\ \A i \in 1..Len(list) - 1 : new[i] = IF i < p THEN list[i] ELSE list[i + 1]
  BY <1>1, UnlinkProperties DEF Enlists
<1> HIDE DEF new
<1>4. \A i \in 1..Len(new) : new[i] \in S \ {key}
  BY <1>1, <1>2, <1>3 DEF Enlists
<1>5. ASSUME NEW k \in S \ {key}  PROVE \E i \in 1..Len(new) : new[i] = k
  <2>1. PICK i \in 1..Len(list) : list[i] = k
    BY DEF Enlists
  <2>2. i # p
    BY <1>1, <2>1
  <2>3. CASE i < p
    <3>1. i \in 1..Len(new) /\ new[i] = k
      BY <1>2, <1>3, <2>1, <2>3
    <3> QED  BY <3>1
  <2>4. CASE i > p
    <3>1. i - 1 \in 1..Len(new) /\ ~(i - 1 < p) /\ (i - 1) + 1 = i
      BY <1>2, <1>3, <2>1, <2>4
    <3>2. new[i - 1] = k
      BY <1>2, <1>3, <2>1, <3>1
    <3> QED  BY <3>1, <3>2
  <2> QED  BY <1>2, <2>2, <2>3, <2>4
<1>6. \A i, j \in 1..Len(new) : new[i] = new[j] => i = j
  BY <1>1, <1>2, <1>3 DEF Enlists
<1> QED  BY <1>3, <1>4, <1>5, <1>6 DEF Enlists, new

(* MoveToFront keeps the listed set.                                       *)
LEMMA MoveToFrontEnlists ==
  ASSUME NEW K, NEW list \in Seq(K), NEW S \in SUBSET K, Enlists(list, S),
         NEW key \in S
  PROVE  /\ MoveToFront(list, key) \in Seq(K)
         /\ Enlists(MoveToFront(list, key), S)
<1>1. /\ Unlink(list, key) \in Seq(K)
      /\ Enlists(Unlink(list, key), S \ {key})
  BY UnlinkEnlists
<1>2. MoveToFront(list, key) \in Seq(K)
  BY <1>1, PushFrontProperties DEF MoveToFront
<1>3. Enlists(MoveToFront(list, key), (S \ {key}) \cup {key})
  BY <1>1, PushFrontEnlists DEF MoveToFront
<1>4. (S \ {key}) \cup {key} = S
  OBVIOUS
<1> QED  BY <1>2, <1>3, <1>4

(* The back of a list of a non-empty set of keys is one of these keys.     *)
LEMMA BackListed ==
  ASSUME NEW K, NEW list \in Seq(K), NEW S, Enlists(list, S), S # {}
  PROVE  Back(list) \in S
<1>1. Len(list) \in 1..Len(list)
  BY LenProperties DEF Enlists
<1> QED  BY <1>1 DEF Enlists, Back, Last

(* Removing a key leaves the others in their order.                        *)
LEMMA UnlinkOrdered ==
  ASSUME NEW K, NEW list \in Seq(K), NEW S, Enlists(list, S), NEW key \in S,
         NEW R, Ordered(list, R)
  PROVE  Ordered(Unlink(list, key), R)
<1>1. PICK p \in 1..Len(list) : list[p] = key
  BY DEF Enlists
<1>2. Len(list) \in Nat
  BY LenProperties
<1>3. /\ Len(Unlink(list, key)) = Len(list) - 1
      /\ \A i \in 1..Len(list) - 1 :
           Unlink(list, key)[i] = IF i < p THEN list[i] ELSE list[i + 1]
  BY <1>1, UnlinkProperties DEF Enlists
<1> DEFINE was(i) == IF i < p THEN i ELSE i + 1
<1>4. ASSUME NEW i \in 1..Len(list) - 1, NEW j \in 1..Len(list) - 1, i < j
      PROVE  <<Unlink(list, key)[i], Unlink(list, key)[j]>> \in R
  <2>1. was(i) \in 1..Len(list) /\ was(j) \in 1..Len(list) /\ was(i) < was(j)
    BY <1>2, <1>4
  <2>2. <<list[was(i)], list[was(j)]>> \in R
    BY <2>1 DEF Ordered
  <2>3. Unlink(list, key)[i] = list[was(i)] /\ Unlink(list, key)[j] = list[was(j)]
    BY <1>3
  <2> QED  BY <2>2, <2>3
<1> QED  BY <1>3, <1>4 DEF Ordered

(* A key pushed to the front of an ordered list leaves it ordered by every *)
(* relation that has the key before all others and the others as before.   *)
LEMMA PushFrontOrdered ==
  ASSUME NEW K, NEW list \in Seq(K), NEW S, Enlists(list, S), NEW R,
         Ordered(list, R), NEW key \in K, NEW Q,
         \A k \in S : <<key, k>> \in Q,
         \A k, l \in S : <<k, l>> \in R => <<k, l>> \in Q
  PROVE  Ordered(PushFront(list, key), Q)
<1> DEFINE new == PushFront(list, key)
<1>1. /\ Len(list) \in Nat
      /\ Len(new) = Len(list) + 1
      /\ new[1] = key
      /\ \A i \in 1..Len(list) : new[i + 1] = list[i]
  BY PushFrontProperties, LenProperties
<1> HIDE DEF new
<1>2. \A i \in 2..Len(new) : i - 1 \in 1..Len(list) /\ new[i] = list[i - 1]
  BY <1>1
<1> SUFFICES ASSUME NEW i \in 1..Len(new), NEW j \in 1..Len(new), i < j
             PROVE  <<new[i], new[j]>> \in Q
  BY DEF Ordered, new
<1>3. j - 1 \in 1..Len(list) /\ new[j] = list[j - 1] /\ new[j] \in S
  BY <1>1, <1>2 DEF Enlists
<1>4. CASE i = 1
  BY <1>1, <1>3, <1>4
<1>5. CASE i # 1
  <2>1. i - 1 \in 1..Len(list) /\ new[i] = list[i - 1] /\ new[i] \in S
    BY <1>1, <1>2, <1>5 DEF Enlists
  <2>2. <<list[i - 1], list[j - 1]>> \in R
    BY <1>1, <1>3, <2>1 DEF Ordered
  <2> QED  BY <1>3, <2>1, <2>2
<1> QED  BY <1>4, <1>5

(* Every other key of an ordered list comes before the one at its back.    *)
LEMMA BackIsLast ==
  ASSUME NEW K, NEW list \in Seq(K), NEW S, Enlists(list, S), NEW R,
         Ordered(list, R), NEW k \in S, k # Back(list)
  PROVE  <<k, Back(list)>> \in R
<1>1. PICK i \in 1..Len(list) : list[i] = k
  BY DEF Enlists
<1>2. Len(list) \in Nat
  BY LenProperties
<1>3. i < Len(list) /\ Len(list) \in 1..Len(list)
  BY <1>1, <1>2 DEF Back, Last
<1> QED  BY <1>1, <1>3 DEF Ordered, Back, Last

(* -------------------------- induction, recursion ---------------------- *)

(* Induction, with a set in place of a predicate: the library's theorem on *)
(* well-founded relations speaks of sets, which the provers can instantiate. *)
LEMMA LeastNatural ==
  ASSUME NEW T \in SUBSET Nat, T # {}
  PROVE  \E n \in T : \A m \in T : n <= m
<1> DEFINE Less == {p \in Nat \X Nat : p[1] < p[2]}
<1>1. IsWellFoundedOn(Less, Nat)
  BY NatLessThanWellFounded DEF OpToRel
<1> HIDE DEF Less
<1>2. PICK n \in T : \A m \in T : ~ (<<m, n>> \in Less)
  BY <1>1, WFMin
<1>3. ASSUME NEW m \in T PROVE n <= m
  <2>1. <<m, n>> \in Nat \X Nat /\ <<m, n>>[1] = m /\ <<m, n>>[2] = n
    OBVIOUS
  <2>2. ~(m < n)
    BY <1>2, <2>1 DEF Less
  <2> QED  BY <2>2
<1> QED  BY <1>3

LEMMA StrongInduction ==
  ASSUME NEW T, \A n \in Nat : (\A m \in Nat : m < n => m \in T) => n \in T
  PROVE  \A n \in Nat : n \in T
<1> SUFFICES ASSUME {n \in Nat : n \notin T} # {} PROVE FALSE
  OBVIOUS
<1>1. PICK n \in {n \in Nat : n \notin T} : \A m \in {k \in Nat : k \notin T} : n <= m
  BY LeastNatural
<1> QED  BY <1>1

LEMMA Induction ==
  ASSUME NEW T, 0 \in T, \A n \in Nat : n \in T => n + 1 \in T
  PROVE  \A n \in Nat : n \in T
<1>1. ASSUME NEW n \in Nat, \A m \in Nat : m < n => m \in T PROVE n \in T
  <2>1. CASE n = 0
    BY <2>1
  <2>2. CASE n # 0
    <3>1. n - 1 \in Nat /\ n - 1 < n /\ (n - 1) + 1 = n
      BY <2>2
    <3> QED  BY <1>1, <3>1
  <2> QED  BY <2>1, <2>2
<1> QED  BY <1>1, StrongInduction

(* What a function on the numbers is computed from: its values on base,    *)
(* and elsewhere the step from its value at a smaller number.              *)
Recursive(V, base, first, before, step) ==
  /\ first \in [Nat -> V] /\ before \in [Nat -> Nat] /\ step \in [Nat -> [V -> V]]
  /\ \A n \in Nat : n \notin base => before[n] < n

Computed(g, V, base, first, before, step) ==
  /\ g \in [Nat -> V]
  /\ \A n \in Nat : g[n] = IF n \in base THEN first[n] ELSE step[n][g[before[n]]]

LEMMA Recursion ==
  ASSUME NEW V, NEW base, NEW first, NEW before, NEW step,
         Recursive(V, base, first, before, step)
  PROVE  \E g : Computed(g, V, base, first, before, step)
<1> USE DEF Recursive
<1> DEFINE Sat(g, n) == \A m \in 0..n : g[m] = IF m \in base THEN first[m]
                                               ELSE step[m][g[before[m]]]
           Some == {n \in Nat : \E g \in [0..n -> V] : Sat(g, n)}
<1>1. ASSUME NEW n \in Nat, NEW k \in Nat, NEW g \in [0..n -> V], NEW h \in [0..k -> V],
             Sat(g, n), Sat(h, k)
      PROVE  \A m \in Nat : m <= n /\ m <= k => g[m] = h[m]
  <2> DEFINE Same == {m \in Nat : m <= n /\ m <= k => g[m] = h[m]}
  <2>1. ASSUME NEW m \in Nat, \A i \in Nat : i < m => i \in Same PROVE m \in Same
    <3> SUFFICES ASSUME m <= n, m <= k PROVE g[m] = h[m]
      OBVIOUS
    <3>1. m \in 0..n /\ m \in 0..k
      OBVIOUS
    <3>2. CASE m \in base
      BY <1>1, <3>1, <3>2
    <3>3. CASE m \notin base
      <4>1. before[m] \in Nat /\ before[m] < m
        BY <3>3
      <4>2. g[before[m]] = h[before[m]]
        BY <2>1, <4>1
      <4> QED  BY <1>1, <3>1, <3>3, <4>2
    <3> QED  BY <3>2, <3>3
  <2> HIDE DEF Same
  <2>2. \A m \in Nat : m \in Same
    BY <2>1, StrongInduction
  <2> QED  BY <2>2 DEF Same
<1>2. ASSUME NEW n \in Nat, \A m \in Nat : m < n => m \in Some PROVE n \in Some
  <2>1. CASE n \in base /\ n = 0
    <3>1. [m \in 0..n |-> first[m]] \in [0..n -> V] /\ Sat([m \in 0..n |-> first[m]], n)
      BY <2>1
    <3> QED  BY <3>1
  <2>2. CASE n # 0
    <3>1. n - 1 \in Nat /\ n - 1 < n /\ \A m \in 0..n : m \in 0..n - 1 \/ m = n
      BY <2>2
    <3>2. PICK g \in [0..n - 1 -> V] : Sat(g, n - 1)
      BY <1>2, <3>1
    <3> DEFINE v == IF n \in base THEN first[n] ELSE step[n][g[before[n]]]
               h == [m \in 0..n |-> IF m = n THEN v ELSE g[m]]
    <3>3. n \notin base => before[n] \in 0..n - 1
      BY <3>1
    <3>4. v \in V
      BY <3>2, <3>3
    <3>5. h \in [0..n -> V]
      BY <3>1, <3>4
    <3>6. h[n] = v /\ \A m \in 0..n - 1 : h[m] = g[m]
      BY <3>1
    <3> HIDE DEF h
    <3>7. ASSUME NEW m \in 0..n
          PROVE  h[m] = IF m \in base THEN first[m] ELSE step[m][h[before[m]]]
      <4>1. CASE m = n
        BY <3>3, <3>6, <4>1
      <4>2. CASE m \in 0..n - 1
        <5>1. m \notin base => before[m] \in 0..n - 1
          BY <3>1, <4>2
        <5> QED  BY <3>2, <3>6, <4>2, <5>1
      <4> QED  BY <3>1, <4>1, <4>2
    <3>8. Sat(h, n)
      BY <3>7
    <3> QED  BY <3>5, <3>8
  <2>3. n = 0 => n \in base
    <3> SUFFICES ASSUME n = 0, n \notin base PROVE FALSE
      OBVIOUS
    <3>1. before[n] \in Nat /\ before[n] < 0
      OBVIOUS
    <3> QED  BY <3>1
  <2> QED  BY <2>1, <2>2, <2>3
<1>3. \A n \in Nat : n \in Some
  <2> HIDE DEF Some
  <2> QED  BY <1>2, StrongInduction
<1> DEFINE upTo(n) == CHOOSE g \in [0..n -> V] : Sat(g, n)
           f == [n \in Nat |-> upTo(n)[n]]
<1>4. ASSUME NEW n \in Nat PROVE upTo(n) \in [0..n -> V] /\ Sat(upTo(n), n)
  <2>1. \E g \in [0..n -> V] : Sat(g, n)
    BY <1>3
  <2> HIDE DEF Sat
  <2> QED  BY <2>1
<1> HIDE DEF upTo
<1>5. f \in [Nat -> V] /\ \A n \in Nat : f[n] = upTo(n)[n]
  <2>1. ASSUME NEW n \in Nat PROVE upTo(n)[n] \in V
    BY <1>4
  <2> QED  BY <2>1
<1> HIDE DEF f
<1>6. ASSUME NEW n \in Nat
      PROVE  f[n] = IF n \in base THEN first[n] ELSE step[n][f[before[n]]]
  <2>1. Sat(upTo(n), n) /\ n \in 0..n
    BY <1>4
  <2>2. CASE n \in base
    BY <1>5, <2>1, <2>2
  <2>3. CASE n \notin base
    <3>1. PICK k \in Nat : k = before[n]
      OBVIOUS
    <3>2. k < n
      BY <2>3, <3>1
    <3>3. upTo(n)[k] = upTo(k)[k]
      <4>1. /\ upTo(n) \in [0..n -> V] /\ upTo(k) \in [0..k -> V]
            /\ Sat(upTo(n), n) /\ Sat(upTo(k), k)
        BY <1>4
      <4>2. k <= n /\ k <= k
        BY <3>2
      <4> HIDE DEF Sat
      <4>3. \A m \in Nat : m <= n /\ m <= k => upTo(n)[m] = upTo(k)[m]
        BY <1>1, <4>1
      <4> QED  BY <4>2, <4>3
    <3> QED  BY <1>5, <2>1, <2>3, <3>1, <3>3
  <2> QED  BY <2>2, <2>3
<1> QED  BY <1>5, <1>6 DEF Computed

(* -------------------------- joining sequences ------------------------- *)

(* What s and t become when one is put behind the other.                   *)
LEMMA Joined ==
  ASSUME NEW S, NEW s \in Seq(S), NEW t \in Seq(S)
  PROVE  /\ Len(s) \in Nat /\ Len(t) \in Nat
         /\ s \o t \in Seq(S)
         /\ Len(s \o t) = Len(s) + Len(t)
         /\ \A i \in 1..Len(s) : (s \o t)[i] = s[i]
         /\ \A i \in 1..Len(t) : (s \o t)[Len(s) + i] = t[i]
<1>1. Len(s) \in Nat /\ Len(t) \in Nat
  BY LenProperties
<1>2. /\ s \o t \in Seq(S)
      /\ Len(s \o t) = Len(s) + Len(t)
      /\ \A i \in 1..Len(s) + Len(t) : (s \o t)[i] =
                     IF i <= Len(s) THEN s[i] ELSE t[i - Len(s)]
  BY ConcatProperties, Zenon
<1> DEFINE st == s \o t
           n == Len(s)
           m == Len(t)
<1>3. n \in Nat /\ m \in Nat /\ \A i \in 1..n + m : st[i] = IF i <= n THEN s[i] ELSE t[i - n]
  BY <1>1, <1>2, Zenon
<1> HIDE DEF st, n, m
<1>4. \A i \in 1..n : st[i] = s[i]
  BY <1>3
<1>5. ASSUME NEW i \in 1..m PROVE st[n + i] = t[i]
  <2>1. n + i \in 1..n + m /\ ~(n + i <= n) /\ (n + i) - n = i
    BY <1>3
  <2> QED  BY <1>3, <2>1
<1> QED  BY <1>1, <1>2, <1>4, <1>5 DEF st, n, m

(* p[i] is what the first i sequences of s make when joined.               *)
Joins(p, s, S) ==
  /\ p \in [Nat -> Seq(S)]
  /\ p[0] = <<>>
  /\ \A i \in 1..Len(s) : p[i] = p[i - 1] \o s[i]

LEMMA JoinsExist ==
  ASSUME NEW S, NEW s \in Seq(Seq(S))
  PROVE  \E p : Joins(p, s, S)
<1> DEFINE joined == Seq(S)
           none == {0}
           start == [n \in Nat |-> <<>>]
           previous == [n \in Nat |-> IF n = 0 THEN 0 ELSE n - 1]
           append == [n \in Nat |-> [v \in joined |-> IF n \in 1..Len(s) THEN v \o s[n] ELSE v]]
<1>1. Recursive(joined, none, start, previous, append)
  <2>1. <<>> \in joined
    BY EmptySeq
  <2>2. ASSUME NEW n \in Nat, NEW v \in joined, n \in 1..Len(s) PROVE v \o s[n] \in joined
    <3>1. s[n] \in joined
      BY <2>2, ElementOfSeq
    <3> QED  BY <3>1, Joined
  <2> HIDE DEF joined
  <2>3. append \in [Nat -> [joined -> joined]]
    BY <2>2
  <2>4. start \in [Nat -> joined] /\ previous \in [Nat -> Nat]
    BY <2>1
  <2>5. \A n \in Nat : n \notin none => previous[n] < n
    OBVIOUS
  <2> QED  BY <2>3, <2>4, <2>5 DEF Recursive
<1>2. PICK p : Computed(p, joined, none, start, previous, append)
  <2> HIDE DEF joined, none, start, previous, append
  <2> QED  BY <1>1, Recursion
<1>3. p \in [Nat -> joined] /\ p[0] = <<>>
  BY <1>2 DEF Computed
<1>4. ASSUME NEW i \in 1..Len(s) PROVE p[i] = p[i - 1] \o s[i]
  <2>1. i \in Nat /\ i # 0 /\ i - 1 \in Nat
    BY LenProperties
  <2>2. p[i] = append[i][p[i - 1]]
    BY <1>2, <2>1 DEF Computed
  <2>3. p[i - 1] \in joined
    BY <1>3, <2>1
  <2> HIDE DEF joined
  <2> QED  BY <2>1, <2>2, <2>3
<1> QED  BY <1>3, <1>4 DEF Joins

(* FlattenSeq, in terms of them.                                           *)
LEMMA FlattenDef ==
  ASSUME NEW S, NEW s \in Seq(Seq(S)), NEW p, Joins(p, s, S)
  PROVE  FlattenSeq(s) = p[Len(s)]
<1>0. Len(s) \in Nat
  BY LenProperties
<1>1. CASE Len(s) = 0
  BY <1>1, EmptySeq DEF FlattenSeq, Joins
<1>2. CASE Len(s) # 0
  <2>1. ASSUME NEW i \in 1..Len(s)
        PROVE  /\ i = 1 => p[i] = s[i]
               /\ i # 1 => i - 1 \in 1..Len(s) /\ p[i] = p[i - 1] \o s[i]
    <3>1. p[i] = p[i - 1] \o s[i] /\ p[0] = <<>>
      BY DEF Joins
    <3>2. s[i] \in Seq(S)
      BY ElementOfSeq
    <3>3. <<>> \o s[i] = s[i]
      BY <3>2, ConcatEmptySeq
    <3>4. i = 1 => i - 1 = 0
      OBVIOUS
    <3>5. i # 1 => i - 1 \in 1..Len(s)
      BY <1>0
    <3>6. i = 1 => p[i] = <<>> \o s[i]
      BY <3>1, <3>4, Zenon
    <3> QED  BY <3>1, <3>3, <3>5, <3>6, Zenon
  <2> DEFINE E(g) == g = [i \in 1..Len(s) |-> IF i = 1 THEN s[i] ELSE g[i - 1] \o s[i]]
  <2>2. PICK f : E(f) /\ FlattenSeq(s) = f[Len(s)]
    <3>1. FlattenSeq(s) = (CHOOSE g : E(g))[Len(s)]
      BY <1>2 DEF FlattenSeq
    <3> DEFINE h == [i \in 1..Len(s) |-> p[i]]
    <3>2. E(h)
      BY <2>1
    <3> HIDE DEF E
    <3> QED  BY <3>1, <3>2
  <2>3. ASSUME NEW i \in 1..Len(s)
        PROVE  f[i] = IF i = 1 THEN s[i] ELSE f[i - 1] \o s[i]
    BY <2>2
  <2> DEFINE T == {i \in Nat : i + 1 <= Len(s) => f[i + 1] = p[i + 1]}
  <2>4. 0 \in T
    <3>1. 1 \in 1..Len(s)
      BY <1>0, <1>2
    <3>2. f[1] = p[1]
      BY <2>1, <2>3, <3>1, Zenon
    <3> QED  BY <3>2
  <2>5. ASSUME NEW i \in Nat, i \in T PROVE i + 1 \in T
    <3> SUFFICES ASSUME (i + 1) + 1 <= Len(s) PROVE f[(i + 1) + 1] = p[(i + 1) + 1]
      OBVIOUS
    <3> DEFINE j == i + 1
    <3>1. /\ j \in 1..Len(s) /\ j + 1 \in 1..Len(s) /\ j + 1 # 1 /\ (j + 1) - 1 = j
      BY <1>0
    <3>2. f[j] = p[j]
      BY <2>5, <3>1
    <3> HIDE DEF j
    <3>3. f[j + 1] = f[j] \o s[j + 1] /\ p[j + 1] = p[j] \o s[j + 1]
      BY <2>1, <2>3, <3>1
    <3>4. f[j + 1] = p[j + 1]
      BY <3>2, <3>3
    <3> QED  BY <3>4 DEF j
  <2>6. \A i \in Nat : i \in T
    <3> HIDE DEF T
    <3> QED  BY <2>4, <2>5, Induction
  <2>7. Len(s) - 1 \in Nat /\ (Len(s) - 1) + 1 = Len(s)
    BY <1>0, <1>2
  <2>8. ASSUME NEW i \in Nat, i + 1 = Len(s) PROVE f[Len(s)] = p[Len(s)]
    BY <2>6, <2>8
  <2> QED  BY <2>2, <2>7, <2>8
<1> QED  BY <1>1, <1>2

Begins(u, x) == Len(u) <= Len(x) /\ \A k \in 1..Len(u) : x[k] = u[k]

(* What is joined first stays at the beginning.                            *)
LEMMA JoinsGrow ==
  ASSUME NEW S, NEW s \in Seq(Seq(S)), NEW p, Joins(p, s, S)
  PROVE  \A i \in 0..Len(s) : Begins(p[i], p[Len(s)])
<1>0. Len(s) \in Nat /\ \A i \in 0..Len(s) : i \in Nat /\ Len(p[i]) \in Nat
  BY LenProperties DEF Joins
<1> DEFINE T == {d \in Nat : d <= Len(s) => Begins(p[Len(s) - d], p[Len(s)])}
<1>1. 0 \in T
  <2>1. Len(s) - 0 = Len(s) /\ Len(s) \in 0..Len(s)
    BY <1>0
  <2> QED  BY <1>0, <2>1 DEF Begins
<1>2. ASSUME NEW d \in Nat, d \in T PROVE d + 1 \in T
  <2> SUFFICES ASSUME d + 1 <= Len(s) PROVE Begins(p[Len(s) - (d + 1)], p[Len(s)])
    OBVIOUS
  <2> DEFINE i == Len(s) - d
             x == p[Len(s)]
  <2>1. /\ i \in 1..Len(s) /\ i - 1 = Len(s) - (d + 1) /\ i \in Nat /\ i - 1 \in Nat
        /\ Len(s) \in 0..Len(s)
    BY <1>0
  <2>2. Begins(p[i], x)
    BY <1>0, <1>2
  <2> HIDE DEF i, x
  <2>3. p[i - 1] \in Seq(S) /\ s[i] \in Seq(S) /\ p[i] = p[i - 1] \o s[i]
    BY <2>1, ElementOfSeq DEF Joins
  <2> DEFINE u == p[i - 1]
             v == s[i]
  <2>4. /\ Len(u) \in Nat /\ Len(v) \in Nat /\ Len(u \o v) = Len(u) + Len(v)
        /\ \A k \in 1..Len(u) : (u \o v)[k] = u[k]
    <3>1. u \in Seq(S) /\ v \in Seq(S)
      BY <2>3
    <3> HIDE DEF u, v
    <3> QED  BY <3>1, Joined
  <2>5. p[i] = u \o v /\ Len(x) \in Nat
    BY <1>0, <2>1, <2>3 DEF x
  <2> HIDE DEF u, v
  <2>6. Len(u) <= Len(x)
    BY <2>2, <2>4, <2>5 DEF Begins
  <2>7. ASSUME NEW k \in 1..Len(u) PROVE x[k] = u[k]
    <3>1. k \in 1..Len(u) + Len(v)
      BY <2>4
    <3> QED  BY <2>2, <2>4, <2>5, <3>1 DEF Begins
  <2>8. Begins(u, x)
    BY <2>6, <2>7 DEF Begins
  <2> QED  BY <2>1, <2>8 DEF u, x
<1>3. \A d \in Nat : d \in T
  <2> HIDE DEF T
  <2> QED  BY <1>1, <1>2, Induction
<1>4. ASSUME NEW i \in 0..Len(s) PROVE Begins(p[i], p[Len(s)])
  <2>1. Len(s) - i \in Nat /\ Len(s) - i <= Len(s) /\ Len(s) - (Len(s) - i) = i
    BY <1>0
  <2> QED  BY <1>3, <2>1
<1> QED  BY <1>4

============================================================================
