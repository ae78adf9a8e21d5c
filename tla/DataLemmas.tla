----------------------------- MODULE DataLemmas -----------------------------
(***************************************************************************)
(* What the proofs of several components know of the data.  The loops of   *)
(* the program are recursive functions in the models, of the number of     *)
(* turns made: EveryTurn and TurnsAdd are induction over that number, for  *)
(* sets and for functions.                                                 *)
(***************************************************************************)
EXTENDS Integers, SequencesExt, SequenceTheorems, WellFoundedInduction, TLAPS

Less == {p \in Nat \X Nat : p[1] < p[2]}

\* A set of natural numbers that is not empty has a least element.
LEMMA LeastElement ==
  ASSUME NEW T \in SUBSET Nat, T # {}
  PROVE  \E m \in T : \A k \in T : m <= k
<1>1. IsWellFoundedOn(Less, Nat)
  <2>1. Less \cap (Nat \X Nat) \subseteq OpToRel(<, Nat)
    BY DEF Less, OpToRel
  <2> QED
    BY <2>1, NatLessThanWellFounded, IsWellFoundedOnSubrelation
<1>2. PICK m \in T : \A y \in T : <<y, m>> \notin Less
  BY <1>1, WFMin
<1>3. \A k \in T : ~(k < m)
  BY <1>2 DEF Less
<1> QED
  BY <1>3

\* What holds at first and is kept by every turn holds after each turn.
LEMMA EveryTurn ==
  ASSUME NEW n \in Nat, NEW T,
         0 \in T, \A i \in 1..n : i - 1 \in T => i \in T
  PROVE  0..n \subseteq T
<1> DEFINE Left == {k \in 0..n : k \notin T}
<1> SUFFICES ASSUME Left # {} PROVE FALSE
  OBVIOUS
<1>1. PICK m \in Left : \A k \in Left : m <= k
  <2>1. Left \in SUBSET Nat
    OBVIOUS
  <2> HIDE DEF Left
  <2> QED
    BY <2>1, LeastElement
<1>2. m \in 1..n /\ m - 1 \in 0..n
  BY <1>1
<1>3. m - 1 \in T
  BY <1>1, <1>2
<1> QED
  BY <1>1, <1>2, <1>3

\* The functions that make n turns from a.
Loops(X, a, n, turn) ==
  {f \in [0..n -> X] : f[0] = a /\ \A i \in 1..n : f[i] = turn[i][f[i - 1]]}

\* Turns can be made one after the other.
LEMMA TurnsAdd ==
  ASSUME NEW X, NEW a \in X, NEW n \in Nat, NEW turn \in [1..n -> [X -> X]]
  PROVE  Loops(X, a, n, turn) # {}
<1> DEFINE Runs(m) == Loops(X, a, m, turn)
           T == {m \in 0..n : Runs(m) # {}}
<1>1. 0 \in T
  <2>1. PICK f : f = [i \in 0..0 |-> a]
    OBVIOUS
  <2>2. f \in [0..0 -> X] /\ f[0] = a /\ \A i \in 1..0 : f[i] = turn[i][f[i - 1]]
    BY <2>1
  <2>3. f \in Runs(0)
    BY <2>2 DEF Loops
  <2> QED
    BY <2>3
<1>2. ASSUME NEW m \in 1..n, m - 1 \in T PROVE m \in T
  <2>1. PICK f \in [0..m - 1 -> X] : f[0] = a /\ \A i \in 1..m - 1 : f[i] = turn[i][f[i - 1]]
    BY <1>2 DEF Loops
  <2>2. f[m - 1] \in X /\ turn[m][f[m - 1]] \in X
    BY <1>2, <2>1
  <2> DEFINE g == [i \in 0..m |-> IF i = m THEN turn[m][f[m - 1]] ELSE f[i]]
  <2>3. g \in [0..m -> X] /\ g[0] = a
    BY <1>2, <2>1, <2>2
  <2>4. \A i \in 1..m : g[i] = turn[i][g[i - 1]]
    <3> TAKE i \in 1..m
    <3>1. i - 1 \in 0..m - 1 /\ i \in 0..m
      OBVIOUS
    <3>2. g[i - 1] = f[i - 1]
      BY <3>1
    <3>3. CASE i = m
      BY <3>1, <3>2, <3>3
    <3>4. CASE i # m
      <4>1. f[i] = turn[i][f[i - 1]]
        BY <2>1, <3>4
      <4> QED
        BY <3>1, <3>2, <3>4, <4>1
    <3> QED
      BY <3>3, <3>4
  <2> HIDE DEF g
  <2>5. Runs(m) # {}
    BY <2>3, <2>4 DEF Loops
  <2> HIDE DEF Runs
  <2> QED
    BY <1>2, <2>5
<1> HIDE DEF T
<1>3. 0..n \subseteq T
  BY <1>1, <1>2, EveryTurn
<1> QED
  BY <1>3 DEF T

\* Of a sequence one element is removed, and the ones behind it move up.
LEMMA Removed ==
  ASSUME NEW S, NEW s \in Seq(S), NEW k \in 1..Len(s)
  PROVE  /\ RemoveAt(s, k) \in Seq(S)
         /\ Len(RemoveAt(s, k)) = Len(s) - 1
         /\ \A i \in 1..Len(s) - 1 : RemoveAt(s, k)[i] = s[IF i < k THEN i ELSE i + 1]
<1> DEFINE a == SubSeq(s, 1, k - 1)
           b == SubSeq(s, k + 1, Len(s))
<1>1. Len(s) \in Nat /\ \A i \in 1..Len(s) : s[i] \in S
  OBVIOUS
<1>2. /\ a \in Seq(S) /\ Len(a) = IF 1 <= k - 1 THEN (k - 1) - 1 + 1 ELSE 0
      /\ \A i \in 1..((k - 1) - 1 + 1) : a[i] = s[1 + i - 1]
  <2>1. k - 1 \in Int /\ \A i \in 1..k - 1 : s[i] \in S
    BY <1>1
  <2> QED
    BY <2>1, SubSeqProperties
<1>3. /\ b \in Seq(S) /\ Len(b) = IF k + 1 <= Len(s) THEN Len(s) - (k + 1) + 1 ELSE 0
      /\ \A i \in 1..(Len(s) - (k + 1) + 1) : b[i] = s[k + 1 + i - 1]
  <2>1. k + 1 \in Int /\ Len(s) \in Int /\ \A i \in k + 1..Len(s) : s[i] \in S
    BY <1>1
  <2> QED
    BY <2>1, SubSeqProperties
<1>4. RemoveAt(s, k) = a \o b
  BY Zenon DEF RemoveAt
<1> HIDE DEF a, b
<1>5. /\ Len(a) = k - 1 /\ \A i \in 1..k - 1 : a[i] = s[i]
      /\ Len(b) = Len(s) - k /\ \A i \in 1..Len(s) - k : b[i] = s[k + i]
  BY <1>1, <1>2, <1>3
<1>6. /\ a \o b \in Seq(S) /\ Len(a \o b) = Len(s) - 1
      /\ \A i \in 1..Len(s) - 1 : (a \o b)[i] = IF i < k THEN a[i] ELSE b[i - (k - 1)]
  <2>1. /\ a \o b \in Seq(S) /\ Len(a \o b) = Len(a) + Len(b)
        /\ \A i \in 1..Len(a) + Len(b) : (a \o b)[i] = IF i <= Len(a) THEN a[i] ELSE b[i - Len(a)]
    BY <1>2, <1>3, ConcatProperties
  <2>2. Len(a) + Len(b) = Len(s) - 1
    BY <1>1, <1>5
  <2>3. \A i \in 1..Len(s) - 1 : i <= k - 1 <=> i < k
    BY <1>1
  <2> QED
    BY <1>5, <2>1, <2>2, <2>3
<1>7. ASSUME NEW i \in 1..Len(s) - 1
      PROVE  (a \o b)[i] = s[IF i < k THEN i ELSE i + 1]
  <2>1. CASE i < k
    BY <1>5, <1>6, <2>1
  <2>2. CASE ~(i < k)
    <3>1. i - (k - 1) \in 1..Len(s) - k /\ k + (i - (k - 1)) = i + 1
      BY <1>1, <2>2
    <3> QED
      BY <1>5, <1>6, <2>2, <3>1
  <2> QED
    BY <2>1, <2>2
<1> QED
  BY <1>4, <1>6, <1>7

\* If the elements differ, the removed one is gone and the others are there.
LEMMA RemovedOnce ==
  ASSUME NEW S, NEW s \in Seq(S), NEW k \in DOMAIN s,
         \A i, j \in DOMAIN s : s[i] = s[j] => i = j
  PROVE  /\ RemoveAt(s, k) \in Seq(S)
         /\ \A i \in DOMAIN RemoveAt(s, k) : \E j \in DOMAIN s : j # k /\ RemoveAt(s, k)[i] = s[j]
         /\ \A j \in DOMAIN s : j # k => \E i \in DOMAIN RemoveAt(s, k) : RemoveAt(s, k)[i] = s[j]
         /\ \A i, j \in DOMAIN RemoveAt(s, k) : RemoveAt(s, k)[i] = RemoveAt(s, k)[j] => i = j
<1> PICK r : r = RemoveAt(s, k)
  OBVIOUS
<1>1. k \in 1..Len(s) /\ Len(s) \in Nat /\ DOMAIN s = 1..Len(s)
  OBVIOUS
<1>2. PICK n \in Nat : n = Len(s) - 1
  <2>1. Len(s) - 1 \in Nat
    BY <1>1
  <2> QED
    BY <2>1
<1>3. /\ r \in Seq(S) /\ Len(r) = n
      /\ \A i \in 1..n : r[i] = s[IF i < k THEN i ELSE i + 1]
  BY <1>1, <1>2, Removed
<1>4. /\ DOMAIN s = 1..(n + 1) /\ DOMAIN r = 1..n
      /\ \A i \in 1..n : /\ i < k => r[i] = s[i]
                         /\ i >= k => r[i] = s[i + 1]
  BY <1>1, <1>2, <1>3
<1>5. \A i \in 1..n : \E j \in 1..(n + 1) : j # k /\ r[i] = s[j]
  <2> TAKE i \in 1..n
  <2>1. CASE i < k
    BY <1>4, <2>1
  <2>2. CASE ~(i < k)
    <3>1. i + 1 \in 1..(n + 1) /\ i + 1 # k /\ i >= k
      BY <1>1, <2>2
    <3> QED
      BY <1>4, <3>1
  <2> QED
    BY <2>1, <2>2
<1>6. \A j \in 1..(n + 1) : j # k => \E i \in 1..n : r[i] = s[j]
  <2> SUFFICES ASSUME NEW j \in 1..(n + 1), j # k PROVE \E i \in 1..n : r[i] = s[j]
    OBVIOUS
  <2>1. CASE j < k
    <3>1. j \in 1..n
      BY <1>1, <1>2, <2>1
    <3> QED
      BY <1>4, <2>1, <3>1
  <2>2. CASE ~(j < k)
    <3>1. j - 1 \in 1..n /\ j - 1 >= k /\ (j - 1) + 1 = j
      BY <1>1, <2>2
    <3> QED
      BY <1>4, <3>1
  <2> QED
    BY <2>1, <2>2
<1>7. \A i, j \in 1..n : r[i] = r[j] => i = j
  <2> SUFFICES ASSUME NEW i \in 1..n, NEW j \in 1..n, r[i] = r[j] PROVE i = j
    OBVIOUS
  <2>1. PICK a \in 1..(n + 1) : r[i] = s[a] /\ a = IF i < k THEN i ELSE i + 1
    BY <1>3
  <2>2. PICK b \in 1..(n + 1) : r[j] = s[b] /\ b = IF j < k THEN j ELSE j + 1
    BY <1>3
  <2>3. a = b
    BY <1>4, <2>1, <2>2
  <2> QED
    BY <1>1, <2>1, <2>2, <2>3
<1>8. /\ \A i \in DOMAIN r : \E j \in DOMAIN s : j # k /\ r[i] = s[j]
      /\ \A j \in DOMAIN s : j # k => \E i \in DOMAIN r : r[i] = s[j]
      /\ \A i, j \in DOMAIN r : r[i] = r[j] => i = j
  <2>1. DOMAIN s = 1..(n + 1) /\ DOMAIN r = 1..n
    BY <1>4
  <2>2. \A i \in DOMAIN r : \E j \in DOMAIN s : j # k /\ r[i] = s[j]
    BY <1>5, <2>1
  <2>3. \A j \in DOMAIN s : j # k => \E i \in DOMAIN r : r[i] = s[j]
    BY <1>6, <2>1
  <2>4. \A i, j \in DOMAIN r : r[i] = r[j] => i = j
    BY <1>7, <2>1
  <2> QED
    BY <2>2, <2>3, <2>4
<1>9. r \in Seq(S) /\ r = RemoveAt(s, k)
  BY <1>3
<1> QED
  BY <1>8, <1>9

\* A new element comes first or last.
LEMMA AddedOnce ==
  ASSUME NEW S, NEW s \in Seq(S), NEW x \in S, NEW r, r \in {<<x>> \o s, Append(s, x)},
         \A i \in DOMAIN s : s[i] # x,
         \A i, j \in DOMAIN s : s[i] = s[j] => i = j
  PROVE  /\ r \in Seq(S)
         /\ \A i \in DOMAIN r : r[i] = x \/ \E j \in DOMAIN s : r[i] = s[j]
         /\ \A j \in DOMAIN s : \E i \in DOMAIN r : r[i] = s[j]
         /\ \E i \in DOMAIN r : r[i] = x
         /\ \A i, j \in DOMAIN r : r[i] = r[j] => i = j
<1> PICK n \in Nat : n = Len(s)
  OBVIOUS
<1>1. DOMAIN s = 1..n
  OBVIOUS
<1>2. PICK at \in {1, n + 1} :
        /\ r \in Seq(S) /\ DOMAIN r = 1..(n + 1) /\ r[at] = x
        /\ \A i \in 1..n : r[IF at = 1 THEN i + 1 ELSE i] = s[i]
  <2>1. CASE r = <<x>> \o s
    <3>1. <<x>> \in Seq(S) /\ Len(<<x>>) = 1 /\ <<x>>[1] = x
      OBVIOUS
    <3>2. /\ r \in Seq(S) /\ Len(r) = 1 + n
          /\ \A i \in 1..(1 + n) : r[i] = IF i <= 1 THEN <<x>>[i] ELSE s[i - 1]
      BY <2>1, <3>1, ConcatProperties
    <3>3. r[1] = x /\ \A i \in 1..n : r[i + 1] = s[i]
      <4>1. r[1] = x
        BY <3>1, <3>2
      <4>2. \A i \in 1..n : i + 1 \in 1..(1 + n) /\ ~(i + 1 <= 1) /\ (i + 1) - 1 = i
        OBVIOUS
      <4>3. \A i \in 1..n : r[i + 1] = s[i]
        BY <3>2, <4>2
      <4> QED
        BY <4>1, <4>3
    <3>4. DOMAIN r = 1..(n + 1)
      BY <3>2
    <3> QED
      BY <3>2, <3>3, <3>4
  <2>2. CASE r = Append(s, x)
    <3>1. /\ r \in Seq(S) /\ Len(r) = n + 1 /\ r[n + 1] = x
          /\ \A i \in 1..n : r[i] = s[i]
      BY <2>2, AppendProperties
    <3>2. DOMAIN r = 1..(n + 1)
      BY <3>1
    <3>3. n + 1 = 1 => \A i \in 1..n : FALSE
      OBVIOUS
    <3> QED
      BY <3>1, <3>2, <3>3
  <2> QED
    BY <2>1, <2>2
<1>3. \A i \in 1..(n + 1) : i # at => \E j \in 1..n : i = (IF at = 1 THEN j + 1 ELSE j) /\ r[i] = s[j]
  <2> SUFFICES ASSUME NEW i \in 1..(n + 1), i # at
               PROVE  \E j \in 1..n : i = (IF at = 1 THEN j + 1 ELSE j) /\ r[i] = s[j]
    OBVIOUS
  <2>1. CASE at = 1
    <3>1. i - 1 \in 1..n /\ i = (i - 1) + 1
      BY <2>1
    <3> QED
      BY <1>2, <2>1, <3>1
  <2>2. CASE at # 1
    <3>1. i \in 1..n
      BY <2>2
    <3> QED
      BY <1>2, <2>2, <3>1
  <2> QED
    BY <2>1, <2>2
<1>4. at \in 1..(n + 1) /\ \A i \in 1..n : (IF at = 1 THEN i + 1 ELSE i) \in 1..(n + 1)
  OBVIOUS
<1>5. \A i \in DOMAIN r : r[i] = x \/ \E j \in DOMAIN s : r[i] = s[j]
  BY <1>1, <1>2, <1>3
<1>6. \A j \in DOMAIN s : \E i \in DOMAIN r : r[i] = s[j]
  BY <1>1, <1>2, <1>4
<1>7. \E i \in DOMAIN r : r[i] = x
  BY <1>2, <1>4
<1>8. \A i, j \in DOMAIN r : r[i] = r[j] => i = j
  <2> SUFFICES ASSUME NEW i \in 1..(n + 1), NEW j \in 1..(n + 1), r[i] = r[j] PROVE i = j
    BY <1>2
  <2>1. CASE i # at /\ j # at
    <3>1. PICK a \in 1..n : i = (IF at = 1 THEN a + 1 ELSE a) /\ r[i] = s[a]
      BY <1>3, <2>1
    <3>2. PICK b \in 1..n : j = (IF at = 1 THEN b + 1 ELSE b) /\ r[j] = s[b]
      BY <1>3, <2>1
    <3>3. a = b
      BY <1>1, <3>1, <3>2
    <3> QED
      BY <3>1, <3>2, <3>3
  <2>2. CASE i = at /\ j # at
    <3>1. PICK b \in 1..n : r[j] = s[b]
      BY <1>3, <2>2
    <3> QED
      BY <1>1, <1>2, <2>2, <3>1
  <2>3. CASE i # at /\ j = at
    <3>1. PICK a \in 1..n : r[i] = s[a]
      BY <1>3, <2>3
    <3> QED
      BY <1>1, <1>2, <2>3, <3>1
  <2> QED
    BY <2>1, <2>2, <2>3
<1> QED
  BY <1>2, <1>5, <1>6, <1>7, <1>8
=============================================================================
