--------------------------- MODULE SequenceLemmas ---------------------------
(***************************************************************************)
(* Facts about numbers and sequences that no theorem module of the library *)
(* states.                                                                 *)
(***************************************************************************)
EXTENDS Integers, SequencesExt, SequenceTheorems, FiniteSetTheorems,
        WellFoundedInduction, TLAPS

(* A set of natural numbers that is not empty has its least element in it. *)
LEMMA MinInSet ==
  ASSUME NEW T, T \subseteq Nat, T # {}
  PROVE  /\ Min(T) \in T
         /\ \A y \in T : Min(T) <= y
<1> DEFINE R == OpToRel(<, Nat)
<1>1. IsWellFoundedOn(R, Nat)
  BY NatLessThanWellFounded
<1>2. \A x, y \in Nat : y < x => <<y, x>> \in R
  BY DEF OpToRel
<1> HIDE DEF R
<1>3. \E x \in T : \A y \in T : ~(<<y, x>> \in R)
  BY <1>1, WFMin
<1>4. PICK x \in T : \A y \in T : ~(<<y, x>> \in R)
  BY <1>3
<1>5. ASSUME NEW y \in T PROVE x <= y
  <2>1. x \in Nat /\ y \in Nat
    OBVIOUS
  <2>2. ~(<<y, x>> \in R)
    BY <1>4, Zenon
  <2>3. y < x => <<y, x>> \in R
    BY <1>2, <2>1, Zenon
  <2>4. ~(y < x)
    BY <2>2, <2>3, Zenon
  <2> QED
    BY <2>1, <2>4
<1>6. \E m \in T : \A y \in T : m <= y
  BY <1>5
<1> QED
  BY <1>6 DEF Min

(* The elements of a sequence are finitely many.                           *)
LEMMA RangeIsFinite ==
  ASSUME NEW S, NEW q \in Seq(S)
  PROVE  IsFiniteSet(Range(q))
<1>1. Len(q) \in Nat /\ q \in [1..Len(q) -> Range(q)]
  BY DEF Range
<1>2. q \in Surjection(1..Len(q), Range(q))
  BY <1>1 DEF Surjection, Range
<1>3. IsFiniteSet(1..Len(q))
  BY <1>1, FS_Interval
<1> QED
  BY <1>2, <1>3, FS_Surjection

(* What RemoveAt leaves of a sequence.                                     *)
LEMMA RemoveAtElements ==
  ASSUME NEW S, NEW q \in Seq(S), NEW i \in 1..Len(q)
  PROVE  /\ RemoveAt(q, i) \in Seq(S)
         /\ Len(RemoveAt(q, i)) = Len(q) - 1
         /\ \A j \in 1..(Len(q) - 1) :
              RemoveAt(q, i)[j] = IF j < i THEN q[j] ELSE q[j + 1]
<1> DEFINE u == SubSeq(q, 1, i - 1)
           v == SubSeq(q, i + 1, Len(q))
<1>1. Len(q) \in Nat /\ i \in Int
  OBVIOUS
<1>2. /\ u \in Seq(S) /\ Len(u) = i - 1
      /\ \A j \in 1..(i - 1) : u[j] = q[j]
  OBVIOUS
<1>3. /\ v \in Seq(S) /\ Len(v) = Len(q) - i
      /\ \A j \in 1..(Len(q) - i) : v[j] = q[i + j]
  OBVIOUS
<1> HIDE DEF u, v
<1>4. u \o v \in Seq(S)
  BY <1>2, <1>3
<1>5. Len(u \o v) = Len(q) - 1
  <2>1. Len(u \o v) = Len(u) + Len(v)
    BY <1>2, <1>3, ConcatProperties
  <2> QED
    BY <2>1, <1>1, <1>2, <1>3
<1>6. ASSUME NEW j \in 1..(Len(q) - 1)
      PROVE  (u \o v)[j] = IF j < i THEN q[j] ELSE q[j + 1]
  <2>1. CASE j < i
    BY <1>1, <1>2, <1>3, <2>1
  <2>2. CASE ~(j < i)
    <3>1. (u \o v)[j] = v[j - (i - 1)]
      BY <1>1, <1>2, <1>3, <2>2
    <3>2. j - (i - 1) \in 1..(Len(q) - i)
      BY <1>1, <2>2
    <3>3. v[j - (i - 1)] = q[i + (j - (i - 1))]
      BY <3>2, <1>3
    <3> QED
      BY <3>1, <3>3, <2>2, <1>1
  <2> QED
    BY <2>1, <2>2
<1> QED
  BY <1>4, <1>5, <1>6 DEF RemoveAt, u, v

(* Erasing the first occurrence of an element closes the gap it leaves.    *)
LEMMA RemoveFirstShape ==
  ASSUME NEW S, NEW q \in Seq(S), NEW e, \E i \in 1..Len(q) : q[i] = e
  PROVE  \E k \in 1..Len(q) :
           /\ q[k] = e
           /\ RemoveFirst(q, e) \in Seq(S)
           /\ Len(RemoveFirst(q, e)) = Len(q) - 1
           /\ \A j \in 1..(Len(q) - 1) :
                RemoveFirst(q, e)[j] = IF j < k THEN q[j] ELSE q[j + 1]
<1> DEFINE hits == {i \in 1..Len(q) : q[i] = e}
           k == Min(hits)
<1>1. Len(q) \in Nat /\ hits # {} /\ hits \subseteq Nat
  OBVIOUS
<1>2. k \in hits
  BY <1>1, MinInSet
<1>3. RemoveFirst(q, e) = RemoveAt(q, k)
  BY <1>1 DEF RemoveFirst, SelectInSeq
<1> HIDE DEF k
<1>4. k \in 1..Len(q) /\ q[k] = e
  BY <1>2
<1> QED
  BY <1>3, <1>4, RemoveAtElements

-----------------------------------------------------------------------------
(* Sequences without repetition.                                           *)

(* Appending an element a sequence does not have repeats none.             *)
LEMMA AppendNew ==
  ASSUME NEW S, NEW q \in Seq(S), NEW e \in S, IsInjective(q), e \notin Range(q)
  PROVE  /\ Append(q, e) \in Seq(S)
         /\ IsInjective(Append(q, e))
         /\ Range(Append(q, e)) = Range(q) \cup {e}
<1> DEFINE n == Len(q)
<1>0. PICK r : r = Append(q, e)
  OBVIOUS
<1>1. /\ r \in Seq(S) /\ n \in Nat /\ DOMAIN q = 1 .. n /\ DOMAIN r = 1 .. n + 1
      /\ \A i \in 1 .. n : r[i] = q[i]
      /\ r[n + 1] = e
  BY <1>0
<1> HIDE DEF n
<1>2. \A i \in 1 .. n : q[i] # e
  BY <1>1 DEF Range
<1>3. \A i, j \in 1 .. n : q[i] = q[j] => i = j
  BY <1>1 DEF IsInjective
<1>4. ASSUME NEW i \in 1 .. n + 1, NEW j \in 1 .. n + 1, r[i] = r[j]
      PROVE  i = j
  <2>1. (i \in 1 .. n \/ i = n + 1) /\ (j \in 1 .. n \/ j = n + 1)
    BY <1>1
  <2> QED
    BY <1>1, <1>2, <1>3, <1>4, <2>1
<1>5. IsInjective(r)
  BY <1>1, <1>4 DEF IsInjective
<1>6. Range(r) = Range(q) \cup {e}
  <2>1. ASSUME NEW x \in Range(r) PROVE x \in Range(q) \cup {e}
    <3>1. PICK i \in 1 .. n + 1 : x = r[i]
      BY <1>1 DEF Range
    <3>2. i \in 1 .. n \/ i = n + 1
      BY <1>1
    <3> QED
      BY <1>1, <3>1, <3>2 DEF Range
  <2>2. 1 .. n \subseteq 1 .. n + 1 /\ n + 1 \in 1 .. n + 1
    BY <1>1
  <2>3. ASSUME NEW x \in Range(q) \cup {e} PROVE x \in Range(r)
    BY <1>1, <2>2 DEF Range
  <2> QED
    BY <2>1, <2>3
<1>7. Append(q, e) \in Seq(S)
  BY <1>0, <1>1
<1>8. IsInjective(Append(q, e))
  BY <1>0, <1>5
<1>9. Range(Append(q, e)) = Range(q) \cup {e}
  BY <1>0, <1>6
<1> QED
  BY <1>7, <1>8, <1>9

(* The tail of a sequence without repetition has not its head.             *)
LEMMA TailOfDistinct ==
  ASSUME NEW S, NEW q \in Seq(S), IsInjective(q), q # << >>
  PROVE  /\ Tail(q) \in Seq(S)
         /\ IsInjective(Tail(q))
         /\ Head(q) \in Range(q)
         /\ Range(Tail(q)) = Range(q) \ {Head(q)}
<1> DEFINE r == Tail(q)
           n == Len(q)
<1>1. /\ r \in Seq(S) /\ n \in Nat \ {0} /\ DOMAIN q = 1 .. n /\ DOMAIN r = 1 .. n - 1
      /\ \A i \in 1 .. n - 1 : r[i] = q[i + 1]
      /\ Head(q) = q[1]
  OBVIOUS
<1> HIDE DEF r, n
<1>2. \A i, j \in 1 .. n : q[i] = q[j] => i = j
  BY <1>1 DEF IsInjective
<1>3. /\ 1 \in 1 .. n
      /\ \A i \in 1 .. n - 1 : i + 1 \in 1 .. n /\ i + 1 # 1
      /\ \A i \in 1 .. n : i # 1 => i - 1 \in 1 .. n - 1 /\ (i - 1) + 1 = i
  BY <1>1
<1>4. IsInjective(r)
  <2>1. ASSUME NEW i \in 1 .. n - 1, NEW j \in 1 .. n - 1, r[i] = r[j] PROVE i = j
    <3>1. i + 1 = j + 1
      BY <1>1, <1>2, <1>3, <2>1
    <3> QED
      BY <3>1
  <2> QED
    BY <1>1, <2>1 DEF IsInjective
<1>5. ASSUME NEW x \in Range(r) PROVE x \in Range(q) \ {q[1]}
  <2>1. PICK i \in 1 .. n - 1 : x = q[i + 1]
    BY <1>1 DEF Range
  <2>2. q[i + 1] # q[1]
    BY <1>2, <1>3
  <2> QED
    BY <1>1, <1>3, <2>1, <2>2 DEF Range
<1>6. ASSUME NEW x \in Range(q) \ {q[1]} PROVE x \in Range(r)
  <2>1. PICK i \in 1 .. n : x = q[i]
    BY <1>1 DEF Range
  <2>2. i - 1 \in 1 .. n - 1 /\ r[i - 1] = q[i]
    BY <1>1, <1>3, <1>6, <2>1
  <2> QED
    BY <1>1, <2>1, <2>2 DEF Range
<1>7. Range(r) = Range(q) \ {Head(q)} /\ Head(q) \in Range(q)
  BY <1>1, <1>3, <1>5, <1>6 DEF Range
<1> QED
  BY <1>1, <1>4, <1>7 DEF r

(* A sequence without repetition has an element no more once its first     *)
(* occurrence is removed.                                                  *)
LEMMA RemoveOnly ==
  ASSUME NEW S, NEW q \in Seq(S), IsInjective(q), NEW e
  PROVE  /\ RemoveFirst(q, e) \in Seq(S)
         /\ IsInjective(RemoveFirst(q, e))
         /\ Range(RemoveFirst(q, e)) = Range(q) \ {e}
<1> DEFINE r == RemoveFirst(q, e)
           n == Len(q)
<1>1. n \in Nat /\ DOMAIN q = 1 .. n
  OBVIOUS
<1>2. CASE ~\E i \in 1 .. n : q[i] = e
  <2>1. r = q
    BY <1>2 DEF RemoveFirst
  <2>2. e \notin Range(q)
    BY <1>1, <1>2 DEF Range
  <2> QED
    BY <2>1, <2>2
<1>3. CASE \E i \in 1 .. n : q[i] = e
  <2>1. PICK k \in 1 .. n :
          /\ q[k] = e
          /\ r \in Seq(S)
          /\ Len(r) = n - 1
          /\ \A j \in 1 .. n - 1 : r[j] = IF j < k THEN q[j] ELSE q[j + 1]
    BY <1>3, RemoveFirstShape
  <2> HIDE DEF r
  <2>2. DOMAIN r = 1 .. n - 1
    BY <2>1
  <2> HIDE DEF n
  <2>3. \A i, j \in 1 .. n : q[i] = q[j] => i = j
    BY <1>1 DEF IsInjective
  <2> DEFINE up(j) == IF j < k THEN j ELSE j + 1
  <2>4. \A j \in 1 .. n - 1 : up(j) \in 1 .. n /\ up(j) # k /\ r[j] = q[up(j)]
    BY <1>1, <2>1
  <2>5. \A i, j \in 1 .. n - 1 : up(i) = up(j) => i = j
    BY <1>1
  <2>6. \A i \in 1 .. n : i # k => \E j \in 1 .. n - 1 : up(j) = i
    <3>1. ASSUME NEW i \in 1 .. n, i # k PROVE \E j \in 1 .. n - 1 : up(j) = i
      <4>1. CASE i < k
        BY <1>1, <4>1
      <4>2. CASE i > k
        <5>1. i - 1 \in 1 .. n - 1 /\ ~(i - 1 < k) /\ (i - 1) + 1 = i
          BY <1>1, <4>2
        <5> QED
          BY <5>1
      <4> QED
        BY <1>1, <3>1, <4>1, <4>2
    <3> QED
      BY <3>1
  <2> HIDE DEF up
  <2>7. IsInjective(r)
    BY <2>2, <2>3, <2>4, <2>5 DEF IsInjective
  <2>8. ASSUME NEW x \in Range(r) PROVE x \in Range(q) \ {e}
    <3>1. PICK j \in 1 .. n - 1 : x = q[up(j)]
      BY <2>2, <2>4 DEF Range
    <3>2. up(j) \in 1 .. n /\ q[up(j)] # q[k]
      BY <2>3, <2>4
    <3> QED
      BY <1>1, <2>1, <3>1, <3>2 DEF Range
  <2>9. ASSUME NEW x \in Range(q) \ {e} PROVE x \in Range(r)
    <3>1. PICK i \in 1 .. n : x = q[i]
      BY <1>1 DEF Range
    <3>2. PICK j \in 1 .. n - 1 : up(j) = i
      BY <2>1, <2>6, <2>9, <3>1
    <3>3. x = r[j]
      BY <2>4, <3>1, <3>2
    <3> QED
      BY <2>2, <3>3 DEF Range
  <2> QED
    BY <2>1, <2>7, <2>8, <2>9 DEF r
<1> QED
  BY <1>2, <1>3

(* Two sequences without repetition that share no element.                 *)
LEMMA ConcatDistinct ==
  ASSUME NEW S, NEW p \in Seq(S), NEW q \in Seq(S), IsInjective(p), IsInjective(q),
         Range(p) \cap Range(q) = {}
  PROVE  IsInjective(p \o q)
<1> DEFINE m == Len(p)
           n == Len(q)
<1>0. PICK r : r = p \o q
  OBVIOUS
<1>1. /\ m \in Nat /\ n \in Nat
      /\ DOMAIN p = 1 .. m /\ DOMAIN q = 1 .. n /\ DOMAIN r = 1 .. m + n
      /\ \A i \in 1 .. m : r[i] = p[i]
      /\ \A i \in 1 .. m + n : i > m => r[i] = q[i - m]
  BY <1>0
<1> HIDE DEF m, n
<1>2. /\ \A i, j \in 1 .. m : p[i] = p[j] => i = j
      /\ \A i, j \in 1 .. n : q[i] = q[j] => i = j
      /\ \A i \in 1 .. m, j \in 1 .. n : p[i] # q[j]
  <2>1. \A i \in 1 .. m, j \in 1 .. n : p[i] \in Range(p) /\ q[j] \in Range(q)
    BY <1>1 DEF Range
  <2> QED
    BY <1>1, <2>1 DEF IsInjective
<1>3. \A i \in 1 .. m + n : i \in 1 .. m \/ (i > m /\ i - m \in 1 .. n)
  BY <1>1
<1>4. ASSUME NEW i \in 1 .. m + n, NEW j \in 1 .. m + n, r[i] = r[j]
      PROVE  i = j
  <2>1. CASE i \in 1 .. m /\ j \in 1 .. m
    BY <1>1, <1>2, <1>4, <2>1
  <2>2. CASE i > m /\ i - m \in 1 .. n /\ j > m /\ j - m \in 1 .. n
    <3>1. i - m = j - m
      BY <1>1, <1>2, <1>4, <2>2
    <3> QED
      BY <1>1, <3>1
  <2>3. CASE i \in 1 .. m /\ j > m /\ j - m \in 1 .. n
    BY <1>1, <1>2, <1>4, <2>3
  <2>4. CASE j \in 1 .. m /\ i > m /\ i - m \in 1 .. n
    BY <1>1, <1>2, <1>4, <2>4
  <2> QED
    BY <1>3, <2>1, <2>2, <2>3, <2>4
<1> QED
  BY <1>0, <1>1, <1>4 DEF IsInjective
=============================================================================
