------------------------------ MODULE FoldProofs ------------------------------
(***************************************************************************)
(* What the recursive operators of the library that the models use return, *)
(* for arguments of any size: FlattenSeq, which puts the logs of blocks    *)
(* together, and SumFunctionOnSet, which adds up balances and requests.    *)
(* Each is a recursive function; that it is defined, and what it returns,  *)
(* is shown by induction, which rests on the least element of a set of     *)
(* natural numbers.                                                        *)
(***************************************************************************)
EXTENDS SequencesExt, FiniteSetTheorems, WellFoundedInduction, TLAPS

\* A relation under which the natural numbers are well founded gives least elements.
LEMMA LeastIn ==
  ASSUME NEW R, IsWellFoundedOn(R, Nat), \A x, y \in Nat : x < y => <<x, y>> \in R,
         NEW T, T \subseteq Nat, T # {}
  PROVE  \E n \in T : \A k \in T : n <= k
<1>1. \E x \in T : \A y \in T : ~ (<<y, x>> \in R)
  BY ZenonT(20), WFMin
<1>2. \A x, y \in T : x \in Nat /\ y \in Nat /\ (~ (<<y, x>> \in R) => x <= y)
  OBVIOUS
<1>. QED  BY <1>1, <1>2

\* Every set of natural numbers that is not empty has a least element.
LEMMA LeastNat ==
  ASSUME NEW T, T \subseteq Nat, T # {}
  PROVE  \E n \in T : \A k \in T : n <= k
<1>1. IsWellFoundedOn(OpToRel(<, Nat), Nat)
  BY NatLessThanWellFounded
<1>2. \A x, y \in Nat : x < y => <<x, y>> \in OpToRel(<, Nat)
  BY Zenon DEF OpToRel
<1>. QED  BY <1>1, <1>2, LeastIn

\* Induction over the natural numbers, for a set instead of an operator.
LEMMA NatInduct ==
  ASSUME NEW G, 0 \in G, \A n \in Nat : n \in G => n + 1 \in G
  PROVE  \A n \in Nat : n \in G
<1>. DEFINE T == Nat \ G
<1>. SUFFICES ASSUME T # {}
              PROVE  FALSE
  OBVIOUS
<1>1. PICK n \in T : \A k \in T : n <= k
  BY LeastNat
<1>2. n \in Nat /\ n \notin G /\ n # 0
  BY <1>1
<1>3. n - 1 \in Nat /\ ~(n <= n - 1) /\ n = (n - 1) + 1
  BY <1>2
<1>4. n - 1 \in G
  BY <1>1, <1>3
<1>. QED  BY <1>2, <1>3, <1>4

\* The elements of a concatenation.
LEMMA SetOfConcat ==
  ASSUME NEW E, NEW s \in Seq(E), NEW t \in Seq(E)
  PROVE  s \o t \in Seq(E) /\ ToSet(s \o t) = ToSet(s) \cup ToSet(t)
<1>1. /\ s \o t \in Seq(E) /\ Len(s \o t) = Len(s) + Len(t)
      /\ \A i \in 1..(Len(s) + Len(t)) : (s \o t)[i] = IF i <= Len(s) THEN s[i] ELSE t[i - Len(s)]
  OBVIOUS
<1>2. /\ DOMAIN s = 1..Len(s) /\ DOMAIN t = 1..Len(t)
      /\ DOMAIN (s \o t) = 1..(Len(s) + Len(t)) /\ Len(s) \in Nat /\ Len(t) \in Nat
  BY <1>1
<1>3. ASSUME NEW i \in 1..Len(t)
      PROVE  i + Len(s) \in 1..(Len(s) + Len(t)) /\ (s \o t)[i + Len(s)] = t[i]
  BY <1>1, <1>2
<1>4. ToSet(t) \subseteq ToSet(s \o t)
  BY <1>2, <1>3 DEF ToSet
<1>5. ToSet(s) \subseteq ToSet(s \o t)
  BY <1>1, <1>2 DEF ToSet
<1>6. ToSet(s \o t) \subseteq ToSet(s) \cup ToSet(t)
  BY <1>1, <1>2 DEF ToSet
<1>. QED  BY <1>1, <1>4, <1>5, <1>6

\* FlattenSeq puts sequences together, one after the other: its recursion is defined.
LEMMA FlattenUnfolds ==
  ASSUME NEW s, Len(s) \in Nat
  PROVE  \E h : /\ \A i \in 1..Len(s) : h[i] = IF i = 1 THEN s[i] ELSE h[i - 1] \o s[i]
                /\ Len(s) # 0 => FlattenSeq(s) = h[Len(s)]
<1>. DEFINE Upto(k, f) == f = [i \in 1..k |-> IF i = 1 THEN s[i] ELSE f[i - 1] \o s[i]]
            defined == {k \in Nat : \E f : Upto(k, f)}
            h == CHOOSE f : Upto(Len(s), f)
<1>1. Len(s) \in Nat
  OBVIOUS
<1>2. 0 \in defined
  <2>1. Upto(0, <<>>)
    OBVIOUS
  <2>. QED  BY <2>1
<1>3. ASSUME NEW k \in Nat, k \in defined
      PROVE  k + 1 \in defined
  <2>1. PICK f : Upto(k, f)
    BY <1>3
  <2>. DEFINE last == IF k = 0 THEN s[1] ELSE f[k] \o s[k + 1]
              g == [i \in 1..(k + 1) |-> IF i = k + 1 THEN last ELSE f[i]]
  <2>2. ASSUME NEW i \in 1..(k + 1)
        PROVE  g[i] = IF i = 1 THEN s[i] ELSE g[i - 1] \o s[i]
    <3>1. CASE i = k + 1
      <4>1. g[i] = last
        BY <3>1
      <4>2. i # 1 => g[i - 1] = f[k] /\ k # 0
        BY <3>1
      <4>. HIDE DEF g
      <4>. QED  BY <3>1, <4>1, <4>2
    <3>2. CASE i # k + 1
      <4>1. i \in 1..k /\ g[i] = f[i]
        BY <3>2
      <4>2. f[i] = IF i = 1 THEN s[i] ELSE f[i - 1] \o s[i]
        BY <4>1, <2>1
      <4>3. i # 1 => g[i - 1] = f[i - 1]
        BY <3>2
      <4>. HIDE DEF g
      <4>. QED  BY <4>1, <4>2, <4>3
    <3>. QED  BY <3>1, <3>2
  <2>3. g = [i \in 1..(k + 1) |-> g[i]]
    OBVIOUS
  <2>. HIDE DEF g
  <2>4. Upto(k + 1, g)
    BY <2>2, <2>3
  <2>. HIDE DEF Upto
  <2>. QED  BY <2>4
<1>4. Upto(Len(s), h)
  <2>. HIDE DEF defined
  <2>1. Len(s) \in defined
    BY <1>1, <1>2, <1>3, NatInduct
  <2>. QED  BY <2>1 DEF defined
<1>5. Len(s) # 0 => FlattenSeq(s) = h[Len(s)]
  BY DEF FlattenSeq
<1>. HIDE DEF h
<1>6. \A i \in 1..Len(s) : h[i] = IF i = 1 THEN s[i] ELSE h[i - 1] \o s[i]
  BY <1>4
<1>. QED  BY <1>5, <1>6

\* Its result has the elements of all of them.
LEMMA Flattened ==
  ASSUME NEW E, NEW s \in Seq(Seq(E))
  PROVE  /\ FlattenSeq(s) \in Seq(E)
         /\ ToSet(FlattenSeq(s)) = UNION {ToSet(s[b]) : b \in 1..Len(s)}
<1>1. Len(s) \in Nat /\ \A b \in 1..Len(s) : s[b] \in Seq(E)
  OBVIOUS
<1>2. PICK h : /\ \A i \in 1..Len(s) : h[i] = IF i = 1 THEN s[i] ELSE h[i - 1] \o s[i]
               /\ Len(s) # 0 => FlattenSeq(s) = h[Len(s)]
  BY <1>1, FlattenUnfolds
<1>. DEFINE holds == {k \in Nat : k \in 1..Len(s) =>
                        h[k] \in Seq(E) /\ ToSet(h[k]) = UNION {ToSet(s[b]) : b \in 1..k}}
<1>5. Len(s) # 0 => FlattenSeq(s) = h[Len(s)]
  BY <1>2
<1>6. \A i \in 1..Len(s) : h[i] = IF i = 1 THEN s[i] ELSE h[i - 1] \o s[i]
  BY <1>2
<1>7. 0 \in holds
  OBVIOUS
<1>8. ASSUME NEW k \in Nat, k \in holds
      PROVE  k + 1 \in holds
  <2>. SUFFICES ASSUME k + 1 \in 1..Len(s)
                PROVE  /\ h[k + 1] \in Seq(E)
                       /\ ToSet(h[k + 1]) = UNION {ToSet(s[b]) : b \in 1..(k + 1)}
    OBVIOUS
  <2>1. CASE k = 0
    <3>1. k + 1 = 1 /\ 1 \in 1..Len(s) /\ 1..1 = {1}
      BY <2>1
    <3>2. h[1] = s[1]
      BY <1>6, <3>1
    <3>. QED  BY <1>1, <3>1, <3>2
  <2>2. CASE k # 0
    <3>1. k \in 1..Len(s) /\ (k + 1) - 1 = k /\ k + 1 # 1
      BY <1>1, <2>2
    <3>2. h[k + 1] = h[k] \o s[k + 1]
      BY <1>6, <3>1
    <3>3. h[k] \in Seq(E) /\ ToSet(h[k]) = UNION {ToSet(s[b]) : b \in 1..k}
      BY <1>8, <3>1
    <3>4. /\ h[k + 1] \in Seq(E)
          /\ ToSet(h[k + 1]) = ToSet(h[k]) \cup ToSet(s[k + 1])
      BY <1>1, <3>2, <3>3, SetOfConcat
    <3>5. 1..(k + 1) = 1..k \cup {k + 1}
      OBVIOUS
    <3>. QED  BY <3>3, <3>4, <3>5
  <2>. QED  BY <2>1, <2>2
<1>9. Len(s) \in holds
  <2>. HIDE DEF holds
  <2>. QED  BY <1>1, <1>7, <1>8, NatInduct
<1>10. CASE Len(s) = 0
  <2>1. s = <<>> /\ FlattenSeq(s) = s
    BY <1>10 DEF FlattenSeq
  <2>2. DOMAIN s = {} /\ 1..Len(s) = {} /\ s \in Seq(E)
    BY <2>1
  <2>. QED  BY <2>1, <2>2 DEF ToSet
<1>11. CASE Len(s) # 0
  <2>1. Len(s) \in 1..Len(s)
    BY <1>1, <1>11
  <2>. QED  BY <1>5, <1>9, <1>11, <2>1
<1>. QED  BY <1>10, <1>11

\* x is the last element of s that is in P.
LastIs(s, P, x) ==
  \E i \in DOMAIN s : s[i] = x /\ x \in P /\ \A j \in DOMAIN s : j > i => s[j] \notin P

\* There is at most one.
LEMMA LastUnique ==
  ASSUME NEW E, NEW s \in Seq(E), NEW P, NEW x, NEW y, LastIs(s, P, x), LastIs(s, P, y)
  PROVE  x = y
<1>1. PICK i \in DOMAIN s : s[i] = x /\ x \in P /\ \A j \in DOMAIN s : j > i => s[j] \notin P
  BY DEF LastIs
<1>2. PICK k \in DOMAIN s : s[k] = y /\ y \in P /\ \A j \in DOMAIN s : j > k => s[j] \notin P
  BY DEF LastIs
<1>3. i \in Nat /\ k \in Nat
  OBVIOUS
<1>4. ~(i > k) /\ ~(k > i)
  BY <1>1, <1>2
<1>. QED  BY <1>1, <1>2, <1>3, <1>4

\* A set of numbers below a bound has a greatest one.
LEMMA GreatestIn ==
  ASSUME NEW n \in Nat, NEW T \in SUBSET (1..n), T # {}
  PROVE  \E m \in T : \A k \in T : m >= k
<1>. DEFINE above == {b \in Nat : \A k \in T : k <= b}
<1>1. n \in above
  OBVIOUS
<1>2. PICK m \in above : \A b \in above : m <= b
  <2>1. above \subseteq Nat /\ above # {}
    BY <1>1
  <2>. HIDE DEF above
  <2>. QED  BY <2>1, LeastNat
<1>3. m \in Nat /\ \A k \in T : k \in Nat /\ k <= m
  BY <1>2
<1>4. m \in T
  <2>. SUFFICES ASSUME m \notin T
                PROVE  FALSE
    OBVIOUS
  <2>1. \A k \in T : k <= m - 1 /\ m - 1 \in Nat
    BY <1>3
  <2>2. m - 1 \in above
    BY <2>1
  <2>. QED  BY <1>2, <1>3, <2>2
<1>. QED  BY <1>3, <1>4

\* If there is any in P, there is a last one.
LEMMA LastExists ==
  ASSUME NEW E, NEW s \in Seq(E), NEW P, ToSet(s) \cap P # {}
  PROVE  \E x : LastIs(s, P, x)
<1>. DEFINE T == {i \in 1..Len(s) : s[i] \in P}
<1>1. Len(s) \in Nat /\ DOMAIN s = 1..Len(s)
  OBVIOUS
<1>2. T \in SUBSET (1..Len(s)) /\ T # {}
  BY <1>1 DEF ToSet
<1>3. \A i : i \in T <=> i \in 1..Len(s) /\ s[i] \in P
  OBVIOUS
<1>. HIDE DEF T
<1>4. PICK m \in T : \A k \in T : m >= k
  BY <1>1, <1>2, GreatestIn
<1>5. ASSUME NEW j \in DOMAIN s, j > m
      PROVE  s[j] \notin P
  <2>1. j \in Nat /\ m \in Nat /\ j \in 1..Len(s)
    BY <1>1, <1>2
  <2>2. j \notin T
    BY <1>4, <1>5, <2>1
  <2>. QED  BY <1>3, <2>1, <2>2
<1>6. LastIs(s, P, s[m])
  BY <1>1, <1>3, <1>4, <1>5 DEF LastIs
<1>. QED  BY <1>6

\* The last element of a concatenation.
LEMMA LastOfConcat ==
  ASSUME NEW E, NEW s \in Seq(E), NEW t \in Seq(E), NEW P, NEW x
  PROVE  LastIs(s \o t, P, x)
           <=> \/ LastIs(t, P, x)
               \/ LastIs(s, P, x) /\ ToSet(t) \cap P = {}
<1>. DEFINE n == Len(s)
            m == Len(t)
            st == s \o t
<1>1. /\ n \in Nat /\ m \in Nat /\ DOMAIN s = 1..n /\ DOMAIN t = 1..m
      /\ DOMAIN st = 1..(n + m)
  OBVIOUS
<1>2. /\ \A i \in 1..n : st[i] = s[i]
      /\ \A i \in 1..m : st[n + i] = t[i]
  OBVIOUS
<1>. HIDE DEF n, m, st
<1>3. \A j \in 1..(n + m) : j \notin 1..n => j - n \in 1..m /\ st[j] = t[j - n]
  <2>1. \A j \in 1..(n + m) : j \notin 1..n => j - n \in 1..m /\ n + (j - n) = j
    BY <1>1
  <2>. QED  BY <1>2, <2>1
<1>4. ASSUME LastIs(t, P, x)
      PROVE  LastIs(st, P, x)
  <2>1. PICK i \in 1..m : t[i] = x /\ x \in P /\ \A j \in 1..m : j > i => t[j] \notin P
    BY <1>1, <1>4 DEF LastIs
  <2>2. n + i \in 1..(n + m) /\ st[n + i] = x
    BY <1>1, <1>2, <2>1
  <2>3. ASSUME NEW j \in 1..(n + m), j > n + i
        PROVE  st[j] \notin P
    <3>1. j \notin 1..n /\ j - n > i
      BY <1>1, <2>3
    <3>. QED  BY <1>3, <2>1, <3>1
  <2>. QED  BY <1>1, <2>1, <2>2, <2>3 DEF LastIs
<1>5. ASSUME LastIs(s, P, x), ToSet(t) \cap P = {}
      PROVE  LastIs(st, P, x)
  <2>1. PICK i \in 1..n : s[i] = x /\ x \in P /\ \A j \in 1..n : j > i => s[j] \notin P
    BY <1>1, <1>5 DEF LastIs
  <2>2. \A j \in 1..m : t[j] \notin P
    BY <1>1, <1>5 DEF ToSet
  <2>3. \A j \in 1..(n + m) : j > i => st[j] \notin P
    BY <1>2, <1>3, <2>1, <2>2
  <2>4. i \in 1..(n + m) /\ st[i] = x
    BY <1>1, <1>2, <2>1
  <2>. QED  BY <1>1, <2>1, <2>3, <2>4 DEF LastIs
<1>6. ASSUME LastIs(st, P, x)
      PROVE  LastIs(t, P, x) \/ (LastIs(s, P, x) /\ ToSet(t) \cap P = {})
  <2>1. PICK i \in 1..(n + m) : st[i] = x /\ x \in P /\ \A j \in 1..(n + m) : j > i => st[j] \notin P
    BY <1>1, <1>6 DEF LastIs
  <2>2. CASE i \in 1..n
    <3>1. ASSUME NEW j \in 1..m
          PROVE  t[j] \notin P
      <4>1. n + j \in 1..(n + m) /\ n + j > i
        BY <1>1, <2>2
      <4>. QED  BY <1>2, <2>1, <4>1
    <3>2. ToSet(t) \cap P = {}
      BY <1>1, <3>1 DEF ToSet
    <3>3. \A j \in 1..n : j \in 1..(n + m)
      BY <1>1
    <3>. QED  BY <1>1, <1>2, <2>1, <2>2, <3>2, <3>3 DEF LastIs
  <2>3. CASE i \notin 1..n
    <3>1. i - n \in 1..m /\ t[i - n] = x
      BY <1>3, <2>1, <2>3
    <3>2. ASSUME NEW j \in 1..m, j > i - n
          PROVE  t[j] \notin P
      <4>1. n + j \in 1..(n + m) /\ n + j > i
        BY <1>1, <3>2
      <4>. QED  BY <1>2, <2>1, <4>1
    <3>. QED  BY <1>1, <2>1, <3>1, <3>2 DEF LastIs
  <2>. QED  BY <2>2, <2>3
<1>. QED  BY <1>4, <1>5, <1>6 DEF st

\* The last element that FlattenSeq puts together.
LEMMA FlattenedLast ==
  ASSUME NEW E, NEW s \in Seq(Seq(E)), NEW P, NEW x
  PROVE  LastIs(FlattenSeq(s), P, x)
           <=> \E b \in 1..Len(s) :
                 /\ LastIs(s[b], P, x)
                 /\ \A c \in 1..Len(s) : c > b => ToSet(s[c]) \cap P = {}
<1>1. Len(s) \in Nat /\ \A b \in 1..Len(s) : s[b] \in Seq(E)
  OBVIOUS
<1>2. PICK h : /\ \A i \in 1..Len(s) : h[i] = IF i = 1 THEN s[i] ELSE h[i - 1] \o s[i]
               /\ Len(s) # 0 => FlattenSeq(s) = h[Len(s)]
  BY <1>1, FlattenUnfolds
<1>. DEFINE LastUpto(k) == \E b \in 1..k : /\ LastIs(s[b], P, x)
                                          /\ \A c \in 1..k : c > b => ToSet(s[c]) \cap P = {}
            holds == {k \in Nat : k \in 1..Len(s) =>
                        h[k] \in Seq(E) /\ (LastIs(h[k], P, x) <=> LastUpto(k))}
<1>3. 0 \in holds
  OBVIOUS
<1>4. ASSUME NEW k \in Nat, k \in holds
      PROVE  k + 1 \in holds
  <2>. SUFFICES ASSUME k + 1 \in 1..Len(s)
                PROVE  h[k + 1] \in Seq(E) /\ (LastIs(h[k + 1], P, x) <=> LastUpto(k + 1))
    OBVIOUS
  <2>1. CASE k = 0
    <3>1. k + 1 = 1 /\ 1 \in 1..Len(s) /\ 1..1 = {1}
      BY <2>1
    <3>2. h[1] = s[1]
      BY <1>2, <3>1
    <3>3. LastUpto(1) <=> LastIs(s[1], P, x)
      BY <3>1
    <3>. QED  BY <1>1, <3>1, <3>2, <3>3
  <2>2. CASE k # 0
    <3>1. k \in 1..Len(s) /\ (k + 1) - 1 = k /\ k + 1 # 1
      BY <1>1, <2>2
    <3>2. h[k + 1] = h[k] \o s[k + 1]
      BY <1>2, <3>1
    <3>3. h[k] \in Seq(E) /\ (LastIs(h[k], P, x) <=> LastUpto(k))
      BY <1>4, <3>1
    <3>4. /\ h[k + 1] \in Seq(E)
          /\ LastIs(h[k + 1], P, x)
               <=> \/ LastIs(s[k + 1], P, x)
                   \/ LastIs(h[k], P, x) /\ ToSet(s[k + 1]) \cap P = {}
      BY <1>1, <3>2, <3>3, SetOfConcat, LastOfConcat
    <3>5. LastUpto(k + 1) <=> \/ LastIs(s[k + 1], P, x)
                              \/ LastUpto(k) /\ ToSet(s[k + 1]) \cap P = {}
      <4>1. /\ 1..(k + 1) = 1..k \cup {k + 1} /\ \A b \in 1..k : ~(b > k + 1) /\ k + 1 > b
            /\ ~(k + 1 > k + 1)
        OBVIOUS
      <4>. QED  BY <4>1
    <3>. QED  BY <3>3, <3>4, <3>5
  <2>. QED  BY <2>1, <2>2
<1>5. Len(s) \in holds
  <2>. HIDE DEF holds
  <2>. QED  BY <1>1, <1>3, <1>4, NatInduct
<1>6. CASE Len(s) = 0
  <2>1. s = <<>> /\ FlattenSeq(s) = s
    BY <1>6 DEF FlattenSeq
  <2>2. DOMAIN s = {} /\ 1..Len(s) = {}
    BY <2>1
  <2>. QED  BY <2>1, <2>2 DEF LastIs
<1>7. CASE Len(s) # 0
  <2>1. Len(s) \in 1..Len(s)
    BY <1>1, <1>7
  <2>. QED  BY <1>2, <1>5, <1>7, <2>1
<1>. QED  BY <1>6, <1>7

\* The elements of s do not go back in time.
Ordered(s) == \A i, j \in DOMAIN s : i <= j => s[i].tx <= s[j].tx

\* Two ordered sequences make one, if the second begins no earlier than the first ends.
LEMMA OrderedConcat ==
  ASSUME NEW E, NEW s \in Seq(E), NEW t \in Seq(E), Ordered(s), Ordered(t),
         \A x \in ToSet(s), y \in ToSet(t) : x.tx <= y.tx
  PROVE  Ordered(s \o t)
<1>. DEFINE n == Len(s)
            m == Len(t)
            st == s \o t
<1>1. /\ n \in Nat /\ m \in Nat /\ DOMAIN s = 1..n /\ DOMAIN t = 1..m
      /\ DOMAIN st = 1..(n + m)
  OBVIOUS
<1>2. /\ \A i \in 1..n : st[i] = s[i]
      /\ \A i \in 1..m : st[n + i] = t[i]
  OBVIOUS
<1>. HIDE DEF n, m, st
<1>3. \A j \in 1..(n + m) : j \notin 1..n => j - n \in 1..m /\ st[j] = t[j - n]
  <2>1. \A j \in 1..(n + m) : j \notin 1..n => j - n \in 1..m /\ n + (j - n) = j
    BY <1>1
  <2>. QED  BY <1>2, <2>1
<1>4. SUFFICES ASSUME NEW i \in 1..(n + m), NEW j \in 1..(n + m), i <= j
               PROVE  st[i].tx <= st[j].tx
  BY <1>1 DEF Ordered, st
<1>5. CASE i \in 1..n /\ j \in 1..n
  BY <1>1, <1>2, <1>4, <1>5 DEF Ordered
<1>6. CASE i \in 1..n /\ j \notin 1..n
  <2>1. st[i] \in ToSet(s) /\ st[j] \in ToSet(t)
    BY <1>1, <1>2, <1>3, <1>6 DEF ToSet
  <2>. QED  BY <2>1
<1>7. CASE i \notin 1..n
  <2>1. j \notin 1..n /\ i - n <= j - n
    BY <1>1, <1>4, <1>7
  <2>. QED  BY <1>1, <1>3, <1>7, <2>1 DEF Ordered
<1>. QED  BY <1>5, <1>6, <1>7

\* FlattenSeq keeps the order of its parts.
LEMMA FlattenedOrdered ==
  ASSUME NEW E, NEW s \in Seq(Seq(E)),
         \A b, c \in 1..Len(s) : b <= c =>
           \A x \in ToSet(s[b]), y \in ToSet(s[c]) : x.tx <= y.tx
  PROVE  Ordered(FlattenSeq(s))
<1>1. Len(s) \in Nat /\ \A b \in 1..Len(s) : s[b] \in Seq(E)
  OBVIOUS
<1>2. PICK h : /\ \A i \in 1..Len(s) : h[i] = IF i = 1 THEN s[i] ELSE h[i - 1] \o s[i]
               /\ Len(s) # 0 => FlattenSeq(s) = h[Len(s)]
  BY <1>1, FlattenUnfolds
<1>3. \A b \in 1..Len(s) : Ordered(s[b])
  <2>1. ASSUME NEW b \in 1..Len(s), NEW i \in DOMAIN s[b], NEW j \in DOMAIN s[b]
        PROVE  s[b][i].tx <= s[b][j].tx
    <3>1. s[b][i] \in ToSet(s[b]) /\ s[b][j] \in ToSet(s[b]) /\ b <= b
      BY <1>1 DEF ToSet
    <3>. QED  BY <3>1
  <2>. QED  BY <2>1 DEF Ordered
<1>. DEFINE holds == {k \in Nat : k \in 1..Len(s) =>
                        /\ h[k] \in Seq(E) /\ Ordered(h[k])
                        /\ ToSet(h[k]) = UNION {ToSet(s[b]) : b \in 1..k}}
<1>4. 0 \in holds
  OBVIOUS
<1>5. ASSUME NEW k \in Nat, k \in holds
      PROVE  k + 1 \in holds
  <2>. SUFFICES ASSUME k + 1 \in 1..Len(s)
                PROVE  /\ h[k + 1] \in Seq(E) /\ Ordered(h[k + 1])
                       /\ ToSet(h[k + 1]) = UNION {ToSet(s[b]) : b \in 1..(k + 1)}
    OBVIOUS
  <2>1. CASE k = 0
    <3>1. k + 1 = 1 /\ 1 \in 1..Len(s) /\ 1..1 = {1}
      BY <2>1
    <3>2. h[1] = s[1]
      BY <1>2, <3>1
    <3>. QED  BY <1>1, <1>3, <3>1, <3>2
  <2>2. CASE k # 0
    <3>1. k \in 1..Len(s) /\ (k + 1) - 1 = k /\ k + 1 # 1
      BY <1>1, <2>2
    <3>2. h[k + 1] = h[k] \o s[k + 1]
      BY <1>2, <3>1
    <3>3. h[k] \in Seq(E) /\ Ordered(h[k]) /\ ToSet(h[k]) = UNION {ToSet(s[b]) : b \in 1..k}
      BY <1>5, <3>1
    <3>4. \A b \in 1..k : b \in 1..Len(s) /\ b <= k + 1
      BY <1>1, <3>1
    <3>5. \A x \in ToSet(h[k]), y \in ToSet(s[k + 1]) : x.tx <= y.tx
      BY <3>3, <3>4
    <3>6. /\ h[k + 1] \in Seq(E) /\ Ordered(h[k + 1])
          /\ ToSet(h[k + 1]) = ToSet(h[k]) \cup ToSet(s[k + 1])
      <4>1. s[k + 1] \in Seq(E) /\ Ordered(s[k + 1])
        BY <1>1, <1>3
      <4>2. Ordered(h[k] \o s[k + 1])
        BY <3>3, <3>5, <4>1, OrderedConcat
      <4>3. /\ h[k] \o s[k + 1] \in Seq(E)
            /\ ToSet(h[k] \o s[k + 1]) = ToSet(h[k]) \cup ToSet(s[k + 1])
        BY <3>3, <4>1, SetOfConcat
      <4>. QED  BY <3>2, <4>2, <4>3
    <3>7. 1..(k + 1) = 1..k \cup {k + 1}
      OBVIOUS
    <3>. QED  BY <3>3, <3>6, <3>7
  <2>. QED  BY <2>1, <2>2
<1>6. Len(s) \in holds
  <2>. HIDE DEF holds
  <2>. QED  BY <1>1, <1>4, <1>5, NatInduct
<1>7. CASE Len(s) = 0
  <2>1. s = <<>> /\ FlattenSeq(s) = s
    BY <1>7 DEF FlattenSeq
  <2>. QED  BY <2>1 DEF Ordered
<1>8. CASE Len(s) # 0
  <2>1. Len(s) \in 1..Len(s)
    BY <1>1, <1>8
  <2>. QED  BY <1>2, <1>6, <1>8, <2>1
<1>. QED  BY <1>7, <1>8

\* The elements of a sequence are finitely many.
LEMMA FiniteToSet ==
  ASSUME NEW E, NEW s \in Seq(E)
  PROVE  IsFiniteSet(ToSet(s)) /\ ToSet(s) \subseteq E
<1>1. s \in [1..Len(s) -> ToSet(s)] /\ ToSet(s) \subseteq E /\ Len(s) \in Nat
  BY DEF ToSet
<1>2. \A e \in ToSet(s) : \E i \in 1..Len(s) : s[i] = e
  BY DEF ToSet
<1>3. s \in Surjection(1..Len(s), ToSet(s))
  BY <1>1, <1>2 DEF Surjection
<1>. QED  BY <1>1, <1>3, FS_Surjection, FS_Interval

\* A sequence without its first element.
LEMMA TailOf ==
  ASSUME NEW E, NEW s \in Seq(E), s # <<>>
  PROVE  /\ Tail(s) \in Seq(E)
         /\ Len(s) # 1 => Tail(s) # <<>>
         /\ Len(s) = 1 => Tail(s) = <<>>
<1>1. Len(s) \in Nat /\ Len(s) # 0
  OBVIOUS
<1>2. Tail(s) \in Seq(E)
  OBVIOUS
<1>3. Len(Tail(s)) = Len(s) - 1
  OBVIOUS
<1>. DEFINE others == Tail(s)
<1>4. Len(s) # 1 <=> Len(others) # 0
  BY <1>1, <1>3
<1>. HIDE DEF others
<1>5. others \in Seq(E) => (others = <<>> <=> Len(others) = 0)
  OBVIOUS
<1>6. others \in Seq(E)
  BY <1>2 DEF others
<1>7. Len(s) # 1 <=> others # <<>>
  BY <1>4, <1>5, <1>6
<1>. QED  BY <1>2, <1>7, Zenon DEF others

LEMMA HeadAndTail ==
  ASSUME NEW E, NEW s \in Seq(E), s # <<>>
  PROVE  ToSet(s) = {Head(s)} \cup ToSet(Tail(s))
<1>. DEFINE n == Len(s)
            t == Tail(s)
<1>1. /\ n \in Nat /\ n >= 1 /\ DOMAIN s = 1..n /\ Head(s) = s[1]
      /\ DOMAIN t = 1..(n - 1) /\ \A i \in 1..(n - 1) : t[i] = s[i + 1]
  OBVIOUS
<1>. HIDE DEF n, t
<1>2. ASSUME NEW x \in ToSet(s)
      PROVE  x \in {Head(s)} \cup ToSet(t)
  <2>1. PICK j \in 1..n : x = s[j]
    BY <1>1, <1>2 DEF ToSet
  <2>2. j = 1 \/ (j - 1 \in 1..(n - 1) /\ (j - 1) + 1 = j)
    BY <1>1
  <2>. QED  BY <1>1, <2>1, <2>2 DEF ToSet
<1>3. ASSUME NEW x \in ToSet(t)
      PROVE  x \in ToSet(s)
  <2>1. PICK i \in 1..(n - 1) : x = t[i]
    BY <1>1, <1>3 DEF ToSet
  <2>2. x = s[i + 1] /\ i + 1 \in 1..n
    BY <1>1, <2>1
  <2>. QED  BY <1>1, <2>2 DEF ToSet
<1>4. Head(s) \in ToSet(s)
  BY <1>1 DEF ToSet
<1>. QED  BY <1>2, <1>3, <1>4 DEF t
\* The first element of an ordered sequence is the earliest, and the others are in order.
LEMMA TailOrdered ==
  ASSUME NEW E, NEW s \in Seq(E), s # <<>>, Ordered(s)
  PROVE  Ordered(Tail(s)) /\ \A x \in ToSet(s) : Head(s).tx <= x.tx
<1>. DEFINE n == Len(s)
            t == Tail(s)
<1>1. /\ n \in Nat /\ n >= 1 /\ DOMAIN s = 1..n /\ Head(s) = s[1]
      /\ DOMAIN t = 1..(n - 1) /\ \A i \in 1..(n - 1) : t[i] = s[i + 1]
  OBVIOUS
<1>. HIDE DEF n, t
<1>2. \A i, j \in 1..(n - 1) : i <= j => i + 1 \in 1..n /\ j + 1 \in 1..n /\ i + 1 <= j + 1
  BY <1>1
<1>3. Ordered(t)
  BY <1>1, <1>2 DEF Ordered
<1>4. \A j \in 1..n : 1 \in 1..n /\ 1 <= j
  BY <1>1
<1>5. \A x \in ToSet(s) : Head(s).tx <= x.tx
  BY <1>1, <1>4 DEF Ordered, ToSet
<1>. QED  BY <1>3, <1>5 DEF t
----------------------------------------------------------------------------
(* Sums *)

\* The element a fold takes next, and what it leaves.
pick(s) == CHOOSE x \in s : TRUE
rest(s) == s \ {pick(s)}

\* Removing an element leaves a smaller set.
LEMMA OneLess ==
  ASSUME NEW s, IsFiniteSet(s), NEW x \in s
  PROVE  /\ IsFiniteSet(s \ {x}) /\ Cardinality(s) \in Nat /\ Cardinality(s) # 0
         /\ Cardinality(s \ {x}) = Cardinality(s) - 1
<1>1. Cardinality(s) \in Nat /\ (Cardinality(s) = 0 <=> s = {})
  BY FS_CardinalityType, FS_EmptySet
<1>2. IsFiniteSet(s \ {x}) /\ Cardinality(s \ {x}) = Cardinality(s) - 1
  BY FS_RemoveElement
<1>. QED  BY <1>1, <1>2

\* The element taken next is one of the set's.
LEMMA PickIn ==
  ASSUME NEW s, s # {}
  PROVE  pick(s) \in s
BY DEF pick

\* Induction over the subsets of a finite set, for a set instead of an operator.
LEMMA SubsetInduct ==
  ASSUME NEW S, IsFiniteSet(S), NEW G,
         \A s \in SUBSET S : (\A x \in s : s \ {x} \in G) => s \in G
  PROVE  \A s \in SUBSET S : s \in G
<1>. DEFINE sized == {k \in Nat : \A s \in SUBSET S : Cardinality(s) = k => s \in G}
<1>1. \A s \in SUBSET S : IsFiniteSet(s) /\ Cardinality(s) \in Nat
  BY FS_Subset, FS_CardinalityType
<1>2. 0 \in sized
  <2>1. \A s \in SUBSET S : Cardinality(s) = 0 => s = {}
    BY <1>1, FS_EmptySet
  <2>2. {} \in G
    OBVIOUS
  <2>. QED  BY <2>1, <2>2
<1>3. ASSUME NEW k \in Nat, k \in sized
      PROVE  k + 1 \in sized
  <2>. SUFFICES ASSUME NEW s \in SUBSET S, Cardinality(s) = k + 1
                PROVE  s \in G
    OBVIOUS
  <2>1. ASSUME NEW x \in s
        PROVE  s \ {x} \in G
    <3>1. Cardinality(s \ {x}) = Cardinality(s) - 1
      BY <1>1, OneLess
    <3>2. Cardinality(s \ {x}) = k
      BY <3>1
    <3>. QED  BY <1>3, <3>2
  <2>. QED  BY <2>1
<1>. HIDE DEF sized
<1>4. \A k \in Nat : k \in sized
  BY <1>2, <1>3, NatInduct
<1>. QED  BY <1>1, <1>4 DEF sized

\* The recursion behind a sum, over the subsets in D.
AddsOn(g, f, D) == g = [s \in D |-> IF s = {} THEN 0 ELSE f[pick(s)] + g[rest(s)]]

Adds(g, f, S) == AddsOn(g, f, SUBSET S)

\* It is defined for every finite set.
LEMMA AddsDefined ==
  ASSUME NEW f, NEW S, IsFiniteSet(S)
  PROVE  \E g : Adds(g, f, S)
<1>. DEFINE D(k) == {s \in SUBSET S : Cardinality(s) <= k}
            defined == {k \in Nat : \E g : AddsOn(g, f, D(k))}
<1>1. \A s \in SUBSET S : IsFiniteSet(s) /\ Cardinality(s) \in Nat
  BY FS_Subset, FS_CardinalityType
<1>2. 0 \in defined
  <2>1. D(0) = {{}}
    BY <1>1, FS_EmptySet
  <2>. DEFINE g == [s \in {{}} |-> 0]
  <2>2. AddsOn(g, f, {{}})
    BY DEF AddsOn
  <2>. HIDE DEF g
  <2>. QED  BY <2>1, <2>2
<1>3. ASSUME NEW k \in Nat, k \in defined
      PROVE  k + 1 \in defined
  <2>1. PICK h : AddsOn(h, f, D(k))
    BY <1>3
  <2>. DEFINE g == [s \in D(k + 1) |-> IF s = {} THEN 0 ELSE f[pick(s)] + h[rest(s)]]
  <2>2. \A s \in D(k) : h[s] = IF s = {} THEN 0 ELSE f[pick(s)] + h[rest(s)]
    BY <2>1 DEF AddsOn
  <2>3. \A s \in D(k) : s \in D(k + 1) /\ g[s] = h[s]
    BY <1>1, <2>2
  <2>4. ASSUME NEW s \in D(k + 1), s # {}
        PROVE  rest(s) \in D(k)
    <3>1. pick(s) \in s
      BY <2>4, PickIn
    <3>2. Cardinality(rest(s)) = Cardinality(s) - 1 /\ Cardinality(s) \in Nat
      BY <1>1, <3>1, OneLess DEF rest
    <3>. QED  BY <3>2 DEF rest
  <2>5. \A s \in D(k + 1) : g[s] = IF s = {} THEN 0 ELSE f[pick(s)] + g[rest(s)]
    <3>1. \A s \in D(k + 1) : s # {} => g[rest(s)] = h[rest(s)]
      BY <2>3, <2>4
    <3>2. \A s \in D(k + 1) : g[s] = IF s = {} THEN 0 ELSE f[pick(s)] + h[rest(s)]
      OBVIOUS
    <3>. HIDE DEF g, D
    <3>. QED  BY <3>1, <3>2
  <2>6. g = [s \in D(k + 1) |-> g[s]]
    OBVIOUS
  <2>. HIDE DEF g, D
  <2>7. AddsOn(g, f, D(k + 1))
    BY <2>5, <2>6 DEF AddsOn
  <2>. QED  BY <2>7
<1>4. Cardinality(S) \in defined
  <2>. HIDE DEF defined
  <2>. QED  BY <1>1, <1>2, <1>3, NatInduct
<1>5. D(Cardinality(S)) = SUBSET S
  BY <1>1, FS_Subset
<1>. HIDE DEF D
<1>6. \E g : AddsOn(g, f, SUBSET S)
  BY <1>4, <1>5
<1>. QED  BY <1>6 DEF Adds

\* Two such functions agree where both are defined.
LEMMA AddsAgree ==
  ASSUME NEW S, IsFiniteSet(S), NEW T \in SUBSET S, NEW f, NEW e, \A x \in T : f[x] = e[x],
         NEW g, Adds(g, f, S), NEW h, Adds(h, e, T)
  PROVE  g[T] = h[T]
<1>. DEFINE G == {s \in SUBSET T : g[s] = h[s]}
<1>1. /\ \A s \in SUBSET S : g[s] = IF s = {} THEN 0 ELSE f[pick(s)] + g[rest(s)]
      /\ \A s \in SUBSET T : h[s] = IF s = {} THEN 0 ELSE e[pick(s)] + h[rest(s)]
  BY DEF Adds, AddsOn
<1>2. ASSUME NEW s \in SUBSET T, \A x \in s : s \ {x} \in G
      PROVE  s \in G
  <2>1. CASE s = {}
    BY <1>1, <2>1
  <2>2. CASE s # {}
    <3>1. pick(s) \in s /\ pick(s) \in T
      BY <2>2, PickIn
    <3>2. rest(s) \in G
      BY <1>2, <3>1 DEF rest
    <3>3. g[rest(s)] = h[rest(s)] /\ f[pick(s)] = e[pick(s)]
      BY <3>1, <3>2
    <3>4. g[s] = f[pick(s)] + g[rest(s)] /\ h[s] = e[pick(s)] + h[rest(s)]
      BY <1>1, <2>2
    <3>. QED  BY <3>3, <3>4
  <2>. QED  BY <2>1, <2>2
<1>3. IsFiniteSet(T)
  BY FS_Subset
<1>4. T \in G
  <2>. HIDE DEF G
  <2>. QED  BY <1>2, <1>3, SubsetInduct
<1>. QED  BY <1>4

\* A sum is the function of the recursion, at the whole set.
LEMMA SumIsAdds ==
  ASSUME NEW f, NEW S, IsFiniteSet(S)
  PROVE  \E g : Adds(g, f, S) /\ SumFunctionOnSet(f, S) = g[S]
<1>. DEFINE g == CHOOSE h : Adds(h, f, S)
<1>1. SumFunctionOnSet(f, S) =
        (CHOOSE h : h = [s \in SUBSET S |->
                           IF s = {} THEN 0
                           ELSE f[CHOOSE x \in s : TRUE] + h[s \ {CHOOSE x \in s : TRUE}]])[S]
  BY DEF SumFunctionOnSet, FoldFunctionOnSet, MapThenFoldSet
<1>2. Adds(g, f, S)
  BY AddsDefined
<1>3. SumFunctionOnSet(f, S) = g[S]
  BY <1>1 DEF Adds, AddsOn, pick, rest
<1>. HIDE DEF g
<1>. QED  BY <1>2, <1>3

\* The sum over nothing, over the same numbers, and without the element taken first.
LEMMA SumUnfolds ==
  ASSUME NEW f, NEW S, IsFiniteSet(S)
  PROVE  /\ SumFunctionOnSet(f, {}) = 0
         /\ S # {} => SumFunctionOnSet(f, S) = f[pick(S)] + SumFunctionOnSet(f, rest(S))
<1>1. PICK g : Adds(g, f, S) /\ SumFunctionOnSet(f, S) = g[S]
  BY SumIsAdds
<1>2. \A s \in SUBSET S : g[s] = IF s = {} THEN 0 ELSE f[pick(s)] + g[rest(s)]
  BY <1>1 DEF Adds, AddsOn
<1>3. \A T \in SUBSET S : SumFunctionOnSet(f, T) = g[T]
  <2>1. ASSUME NEW T \in SUBSET S
        PROVE  SumFunctionOnSet(f, T) = g[T]
    <3>1. IsFiniteSet(T)
      BY FS_Subset
    <3>2. PICK h : Adds(h, f, T) /\ SumFunctionOnSet(f, T) = h[T]
      BY <3>1, SumIsAdds
    <3>3. g[T] = h[T]
      BY <1>1, <3>2, AddsAgree
    <3>. QED  BY <3>2, <3>3
  <2>. QED  BY <2>1
<1>4. rest(S) \in SUBSET S /\ {} \in SUBSET S /\ S \in SUBSET S
  BY DEF rest
<1>. QED  BY <1>2, <1>3, <1>4

\* Sums of functions that agree on the set are equal.
LEMMA SumOfSame ==
  ASSUME NEW S, IsFiniteSet(S), NEW f, NEW e, \A x \in S : f[x] = e[x]
  PROVE  SumFunctionOnSet(f, S) = SumFunctionOnSet(e, S)
<1>1. PICK g : Adds(g, f, S) /\ SumFunctionOnSet(f, S) = g[S]
  BY SumIsAdds
<1>2. PICK h : Adds(h, e, S) /\ SumFunctionOnSet(e, S) = h[S]
  BY SumIsAdds
<1>3. g[S] = h[S]
  <2>1. S \in SUBSET S
    OBVIOUS
  <2>. QED  BY <1>1, <1>2, <2>1, AddsAgree
<1>. QED  BY <1>1, <1>2, <1>3

\* Any element may be taken out of a sum of natural numbers.
LEMMA SumWithout ==
  ASSUME NEW S, IsFiniteSet(S), NEW f, \A x \in S : f[x] \in Nat
  PROVE  /\ SumFunctionOnSet(f, S) \in Nat
         /\ \A x \in S : SumFunctionOnSet(f, S) = f[x] + SumFunctionOnSet(f, S \ {x})
<1>. DEFINE Sum(s) == SumFunctionOnSet(f, s)
            natural == {s \in SUBSET S : Sum(s) \in Nat}
            G == {s \in SUBSET S : \A x \in s : Sum(s) = f[x] + Sum(s \ {x})}
<1>1. \A s \in SUBSET S : s # {} => pick(s) \in s /\ Sum(s) = f[pick(s)] + Sum(s \ {pick(s)})
  <2>1. ASSUME NEW s \in SUBSET S, s # {}
        PROVE  pick(s) \in s /\ Sum(s) = f[pick(s)] + Sum(s \ {pick(s)})
    <3>1. IsFiniteSet(s)
      BY FS_Subset
    <3>. QED  BY <2>1, <3>1, PickIn, SumUnfolds DEF rest
  <2>. QED  BY <2>1
<1>2. Sum({}) = 0
  BY SumUnfolds
<1>. HIDE DEF Sum
<1>3. ASSUME NEW s \in SUBSET S
      PROVE  Sum(s) \in Nat
  <2>1. ASSUME NEW t \in SUBSET S, \A x \in t : t \ {x} \in natural
        PROVE  t \in natural
    <3>1. CASE t = {}
      BY <1>2, <3>1
    <3>2. CASE t # {}
      <4>. DEFINE p == pick(t)
      <4>1. p \in t /\ Sum(t) = f[p] + Sum(t \ {p}) /\ f[p] \in Nat
        BY <1>1, <3>2
      <4>. HIDE DEF p
      <4>2. Sum(t \ {p}) \in Nat
        BY <2>1, <4>1
      <4>. QED  BY <4>1, <4>2
    <3>. QED  BY <3>1, <3>2
  <2>. HIDE DEF natural
  <2>2. \A t \in SUBSET S : t \in natural
    BY <2>1, SubsetInduct
  <2>. QED  BY <2>2 DEF natural
<1>4. ASSUME NEW s \in SUBSET S, \A x \in s : s \ {x} \in G
      PROVE  s \in G
  <2>1. CASE s = {}
    BY <1>2, <2>1
  <2>2. CASE s # {}
    <3>. DEFINE p == pick(s)
    <3>1. p \in s /\ Sum(s) = f[p] + Sum(s \ {p}) /\ f[p] \in Nat
      BY <1>1, <2>2
    <3>. HIDE DEF p
    <3>2. ASSUME NEW x \in s, x # p
          PROVE  Sum(s) = f[x] + Sum(s \ {x})
      <4>. DEFINE both == (s \ {p}) \ {x}
      <4>1. both = (s \ {x}) \ {p}
        OBVIOUS
      <4>2. s \ {p} \in G /\ s \ {x} \in G
        BY <1>4, <3>1
      <4>3. x \in s \ {p} /\ p \in s \ {x}
        BY <3>1, <3>2
      <4>4. Sum(s \ {p}) = f[x] + Sum(both)
        BY <4>2, <4>3
      <4>5. Sum(s \ {x}) = f[p] + Sum(both)
        BY <4>1, <4>2, <4>3
      <4>6. f[x] \in Nat /\ f[p] \in Nat /\ Sum(both) \in Nat
        BY <1>3, <3>1
      <4>. HIDE DEF both
      <4>. QED  BY <3>1, <4>4, <4>5, <4>6
    <3>. QED  BY <3>1, <3>2
  <2>. QED  BY <2>1, <2>2
<1>5. S \in G
  <2>. HIDE DEF G
  <2>1. \A s \in SUBSET S : s \in G
    BY <1>4, SubsetInduct
  <2>. QED  BY <2>1
<1>. QED  BY <1>3, <1>5 DEF Sum

\* Changing one term changes the sum by as much.
LEMMA SumChangedAt ==
  ASSUME NEW S, IsFiniteSet(S), NEW f, NEW e, \A y \in S : f[y] \in Nat /\ e[y] \in Nat,
         NEW x \in S, \A y \in S \ {x} : f[y] = e[y]
  PROVE  SumFunctionOnSet(f, S) + e[x] = SumFunctionOnSet(e, S) + f[x]
<1>. DEFINE others == S \ {x}
            F == SumFunctionOnSet(f, others)
            E == SumFunctionOnSet(e, others)
<1>1. IsFiniteSet(others) /\ others \subseteq S
  BY FS_Subset
<1>2. F = E
  BY <1>1, SumOfSame
<1>3. F \in Nat /\ E \in Nat
  BY <1>1, SumWithout
<1>4. SumFunctionOnSet(f, S) = f[x] + F
  BY SumWithout
<1>5. SumFunctionOnSet(e, S) = e[x] + E
  BY SumWithout
<1>6. f[x] \in Nat /\ e[x] \in Nat
  OBVIOUS
<1>. HIDE DEF F, E
<1>. QED  BY <1>2, <1>3, <1>4, <1>5, <1>6
=============================================================================
