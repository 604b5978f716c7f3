---------------------------- MODULE DevicesProofs ----------------------------
(***************************************************************************)
(* The theorems about Devices: the module stays whole, the view finds what *)
(* it shows, and edits take only what was asked for.                       *)
(*                                                                         *)
(* First what the operators of the model do with sequences, with the       *)
(* connections of a container and with what they reach; then each edit of  *)
(* the data (DeviceEdit) makes a whole module of a whole one; then the     *)
(* inductive invariant IInv, and one lemma for each input, which shows     *)
(* that the invariant stays and that nothing else is lost (Advances).      *)
(***************************************************************************)
EXTENDS Devices, WellFoundedInduction, FiniteSetTheorems, TLAPS

-----------------------------------------------------------------------------
\* Numbers and sequences.

\* A set of numbers has a least one.
LEMMA LeastIs == ASSUME NEW T, T \subseteq Nat, T # {} PROVE \E n \in T : \A m \in T : n <= m
<1>1. PICK n \in T : \A m \in T : ~(<<m, n>> \in OpToRel(<, Nat))  BY NatLessThanWellFounded, WFMin
<1>2. \A m \in T : n <= m
  <2> SUFFICES ASSUME NEW m \in T PROVE n <= m  OBVIOUS
  <2>1. m \in Nat /\ n \in Nat  OBVIOUS
  <2>2. ~(m < n)  BY <2>1, <1>1 DEF OpToRel
  <2> QED  BY <2>1, <2>2
<1> QED  BY <1>2

\* Induction up to a bound, for a set of numbers.
LEMMA UpTo ==
    ASSUME NEW N \in Nat, NEW T, 0 \in T, \A m \in 1..N : m - 1 \in T => m \in T
    PROVE  0..N \subseteq T
<1> DEFINE Bad == (0..N) \ T
<1> SUFFICES ASSUME Bad # {} PROVE FALSE  OBVIOUS
<1>1. PICK n \in Bad : \A m \in Bad : n <= m
  <2>1. Bad \subseteq Nat  OBVIOUS
  <2> QED  BY <2>1, LeastIs
<1> QED  BY <1>1

\* A function that each of its values up to N gives the next of: what the
\* recursive functions of the model are.
Unfolds(f, N, a, G) == f = [m \in 0..N |-> IF m = 0 THEN a ELSE G[m][f[m - 1]]]

LEMMA UnfoldingExists == ASSUME NEW N \in Nat, NEW a, NEW G PROVE \E f : Unfolds(f, N, a, G)
<1> DEFINE T == {n \in 0..N : \E f : Unfolds(f, n, a, G)}
<1>1. 0 \in T
  <2>1. Unfolds([m \in 0..0 |-> a], 0, a, G)  BY DEF Unfolds
  <2> QED  BY <2>1
<1>2. ASSUME NEW n \in 1..N, n - 1 \in T PROVE n \in T
  <2>1. PICK f : Unfolds(f, n - 1, a, G)  BY <1>2
  <2> DEFINE g == [m \in 0..n |-> IF m = n THEN G[n][f[n - 1]] ELSE f[m]]
  <2>2. \A m \in 0..n : g[m] = IF m = 0 THEN a ELSE G[m][g[m - 1]]
    <3> SUFFICES ASSUME NEW m \in 0..n PROVE g[m] = IF m = 0 THEN a ELSE G[m][g[m - 1]]  OBVIOUS
    <3>1. CASE m = n  BY <3>1
    <3>2. CASE m # n
      <4>1. m \in 0..(n - 1) /\ (m # 0 => m - 1 \in 0..n /\ m - 1 # n)  BY <3>2
      <4>2. g[m] = f[m] /\ (m # 0 => g[m - 1] = f[m - 1])  BY <3>2, <4>1
      <4> HIDE DEF g
      <4> QED  BY <4>2, <2>1, <4>1 DEF Unfolds
    <3> QED  BY <3>1, <3>2
  <2>3. Unfolds(g, n, a, G)  BY <2>2 DEF Unfolds
  <2> QED  BY <2>3
<1> HIDE DEF T
<1>3. 0..N \subseteq T  BY <1>1, <1>2, UpTo
<1> QED  BY <1>3 DEF T

LEMMA UnfoldedIs ==
    ASSUME NEW N \in Nat, NEW a, NEW G, NEW f, Unfolds(f, N, a, G)
    PROVE  f[0] = a /\ \A n \in 1..N : f[n] = G[n][f[n - 1]]
BY DEF Unfolds

\* What a sequence keeps: nothing twice that it did not have twice.
Distinct(s) == \A i \in DOMAIN s : \A j \in DOMAIN s \ {i} : s[i] # s[j]

\* The elements of a sequence that are in a set.
LEMMA KeepingIs ==
    ASSUME NEW X, NEW s \in Seq(X), NEW S
    PROVE  /\ Keeping(s, S) \in Seq(X) /\ ToSet(Keeping(s, S)) = ToSet(s) \intersect S
           /\ Distinct(s) => Distinct(Keeping(s, S))
<1> DEFINE G == [m \in 1..Len(s) |-> [x \in Seq(X) |-> IF s[m] \in S THEN Append(x, s[m]) ELSE x]]
           K(f) == f = [n \in 0..Len(s) |->
                          IF n = 0 THEN <<>> ELSE IF s[n] \in S THEN Append(f[n - 1], s[n]) ELSE f[n - 1]]
           f == CHOOSE f : K(f)
<1>1. Len(s) \in Nat /\ DOMAIN s = 1..Len(s) /\ \A n \in 1..Len(s) : s[n] \in X  OBVIOUS
<1>2. \E g : K(g)
  <2>1. PICK g : Unfolds(g, Len(s), <<>>, G)  BY <1>1, UnfoldingExists
  <2> DEFINE T == {n \in 0..Len(s) : g[n] \in Seq(X)}
  <2>2. g[0] = <<>> /\ \A n \in 1..Len(s) : g[n] = G[n][g[n - 1]]
    <3> HIDE DEF G
    <3> QED  BY <2>1, <1>1, UnfoldedIs
  <2>3. 0 \in T
    <3>1. <<>> \in Seq(X) /\ 0 \in 0..Len(s)  BY <1>1
    <3> QED  BY <2>2, <1>1, <3>1
  <2>4. ASSUME NEW n \in 1..Len(s), n - 1 \in T PROVE n \in T
    <3>1. g[n - 1] \in Seq(X) /\ s[n] \in X /\ n \in 0..Len(s)  BY <2>4, <1>1
    <3>2. Append(g[n - 1], s[n]) \in Seq(X)  BY <3>1
    <3>3. g[n] = IF s[n] \in S THEN Append(g[n - 1], s[n]) ELSE g[n - 1]  BY <2>2, <3>1
    <3> QED  BY <3>1, <3>2, <3>3
  <2> HIDE DEF T, G
  <2>5. 0..Len(s) \subseteq T  BY <2>3, <2>4, <1>1, UpTo
  <2>6. \A n \in 1..Len(s) : n - 1 \in 0..Len(s)  BY <1>1
  <2>7. \A n \in 1..Len(s) : g[n] = IF s[n] \in S THEN Append(g[n - 1], s[n]) ELSE g[n - 1]
    BY <2>2, <2>5, <2>6 DEF T, G
  <2>8. \A n \in 0..Len(s) : g[n] = IF n = 0 THEN <<>> ELSE IF s[n] \in S THEN Append(g[n - 1], s[n]) ELSE g[n - 1]
    BY <2>2, <2>7, <1>1
  <2>9. g = [n \in 0..Len(s) |-> g[n]]  BY <2>1 DEF Unfolds
  <2> QED  BY <2>8, <2>9
<1>3. K(f)  BY <1>2
<1>4. Keeping(s, S) = f[Len(s)]  BY DEF Keeping
<1> HIDE DEF f
<1>5. 0 \in 0..Len(s) /\ \A n \in 1..Len(s) : n \in 0..Len(s) /\ n # 0  BY <1>1
<1>6. f[0] = <<>> /\ \A n \in 1..Len(s) : f[n] = IF s[n] \in S THEN Append(f[n - 1], s[n]) ELSE f[n - 1]
  BY <1>5, <1>3
<1> DEFINE Good(n) == /\ f[n] \in Seq(X)
                      /\ \A x : x \in ToSet(f[n]) <=> x \in S /\ \E i \in 1..n : s[i] = x
                      /\ Distinct(s) => Distinct(f[n])
           T == {n \in 0..Len(s) : Good(n)}
<1>7. 0 \in T
  <2>1. <<>> \in Seq(X) /\ ToSet(<<>>) = {} /\ Distinct(<<>>)  BY DEF ToSet, Distinct
  <2>2. ~ \E i \in 1..0 : s[i] = s[i]  OBVIOUS
  <2>3. Good(0)  BY <1>6, <2>1, <2>2
  <2> QED  BY <2>3, <1>5
<1>8. ASSUME NEW n \in 1..Len(s), n - 1 \in T PROVE n \in T
  <2> DEFINE k == f[n - 1]
  <2>1. Good(n - 1) /\ n \in Nat /\ n - 1 \in 0..Len(s)  BY <1>8, <1>1
  <2>2. k \in Seq(X) /\ Len(k) \in Nat /\ DOMAIN k = 1..Len(k)  BY <2>1
  <2>3. ASSUME NEW x PROVE x \in ToSet(k) <=> x \in S /\ \E i \in 1..(n - 1) : s[i] = x  BY <2>1
  <2>4. Distinct(s) => Distinct(k)  BY <2>1
  <2>5. f[n] = IF s[n] \in S THEN Append(k, s[n]) ELSE k  BY <1>6
  <2>6. s[n] \in X  BY <1>1
  <2>7. \A i \in 1..n : i \in 1..(n - 1) \/ i = n  BY <2>1
  <2>8. \A i \in 1..(n - 1) : i \in 1..n  BY <2>1
  <2> HIDE DEF k
  <2>9. CASE s[n] \notin S  BY <2>5, <2>9, <2>3, <2>7, <2>8, <2>2, <2>4
  <2>10. CASE s[n] \in S
    <3> DEFINE e == Append(k, s[n])
    <3>1. e \in Seq(X) /\ Len(e) = Len(k) + 1 /\ DOMAIN e = 1..Len(e)  BY <2>2, <2>6
    <3>2. e[Len(k) + 1] = s[n] /\ \A i \in 1..Len(k) : e[i] = k[i]  BY <2>2, <2>6
    <3>3. \A i \in DOMAIN e : i = Len(k) + 1 \/ i \in 1..Len(k)  BY <3>1, <2>2
    <3>4. Len(k) + 1 \in DOMAIN e /\ \A i \in 1..Len(k) : i \in DOMAIN e  BY <3>1, <2>2
    <3>5. f[n] = e  BY <2>5, <2>10
    <3> HIDE DEF e
    <3>6. ToSet(e) = ToSet(k) \union {s[n]}  BY <3>2, <3>3, <3>4, <2>2 DEF ToSet
    <3>7. \A x : x \in ToSet(e) <=> x \in S /\ \E i \in 1..n : s[i] = x  BY <2>1, <3>6, <2>3, <2>7, <2>8, <2>10
    <3>8. ASSUME Distinct(s) PROVE Distinct(e)
      <4>1. s[n] \notin ToSet(k)
        <5> SUFFICES ASSUME s[n] \in ToSet(k) PROVE FALSE  OBVIOUS
        <5>1. PICK i \in 1..(n - 1) : s[i] = s[n]  BY <2>3
        <5>2. i # n /\ i \in DOMAIN s /\ n \in DOMAIN s  BY <2>1, <1>1
        <5> QED  BY <5>1, <5>2, <3>8 DEF Distinct
      <4>2. Distinct(k)  BY <2>4, <3>8
      <4>3. \A i \in 1..Len(k) : k[i] # s[n]  BY <4>1, <2>2 DEF ToSet
      <4> SUFFICES ASSUME NEW i \in DOMAIN e, NEW j \in DOMAIN e \ {i} PROVE e[i] # e[j]  BY DEF Distinct
      <4>4. CASE i \in 1..Len(k) /\ j \in 1..Len(k)  BY <4>4, <4>2, <3>2, <2>2 DEF Distinct
      <4>5. CASE i \in 1..Len(k) /\ j = Len(k) + 1  BY <4>5, <4>3, <3>2
      <4>6. CASE j \in 1..Len(k) /\ i = Len(k) + 1  BY <4>6, <4>3, <3>2
      <4> QED  BY <4>4, <4>5, <4>6, <3>3
    <3> QED  BY <3>1, <3>5, <3>7, <3>8
  <2> QED  BY <2>9, <2>10
<1> HIDE DEF T
<1>9. 0..Len(s) \subseteq T  BY <1>7, <1>8, <1>1, UpTo
<1>10. Good(Len(s))
  <2>1. Len(s) \in T  BY <1>9, <1>1
  <2> QED  BY <2>1 DEF T
<1>11. \A x : x \in ToSet(s) <=> \E i \in 1..Len(s) : s[i] = x  BY <1>1 DEF ToSet
<1> QED  BY <1>4, <1>10, <1>11

\* The first place of an element.
LEMMA FirstAtIs ==
    ASSUME NEW X, NEW s \in Seq(X), NEW x \in ToSet(s)
    PROVE  FirstAt(s, x) \in DOMAIN s /\ s[FirstAt(s, x)] = x
<1> DEFINE T == {i \in DOMAIN s : s[i] = x}
<1>1. DOMAIN s = 1..Len(s) /\ Len(s) \in Nat  OBVIOUS
<1>2. T # {} /\ T \subseteq Nat  BY <1>1 DEF ToSet
<1>3. PICK i \in T : \A j \in T : i <= j  BY <1>2, LeastIs
<1> QED  BY <1>3, <1>1 DEF FirstAt

\* A part of a sequence.
LEMMA SubSeqIs ==
    ASSUME NEW X, NEW s \in Seq(X), NEW i \in Nat, NEW j \in Nat, 1 <= i, i <= j + 1, j <= Len(s)
    PROVE  SubSeq(s, i, j) \in Seq(X) /\ Len(SubSeq(s, i, j)) = j - i + 1
           /\ \A n \in 1..(j - i + 1) : SubSeq(s, i, j)[n] = s[n + i - 1]
OBVIOUS

\* Where the elements of two sequences are, one after the other.
LEMMA ConcatIs ==
    ASSUME NEW X, NEW a \in Seq(X), NEW b \in Seq(X)
    PROVE  a \o b \in Seq(X) /\ Len(a \o b) = Len(a) + Len(b) /\ DOMAIN (a \o b) = 1..(Len(a) + Len(b))
           /\ (\A n \in 1..Len(a) : (a \o b)[n] = a[n])
           /\ \A n \in (Len(a) + 1)..(Len(a) + Len(b)) : (a \o b)[n] = b[n - Len(a)]
OBVIOUS

\* Removal of one element.
LEMMA RemoveAtIs ==
    ASSUME NEW X, NEW s \in Seq(X), NEW k \in 1..Len(s)
    PROVE  /\ RemoveAt(s, k) \in Seq(X) /\ DOMAIN RemoveAt(s, k) = 1..(Len(s) - 1)
           /\ \A n \in 1..(Len(s) - 1) : RemoveAt(s, k)[n] = s[IF n < k THEN n ELSE n + 1]
<1> DEFINE a == SubSeq(s, 1, k - 1)
           b == SubSeq(s, k + 1, Len(s))
           e == a \o b
<1>1. DOMAIN s = 1..Len(s) /\ Len(s) \in Nat /\ k \in Nat /\ k - 1 \in Nat /\ 1 <= k /\ k <= Len(s)  OBVIOUS
<1>2. a \in Seq(X) /\ Len(a) = k - 1 /\ \A n \in 1..(k - 1) : a[n] = s[n]  BY <1>1
<1>3. b \in Seq(X) /\ Len(b) = Len(s) - k /\ \A n \in 1..(Len(s) - k) : b[n] = s[n + k]
  <2>1. k + 1 \in Nat /\ 1 <= k + 1 /\ k + 1 <= Len(s) + 1 /\ Len(s) <= Len(s)  BY <1>1
  <2>2. b \in Seq(X) /\ Len(b) = Len(s) - (k + 1) + 1
        /\ \A n \in 1..(Len(s) - (k + 1) + 1) : b[n] = s[n + (k + 1) - 1]  BY <1>1, <2>1, SubSeqIs
  <2> HIDE DEF b
  <2>3. Len(s) - (k + 1) + 1 = Len(s) - k /\ \A n \in 1..(Len(s) - k) : n + (k + 1) - 1 = n + k  BY <1>1
  <2> QED  BY <2>2, <2>3
<1> HIDE DEF a, b
<1>4. /\ e \in Seq(X) /\ Len(e) = Len(a) + Len(b) /\ DOMAIN e = 1..(Len(a) + Len(b))
      /\ \A n \in 1..Len(a) : e[n] = a[n]
      /\ \A n \in (Len(a) + 1)..(Len(a) + Len(b)) : e[n] = b[n - Len(a)]  BY <1>2, <1>3, ConcatIs
<1> HIDE DEF e
<1>5. DOMAIN e = 1..(Len(s) - 1)  BY <1>1, <1>2, <1>3, <1>4
<1>6. \A n \in 1..(k - 1) : e[n] = s[n]  BY <1>1, <1>2, <1>4
<1>7. ASSUME NEW n \in k..(Len(s) - 1) PROVE e[n] = s[n + 1]
  <2>1. e[n] = b[n - (k - 1)]  BY <1>1, <1>2, <1>3, <1>4
  <2>2. n - (k - 1) \in 1..(Len(s) - k) /\ n - (k - 1) + k = n + 1  BY <1>1
  <2> QED  BY <2>1, <2>2, <1>3
<1>8. RemoveAt(s, k) = e  BY DEF RemoveAt, e, a, b
<1>9. \A n \in 1..(Len(s) - 1) : e[n] = s[IF n < k THEN n ELSE n + 1]
  <2> TAKE n \in 1..(Len(s) - 1)
  <2>1. CASE n < k  BY <2>1, <1>1, <1>6
  <2>2. CASE ~(n < k)
    <3>1. n \in k..(Len(s) - 1)  BY <2>2, <1>1
    <3> QED  BY <2>2, <3>1, <1>7
  <2> QED  BY <2>1, <2>2
<1> QED  BY <1>4, <1>5, <1>8, <1>9

\* Without one of its elements, a sequence has the others.
LEMMA RemovedIs ==
    ASSUME NEW X, NEW s \in Seq(X), NEW k \in 1..Len(s)
    PROVE  /\ ToSet(RemoveAt(s, k)) \subseteq ToSet(s) /\ ToSet(s) \ {s[k]} \subseteq ToSet(RemoveAt(s, k))
           /\ Distinct(s) => Distinct(RemoveAt(s, k))
<1> DEFINE e == RemoveAt(s, k)
           at(n) == IF n < k THEN n ELSE n + 1
<1>1. DOMAIN s = 1..Len(s) /\ Len(s) \in Nat /\ k \in Nat /\ 1 <= k /\ k <= Len(s)  OBVIOUS
<1>2. DOMAIN e = 1..(Len(s) - 1) /\ \A n \in 1..(Len(s) - 1) : e[n] = s[at(n)]  BY RemoveAtIs
<1>3. \A n \in DOMAIN e : at(n) \in DOMAIN s  BY <1>1, <1>2
<1>4. \A n, m \in DOMAIN e : n # m => at(n) # at(m)  BY <1>1, <1>2
<1>5. \A m \in DOMAIN s \ {k} : \E n \in DOMAIN e : at(n) = m
  <2> SUFFICES ASSUME NEW m \in DOMAIN s \ {k} PROVE \E n \in DOMAIN e : at(n) = m  OBVIOUS
  <2>1. CASE m < k  BY <2>1, <1>1, <1>2
  <2>2. CASE ~(m < k)
    <3>1. m - 1 \in DOMAIN e /\ at(m - 1) = m  BY <2>2, <1>1, <1>2
    <3> QED  BY <3>1
  <2> QED  BY <2>1, <2>2
<1> HIDE DEF e, at
<1>6. ToSet(s) \ {s[k]} \subseteq ToSet(e)
  <2> SUFFICES ASSUME NEW m \in DOMAIN s, s[m] # s[k] PROVE s[m] \in ToSet(e)  BY DEF ToSet
  <2>1. PICK n \in DOMAIN e : at(n) = m  BY <1>5
  <2> QED  BY <1>2, <2>1 DEF ToSet
<1>7. Distinct(s) => Distinct(e)
  <2> SUFFICES ASSUME Distinct(s), NEW i \in DOMAIN e, NEW j \in DOMAIN e \ {i} PROVE e[i] # e[j]  BY DEF Distinct
  <2> QED  BY <1>2, <1>3, <1>4 DEF Distinct
<1> QED  BY <1>6, <1>7, <1>2, <1>3 DEF e, ToSet

\* Two sequences one after the other.
LEMMA JoinedIs ==
    ASSUME NEW X, NEW a \in Seq(X), NEW b \in Seq(X)
    PROVE  /\ a \o b \in Seq(X) /\ ToSet(a \o b) = ToSet(a) \union ToSet(b)
           /\ Distinct(a) /\ Distinct(b) /\ ToSet(a) \intersect ToSet(b) = {} => Distinct(a \o b)
<1> DEFINE e == a \o b
<1>1. Len(a) \in Nat /\ Len(b) \in Nat /\ DOMAIN a = 1..Len(a) /\ DOMAIN b = 1..Len(b)  OBVIOUS
<1>2. e \in Seq(X) /\ DOMAIN e = 1..(Len(a) + Len(b))  BY <1>1
<1>3. \A n \in DOMAIN a : n \in DOMAIN e /\ e[n] = a[n]  BY <1>1
<1>4. \A n \in DOMAIN b : n + Len(a) \in DOMAIN e /\ e[n + Len(a)] = b[n]  BY <1>1
<1> HIDE DEF e
<1>5. \A m \in DOMAIN e : (m \in DOMAIN a /\ e[m] = a[m]) \/ (m - Len(a) \in DOMAIN b /\ e[m] = b[m - Len(a)])
  BY <1>3, <1>4, <1>1, <1>2
<1>6. ToSet(e) = ToSet(a) \union ToSet(b)  BY <1>3, <1>4, <1>5 DEF ToSet
<1>7. ASSUME Distinct(a), Distinct(b), ToSet(a) \intersect ToSet(b) = {} PROVE Distinct(e)
  <2> SUFFICES ASSUME NEW i \in DOMAIN e, NEW j \in DOMAIN e \ {i} PROVE e[i] # e[j]  BY DEF Distinct
  <2>1. \A n \in DOMAIN a, m \in DOMAIN b : a[n] # b[m]  BY <1>7 DEF ToSet
  <2>2. CASE i \in DOMAIN a /\ e[i] = a[i] /\ j \in DOMAIN a /\ e[j] = a[j]  BY <2>2, <1>7 DEF Distinct
  <2>3. CASE i - Len(a) \in DOMAIN b /\ e[i] = b[i - Len(a)] /\ j - Len(a) \in DOMAIN b /\ e[j] = b[j - Len(a)]
    BY <2>3, <1>7, <1>1, <1>2 DEF Distinct
  <2>4. CASE i \in DOMAIN a /\ e[i] = a[i] /\ j - Len(a) \in DOMAIN b /\ e[j] = b[j - Len(a)]  BY <2>4, <2>1
  <2>5. CASE j \in DOMAIN a /\ e[j] = a[j] /\ i - Len(a) \in DOMAIN b /\ e[i] = b[i - Len(a)]  BY <2>5, <2>1
  <2> QED  BY <2>2, <2>3, <2>4, <2>5, <1>5
<1> QED  BY <1>2, <1>6, <1>7 DEF e

\* One more element.
LEMMA AppendedIs ==
    ASSUME NEW X, NEW s \in Seq(X), NEW x \in X
    PROVE  /\ Append(s, x) \in Seq(X) /\ ToSet(Append(s, x)) = ToSet(s) \union {x}
           /\ Distinct(s) /\ x \notin ToSet(s) => Distinct(Append(s, x))
           /\ Append(s, x) # <<>> /\ Last(Append(s, x)) = x
<1> DEFINE one == <<x>>
<1>1. one \in Seq(X) /\ ToSet(one) = {x} /\ Distinct(one)  BY DEF ToSet, Distinct
<1>2. Append(s, x) = s \o one  OBVIOUS
<1> HIDE DEF one
<1> QED  BY <1>2, <1>1, JoinedIs DEF Last

-----------------------------------------------------------------------------
\* What a device reaches through connections.

\* A set of devices that no connection leaves.
Closed(E, S) == \A e \in E : Sender(e) \in S => Receiver(e) \in S

\* As many steps as there are connections are enough: a device reaches the
\* least closed set that it is in.
LEMMA ReachedIs ==
    ASSUME NEW X, NEW s \in Seq(X), NEW dev
    PROVE  /\ dev \in Reached(s, dev) /\ Closed(ToSet(s), Reached(s, dev))
           /\ \A S : dev \in S /\ Closed(ToSet(s), S) => Reached(s, dev) \subseteq S
<1> DEFINE E == ToSet(s)
           N == Len(s)
           D == {dev} \union {Receiver(e) : e \in E}
           From(S) == {Receiver(e) : e \in {x \in E : Sender(x) \in S}}
           G == [m \in 1..N |-> [S \in SUBSET D |-> S \union From(S)]]
           K(R) == R = [n \in 0..N |-> IF n = 0 THEN {dev} ELSE R[n - 1] \union From(R[n - 1])]
           R == CHOOSE R : K(R)
<1>1. N \in Nat /\ DOMAIN s = 1..N /\ 0 \in 0..N /\ N \in 0..N /\ \A n \in 1..N : n \in 0..N /\ n - 1 \in 0..N /\ n # 0
  OBVIOUS
<1>2. \E g : K(g)
  <2>1. PICK g : Unfolds(g, N, {dev}, G)  BY <1>1, UnfoldingExists
  <2> DEFINE T == {n \in 0..N : g[n] \subseteq D}
  <2>2. g[0] = {dev} /\ \A n \in 1..N : g[n] = G[n][g[n - 1]]
    <3> HIDE DEF G, N
    <3> QED  BY <2>1, <1>1, UnfoldedIs
  <2>3. 0 \in T  BY <2>2, <1>1
  <2>4. ASSUME NEW n \in 1..N, n - 1 \in T PROVE n \in T
    <3>1. g[n - 1] \subseteq D  BY <2>4
    <3>2. G[n] = [S \in SUBSET D |-> S \union From(S)]  OBVIOUS
    <3>3. From(g[n - 1]) \subseteq D  OBVIOUS
    <3> HIDE DEF D, From, G
    <3>4. G[n][g[n - 1]] = g[n - 1] \union From(g[n - 1])  BY <3>1, <3>2
    <3> QED  BY <3>1, <3>3, <3>4, <2>2, <1>1
  <2> HIDE DEF T
  <2>5. ASSUME NEW n \in 1..N PROVE g[n] = g[n - 1] \union From(g[n - 1])  BY <1>1, <2>3, <2>4, UpTo, <2>2 DEF T
  <2> HIDE DEF From
  <2>6. \A n \in 0..N : g[n] = IF n = 0 THEN {dev} ELSE g[n - 1] \union From(g[n - 1])
    <3> TAKE n \in 0..N
    <3>1. CASE n = 0  BY <3>1, <2>2
    <3>2. CASE n # 0  BY <3>2, <1>1, <2>5
    <3> QED  BY <3>1, <3>2
  <2> QED  BY <2>6, <2>1 DEF Unfolds
<1>3. K(R)  BY <1>2
<1>4. Reached(s, dev) = R[N]  BY DEF Reached
<1> HIDE DEF R
<1>5. R[0] = {dev} /\ \A n \in 1..N : R[n] = R[n - 1] \union From(R[n - 1])  BY <1>1, <1>3
<1>6. ASSUME NEW S, dev \in S, Closed(E, S) PROVE R[N] \subseteq S
  <2> DEFINE T == {n \in 0..N : R[n] \subseteq S}
  <2>1. 0 \in T  BY <1>5, <1>1, <1>6
  <2>2. ASSUME NEW n \in 1..N, n - 1 \in T PROVE n \in T  BY <2>2, <1>6, <1>5, <1>1 DEF Closed
  <2> HIDE DEF T
  <2> QED  BY <1>1, <2>1, <2>2, UpTo DEF T
<1>7. dev \in R[N]
  <2> DEFINE T == {n \in 0..N : dev \in R[n]}
  <2>1. 0 \in T  BY <1>5, <1>1
  <2>2. \A n \in 1..N : n - 1 \in T => n \in T  BY <1>5, <1>1
  <2> HIDE DEF T
  <2> QED  BY <1>1, <2>1, <2>2, UpTo DEF T
<1>8. Closed(E, R[N])
  <2> DEFINE U(n) == {i \in 1..N : Sender(s[i]) \in R[n]}
             T == {n \in 0..N : Closed(E, R[n]) \/ Cardinality(U(n)) >= n + 1}
  <2>1. IsFiniteSet(1..N) /\ Cardinality(1..N) = N  BY <1>1, FS_Interval
  <2>2. \A n : IsFiniteSet(U(n)) /\ Cardinality(U(n)) \in Nat /\ Cardinality(U(n)) <= N
    BY <2>1, FS_Subset, FS_CardinalityType
  <2>3. 0 \in T
    <3>1. CASE U(0) = {}  BY <3>1, <1>1 DEF Closed, ToSet
    <3>2. CASE U(0) # {}
      <4>1. Cardinality(U(0)) # 0  BY <3>2, <2>2, FS_EmptySet
      <4>2. Cardinality(U(0)) >= 0 + 1
        <5> HIDE DEF U
        <5> QED  BY <4>1, <2>2
      <4> QED  BY <4>2, <1>1
    <3> QED  BY <3>1, <3>2
  <2>4. ASSUME NEW n \in 1..N, n - 1 \in T PROVE n \in T
    <3>1. R[n] = R[n - 1] \union From(R[n - 1])  BY <1>5
    <3>2. CASE Closed(E, R[n - 1])  BY <3>2, <3>1, <1>1 DEF Closed
    <3>3. CASE ~Closed(E, R[n - 1])
      <4>1. Cardinality(U(n - 1)) >= n  BY <3>3, <2>4, <2>2
      <4>2. U(n - 1) \subseteq U(n)  BY <3>1
      <4>3. CASE U(n - 1) = U(n)
        <5>1. \A e \in E : Sender(e) \in R[n] => Receiver(e) \in R[n]
          <6> SUFFICES ASSUME NEW i \in 1..N, Sender(s[i]) \in R[n] PROVE Receiver(s[i]) \in R[n]  BY <1>1 DEF ToSet
          <6>1. i \in U(n - 1)  BY <4>3
          <6>2. s[i] \in E  BY <1>1 DEF ToSet
          <6>3. Receiver(s[i]) \in From(R[n - 1])  BY <6>1, <6>2
          <6> QED  BY <6>3, <3>1
        <5> QED  BY <5>1, <1>1 DEF Closed
      <4>4. CASE U(n - 1) # U(n)
        <5>1. Cardinality(U(n - 1)) <= Cardinality(U(n)) /\ Cardinality(U(n - 1)) # Cardinality(U(n))
          BY <4>2, <4>4, <2>2, FS_Subset
        <5> HIDE DEF U
        <5>2. Cardinality(U(n)) >= n + 1  BY <5>1, <4>1, <2>2, <1>1
        <5> QED  BY <5>2, <1>1
      <4> QED  BY <4>3, <4>4
    <3> QED  BY <3>2, <3>3
  <2> HIDE DEF T
  <2>5. Closed(E, R[N]) \/ Cardinality(U(N)) >= N + 1  BY <1>1, <2>3, <2>4, UpTo DEF T
  <2> HIDE DEF U
  <2> QED  BY <2>5, <2>2, <1>1
<1> QED  BY <1>4, <1>6, <1>7, <1>8

-----------------------------------------------------------------------------
\* Connections as a set.

SendsAndReceives(e) ==
    IsSendPort(EdgeEnds(e)[1][1], EdgeEnds(e)[1][2]) /\ ~IsSendPort(EdgeEnds(e)[2][1], EdgeEnds(e)[2][2])
NoWayBack(E, e) == \E S : Receiver(e) \in S /\ Closed(E, S) /\ Sender(e) \notin S
Fits(E, shown) == \A e \in E : EndsShown(e, shown) /\ SendsAndReceives(e) /\ NoWayBack(E, e)

LEMMA SoundIs ==
    ASSUME NEW X, NEW s \in Seq(X), NEW shown
    PROVE  EdgesAreSound(s, shown) <=> Distinct(s) /\ Fits(ToSet(s), shown)
<1>1. \A i \in DOMAIN s : Sender(s[i]) \notin Reached(s, Receiver(s[i])) <=> NoWayBack(ToSet(s), s[i])
  <2> SUFFICES ASSUME NEW i \in DOMAIN s
               PROVE  Sender(s[i]) \notin Reached(s, Receiver(s[i])) <=> NoWayBack(ToSet(s), s[i])  OBVIOUS
  <2> DEFINE R == Reached(s, Receiver(s[i]))
  <2> HIDE DEF R
  <2> QED  BY ReachedIs DEF R, NoWayBack
<1> QED  BY <1>1 DEF Distinct, EdgesAreSound, SendsAndReceives, Sender, Receiver, Fits, ToSet

\* Fewer connections, of which what is shown has the ends.
LEMMA FewerFit ==
    ASSUME NEW E, NEW F \in SUBSET E, NEW shown, NEW now, Fits(E, shown), \A e \in F : EndsShown(e, now)
    PROVE  Fits(F, now)
BY DEF Closed, NoWayBack, Fits

\* A connection from which no way leads back to its sender.
LEMMA OneMoreFits ==
    ASSUME NEW E, NEW e, NEW shown, Fits(E, shown),
           EndsShown(e, shown), SendsAndReceives(e), NoWayBack(E, e)
    PROVE  Fits(E \union {e}, shown)
<1>1. PICK S : Receiver(e) \in S /\ Closed(E, S) /\ Sender(e) \notin S  BY DEF NoWayBack
<1>2. ASSUME NEW f \in E PROVE NoWayBack(E \union {e}, f)
  <2>1. PICK P : Receiver(f) \in P /\ Closed(E, P) /\ Sender(f) \notin P  BY DEF Fits, NoWayBack
  <2>2. CASE Sender(f) \in S
    <3>1. Closed(E \union {e}, P \intersect S)  BY <2>1, <1>1 DEF Closed
    <3> QED  BY <3>1, <2>1, <2>2, <1>1 DEF NoWayBack, Closed
  <2>3. CASE Sender(f) \notin S
    <3>1. Closed(E \union {e}, P \union S)  BY <2>1, <1>1 DEF Closed
    <3> QED  BY <3>1, <2>1, <2>3 DEF NoWayBack
  <2> QED  BY <2>2, <2>3
<1> QED  BY <1>2, <1>1 DEF Fits, NoWayBack, Closed

\* Connections to the master device, which sends nothing.
LEMMA MoreToMasterFit ==
    ASSUME NEW E, NEW M, NEW shown, Fits(E, shown),
           \A e \in M : EndsShown(e, shown) /\ SendsAndReceives(e) /\ Receiver(e) = Master,
           \A e \in E \union M : Sender(e) # Master
    PROVE  Fits(E \union M, shown)
<1>1. ASSUME NEW f \in E PROVE NoWayBack(E \union M, f)
  <2>1. PICK P : Receiver(f) \in P /\ Closed(E, P) /\ Sender(f) \notin P  BY DEF Fits, NoWayBack
  <2>2. Closed(E \union M, P \union {Master})  BY <2>1 DEF Closed
  <2> QED  BY <2>1, <2>2 DEF NoWayBack
<1> QED  BY <1>1 DEF Fits, NoWayBack, Closed

-----------------------------------------------------------------------------
\* The names of units, devices and ports.

LEMMA SizesAre ==
    /\ MaxUnit \in Nat /\ MaxUnit >= 1 /\ MaxControl \in Nat /\ MaxControl >= 1
    /\ MaxNested \in Nat /\ MaxChannel \in Nat /\ MaxName \in Nat
    /\ MaxProc \in Nat /\ MaxProc >= 3 /\ MaxPort \in Nat /\ MaxPort >= 2
    /\ Sides \in Nat /\ 1 <= Sides /\ Sides <= MaxPort
BY SizesAssumption

LEMMA AppendIs ==
    ASSUME NEW X, NEW s \in Seq(X), NEW x \in X
    PROVE  (\A n \in 1..Len(s) : Append(s, x)[n] = s[n]) /\ Append(s, x)[Len(s) + 1] = x
OBVIOUS

\* Short sequences and their parts.
LEMMA TuplesAre ==
    /\ \A X : \A s \in Seq(X) : (Len(s) = 0 => s = <<>>) /\ (Len(s) = 1 => s = <<s[1]>>) /\ (Len(s) = 2 => s = <<s[1], s[2]>>)
    /\ \A i : SubSeq(<<i>>, 1, 0) = <<>> /\ SubSeq(<<i>>, 1, 1) = <<i>>
    /\ \A i, j : SubSeq(<<i, j>>, 1, 1) = <<i>> /\ SubSeq(<<i, j>>, 1, 2) = <<i, j>> /\ Append(<<i>>, j) = <<i, j>>
<1>1. ASSUME NEW X, NEW s \in Seq(X)
      PROVE  (Len(s) = 0 => s = <<>>) /\ (Len(s) = 1 => s = <<s[1]>>) /\ (Len(s) = 2 => s = <<s[1], s[2]>>)  OBVIOUS
<1>2. ASSUME NEW i PROVE SubSeq(<<i>>, 1, 0) = <<>> /\ SubSeq(<<i>>, 1, 1) = <<i>>
  <2> DEFINE s == <<i>>
  <2>1. s \in Seq({i}) /\ Len(s) = 1 /\ s[1] = i  OBVIOUS
  <2> HIDE DEF s
  <2>2. SubSeq(s, 1, 1) \in Seq({i}) /\ Len(SubSeq(s, 1, 1)) = 1 /\ SubSeq(s, 1, 1)[1] = i  BY <2>1
  <2>3. SubSeq(s, 1, 0) = <<>>  BY <2>1
  <2> QED  BY <2>2, <2>3, <1>1 DEF s
<1>3. ASSUME NEW i, NEW j
      PROVE  SubSeq(<<i, j>>, 1, 1) = <<i>> /\ SubSeq(<<i, j>>, 1, 2) = <<i, j>> /\ Append(<<i>>, j) = <<i, j>>
  <2> DEFINE s == <<i, j>>
             r == <<i>>
  <2>1. s \in Seq({i, j}) /\ Len(s) = 2 /\ s[1] = i /\ s[2] = j  OBVIOUS
  <2>2. r \in Seq({i, j}) /\ Len(r) = 1 /\ r[1] = i  OBVIOUS
  <2> HIDE DEF s, r
  <2>3. SubSeq(s, 1, 1) \in Seq({i, j}) /\ Len(SubSeq(s, 1, 1)) = 1 /\ SubSeq(s, 1, 1)[1] = i  BY <2>1
  <2>4. SubSeq(s, 1, 2) \in Seq({i, j}) /\ Len(SubSeq(s, 1, 2)) = 2 /\ SubSeq(s, 1, 2)[1] = i /\ SubSeq(s, 1, 2)[2] = j
    BY <2>1
  <2> DEFINE X == {i, j}
  <2>5. r \in Seq(X) /\ j \in X /\ Len(r) = 1 /\ r[1] = i  BY <2>2
  <2> HIDE DEF X
  <2>6. Append(r, j) \in Seq(X) /\ Len(Append(r, j)) = 2  BY <2>5
  <2>7. Append(r, j) \in Seq({i, j}) /\ Len(Append(r, j)) = 2 /\ Append(r, j)[1] = i /\ Append(r, j)[2] = j
    BY <2>5, <2>6, AppendIs DEF X
  <2> QED  BY <2>3, <2>4, <2>7, <1>1 DEF s, r
<1> QED  BY <1>1, <1>2, <1>3

\* A unit is in the container in front of its last number.
LEMMA UnitIs ==
    ASSUME NEW u \in Units
    PROVE  /\ Front(u) \in Containers /\ Front(u) # u /\ u # <<>> /\ u \in Containers
           /\ Append(Front(u), Last(u)) = u
           /\ Last(u) \in 0..(MaxUnit - 1) \union 0..(MaxNested - 1)
           /\ Front(u) = <<>> <=> Len(u) = 1
           /\ Front(u) = <<>> => u = <<Last(u)>> /\ Last(u) \in 0..(MaxUnit - 1)
           /\ Front(u) # <<>> => Front(u) \in TopUnits /\ Front(Front(u)) = <<>>
<1>1. MaxUnit \in Nat /\ MaxNested \in Nat  BY SizesAre
<1>2. CASE u \in TopUnits
  <2>1. PICK i \in 0..(MaxUnit - 1) : u = <<i>>  BY <1>2 DEF TopUnits
  <2>2. Front(u) = <<>> /\ Last(u) = i /\ Len(u) = 1  BY <2>1 DEF Front, Last
  <2>3. Append(<<>>, i) = <<i>> /\ <<i>> # <<>>  OBVIOUS
  <2> QED  BY <2>1, <2>2, <2>3 DEF Containers
<1>3. CASE u \in NestedUnits
  <2>1. PICK i \in 0..(MaxUnit - 1), j \in 0..(MaxNested - 1) : u = <<i, j>>  BY <1>3 DEF NestedUnits
  <2>2. Len(u) = 2 /\ Len(u) - 1 = 1  BY <2>1
  <2>3. Front(u) = <<i>>  BY <2>1, <2>2, TuplesAre DEF Front
  <2>4. Last(u) = j  BY <2>1, <2>2 DEF Last
  <2>5. Append(<<i>>, j) = <<i, j>> /\ <<i>> # <<>> /\ Len(<<i>>) = 1 /\ <<i, j>> # <<>>  BY TuplesAre
  <2>6. Append(Front(u), Last(u)) = u  BY <2>1, <2>4, <2>3, <2>5
  <2>7. u # <<>>  BY <2>1, <2>5
  <2>8. Last(u) \in 0..(MaxUnit - 1) \union 0..(MaxNested - 1)  BY <2>4
  <2>9. Front(u) \in TopUnits /\ Front(Front(u)) = <<>> /\ Front(u) \in Containers /\ Front(u) # u
    BY <2>3, <2>5, <2>2 DEF Containers, Units, TopUnits, Front
  <2> QED  BY <2>6, <2>7, <2>8, <2>9, <2>2, <2>3, <2>5 DEF Containers
<1> QED  BY <1>2, <1>3 DEF Units

LEMMA TopUnitIs == ASSUME NEW i \in 0..(MaxUnit - 1) PROVE <<i>> \in Units /\ Front(<<i>>) = <<>> /\ Last(<<i>>) = i
BY DEF Units, TopUnits, Front, Last

LEMMA ContainersAre ==
    /\ <<>> \in Containers /\ <<>> \notin Units /\ \A c \in Containers : c = <<>> \/ c \in Units
    /\ Units \subseteq Containers
BY UnitIs DEF Containers

\* Inside a unit are the unit itself and the units it contains.
LEMMA InsideIs ==
    ASSUME NEW u \in Units, NEW v \in Units
    PROVE  v \in Inside(u) <=> v = u \/ Front(v) = u
<1>1. MaxUnit \in Nat /\ MaxNested \in Nat  BY SizesAre
<1>2. v \in Inside(u) <=> Len(u) <= Len(v) /\ SubSeq(u, 1, Len(u)) = SubSeq(v, 1, Len(u))  BY DEF Inside, IsPrefix
<1>3. CASE u \in TopUnits
  <2>1. PICK i \in 0..(MaxUnit - 1) : u = <<i>>  BY <1>3 DEF TopUnits
  <2>2. CASE v \in TopUnits
    <3>1. PICK k \in 0..(MaxUnit - 1) : v = <<k>>  BY <2>2 DEF TopUnits
    <3> QED  BY <1>2, <2>1, <3>1, TuplesAre DEF Front
  <2>3. CASE v \in NestedUnits
    <3>1. PICK k \in 0..(MaxUnit - 1), j \in 0..(MaxNested - 1) : v = <<k, j>>  BY <2>3 DEF NestedUnits
    <3> QED  BY <1>2, <2>1, <3>1, TuplesAre DEF Front
  <2> QED  BY <2>2, <2>3 DEF Units
<1>4. CASE u \in NestedUnits
  <2>1. PICK i \in 0..(MaxUnit - 1), h \in 0..(MaxNested - 1) : u = <<i, h>>  BY <1>4 DEF NestedUnits
  <2>2. CASE v \in TopUnits
    <3>1. PICK k \in 0..(MaxUnit - 1) : v = <<k>>  BY <2>2 DEF TopUnits
    <3> QED  BY <1>2, <2>1, <3>1 DEF Front
  <2>3. CASE v \in NestedUnits
    <3>1. PICK k \in 0..(MaxUnit - 1), j \in 0..(MaxNested - 1) : v = <<k, j>>  BY <2>3 DEF NestedUnits
    <3>2. Front(v) = <<k>> /\ SubSeq(u, 1, 2) = <<i, h>> /\ SubSeq(v, 1, 2) = <<k, j>>
      BY <2>1, <3>1, TuplesAre DEF Front
    <3> QED  BY <1>2, <2>1, <3>1, <3>2
  <2> QED  BY <2>2, <2>3 DEF Units
<1> QED  BY <1>3, <1>4 DEF Units

\* Devices of different kinds have different names.
IsRemovable(dev) == dev \in UnitDevices \union ProcDevices

LEMMA DeviceNamesAre ==
    /\ Master # Iin /\ Master[1] \notin {"au", "proc"} /\ Iin[1] \notin {"au", "proc"}
    /\ Master \notin UnitDevices \union ProcDevices /\ Iin \notin UnitDevices \union ProcDevices
    /\ \A dev \in UnitDevices : dev[1] = "au" /\ dev = <<"au", dev[2]>>
           /\ dev[2] \in 0..(MaxUnit - 1) \union 0..(MaxNested - 1)
    /\ \A dev \in ProcDevices : dev[1] = "proc" /\ dev = <<"proc", dev[2]>> /\ dev[2] \in Procs
BY DEF Master, Iin, UnitDevices, ProcDevices

LEMMA DevicesDiffer ==
    /\ \A n, m : (ProcDevice(n) = ProcDevice(m)) <=> (n = m)
    /\ \A n : ProcDevice(n) # Master /\ ProcDevice(n) # Iin /\ ProcDevice(n)[1] = "proc" /\ ProcDevice(n)[2] = n
    /\ \A u : UnitDevice(u) # Master /\ UnitDevice(u) # Iin /\ UnitDevice(u)[1] = "au" /\ UnitDevice(u)[2] = Last(u)
    /\ \A u, v : (UnitDevice(u) = UnitDevice(v)) <=> (Last(u) = Last(v))
    /\ \A u, n : UnitDevice(u) # ProcDevice(n)
BY DEF ProcDevice, UnitDevice, Master, Iin

LEMMA DevicesAreNamed ==
    /\ \A u \in Units : UnitDevice(u) \in UnitDevices
    /\ \A n \in Procs : ProcDevice(n) \in ProcDevices
BY UnitIs DEF UnitDevice, UnitDevices, ProcDevice, ProcDevices

LEMMA PortsAre ==
    /\ \A p \in Ports : p[1] \in {"in", "out"} /\ p = <<p[1], p[2]>> /\ p[2] \in 0..(MaxPort - 1)
    /\ \A n \in 0..(MaxPort - 1) : In(n) \in Ports /\ Out(n) \in Ports
    /\ \A n : In(n)[1] = "in" /\ Out(n)[1] = "out" /\ In(n)[2] = n /\ Out(n)[2] = n
    /\ \A n, m : Out(n) # In(m)
    /\ \A n, m : (Out(n) = Out(m)) <=> (n = m)
    /\ \A n, m : (In(n) = In(m)) <=> (n = m)
    /\ AudioIn \subseteq Ports /\ AudioOut \subseteq Ports
    /\ \A n \in 0..(Sides - 1) : In(n) \in AudioIn /\ Out(n) \in AudioOut
    /\ \A p \in AudioOut : p[1] = "out"
    /\ \A p \in AudioIn : p[1] = "in"
BY SizesAre DEF Ports, In, Out, AudioIn, AudioOut

-----------------------------------------------------------------------------
\* Paths and the ends they stand for.

IsEnd(dev, p) ==
    /\ p \in Ports
    /\ IsRemovable(dev) \/ (dev = Master /\ p[1] = "out") \/ (dev = Iin /\ p[1] = "in")

LEMMA PathIs ==
    ASSUME NEW dev, NEW p, IsEnd(dev, p)
    PROVE  MakePath(dev, p) \in Paths /\ SplitPath(MakePath(dev, p)) = <<dev, p>>
BY DeviceNamesAre DEF IsEnd, IsRemovable, SplitPath, Paths, MakePath, Last

LEMMA PathHasEnd == ASSUME NEW path \in Paths PROVE \E dev, p : IsEnd(dev, p) /\ path = MakePath(dev, p)
<1>1. CASE \E p \in Ports : path = <<p>>
  <2>1. PICK p \in Ports : path = <<p>>  BY <1>1
  <2> QED  BY <2>1, DeviceNamesAre, PortsAre DEF MakePath, IsEnd
<1>2. CASE \E dev \in UnitDevices, p \in Ports : path = <<dev, p>>
  <2>1. PICK dev \in UnitDevices, p \in Ports : path = <<dev, p>>  BY <1>2
  <2> QED  BY <2>1, DeviceNamesAre DEF MakePath, IsEnd, IsRemovable
<1>3. CASE \E dev \in ProcDevices, p \in Ports : path = <<dev, "C", p>>
  <2>1. PICK dev \in ProcDevices, p \in Ports : path = <<dev, "C", p>>  BY <1>3
  <2> QED  BY <2>1, DeviceNamesAre DEF MakePath, IsEnd, IsRemovable
<1> QED  BY <1>1, <1>2, <1>3 DEF Paths

LEMMA EndIs ==
    ASSUME NEW path \in Paths
    PROVE  /\ IsEnd(SplitPath(path)[1], SplitPath(path)[2])
           /\ SplitPath(path) = <<SplitPath(path)[1], SplitPath(path)[2]>>
           /\ path = MakePath(SplitPath(path)[1], SplitPath(path)[2])
<1>1. PICK dev, p : IsEnd(dev, p) /\ path = MakePath(dev, p)  BY PathHasEnd
<1> QED  BY <1>1, PathIs

\* The first part of a path is its device, if that can be removed.
LEMMA PathStarts ==
    ASSUME NEW path \in Paths, NEW dev, IsRemovable(dev)
    PROVE  path[1] = dev <=> SplitPath(path)[1] = dev
<1>1. PICK x, p : IsEnd(x, p) /\ path = MakePath(x, p)  BY PathHasEnd
<1>2. SplitPath(path)[1] = x  BY <1>1, PathIs
<1>3. CASE x \in {Master, Iin}  BY <1>1, <1>3, DeviceNamesAre, PortsAre, <1>2 DEF MakePath, IsEnd, IsRemovable
<1>4. CASE x \notin {Master, Iin}  BY <1>1, <1>4, <1>2 DEF MakePath
<1> QED  BY <1>3, <1>4

LEMMA EdgeIs ==
    ASSUME NEW e \in Edges
    PROVE  /\ e[1] \in Paths /\ e[2] \in Paths
           /\ EdgeEnds(e)[1] = SplitPath(e[1]) /\ EdgeEnds(e)[2] = SplitPath(e[2])
           /\ EdgeEnds(e)[1] = <<Sender(e), EdgeEnds(e)[1][2]>> /\ EdgeEnds(e)[2] = <<Receiver(e), EdgeEnds(e)[2][2]>>
           /\ IsEnd(Sender(e), EdgeEnds(e)[1][2]) /\ IsEnd(Receiver(e), EdgeEnds(e)[2][2])
BY EndIs DEF Edges, EdgeEnds, Sender, Receiver

\* The ends that an edge is made from, in the order of the signal.
LEMMA MadeEdgeIs ==
    ASSUME NEW from, NEW to, IsEnd(from[1], from[2]), IsEnd(to[1], to[2]), from = <<from[1], from[2]>>, to = <<to[1], to[2]>>,
           IsSendPort(from[1], from[2]) # IsSendPort(to[1], to[2])
    PROVE  /\ MakeEdge(from, to) \in Edges /\ SendsAndReceives(MakeEdge(from, to))
           /\ {EdgeEnds(MakeEdge(from, to))[1], EdgeEnds(MakeEdge(from, to))[2]} = {from, to}
<1> DEFINE f == MakePath(from[1], from[2])
           t == MakePath(to[1], to[2])
<1>1. f \in Paths /\ SplitPath(f) = from /\ t \in Paths /\ SplitPath(t) = to  BY PathIs
<1> HIDE DEF f, t
<1>2. CASE IsSendPort(from[1], from[2])
  BY <1>2, <1>1 DEF MakeEdge, f, t, EdgeEnds, Edges, IsSendPort, SendsAndReceives
<1>3. CASE ~IsSendPort(from[1], from[2])
  BY <1>3, <1>1 DEF MakeEdge, f, t, EdgeEnds, Edges, SendsAndReceives, IsSendPort
<1> QED  BY <1>2, <1>3

\* A connection as a pair of ends.
LEMMA PairIs ==
    ASSUME NEW a, NEW p, NEW b, NEW q, IsEnd(a, p), IsEnd(b, q)
    PROVE  /\ <<MakePath(a, p), MakePath(b, q)>> \in Edges
           /\ EdgeEnds(<<MakePath(a, p), MakePath(b, q)>>) = <<<<a, p>>, <<b, q>>>>
           /\ Sender(<<MakePath(a, p), MakePath(b, q)>>) = a /\ Receiver(<<MakePath(a, p), MakePath(b, q)>>) = b
BY PathIs DEF EdgeEnds, Edges, Sender, Receiver

-----------------------------------------------------------------------------
\* The parts of a module.

UnitKinds == [kind : {None, "instrument", "effect"}, ports : SUBSET Ports]
Expressions == [filters : Filters, default : {None} \union Names]

LEMMA ModuleIs ==
    ASSUME NEW d \in Modules
    PROVE  /\ d.units \in [Units -> UnitKinds] /\ d.procs \in [Units -> [Procs -> {None} \union DOMAIN ProcPorts]]
           /\ d.edges \in [Containers -> Seq(Edges)] /\ d.placed \in [Containers -> SUBSET DeviceNames]
           /\ d.controls \in SUBSET Controls /\ d.cmap \in [Controls -> {None} \union 0..(MaxUnit - 1)]
           /\ d.channels \in [Chs -> Controls] /\ d.exprs \in [Units -> Expressions]
           /\ d.streams \in [Units -> Seq(Names \X Procs)]
BY DEF Modules, UnitKinds, Expressions

\* The parts that an edit leaves alone.
SameUnits(d, e) == e.units = d.units /\ e.procs = d.procs
SameControls(d, e) == e.controls = d.controls /\ e.cmap = d.cmap /\ e.channels = d.channels
SameReferences(d, e) == e.exprs = d.exprs /\ e.streams = d.streams

LEMMA EdgesSet ==
    ASSUME NEW d \in Modules, NEW f \in [Containers -> Seq(Edges)], NEW e, e = [d EXCEPT !.edges = f]
    PROVE  e \in Modules /\ e.edges = f /\ e.placed = d.placed
           /\ SameUnits(d, e) /\ SameControls(d, e) /\ SameReferences(d, e)
BY DEF Modules, SameUnits, SameControls, SameReferences

LEMMA PlacedSet ==
    ASSUME NEW d \in Modules, NEW f \in [Containers -> SUBSET DeviceNames], NEW e, e = [d EXCEPT !.placed = f]
    PROVE  e \in Modules /\ e.placed = f /\ e.edges = d.edges
           /\ SameUnits(d, e) /\ SameControls(d, e) /\ SameReferences(d, e)
BY DEF Modules, SameUnits, SameControls, SameReferences

LEMMA UnitsSet ==
    ASSUME NEW d \in Modules, NEW f \in [Units -> UnitKinds], NEW e, e = [d EXCEPT !.units = f]
    PROVE  e \in Modules /\ e.units = f /\ e.procs = d.procs /\ e.edges = d.edges /\ e.placed = d.placed
           /\ SameControls(d, e) /\ SameReferences(d, e)
BY DEF Modules, SameControls, SameReferences, UnitKinds

LEMMA ProcsSet ==
    ASSUME NEW d \in Modules, NEW f \in [Units -> [Procs -> {None} \union DOMAIN ProcPorts]],
           NEW e, e = [d EXCEPT !.procs = f]
    PROVE  e \in Modules /\ e.procs = f /\ e.units = d.units /\ e.edges = d.edges /\ e.placed = d.placed
           /\ SameControls(d, e) /\ SameReferences(d, e)
BY DEF Modules, SameControls, SameReferences

LEMMA ExpressionsSet ==
    ASSUME NEW d \in Modules, NEW f \in [Units -> Expressions], NEW e, e = [d EXCEPT !.exprs = f]
    PROVE  e \in Modules /\ e.exprs = f /\ e.streams = d.streams /\ e.edges = d.edges /\ e.placed = d.placed
           /\ SameUnits(d, e) /\ SameControls(d, e)
BY DEF Modules, SameUnits, SameControls, Expressions

LEMMA StreamsSet ==
    ASSUME NEW d \in Modules, NEW f \in [Units -> Seq(Names \X Procs)], NEW e, e = [d EXCEPT !.streams = f]
    PROVE  e \in Modules /\ e.streams = f /\ e.exprs = d.exprs /\ e.edges = d.edges /\ e.placed = d.placed
           /\ SameUnits(d, e) /\ SameControls(d, e)
BY DEF Modules, SameUnits, SameControls

LEMMA ChannelsSet ==
    ASSUME NEW d \in Modules, NEW f \in [Chs -> Controls], NEW e, e = [d EXCEPT !.channels = f]
    PROVE  e \in Modules /\ e.channels = f /\ e.controls = d.controls /\ e.cmap = d.cmap
           /\ e.edges = d.edges /\ e.placed = d.placed /\ SameUnits(d, e) /\ SameReferences(d, e)
BY DEF Modules, SameUnits, SameReferences

WithControls(d, S, f) == [d EXCEPT !.controls = S, !.cmap = f]
LEMMA ControlsSet ==
    ASSUME NEW d \in Modules, NEW S \in SUBSET Controls, NEW f \in [Controls -> {None} \union 0..(MaxUnit - 1)]
    PROVE  /\ WithControls(d, S, f) \in Modules /\ WithControls(d, S, f).controls = S /\ WithControls(d, S, f).cmap = f
           /\ WithControls(d, S, f).channels = d.channels
           /\ WithControls(d, S, f).edges = d.edges /\ WithControls(d, S, f).placed = d.placed
           /\ SameUnits(d, WithControls(d, S, f)) /\ SameReferences(d, WithControls(d, S, f))
BY DEF Modules, SameUnits, SameReferences, WithControls

-----------------------------------------------------------------------------
\* The devices of a container and their ports.

EndIn(d, c, dev, p) ==
    \/ dev = Master /\ p \in OutPorts(d, c)
    \/ dev = Iin /\ c # <<>> /\ p \in InPorts(d, c)
    \/ \E u \in Units : Front(u) = c /\ dev = UnitDevice(u) /\ HasUnit(d, u) /\ p \in d.units[u].ports
    \/ \E n \in Procs : c # <<>> /\ dev = ProcDevice(n) /\ d.procs[c][n] # None /\ p \in ProcPorts[d.procs[c][n]]

LEMMA DevicesInAre ==
    ASSUME NEW d, NEW c, NEW dev
    PROVE  dev \in DevicesIn(d, c) <=>
             \/ dev = Master
             \/ dev = Iin /\ c # <<>>
             \/ \E u \in Units : Front(u) = c /\ dev = UnitDevice(u) /\ HasUnit(d, u)
             \/ \E n \in Procs : c # <<>> /\ dev = ProcDevice(n) /\ d.procs[c][n] # None
BY DEF DevicesIn, UnitsIn, ProcsIn

LEMMA DevicesInTyped ==
    ASSUME NEW d, NEW c, NEW dev \in DevicesIn(d, c)
    PROVE  /\ dev \in DeviceNames
           /\ HasButtons(dev) <=> dev \notin {Master, Iin}
           /\ dev[1] = "au" => \E u \in UnitsIn(d, c) : dev = UnitDevice(u) /\ Append(c, dev[2]) = u
           /\ dev[1] = "proc" => c # <<>> /\ dev[2] \in ProcsIn(d, c) /\ dev = ProcDevice(dev[2])
<1>1. ASSUME NEW u \in Units, Front(u) = c, dev = UnitDevice(u), HasUnit(d, u)
      PROVE  dev \in DeviceNames /\ HasButtons(dev) /\ dev[1] = "au" /\ dev \notin {Master, Iin}
             /\ u \in UnitsIn(d, c) /\ Append(c, dev[2]) = u
  BY <1>1, DevicesDiffer, DevicesAreNamed, UnitIs DEF DeviceNames, HasButtons, UnitsIn
<1>2. ASSUME NEW n \in Procs, c # <<>>, dev = ProcDevice(n), d.procs[c][n] # None
      PROVE  dev \in DeviceNames /\ HasButtons(dev) /\ dev[1] = "proc" /\ dev \notin {Master, Iin} /\ dev[2] = n
             /\ n \in ProcsIn(d, c)  BY <1>2, DevicesDiffer, DevicesAreNamed DEF DeviceNames, HasButtons, ProcsIn
<1>3. CASE dev \in {Master, Iin}  BY <1>3, DeviceNamesAre DEF DeviceNames, HasButtons
<1>4. CASE \E u \in Units : Front(u) = c /\ dev = UnitDevice(u) /\ HasUnit(d, u)
  <2>1. PICK u \in Units : Front(u) = c /\ dev = UnitDevice(u) /\ HasUnit(d, u)  BY <1>4
  <2> QED  BY <1>1, <2>1
<1>5. CASE \E n \in Procs : c # <<>> /\ dev = ProcDevice(n) /\ d.procs[c][n] # None
  <2>1. PICK n \in Procs : c # <<>> /\ dev = ProcDevice(n) /\ d.procs[c][n] # None  BY <1>5
  <2> QED  BY <1>2, <2>1
<1> QED  BY <1>3, <1>4, <1>5, DevicesInAre

LEMMA ShownIs ==
    ASSUME NEW d \in Modules, NEW c \in Containers, NEW dev, NEW p
    PROVE  /\ DOMAIN Shown(d, c) = DevicesIn(d, c)
           /\ dev \in DevicesIn(d, c) /\ p \in Shown(d, c)[dev] <=> EndIn(d, c, dev, p)
<1>1. DOMAIN Shown(d, c) = DevicesIn(d, c)  BY DEF Shown
<1>2. dev \in DevicesIn(d, c) => Shown(d, c)[dev] = PortsOf(d, c, dev)  BY DEF Shown
<1>3. CASE dev = Master  BY <1>3, DevicesInAre, DeviceNamesAre, DevicesDiffer, <1>1, <1>2 DEF PortsOf, EndIn
<1>4. CASE dev = Iin  BY <1>4, DevicesInAre, DeviceNamesAre, DevicesDiffer, <1>1, <1>2 DEF PortsOf, EndIn
<1>5. CASE \E u \in Units : Front(u) = c /\ dev = UnitDevice(u)
  <2>1. PICK u \in Units : Front(u) = c /\ dev = UnitDevice(u)  BY <1>5
  <2>2. dev # Master /\ dev # Iin /\ dev[1] = "au" /\ dev[2] = Last(u) /\ Append(c, dev[2]) = u
    BY <2>1, DevicesDiffer, UnitIs
  <2>3. \A v \in Units : Front(v) = c /\ dev = UnitDevice(v) => v = u  BY <2>1, DevicesDiffer, UnitIs
  <2> QED  BY <1>1, <1>2, <2>2, <2>1, <2>3, DevicesInAre, DevicesDiffer DEF PortsOf, EndIn
<1>6. CASE c # <<>> /\ \E n \in Procs : dev = ProcDevice(n)
  <2>1. PICK n \in Procs : dev = ProcDevice(n)  BY <1>6
  <2>2. dev # Master /\ dev # Iin /\ dev[1] = "proc" /\ dev[2] = n  BY <2>1, DevicesDiffer
  <2>3. \A m : dev = ProcDevice(m) => m = n  BY <2>1, DevicesDiffer
  <2>4. \A u : dev # UnitDevice(u)  BY <2>1, DevicesDiffer
  <2>5. dev \in DevicesIn(d, c) <=> d.procs[c][n] # None  BY <1>6, <2>1, <2>2, <2>3, <2>4, DevicesInAre
  <2>6. EndIn(d, c, dev, p) <=> d.procs[c][n] # None /\ p \in ProcPorts[d.procs[c][n]]
    BY <1>6, <2>1, <2>2, <2>3, <2>4 DEF EndIn
  <2> QED  BY <1>1, <1>2, <2>5, <2>6, <2>2 DEF PortsOf
<1>7. CASE /\ dev # Master /\ dev # Iin
           /\ ~ \E u \in Units : Front(u) = c /\ dev = UnitDevice(u)
           /\ ~ (c # <<>> /\ \E n \in Procs : dev = ProcDevice(n))  BY <1>7, DevicesInAre, <1>1 DEF EndIn
<1> QED  BY <1>3, <1>4, <1>5, <1>6, <1>7

LEMMA EndsShownAre ==
    ASSUME NEW d \in Modules, NEW c \in Containers, NEW e \in Edges
    PROVE  EndsShown(e, Shown(d, c)) <=>
             /\ EndIn(d, c, Sender(e), EdgeEnds(e)[1][2])
             /\ EndIn(d, c, Receiver(e), EdgeEnds(e)[2][2])
BY EdgeIs, ShownIs DEF EndsShown, Sender, Receiver

\* What can be an end of a connection.
LEMMA EndInIsEnd ==
    ASSUME NEW d \in Modules, NEW c \in Containers, NEW dev, NEW p, EndIn(d, c, dev, p)
    PROVE  IsEnd(dev, p) /\ (dev = Master => p[1] = "out") /\ (dev = Iin => p[1] = "in") /\ dev \in DevicesIn(d, c)
<1>1. d.units \in [Units -> UnitKinds] /\ d.procs \in [Units -> [Procs -> {None} \union DOMAIN ProcPorts]]
  BY ModuleIs
<1>2. CASE dev = Master /\ p \in OutPorts(d, c)
  BY <1>2, PortsAre, ContainersAre, <1>1, DeviceNamesAre, DevicesInAre DEF OutPorts, UnitKinds, IsEnd
<1>3. CASE dev = Iin /\ c # <<>> /\ p \in InPorts(d, c)
  BY <1>3, ContainersAre, <1>1, DeviceNamesAre, DevicesInAre DEF InPorts, UnitKinds, IsEnd
<1>4. CASE \E u \in Units : Front(u) = c /\ dev = UnitDevice(u) /\ HasUnit(d, u) /\ p \in d.units[u].ports
  <2>1. PICK u \in Units : Front(u) = c /\ dev = UnitDevice(u) /\ HasUnit(d, u) /\ p \in d.units[u].ports  BY <1>4
  <2> QED  BY <2>1, DevicesInAre, <1>1, DevicesAreNamed, DevicesDiffer DEF IsEnd, IsRemovable, UnitKinds
<1>5. CASE \E n \in Procs : c # <<>> /\ dev = ProcDevice(n) /\ d.procs[c][n] # None /\ p \in ProcPorts[d.procs[c][n]]
  <2>1. PICK n \in Procs : c # <<>> /\ dev = ProcDevice(n) /\ d.procs[c][n] # None /\ p \in ProcPorts[d.procs[c][n]]
    BY <1>5
  <2> QED
    BY <2>1, DevicesInAre, PortsAssumption, DevicesAreNamed, DevicesDiffer, <1>1, ContainersAre DEF IsEnd, IsRemovable
<1> QED  BY <1>2, <1>3, <1>4, <1>5 DEF EndIn

\* The master device of a container sends nothing.
LEMMA MasterReceives ==
    ASSUME NEW d \in Modules, NEW c \in Containers, NEW e \in Edges, EndsShown(e, Shown(d, c)), SendsAndReceives(e)
    PROVE  Sender(e) # Master
BY EndsShownAre, EndInIsEnd, EdgeIs DEF SendsAndReceives, Sender, IsSendPort

-----------------------------------------------------------------------------
\* What an edit leaves as it is.

LEMMA SameDevices ==
    ASSUME NEW d, NEW e, SameUnits(d, e), NEW c
    PROVE  /\ HasUnit(e, c) <=> HasUnit(d, c)
           /\ Exists(e, c) <=> Exists(d, c)
           /\ UnitsIn(e, c) = UnitsIn(d, c) /\ ProcsIn(e, c) = ProcsIn(d, c)
           /\ DevicesIn(e, c) = DevicesIn(d, c) /\ Shown(e, c) = Shown(d, c)
           /\ StreamProcs(e, c) = StreamProcs(d, c)
<1>1. UnitsIn(e, c) = UnitsIn(d, c) /\ ProcsIn(e, c) = ProcsIn(d, c)  BY DEF SameUnits, HasUnit, UnitsIn, ProcsIn
<1>2. DevicesIn(e, c) = DevicesIn(d, c)  BY <1>1 DEF DevicesIn
<1>3. Shown(e, c) = Shown(d, c)  BY <1>2 DEF Shown, SameUnits, PortsOf, OutPorts, InPorts
<1> QED  BY <1>1, <1>2, <1>3 DEF SameUnits, StreamProcs, Exists, HasUnit

\* The connections are sound as sets, and the controls reach units.
Wired(d) == \A c \in Containers : Exists(d, c) => Distinct(d.edges[c]) /\ Fits(ToSet(d.edges[c]), Shown(d, c))
Mapped(d) == \A n \in Controls : d.cmap[n] # None => HasUnit(d, <<d.cmap[n]>>)

LEMMA LinkedIs == ASSUME NEW d \in Modules PROVE IsLinked(d) <=> Wired(d) /\ Mapped(d)
BY ModuleIs, SoundIs DEF IsLinked, Wired, Mapped

LEMMA WiredFrame ==
    ASSUME NEW d, NEW e, SameUnits(d, e), e.edges = d.edges, Wired(d)
    PROVE  Wired(e)
BY SameDevices DEF Wired

LEMMA MappedFrame ==
    ASSUME NEW d, NEW e, SameUnits(d, e), e.cmap = d.cmap, Mapped(d)
    PROVE  Mapped(e)
BY SameDevices DEF Mapped

\* An edit that changes the connections only.
LEMMA EdgesOnly ==
    ASSUME NEW d \in Modules, NEW e \in Modules, IsWhole(d), e.placed = d.placed,
           SameUnits(d, e), SameControls(d, e), SameReferences(d, e), Wired(e),
           \A u \in Units : ~HasUnit(d, u) => e.edges[u] = <<>>
    PROVE  IsWhole(e)
<1>1. IsLinked(e)  BY LinkedIs, MappedFrame DEF IsWhole, SameControls
<1>2. ControlsAreExact(e) /\ ControlsAreNumbered(e)
  BY SameDevices DEF IsWhole, ControlsAreExact, ControlsAreNumbered, SameControls
<1> QED
  BY <1>1, <1>2, SameDevices DEF IsWhole, RemovedAreEmpty, SameReferences, ReferencesLive, ExprNames,
     LayoutIsOfDevices

\* One that changes the layout only.
HoldsTogether(d) ==
    IsLinked(d) /\ RemovedAreEmpty(d) /\ ControlsAreExact(d) /\ ControlsAreNumbered(d) /\ ReferencesLive(d)

LEMMA PlacedOnly ==
    ASSUME NEW d \in Modules, NEW e \in Modules, HoldsTogether(d), e.edges = d.edges,
           SameUnits(d, e), SameControls(d, e), SameReferences(d, e),
           \A c \in Containers : e.placed[c] \subseteq DevicesIn(d, c) /\ (~Exists(d, c) => e.placed[c] = {})
    PROVE  IsWhole(e)
<1>1. IsLinked(e)  BY LinkedIs, MappedFrame, WiredFrame DEF HoldsTogether, SameControls
<1>2. RemovedAreEmpty(e)  BY ContainersAre, SameDevices DEF Exists, HoldsTogether, RemovedAreEmpty, SameReferences
<1>3. ControlsAreExact(e) /\ ControlsAreNumbered(e)
  BY SameDevices DEF HoldsTogether, ControlsAreExact, ControlsAreNumbered, SameControls
<1>4. ReferencesLive(e)  BY SameDevices DEF HoldsTogether, ReferencesLive, SameReferences, ExprNames
<1> QED  BY <1>1, <1>2, <1>3, <1>4, SameDevices DEF IsWhole, LayoutIsOfDevices

\* One that changes expressions and stream interfaces only.
LEMMA ReferencesOnly ==
    ASSUME NEW d \in Modules, NEW e \in Modules, IsWhole(d), e.edges = d.edges, e.placed = d.placed,
           SameUnits(d, e), SameControls(d, e), ReferencesLive(e),
           \A u \in Units : ~HasUnit(d, u) => e.exprs[u] = NoExpressions /\ e.streams[u] = <<>>
    PROVE  IsWhole(e)
<1>1. ControlsAreExact(e) /\ ControlsAreNumbered(e)
  BY SameDevices DEF IsWhole, ControlsAreExact, ControlsAreNumbered, SameControls
<1> QED
  BY <1>1, SameDevices, LinkedIs, MappedFrame, WiredFrame DEF IsWhole, RemovedAreEmpty, SameControls,
     LayoutIsOfDevices

\* An edit loses a connection only with an end of it or its container.
KeepsEdges(d, e) ==
    \A c \in Containers : \A x \in ToSet(d.edges[c]) \ ToSet(e.edges[c]) :
        (c # <<>> /\ ~HasUnit(e, c)) \/ ~EndsShown(x, Shown(e, c))

LEMMA SameEdges == ASSUME NEW d, NEW e, e.edges = d.edges PROVE KeepsEdges(d, e)
BY DEF KeepsEdges

\* What a unit or module with these edges and ends is.
LEMMA EdgesAre ==
    ASSUME NEW d \in Modules, IsWhole(d), NEW c \in Containers, Exists(d, c), NEW x \in ToSet(d.edges[c])
    PROVE  x \in Edges /\ EndsShown(x, Shown(d, c)) /\ SendsAndReceives(x) /\ Distinct(d.edges[c])
<1>1. x \in Edges  BY ModuleIs DEF ToSet
<1> QED  BY <1>1, LinkedIs DEF Wired, Fits, IsWhole

-----------------------------------------------------------------------------
\* The operations of the editors: each gives a whole module, and loses no
\* connection that still has its ends.

LEMMA LayoutSet ==
    ASSUME NEW d \in Modules, IsWhole(d), NEW c \in Containers, Exists(d, c), NEW S, S \subseteq DevicesIn(d, c)
    PROVE  SetLayout(d, c, S) \in Modules /\ IsWhole(SetLayout(d, c, S)) /\ SetLayout(d, c, S).edges = d.edges
           /\ SameUnits(d, SetLayout(d, c, S)) /\ SameReferences(d, SetLayout(d, c, S))
           /\ S \union d.placed[c] \subseteq SetLayout(d, c, S).placed[c]
<1> DEFINE e == SetLayout(d, c, S)
           f == [d.placed EXCEPT ![c] = @ \union S]
<1>1. d.placed \in [Containers -> SUBSET DeviceNames] /\ LayoutIsOfDevices(d) /\ RemovedAreEmpty(d)
  BY ModuleIs DEF IsWhole
<1>2. f \in [Containers -> SUBSET DeviceNames] /\ f[c] = d.placed[c] \union S
      /\ \A b \in Containers \ {c} : f[b] = d.placed[b]  BY <1>1, DevicesInTyped
<1>3. e = [d EXCEPT !.placed = f]  BY DEF SetLayout
<1> HIDE DEF e, f
<1>4. e \in Modules /\ e.placed = f /\ e.edges = d.edges /\ SameUnits(d, e) /\ SameControls(d, e) /\ SameReferences(d, e)
  BY <1>2, <1>3, PlacedSet
<1>5. \A b \in Containers : e.placed[b] \subseteq DevicesIn(d, b) /\ (~Exists(d, b) => e.placed[b] = {})
  BY <1>1, <1>2, <1>4, ContainersAre DEF LayoutIsOfDevices, RemovedAreEmpty, Exists
<1> QED  BY <1>2, <1>4, <1>5, PlacedOnly DEF e, IsWhole, HoldsTogether

LEMMA LayoutDropped ==
    ASSUME NEW d \in Modules, NEW c \in Containers, NEW dev
    PROVE  /\ DropLayout(d, c, dev) \in Modules /\ SameUnits(d, DropLayout(d, c, dev))
           /\ SameControls(d, DropLayout(d, c, dev)) /\ SameReferences(d, DropLayout(d, c, dev))
           /\ DropLayout(d, c, dev).edges = d.edges
           /\ DropLayout(d, c, dev).placed[c] = d.placed[c] \ {dev}
           /\ \A b \in Containers \ {c} : DropLayout(d, c, dev).placed[b] = d.placed[b]
<1> DEFINE e == DropLayout(d, c, dev)
           f == [d.placed EXCEPT ![c] = @ \ {dev}]
<1>1. f \in [Containers -> SUBSET DeviceNames] /\ f[c] = d.placed[c] \ {dev}
      /\ \A b \in Containers \ {c} : f[b] = d.placed[b]  BY ModuleIs
<1>2. e = [d EXCEPT !.placed = f]  BY DEF DropLayout
<1> HIDE DEF e, f
<1> QED  BY <1>1, <1>2, PlacedSet DEF e

\* An edit of the connections of one container.
WithEdges(d, c, s) == [d EXCEPT !.edges[c] = s]
LEMMA EdgesOfOne ==
    ASSUME NEW d \in Modules, IsWhole(d), NEW c \in Containers, Exists(d, c), NEW s \in Seq(Edges),
           Distinct(s), Fits(ToSet(s), Shown(d, c))
    PROVE  WithEdges(d, c, s) \in Modules /\ IsWhole(WithEdges(d, c, s)) /\ WithEdges(d, c, s).edges[c] = s
           /\ (\A b \in Containers \ {c} : WithEdges(d, c, s).edges[b] = d.edges[b])
           /\ WithEdges(d, c, s).placed = d.placed
           /\ SameUnits(d, WithEdges(d, c, s)) /\ SameControls(d, WithEdges(d, c, s)) /\ SameReferences(d, WithEdges(d, c, s))
<1> DEFINE e == WithEdges(d, c, s)
           f == [d.edges EXCEPT ![c] = s]
<1>1. d.edges \in [Containers -> Seq(Edges)] /\ RemovedAreEmpty(d) /\ Wired(d)  BY ModuleIs, LinkedIs DEF IsWhole
<1>2. f \in [Containers -> Seq(Edges)] /\ f[c] = s /\ \A b \in Containers \ {c} : f[b] = d.edges[b]  BY <1>1
<1>3. e = [d EXCEPT !.edges = f]  BY DEF WithEdges
<1> HIDE DEF e, f
<1>4. e \in Modules /\ e.edges = f /\ e.placed = d.placed /\ SameUnits(d, e) /\ SameControls(d, e) /\ SameReferences(d, e)
  BY <1>2, <1>3, EdgesSet
<1>5. Wired(e)
  <2> SUFFICES ASSUME NEW b \in Containers, Exists(d, b)
               PROVE  Distinct(e.edges[b]) /\ Fits(ToSet(e.edges[b]), Shown(d, b))  BY <1>4, SameDevices DEF Wired
  <2>1. CASE b = c  BY <2>1, <1>2, <1>4
  <2>2. CASE b # c  BY <2>2, <1>1, <1>2, <1>4 DEF Wired
  <2> QED  BY <2>1, <2>2
<1>6. \A u \in Units : ~HasUnit(d, u) => e.edges[u] = <<>>
  <2> SUFFICES ASSUME NEW u \in Units, ~HasUnit(d, u) PROVE e.edges[u] = <<>>  OBVIOUS
  <2> QED  BY <1>1, <1>2, <1>4, ContainersAre DEF RemovedAreEmpty, Exists
<1> QED  BY <1>2, <1>4, <1>5, <1>6, EdgesOnly DEF e

LEMMA EdgeAppended ==
    ASSUME NEW d \in Modules, IsWhole(d), NEW c \in Containers, Exists(d, c), NEW x \in Edges,
           x \notin ToSet(d.edges[c]), EndsShown(x, Shown(d, c)), SendsAndReceives(x),
           Sender(x) \notin Reached(d.edges[c], Receiver(x))
    PROVE  AppendEdge(d, c, x) \in Modules /\ IsWhole(AppendEdge(d, c, x)) /\ KeepsEdges(d, AppendEdge(d, c, x))
           /\ SameUnits(d, AppendEdge(d, c, x)) /\ SameReferences(d, AppendEdge(d, c, x))
           /\ AppendEdge(d, c, x).placed = d.placed
           /\ ToSet(d.edges[c]) \subseteq ToSet(AppendEdge(d, c, x).edges[c])
<1> DEFINE e == AppendEdge(d, c, x)
           E == ToSet(d.edges[c])
           s == Append(d.edges[c], x)
<1>1. d.edges[c] \in Seq(Edges) /\ Distinct(d.edges[c]) /\ Fits(E, Shown(d, c))
  BY ModuleIs, LinkedIs DEF IsWhole, Wired
<1>2. s \in Seq(Edges) /\ ToSet(s) = E \union {x} /\ Distinct(s)  BY <1>1, AppendedIs
<1>3. NoWayBack(E, x)  BY <1>1, ReachedIs DEF NoWayBack
<1>4. Fits(ToSet(s), Shown(d, c))
  <2> HIDE DEF E
  <2> QED  BY <1>1, <1>2, <1>3, OneMoreFits
<1>5. e = WithEdges(d, c, s)  BY DEF WithEdges, AppendEdge
<1> HIDE DEF e, s
<1>6. e \in Modules /\ IsWhole(e) /\ e.edges[c] = s /\ (\A b \in Containers \ {c} : e.edges[b] = d.edges[b])
      /\ e.placed = d.placed /\ SameUnits(d, e) /\ SameReferences(d, e)
  <2>1. s \in Seq(Edges) /\ Distinct(s) /\ Fits(ToSet(s), Shown(d, c))  BY <1>2, <1>4
  <2> QED  BY <2>1, <1>5, EdgesOfOne
<1>7. KeepsEdges(d, e)
  <2>1. \A b \in Containers : ToSet(d.edges[b]) \subseteq ToSet(e.edges[b])  BY <1>2, <1>6
  <2> QED  BY <2>1 DEF KeepsEdges
<1> QED  BY <1>2, <1>6, <1>7 DEF e

LEMMA EdgeRemoved ==
    ASSUME NEW d \in Modules, IsWhole(d), NEW c \in Containers, Exists(d, c), NEW x \in ToSet(d.edges[c])
    PROVE  RemoveEdge(d, c, x) \in Modules /\ IsWhole(RemoveEdge(d, c, x))
           /\ SameUnits(d, RemoveEdge(d, c, x)) /\ SameReferences(d, RemoveEdge(d, c, x))
           /\ RemoveEdge(d, c, x).placed = d.placed
           /\ ToSet(RemoveEdge(d, c, x).edges[c]) \subseteq ToSet(d.edges[c])
           /\ ToSet(d.edges[c]) \ {x} \subseteq ToSet(RemoveEdge(d, c, x).edges[c])
           /\ \A b \in Containers \ {c} : RemoveEdge(d, c, x).edges[b] = d.edges[b]
<1> DEFINE e == RemoveEdge(d, c, x)
           k == FirstAt(d.edges[c], x)
           s == RemoveAt(d.edges[c], k)
<1>1. d.edges[c] \in Seq(Edges) /\ Distinct(d.edges[c]) /\ Fits(ToSet(d.edges[c]), Shown(d, c))
  BY ModuleIs, LinkedIs DEF IsWhole, Wired
<1>2. k \in 1..Len(d.edges[c]) /\ d.edges[c][k] = x  BY <1>1, FirstAtIs
<1> HIDE DEF k
<1>3. s \in Seq(Edges) /\ ToSet(s) \subseteq ToSet(d.edges[c]) /\ ToSet(d.edges[c]) \ {x} \subseteq ToSet(s) /\ Distinct(s)
  BY <1>1, <1>2, RemoveAtIs, RemovedIs
<1>4. Fits(ToSet(s), Shown(d, c))  BY <1>1, <1>3, FewerFit DEF Fits
<1>5. e = WithEdges(d, c, s)  BY DEF WithEdges, RemoveEdge, k
<1> HIDE DEF e, s
<1> QED  BY <1>3, <1>4, <1>5, EdgesOfOne DEF e

\* Nothing is connected to the device any more.
LEMMA Disconnected ==
    ASSUME NEW d \in Modules, IsWhole(d), NEW c \in Containers, Exists(d, c), NEW dev, IsRemovable(dev)
    PROVE  DisconnectDevice(d, c, dev) \in Modules /\ IsWhole(DisconnectDevice(d, c, dev))
           /\ SameUnits(d, DisconnectDevice(d, c, dev)) /\ SameReferences(d, DisconnectDevice(d, c, dev))
           /\ SameControls(d, DisconnectDevice(d, c, dev)) /\ DisconnectDevice(d, c, dev).placed = d.placed
           /\ (\A b \in Containers \ {c} : DisconnectDevice(d, c, dev).edges[b] = d.edges[b])
           /\ \A x : x \in ToSet(DisconnectDevice(d, c, dev).edges[c]) <=>
                       x \in ToSet(d.edges[c]) /\ Sender(x) # dev /\ Receiver(x) # dev
<1> DEFINE e == DisconnectDevice(d, c, dev)
           E == ToSet(d.edges[c])
           K == {x \in E : x[1][1] # dev /\ x[2][1] # dev}
           s == Keeping(d.edges[c], K)
<1>1. d.edges[c] \in Seq(Edges) /\ Distinct(d.edges[c]) /\ Fits(E, Shown(d, c))
  BY ModuleIs, LinkedIs DEF IsWhole, Wired
<1>2. \A x : x \in K <=> x \in E /\ Sender(x) # dev /\ Receiver(x) # dev
  BY EdgeIs, PathStarts, <1>1 DEF Sender, Receiver, ToSet
<1>3. e = WithEdges(d, c, s)  BY DEF WithEdges, DisconnectDevice
<1> HIDE DEF K, E
<1>4. s \in Seq(Edges) /\ ToSet(s) = E \intersect K /\ Distinct(s)  BY <1>1, KeepingIs DEF E
<1>5. Fits(ToSet(s), Shown(d, c))  BY <1>1, <1>4, FewerFit DEF Fits
<1> HIDE DEF e, s
<1>6. e \in Modules /\ IsWhole(e) /\ e.edges[c] = s /\ (\A b \in Containers \ {c} : e.edges[b] = d.edges[b])
      /\ e.placed = d.placed /\ SameUnits(d, e) /\ SameControls(d, e) /\ SameReferences(d, e)
  BY <1>4, <1>5, <1>3, EdgesOfOne
<1> QED  BY <1>2, <1>4, <1>6 DEF e, E

-----------------------------------------------------------------------------
\* Expressions, stream interfaces and channel defaults.

LEMMA MinIs == ASSUME NEW T, T \subseteq Nat, T # {} PROVE Min(T) \in T /\ \A m \in T : Min(T) <= m
BY LeastIs DEF Min

LEMMA FiltersAre ==
    /\ \A f \in Filters : DOMAIN f \subseteq Names /\ f = [n \in DOMAIN f |-> f[n]] /\ \A n \in DOMAIN f : f[n] \in SUBSET ProcDevices
    /\ \A S \in SUBSET Names : [S -> SUBSET ProcDevices] \subseteq Filters
<1>1. ASSUME NEW f \in Filters
      PROVE  DOMAIN f \subseteq Names /\ f = [n \in DOMAIN f |-> f[n]] /\ \A n \in DOMAIN f : f[n] \in SUBSET ProcDevices
  <2>1. PICK S \in SUBSET Names : f \in [S -> SUBSET ProcDevices]  BY DEF Filters
  <2> QED  BY <2>1
<1> QED  BY <1>1 DEF Filters

\* An edit of the expressions of one unit.
WithExpressions(d, u, f, x) == [d EXCEPT !.exprs[u] = [filters |-> f, default |-> x]]

LEMMA ExpressionsOfOne ==
    ASSUME NEW d \in Modules, IsWhole(d), NEW u \in Units, HasUnit(d, u),
           NEW f \in Filters, NEW x \in DOMAIN f \union {None}
    PROVE  WithExpressions(d, u, f, x) \in Modules /\ IsWhole(WithExpressions(d, u, f, x))
           /\ SameUnits(d, WithExpressions(d, u, f, x)) /\ WithExpressions(d, u, f, x).edges = d.edges
           /\ WithExpressions(d, u, f, x).placed = d.placed
           /\ ExprNames(WithExpressions(d, u, f, x), u) = DOMAIN f
           /\ \A v \in Units \ {u} : ExprNames(WithExpressions(d, u, f, x), v) = ExprNames(d, v)
<1> DEFINE e == WithExpressions(d, u, f, x)
           r == [filters |-> f, default |-> x]
           g == [d.exprs EXCEPT ![u] = r]
<1>1. d.exprs \in [Units -> Expressions] /\ RemovedAreEmpty(d) /\ ReferencesLive(d)  BY ModuleIs DEF IsWhole
<1>2. r \in Expressions /\ r.filters = f /\ r.default = x  BY FiltersAre DEF Expressions
<1> HIDE DEF r
<1>3. g \in [Units -> Expressions] /\ g[u] = r /\ \A v \in Units \ {u} : g[v] = d.exprs[v]  BY <1>1, <1>2
<1>4. e = [d EXCEPT !.exprs = g]  BY DEF WithExpressions, r
<1> HIDE DEF e, g
<1>5. e \in Modules /\ e.exprs = g /\ e.streams = d.streams /\ e.edges = d.edges /\ e.placed = d.placed
      /\ SameUnits(d, e) /\ SameControls(d, e)  BY <1>3, <1>4, ExpressionsSet
<1>6. ReferencesLive(e)
  <2>1. \A v \in Units : e.exprs[v].default \in ExprNames(e, v) \union {None}
    BY <1>2, <1>3, <1>5, <1>1 DEF ExprNames, ReferencesLive
  <2> QED  BY <2>1, <1>1, <1>5, SameDevices DEF ReferencesLive
<1> QED  BY <1>5, <1>6, ReferencesOnly, <1>1, <1>3, <1>2 DEF e, RemovedAreEmpty, ExprNames

LEMMA ExpressionsAre ==
    ASSUME NEW d \in Modules, IsWhole(d), NEW u \in Units
    PROVE  /\ d.exprs[u].filters \in Filters /\ d.exprs[u].default \in ExprNames(d, u) \union {None}
           /\ ExprNames(d, u) \subseteq Names /\ ExprNames(d, u) = DOMAIN d.exprs[u].filters
           /\ \A n \in ExprNames(d, u) : d.exprs[u].filters[n] \in SUBSET ProcDevices
           /\ ~HasUnit(d, u) => ExprNames(d, u) = {}
BY ModuleIs, FiltersAre DEF IsWhole, RemovedAreEmpty, NoExpressions, ExprNames, ReferencesLive, Expressions

LEMMA ExpressionAdded ==
    ASSUME NEW d \in Modules, IsWhole(d), NEW u \in Units, HasUnit(d, u), ExprNames(d, u) # Names
    PROVE  AddExpression(d, u) \in Modules /\ IsWhole(AddExpression(d, u)) /\ SameUnits(d, AddExpression(d, u))
           /\ AddExpression(d, u).edges = d.edges /\ AddExpression(d, u).placed = d.placed
           /\ ExprNames(d, u) \subseteq ExprNames(AddExpression(d, u), u) /\ ExprNames(AddExpression(d, u), u) # {}
           /\ \A v \in Units \ {u} : ExprNames(AddExpression(d, u), v) = ExprNames(d, v)
<1> DEFINE new == NewName(ExprNames(d, u))
           old == d.exprs[u].filters
           f == [name \in DOMAIN old \union {new} |-> IF name = new THEN {} ELSE old[name]]
           x == d.exprs[u].default
<1>1. /\ old \in Filters /\ x \in ExprNames(d, u) \union {None} /\ ExprNames(d, u) = DOMAIN old
      /\ ExprNames(d, u) \subseteq Names /\ \A n \in ExprNames(d, u) : old[n] \in SUBSET ProcDevices
  BY ExpressionsAre
<1>2. new \in Names
  <2>1. Names \subseteq Nat  BY SizesAre DEF Names
  <2> QED  BY <2>1, MinIs, <1>1 DEF NewName
<1>3. f \in Filters /\ DOMAIN f = DOMAIN old \union {new}  BY <1>1, FiltersAre, <1>2
<1>4. AddExpression(d, u) = WithExpressions(d, u, f, x)
  <2>1. \A F : [d.exprs[u] EXCEPT !.filters = F] = [filters |-> F, default |-> x]  BY ModuleIs DEF Expressions
  <2>2. AddExpression(d, u) = [d EXCEPT !.exprs[u] = [d.exprs[u] EXCEPT !.filters = f]]  BY DEF AddExpression
  <2> HIDE DEF f, x, old, new
  <2> QED  BY <2>1, <2>2 DEF WithExpressions
<1> HIDE DEF f, x, old, new
<1> QED  BY <1>1, <1>3, <1>4, ExpressionsOfOne

LEMMA ExpressionRemoved ==
    ASSUME NEW d \in Modules, IsWhole(d), NEW u \in Units, HasUnit(d, u), NEW name \in ExprNames(d, u)
    PROVE  RemoveExpression(d, u, name) \in Modules /\ IsWhole(RemoveExpression(d, u, name))
           /\ SameUnits(d, RemoveExpression(d, u, name))
           /\ RemoveExpression(d, u, name).edges = d.edges /\ RemoveExpression(d, u, name).placed = d.placed
           /\ ExprNames(RemoveExpression(d, u, name), u) = ExprNames(d, u) \ {name}
           /\ \A v \in Units \ {u} : ExprNames(RemoveExpression(d, u, name), v) = ExprNames(d, v)
<1> DEFINE old == d.exprs[u].filters
           rest == ExprNames(d, u) \ {name}
           f == Restrict(old, rest)
           x == IF d.exprs[u].default \in rest THEN d.exprs[u].default ELSE None
<1>1. /\ old \in Filters /\ ExprNames(d, u) = DOMAIN old
      /\ ExprNames(d, u) \subseteq Names /\ \A n \in ExprNames(d, u) : old[n] \in SUBSET ProcDevices
  BY ExpressionsAre
<1>2. f \in Filters /\ DOMAIN f = rest  BY <1>1, FiltersAre DEF Restrict
<1>3. x \in DOMAIN f \union {None}  BY <1>2
<1>4. RemoveExpression(d, u, name) = WithExpressions(d, u, f, x)  BY DEF RemoveExpression, WithExpressions
<1> HIDE DEF f, x, old, rest
<1> QED  BY <1>2, <1>3, <1>4, ExpressionsOfOne DEF rest

LEMMA ExpressionRenamed ==
    ASSUME NEW d \in Modules, IsWhole(d), NEW u \in Units, HasUnit(d, u), NEW old \in ExprNames(d, u), NEW new \in Names
    PROVE  RenameExpression(d, u, old, new) \in Modules /\ IsWhole(RenameExpression(d, u, old, new))
           /\ SameUnits(d, RenameExpression(d, u, old, new))
           /\ RenameExpression(d, u, old, new).edges = d.edges /\ RenameExpression(d, u, old, new).placed = d.placed
           /\ ExprNames(RenameExpression(d, u, old, new), u) = (ExprNames(d, u) \ {old}) \union {new}
           /\ \A v \in Units \ {u} : ExprNames(RenameExpression(d, u, old, new), v) = ExprNames(d, v)
<1> DEFINE was == d.exprs[u].filters
           names == (ExprNames(d, u) \ {old}) \union {new}
           f == [name \in names |-> was[IF name = new THEN old ELSE name]]
           x == IF d.exprs[u].default = old THEN new ELSE d.exprs[u].default
<1>1. /\ was \in Filters /\ ExprNames(d, u) = DOMAIN was /\ d.exprs[u].default \in ExprNames(d, u) \union {None}
      /\ ExprNames(d, u) \subseteq Names /\ \A n \in ExprNames(d, u) : was[n] \in SUBSET ProcDevices
  BY ExpressionsAre
<1>2. f \in Filters /\ DOMAIN f = names  BY <1>1, FiltersAre
<1>3. x \in DOMAIN f \union {None}  BY <1>1, <1>2
<1>4. RenameExpression(d, u, old, new) = WithExpressions(d, u, f, x)  BY DEF RenameExpression, WithExpressions
<1> HIDE DEF f, x, was, names
<1> QED  BY <1>2, <1>3, <1>4, ExpressionsOfOne DEF names

LEMMA DefaultSet ==
    ASSUME NEW d \in Modules, IsWhole(d), NEW u \in Units, HasUnit(d, u), NEW name \in ExprNames(d, u) \union {None}
    PROVE  SetDefaultExpression(d, u, name) \in Modules /\ IsWhole(SetDefaultExpression(d, u, name))
           /\ SameUnits(d, SetDefaultExpression(d, u, name))
           /\ SetDefaultExpression(d, u, name).edges = d.edges /\ SetDefaultExpression(d, u, name).placed = d.placed
           /\ \A v \in Units : ExprNames(SetDefaultExpression(d, u, name), v) = ExprNames(d, v)
<1> DEFINE f == d.exprs[u].filters
<1>1. f \in Filters /\ ExprNames(d, u) = DOMAIN f  BY ExpressionsAre
<1>2. SetDefaultExpression(d, u, name) = WithExpressions(d, u, f, name)
  BY ModuleIs DEF Expressions, SetDefaultExpression, WithExpressions
<1> HIDE DEF f
<1> QED  BY <1>1, <1>2, ExpressionsOfOne

LEMMA FilterToggled ==
    ASSUME NEW d \in Modules, IsWhole(d), NEW u \in Units, HasUnit(d, u), NEW name \in ExprNames(d, u),
           NEW dev \in ProcDevices
    PROVE  ToggleFilter(d, u, name, dev) \in Modules /\ IsWhole(ToggleFilter(d, u, name, dev))
           /\ SameUnits(d, ToggleFilter(d, u, name, dev))
           /\ ToggleFilter(d, u, name, dev).edges = d.edges /\ ToggleFilter(d, u, name, dev).placed = d.placed
           /\ \A v \in Units : ExprNames(ToggleFilter(d, u, name, dev), v) = ExprNames(d, v)
<1> DEFINE old == d.exprs[u].filters
           x == d.exprs[u].default
           f == [old EXCEPT ![name] = Toggled(old[name], dev)]
<1>1. /\ old \in Filters /\ x \in ExprNames(d, u) \union {None} /\ ExprNames(d, u) = DOMAIN old
      /\ ExprNames(d, u) \subseteq Names /\ \A n \in ExprNames(d, u) : old[n] \in SUBSET ProcDevices
  BY ExpressionsAre
<1>2. f \in Filters /\ DOMAIN f = DOMAIN old
  <2> DEFINE t == Toggled(old[name], dev)
  <2> HIDE DEF t, old
  <2>1. [old EXCEPT ![name] = t] \in [DOMAIN old -> SUBSET ProcDevices]  BY <1>1, FiltersAre DEF t, Toggled
  <2>2. f = [old EXCEPT ![name] = t]  BY DEF t
  <2> HIDE DEF f
  <2> QED  BY <2>1, <2>2, FiltersAre, <1>1
<1>3. ToggleFilter(d, u, name, dev) = WithExpressions(d, u, f, x)
  <2>1. \A F : [d.exprs[u] EXCEPT !.filters = F] = [filters |-> F, default |-> x]  BY ModuleIs DEF Expressions
  <2>2. ToggleFilter(d, u, name, dev) = [d EXCEPT !.exprs[u] = [d.exprs[u] EXCEPT !.filters = f]]  BY DEF ToggleFilter
  <2> HIDE DEF f, x, old
  <2> QED  BY <2>1, <2>2 DEF WithExpressions
<1> HIDE DEF f, x, old
<1> QED  BY <1>1, <1>2, <1>3, ExpressionsOfOne

\* An edit of the stream interfaces of one unit.
WithStreams(d, u, s) == [d EXCEPT !.streams[u] = s]
LEMMA StreamsOfOne ==
    ASSUME NEW d \in Modules, IsWhole(d), NEW u \in Units, HasUnit(d, u), NEW s \in Seq(Names \X Procs),
           Len(u) = 1 => \A i \in DOMAIN s : s[i][2] \in StreamProcs(d, u)
    PROVE  WithStreams(d, u, s) \in Modules /\ IsWhole(WithStreams(d, u, s)) /\ SameUnits(d, WithStreams(d, u, s))
           /\ WithStreams(d, u, s).edges = d.edges /\ WithStreams(d, u, s).placed = d.placed
           /\ WithStreams(d, u, s).exprs = d.exprs
<1> DEFINE e == WithStreams(d, u, s)
           g == [d.streams EXCEPT ![u] = s]
<1>1. d.streams \in [Units -> Seq(Names \X Procs)] /\ RemovedAreEmpty(d) /\ ReferencesLive(d)  BY ModuleIs DEF IsWhole
<1>2. g \in [Units -> Seq(Names \X Procs)] /\ g[u] = s /\ \A v \in Units \ {u} : g[v] = d.streams[v]  BY <1>1
<1>3. e = [d EXCEPT !.streams = g]  BY DEF WithStreams
<1> HIDE DEF e, g
<1>4. e \in Modules /\ e.streams = g /\ e.exprs = d.exprs /\ e.edges = d.edges /\ e.placed = d.placed
      /\ SameUnits(d, e) /\ SameControls(d, e)  BY <1>2, <1>3, StreamsSet
<1>5. ReferencesLive(e)
  <2>1. \A v \in Units : Len(v) = 1 => \A i \in DOMAIN e.streams[v] : e.streams[v][i][2] \in StreamProcs(d, v)
    BY <1>2, <1>4, <1>1 DEF ReferencesLive
  <2> QED  BY <2>1, <1>1, <1>4, SameDevices DEF ReferencesLive, ExprNames
<1>6. IsWhole(e)  BY <1>4, <1>5, ReferencesOnly, <1>1, <1>2 DEF RemovedAreEmpty
<1> QED  BY <1>4, <1>6 DEF e

LEMMA StreamsAre ==
    ASSUME NEW d \in Modules, IsWhole(d), NEW u \in Units
    PROVE  /\ d.streams[u] \in Seq(Names \X Procs) /\ StreamProcs(d, u) \subseteq Procs
           /\ Len(u) = 1 => \A i \in DOMAIN d.streams[u] : d.streams[u][i][2] \in StreamProcs(d, u)
           /\ StreamNames(d, u) \subseteq Names
           /\ \A name \in StreamNames(d, u) :
                 StreamIndex(d, u, name) \in DOMAIN d.streams[u] /\ d.streams[u][StreamIndex(d, u, name)][1] = name
<1>1. d.streams[u] \in Seq(Names \X Procs) /\ StreamProcs(d, u) \subseteq Procs  BY ModuleIs DEF StreamProcs
<1>2. ASSUME NEW name \in StreamNames(d, u)
      PROVE  StreamIndex(d, u, name) \in DOMAIN d.streams[u] /\ d.streams[u][StreamIndex(d, u, name)][1] = name
  <2> DEFINE s == d.streams[u]
             T == {i \in DOMAIN s : s[i][1] = name}
  <2>1. DOMAIN s \subseteq Nat /\ \A i \in DOMAIN s : 1..(i - 1) \subseteq DOMAIN s  BY <1>1
  <2>2. T # {} /\ T \subseteq Nat  BY <2>1 DEF StreamNames
  <2>3. PICK i \in T : \A j \in T : i <= j  BY <2>2, LeastIs
  <2>4. \A j \in 1..(i - 1) : s[j][1] # name
    <3> SUFFICES ASSUME NEW j \in 1..(i - 1), s[j][1] = name PROVE FALSE  OBVIOUS
    <3> QED  BY <2>2, <2>3, <2>1
  <2> QED  BY <2>3, <2>4 DEF StreamIndex
<1> QED  BY <1>1, <1>2 DEF IsWhole, ReferencesLive, StreamNames

\* Edits that the view does not show and the expressions do not notice.
Quiet(d, e) ==
    /\ e \in Modules /\ IsWhole(e) /\ SameUnits(d, e)
    /\ e.edges = d.edges /\ e.placed = d.placed
    /\ \A u \in Units : ExprNames(e, u) = ExprNames(d, u)

LEMMA StreamsAreQuiet ==
    ASSUME NEW d \in Modules, IsWhole(d), NEW u \in Units, HasUnit(d, u), NEW s \in Seq(Names \X Procs),
           Len(u) = 1 => \A i \in DOMAIN s : s[i][2] \in StreamProcs(d, u)
    PROVE  Quiet(d, WithStreams(d, u, s))
BY StreamsOfOne DEF Quiet, ExprNames

LEMMA StreamAdded ==
    ASSUME NEW d \in Modules, IsWhole(d), NEW u \in Units, HasUnit(d, u),
           StreamProcs(d, u) # {}, StreamNames(d, u) # Names
    PROVE  Quiet(d, AddStream(d, u))
<1> DEFINE x == <<NewName(StreamNames(d, u)), Min(StreamProcs(d, u))>>
           s == d.streams[u]
           a == Append(s, x)
<1>1. s \in Seq(Names \X Procs) /\ StreamProcs(d, u) \subseteq Procs /\ StreamNames(d, u) \subseteq Names
      /\ (Len(u) = 1 => \A i \in DOMAIN s : s[i][2] \in StreamProcs(d, u))  BY StreamsAre
<1>2. NewName(StreamNames(d, u)) \in Names
  <2>1. Names \subseteq Nat  BY SizesAre DEF Names
  <2> QED  BY <2>1, MinIs, <1>1 DEF NewName
<1>3. x \in Names \X Procs /\ x[2] \in StreamProcs(d, u)  BY <1>1, <1>2, SizesAre, MinIs DEF Procs
<1> HIDE DEF x, s
<1>4. a \in Seq(Names \X Procs) /\ ToSet(a) = ToSet(s) \union {x}  BY <1>1, <1>3, AppendedIs
<1>5. Len(u) = 1 => \A i \in DOMAIN a : a[i][2] \in StreamProcs(d, u)  BY <1>3, <1>4, <1>1 DEF ToSet
<1> HIDE DEF a
<1> QED  BY <1>4, <1>5, StreamsAreQuiet DEF AddStream, WithStreams, a, s, x

LEMMA StreamRenamed ==
    ASSUME NEW d \in Modules, IsWhole(d), NEW u \in Units, HasUnit(d, u),
           NEW old \in StreamNames(d, u), NEW new \in Names
    PROVE  Quiet(d, ChangeStreamName(d, u, old, new))
<1> DEFINE s == d.streams[u]
           i == StreamIndex(d, u, old)
           a == [s EXCEPT ![i] = <<new, s[i][2]>>]
<1>1. s \in Seq(Names \X Procs) /\ i \in DOMAIN s
      /\ (Len(u) = 1 => \A j \in DOMAIN s : s[j][2] \in StreamProcs(d, u))  BY StreamsAre
<1>2. ChangeStreamName(d, u, old, new) = WithStreams(d, u, [s EXCEPT ![i][1] = new])
  BY DEF ChangeStreamName, WithStreams
<1> HIDE DEF i, s
<1>3. s[i] \in Names \X Procs  BY <1>1
<1>4. a \in Seq(Names \X Procs) /\ DOMAIN a = DOMAIN s  BY <1>1, <1>3
<1>5. \A j \in DOMAIN a : a[j][2] = s[j][2]  BY <1>1
<1>6. ChangeStreamName(d, u, old, new) = WithStreams(d, u, a)
  <2> DEFINE p == s[i][1]
             q == s[i][2]
  <2>1. s[i] = <<p, q>>  BY <1>3
  <2> HIDE DEF p, q
  <2>2. [s[i] EXCEPT ![1] = new] = <<new, q>>  BY <2>1
  <2>3. [s EXCEPT ![i][1] = new] = a  BY <2>2 DEF p, q
  <2> QED  BY <2>3, <1>2
<1> HIDE DEF a
<1> QED  BY <1>1, <1>4, <1>5, <1>6, StreamsAreQuiet

LEMMA StreamRetargeted ==
    ASSUME NEW d \in Modules, IsWhole(d), NEW u \in Units, HasUnit(d, u),
           NEW name \in StreamNames(d, u), NEW n \in StreamProcs(d, u)
    PROVE  Quiet(d, SetStreamTarget(d, u, name, n))
<1> DEFINE s == d.streams[u]
           i == StreamIndex(d, u, name)
           a == [s EXCEPT ![i] = <<s[i][1], n>>]
<1>1. s \in Seq(Names \X Procs) /\ i \in DOMAIN s /\ n \in Procs
      /\ (Len(u) = 1 => \A j \in DOMAIN s : s[j][2] \in StreamProcs(d, u))  BY StreamsAre
<1>2. SetStreamTarget(d, u, name, n) = WithStreams(d, u, [s EXCEPT ![i][2] = n])  BY DEF SetStreamTarget, WithStreams
<1> HIDE DEF i, s
<1>3. s[i] \in Names \X Procs  BY <1>1
<1>4. a \in Seq(Names \X Procs) /\ DOMAIN a = DOMAIN s  BY <1>1, <1>3
<1>5. \A j \in DOMAIN a : a[j][2] \in {s[j][2], n}  BY <1>1
<1>6. SetStreamTarget(d, u, name, n) = WithStreams(d, u, a)
  <2> DEFINE p == s[i][1]
             q == s[i][2]
  <2>1. s[i] = <<p, q>>  BY <1>3
  <2> HIDE DEF p, q
  <2>2. [s[i] EXCEPT ![2] = n] = <<p, n>>  BY <2>1
  <2>3. [s EXCEPT ![i][2] = n] = a  BY <2>2 DEF p, q
  <2> QED  BY <2>3, <1>2
<1> HIDE DEF a
<1> QED  BY <1>1, <1>4, <1>6, StreamsAreQuiet, <1>5

LEMMA StreamDropped ==
    ASSUME NEW d \in Modules, IsWhole(d), NEW u \in Units, HasUnit(d, u), NEW name \in StreamNames(d, u)
    PROVE  Quiet(d, RemoveStream(d, u, name))
<1> DEFINE s == d.streams[u]
           i == StreamIndex(d, u, name)
           a == RemoveAt(s, i)
<1>1. s \in Seq(Names \X Procs) /\ i \in DOMAIN s
      /\ (Len(u) = 1 => \A j \in DOMAIN s : s[j][2] \in StreamProcs(d, u))  BY StreamsAre
<1>2. RemoveStream(d, u, name) = WithStreams(d, u, a)  BY DEF RemoveStream, WithStreams
<1> HIDE DEF i, s
<1>3. a \in Seq(Names \X Procs) /\ ToSet(a) \subseteq ToSet(s)  BY <1>1, RemoveAtIs, RemovedIs
<1>4. Len(u) = 1 => \A j \in DOMAIN a : a[j][2] \in StreamProcs(d, u)  BY <1>3, <1>1 DEF ToSet
<1> HIDE DEF a
<1> QED  BY <1>1, <1>3, <1>4, <1>2, StreamsAreQuiet

\* Controls and the units they are mapped to.
LEMMA ControlsAre ==
    ASSUME NEW d \in Modules, IsWhole(d)
    PROVE  /\ \A n \in Controls : d.cmap[n] # None => d.cmap[n] = n /\ n \in 0..(MaxUnit - 1) /\ <<n>> \in UnitsIn(d, <<>>)
           /\ \A u \in UnitsIn(d, <<>>) : Last(u) \in Controls /\ d.cmap[Last(u)] = Last(u)
           /\ \A ch \in Chs : d.channels[ch] \in Controls
<1>1. d.cmap \in [Controls -> {None} \union 0..(MaxUnit - 1)] /\ d.channels \in [Chs -> Controls]
      /\ ControlsAreExact(d) /\ ControlsAreNumbered(d) /\ Mapped(d)  BY ModuleIs, LinkedIs DEF IsWhole
<1>2. ASSUME NEW n \in Controls, d.cmap[n] # None
      PROVE  d.cmap[n] = n /\ n \in 0..(MaxUnit - 1) /\ <<n>> \in UnitsIn(d, <<>>)
  BY <1>1, <1>2, TopUnitIs DEF ControlsAreNumbered, Mapped, UnitsIn
<1>3. ASSUME NEW u \in UnitsIn(d, <<>>) PROVE Last(u) \in Controls /\ d.cmap[Last(u)] = Last(u)
  <2>1. PICK n \in Controls : {k \in Controls : d.cmap[k] = Last(u)} = {n}  BY <1>1 DEF ControlsAreExact
  <2>2. d.cmap[n] = Last(u)  BY <2>1
  <2> QED  BY <2>2, <1>2, NoneAssumption, UnitIs DEF UnitsIn
<1> QED  BY <1>1, <1>2, <1>3

LEMMA ChannelSet ==
    ASSUME NEW d \in Modules, IsWhole(d), NEW ch \in Chs, NEW n \in Controls, d.cmap[n] # None
    PROVE  Quiet(d, SetChannel(d, ch, n))
<1> DEFINE e == SetChannel(d, ch, n)
           f == [d.channels EXCEPT ![ch] = n]
<1>1. d.channels \in [Chs -> Controls] /\ ControlsAreExact(d) /\ ControlsAreNumbered(d) /\ RemovedAreEmpty(d)
      /\ ReferencesLive(d) /\ LayoutIsOfDevices(d) /\ Mapped(d) /\ Wired(d)  BY ModuleIs, LinkedIs DEF IsWhole
<1>2. f \in [Chs -> Controls] /\ \A k \in Chs : f[k] \in {n, d.channels[k]}  BY <1>1
<1>3. e = [d EXCEPT !.channels = f]  BY DEF SetChannel
<1> HIDE DEF e, f
<1>4. e \in Modules /\ e.channels = f /\ e.controls = d.controls /\ e.cmap = d.cmap
      /\ e.edges = d.edges /\ e.placed = d.placed /\ SameUnits(d, e) /\ SameReferences(d, e)
  BY <1>2, <1>3, ChannelsSet
<1>5. UnitsIn(d, <<>>) # {}  BY ControlsAre
<1>6. ControlsAreExact(e) /\ ControlsAreNumbered(e)
  BY <1>1, <1>4, <1>5, SameDevices, <1>2 DEF ControlsAreExact, ControlsAreNumbered
<1>7. IsLinked(e)  BY <1>1, <1>4, WiredFrame, MappedFrame, LinkedIs
<1>8. RemovedAreEmpty(e) /\ LayoutIsOfDevices(e)
  BY <1>1, <1>4, SameDevices DEF RemovedAreEmpty, LayoutIsOfDevices, SameReferences
<1>9. ReferencesLive(e)  BY <1>1, <1>4, SameDevices DEF ReferencesLive, SameReferences, ExprNames
<1>10. \A u \in Units : ExprNames(e, u) = ExprNames(d, u)  BY <1>4 DEF ExprNames, SameReferences
<1> QED  BY <1>4, <1>6, <1>7, <1>8, <1>9, <1>10 DEF Quiet, IsWhole, e

-----------------------------------------------------------------------------
\* Ports.

\* The devices stay, their ports need not.
SameKinds(d, e) == e.procs = d.procs /\ \A u \in Units : e.units[u].kind = d.units[u].kind

LEMMA KindsAre ==
    ASSUME NEW d, NEW e, SameKinds(d, e)
    PROVE  /\ \A u \in Units : HasUnit(e, u) <=> HasUnit(d, u)
           /\ \A c \in Containers : Exists(e, c) <=> Exists(d, c)
           /\ \A c : UnitsIn(e, c) = UnitsIn(d, c) /\ ProcsIn(e, c) = ProcsIn(d, c)
                     /\ DevicesIn(e, c) = DevicesIn(d, c) /\ StreamProcs(e, c) = StreamProcs(d, c)
BY ContainersAre DEF SameKinds, HasUnit, UnitsIn, ProcsIn, DevicesIn, StreamProcs, Exists

LEMMA KindsOnly ==
    ASSUME NEW d \in Modules, NEW e \in Modules, IsWhole(d), e.placed = d.placed,
           SameKinds(d, e), SameControls(d, e), SameReferences(d, e), Wired(e),
           \A u \in Units : ~HasUnit(d, u) => e.edges[u] = <<>>
    PROVE  IsWhole(e)
<1>1. IsLinked(e)  BY LinkedIs, TopUnitIs, KindsAre, ModuleIs DEF IsWhole, Mapped, SameControls
<1>2. ControlsAreExact(e) /\ ControlsAreNumbered(e)
  BY KindsAre DEF IsWhole, ControlsAreExact, ControlsAreNumbered, SameControls
<1> QED
  BY <1>1, <1>2, KindsAre DEF IsWhole, RemovedAreEmpty, SameReferences, ReferencesLive, ExprNames, LayoutIsOfDevices

\* What is connected stays connected when there are more ends.
LEMMA MoreEndsFit ==
    ASSUME NEW d \in Modules, NEW e \in Modules, NEW c \in Containers,
           \A dev, p : EndIn(d, c, dev, p) => EndIn(e, c, dev, p),
           Fits(ToSet(d.edges[c]), Shown(d, c))
    PROVE  Fits(ToSet(d.edges[c]), Shown(e, c))
<1> DEFINE E == ToSet(d.edges[c])
<1>1. E \subseteq Edges  BY ModuleIs DEF ToSet
<1>2. \A x \in E : EndsShown(x, Shown(e, c))
  <2> SUFFICES ASSUME NEW x \in E PROVE EndsShown(x, Shown(e, c))  OBVIOUS
  <2> QED  BY EndsShownAre, <1>1 DEF Fits
<1> HIDE DEF E
<1> QED  BY <1>2, FewerFit DEF E

WithPorts(d, u, S) == [d EXCEPT !.units[u].ports = S]
LEMMA PortsOfOne ==
    ASSUME NEW d \in Modules, NEW u \in Units, NEW S \in SUBSET Ports
    PROVE  /\ WithPorts(d, u, S) \in Modules /\ SameKinds(d, WithPorts(d, u, S))
           /\ WithPorts(d, u, S).edges = d.edges /\ WithPorts(d, u, S).placed = d.placed
           /\ SameControls(d, WithPorts(d, u, S)) /\ SameReferences(d, WithPorts(d, u, S))
           /\ WithPorts(d, u, S).units[u].ports = S
           /\ \A v \in Units \ {u} : WithPorts(d, u, S).units[v] = d.units[v]
<1> DEFINE e == WithPorts(d, u, S)
           r == [d.units[u] EXCEPT !.ports = S]
           f == [d.units EXCEPT ![u] = r]
<1>1. d.units \in [Units -> UnitKinds]  BY ModuleIs
<1>2. r \in UnitKinds /\ r.kind = d.units[u].kind /\ r.ports = S  BY <1>1 DEF UnitKinds
<1>3. e = [d EXCEPT !.units = f]  BY DEF WithPorts
<1> HIDE DEF r
<1>4. f \in [Units -> UnitKinds] /\ f[u] = r /\ \A v \in Units \ {u} : f[v] = d.units[v]  BY <1>1, <1>2
<1> HIDE DEF e, f
<1> QED  BY <1>2, <1>4, <1>3, UnitsSet DEF e, SameKinds

LEMMA PortAddedIs ==
    ASSUME NEW d \in Modules, IsWhole(d), NEW u \in Units, HasUnit(d, u), NEW p \in Ports
    PROVE  /\ AddPort(d, u, p) \in Modules /\ IsWhole(AddPort(d, u, p)) /\ SameKinds(d, AddPort(d, u, p))
           /\ AddPort(d, u, p).edges = d.edges /\ AddPort(d, u, p).placed = d.placed
           /\ SameReferences(d, AddPort(d, u, p))
           /\ AddPort(d, u, p).units[u].ports = d.units[u].ports \union {p}
           /\ \A v \in Units \ {u} : AddPort(d, u, p).units[v] = d.units[v]
<1> DEFINE S == d.units[u].ports \union {p}
           e == AddPort(d, u, p)
<1>1. S \in SUBSET Ports  BY ModuleIs DEF UnitKinds
<1>2. e = WithPorts(d, u, S)  BY DEF AddPort, WithPorts
<1> HIDE DEF e
<1>3. /\ e \in Modules /\ SameKinds(d, e) /\ e.edges = d.edges /\ e.placed = d.placed
      /\ SameControls(d, e) /\ SameReferences(d, e)
      /\ e.units[u].ports = S /\ \A v \in Units \ {u} : e.units[v] = d.units[v]  BY <1>1, <1>2, PortsOfOne
<1>4. \A v \in Units : d.units[v].ports \subseteq e.units[v].ports  BY <1>3
<1>5. ASSUME NEW c \in Containers, NEW dev, NEW q, EndIn(d, c, dev, q) PROVE EndIn(e, c, dev, q)
  BY ContainersAre, <1>4, <1>3, KindsAre, <1>5 DEF OutPorts, EndIn, InPorts, SameKinds
<1>6. Wired(e)
  <2> SUFFICES ASSUME NEW c \in Containers, Exists(d, c)
               PROVE  Distinct(d.edges[c]) /\ Fits(ToSet(d.edges[c]), Shown(e, c))  BY <1>3, KindsAre DEF Wired
  <2> QED  BY <1>3, <1>5, MoreEndsFit, LinkedIs DEF Wired, IsWhole
<1> QED  BY <1>3, <1>6, KindsOnly DEF e, S, IsWhole, RemovedAreEmpty

\* Connections without the ones to a port.
LEMMA WithoutPathIs ==
    ASSUME NEW s \in Seq(Edges), NEW path
    PROVE  /\ WithoutPath(s, path) \in Seq(Edges) /\ (Distinct(s) => Distinct(WithoutPath(s, path)))
           /\ \A x : x \in ToSet(WithoutPath(s, path)) <=> x \in ToSet(s) /\ x[1] # path /\ x[2] # path
BY KeepingIs DEF WithoutPath

LEMMA PathOfPort ==
    ASSUME NEW p \in Ports
    PROVE  /\ \E dev \in {Master, Iin} : IsEnd(dev, p) /\ <<p>> = MakePath(dev, p)
           /\ \A dev \in {Master, Iin} : MakePath(dev, p) = <<p>>
           /\ \A dev \in UnitDevices : IsEnd(dev, p) /\ MakePath(dev, p) = <<dev, p>>
BY PortsAre, DeviceNamesAre DEF MakePath, IsEnd, IsRemovable

\* A path and its end say the same.
LEMMA PathMeans ==
    ASSUME NEW path \in Paths, NEW dev, NEW p, IsEnd(dev, p)
    PROVE  path = MakePath(dev, p) <=> SplitPath(path)[1] = dev /\ SplitPath(path)[2] = p
BY EndIs, PathIs

\* The connections of a container that still have their ends.
LEMMA ThoseWithEndsFit ==
    ASSUME NEW d \in Modules, NEW e \in Modules, NEW c \in Containers, Fits(ToSet(d.edges[c]), Shown(d, c)),
           \A x \in ToSet(d.edges[c]) : x \in ToSet(e.edges[c]) <=> EndsShown(x, Shown(e, c)),
           ToSet(e.edges[c]) \subseteq ToSet(d.edges[c])
    PROVE  Fits(ToSet(e.edges[c]), Shown(e, c))
<1> DEFINE E == ToSet(d.edges[c])
           F == ToSet(e.edges[c])
<1> HIDE DEF E, F
<1> QED  BY FewerFit DEF E, F

LEMMA PortRemovedIs ==
    ASSUME NEW d \in Modules, IsWhole(d), NEW u \in Units, HasUnit(d, u), NEW p \in Ports
    PROVE  /\ RemovePort(d, u, p) \in Modules /\ IsWhole(RemovePort(d, u, p)) /\ SameKinds(d, RemovePort(d, u, p))
           /\ RemovePort(d, u, p).placed = d.placed /\ SameReferences(d, RemovePort(d, u, p))
           /\ KeepsEdges(d, RemovePort(d, u, p))
           /\ \A v \in Units \ {u} : RemovePort(d, u, p).units[v] = d.units[v]
           /\ \A c \in Containers : ToSet(RemovePort(d, u, p).edges[c]) \subseteq ToSet(d.edges[c])
<1> DEFINE e == RemovePort(d, u, p)
           S == d.units[u].ports \ {p}
           m == WithPorts(d, u, S)
           own == <<p>>
           outer == <<UnitDevice(u), p>>
           A == WithoutPath(d.edges[u], own)
           B == WithoutPath(d.edges[Front(u)], outer)
           f == [d.edges EXCEPT ![u] = A, ![Front(u)] = B]
<1>1. d.units \in [Units -> UnitKinds] /\ d.edges \in [Containers -> Seq(Edges)]  BY ModuleIs
<1>2. u \in Containers /\ Front(u) \in Containers /\ Front(u) # u /\ u # <<>>  BY UnitIs
<1>3. S \in SUBSET Ports /\ \A q : q \in S <=> q \in d.units[u].ports /\ q # p  BY <1>1 DEF UnitKinds
<1>4. e = [m EXCEPT !.edges = f]  BY <1>1, <1>2 DEF RemovePort, WithPorts
<1> HIDE DEF own, outer, S
<1>5. /\ m \in Modules /\ SameKinds(d, m) /\ m.edges = d.edges /\ m.placed = d.placed
      /\ SameControls(d, m) /\ SameReferences(d, m)
      /\ m.units[u].ports = S /\ \A v \in Units \ {u} : m.units[v] = d.units[v]  BY <1>3, PortsOfOne
<1>6. /\ A \in Seq(Edges) /\ (Distinct(d.edges[u]) => Distinct(A))
      /\ \A x : x \in ToSet(A) <=> x \in ToSet(d.edges[u]) /\ x[1] # own /\ x[2] # own  BY <1>1, <1>2, WithoutPathIs
<1>7. /\ B \in Seq(Edges) /\ (Distinct(d.edges[Front(u)]) => Distinct(B))
      /\ \A x : x \in ToSet(B) <=> x \in ToSet(d.edges[Front(u)]) /\ x[1] # outer /\ x[2] # outer
  BY <1>1, <1>2, WithoutPathIs
<1> HIDE DEF A, B, m, e
<1>8. f \in [Containers -> Seq(Edges)] /\ f[u] = A /\ f[Front(u)] = B /\ \A c \in Containers \ {u, Front(u)} : f[c] = d.edges[c]
  BY <1>1, <1>2, <1>6, <1>7
<1> HIDE DEF f
<1>9. e \in Modules /\ e.edges = f /\ e.placed = m.placed /\ SameUnits(m, e) /\ SameControls(m, e) /\ SameReferences(m, e)
  BY <1>4, <1>5, <1>8, EdgesSet
<1>10. /\ e.units[u].ports = S /\ \A v \in Units \ {u} : e.units[v] = d.units[v]  BY <1>5, <1>9 DEF SameUnits
<1>11. SameKinds(d, e)  BY <1>5, <1>9 DEF SameKinds, SameUnits
<1>12. SameControls(d, e) /\ SameReferences(d, e) /\ e.placed = d.placed
  BY <1>5, <1>9 DEF SameControls, SameReferences
<1>13. ASSUME NEW c \in Containers, NEW dev, NEW q
       PROVE  EndIn(e, c, dev, q) <=> /\ EndIn(d, c, dev, q)
                                      /\ ~(c = u /\ dev \in {Master, Iin} /\ q = p)
                                      /\ ~(c = Front(u) /\ dev = UnitDevice(u) /\ q = p)
  <2>1. \A v \in Units : HasUnit(e, v) <=> HasUnit(d, v)  BY <1>11, KindsAre
  <2>2. CASE dev = Master
    BY <2>2, DeviceNamesAre, DevicesDiffer, ContainersAre, <1>2, <1>3, <1>10 DEF EndIn, OutPorts
  <2>3. CASE dev = Iin  BY <2>3, DeviceNamesAre, DevicesDiffer, ContainersAre, <1>2, <1>3, <1>10 DEF EndIn, InPorts
  <2>4. CASE dev \notin {Master, Iin}
    <3>1. \A x : EndIn(x, c, dev, q) <=>
            \/ \E v \in Units : Front(v) = c /\ dev = UnitDevice(v) /\ HasUnit(x, v) /\ q \in x.units[v].ports
            \/ \E n \in Procs : c # <<>> /\ dev = ProcDevice(n) /\ x.procs[c][n] # None /\ q \in ProcPorts[x.procs[c][n]]
      BY <2>4 DEF EndIn
    <3>2. CASE c = Front(u) /\ dev = UnitDevice(u)
      <4>1. \A n : dev # ProcDevice(n)  BY <3>2, DevicesDiffer
      <4>2. \A x : EndIn(x, c, dev, q) <=> HasUnit(x, u) /\ q \in x.units[u].ports
        BY <3>1, <3>2, <4>1, DevicesDiffer, UnitIs
      <4> QED  BY <4>2, <3>2, <2>1, <2>4, <1>2, <1>3, <1>10
    <3>3. CASE ~(c = Front(u) /\ dev = UnitDevice(u))  BY <3>3, <1>10, <3>1, <2>1, <2>4, <1>11 DEF SameKinds
    <3> QED  BY <3>2, <3>3
  <2> QED  BY <2>2, <2>3, <2>4
<1>14. ASSUME NEW c \in Containers, Exists(d, c), NEW x \in ToSet(d.edges[c])
       PROVE  x \in ToSet(e.edges[c]) <=> EndsShown(x, Shown(e, c))
  <2>1. x \in Edges /\ EndsShown(x, Shown(d, c))  BY <1>14, EdgesAre
  <2> DEFINE a == Sender(x)
             i == EdgeEnds(x)[1][2]
             b == Receiver(x)
             j == EdgeEnds(x)[2][2]
  <2> HIDE DEF a, i, b, j
  <2>2. UnitDevice(u) \in UnitDevices /\ UnitDevice(u) \notin {Master, Iin}  BY DevicesAreNamed, DevicesDiffer
  <2>3. \A path \in Paths : \A dev, q : IsEnd(dev, q) /\ SplitPath(path)[1] = dev /\ SplitPath(path)[2] = q =>
          /\ path = own <=> dev \in {Master, Iin} /\ q = p
          /\ path = outer <=> dev = UnitDevice(u) /\ q = p
    <3> SUFFICES ASSUME NEW path \in Paths, NEW dev, NEW q, IsEnd(dev, q), SplitPath(path)[1] = dev, SplitPath(path)[2] = q
                 PROVE  (path = own <=> dev \in {Master, Iin} /\ q = p) /\ (path = outer <=> dev = UnitDevice(u) /\ q = p)
      OBVIOUS
    <3>1. path = MakePath(dev, q)  BY PathMeans
    <3>2. path = outer <=> dev = UnitDevice(u) /\ q = p  BY <2>2, PathOfPort, PathMeans DEF outer
    <3>3. path = own <=> dev \in {Master, Iin} /\ q = p
      <4>1. PICK y \in {Master, Iin} : IsEnd(y, p) /\ own = MakePath(y, p)  BY PathOfPort DEF own
      <4>2. path = own <=> dev = y /\ q = p  BY <4>1, PathMeans
      <4>3. dev \in {Master, Iin} /\ q = p => path = own  BY <3>1, PathOfPort DEF own
      <4> QED  BY <4>1, <4>2, <4>3
    <3> QED  BY <3>2, <3>3
  <2>4. /\ x[1] = own <=> a \in {Master, Iin} /\ i = p
        /\ x[1] = outer <=> a = UnitDevice(u) /\ i = p
        /\ x[2] = own <=> b \in {Master, Iin} /\ j = p
        /\ x[2] = outer <=> b = UnitDevice(u) /\ j = p  BY <2>3, <2>1, EdgeIs DEF a, i, b, j
  <2>5. x \in ToSet(e.edges[c]) <=>
          /\ ~(c = u /\ (x[1] = own \/ x[2] = own))
          /\ ~(c = Front(u) /\ (x[1] = outer \/ x[2] = outer))  BY <1>2, <1>6, <1>8, <1>9, <1>14, <1>7
  <2>6. EndsShown(x, Shown(e, c)) <=>
          /\ ~(c = u /\ a \in {Master, Iin} /\ i = p) /\ ~(c = Front(u) /\ a = UnitDevice(u) /\ i = p)
          /\ ~(c = u /\ b \in {Master, Iin} /\ j = p) /\ ~(c = Front(u) /\ b = UnitDevice(u) /\ j = p)
    BY <1>13, <2>1, EndsShownAre, <1>9 DEF a, b, i, j
  <2> QED  BY <2>4, <2>5, <2>6
<1>15. ASSUME NEW c \in Containers
       PROVE  ToSet(e.edges[c]) \subseteq ToSet(d.edges[c]) /\ (Distinct(d.edges[c]) => Distinct(e.edges[c]))
  BY <1>2, <1>6, <1>8, <1>9, <1>7
<1>16. Wired(e)
  <2> SUFFICES ASSUME NEW c \in Containers, Exists(d, c)
               PROVE  Distinct(e.edges[c]) /\ Fits(ToSet(e.edges[c]), Shown(e, c))  BY <1>11, KindsAre DEF Wired
  <2> QED  BY <1>9, <1>14, <1>15, ThoseWithEndsFit, LinkedIs DEF Wired, IsWhole
<1>17. ASSUME NEW v \in Units, ~HasUnit(d, v) PROVE d.edges[v] = <<>> /\ e.edges[v] = <<>>
  BY <1>17, ContainersAre, <1>8, <1>9 DEF RemovedAreEmpty, UnitsIn, IsWhole
<1>18. IsWhole(e)  BY <1>9, <1>11, <1>12, <1>16, <1>17, KindsOnly
<1>19. KeepsEdges(d, e)
  <2> SUFFICES ASSUME NEW c \in Containers, NEW x \in ToSet(d.edges[c]), x \notin ToSet(e.edges[c])
               PROVE  ~EndsShown(x, Shown(e, c))  BY DEF KeepsEdges
  <2>1. Exists(d, c)
    <3> SUFFICES ASSUME ~Exists(d, c) PROVE FALSE  OBVIOUS
    <3> QED  BY <1>17, ContainersAre DEF ToSet, Exists
  <2> QED  BY <2>1, <1>14
<1> QED  BY <1>9, <1>10, <1>11, <1>12, <1>15, <1>18, <1>19 DEF e

-----------------------------------------------------------------------------
\* Processors.

\* What a container shows is of its own: its ports, units and processors.
LEMMA SameShown ==
    ASSUME NEW d, NEW e, NEW c \in Containers,
           \A v \in Units : v = c \/ Front(v) = c => e.units[v] = d.units[v],
           c # <<>> => e.procs[c] = d.procs[c]
    PROVE  DevicesIn(e, c) = DevicesIn(d, c) /\ Shown(e, c) = Shown(d, c)
<1>1. c # <<>> => c \in Units  BY ContainersAre
<1>2. ASSUME NEW dev \in DevicesIn(d, c) PROVE PortsOf(e, c, dev) = PortsOf(d, c, dev)
  <2>1. CASE dev = Master  BY <1>1, <2>1, DeviceNamesAre DEF OutPorts, PortsOf
  <2>2. CASE dev = Iin
    <3>1. InPorts(e, c) = InPorts(d, c)  BY <1>1, <2>2, <1>2, DevicesInAre, DevicesDiffer, DeviceNamesAre DEF InPorts
    <3> QED  BY <2>2, <3>1, DeviceNamesAre DEF PortsOf
  <2>3. CASE dev[1] = "au"
    <3>1. PICK u \in UnitsIn(d, c) : dev = UnitDevice(u) /\ Append(c, dev[2]) = u  BY <2>3, DevicesInTyped
    <3> QED  BY <2>3, <3>1, DeviceNamesAre DEF PortsOf, UnitsIn
  <2>4. CASE dev[1] = "proc"  BY <2>4, DevicesInTyped, DeviceNamesAre DEF PortsOf
  <2> QED  BY <2>1, <2>2, <2>3, <2>4, DevicesInAre, DevicesDiffer
<1> QED  BY <1>2 DEF Shown, DevicesIn, UnitsIn, ProcsIn, HasUnit

LEMMA ProcOfOne ==
    ASSUME NEW d \in Modules, NEW u \in Units, NEW n \in Procs, NEW t \in {None} \union DOMAIN ProcPorts
    PROVE  /\ AddProcessor(d, u, n, t) \in Modules /\ AddProcessor(d, u, n, t).units = d.units
           /\ AddProcessor(d, u, n, t).edges = d.edges /\ AddProcessor(d, u, n, t).placed = d.placed
           /\ SameControls(d, AddProcessor(d, u, n, t)) /\ SameReferences(d, AddProcessor(d, u, n, t))
           /\ AddProcessor(d, u, n, t).procs[u][n] = t
           /\ \A m \in Procs \ {n} : AddProcessor(d, u, n, t).procs[u][m] = d.procs[u][m]
           /\ \A v \in Units \ {u} : AddProcessor(d, u, n, t).procs[v] = d.procs[v]
<1> DEFINE e == AddProcessor(d, u, n, t)
           r == [d.procs[u] EXCEPT ![n] = t]
           f == [d.procs EXCEPT ![u] = r]
<1>1. d.procs \in [Units -> [Procs -> {None} \union DOMAIN ProcPorts]]  BY ModuleIs
<1>2. r \in [Procs -> {None} \union DOMAIN ProcPorts] /\ r[n] = t /\ \A m \in Procs \ {n} : r[m] = d.procs[u][m]
  BY <1>1
<1>3. e = [d EXCEPT !.procs = f]  BY DEF AddProcessor
<1> HIDE DEF r
<1>4. f \in [Units -> [Procs -> {None} \union DOMAIN ProcPorts]] /\ f[u] = r /\ \A v \in Units \ {u} : f[v] = d.procs[v]
  BY <1>1, <1>2
<1> HIDE DEF e, f
<1> QED  BY <1>2, <1>4, <1>3, ProcsSet DEF e

LEMMA ProcessorAdded ==
    ASSUME NEW d \in Modules, IsWhole(d), NEW u \in Units, HasUnit(d, u), NEW n \in Procs, d.procs[u][n] = None,
           NEW t \in DOMAIN ProcPorts
    PROVE  /\ AddProcessor(d, u, n, t) \in Modules /\ IsWhole(AddProcessor(d, u, n, t))
           /\ AddProcessor(d, u, n, t).units = d.units /\ AddProcessor(d, u, n, t).edges = d.edges
           /\ AddProcessor(d, u, n, t).placed = d.placed /\ SameReferences(d, AddProcessor(d, u, n, t))
           /\ \A c \in Containers : DevicesIn(d, c) \subseteq DevicesIn(AddProcessor(d, u, n, t), c)
           /\ \A c \in Containers \ {u} : Shown(AddProcessor(d, u, n, t), c) = Shown(d, c)
<1> DEFINE e == AddProcessor(d, u, n, t)
<1>1. Wired(d) /\ Mapped(d) /\ RemovedAreEmpty(d) /\ ControlsAreExact(d) /\ ControlsAreNumbered(d) /\ ReferencesLive(d)
      /\ LayoutIsOfDevices(d)  BY LinkedIs DEF IsWhole
<1>2. /\ e \in Modules /\ e.units = d.units /\ e.edges = d.edges /\ e.placed = d.placed
      /\ SameControls(d, e) /\ SameReferences(d, e) /\ e.procs[u][n] = t
      /\ \A m \in Procs \ {n} : e.procs[u][m] = d.procs[u][m]
      /\ \A v \in Units \ {u} : e.procs[v] = d.procs[v]  BY ProcOfOne
<1> HIDE DEF e
<1>3. t # None  BY NoneAssumption
<1>4. \A v \in Units : HasUnit(e, v) <=> HasUnit(d, v)  BY <1>2 DEF HasUnit
<1>5. \A c : UnitsIn(e, c) = UnitsIn(d, c)  BY <1>4 DEF UnitsIn
<1>6. \A v \in Units, m \in Procs : d.procs[v][m] # None => e.procs[v][m] = d.procs[v][m]  BY <1>2
<1>7. ASSUME NEW c \in Containers, NEW dev, NEW p, EndIn(d, c, dev, p) PROVE EndIn(e, c, dev, p)
  <2>1. OutPorts(e, c) = OutPorts(d, c) /\ InPorts(e, c) = InPorts(d, c)  BY <1>2 DEF OutPorts, InPorts
  <2>2. \A m \in Procs : c # <<>> /\ d.procs[c][m] # None => e.procs[c][m] = d.procs[c][m]  BY <1>6, ContainersAre
  <2> QED  BY <1>7, <1>2, <1>4, <2>1, <2>2 DEF EndIn
<1>8. ASSUME NEW c \in Containers PROVE DevicesIn(d, c) \subseteq DevicesIn(e, c)
  <2>1. \A m \in Procs : c # <<>> /\ d.procs[c][m] # None => e.procs[c][m] # None  BY <1>6, ContainersAre
  <2> QED  BY <2>1, <1>4, DevicesInAre
<1>9. ASSUME NEW c \in Containers \ {u} PROVE Shown(e, c) = Shown(d, c)
  <2>1. (\A v \in Units : e.units[v] = d.units[v]) /\ (c # <<>> => e.procs[c] = d.procs[c])  BY <1>2, ContainersAre
  <2> QED  BY <2>1, SameShown
<1>10. \A c \in Containers : Exists(e, c) <=> Exists(d, c)  BY <1>4, ContainersAre DEF Exists
<1>11. IsLinked(e)
  <2>1. Wired(e)
    <3> SUFFICES ASSUME NEW c \in Containers, Exists(d, c)
                 PROVE  Distinct(d.edges[c]) /\ Fits(ToSet(d.edges[c]), Shown(e, c))  BY <1>2, <1>10 DEF Wired
    <3>1. Distinct(d.edges[c]) /\ Fits(ToSet(d.edges[c]), Shown(d, c))  BY <1>1 DEF Wired
    <3> QED  BY <3>1, <1>2, <1>7, MoreEndsFit
  <2>2. Mapped(e)  BY <1>1, <1>2 DEF Mapped, SameControls, HasUnit
  <2> QED  BY <2>1, <2>2, <1>2, LinkedIs
<1>12. RemovedAreEmpty(e)
  <2> SUFFICES ASSUME NEW v \in Units, ~HasUnit(d, v)
               PROVE  /\ ProcsIn(e, v) = {} /\ UnitsIn(e, v) = {} /\ e.edges[v] = <<>> /\ e.placed[v] = {}
                      /\ e.exprs[v] = NoExpressions /\ e.streams[v] = <<>>  BY <1>4 DEF RemovedAreEmpty
  <2>1. v # u  OBVIOUS
  <2>2. ProcsIn(e, v) = ProcsIn(d, v)  BY <2>1, <1>2 DEF ProcsIn
  <2> QED  BY <2>2, <1>1, <1>2, <1>5 DEF RemovedAreEmpty, SameReferences
<1>13. ControlsAreExact(e) /\ ControlsAreNumbered(e)
  BY <1>1, <1>2, <1>5 DEF ControlsAreExact, ControlsAreNumbered, SameControls
<1>14. ReferencesLive(e)
  <2>1. \A v \in Units : StreamProcs(d, v) \subseteq StreamProcs(e, v)
    <3>1. None # "stream"  BY NoneAssumption
    <3>2. \A v \in Units, m \in Procs : d.procs[v][m] = "stream" => e.procs[v][m] = "stream"  BY <3>1, <1>6
    <3> QED  BY <3>2 DEF StreamProcs
  <2> QED  BY <2>1, <1>1, <1>2 DEF ReferencesLive, SameReferences, ExprNames
<1>15. LayoutIsOfDevices(e)  BY <1>1, <1>2, <1>8 DEF LayoutIsOfDevices
<1>16. IsWhole(e)  BY <1>11, <1>12, <1>13, <1>14, <1>15 DEF IsWhole
<1> QED  BY <1>2, <1>8, <1>9, <1>16 DEF e

\* The layout forgets a device that is gone, and the module is whole.
LEMMA LayoutForgets ==
    ASSUME NEW d \in Modules, HoldsTogether(d), NEW c \in Containers, Exists(d, c), NEW dev, dev \notin DevicesIn(d, c),
           d.placed[c] \subseteq DevicesIn(d, c) \union {dev},
           \A b \in Containers \ {c} : d.placed[b] \subseteq DevicesIn(d, b)
    PROVE  /\ IsWhole(DropLayout(d, c, dev))
           /\ dev \notin d.placed[c] => IsWhole(d)
<1> DEFINE e == DropLayout(d, c, dev)
<1>1. /\ e \in Modules /\ SameUnits(d, e) /\ SameControls(d, e) /\ SameReferences(d, e) /\ e.edges = d.edges
      /\ e.placed[c] = d.placed[c] \ {dev} /\ \A b \in Containers \ {c} : e.placed[b] = d.placed[b]  BY LayoutDropped
<1> HIDE DEF e
<1>2. \A b \in Containers : ~Exists(d, b) => e.placed[b] = {}
  <2> SUFFICES ASSUME NEW b \in Containers, ~Exists(d, b) PROVE e.placed[b] = {}  OBVIOUS
  <2> QED  BY <1>1, ContainersAre DEF HoldsTogether, RemovedAreEmpty, Exists
<1> QED  BY <1>1, <1>2, PlacedOnly DEF e, LayoutIsOfDevices, IsWhole, HoldsTogether

\* No connection has an end at the device.
Unconnected(d, c, dev) == \A x \in ToSet(d.edges[c]) : Sender(x) # dev /\ Receiver(x) # dev

LEMMA ProcessorRemoved ==
    ASSUME NEW d \in Modules, IsWhole(d), NEW u \in Units, HasUnit(d, u), NEW n \in Procs, Unconnected(d, u, ProcDevice(n))
    PROVE  /\ RemoveProcessor(d, u, n) \in Modules /\ HoldsTogether(RemoveProcessor(d, u, n))
           /\ RemoveProcessor(d, u, n).units = d.units /\ RemoveProcessor(d, u, n).edges = d.edges
           /\ RemoveProcessor(d, u, n).placed = d.placed /\ RemoveProcessor(d, u, n).exprs = d.exprs
           /\ DevicesIn(RemoveProcessor(d, u, n), u) = DevicesIn(d, u) \ {ProcDevice(n)}
           /\ \A c \in Containers \ {u} : DevicesIn(RemoveProcessor(d, u, n), c) = DevicesIn(d, c)
                                          /\ Shown(RemoveProcessor(d, u, n), c) = Shown(d, c)
<1> DEFINE m == AddProcessor(d, u, n, None)
           s == IF Len(u) = 1 THEN Keeping(d.streams[u], {x \in ToSet(d.streams[u]) : x[2] # n}) ELSE d.streams[u]
           e == RemoveProcessor(d, u, n)
           f == [d.streams EXCEPT ![u] = s]
<1>1. Wired(d) /\ Mapped(d) /\ RemovedAreEmpty(d) /\ ControlsAreExact(d) /\ ControlsAreNumbered(d) /\ ReferencesLive(d)
  BY LinkedIs DEF IsWhole
<1>2. d.streams[u] \in Seq(Names \X Procs) /\ d.streams \in [Units -> Seq(Names \X Procs)]  BY ModuleIs
<1>3. s \in Seq(Names \X Procs) /\ (Len(u) = 1 => \A x \in ToSet(s) : x \in ToSet(d.streams[u]) /\ x[2] # n)
  <2>1. CASE Len(u) = 1
    <3> DEFINE K == {x \in ToSet(d.streams[u]) : x[2] # n}
    <3>1. \A x \in K : x \in ToSet(d.streams[u]) /\ x[2] # n  OBVIOUS
    <3> HIDE DEF K
    <3>2. Keeping(d.streams[u], K) \in Seq(Names \X Procs)
          /\ ToSet(Keeping(d.streams[u], K)) = ToSet(d.streams[u]) \intersect K  BY <1>2, KeepingIs
    <3>3. s = Keeping(d.streams[u], K)  BY <2>1 DEF K
    <3> HIDE DEF s
    <3> QED  BY <3>1, <3>2, <3>3
  <2>2. CASE Len(u) # 1  BY <2>2, <1>2
  <2> QED  BY <2>1, <2>2
<1>4. /\ m \in Modules /\ m.units = d.units /\ m.edges = d.edges /\ m.placed = d.placed
      /\ SameControls(d, m) /\ SameReferences(d, m) /\ m.procs[u][n] = None
      /\ \A k \in Procs \ {n} : m.procs[u][k] = d.procs[u][k]
      /\ \A v \in Units \ {u} : m.procs[v] = d.procs[v]  BY ProcOfOne
<1>5. e = [m EXCEPT !.streams = f]  BY DEF RemoveProcessor, AddProcessor
<1> HIDE DEF m, s, e
<1>6. f \in [Units -> Seq(Names \X Procs)] /\ f[u] = s /\ \A v \in Units \ {u} : f[v] = d.streams[v]  BY <1>2, <1>3
<1> HIDE DEF f
<1>7. /\ e \in Modules /\ e.streams = f /\ e.exprs = d.exprs /\ e.edges = d.edges /\ e.placed = d.placed
      /\ e.units = d.units /\ SameControls(d, e) /\ e.procs[u][n] = None
      /\ \A k \in Procs \ {n} : e.procs[u][k] = d.procs[u][k]
      /\ \A v \in Units \ {u} : e.procs[v] = d.procs[v]
  BY <1>4, <1>5, <1>6, StreamsSet DEF SameUnits, SameControls, SameReferences
<1>8. \A v \in Units : HasUnit(e, v) <=> HasUnit(d, v)  BY <1>7 DEF HasUnit
<1>9. \A c : UnitsIn(e, c) = UnitsIn(d, c)  BY <1>8 DEF UnitsIn
<1>10. \A v \in Units : ProcsIn(e, v) \subseteq ProcsIn(d, v)
  <2> SUFFICES ASSUME NEW v \in Units, NEW k \in Procs, e.procs[v][k] # None PROVE d.procs[v][k] # None
    BY ContainersAre DEF ProcsIn
  <2> QED  BY <1>7
<1>11. u # <<>> /\ u \in Containers  BY UnitIs
<1>12. DevicesIn(e, u) = DevicesIn(d, u) \ {ProcDevice(n)}
  <2> SUFFICES ASSUME NEW dev PROVE dev \in DevicesIn(e, u) <=> dev \in DevicesIn(d, u) /\ dev # ProcDevice(n)
    OBVIOUS
  <2>1. \A k \in Procs : dev = ProcDevice(k) => (dev = ProcDevice(n) <=> k = n)  BY DevicesDiffer
  <2>2. (dev \in {Master, Iin} \/ \E v : dev = UnitDevice(v)) => dev # ProcDevice(n)  BY DevicesDiffer
  <2> QED  BY <2>1, <2>2, <1>8, <1>11, DevicesInAre, <1>7
<1>13. \A c \in Containers \ {u} : DevicesIn(e, c) = DevicesIn(d, c) /\ Shown(e, c) = Shown(d, c)
  BY <1>7, ContainersAre, SameShown
<1>14. \A dev, p : EndIn(d, u, dev, p) /\ dev # ProcDevice(n) => EndIn(e, u, dev, p)
  <2> SUFFICES ASSUME NEW dev, NEW p, EndIn(d, u, dev, p), dev # ProcDevice(n) PROVE EndIn(e, u, dev, p)  OBVIOUS
  <2>1. OutPorts(e, u) = OutPorts(d, u) /\ InPorts(e, u) = InPorts(d, u)  BY <1>7 DEF OutPorts, InPorts
  <2>2. \A k \in Procs : dev = ProcDevice(k) => e.procs[u][k] = d.procs[u][k]  BY <1>7
  <2> QED  BY <2>1, <2>2, <1>7, <1>8 DEF EndIn
<1>15. IsLinked(e)
  <2>1. Wired(e)
    <3> SUFFICES ASSUME NEW c \in Containers, Exists(d, c)
                 PROVE  Distinct(d.edges[c]) /\ Fits(ToSet(d.edges[c]), Shown(e, c))
      BY <1>7, <1>8, ContainersAre DEF Wired, Exists
    <3>1. Distinct(d.edges[c]) /\ Fits(ToSet(d.edges[c]), Shown(d, c))  BY <1>1 DEF Wired
    <3>2. CASE c # u  BY <3>1, <3>2, <1>13
    <3>3. CASE c = u
      <4> DEFINE E == ToSet(d.edges[u])
      <4>1. \A x \in E : EndsShown(x, Shown(e, u))
        <5> SUFFICES ASSUME NEW x \in E PROVE EndsShown(x, Shown(e, u))  OBVIOUS
        <5>1. x \in Edges /\ EndsShown(x, Shown(d, u))  BY <3>3, <1>11, EdgesAre
        <5>2. Sender(x) # ProcDevice(n) /\ Receiver(x) # ProcDevice(n)  BY DEF Unconnected
        <5> QED  BY <5>1, <5>2, <1>7, <1>11, <1>14, EndsShownAre
      <4> HIDE DEF E
      <4>2. Fits(E, Shown(d, u)) => Fits(E, Shown(e, u))  BY <4>1, FewerFit
      <4> QED  BY <4>2, <3>1, <3>3 DEF E
    <3> QED  BY <3>2, <3>3
  <2>2. Mapped(e)  BY <1>1, <1>7 DEF Mapped, SameControls, HasUnit
  <2> QED  BY <2>1, <2>2, <1>7, LinkedIs
<1>16. RemovedAreEmpty(e)
  <2> SUFFICES ASSUME NEW v \in Units, ~HasUnit(d, v)
               PROVE  /\ ProcsIn(e, v) = {} /\ UnitsIn(e, v) = {} /\ e.edges[v] = <<>> /\ e.placed[v] = {}
                      /\ e.exprs[v] = NoExpressions /\ e.streams[v] = <<>>  BY <1>8 DEF RemovedAreEmpty
  <2>1. v # u  OBVIOUS
  <2>2. ProcsIn(e, v) = {}  BY <1>1, <1>10 DEF RemovedAreEmpty
  <2> QED  BY <2>1, <2>2, <1>1, <1>6, <1>7, <1>9 DEF RemovedAreEmpty
<1>17. ControlsAreExact(e) /\ ControlsAreNumbered(e)
  BY <1>1, <1>7, <1>9 DEF ControlsAreExact, ControlsAreNumbered, SameControls
<1>18. ReferencesLive(e)
  <2> SUFFICES ASSUME NEW v \in Units, Len(v) = 1, NEW i \in DOMAIN e.streams[v]
               PROVE  e.streams[v][i][2] \in StreamProcs(e, v)  BY <1>1, <1>7 DEF ReferencesLive, ExprNames
  <2>1. CASE v # u
    <3>1. StreamProcs(e, v) = StreamProcs(d, v) /\ e.streams[v] = d.streams[v]  BY <2>1, <1>6, <1>7 DEF StreamProcs
    <3> QED  BY <3>1, <1>1 DEF ReferencesLive
  <2>2. CASE v = u
    <3> DEFINE x == e.streams[v][i]
    <3>1. x \in ToSet(s)  BY <2>2, <1>6, <1>7 DEF ToSet
    <3>2. x \in ToSet(d.streams[u]) /\ x[2] # n  BY <3>1, <2>2, <1>3
    <3>3. x[2] \in StreamProcs(d, u)  BY <3>2, <2>2, <1>1 DEF ReferencesLive, ToSet
    <3> HIDE DEF x
    <3>4. x[2] \in StreamProcs(e, u)  BY <3>2, <3>3, <1>7 DEF StreamProcs
    <3> QED  BY <3>4, <2>2 DEF x
  <2> QED  BY <2>1, <2>2
<1>19. HoldsTogether(e)  BY <1>15, <1>16, <1>17, <1>18 DEF HoldsTogether
<1> QED  BY <1>7, <1>12, <1>13, <1>19 DEF e

-----------------------------------------------------------------------------
\* Controls and channels when a unit goes.

WithChannels(d, f) == [d EXCEPT !.channels = f]
Rechanneled(d) == {WithChannels(d, f) : f \in [Chs -> Controls]}

LEMMA RechanneledAre ==
    ASSUME NEW d \in Modules, NEW e \in Rechanneled(d)
    PROVE  /\ e \in Modules /\ e.channels \in [Chs -> Controls] /\ e.controls = d.controls /\ e.cmap = d.cmap
           /\ e.edges = d.edges /\ e.placed = d.placed /\ SameUnits(d, e) /\ SameReferences(d, e)
           /\ \A ch \in Chs, n \in Controls :
                 SetChannel(e, ch, n) \in Rechanneled(d) /\ SetChannel(e, ch, n).channels = [e.channels EXCEPT ![ch] = n]
<1>1. PICK f \in [Chs -> Controls] : e = [d EXCEPT !.channels = f]  BY DEF Rechanneled, WithChannels
<1>2. /\ e \in Modules /\ e.channels = f /\ e.controls = d.controls /\ e.cmap = d.cmap
      /\ e.edges = d.edges /\ e.placed = d.placed /\ SameUnits(d, e) /\ SameReferences(d, e)  BY <1>1, ChannelsSet
<1>3. ASSUME NEW ch \in Chs, NEW n \in Controls
      PROVE  SetChannel(e, ch, n) \in Rechanneled(d) /\ SetChannel(e, ch, n).channels = [e.channels EXCEPT ![ch] = n]
  <2> DEFINE g == [f EXCEPT ![ch] = n]
  <2>1. g \in [Chs -> Controls]  OBVIOUS
  <2>2. SetChannel(e, ch, n) = [e EXCEPT !.channels = g]  BY <1>2 DEF SetChannel
  <2> HIDE DEF g
  <2>3. [e EXCEPT !.channels = g] = [d EXCEPT !.channels = g]  BY <1>1 DEF Modules
  <2>4. SetChannel(e, ch, n).channels = g  BY <2>1, <2>2, <1>2, ChannelsSet
  <2> QED  BY <2>1, <2>2, <2>3, <2>4, <1>2 DEF Rechanneled, WithChannels, g
<1> QED  BY <1>2, <1>3

Moves(d, u, ch) == Fallback(d, u) # None /\ d.channels[ch] # Fallback(d, u) /\ d.cmap[d.channels[ch]] = Last(u)

\* Each step gives one channel the other control.
LEMMA ChannelStepsAre ==
    ASSUME NEW d \in Modules, NEW u, Fallback(d, u) \in Controls \union {None}
    PROVE  /\ ChannelSteps(d, u) \in Seq(Rechanneled(d)) /\ Last(ChannelSteps(d, u)) \in Rechanneled(d)
           /\ \A ch \in Chs : Last(ChannelSteps(d, u)).channels[ch] =
                                IF Moves(d, u, ch) THEN Fallback(d, u) ELSE d.channels[ch]
<1> DEFINE Y == Rechanneled(d)
           N == MaxChannel
           fb == Fallback(d, u)
           M(ch) == fb # None /\ d.channels[ch] # fb /\ d.cmap[d.channels[ch]] = Last(u)
           G == [m \in 1..N |-> [x \in Seq(Y) |-> IF M(m - 1) THEN Append(x, SetChannel(Last(x), m - 1, fb)) ELSE x]]
           K(f) == f = [k \in 0..N |-> IF k = 0 THEN <<d>>
                                       ELSE IF M(k - 1) THEN Append(f[k - 1], SetChannel(Last(f[k - 1]), k - 1, fb))
                                       ELSE f[k - 1]]
           f == CHOOSE f : K(f)
           Good(x) == x \in Seq(Y) /\ x # <<>> /\ Last(x) \in Y
<1>1. /\ N \in Nat /\ \A n \in 1..N : n - 1 \in Chs /\ n - 1 \in 0..N /\ n \in 0..N /\ n # 0
      /\ Chs = 0..(N - 1) /\ 0 \in 0..N /\ N \in 0..N /\ d.channels \in [Chs -> Controls]
  BY SizesAre, ModuleIs DEF Chs
<1>2. d \in Y  BY <1>1 DEF Modules, Rechanneled, WithChannels
<1>3. ASSUME NEW x, Good(x), NEW ch \in Chs, M(ch)
      PROVE  /\ Good(Append(x, SetChannel(Last(x), ch, fb)))
             /\ Last(Append(x, SetChannel(Last(x), ch, fb))).channels = [Last(x).channels EXCEPT ![ch] = fb]
  <2> DEFINE y == SetChannel(Last(x), ch, fb)
  <2>1. y \in Y /\ y.channels = [Last(x).channels EXCEPT ![ch] = fb]  BY <1>3, RechanneledAre
  <2> HIDE DEF y, Y
  <2>2. Append(x, y) \in Seq(Y) /\ Append(x, y) # <<>> /\ Last(Append(x, y)) = y  BY <2>1, <1>3, AppendedIs
  <2> QED  BY <2>1, <2>2 DEF y
<1>4. Good(<<d>>) /\ Last(<<d>>) = d  BY <1>2 DEF Last
<1> HIDE DEF Y, fb
<1>5. \E g : K(g)
  <2>1. PICK g : Unfolds(g, N, <<d>>, G)  BY <1>1, UnfoldingExists
  <2> DEFINE T == {n \in 0..N : Good(g[n])}
  <2>2. g[0] = <<d>> /\ \A n \in 1..N : g[n] = G[n][g[n - 1]]
    <3> HIDE DEF G
    <3> QED  BY <2>1, <1>1, UnfoldedIs
  <2>3. 0 \in T  BY <2>2, <1>1, <1>4
  <2>4. ASSUME NEW n \in 1..N, NEW x \in Seq(Y)
        PROVE  G[n][x] = IF M(n - 1) THEN Append(x, SetChannel(Last(x), n - 1, fb)) ELSE x  OBVIOUS
  <2> HIDE DEF G
  <2>5. ASSUME NEW n \in 1..N, n - 1 \in T PROVE n \in T
    <3>1. Good(g[n - 1]) /\ g[n - 1] \in Seq(Y)  BY <2>5
    <3>2. g[n] = IF M(n - 1) THEN Append(g[n - 1], SetChannel(Last(g[n - 1]), n - 1, fb)) ELSE g[n - 1]
      BY <2>2, <2>4, <3>1
    <3>3. n - 1 \in Chs /\ n \in 0..N  BY <1>1
    <3> HIDE DEF M, Good
    <3>4. CASE M(n - 1)
      <4>1. Good(Append(g[n - 1], SetChannel(Last(g[n - 1]), n - 1, fb)))  BY <3>1, <3>3, <3>4, <1>3
      <4> QED  BY <4>1, <3>2, <3>3, <3>4
    <3>5. CASE ~M(n - 1)  BY <3>1, <3>2, <3>3, <3>5
    <3> QED  BY <3>4, <3>5
  <2> HIDE DEF T
  <2>6. 0..N \subseteq T  BY <2>3, <2>5, <1>1, UpTo
  <2>7. ASSUME NEW n \in 1..N
        PROVE  g[n] = IF M(n - 1) THEN Append(g[n - 1], SetChannel(Last(g[n - 1]), n - 1, fb)) ELSE g[n - 1]
    BY <2>6, <1>1, <2>2, <2>4 DEF T
  <2> HIDE DEF M, N
  <2>8. \A n \in 0..N : g[n] = IF n = 0 THEN <<d>>
                               ELSE IF M(n - 1) THEN Append(g[n - 1], SetChannel(Last(g[n - 1]), n - 1, fb))
                               ELSE g[n - 1]  BY <2>2, <1>1, <2>7
  <2> QED  BY <2>8, <2>1 DEF Unfolds
<1>6. K(f)  BY <1>5
<1>7. ChannelSteps(d, u) = f[N]  BY DEF ChannelSteps, fb
<1> HIDE DEF f
<1>8. f[0] = <<d>> /\ \A n \in 1..N : f[n] = IF M(n - 1) THEN Append(f[n - 1], SetChannel(Last(f[n - 1]), n - 1, fb))
                                             ELSE f[n - 1]  BY <1>6, <1>1
<1> DEFINE P(n) == /\ Good(f[n])
                   /\ \A ch \in Chs : Last(f[n]).channels[ch] = IF ch < n /\ M(ch) THEN fb ELSE d.channels[ch]
           T == {n \in 0..N : P(n)}
<1>9. 0 \in T
  <2>1. \A ch \in Chs : ~(ch < 0)  BY <1>1
  <2>2. P(0)  BY <2>1, <1>4, <1>8
  <2> QED  BY <2>2, <1>1
<1>10. ASSUME NEW n \in 1..N, n - 1 \in T PROVE n \in T
  <2>1. P(n - 1) /\ n - 1 \in Chs /\ n \in 0..N /\ n \in Nat  BY <1>10, <1>1
  <2>2. \A ch \in Chs : ch < n <=> ch < n - 1 \/ ch = n - 1  BY <1>1
  <2>3. ~(n - 1 < n - 1) /\ \A ch \in Chs : ch < n - 1 => ch # n - 1  BY <1>1
  <2>4. Good(f[n - 1]) /\ \A ch \in Chs : Last(f[n - 1]).channels[ch] = IF ch < n - 1 /\ M(ch) THEN fb ELSE d.channels[ch]
    BY <2>1
  <2>5. CASE M(n - 1)
    <3> DEFINE x == f[n - 1]
               y == Append(x, SetChannel(Last(x), n - 1, fb))
    <3>1. f[n] = y  BY <2>5, <1>8
    <3>2. Good(x)  BY <2>4
    <3>3. Good(y) /\ Last(y).channels = [Last(x).channels EXCEPT ![n - 1] = fb]  BY <3>2, <2>1, <2>5, <1>3
    <3>4. Last(x).channels \in [Chs -> Controls]  BY <3>2, RechanneledAre DEF Y
    <3>5. \A ch \in Chs : Last(y).channels[ch] = IF ch = n - 1 THEN fb ELSE Last(x).channels[ch]  BY <3>3, <3>4
    <3>6. P(n)  BY <2>2, <2>3, <2>5, <2>4, <3>1, <3>3, <3>5
    <3> QED  BY <3>6, <2>1
  <2>6. CASE ~M(n - 1)
    <3>1. f[n] = f[n - 1]  BY <2>6, <1>8
    <3>2. P(n)  BY <2>2, <2>3, <2>4, <2>6, <3>1
    <3> QED  BY <3>2, <2>1
  <2> QED  BY <2>5, <2>6
<1> HIDE DEF T
<1>11. P(N)  BY <1>1, <1>9, <1>10, UpTo DEF T
<1>12. \A ch : M(ch) <=> Moves(d, u, ch)  BY DEF Moves, fb
<1>13. \A ch \in Chs : Last(f[N]).channels[ch] = IF Moves(d, u, ch) THEN fb ELSE d.channels[ch]  BY <1>11, <1>12, <1>1
<1> QED  BY <1>7, <1>11, <1>13 DEF Y, fb

LEMMA LeastUnitIs == ASSUME NEW S, S \subseteq Units, S # {} PROVE LeastUnit(S) \in S /\ \A v \in S : Last(LeastUnit(S)) <= Last(v)
<1> DEFINE T == {Last(v) : v \in S}
<1>1. T \subseteq Nat /\ T # {}  BY UnitIs, SizesAre
<1>2. PICK n \in T : \A m \in T : n <= m  BY <1>1, LeastIs
<1>3. PICK u \in S : n = Last(u)  BY <1>2
<1> QED  BY <1>2, <1>3 DEF LeastUnit

LEMMA ControlOfIs ==
    ASSUME NEW d \in Modules, IsWhole(d)
    PROVE  /\ \A u \in UnitsIn(d, <<>>) : ControlOf(d, u) = Last(u) /\ Last(u) # None
           /\ \A u \in Units : Front(u) = <<>> /\ u \notin UnitsIn(d, <<>>) => ControlOf(d, u) = None
<1>1. ASSUME NEW u \in UnitsIn(d, <<>>) PROVE ControlOf(d, u) = Last(u) /\ Last(u) # None
  <2> DEFINE T == {n \in Controls : d.cmap[n] = Last(u)}
  <2>1. Last(u) \in 0..(MaxUnit - 1)  BY UnitIs DEF UnitsIn
  <2>2. Last(u) # None  BY <2>1, NoneAssumption
  <2>3. T = {Last(u)}  BY <2>2, ControlsAre
  <2>4. Min({Last(u)}) = Last(u)
    <3>1. {Last(u)} \subseteq Nat /\ {Last(u)} # {}  BY <2>1, SizesAre
    <3> QED  BY <3>1, MinIs
  <2>5. ControlOf(d, u) = IF T = {} THEN None ELSE Min(T)  BY DEF ControlOf
  <2> HIDE DEF T
  <2> QED  BY <2>2, <2>3, <2>4, <2>5
<1>2. ASSUME NEW u \in Units, Front(u) = <<>>, u \notin UnitsIn(d, <<>>) PROVE ControlOf(d, u) = None
  <2> DEFINE T == {n \in Controls : d.cmap[n] = Last(u)}
  <2>1. u = <<Last(u)>> /\ Last(u) \in 0..(MaxUnit - 1)  BY <1>2, UnitIs
  <2>2. T = {}
    <3> SUFFICES ASSUME NEW n \in Controls, d.cmap[n] = Last(u) PROVE FALSE  OBVIOUS
    <3>1. n = Last(u) /\ <<n>> \in UnitsIn(d, <<>>)  BY ControlsAre, <2>1, NoneAssumption
    <3> QED  BY <3>1, <2>1, <1>2
  <2>3. ControlOf(d, u) = IF T = {} THEN None ELSE Min(T)  BY DEF ControlOf
  <2> HIDE DEF T
  <2> QED  BY <2>2, <2>3
<1> QED  BY <1>1, <1>2

\* The control that the channels of a unit get.
LEMMA FallbackIs ==
    ASSUME NEW d \in Modules, IsWhole(d), NEW u \in UnitsIn(d, <<>>)
    PROVE  /\ UnitsIn(d, <<>>) \ {u} # {} => /\ Fallback(d, u) \in Controls /\ Fallback(d, u) # None
                                             /\ d.cmap[Fallback(d, u)] # None /\ d.cmap[Fallback(d, u)] # Last(u)
           /\ UnitsIn(d, <<>>) \ {u} = {} => Fallback(d, u) = IF u = <<0>> THEN None ELSE 0
           /\ Fallback(d, u) \in Controls \union {None}
<1> DEFINE others == UnitsIn(d, <<>>) \ {u}
           unit == IF others = {} THEN <<0>> ELSE LeastUnit(others)
<1>1. UnitsIn(d, <<>>) \subseteq Units /\ u = <<Last(u)>>  BY UnitIs DEF UnitsIn
<1>2. Fallback(d, u) = CASE unit = u -> None [] ControlOf(d, unit) = None -> 0 [] OTHER -> ControlOf(d, unit)
  BY DEF Fallback
<1>3. CASE others # {}
  <2>1. unit \in others /\ unit \in UnitsIn(d, <<>>) /\ unit # u  BY <1>3, LeastUnitIs, <1>1 DEF others
  <2> HIDE DEF unit, others
  <2> QED  BY <1>3, <2>1, <1>2, ControlOfIs, ControlsAre, UnitIs, <1>1 DEF others, UnitsIn
<1>4. CASE others = {}  BY <1>4, ControlOfIs, <1>2, TopUnitIs, SizesAre DEF Controls
<1> QED  BY <1>3, <1>4

LEMMA ControlsFreed ==
    ASSUME NEW d \in Modules, NEW u
    PROVE  /\ RemoveControls(d, u) \in Modules /\ RemoveControls(d, u).channels = d.channels
           /\ RemoveControls(d, u).controls = {n \in d.controls : d.cmap[n] # Last(u)}
           /\ \A n \in Controls : RemoveControls(d, u).cmap[n] = IF d.cmap[n] = Last(u) THEN None ELSE d.cmap[n]
           /\ RemoveControls(d, u).edges = d.edges /\ RemoveControls(d, u).placed = d.placed
           /\ SameUnits(d, RemoveControls(d, u)) /\ SameReferences(d, RemoveControls(d, u))
<1> DEFINE e == RemoveControls(d, u)
           S == {n \in d.controls : d.cmap[n] # Last(u)}
           f == [n \in Controls |-> IF d.cmap[n] = Last(u) THEN None ELSE d.cmap[n]]
<1>1. S \in SUBSET Controls /\ f \in [Controls -> {None} \union 0..(MaxUnit - 1)]
      /\ \A n \in Controls : f[n] = IF d.cmap[n] = Last(u) THEN None ELSE d.cmap[n]  BY ModuleIs
<1>2. e = WithControls(d, S, f)  BY DEF RemoveControls, WithControls
<1> HIDE DEF e, f
<1>3. e \in Modules /\ e.controls = S /\ e.cmap = f /\ e.channels = d.channels
      /\ e.edges = d.edges /\ e.placed = d.placed /\ SameUnits(d, e) /\ SameReferences(d, e)
  BY <1>1, <1>2, ControlsSet
<1> QED  BY <1>1, <1>3 DEF e

\* After the steps no control is left to the unit, and the channels have
\* controls of other units, or control 0 if there are none.
ControlsWithout(d, u, e) ==
    /\ e.controls = {n \in Controls : e.cmap[n] # None}
    /\ \A n \in Controls : e.cmap[n] = IF d.cmap[n] = Last(u) THEN None ELSE d.cmap[n]
    /\ IF UnitsIn(d, <<>>) \ {u} # {} THEN \A ch \in Chs : e.cmap[e.channels[ch]] # None
       ELSE \A ch \in Chs : e.channels[ch] = 0
SameParts(d, e) == e.edges = d.edges /\ e.placed = d.placed /\ SameUnits(d, e) /\ SameReferences(d, e)

LEMMA ControlStepsAre ==
    ASSUME NEW d \in Modules, IsWhole(d), NEW u \in UnitsIn(d, <<>>)
    PROVE  /\ RemoveControlsTo(d, u) \in Seq(Modules) /\ \A x \in ToSet(RemoveControlsTo(d, u)) : IsLinked(x)
           /\ Last(RemoveControlsTo(d, u)) \in Modules
           /\ SameParts(d, Last(RemoveControlsTo(d, u))) /\ ControlsWithout(d, u, Last(RemoveControlsTo(d, u)))
<1> DEFINE s == ChannelSteps(d, u)
           l == Last(s)
           e == RemoveControls(l, u)
<1>1. Wired(d) /\ Mapped(d) /\ ControlsAreExact(d) /\ ControlsAreNumbered(d)  BY LinkedIs DEF IsWhole
<1>2. /\ s \in Seq(Rechanneled(d)) /\ l \in Rechanneled(d)
      /\ \A ch \in Chs : l.channels[ch] = IF Moves(d, u, ch) THEN Fallback(d, u) ELSE d.channels[ch]
  BY FallbackIs, ChannelStepsAre
<1> HIDE DEF s
<1>3. \A x \in Rechanneled(d) : x \in Modules /\ IsLinked(x)
  <2> SUFFICES ASSUME NEW x \in Rechanneled(d) PROVE x \in Modules /\ IsLinked(x)  OBVIOUS
  <2> QED  BY <1>1, WiredFrame, MappedFrame, LinkedIs, RechanneledAre
<1>4. /\ l \in Modules /\ l.channels \in [Chs -> Controls] /\ l.controls = d.controls /\ l.cmap = d.cmap
      /\ SameParts(d, l)  BY <1>2, RechanneledAre DEF SameParts
<1> HIDE DEF l
<1>5. /\ e \in Modules /\ e.channels = l.channels /\ e.controls = {n \in d.controls : d.cmap[n] # Last(u)}
      /\ \A n \in Controls : e.cmap[n] = IF d.cmap[n] = Last(u) THEN None ELSE d.cmap[n]
      /\ SameParts(d, e)  BY <1>4, ControlsFreed DEF SameParts, SameUnits, SameReferences
<1> HIDE DEF e
<1>6. e.controls = {n \in Controls : e.cmap[n] # None}  BY <1>1, <1>5 DEF ControlsAreExact
<1>7. \A ch \in Chs : d.channels[ch] \in Controls /\ d.cmap[d.channels[ch]] # None
  BY <1>1, ControlsAre DEF ControlsAreExact
<1>8. ASSUME UnitsIn(d, <<>>) \ {u} # {} PROVE ControlsWithout(d, u, e)
  <2>1. Fallback(d, u) \in Controls /\ Fallback(d, u) # None
        /\ d.cmap[Fallback(d, u)] # None /\ d.cmap[Fallback(d, u)] # Last(u)  BY <1>8, FallbackIs
  <2>2. \A ch \in Chs : e.channels[ch] = IF Moves(d, u, ch) THEN Fallback(d, u) ELSE d.channels[ch]
    BY <1>2, <1>5 DEF l
  <2>3. \A ch \in Chs : e.cmap[e.channels[ch]] # None  BY <2>1, <2>2, <1>5, <1>7 DEF Moves
  <2> QED  BY <2>3, <1>5, <1>6, <1>8 DEF ControlsWithout
<1>9. ASSUME UnitsIn(d, <<>>) \ {u} = {} PROVE ControlsWithout(d, u, e)
  <2>1. Fallback(d, u) = IF u = <<0>> THEN None ELSE 0  BY <1>9, FallbackIs
  <2>2. \A ch \in Chs : e.channels[ch] = IF Moves(d, u, ch) THEN Fallback(d, u) ELSE d.channels[ch]
    BY <1>2, <1>5 DEF l
  <2>3. u = <<Last(u)>> /\ Last(u) \in 0..(MaxUnit - 1)  BY UnitIs DEF UnitsIn
  <2>4. \A ch \in Chs : e.channels[ch] = 0
    <3> TAKE ch \in Chs
    <3>1. <<d.channels[ch]>> = u /\ d.cmap[d.channels[ch]] = d.channels[ch]  BY <1>7, <1>9, ControlsAre
    <3>2. d.channels[ch] = Last(u)  BY <3>1, <2>3
    <3>3. CASE u = <<0>>  BY <3>3, <2>1, <3>1, <2>2 DEF Moves
    <3>4. CASE u # <<0>>  BY <3>4, <2>1, SizesAre, NoneAssumption, <2>3, <3>1, <3>2, <2>2 DEF Moves
    <3> QED  BY <3>3, <3>4
  <2> QED  BY <2>4, <1>5, <1>6, <1>9 DEF ControlsWithout
<1>10. RemoveControlsTo(d, u) = Append(s, e)  BY DEF RemoveControlsTo, s, e, l
<1>11. s \in Seq(Modules)  BY <1>3, <1>2
<1>12. IsLinked(e)  BY <1>1, <1>5, WiredFrame, SameDevices, LinkedIs DEF SameParts, Mapped
<1>13. \A x \in ToSet(s) : IsLinked(x)  BY <1>2, <1>3 DEF ToSet
<1> QED  BY <1>5, <1>10, <1>12, <1>13, <1>8, <1>9, <1>11, AppendedIs

-----------------------------------------------------------------------------
\* Removal of a unit with all that is inside.

Removed(d, u, e) ==
    /\ \A v \in Units \ Inside(u) :
          e.units[v] = d.units[v] /\ e.procs[v] = d.procs[v] /\ e.exprs[v] = d.exprs[v] /\ e.streams[v] = d.streams[v]
    /\ \A c \in Containers \ Inside(u) : e.edges[c] = d.edges[c] /\ e.placed[c] = d.placed[c]
    /\ \A v \in Inside(u) :
          /\ e.units[v] = NoUnit /\ e.procs[v] = [n \in Procs |-> None]
          /\ e.edges[v] = <<>> /\ e.placed[v] = {} /\ e.exprs[v] = NoExpressions /\ e.streams[v] = <<>>

LEMMA RemovedUnitIs ==
    ASSUME NEW d \in Modules, NEW u \in Units
    PROVE  RemoveUnit(d, u) \in Modules /\ SameControls(d, RemoveUnit(d, u)) /\ Removed(d, u, RemoveUnit(d, u))
<1> DEFINE e == RemoveUnit(d, u)
           P == {None} \union DOMAIN ProcPorts
           no == [n \in Procs |-> None]
           a == Cleared(d.units, u, NoUnit)
           b == Cleared(d.procs, u, no)
           g == Cleared(d.edges, u, <<>>)
           l == Cleared(d.placed, u, {})
           x == Cleared(d.exprs, u, NoExpressions)
           s == Cleared(d.streams, u, <<>>)
<1>1. /\ d.units \in [Units -> UnitKinds] /\ d.procs \in [Units -> [Procs -> P]]
      /\ d.edges \in [Containers -> Seq(Edges)] /\ d.placed \in [Containers -> SUBSET DeviceNames]
      /\ d.exprs \in [Units -> Expressions] /\ d.streams \in [Units -> Seq(Names \X Procs)]  BY ModuleIs
<1>2. NoUnit \in UnitKinds /\ no \in [Procs -> P] /\ <<>> \in Seq(Edges) /\ <<>> \in Seq(Names \X Procs)
  BY DEF NoUnit, UnitKinds
<1>3. NoExpressions \in Expressions
  <2>1. <<>> \in [{} -> SUBSET ProcDevices] /\ {} \in SUBSET Names  OBVIOUS
  <2> QED  BY <2>1, FiltersAre DEF NoExpressions, Expressions
<1> HIDE DEF no, P
<1>4. a \in [Units -> UnitKinds] /\ \A c \in Units : a[c] = IF c \in Inside(u) THEN NoUnit ELSE d.units[c]
  BY <1>1, <1>2 DEF Cleared
<1>5. b \in [Units -> [Procs -> P]] /\ \A c \in Units : b[c] = IF c \in Inside(u) THEN no ELSE d.procs[c]
  BY <1>1, <1>2 DEF Cleared
<1>6. g \in [Containers -> Seq(Edges)] /\ \A c \in Containers : g[c] = IF c \in Inside(u) THEN <<>> ELSE d.edges[c]
  BY <1>1, <1>2 DEF Cleared
<1>7. l \in [Containers -> SUBSET DeviceNames] /\ \A c \in Containers : l[c] = IF c \in Inside(u) THEN {} ELSE d.placed[c]
  BY <1>1 DEF Cleared
<1>8. x \in [Units -> Expressions] /\ \A c \in Units : x[c] = IF c \in Inside(u) THEN NoExpressions ELSE d.exprs[c]
  BY <1>1, <1>3 DEF Cleared
<1>9. s \in [Units -> Seq(Names \X Procs)] /\ \A c \in Units : s[c] = IF c \in Inside(u) THEN <<>> ELSE d.streams[c]
  BY <1>1, <1>2 DEF Cleared
<1>10. e = [d EXCEPT !.units = a, !.procs = b, !.edges = g, !.placed = l, !.exprs = x, !.streams = s]
  BY DEF RemoveUnit, no
<1> HIDE DEF a, b, g, l, x, s, e
<1>11. /\ e.units = a /\ e.procs = b /\ e.edges = g /\ e.placed = l /\ e.exprs = x /\ e.streams = s
       /\ e.controls = d.controls /\ e.cmap = d.cmap /\ e.channels = d.channels  BY <1>10 DEF Modules
<1>12. e \in Modules  BY <1>4, <1>5, <1>6, <1>7, <1>8, <1>9, <1>10 DEF Modules, UnitKinds, Expressions, P
<1>13. Inside(u) \subseteq Units /\ Units \subseteq Containers  BY ContainersAre DEF Inside
<1>14. Removed(d, u, e)
  <2>1. \A v \in Units \ Inside(u) :
          e.units[v] = d.units[v] /\ e.procs[v] = d.procs[v] /\ e.exprs[v] = d.exprs[v] /\ e.streams[v] = d.streams[v]
    BY <1>4, <1>5, <1>8, <1>9, <1>11
  <2>2. \A v \in Inside(u) : e.units[v] = NoUnit /\ e.procs[v] = no  BY <1>4, <1>5, <1>11, <1>13
  <2>3. \A v \in Inside(u) : e.exprs[v] = NoExpressions /\ e.streams[v] = <<>>  BY <1>8, <1>9, <1>11, <1>13
  <2> QED  BY <2>1, <2>2, <2>3, <1>6, <1>7, <1>11, <1>13 DEF Removed, no
<1> QED  BY <1>11, <1>12, <1>14 DEF SameControls, e

\* What is inside a unit is not outside of it.
LEMMA OutsideIs ==
    ASSUME NEW u \in Units
    PROVE  /\ u \in Inside(u) /\ Inside(u) \subseteq Units /\ Front(u) \notin Inside(u)
           /\ \A v \in Units, w \in Units : v \in Inside(u) /\ Front(w) = v => w \in Inside(u)
           /\ \A v \in Units : v \in Inside(u) /\ Front(v) \notin Inside(u) => v = u
           /\ \A i \in 0..(MaxUnit - 1) : <<i>> \in Inside(u) => <<i>> = u
<1>1. u \in Inside(u) /\ Inside(u) \subseteq Units  BY InsideIs DEF Inside
<1>2. Front(u) \notin Inside(u)
  <2> SUFFICES ASSUME Front(u) \in Inside(u) PROVE FALSE  OBVIOUS
  <2> QED  BY InsideIs, UnitIs, ContainersAre, <1>1
<1>3. ASSUME NEW v \in Units, NEW w \in Units, v \in Inside(u), Front(w) = v PROVE w \in Inside(u)
  BY <1>3, InsideIs, UnitIs, ContainersAre
<1>4. ASSUME NEW v \in Units, v \in Inside(u), Front(v) \notin Inside(u) PROVE v = u  BY <1>1, <1>4, InsideIs
<1>5. ASSUME NEW i \in 0..(MaxUnit - 1), <<i>> \in Inside(u) PROVE <<i>> = u  BY TopUnitIs, UnitIs, <1>5, InsideIs
<1> QED  BY <1>1, <1>2, <1>3, <1>4, <1>5

LEMMA UnitRemoved ==
    ASSUME NEW d \in Modules, Wired(d), Mapped(d), RemovedAreEmpty(d), ReferencesLive(d),
           NEW u \in Units, HasUnit(d, u), Unconnected(d, Front(u), UnitDevice(u)),
           \A n \in Controls : d.cmap[n] # None => <<d.cmap[n]>> # u,
           NEW e, e \in Modules, SameControls(d, e), Removed(d, u, e)
    PROVE  /\ IsLinked(e) /\ RemovedAreEmpty(e) /\ ReferencesLive(e)
           /\ \A v \in Units : HasUnit(e, v) <=> HasUnit(d, v) /\ v \notin Inside(u)
           /\ UnitsIn(e, <<>>) = UnitsIn(d, <<>>) \ {u}
           /\ DevicesIn(e, Front(u)) = DevicesIn(d, Front(u)) \ {UnitDevice(u)}
           /\ \A c \in Containers \ (Inside(u) \union {Front(u)}) :
                 DevicesIn(e, c) = DevicesIn(d, c) /\ Shown(e, c) = Shown(d, c)
<1>1. \A v \in Units : HasUnit(e, v) <=> HasUnit(d, v) /\ v \notin Inside(u)  BY DEF HasUnit, Removed, NoUnit
<1>2. /\ u \in Inside(u) /\ Inside(u) \subseteq Units /\ Front(u) \notin Inside(u) /\ Front(u) \in Containers
      /\ \A v \in Units, w \in Units : v \in Inside(u) /\ Front(w) = v => w \in Inside(u)
      /\ \A v \in Units : v \in Inside(u) /\ Front(v) \notin Inside(u) => v = u
      /\ \A i \in 0..(MaxUnit - 1) : <<i>> \in Inside(u) => <<i>> = u  BY OutsideIs, UnitIs
<1>3. <<>> \notin Inside(u)  BY <1>2, ContainersAre
<1>4. \A c \in Containers \ Inside(u) : \A v \in Units : Front(v) = c => (v \in Inside(u) <=> v = u)  BY <1>2
<1>5. UnitsIn(e, <<>>) = UnitsIn(d, <<>>) \ {u}  BY <1>1, <1>2, <1>3, <1>4, ContainersAre DEF UnitsIn
<1>6. ASSUME NEW c \in Containers \ (Inside(u) \union {Front(u)})
      PROVE  DevicesIn(e, c) = DevicesIn(d, c) /\ Shown(e, c) = Shown(d, c)
  BY <1>4, ContainersAre, SameShown DEF Removed
<1>7. ASSUME NEW v \in Units, Front(v) = Front(u), UnitDevice(v) = UnitDevice(u) PROVE v = u
  BY <1>7, DevicesDiffer, UnitIs
<1>8. Front(u) # <<>> => Front(u) \in Units /\ e.procs[Front(u)] = d.procs[Front(u)] /\ e.units[Front(u)] = d.units[Front(u)]
  BY <1>2, ContainersAre DEF Removed
<1>9. DevicesIn(e, Front(u)) = DevicesIn(d, Front(u)) \ {UnitDevice(u)}
  <2> SUFFICES ASSUME NEW dev PROVE dev \in DevicesIn(e, Front(u)) <=> dev \in DevicesIn(d, Front(u)) /\ dev # UnitDevice(u)
    OBVIOUS
  <2> QED  BY DevicesInAre, <1>1, <1>2, <1>4, <1>7, DevicesDiffer, <1>8
<1>10. \A dev, p : EndIn(d, Front(u), dev, p) /\ dev # UnitDevice(u) => EndIn(e, Front(u), dev, p)
  <2> SUFFICES ASSUME NEW dev, NEW p, EndIn(d, Front(u), dev, p), dev # UnitDevice(u) PROVE EndIn(e, Front(u), dev, p)
    OBVIOUS
  <2> QED  BY <1>8, <1>1, <1>2, <1>4 DEF EndIn, OutPorts, InPorts, Removed
<1>11. Wired(e)
  <2> SUFFICES ASSUME NEW c \in Containers, Exists(e, c)
               PROVE  Distinct(e.edges[c]) /\ Fits(ToSet(e.edges[c]), Shown(e, c))  BY DEF Wired
  <2>1. c \notin Inside(u) /\ Exists(d, c)  BY <1>1, <1>2, <1>3, ContainersAre DEF Exists
  <2>2. e.edges[c] = d.edges[c]  BY <2>1 DEF Removed
  <2>3. Distinct(d.edges[c]) /\ Fits(ToSet(d.edges[c]), Shown(d, c))  BY <2>1 DEF Wired
  <2>4. CASE c # Front(u)  BY <2>1, <2>2, <2>3, <2>4, <1>6
  <2>5. CASE c = Front(u)
    <3> DEFINE E == ToSet(d.edges[c])
    <3>1. \A x \in E : EndsShown(x, Shown(e, c))
      <4> SUFFICES ASSUME NEW x \in E PROVE EndsShown(x, Shown(e, c))  OBVIOUS
      <4>1. ToSet(d.edges[c]) \subseteq Edges  BY ModuleIs DEF ToSet
      <4>2. Sender(x) # UnitDevice(u) /\ Receiver(x) # UnitDevice(u)  BY <2>5 DEF Unconnected
      <4> QED  BY <4>2, <2>5, <1>10, EndsShownAre, <4>1, <2>3 DEF Fits
    <3> HIDE DEF E
    <3> QED  BY <2>2, <2>3, <3>1, FewerFit DEF E
  <2> QED  BY <2>4, <2>5
<1>12. Mapped(e)
  <2> SUFFICES ASSUME NEW n \in Controls, d.cmap[n] # None PROVE HasUnit(e, <<d.cmap[n]>>)
    BY DEF Mapped, SameControls
  <2> QED  BY <1>1, <1>2, TopUnitIs, ModuleIs DEF Mapped
<1>13. RemovedAreEmpty(e)
  <2> SUFFICES ASSUME NEW v \in Units, ~HasUnit(e, v)
               PROVE  /\ ProcsIn(e, v) = {} /\ UnitsIn(e, v) = {} /\ e.edges[v] = <<>> /\ e.placed[v] = {}
                      /\ e.exprs[v] = NoExpressions /\ e.streams[v] = <<>>  BY DEF RemovedAreEmpty
  <2>1. CASE v \in Inside(u)  BY <2>1, <1>1, <1>2 DEF ProcsIn, Removed, UnitsIn
  <2>2. CASE v \notin Inside(u)  BY <2>2, <1>1, ContainersAre DEF Removed, ProcsIn, UnitsIn, RemovedAreEmpty
  <2> QED  BY <2>1, <2>2
<1>14. ReferencesLive(e)
  <2> SUFFICES ASSUME NEW v \in Units
               PROVE  /\ e.exprs[v].default \in ExprNames(e, v) \union {None}
                      /\ Len(v) = 1 => \A i \in DOMAIN e.streams[v] : e.streams[v][i][2] \in StreamProcs(e, v)
    BY DEF ReferencesLive
  <2>1. CASE v \in Inside(u)  BY <2>1 DEF Removed, NoExpressions
  <2>2. CASE v \notin Inside(u)  BY <2>2 DEF Removed, ExprNames, StreamProcs, ReferencesLive
  <2> QED  BY <2>1, <2>2
<1> QED  BY <1>1, <1>5, <1>6, <1>9, <1>13, <1>14, <1>11, <1>12, LinkedIs

\* The data of a unit before it is removed: no control names it.
Freed(d, u) == IF Front(u) = <<>> THEN RemoveControlsTo(d, u) ELSE <<d>>
ControlsLeft(d, u, e) ==
    /\ e.controls = {n \in Controls : e.cmap[n] # None}
    /\ \A n \in Controls : e.cmap[n] = IF d.cmap[n] # None /\ <<d.cmap[n]>> = u THEN None ELSE d.cmap[n]
    /\ UnitsIn(d, <<>>) \ {u} # {} => \A ch \in Chs : e.cmap[e.channels[ch]] # None
    /\ UnitsIn(d, <<>>) \ {u} = {} => \A ch \in Chs : e.channels[ch] = 0

LEMMA UnitFreed ==
    ASSUME NEW d \in Modules, IsWhole(d), NEW u \in Units, HasUnit(d, u)
    PROVE  /\ Freed(d, u) \in Seq(Modules) /\ \A x \in ToSet(Freed(d, u)) : IsLinked(x)
           /\ Last(Freed(d, u)) \in Modules
           /\ SameParts(d, Last(Freed(d, u))) /\ ControlsLeft(d, u, Last(Freed(d, u)))
<1>1. CASE Front(u) = <<>>
  <2> DEFINE e == Last(RemoveControlsTo(d, u))
  <2>1. u \in UnitsIn(d, <<>>) /\ u = <<Last(u)>> /\ Last(u) \in 0..(MaxUnit - 1)  BY <1>1, UnitIs DEF UnitsIn
  <2>2. /\ RemoveControlsTo(d, u) \in Seq(Modules) /\ \A x \in ToSet(RemoveControlsTo(d, u)) : IsLinked(x)
        /\ e \in Modules /\ SameParts(d, e) /\ ControlsWithout(d, u, e)  BY <2>1, ControlStepsAre
  <2> HIDE DEF e
  <2>3. \A n \in Controls : e.cmap[n] = IF d.cmap[n] # None /\ <<d.cmap[n]>> = u THEN None ELSE d.cmap[n]
    BY <2>1, NoneAssumption, <2>2 DEF ControlsWithout
  <2> QED  BY <2>2, <2>3, <1>1 DEF e, ControlsWithout, ControlsLeft, Freed
<1>2. CASE Front(u) # <<>>
  <2>1. ControlsLeft(d, u, d)
    BY <1>2, ControlsAre DEF IsWhole, ControlsLeft, ControlsAreExact, ControlsAreNumbered, UnitsIn
  <2> QED  BY <2>1, <1>2 DEF Freed, Last, ToSet, IsWhole, SameParts, SameUnits, SameReferences
<1> QED  BY <1>1, <1>2

LEMMA UnitGone ==
    ASSUME NEW d \in Modules, IsWhole(d), NEW u \in Units, HasUnit(d, u), Unconnected(d, Front(u), UnitDevice(u)),
           NEW l, l \in Modules, SameParts(d, l), ControlsLeft(d, u, l),
           NEW e, e \in Modules, SameControls(l, e), Removed(l, u, e)
    PROVE  /\ HoldsTogether(e)
           /\ \A v \in Units : HasUnit(e, v) <=> HasUnit(d, v) /\ v \notin Inside(u)
           /\ DevicesIn(e, Front(u)) = DevicesIn(d, Front(u)) \ {UnitDevice(u)}
           /\ \A c \in Containers \ (Inside(u) \union {Front(u)}) :
                 DevicesIn(e, c) = DevicesIn(d, c) /\ Shown(e, c) = Shown(d, c)
<1>1. Wired(d) /\ RemovedAreEmpty(d) /\ ReferencesLive(d) /\ ControlsAreExact(d) /\ Mapped(d)  BY LinkedIs DEF IsWhole
<1>2. SameUnits(d, l) /\ l.edges = d.edges /\ l.placed = d.placed /\ SameReferences(d, l)  BY DEF SameParts
<1>3. \A v : HasUnit(l, v) <=> HasUnit(d, v)  BY <1>2, SameDevices
<1>4. \A n \in Controls : l.cmap[n] # None => l.cmap[n] = d.cmap[n] /\ d.cmap[n] # None /\ <<d.cmap[n]>> # u
  BY DEF ControlsLeft
<1>5. Wired(l) /\ Mapped(l)  BY <1>1, <1>3, <1>4, <1>2, WiredFrame DEF Mapped
<1>6. RemovedAreEmpty(l)  BY <1>1, <1>2, SameDevices DEF RemovedAreEmpty, SameReferences
<1>7. ReferencesLive(l)  BY <1>1, <1>2, SameDevices DEF ReferencesLive, SameReferences, ExprNames
<1>8. /\ IsLinked(e) /\ RemovedAreEmpty(e) /\ ReferencesLive(e)
      /\ \A v \in Units : HasUnit(e, v) <=> HasUnit(l, v) /\ v \notin Inside(u)
      /\ UnitsIn(e, <<>>) = UnitsIn(l, <<>>) \ {u}
      /\ DevicesIn(e, Front(u)) = DevicesIn(l, Front(u)) \ {UnitDevice(u)}
      /\ \A c \in Containers \ (Inside(u) \union {Front(u)}) :
            DevicesIn(e, c) = DevicesIn(l, c) /\ Shown(e, c) = Shown(l, c)
  BY <1>3, <1>5, <1>6, <1>7, UnitRemoved, <1>2, <1>4 DEF Unconnected
<1>9. \A c : DevicesIn(l, c) = DevicesIn(d, c) /\ Shown(l, c) = Shown(d, c) /\ UnitsIn(l, c) = UnitsIn(d, c)
  BY <1>2, SameDevices
<1>10. \A n \in Controls : e.cmap[n] # None => e.cmap[n] = d.cmap[n] /\ d.cmap[n] = n
  BY <1>4, ControlsAre DEF SameControls
<1>11. ASSUME NEW v \in UnitsIn(d, <<>>) \ {u} PROVE \E n \in Controls : {k \in Controls : e.cmap[k] = Last(v)} = {n}
  BY UnitIs, ControlsAre, NoneAssumption, <1>10 DEF UnitsIn, ControlsLeft, SameControls
<1>12. HoldsTogether(e)
  BY <1>8, <1>9, <1>10, <1>11 DEF HoldsTogether, ControlsLeft, SameControls, ControlsAreExact, ControlsAreNumbered
<1> QED  BY <1>3, <1>8, <1>9, <1>12

-----------------------------------------------------------------------------
\* What the removal of a device does.

Gone(c, dev) == IF dev[1] = "au" THEN Inside(Append(c, dev[2])) ELSE {}
Removes(d, c, dev, e) ==
    /\ e \in Modules /\ IsWhole(e) /\ KeepsEdges(d, e) /\ Exists(e, c)
    /\ ToSet(e.edges[c]) \subseteq ToSet(d.edges[c]) /\ d.placed[c] \ {dev} \subseteq e.placed[c]
    /\ dev \notin DevicesIn(e, c)
    /\ \A v \in Units : HasUnit(e, v) <=> HasUnit(d, v) /\ v \notin Gone(c, dev)
    /\ \A v \in Units \ Gone(c, dev) : ExprNames(e, v) = ExprNames(d, v)

\* The last step before the layout: the device is gone.
Takes(d, c, dev, e) ==
    /\ e \in Modules /\ HoldsTogether(e)
    /\ \A v \in Units : HasUnit(e, v) <=> HasUnit(d, v) /\ v \notin Gone(c, dev)
    /\ \A v \in Units \ Gone(c, dev) : e.exprs[v] = d.exprs[v]
    /\ DevicesIn(e, c) = DevicesIn(d, c) \ {dev}
    /\ c \notin Gone(c, dev)
    /\ \A x : x \in ToSet(e.edges[c]) <=> x \in ToSet(d.edges[c]) /\ Sender(x) # dev /\ Receiver(x) # dev
    /\ \A b \in Containers \ {c} : b \notin Gone(c, dev) => e.edges[b] = d.edges[b] /\ DevicesIn(e, b) = DevicesIn(d, b)
    /\ \A b \in Containers : e.placed[b] = IF b \in Gone(c, dev) THEN {} ELSE d.placed[b]

LEMMA TakenIsRemoved ==
    ASSUME NEW d \in Modules, IsWhole(d), NEW c \in Containers, Exists(d, c), NEW dev, NEW e, Takes(d, c, dev, e),
           Gone(c, dev) \subseteq Units,
           NEW m, m \in Modules, IsWhole(m), m.edges = e.edges, SameUnits(e, m), SameReferences(e, m),
           e.placed[c] \ {dev} \subseteq m.placed[c]
    PROVE  Removes(d, c, dev, m)
<1>1. \A v : (HasUnit(m, v) <=> HasUnit(e, v)) /\ (Exists(m, v) <=> Exists(e, v))
             /\ DevicesIn(m, v) = DevicesIn(e, v) /\ Shown(m, v) = Shown(e, v)  BY SameDevices
<1>2. KeepsEdges(d, m)
  <2> SUFFICES ASSUME NEW b \in Containers, NEW x \in ToSet(d.edges[b]), x \notin ToSet(m.edges[b])
               PROVE  (b # <<>> /\ ~HasUnit(m, b)) \/ ~EndsShown(x, Shown(m, b))  BY DEF KeepsEdges
  <2>1. CASE b = c  BY <2>1, <1>1, ShownIs DEF Takes, EndsShown, Sender, Receiver
  <2>2. CASE b \in Gone(c, dev)  BY <2>2, <1>1, ContainersAre DEF Takes
  <2>3. CASE b # c /\ b \notin Gone(c, dev)  BY <2>3 DEF Takes
  <2> QED  BY <2>1, <2>2, <2>3
<1> QED  BY <1>1, <1>2, ContainersAre DEF Removes, Takes, Exists, SameReferences, ExprNames

\* A device that is gone leaves the layout, too, if it was there.
LEMMA LayoutFollows ==
    ASSUME store \in Modules, IsWhole(store), view.of \in Containers, Exists(store, view.of),
           NEW dev, NEW s \in Seq(Modules), s # <<>>, \A x \in ToSet(s) : IsLinked(x),
           Takes(store, view.of, dev, Last(s)), Gone(view.of, dev) \subseteq Units, IsRemovable(dev)
    PROVE  /\ s \o DroppedLayout(Last(s), dev) \in Seq(Modules)
           /\ \A x \in ToSet(s \o DroppedLayout(Last(s), dev)) : IsLinked(x)
           /\ s \o DroppedLayout(Last(s), dev) # <<>>
           /\ Removes(store, view.of, dev, Last(s \o DroppedLayout(Last(s), dev)))
<1> DEFINE c == view.of
           e == Last(s)
           m == DropLayout(e, c, dev)
<1>1. e \in Modules /\ HoldsTogether(e) /\ c \in Containers /\ Exists(store, c)  BY DEF Takes
<1>2. Takes(store, c, dev, e)  OBVIOUS
<1> HIDE DEF c, e
<1>3. Exists(e, c)  BY <1>1, <1>2, ContainersAre DEF Takes, Exists
<1>4. dev \notin DevicesIn(e, c) /\ c \notin Gone(c, dev)  BY <1>2 DEF Takes
<1>5. LayoutIsOfDevices(store)  BY DEF IsWhole
<1>6. e.placed[c] \subseteq DevicesIn(e, c) \union {dev}  BY <1>1, <1>2, <1>5 DEF Takes, LayoutIsOfDevices
<1>7. \A b \in Containers \ {c} : e.placed[b] \subseteq DevicesIn(e, b)  BY <1>2, <1>5 DEF Takes, LayoutIsOfDevices
<1>8. IsWhole(m) /\ (dev \notin e.placed[c] => IsWhole(e))  BY <1>1, <1>3, <1>4, <1>6, <1>7, LayoutForgets
<1>9. m \in Modules /\ m.edges = e.edges /\ SameUnits(e, m) /\ SameReferences(e, m) /\ e.placed[c] \ {dev} \subseteq m.placed[c]
  BY <1>1, LayoutDropped
<1> HIDE DEF m
<1>10. Gone(c, dev) \subseteq Units  BY DEF c
<1>11. Removes(store, c, dev, m)  BY <1>1, <1>2, <1>8, <1>9, <1>10, TakenIsRemoved
<1>12. CASE dev \in e.placed[c]
  <2>1. DroppedLayout(e, dev) = <<m>>  BY <1>12 DEF DroppedLayout, m, c
  <2>2. <<m>> \in Seq(Modules) /\ Len(<<m>>) = 1 /\ <<m>>[1] = m /\ ToSet(<<m>>) = {m}  BY <1>9 DEF ToSet
  <2>3. s \o <<m>> \in Seq(Modules) /\ ToSet(s \o <<m>>) = ToSet(s) \union {m}
    <3> DEFINE q == <<m>>
    <3>1. s \in Seq(Modules) /\ q \in Seq(Modules) /\ ToSet(q) = {m}  BY <2>2
    <3> HIDE DEF q
    <3>2. s \o q \in Seq(Modules) /\ ToSet(s \o q) = ToSet(s) \union ToSet(q)  BY <3>1, JoinedIs
    <3> QED  BY <3>1, <3>2 DEF q
  <2>4. Len(s \o <<m>>) = Len(s) + 1 /\ (s \o <<m>>)[Len(s) + 1] = m
    <3>1. Len(s \o <<m>>) = Len(s) + Len(<<m>>)
          /\ \A n \in (Len(s) + 1)..(Len(s) + Len(<<m>>)) : (s \o <<m>>)[n] = <<m>>[n - Len(s)]  BY <2>2, ConcatIs
    <3>2. Len(s) \in Nat /\ Len(s) + 1 - Len(s) = 1  OBVIOUS
    <3>3. Len(s) + 1 \in (Len(s) + 1)..(Len(s) + Len(<<m>>))  BY <2>2, <3>2
    <3>4. (s \o <<m>>)[Len(s) + 1] = <<m>>[Len(s) + 1 - Len(s)]  BY <3>1, <3>3
    <3> QED  BY <3>1, <3>2, <3>4, <2>2
  <2>5. Last(s \o <<m>>) = m /\ s \o <<m>> # <<>>
    <3>1. Len(s \o <<m>>) # 0  BY <2>4
    <3> QED  BY <3>1, <2>4 DEF Last
  <2>6. IsLinked(m)  BY <1>8 DEF IsWhole
  <2> QED  BY <2>1, <2>3, <2>5, <2>6, <1>11 DEF c, e
<1>13. CASE dev \notin e.placed[c]
  <2>1. DroppedLayout(e, dev) = <<>>  BY <1>13 DEF DroppedLayout, c
  <2>2. s \o <<>> = s  OBVIOUS
  <2>3. SameUnits(e, e) /\ SameReferences(e, e) /\ e.edges = e.edges  BY DEF SameUnits, SameReferences
  <2>4. Removes(store, c, dev, e)  BY <1>1, <1>2, <1>8, <1>10, <1>13, <2>3, TakenIsRemoved
  <2> QED  BY <2>1, <2>2, <2>4 DEF c, e
<1> QED  BY <1>12, <1>13

LEMMA CutIs ==
    ASSUME NEW d \in Modules, IsWhole(d), NEW c \in Containers, Exists(d, c), NEW dev, IsRemovable(dev),
           NEW e, e = DisconnectDevice(d, c, dev)
    PROVE  /\ e \in Modules /\ IsWhole(e) /\ SameUnits(d, e) /\ SameReferences(d, e) /\ SameControls(d, e)
           /\ e.placed = d.placed /\ Unconnected(e, c, dev)
           /\ (\A b \in Containers \ {c} : e.edges[b] = d.edges[b])
           /\ \A x : x \in ToSet(e.edges[c]) <=> x \in ToSet(d.edges[c]) /\ Sender(x) # dev /\ Receiver(x) # dev
BY Disconnected DEF Unconnected

\* A device with a button is a unit or a processor.
LEMMA ButtonIs ==
    ASSUME NEW d, NEW c \in Containers, NEW dev \in DevicesIn(d, c), HasButtons(dev)
    PROVE  \/ /\ dev[1] = "au" /\ IsRemovable(dev)
              /\ Append(c, dev[2]) \in Units /\ HasUnit(d, Append(c, dev[2])) /\ Front(Append(c, dev[2])) = c
              /\ dev = UnitDevice(Append(c, dev[2])) /\ Gone(c, dev) = Inside(Append(c, dev[2]))
           \/ /\ dev[1] = "proc" /\ IsRemovable(dev)
              /\ c \in Units /\ dev[2] \in Procs /\ dev = ProcDevice(dev[2]) /\ Gone(c, dev) = {}
<1>1. /\ dev[1] = "au" => \E u \in UnitsIn(d, c) : dev = UnitDevice(u) /\ Append(c, dev[2]) = u
      /\ dev[1] = "proc" => c # <<>> /\ dev[2] \in ProcsIn(d, c) /\ dev = ProcDevice(dev[2])  BY DevicesInTyped
<1>2. CASE dev[1] = "au"
  <2>1. PICK u \in UnitsIn(d, c) : dev = UnitDevice(u) /\ Append(c, dev[2]) = u  BY <1>1, <1>2
  <2> QED  BY <2>1, <1>2, DevicesAreNamed DEF Gone, IsRemovable, UnitsIn
<1>3. CASE dev[1] = "proc"  BY <1>1, <1>3, DevicesAreNamed, ContainersAre DEF ProcsIn, IsRemovable, Gone
<1> QED  BY <1>2, <1>3 DEF HasButtons

LEMMA ProcessorTaken ==
    ASSUME NEW d \in Modules, IsWhole(d), NEW u \in Units, HasUnit(d, u), NEW n \in Procs
    PROVE  Takes(d, u, ProcDevice(n), RemoveProcessor(DisconnectDevice(d, u, ProcDevice(n)), u, n))
<1> DEFINE dev == ProcDevice(n)
           m == DisconnectDevice(d, u, dev)
           e == RemoveProcessor(m, u, n)
<1>1. IsRemovable(dev) /\ u \in Containers /\ Exists(d, u) /\ Gone(u, dev) = {}
  BY DevicesAreNamed, UnitIs, DevicesDiffer DEF IsRemovable, Exists, Gone
<1>2. /\ m \in Modules /\ IsWhole(m) /\ SameUnits(d, m) /\ SameReferences(d, m)
      /\ m.placed = d.placed /\ Unconnected(m, u, dev)
      /\ (\A b \in Containers \ {u} : m.edges[b] = d.edges[b])
      /\ \A x : x \in ToSet(m.edges[u]) <=> x \in ToSet(d.edges[u]) /\ Sender(x) # dev /\ Receiver(x) # dev
  BY <1>1, CutIs
<1>3. HasUnit(m, u) /\ \A c : DevicesIn(m, c) = DevicesIn(d, c)  BY <1>2, SameDevices
<1> HIDE DEF m
<1>4. /\ e \in Modules /\ HoldsTogether(e) /\ e.units = m.units /\ e.edges = m.edges /\ e.placed = m.placed /\ e.exprs = m.exprs
      /\ DevicesIn(e, u) = DevicesIn(m, u) \ {dev}
      /\ \A c \in Containers \ {u} : DevicesIn(e, c) = DevicesIn(m, c)  BY <1>2, <1>3, ProcessorRemoved
<1> HIDE DEF e
<1>5. Takes(d, u, dev, e)  BY <1>1, <1>2, <1>3, <1>4 DEF Takes, SameReferences, SameUnits, HasUnit
<1> QED  BY <1>5 DEF e, m

LEMMA UnitTaken ==
    ASSUME NEW d \in Modules, IsWhole(d), NEW u \in Units, HasUnit(d, u), NEW c, c = Front(u), Exists(d, c),
           Append(c, UnitDevice(u)[2]) = u,
           NEW l, l = Last(Freed(DisconnectDevice(d, c, UnitDevice(u)), u))
    PROVE  Takes(d, c, UnitDevice(u), RemoveUnit(l, u))
<1> DEFINE dev == UnitDevice(u)
           m == DisconnectDevice(d, c, dev)
           e == RemoveUnit(l, u)
<1>1. IsRemovable(dev) /\ c \in Containers /\ Gone(c, dev) = Inside(u)
  BY DevicesAreNamed, UnitIs, DevicesDiffer DEF IsRemovable, Gone
<1>2. /\ m \in Modules /\ IsWhole(m) /\ SameUnits(d, m) /\ SameReferences(d, m)
      /\ m.placed = d.placed /\ Unconnected(m, c, dev)
      /\ (\A b \in Containers \ {c} : m.edges[b] = d.edges[b])
      /\ \A x : x \in ToSet(m.edges[c]) <=> x \in ToSet(d.edges[c]) /\ Sender(x) # dev /\ Receiver(x) # dev
  BY <1>1, CutIs
<1>3. (\A v : HasUnit(m, v) <=> HasUnit(d, v)) /\ \A b : DevicesIn(m, b) = DevicesIn(d, b)  BY <1>2, SameDevices
<1>4. l = Last(Freed(m, u))  OBVIOUS
<1> HIDE DEF m
<1>5. l \in Modules /\ SameParts(m, l) /\ ControlsLeft(m, u, l)  BY <1>2, <1>3, <1>4, UnitFreed
<1>6. e \in Modules /\ SameControls(l, e) /\ Removed(l, u, e)  BY <1>5, RemovedUnitIs
<1> HIDE DEF e, dev
<1>7. /\ HoldsTogether(e)
      /\ \A v \in Units : HasUnit(e, v) <=> HasUnit(m, v) /\ v \notin Inside(u)
      /\ DevicesIn(e, c) = DevicesIn(m, c) \ {dev}
      /\ \A b \in Containers \ (Inside(u) \union {c}) : DevicesIn(e, b) = DevicesIn(m, b)
  BY <1>2, <1>3, <1>5, <1>6, UnitGone DEF dev
<1>8. c \notin Inside(u)  BY OutsideIs
<1>9. \A b \in Containers : e.placed[b] = IF b \in Inside(u) THEN {} ELSE d.placed[b]
  <2>1. l.placed = d.placed  BY <1>2, <1>5 DEF SameParts
  <2> QED  BY <2>1, <1>6 DEF Removed
<1>10. \A b \in Containers \ Inside(u) : e.edges[b] = m.edges[b]  BY <1>5, <1>6 DEF Removed, SameParts
<1>11. \A v \in Units \ Inside(u) : e.exprs[v] = d.exprs[v]
  BY <1>2, <1>5, <1>6 DEF Removed, SameParts, SameReferences
<1>12. Takes(d, c, dev, e)
  <2>1. \A v \in Units : HasUnit(e, v) <=> HasUnit(d, v) /\ v \notin Inside(u)  BY <1>3, <1>7
  <2>2. DevicesIn(e, c) = DevicesIn(d, c) \ {dev}  BY <1>3, <1>7
  <2>3. \A b \in Containers \ {c} : b \notin Inside(u) => e.edges[b] = d.edges[b] /\ DevicesIn(e, b) = DevicesIn(d, b)
    BY <1>2, <1>3, <1>7, <1>10
  <2>4. \A x : x \in ToSet(e.edges[c]) <=> x \in ToSet(d.edges[c]) /\ Sender(x) # dev /\ Receiver(x) # dev
    BY <1>1, <1>2, <1>8, <1>10
  <2> QED  BY <1>1, <1>6, <1>7, <1>8, <1>9, <1>11, <2>1, <2>2, <2>3, <2>4 DEF Takes
<1> QED  BY <1>12 DEF e, dev

LEMMA RemovalIs ==
    ASSUME store \in Modules, IsWhole(store), view.of \in Containers, Exists(store, view.of),
           NEW dev \in DevicesIn(store, view.of), HasButtons(dev)
    PROVE  /\ RemovalSteps(dev) \in Seq(Modules) /\ RemovalSteps(dev) # <<>>
           /\ \A x \in ToSet(RemovalSteps(dev)) : IsLinked(x)
           /\ Removes(store, view.of, dev, Last(RemovalSteps(dev)))
<1> DEFINE c == view.of
           u == Append(c, dev[2])
           cut == DisconnectDevice(store, c, dev)
           free == IF c = <<>> THEN RemoveControlsTo(cut, u) ELSE <<cut>>
           s == IF dev[1] = "proc" THEN <<cut, RemoveProcessor(cut, c, dev[2])>> ELSE Append(free, RemoveUnit(Last(free), u))
<1>1. c \in Containers /\ Exists(store, c) /\ dev \in DevicesIn(store, c)  OBVIOUS
<1>2. IsRemovable(dev)  BY ButtonIs
<1>3. cut \in Modules /\ IsWhole(cut) /\ SameUnits(store, cut)  BY <1>2, CutIs
<1>4. ASSUME NEW t \in Seq(Modules), t # <<>>, \A x \in ToSet(t) : IsLinked(x), Takes(store, c, dev, Last(t)), s = t,
             Gone(c, dev) \subseteq Units
      PROVE  /\ RemovalSteps(dev) \in Seq(Modules) /\ RemovalSteps(dev) # <<>>
             /\ \A x \in ToSet(RemovalSteps(dev)) : IsLinked(x)
             /\ Removes(store, view.of, dev, Last(RemovalSteps(dev)))
  BY <1>4, <1>2, LayoutFollows DEF RemovalSteps, UnitOf
<1>5. CASE dev[1] = "proc"
  <2> DEFINE e == RemoveProcessor(cut, c, dev[2])
  <2>1. c \in Units /\ dev[2] \in Procs /\ dev = ProcDevice(dev[2]) /\ Gone(c, dev) = {}  BY <1>1, <1>5, ButtonIs
  <2>2. Takes(store, c, dev, e)  BY <2>1, ProcessorTaken, <1>1, ContainersAre DEF Exists
  <2>3. s = <<cut, e>>  BY <1>5
  <2>4. IsLinked(cut) /\ IsLinked(e) /\ e \in Modules  BY <1>3, <2>2 DEF IsWhole, Takes, HoldsTogether
  <2> HIDE DEF cut, e, c
  <2>5. <<cut, e>> \in Seq(Modules) /\ <<cut, e>> # <<>> /\ Last(<<cut, e>>) = e /\ ToSet(<<cut, e>>) = {cut, e}
    BY <1>3, <2>4 DEF Last, ToSet
  <2> QED  BY <1>4, <2>1, <2>2, <2>3, <2>4, <2>5
<1>6. CASE dev[1] # "proc"
  <2> DEFINE l == Last(free)
             e == RemoveUnit(l, u)
  <2>1. u \in Units /\ HasUnit(store, u) /\ Front(u) = c /\ dev = UnitDevice(u) /\ Gone(c, dev) = Inside(u)
    BY <1>1, <1>6, ButtonIs
  <2>2. free = Freed(cut, u)  BY <2>1 DEF Freed
  <2>3. s = Append(free, e)  BY <1>6
  <2>4. Takes(store, c, dev, e)  BY <2>1, <2>2, <1>1, UnitTaken
  <2> HIDE DEF e, u, cut, free
  <2>5. free \in Seq(Modules) /\ \A x \in ToSet(free) : IsLinked(x)  BY <1>3, <2>1, <2>2, UnitFreed, SameDevices
  <2>6. e \in Modules /\ IsLinked(e)  BY <2>4 DEF Takes, HoldsTogether
  <2>7. Append(free, e) \in Seq(Modules) /\ ToSet(Append(free, e)) = ToSet(free) \union {e}
        /\ Append(free, e) # <<>> /\ Last(Append(free, e)) = e  BY <2>5, <2>6, AppendedIs
  <2> QED  BY <1>4, <2>3, <2>4, <2>5, <2>6, <2>7, <2>1 DEF Inside
<1> QED  BY <1>5, <1>6

-----------------------------------------------------------------------------
\* New units.

\* Connections of a device to the master, one for each audio channel.
ToMaster(dev, ports) == [i \in 1..Sides |-> <<MakePath(dev, ports[i]), <<Out(i - 1)>>>>]

LEMMA ToMasterIs ==
    ASSUME NEW dev, NEW ports, \A i \in 1..Sides : IsEnd(dev, ports[i]) /\ IsSendPort(dev, ports[i])
    PROVE  /\ ToMaster(dev, ports) \in Seq(Edges) /\ Distinct(ToMaster(dev, ports))
           /\ \A x \in ToSet(ToMaster(dev, ports)) :
                 /\ x \in Edges /\ Sender(x) = dev /\ Receiver(x) = Master /\ SendsAndReceives(x)
                 /\ \E i \in 1..Sides : EdgeEnds(x) = <<<<dev, ports[i]>>, <<Master, Out(i - 1)>>>>
<1> DEFINE s == ToMaster(dev, ports)
           x(i) == <<MakePath(dev, ports[i]), MakePath(Master, Out(i - 1))>>
<1>1. ASSUME NEW i \in 1..Sides
      PROVE  /\ s[i] = x(i) /\ x(i) \in Edges /\ Sender(x(i)) = dev /\ Receiver(x(i)) = Master /\ SendsAndReceives(x(i))
             /\ EdgeEnds(x(i)) = <<<<dev, ports[i]>>, <<Master, Out(i - 1)>>>>
  <2>1. Out(i - 1) \in Ports /\ Out(i - 1)[1] = "out"  BY PortsAre, SizesAre
  <2>2. IsEnd(Master, Out(i - 1)) /\ MakePath(Master, Out(i - 1)) = <<Out(i - 1)>>  BY <2>1, PathOfPort DEF IsEnd
  <2>3. s[i] = x(i)  BY <2>2 DEF ToMaster
  <2>4. x(i) \in Edges /\ Sender(x(i)) = dev /\ Receiver(x(i)) = Master
        /\ EdgeEnds(x(i)) = <<<<dev, ports[i]>>, <<Master, Out(i - 1)>>>>  BY <2>2, PairIs
  <2> HIDE DEF x
  <2> QED  BY <2>3, <2>4, <2>1 DEF SendsAndReceives, IsSendPort
<1> HIDE DEF x
<1>2. DOMAIN s = 1..Sides /\ s = [i \in 1..Sides |-> s[i]]  BY DEF ToMaster
<1> HIDE DEF s
<1>3. s \in Seq(Edges)
  <2>1. \A i \in 1..Sides : s[i] \in Edges  BY <1>1
  <2> QED  BY <2>1, <1>2, SizesAre
<1>4. Distinct(s)
  <2> SUFFICES ASSUME NEW i \in 1..Sides, NEW j \in 1..Sides, i # j PROVE s[i] # s[j]  BY <1>2 DEF Distinct
  <2>1. Out(i - 1) # Out(j - 1)  BY PortsAre, SizesAre
  <2> QED  BY <2>1, <1>1
<1> QED  BY <1>1, <1>3, <1>4, <1>2 DEF s, ToSet

\* A unit in a place that was free, before its control is made.
Placed(d, u, e) ==
    /\ e.units[u].kind \in {"instrument", "effect"}
    /\ \A v \in Units \ {u} : e.units[v] = d.units[v] /\ e.procs[v] = d.procs[v]
    /\ \A c \in Containers \ {u} : e.edges[c] = d.edges[c] /\ e.placed[c] = d.placed[c]
    /\ SameReferences(d, e)
    /\ Distinct(e.edges[u]) /\ Fits(ToSet(e.edges[u]), Shown(e, u))
    /\ e.placed[u] \subseteq DevicesIn(e, u)

LEMMA FreePlaceIs ==
    ASSUME NEW d \in Modules, IsWhole(d), NEW u \in Units, ~HasUnit(d, u)
    PROVE  /\ ProcsIn(d, u) = {} /\ UnitsIn(d, u) = {} /\ d.edges[u] = <<>> /\ d.placed[u] = {}
           /\ d.exprs[u] = NoExpressions /\ d.streams[u] = <<>>
           /\ \A n \in Procs : d.procs[u][n] = None
BY UnitIs DEF IsWhole, RemovedAreEmpty, ProcsIn

LEMMA PlacedIs ==
    ASSUME NEW d \in Modules, IsWhole(d), NEW u \in Units, ~HasUnit(d, u), Exists(d, Front(u)),
           NEW e \in Modules, Placed(d, u, e)
    PROVE  /\ Wired(e) /\ RemovedAreEmpty(e) /\ ReferencesLive(e) /\ LayoutIsOfDevices(e)
           /\ \A v \in Units : HasUnit(e, v) <=> HasUnit(d, v) \/ v = u
           /\ \A c \in Containers : DevicesIn(d, c) \subseteq DevicesIn(e, c)
           /\ \A c \in Containers \ {u, Front(u)} : Shown(e, c) = Shown(d, c)
           /\ UnitDevice(u) \in DevicesIn(e, Front(u)) /\ UnitDevice(u) \notin DevicesIn(d, Front(u))
<1> DEFINE f == Front(u)
<1>1. /\ Wired(d) /\ RemovedAreEmpty(d) /\ ReferencesLive(d) /\ LayoutIsOfDevices(d)
      /\ u # <<>> /\ f # u /\ f \in Containers /\ u \in Containers  BY LinkedIs, UnitIs DEF IsWhole
<1>2. \A v \in Units : HasUnit(e, v) <=> HasUnit(d, v) \/ v = u  BY NoneAssumption DEF HasUnit, Placed
<1>3. ASSUME NEW c \in Containers \ {u, f} PROVE DevicesIn(e, c) = DevicesIn(d, c) /\ Shown(e, c) = Shown(d, c)
  BY ContainersAre, SameShown DEF Placed
<1>4. \A v \in Units : HasUnit(d, v) => e.units[v] = d.units[v] /\ HasUnit(e, v)  BY <1>2 DEF Placed
<1>5. \A v \in Units \ {u} : e.units[v] = d.units[v] /\ e.procs[v] = d.procs[v]  BY DEF Placed
<1>6. ASSUME NEW dev, NEW p, EndIn(d, f, dev, p) PROVE EndIn(e, f, dev, p)
  BY <1>4, <1>6, <1>1, <1>5, ContainersAre DEF EndIn, OutPorts, InPorts
<1>7. Wired(e)
  <2> SUFFICES ASSUME NEW c \in Containers, Exists(e, c)
               PROVE  Distinct(e.edges[c]) /\ Fits(ToSet(e.edges[c]), Shown(e, c))  BY DEF Wired
  <2>1. CASE c = u  BY <2>1 DEF Placed
  <2>2. ASSUME c # u PROVE Exists(d, c) /\ e.edges[c] = d.edges[c]  BY <2>2, <1>2, ContainersAre DEF Exists, Placed
  <2>3. CASE c # u /\ c # f  BY <2>2, <2>3, <1>1, <1>3 DEF Wired
  <2>4. CASE c = f
    <3>1. Distinct(d.edges[f]) /\ Fits(ToSet(d.edges[f]), Shown(d, f)) /\ e.edges[f] = d.edges[f]
      BY <2>2, <2>4, <1>1 DEF Wired
    <3>2. Fits(ToSet(d.edges[f]), Shown(e, f))  BY <3>1, <1>1, <1>6, MoreEndsFit
    <3> QED  BY <3>1, <3>2, <2>4
  <2> QED  BY <2>1, <2>3, <2>4
<1>8. RemovedAreEmpty(e)
  <2> SUFFICES ASSUME NEW v \in Units, ~HasUnit(e, v)
               PROVE  /\ ProcsIn(e, v) = {} /\ UnitsIn(e, v) = {} /\ e.edges[v] = <<>> /\ e.placed[v] = {}
                      /\ e.exprs[v] = NoExpressions /\ e.streams[v] = <<>>  BY DEF RemovedAreEmpty
  <2>1. ~HasUnit(d, v) /\ v # u /\ v # f /\ v \in Containers  BY <1>2, ContainersAre DEF Exists
  <2> QED  BY <2>1, <1>1, <1>5, <1>2 DEF RemovedAreEmpty, Placed, SameReferences, ProcsIn, UnitsIn
<1>9. ReferencesLive(e)
  <2> SUFFICES ASSUME NEW v \in Units
               PROVE  /\ e.exprs[v].default \in ExprNames(e, v) \union {None}
                      /\ Len(v) = 1 => \A i \in DOMAIN e.streams[v] : e.streams[v][i][2] \in StreamProcs(e, v)
    BY DEF ReferencesLive
  <2>1. e.exprs = d.exprs /\ e.streams = d.streams  BY DEF Placed, SameReferences
  <2>2. CASE v = u  BY <2>1, <2>2, FreePlaceIs, <1>1 DEF ReferencesLive, ExprNames
  <2>3. CASE v # u  BY <2>3, <1>5, <2>1, <1>1 DEF StreamProcs, ReferencesLive, ExprNames
  <2> QED  BY <2>2, <2>3
<1>10. ASSUME NEW c \in Containers PROVE DevicesIn(d, c) \subseteq DevicesIn(e, c)
  <2> SUFFICES ASSUME NEW dev \in DevicesIn(d, c) PROVE dev \in DevicesIn(e, c)  OBVIOUS
  <2> QED  BY <1>4, DevicesInAre, <1>5, ContainersAre, FreePlaceIs
<1>11. LayoutIsOfDevices(e)
  <2> SUFFICES ASSUME NEW c \in Containers PROVE e.placed[c] \subseteq DevicesIn(e, c)  BY DEF LayoutIsOfDevices
  <2>1. CASE c = u  BY <2>1 DEF Placed
  <2>2. CASE c # u  BY <2>2, <1>1, <1>10 DEF LayoutIsOfDevices, Placed
  <2> QED  BY <2>1, <2>2
<1>12. UnitDevice(u) \notin DevicesIn(d, f)
  <2> SUFFICES ASSUME UnitDevice(u) \in DevicesIn(d, f) PROVE FALSE  OBVIOUS
  <2>1. PICK v \in Units : Front(v) = f /\ UnitDevice(u) = UnitDevice(v) /\ HasUnit(d, v)
    BY DevicesInAre, DevicesDiffer
  <2> QED  BY <2>1, DevicesDiffer, UnitIs
<1> QED  BY <1>2, <1>3, <1>7, <1>8, <1>9, <1>10, <1>11, <1>12, DevicesInAre

\* A unit as it is made: its kind, processors, connections and layout.
WithUnit(d, u, r, f, s, S) ==
    [d EXCEPT !.units[u] = r, !.procs[u] = f, !.edges[u] = s, !.placed[u] = S]

LEMMA WithUnitIs ==
    ASSUME NEW d \in Modules, NEW u \in Units, NEW r \in UnitKinds,
           NEW f \in [Procs -> {None} \union DOMAIN ProcPorts],
           NEW s \in Seq(Edges), NEW S \in SUBSET DeviceNames
    PROVE  /\ WithUnit(d, u, r, f, s, S) \in Modules
           /\ WithUnit(d, u, r, f, s, S).units[u] = r /\ WithUnit(d, u, r, f, s, S).procs[u] = f
           /\ WithUnit(d, u, r, f, s, S).edges[u] = s /\ WithUnit(d, u, r, f, s, S).placed[u] = S
           /\ \A v \in Units \ {u} : /\ WithUnit(d, u, r, f, s, S).units[v] = d.units[v]
                                     /\ WithUnit(d, u, r, f, s, S).procs[v] = d.procs[v]
           /\ \A c \in Containers \ {u} : /\ WithUnit(d, u, r, f, s, S).edges[c] = d.edges[c]
                                          /\ WithUnit(d, u, r, f, s, S).placed[c] = d.placed[c]
           /\ SameControls(d, WithUnit(d, u, r, f, s, S)) /\ SameReferences(d, WithUnit(d, u, r, f, s, S))
<1> DEFINE P == [Procs -> {None} \union DOMAIN ProcPorts]
           a == [d.units EXCEPT ![u] = r]
           b == [d.procs EXCEPT ![u] = f]
           g == [d.edges EXCEPT ![u] = s]
           l == [d.placed EXCEPT ![u] = S]
           e == WithUnit(d, u, r, f, s, S)
<1>1. /\ d.units \in [Units -> UnitKinds] /\ d.procs \in [Units -> P]
      /\ d.edges \in [Containers -> Seq(Edges)] /\ d.placed \in [Containers -> SUBSET DeviceNames]
      /\ f \in P /\ u \in Containers  BY ModuleIs, ContainersAre
<1>2. e = [d EXCEPT !.units = a, !.procs = b, !.edges = g, !.placed = l]  BY DEF WithUnit
<1> HIDE DEF P, e
<1>3. a \in [Units -> UnitKinds] /\ a[u] = r /\ \A v \in Units \ {u} : a[v] = d.units[v]  BY <1>1
<1>4. b \in [Units -> P] /\ b[u] = f /\ \A v \in Units \ {u} : b[v] = d.procs[v]  BY <1>1
<1>5. g \in [Containers -> Seq(Edges)] /\ g[u] = s /\ \A c \in Containers \ {u} : g[c] = d.edges[c]  BY <1>1
<1>6. l \in [Containers -> SUBSET DeviceNames] /\ l[u] = S /\ \A c \in Containers \ {u} : l[c] = d.placed[c]  BY <1>1
<1> HIDE DEF a, b, g, l
<1>7. /\ e.units = a /\ e.procs = b /\ e.edges = g /\ e.placed = l
      /\ SameControls(d, e) /\ SameReferences(d, e)  BY <1>2 DEF Modules, SameControls, SameReferences
<1>8. e \in Modules  BY <1>2, <1>3, <1>4, <1>5, <1>6 DEF Modules, UnitKinds, P
<1> QED  BY <1>3, <1>4, <1>5, <1>6, <1>7, <1>8 DEF e

\* An effect connects its inputs to its outputs.
LEMMA EffectMade ==
    ASSUME NEW d \in Modules, IsWhole(d), NEW u \in Units, ~HasUnit(d, u)
    PROVE  /\ CreateEffect(d, u) \in Modules /\ Placed(d, u, CreateEffect(d, u))
           /\ SameControls(d, CreateEffect(d, u)) /\ AudioOut \subseteq CreateEffect(d, u).units[u].ports
<1> DEFINE ports == d.units[u].ports \union (AudioIn \union AudioOut)
           r == [kind |-> "effect", ports |-> ports]
           ins == [i \in 1..Sides |-> In(i - 1)]
           s == ToMaster(Iin, ins)
           e == CreateEffect(d, u)
           w == WithUnit(d, u, r, d.procs[u], s, {})
<1>1. u # <<>> /\ u \in Containers /\ d.edges[u] = <<>> /\ d.placed[u] = {}  BY UnitIs, FreePlaceIs
<1>2. /\ d.units[u] \in UnitKinds /\ d.procs[u] \in [Procs -> {None} \union DOMAIN ProcPorts]
      /\ d.edges \in [Containers -> Seq(Edges)] /\ d.placed \in [Containers -> SUBSET DeviceNames]
      /\ d.units \in [Units -> UnitKinds] /\ d.procs \in [Units -> [Procs -> {None} \union DOMAIN ProcPorts]]
  BY ModuleIs
<1>3. \A i \in 1..Sides : i - 1 \in 0..(Sides - 1) /\ i - 1 \in 0..(MaxPort - 1)  BY SizesAre
<1>4. \A i \in 1..Sides : IsEnd(Iin, ins[i]) /\ IsSendPort(Iin, ins[i]) /\ ins[i] = In(i - 1)
  BY <1>3, PortsAre DEF IsEnd, IsSendPort
<1>5. /\ s \in Seq(Edges) /\ Distinct(s)
      /\ \A x \in ToSet(s) :
            /\ x \in Edges /\ Sender(x) = Iin /\ Receiver(x) = Master /\ SendsAndReceives(x)
            /\ \E i \in 1..Sides : EdgeEnds(x) = <<<<Iin, ins[i]>>, <<Master, Out(i - 1)>>>>  BY <1>4, ToMasterIs
<1>6. e = w
  <2>1. s = [i \in 1..Sides |-> <<<<In(i - 1)>>, <<Out(i - 1)>>>>]
    <3>1. \A i \in 1..Sides : MakePath(Iin, ins[i]) = <<In(i - 1)>>  BY <1>3, PortsAre, PathOfPort
    <3> QED  BY <3>1 DEF ToMaster
  <2> HIDE DEF s
  <2>2. e = ConnectAudio(GivePorts(d, u, "effect", AudioIn \union AudioOut), u,
                 [i \in 1..Sides |-> <<In(i - 1)>>], [i \in 1..Sides |-> <<Out(i - 1)>>])  BY DEF CreateEffect
  <2>3. e = [GivePorts(d, u, "effect", AudioIn \union AudioOut) EXCEPT !.edges[u] = @ \o s]
    BY <2>2, <2>1 DEF ConnectAudio
  <2>4. GivePorts(d, u, "effect", AudioIn \union AudioOut) = [d EXCEPT !.units[u] = r]  BY DEF GivePorts
  <2>5. e = [[d EXCEPT !.units[u] = r] EXCEPT !.edges[u] = d.edges[u] \o s]  BY <2>3, <2>4 DEF Modules
  <2>6. e = [d EXCEPT !.units[u] = r, !.edges[u] = s]  BY <2>5, <1>1, <1>5
  <2>7. [d.procs EXCEPT ![u] = d.procs[u]] = d.procs /\ [d.placed EXCEPT ![u] = {}] = d.placed  BY <1>1, <1>2
  <2>8. w = [d EXCEPT !.units[u] = r, !.edges[u] = s]  BY <2>7 DEF WithUnit, Modules
  <2> QED  BY <2>6, <2>8
<1> HIDE DEF s
<1>7. /\ w \in Modules /\ w.units[u] = r /\ w.procs[u] = d.procs[u] /\ w.edges[u] = s /\ w.placed[u] = {}
      /\ \A v \in Units \ {u} : w.units[v] = d.units[v] /\ w.procs[v] = d.procs[v]
      /\ \A c \in Containers \ {u} : w.edges[c] = d.edges[c] /\ w.placed[c] = d.placed[c]
      /\ SameControls(d, w) /\ SameReferences(d, w)
  <2>1. {} \in SUBSET DeviceNames /\ d.procs[u] \in [Procs -> {None} \union DOMAIN ProcPorts]  BY <1>2
  <2>2. r \in UnitKinds /\ s \in Seq(Edges)  BY <1>5, <1>2, PortsAre DEF UnitKinds
  <2> HIDE DEF r
  <2> QED  BY <2>1, <2>2, WithUnitIs
<1>8. r.kind = "effect" /\ r.ports = ports  OBVIOUS
<1> HIDE DEF w, r
<1>9. w.units[u].kind = "effect" /\ w.units[u].ports = ports  BY <1>7, <1>8
<1>10. \A i \in 1..Sides : EndIn(w, u, Iin, ins[i]) /\ EndIn(w, u, Master, Out(i - 1))
  BY <1>1, <1>9, <1>3, <1>4, PortsAre DEF OutPorts, InPorts, EndIn
<1> HIDE DEF ins, ports
<1>11. Fits(ToSet(s), Shown(w, u))
  <2>1. \A x \in ToSet(s) : EndsShown(x, Shown(w, u)) /\ SendsAndReceives(x) /\ Receiver(x) = Master
    <3> TAKE x \in ToSet(s)
    <3>1. PICK i \in 1..Sides : EdgeEnds(x) = <<<<Iin, ins[i]>>, <<Master, Out(i - 1)>>>>  BY <1>5
    <3>2. EdgeEnds(x)[1][2] = ins[i] /\ EdgeEnds(x)[2][2] = Out(i - 1)  BY <3>1
    <3>3. EndsShown(x, Shown(w, u))  BY <3>2, <1>1, <1>5, <1>7, <1>10, EndsShownAre
    <3> QED  BY <3>3, <1>5
  <2>2. Fits({} \union ToSet(s), Shown(w, u))  BY <2>1, MoreToMasterFit, <1>5, DeviceNamesAre DEF Fits
  <2> QED  BY <2>2
<1> QED  BY <1>6, <1>7, <1>9, <1>5, <1>11 DEF e, Placed, ports

\* The connections of a new instrument: pitch and force to the oscillator,
\* and that to the outputs.
LEMMA InstrumentEdgesFit ==
    ASSUME NEW shown, NEW force \in Procs, NEW pitch \in Procs, NEW base \in Procs,
           force # pitch, force # base, pitch # base,
           NEW outs, outs = [i \in 1..Sides |-> Out(i - 1)],
           NEW a, a = <<MakePath(ProcDevice(pitch), Out(0)), MakePath(ProcDevice(base), In(0))>>,
           NEW b, b = <<MakePath(ProcDevice(force), Out(0)), MakePath(ProcDevice(base), In(1))>>,
           {Master, ProcDevice(pitch), ProcDevice(force), ProcDevice(base)} \subseteq DOMAIN shown,
           Out(0) \in shown[ProcDevice(pitch)], Out(0) \in shown[ProcDevice(force)],
           In(0) \in shown[ProcDevice(base)], In(1) \in shown[ProcDevice(base)],
           \A i \in 1..Sides : Out(i - 1) \in shown[ProcDevice(base)] /\ Out(i - 1) \in shown[Master]
    PROVE  LET s == <<a, b>> \o ToMaster(ProcDevice(base), outs)
           IN s \in Seq(Edges) /\ Distinct(s) /\ Fits(ToSet(s), shown)
<1> DEFINE P == ProcDevice(pitch)
           F == ProcDevice(force)
           B == ProcDevice(base)
           t == ToMaster(B, outs)
           s == <<a, b>> \o t
<1>1. /\ P \in ProcDevices /\ F \in ProcDevices /\ B \in ProcDevices
      /\ P # F /\ P # B /\ F # B /\ P # Master /\ F # Master /\ B # Master  BY DevicesAreNamed, DevicesDiffer
<1>2. /\ 0 \in 0..(MaxPort - 1) /\ 1 \in 0..(MaxPort - 1)
      /\ \A i \in 1..Sides : i - 1 \in 0..(MaxPort - 1)  BY SizesAre
<1>3. \A dev \in ProcDevices : \A n \in 0..(MaxPort - 1) :
         /\ IsEnd(dev, Out(n)) /\ IsSendPort(dev, Out(n)) /\ IsEnd(dev, In(n)) /\ ~IsSendPort(dev, In(n))
  BY DeviceNamesAre, PortsAre DEF IsRemovable, IsEnd, IsSendPort
<1>4. /\ a \in Edges /\ EdgeEnds(a) = <<<<P, Out(0)>>, <<B, In(0)>>>> /\ Sender(a) = P /\ Receiver(a) = B
      /\ b \in Edges /\ EdgeEnds(b) = <<<<F, Out(0)>>, <<B, In(1)>>>> /\ Sender(b) = F /\ Receiver(b) = B
  BY <1>1, <1>2, <1>3, PairIs DEF P, F, B
<1> HIDE DEF P, F, B
<1>5. SendsAndReceives(a) /\ SendsAndReceives(b)  BY <1>1, <1>2, <1>3, <1>4 DEF SendsAndReceives
<1>6. EndsShown(a, shown) /\ EndsShown(b, shown)  BY <1>4 DEF EndsShown, P, F, B
<1>7. \A i \in 1..Sides : outs[i] = Out(i - 1) /\ IsEnd(B, outs[i]) /\ IsSendPort(B, outs[i])  BY <1>1, <1>2, <1>3
<1>8. /\ t \in Seq(Edges) /\ Distinct(t)
      /\ \A x \in ToSet(t) :
            /\ x \in Edges /\ Sender(x) = B /\ Receiver(x) = Master /\ SendsAndReceives(x)
            /\ \E i \in 1..Sides : EdgeEnds(x) = <<<<B, outs[i]>>, <<Master, Out(i - 1)>>>>  BY <1>7, ToMasterIs
<1> HIDE DEF t
<1>9. \A x \in ToSet(t) : EndsShown(x, shown)
  <2> TAKE x \in ToSet(t)
  <2>1. PICK i \in 1..Sides : EdgeEnds(x) = <<<<B, outs[i]>>, <<Master, Out(i - 1)>>>>  BY <1>8
  <2> QED  BY <2>1, <1>7 DEF EndsShown, B
<1>10. s \in Seq(Edges) /\ ToSet(s) = {a, b} \union ToSet(t) /\ Distinct(s)
  <2> DEFINE q == <<a, b>>
  <2>1. q \in Seq(Edges) /\ ToSet(q) = {a, b} /\ Distinct(q)  BY <1>1, <1>4 DEF ToSet, Distinct
  <2>2. s = q \o t  OBVIOUS
  <2> HIDE DEF q, s
  <2>3. ToSet(q) \intersect ToSet(t) = {}  BY <2>1, <1>1, <1>4, <1>8
  <2> QED  BY <2>1, <2>2, <2>3, <1>8, JoinedIs
<1>11. Fits({a, b} \union ToSet(t), shown)
  <2>1. \A x \in ToSet(t) : EndsShown(x, shown) /\ SendsAndReceives(x) /\ Receiver(x) = Master  BY <1>8, <1>9
  <2> DEFINE E == {a, b}
  <2>2. Fits(E, shown) /\ \A x \in E \union ToSet(t) : Sender(x) # Master
    BY <1>1, <1>4, <1>5, <1>6, <1>8 DEF Closed, NoWayBack, Fits
  <2> HIDE DEF E
  <2>3. Fits(E \union ToSet(t), shown)  BY <2>1, <2>2, MoreToMasterFit
  <2> QED  BY <2>3 DEF E
<1> QED  BY <1>10, <1>11 DEF t, B

\* A unit with some of its processors.
WithProcs(d, u, r, g) == [d EXCEPT !.units[u] = r, !.procs[u] = g]

LEMMA ProcessorsAdded ==
    ASSUME NEW d \in Modules, NEW u \in Units, NEW r, NEW g, NEW n, NEW t
    PROVE  AddProcessor(WithProcs(d, u, r, g), u, n, t) = WithProcs(d, u, r, [g EXCEPT ![n] = t])
<1> DEFINE a == [d.units EXCEPT ![u] = r]
           b == [d.procs EXCEPT ![u] = g]
           h == [g EXCEPT ![n] = t]
           c == [d.procs EXCEPT ![u] = h]
           x == [d EXCEPT !.units = a, !.procs = b]
<1>1. b[u] = g /\ [b EXCEPT ![u] = h] = c  BY ModuleIs
<1>2. x.procs = b  BY DEF Modules
<1> HIDE DEF a, b, c, x
<1>3. AddProcessor(x, u, n, t) = [x EXCEPT !.procs = c]  BY <1>1, <1>2 DEF AddProcessor
<1>4. [x EXCEPT !.procs = c] = [d EXCEPT !.units = a, !.procs = c]  BY DEF x, Modules
<1> QED  BY <1>3, <1>4 DEF x, a, b, c, WithProcs

LEMMA InstrumentMade ==
    ASSUME NEW d \in Modules, IsWhole(d), NEW u \in Units, ~HasUnit(d, u)
    PROVE  /\ CreateInstrument(d, u) \in Modules /\ Placed(d, u, CreateInstrument(d, u))
           /\ SameControls(d, CreateInstrument(d, u)) /\ AudioOut \subseteq CreateInstrument(d, u).units[u].ports
<1> DEFINE free == FreeProcs(d, u)
           force == Min(free)
           pitch == Min(free \ {force})
           base == Min(free \ {force, pitch})
           ports == d.units[u].ports \union AudioOut
           r == [kind |-> "instrument", ports |-> ports]
           f == [[[d.procs[u] EXCEPT ![force] = "force"] EXCEPT ![pitch] = "pitch"] EXCEPT ![base] = "add"]
           outs == [i \in 1..Sides |-> Out(i - 1)]
           a == <<MakePath(ProcDevice(pitch), Out(0)), MakePath(ProcDevice(base), In(0))>>
           b == <<MakePath(ProcDevice(force), Out(0)), MakePath(ProcDevice(base), In(1))>>
           s == <<a, b>> \o ToMaster(ProcDevice(base), outs)
           S == {Iin, Master, ProcDevice(force), ProcDevice(pitch), ProcDevice(base)}
           e == CreateInstrument(d, u)
           w == WithUnit(d, u, r, f, s, S)
<1>1. u # <<>> /\ u \in Containers /\ ProcsIn(d, u) = {} /\ \A n \in Procs : d.procs[u][n] = None
  BY UnitIs, FreePlaceIs
<1>2. /\ d.units[u] \in UnitKinds /\ d.procs[u] \in [Procs -> {None} \union DOMAIN ProcPorts]
      /\ d.units \in [Units -> UnitKinds] /\ d.procs \in [Units -> [Procs -> {None} \union DOMAIN ProcPorts]]
      /\ d.edges \in [Containers -> Seq(Edges)] /\ d.placed \in [Containers -> SUBSET DeviceNames]  BY ModuleIs
<1>3. free = Procs /\ Procs \subseteq Nat /\ {0, 1, 2} \subseteq Procs  BY <1>1, SizesAre DEF FreeProcs, Procs
<1>4. force \in Procs /\ pitch \in Procs /\ base \in Procs /\ force # pitch /\ force # base /\ pitch # base
  <2>1. \A x, y : \E n \in {0, 1, 2} : n # x /\ n # y  OBVIOUS
  <2> HIDE DEF base, pitch, force, free
  <2>2. force \in Procs  BY <1>3, MinIs DEF force
  <2>3. pitch \in Procs /\ force # pitch
    <3> DEFINE T == free \ {force}
    <3>1. PICK n \in {0, 1, 2} : n # force  BY <2>1
    <3>2. n \in T /\ T \subseteq Nat  BY <3>1, <1>3
    <3> HIDE DEF T
    <3>3. Min(T) \in T  BY <3>2, MinIs
    <3> QED  BY <3>3, <1>3 DEF T, pitch
  <2>4. base \in Procs /\ base # force /\ base # pitch
    <3> DEFINE T == free \ {force, pitch}
    <3>1. PICK n \in {0, 1, 2} : n # force /\ n # pitch  BY <2>1
    <3>2. n \in T /\ T \subseteq Nat  BY <3>1, <1>3
    <3> HIDE DEF T
    <3>3. Min(T) \in T  BY <3>2, MinIs
    <3> QED  BY <3>3, <1>3 DEF T, base
  <2> QED  BY <2>2, <2>3, <2>4
<1>5. e = w
  <2> HIDE DEF force, pitch, base, free
  <2>1. e = [AddProcessor(AddProcessor(AddProcessor(
                    GivePorts(d, u, "instrument", AudioOut), u, force, "force"), u, pitch, "pitch"), u, base, "add") EXCEPT
          !.edges[u] = <<<<MakePath(ProcDevice(pitch), Out(0)), MakePath(ProcDevice(base), In(0))>>,
                         <<MakePath(ProcDevice(force), Out(0)), MakePath(ProcDevice(base), In(1))>>>>
                       \o [i \in 1..Sides |-> <<MakePath(ProcDevice(base), Out(i - 1)), <<Out(i - 1)>>>>],
          !.placed[u] = S]  BY DEF CreateInstrument, force, pitch, base, free
  <2>2. ToMaster(ProcDevice(base), outs) = [i \in 1..Sides |-> <<MakePath(ProcDevice(base), Out(i - 1)), <<Out(i - 1)>>>>]
    BY DEF ToMaster
  <2>3. e = [AddProcessor(AddProcessor(AddProcessor(
                    GivePorts(d, u, "instrument", AudioOut), u, force, "force"), u, pitch, "pitch"), u, base, "add") EXCEPT
               !.edges[u] = s, !.placed[u] = S]  BY <2>1, <2>2
  <2> HIDE DEF s, S, e
  <2>4. GivePorts(d, u, "instrument", AudioOut) = [d EXCEPT !.units[u] = r]  BY DEF GivePorts
  <2>5. GivePorts(d, u, "instrument", AudioOut) = WithProcs(d, u, r, d.procs[u])
    <3>1. [d.procs EXCEPT ![u] = d.procs[u]] = d.procs  BY <1>2
    <3>2. [d EXCEPT !.units[u] = r] = [d EXCEPT !.units = [d.units EXCEPT ![u] = r], !.procs = d.procs]
      BY DEF Modules
    <3>3. [d EXCEPT !.units[u] = r] = [d EXCEPT !.units = [d.units EXCEPT ![u] = r], !.procs = [d.procs EXCEPT ![u] = d.procs[u]]]
      BY <3>1, <3>2
    <3> QED  BY <2>4, <3>3 DEF WithProcs
  <2> DEFINE g == [d.procs[u] EXCEPT ![force] = "force"]
             h == [g EXCEPT ![pitch] = "pitch"]
  <2>6. f = [h EXCEPT ![base] = "add"]  OBVIOUS
  <2> HIDE DEF r, f
  <2>7. AddProcessor(WithProcs(d, u, r, d.procs[u]), u, force, "force") = WithProcs(d, u, r, g)  BY ProcessorsAdded
  <2> HIDE DEF g
  <2>8. AddProcessor(WithProcs(d, u, r, g), u, pitch, "pitch") = WithProcs(d, u, r, h)  BY ProcessorsAdded
  <2> HIDE DEF h
  <2>9. AddProcessor(WithProcs(d, u, r, h), u, base, "add") = WithProcs(d, u, r, f)
    <3>1. AddProcessor(WithProcs(d, u, r, h), u, base, "add") = WithProcs(d, u, r, [h EXCEPT ![base] = "add"])
      BY ProcessorsAdded
    <3> QED  BY <2>6, <3>1
  <2>10. e = [WithProcs(d, u, r, f) EXCEPT !.edges[u] = s, !.placed[u] = S]  BY <2>3, <2>5, <2>7, <2>8, <2>9
  <2> QED  BY <2>10 DEF WithUnit, WithProcs, Modules
<1>6. {"force", "pitch", "add"} \subseteq DOMAIN ProcPorts  BY PortsAssumption
<1> HIDE DEF force, pitch, base, free
<1>7. /\ f \in [Procs -> {None} \union DOMAIN ProcPorts]
      /\ f[force] = "force" /\ f[pitch] = "pitch" /\ f[base] = "add"  BY <1>2, <1>4, <1>6
<1>8. r \in UnitKinds /\ r.kind = "instrument" /\ r.ports = ports  BY <1>2, PortsAre DEF UnitKinds
<1>9. S \in SUBSET DeviceNames  BY <1>4, DevicesAreNamed DEF DeviceNames
<1>10. s \in Seq(Edges)
  <2> DEFINE shown == [dev \in DeviceNames |-> Ports]
  <2>1. {Master, ProcDevice(pitch), ProcDevice(force), ProcDevice(base)} \subseteq DOMAIN shown  BY <1>9
  <2>2. \A dev \in DeviceNames : shown[dev] = Ports  OBVIOUS
  <2> HIDE DEF shown
  <2>3. Out(0) \in Ports /\ In(0) \in Ports /\ In(1) \in Ports /\ \A i \in 1..Sides : Out(i - 1) \in Ports
    BY SizesAre, PortsAre
  <2>4. /\ shown[ProcDevice(pitch)] = Ports /\ shown[ProcDevice(force)] = Ports
        /\ shown[ProcDevice(base)] = Ports /\ shown[Master] = Ports  BY <1>9, <2>2
  <2> HIDE DEF a, b, outs
  <2>5. outs = [i \in 1..Sides |-> Out(i - 1)]
        /\ a = <<MakePath(ProcDevice(pitch), Out(0)), MakePath(ProcDevice(base), In(0))>>
        /\ b = <<MakePath(ProcDevice(force), Out(0)), MakePath(ProcDevice(base), In(1))>>  BY DEF a, b, outs
  <2> QED  BY <2>1, <2>3, <2>4, <2>5, <1>4, InstrumentEdgesFit
<1> DEFINE z == WithUnit(d, u, r, f, s, S)
<1>11. /\ z \in Modules /\ z.units[u] = r /\ z.procs[u] = f /\ z.edges[u] = s /\ z.placed[u] = S
       /\ \A x \in Units \ {u} : z.units[x] = d.units[x] /\ z.procs[x] = d.procs[x]
       /\ \A c \in Containers \ {u} : z.edges[c] = d.edges[c] /\ z.placed[c] = d.placed[c]
       /\ SameControls(d, z) /\ SameReferences(d, z)
  <2> HIDE DEF r, f, s, S
  <2> QED  BY <1>7, <1>8, <1>9, <1>10, WithUnitIs
<1>12. z = w  OBVIOUS
<1> HIDE DEF r, f, z, w
<1>13. z.units[u].kind = "instrument" /\ z.units[u].ports = ports /\ AudioOut \subseteq ports  BY <1>8, <1>11
<1>14. \A n \in {force, pitch, base} : z.procs[u][n] # None  BY <1>6, <1>7, <1>11, NoneAssumption
<1>15. /\ \A n \in {force, pitch, base} : ProcDevice(n) \in DevicesIn(z, u)
       /\ Master \in DevicesIn(z, u) /\ Iin \in DevicesIn(z, u)  BY <1>1, <1>4, <1>14, DevicesInAre
<1>16. \A n \in {force, pitch, base} : \A p : p \in ProcPorts[z.procs[u][n]] => p \in Shown(z, u)[ProcDevice(n)]
  <2> SUFFICES ASSUME NEW n \in {force, pitch, base}, NEW p, p \in ProcPorts[z.procs[u][n]] PROVE p \in Shown(z, u)[ProcDevice(n)]
    OBVIOUS
  <2>1. EndIn(z, u, ProcDevice(n), p)  BY <1>1, <1>4, <1>14 DEF EndIn
  <2> QED  BY <2>1, <1>1, <1>11, ShownIs
<1>17. \A i \in 1..Sides : Out(i - 1) \in Shown(z, u)[Master]
  <2> TAKE i \in 1..Sides
  <2>1. Out(i - 1) \in AudioOut /\ Out(i - 1)[1] = "out"  BY SizesAre, PortsAre
  <2>2. Out(i - 1) \in OutPorts(z, u)  BY <2>1, <1>1, <1>13 DEF OutPorts
  <2>3. EndIn(z, u, Master, Out(i - 1))  BY <2>2 DEF EndIn
  <2> QED  BY <2>3, <1>1, <1>11, ShownIs
<1>18. Distinct(s) /\ Fits(ToSet(s), Shown(z, u))
  <2> DEFINE shown == Shown(z, u)
  <2>1. {Master, ProcDevice(pitch), ProcDevice(force), ProcDevice(base)} \subseteq DOMAIN shown
    BY <1>1, <1>11, ShownIs, <1>15
  <2>2. Out(0) \in ProcPorts["force"] /\ Out(0) \in ProcPorts["pitch"] /\ In(0) \in ProcPorts["add"] /\ In(1) \in ProcPorts["add"]
        /\ AudioOut \subseteq ProcPorts["add"]  BY PortsAssumption
  <2>3. z.procs[u][force] = "force" /\ z.procs[u][pitch] = "pitch" /\ z.procs[u][base] = "add"  BY <1>7, <1>11
  <2>4. Out(0) \in shown[ProcDevice(pitch)] /\ Out(0) \in shown[ProcDevice(force)]
        /\ In(0) \in shown[ProcDevice(base)] /\ In(1) \in shown[ProcDevice(base)]  BY <2>2, <2>3, <1>16
  <2>5. \A i \in 1..Sides : Out(i - 1) \in shown[ProcDevice(base)] /\ Out(i - 1) \in shown[Master]
    BY SizesAre, PortsAre, <2>2, <2>3, <1>16, <1>17
  <2> HIDE DEF shown, a, b, outs
  <2>6. outs = [i \in 1..Sides |-> Out(i - 1)]
        /\ a = <<MakePath(ProcDevice(pitch), Out(0)), MakePath(ProcDevice(base), In(0))>>
        /\ b = <<MakePath(ProcDevice(force), Out(0)), MakePath(ProcDevice(base), In(1))>>  BY DEF a, b, outs
  <2>7. Distinct(s) /\ Fits(ToSet(s), shown)  BY <2>1, <2>4, <2>5, <2>6, <1>4, InstrumentEdgesFit
  <2> QED  BY <2>7 DEF shown
<1> HIDE DEF s
<1>19. z.placed[u] \subseteq DevicesIn(z, u)  BY <1>11, <1>15
<1> HIDE DEF S
<1> HIDE DEF ports, outs, a, b, e
<1>20. e = z  BY <1>5, <1>12
<1> QED  BY <1>20, <1>13, <1>11, <1>18, <1>19 DEF e, Placed

\* The first free unit gets the control of its own number.
LEMMA FreeUnitIs ==
    ASSUME NEW d, NEW c \in Containers, FreeUnit(d, c) # None
    PROVE  /\ FreeUnit(d, c) \in Units /\ Front(FreeUnit(d, c)) = c /\ ~HasUnit(d, FreeUnit(d, c))
           /\ \A v \in Units : Front(v) = c /\ ~HasUnit(d, v) => Last(FreeUnit(d, c)) <= Last(v)
<1> DEFINE S == {u \in FreeUnits(c) : ~HasUnit(d, u)}
<1>1. S # {} /\ FreeUnit(d, c) = LeastUnit(S)  BY DEF FreeUnit
<1>2. \A u \in Units : Front(u) = c <=> u \in FreeUnits(c)  BY TopUnitIs, UnitIs DEF TopUnits, FreeUnits, Units
<1>3. FreeUnits(c) \subseteq Units  BY DEF FreeUnits, Units
<1>4. S \subseteq Units  BY <1>3
<1>5. \A u \in S : Front(u) = c /\ ~HasUnit(d, u)  BY <1>2, <1>3
<1>6. \A v \in Units : Front(v) = c /\ ~HasUnit(d, v) => v \in S  BY <1>2
<1> HIDE DEF S
<1> QED  BY <1>1, <1>4, <1>5, <1>6, LeastUnitIs

LEMMA FreeControlIs ==
    ASSUME NEW d \in Modules, IsWhole(d), NEW u, u = FreeUnit(d, <<>>), u # None, FreeControl(d) # None
    PROVE  /\ FreeControl(d) = Last(u) /\ Last(u) \in Controls /\ d.cmap[Last(u)] = None
           /\ UnitsIn(d, <<>>) = {} => Last(u) = 0
<1> DEFINE T == {n \in Controls : d.cmap[n] = None}
           i == Last(u)
           n == FreeControl(d)
<1>1. /\ u \in Units /\ Front(u) = <<>> /\ ~HasUnit(d, u)
      /\ \A v \in Units : Front(v) = <<>> /\ ~HasUnit(d, v) => i <= Last(v)  BY FreeUnitIs, ContainersAre
<1>2. u = <<i>> /\ i \in 0..(MaxUnit - 1) /\ i \in Nat  BY <1>1, UnitIs, SizesAre
<1>3. T # {} /\ n = Min(T) /\ T \subseteq Nat  BY SizesAre DEF FreeControl, Controls
<1>4. n \in T /\ \A m \in T : n <= m  BY <1>3, MinIs
<1> HIDE DEF n, i
<1>5. \A k \in 0..(MaxUnit - 1) : <<k>> \in Units /\ Front(<<k>>) = <<>> /\ Last(<<k>>) = k  BY TopUnitIs
<1>6. \A k \in 0..(MaxUnit - 1) : HasUnit(d, <<k>>) => k \in Controls /\ d.cmap[k] = k
  BY <1>5, ControlsAre DEF UnitsIn
<1>7. n \in Nat /\ n < MaxControl /\ MaxControl \in Nat /\ MaxUnit \in Nat  BY <1>4, SizesAre DEF Controls
<1>8. i <= n
  <2> SUFFICES ASSUME n < i PROVE FALSE  BY <1>2, <1>7
  <2>1. n \in 0..(MaxUnit - 1)  BY <1>2, <1>7
  <2>2. ~HasUnit(d, <<n>>)
    <3> SUFFICES ASSUME HasUnit(d, <<n>>) PROVE FALSE  OBVIOUS
    <3>1. d.cmap[n] = n /\ d.cmap[n] = None  BY <2>1, <1>4, <1>6
    <3> QED  BY <3>1, <1>4, NoneAssumption
  <2> QED  BY <1>2, <1>7, <2>1, <2>2, <1>1, <1>5
<1>9. i \in Controls /\ d.cmap[i] = None  BY <1>2, <1>7, <1>8, <1>1, ControlsAre DEF Controls, UnitsIn
<1>10. ASSUME UnitsIn(d, <<>>) = {} PROVE i = 0
  <2>1. 0 \in 0..(MaxUnit - 1)  BY SizesAre
  <2>2. i <= 0  BY <2>1, <1>1, <1>5, <1>10 DEF UnitsIn
  <2> QED  BY <2>2, <1>2
<1> QED  BY <1>9, <1>10, <1>2, <1>7, <1>8, <1>4 DEF n, i

LEMMA ControlConnected ==
    ASSUME NEW d \in Modules, IsWhole(d), NEW u \in Units, Front(u) = <<>>, ~HasUnit(d, u),
           NEW n, n = Last(u), n \in Controls, d.cmap[n] = None, UnitsIn(d, <<>>) = {} => n = 0,
           NEW m \in Modules, Placed(d, u, m), SameControls(d, m)
    PROVE  /\ ConnectControl(m, n, u) \in Modules /\ IsWhole(ConnectControl(m, n, u))
           /\ ConnectControl(m, n, u).edges = m.edges /\ ConnectControl(m, n, u).placed = m.placed
           /\ SameUnits(m, ConnectControl(m, n, u)) /\ SameReferences(m, ConnectControl(m, n, u))
<1> DEFINE S == d.controls \union {n}
           f == [d.cmap EXCEPT ![n] = n]
           e == ConnectControl(m, n, u)
<1>1. /\ Wired(m) /\ RemovedAreEmpty(m) /\ ReferencesLive(m) /\ LayoutIsOfDevices(m)
      /\ \A v \in Units : HasUnit(m, v) <=> HasUnit(d, v) \/ v = u  BY ContainersAre, PlacedIs DEF Exists
<1>2. d.controls \in SUBSET Controls /\ d.cmap \in [Controls -> {None} \union 0..(MaxUnit - 1)]  BY ModuleIs
<1>3. u = <<n>> /\ n \in 0..(MaxUnit - 1) /\ n # None  BY UnitIs, NoneAssumption
<1>4. S \in SUBSET Controls /\ f \in [Controls -> {None} \union 0..(MaxUnit - 1)]
      /\ f[n] = n /\ \A k \in Controls \ {n} : f[k] = d.cmap[k]  BY <1>2, <1>3
<1>5. e = WithControls(m, S, f)
  <2>1. m.controls = d.controls /\ m.cmap = d.cmap  BY DEF SameControls
  <2> QED  BY <2>1 DEF ConnectControl, WithControls
<1> HIDE DEF f, e
<1>6. /\ e \in Modules /\ e.controls = S /\ e.cmap = f /\ e.channels = m.channels
      /\ e.edges = m.edges /\ e.placed = m.placed /\ SameUnits(m, e) /\ SameReferences(m, e)
  <2> HIDE DEF S
  <2> QED  BY <1>4, <1>5, ControlsSet
<1>7. e.channels = d.channels  BY <1>6 DEF SameControls
<1>8. /\ Mapped(d) /\ ControlsAreExact(d) /\ ControlsAreNumbered(d)
      /\ \A k \in Controls : d.cmap[k] # None => d.cmap[k] = k /\ <<k>> \in UnitsIn(d, <<>>)
      /\ \A v \in UnitsIn(d, <<>>) : Last(v) \in Controls /\ d.cmap[Last(v)] = Last(v)
      /\ \A ch \in Chs : d.channels[ch] \in Controls  BY LinkedIs, ControlsAre DEF IsWhole
<1>9. \A v \in Units : HasUnit(e, v) <=> HasUnit(d, v) \/ v = u  BY <1>1, <1>6, SameDevices
<1>10. UnitsIn(e, <<>>) = UnitsIn(d, <<>>) \union {u}  BY <1>9 DEF UnitsIn
<1>11. \A k \in Controls : e.cmap[k] = IF k = n THEN n ELSE d.cmap[k]  BY <1>4, <1>6
<1>12. Mapped(e)
  <2> SUFFICES ASSUME NEW k \in Controls, e.cmap[k] # None PROVE HasUnit(e, <<e.cmap[k]>>)  BY DEF Mapped
  <2>1. CASE k = n  BY <2>1, <1>3, <1>9, <1>11
  <2>2. CASE k # n
    <3>1. e.cmap[k] = k /\ <<k>> \in UnitsIn(d, <<>>)  BY <2>2, <1>8, <1>11
    <3> QED  BY <3>1, <1>9 DEF UnitsIn
  <2> QED  BY <2>1, <2>2
<1>13. IsLinked(e)
  <2>1. Wired(e)  BY <1>1, <1>6, WiredFrame
  <2> QED  BY <2>1, <1>6, <1>12, LinkedIs
<1>14. ControlsAreNumbered(e)
  <2>1. \A k \in Controls : e.cmap[k] \in {None, k}  BY <1>8, <1>11
  <2> QED  BY <2>1, <1>10 DEF ControlsAreNumbered
<1>15. ControlsAreExact(e)
  <2>1. e.controls = {k \in Controls : e.cmap[k] # None}
    <3>1. d.controls = {k \in Controls : d.cmap[k] # None}  BY <1>8 DEF ControlsAreExact
    <3>2. \A k : k \in e.controls <=> k \in Controls /\ e.cmap[k] # None  BY <3>1, <1>3, <1>6, <1>11
    <3> QED  BY <3>2
  <2>2. ASSUME NEW v \in UnitsIn(e, <<>>) PROVE \E k \in Controls : {x \in Controls : e.cmap[x] = Last(v)} = {k}
    <3>1. Last(v) \in Controls /\ e.cmap[Last(v)] = Last(v)
      <4>1. CASE v = u  BY <4>1, <1>11
      <4>2. CASE v # u
        <5>1. v \in UnitsIn(d, <<>>)  BY <4>2, <1>10
        <5>2. v = <<Last(v)>>  BY <5>1, UnitIs DEF UnitsIn
        <5> QED  BY <5>1, <5>2, <4>2, <1>3, <1>8, <1>11
      <4> QED  BY <4>1, <4>2
    <3>2. Last(v) # None  BY <3>1, NoneAssumption
    <3>3. \A x \in Controls : e.cmap[x] = Last(v) => x = Last(v)  BY <3>2, <1>14 DEF ControlsAreNumbered
    <3> HIDE DEF Controls
    <3>4. {x \in Controls : e.cmap[x] = Last(v)} = {Last(v)}  BY <3>1, <3>3
    <3> QED  BY <3>1, <3>4
  <2>3. \A ch \in Chs : e.cmap[e.channels[ch]] # None
    <3> TAKE ch \in Chs
    <3>1. e.channels[ch] = d.channels[ch] /\ d.channels[ch] \in Controls  BY <1>7, <1>8
    <3>2. CASE UnitsIn(d, <<>>) = {}
      <4>1. d.channels[ch] = n  BY <3>2, <1>8 DEF ControlsAreNumbered
      <4> QED  BY <4>1, <3>1, <1>3, <1>11
    <3>3. CASE UnitsIn(d, <<>>) # {}
      <4>1. d.cmap[d.channels[ch]] # None  BY <3>3, <1>8 DEF ControlsAreExact
      <4> QED  BY <4>1, <3>1, <1>3, <1>11
    <3> QED  BY <3>2, <3>3
  <2> QED  BY <2>1, <2>2, <2>3 DEF ControlsAreExact
<1>16. RemovedAreEmpty(e)  BY <1>1, <1>6, SameDevices DEF RemovedAreEmpty, SameReferences
<1>17. ReferencesLive(e)  BY <1>1, <1>6, SameDevices DEF ReferencesLive, SameReferences, ExprNames
<1>18. LayoutIsOfDevices(e)  BY <1>1, <1>6, SameDevices DEF LayoutIsOfDevices
<1>19. IsWhole(e)  BY <1>13, <1>14, <1>15, <1>16, <1>17, <1>18 DEF IsWhole
<1> QED  BY <1>6, <1>19 DEF e

\* A unit that connects its outputs to those of the module.
WithMaster(d, u) ==
    ConnectAudio(d, <<>>, [i \in 1..Sides |-> MakePath(UnitDevice(u), Out(i - 1))], [i \in 1..Sides |-> <<Out(i - 1)>>])

LEMMA Mastered ==
    ASSUME NEW d \in Modules, IsWhole(d), NEW u \in Units, Front(u) = <<>>, HasUnit(d, u), AudioOut \subseteq d.units[u].ports,
           \A x \in ToSet(d.edges[<<>>]) : Sender(x) # UnitDevice(u),
           NEW e, e = WithMaster(d, u)
    PROVE  /\ e \in Modules /\ IsWhole(e) /\ SameUnits(d, e) /\ SameReferences(d, e) /\ e.placed = d.placed
           /\ ToSet(d.edges[<<>>]) \subseteq ToSet(e.edges[<<>>])
           /\ \A c \in Containers \ {<<>>} : e.edges[c] = d.edges[c]
<1> DEFINE dev == UnitDevice(u)
           outs == [i \in 1..Sides |-> Out(i - 1)]
           t == ToMaster(dev, outs)
           E == d.edges[<<>>]
           s == E \o t
<1>1. /\ <<>> \in Containers /\ Exists(d, <<>>) /\ E \in Seq(Edges)
      /\ dev \in UnitDevices /\ IsRemovable(dev) /\ dev \notin {Master, Iin} /\ dev # Master
  BY ContainersAre, ModuleIs, DevicesAreNamed, DeviceNamesAre DEF Exists, IsRemovable
<1> HIDE DEF dev
<1>2. \A i \in 1..Sides : IsEnd(dev, outs[i]) /\ IsSendPort(dev, outs[i]) /\ outs[i] = Out(i - 1) /\ Out(i - 1) \in AudioOut
  <2> TAKE i \in 1..Sides
  <2>1. Out(i - 1) \in Ports /\ Out(i - 1)[1] = "out" /\ Out(i - 1) \in AudioOut  BY PortsAre, SizesAre
  <2> QED  BY <2>1, <1>1 DEF IsEnd, IsSendPort
<1>3. /\ t \in Seq(Edges) /\ Distinct(t)
      /\ \A x \in ToSet(t) :
            /\ x \in Edges /\ Sender(x) = dev /\ Receiver(x) = Master /\ SendsAndReceives(x)
            /\ \E i \in 1..Sides : EdgeEnds(x) = <<<<dev, outs[i]>>, <<Master, Out(i - 1)>>>>  BY <1>2, ToMasterIs
<1>4. e = WithEdges(d, <<>>, s)  BY DEF ToMaster, WithEdges, WithMaster, ConnectAudio, dev
<1> HIDE DEF t
<1>5. Distinct(E) /\ Fits(ToSet(E), Shown(d, <<>>)) /\ \A x \in ToSet(E) : Sender(x) # Master
  BY LinkedIs, <1>1, EdgesAre, MasterReceives DEF IsWhole, Wired
<1>6. \A x \in ToSet(t) : EndsShown(x, Shown(d, <<>>)) /\ SendsAndReceives(x) /\ Receiver(x) = Master
  <2> TAKE x \in ToSet(t)
  <2>1. PICK i \in 1..Sides : EdgeEnds(x) = <<<<dev, outs[i]>>, <<Master, Out(i - 1)>>>>  BY <1>3
  <2>2. EdgeEnds(x)[1][2] = Out(i - 1) /\ EdgeEnds(x)[2][2] = Out(i - 1) /\ Out(i - 1) \in AudioOut  BY <2>1, <1>2
  <2>3. EndIn(d, <<>>, dev, Out(i - 1)) /\ EndIn(d, <<>>, Master, Out(i - 1))  BY <2>2 DEF EndIn, OutPorts, dev
  <2> QED  BY <1>3, <2>2, <2>3, <1>1, EndsShownAre
<1>7. ToSet(E) \intersect ToSet(t) = {}  BY <1>3 DEF dev
<1> HIDE DEF E
<1>8. s \in Seq(Edges) /\ ToSet(s) = ToSet(E) \union ToSet(t) /\ Distinct(s)  BY <1>1, <1>3, <1>5, <1>7, JoinedIs
<1>9. Fits(ToSet(E) \union ToSet(t), Shown(d, <<>>))
  <2> DEFINE shown == Shown(d, <<>>)
  <2>1. Fits(ToSet(E), shown) /\ \A x \in ToSet(t) : EndsShown(x, shown) /\ SendsAndReceives(x) /\ Receiver(x) = Master
    BY <1>5, <1>6
  <2> DEFINE A == ToSet(E)
             M == ToSet(t)
  <2>2. Fits(A, shown)  BY <2>1
  <2>3. \A x \in M : EndsShown(x, shown) /\ SendsAndReceives(x) /\ Receiver(x) = Master  BY <2>1
  <2>4. \A x \in A \union M : Sender(x) # Master  BY <1>1, <1>3, <1>5
  <2> HIDE DEF shown, A, M
  <2>5. Fits(A \union M, shown)  BY <2>2, <2>3, <2>4, MoreToMasterFit
  <2> QED  BY <2>5 DEF shown, A, M
<1> HIDE DEF s
<1>10. /\ e \in Modules /\ IsWhole(e) /\ e.edges[<<>>] = s
       /\ (\A b \in Containers \ {<<>>} : e.edges[b] = d.edges[b])
       /\ e.placed = d.placed /\ SameUnits(d, e) /\ SameReferences(d, e)
  <2>1. <<>> \in Containers /\ Exists(d, <<>>) /\ s \in Seq(Edges) /\ Distinct(s) /\ Fits(ToSet(s), Shown(d, <<>>))
    BY <1>1, <1>8, <1>9
  <2> QED  BY <2>1, <1>4, EdgesOfOne
<1> QED  BY <1>8, <1>10 DEF E

-----------------------------------------------------------------------------
\* What the addition of a device does.

KeepsLayout(d, e) == \A b \in Containers : d.placed[b] \subseteq e.placed[b]

Adds(d, c, e) ==
    /\ e \in Modules /\ IsWhole(e) /\ KeepsEdges(d, e) /\ KeepsLayout(d, e)
    /\ \A v \in Units : HasUnit(d, v) => HasUnit(e, v)
    /\ \A v \in Units : ExprNames(e, v) = ExprNames(d, v)
    /\ \A b \in Containers : DevicesIn(d, b) \subseteq DevicesIn(e, b)
    /\ \A b \in Containers \ {c} : Exists(d, b) => Shown(e, b) = Shown(d, b) /\ e.edges[b] = d.edges[b]

LEMMA AddedIs ==
    ASSUME NEW d \in Modules, IsWhole(d), NEW u \in Units, ~HasUnit(d, u), Exists(d, Front(u)),
           NEW m \in Modules, Placed(d, u, m),
           NEW e \in Modules, IsWhole(e), SameUnits(m, e), SameReferences(m, e), e.placed = m.placed,
           \A c \in Containers \ {Front(u)} : e.edges[c] = m.edges[c],
           ToSet(m.edges[Front(u)]) \subseteq ToSet(e.edges[Front(u)])
    PROVE  Adds(d, Front(u), e)
<1> DEFINE f == Front(u)
<1>1. f \in Containers /\ f # u /\ u # <<>> /\ d.edges[u] = <<>>  BY UnitIs, FreePlaceIs
<1>2. /\ \A v \in Units : HasUnit(m, v) <=> HasUnit(d, v) \/ v = u
      /\ \A c \in Containers : DevicesIn(d, c) \subseteq DevicesIn(m, c)
      /\ \A c \in Containers \ {u, f} : Shown(m, c) = Shown(d, c)  BY PlacedIs
<1>3. \A c : (HasUnit(e, c) <=> HasUnit(m, c)) /\ DevicesIn(e, c) = DevicesIn(m, c) /\ Shown(e, c) = Shown(m, c)
  BY SameDevices
<1>4. \A c \in Containers \ {u} : m.edges[c] = d.edges[c]  BY DEF Placed
<1>5. KeepsEdges(d, e)
  <2> SUFFICES ASSUME NEW c \in Containers PROVE ToSet(d.edges[c]) \subseteq ToSet(e.edges[c])  BY DEF KeepsEdges
  <2>1. CASE c = u  BY <2>1, <1>1 DEF ToSet
  <2>2. CASE c = f  BY <2>2, <1>1, <1>4
  <2>3. CASE c # u /\ c # f  BY <2>3, <1>4
  <2> QED  BY <2>1, <2>2, <2>3
<1>6. ASSUME NEW b \in Containers \ {f}, Exists(d, b) PROVE Shown(e, b) = Shown(d, b) /\ e.edges[b] = d.edges[b]
  BY <1>1, <1>6, <1>2, <1>3, <1>4 DEF Exists
<1>7. KeepsLayout(d, e)  BY FreePlaceIs DEF Placed, KeepsLayout
<1> QED  BY <1>2, <1>3, <1>5, <1>6, <1>7 DEF Adds, Placed, SameReferences, ExprNames

LEMMA NestedEffectAdded ==
    ASSUME NEW d \in Modules, IsWhole(d), NEW c \in Units, HasUnit(d, c), FreeUnit(d, c) # None
    PROVE  Adds(d, c, AddNestedEffect(d, FreeUnit(d, c)))
<1> DEFINE u == FreeUnit(d, c)
           e == CreateEffect(d, u)
<1>1. c \in Containers /\ c # <<>> /\ Exists(d, c)  BY UnitIs DEF Exists
<1>2. u \in Units /\ Front(u) = c /\ ~HasUnit(d, u)  BY <1>1, FreeUnitIs
<1> HIDE DEF u
<1>3. e \in Modules /\ Placed(d, u, e) /\ SameControls(d, e)  BY <1>2, EffectMade
<1> HIDE DEF e
<1>4. /\ Wired(e) /\ RemovedAreEmpty(e) /\ ReferencesLive(e) /\ LayoutIsOfDevices(e)
      /\ \A v \in Units : HasUnit(e, v) <=> HasUnit(d, v) \/ v = u  BY <1>1, <1>2, <1>3, PlacedIs
<1>5. ControlsAreExact(e) /\ ControlsAreNumbered(e)
  BY <1>3, <1>1, <1>2, <1>4 DEF IsWhole, ControlsAreExact, ControlsAreNumbered, SameControls, UnitsIn
<1>6. IsWhole(e)  BY <1>4, <1>5, <1>3, LinkedIs, ModuleIs, TopUnitIs DEF IsWhole, Mapped, SameControls
<1>7. Adds(d, Front(u), e)  BY <1>1, <1>2, <1>3, <1>6, AddedIs DEF SameUnits, SameReferences
<1> QED  BY <1>2, <1>7 DEF AddNestedEffect, e, u

LEMMA TopUnitAdded ==
    ASSUME NEW d \in Modules, IsWhole(d), FreeUnit(d, <<>>) # None, FreeControl(d) # None,
           NEW u, u = FreeUnit(d, <<>>), NEW n, n = FreeControl(d)
    PROVE  Adds(d, <<>>, AddInstrument(d, u, n)) /\ Adds(d, <<>>, AddEffect(d, u, n))
<1>1. <<>> \in Containers /\ Exists(d, <<>>)  BY ContainersAre DEF Exists
<1>2. u \in Units /\ Front(u) = <<>> /\ ~HasUnit(d, u)  BY <1>1, FreeUnitIs
<1>3. ASSUME NEW m \in Modules, Placed(d, u, m), SameControls(d, m), NEW f, f = ConnectControl(m, n, u)
      PROVE  f \in Modules /\ IsWhole(f) /\ f.edges = m.edges /\ f.placed = m.placed /\ SameUnits(m, f) /\ SameReferences(m, f)
             /\ Adds(d, <<>>, f) /\ HasUnit(f, u)
  BY <1>2, <1>3, ControlConnected, <1>1, PlacedIs, SameDevices, AddedIs, FreeControlIs
<1>4. Adds(d, <<>>, AddEffect(d, u, n))
  <2> DEFINE m == CreateEffect(d, u)
  <2> HIDE DEF m
  <2> QED  BY <1>3, <1>2, EffectMade DEF AddEffect, m
<1>5. Adds(d, <<>>, AddInstrument(d, u, n))
  <2> DEFINE m == CreateInstrument(d, u)
             f == ConnectControl(m, n, u)
             e == TryConnectToMaster(f, d, u)
             w == WithMaster(f, u)
  <2>1. m \in Modules /\ Placed(d, u, m) /\ SameControls(d, m) /\ AudioOut \subseteq m.units[u].ports
    BY <1>2, InstrumentMade
  <2> HIDE DEF m
  <2>2. f \in Modules /\ IsWhole(f) /\ f.edges = m.edges /\ f.placed = m.placed /\ SameUnits(m, f) /\ SameReferences(m, f)
        /\ Adds(d, <<>>, f) /\ HasUnit(f, u)  BY <2>1, <1>3
  <2>3. AddInstrument(d, u, n) = e  BY DEF AddInstrument, m
  <2>4. e = f \/ e = w  BY DEF TryConnectToMaster, WithMaster
  <2> HIDE DEF e
  <2>5. CASE e = f  BY <2>2, <2>3, <2>5
  <2>6. CASE e = w
    <3> HIDE DEF f
    <3>1. \A x \in ToSet(f.edges[<<>>]) : Sender(x) # UnitDevice(u)
      <4> SUFFICES ASSUME NEW x \in ToSet(f.edges[<<>>]) PROVE Sender(x) # UnitDevice(u)  OBVIOUS
      <4>1. x \in Edges /\ EndsShown(x, Shown(d, <<>>))  BY <1>1, EdgesAre, <2>1, <2>2, <1>2, ContainersAre DEF Placed
      <4>2. Sender(x) \in DevicesIn(d, <<>>)  BY <4>1, <1>1, EndsShownAre, EndInIsEnd
      <4>3. UnitDevice(u) \notin DevicesIn(d, <<>>)  BY <2>1, <1>1, <1>2, PlacedIs
      <4> QED  BY <4>2, <4>3
    <3> HIDE DEF w
    <3>2. /\ w \in Modules /\ IsWhole(w) /\ SameUnits(f, w) /\ SameReferences(f, w) /\ w.placed = f.placed
          /\ ToSet(f.edges[<<>>]) \subseteq ToSet(w.edges[<<>>])
          /\ \A c \in Containers \ {<<>>} : w.edges[c] = f.edges[c]
      BY <3>1, <2>2, <1>2, Mastered, <2>1 DEF w, SameUnits
    <3>3. Adds(d, Front(u), w)  BY <3>2, <2>1, <2>2, <1>1, <1>2, AddedIs DEF SameUnits, SameReferences
    <3> QED  BY <3>3, <2>3, <2>6, <1>2
  <2> QED  BY <2>4, <2>5, <2>6
<1> QED  BY <1>4, <1>5

-----------------------------------------------------------------------------
\* The inductive invariant.

Sh == Shown(store, view.of)
Buttons == {dev \in DevicesIn(store, view.of) : HasButtons(dev)}
HoldsPort(end) == end = <<end[1], end[2]>> /\ end[1] \in DevicesIn(store, view.of) /\ end[2] \in Sh[end[1]]

\* The module between inputs and within them.
ModuleHolds ==
    /\ store \in Modules /\ IsWhole(store)
    /\ view.of \in Containers /\ Exists(store, view.of)
    /\ writes # <<>> /\ \A i \in DOMAIN writes : IsLinked(writes[i])

\* What the editors know, until a signal says that it is old.
Sessions == [selected : Names \union {None}, shown : Names \union {None}, mode : {"normal", "expr_filter"}]
ShownIsThere(u) ==
    IF ExprNames(store, u) = {} THEN session[u].mode = "normal" ELSE session[u].shown \in ExprNames(store, u)
EditorsHold ==
    /\ session \in [Units -> Sessions] /\ known \in [Units -> {None} \union SUBSET Names]
    /\ editors \subseteq Units /\ renewed \subseteq Units
    /\ view.of # <<>> => view.of \in editors
    /\ \A u \in editors : HasUnit(store, u)
    /\ \A u \in Units :
          /\ session[u].selected \in ExprNames(store, u) \union {None} \/ u \in renewed
          /\ <<"expressions", u>> \in signals => u \in editors
          /\ <<"expressions", u>> \notin signals =>
                /\ known[u] # None => known[u] = ExprNames(store, u)
                /\ u \in editors => ShownIsThere(u)

Formed ==
    /\ DOMAIN view = {"of", "st", "devs", "unplaced", "focus", "button", "pressed", "port", "adding", "edge", "pressedDev"}
    /\ view.st \in {"idle", "moving", "pressing", "adding_edge", "edge_menu"}
    /\ DOMAIN mouse = {"at", "down"} /\ mouse.down \in BOOLEAN

\* Each device shown has a place, or gets one when the layout is written.
LaidOut == DOMAIN view.devs \intersect DevicesIn(store, view.of) \subseteq store.placed[view.of] \union view.unplaced

\* While a button is down or a dialog open, only the view itself has given
\* a signal, and the view shows the devices of the module.
Fresh ==
    /\ signals \intersect ViewSignals(view.of) = {} \/ mouse.down \/ dialog # None => view.devs = Sh
    /\ mouse.down \/ dialog # None => signals \subseteq Changed
    /\ mouse.at # <<"outside">> => \A u \in Units : <<"expressions", u>> \notin signals
    /\ view.unplaced \subseteq DevicesIn(store, view.of) /\ LaidOut
    /\ signals = {} \/ done # <<"added">> => \A e \in ToSet(store.edges[view.of]) : EndsShown(e, view.devs)

\* What the view keeps is in the module.
Held ==
    /\ view.focus # None => /\ view.focus \in DevicesIn(store, view.of)
                            /\ IF Mode = "normal" THEN mouse.down ELSE view.focus[1] = "proc"
    /\ view.port # None => /\ HoldsPort(view.port) /\ mouse.at = <<"port", view.port[1], view.port[2]>>
                           /\ view.st \in {"idle", "adding_edge"} /\ Mode = "normal"
    /\ view.edge # None => /\ view.edge \in ToSet(store.edges[view.of]) /\ mouse.at = <<"edge", view.edge>>
                           /\ view.st \in {"idle", "edge_menu"} /\ Mode = "normal"
    /\ view.adding # None <=> view.st = "adding_edge"

States ==
    /\ view.st = "edge_menu" =>
          view.edge # None /\ ~mouse.down /\ dialog = None /\ signals = {} /\ Mode = "normal"
    /\ view.st = "moving" => mouse.down /\ Mode = "normal"
    /\ view.st = "adding_edge" =>
          /\ mouse.down /\ Mode = "normal" /\ DOMAIN view.adding = {"from", "to"} /\ HoldsPort(view.adding.from)
          /\ view.adding.to # None => HoldsPort(view.adding.to) /\ CanConnect(view.adding.from, view.adding.to)
    /\ view.st = "pressing" /\ dialog = None =>
          /\ mouse.down
          /\ IF Mode = "normal" THEN view.pressed # None /\ view.pressed.dev \in Buttons /\ view.unplaced = {}
             ELSE view.pressedDev # None
    /\ dialog # None =>
          /\ ~mouse.down /\ view.st = "pressing" /\ Mode = "normal"
          /\ dialog \in Buttons /\ view.unplaced = {} /\ view.focus = None
    /\ mouse.at = <<"outside">> =>
          /\ ~mouse.down /\ view.focus = None /\ view.port = None /\ view.edge = None
          /\ view.button \in {None, NoButton} /\ (dialog = None => view.st = "idle")

ViewHolds == Formed /\ Fresh /\ Held /\ States

RestHolds ==
    /\ actions \in 0..MaxActions
    /\ failed # None => \E u \in renewed : failed = <<"selected", u>>

IInv == ModuleHolds /\ EditorsHold /\ ViewHolds /\ RestHolds

LosesNothing ==
    /\ \A c \in Containers : \A e \in ToSet(store.edges[c]) \ ToSet(store'.edges[c]) :
          \/ c # <<>> /\ ~HasUnit(store', c)
          \/ ~EndsShown(e, Shown(store', c))
          \/ c = view.of /\ e = view.edge /\ view.st = "edge_menu"
    /\ actions' # actions /\ done'[1] = "rename" /\ done'[3] # None
          => Cardinality(ExprNames(store', done'[2])) = Cardinality(ExprNames(store, done'[2]))

\* What every step has to show.
Advances == IInv' /\ LosesNothing

-----------------------------------------------------------------------------
\* What follows from the invariant.

LEMMA InvariantIs ==
    ASSUME IInv
    PROVE  /\ ModuleIsSound /\ ViewIsUsable
<1>1. TypeOK
  <2>1. /\ mouse.down \in BOOLEAN /\ view.st \in {"idle", "moving", "pressing", "adding_edge", "edge_menu"}
        /\ view.st = "adding_edge" => view.adding # None  BY DEF IInv, ViewHolds, Formed, Held
  <2>2. mouse.at = <<"outside">> =>
          /\ view.focus = None /\ view.port = None /\ view.edge = None
          /\ view.button \in {None, NoButton} /\ (dialog = None => view.st = "idle")  BY DEF IInv, ViewHolds, States
  <2> QED  BY <2>1, <2>2 DEF TypeOK, IInv, RestHolds, EditorsHold, Whys, ModuleHolds, Sessions
<1>2. ModuleIsSound
  <2>1. IsWhole(store) /\ \A i \in DOMAIN writes : IsLinked(writes[i])  BY DEF IInv, ModuleHolds
  <2>2. \A u \in Units : session[u].selected \in ExprNames(store, u) \union {None} \/ u \in renewed
    BY DEF IInv, EditorsHold
  <2> QED
    BY <1>1, <2>1, <2>2 DEF ModuleIsSound, IsWhole, ConnectionsAreSound, RemovedUnitsAreEmpty, ControlsReachUnits,
       ReferencesAreLive, LayoutNamesDevices
<1>3. ViewShowsModule  BY DEF IInv, ViewHolds, Fresh, ViewShowsModule, Sh
<1>4. PaintFindsDevices
  <2> SUFFICES ASSUME signals = {} \/ done # <<"added">>
               PROVE  /\ \A e \in ToSet(store.edges[view.of]) : EndsShown(e, view.devs)
                      /\ view.adding # None => \A end \in {view.adding.from, view.adding.to} \ {None} :
                            end[1] \in DOMAIN view.devs /\ end[2] \in view.devs[end[1]]
                      /\ view.edge # None => EndsShown(view.edge, view.devs)  BY DEF PaintFindsDevices
  <2>1. ASSUME view.adding # None, NEW end \in {view.adding.from, view.adding.to} \ {None}
        PROVE  end[1] \in DOMAIN view.devs /\ end[2] \in view.devs[end[1]]
    BY <2>1 DEF IInv, ViewHolds, Held, States, Fresh, Sh, Shown, HoldsPort
  <2> QED  BY <2>1 DEF IInv, ViewHolds, Held, Fresh
<1>5. FilterEditsAnExpression
  <2> SUFFICES ASSUME signals = {}, Mode = "expr_filter" PROVE session[view.of].shown \in ExprNames(store, view.of)
    BY DEF FilterEditsAnExpression
  <2> QED  BY DEF ShownIsThere, IInv, EditorsHold, Mode
<1> QED  BY <1>2, <1>3, <1>4, <1>5 DEF ViewIsUsable, IInv, RestHolds, HandlersFindTheirDevices

-----------------------------------------------------------------------------
\* Frames of the invariant.

\* The parts of the view, by kind.
Bodies == {<<"body", dev>> : dev \in DOMAIN view.devs}
PortParts == UNION {{<<"port", dev, p>> : p \in view.devs[dev]} : dev \in DOMAIN view.devs}
ButtonParts == {<<"button", dev, b>> : dev \in {x \in DOMAIN view.devs : HasButtons(x)}, b \in {"edit", "remove"}}
EdgeParts == {<<"edge", e>> : e \in ToSet(store.edges[view.of])}

LEMMA PartKinds == Parts = {<<"empty">>} \union Bodies \union PortParts \union ButtonParts \union EdgeParts
BY DEF Parts, Bodies, PortParts, ButtonParts, EdgeParts

LEMMA PartsAre ==
    ASSUME NEW t, t \in Parts \/ t \in PartsInDrag
    PROVE  /\ t # <<"outside">>
           /\ OnDevice(t) => t[2] \in DOMAIN view.devs
           /\ t[1] = "port" => t = <<"port", t[2], t[3]>> /\ t[2] \in DOMAIN view.devs /\ t[3] \in view.devs[t[2]]
           /\ t[1] = "button" => t[2] \in DOMAIN view.devs /\ HasButtons(t[2])
           /\ t[1] = "edge" => t = <<"edge", t[2]>> /\ t[2] \in ToSet(store.edges[view.of])
<1>1. CASE t = <<"empty">>  BY <1>1 DEF OnDevice
<1>2. CASE t \in Bodies  BY <1>2 DEF OnDevice, Bodies
<1>3. CASE t \in PortParts
  <2>1. PICK dev \in DOMAIN view.devs : \E p \in view.devs[dev] : t = <<"port", dev, p>>  BY <1>3 DEF PortParts
  <2> QED  BY <2>1 DEF OnDevice
<1>4. CASE t \in ButtonParts
  <2>1. PICK dev \in {x \in DOMAIN view.devs : HasButtons(x)} : \E b \in {"edit", "remove"} : t = <<"button", dev, b>>
    BY <1>4 DEF ButtonParts
  <2> QED  BY <2>1 DEF OnDevice
<1>5. CASE t \in EdgeParts  BY <1>5 DEF OnDevice, EdgeParts
<1> QED  BY <1>1, <1>2, <1>3, <1>4, <1>5, PartKinds DEF PartsInDrag

LEMMA ViewPartsAre ==
    ASSUME ViewHolds, signals = {} \/ mouse.down
    PROVE  /\ view.devs = Sh /\ DOMAIN view.devs = DevicesIn(store, view.of)
           /\ view.port # None => mouse.at \in Parts
           /\ view.edge # None => mouse.at \in Parts
<1>1. view.devs = Sh  BY DEF ViewHolds, Fresh
<1>2. DOMAIN view.devs = DevicesIn(store, view.of)  BY <1>1 DEF Sh, Shown
<1>3. ASSUME view.port # None PROVE mouse.at \in Parts
  <2>1. mouse.at \in PortParts  BY <1>1, <1>2, <1>3 DEF PortParts, HoldsPort, ViewHolds, Held
  <2> QED  BY <2>1, PartKinds
<1>4. ASSUME view.edge # None PROVE mouse.at \in Parts  BY <1>4, PartKinds DEF ViewHolds, Held, EdgeParts
<1> QED  BY <1>1, <1>2, <1>3, <1>4

LEMMA SessionUpdated ==
    ASSUME NEW s \in Sessions, NEW names \in SUBSET Names
    PROVE  /\ UpdatedSession(s, names) \in Sessions /\ UpdatedSession(s, names).selected = s.selected
           /\ IF names = {} THEN UpdatedSession(s, names).mode = "normal"
              ELSE UpdatedSession(s, names).shown \in names /\ UpdatedSession(s, names).mode = s.mode
<1> DEFINE m == IF names = {} THEN "normal" ELSE s.mode
           h == IF names # {} /\ s.shown \notin names THEN Min(names) ELSE s.shown
<1>1. names \subseteq Nat  BY SizesAre DEF Names
<1>2. h \in Names \union {None} /\ (names # {} => h \in names)  BY <1>1, MinIs DEF Sessions
<1>3. m \in {"normal", "expr_filter"} /\ (names = {} => m = "normal") /\ (names # {} => m = s.mode)  BY DEF Sessions
<1>4. s = [selected |-> s.selected, shown |-> s.shown, mode |-> s.mode] /\ s.selected \in Names \union {None}
  BY DEF Sessions
<1>5. UpdatedSession(s, names) = [s EXCEPT !.mode = m, !.shown = h]  BY DEF UpdatedSession
<1> HIDE DEF m, h
<1>6. UpdatedSession(s, names) = [selected |-> s.selected, shown |-> h, mode |-> m]  BY <1>4, <1>5
<1> QED  BY <1>2, <1>3, <1>4, <1>6 DEF Sessions

\* Nothing of the editors changes, nor what they know.
LEMMA EditorsFrame ==
    ASSUME EditorsHold, session' = session, editors' = editors, known' = known, renewed' = renewed, view'.of = view.of,
           \A u \in Units : HasUnit(store, u) => HasUnit(store', u),
           \A u \in Units : ExprNames(store', u) = ExprNames(store, u),
           \A u \in Units : <<"expressions", u>> \in signals' <=> <<"expressions", u>> \in signals
    PROVE  EditorsHold'
BY DEF EditorsHold, ShownIsThere

LEMMA WritesOne == ASSUME NEW d, IsLinked(d) PROVE <<d>> # <<>> /\ \A i \in DOMAIN <<d>> : IsLinked(<<d>>[i])
OBVIOUS

LEMMA WritesTwo ==
    ASSUME NEW d, NEW e, IsLinked(d), IsLinked(e)
    PROVE  <<d, e>> # <<>> /\ (\A i \in DOMAIN <<d, e>> : IsLinked(<<d, e>>[i])) /\ Last(<<d, e>>) = e
BY DEF Last

LEMMA PutHolds ==
    ASSUME ModuleHolds, view'.of = view.of, NEW d \in Modules, IsWhole(d), Exists(d, view.of), NEW sigs, Put(d, sigs)
    PROVE  ModuleHolds' /\ store' = d /\ signals' = signals \union sigs
BY WritesTwo DEF Put, Puts, ModuleHolds, IsWhole

LEMMA NothingPut ==
    ASSUME ModuleHolds, view'.of = view.of, PutsNothing
    PROVE  ModuleHolds'
BY WritesOne DEF PutsNothing, ModuleHolds, IsWhole

\* A signal of the view or the controls is none of the expressions.
LEMMA SignalsDiffer ==
    ASSUME NEW c, NEW b, NEW u
    PROVE  /\ <<"expressions", u>> \notin {<<"connections", c>>, <<"controls">>, <<"shown expression", c>>, <<"mode", c>>, <<"open", c>>}
           /\ <<"open", u>> \notin {<<"connections", c>>, <<"controls">>, <<"shown expression", c>>, <<"mode", c>>, <<"expressions", c>>}
           /\ <<"connections", c>> = <<"connections", b>> <=> c = b
           /\ <<"expressions", c>> = <<"expressions", b>> <=> c = b
OBVIOUS

\* A device or a port can go only with its connections.
LEMMA KeptIs ==
    ASSUME KeepsEdges(store, store'), actions' = actions \/ done'[1] # "rename"
    PROVE  LosesNothing
BY DEF LosesNothing, KeepsEdges

-----------------------------------------------------------------------------
\* The beginning.

LEMMA InitHolds == Init => IInv
<1> SUFFICES ASSUME Init PROVE IInv  OBVIOUS
<1>1. PICK c \in DOMAIN Beginnings : store \in Beginnings[c] /\ view = NewView(store, c) /\ editors = {c} \ {<<>>}
  BY DEF Init
<1>2. c \in Containers /\ store \in Modules /\ Exists(store, c) /\ IsWhole(store)  BY <1>1, ModulesAtFirst
<1>3. /\ view.of = c /\ view.st = "idle" /\ view.devs = Shown(store, c) /\ view.unplaced = DevicesIn(store, c) \ store.placed[c]
      /\ view.focus = None /\ view.button = None /\ view.pressed = None /\ view.port = None
      /\ view.adding = None /\ view.edge = None /\ view.pressedDev = None
      /\ DOMAIN view = {"of", "st", "devs", "unplaced", "focus", "button", "pressed", "port", "adding", "edge", "pressedDev"}
  BY <1>1 DEF NewView
<1>4. /\ mouse = [at |-> <<"outside">>, down |-> FALSE] /\ dialog = None /\ signals = {} /\ writes = <<store>>
      /\ renewed = {} /\ failed = None /\ actions = 0
      /\ known = [u \in Units |-> None]
      /\ session = [u \in Units |-> IF u \in editors THEN UpdatedSession(NoSession, ExprNames(store, u)) ELSE NoSession]
  BY DEF Init
<1>5. ModuleHolds  BY <1>2, <1>4, WritesOne, <1>3 DEF IsWhole, ModuleHolds
<1>6. EditorsHold
  <2>1. NoSession \in Sessions /\ NoSession.selected = None  BY DEF NoSession, Sessions
  <2>2. \A u \in Units : session[u] \in Sessions /\ session[u].selected = None /\ (u \in editors => ShownIsThere(u))
    BY <1>4, <2>1, SessionUpdated, <1>2, ExpressionsAre DEF ShownIsThere
  <2> QED  BY <2>2, <1>1, <1>3, <1>4, <1>2 DEF EditorsHold, Containers, Exists
<1>7. ViewHolds
  <2>1. Fresh  BY <1>3, <1>4, <1>2, EdgesAre DEF Fresh, Sh, LaidOut
  <2> QED  BY <2>1, <1>3, <1>4 DEF ViewHolds, Formed, Held, States
<1> QED  BY <1>5, <1>6, <1>7, <1>4, ActionsAssumption DEF IInv, RestHolds

-----------------------------------------------------------------------------
\* Inputs somewhere else than in the view.

LEMMA ViewStays ==
    ASSUME ViewHolds, mouse.at = <<"outside">>, signals = {}, dialog = None,
           view' = view, mouse' = mouse, dialog' = dialog,
           signals' \intersect ViewSignals(view.of) = {} => Shown(store', view.of) = Shown(store, view.of),
           DevicesIn(store, view.of) \subseteq DevicesIn(store', view.of), KeepsLayout(store, store'), view.of \in Containers,
           (done' = <<"added">> /\ signals' # {}) \/ ToSet(store'.edges[view.of]) \subseteq ToSet(store.edges[view.of])
    PROVE  ViewHolds'
<1>1. /\ ~mouse.down /\ view.focus = None /\ view.port = None /\ view.edge = None /\ view.st = "idle"
      /\ view.button \in {None, NoButton}  BY DEF ViewHolds, States
<1>2. Fresh'  BY <1>1 DEF ViewHolds, Fresh, Sh, Shown, LaidOut, KeepsLayout
<1> QED  BY <1>2, <1>1, NoneAssumption DEF ViewHolds, Formed, Held, States

LEMMA InputIs ==
    ASSUME IInv, NEW what, Input(what)
    PROVE  /\ failed = None /\ signals = {} /\ dialog = None /\ ~mouse.down /\ view.st # "edge_menu"
           /\ done' = what /\ actions' = actions + 1 /\ actions' \in 0..MaxActions
           /\ failed' = failed => RestHolds'
BY ActionsAssumption DEF Input, IInv, RestHolds

LEMMA EditsHold ==
    ASSUME IInv, NEW what, Elsewhere(what), what[1] # "rename",
           NEW d \in Modules, IsWhole(d), NEW sigs, Edits(d, sigs), KeepsEdges(store, d), KeepsLayout(store, d),
           \A u \in Units : HasUnit(store, u) => HasUnit(d, u),
           \A u \in Units : ExprNames(d, u) = ExprNames(store, u),
           \A u \in Units : <<"expressions", u>> \notin sigs,
           sigs \intersect ViewSignals(view.of) = {} => Shown(d, view.of) = Shown(store, view.of),
           DevicesIn(store, view.of) \subseteq DevicesIn(d, view.of),
           (what = <<"added">> /\ sigs # {}) \/ ToSet(d.edges[view.of]) \subseteq ToSet(store.edges[view.of])
    PROVE  Advances
<1>1. /\ failed = None /\ signals = {} /\ dialog = None /\ mouse.at = <<"outside">>
      /\ done' = what /\ (failed' = failed => RestHolds')  BY InputIs DEF Elsewhere
<1>2. Put(d, sigs) /\ session' = session /\ editors' = editors /\ known' = known /\ view' = view /\ mouse' = mouse
      /\ dialog' = dialog /\ renewed' = renewed /\ failed' = failed  BY DEF Edits
<1>3. ModuleHolds' /\ store' = d /\ signals' = sigs
  BY <1>2, PutHolds, <1>1, ContainersAre DEF IInv, ModuleHolds, Exists
<1> QED  BY <1>1, <1>2, <1>3, EditorsFrame, ViewStays, KeptIs DEF Advances, IInv, ModuleHolds

LEMMA QuietHolds ==
    ASSUME IInv, NEW what, Elsewhere(what), what[1] # "rename", NEW d, Quiet(store, d), NEW sigs, Edits(d, sigs),
           \A u \in Units : <<"expressions", u>> \notin sigs
    PROVE  Advances
BY SameDevices, SameEdges, EditsHold DEF Quiet, KeepsLayout

LEMMA AddsHolds ==
    ASSUME IInv, Elsewhere(<<"added">>), NEW c \in Containers, NEW d, Adds(store, c, d), Edits(d, Made(c))
    PROVE  Advances
<1>1. Made(c) # {} /\ <<"connections", c>> \in Made(c) /\ \A u \in Units : <<"expressions", u>> \notin Made(c)
  BY SignalsDiffer DEF Made
<1>2. view.of \in Containers /\ Exists(store, view.of)  BY DEF IInv, ModuleHolds
<1> QED  BY <1>1, EditsHold, <1>2 DEF ViewSignals, Adds

-----------------------------------------------------------------------------
\* The tool bars.

LEMMA NewUnitHolds == ASSUME IInv, NEW kind, NewUnit(kind) PROVE Advances
<1> DEFINE u == FreeUnit(store, <<>>)
           n == FreeControl(store)
           d == IF kind = "instrument" THEN AddInstrument(store, u, n) ELSE AddEffect(store, u, n)
<1>1. Elsewhere(<<"added">>) /\ u # None /\ n # None /\ Edits(d, Made(<<>>))  BY DEF NewUnit
<1>2. Adds(store, <<>>, d)  BY <1>1, TopUnitAdded DEF IInv, ModuleHolds
<1> HIDE DEF d
<1> QED  BY <1>1, <1>2, ContainersAre, AddsHolds

LEMMA NewNestedEffectHolds == ASSUME IInv, NEW c \in editors, NewNestedEffect(c) PROVE Advances
<1> DEFINE d == AddNestedEffect(store, FreeUnit(store, c))
<1>1. Elsewhere(<<"added">>) /\ FreeUnit(store, c) # None /\ Edits(d, Made(c))  BY DEF NewNestedEffect
<1>2. store \in Modules /\ IsWhole(store) /\ c \in Units /\ HasUnit(store, c)  BY DEF IInv, ModuleHolds, EditorsHold
<1>3. Adds(store, c, d)  BY <1>1, <1>2, NestedEffectAdded
<1> HIDE DEF d
<1> QED  BY <1>1, <1>2, <1>3, ContainersAre, AddsHolds

LEMMA NewProcessorHolds == ASSUME IInv, NEW c \in editors, NEW type \in MadeTypes, NewProcessor(c, type) PROVE Advances
<1> DEFINE n == Min(FreeProcs(store, c))
           d == AddProcessor(store, c, n, type)
<1>1. Elsewhere(<<"added">>) /\ FreeProcs(store, c) # {} /\ Edits(d, Made(c))  BY DEF NewProcessor
<1>2. store \in Modules /\ IsWhole(store) /\ c \in Units /\ HasUnit(store, c) /\ c \in Containers
  BY ContainersAre DEF IInv, ModuleHolds, EditorsHold
<1>3. n \in FreeProcs(store, c)  BY SizesAre, <1>1, MinIs DEF FreeProcs, Procs
<1> HIDE DEF n
<1>4. /\ d \in Modules /\ IsWhole(d) /\ d.units = store.units /\ d.edges = store.edges /\ d.placed = store.placed /\ SameReferences(store, d)
      /\ \A b \in Containers : DevicesIn(store, b) \subseteq DevicesIn(d, b)
      /\ \A b \in Containers \ {c} : Shown(d, b) = Shown(store, b)
  BY <1>2, ProcessorAdded, <1>3, ContainersAre, ActionsAssumption DEF FreeProcs, ProcsIn
<1> HIDE DEF d
<1>5. Adds(store, c, d)  BY <1>4, SameEdges DEF KeepsLayout, HasUnit, ExprNames, SameReferences, Adds
<1> QED  BY <1>1, <1>2, <1>5, AddsHolds

-----------------------------------------------------------------------------
\* Ports.

LEMMA PortsHold ==
    ASSUME IInv, Elsewhere(<<"port">>), NEW u \in Units, NEW d \in Modules, IsWhole(d), Edits(d, PortSignals(u)),
           KeepsEdges(store, d), d.placed = store.placed, SameKinds(store, d), SameReferences(store, d),
           \A v \in Units \ {u} : d.units[v] = store.units[v],
           \A c \in Containers : ToSet(d.edges[c]) \subseteq ToSet(store.edges[c])
    PROVE  Advances
<1>1. view.of \in Containers  BY DEF IInv, ModuleHolds
<1>2. PortSignals(u) \intersect ViewSignals(view.of) = {} => Shown(d, view.of) = Shown(store, view.of)
  <2> SUFFICES ASSUME PortSignals(u) \intersect ViewSignals(view.of) = {} PROVE Shown(d, view.of) = Shown(store, view.of)
    OBVIOUS
  <2>1. \A v \in Units : v = view.of \/ Front(v) = view.of => d.units[v] = store.units[v]
    BY DEF PortSignals, ViewSignals
  <2>2. d.procs = store.procs  BY DEF SameKinds
  <2> QED  BY <2>1, <2>2, <1>1, SameShown
<1> QED  BY <1>1, <1>2, EditsHold, SignalsDiffer, KindsAre DEF PortSignals, ExprNames, SameReferences, KeepsLayout

LEMMA PortAddedHolds == ASSUME IInv, NEW u \in editors, NEW dir, PortAdded(u, dir) PROVE Advances
<1> DEFINE p == FreePort(store, u, dir)
           d == AddPort(store, u, p)
<1>1. Elsewhere(<<"port">>) /\ p # None /\ Edits(d, PortSignals(u))  BY DEF PortAdded
<1>2. store \in Modules /\ IsWhole(store) /\ u \in Units /\ HasUnit(store, u)  BY DEF IInv, ModuleHolds, EditorsHold
<1>3. p \in Ports
  <2> DEFINE free == FreePorts(store, u, dir)
  <2>1. free # {} /\ p = CHOOSE q \in free : \A r \in free : q[2] <= r[2]  BY <1>1 DEF FreePort
  <2>2. free \subseteq Ports /\ \A q \in free : q[2] \in Nat  BY PortsAre, SizesAre DEF FreePorts
  <2> DEFINE T == {q[2] : q \in free}
  <2>3. PICK n \in T : \A m \in T : n <= m  BY LeastIs, <2>1, <2>2
  <2>4. PICK q \in free : n = q[2]  BY <2>3
  <2> HIDE DEF free
  <2> QED  BY <2>2, <2>1, <2>4, <2>3
<1> HIDE DEF p
<1>4. /\ d \in Modules /\ IsWhole(d) /\ SameKinds(store, d) /\ d.edges = store.edges /\ d.placed = store.placed /\ SameReferences(store, d)
      /\ \A v \in Units \ {u} : d.units[v] = store.units[v]  BY <1>2, <1>3, PortAddedIs
<1> HIDE DEF d
<1> QED  BY <1>1, <1>2, <1>4, PortsHold, SameEdges

LEMMA PortRemovedHolds == ASSUME IInv, NEW u \in editors, NEW p \in Ports, PortRemoved(u, p) PROVE Advances
<1> DEFINE d == RemovePort(store, u, p)
<1>1. Elsewhere(<<"port">>) /\ Edits(d, PortSignals(u))  BY DEF PortRemoved
<1>2. store \in Modules /\ IsWhole(store) /\ u \in Units /\ HasUnit(store, u)  BY DEF IInv, ModuleHolds, EditorsHold
<1>3. /\ d \in Modules /\ IsWhole(d) /\ SameKinds(store, d) /\ SameReferences(store, d) /\ KeepsEdges(store, d)
      /\ d.placed = store.placed
      /\ \A v \in Units \ {u} : d.units[v] = store.units[v]
      /\ \A c \in Containers : ToSet(d.edges[c]) \subseteq ToSet(store.edges[c])  BY <1>2, PortRemovedIs
<1> HIDE DEF d
<1> QED  BY <1>1, <1>2, <1>3, PortsHold

-----------------------------------------------------------------------------
\* Stream interfaces, the default expression and the channels.

LEMMA StreamsHold ==
    ASSUME IInv, NEW u \in editors
    PROVE  /\ NewStream(u) => Advances
           /\ \A n \in Names : \A k \in Names : RenameStream(u, n, k) => Advances
           /\ \A n \in Names : \A k \in Procs : RetargetStream(u, n, k) => Advances
           /\ \A n \in Names : DropStream(u, n) => Advances
<1>1. store \in Modules /\ IsWhole(store) /\ u \in Units /\ HasUnit(store, u)  BY DEF IInv, ModuleHolds, EditorsHold
<1>2. \A v \in Units : <<"expressions", v>> \notin {}  OBVIOUS
<1>3. <<"stream">>[1] # "rename"  OBVIOUS
<1>4. ASSUME NewStream(u) PROVE Advances  BY <1>4, <1>1, StreamAdded, <1>2, <1>3, QuietHolds DEF NewStream
<1>5. ASSUME NEW n \in Names, NEW k \in Names, RenameStream(u, n, k) PROVE Advances
  BY <1>5, <1>1, StreamRenamed, <1>2, <1>3, QuietHolds DEF RenameStream
<1>6. ASSUME NEW n \in Names, NEW k \in Procs, RetargetStream(u, n, k) PROVE Advances
  BY <1>6, <1>1, StreamRetargeted, <1>2, <1>3, QuietHolds DEF RetargetStream
<1>7. ASSUME NEW n \in Names, DropStream(u, n) PROVE Advances
  BY <1>7, <1>1, StreamDropped, <1>2, <1>3, QuietHolds DEF DropStream
<1> QED  BY <1>4, <1>5, <1>6, <1>7

LEMMA ChangeDefaultExpressionHolds ==
    ASSUME IInv, NEW u \in editors, NEW name, ChangeDefaultExpression(u, name)
    PROVE  Advances
<1> DEFINE d == SetDefaultExpression(store, u, name)
<1>1. Elsewhere(<<"default">>) /\ name \in ExprNames(store, u) \union {None} /\ Edits(d, {})
  BY DEF ChangeDefaultExpression
<1>2. Quiet(store, d)  BY <1>1, DefaultSet DEF Quiet, IInv, ModuleHolds, EditorsHold
<1> HIDE DEF d
<1> QED  BY <1>1, <1>2, QuietHolds

LEMMA ChangeChannelHolds ==
    ASSUME IInv, NEW ch \in Chs, NEW n \in Controls, ChangeChannel(ch, n)
    PROVE  Advances
BY ChannelSet, QuietHolds DEF ChangeChannel, IInv, ModuleHolds

-----------------------------------------------------------------------------
\* Sessions and expressions.

LEMMA SessionHolds ==
    ASSUME IInv, NEW what, Elsewhere(what), what[1] # "rename", store' = store, writes' = <<store>>,
           UNCHANGED <<editors, known, view, mouse, dialog, renewed, failed>>,
           \A u \in Units : <<"expressions", u>> \notin signals',
           session' \in [Units -> Sessions],
           \A u \in Units :
              /\ session'[u].selected \in ExprNames(store, u) \union {None} \/ u \in renewed
              /\ u \in editors => IF ExprNames(store, u) = {} THEN session'[u].mode = "normal"
                                  ELSE session'[u].shown \in ExprNames(store, u)
    PROVE  Advances
<1>1. /\ failed = None /\ signals = {} /\ dialog = None /\ mouse.at = <<"outside">> /\ done' = what
      /\ (failed' = failed => RestHolds')  BY InputIs DEF Elsewhere
<1>2. EditorsHold'  BY <1>1 DEF IInv, EditorsHold, ShownIsThere
<1>3. ViewHolds'  BY <1>1, ViewStays DEF IInv, ModuleHolds, KeepsLayout
<1>4. LosesNothing  BY <1>1, SameEdges, KeptIs
<1> QED  BY <1>1, <1>2, <1>3, <1>4, WritesOne DEF Advances, IInv, ModuleHolds, IsWhole

LEMMA SelectedSet ==
    ASSUME NEW s \in Sessions, NEW x \in Names \union {None}
    PROVE  /\ [s EXCEPT !.selected = x] \in Sessions /\ [s EXCEPT !.selected = x].selected = x
           /\ [s EXCEPT !.selected = x].shown = s.shown /\ [s EXCEPT !.selected = x].mode = s.mode
BY DEF Sessions

LEMMA ShownSet ==
    ASSUME NEW s \in Sessions, NEW x \in Names \union {None}
    PROVE  /\ [s EXCEPT !.shown = x] \in Sessions /\ [s EXCEPT !.shown = x].shown = x
           /\ [s EXCEPT !.shown = x].selected = s.selected /\ [s EXCEPT !.shown = x].mode = s.mode
BY DEF Sessions

LEMMA ModeSet ==
    ASSUME NEW s \in Sessions, NEW m \in {"normal", "expr_filter"}
    PROVE  /\ [s EXCEPT !.mode = m] \in Sessions /\ [s EXCEPT !.mode = m].mode = m
           /\ [s EXCEPT !.mode = m].selected = s.selected /\ [s EXCEPT !.mode = m].shown = s.shown
BY DEF Sessions

LEMMA SessionOfOne ==
    ASSUME EditorsHold, NEW u \in Units, NEW s \in Sessions, session' = [session EXCEPT ![u] = s]
    PROVE  session' \in [Units -> Sessions] /\ session'[u] = s /\ \A v \in Units \ {u} : session'[v] = session[v]
BY DEF EditorsHold

LEMMA SessionIs ==
    ASSUME IInv, signals = {}, NEW u \in Units
    PROVE  /\ session[u] \in Sessions
           /\ session[u].selected \in ExprNames(store, u) \union {None} \/ u \in renewed
           /\ u \in editors => ShownIsThere(u) /\ HasUnit(store, u)
           /\ known[u] # None => known[u] = ExprNames(store, u)
           /\ ExprNames(store, u) \subseteq Names
BY ExpressionsAre DEF IInv, ModuleHolds, EditorsHold

LEMMA ToggleFilterModeHolds == ASSUME IInv, NEW c \in editors, ToggleFilterMode(c) PROVE Advances
<1> DEFINE m == IF session[c].mode = "normal" THEN "expr_filter" ELSE "normal"
           s == [session[c] EXCEPT !.mode = m]
<1>1. /\ Elsewhere(<<"mode">>) /\ ExprNames(store, c) # {} /\ signals' = {<<"mode", c>>} /\ writes' = <<store>> /\ store' = store
      /\ UNCHANGED <<editors, known, view, mouse, dialog, renewed, failed>>
      /\ session' = [session EXCEPT ![c].mode = IF @ = "normal" THEN "expr_filter" ELSE "normal"]
  BY DEF ToggleFilterMode
<1>2. c \in Units /\ EditorsHold  BY DEF IInv, EditorsHold
<1>3. signals = {}  BY <1>1, InputIs DEF Elsewhere
<1>4. session' = [session EXCEPT ![c] = s]  BY <1>1
<1>5. m \in {"normal", "expr_filter"} /\ session[c] \in Sessions  BY <1>2, <1>3, SessionIs
<1> HIDE DEF m
<1>6. s \in Sessions /\ s.selected = session[c].selected /\ s.shown = session[c].shown  BY <1>5, ModeSet
<1> HIDE DEF s
<1>7. session' \in [Units -> Sessions] /\ session'[c] = s /\ \A v \in Units \ {c} : session'[v] = session[v]
  BY <1>2, <1>4, <1>6, SessionOfOne
<1>8. \A u \in Units :
         /\ session'[u].selected \in ExprNames(store, u) \union {None} \/ u \in renewed
         /\ u \in editors => IF ExprNames(store, u) = {} THEN session'[u].mode = "normal"
                             ELSE session'[u].shown \in ExprNames(store, u)
  BY <1>1, <1>3, <1>6, <1>7, SessionIs DEF ShownIsThere
<1> QED  BY <1>1, <1>7, <1>8, SessionHolds, SignalsDiffer

LEMMA ShowExpressionHolds == ASSUME IInv, NEW c \in editors, NEW name \in Names, ShowExpression(c, name) PROVE Advances
<1> DEFINE s == [session[c] EXCEPT !.shown = name]
<1>1. /\ Elsewhere(<<"show">>) /\ name \in ExprNames(store, c) /\ signals' = {<<"shown expression", c>>}
      /\ writes' = <<store>> /\ store' = store
      /\ UNCHANGED <<editors, known, view, mouse, dialog, renewed, failed>>
      /\ session' = [session EXCEPT ![c].shown = name]  BY DEF ShowExpression
<1>2. c \in Units /\ EditorsHold  BY DEF IInv, EditorsHold
<1>3. signals = {}  BY <1>1, InputIs DEF Elsewhere
<1>4. session' = [session EXCEPT ![c] = s]  BY <1>1
<1>5. s \in Sessions /\ s.selected = session[c].selected /\ s.shown = name  BY <1>2, <1>3, SessionIs, ShownSet
<1> HIDE DEF s
<1>6. session' \in [Units -> Sessions] /\ session'[c] = s /\ \A v \in Units \ {c} : session'[v] = session[v]
  BY <1>2, <1>4, <1>5, SessionOfOne
<1>7. \A u \in Units :
         /\ session'[u].selected \in ExprNames(store, u) \union {None} \/ u \in renewed
         /\ u \in editors => IF ExprNames(store, u) = {} THEN session'[u].mode = "normal"
                             ELSE session'[u].shown \in ExprNames(store, u)
  BY <1>1, <1>3, <1>5, <1>6, SessionIs DEF ShownIsThere
<1> QED  BY <1>1, <1>6, <1>7, SessionHolds, SignalsDiffer

LEMMA SelectExpressionHolds == ASSUME IInv, NEW c \in editors, NEW name \in Names, SelectExpression(c, name) PROVE Advances
<1> DEFINE s == [session[c] EXCEPT !.selected = name]
<1>1. /\ Elsewhere(<<"select">>) /\ name \in ExprNames(store, c) /\ signals' = signals
      /\ writes' = <<store>> /\ store' = store
      /\ UNCHANGED <<editors, known, view, mouse, dialog, renewed, failed>>
      /\ session' = [session EXCEPT ![c].selected = name]  BY DEF SelectExpression, SelectsExpression, PutsNothing
<1>2. c \in Units /\ EditorsHold  BY DEF IInv, EditorsHold
<1>3. signals = {}  BY <1>1, InputIs DEF Elsewhere
<1>4. session' = [session EXCEPT ![c] = s]  BY <1>1
<1>5. s \in Sessions /\ s.selected = name /\ s.shown = session[c].shown /\ s.mode = session[c].mode
  BY <1>2, <1>3, SessionIs, SelectedSet
<1> HIDE DEF s
<1>6. session' \in [Units -> Sessions] /\ session'[c] = s /\ \A v \in Units \ {c} : session'[v] = session[v]
  BY <1>2, <1>4, <1>5, SessionOfOne
<1>7. \A u \in Units :
         /\ session'[u].selected \in ExprNames(store, u) \union {None} \/ u \in renewed
         /\ u \in editors => IF ExprNames(store, u) = {} THEN session'[u].mode = "normal"
                             ELSE session'[u].shown \in ExprNames(store, u)
  BY <1>1, <1>3, <1>5, <1>6, SessionIs DEF ShownIsThere
<1> QED  BY <1>1, <1>6, <1>7, SessionHolds, <1>3

LEMMA ExpressionsHold ==
    ASSUME IInv, NEW what, Elsewhere(what), NEW u \in editors, NEW d \in Modules, IsWhole(d), SameUnits(store, d),
           d.edges = store.edges, d.placed = store.placed, \A v \in Units \ {u} : ExprNames(d, v) = ExprNames(store, v),
           NEW sigs, Put(d, sigs), <<"expressions", u>> \in sigs, \A v \in Units \ {u} : <<"expressions", v>> \notin sigs,
           UNCHANGED <<editors, known, view, mouse, dialog, renewed, failed>>,
           session' \in [Units -> Sessions], \A v \in Units \ {u} : session'[v] = session[v],
           session'[u].selected \in ExprNames(d, u) \union {None} \/ u \in renewed
    PROVE  IInv' /\ store' = d /\ KeepsEdges(store, store')
<1>1. /\ failed = None /\ signals = {} /\ dialog = None /\ mouse.at = <<"outside">> /\ done' = what
      /\ (failed' = failed => RestHolds')  BY InputIs DEF Elsewhere
<1>2. \A c : (HasUnit(d, c) <=> HasUnit(store, c)) /\ (Exists(d, c) <=> Exists(store, c))
             /\ DevicesIn(d, c) = DevicesIn(store, c) /\ Shown(d, c) = Shown(store, c)  BY SameDevices
<1>3. ModuleHolds' /\ store' = d /\ signals' = sigs  BY <1>2, PutHolds, <1>1 DEF IInv, ModuleHolds
<1>4. ViewHolds'  BY <1>3, <1>1, <1>2, ViewStays DEF IInv, ModuleHolds, KeepsLayout
<1> QED  BY <1>1, <1>3, <1>4, SameEdges, <1>2 DEF IInv, EditorsHold, ShownIsThere

\* The selection is that of a unit that was removed.
LEMMA RaisesHolds ==
    ASSUME IInv, NEW what, Elsewhere(what), NEW u \in editors, session[u].selected # None,
           session[u].selected \notin ExprNames(store, u), Raises(<<"selected", u>>), UNCHANGED mouse
    PROVE  IInv' /\ store' = store
<1>1. /\ failed = None /\ signals = {} /\ dialog = None /\ mouse.at = <<"outside">> /\ done' = what
      /\ actions' \in 0..MaxActions  BY InputIs DEF Elsewhere
<1>2. /\ failed' = <<"selected", u>> /\ PutsNothing /\ store' = store /\ signals' = signals
      /\ UNCHANGED <<session, editors, known, view, dialog, renewed>>  BY DEF Raises, PutsNothing
<1>3. RestHolds'  BY <1>1, <1>2 DEF RestHolds, IInv, EditorsHold
<1> QED  BY <1>2, <1>3, NothingPut, EditorsFrame, <1>1, ViewStays DEF IInv, ModuleHolds, KeepsLayout

LEMMA NewExpressionHolds == ASSUME IInv, NEW u \in editors, NewExpression(u) PROVE Advances
<1> DEFINE d == AddExpression(store, u)
<1>1. Elsewhere(<<"expression">>) /\ ExprNames(store, u) # Names /\ Edits(d, {<<"expressions", u>>})
  BY DEF NewExpression
<1>2. store \in Modules /\ IsWhole(store) /\ u \in Units /\ HasUnit(store, u) /\ EditorsHold
  BY DEF IInv, ModuleHolds, EditorsHold
<1>3. /\ d \in Modules /\ IsWhole(d) /\ SameUnits(store, d) /\ d.edges = store.edges /\ d.placed = store.placed
      /\ ExprNames(store, u) \subseteq ExprNames(d, u)
      /\ \A v \in Units \ {u} : ExprNames(d, v) = ExprNames(store, v)  BY <1>1, <1>2, ExpressionAdded
<1> HIDE DEF d
<1>4. IInv' /\ KeepsEdges(store, store')  BY <1>1, <1>3, ExpressionsHold, <1>2, SignalsDiffer DEF EditorsHold, Edits
<1>5. done'[1] # "rename"  BY <1>1, InputIs DEF Elsewhere
<1> QED  BY <1>4, <1>5, KeptIs DEF Advances

LEMMA DropExpressionHolds == ASSUME IInv, NEW u \in editors, DropExpression(u) PROVE Advances
<1> DEFINE name == session[u].selected
           d == RemoveExpression(store, u, name)
           s == [session[u] EXCEPT !.selected = None]
           sigs == {<<"expressions", u>>, <<"shown expression", u>>}
<1>1. Elsewhere(<<"expression">>) /\ name # None  BY DEF DropExpression
<1>2. store \in Modules /\ IsWhole(store) /\ u \in Units /\ HasUnit(store, u) /\ EditorsHold
  BY DEF IInv, ModuleHolds, EditorsHold
<1>3. done'[1] # "rename"  BY <1>1, InputIs DEF Elsewhere
<1>4. CASE name \notin ExprNames(store, u)
  BY <1>4, <1>1, RaisesHolds, <1>3, SameEdges, KeptIs DEF DropExpression, Advances
<1>5. CASE name \in ExprNames(store, u)
  <2>1. /\ Put(d, sigs) /\ session' = [session EXCEPT ![u].selected = None]
        /\ UNCHANGED <<editors, known, view, mouse, dialog, renewed, failed>>
    BY <1>5 DEF DropExpression, Deselects, SelectsExpression
  <2>2. /\ d \in Modules /\ IsWhole(d) /\ SameUnits(store, d) /\ d.edges = store.edges /\ d.placed = store.placed
        /\ \A v \in Units \ {u} : ExprNames(d, v) = ExprNames(store, v)  BY <1>2, <1>5, ExpressionRemoved
  <2> HIDE DEF d
  <2>3. session' = [session EXCEPT ![u] = s]  BY <2>1
  <2>4. s \in Sessions /\ s.selected = None  BY <1>2, SelectedSet DEF EditorsHold
  <2> HIDE DEF s
  <2>5. <<"expressions", u>> \in sigs /\ \A v \in Units \ {u} : <<"expressions", v>> \notin sigs  BY SignalsDiffer
  <2> HIDE DEF sigs
  <2>6. IInv' /\ KeepsEdges(store, store')  BY <1>1, <2>1, <2>2, <2>5, ExpressionsHold, <2>4, <1>2, <2>3, SessionOfOne
  <2> QED  BY <2>6, <1>3, KeptIs DEF Advances
<1> QED  BY <1>4, <1>5

LEMMA RenamedCount ==
    ASSUME NEW names \in SUBSET Names, NEW old \in names, NEW new \in Names \ names
    PROVE  Cardinality((names \ {old}) \union {new}) = Cardinality(names)
<1>1. IsFiniteSet(Names)  BY FS_Interval, SizesAre DEF Names
<1>2. IsFiniteSet(names)  BY <1>1, FS_Subset
<1>3. IsFiniteSet(names \ {old}) /\ Cardinality(names \ {old}) = Cardinality(names) - 1  BY <1>2, FS_RemoveElement
<1>4. new \notin names \ {old} /\ Cardinality(names) \in Nat  BY <1>2, FS_CardinalityType
<1>5. Cardinality((names \ {old}) \union {new}) = Cardinality(names \ {old}) + 1  BY <1>3, <1>4, FS_AddElement
<1> QED  BY <1>3, <1>4, <1>5

LEMMA RenameSelectedHolds == ASSUME IInv, NEW u \in editors, NEW new \in Names, RenameSelected(u, new) PROVE Advances
<1> DEFINE old == session[u].selected
           d == RenameExpression(store, u, old, new)
           h == IF session[u].shown = old THEN new ELSE session[u].shown
           s == [[session[u] EXCEPT !.selected = new] EXCEPT !.shown = h]
           sigs == {<<"expressions", u>>}
<1>1. Elsewhere(<<"rename", u, known[u]>>) /\ old # None /\ (known[u] # None => new \notin known[u])
  BY DEF RenameSelected
<1>2. store \in Modules /\ IsWhole(store) /\ u \in Units /\ HasUnit(store, u) /\ EditorsHold
  BY DEF IInv, ModuleHolds, EditorsHold
<1>3. signals = {} /\ done' = <<"rename", u, known[u]>>  BY <1>1, InputIs DEF Elsewhere
<1>4. CASE old \notin ExprNames(store, u)  BY <1>4, <1>1, RaisesHolds DEF RenameSelected, Advances, LosesNothing
<1>5. CASE old \in ExprNames(store, u)
  <2>1. /\ Put(d, sigs)
        /\ session' = [session EXCEPT ![u].selected = new, ![u].shown = IF @ = old THEN new ELSE @]
        /\ UNCHANGED <<editors, known, view, mouse, dialog, renewed, failed>>  BY <1>5 DEF RenameSelected
  <2>2. /\ d \in Modules /\ IsWhole(d) /\ SameUnits(store, d) /\ d.edges = store.edges /\ d.placed = store.placed
        /\ ExprNames(d, u) = (ExprNames(store, u) \ {old}) \union {new}
        /\ \A v \in Units \ {u} : ExprNames(d, v) = ExprNames(store, v)  BY <1>2, <1>5, ExpressionRenamed
  <2> HIDE DEF d
  <2>3. session \in [Units -> Sessions] /\ session[u] \in Sessions  BY <1>2 DEF EditorsHold
  <2>4. h \in Names \union {None}  BY <2>3 DEF Sessions
  <2>5. s \in Sessions /\ s.selected = new
    <3> DEFINE r == [session[u] EXCEPT !.selected = new]
    <3>1. r \in Sessions /\ r.selected = new  BY <2>3, SelectedSet
    <3> HIDE DEF r, h
    <3>2. [r EXCEPT !.shown = h] \in Sessions /\ [r EXCEPT !.shown = h].selected = new  BY <3>1, <2>4, ShownSet
    <3> QED  BY <3>2 DEF r
  <2>6. session' = [session EXCEPT ![u] = s]  BY <2>1, <2>3 DEF Sessions
  <2> HIDE DEF s
  <2>7. session' \in [Units -> Sessions] /\ session'[u] = s /\ \A v \in Units \ {u} : session'[v] = session[v]
    BY <1>2, <2>5, <2>6, SessionOfOne
  <2>8. <<"expressions", u>> \in sigs /\ \A v \in Units \ {u} : <<"expressions", v>> \notin sigs  BY SignalsDiffer
  <2> HIDE DEF sigs
  <2>9. IInv' /\ store' = d /\ KeepsEdges(store, store')  BY <1>1, <2>1, <2>2, <2>7, <2>8, ExpressionsHold, <2>5
  <2>10. known[u] # None => Cardinality(ExprNames(d, u)) = Cardinality(ExprNames(store, u))
    BY <1>1, <1>5, <2>2, RenamedCount, <1>2, <1>3, SessionIs
  <2> QED  BY <2>9, <2>10, <1>3 DEF Advances, LosesNothing, KeepsEdges
<1> QED  BY <1>4, <1>5

-----------------------------------------------------------------------------
\* Steps in the view that leave the devices and connections as they are.

LEMMA ViewSame ==
    ASSUME view'.of = view.of, SameUnits(store, store'), store'.edges = store.edges, session' = session
    PROVE  /\ Mode' = Mode /\ Sh' = Sh /\ Buttons' = Buttons /\ Changed' = Changed
           /\ DevicesIn(store', view'.of) = DevicesIn(store, view.of)
           /\ ToSet(store'.edges[view'.of]) = ToSet(store.edges[view.of])
           /\ \A end : HoldsPort(end)' <=> HoldsPort(end)
           /\ \A from, to : CanConnect(from, to)' <=> CanConnect(from, to)
BY SameDevices DEF Sh, Buttons, HoldsPort, EdgeExists, EdgeCompletesCycle, CanConnect, Mode, Changed

LEMMA SignalsOfView ==
    ASSUME IInv, signals = {} \/ mouse.down
    PROVE  /\ signals \subseteq Changed
           /\ \A u \in Units : <<"expressions", u>> \notin signals /\ <<"expressions", u>> \notin Changed
BY SignalsDiffer DEF IInv, ViewHolds, Fresh, Changed

\* No device loses its place.
PlacesStay == store.placed[view.of] \union view.unplaced \subseteq store'.placed[view'.of] \union view'.unplaced

LEMMA FreshStays ==
    ASSUME IInv, signals = {} \/ mouse.down, view'.of = view.of, view'.devs = view.devs,
           view'.unplaced \subseteq view.unplaced, PlacesStay, SameUnits(store, store'), store'.edges = store.edges,
           mouse'.down \/ dialog' # None => signals' \subseteq Changed,
           \A u \in Units : <<"expressions", u>> \notin signals',
           mouse'.at = <<"outside">> => ~mouse'.down
    PROVE  Fresh'
<1>1. DevicesIn(store', view.of) = DevicesIn(store, view.of) /\ Shown(store', view.of) = Shown(store, view.of)
  BY SameDevices
<1>2. view.devs = Sh /\ view.unplaced \subseteq DevicesIn(store, view.of)  BY DEF IInv, ViewHolds, Fresh
<1>3. LaidOut'  BY <1>2, <1>1 DEF Sh, Shown, IInv, ViewHolds, Fresh, LaidOut, PlacesStay
<1> QED  BY <1>3, <1>1, <1>2, EdgesAre DEF Fresh, Sh, Changed, IInv, ModuleHolds

LEMMA NothingPutHolds ==
    ASSUME IInv, PutsNothing, UNCHANGED <<session, editors, known, renewed>>, view'.of = view.of
    PROVE  ModuleHolds' /\ EditorsHold' /\ store' = store /\ signals' = signals
           /\ SameUnits(store, store') /\ store'.edges = store.edges /\ KeepsEdges(store, store')
           /\ (view'.unplaced = view.unplaced => PlacesStay)
BY NothingPut, EditorsFrame, SameEdges DEF PutsNothing, IInv, SameUnits, PlacesStay

LEMMA LayoutPutHolds ==
    ASSUME IInv, NEW S, S \subseteq DevicesIn(store, view.of), Put(ChangeLayout(view, store, S), Changed),
           UNCHANGED <<session, editors, known, renewed>>, view'.of = view.of
    PROVE  ModuleHolds' /\ EditorsHold' /\ signals' = signals \union Changed
           /\ SameUnits(store, store') /\ store'.edges = store.edges /\ KeepsEdges(store, store') /\ PlacesStay
<1> DEFINE T == S \union view.unplaced
           d == SetLayout(store, view.of, T)
<1>1. store \in Modules /\ IsWhole(store) /\ view.of \in Containers /\ Exists(store, view.of)
  BY DEF IInv, ModuleHolds
<1>2. Put(d, Changed)  BY DEF ChangeLayout
<1>3. d \in Modules /\ IsWhole(d) /\ d.edges = store.edges /\ SameUnits(store, d) /\ SameReferences(store, d)
      /\ T \union store.placed[view.of] \subseteq d.placed[view.of] /\ view.unplaced \subseteq T
  BY <1>1, LayoutSet DEF T, IInv, ViewHolds, Fresh
<1> HIDE DEF d
<1> HIDE DEF T
<1>4. Exists(d, view.of) /\ \A u \in Units : HasUnit(d, u) <=> HasUnit(store, u)  BY <1>1, <1>3, SameDevices
<1>5. ModuleHolds' /\ store' = d /\ signals' = signals \union Changed  BY <1>2, <1>3, <1>4, PutHolds DEF IInv
<1>6. EditorsHold'  BY <1>3, <1>5, SignalsDiffer, <1>4, EditorsFrame DEF ExprNames, SameReferences, Changed, IInv
<1> QED  BY <1>3, <1>5, <1>6, SameEdges DEF PlacesStay

LEMMA StepInView ==
    ASSUME IInv, signals = {} \/ mouse.down, ModuleHolds', EditorsHold', Formed', Held', States', RestHolds',
           view'.of = view.of, view'.devs = view.devs, view'.unplaced \subseteq view.unplaced, PlacesStay,
           SameUnits(store, store'), store'.edges = store.edges, signals' \subseteq signals \union Changed,
           actions' = actions \/ done'[1] # "rename"
    PROVE  Advances
BY SignalsOfView, FreshStays, SameEdges, KeptIs DEF States, Advances, IInv, ViewHolds

-----------------------------------------------------------------------------
\* The mouse moves.

\* What a move finds.
MoveFinds(t) ==
    /\ failed = None /\ dialog = None /\ view.st # "edge_menu"
    /\ signals = {} \/ mouse.down
    /\ t # <<"outside">> /\ mouse'.at = t /\ mouse'.down = mouse.down /\ DOMAIN mouse' = {"at", "down"}
    /\ OnDevice(t) => t[2] \in DevicesIn(store, view.of)
    /\ t[1] = "port" => t = <<"port", t[2], t[3]>> /\ HoldsPort(<<t[2], t[3]>>)
    /\ t[1] = "edge" => t = <<"edge", t[2]>> /\ t[2] \in ToSet(store.edges[view.of])
    /\ UNCHANGED <<session, editors, known, dialog, done, renewed, failed, actions>>

\* What it leaves.
MoveLeaves ==
    /\ Formed' /\ Held' /\ States' /\ ModuleHolds' /\ EditorsHold'
    /\ view'.of = view.of /\ view'.devs = view.devs /\ view'.unplaced \subseteq view.unplaced /\ PlacesStay
    /\ SameUnits(store, store') /\ store'.edges = store.edges /\ signals' \subseteq signals \union Changed

LEMMA MoveIs ==
    ASSUME IInv, NEW t, t \in (IF mouse.down THEN PartsInDrag ELSE Parts), Move(t)
    PROVE  MoveFinds(t)
BY PartsAre, ViewPartsAre DEF Move, IInv, ViewHolds, Formed, HoldsPort, MoveFinds

LEMMA MoveEnds == ASSUME IInv, NEW t, MoveFinds(t), MoveLeaves PROVE Advances
BY StepInView DEF IInv, RestHolds, MoveFinds, MoveLeaves

LEMMA MoveIdleHolds == ASSUME IInv, NEW t, MoveFinds(t), Mode = "normal", view.st = "idle", MoveIdle(t) PROVE MoveLeaves
<1>1. /\ view' = [view EXCEPT !.port = IF t[1] = "port" THEN <<t[2], t[3]>> ELSE None,
                              !.button = ButtonAt(t, FALSE),
                              !.edge = IF t[1] = "edge" THEN t[2] ELSE None]
      /\ PutsNothing  BY DEF MoveIdle
<1>2. /\ DOMAIN view' = DOMAIN view /\ view'.of = view.of /\ view'.st = "idle" /\ view'.devs = view.devs
      /\ view'.unplaced = view.unplaced /\ view'.focus = view.focus /\ view'.adding = view.adding
      /\ view'.port = (IF t[1] = "port" THEN <<t[2], t[3]>> ELSE None)
      /\ view'.edge = (IF t[1] = "edge" THEN t[2] ELSE None)  BY <1>1 DEF IInv, ViewHolds, Formed
<1>3. ModuleHolds' /\ EditorsHold' /\ store' = store /\ signals' = signals /\ SameUnits(store, store') /\ store'.edges = store.edges /\ PlacesStay
  BY <1>1, <1>2, NothingPutHolds DEF MoveFinds
<1>4. Held'  BY <1>2, <1>3, ViewSame DEF IInv, ViewHolds, Held, MoveFinds
<1> QED  BY <1>2, <1>3, <1>4 DEF MoveLeaves, IInv, ViewHolds, Formed, MoveFinds, States

LEMMA MoveDeviceHolds == ASSUME IInv, NEW t, MoveFinds(t), Mode = "normal", view.st = "moving", MoveDevice PROVE MoveLeaves
<1>1. /\ mouse.down /\ view.port = None /\ view.edge = None /\ view.adding = None
      /\ view.focus # None => view.focus \in DevicesIn(store, view.of)  BY DEF IInv, ViewHolds, Held, States
<1>2. CASE FocusGone
  <2>1. view' = Focuses([view EXCEPT !.st = "idle"], None) /\ PutsNothing  BY <1>2 DEF MoveDevice
  <2>2. /\ DOMAIN view' = DOMAIN view /\ view'.of = view.of /\ view'.st = "idle" /\ view'.devs = view.devs
        /\ view'.unplaced = view.unplaced /\ view'.focus = view.focus /\ view'.adding = view.adding
        /\ view'.port = None /\ view'.edge = None  BY <2>1 DEF IInv, ViewHolds, Formed, Focuses
  <2>3. ModuleHolds' /\ EditorsHold' /\ store' = store /\ signals' = signals /\ SameUnits(store, store') /\ store'.edges = store.edges /\ PlacesStay
    BY <2>1, <2>2, NothingPutHolds DEF MoveFinds
  <2>4. Held'  BY <2>2, <1>1, <2>3, ViewSame DEF Held, MoveFinds
  <2> QED  BY <2>2, <2>3, <2>4 DEF MoveLeaves, IInv, ViewHolds, Formed, MoveFinds, States
<1>3. CASE ~FocusGone
  <2>1. /\ view' = Focuses([view EXCEPT !.unplaced = {}], None)
        /\ Put(ChangeLayout(view, store, {view.focus}), Changed)  BY <1>3 DEF MoveDevice
  <2>2. /\ DOMAIN view' = DOMAIN view /\ view'.of = view.of /\ view'.st = "moving" /\ view'.devs = view.devs
        /\ view'.unplaced = {} /\ view'.focus = view.focus /\ view'.adding = view.adding
        /\ view'.port = None /\ view'.edge = None  BY <2>1 DEF IInv, ViewHolds, Formed, Focuses
  <2>3. ModuleHolds' /\ EditorsHold' /\ signals' = signals \union Changed /\ SameUnits(store, store') /\ store'.edges = store.edges
        /\ PlacesStay  BY <2>1, <2>2, LayoutPutHolds, <1>1, <1>3 DEF MoveFinds, FocusGone
  <2>4. /\ Mode' = Mode /\ DevicesIn(store', view'.of) = DevicesIn(store, view.of)
    BY <2>2, <2>3, ViewSame DEF MoveFinds
  <2>5. Held'  BY <2>2, <2>4, <1>1 DEF Held, MoveFinds
  <2>6. States'  BY <2>2, <2>4, <1>1 DEF States, MoveFinds
  <2> QED  BY <2>2, <2>3, <2>5, <2>6 DEF MoveLeaves, IInv, ViewHolds, Formed, MoveFinds
<1> QED  BY <1>2, <1>3

LEMMA MovePressingHolds == ASSUME IInv, NEW t, MoveFinds(t), Mode = "normal", view.st = "pressing", MovePressing(t) PROVE MoveLeaves
<1>1. /\ mouse.down /\ view.pressed # None /\ view.pressed.dev \in Buttons /\ view.unplaced = {} /\ view.adding = None
      /\ view.focus # None => view.focus \in DevicesIn(store, view.of)
  BY DEF IInv, ViewHolds, Held, States, MoveFinds
<1>2. PutsNothing /\ ( \/ view' = Focuses([view EXCEPT !.st = "idle"], None)
                       \/ \E button : view' = Focuses(view, button))  BY DEF MovePressing
<1>3. /\ DOMAIN view' = DOMAIN view /\ view'.of = view.of /\ view'.st \in {"idle", "pressing"} /\ view'.devs = view.devs
      /\ view'.unplaced = view.unplaced /\ view'.focus = view.focus /\ view'.adding = view.adding
      /\ view'.port = None /\ view'.edge = None /\ view'.pressed = view.pressed
  <2>1. CASE view' = Focuses([view EXCEPT !.st = "idle"], None)  BY <2>1 DEF IInv, ViewHolds, Formed, Focuses
  <2>2. ASSUME NEW button, view' = Focuses(view, button)
        PROVE  /\ DOMAIN view' = DOMAIN view /\ view'.of = view.of /\ view'.st \in {"idle", "pressing"} /\ view'.devs = view.devs
               /\ view'.unplaced = view.unplaced /\ view'.focus = view.focus /\ view'.adding = view.adding
               /\ view'.port = None /\ view'.edge = None /\ view'.pressed = view.pressed
    BY <2>2 DEF IInv, ViewHolds, Formed, Focuses
  <2> QED  BY <1>2, <2>1, <2>2
<1>4. ModuleHolds' /\ EditorsHold' /\ store' = store /\ signals' = signals /\ SameUnits(store, store') /\ store'.edges = store.edges /\ PlacesStay
  BY <1>2, <1>3, NothingPutHolds DEF MoveFinds
<1>5. Mode' = Mode /\ DevicesIn(store', view'.of) = DevicesIn(store, view.of) /\ Buttons' = Buttons
  BY <1>3, <1>4, ViewSame DEF MoveFinds
<1>6. Held'  BY <1>3, <1>5, <1>1 DEF Held, MoveFinds
<1>7. States'  BY <1>3, <1>5, <1>1 DEF States, MoveFinds
<1> QED  BY <1>3, <1>4, <1>6, <1>7 DEF MoveLeaves, IInv, ViewHolds, Formed, MoveFinds

LEMMA HeldEnds == ASSUME IInv, NEW end, HoldsPort(end) PROVE end \in Ends
BY ShownIs, DevicesInTyped, EndInIsEnd DEF IInv, ModuleHolds, HoldsPort, Sh, IsEnd, Ends

LEMMA MoveAddingHolds == ASSUME IInv, NEW t, MoveFinds(t), Mode = "normal", view.st = "adding_edge", MoveAdding(t) PROVE MoveLeaves
<1>1. PICK from : from = view.adding.from  OBVIOUS
<1>2. PICK to : to = <<t[2], t[3]>>  OBVIOUS
<1>3. PICK target : target = IF t[1] # "port" THEN None ELSE IF CanConnect(from, to) THEN to ELSE None  OBVIOUS
<1>4. /\ mouse.down /\ view.adding # None /\ DOMAIN view.adding = {"from", "to"} /\ HoldsPort(from)
      /\ view.focus # None => view.focus \in DevicesIn(store, view.of)  BY <1>1 DEF IInv, ViewHolds, Held, States
<1>5. view' = Focuses([view EXCEPT !.adding.to = target], None) /\ PutsNothing  BY <1>1, <1>2, <1>3 DEF MoveAdding
<1>6. target # None => HoldsPort(target) /\ CanConnect(from, target)  BY <1>2, <1>3 DEF MoveFinds
<1>7. /\ DOMAIN view' = DOMAIN view /\ view'.of = view.of /\ view'.st = view.st /\ view'.devs = view.devs
      /\ view'.unplaced = view.unplaced /\ view'.focus = view.focus
      /\ view'.port = None /\ view'.edge = None /\ view'.adding = [view.adding EXCEPT !.to = target]
  BY <1>5 DEF IInv, ViewHolds, Formed, Focuses
<1>8. ModuleHolds' /\ EditorsHold' /\ store' = store /\ signals' = signals /\ SameUnits(store, store') /\ store'.edges = store.edges /\ PlacesStay
  BY <1>5, <1>7, NothingPutHolds DEF MoveFinds
<1>9. /\ Mode' = Mode /\ DevicesIn(store', view'.of) = DevicesIn(store, view.of)
      /\ \A end : HoldsPort(end)' <=> HoldsPort(end)
      /\ \A a, b : CanConnect(a, b)' <=> CanConnect(a, b)  BY <1>7, <1>8, ViewSame DEF MoveFinds
<1>10. Held'  BY <1>4, <1>7, <1>9, <1>1, <1>6, HeldEnds, ConnectionAssumption DEF Held, MoveFinds
<1>11. States'  BY <1>4, <1>9, <1>6, <1>7, <1>1 DEF States, MoveFinds
<1> QED  BY <1>7, <1>8, <1>10, <1>11 DEF MoveLeaves, IInv, ViewHolds, Formed, MoveFinds

LEMMA MoveFilterHolds == ASSUME IInv, NEW t, MoveFinds(t), Mode # "normal", MoveFilter(t) PROVE MoveLeaves
<1> DEFINE focus == IF view.st \notin {"idle", "pressing"} THEN view.focus
                    ELSE IF OnProc(t) /\ (view.st = "pressing" => t[2] = view.pressedDev) THEN t[2] ELSE None
<1>1. view.port = None /\ view.edge = None /\ view.st \in {"idle", "pressing"} /\ view.adding = None
  BY DEF IInv, ViewHolds, Formed, Held, States
<1>2. view' = [view EXCEPT !.focus = focus] /\ PutsNothing  BY DEF MoveFilter
<1>3. focus # None => focus \in DevicesIn(store, view.of) /\ focus[1] = "proc"
  BY <1>1 DEF OnProc, OnDevice, MoveFinds
<1> HIDE DEF focus
<1>4. /\ DOMAIN view' = DOMAIN view /\ view'.of = view.of /\ view'.st = view.st /\ view'.devs = view.devs
      /\ view'.unplaced = view.unplaced /\ view'.focus = focus /\ view'.pressedDev = view.pressedDev
      /\ view'.port = None /\ view'.edge = None /\ view'.adding = None  BY <1>1, <1>2 DEF IInv, ViewHolds, Formed
<1>5. ModuleHolds' /\ EditorsHold' /\ store' = store /\ signals' = signals /\ SameUnits(store, store') /\ store'.edges = store.edges /\ PlacesStay
  BY <1>2, <1>4, NothingPutHolds DEF MoveFinds
<1>6. Mode' = Mode /\ DevicesIn(store', view'.of) = DevicesIn(store, view.of)  BY <1>4, <1>5, ViewSame DEF MoveFinds
<1>7. Held'  BY <1>1, <1>3, <1>4, <1>6 DEF Held
<1>8. States'  BY <1>1, <1>4, <1>6 DEF IInv, ViewHolds, States, MoveFinds
<1> QED  BY <1>4, <1>5, <1>7, <1>8 DEF MoveLeaves, IInv, ViewHolds, Formed, MoveFinds

LEMMA MoveHolds == ASSUME IInv, NEW t, t \in (IF mouse.down THEN PartsInDrag ELSE Parts), Move(t) PROVE Advances
<1>1. MoveFinds(t)  BY MoveIs
<1>2. CASE Mode # "normal"  BY <1>2, <1>1, MoveFilterHolds, MoveEnds DEF Move
<1>3. CASE Mode = "normal"
  <2>1. CASE view.st = "idle"  BY <1>3, <2>1, <1>1, MoveIdleHolds, MoveEnds DEF Move
  <2>2. CASE view.st = "moving"  BY <1>3, <2>2, <1>1, MoveDeviceHolds, MoveEnds DEF Move
  <2>3. CASE view.st = "pressing"  BY <1>3, <2>3, <1>1, MovePressingHolds, MoveEnds DEF Move
  <2>4. CASE view.st = "adding_edge"  BY <1>3, <2>4, <1>1, MoveAddingHolds, MoveEnds DEF Move
  <2> QED  BY <2>1, <2>2, <2>3, <2>4, <1>1 DEF IInv, ViewHolds, Formed, MoveFinds
<1> QED  BY <1>2, <1>3

-----------------------------------------------------------------------------
\* A mouse button is pressed.

\* What a press finds.
PressFinds(t) ==
    /\ signals = {} /\ dialog = None /\ ~mouse.down /\ view.st = "idle" /\ mouse.at # <<"outside">>
    /\ view.adding = None /\ (Mode = "normal" => view.focus = None)
    /\ OnDevice(t) => t[2] \in DevicesIn(store, view.of) /\ t[2] # None
    /\ t[1] = "button" => t[2] \in Buttons
    /\ view.port # None => t[1] = "port"
    /\ view.edge # None => t[1] = "edge"
    /\ RestHolds' /\ done' = <<"press">>
    /\ UNCHANGED <<session, editors, known, dialog, renewed, failed>>

LEMMA PressIs ==
    ASSUME IInv, Press
    PROVE  \E t : PressFinds(t) /\ IF Mode = "normal" THEN PressNormal(t) ELSE PressFilter(t)
<1>1. mouse.at # <<"outside">> /\ Input(<<"press">>)  BY DEF Press
<1>2. /\ failed = None /\ signals = {} /\ dialog = None /\ ~mouse.down /\ view.st # "edge_menu"
      /\ done' = <<"press">> /\ (failed' = failed => RestHolds')  BY <1>1, InputIs
<1>3. view.st = "idle"  BY <1>2 DEF IInv, ViewHolds, Formed, States
<1>4. view.devs = Sh /\ DOMAIN view.devs = DevicesIn(store, view.of)  BY <1>2, ViewPartsAre DEF IInv
<1>5. PICK t \in UnderMouse :
        /\ IF Mode = "normal" THEN PressNormal(t) ELSE PressFilter(t)
        /\ UNCHANGED <<session, editors, known, dialog, renewed, failed>>  BY <1>4 DEF Press, IInv, ViewHolds, Held
<1>6. /\ OnDevice(t) => t[2] \in DOMAIN view.devs
      /\ t[1] = "button" => t[2] \in DOMAIN view.devs /\ HasButtons(t[2])  BY PartsAre, <1>5 DEF UnderMouse
<1>7. None \notin DevicesIn(store, view.of)  BY DevicesInTyped, NoneAssumption DEF IInv, ModuleHolds
<1>8. /\ view.port # None => t[1] = "port"
      /\ view.edge # None => t[1] = "edge"  BY <1>5, <1>2, ViewPartsAre DEF UnderMouse, IInv, ViewHolds, Held
<1>9. view.adding = None /\ (Mode = "normal" => view.focus = None)  BY <1>2, <1>3 DEF IInv, ViewHolds, Held
<1>10. PressFinds(t)  BY <1>1, <1>2, <1>3, <1>4, <1>5, <1>6, <1>7, <1>8, <1>9 DEF PressFinds, Buttons
<1> QED  BY <1>5, <1>10

LEMMA PressEnds == ASSUME IInv, NEW t, PressFinds(t), MoveLeaves PROVE Advances
BY StepInView DEF PressFinds, MoveLeaves

\* Nothing under the mouse, or an edge with its menu.
LEMMA PressNothingHolds ==
    ASSUME IInv, NEW t, PressFinds(t), Mode = "normal", ~OnDevice(t), PressNormal(t)
    PROVE  MoveLeaves
<1>1. view.focus = None /\ view.st = "idle" /\ view.adding = None /\ view.port = None  BY DEF PressFinds, OnDevice
<1>2. /\ view' = IF view.edge = None THEN view ELSE [view EXCEPT !.st = "edge_menu"]
      /\ mouse' = [mouse EXCEPT !.down = view.edge = None]
      /\ PutsNothing  BY <1>1 DEF PressNormal
<1>3. /\ DOMAIN view' = DOMAIN view /\ view'.of = view.of /\ view'.devs = view.devs
      /\ view'.unplaced = view.unplaced /\ view'.focus = None /\ view'.adding = None /\ view'.port = None
      /\ view'.edge = view.edge /\ view'.st = IF view.edge = None THEN "idle" ELSE "edge_menu"
  BY <1>1, <1>2 DEF IInv, ViewHolds, Formed
<1>4. DOMAIN mouse' = DOMAIN mouse /\ mouse'.at = mouse.at /\ (mouse'.down <=> view.edge = None) /\ mouse'.down \in BOOLEAN
  BY <1>2 DEF IInv, ViewHolds, Formed
<1>5. ModuleHolds' /\ EditorsHold' /\ store' = store /\ signals' = signals /\ SameUnits(store, store') /\ store'.edges = store.edges /\ PlacesStay
  BY <1>2, <1>3, NothingPutHolds DEF PressFinds
<1>6. /\ Mode' = Mode /\ DevicesIn(store', view'.of) = DevicesIn(store, view.of)
      /\ ToSet(store'.edges[view'.of]) = ToSet(store.edges[view.of])  BY <1>3, <1>5, ViewSame DEF PressFinds
<1>7. Held'  BY <1>3, <1>4, <1>6 DEF IInv, ViewHolds, Held
<1>8. States'  BY <1>3, <1>4, <1>5, <1>6 DEF States, PressFinds
<1> QED  BY <1>3, <1>5, <1>7, <1>8, <1>4 DEF MoveLeaves, IInv, ViewHolds, Formed

\* A device is raised, and a button, a port or the device itself is held.
LEMMA PressDeviceHolds ==
    ASSUME IInv, NEW t, PressFinds(t), Mode = "normal", OnDevice(t), PressNormal(t)
    PROVE  MoveLeaves
<1>1. /\ view.st = "idle" /\ view.adding = None /\ view.edge = None
      /\ t[2] \in DevicesIn(store, view.of) /\ t[2] # None
      /\ view.port # None => t[1] = "port"  BY DEF PressFinds, OnDevice
<1>2. PICK raised : raised = [[view EXCEPT !.focus = t[2]] EXCEPT !.unplaced = {}]  OBVIOUS
<1>3. PICK button : button = ButtonAt(t, TRUE)  OBVIOUS
<1>4. PICK adding : adding = [from |-> view.port, to |-> None]  OBVIOUS
<1>5. /\ view' = CASE button # None ->
                        [raised EXCEPT !.st = "pressing", !.pressed = button, !.button = button]
                   [] button = None /\ view.port # None ->
                        [raised EXCEPT !.st = "adding_edge", !.adding = adding]
                   [] OTHER -> [raised EXCEPT !.st = "moving"]
      /\ mouse' = [mouse EXCEPT !.down = TRUE]
      /\ Put(ChangeLayout(view, store, {}), Changed)  BY <1>1, <1>2, <1>3, <1>4 DEF PressNormal
<1>6. /\ DOMAIN raised = DOMAIN view /\ raised.of = view.of /\ raised.devs = view.devs /\ raised.unplaced = {}
      /\ raised.focus = t[2] /\ raised.adding = None /\ raised.port = view.port /\ raised.edge = None
  BY <1>1, <1>2 DEF IInv, ViewHolds, Formed
<1>7. DOMAIN mouse' = DOMAIN mouse /\ mouse'.at = mouse.at /\ mouse'.down = TRUE  BY <1>5 DEF IInv, ViewHolds, Formed
<1> DEFINE PressesIt == /\ button # None /\ view'.st = "pressing" /\ view'.pressed = button /\ view'.adding = None
           ConnectsIt == /\ view.port # None /\ view'.st = "adding_edge" /\ view'.adding = adding
           MovesIt == /\ view.port = None /\ view'.st = "moving" /\ view'.adding = None
<1>8. /\ DOMAIN view' = DOMAIN view /\ view'.of = view.of /\ view'.devs = view.devs /\ view'.unplaced = {}
      /\ view'.focus = t[2] /\ view'.port = view.port /\ view'.edge = None
      /\ PressesIt \/ ConnectsIt \/ MovesIt
  <2> USE DEF Formed
  <2>1. DOMAIN view = {"of", "st", "devs", "unplaced", "focus", "button", "pressed", "port", "adding", "edge", "pressedDev"}
    BY DEF IInv, ViewHolds
  <2>2. CASE button # None  BY <1>5, <2>2, <2>1, <1>6
  <2>3. CASE button = None /\ view.port # None  BY <1>5, <2>3, <2>1, <1>6
  <2>4. CASE button = None /\ view.port = None  BY <1>5, <2>4, <2>1, <1>6
  <2> QED  BY <2>2, <2>3, <2>4
<1>9. /\ ModuleHolds' /\ EditorsHold' /\ signals' = signals \union Changed
      /\ SameUnits(store, store') /\ store'.edges = store.edges /\ PlacesStay
  BY <1>5, <1>8, LayoutPutHolds DEF PressFinds
<1>10. /\ Mode' = Mode /\ DevicesIn(store', view'.of) = DevicesIn(store, view.of) /\ Buttons' = Buttons
       /\ \A end : HoldsPort(end)' <=> HoldsPort(end)  BY <1>8, <1>9, ViewSame DEF PressFinds
<1>11. ConnectsIt => /\ view'.adding # None /\ DOMAIN view'.adding = {"from", "to"}
                /\ view'.adding.from = view.port /\ view'.adding.to = None
  BY HeldEnds, <1>4, ConnectionAssumption DEF IInv, ViewHolds, Held
<1>12. PressesIt => view.port = None /\ button.dev \in Buttons  BY <1>3, <1>1 DEF ButtonAt, PressFinds
<1>13. view.port # None => HoldsPort(view.port) /\ mouse.at = <<"port", view.port[1], view.port[2]>>
  BY DEF IInv, ViewHolds, Held
<1>14. Held'
  <2>1. view'.focus # None => view'.focus \in DevicesIn(store', view'.of) /\ mouse'.down  BY <1>1, <1>7, <1>8, <1>10
  <2>2. view'.port # None => /\ mouse'.at = <<"port", view'.port[1], view'.port[2]>>
                             /\ view'.st \in {"idle", "adding_edge"}  BY <1>7, <1>8, <1>12, <1>13
  <2>3. PICK p : p = view.port  OBVIOUS
  <2> QED  BY <2>1, <2>2, <2>3, <1>8, <1>10, <1>13, <1>11 DEF Held, HoldsPort
<1>15. States'
  <2>1. PICK p : p = view.port  OBVIOUS
  <2>2. view.port # None => HoldsPort(p)'  BY <2>1, <1>10, <1>13
  <2>3. CASE PressesIt  BY <2>3, <1>7, <1>8, <1>10, <1>12 DEF States, PressFinds
  <2>4. CASE ConnectsIt  BY <2>1, <2>2, <2>4, <1>7, <1>8, <1>10, <1>11 DEF States, PressFinds, HoldsPort
  <2>5. CASE MovesIt  BY <2>5, <1>7, <1>8, <1>10 DEF States, PressFinds
  <2> QED  BY <2>3, <2>4, <2>5, <1>8
<1> QED  BY <1>8, <1>9, <1>14, <1>15, <1>7 DEF MoveLeaves, IInv, ViewHolds, Formed

LEMMA PressFilterHolds ==
    ASSUME IInv, NEW t, PressFinds(t), Mode # "normal", PressFilter(t)
    PROVE  MoveLeaves
<1>1. /\ view.st = "idle" /\ view.adding = None /\ view.port = None /\ view.edge = None
      /\ view.focus # None => view.focus \in DevicesIn(store, view.of) /\ view.focus[1] = "proc"
  BY DEF IInv, ViewHolds, Held, PressFinds
<1>2. /\ view' = IF OnProc(t) THEN [view EXCEPT !.pressedDev = t[2], !.st = "pressing"]
                 ELSE [view EXCEPT !.pressedDev = None]
      /\ mouse' = [mouse EXCEPT !.down = TRUE]
      /\ PutsNothing  BY DEF PressFilter
<1>3. /\ DOMAIN view' = DOMAIN view /\ view'.of = view.of /\ view'.devs = view.devs /\ view'.unplaced = view.unplaced
      /\ view'.focus = view.focus /\ view'.adding = None /\ view'.port = None /\ view'.edge = None
      /\ view'.st = "idle" \/ (view'.st = "pressing" /\ view'.pressedDev = t[2] /\ OnDevice(t))
  BY <1>1, <1>2 DEF IInv, ViewHolds, Formed, OnProc, OnDevice
<1>4. DOMAIN mouse' = DOMAIN mouse /\ mouse'.at = mouse.at /\ mouse'.down = TRUE  BY <1>2 DEF IInv, ViewHolds, Formed
<1>5. ModuleHolds' /\ EditorsHold' /\ store' = store /\ signals' = signals /\ SameUnits(store, store') /\ store'.edges = store.edges /\ PlacesStay
  BY <1>2, <1>3, NothingPutHolds DEF PressFinds
<1>6. Mode' = Mode /\ DevicesIn(store', view'.of) = DevicesIn(store, view.of)  BY <1>3, <1>5, ViewSame DEF PressFinds
<1>7. Held'  BY <1>1, <1>3, <1>4, <1>6 DEF Held
<1>8. States'  BY <1>1, <1>3, <1>4, <1>6 DEF States, PressFinds
<1> QED  BY <1>3, <1>5, <1>7, <1>8, <1>4 DEF MoveLeaves, IInv, ViewHolds, Formed

LEMMA PressHolds == ASSUME IInv, Press PROVE Advances
<1>1. PICK t : PressFinds(t) /\ IF Mode = "normal" THEN PressNormal(t) ELSE PressFilter(t)  BY PressIs
<1>2. CASE Mode = "normal" /\ ~OnDevice(t)  BY <1>1, <1>2, PressNothingHolds, PressEnds
<1>3. CASE Mode = "normal" /\ OnDevice(t)  BY <1>1, <1>3, PressDeviceHolds, PressEnds
<1>4. CASE Mode # "normal"  BY <1>1, <1>4, PressFilterHolds, PressEnds
<1> QED  BY <1>2, <1>3, <1>4

-----------------------------------------------------------------------------
\* The mouse button is released.

\* What a release finds.
ReleaseFinds ==
    /\ failed = None /\ mouse.down /\ dialog = None /\ mouse.at # <<"outside">>
    /\ view.st \in {"idle", "moving", "pressing", "adding_edge"} /\ view.devs = Sh
    /\ signals \subseteq Changed /\ \A u \in Units : <<"expressions", u>> \notin signals /\ <<"expressions", u>> \notin Changed
    /\ mouse'.down = FALSE /\ mouse'.at = mouse.at /\ DOMAIN mouse' = DOMAIN mouse
    /\ UNCHANGED <<session, actions>>

\* What it leaves, when nothing is connected or removed.
ReleaseLeaves ==
    /\ Formed' /\ Held' /\ States' /\ ModuleHolds' /\ EditorsHold' /\ RestHolds'
    /\ view'.of = view.of /\ view'.devs = view.devs /\ view'.unplaced = view.unplaced /\ PlacesStay
    /\ SameUnits(store, store') /\ store'.edges = store.edges
    /\ dialog' # None => signals' \subseteq Changed
    /\ \A u \in Units : <<"expressions", u>> \notin signals'

LEMMA ReleaseIs == ASSUME IInv, Release PROVE ReleaseFinds
BY SignalsOfView DEF Release, IInv, ViewHolds, Formed, Fresh, States, ReleaseFinds

LEMMA ReleaseEnds == ASSUME IInv, ReleaseFinds, ReleaseLeaves PROVE Advances
BY FreshStays, SameEdges, KeptIs DEF ReleaseFinds, ReleaseLeaves, Advances, IInv, ViewHolds

LEMMA RestFrame ==
    ASSUME IInv, failed' = failed, actions' = actions, renewed \subseteq renewed'
    PROVE  RestHolds'
BY DEF IInv, RestHolds

\* A release that only changes the view.
LEMMA ReleaseOnly ==
    ASSUME IInv, ReleaseFinds, PutsNothing, UNCHANGED <<editors, known, renewed, failed>>,
           view'.of = view.of, view'.devs = view.devs, view'.unplaced = view.unplaced,
           Formed', Held', States'
    PROVE  ReleaseLeaves
BY NothingPutHolds, RestFrame DEF ReleaseFinds, ReleaseLeaves

LEMMA ReleasedIs ==
    ASSUME IInv, view' = Released(view)
    PROVE  /\ DOMAIN view' = DOMAIN view /\ view'.of = view.of /\ view'.st = "idle" /\ view'.devs = view.devs
           /\ view'.unplaced = view.unplaced /\ view'.focus = None /\ view'.port = view.port /\ view'.edge = view.edge
           /\ view'.adding = view.adding /\ view'.pressedDev = view.pressedDev
BY DEF IInv, ViewHolds, Formed, Released

\* What the release of a button leaves in the view.
LEMMA ReleasedView ==
    ASSUME IInv, view.st = "pressing", view' = Released(view), DOMAIN mouse' = DOMAIN mouse, mouse'.down = FALSE,
           mouse'.at = mouse.at, dialog' = None
    PROVE  Formed' /\ Held' /\ States'
<1>1. /\ DOMAIN view' = DOMAIN view /\ view'.of = view.of /\ view'.st = "idle"
      /\ view'.focus = None /\ view'.port = None /\ view'.edge = None /\ view'.adding = None
  BY ReleasedIs DEF IInv, ViewHolds, Held
<1>2. States'
  <2>1. mouse.at = <<"outside">> => view'.button \in {None, NoButton}
    <3>1. [NoButton EXCEPT !.pressed = FALSE] = NoButton
      <4>1. ASSUME NEW f \in BOOLEAN
            PROVE  [[dev |-> None, type |-> None, pressed |-> f] EXCEPT !.pressed = f] = [dev |-> None, type |-> None, pressed |-> f]
        OBVIOUS
      <4> QED  BY <4>1, Zenon DEF NoButton
    <3> QED  BY <3>1 DEF IInv, ViewHolds, States, Released, Formed
  <2> QED  BY <2>1, <1>1 DEF States
<1> QED  BY <1>2, <1>1 DEF IInv, ViewHolds, Formed, Held

LEMMA ReleaseIdleHolds ==
    ASSUME IInv, ReleaseFinds, view.st \in {"idle", "moving"},
           view' = [view EXCEPT !.st = "idle", !.focus = None], PutsNothing,
           UNCHANGED <<editors, known, dialog, renewed, failed>>, Mode = "normal"
    PROVE  Advances
<1>1. /\ DOMAIN view' = DOMAIN view /\ view'.of = view.of /\ view'.st = "idle" /\ view'.devs = view.devs
      /\ view'.unplaced = view.unplaced /\ view'.focus = None /\ view'.port = view.port /\ view'.edge = view.edge
      /\ view'.adding = view.adding  BY DEF IInv, ViewHolds, Formed
<1>2. /\ Mode' = Mode /\ DevicesIn(store', view'.of) = DevicesIn(store, view.of)
      /\ ToSet(store'.edges[view'.of]) = ToSet(store.edges[view.of])
      /\ \A end : HoldsPort(end)' <=> HoldsPort(end)  BY <1>1, ViewSame, NothingPutHolds DEF ReleaseFinds
<1>3. Held'
  <2>1. PICK p : p = view.port  OBVIOUS
  <2>2. p # None => HoldsPort(p) /\ mouse.at = <<"port", p[1], p[2]>>  BY <2>1 DEF IInv, ViewHolds, Held
  <2>3. view.edge # None => view.edge \in ToSet(store.edges[view.of]) /\ mouse.at = <<"edge", view.edge>>
    BY DEF IInv, ViewHolds, Held
  <2>4. view.adding = None  BY DEF IInv, ViewHolds, Held
  <2> QED  BY <2>1, <2>2, <2>3, <2>4, <1>1, <1>2 DEF Held, HoldsPort, ReleaseFinds
<1> QED  BY <1>1, <1>3, ReleaseOnly, ReleaseEnds DEF IInv, ViewHolds, Formed, ReleaseFinds, States

LEMMA ShowEditorHolds ==
    ASSUME IInv, ReleaseFinds, view.st = "pressing", view' = Released(view), NEW dev, ShowEditor(dev)
    PROVE  Advances
<1>1. /\ signals' = IF dev[1] = "au" THEN signals \union {<<"open", UnitOf(dev)>>} ELSE signals
      /\ writes' = <<store>> /\ store' = store
      /\ UNCHANGED <<editors, known, dialog, renewed, failed>>  BY DEF ShowEditor
<1>2. /\ view'.of = view.of /\ view'.devs = view.devs /\ view'.unplaced = view.unplaced  BY ReleasedIs
<1>3. Formed' /\ Held' /\ States'  BY <1>1, ReleasedView DEF ReleaseFinds
<1>4. ModuleHolds'  BY <1>1, <1>2, WritesOne DEF IInv, ModuleHolds, IsWhole
<1>5. \A u \in Units : <<"expressions", u>> \notin signals'  BY <1>1, SignalsDiffer DEF ReleaseFinds
<1>6. EditorsHold'  BY <1>5, <1>1, <1>2, EditorsFrame DEF IInv, ReleaseFinds
<1>7. RestHolds'  BY <1>1, RestFrame DEF ReleaseFinds
<1>8. dialog' = None /\ SameUnits(store, store') /\ store'.edges = store.edges /\ PlacesStay
  BY <1>1, <1>2 DEF ReleaseFinds, SameUnits, PlacesStay
<1> QED  BY <1>2, <1>3, <1>4, <1>5, <1>6, <1>7, <1>8, ReleaseEnds DEF ReleaseLeaves

\* The dialog asks whether the device is to be removed.
LEMMA DialogOpensHolds ==
    ASSUME IInv, ReleaseFinds, view.st = "pressing", Mode = "normal", NEW dev \in Buttons, dialog' = dev,
           view' = [view EXCEPT !.focus = None], PutsNothing, UNCHANGED <<editors, known, renewed, failed>>
    PROVE  Advances
<1>1. /\ DOMAIN view' = DOMAIN view /\ view'.of = view.of /\ view'.st = "pressing" /\ view'.devs = view.devs
      /\ view'.unplaced = view.unplaced /\ view'.focus = None /\ view'.port = view.port /\ view'.edge = view.edge
      /\ view'.adding = view.adding  BY DEF IInv, ViewHolds, Formed
<1>2. Mode' = Mode /\ Buttons' = Buttons  BY <1>1, ViewSame, NothingPutHolds DEF ReleaseFinds
<1>3. States'  BY <1>1, <1>2, DevicesInTyped, NoneAssumption DEF States, ReleaseFinds, IInv, ViewHolds, Buttons
<1> QED  BY <1>1, <1>3, ReleaseOnly, ReleaseEnds DEF IInv, ViewHolds, Formed, ReleaseFinds, Held

LEMMA ReleaseFilterHolds == ASSUME IInv, ReleaseFinds, Mode # "normal", ReleaseFilter PROVE Advances
<1>1. /\ view' = [view EXCEPT !.st = "idle", !.pressedDev = None] /\ UNCHANGED <<editors, known, dialog, renewed>>
  BY DEF ReleaseFilter
<1>2. /\ DOMAIN view' = DOMAIN view /\ view'.of = view.of /\ view'.st = "idle" /\ view'.devs = view.devs
      /\ view'.unplaced = view.unplaced /\ view'.focus = view.focus /\ view'.port = view.port /\ view'.edge = view.edge
      /\ view'.adding = view.adding  BY <1>1 DEF IInv, ViewHolds, Formed
<1>3. /\ view.adding = None /\ view.port = None /\ view.edge = None
      /\ view.focus # None => view.focus \in DevicesIn(store, view.of) /\ view.focus[1] = "proc"
  BY DEF IInv, ViewHolds, Held, States
<1>4. PICK u : u = view.of  OBVIOUS
<1>5. PICK name : name = session[view.of].shown  OBVIOUS
<1>6. u \in Units /\ HasUnit(store, u) /\ name \in ExprNames(store, u)
  BY <1>4, <1>5 DEF Mode, IInv, EditorsHold, ReleaseFinds, ShownIsThere
<1>7. store \in Modules /\ IsWhole(store) /\ Exists(store, view.of) /\ ModuleHolds /\ EditorsHold
  BY DEF IInv, ModuleHolds
<1>8. /\ ModuleHolds' /\ failed' = failed /\ SameUnits(store, store') /\ store'.edges = store.edges
      /\ \A v \in Units : ExprNames(store', v) = ExprNames(store, v)
      /\ PlacesStay /\ signals' \subseteq signals \union {<<"shown expression", u>>} /\ signals \subseteq signals'
  <2>1. CASE PutsNothing /\ UNCHANGED failed  BY <2>1, <1>1, <1>2, NothingPutHolds DEF ReleaseFinds
  <2>2. CASE /\ view.focus # None
             /\ Put(ToggleFilter(store, view.of, name, view.focus), {<<"shown expression", view.of>>})
             /\ UNCHANGED failed
    <3>1. PICK dev : dev = view.focus  OBVIOUS
    <3>2. dev \in ProcDevices
      <4>1. dev \in DevicesIn(store, u) /\ dev[1] = "proc"  BY <2>2, <3>1, <1>3, <1>4
      <4>2. dev[2] \in ProcsIn(store, u) /\ dev = ProcDevice(dev[2])  BY <4>1, DevicesInTyped
      <4> QED  BY <4>2, DevicesAreNamed DEF ProcsIn
    <3>3. PICK d : d = ToggleFilter(store, u, name, dev)  OBVIOUS
    <3>4. /\ d \in Modules /\ IsWhole(d) /\ SameUnits(store, d) /\ d.edges = store.edges /\ d.placed = store.placed
          /\ \A v \in Units : ExprNames(d, v) = ExprNames(store, v)  BY <3>2, <3>3, <1>6, <1>7, FilterToggled
    <3>5. ModuleHolds' /\ store' = d /\ signals' = signals \union {<<"shown expression", u>>}
      BY <3>4, <1>2, <1>7, PutHolds, SameDevices, <2>2, <3>1, <3>3, <1>4
    <3> QED  BY <3>4, <3>5, <2>2, <1>2 DEF PlacesStay
  <2> QED  BY <2>1, <2>2, <1>4, <1>5, <1>6 DEF ReleaseFilter
<1>9. \A v \in Units : <<"expressions", v>> \notin signals'  BY <1>8, SignalsDiffer DEF ReleaseFinds
<1>10. EditorsHold'  BY <1>9, <1>8, SameDevices, <1>1, <1>2, <1>7, EditorsFrame DEF ReleaseFinds
<1>11. Formed'  BY <1>2 DEF IInv, ViewHolds, Formed, ReleaseFinds
<1>12. Held'  BY <1>2, <1>3, <1>8, ViewSame DEF Held, ReleaseFinds
<1>13. dialog' = None  BY <1>1 DEF ReleaseFinds
<1>14. States'  BY <1>2, <1>3, <1>13 DEF States, ReleaseFinds
<1>15. RestHolds'  BY <1>1, <1>8, RestFrame DEF ReleaseFinds
<1> QED  BY <1>2, <1>8, <1>9, <1>10, <1>11, <1>12, <1>13, <1>14, <1>15, ReleaseEnds DEF ReleaseLeaves

LEMMA ChangedIsOfView ==
    /\ <<"connections", view.of>> \in Changed /\ <<"connections", view.of>> \in ViewSignals(view.of)
BY DEF Changed, ViewSignals

\* A connection that is suggested can be made.
LEMMA ConnectionIsMade ==
    ASSUME IInv, NEW from, NEW to, HoldsPort(from), HoldsPort(to), CanConnect(from, to),
           NEW d, d = AppendEdge(store, view.of, MakeEdge(from, to))
    PROVE  /\ d \in Modules /\ IsWhole(d) /\ KeepsEdges(store, d) /\ SameUnits(store, d) /\ SameReferences(store, d) /\ d.placed = store.placed
<1>1. store \in Modules /\ IsWhole(store) /\ view.of \in Containers /\ Exists(store, view.of)
  BY DEF IInv, ModuleHolds
<1>2. /\ from = <<from[1], from[2]>> /\ from[1] \in DevicesIn(store, view.of) /\ from[2] \in Sh[from[1]]
      /\ to = <<to[1], to[2]>> /\ to[1] \in DevicesIn(store, view.of) /\ to[2] \in Sh[to[1]]  BY DEF HoldsPort
<1>3. /\ IsSendPort(from[1], from[2]) # IsSendPort(to[1], to[2])
      /\ ~EdgeExists(store, view.of, from, to) /\ ~EdgeCompletesCycle(store, view.of, from, to)  BY DEF CanConnect
<1>4. PICK x : x = MakeEdge(from, to)  OBVIOUS
<1>5. x \in Edges /\ SendsAndReceives(x) /\ {EdgeEnds(x)[1], EdgeEnds(x)[2]} = {from, to}
  BY <1>2, <1>3, <1>4, MadeEdgeIs, <1>1, ShownIs, EndInIsEnd DEF Sh
<1>6. EndsShown(x, Shown(store, view.of))  BY <1>2, <1>5 DEF Shown, EndsShown, Sh
<1>7. x \notin ToSet(store.edges[view.of])  BY <1>3, <1>4 DEF EdgeExists, Contains, ToSet
<1> QED  BY <1>1, <1>4, <1>5, <1>6, <1>7, EdgeAppended, <1>3 DEF EdgeCompletesCycle

LEMMA ReleaseEdgeHolds ==
    ASSUME IInv, ReleaseFinds, Mode = "normal", view.st = "adding_edge", ReleaseEdge
    PROVE  Advances
<1>1. PICK from : from = view.adding.from  OBVIOUS
<1>2. PICK to : to = view.adding.to  OBVIOUS
<1>3. HoldsPort(from) /\ (to # None => HoldsPort(to) /\ CanConnect(from, to))
  BY <1>1, <1>2 DEF IInv, ViewHolds, States
<1>4. PICK d : d = IF to = None THEN store ELSE AppendEdge(store, view.of, MakeEdge(from, to))  OBVIOUS
<1>5. /\ view' = [view EXCEPT !.st = "idle", !.focus = None, !.adding = None]
      /\ Put(d, Changed) /\ UNCHANGED <<editors, known, dialog, renewed, failed>>  BY <1>1, <1>2, <1>4 DEF ReleaseEdge
<1>6. store \in Modules /\ IsWhole(store) /\ view.of \in Containers /\ Exists(store, view.of) /\ ModuleHolds /\ EditorsHold
  BY DEF IInv, ModuleHolds
<1>7. /\ d \in Modules /\ IsWhole(d) /\ KeepsEdges(store, d) /\ SameUnits(store, d) /\ SameReferences(store, d)
      /\ d.placed = store.placed  BY <1>4, <1>6, SameEdges, <1>3, ConnectionIsMade DEF SameUnits, SameReferences
<1>8. /\ DOMAIN view' = DOMAIN view /\ view'.of = view.of /\ view'.st = "idle" /\ view'.devs = view.devs
      /\ view'.unplaced = view.unplaced /\ view'.focus = None /\ view'.port = view.port /\ view'.edge = view.edge
      /\ view'.adding = None  BY <1>5 DEF IInv, ViewHolds, Formed
<1>9. Exists(d, view.of) /\ DevicesIn(d, view.of) = DevicesIn(store, view.of) /\ Shown(d, view.of) = Sh
  BY <1>6, <1>7, SameDevices DEF Sh
<1>10. ModuleHolds' /\ store' = d /\ signals' = signals \union Changed  BY <1>5, <1>6, <1>7, <1>8, <1>9, PutHolds
<1>11. \A u \in Units : <<"expressions", u>> \notin signals'  BY <1>10 DEF ReleaseFinds
<1>12. EditorsHold'
  <2>1. \A u \in Units : HasUnit(store, u) => HasUnit(store', u)  BY <1>7, <1>10, SameDevices
  <2>2. \A u \in Units : ExprNames(store', u) = ExprNames(store, u)  BY <1>7, <1>10 DEF SameReferences, ExprNames
  <2> QED  BY <2>1, <2>2, <1>5, <1>6, <1>8, EditorsFrame, <1>11 DEF ReleaseFinds
<1>13. Formed'  BY <1>8 DEF IInv, ViewHolds, Formed, ReleaseFinds
<1>14. Fresh'
  <2>1. ASSUME NEW e \in ToSet(store'.edges[view'.of]) PROVE EndsShown(e, view'.devs)
    BY <1>6, <1>7, <1>8, <1>9, <1>10, EdgesAre DEF ReleaseFinds
  <2>2. view'.unplaced \subseteq DevicesIn(store', view'.of)  BY <1>8, <1>9, <1>10 DEF IInv, ViewHolds, Fresh
  <2>3. dialog' = None /\ mouse'.down = FALSE  BY <1>5 DEF ReleaseFinds
  <2>4. LaidOut'  BY <1>7, <1>8, <1>9, <1>10 DEF IInv, ViewHolds, Fresh, LaidOut
  <2> QED  BY <2>1, <2>2, <2>3, <2>4, <1>11, <1>8, <1>10, ChangedIsOfView DEF Fresh
<1>15. Held'
  <2>1. view.edge = None  BY DEF IInv, ViewHolds, Held
  <2>2. PICK p : p = view.port  OBVIOUS
  <2>3. p # None => HoldsPort(p) /\ mouse.at = <<"port", p[1], p[2]>>  BY <2>2 DEF IInv, ViewHolds, Held
  <2>4. p # None => HoldsPort(p)'  BY <2>3, <1>8, <1>9, <1>10 DEF HoldsPort, Sh
  <2> QED  BY <2>1, <2>2, <2>3, <2>4, <1>8 DEF Held, HoldsPort, ReleaseFinds, Mode
<1>16. States'  BY <1>5, <1>8 DEF States, ReleaseFinds
<1>17. RestHolds'  BY <1>5, RestFrame DEF ReleaseFinds
<1>18. LosesNothing  BY <1>7, <1>10, KeptIs DEF ReleaseFinds
<1> QED  BY <1>10, <1>12, <1>13, <1>14, <1>15, <1>16, <1>17, <1>18 DEF Advances, IInv, ViewHolds

-----------------------------------------------------------------------------
\* A device is removed.

LEMMA ControlsCanBeRead == ASSUME IInv, NEW dev \in Buttons PROVE CanReadControls(dev)
<1>1. ControlsAreExact(store)  BY DEF IInv, ModuleHolds, IsWhole
<1>2. CASE view.of # <<>>  BY <1>2 DEF CanReadControls
<1>3. CASE view.of = <<>>
  BY <1>3, DevicesInTyped, <1>1 DEF Buttons, HasButtons, ControlsAreExact, ChannelsReadable, ControlsReadable,
     CanReadControls
<1> QED  BY <1>2, <1>3

LEMMA EditorsClose ==
    ASSUME IInv, NEW gone \in SUBSET Units,
           editors' = editors \ gone, known' = [u \in Units |-> IF u \in gone THEN None ELSE known[u]],
           renewed' = renewed \union gone, session' = session, view'.of = view.of, view.of # <<>> => view.of \notin gone,
           \A v \in Units : HasUnit(store', v) <=> HasUnit(store, v) /\ v \notin gone,
           \A v \in Units \ gone : ExprNames(store', v) = ExprNames(store, v),
           \A v \in Units : <<"expressions", v>> \notin signals /\ <<"expressions", v>> \notin signals'
    PROVE  EditorsHold'
BY DEF IInv, EditorsHold, ShownIsThere

LEMMA RemovalHolds ==
    ASSUME IInv, Mode = "normal", view.st = "pressing", view.unplaced = {}, view.devs = Sh, NEW dev \in Buttons,
           signals \subseteq Changed, \A u \in Units : <<"expressions", u>> \notin signals /\ <<"expressions", u>> \notin Changed,
           view' = Released(view), RemoveDevice(dev), dialog' = None,
           DOMAIN mouse' = DOMAIN mouse, mouse'.down = FALSE, mouse'.at = mouse.at, UNCHANGED <<session, actions>>
    PROVE  Advances
<1>1. PICK gone : gone = IF dev[1] = "au" THEN Inside(UnitOf(dev)) ELSE {}  OBVIOUS
<1>2. /\ Puts(RemovalSteps(dev), Changed \union (IF view.of = <<>> THEN {<<"controls">>} ELSE {}))
      /\ editors' = editors \ gone /\ known' = [u \in Units |-> IF u \in gone THEN None ELSE known[u]]
      /\ renewed' = renewed \union gone /\ failed' = failed  BY <1>1, ControlsCanBeRead DEF RemoveDevice
<1>3. store \in Modules /\ IsWhole(store) /\ view.of \in Containers /\ Exists(store, view.of)
  BY DEF IInv, ModuleHolds
<1>4. PICK steps : steps = RemovalSteps(dev)  OBVIOUS
<1>5. /\ steps \in Seq(Modules) /\ steps # <<>> /\ \A x \in ToSet(steps) : IsLinked(x)
      /\ Removes(store, view.of, dev, Last(steps))  BY <1>3, <1>4, RemovalIs DEF Buttons
<1>6. /\ store' = Last(steps) /\ writes' = steps
      /\ signals' = signals \union (Changed \union (IF view.of = <<>> THEN {<<"controls">>} ELSE {}))
  BY <1>2, <1>4 DEF Puts
<1>7. gone = Gone(view.of, dev) /\ gone \in SUBSET Units  BY <1>1 DEF Inside, Gone, UnitOf
<1>8. /\ store' \in Modules /\ IsWhole(store') /\ KeepsEdges(store, store') /\ Exists(store', view.of)
      /\ ToSet(store'.edges[view.of]) \subseteq ToSet(store.edges[view.of])
      /\ store.placed[view.of] \ {dev} \subseteq store'.placed[view.of] /\ dev \notin DevicesIn(store', view.of)
      /\ \A v \in Units : HasUnit(store', v) <=> HasUnit(store, v) /\ v \notin gone
      /\ \A v \in Units \ gone : ExprNames(store', v) = ExprNames(store, v)  BY <1>5, <1>6, <1>7 DEF Removes
<1>9. /\ DOMAIN view' = DOMAIN view /\ view'.of = view.of /\ view'.st = "idle" /\ view'.devs = view.devs
      /\ view'.unplaced = {} /\ view'.focus = None /\ view'.port = None /\ view'.edge = None /\ view'.adding = None
  BY ReleasedIs DEF IInv, ViewHolds, Held
<1>10. ModuleHolds'  BY <1>5, <1>3, <1>6, <1>8, <1>9 DEF ToSet, ModuleHolds
<1>11. \A u \in Units : <<"expressions", u>> \notin signals'  BY <1>6, SignalsDiffer
<1>12. EditorsHold'  BY <1>3, <1>8, ContainersAre, <1>2, <1>7, <1>9, <1>11, EditorsClose DEF Exists
<1>13. Fresh'
  <2>1. ASSUME NEW e \in ToSet(store'.edges[view'.of]) PROVE EndsShown(e, view'.devs)
    BY <1>8, <1>9, <1>3, EdgesAre DEF Sh
  <2>2. LaidOut'  BY <1>8, <1>9 DEF IInv, ViewHolds, Fresh, Sh, Shown, LaidOut
  <2> QED  BY <2>1, <2>2, <1>9, <1>11, <1>6, ChangedIsOfView DEF Fresh
<1>14. RestHolds'  BY <1>2, RestFrame
<1>15. LosesNothing  BY <1>8, KeptIs
<1> QED  BY <1>10, <1>12, <1>13, <1>14, <1>15, ReleasedView DEF Advances, IInv, ViewHolds

LEMMA ReleaseButtonHolds ==
    ASSUME IInv, ReleaseFinds, Mode = "normal", view.st = "pressing", NEW shift \in BOOLEAN, ReleaseButton(shift)
    PROVE  Advances
<1>1. view.pressed # None /\ view.pressed.dev \in Buttons /\ view.unplaced = {}
  BY DEF IInv, ViewHolds, States, ReleaseFinds
<1>2. CASE ~Clicked  BY <1>2, ReleasedView, ReleasedIs, ReleaseOnly, ReleaseEnds DEF ReleaseButton, ReleaseFinds
<1>3. CASE Clicked
  <2>1. view.button # None /\ view.button.dev \in Buttons  BY <1>1, <1>3 DEF Clicked
  <2>2. CASE view.button.type = "edit"  BY <1>3, <2>1, <2>2, ShowEditorHolds DEF ReleaseButton
  <2>3. CASE view.button.type # "edit"
    <3>1. PICK dev : dev = view.button.dev  OBVIOUS
    <3>2. IF shift THEN view' = Released(view) /\ RemoveDevice(dev) /\ UNCHANGED dialog
          ELSE /\ dialog' = dev /\ view' = [view EXCEPT !.focus = None] /\ PutsNothing
               /\ UNCHANGED <<editors, known, renewed, failed>>  BY <1>3, <2>1, <2>3, <3>1 DEF ReleaseButton
    <3>3. dev \in Buttons  BY <2>1, <3>1
    <3>4. CASE shift  BY <3>2, <3>4, <3>3, <1>1, RemovalHolds DEF ReleaseFinds
    <3>5. CASE ~shift  BY <3>2, <3>5, <3>3, DialogOpensHolds
    <3> QED  BY <3>4, <3>5
  <2> QED  BY <2>2, <2>3
<1> QED  BY <1>2, <1>3

LEMMA ReleaseHolds == ASSUME IInv, Release PROVE Advances
<1>1. ReleaseFinds  BY ReleaseIs
<1>2. CASE Mode # "normal"  BY <1>2, <1>1, ReleaseFilterHolds DEF Release
<1>3. CASE Mode = "normal"
  <2>1. PICK shift \in BOOLEAN : ReleaseNormal(shift)  BY <1>3 DEF Release
  <2>2. CASE view.st = "pressing"  BY <2>1, <2>2, <1>1, <1>3, ReleaseButtonHolds DEF ReleaseNormal
  <2>3. CASE view.st = "adding_edge"  BY <2>1, <2>3, <1>1, <1>3, ReleaseEdgeHolds DEF ReleaseNormal
  <2>4. CASE view.st \in {"idle", "moving"}  BY <2>1, <2>4, <1>1, <1>3, ReleaseIdleHolds DEF ReleaseNormal
  <2> QED  BY <1>1, <2>2, <2>3, <2>4 DEF ReleaseFinds
<1> QED  BY <1>2, <1>3

-----------------------------------------------------------------------------
\* The dialog closes.

LEMMA CloseDialogHolds == ASSUME IInv, CloseDialog PROVE Advances
<1>1. /\ dialog # None /\ failed = None /\ signals = {} /\ dialog' = None /\ view' = Released(view)
      /\ UNCHANGED <<session, mouse, actions>>  BY DEF CloseDialog
<1>2. /\ ~mouse.down /\ view.st = "pressing" /\ Mode = "normal" /\ dialog \in Buttons /\ view.unplaced = {} /\ view.devs = Sh
      /\ mouse.down \in BOOLEAN /\ signals \subseteq Changed  BY <1>1 DEF IInv, ViewHolds, Formed, Fresh, States
<1>3. PICK dev : dev = dialog  OBVIOUS
<1>4. DOMAIN mouse' = DOMAIN mouse /\ mouse'.down = FALSE /\ mouse'.at = mouse.at  BY <1>1, <1>2
<1>5. CASE RemoveDevice(dialog)  BY <1>2, <1>3, <1>5, <1>1, <1>4, RemovalHolds, SignalsOfView
<1>6. CASE PutsNothing /\ UNCHANGED <<editors, known, renewed, failed>>
  BY <1>1, <1>2, <1>4, ReleasedView, ReleasedIs, <1>6, NothingPutHolds, RestFrame, StepInView
<1> QED  BY <1>5, <1>6 DEF CloseDialog

-----------------------------------------------------------------------------
\* The menu of a connection closes.

LEMMA CloseMenuHolds == ASSUME IInv, CloseMenu PROVE Advances
<1>1. /\ view.st = "edge_menu" /\ failed = None /\ signals = {}
      /\ view' = [view EXCEPT !.st = "idle", !.edge = None]
      /\ UNCHANGED <<session, editors, known, mouse, dialog, renewed, actions>>  BY DEF CloseMenu
<1>2. /\ ~mouse.down /\ mouse.down \in BOOLEAN /\ view.devs = Sh /\ view.edge # None /\ dialog = None /\ Mode = "normal"
      /\ view.edge \in ToSet(store.edges[view.of]) /\ mouse.at # <<"outside">>
      /\ view.focus = None /\ view.port = None /\ view.adding = None
  BY <1>1 DEF IInv, ViewHolds, Formed, Fresh, Held, States
<1>3. /\ DOMAIN view' = DOMAIN view /\ view'.of = view.of /\ view'.st = "idle" /\ view'.devs = view.devs
      /\ view'.unplaced = view.unplaced /\ view'.focus = None /\ view'.port = None /\ view'.edge = None
      /\ view'.adding = None  BY <1>1, <1>2 DEF IInv, ViewHolds, Formed
<1>4. Formed'  BY <1>1, <1>3 DEF IInv, ViewHolds, Formed
<1>5. Held'  BY <1>3 DEF Held
<1>6. States'  BY <1>1, <1>2, <1>3 DEF States
<1>7. CASE PutsNothing /\ UNCHANGED failed
  BY <1>1, <1>3, <1>7, NothingPutHolds, RestFrame, <1>4, <1>5, <1>6, StepInView
<1>8. CASE Put(RemoveEdge(store, view.of, view.edge), Changed) /\ UNCHANGED failed
  <2>1. PICK x : x = view.edge  OBVIOUS
  <2>2. PICK d : d = RemoveEdge(store, view.of, x)  OBVIOUS
  <2>3. store \in Modules /\ IsWhole(store) /\ view.of \in Containers /\ Exists(store, view.of) /\ ModuleHolds /\ EditorsHold
    BY DEF IInv, ModuleHolds
  <2>4. /\ d \in Modules /\ IsWhole(d) /\ SameUnits(store, d) /\ SameReferences(store, d) /\ d.placed = store.placed
        /\ ToSet(d.edges[view.of]) \subseteq ToSet(store.edges[view.of])
        /\ ToSet(store.edges[view.of]) \ {x} \subseteq ToSet(d.edges[view.of])
        /\ \A b \in Containers \ {view.of} : d.edges[b] = store.edges[b]  BY <2>1, <2>2, <2>3, <1>2, EdgeRemoved
  <2>5. /\ Exists(d, view.of) /\ DevicesIn(d, view.of) = DevicesIn(store, view.of)
        /\ \A u \in Units : HasUnit(d, u) <=> HasUnit(store, u)  BY <2>3, <2>4, SameDevices
  <2>6. ModuleHolds' /\ store' = d /\ signals' = Changed  BY <1>8, <2>1, <2>2, <1>1, <1>3, <2>3, <2>4, <2>5, PutHolds
  <2>7. \A u \in Units : <<"expressions", u>> \notin signals'  BY <2>6, <1>1, SignalsOfView
  <2>8. EditorsHold'
    <3>1. \A u \in Units : ExprNames(store', u) = ExprNames(store, u)  BY <2>4, <2>6 DEF SameReferences, ExprNames
    <3> QED  BY <3>1, <1>1, <1>3, <2>3, <2>5, <2>6, <2>7, EditorsFrame
  <2>9. Fresh'
    <3>1. ASSUME NEW e \in ToSet(store'.edges[view'.of]) PROVE EndsShown(e, view'.devs)
      BY <1>3, <2>4, <2>6, <2>3, EdgesAre, <1>2 DEF Sh
    <3>2. view'.unplaced \subseteq DevicesIn(store', view'.of) /\ LaidOut'
      BY <1>3, <2>4, <2>5, <2>6 DEF IInv, ViewHolds, Fresh, LaidOut
    <3> QED  BY <3>1, <3>2, <2>7, <1>3, <2>6, ChangedIsOfView, <1>1, <1>2 DEF Fresh
  <2>10. RestHolds'  BY <1>1, <1>8, RestFrame
  <2>11. LosesNothing  BY <2>4, <2>6, <2>1, <1>1 DEF LosesNothing
  <2> QED  BY <2>6, <2>8, <2>9, <2>10, <2>11, <1>4, <1>5, <1>6 DEF Advances, IInv, ViewHolds
<1>9. Contains(store.edges[view.of], view.edge)
  <2>1. store.edges[view.of] \in Seq(Edges)  BY ModuleIs DEF IInv, ModuleHolds
  <2> QED  BY <2>1, <1>2 DEF Contains, ToSet
<1> QED  BY <1>7, <1>8, <1>9 DEF CloseMenu

-----------------------------------------------------------------------------
\* The mouse leaves.

LEMMA LeaveHolds == ASSUME IInv, Leave PROVE Advances
<1>1. /\ ~mouse.down /\ signals = {} /\ view.st # "edge_menu"
      /\ mouse' = [mouse EXCEPT !.at = <<"outside">>]
      /\ view' = [view EXCEPT !.focus = None, !.button = None, !.pressed = None, !.port = None, !.edge = None]
      /\ PutsNothing /\ UNCHANGED <<session, editors, known, dialog, done, renewed, failed, actions>>  BY DEF Leave
<1>2. view.adding = None /\ (dialog = None => view.st = "idle")  BY <1>1 DEF IInv, ViewHolds, Formed, Held, States
<1>3. /\ DOMAIN view' = DOMAIN view /\ view'.of = view.of /\ view'.st = view.st /\ view'.devs = view.devs
      /\ view'.unplaced = view.unplaced /\ view'.focus = None /\ view'.port = None /\ view'.edge = None
      /\ view'.adding = None /\ view'.button = None  BY <1>1, <1>2 DEF IInv, ViewHolds, Formed
<1>4. /\ DOMAIN mouse' = DOMAIN mouse /\ mouse'.at = <<"outside">> /\ ~mouse'.down /\ mouse'.down \in BOOLEAN
  BY <1>1 DEF IInv, ViewHolds, Formed
<1>5. /\ ModuleHolds' /\ EditorsHold' /\ store' = store /\ signals' = signals /\ SameUnits(store, store')
      /\ store'.edges = store.edges /\ PlacesStay  BY <1>1, <1>3, NothingPutHolds
<1>6. Formed'  BY <1>3, <1>4 DEF IInv, ViewHolds, Formed
<1>7. Held'  BY <1>2, <1>3 DEF IInv, ViewHolds, Held
<1>8. States'  BY <1>1, <1>2, <1>3, <1>4, <1>5, ViewSame DEF IInv, ViewHolds, States
<1> QED  BY <1>1, <1>3, <1>5, <1>6, <1>7, <1>8, StepInView, RestFrame

-----------------------------------------------------------------------------
\* The next update.

LEMMA TickHolds == ASSUME IInv, Tick PROVE Advances
<1>1. PICK opened : opened = {u \in Units \ editors : <<"open", u>> \in signals /\ HasUnit(store, u)}  OBVIOUS
<1>2. PICK listed : listed = {u \in editors : <<"expressions", u>> \in signals}  OBVIOUS
<1>3. /\ signals # {} /\ signals' = {} /\ editors' = editors \union opened
      /\ known' = [u \in Units |-> IF u \in listed THEN ExprNames(store, u) ELSE known[u]]
      /\ session' = [u \in Units |-> IF u \in opened \union listed THEN UpdatedSession(session[u], ExprNames(store, u))
                                     ELSE session[u]]
      /\ view' = IF signals \intersect ViewSignals(view.of) = {} THEN view ELSE UpdateDevices(view, store)
      /\ writes' = <<store>>
      /\ store' = store /\ UNCHANGED <<mouse, dialog, done, renewed, failed, actions>>
  BY <1>1, <1>2 DEF Tick, KnownNames
<1>4. store \in Modules /\ IsWhole(store) /\ view.of \in Containers /\ Exists(store, view.of) /\ EditorsHold
  BY DEF IInv, ModuleHolds
<1>5. opened \subseteq Units \ editors /\ listed \subseteq editors /\ \A u \in opened : HasUnit(store, u)
  BY <1>1, <1>2
<1>6. \A u \in Units : ExprNames(store, u) \subseteq Names  BY <1>4, ExpressionsAre
<1>7. ASSUME NEW u \in Units
      PROVE  /\ session'[u] \in Sessions /\ session'[u].selected = session[u].selected
             /\ u \in opened \union listed => IF ExprNames(store, u) = {} THEN session'[u].mode = "normal"
                                               ELSE session'[u].shown \in ExprNames(store, u)
             /\ u \notin opened \union listed => session'[u] = session[u]
             /\ session[u].mode = "normal" => session'[u].mode = "normal"
  <2>1. PICK s : s = session[u]  OBVIOUS
  <2>2. PICK names : names = ExprNames(store, u)  OBVIOUS
  <2> QED  BY <2>1, <2>2, SessionUpdated, <1>4, <1>6, <1>3 DEF EditorsHold
<1>8. ModuleHolds'  BY <1>3, <1>4, WritesOne DEF UpdateDevices, IInv, ViewHolds, Formed, IsWhole, ModuleHolds
<1>9. /\ DOMAIN view' = DOMAIN view /\ view'.of = view.of /\ view'.st = view.st /\ view'.focus = view.focus
      /\ view'.button = view.button /\ view'.pressed = view.pressed /\ view'.port = view.port
      /\ view'.adding = view.adding /\ view'.edge = view.edge /\ view'.pressedDev = view.pressedDev
      /\ view'.devs = Sh
      /\ view'.unplaced = view.unplaced \/ view'.unplaced = view.unplaced \union (DevicesIn(store, view.of) \ store.placed[view.of])
  BY <1>3 DEF IInv, ViewHolds, Fresh, UpdateDevices, Sh, Formed
<1>10. EditorsHold'  BY <1>3, <1>4, <1>9, <1>2, <1>7, <1>6, <1>5 DEF EditorsHold, ShownIsThere
<1>11. /\ Mode = "normal" => Mode' = "normal"
       /\ mouse.at # <<"outside">> => Mode' = Mode
  <2>1. CASE view.of = <<>>  BY <2>1, <1>9 DEF Mode
  <2>2. CASE view.of # <<>>
    <3>1. view.of \in Units /\ view.of \in editors  BY <2>2, <1>4 DEF EditorsHold
    <3>2. mouse.at # <<"outside">> => view.of \notin opened \union listed
      BY <3>1, <1>2, <1>5 DEF IInv, ViewHolds, Fresh
    <3> QED  BY <3>1, <3>2, <1>7, <2>2, <1>9 DEF Mode
  <2> QED  BY <2>1, <2>2
<1>12. Sh' = Sh /\ DOMAIN Sh = DevicesIn(store, view.of)  BY <1>3, <1>9 DEF Sh, Shown
<1>13. view.devs = Sh /\ view.unplaced = {} => view'.unplaced = {}  BY <1>12, <1>9 DEF IInv, ViewHolds, Fresh, LaidOut
<1>14. Formed'  BY <1>3, <1>9 DEF IInv, ViewHolds, Formed
<1>15. Fresh'
  <2>1. view'.unplaced \subseteq DevicesIn(store', view'.of)  BY <1>3, <1>9 DEF IInv, ViewHolds, Fresh
  <2>2. LaidOut'  BY <1>3, <1>9 DEF IInv, ViewHolds, Fresh, LaidOut, UpdateDevices, Formed
  <2> QED  BY <2>1, <2>2, <1>3, <1>9, <1>12, <1>4, EdgesAre DEF Fresh, Sh
<1>16. Held'
  <2>1. PICK p : p = view.port  OBVIOUS
  <2>2. p # None => HoldsPort(p)'  BY <2>1, <1>3, <1>9, <1>12 DEF IInv, ViewHolds, Held, HoldsPort
  <2>3. view'.focus # None => /\ view'.focus \in DevicesIn(store', view'.of)
                              /\ IF Mode' = "normal" THEN mouse'.down ELSE view'.focus[1] = "proc"
    BY <1>3, <1>9, <1>11 DEF IInv, ViewHolds, Held, States
  <2>4. p # None => /\ mouse'.at = <<"port", p[1], p[2]>> /\ view'.st \in {"idle", "adding_edge"} /\ Mode' = "normal"
    BY <2>1, <1>3, <1>9, <1>11 DEF IInv, ViewHolds, Held
  <2>5. view'.edge # None => /\ view'.edge \in ToSet(store'.edges[view'.of]) /\ mouse'.at = <<"edge", view'.edge>>
                             /\ view'.st \in {"idle", "edge_menu"} /\ Mode' = "normal"
    BY <1>3, <1>9, <1>11 DEF IInv, ViewHolds, Held
  <2>6. view'.adding # None <=> view'.st = "adding_edge"  BY <1>9 DEF IInv, ViewHolds, Held
  <2> QED  BY <2>2, <2>3, <2>4, <2>5, <2>6, <2>1, <1>9 DEF Held, HoldsPort
<1>17. States'
  <2>1. view.st # "edge_menu"  BY <1>3 DEF IInv, ViewHolds, States
  <2>2. view.st = "moving" => mouse.down /\ Mode' = "normal"  BY <1>11 DEF IInv, ViewHolds, States
  <2>3. Buttons' = Buttons  BY <1>3, <1>9 DEF Buttons
  <2>4. ASSUME view.st = "adding_edge"
        PROVE  /\ mouse'.down /\ Mode' = "normal" /\ DOMAIN view'.adding = {"from", "to"} /\ HoldsPort(view.adding.from)'
               /\ view'.adding.to # None => HoldsPort(view.adding.to)' /\ CanConnect(view.adding.from, view.adding.to)'
    <3>1. PICK adding : adding = view.adding  OBVIOUS
    <3>2. PICK from : from = adding.from  OBVIOUS
    <3>3. PICK to : to = adding.to  OBVIOUS
    <3>4. /\ mouse.down /\ Mode = "normal" /\ DOMAIN adding = {"from", "to"} /\ HoldsPort(from)
          /\ to # None => HoldsPort(to) /\ CanConnect(from, to)  BY <2>4, <3>1, <3>2, <3>3 DEF IInv, ViewHolds, States
    <3>5. \A end : HoldsPort(end)' <=> HoldsPort(end)  BY <1>3, <1>9, <1>12 DEF HoldsPort
    <3>6. CanConnect(from, to)' <=> CanConnect(from, to)  BY <1>3, <1>9 DEF CanConnect
    <3>7. view'.adding = adding  BY <3>1, <1>9
    <3> QED  BY <3>2, <3>3, <3>4, <3>5, <3>6, <3>7, <1>3, <1>11 DEF HoldsPort, CanConnect
  <2>5. ASSUME view.st = "pressing", dialog = None
        PROVE  /\ mouse'.down
               /\ IF Mode' = "normal" THEN view'.pressed # None /\ view'.pressed.dev \in Buttons' /\ view'.unplaced = {}
                  ELSE view'.pressedDev # None
    <3>1. /\ mouse.down
          /\ IF Mode = "normal" THEN view.pressed # None /\ view.pressed.dev \in Buttons /\ view.unplaced = {}
             ELSE view.pressedDev # None  BY <2>5 DEF IInv, ViewHolds, States
    <3>2. mouse.at # <<"outside">> /\ view.devs = Sh  BY <3>1 DEF IInv, ViewHolds, Fresh, States
    <3> QED  BY <3>1, <3>2, <2>3, <1>3, <1>9, <1>11, <1>13
  <2>6. dialog # None => /\ ~mouse'.down /\ view'.st = "pressing" /\ Mode' = "normal"
                         /\ dialog \in Buttons' /\ view'.unplaced = {} /\ view'.focus = None
    BY <2>3, <1>3, <1>9, <1>11, <1>13 DEF IInv, ViewHolds, Fresh, States
  <2>7. mouse'.at = <<"outside">> =>
          /\ ~mouse'.down /\ view'.focus = None /\ view'.port = None /\ view'.edge = None
          /\ view'.button \in {None, NoButton} /\ (dialog' = None => view'.st = "idle")
    BY <1>3, <1>9 DEF IInv, ViewHolds, States
  <2> HIDE DEF Buttons
  <2> QED  BY <2>1, <2>2, <2>4, <2>5, <2>6, <2>7, <1>3, <1>9 DEF States
<1>18. RestHolds'  BY <1>3, RestFrame
<1>19. LosesNothing  BY <1>3, SameEdges, KeptIs
<1> QED  BY <1>8, <1>10, <1>14, <1>15, <1>16, <1>17, <1>18, <1>19 DEF Advances, IInv, ViewHolds

-----------------------------------------------------------------------------
\* Every step.

LEMMA MouseHolds == ASSUME IInv, MouseNext PROVE Advances
BY MoveHolds, PressHolds, ReleaseHolds, CloseDialogHolds, CloseMenuHolds, LeaveHolds DEF MouseNext

LEMMA WindowHolds == ASSUME IInv, WindowNext PROVE Advances
<1>1. CASE \E kind \in {"instrument", "effect"} : NewUnit(kind)  BY <1>1, NewUnitHolds
<1>2. CASE \E u \in editors, n \in Names : SelectExpression(u, n) \/ RenameSelected(u, n)
  BY <1>2, SelectExpressionHolds, RenameSelectedHolds
<1>3. CASE \E u \in editors, n \in Names \union {None} : ChangeDefaultExpression(u, n)
  BY <1>3, ChangeDefaultExpressionHolds
<1>4. CASE \E u \in editors, n \in Names : ShowExpression(u, n) \/ DropStream(u, n)
  BY <1>4, ShowExpressionHolds, StreamsHold
<1>5. CASE \E u \in editors, n, k \in Names : RenameStream(u, n, k)  BY <1>5, StreamsHold
<1>6. CASE \E u \in editors, n \in Names, k \in Procs : RetargetStream(u, n, k)  BY <1>6, StreamsHold
<1>7. CASE \E u \in editors : NewNestedEffect(u) \/ NewExpression(u) \/ DropExpression(u) \/ NewStream(u) \/ ToggleFilterMode(u)
  BY <1>7, NewNestedEffectHolds, NewExpressionHolds, DropExpressionHolds, StreamsHold, ToggleFilterModeHolds
<1>8. CASE \E u \in editors, type \in MadeTypes : NewProcessor(u, type)  BY <1>8, NewProcessorHolds
<1>9. CASE \E u \in editors, dir \in {"in", "out"} : PortAdded(u, dir)  BY <1>9, PortAddedHolds
<1>10. CASE \E u \in editors, p \in Ports : PortRemoved(u, p)  BY <1>10, PortRemovedHolds
<1>11. CASE \E ch \in Chs, n \in Controls : ChangeChannel(ch, n)  BY <1>11, ChangeChannelHolds
<1> QED  BY <1>1, <1>2, <1>3, <1>4, <1>5, <1>6, <1>7, <1>8, <1>9, <1>10, <1>11 DEF WindowNext

LEMMA NextHolds == ASSUME IInv, Next PROVE Advances
BY MouseHolds, WindowHolds, TickHolds DEF Next

LEMMA StuttersHold == ASSUME IInv, UNCHANGED vars PROVE IInv'
BY DEF vars, IInv, ModuleHolds, EditorsHold, ShownIsThere, ViewHolds, RestHolds, Formed, Fresh, LaidOut, Held, States,
   Sh, Buttons, HoldsPort, Mode, Changed, CanConnect

-----------------------------------------------------------------------------
\* The results.

\* Whatever the mouse, the windows and the updates do, in any order, the
\* module stays whole, the editors know what is in it until a signal that
\* it is old is on its way, and what the view shows and holds is there.
THEOREM Invariance == Spec => []IInv
<1>1. Init => IInv  BY InitHolds
<1>2. IInv /\ [Next]_vars => IInv'
  <2> SUFFICES ASSUME IInv, [Next]_vars PROVE IInv'  OBVIOUS
  <2>1. CASE Next  BY <2>1, NextHolds DEF Advances
  <2>2. CASE UNCHANGED vars  BY <2>2, StuttersHold
  <2> QED  BY <2>1, <2>2
<1> QED  BY <1>1, <1>2, PTL DEF Spec

\* After every transaction, also in the middle of a removal, the
\* connections are sound and the controls reach units; after every input
\* nothing is left of what was removed, and what is referred to is there
\* (connections.py, module.py, audiounit.py).
THEOREM ModuleStaysSound == Spec => []ModuleIsSound
<1>1. IInv => ModuleIsSound  BY InvariantIs
<1> QED  BY <1>1, Invariance, PTL

\* No handler of the view looks for a device, a port, a connection or an
\* expression that is gone, whatever happened since the mouse came to it
\* (connections.py).
THEOREM ViewStaysUsable == Spec => []ViewIsUsable
<1>1. IInv => ViewIsUsable  BY InvariantIs
<1> QED  BY <1>1, Invariance, PTL

\* No input takes a connection whose ends stay, unless its menu asked for
\* it, and no validated rename takes another expression
\* (connections.py, expressions.py).
THEOREM EditsKeepTheRest == Spec => EditsLoseNothing
<1>1. ASSUME IInv, Next PROVE LosesNothing  BY <1>1, NextHolds DEF Advances
<1> DEFINE Lost ==
             \A c \in Containers : \A e \in ToSet(store.edges[c]) \ ToSet(store'.edges[c]) :
                 \/ c # <<>> /\ ~HasUnit(store', c)
                 \/ ~EndsShown(e, Shown(store', c))
                 \/ c = view.of /\ e = view.edge /\ view.st = "edge_menu"
           Renamed == actions' # actions /\ done'[1] = "rename" /\ done'[3] # None
                        => Cardinality(ExprNames(store', done'[2])) = Cardinality(ExprNames(store, done'[2]))
<1>2. IInv /\ [Next]_vars => [Lost]_vars /\ [Renamed]_vars  BY <1>1 DEF LosesNothing
<1> QED  BY <1>2, Invariance, PTL DEF Spec, EditsLoseNothing, EdgesGoForAReason, ValidatedRenamesKeepExpressions
=============================================================================
