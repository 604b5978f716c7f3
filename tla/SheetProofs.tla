----------------------------- MODULE SheetProofs -----------------------------
(***************************************************************************)
(* The sheet: whatever the user does, in whatever order, the entries of    *)
(* the history fit on each other and on the sheet, so that undo and redo   *)
(* give back what was there and show where; a handler never works on a     *)
(* column that is behind the store; and nothing writes triggers while      *)
(* the cursor follows playback.  For any numbers of patterns and systems,  *)
(* any keys and events, and any sheet at first.                            *)
(*                                                                         *)
(* First the sequences, the rows of a column and the edits of a column,    *)
(* then the history as a sequence of steps that fit (Fits), then what      *)
(* every operation of the sheet does to the state of the user interface    *)
(* (Stays, Edits, Turns), undo and redo, the order list and the actions.   *)
(***************************************************************************)
EXTENDS Sheet, WellFoundedInduction, FiniteSetTheorems, TLAPS

-----------------------------------------------------------------------------
\* Numbers and sequences.

\* A set of numbers has a least one.
LEMMA LeastIs == ASSUME NEW T, T \subseteq Nat, T # {} PROVE \E n \in T : \A m \in T : n <= m
<1>1. PICK n \in T : \A m \in T : ~(<<m, n>> \in OpToRel(<, Nat))  BY NatLessThanWellFounded, WFMin
<1>2. \A m \in T : n <= m
  <2> SUFFICES ASSUME NEW m \in T PROVE n <= m  OBVIOUS
  <2>1. m \in Nat /\ n \in Nat  OBVIOUS
  <2>2. ~(m < n)  BY <2>1, <1>1 DEF OpToRel
  <2> QED  BY <2>1, <2>2
<1> QED  BY <1>2

\* A bounded set of numbers has a greatest one.
LEMMA GreatestIs ==
    ASSUME NEW T, NEW b \in Nat, T \subseteq 0..b, T # {} PROVE \E n \in T : \A m \in T : m <= n
<1> DEFINE D == {b - n : n \in T}
<1>1. \A n \in T : n \in Nat /\ b - n \in Nat /\ n <= b  OBVIOUS
<1>2. PICK d \in D : \A m \in D : d <= m  BY LeastIs, <1>1
<1>3. PICK n \in T : d = b - n  BY <1>2
<1>4. \A m \in T : m <= n
  <2> SUFFICES ASSUME NEW m \in T PROVE m <= n  OBVIOUS
  <2> QED  BY <1>3, <1>2
<1> QED  BY <1>4

\* The function that Keeping builds: what is kept of the first n elements.
IsPart(s, S, n, f) == f = [m \in 0..n |-> IF m = 0 THEN <<>> ELSE IF s[m] \in S THEN Append(f[m - 1], s[m]) ELSE f[m - 1]]

LEMMA PartExists == ASSUME NEW s, NEW S, NEW k \in Nat PROVE \E f : IsPart(s, S, k, f)
<1> DEFINE Bad == {n \in Nat : ~ \E f : IsPart(s, S, n, f)}
<1> SUFFICES ASSUME Bad # {} PROVE FALSE  OBVIOUS
<1>1. PICK n \in Bad : \A m \in Bad : n <= m  BY LeastIs
<1>2. n # 0
  <2>1. IsPart(s, S, 0, [m \in 0..0 |-> <<>>])  BY DEF IsPart
  <2> QED  BY <2>1
<1>3. n \in Nat /\ n - 1 \in Nat /\ ~(n <= n - 1)  BY <1>2
<1>4. PICK f : IsPart(s, S, n - 1, f)  BY <1>3, <1>1
<1> DEFINE last == IF s[n] \in S THEN Append(f[n - 1], s[n]) ELSE f[n - 1]
           g == [m \in 0..n |-> IF m = n THEN last ELSE f[m]]
<1>5. \A m \in 0..n : m - 1 \in 0..n \/ m = 0  BY <1>3
<1>6. \A m \in 0..n : g[m] = IF m = 0 THEN <<>> ELSE IF s[m] \in S THEN Append(g[m - 1], s[m]) ELSE g[m - 1]
  <2> SUFFICES ASSUME NEW m \in 0..n
               PROVE  g[m] = IF m = 0 THEN <<>> ELSE IF s[m] \in S THEN Append(g[m - 1], s[m]) ELSE g[m - 1]  OBVIOUS
  <2>1. CASE m = n  BY <2>1, <1>2, <1>3
  <2>2. CASE m # n
    <3>1. m \in 0..(n - 1) /\ (m # 0 => m - 1 \in 0..(n - 1) /\ m - 1 # n)  BY <2>2, <1>3
    <3>2. g[m] = f[m] /\ (m # 0 => g[m - 1] = f[m - 1])  BY <2>2, <3>1
    <3> HIDE DEF g
    <3> QED  BY <3>2, <1>4, <3>1 DEF IsPart
  <2> QED  BY <2>1, <2>2
<1>7. IsPart(s, S, n, g)  BY <1>6 DEF IsPart
<1> QED  BY <1>7

\* What is kept of the first n elements, and where it was.
Picked(s, S, n, k, h) ==
    /\ Len(k) <= n
    /\ h \in [1..Len(k) -> 1..n]
    /\ \A i, j \in 1..Len(k) : i < j => h[i] < h[j]
    /\ \A i \in 1..Len(k) : k[i] = s[h[i]] /\ k[i] \in S
    /\ \A m \in 1..n : s[m] \in S => \E i \in 1..Len(k) : h[i] = m

LEMMA PartIs ==
    ASSUME NEW X, NEW s \in Seq(X), NEW S, NEW f, IsPart(s, S, Len(s), f)
    PROVE  f[Len(s)] \in Seq(X) /\ \E h : Picked(s, S, Len(s), f[Len(s)], h)
<1> DEFINE Good(n) == f[n] \in Seq(X) /\ \E h : Picked(s, S, n, f[n], h)
           Bad == {n \in 0..Len(s) : ~Good(n)}
<1>1. Len(s) \in Nat /\ \A n \in 1..Len(s) : s[n] \in X  OBVIOUS
<1> SUFFICES ASSUME Bad # {} PROVE FALSE  BY <1>1
<1>2. PICK n \in Bad : \A m \in Bad : n <= m
  <2>1. Bad \subseteq Nat  BY <1>1
  <2> QED  BY <2>1, LeastIs
<1>3. n # 0
  <2>1. f[0] = <<>>  BY <1>1 DEF IsPart
  <2>2. Picked(s, S, 0, <<>>, [i \in 1..0 |-> 0]) /\ <<>> \in Seq(X)  BY DEF Picked
  <2>3. Good(0)  BY <2>1, <2>2
  <2> QED  BY <2>3
<1>4. n \in 1..Len(s) /\ n - 1 \in 0..Len(s) /\ ~(n <= n - 1) /\ n \in Nat /\ n - 1 \in Nat  BY <1>1, <1>3
<1>5. Good(n - 1)  BY <1>2, <1>4
<1>6. PICK h : Picked(s, S, n - 1, f[n - 1], h)  BY <1>5
<1>7. f[n] = IF s[n] \in S THEN Append(f[n - 1], s[n]) ELSE f[n - 1]  BY <1>3, <1>4 DEF IsPart
<1> DEFINE k == f[n - 1]
<1>8. k \in Seq(X) /\ Len(k) \in Nat  BY <1>5
<1> HIDE DEF k
<1>9. CASE s[n] \notin S
  <2>1. f[n] = k  BY <1>7, <1>9 DEF k
  <2>2. Picked(s, S, n, k, h)
    <3>1. Picked(s, S, n - 1, k, h)  BY <1>6 DEF k
    <3>2. h \in [1..Len(k) -> 1..n]  BY <3>1, <1>4 DEF Picked
    <3>3. \A m \in 1..n : m \in 1..(n - 1) \/ m = n  BY <1>4
    <3>4. Len(k) <= n  BY <3>1, <1>4, <1>8 DEF Picked
    <3> QED  BY <3>1, <3>2, <3>3, <3>4, <1>9 DEF Picked
  <2> QED  BY <2>1, <2>2, <1>8
<1>10. CASE s[n] \in S
  <2> DEFINE e == Append(k, s[n])
             g == [i \in 1..(Len(k) + 1) |-> IF i = Len(k) + 1 THEN n ELSE h[i]]
  <2>1. f[n] = e  BY <1>7, <1>10 DEF k
  <2>2. e \in Seq(X) /\ Len(e) = Len(k) + 1 /\ e[Len(k) + 1] = s[n] /\ \A i \in 1..Len(k) : e[i] = k[i]
    BY <1>1, <1>4, <1>8
  <2> HIDE DEF e
  <2>3. Picked(s, S, n - 1, k, h)  BY <1>6 DEF k
  <2>4. h \in [1..Len(k) -> 1..(n - 1)]  BY <2>3 DEF Picked
  <2>5. \A i \in 1..(Len(k) + 1) : i = Len(k) + 1 \/ (i \in 1..Len(k) /\ i # Len(k) + 1)  BY <1>8
  <2>6. g \in [1..Len(e) -> 1..n]
    <3>1. \A i \in 1..(Len(k) + 1) : g[i] \in 1..n  BY <2>4, <2>5, <1>4
    <3> QED  BY <3>1, <2>2
  <2>7. g[Len(k) + 1] = n /\ \A i \in 1..Len(k) : g[i] = h[i] /\ g[i] \in 1..(n - 1)  BY <2>4, <1>8
  <2>8. \A i \in 1..Len(k) : g[i] < n
    <3> SUFFICES ASSUME NEW i \in 1..Len(k) PROVE g[i] < n  OBVIOUS
    <3>1. g[i] \in 1..(n - 1)  BY <2>7
    <3> QED  BY <3>1, <1>4
  <2> HIDE DEF g
  <2>9. \A i, j \in 1..Len(e) : i < j => g[i] < g[j]
    <3> SUFFICES ASSUME NEW i \in 1..Len(e), NEW j \in 1..Len(e), i < j PROVE g[i] < g[j]  OBVIOUS
    <3>1. i \in 1..Len(k)  BY <2>2, <1>8
    <3>2. CASE j = Len(k) + 1  BY <3>1, <3>2, <2>7, <2>8
    <3>3. CASE j \in 1..Len(k)
      <4>1. h[i] < h[j]  BY <3>1, <3>3, <2>3 DEF Picked
      <4> QED  BY <3>1, <3>3, <2>7, <4>1
    <3> QED  BY <3>2, <3>3, <2>2, <2>5
  <2>10. \A i \in 1..Len(e) : e[i] = s[g[i]] /\ e[i] \in S
    <3> SUFFICES ASSUME NEW i \in 1..Len(e) PROVE e[i] = s[g[i]] /\ e[i] \in S  OBVIOUS
    <3>1. CASE i = Len(k) + 1  BY <3>1, <2>2, <2>7, <1>10
    <3>2. CASE i \in 1..Len(k)  BY <3>2, <2>2, <2>7, <2>3 DEF Picked
    <3> QED  BY <3>1, <3>2, <2>2, <2>5
  <2>11. \A m \in 1..n : s[m] \in S => \E i \in 1..Len(e) : g[i] = m
    <3> SUFFICES ASSUME NEW m \in 1..n, s[m] \in S PROVE \E i \in 1..Len(e) : g[i] = m  OBVIOUS
    <3>1. CASE m = n
      <4>1. Len(k) + 1 \in 1..Len(e)  BY <2>2, <1>8
      <4> QED  BY <4>1, <3>1, <2>7
    <3>2. CASE m # n
      <4>1. m \in 1..(n - 1)  BY <3>2, <1>4
      <4>2. PICK i \in 1..Len(k) : h[i] = m  BY <4>1, <2>3 DEF Picked
      <4>3. i \in 1..Len(e)  BY <2>2, <1>8
      <4> QED  BY <4>2, <4>3, <2>7
    <3> QED  BY <3>1, <3>2
  <2>12. Len(e) <= n  BY <2>2, <2>3, <1>4, <1>8 DEF Picked
  <2>13. Picked(s, S, n, e, g)  BY <2>12, <2>6, <2>9, <2>10, <2>11 DEF Picked
  <2> QED  BY <2>1, <2>2, <2>13
<1> QED  BY <1>9, <1>10

\* The elements of a sequence that are in a set, in their order.
LEMMA KeepingIs ==
    ASSUME NEW X, NEW s \in Seq(X), NEW S
    PROVE  Keeping(s, S) \in Seq(X) /\ \E h : Picked(s, S, Len(s), Keeping(s, S), h)
<1> DEFINE f == CHOOSE f : IsPart(s, S, Len(s), f)
<1>1. IsPart(s, S, Len(s), f)  BY PartExists
<1> HIDE DEF f
<1> QED  BY <1>1, PartIs DEF Keeping, IsPart

-----------------------------------------------------------------------------
\* Rows and columns.

\* A part of a sequence.
LEMMA SubSeqIs ==
    ASSUME NEW X, NEW s \in Seq(X), NEW i \in Nat, NEW j \in Nat, 1 <= i, i <= j + 1, j <= Len(s)
    PROVE  SubSeq(s, i, j) \in Seq(X) /\ Len(SubSeq(s, i, j)) = j - i + 1
           /\ \A n \in 1..(j - i + 1) : SubSeq(s, i, j)[n] = s[n + i - 1]
OBVIOUS

\* Two sequences one after the other.
LEMMA ConcatIs ==
    ASSUME NEW X, NEW a \in Seq(X), NEW b \in Seq(X)
    PROVE  a \o b \in Seq(X) /\ Len(a \o b) = Len(a) + Len(b) /\ DOMAIN (a \o b) = 1..(Len(a) + Len(b))
           /\ (\A n \in 1..Len(a) : (a \o b)[n] = a[n])
           /\ \A n \in (Len(a) + 1)..(Len(a) + Len(b)) : (a \o b)[n] = b[n - Len(a)]
OBVIOUS

\* InsertAt of a sequence: every element once, in the old order, and x.
Insertion(s, k, x, e) ==
    /\ Len(e) = Len(s) + 1 /\ DOMAIN e = 1..Len(e)
    /\ e[k] = x
    /\ \A n \in DOMAIN s : e[IF n < k THEN n ELSE n + 1] = s[n]
    /\ \A m \in DOMAIN e : m = k \/ (m < k /\ m \in DOMAIN s /\ e[m] = s[m])
                                  \/ (m > k /\ m - 1 \in DOMAIN s /\ e[m] = s[m - 1])

\* InsertAt moves what follows by one.
LEMMA InsertAtIs ==
    ASSUME NEW X, NEW s \in Seq(X), NEW k \in 1..(Len(s) + 1), NEW x \in X
    PROVE  InsertAt(s, k, x) \in Seq(X) /\ Insertion(s, k, x, InsertAt(s, k, x))
<1> DEFINE a == SubSeq(s, 1, k - 1)
           b == SubSeq(s, k, Len(s))
           c == <<x>>
           ac == a \o c
           e == ac \o b
<1>1. DOMAIN s = 1..Len(s) /\ Len(s) \in Nat /\ k \in Nat /\ k - 1 \in Nat /\ 1 <= k /\ k <= Len(s) + 1  OBVIOUS
<1>2. a \in Seq(X) /\ Len(a) = k - 1 /\ \A n \in 1..(k - 1) : a[n] = s[n]  BY <1>1, SubSeqIs
<1>3. b \in Seq(X) /\ Len(b) = Len(s) - k + 1 /\ \A n \in 1..(Len(s) - k + 1) : b[n] = s[n + k - 1]  BY <1>1, SubSeqIs
<1>4. c \in Seq(X) /\ Len(c) = 1 /\ c[1] = x  OBVIOUS
<1> HIDE DEF a, b, c
<1>5. ac \in Seq(X) /\ Len(ac) = k /\ ac[k] = x /\ \A n \in 1..(k - 1) : ac[n] = s[n]
  <2>1. /\ ac \in Seq(X) /\ Len(ac) = Len(a) + Len(c)
        /\ \A n \in 1..Len(a) : ac[n] = a[n]
        /\ \A n \in (Len(a) + 1)..(Len(a) + Len(c)) : ac[n] = c[n - Len(a)]  BY <1>2, <1>4, ConcatIs
  <2> HIDE DEF ac
  <2>2. Len(a) = k - 1 /\ Len(c) = 1 /\ Len(a) + Len(c) = k /\ k \in (Len(a) + 1)..(Len(a) + Len(c))
    BY <1>1, <1>2, <1>4
  <2>3. k - Len(a) = 1  BY <1>1, <2>2
  <2>4. ac[k] = x  BY <2>1, <2>2, <2>3, <1>4
  <2>5. \A n \in 1..(k - 1) : ac[n] = s[n]  BY <2>1, <2>2, <1>2
  <2> QED  BY <2>1, <2>2, <2>4, <2>5
<1> HIDE DEF ac
<1>6. /\ e \in Seq(X) /\ Len(e) = Len(ac) + Len(b) /\ DOMAIN e = 1..(Len(ac) + Len(b))
      /\ \A n \in 1..Len(ac) : e[n] = ac[n]
      /\ \A n \in (Len(ac) + 1)..(Len(ac) + Len(b)) : e[n] = b[n - Len(ac)]  BY <1>5, <1>3, ConcatIs
<1> HIDE DEF e
<1>7. Len(e) = Len(s) + 1 /\ DOMAIN e = 1..Len(e)  BY <1>1, <1>3, <1>5, <1>6
<1>8. \A n \in 1..(k - 1) : e[n] = s[n]  BY <1>1, <1>5, <1>6
<1>9. \A n \in (k + 1)..Len(e) : e[n] = s[n - 1]
  <2> TAKE n \in (k + 1)..Len(e)
  <2>1. e[n] = b[n - k]  BY <1>1, <1>3, <1>5, <1>6, <1>7
  <2>2. n - k \in 1..(Len(s) - k + 1) /\ n - k + k - 1 = n - 1  BY <1>1, <1>7
  <2> QED  BY <2>1, <2>2, <1>3
<1>10. InsertAt(s, k, x) = e  BY DEF InsertAt, e, ac, a, b, c
<1>11. e[k] = x  BY <1>1, <1>5, <1>6
<1>12. \A n \in DOMAIN s : e[IF n < k THEN n ELSE n + 1] = s[n]  BY <1>1, <1>7, <1>8, <1>9
<1>13. \A m \in DOMAIN e : m = k \/ (m < k /\ m \in DOMAIN s /\ e[m] = s[m])
                                  \/ (m > k /\ m - 1 \in DOMAIN s /\ e[m] = s[m - 1])
  BY <1>1, <1>7, <1>8, <1>9
<1> QED  BY <1>6, <1>7, <1>10, <1>11, <1>12, <1>13 DEF Insertion

\* RemoveAt of a sequence: every element but one, in the old order.
Without(s, k, e) ==
    /\ Len(e) = Len(s) - 1 /\ DOMAIN e = 1..Len(e)
    /\ \A n \in DOMAIN e : e[n] = s[IF n < k THEN n ELSE n + 1]
    /\ \A m \in DOMAIN s : m = k \/ (m < k /\ m \in DOMAIN e /\ e[m] = s[m])
                                  \/ (m > k /\ m - 1 \in DOMAIN e /\ e[m - 1] = s[m])

\* RemoveAt closes the gap.
LEMMA RemoveAtIs ==
    ASSUME NEW X, NEW s \in Seq(X), NEW k \in 1..Len(s)
    PROVE  RemoveAt(s, k) \in Seq(X) /\ Without(s, k, RemoveAt(s, k))
<1> DEFINE a == SubSeq(s, 1, k - 1)
           b == SubSeq(s, k + 1, Len(s))
           e == a \o b
<1>1. DOMAIN s = 1..Len(s) /\ Len(s) \in Nat /\ k \in Nat /\ k - 1 \in Nat /\ 1 <= k /\ k <= Len(s)  OBVIOUS
<1>2. a \in Seq(X) /\ Len(a) = k - 1 /\ \A n \in 1..(k - 1) : a[n] = s[n]
  <2>1. a \in Seq(X) /\ Len(a) = (k - 1) - 1 + 1 /\ \A n \in 1..((k - 1) - 1 + 1) : a[n] = s[n + 1 - 1]
    BY <1>1, SubSeqIs
  <2> HIDE DEF a
  <2> QED  BY <2>1, <1>1
<1>3. b \in Seq(X) /\ Len(b) = Len(s) - k /\ \A n \in 1..(Len(s) - k) : b[n] = s[n + k]
  <2>1. b \in Seq(X) /\ Len(b) = Len(s) - (k + 1) + 1
        /\ \A n \in 1..(Len(s) - (k + 1) + 1) : b[n] = s[n + (k + 1) - 1]
    <3>1. k + 1 \in Nat /\ 1 <= k + 1 /\ k + 1 <= Len(s) + 1 /\ Len(s) <= Len(s)  BY <1>1
    <3> QED  BY <3>1, <1>1, SubSeqIs
  <2> HIDE DEF b
  <2>2. Len(s) - (k + 1) + 1 = Len(s) - k  BY <1>1
  <2>3. \A n \in 1..(Len(s) - k) : n + (k + 1) - 1 = n + k  BY <1>1
  <2> QED  BY <2>1, <2>2, <2>3
<1> HIDE DEF a, b
<1>4. /\ e \in Seq(X) /\ Len(e) = Len(a) + Len(b) /\ DOMAIN e = 1..(Len(a) + Len(b))
      /\ \A n \in 1..Len(a) : e[n] = a[n]
      /\ \A n \in (Len(a) + 1)..(Len(a) + Len(b)) : e[n] = b[n - Len(a)]
  <2>1. a \in Seq(X) /\ b \in Seq(X)  BY <1>2, <1>3
  <2> QED  BY <2>1, ConcatIs
<1> HIDE DEF e
<1>5. Len(e) = Len(s) - 1 /\ DOMAIN e = 1..Len(e)  BY <1>1, <1>2, <1>3, <1>4
<1>6. \A n \in 1..(k - 1) : e[n] = s[n]  BY <1>1, <1>2, <1>4
<1>7. \A n \in k..Len(e) : e[n] = s[n + 1]
  <2> TAKE n \in k..Len(e)
  <2>1. e[n] = b[n - (k - 1)]  BY <1>1, <1>2, <1>3, <1>4, <1>5
  <2>2. n - (k - 1) \in 1..(Len(s) - k) /\ n - (k - 1) + k = n + 1  BY <1>1, <1>5
  <2> QED  BY <2>1, <2>2, <1>3
<1>8. RemoveAt(s, k) = e  BY DEF RemoveAt, e, a, b
<1>9. \A n \in DOMAIN e : e[n] = s[IF n < k THEN n ELSE n + 1]  BY <1>1, <1>5, <1>6, <1>7
<1>10. \A m \in DOMAIN s : m = k \/ (m < k /\ m \in DOMAIN e /\ e[m] = s[m])
                                  \/ (m > k /\ m - 1 \in DOMAIN e /\ e[m - 1] = s[m])  BY <1>1, <1>5, <1>6, <1>7
<1> QED  BY <1>4, <1>5, <1>8, <1>9, <1>10 DEF Without

\* An item that is put into a sequence that has every item once.
LEMMA InsertedIs ==
    ASSUME NEW X, NEW s \in Seq(X), NEW k \in 1..(Len(s) + 1), NEW x \in X, x \notin ToSet(s), IsInjective(s)
    PROVE  /\ InsertAt(s, k, x) \in Seq(X) /\ IsInjective(InsertAt(s, k, x))
           /\ ToSet(InsertAt(s, k, x)) = ToSet(s) \union {x}
<1> DEFINE e == InsertAt(s, k, x)
<1>1. DOMAIN s = 1..Len(s) /\ Len(s) \in Nat /\ k \in Nat  OBVIOUS
<1>2. k \in 1..(Len(s) + 1)  OBVIOUS
<1>3. e \in Seq(X) /\ Insertion(s, k, x, e)  BY InsertAtIs
<1> HIDE DEF e
<1>4. Len(e) = Len(s) + 1 /\ DOMAIN e = 1..Len(e) /\ e[k] = x /\ k \in DOMAIN e  BY <1>1, <1>3 DEF Insertion
<1>5. \A n \in DOMAIN s : \E m \in DOMAIN e : e[m] = s[n]
  <2> SUFFICES ASSUME NEW n \in DOMAIN s PROVE \E m \in DOMAIN e : e[m] = s[n]  OBVIOUS
  <2>1. CASE n < k  BY <2>1, <1>1, <1>3, <1>4 DEF Insertion
  <2>2. CASE ~(n < k)
    <3>1. n + 1 \in DOMAIN e /\ e[n + 1] = s[n]  BY <2>2, <1>1, <1>3, <1>4 DEF Insertion
    <3> QED  BY <3>1
  <2> QED  BY <2>1, <2>2
<1>6. \A m \in DOMAIN e : m # k => \/ m < k /\ m \in DOMAIN s /\ e[m] = s[m]
                                   \/ m > k /\ m - 1 \in DOMAIN s /\ e[m] = s[m - 1]  BY <1>3 DEF Insertion
<1>7. \A m \in DOMAIN e : m # k => e[m] # x  BY <1>6 DEF ToSet
<1>8. IsInjective(e)
  <2> SUFFICES ASSUME NEW m \in DOMAIN e, NEW n \in DOMAIN e, e[m] = e[n] PROVE m = n  BY DEF IsInjective
  <2>1. CASE m = k  BY <2>1, <1>4, <1>7
  <2>2. CASE n = k  BY <2>2, <1>4, <1>7
  <2>3. CASE m # k /\ n # k  BY <1>1, <1>2, <1>4, <1>6, <2>3 DEF IsInjective
  <2> QED  BY <2>1, <2>2, <2>3
<1> QED  BY <1>3, <1>8, <1>5, <1>4, <1>6 DEF e, ToSet

\* What RemoveAt does to a sequence that has every item once.
LEMMA RemovedIs ==
    ASSUME NEW X, NEW s \in Seq(X), NEW k \in 1..Len(s), IsInjective(s)
    PROVE  /\ RemoveAt(s, k) \in Seq(X) /\ Len(RemoveAt(s, k)) = Len(s) - 1
           /\ s[k] \in ToSet(s) /\ s[k] \in X
           /\ ToSet(RemoveAt(s, k)) = ToSet(s) \ {s[k]}
           /\ IsInjective(RemoveAt(s, k))
<1> DEFINE e == RemoveAt(s, k)
           x == s[k]
<1>1. DOMAIN s = 1..Len(s) /\ Len(s) \in Nat /\ k \in DOMAIN s /\ k \in Nat  OBVIOUS
<1>2. x \in X /\ x \in ToSet(s)  BY <1>1 DEF ToSet
<1>3. e \in Seq(X) /\ Without(s, k, e)  BY RemoveAtIs
<1>4. s[k] = x  OBVIOUS
<1>5. \A p, q \in DOMAIN s : s[p] = s[q] => p = q  BY DEF IsInjective
<1> HIDE DEF e, x
<1>6. Len(e) = Len(s) - 1 /\ DOMAIN e = 1..Len(e)  BY <1>3 DEF Without
<1>7. \A n \in DOMAIN e : (n < k => n \in DOMAIN s /\ e[n] = s[n]) /\ (~(n < k) => n + 1 \in DOMAIN s /\ e[n] = s[n + 1])
  BY <1>1, <1>3, <1>6 DEF Without
<1>8. \A n \in DOMAIN e : e[n] # x  BY <1>1, <1>6, <1>7, <1>5, <1>4
<1>9. ToSet(e) = ToSet(s) \ {x}  BY <1>7, <1>8, <1>4, <1>3 DEF ToSet, Without
<1>10. IsInjective(e)
  <2> SUFFICES ASSUME NEW m \in DOMAIN e, NEW n \in DOMAIN e, e[m] = e[n] PROVE m = n  BY DEF IsInjective
  <2>1. CASE m < k /\ n < k  BY <2>1, <1>7, <1>5
  <2>2. CASE m < k /\ ~(n < k)  BY <2>2, <1>7, <1>5, <1>1, <1>6
  <2>3. CASE ~(m < k) /\ n < k  BY <2>3, <1>7, <1>5, <1>1, <1>6
  <2>4. CASE ~(m < k) /\ ~(n < k)  BY <2>4, <1>7, <1>5, <1>1, <1>6
  <2> QED  BY <2>1, <2>2, <2>3, <2>4
<1> QED  BY <1>2, <1>3, <1>6, <1>9, <1>10 DEF e, x

-----------------------------------------------------------------------------
\* Columns: whatever an edit does to the rows of a column, every row is
\* there once and none is empty.

Row == [ts : Nat, evs : Seq(Events)]
FullRow == [ts : Nat, evs : Seq(Events) \ {<<>>}]
RowsOnce(v) == \A i, j \in DOMAIN v : v[i].ts = v[j].ts => i = j
AnyRows(v) == v \in Seq(Row) /\ RowsOnce(v)

LEMMA RowsAre == \A v : IsRows(v) <=> v \in Seq(FullRow) /\ RowsOnce(v)
  BY DEF IsRows, Rows, FullRow, RowsOnce

LEMMA RowsAreAny == \A v : IsRows(v) => AnyRows(v)
<1> SUFFICES ASSUME NEW v, IsRows(v) PROVE v \in Seq(Row)  BY RowsAre DEF AnyRows
<1>1. FullRow \subseteq Row  BY DEF FullRow, Row
<1> QED  BY <1>1, RowsAre

\* Rows that are left out leave the others as they are.
LEMMA KeepingOnce == ASSUME NEW X, NEW v \in Seq(X), NEW S, RowsOnce(v) PROVE Keeping(v, S) \in Seq(X) /\ RowsOnce(Keeping(v, S))
<1> DEFINE k == Keeping(v, S)
<1>1. k \in Seq(X) /\ \E h : Picked(v, S, Len(v), k, h)  BY KeepingIs
<1> HIDE DEF k
<1>2. PICK h : Picked(v, S, Len(v), k, h)  BY <1>1
<1>3. DOMAIN k = 1..Len(k) /\ Len(k) \in Nat /\ DOMAIN v = 1..Len(v)  BY <1>1
<1>4. RowsOnce(k)
  <2> SUFFICES ASSUME NEW i \in DOMAIN k, NEW j \in DOMAIN k, k[i].ts = k[j].ts PROVE i = j  BY DEF RowsOnce
  <2>1. h[i] \in DOMAIN v /\ h[j] \in DOMAIN v /\ k[i] = v[h[i]] /\ k[j] = v[h[j]]  BY <1>2, <1>3 DEF Picked
  <2>2. h[i] = h[j]  BY <2>1 DEF RowsOnce
  <2>3. ~(i < j) /\ ~(j < i)
    <3>1. \A a, b \in 1..Len(k) : a < b => h[a] < h[b]  BY <1>2 DEF Picked
    <3>2. h[i] \in Nat /\ ~(h[i] < h[i])  BY <2>1, <1>3
    <3> QED  BY <3>1, <3>2, <2>2, <1>3
  <2> QED  BY <2>3, <1>3
<1> QED  BY <1>1, <1>4 DEF k

LEMMA WithoutRowsIs == ASSUME NEW v, IsRows(v), NEW T PROVE IsRows(WithoutRows(v, T))
BY RowsAre, KeepingOnce DEF WithoutRows

LEMMA RawDataIs == ASSUME NEW v, AnyRows(v) PROVE IsRows(RawData(v))
<1> DEFINE S == {r \in ToSet(v) : r.evs # <<>>}
           k == Keeping(v, S)
<1>1. v \in Seq(Row) /\ RowsOnce(v)  BY DEF AnyRows
<1>2. k \in Seq(Row) /\ RowsOnce(k)  BY <1>1, KeepingOnce
<1>3. \A i \in 1..Len(k) : k[i] \in S  BY <1>1, KeepingIs DEF Picked
<1> HIDE DEF k
<1>4. \A i \in 1..Len(k) : k[i] \in FullRow
  <2> SUFFICES ASSUME NEW i \in 1..Len(k) PROVE k[i] \in FullRow  OBVIOUS
  <2>1. k[i] \in Row /\ k[i].evs # <<>>  BY <1>2, <1>3
  <2> QED  BY <2>1 DEF Row, FullRow
<1> QED  BY <1>2, RowsAre, <1>4 DEF RawData, k

LEMMA HasRowIs == \A v, ts : HasRow(v, ts) <=> \E i \in DOMAIN v : v[i].ts = ts
  BY DEF HasRow, RowIndices

LEMMA RowAtIs == ASSUME NEW v, AnyRows(v), NEW ts, HasRow(v, ts) PROVE RowAt(v, ts) \in Seq(Events) /\ Len(RowAt(v, ts)) \in Nat
<1>1. PICK i \in DOMAIN v : RowAt(v, ts) = v[i].evs
  <2> DEFINE c == CHOOSE i \in RowIndices(v, ts) : TRUE
  <2>1. c \in RowIndices(v, ts)  BY DEF HasRow, RowIndices
  <2>2. RowAt(v, ts) = v[c].evs  BY DEF RowAt
  <2> HIDE DEF c
  <2> QED  BY <2>2, <2>1 DEF RowIndices
<1>2. v[i] \in Row  BY DEF AnyRows
<1> QED  BY <1>1, <1>2 DEF Row

LEMMA RowOrEmptyIs == ASSUME NEW v, AnyRows(v), NEW ts PROVE RowOrEmpty(v, ts) \in Seq(Events)
  BY RowAtIs DEF RowOrEmpty

LEMMA WithRowIs ==
    ASSUME NEW v, AnyRows(v), NEW ts \in Nat, NEW evs \in Seq(Events) PROVE AnyRows(WithRow(v, ts, evs))
<1>1. v \in Seq(Row) /\ RowsOnce(v)  BY DEF AnyRows
<1>2. DOMAIN v = 1..Len(v) /\ Len(v) \in Nat  BY <1>1
<1>3. CASE HasRow(v, ts)
  <2> DEFINE new(i) == [v[i] EXCEPT !.evs = evs]
             w == [i \in DOMAIN v |-> IF v[i].ts = ts THEN new(i) ELSE v[i]]
  <2>1. \A i \in DOMAIN v : new(i) \in Row /\ new(i).ts = v[i].ts
    <3> SUFFICES ASSUME NEW i \in DOMAIN v PROVE new(i) \in Row /\ new(i).ts = v[i].ts  OBVIOUS
    <3>1. v[i] \in Row  BY <1>1, <1>2
    <3> QED  BY <3>1 DEF Row
  <2> HIDE DEF new
  <2>2. \A i \in DOMAIN v : w[i] \in Row /\ w[i].ts = v[i].ts  BY <2>1, <1>1
  <2>3. DOMAIN w = 1..Len(v)  BY <1>2
  <2>4. WithRow(v, ts, evs) = w  BY <1>3 DEF WithRow, new
  <2>5. w \in [1..Len(v) -> Row]  BY <2>2, <1>2
  <2> HIDE DEF w
  <2>6. RowsOnce(w)  BY <2>2, <2>3, <1>1, <1>2 DEF RowsOnce
  <2> QED  BY <2>4, <2>6, <2>5, <1>2 DEF AnyRows
<1>4. CASE ~HasRow(v, ts)
  <2> DEFINE r == [ts |-> ts, evs |-> evs]
             w == Append(v, r)
  <2>1. r \in Row /\ r.ts = ts  BY DEF Row
  <2> HIDE DEF r
  <2>2. w \in Seq(Row) /\ DOMAIN w = 1..(Len(v) + 1) /\ w[Len(v) + 1] = r /\ \A i \in 1..Len(v) : w[i] = v[i]
    BY <1>1, <2>1
  <2>3. WithRow(v, ts, evs) = w  BY <1>4 DEF WithRow, r
  <2> HIDE DEF w
  <2>4. \A i \in 1..Len(v) : w[i].ts # ts  BY <1>2, <1>4, <2>2, HasRowIs
  <2>5. RowsOnce(w)
    <3> SUFFICES ASSUME NEW i \in DOMAIN w, NEW j \in DOMAIN w, w[i].ts = w[j].ts PROVE i = j  BY DEF RowsOnce
    <3>1. CASE i \in 1..Len(v) /\ j \in 1..Len(v)  BY <3>1, <1>1, <1>2, <2>2 DEF RowsOnce
    <3>2. CASE i = Len(v) + 1 /\ j = Len(v) + 1  BY <3>2
    <3>3. CASE i = Len(v) + 1 /\ j \in 1..Len(v)  BY <3>3, <2>1, <2>2, <2>4
    <3>4. CASE i \in 1..Len(v) /\ j = Len(v) + 1  BY <3>4, <2>1, <2>2, <2>4
    <3> QED  BY <3>1, <3>2, <3>3, <3>4, <2>2, <1>2
  <2> QED  BY <2>2, <2>3, <2>5 DEF AnyRows
<1> QED  BY <1>3, <1>4

LEMMA ClampIs == \A i, n \in Nat : Clamp(i, n) \in 0..n /\ Clamp(i, n) <= i
BY DEF Clamp

\* A slice assignment.
LEMMA SpliceIs ==
    ASSUME NEW X, NEW evs \in Seq(X), NEW start \in Nat, NEW stop \in Nat, NEW new \in Seq(X)
    PROVE  Splice(evs, start, stop, new) \in Seq(X)
<1> DEFINE a == Clamp(start, Len(evs))
           b == Clamp(IF stop < start THEN start ELSE stop, Len(evs))
           front == SubSeq(evs, 1, a)
           back == SubSeq(evs, b + 1, Len(evs))
<1>1. Len(evs) \in Nat  OBVIOUS
<1>2. a \in 0..Len(evs) /\ b \in 0..Len(evs)  BY <1>1, ClampIs
<1>3. Splice(evs, start, stop, new) = front \o new \o back  BY DEF Splice, Rest
<1> HIDE DEF a, b
<1>4. front \in Seq(X)  BY <1>1, <1>2, SubSeqIs
<1>5. back \in Seq(X)  BY <1>1, <1>2, SubSeqIs
<1> HIDE DEF front, back
<1> QED  BY <1>3, <1>5, <1>4

LEMMA SliceIs == ASSUME NEW X, NEW evs \in Seq(X), NEW start \in Nat, NEW stop \in Nat PROVE Slice(evs, start, stop) \in Seq(X)
<1> DEFINE a == Clamp(start, Len(evs))
           b == Clamp(stop, Len(evs))
<1>1. Len(evs) \in Nat  OBVIOUS
<1>2. a \in 0..Len(evs) /\ b \in 0..Len(evs)  BY <1>1, ClampIs
<1>3. Slice(evs, start, stop) = SubSeq(evs, a + 1, b)  BY DEF Slice
<1> HIDE DEF a, b
<1>4. CASE a <= b  BY <1>1, <1>2, <1>4, <1>3, SubSeqIs
<1>5. CASE ~(a <= b)  BY <1>1, <1>2, <1>5, <1>3
<1> QED  BY <1>4, <1>5

\* The row that is set is there.
LEMMA WithRowHas ==
    ASSUME NEW v, AnyRows(v), NEW ts \in Nat, NEW evs \in Seq(Events)
    PROVE  \E i \in DOMAIN WithRow(v, ts, evs) : WithRow(v, ts, evs)[i].ts = ts /\ WithRow(v, ts, evs)[i].evs = evs
<1>1. v \in Seq(Row) /\ DOMAIN v = 1..Len(v) /\ Len(v) \in Nat  BY DEF AnyRows
<1>2. CASE HasRow(v, ts)
  <2> DEFINE w == [i \in DOMAIN v |-> IF v[i].ts = ts THEN [v[i] EXCEPT !.evs = evs] ELSE v[i]]
  <2>1. PICK i \in DOMAIN v : v[i].ts = ts  BY <1>2, HasRowIs
  <2>2. v[i] \in [ts : Nat, evs : Seq(Events)]
    <3>1. v[i] \in Row  BY <1>1
    <3> QED  BY <3>1 DEF Row
  <2>3. i \in DOMAIN w /\ w[i] = [v[i] EXCEPT !.evs = evs]  BY <2>1
  <2> HIDE DEF w
  <2> QED  BY <2>3, <1>2, <2>1, <2>2 DEF WithRow
<1>3. CASE ~HasRow(v, ts)
  <2> DEFINE r == [ts |-> ts, evs |-> evs]
             w == Append(v, r)
  <2>1. r \in Row /\ r.ts = ts /\ r.evs = evs  BY DEF Row
  <2> HIDE DEF r
  <2>2. w[Len(v) + 1] = r /\ Len(v) + 1 \in DOMAIN w  BY <1>1, <2>1
  <2> HIDE DEF w
  <2> QED  BY <2>1, <2>2, <1>3 DEF WithRow
<1> QED  BY <1>2, <1>3

\* A row that has triggers is stored.
LEMMA RawDataHas == ASSUME NEW v, AnyRows(v), NEW i \in DOMAIN v, v[i].evs # <<>> PROVE HasRow(RawData(v), v[i].ts)
<1> DEFINE S == {r \in ToSet(v) : r.evs # <<>>}
           k == Keeping(v, S)
<1>1. v \in Seq(Row) /\ DOMAIN v = 1..Len(v)  BY DEF AnyRows
<1>2. k \in Seq(Row) /\ \E h : Picked(v, S, Len(v), k, h)  BY <1>1, KeepingIs
<1>3. v[i] \in S  BY DEF ToSet
<1>4. RawData(v) = k  BY DEF RawData
<1> HIDE DEF k, S
<1>5. PICK h : Picked(v, S, Len(v), k, h)  BY <1>2
<1>6. PICK j \in 1..Len(k) : h[j] = i  BY <1>1, <1>3, <1>5 DEF Picked
<1>7. k[j] = v[i]  BY <1>5, <1>6 DEF Picked
<1>8. j \in DOMAIN k  BY <1>2, <1>6
<1> QED  BY <1>4, <1>7, <1>8, HasRowIs

LEMMA SpliceHas ==
    ASSUME NEW X, NEW evs \in Seq(X), NEW start \in Nat, NEW stop \in Nat, NEW x \in X
    PROVE  Splice(evs, start, stop, <<x>>) # <<>>
<1> DEFINE a == Clamp(start, Len(evs))
           b == Clamp(IF stop < start THEN start ELSE stop, Len(evs))
           front == SubSeq(evs, 1, a)
           back == SubSeq(evs, b + 1, Len(evs))
           new == <<x>>
<1>1. Len(evs) \in Nat  OBVIOUS
<1>2. a \in 0..Len(evs) /\ b \in 0..Len(evs)  BY <1>1, ClampIs
<1> HIDE DEF a, b
<1>3. front \in Seq(X) /\ Len(front) \in Nat  BY SubSeqIs, <1>1, <1>2
<1>4. back \in Seq(X) /\ Len(back) \in Nat  BY <1>1, SubSeqIs, <1>2
<1>5. new \in Seq(X) /\ Len(new) = 1  OBVIOUS
<1> HIDE DEF front, back, new
<1> DEFINE begun == front \o new
           all == begun \o back
<1> HIDE DEF begun
<1> HIDE DEF all
<1> QED  BY <1>3, <1>4, <1>5, ConcatIs DEF Splice, Rest, all, begun

\* What the edits of a column make of it.
LEMMA WithRowStored ==
    ASSUME NEW v, AnyRows(v), NEW ts \in Nat, NEW evs \in Seq(Events)
    PROVE  IsRows(RawData(WithRow(v, ts, evs))) /\ (evs # <<>> => HasRow(RawData(WithRow(v, ts, evs)), ts))
<1> DEFINE w == WithRow(v, ts, evs)
<1>1. AnyRows(w)  BY WithRowIs
<1>2. \E i \in DOMAIN w : w[i].ts = ts /\ w[i].evs = evs  BY WithRowHas
<1> HIDE DEF w
<1>3. ASSUME evs # <<>> PROVE HasRow(RawData(w), ts)
  <2>1. PICK i \in DOMAIN w : w[i].ts = ts /\ w[i].evs = evs  BY <1>2
  <2> QED  BY <2>1, <1>1, RawDataHas, <1>3
<1> QED  BY <1>3, <1>1, RawDataIs DEF w

LEMMA InsertSliceIs ==
    ASSUME NEW v, IsRows(v), NEW ts \in Nat, NEW index \in Nat, NEW evs \in Seq(Events)
    PROVE  IsRows(EditInsertSlice(v, ts, index, evs))
<1> DEFINE new == Splice(RowOrEmpty(v, ts), index, index, evs)
<1> HIDE DEF new
<1> QED  BY WithRowStored, SpliceIs, RowOrEmptyIs, RowsAreAny DEF EditInsertSlice, new

LEMMA InsertIs ==
    ASSUME NEW v, IsRows(v), NEW ts \in Nat, NEW index \in Nat, NEW ev \in Events
    PROVE  IsRows(EditInsert(v, ts, index, ev)) /\ HasRow(EditInsert(v, ts, index, ev), ts)
<1> DEFINE new == Splice(RowOrEmpty(v, ts), index, index, <<ev>>)
<1>1. <<ev>> \in Seq(Events)  OBVIOUS
<1> HIDE DEF new
<1> QED  BY WithRowStored, <1>1, SpliceIs, SpliceHas, RowOrEmptyIs, RowsAreAny DEF EditInsert, EditInsertSlice, new

LEMMA ReplaceAtIs ==
    ASSUME NEW X, NEW s \in Seq(X), NEW n, NEW x \in X, s # <<>>
    PROVE  ReplaceAt(s, n, x) \in Seq(X) /\ ReplaceAt(s, n, x) # <<>>
<1> DEFINE e == [s EXCEPT ![n] = x]
<1>1. DOMAIN e = DOMAIN s /\ DOMAIN s = 1..Len(s) /\ Len(s) \in Nat /\ \A i \in DOMAIN s : e[i] \in X  OBVIOUS
<1>2. e \in [1..Len(s) -> X]  BY <1>1
<1> HIDE DEF e
<1> QED  BY <1>1, <1>2 DEF ReplaceAt, e

LEMMA ReplaceOrInsertIs ==
    ASSUME NEW v, IsRows(v), NEW ts \in Nat, NEW index \in Nat, NEW ev \in Events
    PROVE  IsRows(EditReplaceOrInsert(v, ts, index, ev)) /\ HasRow(EditReplaceOrInsert(v, ts, index, ev), ts)
<1>1. AnyRows(v)  BY RowsAreAny
<1>2. CASE HasTrigger(v, ts, index)
  <2> DEFINE row == RowAt(v, ts)
             new == ReplaceAt(row, index + 1, ev)
  <2>1. HasRow(v, ts) /\ index < Len(row)  BY <1>2 DEF HasTrigger, CountAt
  <2> HIDE DEF row
  <2> HIDE DEF new
  <2> QED  BY <1>2, <1>1, WithRowStored, ReplaceAtIs, <2>1, RowAtIs DEF EditReplaceOrInsert, new, row
<1>3. CASE ~HasTrigger(v, ts, index)  BY <1>3, InsertIs DEF EditReplaceOrInsert
<1> QED  BY <1>2, <1>3

LEMMA ReplaceSliceIs ==
    ASSUME NEW v, IsRows(v), NEW ts \in Nat, HasRow(v, ts), NEW start \in Nat, NEW stop \in Nat, NEW evs \in Seq(Events)
    PROVE  IsRows(EditReplaceSlice(v, ts, start, stop, evs))
<1> DEFINE new == Splice(RowAt(v, ts), start, stop, evs)
<1>1. AnyRows(v)  BY RowsAreAny
<1>2. new \in Seq(Events)  BY SpliceIs, <1>1, RowAtIs
<1> HIDE DEF new
<1> QED  BY <1>1, <1>2, WithRowStored DEF EditReplaceSlice, new

LEMMA RemoveIs ==
    ASSUME NEW v, IsRows(v), NEW ts \in Nat, HasRow(v, ts), NEW index \in Nat PROVE IsRows(EditRemove(v, ts, index))
<1>1. <<>> \in Seq(Events) /\ index + 1 \in Nat  OBVIOUS
<1> QED  BY <1>1, ReplaceSliceIs DEF EditRemove, EditReplaceSlice

LEMMA WithoutStored == ASSUME NEW v, IsRows(v), NEW T PROVE IsRows(RawData(WithoutRows(v, T)))
  BY WithoutRowsIs, RowsAreAny, RawDataIs

LEMMA RemoveSliceIs ==
    ASSUME NEW v, IsRows(v), NEW ts \in Nat, HasRow(v, ts), NEW start \in Nat, NEW stop \in Nat
    PROVE  IsRows(EditRemoveSlice(v, ts, start, stop))
<1>1. <<>> \in Seq(Events)  OBVIOUS
<1> QED  BY <1>1, ReplaceSliceIs, WithoutStored DEF EditRemoveSlice, EditReplaceSlice

LEMMA RemoveRowsIs == ASSUME NEW v, IsRows(v), NEW start, NEW stop PROVE IsRows(EditRemoveRows(v, start, stop))
  BY WithoutStored DEF EditRemoveRows

\* The rows that are copied.
LEMMA RowsInRangeIs ==
    ASSUME NEW v, IsRows(v), NEW start \in Nat, NEW stop \in Nat PROVE RowsInRange(v, start, stop) \in Seq(Row)
<1> DEFINE S == {r \in ToSet(v) : start <= r.ts /\ r.ts < stop}
           cut == Keeping(v, S)
           w == [i \in DOMAIN cut |-> [ts |-> cut[i].ts - start, evs |-> cut[i].evs]]
<1>1. cut \in Seq(Row) /\ \E h : Picked(v, S, Len(v), cut, h)  BY KeepingIs, RowsAreAny DEF AnyRows
<1>2. RowsInRange(v, start, stop) = w  BY DEF RowsInRange
<1> HIDE DEF cut
<1>3. DOMAIN cut = 1..Len(cut) /\ Len(cut) \in Nat  BY <1>1
<1>4. \A i \in 1..Len(cut) : w[i] \in Row
  <2> SUFFICES ASSUME NEW i \in 1..Len(cut) PROVE w[i] \in Row  OBVIOUS
  <2>1. cut[i] \in Row /\ start <= cut[i].ts  BY <1>1, <1>3 DEF Picked
  <2>2. w[i] = [ts |-> cut[i].ts - start, evs |-> cut[i].evs]  BY <1>3
  <2> HIDE DEF w
  <2> QED  BY <2>2, <2>1 DEF Row
<1>5. w \in [1..Len(cut) -> Row]  BY <1>3, <1>4
<1> HIDE DEF w
<1> QED  BY <1>2, <1>3, <1>5

\* The function that EditReplaceRows builds: the column with the first n
\* of the new rows.
IsPasted(v, fits, n, f) ==
    f = [m \in 0..n |-> IF m = 0 THEN v ELSE WithRow(f[m - 1], fits[m].ts, fits[m].evs)]

LEMMA PastedExists == ASSUME NEW v, NEW fits, NEW k \in Nat PROVE \E f : IsPasted(v, fits, k, f)
<1> DEFINE Bad == {n \in Nat : ~ \E f : IsPasted(v, fits, n, f)}
<1> SUFFICES ASSUME Bad # {} PROVE FALSE  OBVIOUS
<1>1. PICK n \in Bad : \A m \in Bad : n <= m  BY LeastIs
<1>2. n # 0
  <2>1. IsPasted(v, fits, 0, [m \in 0..0 |-> v])  BY DEF IsPasted
  <2> QED  BY <2>1
<1>3. n \in Nat /\ n - 1 \in Nat /\ ~(n <= n - 1)  BY <1>2
<1>4. PICK f : IsPasted(v, fits, n - 1, f)  BY <1>3, <1>1
<1> DEFINE last == WithRow(f[n - 1], fits[n].ts, fits[n].evs)
           g == [m \in 0..n |-> IF m = n THEN last ELSE f[m]]
<1>5. \A m \in 0..n : g[m] = IF m = 0 THEN v ELSE WithRow(g[m - 1], fits[m].ts, fits[m].evs)
  <2> SUFFICES ASSUME NEW m \in 0..n PROVE g[m] = IF m = 0 THEN v ELSE WithRow(g[m - 1], fits[m].ts, fits[m].evs)
    OBVIOUS
  <2>1. CASE m = n  BY <1>3, <2>1, <1>2
  <2>2. CASE m # n  BY <2>2, <1>3, <1>4 DEF IsPasted
  <2> QED  BY <2>1, <2>2
<1>6. IsPasted(v, fits, n, g)  BY <1>5 DEF IsPasted
<1> QED  BY <1>6

LEMMA PastedIs ==
    ASSUME NEW v, AnyRows(v), NEW fits \in Seq(Row), NEW f, IsPasted(v, fits, Len(fits), f)
    PROVE  AnyRows(f[Len(fits)])
<1> DEFINE Bad == {n \in 0..Len(fits) : ~AnyRows(f[n])}
<1>1. Len(fits) \in Nat /\ \A n \in 1..Len(fits) : fits[n] \in Row  OBVIOUS
<1> SUFFICES ASSUME Bad # {} PROVE FALSE  BY <1>1
<1>2. PICK n \in Bad : \A m \in Bad : n <= m
  <2>1. Bad \subseteq Nat  BY <1>1
  <2> QED  BY <2>1, LeastIs
<1>3. n # 0  BY <1>1 DEF IsPasted
<1>4. n \in 1..Len(fits) /\ n - 1 \in 0..Len(fits) /\ ~(n <= n - 1) /\ n \in 0..Len(fits)  BY <1>1, <1>3
<1>5. f[n] = WithRow(f[n - 1], fits[n].ts, fits[n].evs)  BY <1>3, <1>4 DEF IsPasted
<1> QED  BY <1>5, WithRowIs, <1>2, <1>4, <1>1 DEF Row

LEMMA ReplaceRowsIs ==
    ASSUME NEW v, IsRows(v), NEW start \in Nat, NEW stop, NEW new \in Seq(Row), NEW length
    PROVE  IsRows(EditReplaceRows(v, start, stop, new, length))
<1> DEFINE kept == WithoutRows(v, PositionsInRange(v, start, stop))
           shifted == [i \in DOMAIN new |-> [ts |-> start + new[i].ts, evs |-> new[i].evs]]
           S == {r \in ToSet(shifted) : r.ts <= length}
           fits == Keeping(shifted, S)
           f == CHOOSE f : IsPasted(kept, fits, Len(fits), f)
<1>1. AnyRows(kept)  BY WithoutRowsIs, RowsAreAny
<1>2. EditReplaceRows(v, start, stop, new, length) = RawData(f[Len(fits)])  BY DEF EditReplaceRows, IsPasted
<1> HIDE DEF kept
<1>3. shifted \in Seq(Row)
  <2>1. DOMAIN new = 1..Len(new) /\ Len(new) \in Nat  OBVIOUS
  <2>2. \A i \in DOMAIN new : shifted[i] \in Row
    <3> SUFFICES ASSUME NEW i \in DOMAIN new PROVE shifted[i] \in Row  OBVIOUS
    <3>1. new[i] \in Row  BY <2>1
    <3>2. shifted[i] = [ts |-> start + new[i].ts, evs |-> new[i].evs]  OBVIOUS
    <3> HIDE DEF shifted
    <3> QED  BY <3>2, <3>1 DEF Row
  <2>3. shifted \in [1..Len(new) -> Row]  BY <2>1, <2>2
  <2> HIDE DEF shifted
  <2> QED  BY <2>1, <2>3
<1> HIDE DEF shifted, S
<1>4. fits \in Seq(Row)  BY <1>3, KeepingIs
<1> HIDE DEF fits
<1>5. IsPasted(kept, fits, Len(fits), f)  BY PastedExists, <1>4
<1> HIDE DEF f
<1> QED  BY <1>2, RawDataIs, <1>1, <1>4, <1>5, PastedIs

-----------------------------------------------------------------------------
\* The control that is inferred.

\* A choice of the greatest is one of them.
LEMMA GreatestIn ==
    ASSUME NEW T, NEW b \in Nat, T \subseteq 0..b, T # {} PROVE (CHOOSE i \in T : \A j \in T : j <= i) \in T
BY GreatestIs

LEMMA LastControlIs == ASSUME NEW evs \in Seq(Events) PROVE LastControl(evs) = None \/ LastControl(evs) \in Nat
<1> DEFINE T == {i \in DOMAIN evs : Selects(evs[i]) # None}
           c == CHOOSE i \in T : \A j \in T : j <= i
<1>1. DOMAIN evs = 1..Len(evs) /\ Len(evs) \in Nat  OBVIOUS
<1>2. CASE T = {}  BY <1>2 DEF LastControl
<1>3. CASE T # {}
  <2>1. T \subseteq 0..Len(evs)  BY <1>1
  <2>2. c \in T  BY <2>1, <1>1, <1>3, GreatestIn
  <2>3. LastControl(evs) = Selects(evs[c])  BY <1>3 DEF LastControl
  <2> HIDE DEF c
  <2> QED  BY <2>3, EventsAssumption, <2>2
<1> QED  BY <1>2, <1>3

LEMMA InferredControlIs ==
    ASSUME NEW v, IsRows(v), NEW loc \in Locations PROVE InferredControl(v, loc) \in Nat
<1> DEFINE here == IF HasTrigger(v, loc.ts, 0) THEN Slice(RowAt(v, loc.ts), 0, loc.idx) ELSE <<>>
           above == {i \in DOMAIN v : v[i].ts < loc.ts /\ LastControl(v[i].evs) # None}
           c == CHOOSE i \in above : \A j \in above : j <= i
<1>1. AnyRows(v)  BY RowsAreAny
<1>2. v \in Seq(Row) /\ DOMAIN v = 1..Len(v) /\ Len(v) \in Nat  BY <1>1 DEF AnyRows
<1>3. here \in Seq(Events)  BY <1>1, RowAtIs, SliceIs DEF Locations, HasTrigger
<1>4. InferredControl(v, loc) = IF LastControl(here) # None THEN LastControl(here)
                                ELSE IF above = {} THEN 0 ELSE LastControl(v[c].evs)  BY DEF InferredControl
<1>5. above # {} => LastControl(v[c].evs) # None /\ c \in DOMAIN v
  <2>1. above \subseteq 0..Len(v)  BY <1>2
  <2>2. above # {} => c \in above  BY <2>1, <1>2, GreatestIn
  <2> HIDE DEF c
  <2> QED  BY <2>2
<1> HIDE DEF here, above, c
<1>6. above # {} => LastControl(v[c].evs) \in Nat
  <2>1. above # {} => v[c] \in Row  BY <1>2, <1>5
  <2> QED  BY <1>5, LastControlIs, <2>1 DEF Row
<1> QED  BY <1>4, <1>6, <1>3, LastControlIs

-----------------------------------------------------------------------------
\* The history as steps that fit.

\* A step, and what its transactions are made of.
TypedSteps == {s \in Steps : IsStep(s)}

LEMMA StepIs ==
    \A s \in TypedSteps :
        /\ IsData(s.old) /\ IsData(s.new) /\ DOMAIN s.old = DOMAIN s.new /\ DOMAIN s.new \subseteq SheetKeys
        /\ s.loc = None \/ s.loc \in Locations
        /\ s # None
  BY EventsAssumption DEF TypedSteps, IsStep, IsData

\* Tiles, with the names of the two halves of a step as its parameters.
Fits(data, damaged, steps, before, after) ==
    \A i \in DOMAIN steps : \A k \in DOMAIN steps[i].new :
        \/ PatternOf(k) \in damaged
        \/ /\ LastOf(steps, i, k) => steps[i][after][k] = data[k]
           /\ \A j \in DOMAIN steps : NextOf(steps, i, j, k) => steps[i][after][k] = steps[j][before][k]

LEMMA TilesFits ==
    ASSUME NEW u, NEW steps
    PROVE  /\ Tiles(u, steps, OldOf, NewOf) <=> Fits(u.data, u.damaged, steps, "old", "new")
           /\ Tiles(u, steps, NewOf, OldOf) <=> Fits(u.data, u.damaged, steps, "new", "old")
  BY DEF Tiles, Fits, OldOf, NewOf

Halves(before, after) == (before = "old" /\ after = "new") \/ (before = "new" /\ after = "old")

\* An empty history fits any data.
LEMMA FitsEmpty == ASSUME NEW d, NEW D, NEW b, NEW a PROVE Fits(d, D, <<>>, b, a)
  BY DEF Fits

\* The history and its last step.
LEMMA FrontIs ==
    ASSUME NEW X, NEW s \in Seq(X), s # <<>>
    PROVE  /\ Front(s) \in Seq(X) /\ Len(Front(s)) = Len(s) - 1 /\ Len(s) \in Nat \ {0}
           /\ DOMAIN Front(s) = 1..(Len(s) - 1) /\ (\A i \in 1..(Len(s) - 1) : Front(s)[i] = s[i])
           /\ Last(s) \in X
<1>1. Len(s) \in Nat /\ Len(s) # 0 /\ DOMAIN s = 1..Len(s)  OBVIOUS
<1> DEFINE l == Len(s) - 1
<1> HIDE DEF l
<1> DEFINE e == SubSeq(s, 1, Len(s) - 1)
<1> HIDE DEF e
<1>2. Last(s) \in X  BY <1>1 DEF Last
<1> QED  BY <1>1, <1>2, SubSeqIs DEF Front, e, l

LEMMA AppendIs ==
    ASSUME NEW X, NEW s \in Seq(X), NEW x \in X
    PROVE  /\ Append(s, x) \in Seq(X) /\ Len(Append(s, x)) = Len(s) + 1 /\ Len(s) \in Nat
           /\ DOMAIN s = 1..Len(s) /\ DOMAIN Append(s, x) = 1..(Len(s) + 1)
           /\ Append(s, x)[Len(s) + 1] = x
           /\ \A i \in 1..Len(s) : Append(s, x)[i] = s[i]
  OBVIOUS

\* What comes after a step in a history is the same in the history with
\* one more step, unless it is that one.
LEMMA NextInAppended ==
    ASSUME NEW s \in Seq(TypedSteps), NEW x \in TypedSteps, NEW i \in 1..Len(s), NEW k
    PROVE  /\ LastOf(Append(s, x), i, k) => k \notin DOMAIN x.new /\ LastOf(s, i, k)
           /\ \A j \in 1..Len(s) : NextOf(Append(s, x), i, j, k) => NextOf(s, i, j, k)
           /\ NextOf(Append(s, x), i, Len(s) + 1, k) => k \in DOMAIN x.new /\ LastOf(s, i, k)
<1> DEFINE e == Append(s, x)
           n == Len(s)
<1>1. n \in Nat /\ Len(e) = n + 1 /\ e[n + 1] = x /\ \A m \in 1..n : e[m] = s[m]  BY AppendIs
<1> HIDE DEF e
<1>2. ASSUME LastOf(e, i, k) PROVE k \notin DOMAIN x.new /\ LastOf(s, i, k)  BY <1>1, <1>2 DEF LastOf, Sets
<1>3. ASSUME NEW j \in 1..n, NextOf(e, i, j, k) PROVE NextOf(s, i, j, k)  BY <1>1, <1>3 DEF NextOf, Sets
<1>4. ASSUME NextOf(e, i, n + 1, k) PROVE k \in DOMAIN x.new /\ LastOf(s, i, k)
  BY <1>1, <1>4 DEF NextOf, Sets, LastOf
<1> QED  BY <1>2, <1>3, <1>4 DEF e

\* And the other way round.
LEMMA AppendedHas ==
    ASSUME NEW s \in Seq(TypedSteps), NEW x \in TypedSteps, NEW i \in 1..Len(s), NEW k
    PROVE  /\ LastOf(s, i, k) /\ k \notin DOMAIN x.new => LastOf(Append(s, x), i, k)
           /\ \A j \in 1..Len(s) : NextOf(s, i, j, k) => NextOf(Append(s, x), i, j, k)
           /\ LastOf(s, i, k) /\ k \in DOMAIN x.new => NextOf(Append(s, x), i, Len(s) + 1, k)
<1> DEFINE e == Append(s, x)
           n == Len(s)
<1>1. n \in Nat /\ Len(e) = n + 1 /\ e[n + 1] = x /\ \A m \in 1..n : e[m] = s[m]  BY AppendIs
<1> HIDE DEF e
<1>2. ASSUME LastOf(s, i, k), k \notin DOMAIN x.new PROVE LastOf(e, i, k)  BY <1>1, <1>2 DEF LastOf, Sets
<1>3. ASSUME NEW j \in 1..n, NextOf(s, i, j, k) PROVE NextOf(e, i, j, k)  BY <1>1, <1>3 DEF NextOf, Sets
<1>4. ASSUME LastOf(s, i, k), k \in DOMAIN x.new PROVE NextOf(e, i, n + 1, k)  BY <1>1, <1>4 DEF LastOf, NextOf, Sets
<1> QED  BY <1>2, <1>3, <1>4 DEF e

\* Undo, and redo with the halves the other way round: the last step of
\* one history is taken back, and becomes the last step of the other.
Overwrites(d, t, d2) == \A k \in SheetKeys : d2[k] = IF k \in DOMAIN t THEN t[k] ELSE d[k]

LEMMA FitsTakenBack ==
    ASSUME NEW d, NEW D, NEW P \in Seq(TypedSteps), NEW x \in TypedSteps, NEW b, NEW a, Halves(b, a), NEW d2,
           Overwrites(d, x[b], d2), Fits(d, D, Append(P, x), b, a)
    PROVE  Fits(d2, D, P, b, a)
<1> DEFINE e == Append(P, x)
           n == Len(P)
<1>1. n \in Nat /\ DOMAIN P = 1..n /\ DOMAIN e = 1..(n + 1) /\ e[n + 1] = x /\ \A m \in 1..n : e[m] = P[m]
  BY AppendIs
<1>2. Fits(d, D, e, b, a)  OBVIOUS
<1>3. \A i \in 1..n : \A k :
       /\ LastOf(P, i, k) /\ k \notin DOMAIN x.new => LastOf(e, i, k)
       /\ \A j \in 1..n : NextOf(P, i, j, k) => NextOf(e, i, j, k)
       /\ LastOf(P, i, k) /\ k \in DOMAIN x.new => NextOf(e, i, n + 1, k)  BY AppendedHas
<1> HIDE DEF e
<1> SUFFICES ASSUME NEW i \in 1..n, NEW k \in DOMAIN P[i].new, PatternOf(k) \notin D
             PROVE  /\ LastOf(P, i, k) => P[i][a][k] = d2[k]
                    /\ \A j \in 1..n : NextOf(P, i, j, k) => P[i][a][k] = P[j][b][k]  BY <1>1 DEF Fits
<1>4. i \in DOMAIN e /\ e[i] = P[i] /\ n + 1 \in DOMAIN e  BY <1>1
<1>5. /\ LastOf(e, i, k) => P[i][a][k] = d[k]
      /\ \A j \in DOMAIN e : NextOf(e, i, j, k) => P[i][a][k] = e[j][b][k]  BY <1>2, <1>4 DEF Fits
<1>6. ASSUME LastOf(P, i, k) PROVE P[i][a][k] = d2[k]  BY <1>6, <1>3, <1>1, <1>4, <1>5, StepIs DEF Overwrites, Halves
<1>7. ASSUME NEW j \in 1..n, NextOf(P, i, j, k) PROVE P[i][a][k] = P[j][b][k]  BY <1>1, <1>5, <1>7, <1>3
<1> QED  BY <1>6, <1>7

LEMMA FitsGivenBack ==
    ASSUME NEW d, NEW D, NEW P \in Seq(TypedSteps), NEW x \in TypedSteps, NEW F \in Seq(TypedSteps),
           NEW b, NEW a, Halves(b, a), NEW d2, Overwrites(d, x[b], d2),
           Fits(d, D, Append(P, x), b, a), Fits(d, D, F, a, b)
    PROVE  Fits(d2, D, Append(F, x), a, b)
<1> DEFINE e == Append(F, x)
           n == Len(F)
           p == Append(P, x)
           l == Len(P) + 1
<1>1. n \in Nat /\ DOMAIN F = 1..n /\ DOMAIN e = 1..(n + 1) /\ Len(e) = n + 1 /\ e[n + 1] = x /\ \A m \in 1..n : e[m] = F[m]
  BY AppendIs
<1>2. l \in DOMAIN p /\ p[l] = x /\ Len(p) = l /\ l \in Nat  BY AppendIs
<1>3. DOMAIN x[b] = DOMAIN x.new /\ DOMAIN x[a] = DOMAIN x.new /\ DOMAIN x.new \subseteq SheetKeys
  BY StepIs DEF Halves
<1>4. Fits(d, D, p, b, a)  OBVIOUS
<1> HIDE DEF p, l
<1>5. \A k \in DOMAIN x.new : PatternOf(k) \notin D => x[a][k] = d[k]
  <2> SUFFICES ASSUME NEW k \in DOMAIN x.new, PatternOf(k) \notin D PROVE x[a][k] = d[k]  OBVIOUS
  <2> QED  BY <1>2, <1>4 DEF Fits, LastOf
<1> HIDE DEF e
<1>6. ASSUME NEW i \in 1..n, NEW k
      PROVE  /\ LastOf(e, i, k) => k \notin DOMAIN x.new /\ LastOf(F, i, k)
             /\ \A j \in 1..n : NextOf(e, i, j, k) => NextOf(F, i, j, k)
             /\ NextOf(e, i, n + 1, k) => k \in DOMAIN x.new /\ LastOf(F, i, k)  BY NextInAppended DEF e
<1> SUFFICES ASSUME NEW i \in 1..(n + 1), NEW k \in DOMAIN e[i].new, PatternOf(k) \notin D
             PROVE  /\ LastOf(e, i, k) => e[i][b][k] = d2[k]
                    /\ \A j \in 1..(n + 1) : NextOf(e, i, j, k) => e[i][b][k] = e[j][a][k]  BY <1>1 DEF Fits, e
<1>7. CASE i = n + 1  BY <1>1, <1>3, <1>7 DEF Overwrites, NextOf
<1>8. CASE i \in 1..n
  <2>1. e[i] = F[i] /\ i \in DOMAIN F /\ F[i] \in TypedSteps  BY <1>1, <1>8
  <2>2. /\ LastOf(F, i, k) => F[i][b][k] = d[k]
        /\ \A j \in 1..n : NextOf(F, i, j, k) => F[i][b][k] = F[j][a][k]  BY <2>1, <1>1 DEF Fits
  <2>3. ASSUME LastOf(e, i, k) PROVE e[i][b][k] = d2[k]  BY <2>2, <2>3, <1>6, <1>8, <2>1, <1>3, StepIs DEF Overwrites
  <2>4. ASSUME NEW j \in 1..(n + 1), NextOf(e, i, j, k) PROVE e[i][b][k] = e[j][a][k]
    BY <2>2, <2>4, <1>6, <1>8, <2>1, <1>1, <1>5
  <2> QED  BY <2>3, <2>4
<1> QED  BY <1>1, <1>7, <1>8

\* An edit: the open step also sets the keys of a transaction, and keeps
\* the value that each had before.
Widens(y, d, t, x) ==
    /\ DOMAIN x.new = DOMAIN t \union DOMAIN y.new
    /\ \A k \in DOMAIN x.new : /\ x.new[k] = IF k \in DOMAIN t THEN t[k] ELSE y.new[k]
                               /\ x.old[k] = IF k \in DOMAIN y.new THEN y.old[k] ELSE d[k]

LEMMA FitsWidened ==
    ASSUME NEW d, NEW D, NEW P \in Seq(TypedSteps), NEW y \in TypedSteps, NEW x \in TypedSteps, NEW t, NEW d2,
           Overwrites(d, t, d2), Widens(y, d, t, x), Fits(d, D, Append(P, y), "old", "new")
    PROVE  Fits(d2, D, Append(P, x), "old", "new")
<1> DEFINE e == Append(P, y)
           f == Append(P, x)
           n == Len(P)
<1>1. n \in Nat /\ DOMAIN P = 1..n /\ DOMAIN e = 1..(n + 1) /\ Len(e) = n + 1 /\ e[n + 1] = y /\ \A m \in 1..n : e[m] = P[m]
  BY AppendIs
<1>2. DOMAIN f = 1..(n + 1) /\ Len(f) = n + 1 /\ f[n + 1] = x /\ \A m \in 1..n : f[m] = P[m]  BY AppendIs
<1>3. Fits(d, D, e, "old", "new")  OBVIOUS
<1>4. \A i \in 1..n : \A k :
        /\ LastOf(P, i, k) /\ k \notin DOMAIN y.new => LastOf(e, i, k)
        /\ \A j \in 1..n : NextOf(P, i, j, k) => NextOf(e, i, j, k)
        /\ LastOf(P, i, k) /\ k \in DOMAIN y.new => NextOf(e, i, n + 1, k)  BY AppendedHas
<1>5. \A i \in 1..n : \A k :
        /\ LastOf(f, i, k) => k \notin DOMAIN x.new /\ LastOf(P, i, k)
        /\ \A j \in 1..n : NextOf(f, i, j, k) => NextOf(P, i, j, k)
        /\ NextOf(f, i, n + 1, k) => k \in DOMAIN x.new /\ LastOf(P, i, k)  BY NextInAppended
<1> HIDE DEF e, f
<1>6. DOMAIN x.new \subseteq SheetKeys  BY StepIs
<1> SUFFICES ASSUME NEW i \in 1..(n + 1), NEW k \in DOMAIN f[i].new, PatternOf(k) \notin D
             PROVE  /\ LastOf(f, i, k) => f[i].new[k] = d2[k]
                    /\ \A j \in 1..(n + 1) : NextOf(f, i, j, k) => f[i].new[k] = f[j].old[k]  BY <1>2 DEF Fits, f
<1>7. CASE i = n + 1
  <2>1. f[i] = x /\ k \in DOMAIN x.new  BY <1>2, <1>7
  <2>2. \A j \in 1..(n + 1) : ~NextOf(f, i, j, k)  BY <1>1, <1>7 DEF NextOf
  <2>3. CASE k \in DOMAIN t  BY <2>1, <2>2, <2>3, <1>6 DEF Widens, Overwrites
  <2>4. CASE k \notin DOMAIN t
    <3>1. k \in DOMAIN y.new /\ x.new[k] = y.new[k]  BY <2>1, <2>4 DEF Widens
    <3>2. y.new[k] = d[k]  BY <3>1, <1>1, <1>3 DEF Fits, LastOf
    <3> QED  BY <3>1, <3>2, <2>1, <2>2, <2>4, <1>6 DEF Overwrites
  <2> QED  BY <2>3, <2>4
<1>8. CASE i \in 1..n
  <2>1. f[i] = P[i] /\ e[i] = P[i] /\ i \in DOMAIN e /\ P[i] \in TypedSteps  BY <1>1, <1>2, <1>8
  <2>2. /\ LastOf(e, i, k) => P[i].new[k] = d[k]
        /\ \A j \in DOMAIN e : NextOf(e, i, j, k) => P[i].new[k] = e[j].old[k]  BY <2>1, <1>3 DEF Fits
  <2>3. ASSUME LastOf(f, i, k) PROVE f[i].new[k] = d2[k]
    BY <2>3, <1>5, <1>8, <2>2, <1>4, <2>1, StepIs DEF Widens, Overwrites
  <2>4. ASSUME NEW j \in 1..(n + 1), NextOf(f, i, j, k) PROVE f[i].new[k] = f[j].old[k]
    <3>1. CASE j = n + 1
      <4>1. k \in DOMAIN x.new /\ LastOf(P, i, k) /\ f[j] = x  BY <3>1, <2>4, <1>2, <1>5, <1>8
      <4>2. CASE k \in DOMAIN y.new  BY <4>1, <4>2, <1>1, <1>4, <1>8, <2>2, <2>1 DEF Widens
      <4>3. CASE k \notin DOMAIN y.new  BY <4>1, <4>3, <2>2, <1>4, <1>8, <2>1 DEF Widens
      <4> QED  BY <4>2, <4>3
    <3>2. CASE j \in 1..n  BY <3>2, <2>4, <1>1, <1>2, <1>4, <1>5, <1>8, <2>1, <2>2
    <3> QED  BY <3>1, <3>2, <1>1
  <2> QED  BY <2>3, <2>4
<1> QED  BY <1>1, <1>7, <1>8

\* A step that sets nothing yet.
LEMMA NewStepIs == NewStep \in TypedSteps /\ DOMAIN NewStep.new = {} /\ DOMAIN NewStep.old = {}
<1>1. <<>> \in [{} -> Values] /\ {} \in SUBSET SheetKeys  OBVIOUS
<1> QED  BY <1>1 DEF TypedSteps, NewStep, IsStep, IsData, Steps, Transactions

LEMMA FitsStarted ==
    ASSUME NEW d, NEW D, NEW P \in Seq(TypedSteps), Fits(d, D, P, "old", "new")
    PROVE  Fits(d, D, Append(P, NewStep), "old", "new")
<1> DEFINE x == NewStep
           f == Append(P, x)
           n == Len(P)
<1>1. x \in TypedSteps /\ DOMAIN x.new = {}  BY NewStepIs
<1> HIDE DEF x
<1>2. n \in Nat /\ DOMAIN P = 1..n  BY <1>1, AppendIs
<1>3. DOMAIN f = 1..(n + 1) /\ Len(f) = n + 1 /\ f[n + 1] = x /\ \A m \in 1..n : f[m] = P[m]  BY <1>1, AppendIs
<1>4. \A i \in 1..n : \A k :
        /\ LastOf(f, i, k) => LastOf(P, i, k)
        /\ \A j \in 1..n : NextOf(f, i, j, k) => NextOf(P, i, j, k)
        /\ ~NextOf(f, i, n + 1, k)
  <2> SUFFICES ASSUME NEW i \in 1..n, NEW k
               PROVE  /\ LastOf(f, i, k) => LastOf(P, i, k)
                      /\ \A j \in 1..n : NextOf(f, i, j, k) => NextOf(P, i, j, k)
                      /\ ~NextOf(f, i, n + 1, k)  OBVIOUS
  <2>1. /\ LastOf(f, i, k) => k \notin DOMAIN x.new /\ LastOf(P, i, k)
        /\ \A j \in 1..n : NextOf(f, i, j, k) => NextOf(P, i, j, k)
        /\ NextOf(f, i, n + 1, k) => k \in DOMAIN x.new /\ LastOf(P, i, k)  BY <1>1, NextInAppended
  <2> HIDE DEF f
  <2> QED  BY <2>1, <1>1
<1> HIDE DEF f
<1> SUFFICES ASSUME NEW i \in 1..(n + 1), NEW k \in DOMAIN f[i].new, PatternOf(k) \notin D
             PROVE  /\ LastOf(f, i, k) => f[i].new[k] = d[k]
                    /\ \A j \in 1..(n + 1) : NextOf(f, i, j, k) => f[i].new[k] = f[j].old[k]  BY <1>3 DEF Fits, f, x
<1>5. i \in 1..n  BY <1>2, <1>1, <1>3
<1>6. f[i] = P[i]  BY <1>3, <1>5
<1>7. \A j \in 1..(n + 1) : j = n + 1 \/ (j \in 1..n /\ f[j] = P[j])  BY <1>2, <1>3
<1> QED  BY <1>4, <1>5, <1>6, <1>7, <1>2 DEF Fits

\* The removal of a pattern: steps are left out of the history.  What is
\* set by a step that stays is set by no step that goes.
Thinned(s, s2, h) ==
    /\ h \in [1..Len(s2) -> 1..Len(s)]
    /\ \A i, j \in 1..Len(s2) : i < j => h[i] < h[j]
    /\ \A i \in 1..Len(s2) : s2[i] = s[h[i]]

\* The steps that are left out do not set the keys of G, and the others
\* set only these, or keys of damaged patterns.
Spared(d, D, s, s2, h, d2, D2, G) ==
    /\ \A i \in 1..Len(s2) : \A k \in DOMAIN s2[i].new : PatternOf(k) \in D2 \/ k \in G
    /\ \A m \in 1..Len(s) : \A k \in DOMAIN s[m].new : k \in G => \E i \in 1..Len(s2) : h[i] = m
    /\ \A k \in G : d2[k] = d[k] /\ PatternOf(k) \notin D

LEMMA FitsThinned ==
    ASSUME NEW d, NEW D, NEW s \in Seq(TypedSteps), NEW b, NEW a, Fits(d, D, s, b, a),
           NEW s2 \in Seq(TypedSteps), NEW h, Thinned(s, s2, h), NEW d2, NEW D2, NEW G,
           Spared(d, D, s, s2, h, d2, D2, G)
    PROVE  Fits(d2, D2, s2, b, a)
<1>1. DOMAIN s2 = 1..Len(s2) /\ DOMAIN s = 1..Len(s) /\ Len(s) \in Nat /\ Len(s2) \in Nat  OBVIOUS
<1> SUFFICES ASSUME NEW i \in 1..Len(s2), NEW k \in DOMAIN s2[i].new, k \in G
             PROVE  /\ LastOf(s2, i, k) => s2[i][a][k] = d2[k]
                    /\ \A j \in 1..Len(s2) : NextOf(s2, i, j, k) => s2[i][a][k] = s2[j][b][k]
  BY <1>1 DEF Fits, Spared
<1>2. h[i] \in 1..Len(s) /\ s2[i] = s[h[i]]  BY DEF Thinned
<1>3. \A p, q \in 1..Len(s2) : h[p] < h[q] => p < q
  <2> SUFFICES ASSUME NEW p \in 1..Len(s2), NEW q \in 1..Len(s2), h[p] < h[q], ~(p < q) PROVE FALSE  OBVIOUS
  <2> QED  BY <1>1 DEF Thinned
<1>4. ASSUME LastOf(s2, i, k) PROVE LastOf(s, h[i], k)
  <2> SUFFICES ASSUME NEW m \in (h[i] + 1)..Len(s), k \in DOMAIN s[m].new PROVE FALSE  BY DEF LastOf, Sets
  <2>1. m \in 1..Len(s) /\ h[i] < m  BY <1>1, <1>2
  <2>2. PICK q \in 1..Len(s2) : h[q] = m  BY <2>1 DEF Spared
  <2>3. k \in DOMAIN s2[q].new  BY <2>2 DEF Thinned
  <2> QED  BY <2>3, <1>4, <1>1, <2>1, <2>2, <1>3 DEF LastOf, Sets
<1>5. ASSUME NEW j \in 1..Len(s2), NextOf(s2, i, j, k) PROVE NextOf(s, h[i], h[j], k) /\ h[j] \in 1..Len(s) /\ s2[j] = s[h[j]]
  <2>1. h[i] < h[j] /\ h[j] \in 1..Len(s) /\ s2[j] = s[h[j]]  BY <1>5 DEF NextOf, Thinned
  <2>2. ASSUME NEW m \in (h[i] + 1)..(h[j] - 1), k \in DOMAIN s[m].new PROVE FALSE
    <3>1. m \in 1..Len(s) /\ h[i] < m /\ m < h[j]  BY <2>1, <1>1, <1>2
    <3>2. PICK q \in 1..Len(s2) : h[q] = m  BY <2>2, <3>1 DEF Spared
    <3>3. q \in (i + 1)..(j - 1)  BY <1>1, <3>1, <3>2, <1>3
    <3> QED  BY <3>3, <1>5, <2>2, <3>2 DEF NextOf, Sets, Thinned
  <2> QED  BY <2>1, <2>2, <1>5 DEF NextOf, Sets
<1> QED  BY <1>2, <1>4, <1>5, <1>1 DEF Fits, Spared

-----------------------------------------------------------------------------
\* The state of the user interface, in parts: what is edited and its
\* history (Deep), and what the view and its controls remember (Face).

Fields == {"data", "order", "sel", "past", "future", "step", "damaged", "start", "stop", "clip", "chord",
           "chordStart", "chordNotes", "down", "edit", "field", "spin", "connected", "replace", "playing",
           "recording", "last", "control", "failed"}
IsUi(u) == DOMAIN u = Fields

ColumnKeys == {ColKey(p, c) : p \in Patterns, c \in ColNums}
IsSheet(d) == IsData(d) /\ DOMAIN d = SheetKeys
IsHistory(d, D, past, step, future) ==
    /\ past \in Seq(TypedSteps) /\ future \in Seq(TypedSteps)
    /\ step = None \/ (step \in TypedSteps /\ future = <<>>)
    /\ Fits(d, D, IF step = None THEN past ELSE Append(past, step), "old", "new")
    /\ Fits(d, D, future, "new", "old")
Deep(u) == IsSheet(u.data) /\ IsOrder(u.order) /\ IsHistory(u.data, u.damaged, u.past, u.step, u.future)

IsLoc(loc) == loc = None \/ loc \in Locations
IsClip(c) == \/ c = None
             \/ c.kind = "rect" /\ c.columns \in Seq(Seq(Row)) /\ c.height \in Nat
             \/ c.kind = "slice" /\ c.evs \in Seq(Events)
IsLast(l) == l = None \/ (l \in [key : ColumnKeys, inst : 0..MaxInstance, rows : Rows, orphan : BOOLEAN] /\ IsRows(l.rows))
Face(u) == /\ IsLoc(u.sel) /\ IsLoc(u.start) /\ IsLoc(u.stop) /\ IsLoc(u.chordStart)
           /\ IsClip(u.clip) /\ IsLast(u.last)
           /\ u.control \in Nat /\ u.field \in {None, "type", "argument"}
           /\ u.replace => u.connected

Base(u) == IsUi(u) /\ Deep(u) /\ Face(u)
Current(u) == u.last # None /\ ~u.last.orphan => u.last.rows = Stored(u, u.last.key)

\* What a step does that edits nothing, and what one does that may.
Kept(u, v) ==
    /\ IsUi(v)
    /\ v.data = u.data /\ v.order = u.order
    /\ v.past = u.past /\ v.future = u.future /\ v.step = u.step /\ v.damaged = u.damaged
    /\ v.playing = u.playing /\ v.recording = u.recording
Stays(u, v) == Kept(u, v) /\ Base(v) /\ (Current(u) => Current(v))
Edits(u, v) ==
    /\ Base(v) /\ Current(v)
    /\ v.order = u.order /\ v.playing = u.playing /\ v.recording = u.recording
    /\ ~AllowEditing(u) => \A k \in ColumnKeys : v.data[k] = u.data[k]
    /\ Len(v.future) <= Len(u.future)

LEMMA KeptFits == ASSUME NEW u, Base(u), NEW v, Kept(u, v), Face(v) PROVE Base(v)
  BY DEF Kept, Base, Deep

LEMMA StaysTrans == ASSUME NEW u, NEW v, NEW w, Stays(u, v), Stays(v, w) PROVE Stays(u, w)
  BY DEF Stays, Kept

LEMMA StaysSame == ASSUME NEW u, Base(u) PROVE Stays(u, u)
  BY DEF Stays, Kept, Base

\* A step that leaves the cached column alone.
LEMMA StaysBy == ASSUME NEW u, Base(u), NEW v, Kept(u, v), Face(v), v.last = u.last PROVE Stays(u, v)
BY KeptFits DEF Kept, Current, Stored, Stays

LEMMA FutureLen == ASSUME NEW u, Base(u) PROVE Len(u.future) \in Nat /\ Len(u.past) \in Nat
BY DEF Base, Deep, IsHistory

LEMMA StaysEdits == ASSUME NEW u, Base(u), Current(u), NEW v, Stays(u, v) PROVE Edits(u, v)
BY FutureLen DEF Stays, Kept, Edits

LEMMA EditsTrans == ASSUME NEW u, NEW v, NEW w, Base(u), Edits(u, v), Edits(v, w) PROVE Edits(u, w)
BY FutureLen DEF Edits, AllowEditing

-----------------------------------------------------------------------------
\* Keys, data and the order list.

LEMMA ColumnKeyIs ==
    ASSUME NEW p \in Patterns, NEW c \in ColNums
    PROVE  /\ ColKey(p, c) \in ColumnKeys /\ ColKey(p, c) \in SheetKeys
           /\ ColKey(p, c)[2] = "col" /\ ColKey(p, c)[3] = c /\ PatternOf(ColKey(p, c)) = p
  BY DEF ColumnKeys, SheetKeys, ColKey, PatternOf

LEMMA ColumnKeysAre == \A k \in ColumnKeys : k \in SheetKeys /\ k[2] = "col" /\ PatternOf(k) \in Patterns /\ k = ColKey(PatternOf(k), k[3])
  BY DEF ColumnKeys, SheetKeys, ColKey, PatternOf

LEMMA LengthKeyIs ==
    ASSUME NEW p \in Patterns
    PROVE  LengthKey(p) \in SheetKeys /\ LengthKey(p)[2] # "col" /\ LengthKey(p) \notin ColumnKeys /\ PatternOf(LengthKey(p)) = p
BY ColumnKeysAre DEF LengthKey, SheetKeys, PatternOf

LEMMA NoRows == IsRows(<<>>)
  BY DEF IsRows, Rows

LEMMA StoredIs == ASSUME NEW u, IsSheet(u.data), NEW k \in ColumnKeys PROVE IsRows(Stored(u, k))
BY ColumnKeysAre, NoRows DEF IsSheet, IsData, IsValue, Stored

LEMMA LengthIs == ASSUME NEW u, IsSheet(u.data), NEW p \in Patterns PROVE Length(u, p) \in 1..DefaultLength /\ Length(u, p) \in Nat
BY LengthKeyIs, SheetAssumption DEF IsSheet, IsData, IsValue, Length

LEMMA OrderIs == ASSUME NEW o, IsOrder(o) PROVE Len(o) \in Nat /\ DOMAIN o = 1..Len(o) /\ o \in Seq(Patterns \X (0..MaxInstance))
  BY DEF IsOrder

LEMMA PatternIs ==
    ASSUME NEW u, IsOrder(u.order), NEW sys \in Nat, sys < Len(u.order)
    PROVE  /\ PatternAt(u, sys) \in Patterns /\ sys + 1 \in DOMAIN u.order
           /\ u.order[sys + 1] \in Patterns \X (0..MaxInstance)
BY OrderIs DEF PatternAt

LEMMA AlbumIs == ASSUME NEW u, IsOrder(u.order) PROVE HasAlbum(u) <=> 0 < Len(u.order)
  BY DEF HasAlbum, IsOrder

LEMMA KeyIs ==
    ASSUME NEW u, IsOrder(u.order), NEW loc \in Locations, InAlbum(u, loc)
    PROVE  /\ KeyAt(u, loc) \in ColumnKeys /\ KeyAt(u, loc) = ColKey(PatternAt(u, loc.sys), loc.col)
           /\ PatternAt(u, loc.sys) \in Patterns /\ loc.col \in ColNums
BY PatternIs, ColumnKeyIs DEF Locations, InAlbum, KeyAt

-----------------------------------------------------------------------------
\* The selection.

LEMMA LocIs ==
    ASSUME NEW loc \in Locations
    PROVE  /\ loc.sys \in Nat /\ loc.col \in ColNums /\ loc.ts \in Nat /\ loc.idx \in Nat
           /\ \A n \in Nat : [loc EXCEPT !.sys = n] \in Locations
           /\ \A n \in Nat : [loc EXCEPT !.ts = n] \in Locations
           /\ \A n \in Nat : [loc EXCEPT !.idx = n] \in Locations
           /\ \A c \in ColNums : [loc EXCEPT !.col = c] \in Locations
  BY DEF Locations

LEMMA LocationIs ==
    ASSUME NEW u, Base(u)
    PROVE  Location(u) \in Locations /\ (HasAlbum(u) => InAlbum(u, Location(u)))
<1>1. IsOrder(u.order) /\ IsSheet(u.data) /\ IsLoc(u.sel)  BY DEF Base, Deep, Face
<1>2. CASE u.sel = None \/ ~HasAlbum(u)
  BY <1>2, SheetAssumption, <1>1, AlbumIs DEF Location, Fallback, Locations, ColNums, InAlbum
<1>3. CASE u.sel # None /\ HasAlbum(u)
  <2> DEFINE sys == Clamp(u.sel.sys, Len(u.order) - 1)
             length == Length(u, PatternAt(u, sys))
             ts == Clamp(u.sel.ts, length)
  <2>1. u.sel \in Locations  BY <1>1, <1>3 DEF IsLoc
  <2>2. u.sel.sys \in Nat /\ u.sel.ts \in Nat  BY <2>1, LocIs
  <2>3. Len(u.order) \in Nat /\ Len(u.order) > 0  BY <1>1, <1>3, OrderIs, AlbumIs
  <2>4. Len(u.order) - 1 \in Nat  BY <2>3
  <2>5. sys \in 0..(Len(u.order) - 1)  BY <2>2, <2>4, ClampIs
  <2>6. Location(u) = [u.sel EXCEPT !.sys = sys, !.ts = ts]  BY <1>3 DEF Location
  <2> HIDE DEF sys
  <2>7. sys \in Nat /\ sys < Len(u.order)  BY <2>3, <2>5
  <2>8. length \in Nat  BY <1>1, LengthIs, <2>7, PatternIs
  <2> HIDE DEF length
  <2>9. ts \in 0..length  BY <2>2, <2>8, ClampIs
  <2> HIDE DEF ts
  <2>10. ts \in Nat  BY <2>8, <2>9
  <2> QED  BY <2>6, <2>7, <2>1, <2>10 DEF InAlbum, Locations
<1> QED  BY <1>2, <1>3

LEMMA RowsAtIs ==
    ASSUME NEW u, Base(u), NEW loc \in Locations, InAlbum(u, loc) PROVE IsRows(RowsAt(u, loc))
BY KeyIs, StoredIs DEF Base, Deep, Face, RowsAt, IsCached, IsLast

LEMMA FlushIs ==
    ASSUME NEW u, Base(u) PROVE Kept(u, FlushColumn(u)) /\ Base(FlushColumn(u)) /\ Current(FlushColumn(u)) /\ FlushColumn(u).sel = u.sel
<1> DEFINE v == [u EXCEPT !.last = None]
<1>1. Kept(u, v) /\ Face(v) /\ v.last = None /\ v.sel = u.sel  BY DEF Kept, IsUi, Fields, Face, IsLast, Base
<1>2. FlushColumn(u) = v  BY DEF FlushColumn
<1> HIDE DEF v
<1> QED  BY <1>1, <1>2, KeptFits DEF Current

LEMMA FlushStays == ASSUME NEW u, Base(u) PROVE Stays(u, FlushColumn(u))
  BY FlushIs DEF Stays

LEMMA VisitedRowsAre ==
    ASSUME NEW u, Base(u), NEW first, NEW loc \in Locations, InAlbum(u, loc) PROVE IsRows(VisitedRows(u, first, loc))
<1> DEFINE v == Visited(u, first, loc)
<1>1. Base(v) /\ InAlbum(v, loc)  BY FlushIs DEF Visited, InAlbum, Kept
<1> HIDE DEF v
<1>2. IsRows(RowsAt(v, loc))  BY <1>1, RowsAtIs
<1> QED  BY <1>2 DEF v, VisitedRows

LEMMA CountIs ==
    ASSUME NEW v, IsRows(v), NEW ts, HasRow(v, ts) PROVE CountAt(v, ts) \in Nat
  BY RowsAreAny, RowAtIs DEF CountAt

LEMMA LocatedIs == ASSUME NEW u, Base(u) PROVE Stays(u, Located(u))
<1>1. CASE u.sel = None \/ ~HasAlbum(u)  BY <1>1, StaysSame DEF Located
<1>2. CASE ~(u.sel = None \/ ~HasAlbum(u))
  <2> DEFINE v == [u EXCEPT !.sel = Location(u)]
  <2>1. Kept(u, v) /\ Face(v) /\ v.last = u.last  BY LocationIs DEF Kept, IsUi, Fields, Face, IsLoc, Base
  <2> HIDE DEF v
  <2>2. Located(u) = v  BY <1>2 DEF Located, v
  <2> QED  BY <2>2, <2>1, StaysBy
<1> QED  BY <1>1, <1>2

LEMMA CachedIs ==
    ASSUME NEW u, Base(u), NEW loc \in Locations, HasAlbum(u) => InAlbum(u, loc) PROVE Stays(u, Cached(u, loc))
<1>1. CASE ~HasAlbum(u) \/ IsCached(u, loc)  BY <1>1, StaysSame DEF Cached
<1>2. CASE ~(~HasAlbum(u) \/ IsCached(u, loc))
  <2> DEFINE k == KeyAt(u, loc)
             inst == u.order[loc.sys + 1][2]
             l == [key |-> k, inst |-> inst, rows |-> Stored(u, k), orphan |-> FALSE]
             v == [u EXCEPT !.last = l]
  <2>1. IsOrder(u.order) /\ IsSheet(u.data) /\ IsUi(u) /\ Face(u)  BY DEF Base, Deep
  <2>2. k \in ColumnKeys /\ inst \in 0..MaxInstance  BY <1>2, <2>1, KeyIs, PatternIs, LocIs DEF InAlbum
  <2>3. Cached(u, loc) = v  BY <1>2 DEF Cached
  <2> HIDE DEF k, inst
  <2>4. IsLast(l) /\ l.key = k /\ l.rows = Stored(u, k)  BY <2>2, <2>1, StoredIs DEF IsLast, IsRows
  <2> HIDE DEF l
  <2>5. Kept(u, v) /\ Face(v) /\ v.last = l  BY <2>1, <2>4 DEF Kept, IsUi, Fields, Face
  <2> HIDE DEF v
  <2> QED  BY <2>3, <2>5, KeptFits, <2>4 DEF Stays, Current, Kept, Stored
<1> QED  BY <1>1, <1>2

LEMMA ClampedIs ==
    ASSUME NEW u, Base(u), NEW loc \in Locations, HasAlbum(u) => InAlbum(u, loc)
    PROVE  /\ IsLoc(ClampedLocation(u, loc))
           /\ HasAlbum(u) => /\ ClampedLocation(u, loc) \in Locations
                             /\ ClampedLocation(u, loc).sys = loc.sys /\ ClampedLocation(u, loc).col = loc.col
<1>1. CASE ~HasAlbum(u)  BY <1>1 DEF ClampedLocation, IsLoc
<1>2. CASE HasAlbum(u)
  <2> DEFINE rows == RowsAt(u, loc)
             idx == IF HasTrigger(rows, loc.ts, 0) THEN Clamp(loc.idx, CountAt(rows, loc.ts)) ELSE 0
  <2>1. IsRows(rows)  BY <1>2, RowsAtIs
  <2>2. ClampedLocation(u, loc) = [loc EXCEPT !.idx = idx]  BY <1>2 DEF ClampedLocation
  <2> HIDE DEF rows
  <2>3. idx \in Nat  BY ClampIs, <2>1, LocIs, CountIs DEF HasTrigger
  <2> HIDE DEF idx
  <2> QED  BY <2>2, <2>3 DEF IsLoc, Locations
<1> QED  BY <1>1, <1>2

LEMMA SetLocationIs ==
    ASSUME NEW u, Base(u), NEW loc, IsLoc(loc)
    PROVE  /\ Stays(u, SetLocation(u, loc))
           /\ loc # None /\ HasAlbum(u) /\ InAlbum(u, loc)
                => SetLocation(u, loc).sel.sys = loc.sys /\ SetLocation(u, loc).sel.col = loc.col
<1> DEFINE u0 == [u EXCEPT !.sel = loc]
           u1 == Located(u0)
           u2 == Cached(u1, Location(u1))
           control == IF HasAlbum(u2)
                      THEN InferredControl(RowsAt(u2, Location(u2)), ClampedLocation(u2, Location(u2))) ELSE 0
           v == [u2 EXCEPT !.control = control]
<1>1. SetLocation(u, loc) = v  BY DEF SetLocation
<1>2. Kept(u, u0) /\ Face(u0) /\ u0.last = u.last /\ u0.sel = loc  BY DEF Kept, IsUi, Fields, Face, Base
<1> HIDE DEF u0
<1>3. Stays(u, u0)  BY <1>2, StaysBy
<1>4. Stays(u0, u1)  BY LocatedIs, <1>3 DEF Stays
<1>5. loc # None /\ HasAlbum(u) /\ InAlbum(u, loc) => u1.sel.sys = loc.sys /\ u1.sel.col = loc.col
  <2> SUFFICES ASSUME loc # None, HasAlbum(u), InAlbum(u, loc) PROVE u1.sel.sys = loc.sys /\ u1.sel.col = loc.col
    OBVIOUS
  <2> DEFINE sys == Clamp(loc.sys, Len(u0.order) - 1)
             ts == Clamp(loc.ts, Length(u0, PatternAt(u0, sys)))
             s == [loc EXCEPT !.sys = sys, !.ts = ts]
  <2>1. u0.order = u.order /\ IsUi(u0) /\ HasAlbum(u0)  BY <1>2 DEF Kept, HasAlbum
  <2>2. loc \in Locations  BY DEF IsLoc
  <2>3. loc.sys \in Nat /\ loc.sys < Len(u.order) /\ Len(u.order) \in Nat
    BY <2>2, LocIs, OrderIs DEF InAlbum, Base, Deep
  <2>4. sys = loc.sys  BY <2>1, <2>3 DEF Clamp
  <2>5. u1 = [u0 EXCEPT !.sel = Location(u0)] /\ Location(u0) = s  BY <1>2, <2>1 DEF Located, Location
  <2> HIDE DEF sys, ts
  <2>6. s.sys = sys /\ s.col = loc.col  BY <2>2 DEF Locations
  <2> HIDE DEF s, u1
  <2>7. u1.sel = s  BY <2>1, <2>5 DEF IsUi, Fields
  <2> QED  BY <2>4, <2>6, <2>7
<1> HIDE DEF u1
<1>6. Stays(u1, u2) /\ u2.sel = u1.sel  BY LocationIs, CachedIs, <1>4 DEF Cached, Base, IsUi, Fields, Stays
<1> HIDE DEF u2
<1>7. Base(u2)  BY <1>6 DEF Stays
<1>8. control \in Nat  BY <1>7, LocationIs, RowsAtIs, ClampedIs, InferredControlIs
<1> HIDE DEF control
<1>9. Kept(u2, v) /\ Face(v) /\ v.last = u2.last /\ v.sel = u2.sel  BY <1>8, <1>7 DEF Kept, IsUi, Fields, Face, Base
<1> HIDE DEF v
<1> QED  BY <1>1, <1>9, <1>5, <1>6, <1>3, <1>4, StaysTrans, <1>7, StaysBy

-----------------------------------------------------------------------------
\* The history.

\* Like Edits, while the cached column may be behind the store.
Changes(u, v) ==
    /\ Base(v)
    /\ v.order = u.order /\ v.playing = u.playing /\ v.recording = u.recording
    /\ Len(v.future) <= Len(u.future)

LEMMA ChangesStay == ASSUME NEW u, NEW v, NEW w, Changes(u, v), Stays(v, w) PROVE Changes(u, w)
  BY DEF Changes, Stays, Kept

LEMMA StayChanges == ASSUME NEW u, NEW v, NEW w, Stays(u, v), Changes(v, w) PROVE Changes(u, w)
  BY DEF Changes, Stays, Kept

LEMMA ChangesEdit ==
    ASSUME NEW u, AllowEditing(u), NEW v, Changes(u, v) PROVE Edits(u, FlushColumn(v)) /\ Edits(u, AddColumnUpdate(v, Location(u)))
<1> DEFINE w == FlushColumn(v)
<1> HIDE DEF w
<1> QED  BY FlushIs DEF Changes, Edits, Kept, w, AddColumnUpdate, FlushColumn

LEMMA UpdateIs == \A u, loc : AddColumnUpdate(u, loc) = FlushColumn(u)
  BY DEF AddColumnUpdate, FlushColumn

\* Transactions and steps.
LEMMA ChangeIs ==
    ASSUME NEW k \in ColumnKeys, NEW rows, IsRows(rows)
    PROVE  IsData(Change(k, rows)) /\ DOMAIN Change(k, rows) = {k} /\ Change(k, rows)[k] = rows
BY ColumnKeysAre DEF Change, IsData, IsValue

LEMMA LengthChangeIs ==
    ASSUME NEW p \in Patterns, NEW length \in 1..DefaultLength
    PROVE  IsData(Change(LengthKey(p), length)) /\ DOMAIN Change(LengthKey(p), length) = {LengthKey(p)}
BY LengthKeyIs DEF IsData, IsValue, Change

Covers(f, g, h) ==
    /\ DOMAIN h = DOMAIN f \union DOMAIN g
    /\ \A k \in DOMAIN h : h[k] = IF k \in DOMAIN f THEN f[k] ELSE g[k]

LEMMA MergedIs ==
    ASSUME NEW f, NEW g, IsData(f), IsData(g)
    PROVE  IsData(Joined(f, g)) /\ Joined(f, g) \in Transactions /\ Covers(f, g, Joined(f, g))
<1> DEFINE h == Joined(f, g)
           K == DOMAIN f \union DOMAIN g
<1>1. h = [k \in K |-> IF k \in DOMAIN f THEN f[k] ELSE g[k]]  BY DEF Joined
<1> HIDE DEF h
<1>2. DOMAIN h = K /\ \A k \in K : h[k] = IF k \in DOMAIN f THEN f[k] ELSE g[k]  BY <1>1
<1>3. K \in SUBSET SheetKeys  BY DEF IsData
<1>4. \A k \in K : IsValue(k, h[k])  BY <1>2 DEF IsData
<1> HIDE DEF K
<1>5. h \in Transactions  BY <1>3, <1>4, <1>1, <1>2 DEF Transactions, IsValue, Values, IsRows
<1> QED  BY <1>5, <1>2, <1>3, <1>4 DEF h, Covers, K, IsData

LEMMA ExtendStepIs ==
    ASSUME NEW u, Base(u), NEW y \in TypedSteps, NEW t, IsData(t), NEW loc, IsLoc(loc), loc # None => InAlbum(u, loc)
    PROVE  ExtendStep(u, y, t, loc) \in TypedSteps /\ Widens(y, u.data, t, ExtendStep(u, y, t, loc))
<1> DEFINE fresh == [k \in DOMAIN t \ DOMAIN y.old |-> u.data[k]]
           located == y.loc = None /\ loc # None
           before == Joined(fresh, y.old)
           after == Joined(t, y.new)
           at == IF located THEN loc ELSE y.loc
           inst == IF located THEN u.order[loc.sys + 1] ELSE y.pinst
           x == [old |-> before, new |-> after, loc |-> at, pinst |-> inst]
<1>1. ExtendStep(u, y, t, loc) = x  BY DEF ExtendStep
<1>2. IsSheet(u.data) /\ IsOrder(u.order)  BY DEF Base, Deep
<1>3. IsData(fresh) /\ DOMAIN fresh = DOMAIN t \ DOMAIN y.old /\ \A k \in DOMAIN fresh : fresh[k] = u.data[k]
  BY <1>2 DEF IsSheet, IsData
<1> HIDE DEF fresh
<1>4. IsData(y.old) /\ IsData(y.new) /\ DOMAIN y.old = DOMAIN y.new /\ (y.loc = None \/ y.loc \in Locations)
  BY StepIs
<1>5. IsData(before) /\ before \in Transactions /\ Covers(fresh, y.old, before)  BY <1>3, <1>4, MergedIs
<1>6. IsData(after) /\ after \in Transactions /\ Covers(t, y.new, after)  BY <1>4, MergedIs
<1> HIDE DEF before, after
<1>7. at = None \/ at \in Locations  BY <1>4 DEF IsLoc
<1>8. inst \in {None} \union (Patterns \X (0..MaxInstance))
  BY LocIs, <1>2, PatternIs DEF IsLoc, InAlbum, TypedSteps, Steps
<1> HIDE DEF at, inst
<1>9. x.old = before /\ x.new = after /\ x.loc = at  OBVIOUS
<1>10. x \in Steps  BY <1>5, <1>6, <1>7, <1>8 DEF Steps
<1> HIDE DEF x
<1>11. DOMAIN before = DOMAIN after  BY <1>3, <1>4, <1>5, <1>6 DEF Covers
<1>12. IsStep(x)  BY <1>5, <1>6, <1>7, <1>9, <1>11 DEF IsStep
<1>13. Widens(y, u.data, t, x)  BY <1>3, <1>4, <1>5, <1>6, <1>9, <1>11 DEF Widens, Covers
<1> QED  BY <1>1, <1>10, <1>12, <1>13 DEF TypedSteps

\* What is put in the store.
LEMMA PutIs ==
    ASSUME NEW u, IsUi(u), IsSheet(u.data), NEW t, IsData(t)
    PROVE  /\ Overwrites(u.data, t, Put(u, t).data) /\ IsSheet(Put(u, t).data)
           /\ IsUi(Put(u, t)) /\ \A f \in Fields : f # "data" => Put(u, t)[f] = u[f]
<1> DEFINE d == [k \in SheetKeys |-> IF k \in DOMAIN t THEN t[k] ELSE u.data[k]]
           v == [u EXCEPT !.data = d]
<1>1. Put(u, t) = v  BY DEF Put
<1>2. DOMAIN d = SheetKeys /\ \A k \in SheetKeys : d[k] = IF k \in DOMAIN t THEN t[k] ELSE u.data[k]  OBVIOUS
<1> HIDE DEF d
<1>3. IsUi(v) /\ v.data = d /\ \A f \in Fields : f # "data" => v[f] = u[f]  BY DEF IsUi, Fields
<1> HIDE DEF v
<1> QED  BY <1>1, <1>2, <1>3 DEF Overwrites, IsSheet, IsData

LEMMA CommitIs ==
    ASSUME NEW u, Base(u)
    PROVE  /\ Base(Commit(u)) /\ Commit(u).step = None /\ IsUi(Commit(u))
           /\ \A f \in Fields : f \notin {"past", "step"} => Commit(u)[f] = u[f]
<1>1. IsUi(u) /\ Face(u) /\ Deep(u)  BY DEF Base
<1>2. CASE u.step = None  BY <1>1, <1>2 DEF Commit
<1>3. CASE u.step # None
  <2> DEFINE S == Append(u.past, u.step)
             v == [u EXCEPT !.past = S, !.step = None]
  <2>1. Commit(u) = v  BY <1>3 DEF Commit
  <2>2. u.past \in Seq(TypedSteps) /\ u.step \in TypedSteps /\ Fits(u.data, u.damaged, S, "old", "new")
    BY <1>1, <1>3 DEF Deep, IsHistory
  <2>3. S \in Seq(TypedSteps)  BY <2>2, AppendIs
  <2> HIDE DEF S
  <2>4. IsUi(v) /\ v.past = S /\ v.step = None /\ \A f \in Fields : f \notin {"past", "step"} => v[f] = u[f]
    BY <1>1 DEF IsUi, Fields
  <2> HIDE DEF v
  <2>5. /\ v.data = u.data /\ v.order = u.order /\ v.damaged = u.damaged /\ v.future = u.future
        /\ v.sel = u.sel /\ v.start = u.start /\ v.stop = u.stop /\ v.chordStart = u.chordStart /\ v.clip = u.clip
        /\ v.last = u.last /\ v.control = u.control /\ v.field = u.field /\ v.replace = u.replace /\ v.connected = u.connected
    BY <2>4 DEF Fields
  <2>6. Deep(v)  BY <1>1, <2>2, <2>3, <2>4, <2>5 DEF Deep, IsHistory
  <2> QED  BY <2>1, <2>4, <2>6, <1>1, <2>5 DEF Base, Face
<1> QED  BY <1>2, <1>3

LEMMA CommitEdits == ASSUME NEW u, Base(u), Current(u) PROVE Edits(u, Commit(u)) /\ Commit(u).data = u.data
<1> DEFINE v == Commit(u)
<1> HIDE DEF v
<1> QED  BY FutureLen, CommitIs DEF Edits, v, Current, Stored, Fields

\* A transaction: a step that is begun or made longer, and the new values.
LEMMA TransactionIs ==
    ASSUME NEW u, Base(u), NEW t, IsData(t), NEW loc, IsLoc(loc), loc # None => InAlbum(u, loc), NEW commit
    PROVE  LET w == Put(AddStep(u, t, loc, commit), t)
           IN Changes(u, w) /\ Overwrites(u.data, t, w.data) /\ w.last = u.last
<1> DEFINE y == IF u.step = None THEN NewStep ELSE u.step
           x == ExtendStep(u, y, t, loc)
           u1 == [u EXCEPT !.step = x, !.future = <<>>]
           P == Append(u.past, x)
           u2 == [u1 EXCEPT !.past = P, !.step = None]
           v == IF commit THEN u2 ELSE u1
           w == Put(v, t)
<1>1. IsUi(u) /\ Deep(u) /\ Face(u)  BY DEF Base
<1>2. y \in TypedSteps  BY <1>1, NewStepIs DEF Deep, IsHistory
<1>3. Fits(u.data, u.damaged, Append(u.past, y), "old", "new") /\ u.past \in Seq(TypedSteps)
  BY <1>1, FitsStarted DEF Deep, IsHistory
<1>4. u.step = None \/ u.step # None  OBVIOUS
<1> HIDE DEF y
<1>5. x \in TypedSteps /\ Widens(y, u.data, t, x)  BY <1>2, ExtendStepIs
<1>6. AddStep(u, t, loc, commit) = IF commit THEN Commit(u1) ELSE u1  BY DEF AddStep, y
<1> HIDE DEF x
<1>7. x # None  BY <1>5, StepIs
<1>8. /\ IsUi(u1) /\ u1.step = x /\ u1.future = <<>> /\ u1.past = u.past
      /\ \A f \in Fields : f \notin {"step", "future"} => u1[f] = u[f]  BY <1>1 DEF IsUi, Fields
<1>9. AddStep(u, t, loc, commit) = v  BY <1>6, <1>7, <1>8 DEF Commit
<1> HIDE DEF u1
<1>10. IsUi(u2) /\ u2.step = None /\ u2.past = P /\ \A f \in Fields : f \notin {"step", "past"} => u2[f] = u1[f]
  BY <1>8 DEF IsUi, Fields
<1> HIDE DEF P, u2
<1>11. /\ IsUi(v) /\ v.future = <<>>
       /\ (v.past = P /\ v.step = None) \/ (v.past = u.past /\ v.step = x)
       /\ \A f \in Fields : f \notin {"step", "past", "future"} => v[f] = u[f]  BY <1>8, <1>10 DEF Fields
<1> HIDE DEF v
<1>12. v.data = u.data  BY <1>11 DEF Fields
<1>13. /\ Overwrites(v.data, t, w.data) /\ IsSheet(w.data)
       /\ IsUi(w) /\ \A f \in Fields : f # "data" => w[f] = v[f]  BY <1>11, PutIs, <1>1, <1>12 DEF Deep
<1> HIDE DEF w
<1>14. /\ w.future = <<>>
       /\ (w.past = P /\ w.step = None) \/ (w.past = u.past /\ w.step = x)
       /\ \A f \in Fields : f \notin {"step", "past", "future", "data"} => w[f] = u[f]  BY <1>13, <1>11 DEF Fields
<1>15. /\ w.order = u.order /\ w.damaged = u.damaged /\ w.playing = u.playing /\ w.recording = u.recording
       /\ w.sel = u.sel /\ w.start = u.start /\ w.stop = u.stop /\ w.chordStart = u.chordStart /\ w.clip = u.clip
       /\ w.last = u.last /\ w.control = u.control /\ w.field = u.field /\ w.replace = u.replace /\ w.connected = u.connected
  BY <1>14 DEF Fields
<1>16. Fits(w.data, w.damaged, P, "old", "new")  BY <1>2, <1>3, <1>5, <1>12, <1>13, <1>15, FitsWidened DEF P
<1>17. P \in Seq(TypedSteps)  BY <1>3, <1>5, AppendIs DEF P
<1>18. Fits(w.data, w.damaged, <<>>, "new", "old") /\ <<>> \in Seq(TypedSteps)  BY FitsEmpty
<1>19. IsHistory(w.data, w.damaged, w.past, w.step, w.future)
  BY <1>14, <1>16, <1>17, <1>18, <1>3, <1>5, <1>7 DEF IsHistory, P
<1>20. Face(w)  BY <1>1, <1>15 DEF Face
<1>21. Len(w.future) <= Len(u.future)  BY FutureLen, <1>14
<1>22. Changes(u, w)  BY <1>13, <1>15, <1>20, <1>21, <1>1, <1>19 DEF Changes, Base, Deep
<1> QED  BY <1>9, <1>12, <1>13, <1>15, <1>22 DEF w

LEMMA AddTransactionIs ==
    ASSUME NEW u, Base(u), HasAlbum(u), NEW t, IsData(t), NEW commit
    PROVE  LET w == AddTransaction(u, t, commit)
           IN Changes(u, w) /\ Overwrites(u.data, t, w.data) /\ w.last = u.last
<1> DEFINE u1 == Located(u)
           loc == Location(u1)
           w == Put(AddStep(u1, t, loc, commit), t)
<1>1. AddTransaction(u, t, commit) = w  BY DEF AddTransaction
<1>2. Stays(u, u1)  BY LocatedIs
<1>3. u1.last = u.last  BY DEF Located, Base, IsUi, Fields
<1> HIDE DEF u1
<1>4. Base(u1) /\ HasAlbum(u1) /\ u1.data = u.data  BY <1>2 DEF Stays, Kept, HasAlbum
<1>5. loc \in Locations /\ InAlbum(u1, loc)  BY <1>4, LocationIs
<1> HIDE DEF loc
<1>6. Changes(u1, w) /\ Overwrites(u1.data, t, w.data) /\ w.last = u1.last  BY <1>4, <1>5, TransactionIs DEF IsLoc
<1> HIDE DEF w
<1> QED  BY <1>1, <1>2, <1>4, <1>6, <1>3, StayChanges

\* The fields that say nothing about the sheet.
Free == {"chord", "chordNotes", "down", "edit", "spin", "failed"}
LEMMA FreeStays ==
    ASSUME NEW u, Base(u), NEW v, IsUi(v), \A f \in Fields \ Free : v[f] = u[f] PROVE Stays(u, v)
BY StaysBy DEF Fields, Free, Base, Face, Kept

LEMMA FailStays == ASSUME NEW u, Base(u) PROVE Stays(u, Fail(u)) /\ Stays(u, Raise(u))
<1> DEFINE v == Fail(u)
           w == Raise(u)
<1> HIDE DEF v, w
<1> QED  BY FreeStays DEF v, w, Raise, IsUi, Fields, Free, Fail, Base

\* The selected area.
LEMMA AreaStays ==
    ASSUME NEW u, Base(u), NEW a, IsLoc(a), NEW b, IsLoc(b)
    PROVE  /\ Stays(u, [u EXCEPT !.start = a, !.stop = b]) /\ Stays(u, [u EXCEPT !.start = a])
           /\ Stays(u, [u EXCEPT !.stop = b])
<1> DEFINE v == [u EXCEPT !.start = a, !.stop = b]
           w == [u EXCEPT !.start = a]
           x == [u EXCEPT !.stop = b]
<1>1. IsUi(u) /\ Face(u)  BY DEF Base
<1>2. Kept(u, v) /\ Face(v) /\ v.last = u.last  BY <1>1 DEF Kept, IsUi, Fields, Face
<1>3. Kept(u, w) /\ Face(w) /\ w.last = u.last  BY <1>1 DEF Kept, IsUi, Fields, Face
<1>4. Kept(u, x) /\ Face(x) /\ x.last = u.last  BY <1>1 DEF Kept, IsUi, Fields, Face
<1> HIDE DEF v, w, x
<1> QED  BY <1>2, <1>3, <1>4, StaysBy DEF v, w, x

LEMMA ClearAreaStays == ASSUME NEW u, Base(u) PROVE Stays(u, ClearArea(u))
BY AreaStays DEF IsLoc, ClearArea

LEMMA SetStartStays == ASSUME NEW u, Base(u), NEW loc \in Locations PROVE Stays(u, TrySetStart(u, loc))
BY AreaStays, StaysSame DEF IsLoc, TrySetStart

LEMMA SetStopStays == ASSUME NEW u, Base(u), NEW loc \in Locations PROVE Stays(u, SetStop(u, loc))
BY AreaStays, FailStays DEF IsLoc, SetStop

LEMMA CornersAre ==
    ASSUME NEW u, Base(u), HasArea(u)
    PROVE  /\ TopLeft(u) \in Locations /\ BottomRight(u) \in Locations
           /\ TopLeft(u).ts <= BottomRight(u).ts /\ TopLeft(u).col <= BottomRight(u).col
           /\ TopLeft(u).sys = u.start.sys
<1>1. /\ u.start.sys \in Nat /\ u.start.col \in ColNums /\ u.start.ts \in Nat /\ u.start.idx \in Nat
      /\ u.stop.col \in ColNums /\ u.stop.ts \in Nat /\ u.stop.idx \in Nat  BY LocIs DEF HasArea, Base, Face, IsLoc
<1>2. \A a, b \in Nat : Lower(a, b) \in Nat /\ Upper(a, b) \in Nat /\ Lower(a, b) <= Upper(a, b)  BY DEF Lower, Upper
<1> DEFINE p == Lower(u.start.col, u.stop.col)
           q == Upper(u.start.col, u.stop.col)
           r == Lower(u.start.ts, u.stop.ts)
           s == Upper(u.start.ts, u.stop.ts)
           i == IF IsSlice(u) THEN Lower(u.start.idx, u.stop.idx) ELSE 0
           j == IF IsSlice(u) THEN Upper(u.start.idx, u.stop.idx) ELSE 0
<1>3. /\ TopLeft(u) = [sys |-> u.start.sys, col |-> p, ts |-> r, idx |-> i]
      /\ BottomRight(u) = [sys |-> u.start.sys, col |-> q, ts |-> s, idx |-> j]  BY DEF TopLeft, BottomRight, Corner
<1>4. p \in ColNums /\ q \in ColNums /\ r \in Nat /\ s \in Nat /\ p <= q /\ r <= s
  BY <1>1, <1>2, SheetAssumption DEF Lower, Upper, ColNums
<1>5. i \in Nat /\ j \in Nat  BY <1>1, <1>2
<1> HIDE DEF p, q, r, s, i, j
<1> QED  BY <1>1, <1>3, <1>4, <1>5 DEF Locations

LEMMA AreaLocationIs ==
    ASSUME NEW u, Base(u), HasArea(u), InAlbum(u, TopLeft(u)), NEW c \in AreaColumns(u)
    PROVE  /\ c \in ColNums /\ AreaLocation(u, c) \in Locations /\ InAlbum(u, AreaLocation(u, c))
           /\ AreaLocation(u, c).col = c
<1>1. TopLeft(u) \in Locations /\ BottomRight(u) \in Locations  BY CornersAre
<1>2. c \in ColNums
  <2> DEFINE a == TopLeft(u).col
             b == BottomRight(u).col
  <2>1. c \in a..b  BY DEF AreaColumns
  <2>2. a \in ColNums /\ b \in ColNums  BY <1>1, LocIs
  <2> HIDE DEF a, b
  <2> QED  BY <2>1, <2>2, SheetAssumption DEF ColNums
<1> QED  BY <1>2, <1>1 DEF InAlbum, AreaLocation, Locations

-----------------------------------------------------------------------------
\* The edits of the sheet manager.

LEMMA SeenIs == ASSUME NEW u, Base(u) PROVE Stays(u, Seen(u)) /\ Stays(u, Cached(Located(u), Location(u)))
<1> DEFINE u1 == Located(u)
           loc == Location(u)
           v == Cached(u1, loc)
<1>1. Stays(u, u1)  BY LocatedIs
<1>2. loc \in Locations /\ (HasAlbum(u) => InAlbum(u, loc))  BY LocationIs
<1> HIDE DEF u1, loc
<1>3. Stays(u, v)  BY <1>1, StaysTrans, <1>2, CachedIs DEF Stays, Kept, HasAlbum, InAlbum
<1> QED  BY <1>3 DEF Seen, v, u1, loc

LEMMA ChangesAllowed == ASSUME NEW u, AllowEditing(u), NEW v, Changes(u, v), Current(v) PROVE Edits(u, v)
  BY DEF Edits, Changes

\* One column is given new rows, and asked for again.
LEMMA ColumnEditIs ==
    ASSUME NEW u, Base(u), HasAlbum(u), NEW k \in ColumnKeys, NEW rows, IsRows(rows), NEW commit
    PROVE  /\ Changes(u, AddTransaction(u, Change(k, rows), commit))
           /\ AddTransaction(u, Change(k, rows), commit).data[k] = rows
<1> DEFINE t == Change(k, rows)
<1>1. IsData(t) /\ DOMAIN t = {k} /\ t[k] = rows  BY ChangeIs
<1> HIDE DEF t
<1> DEFINE w == AddTransaction(u, t, commit)
<1> HIDE DEF w
<1> QED  BY <1>1, ColumnKeysAre, AddTransactionIs DEF w, t, Overwrites

LEMMA AddTriggerIs ==
    ASSUME NEW u, Base(u), Current(u), NEW ev \in Events, NEW commit PROVE Edits(u, AddTrigger(u, ev, commit))
<1> DEFINE loc == Location(u)
           k == KeyAt(u, loc)
           u1 == Cached(Located(u), loc)
           rows == IF u.replace THEN EditReplaceOrInsert(RowsAt(u1, loc), loc.ts, loc.idx, ev)
                   ELSE EditInsert(RowsAt(u1, loc), loc.ts, loc.idx, ev)
           w == AddTransaction(u1, Change(k, rows), commit)
           u2 == AddColumnUpdate(w, loc)
           across == u.chord /\ loc.col < MaxColumn
           next == IF across THEN [loc EXCEPT !.col = @ + 1]
                   ELSE [loc EXCEPT !.idx = Clamp(@ + 1, CountAt(Stored(u2, k), loc.ts))]
           v == SetLocation(u2, next)
           lost == ~across /\ ~IsPlaced(u1, loc)
<1>1. AddTrigger(u, ev, commit) = IF ~CanEdit(u) THEN u ELSE IF lost THEN Fail(u2) ELSE v  BY DEF AddTrigger
<1>2. CASE ~CanEdit(u)  BY <1>1, <1>2, StaysSame, StaysEdits
<1>3. CASE CanEdit(u)
  <2>1. HasAlbum(u) /\ AllowEditing(u)  BY <1>3 DEF CanEdit, EditingEnabled
  <2>2. loc \in Locations /\ InAlbum(u, loc)  BY <2>1, LocationIs
  <2>3. k \in ColumnKeys  BY <2>2, KeyIs DEF Base, Deep
  <2>4. Stays(u, u1)  BY SeenIs
  <2> HIDE DEF loc, k, u1
  <2>5. Base(u1) /\ HasAlbum(u1) /\ InAlbum(u1, loc)  BY <2>1, <2>2, <2>4 DEF Stays, Kept, HasAlbum, InAlbum
  <2>6. loc.ts \in Nat /\ loc.idx \in Nat /\ loc.col \in ColNums  BY <2>2, LocIs
  <2>7. IsRows(rows) /\ HasRow(rows, loc.ts)  BY <2>6, InsertIs, ReplaceOrInsertIs, <2>2, <2>5, RowsAtIs
  <2> HIDE DEF rows
  <2>8. Changes(u1, w) /\ w.data[k] = rows  BY <2>3, <2>5, <2>7, ColumnEditIs
  <2> HIDE DEF w
  <2>9. Changes(u, w)  BY <2>4, <2>8, StayChanges
  <2>10. Kept(w, u2) /\ Base(u2) /\ Current(u2)  BY FlushIs, UpdateIs, <2>9 DEF Changes
  <2> HIDE DEF u2, lost
  <2>14. Stays(u2, Fail(u2))  BY <2>10, FailStays
  <2>11. next \in Locations
    <3> DEFINE n == Clamp(loc.idx + 1, CountAt(Stored(u2, k), loc.ts))
    <3>1. n \in Nat
      <4> DEFINE m == CountAt(Stored(u2, k), loc.ts)
      <4>1. m \in Nat  BY <2>7, CountIs, EventsAssumption, <2>8, <2>10 DEF IsRows, Kept, Stored
      <4> HIDE DEF m
      <4>2. Clamp(loc.idx + 1, m) \in Nat  BY <4>1, <2>6 DEF Clamp
      <4> QED  BY <4>2 DEF m
    <3>2. loc.col < MaxColumn => loc.col + 1 \in ColNums  BY <2>6, SheetAssumption DEF ColNums
    <3>3. [loc EXCEPT !.idx = n] \in Locations  BY <3>1, <2>2, LocIs
    <3>4. loc.col < MaxColumn => [loc EXCEPT !.col = loc.col + 1] \in Locations  BY <3>2, <2>2, LocIs
    <3> QED  BY <3>3, <3>4
  <2> HIDE DEF next
  <2>12. Stays(u2, v)  BY <2>10, SetLocationIs, <2>11 DEF IsLoc
  <2> HIDE DEF v
  <2>13. /\ Changes(u, v) /\ Current(v)
         /\ Changes(u, Fail(u2)) /\ Current(Fail(u2))  BY <2>10, <2>12, <2>14, ChangesStay, <2>9 DEF Stays
  <2> QED  BY <2>1, <2>13, <1>1, <1>3, ChangesAllowed
<1> QED  BY <1>2, <1>3

LEMMA TryRemoveTriggerIs == ASSUME NEW u, Base(u), Current(u) PROVE Edits(u, TryRemoveTrigger(u))
<1> DEFINE loc == Location(u)
           k == KeyAt(u, loc)
           u1 == Cached(Located(u), loc)
           rows == EditRemove(RowsAt(u1, loc), loc.ts, loc.idx)
           w == AddTransaction(u1, Change(k, rows), ~u.chord)
           v == AddColumnUpdate(w, loc)
           no == ~CanEdit(u) \/ ~HasTrigger(RowsAt(u1, loc), loc.ts, loc.idx)
<1>1. TryRemoveTrigger(u) = IF no THEN u ELSE v  BY DEF TryRemoveTrigger
<1>2. CASE no  BY <1>1, <1>2, StaysSame, StaysEdits
<1>3. CASE ~no
  <2>1. HasAlbum(u) /\ AllowEditing(u)  BY <1>3 DEF CanEdit, EditingEnabled
  <2>2. loc \in Locations /\ InAlbum(u, loc)  BY <2>1, LocationIs
  <2>3. k \in ColumnKeys  BY <2>2, KeyIs DEF Base, Deep
  <2>4. Stays(u, u1)  BY SeenIs
  <2> HIDE DEF loc, k, u1
  <2>5. Base(u1) /\ HasAlbum(u1) /\ InAlbum(u1, loc)  BY <2>1, <2>2, <2>4 DEF Stays, Kept, HasAlbum, InAlbum
  <2>6. IsRows(rows)  BY RemoveIs, <2>2, <2>5, RowsAtIs, LocIs, <1>3 DEF HasTrigger
  <2> HIDE DEF rows
  <2>7. Changes(u1, w)  BY <2>3, <2>5, <2>6, ColumnEditIs
  <2> HIDE DEF w
  <2>8. Changes(u, w)  BY <2>4, <2>7, StayChanges
  <2>9. Edits(u, v)  BY <2>1, <2>8, ChangesEdit, UpdateIs
  <2> QED  BY <2>9, <1>1, <1>3
<1> QED  BY <1>2, <1>3

-----------------------------------------------------------------------------
\* Areas, copying and pasting.

\* A rectangle of columns that are given new rows.
LEMMA RectIs == ASSUME NEW t, DOMAIN t \subseteq ColumnKeys, \A k \in DOMAIN t : IsRows(t[k]) PROVE IsData(t)
BY ColumnKeysAre DEF IsData, IsValue

LEMMA RectEditIs ==
    ASSUME NEW u, Base(u), HasAlbum(u), NEW t, IsData(t), NEW commit
    PROVE  /\ Changes(u, AddTransaction(FlushColumn(u), t, commit))
           /\ Current(AddTransaction(FlushColumn(u), t, commit))
<1> DEFINE v == FlushColumn(u)
           w == AddTransaction(v, t, commit)
<1>1. Kept(u, v) /\ Base(v) /\ Current(v)  BY FlushIs
<1>2. v.last = None  BY DEF FlushColumn, Base, IsUi, Fields
<1> HIDE DEF v
<1>3. Changes(v, w) /\ w.last = v.last  BY <1>1, AddTransactionIs DEF Kept, HasAlbum
<1> HIDE DEF w
<1> QED  BY <1>2, <1>3, StayChanges, <1>1 DEF w, v, Current, Stays

LEMMA TryRemoveAreaIs ==
    ASSUME NEW u, Base(u), Current(u), AllowEditing(u) PROVE Edits(u, TryRemoveArea(u))
<1> DEFINE top == TopLeft(u)
           bottom == BottomRight(u)
           u1 == Cached(u, top)
           k == KeyAt(u, top)
           rows == EditRemoveSlice(RowsAt(u1, top), top.ts, top.idx, bottom.idx)
           rect == [x \in {KeyAt(u, AreaLocation(u, c)) : c \in AreaColumns(u)} |->
                       EditRemoveRows(VisitedRows(u, top, [top EXCEPT !.col = x[3]]), top.ts, bottom.ts)]
           a == AddTransaction(FlushColumn(u), rect, ~u.chord)
           b == AddTransaction(u1, Change(k, rows), ~u.chord)
           c == SetLocation(b, top)
           d == AddColumnUpdate(c, top)
<1>1. TryRemoveArea(u) =
        IF ~HasArea(u) THEN u
        ELSE IF ~InAlbum(u, top) THEN Raise(u)
        ELSE IF ~IsSlice(u) THEN ClearArea(a)
        ELSE IF ~HasTrigger(RowsAt(u1, top), top.ts, 0) THEN Fail(u)
        ELSE ClearArea(d)  BY DEF TryRemoveArea
<1>2. CASE ~HasArea(u)  BY <1>1, <1>2, StaysSame, StaysEdits
<1>3. CASE HasArea(u) /\ ~InAlbum(u, top)  BY <1>1, <1>3, FailStays, StaysEdits
<1>4. CASE HasArea(u) /\ InAlbum(u, top)
  <2>1. top \in Locations /\ bottom \in Locations  BY <1>4, CornersAre
  <2>2. top.ts \in Nat /\ top.idx \in Nat /\ bottom.ts \in Nat /\ bottom.idx \in Nat /\ top.sys \in Nat
    BY <2>1, LocIs
  <2>3. IsOrder(u.order) /\ HasAlbum(u)  BY <1>4, OrderIs, <2>2, AlbumIs DEF Base, Deep, InAlbum
  <2>4. CASE ~IsSlice(u)
    <3>1. \A q \in AreaColumns(u) :
             LET l == AreaLocation(u, q) IN KeyAt(u, l) \in ColumnKeys /\ KeyAt(u, l)[3] = q
                  /\ IsRows(VisitedRows(u, top, [top EXCEPT !.col = q]))
      <4> SUFFICES ASSUME NEW q \in AreaColumns(u)
                   PROVE  /\ KeyAt(u, AreaLocation(u, q)) \in ColumnKeys /\ KeyAt(u, AreaLocation(u, q))[3] = q
                          /\ IsRows(VisitedRows(u, top, [top EXCEPT !.col = q]))  OBVIOUS
      <4> DEFINE l == AreaLocation(u, q)
                 m == [top EXCEPT !.col = q]
      <4>1. q \in ColNums /\ l \in Locations /\ InAlbum(u, l) /\ l.col = q  BY <1>4, AreaLocationIs
      <4>2. m \in Locations /\ m.sys = top.sys  BY <2>1, <4>1 DEF Locations
      <4> HIDE DEF l, m
      <4>3. KeyAt(u, l) \in ColumnKeys /\ KeyAt(u, l) = ColKey(PatternAt(u, l.sys), q) /\ PatternAt(u, l.sys) \in Patterns
        BY <4>1, <2>3, KeyIs
      <4> QED  BY <4>3, <4>1, ColumnKeyIs, <4>2, VisitedRowsAre, <1>4 DEF l, m, InAlbum
    <3>2. DOMAIN rect \subseteq ColumnKeys /\ \A x \in DOMAIN rect : IsRows(rect[x])
      <4> HIDE DEF top, bottom
      <4>1. ASSUME NEW x \in DOMAIN rect PROVE IsRows(rect[x])
        <5>1. PICK q \in AreaColumns(u) : x = KeyAt(u, AreaLocation(u, q))  OBVIOUS
        <5>2. x[3] = q /\ IsRows(VisitedRows(u, top, [top EXCEPT !.col = q]))  BY <5>1, <3>1
        <5>3. rect[x] = EditRemoveRows(VisitedRows(u, top, [top EXCEPT !.col = q]), top.ts, bottom.ts)  BY <5>2
        <5> HIDE DEF rect
        <5> QED  BY <5>2, <5>3, RemoveRowsIs
      <4> QED  BY <4>1, <3>1
    <3> HIDE DEF rect
    <3>3. Changes(u, a) /\ Current(a)  BY <2>3, <3>2, RectIs, RectEditIs
    <3> HIDE DEF a
    <3> QED  BY <1>1, <1>4, <2>4, ChangesAllowed, <3>3, ChangesStay, ClearAreaStays DEF Stays, Changes
  <2>5. CASE IsSlice(u) /\ ~HasTrigger(RowsAt(u1, top), top.ts, 0)  BY <1>1, <1>4, <2>5, FailStays, StaysEdits
  <2>6. CASE IsSlice(u) /\ HasTrigger(RowsAt(u1, top), top.ts, 0)
    <3>1. Stays(u, u1)  BY <1>4, <2>1, CachedIs
    <3>2. k \in ColumnKeys  BY <1>4, <2>1, <2>3, KeyIs
    <3> HIDE DEF u1, k, top, bottom
    <3>3. Base(u1) /\ HasAlbum(u1) /\ InAlbum(u1, top)  BY <1>4, <2>3, <3>1 DEF Stays, Kept, HasAlbum, InAlbum
    <3>4. IsRows(rows)  BY <2>2, RemoveSliceIs, <2>1, <2>6, <3>3, RowsAtIs DEF HasTrigger
    <3> HIDE DEF rows
    <3>5. Changes(u1, b)  BY <3>2, <3>3, <3>4, ColumnEditIs
    <3> HIDE DEF b
    <3>6. Changes(u, b)  BY <3>1, <3>5, StayChanges
    <3>7. Stays(b, c)  BY <3>6, SetLocationIs, <2>1 DEF Changes, IsLoc
    <3> HIDE DEF c
    <3>8. Edits(u, d)  BY ChangesEdit, UpdateIs, <3>6, <3>7, ChangesStay
    <3> HIDE DEF d
    <3> QED  BY <1>1, <1>4, <2>6, <3>8, ClearAreaStays, StaysEdits, EditsTrans DEF Edits
  <2> QED  BY <2>4, <2>5, <2>6
<1> QED  BY <1>2, <1>3, <1>4

\* Copying fills the clipboard.
LEMMA ClipStays == ASSUME NEW u, Base(u), NEW c, IsClip(c) PROVE Stays(u, [u EXCEPT !.clip = c])
<1> DEFINE v == [u EXCEPT !.clip = c]
<1>1. Kept(u, v) /\ Face(v) /\ v.last = u.last  BY DEF Kept, IsUi, Fields, Face, Base
<1> HIDE DEF v
<1> QED  BY <1>1, StaysBy DEF v

LEMMA CopyAreaIs == ASSUME NEW u, Base(u), HasArea(u) PROVE Stays(u, CopyArea(u))
<1> DEFINE top == TopLeft(u)
           bottom == BottomRight(u)
           rows == RowsAt(u, top)
           width == bottom.col - top.col + 1
           columns == [i \in 1..width |-> RowsInRange(VisitedRows(u, top, AreaLocation(u, top.col + i - 1)), top.ts, bottom.ts)]
           rect == [kind |-> "rect", height |-> bottom.ts - top.ts, columns |-> columns]
           slice == [kind |-> "slice", evs |-> Slice(RowAt(rows, top.ts), top.idx, bottom.idx)]
           end == AreaLocation(u, bottom.col)
           before == Visited(u, top, end)
           x == Cached(before, end)
           y == Cached(u, top)
<1>1. CopyArea(u) =
        IF ~InAlbum(u, top) THEN Raise(u)
        ELSE IF ~IsSlice(u) THEN [x EXCEPT !.clip = rect]
        ELSE IF HasRow(rows, top.ts) /\ bottom.idx <= CountAt(rows, top.ts) THEN [y EXCEPT !.clip = slice]
        ELSE Raise(u)  BY DEF CopyArea
<1>2. top \in Locations /\ bottom \in Locations /\ top.ts <= bottom.ts /\ top.col <= bottom.col  BY CornersAre
<1>3. /\ top.ts \in Nat /\ top.idx \in Nat /\ bottom.ts \in Nat /\ bottom.idx \in Nat
      /\ top.col \in ColNums /\ bottom.col \in ColNums  BY <1>2, LocIs
<1>4. top.col \in Nat /\ bottom.col \in Nat  BY <1>3, SheetAssumption DEF ColNums
<1>5. CASE ~InAlbum(u, top)  BY <1>1, <1>5, FailStays
<1>6. CASE InAlbum(u, top) /\ ~IsSlice(u)
  <2>1. width \in Nat  BY <1>2, <1>4
  <2>2. \A i \in 1..width : columns[i] \in Seq(Row)
    <3> SUFFICES ASSUME NEW i \in 1..width PROVE columns[i] \in Seq(Row)  OBVIOUS
    <3> DEFINE l == AreaLocation(u, top.col + i - 1)
    <3>1. top.col + i - 1 \in AreaColumns(u)  BY <1>4 DEF AreaColumns
    <3>2. l \in Locations /\ InAlbum(u, l)  BY <3>1, <1>6, AreaLocationIs
    <3>3. columns[i] = RowsInRange(VisitedRows(u, top, l), top.ts, bottom.ts)  OBVIOUS
    <3> HIDE DEF l, columns
    <3> QED  BY <3>3, <1>3, RowsInRangeIs, <3>2, VisitedRowsAre
  <2>3. columns \in [1..width -> Seq(Row)]  BY <2>2
  <2> HIDE DEF columns, width
  <2>4. IsClip(rect)  BY <2>1, <2>3, <1>2, <1>3 DEF IsClip
  <2> HIDE DEF rect
  <2>5. Stays(u, x)
    <3>1. bottom.col \in AreaColumns(u)  BY <1>2, <1>4 DEF AreaColumns
    <3>2. end \in Locations /\ InAlbum(u, end)  BY <3>1, <1>6, AreaLocationIs
    <3> HIDE DEF end
    <3>3. Stays(u, before)  BY FlushStays, StaysSame DEF Visited
    <3> HIDE DEF before
    <3>4. Stays(before, x)  BY <3>2, <3>3, CachedIs DEF Stays, Kept, InAlbum
    <3> QED  BY <3>3, <3>4, StaysTrans
  <2> HIDE DEF x
  <2>6. Stays(x, [x EXCEPT !.clip = rect])  BY <2>4, <2>5, ClipStays DEF Stays
  <2>7. Stays(u, [x EXCEPT !.clip = rect])  BY <2>5, <2>6, StaysTrans
  <2> QED  BY <2>7, <1>1, <1>6
<1>7. CASE InAlbum(u, top) /\ IsSlice(u)
  <2>1. CASE HasRow(rows, top.ts) /\ bottom.idx <= CountAt(rows, top.ts)
    <3>1. IsClip(slice)  BY <1>3, SliceIs, <2>1, RowsAreAny, RowAtIs, <1>2, <1>7, RowsAtIs DEF IsClip
    <3> HIDE DEF slice
    <3>2. Stays(u, y)  BY <1>2, <1>7, CachedIs
    <3> HIDE DEF y
    <3> QED  BY <1>1, <1>7, <2>1, <3>2, StaysTrans, <3>1, ClipStays DEF Stays
  <2>2. CASE ~(HasRow(rows, top.ts) /\ bottom.idx <= CountAt(rows, top.ts))  BY <1>1, <1>7, <2>2, FailStays
  <2> QED  BY <2>1, <2>2
<1> QED  BY <1>5, <1>6, <1>7

LEMMA PasteRectIs ==
    ASSUME NEW u, Base(u), HasAlbum(u), IsClip(u.clip), u.clip # None, u.clip.kind = "rect",
           NEW loc, loc = Location(u), NEW t,
           t = [k \in {KeyAt(u, [loc EXCEPT !.col = @ + i - 1]) : i \in 1..Lower(Len(u.clip.columns), MaxColumn + 1 - loc.col)} |->
                    EditReplaceRows(VisitedRows(u, loc, [loc EXCEPT !.col = k[3]]), loc.ts, loc.ts + u.clip.height,
                                    u.clip.columns[k[3] - loc.col + 1], Length(u, PatternAt(u, loc.sys)))]
    PROVE  IsData(t)
<1> DEFINE columns == u.clip.columns
           width == Lower(Len(columns), MaxColumn + 1 - loc.col)
           At(i) == [loc EXCEPT !.col = loc.col + i - 1]
<1>1. columns \in Seq(Seq(Row)) /\ Len(columns) \in Nat  BY DEF IsClip
<1>2. loc \in Locations /\ InAlbum(u, loc)  BY LocationIs
<1>3. loc.col \in Nat /\ loc.col <= MaxColumn /\ loc.ts \in Nat  BY <1>2, LocIs, SheetAssumption DEF ColNums
<1>4. IsOrder(u.order)  BY DEF Base, Deep
<1>5. t = [k \in {KeyAt(u, At(i)) : i \in 1..width} |->
              EditReplaceRows(VisitedRows(u, loc, [loc EXCEPT !.col = k[3]]), loc.ts, loc.ts + u.clip.height,
                              columns[k[3] - loc.col + 1], Length(u, PatternAt(u, loc.sys)))]  OBVIOUS
<1>6. ASSUME NEW i \in 1..width
      PROVE  /\ i \in 1..Len(columns) /\ loc.col + i - 1 \in ColNums /\ (loc.col + i - 1) - loc.col + 1 = i
             /\ columns[i] \in Seq(Row)
  <2>1. i \in Nat /\ 1 <= i /\ i <= Len(columns) /\ i <= MaxColumn + 1 - loc.col
    <3> DEFINE l == Len(columns)
               w == MaxColumn + 1 - loc.col
    <3>1. l \in Nat /\ w \in Int  BY <1>1, <1>3, SheetAssumption
    <3>2. width = Lower(l, w)  OBVIOUS
    <3> HIDE DEF width, l, w
    <3>3. width \in Int /\ width <= l /\ width <= w  BY <3>1, <3>2 DEF Lower
    <3>4. i \in Nat /\ 1 <= i /\ i <= l /\ i <= w  BY <3>1, <3>3
    <3> QED  BY <3>4 DEF l, w
  <2>2. loc.col + i - 1 \in ColNums  BY <2>1, <1>3, SheetAssumption DEF ColNums
  <2>3. (loc.col + i - 1) - loc.col + 1 = i  BY <2>1, <1>3
  <2>4. columns[i] \in Seq(Row)  BY <2>1, <1>1
  <2> QED  BY <2>1, <2>2, <2>3, <2>4, <1>1
<1> HIDE DEF columns, width
<1>7. ASSUME NEW i \in 1..width
      PROVE  KeyAt(u, At(i)) \in ColumnKeys /\ KeyAt(u, At(i))[3] = loc.col + i - 1 /\ IsRows(VisitedRows(u, loc, At(i)))
  <2> DEFINE l == At(i)
  <2>1. l \in Locations /\ l.sys = loc.sys /\ l.col = loc.col + i - 1  BY <1>2, <1>6 DEF Locations
  <2> HIDE DEF l
  <2>2. InAlbum(u, l)  BY <1>2, <2>1 DEF InAlbum
  <2>3. KeyAt(u, l) \in ColumnKeys /\ KeyAt(u, l) = ColKey(PatternAt(u, l.sys), l.col) /\ PatternAt(u, l.sys) \in Patterns /\ l.col \in ColNums
    BY <1>4, <2>1, <2>2, KeyIs
  <2>4. KeyAt(u, l)[3] = l.col  BY <2>3, ColumnKeyIs
  <2>5. IsRows(VisitedRows(u, loc, l))  BY <2>1, <2>2, VisitedRowsAre
  <2> QED  BY <2>1, <2>3, <2>4, <2>5 DEF l
<1>8. DOMAIN t = {KeyAt(u, At(i)) : i \in 1..width}  BY <1>5
<1>9. \A i \in 1..width : KeyAt(u, At(i)) \in ColumnKeys  BY <1>7
<1>10. DOMAIN t \subseteq ColumnKeys
  <2> SUFFICES ASSUME NEW k \in DOMAIN t PROVE k \in ColumnKeys  OBVIOUS
  <2> HIDE DEF At
  <2>1. PICK i \in 1..width : k = KeyAt(u, At(i))  BY <1>8
  <2> QED  BY <2>1, <1>9
<1>11. ASSUME NEW k \in DOMAIN t PROVE IsRows(t[k])
  <2>1. PICK i \in 1..width : k = KeyAt(u, At(i))  BY <1>5
  <2>2. k[3] = loc.col + i - 1 /\ IsRows(VisitedRows(u, loc, At(i)))  BY <2>1, <1>7
  <2>3. k[3] - loc.col + 1 = i  BY <2>2, <1>6
  <2>4. t[k] = EditReplaceRows(VisitedRows(u, loc, At(i)), loc.ts, loc.ts + u.clip.height, columns[i], Length(u, PatternAt(u, loc.sys)))
    <3>1. [loc EXCEPT !.col = k[3]] = At(i)  BY <2>2
    <3>2. t[k] = EditReplaceRows(VisitedRows(u, loc, [loc EXCEPT !.col = k[3]]), loc.ts, loc.ts + u.clip.height,
                                 columns[k[3] - loc.col + 1], Length(u, PatternAt(u, loc.sys)))  BY <1>5
    <3> QED  BY <2>3, <3>1, <3>2
  <2>5. columns[i] \in Seq(Row)  BY <1>6
  <2> DEFINE v == VisitedRows(u, loc, At(i))
             length == Length(u, PatternAt(u, loc.sys))
  <2>6. IsRows(v)  BY <2>2
  <2>7. t[k] = EditReplaceRows(v, loc.ts, loc.ts + u.clip.height, columns[i], length)  BY <2>4
  <2> HIDE DEF v, length
  <2> QED  BY <2>5, <2>6, <2>7, <1>3, ReplaceRowsIs
<1> QED  BY <1>10, <1>11, RectIs

LEMMA PasteAreaIs ==
    ASSUME NEW u, Base(u), Current(u), AllowEditing(u), u.clip # None PROVE Edits(u, PasteArea(u))
<1> DEFINE loc == Location(u)
           u0 == Located(u)
           u1 == Cached(u0, loc)
           rows == RowsAt(u1, loc)
           from == IF IsSlice(u) THEN TopLeft(u).idx ELSE loc.idx
           new == IF IsSlice(u) THEN EditReplaceSlice(rows, loc.ts, from, BottomRight(u).idx, u.clip.evs)
                  ELSE EditInsertSlice(rows, loc.ts, from, u.clip.evs)
           k == KeyAt(u, loc)
           width == Lower(Len(u.clip.columns), MaxColumn + 1 - loc.col)
           rect == [x \in {KeyAt(u, [loc EXCEPT !.col = @ + i - 1]) : i \in 1..width} |->
                    EditReplaceRows(VisitedRows(u, loc, [loc EXCEPT !.col = x[3]]), loc.ts, loc.ts + u.clip.height,
                                    u.clip.columns[x[3] - loc.col + 1], Length(u, PatternAt(u, loc.sys)))]
           a == AddTransaction(FlushColumn(u0), rect, ~u.chord)
           b == AddTransaction(u1, Change(k, new), ~u.chord)
           next == [loc EXCEPT !.idx = from + Len(u.clip.evs)]
           c == SetLocation(b, next)
           d == AddColumnUpdate(c, loc)
<1>1. PasteArea(u) =
        IF ~HasAlbum(u) THEN Raise(u)
        ELSE IF u.clip.kind = "rect" /\ ~IsPlaced(u, loc) THEN Fail(u)
        ELSE IF u.clip.kind = "rect" THEN a
        ELSE IF IsSlice(u) /\ ~HasRow(rows, loc.ts) THEN Raise(u)
        ELSE d  BY DEF PasteArea
<1>2. CASE ~HasAlbum(u)  BY <1>1, <1>2, FailStays, StaysEdits
<1>3. CASE HasAlbum(u) /\ u.clip.kind = "rect"
  <2>1. IsData(rect)  BY <1>3, PasteRectIs DEF Base, Face
  <2> HIDE DEF rect
  <2>2. Stays(u, u0)  BY LocatedIs
  <2> HIDE DEF u0
  <2>3. Changes(u0, a) /\ Current(a)  BY <2>1, RectEditIs, <1>3, <2>2 DEF Stays, Kept, HasAlbum
  <2> HIDE DEF a
  <2>4. Edits(u, a)  BY <2>3, ChangesAllowed, <2>2, StayChanges
  <2>5. Edits(u, Fail(u))  BY FailStays, StaysEdits
  <2> QED  BY <1>1, <1>3, <2>4, <2>5
<1>4. CASE HasAlbum(u) /\ u.clip.kind # "rect" /\ IsSlice(u) /\ ~HasRow(rows, loc.ts)
  BY <1>1, <1>4, FailStays, StaysEdits
<1>5. CASE HasAlbum(u) /\ u.clip.kind # "rect" /\ ~(IsSlice(u) /\ ~HasRow(rows, loc.ts))
  <2>1. u.clip.evs \in Seq(Events) /\ Len(u.clip.evs) \in Nat  BY <1>5 DEF Base, Face, IsClip
  <2>2. loc \in Locations /\ InAlbum(u, loc)  BY <1>5, LocationIs
  <2>3. k \in ColumnKeys  BY <2>2, KeyIs DEF Base, Deep
  <2>4. Stays(u, u1)  BY SeenIs
  <2>5. loc.ts \in Nat /\ loc.idx \in Nat  BY <2>2, LocIs
  <2>6. IsSlice(u) => TopLeft(u).idx \in Nat /\ BottomRight(u).idx \in Nat  BY CornersAre, LocIs DEF IsSlice
  <2> HIDE DEF loc, k, u1, a, d
  <2>7. Base(u1) /\ HasAlbum(u1) /\ InAlbum(u1, loc)  BY <1>5, <2>2, <2>4 DEF Stays, Kept, HasAlbum, InAlbum
  <2>8. IsRows(rows)  BY <2>2, <2>7, RowsAtIs
  <2>9. from \in Nat  BY <2>5, <2>6
  <2> HIDE DEF rows, from
  <2>10. IsRows(new)  BY <2>1, <2>5, <2>6, <2>8, <2>9, ReplaceSliceIs, InsertSliceIs, <1>5
  <2> HIDE DEF new
  <2>11. Changes(u1, b)  BY <2>3, <2>7, <2>10, ColumnEditIs
  <2> HIDE DEF b
  <2>12. Changes(u, b)  BY <2>4, <2>11, StayChanges
  <2>13. IsLoc(next)
    <3>1. from + Len(u.clip.evs) \in Nat  BY <2>1, <2>9
    <3> QED  BY <3>1, <2>2, LocIs DEF IsLoc
  <2> HIDE DEF next
  <2>14. Stays(b, c)  BY <2>12, <2>13, SetLocationIs DEF Changes
  <2> HIDE DEF c
  <2> QED  BY ChangesEdit, UpdateIs, <1>1, <1>5, <2>12, <2>14, ChangesStay DEF d
<1> QED  BY <1>2, <1>3, <1>4, <1>5

LEMMA ConvertIs ==
    ASSUME NEW u, Base(u), Current(u), AllowEditing(u), Convertible(u) PROVE Edits(u, ConvertTrigger(u))
<1> DEFINE loc == Location(u)
           rows == RowsAt(u, loc)
           ev == TriggerAt(rows, loc.ts, loc.idx)
           new == EditReplaceOrInsert(rows, loc.ts, loc.idx, Convert(ev))
           k == KeyAt(u, loc)
           u1 == Cached(Located(u), loc)
           b == AddTransaction(u1, Change(k, new), TRUE)
           d == AddColumnUpdate(b, loc)
<1>1. ConvertTrigger(u) = d  BY DEF ConvertTrigger
<1>2. HasAlbum(u) /\ HasTrigger(rows, loc.ts, loc.idx) /\ Convert(ev) # None  BY DEF Convertible
<1>3. loc \in Locations /\ InAlbum(u, loc)  BY <1>2, LocationIs
<1>4. k \in ColumnKeys  BY <1>3, KeyIs DEF Base, Deep
<1>5. Stays(u, u1)  BY SeenIs
<1> HIDE DEF loc, k, u1
<1>6. IsRows(rows) /\ loc.ts \in Nat /\ loc.idx \in Nat  BY <1>3, RowsAtIs, LocIs
<1>7. ev \in Events
  <2> DEFINE row == RowAt(rows, loc.ts)
  <2>1. HasRow(rows, loc.ts) /\ loc.idx < Len(row)  BY <1>2 DEF HasTrigger, CountAt
  <2>2. row \in Seq(Events)  BY <2>1, <1>6, RowsAreAny, RowAtIs
  <2>3. ev = row[loc.idx + 1]  BY DEF TriggerAt
  <2> HIDE DEF row, ev
  <2>4. loc.idx + 1 \in 1..Len(row) /\ DOMAIN row = 1..Len(row)  BY <2>1, <2>2, <1>6
  <2> QED  BY <2>2, <2>3, <2>4
<1> HIDE DEF ev, rows
<1>8. IsRows(new)  BY <1>6, ReplaceOrInsertIs, <1>2, <1>7, EventsAssumption
<1> HIDE DEF new
<1>9. Changes(u1, b)  BY <1>4, <1>8, ColumnEditIs, <1>2, <1>5 DEF Stays, Kept, HasAlbum
<1> HIDE DEF b
<1> QED  BY <1>1, ChangesEdit, UpdateIs, <1>5, <1>9, StayChanges

\* The length of a pattern is no column.
LEMMA SetPatternLengthIs ==
    ASSUME NEW u, Base(u), Current(u), NEW p \in Patterns, NEW length \in 1..DefaultLength, NEW final
    PROVE  Edits(u, SetPatternLength(u, p, length, final))
<1> DEFINE t == Change(LengthKey(p), length)
           w == Put(AddStep(u, t, None, final), t)
<1>1. SetPatternLength(u, p, length, final) = w  BY DEF SetPatternLength
<1>2. IsData(t) /\ DOMAIN t = {LengthKey(p)}  BY LengthChangeIs
<1> HIDE DEF t
<1>3. Changes(u, w) /\ Overwrites(u.data, t, w.data) /\ w.last = u.last  BY <1>2, TransactionIs DEF IsLoc
<1> HIDE DEF w
<1>4. \A k \in ColumnKeys : w.data[k] = u.data[k]  BY <1>2, <1>3, ColumnKeysAre, LengthKeyIs DEF Overwrites
<1>5. Current(w)  BY <1>3, <1>4 DEF Base, Face, IsLast, Current, Stored
<1> QED  BY <1>1, <1>3, <1>4, <1>5 DEF Changes, Edits

-----------------------------------------------------------------------------
\* Modes, movements and selections.

LEMMA EditsSame == ASSUME NEW u, Base(u), Current(u) PROVE Edits(u, u)
  BY StaysSame, StaysEdits

LEMMA EditsStay == ASSUME NEW u, Base(u), NEW v, NEW w, Edits(u, v), Stays(v, w) PROVE Edits(u, w)
BY StaysEdits, EditsTrans DEF Edits

LEMMA StayEdits == ASSUME NEW u, Base(u), Current(u), NEW v, NEW w, Stays(u, v), Edits(v, w) PROVE Edits(u, w)
BY StaysEdits, EditsTrans

\* The modes.
LEMMA ChordStays ==
    ASSUME NEW u, Base(u), NEW c, NEW s, IsLoc(s)
    PROVE  Stays(u, [u EXCEPT !.chord = c, !.chordStart = s]) /\ Stays(u, [u EXCEPT !.chordStart = s])
<1> DEFINE v == [u EXCEPT !.chord = c, !.chordStart = s]
           w == [u EXCEPT !.chordStart = s]
<1>1. IsUi(u) /\ Face(u)  BY DEF Base
<1>2. Kept(u, v) /\ Face(v) /\ v.last = u.last  BY <1>1 DEF Kept, IsUi, Fields, Face
<1>3. Kept(u, w) /\ Face(w) /\ w.last = u.last  BY <1>1 DEF Kept, IsUi, Fields, Face
<1> HIDE DEF v, w
<1> QED  BY <1>2, <1>3, StaysBy DEF v, w

LEMMA FieldStays ==
    ASSUME NEW u, Base(u), NEW e, NEW f \in {None, "type", "argument"}
    PROVE  Stays(u, [u EXCEPT !.edit = e, !.field = f]) /\ Stays(u, [u EXCEPT !.field = f])
<1> DEFINE v == [u EXCEPT !.edit = e, !.field = f]
           w == [u EXCEPT !.field = f]
<1>1. IsUi(u) /\ Face(u)  BY DEF Base
<1>2. Kept(u, v) /\ Face(v) /\ v.last = u.last  BY <1>1 DEF Kept, IsUi, Fields, Face
<1>3. Kept(u, w) /\ Face(w) /\ w.last = u.last  BY <1>1 DEF Kept, IsUi, Fields, Face
<1> HIDE DEF v, w
<1> QED  BY <1>2, <1>3, StaysBy DEF v, w

LEMMA FreeSetStays ==
    ASSUME NEW u, Base(u), NEW x, NEW y
    PROVE  /\ Stays(u, [u EXCEPT !.chord = x, !.chordNotes = y]) /\ Stays(u, [u EXCEPT !.chord = x])
           /\ Stays(u, [u EXCEPT !.chordNotes = x]) /\ Stays(u, [u EXCEPT !.down = x])
           /\ Stays(u, [u EXCEPT !.spin = x]) /\ Stays(u, [u EXCEPT !.down = x, !.chordNotes = y])
<1>1. ASSUME NEW v, v \in {[u EXCEPT !.chord = x, !.chordNotes = y], [u EXCEPT !.chord = x], [u EXCEPT !.chordNotes = x],
                           [u EXCEPT !.down = x], [u EXCEPT !.spin = x], [u EXCEPT !.down = x, !.chordNotes = y]}
      PROVE  Stays(u, v)  BY <1>1, FreeStays DEF IsUi, Fields, Free, Base
<1> QED  BY <1>1

LEMMA ModesStay ==
    ASSUME NEW u, Base(u), NEW on \in BOOLEAN
    PROVE  Stays(u, SetTypewriterConnected(u, on)) /\ Stays(u, SetReplaceMode(u, on))
<1> DEFINE v == SetTypewriterConnected(u, on)
           w == SetReplaceMode(u, on)
<1>1. IsUi(u) /\ Face(u)  BY DEF Base
<1>2. Kept(u, v) /\ Face(v) /\ v.last = u.last  BY <1>1 DEF Kept, IsUi, Fields, Face, SetTypewriterConnected
<1>3. Kept(u, w) /\ Face(w) /\ w.last = u.last  BY <1>1 DEF Kept, IsUi, Fields, Face, SetReplaceMode
<1> HIDE DEF v, w
<1> QED  BY <1>2, <1>3, StaysBy DEF v, w

LEMMA SetChordModeIs ==
    ASSUME NEW u, Base(u), Current(u), NEW enabled PROVE Edits(u, SetChordMode(u, enabled))
<1> DEFINE begun == Located(u)
           here == Location(u)
           next == IF here.col = u.chordStart.col THEN here
                   ELSE ClampedLocation(u, [u.chordStart EXCEPT !.idx = @ + 1])
           moved == SetLocation(begun, next)
           ended == [moved EXCEPT !.chordStart = None]
           back == IF u.chordStart = None THEN u ELSE ended
           off == IF u.chord THEN Commit(back) ELSE back
           lost == u.chordStart # None /\ HasAlbum(u) /\ here.col # u.chordStart.col /\ ~InAlbum(u, u.chordStart)
           on == [begun EXCEPT !.chord = TRUE, !.chordStart = here]
           stays == [u EXCEPT !.chord = TRUE]
           done == [off EXCEPT !.chord = FALSE, !.chordNotes = {}]
<1>1. SetChordMode(u, enabled) =
        IF enabled THEN IF u.chordStart = None THEN on ELSE stays
        ELSE IF lost THEN Raise(u) ELSE done  BY DEF SetChordMode
<1>2. Stays(u, begun) /\ here \in Locations /\ IsLoc(here)  BY LocatedIs, LocationIs DEF IsLoc
<1>3. Edits(u, on)
  <2> HIDE DEF begun, here
  <2>1. Stays(begun, on)  BY <1>2, ChordStays DEF Stays
  <2> QED  BY <1>2, <2>1, StaysTrans, StaysEdits
<1>4. Edits(u, stays)  BY FreeSetStays, StaysEdits
<1>5. ASSUME ~lost PROVE Edits(u, done)
  <2>1. Edits(u, back)
    <3>1. CASE u.chordStart = None  BY <3>1, EditsSame
    <3>2. CASE u.chordStart # None
      <4>1. IsLoc(next)
        <5> DEFINE l == [u.chordStart EXCEPT !.idx = @ + 1]
        <5>1. u.chordStart \in Locations  BY <3>2 DEF Base, Face, IsLoc
        <5>2. l \in Locations /\ l.sys = u.chordStart.sys  BY <5>1 DEF Locations
        <5>3. CASE here.col = u.chordStart.col  BY <5>3, <1>2
        <5>4. CASE here.col # u.chordStart.col  BY <5>4, <1>5, <3>2, <5>2, ClampedIs DEF InAlbum, l
        <5> QED  BY <5>3, <5>4
      <4> HIDE DEF begun, next
      <4>2. Stays(begun, moved)  BY <4>1, <1>2, SetLocationIs DEF Stays
      <4> HIDE DEF moved
      <4>3. Stays(moved, ended)  BY <4>2, ChordStays DEF Stays, IsLoc
      <4> HIDE DEF ended
      <4> QED  BY <3>2, StaysEdits, <1>2, <4>2, <4>3, StaysTrans
    <3> QED  BY <3>1, <3>2
  <2> HIDE DEF back
  <2>2. Edits(u, off)  BY <2>1, CommitEdits, EditsTrans DEF Edits
  <2> HIDE DEF off
  <2>3. Stays(off, done)  BY <2>2, FreeSetStays DEF Edits
  <2> HIDE DEF done
  <2> QED  BY <2>2, <2>3, EditsStay
<1> HIDE DEF on, stays, done, lost
<1> QED  BY <1>1, <1>3, <1>4, <1>5, FailStays, StaysEdits

-----------------------------------------------------------------------------
\* The keyboard of the view.

LEMMA SeenSame ==
    ASSUME NEW u, Base(u), HasAlbum(u)
    PROVE  /\ Base(Seen(u)) /\ Stays(u, Seen(u)) /\ Seen(u).order = u.order /\ HasAlbum(Seen(u))
           /\ Location(u) \in Locations /\ InAlbum(u, Location(u))
           /\ \A loc : InAlbum(Seen(u), loc) <=> InAlbum(u, loc)
<1> DEFINE s == Seen(u)
<1> HIDE DEF s
<1> QED  BY LocationIs, SeenIs DEF s, Stays, Kept, HasAlbum, InAlbum

LEMMA GoTo == ASSUME NEW u, Base(u), HasAlbum(u), NEW loc \in Locations PROVE Stays(u, SetLocation(Seen(u), loc))
<1> DEFINE s == Seen(u)
<1> HIDE DEF s
<1> QED  BY StaysTrans, SetLocationIs, SeenSame DEF s, IsLoc

LEMMA MoveTriggerIndexIs ==
    ASSUME NEW u, Base(u), HasAlbum(u), NEW index \in Nat PROVE Stays(u, MoveTriggerIndex(u, index))
<1> DEFINE loc == [Location(u) EXCEPT !.idx = index]
           to == ClampedLocation(Seen(u), loc)
<1>1. Location(u) \in Locations /\ InAlbum(u, Location(u)) /\ Base(Seen(u)) /\ HasAlbum(Seen(u))
      /\ \A l : InAlbum(Seen(u), l) <=> InAlbum(u, l)  BY SeenSame
<1>2. loc \in Locations /\ loc.sys = Location(u).sys  BY <1>1 DEF Locations
<1> HIDE DEF loc
<1>3. to \in Locations  BY <1>1, <1>2, ClampedIs DEF InAlbum
<1> HIDE DEF to
<1> QED  BY <1>3, GoTo DEF MoveTriggerIndex, to, loc

LEMMA MoveTrowIs == ASSUME NEW u, Base(u), HasAlbum(u), NEW right \in BOOLEAN PROVE Stays(u, MoveTrow(u, right))
<1> DEFINE loc == Location(u)
           rows == RowsAt(u, loc)
           stays == \/ ~HasRow(rows, loc.ts)
                    \/ right /\ loc.idx >= CountAt(rows, loc.ts)
                    \/ ~right /\ loc.idx = 0
           to == [loc EXCEPT !.idx = IF right THEN loc.idx + 1 ELSE loc.idx - 1]
<1>1. MoveTrow(u, right) = IF stays THEN Seen(u) ELSE SetLocation(Seen(u), to)  BY DEF MoveTrow
<1>2. loc \in Locations /\ Stays(u, Seen(u))  BY SeenSame
<1>3. ASSUME ~stays PROVE to \in Locations  BY <1>2, LocIs, <1>3
<1> HIDE DEF stays, to
<1> QED  BY <1>1, <1>2, <1>3, GoTo

LEMMA MoveColumnIs == ASSUME NEW u, Base(u), HasAlbum(u), NEW right \in BOOLEAN PROVE Stays(u, MoveColumn(u, right))
<1> DEFINE loc == Location(u)
           col == IF right THEN Lower(loc.col + 1, MaxColumn) ELSE IF loc.col = 0 THEN 0 ELSE loc.col - 1
           l == [loc EXCEPT !.col = col, !.idx = 0]
           to == ClampedLocation(u, l)
           v == Located(u)
<1>1. MoveColumn(u, right) = SetLocation(v, to)  BY DEF MoveColumn
<1>2. loc \in Locations /\ InAlbum(u, loc)  BY LocationIs
<1>3. col \in ColNums  BY SheetAssumption, <1>2, LocIs DEF ColNums, Lower
<1> HIDE DEF col
<1>4. l \in Locations /\ l.sys = loc.sys  BY <1>2, <1>3 DEF Locations
<1> HIDE DEF l
<1>5. IsLoc(to)  BY <1>4, ClampedIs, <1>2 DEF InAlbum
<1>6. Stays(u, v)  BY LocatedIs
<1> HIDE DEF to, v
<1> QED  BY <1>1, <1>6, StaysTrans, <1>5, SetLocationIs DEF Stays

LEMMA LastStopIs ==
    ASSUME NEW u, Base(u), NEW loc \in Locations, InAlbum(u, loc), loc.sys # 0
    PROVE  LastStop(u, loc) \in Nat /\ loc.sys - 1 \in Nat
<1> DEFINE end == Length(u, PatternAt(u, loc.sys - 1))
<1>1. loc.sys \in Nat /\ IsOrder(u.order) /\ IsSheet(u.data)  BY LocIs DEF Base, Deep
<1>2. loc.sys - 1 \in Nat /\ loc.sys < Len(u.order) /\ Len(u.order) \in Nat  BY <1>1, OrderIs DEF InAlbum
<1>3. PatternAt(u, loc.sys - 1) \in Patterns  BY <1>1, <1>2, PatternIs
<1>4. end \in 1..DefaultLength  BY <1>1, <1>3, LengthIs
<1>5. LastStop(u, loc) = end \/ LastStop(u, loc) = end - 1  BY DEF LastStop
<1> HIDE DEF end
<1> QED  BY <1>2, <1>4, <1>5, SheetAssumption

LEMMA MoveUpIs == ASSUME NEW u, Base(u), HasAlbum(u) PROVE Stays(u, MoveUp(u))
<1> DEFINE loc == Location(u)
           a == [loc EXCEPT !.ts = loc.ts - 1, !.idx = 0]
           b == [loc EXCEPT !.sys = loc.sys - 1, !.idx = 0, !.ts = LastStop(u, loc)]
<1>1. MoveUp(u) = IF loc.ts > 0 THEN SetLocation(Seen(u), a)
                  ELSE IF loc.sys = 0 \/ u.start # None THEN Located(u)
                  ELSE SetLocation(Seen(u), b)  BY DEF MoveUp
<1>2. loc \in Locations /\ InAlbum(u, loc)  BY LocationIs
<1>3. loc.ts > 0 => a \in Locations
  <2>1. loc.ts > 0 => loc.ts - 1 \in Nat  BY <1>2, LocIs
  <2> QED  BY <2>1, <1>2 DEF Locations
<1>4. loc.sys # 0 => b \in Locations  BY <1>2, LastStopIs DEF Locations
<1> HIDE DEF a, b
<1> QED  BY <1>1, <1>3, <1>4, GoTo, LocatedIs

LEMMA MoveDownIs == ASSUME NEW u, Base(u), HasAlbum(u) PROVE Stays(u, MoveDown(u))
<1> DEFINE loc == Location(u)
           length == Length(u, PatternAt(u, loc.sys))
           ts == Lower(loc.ts + 1, length)
           a == [loc EXCEPT !.ts = ts, !.idx = 0]
           b == [loc EXCEPT !.sys = loc.sys + 1, !.ts = 0, !.idx = 0]
<1>1. MoveDown(u) = IF loc.ts < length \/ u.start # None \/ loc.sys + 1 = Len(u.order)
                    THEN SetLocation(Seen(u), a) ELSE SetLocation(Seen(u), b)  BY DEF MoveDown
<1>2. loc \in Locations /\ InAlbum(u, loc)  BY LocationIs
<1>3. loc.ts \in Nat /\ loc.sys \in Nat /\ IsOrder(u.order) /\ IsSheet(u.data)  BY <1>2, LocIs DEF Base, Deep
<1>4. length \in Nat  BY <1>3, LengthIs, <1>2, KeyIs
<1> HIDE DEF length
<1>5. ts \in Nat  BY <1>3, <1>4 DEF Lower
<1> HIDE DEF ts
<1>6. a \in Locations  BY <1>2, <1>5 DEF Locations
<1>7. loc.sys + 1 \in Nat  BY <1>3
<1>8. b \in Locations  BY <1>2, <1>7 DEF Locations
<1> HIDE DEF a, b
<1> QED  BY <1>1, <1>6, <1>8, GoTo

LEMMA ExtendSidewaysIs ==
    ASSUME NEW u, Base(u), HasAlbum(u), NEW right \in BOOLEAN PROVE Stays(u, ExtendSideways(u, right))
  BY MoveColumnIs, MoveTrowIs DEF ExtendSideways

LEMMA ExtendBegins ==
    ASSUME NEW u, Base(u)
    PROVE  Stays(u, TrySetStart(Located(u), Location(u))) /\ Base(TrySetStart(Located(u), Location(u)))
           /\ (HasAlbum(u) => HasAlbum(TrySetStart(Located(u), Location(u))))
<1> DEFINE v == Located(u)
           w == TrySetStart(v, Location(u))
<1>1. Stays(u, v) /\ Location(u) \in Locations  BY LocatedIs, LocationIs
<1> HIDE DEF v
<1> HIDE DEF w
<1> QED  BY <1>1, StaysTrans, SetStartStays DEF Stays, Kept, HasAlbum, v, w

LEMMA ExtendEnds == ASSUME NEW u, Base(u) PROVE Stays(u, SetStop(Located(u), Location(u)))
<1> DEFINE v == Located(u)
           w == SetStop(v, Location(u))
<1> HIDE DEF v
<1> HIDE DEF w
<1> QED  BY StaysTrans, SetStopStays, LocatedIs, LocationIs DEF v, w, Stays

\* Whole columns, and the whole pattern.
LEMMA SelectIs ==
    ASSUME NEW u, Base(u), NEW begin \in Locations, NEW end \in Locations
    PROVE  Stays(u, SetStop(TrySetStart(ClearArea(Located(u)), begin), end))
<1> DEFINE a == Located(u)
           b == ClearArea(a)
           c == TrySetStart(b, begin)
           d == SetStop(c, end)
<1>1. Stays(u, a)  BY LocatedIs
<1> HIDE DEF a
<1>2. Stays(a, b)  BY <1>1, ClearAreaStays DEF Stays
<1> HIDE DEF b
<1>3. Stays(b, c)  BY <1>2, SetStartStays DEF Stays
<1> HIDE DEF c
<1>4. Stays(c, d)  BY <1>3, SetStopStays DEF Stays
<1> HIDE DEF d
<1> QED  BY <1>1, <1>2, <1>3, <1>4, StaysTrans DEF a, b, c, d

LEMMA SelectColumnsIs == ASSUME NEW u, Base(u) PROVE Stays(u, SelectColumns(u))
<1> DEFINE a == IF HasArea(u) THEN TopLeft(u) ELSE Location(u)
           b == IF HasArea(u) THEN BottomRight(u) ELSE Location(u)
           begin == [a EXCEPT !.ts = 0, !.idx = 0]
           length == Length(u, PatternAt(u, a.sys))
           end == [b EXCEPT !.ts = length + 1, !.idx = 0]
<1>1. SelectColumns(u) = IF ~InAlbum(u, a) THEN Raise(u)
                         ELSE SetStop(TrySetStart(ClearArea(Located(u)), begin), end)  BY DEF SelectColumns
<1>2. a \in Locations /\ b \in Locations  BY CornersAre, LocationIs
<1> HIDE DEF a, b
<1>3. begin \in Locations  BY <1>2 DEF Locations
<1>4. InAlbum(u, a) => end \in Locations
  <2>1. InAlbum(u, a) => length \in Nat  BY <1>2, KeyIs, LengthIs DEF Base, Deep
  <2> HIDE DEF length
  <2>2. InAlbum(u, a) => length + 1 \in Nat  BY <2>1
  <2> QED  BY <2>2, <1>2 DEF Locations
<1> HIDE DEF begin, end
<1> QED  BY <1>1, <1>3, <1>4, FailStays, SelectIs

LEMMA SelectAllIs == ASSUME NEW u, Base(u) PROVE Stays(u, SelectAll(u))
<1> DEFINE loc == Location(u)
           begin == [loc EXCEPT !.col = 0, !.ts = 0, !.idx = 0]
           length == Length(u, PatternAt(u, loc.sys))
           end == [loc EXCEPT !.col = MaxColumn, !.idx = 0, !.ts = length + 1]
<1>1. SelectAll(u) = IF ~HasAlbum(u) THEN Raise(u)
                     ELSE SetStop(TrySetStart(ClearArea(Located(u)), begin), end)  BY DEF SelectAll
<1>2. loc \in Locations /\ (HasAlbum(u) => InAlbum(u, loc))  BY LocationIs
<1> HIDE DEF loc
<1>3. 0 \in ColNums /\ MaxColumn \in ColNums  BY SheetAssumption DEF ColNums
<1>4. begin \in Locations  BY <1>2, <1>3 DEF Locations
<1>5. HasAlbum(u) => end \in Locations
  <2>1. HasAlbum(u) => length \in Nat  BY <1>2, KeyIs, LengthIs DEF Base, Deep
  <2> HIDE DEF length
  <2>2. HasAlbum(u) => length + 1 \in Nat  BY <2>1
  <2> QED  BY <2>2, <1>2, <1>3 DEF Locations
<1> HIDE DEF begin, end
<1> QED  BY <1>1, <1>4, <1>5, FailStays, SelectIs

-----------------------------------------------------------------------------
\* Focus and fields.

LEMMA SelectedIs == ASSUME NEW u, Base(u), AtTrigger(u) PROVE SelectedTrigger(u) \in Events
<1> DEFINE loc == Location(u)
           rows == RowsAt(u, loc)
           row == RowAt(rows, loc.ts)
<1>1. HasAlbum(u) /\ HasRow(rows, loc.ts) /\ loc.idx < Len(row)  BY DEF AtTrigger, HasTrigger, CountAt
<1>2. SelectedTrigger(u) = row[loc.idx + 1]  BY DEF SelectedTrigger, TriggerAt
<1>3. IsRows(rows) /\ loc.idx \in Nat  BY RowsAtIs, LocIs, <1>1, LocationIs
<1> HIDE DEF rows, loc
<1>4. row \in Seq(Events)  BY <1>1, <1>3, RowsAreAny, RowAtIs
<1> HIDE DEF row
<1> QED  BY <1>2, <1>4, <1>1, <1>3

LEMMA FocusLostIs == ASSUME NEW u, Base(u), Current(u) PROVE Edits(u, FocusLost(u))
<1> DEFINE v == [u EXCEPT !.edit = FALSE, !.field = None]
<1>1. Stays(u, v)  BY FieldStays
<1>2. FocusLost(u) = SetChordMode(v, FALSE)  BY DEF FocusLost
<1> HIDE DEF v
<1> QED  BY <1>1, <1>2, StayEdits, SetChordModeIs DEF Stays

LEMMA LengthDoneIs == ASSUME NEW u, Base(u), Current(u) PROVE Edits(u, LengthDone(u))
<1>1. CASE ~u.spin \/ ~HasAlbum(u)  BY <1>1, EditsSame DEF LengthDone
<1>2. CASE ~(~u.spin \/ ~HasAlbum(u))
  <2> DEFINE p == PatternAt(u, Location(u).sys)
             length == Length(u, p)
             v == Located(u)
             w == SetPatternLength(v, p, length, TRUE)
             x == [w EXCEPT !.spin = FALSE]
  <2>1. LengthDone(u) = x  BY <1>2 DEF LengthDone
  <2>2. Location(u) \in Locations /\ InAlbum(u, Location(u)) /\ IsOrder(u.order) /\ IsSheet(u.data)
    BY <1>2, LocationIs DEF Base, Deep
  <2>3. p \in Patterns  BY <2>2, KeyIs
  <2> HIDE DEF p
  <2>4. length \in 1..DefaultLength  BY <2>2, <2>3, LengthIs
  <2> HIDE DEF length
  <2>5. Stays(u, v)  BY LocatedIs
  <2> HIDE DEF v
  <2>6. Edits(v, w)  BY <2>3, <2>4, SetPatternLengthIs, <2>5 DEF Stays
  <2> HIDE DEF w
  <2>7. Stays(w, x)  BY <2>6, FreeSetStays DEF Edits
  <2> QED  BY <2>1, <2>7, EditsStay, <2>5, <2>6, StayEdits
<1> QED  BY <1>1, <1>2

LEMMA FocusGainedIs == ASSUME NEW u, Base(u), Current(u) PROVE Edits(u, FocusGained(u))
<1> DEFINE v == LengthDone(u)
           w == [v EXCEPT !.edit = TRUE, !.field = None]
<1>1. FocusGained(u) = w  BY DEF FocusGained
<1>2. Edits(u, v)  BY LengthDoneIs
<1> HIDE DEF v
<1>3. Stays(v, w)  BY <1>2, FieldStays DEF Edits
<1> QED  BY <1>1, <1>2, <1>3, EditsStay

LEMMA StartFieldIs ==
    ASSUME NEW u, Base(u), Current(u), NEW what \in {"type", "argument"} PROVE Edits(u, StartField(u, what))
<1> DEFINE s == Seen(u)
           v == FocusLost(s)
           w == [v EXCEPT !.field = what]
<1>1. StartField(u, what) = u \/ StartField(u, what) = w  BY DEF StartField
<1>2. Stays(u, s)  BY SeenIs
<1> HIDE DEF s
<1>3. Edits(s, v)  BY FocusLostIs, <1>2 DEF Stays
<1> HIDE DEF v
<1>4. Stays(v, w)  BY <1>3, FieldStays DEF Edits
<1> QED  BY <1>1, EditsSame, <1>4, EditsStay, <1>2, <1>3, StayEdits

LEMMA StartArgumentIs == ASSUME NEW u, Base(u), Current(u) PROVE Edits(u, StartArgument(u))
BY StartFieldIs, FailStays, StaysEdits, EditsSame DEF StartArgument

LEMMA FinishTypeIs ==
    ASSUME NEW u, Base(u), Current(u), NEW ev \in {Note, RestEvent, Entered} PROVE Edits(u, FinishType(u, ev))
<1> DEFINE a == FocusGained(u)
           b == AddTrigger(a, ev, ev # Entered)
           c == SetLocation(b, Location(u))
           d == StartArgument(c)
<1>1. FinishType(u, ev) = IF ev # Entered \/ b.failed # None THEN b ELSE d  BY DEF FinishType
<1>2. Edits(u, a)  BY FocusGainedIs
<1> HIDE DEF a
<1>3. ev \in Events  BY DEF Events
<1>4. Edits(a, b)  BY <1>2, <1>3, AddTriggerIs DEF Edits
<1> HIDE DEF b
<1>5. Edits(u, b)  BY <1>2, <1>4, EditsTrans
<1>6. Stays(b, c)  BY <1>5, SetLocationIs, LocationIs DEF Edits, IsLoc
<1> HIDE DEF c
<1>7. Edits(u, c)  BY <1>5, <1>6, EditsStay
<1>8. Edits(c, d)  BY <1>7, StartArgumentIs DEF Edits
<1> HIDE DEF d
<1> QED  BY <1>1, <1>5, <1>7, <1>8, EditsTrans

LEMMA FinishArgumentIs ==
    ASSUME NEW u, Base(u), Current(u), NEW arg \in Arguments PROVE Edits(u, FinishArgument(u, arg))
<1> DEFINE a == FocusGained(u)
           new == WithArgument(SelectedTrigger(a), arg)
           b == AddTrigger(a, new, ~a.chord)
           c == TryRemoveTrigger(a)
           d == AddTrigger(c, new, ~a.chord)
<1>1. FinishArgument(u, arg) = IF ~AtTrigger(a) THEN Raise(a) ELSE IF a.replace THEN b ELSE d  BY DEF FinishArgument
<1>2. Edits(u, a)  BY FocusGainedIs
<1> HIDE DEF a
<1>3. Base(a) /\ Current(a)  BY <1>2 DEF Edits
<1>4. CASE AtTrigger(a)
  <2>1. new \in Events  BY <1>3, <1>4, SelectedIs DEF WithArgument, Events
  <2> HIDE DEF new
  <2>2. Edits(a, b)  BY <1>3, <2>1, AddTriggerIs
  <2>3. Edits(a, c)  BY <1>3, TryRemoveTriggerIs
  <2> HIDE DEF b, c
  <2>4. Edits(c, d)  BY <2>1, <2>3, AddTriggerIs DEF Edits
  <2> HIDE DEF d
  <2> QED  BY <1>1, <1>4, <1>2, <2>2, EditsTrans, <1>3, <2>3, <2>4
<1> QED  BY <1>1, <1>4, <1>2, <1>3, FailStays, EditsStay

LEMMA PressNoteIs == ASSUME NEW u, Base(u), Current(u) PROVE Edits(u, PressNote(u))
<1> DEFINE v == IF ChordMode THEN SetChordMode(u, TRUE) ELSE u
           old == SelectedTrigger(v)
           a == AddTrigger(v, Note, ~v.chord)
           b == AddTrigger(v, old, ~v.chord)
<1>1. PressNote(u) = IF ~EditingEnabled(u) THEN u
                     ELSE IF ~v.replace \/ ~AtTrigger(v) \/ old = RestEvent THEN a
                     ELSE IF old \in {Note, Convert(Note)} THEN b ELSE v  BY DEF PressNote
<1>2. Edits(u, v)  BY SetChordModeIs, EditsSame
<1> HIDE DEF v
<1>3. Base(v) /\ Current(v)  BY <1>2 DEF Edits
<1>4. Edits(v, a)  BY <1>3, AddTriggerIs DEF Events
<1>5. old \in {Note, Convert(Note)} => Edits(v, b)  BY <1>3, AddTriggerIs DEF Events
<1> HIDE DEF a, b
<1> HIDE DEF old
<1> QED  BY <1>1, <1>2, EditsSame, <1>4, <1>5, EditsTrans

-----------------------------------------------------------------------------
\* Undo and redo.

\* The data is put and the cursor moved while the entry is in neither part
\* of the history; what the cursor does depends on neither.
Like(u, v) == IsUi(u) /\ IsUi(v) /\ \A f \in Fields \ {"past", "future"} : v[f] = u[f]

LEMMA LikeReads ==
    ASSUME NEW u, NEW v, Like(u, v)
    PROVE  /\ HasAlbum(v) <=> HasAlbum(u)
           /\ Location(v) = Location(u)
           /\ \A loc : /\ KeyAt(v, loc) = KeyAt(u, loc) /\ IsCached(v, loc) = IsCached(u, loc)
                       /\ RowsAt(v, loc) = RowsAt(u, loc) /\ ClampedLocation(v, loc) = ClampedLocation(u, loc)
           /\ \A k : Stored(v, k) = Stored(u, k)
<1>1. v.sel = u.sel /\ v.order = u.order /\ v.data = u.data /\ v.last = u.last  BY DEF Like, Fields
<1>2. HasAlbum(v) <=> HasAlbum(u)  BY <1>1 DEF HasAlbum
<1>3. \A sys : PatternAt(v, sys) = PatternAt(u, sys)  BY <1>1 DEF PatternAt
<1>4. Location(v) = Location(u)  BY <1>1, <1>2, <1>3 DEF Location, Length
<1>5. \A loc : KeyAt(v, loc) = KeyAt(u, loc)  BY <1>3 DEF KeyAt
<1> QED  BY <1>2, <1>4, <1>5, <1>1 DEF ClampedLocation, RowsAt, Stored, IsCached

LEMMA LikeLocated ==
    ASSUME NEW u, NEW v, Like(u, v) PROVE Like(Located(u), Located(v))
<1> DEFINE l == Location(u)
<1>1. Like([u EXCEPT !.sel = l], [v EXCEPT !.sel = l])  BY DEF Like, IsUi, Fields
<1> QED  BY <1>1, LikeReads DEF Located, Like, Fields

LEMMA LikeCached ==
    ASSUME NEW u, NEW v, Like(u, v), NEW loc PROVE Like(Cached(u, loc), Cached(v, loc))
<1> DEFINE l == [key |-> KeyAt(u, loc), inst |-> u.order[loc.sys + 1][2],
                 rows |-> Stored(u, KeyAt(u, loc)), orphan |-> FALSE]
<1>1. /\ HasAlbum(v) <=> HasAlbum(u)
      /\ KeyAt(v, loc) = KeyAt(u, loc) /\ IsCached(v, loc) = IsCached(u, loc)
      /\ Stored(v, KeyAt(u, loc)) = Stored(u, KeyAt(u, loc))  BY LikeReads
<1>2. Like([u EXCEPT !.last = l], [v EXCEPT !.last = l])  BY DEF Like, IsUi, Fields
<1>3. v.order = u.order  BY DEF Like, Fields
<1> QED  BY <1>1, <1>2, <1>3 DEF Cached

LEMMA LikeSetLocation ==
    ASSUME NEW u, NEW v, Like(u, v), NEW loc PROVE Like(SetLocation(u, loc), SetLocation(v, loc))
<1> DEFINE a0 == [u EXCEPT !.sel = loc]
           b0 == [v EXCEPT !.sel = loc]
           a1 == Located(a0)
           b1 == Located(b0)
           a2 == Cached(a1, Location(a1))
           b2 == Cached(b1, Location(b1))
           m == IF HasAlbum(a2) THEN InferredControl(RowsAt(a2, Location(a2)), ClampedLocation(a2, Location(a2))) ELSE 0
           n == IF HasAlbum(b2) THEN InferredControl(RowsAt(b2, Location(b2)), ClampedLocation(b2, Location(b2))) ELSE 0
<1>1. SetLocation(u, loc) = [a2 EXCEPT !.control = m] /\ SetLocation(v, loc) = [b2 EXCEPT !.control = n]
  BY DEF SetLocation
<1>2. Like(a0, b0)  BY DEF Like, IsUi, Fields
<1> HIDE DEF a0, b0
<1>3. Like(a1, b1)  BY <1>2, LikeLocated
<1> HIDE DEF a1, b1
<1>4. Like(a2, b2)  BY <1>3, LikeCached, LikeReads
<1> HIDE DEF a2, b2
<1>5. m = n  BY <1>4, LikeReads
<1> HIDE DEF m, n
<1> QED  BY <1>1, <1>4, <1>5 DEF Like, IsUi, Fields

LEMMA SameFields ==
    ASSUME NEW u, Base(u), NEW v, IsUi(v), \A f \in Fields : v[f] = u[f] PROVE Base(v)
BY DEF Fields, Base, Deep, Face

\* The cursor is in the pattern instance of the step.
Shows(u, v, s) ==
    s.loc # None /\ SystemsOf(u, s.pinst) # {} => v.sel.sys \in SystemsOf(u, s.pinst) /\ v.sel.col = s.loc.col

LEMMA SystemsAre ==
    ASSUME NEW u, IsOrder(u.order), NEW pinst
    PROVE  /\ \A sys \in SystemsOf(u, pinst) : sys \in Nat /\ sys < Len(u.order)
           /\ SystemsOf(u, pinst) # {} => pinst # None /\ u.order # <<>>
<1>1. DOMAIN u.order = 1..Len(u.order) /\ Len(u.order) \in Nat  BY OrderIs
<1>2. \A sys \in SystemsOf(u, pinst) :
        sys \in Nat /\ sys < Len(u.order) /\ \E i \in DOMAIN u.order : u.order[i] = pinst
  <2> SUFFICES ASSUME NEW i \in DOMAIN u.order, u.order[i] = pinst
               PROVE  i - 1 \in Nat /\ i - 1 < Len(u.order)  BY DEF SystemsOf
  <2> QED  BY <1>1
<1> QED  BY <1>2, EventsAssumption, <1>1, OrderIs

\* A step is applied: x is the state from which the step was taken, r the
\* one to which it was given.
Replays(u, entry, t, x, P, F, r) ==
    /\ IsUi(x) /\ \A f \in Fields \ {"past", "future"} : x[f] = u[f]
    /\ IsHistory(Put(x, t).data, u.damaged, P, None, F)
    /\ IsUi(r) /\ r.past = P /\ r.future = F
    /\ \A f \in Fields \ {"past", "future"} : r[f] = Apply(x, entry, t)[f]

LEMMA ReplayIs ==
    ASSUME NEW u, Base(u), u.step = None, NEW entry \in TypedSteps, NEW t, IsData(t),
           NEW x, NEW P, NEW F, NEW r, Replays(u, entry, t, x, P, F, r)
    PROVE  /\ Base(FlushColumn(r)) /\ Current(FlushColumn(r)) /\ FlushColumn(r).future = F
           /\ FlushColumn(r).order = u.order /\ FlushColumn(r).playing = u.playing
           /\ FlushColumn(r).recording = u.recording
           /\ Shows(u, FlushColumn(r), entry)
<1> DEFINE y == Put(x, t)
           z == [y EXCEPT !.past = P, !.future = F]
           loc == NewLocation(y, entry)
           q == IF loc = None THEN z ELSE SetLocation(z, loc)
<1>1. /\ IsUi(x) /\ \A f \in Fields \ {"past", "future"} : x[f] = u[f]
      /\ IsHistory(Put(x, t).data, u.damaged, P, None, F)
      /\ IsUi(r) /\ r.past = P /\ r.future = F
      /\ \A f \in Fields \ {"past", "future"} : r[f] = Apply(x, entry, t)[f]  BY DEF Replays
<1>2. Apply(x, entry, t) = IF loc = None THEN y ELSE SetLocation(y, loc)  BY DEF Apply
<1>3. IsUi(u) /\ Deep(u) /\ Face(u) /\ IsOrder(u.order) /\ IsSheet(u.data)  BY DEF Base, Deep
<1>4. IsUi(y) /\ IsSheet(y.data) /\ \A f \in Fields : f # "data" => y[f] = x[f]  BY <1>1, <1>3, PutIs DEF Fields
<1>5. IsHistory(y.data, u.damaged, P, None, F)  BY <1>1
<1> HIDE DEF y
<1>6. /\ IsUi(z) /\ z.past = P /\ z.future = F /\ z.data = y.data /\ Like(y, z)
      /\ \A f \in Fields : f \notin {"data", "past", "future"} => z[f] = y[f]  BY <1>4 DEF Like, IsUi, Fields
<1> HIDE DEF z
<1>7. /\ z.order = u.order /\ z.damaged = u.damaged /\ z.step = u.step /\ z.playing = u.playing /\ z.recording = u.recording
      /\ z.sel = u.sel /\ z.start = u.start /\ z.stop = u.stop /\ z.chordStart = u.chordStart /\ z.clip = u.clip
      /\ z.last = u.last /\ z.control = u.control /\ z.field = u.field /\ z.replace = u.replace /\ z.connected = u.connected
  BY <1>1, <1>4, <1>6 DEF Fields
<1>8. Face(z)  BY <1>3, <1>7 DEF Face
<1>9. Base(z)  BY <1>6, <1>8, <1>3, <1>4, <1>5, <1>7 DEF Base, Deep
<1>10. \A pinst : SystemsOf(y, pinst) = SystemsOf(u, pinst)  BY <1>6, <1>7 DEF SystemsOf, Like, Fields
<1> DEFINE S == SystemsOf(u, entry.pinst)
           sys == CHOOSE i \in S : TRUE
<1>11. loc = IF entry.loc = None \/ entry.pinst = None \/ S = {} THEN None ELSE [entry.loc EXCEPT !.sys = sys]
  BY <1>10 DEF NewLocation
<1>12. S # {} => sys \in S /\ sys \in Nat /\ sys < Len(u.order) /\ entry.pinst # None /\ HasAlbum(u)
  BY <1>3, SystemsAre DEF HasAlbum
<1>13. entry.loc = None \/ entry.loc \in Locations  BY StepIs
<1> HIDE DEF loc, S, sys
<1>14. loc # None => /\ loc \in Locations /\ loc.sys = sys /\ loc.col = entry.loc.col /\ S # {}
                     /\ InAlbum(z, loc) /\ HasAlbum(z)
  <2> SUFFICES ASSUME loc # None
               PROVE  /\ loc \in Locations /\ loc.sys = sys /\ loc.col = entry.loc.col /\ S # {}
                      /\ InAlbum(z, loc) /\ HasAlbum(z)  OBVIOUS
  <2>1. loc = [entry.loc EXCEPT !.sys = sys] /\ entry.loc \in Locations /\ sys \in Nat /\ S # {}
    BY <1>11, <1>12, <1>13
  <2>2. loc \in Locations /\ loc.sys = sys /\ loc.col = entry.loc.col  BY <2>1 DEF Locations
  <2> QED  BY <2>1, <2>2, <1>7, <1>12 DEF InAlbum, HasAlbum
<1>15. loc # None => /\ Stays(z, SetLocation(z, loc))
                     /\ SetLocation(z, loc).sel.sys = loc.sys /\ SetLocation(z, loc).sel.col = loc.col
  BY <1>9, <1>14, SetLocationIs DEF IsLoc
<1>16. Stays(z, q)  BY <1>9, <1>15, StaysSame
<1>17. loc # None => q.sel.sys = sys /\ q.sel.col = entry.loc.col  BY <1>14, <1>15
<1>18. \A f \in Fields : r[f] = q[f]
  <2>1. \A f \in Fields \ {"past", "future"} : r[f] = q[f]  BY <1>1, <1>2, <1>6, LikeSetLocation DEF Like
  <2> QED  BY <2>1, <1>1, <1>6, <1>16 DEF Stays, Kept
<1> HIDE DEF q
<1>19. Base(r)  BY <1>1, <1>16, <1>18, SameFields DEF Stays
<1>20. r.sel = q.sel /\ r.order = u.order /\ r.playing = u.playing /\ r.recording = u.recording
  BY <1>7, <1>16, <1>18 DEF Stays, Kept, Fields
<1> DEFINE v == FlushColumn(r)
<1>21. Kept(r, v) /\ Base(v) /\ Current(v) /\ v.sel = r.sel  BY <1>19, FlushIs
<1> HIDE DEF v
<1>22. Shows(u, v, entry)
  <2>1. entry.loc # None /\ S # {} => loc # None /\ sys \in S
    <3> SUFFICES ASSUME entry.loc # None, S # {} PROVE loc # None /\ sys \in S  OBVIOUS
    <3>1. loc = [entry.loc EXCEPT !.sys = sys] /\ entry.loc \in Locations /\ sys \in Nat /\ sys \in S
      BY <1>11, <1>12, <1>13
    <3>2. loc \in Locations  BY <3>1 DEF Locations
    <3> QED  BY <3>1, <3>2, EventsAssumption
  <2> QED  BY <2>1, <1>17, <1>20, <1>21 DEF Shows, S
<1> QED  BY <1>1, <1>20, <1>21, <1>22 DEF Kept, v

LEMMA LastAppended ==
    ASSUME NEW X, NEW s \in Seq(X), s # <<>>
    PROVE  Append(Front(s), Last(s)) = s /\ Last(s) \in X /\ Front(s) \in Seq(X) /\ Last(s) = s[Len(s)]
<1> DEFINE n == Len(s)
<1>1. /\ Front(s) \in Seq(X) /\ Len(Front(s)) = n - 1 /\ n \in Nat \ {0}
      /\ \A i \in 1..(n - 1) : Front(s)[i] = s[i]
      /\ Last(s) \in X  BY FrontIs
<1>2. Last(s) = s[n]  BY DEF Last
<1> DEFINE f == Front(s)
           x == Last(s)
<1>3. f \in Seq(X) /\ x \in X /\ Len(f) = n - 1  BY <1>1
<1> HIDE DEF f, x, n
<1>4. Append(f, x) \in Seq(X) /\ Len(Append(f, x)) = n /\ Append(f, x)[n] = x /\ \A i \in 1..(n - 1) : Append(f, x)[i] = f[i]
  BY <1>1, <1>3, AppendIs
<1>5. \A i \in 1..n : Append(f, x)[i] = s[i]
  <2> SUFFICES ASSUME NEW i \in 1..n PROVE Append(f, x)[i] = s[i]  OBVIOUS
  <2> QED  BY <1>1, <1>2, <1>4 DEF f, x
<1> QED  BY <1>1, <1>2, <1>4, <1>5 DEF f, x, n

LEMMA SetLocationKeeps ==
    ASSUME NEW u, IsUi(u), NEW loc
    PROVE  /\ IsUi(SetLocation(u, loc))
           /\ SetLocation(u, loc).future = u.future /\ SetLocation(u, loc).past = u.past
<1> DEFINE a == [u EXCEPT !.sel = loc]
           b == Located(a)
           c == Cached(b, Location(b))
           n == IF HasAlbum(c) THEN InferredControl(RowsAt(c, Location(c)), ClampedLocation(c, Location(c))) ELSE 0
<1>1. SetLocation(u, loc) = [c EXCEPT !.control = n]  BY DEF SetLocation
<1>2. IsUi(a) /\ a.future = u.future /\ a.past = u.past  BY DEF IsUi, Fields
<1> HIDE DEF a
<1>3. IsUi(b) /\ b.future = u.future /\ b.past = u.past  BY <1>2 DEF IsUi, Fields, Located
<1> HIDE DEF b
<1>4. IsUi(c) /\ c.future = u.future /\ c.past = u.past  BY <1>3 DEF IsUi, Fields, Cached
<1> HIDE DEF c, n
<1> QED  BY <1>1, <1>4 DEF IsUi, Fields

Alters(u, v) ==
    /\ Base(v) /\ Current(v)
    /\ v.order = u.order /\ v.playing = u.playing /\ v.recording = u.recording
    /\ ~AllowEditing(u) => \A k \in ColumnKeys : v.data[k] = u.data[k]

LEMMA UndoIs ==
    ASSUME NEW u, Base(u), Current(u)
    PROVE  /\ Alters(u, Undo(u))
           /\ Len(Undo(u).future) > Len(u.future) => Shows(u, Undo(u), Last(Undo(u).future))
<1> DEFINE v == Commit(u)
           entry == Last(v.past)
           P == Front(v.past)
           x == [v EXCEPT !.past = P]
           a == Apply(x, entry, entry.old)
           F == Append(a.future, entry)
           r == [a EXCEPT !.future = F]
           w == FlushColumn(r)
<1>1. Undo(u) = IF ~AllowEditing(u) THEN u ELSE IF v.past = <<>> THEN v ELSE w  BY DEF Undo
<1>2. Edits(u, v) /\ v.data = u.data  BY CommitEdits
<1>3. /\ Base(v) /\ v.step = None /\ IsUi(v)
      /\ \A f \in Fields : f \notin {"past", "step"} => v[f] = u[f]  BY CommitIs
<1> HIDE DEF v
<1>4. /\ v.future = u.future /\ v.order = u.order /\ v.playing = u.playing /\ v.recording = u.recording
      /\ v.damaged = u.damaged  BY <1>3 DEF Fields
<1>5. CASE ~AllowEditing(u) \/ v.past = <<>>  BY <1>2, <1>1, <1>5, <1>4, FutureLen DEF Alters, Edits
<1>6. CASE AllowEditing(u) /\ v.past # <<>>
  <2>1. /\ v.past \in Seq(TypedSteps) /\ v.future \in Seq(TypedSteps)
        /\ Fits(v.data, v.damaged, v.past, "old", "new") /\ Fits(v.data, v.damaged, v.future, "new", "old")
        /\ IsSheet(v.data)  BY <1>3 DEF Base, Deep, IsHistory
  <2>2. entry \in TypedSteps /\ P \in Seq(TypedSteps) /\ Append(P, entry) = v.past  BY <1>6, <2>1, LastAppended
  <2> HIDE DEF entry, P
  <2>3. /\ IsUi(x) /\ x.past = P /\ x.future = v.future /\ x.data = v.data
        /\ \A f \in Fields \ {"past", "future"} : x[f] = v[f]  BY <1>3 DEF IsUi, Fields
  <2> HIDE DEF x
  <2>4. IsData(entry.old)  BY <2>2, StepIs
  <2>5. IsSheet(x.data)  BY <2>1, <2>3
  <2> DEFINE d == Put(x, entry.old).data
             G == Append(v.future, entry)
  <2>6. Overwrites(v.data, entry.old, d) /\ IsSheet(d)  BY <2>3, <2>4, <2>5, PutIs
  <2> HIDE DEF d
  <2>7. Fits(d, v.damaged, G, "new", "old")  BY <2>6, <2>1, <2>2, FitsGivenBack DEF Halves
  <2>8. G \in Seq(TypedSteps) /\ Len(G) = Len(v.future) + 1 /\ Last(G) = entry /\ G # <<>>
    BY <2>1, <2>2, AppendIs DEF Last
  <2>9. a.future = v.future /\ a.past = P /\ IsUi(a)
    <3> DEFINE y == Put(x, entry.old)
               loc == NewLocation(y, entry)
    <3>1. a = IF loc = None THEN y ELSE SetLocation(y, loc)  BY DEF Apply
    <3>2. IsUi(y) /\ y.future = v.future /\ y.past = P  BY <2>3, <2>4, <2>5, PutIs DEF Fields
    <3> HIDE DEF y, loc
    <3>3. IsUi(SetLocation(y, loc)) /\ SetLocation(y, loc).future = y.future /\ SetLocation(y, loc).past = y.past
      BY <3>2, SetLocationKeeps
    <3> QED  BY <3>1, <3>2, <3>3
  <2> HIDE DEF G
  <2>10. /\ IsUi(r) /\ r.past = P /\ r.future = G
         /\ \A f \in Fields \ {"past", "future"} : r[f] = a[f]  BY <2>9 DEF IsUi, Fields, G
  <2> HIDE DEF a, r, F
  <2>11. IsHistory(d, v.damaged, P, None, G)  BY <2>2, <2>7, <2>8, <2>6, <2>1, FitsTakenBack DEF IsHistory, Halves
  <2>12. /\ Base(w) /\ Current(w) /\ w.future = G
         /\ w.order = v.order /\ w.playing = v.playing /\ w.recording = v.recording
         /\ Shows(v, w, entry)
    <3>1. IsHistory(Put(x, entry.old).data, v.damaged, P, None, G)  BY <2>11 DEF d
    <3>2. \A f \in Fields \ {"past", "future"} : r[f] = Apply(x, entry, entry.old)[f]  BY <2>10 DEF a
    <3>3. Replays(v, entry, entry.old, x, P, G, r)  BY <2>3, <2>10, <3>1, <3>2 DEF Replays
    <3> QED  BY <1>3, <2>2, <2>4, <3>3, ReplayIs
  <2> HIDE DEF w
  <2>13. SystemsOf(v, entry.pinst) = SystemsOf(u, entry.pinst)  BY <1>4 DEF SystemsOf
  <2>14. Alters(u, w)  BY <1>4, <1>6, <2>12 DEF Alters
  <2>15. Undo(u) = w  BY <1>1, <1>6
  <2> QED  BY <2>8, <2>12, <2>14, <2>15, <2>13 DEF Shows
<1> QED  BY <1>5, <1>6

LEMMA RedoIs ==
    ASSUME NEW u, Base(u), Current(u)
    PROVE  /\ Alters(u, Redo(u)) /\ Len(Redo(u).future) <= Len(u.future)
           /\ Len(Redo(u).future) < Len(u.future) => Shows(u, Redo(u), Last(u.future))
<1> DEFINE entry == Last(u.future)
           F == Front(u.future)
           x == [u EXCEPT !.future = F]
           a == Apply(x, entry, entry.new)
           P == Append(a.past, entry)
           r == [a EXCEPT !.past = P]
           w == FlushColumn(r)
<1>1. Redo(u) = IF ~AllowEditing(u) \/ u.future = <<>> THEN u ELSE IF u.step # None THEN Fail(u) ELSE w  BY DEF Redo
<1>2. Len(u.future) \in Nat  BY FutureLen
<1>3. /\ IsUi(u) /\ u.past \in Seq(TypedSteps) /\ u.future \in Seq(TypedSteps) /\ IsSheet(u.data)
      /\ (u.step # None => u.future = <<>>)
      /\ Fits(u.data, u.damaged, IF u.step = None THEN u.past ELSE Append(u.past, u.step), "old", "new")
      /\ Fits(u.data, u.damaged, u.future, "new", "old")  BY DEF Base, Deep, IsHistory
<1>4. CASE ~AllowEditing(u) \/ u.future = <<>>  BY <1>1, <1>4, <1>2 DEF Alters
<1>5. CASE AllowEditing(u) /\ u.future # <<>>
  <2>1. u.step = None /\ Redo(u) = w  BY <1>1, <1>3, <1>5
  <2>2. entry \in TypedSteps /\ F \in Seq(TypedSteps) /\ Append(F, entry) = u.future /\ Len(F) = Len(u.future) - 1
    BY <1>3, <1>5, LastAppended, FrontIs
  <2> HIDE DEF entry, F
  <2>3. /\ IsUi(x) /\ x.future = F /\ x.past = u.past /\ x.data = u.data
        /\ \A f \in Fields \ {"past", "future"} : x[f] = u[f]  BY <1>3 DEF IsUi, Fields
  <2> HIDE DEF x
  <2>4. IsData(entry.new)  BY <2>2, StepIs
  <2>5. IsSheet(x.data)  BY <1>3, <2>3
  <2> DEFINE d == Put(x, entry.new).data
             G == Append(u.past, entry)
  <2>6. Overwrites(u.data, entry.new, d) /\ IsSheet(d)  BY <2>3, <2>4, <2>5, PutIs
  <2> HIDE DEF d
  <2>7. Halves("new", "old") /\ Overwrites(u.data, entry["new"], d)  BY <2>6 DEF Halves
  <2>8. Fits(u.data, u.damaged, Append(F, entry), "new", "old")  BY <1>3, <2>2
  <2>9. Fits(d, u.damaged, F, "new", "old")  BY <2>7, <2>8, <2>2, FitsTakenBack
  <2>10. Fits(d, u.damaged, G, "old", "new")  BY <2>7, <2>8, <2>2, <1>3, FitsGivenBack, <2>1
  <2>11. G \in Seq(TypedSteps)  BY <1>3, <2>2, AppendIs
  <2>12. a.past = u.past /\ a.future = F /\ IsUi(a)
    <3> DEFINE y == Put(x, entry.new)
               loc == NewLocation(y, entry)
    <3>1. a = IF loc = None THEN y ELSE SetLocation(y, loc)  BY DEF Apply
    <3>2. IsUi(y) /\ y.past = u.past /\ y.future = F  BY <2>3, <2>4, <2>5, PutIs DEF Fields
    <3> HIDE DEF y, loc
    <3> QED  BY <3>1, <3>2, SetLocationKeeps
  <2> HIDE DEF G
  <2>13. /\ IsUi(r) /\ r.past = G /\ r.future = F
         /\ \A f \in Fields \ {"past", "future"} : r[f] = a[f]  BY <2>12 DEF IsUi, Fields, G
  <2> HIDE DEF a, r, P
  <2>14. /\ Base(w) /\ Current(w) /\ w.future = F
         /\ w.order = u.order /\ w.playing = u.playing /\ w.recording = u.recording
         /\ Shows(u, w, entry)
    <3>1. IsHistory(Put(x, entry.new).data, u.damaged, G, None, F)  BY <2>2, <2>9, <2>10, <2>11 DEF d, IsHistory
    <3>2. \A f \in Fields \ {"past", "future"} : r[f] = Apply(x, entry, entry.new)[f]  BY <2>13 DEF a
    <3>3. Replays(u, entry, entry.new, x, G, F, r)  BY <2>3, <2>13, <3>1, <3>2 DEF Replays
    <3> QED  BY <2>1, <2>2, <2>4, <3>3, ReplayIs
  <2> HIDE DEF w
  <2> QED  BY <1>2, <2>1, <2>2, <2>14, <1>5 DEF entry, Alters
<1> QED  BY <1>4, <1>5

-----------------------------------------------------------------------------
\* The order list.

\* What every action does: while nothing may be edited, no column of a
\* pattern that stays changes.
Turns(u, v) ==
    /\ Base(v) /\ Current(v)
    /\ Len(v.future) <= Len(u.future)
    /\ ~AllowEditing(u) /\ ~AllowEditing(v) =>
          \A k \in ColumnKeys : PatternOf(k) \in UsedPatterns(v) => v.data[k] = u.data[k]

LEMMA EditsTurn == ASSUME NEW u, NEW v, Edits(u, v) PROVE Turns(u, v)
  BY DEF Edits, Turns

LEMMA EditsThenTurn == ASSUME NEW u, Base(u), NEW v, NEW w, Edits(u, v), Turns(v, w) PROVE Turns(u, w)
BY FutureLen DEF Edits, Turns, AllowEditing

LEMMA ReorderIs ==
    ASSUME NEW u, Base(u), Current(u), NEW o, IsOrder(o) PROVE Turns(u, [u EXCEPT !.order = o])
<1> DEFINE v == [u EXCEPT !.order = o]
<1>1. IsUi(u) /\ Deep(u) /\ Face(u)  BY DEF Base
<1>2. IsUi(v) /\ v.order = o /\ \A f \in Fields : f # "order" => v[f] = u[f]  BY <1>1 DEF IsUi, Fields
<1> HIDE DEF v
<1>3. /\ v.data = u.data /\ v.damaged = u.damaged /\ v.past = u.past /\ v.step = u.step /\ v.future = u.future
      /\ v.sel = u.sel /\ v.start = u.start /\ v.stop = u.stop /\ v.chordStart = u.chordStart /\ v.clip = u.clip
      /\ v.last = u.last /\ v.control = u.control /\ v.field = u.field /\ v.replace = u.replace /\ v.connected = u.connected
  BY <1>2 DEF Fields
<1>4. Current(v)  BY <1>3 DEF Current, Stored
<1>5. Turns(u, v)  BY <1>2, <1>3, <1>4, <1>1, FutureLen DEF Turns, Base, Deep, Face
<1> QED  BY <1>5 DEF v

\* The number of a new pattern or instance.
LEMMA FreeIs ==
    ASSUME NEW max \in Nat, NEW used, used \subseteq 0..max, used # 0..max
    PROVE  SmallestFree(used, max) \in 0..max /\ SmallestFree(used, max) \notin used
<1> DEFINE T == {n \in 0..max : n \notin used}
<1>1. PICK x \in 0..max : x \notin used  OBVIOUS
<1>2. T \subseteq Nat /\ T # {}  BY <1>1
<1> QED  BY <1>2, LeastIs DEF SmallestFree

LEMMA InsertPatternIs ==
    ASSUME NEW u, Base(u), Current(u), NEW sys \in Nat, NEW pinst \in Patterns \X (0..MaxInstance),
           pinst \notin ToSet(u.order)
    PROVE  Turns(u, InsertPatternInstance(u, sys, pinst))
<1> DEFINE X == Patterns \X (0..MaxInstance)
           n == Clamp(sys, Len(u.order))
           o == InsertAt(u.order, n + 1, pinst)
<1>1. InsertPatternInstance(u, sys, pinst) = [u EXCEPT !.order = o]  BY DEF InsertPatternInstance
<1>2. u.order \in Seq(X) /\ IsInjective(u.order) /\ Len(u.order) \in Nat  BY DEF Base, Deep, IsOrder
<1>3. n \in 0..Len(u.order)  BY <1>2, ClampIs
<1> HIDE DEF n
<1>4. n + 1 \in 1..(Len(u.order) + 1)  BY <1>2, <1>3
<1> HIDE DEF X
<1>5. o \in Seq(X) /\ IsInjective(o)  BY <1>2, <1>4, InsertedIs DEF X
<1> HIDE DEF o
<1> QED  BY <1>1, ReorderIs, <1>5 DEF IsOrder, X

LEMMA UsedAre ==
    ASSUME NEW u, IsOrder(u.order)
    PROVE  /\ UsedPatterns(u) \subseteq Patterns
           /\ \A p : InstancesOf(u, p) \subseteq 0..MaxInstance
           /\ \A pinst \in ToSet(u.order) : /\ pinst \in Patterns \X (0..MaxInstance)
                                            /\ pinst[1] \in UsedPatterns(u)
                                            /\ pinst[2] \in InstancesOf(u, pinst[1])
           /\ \A p \in UsedPatterns(u) : \E j : <<p, j>> \in ToSet(u.order)
<1>1. \A i \in DOMAIN u.order : u.order[i] \in Patterns \X (0..MaxInstance)  BY OrderIs
<1>2. \A i \in DOMAIN u.order : u.order[i][1] \in Patterns /\ u.order[i][2] \in 0..MaxInstance
                                /\ u.order[i] = <<u.order[i][1], u.order[i][2]>>  BY <1>1
<1>3. \A p \in UsedPatterns(u) : \E j : <<p, j>> \in ToSet(u.order)
  <2> SUFFICES ASSUME NEW i \in DOMAIN u.order PROVE \E j : <<u.order[i][1], j>> \in ToSet(u.order)
    BY DEF UsedPatterns
  <2> QED  BY <1>2 DEF ToSet
<1> QED  BY <1>1, <1>3, <1>2 DEF ToSet, UsedPatterns, InstancesOf

LEMMA AddPatternIs ==
    ASSUME NEW u, Base(u), Current(u), NEW sys \in Nat, UsedPatterns(u) # Patterns
    PROVE  Turns(u, InsertPatternInstance(u, sys, <<NewPattern(u), 0>>))
<1> DEFINE p == NewPattern(u)
<1> HIDE DEF p
<1> QED  BY InsertPatternIs, UsedAre, SheetAssumption, FreeIs DEF p, NewPattern, Patterns, Base, Deep

LEMMA ReusePatternIs ==
    ASSUME NEW u, Base(u), Current(u), NEW sys \in Nat, NEW p \in Patterns, InstancesOf(u, p) # 0..MaxInstance
    PROVE  Turns(u, InsertPatternInstance(u, sys, <<p, NewInstance(u, p)>>))
<1>1. IsOrder(u.order)  BY DEF Base, Deep
<1> DEFINE j == NewInstance(u, p)
<1>2. j \in 0..MaxInstance /\ j \notin InstancesOf(u, p)  BY <1>1, UsedAre, FreeIs, SheetAssumption DEF NewInstance
<1> HIDE DEF j
<1> QED  BY InsertPatternIs, <1>2, <1>1, UsedAre DEF j

LEMMA MovePatternIs ==
    ASSUME NEW u, Base(u), Current(u), NEW from \in 0..(Len(u.order) - 1), NEW to \in 0..(Len(u.order) - 1)
    PROVE  Turns(u, MovePatternInstance(u, from, to))
<1> DEFINE X == Patterns \X (0..MaxInstance)
           x == u.order[from + 1]
           rest == RemoveAt(u.order, from + 1)
           n == Clamp(to, Len(rest))
           o == InsertAt(rest, n + 1, x)
<1>1. MovePatternInstance(u, from, to) = [u EXCEPT !.order = o]  BY DEF MovePatternInstance
<1>2. u.order \in Seq(X) /\ IsInjective(u.order) /\ Len(u.order) \in Nat  BY DEF Base, Deep, IsOrder
<1>3. from + 1 \in 1..Len(u.order) /\ to \in Nat  BY <1>2
<1> HIDE DEF X
<1>4. /\ rest \in Seq(X) /\ x \in X /\ IsInjective(rest) /\ ToSet(rest) = ToSet(u.order) \ {x}
  BY <1>2, <1>3, RemovedIs
<1> HIDE DEF x, rest
<1>5. Len(rest) \in Nat  BY <1>4
<1>6. n \in 0..Len(rest)  BY <1>3, <1>5, ClampIs
<1> HIDE DEF n
<1>7. o \in Seq(X) /\ IsInjective(o)  BY <1>4, InsertedIs, <1>5, <1>6
<1> HIDE DEF o
<1> QED  BY <1>1, ReorderIs, <1>7 DEF IsOrder, X

-----------------------------------------------------------------------------
\* The history without the steps of a removed pattern.

Untouched(s, p) == {x \in ToSet(s) : ~Touches(x, p)}
Mends(s, p, D) == \A x \in ToSet(s) : Touches(x, p) => \A k \in DOMAIN x.new : PatternOf(k) = p \/ PatternOf(k) \in D
Clears(d, d2, p) == \A k \in SheetKeys : PatternOf(k) # p => d2[k] = d[k]

LEMMA RestIs ==
    ASSUME NEW s \in Seq(TypedSteps), NEW p
    PROVE  /\ Keeping(s, Untouched(s, p)) \in Seq(TypedSteps)
           /\ Len(Keeping(s, Untouched(s, p))) <= Len(s)
           /\ \E h : /\ Thinned(s, Keeping(s, Untouched(s, p)), h)
                     /\ \A i \in 1..Len(Keeping(s, Untouched(s, p))) : ~Touches(Keeping(s, Untouched(s, p))[i], p)
                     /\ \A m \in 1..Len(s) : ~Touches(s[m], p) => \E i \in 1..Len(Keeping(s, Untouched(s, p))) : h[i] = m
<1> DEFINE S == Untouched(s, p)
           r == Keeping(s, S)
<1>1. r \in Seq(TypedSteps) /\ \E h : Picked(s, S, Len(s), r, h)  BY KeepingIs
<1>2. PICK h : Picked(s, S, Len(s), r, h)  BY <1>1
<1>3. \A m \in 1..Len(s) : ~Touches(s[m], p) => s[m] \in S  BY DEF Untouched, ToSet
<1>4. \A x \in S : ~Touches(x, p)  BY DEF Untouched
<1> HIDE DEF S, r
<1>5. \A m \in 1..Len(s) : ~Touches(s[m], p) => \E i \in 1..Len(r) : h[i] = m  BY <1>2, <1>3 DEF Picked
<1>6. Len(r) <= Len(s)  BY <1>2 DEF Picked
<1> QED  BY <1>1, <1>5, <1>6, <1>2, <1>4 DEF S, r, Thinned, Picked

LEMMA FitsRemoved ==
    ASSUME NEW d, NEW D, NEW s \in Seq(TypedSteps), NEW b, NEW a, Fits(d, D, s, b, a),
           NEW p, NEW d2, NEW D2, Clears(d, d2, p), D \subseteq D2, Mends(s, p, D2)
    PROVE  Fits(d2, D2, Keeping(s, Untouched(s, p)), b, a)
<1> DEFINE r == Keeping(s, Untouched(s, p))
           G == {k \in SheetKeys : PatternOf(k) # p /\ PatternOf(k) \notin D2}
<1>1. r \in Seq(TypedSteps)  BY RestIs
<1>2. PICK h : /\ Thinned(s, r, h)
               /\ \A i \in 1..Len(r) : ~Touches(r[i], p)
               /\ \A m \in 1..Len(s) : ~Touches(s[m], p) => \E i \in 1..Len(r) : h[i] = m  BY RestIs
<1> HIDE DEF r
<1>3. \A i \in 1..Len(r) : \A k \in DOMAIN r[i].new : PatternOf(k) \in D2 \/ k \in G
  BY <1>2, StepIs, <1>1 DEF Touches
<1>4. \A m \in 1..Len(s) : \A k \in DOMAIN s[m].new : k \in G => \E i \in 1..Len(r) : h[i] = m
  <2> SUFFICES ASSUME NEW m \in 1..Len(s), NEW k \in DOMAIN s[m].new, k \in G PROVE ~Touches(s[m], p)  BY <1>2
  <2> QED  BY DEF Mends, ToSet
<1>5. \A k \in G : d2[k] = d[k] /\ PatternOf(k) \notin D  BY DEF Clears
<1> HIDE DEF G
<1>6. Spared(d, D, s, r, h, d2, D2, G)  BY <1>3, <1>4, <1>5 DEF Spared
<1> QED  BY <1>1, <1>2, <1>6, FitsThinned DEF r

LEMMA FitsRemovedOpen ==
    ASSUME NEW d, NEW D, NEW s \in Seq(TypedSteps), NEW o \in TypedSteps, NEW b, NEW a, Fits(d, D, Append(s, o), b, a),
           NEW p, NEW d2, NEW D2, Clears(d, d2, p), D \subseteq D2, Mends(s, p, D2),
           Touches(o, p) => \A k \in DOMAIN o.new : PatternOf(k) \in D2
    PROVE  Fits(d2, D2, Append(Keeping(s, Untouched(s, p)), o), b, a)
<1> DEFINE r == Keeping(s, Untouched(s, p))
           G == {k \in SheetKeys : PatternOf(k) # p /\ PatternOf(k) \notin D2}
           e == Append(s, o)
           f == Append(r, o)
<1>1. r \in Seq(TypedSteps)  BY RestIs
<1>2. PICK h : /\ Thinned(s, r, h)
               /\ \A i \in 1..Len(r) : ~Touches(r[i], p)
               /\ \A m \in 1..Len(s) : ~Touches(s[m], p) => \E i \in 1..Len(r) : h[i] = m  BY RestIs
<1> HIDE DEF r
<1> DEFINE n == Len(s)
           l == Len(r)
           g == [i \in 1..(l + 1) |-> IF i = l + 1 THEN n + 1 ELSE h[i]]
<1>3. e \in Seq(TypedSteps) /\ Len(e) = n + 1 /\ e[n + 1] = o /\ (\A i \in 1..n : e[i] = s[i]) /\ n \in Nat
  BY AppendIs
<1>4. f \in Seq(TypedSteps) /\ Len(f) = l + 1 /\ f[l + 1] = o /\ (\A i \in 1..l : f[i] = r[i]) /\ l \in Nat
  BY <1>1, AppendIs
<1>5. Fits(d, D, e, b, a)  OBVIOUS
<1> HIDE DEF e, f
<1>6. h \in [1..l -> 1..n] /\ (\A i, j \in 1..l : i < j => h[i] < h[j]) /\ (\A i \in 1..l : r[i] = s[h[i]])
  BY <1>2 DEF Thinned
<1>7. \A m \in 1..n : s[m] \in ToSet(s)  BY DEF ToSet
<1>8. (\A i \in 1..l : ~Touches(r[i], p)) /\ \A m \in 1..n : ~Touches(s[m], p) => \E i \in 1..l : h[i] = m  BY <1>2
<1> HIDE DEF n, l
<1>9. \A i \in 1..(l + 1) : i = l + 1 \/ i \in 1..l  BY <1>4
<1>10. g[l + 1] = n + 1 /\ \A i \in 1..l : g[i] = h[i] /\ h[i] \in 1..n  BY <1>4, <1>6
<1>11. g \in [1..(l + 1) -> 1..(n + 1)]
  <2>1. n \in Nat /\ n + 1 \in 1..(n + 1) /\ 1..n \subseteq 1..(n + 1)  BY <1>3
  <2>2. \A i \in 1..(l + 1) : g[i] \in 1..(n + 1)  BY <1>9, <1>10, <2>1
  <2>3. g = [i \in 1..(l + 1) |-> g[i]]  OBVIOUS
  <2> HIDE DEF g
  <2> QED  BY <2>2, <2>3
<1> HIDE DEF g
<1>12. \A i, j \in 1..(l + 1) : i < j => g[i] < g[j]
  <2> SUFFICES ASSUME NEW i \in 1..(l + 1), NEW j \in 1..(l + 1), i < j PROVE g[i] < g[j]  OBVIOUS
  <2>1. i \in 1..l  BY <1>4
  <2>2. CASE j = l + 1  BY <2>1, <2>2, <1>10, <1>3
  <2>3. CASE j \in 1..l  BY <2>1, <2>3, <1>6, <1>10
  <2> QED  BY <2>2, <2>3, <1>9
<1>13. Thinned(e, f, g)  BY <1>3, <1>4, <1>11, <1>12, <1>10, <1>6, <1>9 DEF Thinned
<1>14. \A i \in 1..(l + 1) : \A k \in DOMAIN f[i].new : PatternOf(k) \in D2 \/ k \in G
  BY StepIs, <1>8, <1>4, <1>9, <1>1 DEF Touches
<1>15. \A m \in 1..(n + 1) : \A k \in DOMAIN e[m].new : k \in G => \E i \in 1..(l + 1) : g[i] = m
  <2> SUFFICES ASSUME NEW m \in 1..(n + 1), NEW k \in DOMAIN e[m].new, k \in G PROVE \E i \in 1..(l + 1) : g[i] = m
    OBVIOUS
  <2>1. CASE m = n + 1  BY <1>4, <2>1, <1>10
  <2>2. CASE m \in 1..n
    <3>1. PICK i \in 1..l : h[i] = m  BY <2>2, <1>8, <1>3, <1>7 DEF Mends
    <3> QED  BY <3>1, <1>10, <1>4
  <2> QED  BY <2>1, <2>2, <1>3
<1>16. \A k \in G : d2[k] = d[k] /\ PatternOf(k) \notin D  BY DEF Clears
<1> HIDE DEF G
<1>17. Fits(d2, D2, f, b, a)
  <2>1. \A m \in 1..Len(e) : \A k \in DOMAIN e[m].new : k \in G => \E i \in 1..Len(f) : g[i] = m  BY <1>3, <1>4, <1>15
  <2>2. Spared(d, D, e, f, g, d2, D2, G)  BY <2>1, <1>16, <1>4, <1>14 DEF Spared
  <2> QED  BY <1>3, <1>4, <1>5, <1>13, <2>2, FitsThinned
<1> QED  BY <1>17 DEF f, r

\* The only instance of a pattern takes it out of the order list.
LEMMA LastInstance ==
    ASSUME NEW u, IsOrder(u.order), NEW x \in ToSet(u.order), ~(Cardinality(InstancesOf(u, x[1])) > 1),
           NEW v, IsOrder(v.order), ToSet(v.order) = ToSet(u.order) \ {x}
    PROVE  x[1] \notin UsedPatterns(v)
<1> DEFINE p == x[1]
           I == InstancesOf(u, p)
<1> SUFFICES ASSUME p \in UsedPatterns(v) PROVE FALSE  OBVIOUS
<1>1. PICK j : <<p, j>> \in ToSet(v.order)  BY UsedAre
<1>2. <<p, j>> \in ToSet(u.order) /\ <<p, j>> # x  BY <1>1
<1>3. x \in Patterns \X (0..MaxInstance) /\ x[2] \in I  BY UsedAre
<1>4. j \in I  BY <1>2, UsedAre
<1>5. I \subseteq 0..MaxInstance  BY UsedAre
<1> HIDE DEF I
<1>6. IsFiniteSet(I)
  <2>1. IsFiniteSet(0..MaxInstance)  BY SheetAssumption, FS_Interval
  <2> QED  BY <1>5, <2>1, FS_Subset
<1> DEFINE J == I \ {j}
<1>7. Cardinality(I) \in Nat /\ Cardinality(J) = Cardinality(I) - 1 /\ IsFiniteSet(J)
  BY <1>4, <1>6, FS_RemoveElement, FS_CardinalityType
<1>8. x[2] \in J  BY <1>3, <1>2
<1> HIDE DEF J
<1> DEFINE y == x[2]
           K == J \ {y}
<1>9. y \in J  BY <1>8
<1> HIDE DEF y
<1>10. Cardinality(K) = Cardinality(J) - 1 /\ IsFiniteSet(K)  BY <1>7, <1>9, FS_RemoveElement
<1> HIDE DEF K
<1>11. Cardinality(I) <= 1  BY <1>7 DEF I
<1> QED  BY <1>7, <1>10, <1>11, FS_CardinalityType

\* The history of a state whose pattern is removed.
LEMMA HistoryWithout ==
    ASSUME NEW d, NEW D, NEW past, NEW step, NEW future, IsHistory(d, D, past, step, future),
           NEW p, NEW d2, Clears(d, d2, p), NEW D2, D \subseteq D2, Mends(past, p, D2), Mends(future, p, D2),
           step # None /\ Touches(step, p) => \A k \in DOMAIN step.new : PatternOf(k) \in D2
    PROVE  IsHistory(d2, D2, Keeping(past, Untouched(past, p)), step, Keeping(future, Untouched(future, p)))
<1> DEFINE P == Keeping(past, Untouched(past, p))
           F == Keeping(future, Untouched(future, p))
<1>1. past \in Seq(TypedSteps) /\ future \in Seq(TypedSteps) /\ Fits(d, D, future, "new", "old")  BY DEF IsHistory
<1>2. P \in Seq(TypedSteps) /\ F \in Seq(TypedSteps) /\ Len(F) <= Len(future)  BY <1>1, RestIs
<1>3. Fits(d2, D2, F, "new", "old")  BY <1>1, FitsRemoved
<1> HIDE DEF F
<1>4. CASE step = None  BY <1>1, FitsRemoved, <1>4, <1>2, <1>3 DEF IsHistory, F, P
<1>5. CASE step # None  BY <1>5, <1>1, FitsRemovedOpen, <1>2, <1>3 DEF IsHistory, F, P
<1> QED  BY <1>4, <1>5

LEMMA RemovePatternIs ==
    ASSUME NEW u, Base(u), Current(u), NEW sys \in 0..(Len(u.order) - 1)
    PROVE  Turns(u, RemovePatternInstance(u, sys))
<1> DEFINE X == Patterns \X (0..MaxInstance)
           p == PatternAt(u, sys)
           x == u.order[sys + 1]
           o == RemoveAt(u.order, sys + 1)
           u1 == [u EXCEPT !.order = o]
           gone == [k \in {j \in SheetKeys : PatternOf(j) = p} |-> None]
           c == RemovePatternChanges(u1, p)
           y == Put(c, gone)
           l == IF y.last # None /\ PatternOf(y.last.key) = p THEN [y.last EXCEPT !.orphan = TRUE] ELSE y.last
           w == [y EXCEPT !.last = l]
<1>1. RemovePatternInstance(u, sys) = IF Cardinality(InstancesOf(u, p)) > 1 THEN u1 ELSE w
  BY DEF RemovePatternInstance
<1>2. u.order \in Seq(X) /\ IsInjective(u.order) /\ Len(u.order) \in Nat /\ IsOrder(u.order)
  BY DEF Base, Deep, IsOrder
<1>3. sys + 1 \in 1..Len(u.order)  BY <1>2
<1>4. x[1] = p  BY DEF PatternAt
<1> HIDE DEF X
<1>5. o \in Seq(X) /\ IsInjective(o) /\ ToSet(o) = ToSet(u.order) \ {x} /\ x \in ToSet(u.order)
  BY <1>2, <1>3, RemovedIs
<1> HIDE DEF o, x
<1>6. IsOrder(o)  BY <1>5 DEF IsOrder, X
<1>7. CASE ~(Cardinality(InstancesOf(u, p)) > 1)
  <2> HIDE DEF p
  <2>1. IsUi(u) /\ Deep(u) /\ Face(u)  BY DEF Base
  <2>2. IsUi(u1) /\ u1.order = o /\ \A f \in Fields : f # "order" => u1[f] = u[f]  BY <2>1 DEF IsUi, Fields
  <2> HIDE DEF u1
  <2>3. u1.past = u.past /\ u1.future = u.future /\ u1.step = u.step /\ u1.damaged = u.damaged /\ u1.data = u.data
    BY <2>2 DEF Fields
  <2> DEFINE P == Keeping(u.past, Untouched(u.past, p))
             F == Keeping(u.future, Untouched(u.future, p))
             Dropped == {s \in ToSet(u.past) \union ToSet(u.future) : Touches(s, p)}
             Open == IF u.step # None /\ Touches(u.step, p) THEN TouchedBy({u.step}) ELSE {}
             D == u.damaged \union (TouchedBy(Dropped) \ {p}) \union Open
  <2>4. c = [u1 EXCEPT !.past = P, !.future = F, !.damaged = D]  BY <2>3 DEF RemovePatternChanges, Untouched
  <2>5. u.damaged \subseteq D  OBVIOUS
  <2>6. Mends(u.past, p, D) /\ Mends(u.future, p, D)
    <3>1. \A s \in Dropped : \A k \in DOMAIN s.new : PatternOf(k) \in TouchedBy(Dropped)  BY DEF TouchedBy
    <3> HIDE DEF Open
    <3> QED  BY <3>1 DEF Mends
  <2>7. u.step # None /\ Touches(u.step, p) => \A k \in DOMAIN u.step.new : PatternOf(k) \in D  BY DEF TouchedBy
  <2> HIDE DEF D, P, F, Dropped, Open
  <2>8. /\ IsUi(c) /\ c.past = P /\ c.future = F /\ c.damaged = D
        /\ \A f \in Fields : f \notin {"past", "future", "damaged"} => c[f] = u1[f]  BY <2>2, <2>4 DEF IsUi, Fields
  <2> HIDE DEF c
  <2>9. DOMAIN gone = {j \in SheetKeys : PatternOf(j) = p} /\ \A k \in DOMAIN gone : gone[k] = None  OBVIOUS
  <2> HIDE DEF gone
  <2>10. IsData(gone)  BY <2>9 DEF IsData, IsValue
  <2>11. c.data = u.data /\ IsSheet(c.data)  BY <2>1, <2>3, <2>8 DEF Fields, Deep
  <2>12. /\ Overwrites(c.data, gone, y.data) /\ IsSheet(y.data)
         /\ IsUi(y) /\ \A f \in Fields : f # "data" => y[f] = c[f]  BY <2>8, <2>10, <2>11, PutIs
  <2> HIDE DEF y
  <2>13. Clears(u.data, y.data, p)  BY <2>9, <2>11, <2>12 DEF Clears, Overwrites
  <2>14. IsHistory(y.data, D, P, u.step, F)  BY <2>1, <2>5, <2>6, <2>7, <2>13, HistoryWithout DEF Deep, P, F
  <2>15. Len(F) <= Len(u.future)  BY <2>1, RestIs DEF Deep, IsHistory, F
  <2>16. IsUi(w) /\ w.last = l /\ \A f \in Fields : f # "last" => w[f] = y[f]  BY <2>12 DEF IsUi, Fields
  <2>17. y.last = u.last  BY <2>2, <2>8, <2>12 DEF Fields
  <2>18. IsLast(u.last)  BY <2>1 DEF Face
  <2>19. IsLast(l) /\ (l # None /\ ~l.orphan => l = u.last /\ l.key \in ColumnKeys /\ PatternOf(l.key) # p)
    <3>1. CASE y.last # None /\ PatternOf(y.last.key) = p  BY <2>17, <3>1, <2>18 DEF IsLast
    <3>2. CASE ~(y.last # None /\ PatternOf(y.last.key) = p)  BY <2>17, <3>2, <2>18 DEF IsLast
    <3> QED  BY <3>1, <3>2
  <2> HIDE DEF l, w
  <2>20. /\ w.order = o /\ w.past = P /\ w.future = F /\ w.damaged = D /\ w.step = u.step /\ w.data = y.data
         /\ w.sel = u.sel /\ w.start = u.start /\ w.stop = u.stop /\ w.chordStart = u.chordStart /\ w.clip = u.clip
         /\ w.control = u.control /\ w.field = u.field /\ w.replace = u.replace /\ w.connected = u.connected
    BY <2>12, <2>16, <2>8, <2>2 DEF Fields
  <2>21. Deep(w)  BY <1>6, <2>12, <2>14, <2>20 DEF Deep
  <2>22. Face(w)  BY <2>1, <2>16, <2>19, <2>20 DEF Face
  <2>23. Current(w)
    <3> SUFFICES ASSUME w.last # None, ~w.last.orphan PROVE w.last.rows = Stored(w, w.last.key)  BY DEF Current
    <3>1. w.last = u.last /\ w.last.key \in ColumnKeys /\ PatternOf(w.last.key) # p  BY <2>16, <2>19
    <3>2. u.last.rows = Stored(u, u.last.key)  BY <3>1 DEF Current
    <3> QED  BY <3>1, <3>2, <2>13, <2>20, ColumnKeysAre DEF Stored, Clears
  <2>24. p \notin UsedPatterns(w)  BY <1>5, <1>6, <2>20, <1>2, <1>4, <1>7, LastInstance
  <2>25. \A k \in ColumnKeys : PatternOf(k) \in UsedPatterns(w) => w.data[k] = u.data[k]
    BY <2>13, <2>20, <2>24, ColumnKeysAre DEF Clears
  <2>26. Turns(u, w)  BY <2>15, <2>16, <2>20, <2>21, <2>22, <2>23, <2>25 DEF Turns, Base
  <2> QED  BY <1>1, <1>7, <2>26
<1> QED  BY <1>1, <1>7, <1>6, ReorderIs

-----------------------------------------------------------------------------
\* The actions.

Inv == Base(ui) /\ Current(ui)

LEMMA StaysTurn == ASSUME NEW u, Base(u), Current(u), NEW v, Stays(u, v) PROVE Turns(u, v)
  BY StaysEdits, EditsTurn

LEMMA StayOn == ASSUME NEW u, Base(u), Current(u), NEW v, Stays(u, v) PROVE Base(v) /\ Current(v) /\ (HasAlbum(u) => HasAlbum(v))
  BY DEF Stays, Kept, HasAlbum

LEMMA TypingTurns ==
    ASSUME Inv PROVE  (FocusIn \/ FocusOut \/ (\E k \in Keys : Press(k) \/ Release(k)) \/ AddRest \/ Delete \/ Backspace) => Turns(ui, ui')
<1>1. Base(ui) /\ Current(ui)  BY DEF Inv
<1>2. ASSUME FocusIn PROVE Turns(ui, ui')  BY <1>1, <1>2, FocusGainedIs, EditsTurn DEF FocusIn, To
<1>3. ASSUME FocusOut PROVE Turns(ui, ui')  BY <1>1, <1>3, FocusLostIs, EditsTurn DEF FocusOut, To
<1>4. ASSUME NEW k \in Keys, Press(k) PROVE Turns(ui, ui')
  <2> DEFINE a == [ui EXCEPT !.down = ui.down \union {k}]
             b == PressNote(a)
             notes == IF b.chord /\ EditingEnabled(ui) THEN b.chordNotes \union {k} ELSE b.chordNotes
             c == [b EXCEPT !.chordNotes = notes]
  <2>1. ui' = c  BY <1>4 DEF Press, To
  <2>2. Stays(ui, a)  BY <1>1, FreeSetStays
  <2> HIDE DEF a
  <2>3. Edits(a, b)  BY <1>1, <2>2, StayOn, PressNoteIs
  <2> HIDE DEF b
  <2> HIDE DEF notes
  <2>4. Stays(b, c)  BY <2>3, FreeSetStays DEF Edits
  <2> HIDE DEF c
  <2> QED  BY <2>1, EditsTurn, <1>1, <2>4, EditsStay, <2>2, <2>3, StayEdits
<1>5. ASSUME NEW k \in Keys, Release(k) PROVE Turns(ui, ui')
  <2> DEFINE a == [ui EXCEPT !.down = ui.down \ {k}, !.chordNotes = ui.chordNotes \ {k}]
  <2>1. ui' = a \/ ui' = SetChordMode(a, FALSE)  BY <1>5 DEF Release, To
  <2>2. Stays(ui, a)  BY <1>1, FreeSetStays
  <2> HIDE DEF a
  <2> QED  BY <2>1, EditsTurn, <1>1, <2>2, StayEdits, StaysEdits, StayOn, SetChordModeIs
<1>6. ASSUME AddRest PROVE Turns(ui, ui')  BY <1>1, <1>6, AddTriggerIs, EditsTurn DEF Events, AddRest, To
<1>7. ASSUME Delete PROVE Turns(ui, ui')
  BY <1>1, <1>7, TryRemoveAreaIs, TryRemoveTriggerIs, EditsTurn DEF Delete, To, InView
<1>8. ASSUME Backspace PROVE Turns(ui, ui')
  <2> DEFINE n == Location(ui).idx
             v == MoveTriggerIndex(ui, n - 1)
             w == TryRemoveTrigger(v)
  <2>1. ui' = w /\ HasAlbum(ui) /\ n > 0  BY <1>8 DEF Backspace, To, CanEdit
  <2>2. n \in Nat  BY <1>1, LocationIs, LocIs
  <2> HIDE DEF n
  <2>3. Stays(ui, v)  BY <1>1, <2>1, MoveTriggerIndexIs, <2>2
  <2> HIDE DEF v
  <2>4. Edits(v, w)  BY <1>1, <2>3, StayOn, TryRemoveTriggerIs
  <2> HIDE DEF w
  <2> QED  BY <2>1, EditsTurn, <1>1, <2>3, <2>4, StayEdits
<1> QED  BY <1>2, <1>3, <1>4, <1>5, <1>6, <1>7, <1>8

LEMMA FieldTurns ==
    ASSUME Inv PROVE EnterField \/ TypeDone \/ ArgumentDone \/ CancelField => Turns(ui, ui')
<1>1. Base(ui) /\ Current(ui)  BY DEF Inv
<1>2. ASSUME EnterField PROVE Turns(ui, ui')
  BY <1>1, <1>2, StartArgumentIs, StartFieldIs, EditsTurn DEF EnterField, To
<1>3. ASSUME TypeDone PROVE Turns(ui, ui')  BY <1>1, <1>3, FinishTypeIs, EditsTurn DEF TypeDone, To
<1>4. ASSUME ArgumentDone PROVE Turns(ui, ui')  BY <1>1, <1>4, FinishArgumentIs, EditsTurn DEF ArgumentDone, To
<1>5. ASSUME CancelField PROVE Turns(ui, ui')  BY <1>1, <1>5, FocusGainedIs, EditsTurn DEF CancelField, To
<1> QED  BY <1>2, <1>3, <1>4, <1>5

LEMMA MoveTurns ==
    ASSUME Inv PROVE Up \/ Down \/ Sideways \/ ToColumn \/ ToEnd \/ Click => Turns(ui, ui')
<1>1. Base(ui) /\ Current(ui)  BY DEF Inv
<1> DEFINE v == ClearArea(ui)
<1>2. Stays(ui, v)  BY <1>1, ClearAreaStays
<1>3. Base(v) /\ Current(v) /\ (HasAlbum(ui) => HasAlbum(v))  BY <1>1, <1>2, StayOn
<1>4. ASSUME NEW w, Stays(v, w) PROVE Turns(ui, w)  BY <1>2, <1>4, StaysTrans, <1>1, StaysTurn
<1>5. ASSUME Up PROVE Turns(ui, ui')  BY <1>5, <1>3, <1>4, MoveUpIs DEF Up, To
<1>6. ASSUME Down PROVE Turns(ui, ui')  BY <1>6, <1>3, <1>4, MoveDownIs DEF Down, To
<1>7. ASSUME Sideways PROVE Turns(ui, ui')
  <2>1. PICK right \in BOOLEAN : ui' = MoveTrow(v, right) /\ HasAlbum(ui)  BY <1>7 DEF Sideways, To
  <2> HIDE DEF v
  <2> QED  BY <1>3, <1>4, <2>1, MoveTrowIs
<1>8. ASSUME ToColumn PROVE Turns(ui, ui')
  <2>1. PICK right \in BOOLEAN : ui' = MoveColumn(v, right) /\ HasAlbum(ui)  BY <1>8 DEF ToColumn, To
  <2> HIDE DEF v
  <2> QED  BY <1>3, <1>4, <2>1, MoveColumnIs
<1>9. ASSUME ToEnd PROVE Turns(ui, ui')  BY <1>9, <1>3, <1>4, MoveTriggerIndexIs DEF ToEnd, To, FarIndex
<1>10. ASSUME Click PROVE Turns(ui, ui')
  <2>1. PICK sys \in 0..(MaxSystems - 1), col \in ColNums, ts \in 0..DefaultLength, idx \in 0..2 :
           ui' = SetLocation(ClearArea(FocusGained(ui)), [sys |-> sys, col |-> col, ts |-> ts, idx |-> idx])
    BY <1>10 DEF Click, To
  <2> DEFINE loc == [sys |-> sys, col |-> col, ts |-> ts, idx |-> idx]
             a == FocusGained(ui)
             b == ClearArea(a)
             c == SetLocation(b, loc)
  <2>2. IsLoc(loc)  BY SheetAssumption DEF IsLoc, Locations
  <2>3. ui' = c  BY <2>1
  <2> HIDE DEF loc
  <2>4. Edits(ui, a)  BY <1>1, FocusGainedIs
  <2> HIDE DEF a
  <2>5. Stays(a, b)  BY <2>4, ClearAreaStays DEF Edits
  <2> HIDE DEF b
  <2>6. Stays(b, c)  BY <2>2, <2>5, SetLocationIs DEF Stays
  <2> HIDE DEF c
  <2> QED  BY <2>3, EditsTurn, <1>1, <2>4, <2>5, <2>6, StaysTrans, EditsStay
<1> QED  BY <1>5, <1>6, <1>7, <1>8, <1>9, <1>10

LEMMA AreaTurns ==
    ASSUME Inv
    PROVE  AreaUp \/ AreaDown \/ AreaSideways \/ AreaToEnd \/ AreaAll \/ AreaColumnsOf => Turns(ui, ui')
<1>1. Base(ui) /\ Current(ui)  BY DEF Inv
<1> DEFINE a == TrySetStart(Located(ui), Location(ui))
<1>2. Stays(ui, a) /\ Base(a) /\ (HasAlbum(ui) => HasAlbum(a))  BY <1>1, ExtendBegins
<1>3. ASSUME NEW b, Stays(a, b) PROVE Turns(ui, SetStop(Located(b), Location(b)))
  <2> HIDE DEF a
  <2> DEFINE c == SetStop(Located(b), Location(b))
  <2>1. Stays(b, c)  BY <1>3, ExtendEnds DEF Stays
  <2> HIDE DEF c
  <2> QED  BY <1>1, StaysTurn, <1>2, <1>3, <2>1, StaysTrans DEF c
<1>4. ASSUME AreaUp PROVE Turns(ui, ui')
  <2> DEFINE b == MoveUp(a)
  <2>1. ui' = SetStop(Located(b), Location(b)) /\ HasAlbum(ui)  BY <1>4 DEF AreaUp, To, Extend
  <2> HIDE DEF a
  <2>2. Stays(a, b)  BY <1>2, <2>1, MoveUpIs
  <2> HIDE DEF b
  <2> QED  BY <1>3, <2>1, <2>2
<1>5. ASSUME AreaDown PROVE Turns(ui, ui')
  <2> DEFINE b == MoveDown(a)
  <2>1. ui' = SetStop(Located(b), Location(b)) /\ HasAlbum(ui)  BY <1>5 DEF AreaDown, To, Extend
  <2> HIDE DEF a
  <2>2. Stays(a, b)  BY <1>2, <2>1, MoveDownIs
  <2> HIDE DEF b
  <2> QED  BY <1>3, <2>1, <2>2
<1>6. ASSUME AreaSideways PROVE Turns(ui, ui')
  <2>1. PICK right \in BOOLEAN : To(Extend(ui, LAMBDA u : ExtendSideways(u, right))) /\ HasAlbum(ui)
    BY <1>6 DEF AreaSideways
  <2> DEFINE b == ExtendSideways(a, right)
  <2>2. ui' = SetStop(Located(b), Location(b)) /\ HasAlbum(ui)  BY <2>1 DEF To, Extend
  <2> HIDE DEF a
  <2>3. Stays(a, b)  BY <1>2, <2>2, ExtendSidewaysIs
  <2> HIDE DEF b
  <2> QED  BY <1>3, <2>2, <2>3
<1>7. ASSUME AreaToEnd PROVE Turns(ui, ui')
  <2> DEFINE b == MoveTriggerIndex(a, FarIndex)
  <2>1. ui' = SetStop(Located(b), Location(b)) /\ HasAlbum(ui)  BY <1>7 DEF AreaToEnd, To, Extend
  <2> HIDE DEF a
  <2>2. Stays(a, b)  BY <1>2, <2>1, MoveTriggerIndexIs DEF FarIndex
  <2> HIDE DEF b
  <2> QED  BY <1>3, <2>1, <2>2
<1>8. ASSUME AreaAll PROVE Turns(ui, ui')  BY <1>1, <1>8, SelectAllIs, StaysTurn DEF AreaAll, To
<1>9. ASSUME AreaColumnsOf PROVE Turns(ui, ui')  BY <1>1, <1>9, SelectColumnsIs, StaysTurn DEF AreaColumnsOf, To
<1> QED  BY <1>4, <1>5, <1>6, <1>7, <1>8, <1>9

LEMMA ClipboardTurns ==
    ASSUME Inv PROVE Copy \/ Cut \/ Paste \/ ConvertSelected => Turns(ui, ui')
<1>1. Base(ui) /\ Current(ui)  BY DEF Inv
<1> DEFINE a == CopyArea(ui)
<1>2. ASSUME Copy PROVE Turns(ui, ui')
  <2> DEFINE b == ClearArea(a)
  <2>1. ui' = b /\ HasArea(ui)  BY <1>2 DEF Copy, To
  <2>2. Stays(ui, a)  BY <1>1, <2>1, CopyAreaIs
  <2> HIDE DEF a
  <2>3. Stays(a, b)  BY <2>2, ClearAreaStays DEF Stays
  <2> HIDE DEF b
  <2> QED  BY <1>1, <2>1, <2>2, <2>3, StaysTrans, StaysTurn
<1>3. ASSUME Cut PROVE Turns(ui, ui')
  <2> DEFINE b == TryRemoveArea(a)
  <2>1. (ui' = a \/ ui' = b) /\ HasArea(ui) /\ AllowEditing(ui)  BY <1>3 DEF Cut, To
  <2>2. Stays(ui, a)  BY <1>1, <2>1, CopyAreaIs
  <2> HIDE DEF a
  <2>3. Edits(a, b)  BY TryRemoveAreaIs, <1>1, <2>1, <2>2 DEF Stays, Kept, AllowEditing
  <2> HIDE DEF b
  <2> QED  BY <1>1, <2>1, <2>2, StaysTurn, EditsTurn, <2>3, StayEdits
<1>4. ASSUME Paste PROVE Turns(ui, ui')
  <2> DEFINE b == PasteArea(ui)
             c == ClearArea(b)
  <2>1. ui' = c /\ AllowEditing(ui) /\ ui.clip # None  BY <1>4 DEF Paste, To
  <2>2. Edits(ui, b)  BY <1>1, <2>1, PasteAreaIs
  <2> HIDE DEF b
  <2>3. Stays(b, c)  BY <2>2, ClearAreaStays DEF Edits
  <2> HIDE DEF c
  <2> QED  BY <2>1, EditsTurn, <1>1, <2>2, <2>3, EditsStay
<1>5. ASSUME ConvertSelected PROVE Turns(ui, ui')
  BY <1>5, <1>1, ConvertIs, EditsTurn DEF ConvertSelected, To, EditingEnabled
<1> QED  BY <1>2, <1>3, <1>4, <1>5

LEMMA ModeTurns ==
    ASSUME Inv PROVE ToggleConnected \/ ToggleReplace \/ ChangeLength \/ FinishLength => Turns(ui, ui')
<1>1. Base(ui) /\ Current(ui)  BY DEF Inv
<1>2. ASSUME ToggleConnected \/ ToggleReplace PROVE Turns(ui, ui')
  <2> DEFINE a == ~ui.connected
             b == ~ui.replace
  <2>1. a \in BOOLEAN /\ b \in BOOLEAN  OBVIOUS
  <2> HIDE DEF a, b
  <2> QED  BY <1>1, <2>1, ModesStay, StaysTurn, <1>2 DEF ToggleConnected, ToggleReplace, To
<1>3. ASSUME ChangeLength PROVE Turns(ui, ui')
  <2> DEFINE p == PatternAt(ui, Location(ui).sys)
             a == Located(ui)
             b == [a EXCEPT !.spin = TRUE]
  <2>1. PICK length \in 1..DefaultLength : (ui' = b \/ ui' = SetPatternLength(b, p, length, FALSE)) /\ HasAlbum(ui)
    BY <1>3 DEF ChangeLength, To
  <2>2. p \in Patterns  BY KeyIs, <1>1, <2>1, LocationIs DEF Base, Deep
  <2> DEFINE c == SetPatternLength(b, p, length, FALSE)
  <2>3. ui' = b \/ ui' = c  BY <2>1
  <2> HIDE DEF p
  <2>4. Stays(ui, a)  BY <1>1, LocatedIs
  <2> HIDE DEF a
  <2>5. Stays(a, b)  BY <2>4, FreeSetStays DEF Stays
  <2> HIDE DEF b
  <2>6. Stays(ui, b)  BY <2>4, <2>5, StaysTrans
  <2>7. Edits(b, c)  BY <1>1, <2>2, <2>6, StayOn, SetPatternLengthIs
  <2> HIDE DEF c
  <2> QED  BY <1>1, <2>3, <2>6, StaysTurn, EditsTurn, <2>7, StayEdits
<1>4. ASSUME FinishLength PROVE Turns(ui, ui')  BY <1>1, <1>4, LengthDoneIs, EditsTurn DEF FinishLength, To
<1> QED  BY <1>2, <1>3, <1>4

LEMMA AlbumTurns ==
    ASSUME Inv PROVE AddPattern \/ ReusePattern \/ RemovePattern \/ MovePattern => Turns(ui, ui')
<1>1. Base(ui) /\ Current(ui) /\ IsOrder(ui.order) /\ Len(ui.order) \in Nat  BY OrderIs DEF Inv, Base, Deep
<1>2. ASSUME AddPattern PROVE Turns(ui, ui')
  <2>1. PICK sys \in 0..Len(ui.order) : ui' = InsertPatternInstance(ui, sys, <<NewPattern(ui), 0>>)
    BY <1>2 DEF AddPattern, To
  <2> QED  BY <1>1, <2>1, AddPatternIs, <1>2 DEF AddPattern
<1>3. ASSUME ReusePattern PROVE Turns(ui, ui')
  <2>1. PICK sys \in 0..(Len(ui.order) - 1) :
           /\ InstancesOf(ui, PatternAt(ui, sys)) # 0..MaxInstance
           /\ ui' = InsertPatternInstance(ui, sys + 1, <<PatternAt(ui, sys), NewInstance(ui, PatternAt(ui, sys))>>)
    BY <1>3 DEF ReusePattern, To
  <2> QED  BY <1>1, <2>1, ReusePatternIs, PatternIs
<1>4. ASSUME RemovePattern PROVE Turns(ui, ui')
  <2> DEFINE a == LengthDone(ui)
             b == FocusLost(a)
  <2>1. PICK sys \in 0..(Len(ui.order) - 1) : ui' = RemovePatternInstance(b, sys)  BY <1>4 DEF RemovePattern, To
  <2>2. Edits(ui, a)  BY <1>1, LengthDoneIs
  <2> HIDE DEF a
  <2>3. Edits(a, b)  BY <2>2, FocusLostIs DEF Edits
  <2> HIDE DEF b
  <2> QED  BY <1>1, EditsThenTurn, <2>1, RemovePatternIs, <2>2, <2>3, EditsTrans DEF Edits
<1>5. ASSUME MovePattern PROVE Turns(ui, ui')
  <2>1. PICK from \in 0..(Len(ui.order) - 1), to \in 0..(Len(ui.order) - 1) : ui' = MovePatternInstance(ui, from, to)
    BY <1>5 DEF MovePattern, To
  <2> QED  BY <1>1, <2>1, MovePatternIs
<1> QED  BY <1>2, <1>3, <1>4, <1>5

\* The playback.
LEMMA PlayedIs ==
    ASSUME NEW u, Base(u), Current(u), NEW v, IsUi(v), \A f \in Fields \ {"playing", "recording"} : v[f] = u[f]
    PROVE  Turns(u, v) /\ v.data = u.data
BY FutureLen DEF Fields, Base, Deep, Face, Current, Stored, Turns

LEMMA PlaybackTurns ==
    ASSUME Inv PROVE Play \/ Silence \/ Record \/ PlaybackMoves \/ Paint => Turns(ui, ui')
<1>1. Base(ui) /\ Current(ui) /\ IsUi(ui)  BY DEF Inv, Base
<1>2. ASSUME Play PROVE Turns(ui, ui')  BY <1>2, <1>1, PlayedIs DEF Play, To, IsUi, Fields
<1>3. ASSUME Silence PROVE Turns(ui, ui')  BY <1>3, <1>1, PlayedIs DEF Silence, To, IsUi, Fields
<1>4. ASSUME Record PROVE Turns(ui, ui')
  <2>1. CASE ui' = [ui EXCEPT !.recording = FALSE]  BY <1>1, <2>1, PlayedIs DEF IsUi, Fields
  <2>2. CASE ui' = SetTypewriterConnected([ui EXCEPT !.recording = TRUE, !.playing = TRUE], TRUE)
    <3> DEFINE a == [ui EXCEPT !.recording = TRUE, !.playing = TRUE]
               b == SetTypewriterConnected(a, TRUE)
    <3>1. IsUi(a) /\ (\A f \in Fields \ {"playing", "recording"} : a[f] = ui[f]) /\ a.recording
      BY <1>1 DEF IsUi, Fields
    <3>2. ui' = b  BY <2>2
    <3> HIDE DEF a
    <3>3. Turns(ui, a) /\ a.data = ui.data  BY <1>1, <3>1, PlayedIs
    <3>4. Stays(a, b)  BY <3>3, ModesStay DEF Turns
    <3> HIDE DEF b
    <3> QED  BY <3>2, <3>3, <3>1, <3>4, StaysTurn DEF Turns, Stays, Kept, AllowEditing
  <2> QED  BY <1>4, <2>1, <2>2 DEF Record, To
<1>5. ASSUME PlaybackMoves PROVE Turns(ui, ui')
  <2>1. PICK sys \in 0..(Len(ui.order) - 1), ts \in 0..1 :
           ui' = SetLocation(Located(ui), [Location(ui) EXCEPT !.sys = sys, !.ts = ts, !.idx = 0])
    BY <1>5 DEF PlaybackMoves, To
  <2> DEFINE a == Located(ui)
             here == Location(ui)
             loc == [here EXCEPT !.sys = sys, !.ts = ts, !.idx = 0]
             b == SetLocation(a, loc)
  <2>2. ui' = b  BY <2>1
  <2>3. IsOrder(ui.order) /\ Len(ui.order) \in Nat /\ here \in Locations  BY <1>1, OrderIs, LocationIs DEF Base, Deep
  <2> HIDE DEF here
  <2>4. sys \in Nat /\ ts \in Nat  BY <2>3
  <2>5. IsLoc(loc)  BY <2>3, <2>4 DEF IsLoc, Locations
  <2> HIDE DEF loc
  <2>6. Stays(ui, a)  BY <1>1, LocatedIs
  <2> HIDE DEF a
  <2>7. Stays(a, b)  BY <2>5, <2>6, SetLocationIs DEF Stays
  <2> HIDE DEF b
  <2> QED  BY <1>1, <2>2, <2>6, <2>7, StaysTrans, StaysTurn
<1>6. ASSUME Paint PROVE Turns(ui, ui')  BY <1>1, <1>6, SeenIs, StaysTurn DEF Paint
<1> QED  BY <1>2, <1>3, <1>4, <1>5, <1>6

-----------------------------------------------------------------------------
\* The specification.

LEMMA InitIs == Init => Inv
<1> SUFFICES ASSUME Init PROVE Inv  OBVIOUS
<1>1. PICK b \in Beginnings :
        ui = [data |-> b.data, order |-> b.order, sel |-> b.sel,
              past |-> <<>>, future |-> <<>>, step |-> None, damaged |-> {},
              start |-> None, stop |-> None, clip |-> None,
              chord |-> FALSE, chordStart |-> None, chordNotes |-> {}, down |-> {},
              edit |-> b.edit, field |-> None, spin |-> FALSE,
              connected |-> b.connected, replace |-> FALSE,
              playing |-> FALSE, recording |-> FALSE,
              last |-> None, control |-> 0, failed |-> None]  BY DEF Init
<1>2. IsData(b.data) /\ DOMAIN b.data = SheetKeys /\ IsOrder(b.order) /\ (b.sel # None => b.sel \in Locations)
  BY SheetsAtFirst
<1>3. /\ ui.data = b.data /\ ui.order = b.order /\ ui.sel = b.sel /\ ui.past = <<>> /\ ui.future = <<>>
      /\ ui.step = None /\ ui.damaged = {} /\ ui.start = None /\ ui.stop = None /\ ui.clip = None
      /\ ui.chordStart = None /\ ui.field = None /\ ui.replace = FALSE /\ ui.last = None /\ ui.control = 0  BY <1>1
<1>4. Deep(ui)  BY <1>2, <1>3, FitsEmpty DEF Deep, IsSheet, IsHistory
<1>5. Face(ui)  BY <1>2, <1>3 DEF Face, IsLoc, IsClip, IsLast
<1> QED  BY <1>3, <1>4, <1>5, <1>1 DEF Inv, Base, Current, IsUi, Fields

\* What a step of the specification does, apart from undo.
LEMMA NextTurns == ASSUME Inv PROVE Next => Turns(ui, ui') \/ UndoEdit
<1>1. ASSUME RedoEdit PROVE Turns(ui, ui')  BY <1>1, RedoIs DEF RedoEdit, To, Turns, Alters, Inv
<1> QED
  BY <1>1, TypingTurns, FieldTurns, MoveTurns, AreaTurns, ClipboardTurns, ModeTurns, AlbumTurns, PlaybackTurns DEF
     Next

LEMMA NextKeeps == Inv /\ [Next]_vars => Inv'
<1> SUFFICES ASSUME Inv, [Next]_vars PROVE Inv'  OBVIOUS
<1>1. Base(ui) /\ Current(ui)  BY DEF Inv
<1>2. ASSUME Turns(ui, ui') PROVE Inv'  BY <1>2 DEF Turns, Inv
<1>3. ASSUME UndoEdit PROVE Inv'  BY <1>3, <1>1, UndoIs DEF UndoEdit, To, Alters, Inv
<1>4. ASSUME UNCHANGED vars PROVE Inv'  BY <1>4, <1>1 DEF vars, Inv
<1> QED  BY <1>2, <1>3, <1>4, NextTurns

\* The data, the order list, the history, the selection and the cached
\* column are what they should be, whatever the user does.
THEOREM Invariance == Spec => []Inv
<1>1. Init => Inv  BY InitIs
<1>2. Inv /\ [Next]_vars => Inv'  BY NextKeeps
<1> QED  BY <1>1, <1>2, PTL DEF Spec

LEMMA InvSees == Inv => HandlersSeeTheSheet
<1> SUFFICES ASSUME Inv PROVE HandlersSeeTheSheet  OBVIOUS
<1> QED  BY DEF Current, Face, HandlersSeeTheSheet, CacheIsCurrent, ReplaceNeedsConnection, Inv, Base

\* HandlersSeeTheSheet: the column that the sheet manager keeps is the one
\* in the store, unless its pattern is gone, so that no handler edits a
\* column from rows it had before a load, an undo or an edit elsewhere;
\* and the replace mode is on only with a typewriter connected.
THEOREM HandlersAlwaysSee == Spec => []HandlersSeeTheSheet
<1>1. Inv => HandlersSeeTheSheet  BY InvSees
<1> QED  BY <1>1, Invariance, PTL

LEMMA InvIsSound == Inv => HistoryIsSound
<1> SUFFICES ASSUME Inv PROVE HistoryIsSound  OBVIOUS
<1>1. IsUi(ui) /\ Deep(ui) /\ Face(ui)  BY DEF Inv, Base
<1>2. /\ ui.past \in Seq(TypedSteps) /\ ui.future \in Seq(TypedSteps)
      /\ ui.step = None \/ (ui.step \in TypedSteps /\ ui.future = <<>>)
      /\ Fits(ui.data, ui.damaged, StepsOf(ui), "old", "new")
      /\ Fits(ui.data, ui.damaged, ui.future, "new", "old")  BY <1>1 DEF Deep, IsHistory, StepsOf
<1>3. TypeOK  BY <1>1, <1>2 DEF Deep, IsSheet, ToSet, TypedSteps, Face, IsLoc, TypeOK
<1> QED  BY <1>3, <1>2, TilesFits DEF HistoryIsSound, HistoryTiles, OpenStepHasNoFuture

\* HistoryIsSound: for every key, the values that the steps of the history
\* took and gave follow on each other and end in the value the sheet has,
\* so that undo and redo give back what was there, also after patterns
\* were removed; and while a step is open there is nothing to redo.
THEOREM HistoryStaysSound == Spec => []HistoryIsSound
<1>1. Inv => HistoryIsSound  BY InvIsSound
<1> QED  BY <1>1, Invariance, PTL

LEMMA UndoShows ==
    ASSUME Inv, UndoEdit
    PROVE  /\ ~AllowEditing(ui) => \A k \in ColumnKeys : ui'.data[k] = ui.data[k]
           /\ Len(ui'.future) > Len(ui.future) => ShowsStep(Last(ui'.future))
BY UndoIs DEF UndoEdit, To, Inv, Alters, Shows, ShowsStep

LEMMA StepFreezes ==
    Inv /\ [Next]_vars => (Frozen /\ Frozen' => Triggers(ui') = Triggers(ui))
<1> SUFFICES ASSUME Inv, [Next]_vars, Frozen, Frozen' PROVE Triggers(ui') = Triggers(ui)  OBVIOUS
<1> DEFINE P == UsedPatterns(ui) \cap UsedPatterns(ui')
<1>1. \A p \in P, c \in ColNums : ColKey(p, c) \in ColumnKeys /\ PatternOf(ColKey(p, c)) \in UsedPatterns(ui')
  BY ColumnKeyIs, UsedAre DEF Inv, Base, Deep
<1> DEFINE K == {ColKey(p, c) : p \in P, c \in ColNums}
<1>2. Triggers(ui) = [k \in K |-> ui.data[k]] /\ Triggers(ui') = [k \in K |-> ui'.data[k]]  BY DEF Triggers
<1>3. \A k \in K : ui'.data[k] = ui.data[k]  BY <1>1, UndoShows, NextTurns DEF Turns, vars, Frozen, AllowEditing
<1> HIDE DEF K
<1> QED  BY <1>2, <1>3

LEMMA StepShows ==
    Inv /\ [Next]_vars =>
        /\ Len(ui'.future) > Len(ui.future) => ShowsStep(Last(ui'.future))
        /\ Len(ui'.future) < Len(ui.future) /\ RedoEdit => ShowsStep(Last(ui.future))
<1> SUFFICES ASSUME Inv, [Next]_vars
             PROVE  /\ Len(ui'.future) > Len(ui.future) => ShowsStep(Last(ui'.future))
                    /\ Len(ui'.future) < Len(ui.future) /\ RedoEdit => ShowsStep(Last(ui.future))  OBVIOUS
<1>1. Base(ui) /\ Current(ui)  BY DEF Inv
<1>2. Len(ui'.future) < Len(ui.future) /\ RedoEdit => ShowsStep(Last(ui.future))
  <2> SUFFICES ASSUME Len(ui'.future) < Len(ui.future), RedoEdit PROVE ShowsStep(Last(ui.future))  OBVIOUS
  <2> QED  BY <1>1, RedoIs DEF Shows, ShowsStep, RedoEdit, To
<1> QED  BY <1>2, NextKeeps, FutureLen, UndoShows, NextTurns, <1>1 DEF Turns, Inv, vars

\* ChangesAreSeen: while the view follows the playback and nothing is
\* recorded, no step changes the triggers of a pattern that stays in use;
\* and undo and redo leave the cursor where the step they applied shows.
THEOREM ChangesAreAlwaysSeen == Spec => ChangesAreSeen
<1>1. Inv /\ [Next]_vars => [Frozen /\ Frozen' => Triggers(ui') = Triggers(ui)]_vars  BY StepFreezes
<1>2. Inv /\ [Next]_vars => [/\ Len(ui'.future) > Len(ui.future) => ShowsStep(Last(ui'.future))
                             /\ Len(ui'.future) < Len(ui.future) /\ RedoEdit => ShowsStep(Last(ui.future))]_vars
  BY StepShows
<1>3. Spec => FollowingFreezesTriggers  BY <1>1, Invariance, PTL DEF Spec, FollowingFreezesTriggers
<1>4. Spec => HistoryShowsItsPattern  BY <1>2, Invariance, PTL DEF Spec, HistoryShowsItsPattern
<1> QED  BY <1>3, <1>4 DEF ChangesAreSeen
=============================================================================
