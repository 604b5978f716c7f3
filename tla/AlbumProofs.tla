----------------------------- MODULE AlbumProofs -----------------------------
(***************************************************************************)
(* The album stays an album: whatever the handlers of the order list do,   *)
(* in whatever order, the keys that the operations set one by one add up   *)
(* to songs, order lists, instances and patterns that agree; moves lose    *)
(* and reorder nothing else; and a hand that is slower than an update      *)
(* always finds in the list what is in the album.  For any number of       *)
(* songs, patterns and instances, and any album at first.                  *)
(*                                                                         *)
(* First the sequences and the transactions, then what each operation of   *)
(* the album does to its keys and why the album is sound afterwards, then  *)
(* the handlers and the update.                                            *)
(***************************************************************************)
EXTENDS Album, FiniteSetTheorems, WellFoundedInduction, TLAPS

-----------------------------------------------------------------------------
\* Sequences.

\* A part of a sequence.
LEMMA SubSeqIs ==
    ASSUME NEW X, NEW s \in Seq(X), NEW i \in Nat, NEW j \in Nat, 1 <= i, i <= j + 1, j <= Len(s)
    PROVE  SubSeq(s, i, j) \in Seq(X) /\ Len(SubSeq(s, i, j)) = j - i + 1
           /\ \A n \in 1..(j - i + 1) : SubSeq(s, i, j)[n] = s[n + i - 1]
OBVIOUS

\* Two sequences one after the other.
LEMMA ConcatIs ==
    ASSUME NEW X, NEW a \in Seq(X), NEW b \in Seq(X)
    PROVE  a \o b \in Seq(X) /\ Len(a \o b) = Len(a) + Len(b) /\ DOMAIN (a \o b) = 1..(Len(a) + Len(b))
           /\ (\A n \in 1..Len(a) : (a \o b)[n] = a[n])
           /\ \A n \in (Len(a) + 1)..(Len(a) + Len(b)) : (a \o b)[n] = b[n - Len(a)]
OBVIOUS

\* InsertAt of a sequence: every element once, in the old order, and x.
Insertion(s, k, x, e) ==
    /\ Len(e) = Len(s) + 1 /\ DOMAIN e = 1..Len(e)
    /\ e[k] = x
    /\ \A n \in DOMAIN s : e[IF n < k THEN n ELSE n + 1] = s[n]
    /\ \A m \in DOMAIN e : m = k \/ (m < k /\ m \in DOMAIN s /\ e[m] = s[m])
                                  \/ (m > k /\ m - 1 \in DOMAIN s /\ e[m] = s[m - 1])

\* InsertAt moves what follows by one.
LEMMA InsertAtIs ==
    ASSUME NEW X, NEW s \in Seq(X), NEW k \in 1..(Len(s) + 1), NEW x \in X
    PROVE  InsertAt(s, k, x) \in Seq(X) /\ Insertion(s, k, x, InsertAt(s, k, x))
<1> DEFINE a == SubSeq(s, 1, k - 1)
           b == SubSeq(s, k, Len(s))
           c == <<x>>
           ac == a \o c
           e == ac \o b
<1>1. DOMAIN s = 1..Len(s) /\ Len(s) \in Nat /\ k \in Nat /\ k - 1 \in Nat /\ 1 <= k /\ k <= Len(s) + 1  OBVIOUS
<1>2. a \in Seq(X) /\ Len(a) = k - 1 /\ \A n \in 1..(k - 1) : a[n] = s[n]  BY <1>1, SubSeqIs
<1>3. b \in Seq(X) /\ Len(b) = Len(s) - k + 1 /\ \A n \in 1..(Len(s) - k + 1) : b[n] = s[n + k - 1]  BY <1>1, SubSeqIs
<1>4. c \in Seq(X) /\ Len(c) = 1 /\ c[1] = x  OBVIOUS
<1> HIDE DEF a, b, c
<1>5. ac \in Seq(X) /\ Len(ac) = k /\ ac[k] = x /\ \A n \in 1..(k - 1) : ac[n] = s[n]
  <2>1. /\ ac \in Seq(X) /\ Len(ac) = Len(a) + Len(c)
        /\ \A n \in 1..Len(a) : ac[n] = a[n]
        /\ \A n \in (Len(a) + 1)..(Len(a) + Len(c)) : ac[n] = c[n - Len(a)]  BY <1>2, <1>4, ConcatIs
  <2> HIDE DEF ac
  <2>2. k - (k - 1) = 1  BY <1>1
  <2> QED  BY <2>1, <2>2, <1>1, <1>2, <1>4
<1> HIDE DEF ac
<1>6. /\ e \in Seq(X) /\ Len(e) = Len(ac) + Len(b) /\ DOMAIN e = 1..(Len(ac) + Len(b))
      /\ \A n \in 1..Len(ac) : e[n] = ac[n]
      /\ \A n \in (Len(ac) + 1)..(Len(ac) + Len(b)) : e[n] = b[n - Len(ac)]  BY <1>5, <1>3, ConcatIs
<1> HIDE DEF e
<1>7. Len(e) = Len(s) + 1 /\ DOMAIN e = 1..Len(e)  BY <1>1, <1>3, <1>5, <1>6
<1>8. \A n \in 1..(k - 1) : e[n] = s[n]  BY <1>1, <1>5, <1>6
<1>9. \A n \in (k + 1)..Len(e) : e[n] = s[n - 1]  BY <1>3, <1>1, <1>5, <1>6, <1>7
<1>10. InsertAt(s, k, x) = e  BY DEF InsertAt, e, ac, a, b, c
<1> QED  BY <1>6, <1>7, <1>10, <1>1, <1>5, <1>8, <1>9 DEF Insertion

\* RemoveAt of a sequence: every element but one, in the old order.
Without(s, k, e) ==
    /\ Len(e) = Len(s) - 1 /\ DOMAIN e = 1..Len(e)
    /\ \A n \in DOMAIN e : e[n] = s[IF n < k THEN n ELSE n + 1]
    /\ \A m \in DOMAIN s : m = k \/ (m < k /\ m \in DOMAIN e /\ e[m] = s[m])
                                  \/ (m > k /\ m - 1 \in DOMAIN e /\ e[m - 1] = s[m])

\* RemoveAt closes the gap.
LEMMA RemoveAtIs ==
    ASSUME NEW X, NEW s \in Seq(X), NEW k \in 1..Len(s)
    PROVE  RemoveAt(s, k) \in Seq(X) /\ Without(s, k, RemoveAt(s, k))
<1> DEFINE a == SubSeq(s, 1, k - 1)
           b == SubSeq(s, k + 1, Len(s))
           e == a \o b
<1>1. DOMAIN s = 1..Len(s) /\ Len(s) \in Nat /\ k \in Nat /\ k - 1 \in Nat /\ 1 <= k /\ k <= Len(s)  OBVIOUS
<1>2. a \in Seq(X) /\ Len(a) = k - 1 /\ \A n \in 1..(k - 1) : a[n] = s[n]
  <2>1. a \in Seq(X) /\ Len(a) = (k - 1) - 1 + 1 /\ \A n \in 1..((k - 1) - 1 + 1) : a[n] = s[n + 1 - 1]
    BY <1>1, SubSeqIs
  <2> HIDE DEF a
  <2> QED  BY <2>1, <1>1
<1>3. b \in Seq(X) /\ Len(b) = Len(s) - k /\ \A n \in 1..(Len(s) - k) : b[n] = s[n + k]
  <2>1. b \in Seq(X) /\ Len(b) = Len(s) - (k + 1) + 1
        /\ \A n \in 1..(Len(s) - (k + 1) + 1) : b[n] = s[n + (k + 1) - 1]
    <3>1. k + 1 \in Nat /\ 1 <= k + 1 /\ k + 1 <= Len(s) + 1 /\ Len(s) <= Len(s)  BY <1>1
    <3> QED  BY <3>1, <1>1, SubSeqIs
  <2> HIDE DEF b
  <2>2. Len(s) - (k + 1) + 1 = Len(s) - k  BY <1>1
  <2>3. \A n \in 1..(Len(s) - k) : n + (k + 1) - 1 = n + k  BY <1>1
  <2> QED  BY <2>1, <2>2, <2>3
<1> HIDE DEF a, b
<1>4. /\ e \in Seq(X) /\ Len(e) = Len(a) + Len(b) /\ DOMAIN e = 1..(Len(a) + Len(b))
      /\ \A n \in 1..Len(a) : e[n] = a[n]
      /\ \A n \in (Len(a) + 1)..(Len(a) + Len(b)) : e[n] = b[n - Len(a)]
  <2>1. a \in Seq(X) /\ b \in Seq(X)  BY <1>2, <1>3
  <2> QED  BY <2>1, ConcatIs
<1> HIDE DEF e
<1>5. Len(e) = Len(s) - 1 /\ DOMAIN e = 1..Len(e)  BY <1>1, <1>2, <1>3, <1>4
<1>6. \A n \in 1..(k - 1) : e[n] = s[n]  BY <1>1, <1>2, <1>4
<1>7. \A n \in k..Len(e) : e[n] = s[n + 1]
  <2> TAKE n \in k..Len(e)
  <2>1. e[n] = b[n - (k - 1)]  BY <1>1, <1>2, <1>3, <1>4, <1>5
  <2>2. n - (k - 1) \in 1..(Len(s) - k) /\ n - (k - 1) + k = n + 1  BY <1>1, <1>5
  <2> QED  BY <2>1, <2>2, <1>3
<1>8. RemoveAt(s, k) = e  BY DEF RemoveAt, e, a, b
<1>9. \A n \in DOMAIN e : e[n] = s[IF n < k THEN n ELSE n + 1]  BY <1>1, <1>5, <1>6, <1>7
<1>10. \A m \in DOMAIN s : m = k \/ (m < k /\ m \in DOMAIN e /\ e[m] = s[m])
                                  \/ (m > k /\ m - 1 \in DOMAIN e /\ e[m - 1] = s[m])  BY <1>1, <1>5, <1>6, <1>7
<1> QED  BY <1>4, <1>5, <1>8, <1>9, <1>10 DEF Without

Before(s, x, y) == \E i, j \in DOMAIN s : i < j /\ s[i] = x /\ s[j] = y
SameOrder(s, e, x) == \A y, z : y # x /\ z # x => (Before(s, y, z) <=> Before(e, y, z))

\* What InsertItem does to a sequence that does not have the item yet.
LEMMA InsertItemIs ==
    ASSUME NEW X, NEW s \in Seq(X), NEW i \in Nat, NEW x \in X, x \notin ToSet(s), IsInjective(s)
    PROVE  /\ InsertItem(s, i, x) \in Seq(X) /\ Len(InsertItem(s, i, x)) = Len(s) + 1
           /\ ToSet(InsertItem(s, i, x)) = ToSet(s) \union {x}
           /\ IsInjective(InsertItem(s, i, x))
           /\ InsertItem(s, i, x)[Smaller(i, Len(s)) + 1] = x
           /\ SameOrder(s, InsertItem(s, i, x), x)
<1> DEFINE k == Smaller(i, Len(s)) + 1
           e == InsertItem(s, i, x)
<1>1. DOMAIN s = 1..Len(s) /\ Len(s) \in Nat  OBVIOUS
<1>2. k \in 1..(Len(s) + 1)  BY <1>1 DEF Smaller
<1> HIDE DEF k
<1>3. e = InsertAt(s, k, x)  BY DEF InsertItem, k
<1> HIDE DEF e
<1>4. e \in Seq(X) /\ Insertion(s, k, x, e)  BY <1>2, <1>3, InsertAtIs
<1>5. Len(e) = Len(s) + 1 /\ DOMAIN e = 1..Len(e) /\ e[k] = x /\ k \in DOMAIN e  BY <1>1, <1>2, <1>4 DEF Insertion
<1>6. \A n \in DOMAIN s : n < k => n \in DOMAIN e /\ e[n] = s[n]  BY <1>1, <1>4, <1>5 DEF Insertion
<1>7. \A n \in DOMAIN s : ~(n < k) => n + 1 \in DOMAIN e /\ e[n + 1] = s[n]  BY <1>1, <1>4, <1>5 DEF Insertion
<1>8. \A m \in DOMAIN e : m # k => \/ m < k /\ m \in DOMAIN s /\ e[m] = s[m]
                                   \/ m > k /\ m - 1 \in DOMAIN s /\ e[m] = s[m - 1]  BY <1>4 DEF Insertion
<1>9. ToSet(e) = ToSet(s) \union {x}  BY <1>6, <1>7, <1>5, <1>8 DEF ToSet
<1>10. \A m \in DOMAIN e : m # k => e[m] # x  BY <1>8 DEF ToSet
<1>11. IsInjective(e)
  <2> SUFFICES ASSUME NEW m \in DOMAIN e, NEW n \in DOMAIN e, e[m] = e[n] PROVE m = n  BY DEF IsInjective
  <2>1. CASE m = k  BY <2>1, <1>5, <1>10
  <2>2. CASE n = k  BY <2>2, <1>5, <1>10
  <2>3. CASE m # k /\ n # k  BY <1>1, <1>2, <1>5, <1>8, <2>3 DEF IsInjective
  <2> QED  BY <2>1, <2>2, <2>3
<1>12. SameOrder(s, e, x)
  <2> SUFFICES ASSUME NEW y, NEW z, y # x, z # x PROVE Before(s, y, z) <=> Before(e, y, z)  BY DEF SameOrder
  <2>1. ASSUME NEW m \in DOMAIN s, NEW n \in DOMAIN s, m < n, s[m] = y, s[n] = z PROVE Before(e, y, z)
    BY <2>1, <1>1, <1>2, <1>6, <1>7 DEF Before
  <2>2. ASSUME NEW m \in DOMAIN e, NEW n \in DOMAIN e, m < n, e[m] = y, e[n] = z PROVE Before(s, y, z)
    BY <2>2, <1>5, <1>2, <1>8 DEF Before
  <2> QED  BY <2>1, <2>2 DEF Before
<1> QED  BY <1>4, <1>5, <1>9, <1>11, <1>12 DEF e, k

\* What RemoveAt does to a sequence that has every item once.
LEMMA RemovedIs ==
    ASSUME NEW X, NEW s \in Seq(X), NEW k \in 1..Len(s), IsInjective(s)
    PROVE  /\ RemoveAt(s, k) \in Seq(X) /\ Len(RemoveAt(s, k)) = Len(s) - 1
           /\ s[k] \in ToSet(s) /\ s[k] \in X
           /\ ToSet(RemoveAt(s, k)) = ToSet(s) \ {s[k]}
           /\ IsInjective(RemoveAt(s, k))
           /\ SameOrder(s, RemoveAt(s, k), s[k])
<1> DEFINE e == RemoveAt(s, k)
           x == s[k]
<1>1. DOMAIN s = 1..Len(s) /\ Len(s) \in Nat /\ k \in DOMAIN s /\ k \in Nat  OBVIOUS
<1>2. x \in X /\ x \in ToSet(s)  BY <1>1 DEF ToSet
<1>3. e \in Seq(X) /\ Without(s, k, e)  BY RemoveAtIs
<1>4. s[k] = x  OBVIOUS
<1>5. \A p, q \in DOMAIN s : s[p] = s[q] => p = q  BY DEF IsInjective
<1> HIDE DEF e, x
<1>6. Len(e) = Len(s) - 1 /\ DOMAIN e = 1..Len(e)  BY <1>3 DEF Without
<1>7. \A n \in DOMAIN e : (n < k => n \in DOMAIN s /\ e[n] = s[n]) /\ (~(n < k) => n + 1 \in DOMAIN s /\ e[n] = s[n + 1])
  BY <1>1, <1>3, <1>6 DEF Without
<1>8. \A m \in DOMAIN s : m # k => \/ m < k /\ m \in DOMAIN e /\ e[m] = s[m]
                                   \/ m > k /\ m - 1 \in DOMAIN e /\ e[m - 1] = s[m]  BY <1>3 DEF Without
<1>9. ToSet(e) = ToSet(s) \ {x}  BY <1>8, <1>7, <1>4, <1>1, <1>6, <1>5 DEF ToSet
<1>10. IsInjective(e)
  <2> SUFFICES ASSUME NEW m \in DOMAIN e, NEW n \in DOMAIN e, e[m] = e[n] PROVE m = n  BY DEF IsInjective
  <2>1. CASE m < k /\ n < k  BY <2>1, <1>7, <1>5
  <2>2. CASE m < k /\ ~(n < k)  BY <2>2, <1>7, <1>5, <1>1, <1>6
  <2>3. CASE ~(m < k) /\ n < k  BY <2>3, <1>7, <1>5, <1>1, <1>6
  <2>4. CASE ~(m < k) /\ ~(n < k)  BY <2>4, <1>7, <1>5, <1>1, <1>6
  <2> QED  BY <2>1, <2>2, <2>3, <2>4
<1>11. SameOrder(s, e, x)
  <2> SUFFICES ASSUME NEW y, NEW z, y # x, z # x PROVE Before(s, y, z) <=> Before(e, y, z)  BY DEF SameOrder
  <2>1. ASSUME NEW m \in DOMAIN e, NEW n \in DOMAIN e, m < n, e[m] = y, e[n] = z PROVE Before(s, y, z)
    BY <2>1, <1>1, <1>6, <1>7 DEF Before
  <2>2. ASSUME NEW m \in DOMAIN s, NEW n \in DOMAIN s, m < n, s[m] = y, s[n] = z PROVE Before(e, y, z)
    BY <2>2, <1>4, <1>1, <1>8 DEF Before
  <2> QED  BY <2>1, <2>2 DEF Before
<1> QED  BY <1>2, <1>3, <1>6, <1>9, <1>10, <1>11 DEF e, x

\* Moving an item keeps the items, and the order of the others.
LEMMA MovedIs ==
    ASSUME NEW X, NEW s \in Seq(X), NEW from \in 0..(Len(s) - 1), NEW to \in Nat, IsInjective(s)
    PROVE  /\ Moved(s, from, to) \in Seq(X) /\ Len(Moved(s, from, to)) = Len(s)
           /\ ToSet(Moved(s, from, to)) = ToSet(s)
           /\ IsInjective(Moved(s, from, to))
           /\ SameOrder(s, Moved(s, from, to), s[from + 1])
<1> DEFINE r == RemoveAt(s, from + 1)
           x == s[from + 1]
           e == InsertItem(r, to, x)
<1>1. from + 1 \in 1..Len(s) /\ Len(s) \in Nat  OBVIOUS
<1>2. /\ r \in Seq(X) /\ Len(r) = Len(s) - 1 /\ x \in ToSet(s) /\ x \in X
      /\ ToSet(r) = ToSet(s) \ {x} /\ IsInjective(r) /\ SameOrder(s, r, x)  BY <1>1, RemovedIs
<1> HIDE DEF r, x
<1>3. /\ e \in Seq(X) /\ Len(e) = Len(r) + 1 /\ ToSet(e) = ToSet(r) \union {x}
      /\ IsInjective(e) /\ SameOrder(r, e, x)  BY <1>2, InsertItemIs
<1> HIDE DEF e
<1>4. Len(e) = Len(s)  BY <1>1, <1>2, <1>3
<1> QED  BY <1>3, <1>4, <1>2 DEF x, SameOrder, Moved, e, r

-----------------------------------------------------------------------------
\* Keys and transactions.

\* The smallest of some numbers is one of them.
LEMMA SmallestIs ==
    ASSUME NEW free, free \subseteq Nat
    PROVE  (Smallest(free) = None /\ free = {}) \/ Smallest(free) \in free
<1>1. CASE free = {}  BY <1>1 DEF Smallest
<1>2. CASE free # {}
  <2>1. PICK n \in free : \A m \in free : ~(<<m, n>> \in OpToRel(<, Nat))  BY <1>2, NatLessThanWellFounded, WFMin
  <2>2. \A m \in free : n <= m
    <3> SUFFICES ASSUME NEW m \in free PROVE n <= m  OBVIOUS
    <3>1. m \in Nat /\ n \in Nat  OBVIOUS
    <3>2. ~(m < n)  BY <3>1, <2>1 DEF OpToRel
    <3> QED  BY <3>1, <3>2
  <2> QED  BY <2>2, <1>2 DEF Smallest
<1> QED  BY <1>1, <1>2

----------------------------------------------------------------------------
\* The keys.

SongNames == {"manifest", "order", "name"}
PatternNames == {"manifest", "grid", "triggers"}
SongKey(s, name) == <<"song", s, name>>

\* The keys of the album, by kind.
LEMMA KeysAreIn ==
    /\ AlbumKey \in AlbumKeys /\ TracksKey \in AlbumKeys
    /\ \A s \in Songs : \A n \in SongNames : SongKey(s, n) \in AlbumKeys
    /\ \A p \in Patterns : \A n \in PatternNames : PatternKey(p, n) \in AlbumKeys
    /\ \A i \in Instances : InstanceKey(i) \in AlbumKeys
<1>1. \A p \in Patterns : PatternKeys(p) \subseteq AlbumKeys  BY DEF AlbumKeys
<1>2. \A p \in Patterns : \A n \in PatternNames : PatternKey(p, n) \in PatternKeys(p)
  <2> TAKE p \in Patterns
  <2> TAKE n \in PatternNames
  <2>1. n \in {"manifest", "grid", "triggers"}  BY DEF PatternNames
  <2>2. PatternKey(p, n) \in {PatternKey(p, name) : name \in {"manifest", "grid", "triggers"}}  BY <2>1
  <2> DEFINE own == {InstanceKey(pinst) : pinst \in {j \in Instances : j[1] = p}}
             names == {PatternKey(p, name) : name \in {"manifest", "grid", "triggers"}}
  <2>3. PatternKeys(p) = names \union own  BY DEF PatternKeys
  <2>4. PatternKey(p, n) \in names  BY <2>2
  <2> HIDE DEF own, names
  <2> QED  BY <2>3, <2>4
<1>3. \A p \in Patterns : \A n \in PatternNames : PatternKey(p, n) \in AlbumKeys  BY <1>1, <1>2
<1>4. \A s \in Songs : \A n \in SongNames : SongKey(s, n) \in SongKeys(s)  BY DEF SongKeys, SongNames, SongKey
<1>5. \A s \in Songs : \A n \in SongNames : SongKey(s, n) \in AlbumKeys  BY <1>4 DEF AlbumKeys
<1> QED  BY <1>3, <1>5, <1>1 DEF AlbumKeys, Instances, PatternKeys

\* Keys of different things are different.
LEMMA KeysDiffer ==
    /\ AlbumKey # TracksKey
    /\ \A s, n : SongKey(s, n) # AlbumKey /\ SongKey(s, n) # TracksKey
    /\ \A p, n : PatternKey(p, n) # AlbumKey /\ PatternKey(p, n) # TracksKey
    /\ \A i : InstanceKey(i) # AlbumKey /\ InstanceKey(i) # TracksKey
    /\ \A s, n, p, m : SongKey(s, n) # PatternKey(p, m)
    /\ \A s, n, i : SongKey(s, n) # InstanceKey(i)
    /\ \A p, n, i : PatternKey(p, n) # InstanceKey(i)
    /\ \A s, n, u, m : SongKey(s, n) = SongKey(u, m) => s = u /\ n = m
    /\ \A p, n, q, m : PatternKey(p, n) = PatternKey(q, m) => p = q /\ n = m
    /\ \A i, j : InstanceKey(i) = InstanceKey(j) => i = j
BY DEF AlbumKey, TracksKey, SongKey, PatternKey, InstanceKey

\* Functions put together by Change and ++, and the transaction put.
LEMMA SingleIs ==
    ASSUME NEW k, NEW v
    PROVE  DOMAIN Change(k, v) = {k} /\ Change(k, v)[k] = v
BY DEF Change

\* Transactions side by side: the first one wins.
LEMMA MergedIs ==
    ASSUME NEW f, NEW g
    PROVE  /\ DOMAIN (f ++ g) = DOMAIN f \union DOMAIN g
           /\ \A k \in DOMAIN f : (f ++ g)[k] = f[k]
           /\ \A k \in DOMAIN g \ DOMAIN f : (f ++ g)[k] = g[k]
BY DEF ++

LEMMA RemovalIs ==
    ASSUME NEW keys
    PROVE  DOMAIN Removal(keys) = keys /\ \A k \in keys : Removal(keys)[k] = None
BY DEF Removal

LEMMA PutIs ==
    ASSUME NEW d, NEW t
    PROVE  /\ DOMAIN Put(d, t) = AlbumKeys
           /\ \A k \in AlbumKeys : Put(d, t)[k] = IF k \in DOMAIN t THEN t[k] ELSE d[k]
BY DEF Put

-----------------------------------------------------------------------------
\* What a sound album is, by the values of its keys.

\* What a transaction makes of the value of a key.
Value(t, k, old) == IF k \in DOMAIN t THEN t[k] ELSE old

LEMMA PutValue ==
    ASSUME NEW d, NEW t
    PROVE  DOMAIN Put(d, t) = AlbumKeys /\ \A k \in AlbumKeys : Put(d, t)[k] = Value(t, k, d[k])
BY PutIs DEF Value

LEMMA ValueIs ==
    /\ \A f, g, k, old : Value(f ++ g, k, old) = Value(f, k, Value(g, k, old))
    /\ \A j, v, k, old : Value(Change(j, v), k, old) = IF k = j THEN v ELSE old
    /\ \A keys, k, old : Value(Removal(keys), k, old) = IF k \in keys THEN None ELSE old
    /\ \A k, old : Value(<<>>, k, old) = old
<1>1. ASSUME NEW f, NEW g, NEW k, NEW old
      PROVE  Value(f ++ g, k, old) = Value(f, k, Value(g, k, old))
  <2> DEFINE h == f ++ g
  <2>1. DOMAIN h = DOMAIN f \union DOMAIN g
        /\ (\A j \in DOMAIN f : h[j] = f[j]) /\ (\A j \in DOMAIN g \ DOMAIN f : h[j] = g[j])  BY MergedIs
  <2> HIDE DEF h
  <2> QED  BY <2>1 DEF h, Value
<1>2. \A j, v, k, old : Value(Change(j, v), k, old) = IF k = j THEN v ELSE old
  <2> TAKE j, v, k, old
  <2>1. DOMAIN Change(j, v) = {j} /\ Change(j, v)[j] = v  BY SingleIs
  <2> QED  BY <2>1 DEF Value
<1> QED  BY <1>1, <1>2, RemovalIs DEF Value

LEMMA CreatedValue ==
    ASSUME NEW p, NEW k, NEW old
    PROVE  Value(CreatePattern(p), k, old) =
               IF k = PatternKey(p, "grid") /\ DefaultGrid # None THEN DefaultGrid
               ELSE IF k = PatternKey(p, "manifest") THEN {} ELSE old
<1> DEFINE m == Change(PatternKey(p, "manifest"), {})
           g == IF DefaultGrid = None THEN <<>> ELSE Change(PatternKey(p, "grid"), DefaultGrid)
<1>1. CreatePattern(p) = g ++ m  BY DEF CreatePattern
<1>2. Value(m, k, old) = IF k = PatternKey(p, "manifest") THEN {} ELSE old  BY ValueIs
<1>3. \A o : Value(g, k, o) = IF k = PatternKey(p, "grid") /\ DefaultGrid # None THEN DefaultGrid ELSE o  BY ValueIs
<1> HIDE DEF m, g
<1>4. Value(g ++ m, k, old) = Value(g, k, Value(m, k, old))  BY ValueIs
<1> QED  BY <1>1, <1>2, <1>3, <1>4

----------------------------------------------------------------------------
\* The album, key by key.

Ordered(d, i) == \E s \in Songs : i \in ToSet(OrderList(d, s))
Lives(d, p) == \E i \in Instances : i[1] = p /\ d[InstanceKey(i)] # None

SoundTracks(d) ==
    /\ d[AlbumKey] # None <=> d[TracksKey] # None
    /\ TrackList(d) \in Seq(Songs) /\ IsInjective(TrackList(d))
SoundOrders(d) ==
    /\ \A s \in Songs : OrderList(d, s) \in Seq(Instances) /\ IsInjective(OrderList(d, s))
    /\ \A s, u \in Songs : s # u => \A i \in ToSet(OrderList(d, s)) : i \notin ToSet(OrderList(d, u))
SoundSongs(d) ==
    \A s \in Songs :
        IF s \in ToSet(TrackList(d)) THEN d[SongKey(s, "manifest")] # None /\ OrderList(d, s) # <<>>
        ELSE \A n \in SongNames : d[SongKey(s, n)] = None
SoundInstances(d) == \A i \in Instances : d[InstanceKey(i)] # None <=> Ordered(d, i)
SoundPatterns(d) ==
    \A p \in Patterns :
        IF Lives(d, p) THEN d[PatternKey(p, "manifest")] # None
        ELSE \A n \in PatternNames : d[PatternKey(p, n)] = None
Sound(d) ==
    /\ DOMAIN d = AlbumKeys
    /\ SoundTracks(d) /\ SoundOrders(d) /\ SoundSongs(d) /\ SoundInstances(d) /\ SoundPatterns(d)

\* Tracks, track list and songs in use agree.
LEMMA TracksAre ==
    ASSUME NEW d, d[AlbumKey] # None <=> d[TracksKey] # None, TrackList(d) \in Seq(Songs)
    PROVE  /\ TrackCount(d) = Len(TrackList(d)) /\ TrackCount(d) \in Nat
           /\ DOMAIN TrackList(d) = 1..TrackCount(d)
           /\ \A t \in Tracks(d) : t \in Nat /\ t + 1 \in DOMAIN TrackList(d) /\ SongAt(d, t) = TrackList(d)[t + 1]
           /\ UsedSongs(d) = ToSet(TrackList(d)) /\ UsedSongs(d) \subseteq Songs
<1>1. TrackCount(d) = Len(TrackList(d))  BY DEF TrackCount, Exists, TrackList
<1>2. Len(TrackList(d)) \in Nat /\ DOMAIN TrackList(d) = 1..Len(TrackList(d))  OBVIOUS
<1>3. \A t \in Tracks(d) : t \in Nat /\ t + 1 \in DOMAIN TrackList(d)  BY <1>1, <1>2 DEF Tracks
<1>4. \A t \in Tracks(d) : SongAt(d, t) = TrackList(d)[t + 1]  BY DEF SongAt
<1>5. \A n \in DOMAIN TrackList(d) : n - 1 \in Tracks(d) /\ (n - 1) + 1 = n  BY <1>1, <1>2 DEF Tracks
<1>6. UsedSongs(d) = ToSet(TrackList(d))
  <2>1. ASSUME NEW s \in UsedSongs(d) PROVE s \in ToSet(TrackList(d))
    <3>1. PICK t \in Tracks(d) : s = SongAt(d, t)  BY DEF UsedSongs
    <3> QED  BY <3>1, <1>3, <1>4 DEF ToSet
  <2>2. ASSUME NEW s \in ToSet(TrackList(d)) PROVE s \in UsedSongs(d)
    <3>1. PICK n \in DOMAIN TrackList(d) : s = TrackList(d)[n]  BY DEF ToSet
    <3> QED  BY <1>5, <3>1 DEF UsedSongs, SongAt
  <2> QED  BY <2>1, <2>2
<1> QED  BY <1>1, <1>2, <1>3, <1>4, <1>6 DEF ToSet

LEMMA EmptyHasNone == ToSet(<<>>) = {}
BY DEF ToSet

\* The instances of the songs in the track list are all there are.
LEMMA UsedAre ==
    ASSUME NEW d, SoundTracks(d), \A s \in Songs : s \in ToSet(TrackList(d)) \/ d[SongKey(s, "order")] = None
    PROVE  \A i : i \in UsedInstances(d) <=> Ordered(d, i)
<1>1. /\ UsedSongs(d) = ToSet(TrackList(d)) /\ UsedSongs(d) \subseteq Songs
      /\ \A t \in Tracks(d) : t + 1 \in DOMAIN TrackList(d) /\ SongAt(d, t) = TrackList(d)[t + 1]
  BY TracksAre DEF SoundTracks
<1>2. \A i : i \in UsedInstances(d) <=> \E t \in Tracks(d) : i \in ToSet(OrderList(d, SongAt(d, t)))
  BY DEF UsedInstances, OrderAt
<1>3. ASSUME NEW s \in Songs, NEW i, i \in ToSet(OrderList(d, s)) PROVE i \in UsedInstances(d)
  <2>1. d[SongKey(s, "order")] # None
    <3>1. SUFFICES ASSUME d[SongKey(s, "order")] = None PROVE FALSE  OBVIOUS
    <3> QED  BY <1>3, EmptyHasNone, <3>1 DEF OrderList, Exists, OrderKey, SongKey
  <2>2. PICK t \in Tracks(d) : s = SongAt(d, t)  BY <2>1, <1>1 DEF UsedSongs
  <2> QED  BY <2>2, <1>2, <1>3
<1> QED  BY <1>2, <1>3, <1>1 DEF Ordered, UsedSongs

\* A consistent album is a sound one.
LEMMA AlbumIsSound == ASSUME NEW d PROVE AlbumType(d) /\ Consistent(d) <=> Sound(d)
<1>1. /\ \A s, n : SongKey(s, n) = <<"song", s, n>>
      /\ \A k : Exists(d, k) <=> d[k] # None  BY DEF SongKey, Exists
<1>2. \A s : (\A k \in SongKeys(s) : ~Exists(d, k)) <=> \A n \in SongNames : d[SongKey(s, n)] = None
  BY <1>1 DEF SongKeys, SongNames
<1>3. \A p : InstancesOf(d, p) # {} <=> Lives(d, p)  BY <1>1 DEF InstancesOf, Lives
<1>4. \A p : ~Lives(d, p) =>
        ((\A k \in PatternKeys(p) : ~Exists(d, k)) <=> \A n \in PatternNames : d[PatternKey(p, n)] = None)
  <2> TAKE p
  <2> HAVE ~Lives(d, p)
  <2> DEFINE own == {InstanceKey(pinst) : pinst \in {j \in Instances : j[1] = p}}
             names == {PatternKey(p, name) : name \in {"manifest", "grid", "triggers"}}
  <2>1. PatternKeys(p) = names \union own  BY DEF PatternKeys
  <2>2. \A k \in own : d[k] = None  BY DEF Lives
  <2>3. (\A k \in names : d[k] = None) <=> \A n \in PatternNames : d[PatternKey(p, n)] = None  BY DEF PatternNames
  <2> HIDE DEF own, names
  <2> QED  BY <2>1, <2>2, <2>3, <1>1
<1>5. ASSUME AlbumType(d), Consistent(d) PROVE Sound(d)
  <2>1. SoundTracks(d)  BY <1>5, <1>1 DEF AlbumType, Consistent, SoundTracks
  <2>2. SoundSongs(d)
    <3> SUFFICES ASSUME NEW s \in Songs
                 PROVE  IF s \in ToSet(TrackList(d)) THEN d[SongKey(s, "manifest")] # None /\ OrderList(d, s) # <<>>
                        ELSE \A n \in SongNames : d[SongKey(s, n)] = None  BY DEF SoundSongs
    <3> QED  BY <1>1, <1>2, <2>1, TracksAre, <1>5 DEF SoundTracks, Consistent, SongsAreWhole
  <2>3. SoundOrders(d)  BY <1>5 DEF AlbumType, Consistent, InstancesAreOnce, SoundOrders
  <2>4. SoundInstances(d)  BY <1>5, <1>1, <2>2, <2>1, UsedAre DEF Consistent, SoundInstances, SoundSongs, SongNames
  <2>5. SoundPatterns(d)
    <3> SUFFICES ASSUME NEW p \in Patterns
                 PROVE  IF Lives(d, p) THEN d[PatternKey(p, "manifest")] # None
                        ELSE \A n \in PatternNames : d[PatternKey(p, n)] = None  BY DEF SoundPatterns
    <3> QED  BY <1>1, <1>3, <1>4, <1>5 DEF Consistent, PatternsAreWhole
  <2> QED  BY <1>5, <2>1, <2>2, <2>3, <2>4, <2>5 DEF AlbumType, Sound
<1>6. ASSUME Sound(d) PROVE AlbumType(d) /\ Consistent(d)
  <2>1. SoundTracks(d) /\ SoundOrders(d) /\ SoundSongs(d) /\ SoundInstances(d) /\ SoundPatterns(d)  BY <1>6 DEF Sound
  <2>2. AlbumType(d)  BY <1>6, <2>1 DEF Sound, SoundTracks, SoundOrders, AlbumType
  <2>3. SongsAreWhole(d)
    <3> SUFFICES ASSUME NEW s \in Songs
                 PROVE  IF s \in UsedSongs(d) THEN Exists(d, <<"song", s, "manifest">>) /\ OrderList(d, s) # <<>>
                        ELSE \A k \in SongKeys(s) : ~Exists(d, k)  BY DEF SongsAreWhole
    <3> QED  BY <1>1, <1>2, <2>1, TracksAre DEF SoundTracks, SoundSongs
  <2>4. PatternsAreWhole(d)
    <3> SUFFICES ASSUME NEW p \in Patterns
                 PROVE  IF InstancesOf(d, p) # {} THEN Exists(d, PatternKey(p, "manifest"))
                        ELSE \A k \in PatternKeys(p) : ~Exists(d, k)  BY DEF PatternsAreWhole
    <3> QED  BY <1>1, <1>3, <1>4, <2>1 DEF SoundPatterns
  <2>5. \A pinst \in Instances : Exists(d, InstanceKey(pinst)) <=> pinst \in UsedInstances(d)
    BY <2>1, <1>1, UsedAre DEF SoundInstances, SoundSongs, SongNames
  <2>6. (Exists(d, AlbumKey) <=> Exists(d, TracksKey)) /\ IsInjective(TrackList(d))  BY <2>1, <1>1 DEF SoundTracks
  <2> QED  BY <2>2, <2>3, <2>4, <2>5, <2>6, <2>1 DEF Consistent, InstancesAreOnce, SoundOrders
<1> QED  BY <1>5, <1>6

-----------------------------------------------------------------------------
\* Inserting an instance.

TriggersKept(d, e) ==
    \A p \in Patterns : \/ e[PatternKey(p, "triggers")] = d[PatternKey(p, "triggers")]
                        \/ e[PatternKey(p, "triggers")] = None /\ ~Lives(e, p)

\* Order and track lists are what their keys hold.
LEMMA OrdersAre ==
    /\ \A d, s : d[SongKey(s, "order")] = None => OrderList(d, s) = <<>>
    /\ \A d, s : d[SongKey(s, "order")] # None => OrderList(d, s) = d[SongKey(s, "order")]
    /\ \A d, e : \A s : e[SongKey(s, "order")] = d[SongKey(s, "order")] => OrderList(e, s) = OrderList(d, s)
    /\ \A d, e : e[TracksKey] = d[TracksKey] => TrackList(e) = TrackList(d)
    /\ \A d : d[TracksKey] = None => TrackList(d) = <<>>
    /\ \A d : d[TracksKey] # None => TrackList(d) = d[TracksKey]
BY DEF OrderList, TrackList, Exists, OrderKey, SongKey

LEMMA InstanceIs ==
    \A i \in Instances : i[1] \in Patterns /\ i[2] \in 0..MaxInstance /\ i = <<i[1], i[2]>>
BY DEF Instances

\* The transaction of insert_pattern_instance, key by key.
LEMMA InsertedKeys ==
    ASSUME NEW d, NEW at, NEW system, NEW pinst, NEW s, s = SongAt(d, at), NEW new,
           new = InsertItem(OrderList(d, s), system, pinst), NEW e,
           e = InsertPatternInstance(d, at, system, pinst)
    PROVE  /\ DOMAIN e = AlbumKeys
           /\ \A k \in AlbumKeys : e[k] =
                IF k = SongKey(s, "order") THEN new
                ELSE IF k = PatternKey(pinst[1], "grid") /\ DefaultGrid # None THEN DefaultGrid
                ELSE IF k = PatternKey(pinst[1], "manifest") THEN {}
                ELSE IF k = InstanceKey(pinst) THEN {} ELSE d[k]
<1> DEFINE a == Change(SongKey(s, "order"), new)
           b == CreatePattern(pinst[1])
           c == Change(InstanceKey(pinst), {})
           t == (a ++ b) ++ c
<1>1. e = Put(d, t)  BY DEF InsertPatternInstance, OrderKey, SongKey, OrderAt, CreateInstance
<1>2. \A k, old : Value(a, k, old) = IF k = SongKey(s, "order") THEN new ELSE old  BY ValueIs
<1>3. \A k, old : Value(b, k, old) = IF k = PatternKey(pinst[1], "grid") /\ DefaultGrid # None THEN DefaultGrid
               ELSE IF k = PatternKey(pinst[1], "manifest") THEN {} ELSE old  BY CreatedValue
<1>4. \A k, old : Value(c, k, old) = IF k = InstanceKey(pinst) THEN {} ELSE old  BY ValueIs
<1> HIDE DEF a, b, c
<1>5. \A k, old : Value(t, k, old) = Value(a, k, Value(b, k, Value(c, k, old)))  BY ValueIs
<1> HIDE DEF t
<1> QED  BY <1>2, <1>3, <1>4, <1>5, <1>1, PutValue

\* The same by kind of key.
LEMMA InsertedFields ==
    ASSUME NEW d, NEW at, NEW system, NEW pinst, NEW s, s = SongAt(d, at), NEW new,
           new = InsertItem(OrderList(d, s), system, pinst), NEW e,
           e = InsertPatternInstance(d, at, system, pinst)
    PROVE  /\ DOMAIN e = AlbumKeys /\ e[AlbumKey] = d[AlbumKey] /\ e[TracksKey] = d[TracksKey]
           /\ \A u \in Songs : /\ e[SongKey(u, "manifest")] = d[SongKey(u, "manifest")]
                               /\ e[SongKey(u, "name")] = d[SongKey(u, "name")]
                               /\ e[SongKey(u, "order")] = IF u = s THEN new ELSE d[SongKey(u, "order")]
           /\ \A p \in Patterns : /\ e[PatternKey(p, "triggers")] = d[PatternKey(p, "triggers")]
                                  /\ p = pinst[1] => e[PatternKey(p, "manifest")] = {}
                                  /\ p # pinst[1] => \A n \in PatternNames : e[PatternKey(p, n)] = d[PatternKey(p, n)]
           /\ \A i \in Instances : e[InstanceKey(i)] = IF i = pinst THEN {} ELSE d[InstanceKey(i)]
BY InsertedKeys, KeysAreIn, KeysDiffer DEF SongNames, PatternNames

\* Inserting an instance that no song has.
LEMMA InsertIsSound ==
    ASSUME NEW d, Sound(d), NEW at \in Tracks(d), NEW system \in Nat, NEW pinst \in Instances,
           ~Ordered(d, pinst), NEW s, s = SongAt(d, at), NEW e,
           e = InsertPatternInstance(d, at, system, pinst)
    PROVE  /\ Sound(e) /\ TriggersKept(d, e) /\ TrackList(e) = TrackList(d) /\ s \in Songs
           /\ OrderList(e, s) = InsertItem(OrderList(d, s), system, pinst)
           /\ Len(OrderList(e, s)) = Len(OrderList(d, s)) + 1
           /\ OrderList(e, s)[Smaller(system, Len(OrderList(d, s))) + 1] = pinst
<1> DEFINE old == OrderList(d, s)
           new == InsertItem(old, system, pinst)
<1>1. SoundTracks(d) /\ SoundOrders(d) /\ SoundSongs(d) /\ SoundInstances(d) /\ SoundPatterns(d)  BY DEF Sound
<1>2. s \in Songs /\ s \in ToSet(TrackList(d))  BY <1>1, TracksAre DEF SoundTracks, UsedSongs
<1>3. old \in Seq(Instances) /\ IsInjective(old) /\ pinst \notin ToSet(old)  BY <1>1, <1>2 DEF SoundOrders, Ordered
<1> HIDE DEF old
<1>4. /\ new \in Seq(Instances) /\ Len(new) = Len(old) + 1 /\ ToSet(new) = ToSet(old) \union {pinst}
      /\ IsInjective(new) /\ new[Smaller(system, Len(old)) + 1] = pinst  BY InsertItemIs, <1>3 DEF new
<1> HIDE DEF new
<1>5. /\ DOMAIN e = AlbumKeys /\ e[AlbumKey] = d[AlbumKey] /\ e[TracksKey] = d[TracksKey]
      /\ \A u \in Songs : /\ e[SongKey(u, "manifest")] = d[SongKey(u, "manifest")]
                          /\ e[SongKey(u, "name")] = d[SongKey(u, "name")]
                          /\ e[SongKey(u, "order")] = IF u = s THEN new ELSE d[SongKey(u, "order")]
      /\ \A p \in Patterns : /\ e[PatternKey(p, "triggers")] = d[PatternKey(p, "triggers")]
                             /\ p = pinst[1] => e[PatternKey(p, "manifest")] = {}
                             /\ p # pinst[1] => \A n \in PatternNames : e[PatternKey(p, n)] = d[PatternKey(p, n)]
      /\ \A i \in Instances : e[InstanceKey(i)] = IF i = pinst THEN {} ELSE d[InstanceKey(i)]
  BY InsertedFields DEF new, old
<1>6. TrackList(e) = TrackList(d)  BY <1>5, OrdersAre
<1>7. OrderList(e, s) = new /\ \A u \in Songs : u # s => OrderList(e, u) = OrderList(d, u)
  BY <1>2, <1>5, OrdersAre, <1>4, AlbumAssumption
<1>8. SoundOrders(e)  BY <1>1, <1>4, <1>7, <1>2 DEF SoundOrders, Ordered, old
<1>9. SoundSongs(e)
  <2> SUFFICES ASSUME NEW u \in Songs
               PROVE  IF u \in ToSet(TrackList(e)) THEN e[SongKey(u, "manifest")] # None /\ OrderList(e, u) # <<>>
                      ELSE \A n \in SongNames : e[SongKey(u, n)] = None  BY DEF SoundSongs
  <2>1. IF u \in ToSet(TrackList(d)) THEN d[SongKey(u, "manifest")] # None /\ OrderList(d, u) # <<>>
        ELSE \A n \in SongNames : d[SongKey(u, n)] = None  BY <1>1 DEF SoundSongs
  <2>2. CASE u = s  BY <2>1, <2>2, <1>2, <1>5, <1>6, <1>7, <1>4, <1>3
  <2>3. CASE u # s  BY <2>3, <1>5, <2>1, <1>6, <1>7 DEF SongNames
  <2> QED  BY <2>2, <2>3
<1>10. SoundInstances(e)  BY <1>1, <1>5, AlbumAssumption, <1>2, <1>4, <1>7 DEF SoundInstances, Ordered, old
<1>11. SoundPatterns(e)
  <2> SUFFICES ASSUME NEW p \in Patterns
               PROVE  IF Lives(e, p) THEN e[PatternKey(p, "manifest")] # None
                      ELSE \A n \in PatternNames : e[PatternKey(p, n)] = None  BY DEF SoundPatterns
  <2>1. "manifest" \in PatternNames  BY DEF PatternNames
  <2> QED  BY <2>1, <1>5, AlbumAssumption, <1>1 DEF Lives, SoundPatterns
<1>12. Sound(e)  BY <1>5, <1>8, <1>9, <1>10, <1>11, <1>1, <1>6 DEF Sound, SoundTracks
<1> QED  BY <1>2, <1>4, <1>6, <1>7, <1>12, <1>5 DEF old, new, TriggersKept

-----------------------------------------------------------------------------
\* Adding a song.

\* The numbers of what is added are free.
LEMMA NumbersAreFree ==
    ASSUME NEW d, Sound(d)
    PROVE  /\ NewSong(d) # None => NewSong(d) \in Songs /\ NewSong(d) \notin ToSet(TrackList(d))
           /\ NewPattern(d) # None => /\ NewPattern(d) \in Patterns /\ ~Lives(d, NewPattern(d))
                                      /\ \A i \in Instances : i[1] = NewPattern(d) => ~Ordered(d, i)
           /\ \A p \in Patterns : NewInstance(d, p) # None =>
                /\ NewInstance(d, p) \in 0..MaxInstance /\ ~Ordered(d, <<p, NewInstance(d, p)>>)
<1>1. SoundTracks(d) /\ SoundOrders(d) /\ SoundSongs(d) /\ SoundInstances(d) /\ SoundPatterns(d)  BY DEF Sound
<1>2. \A i : i \in UsedInstances(d) <=> Ordered(d, i)  BY <1>1, UsedAre DEF SoundSongs, SongNames
<1>3. ASSUME NewSong(d) # None PROVE NewSong(d) \in Songs /\ NewSong(d) \notin ToSet(TrackList(d))
  BY AlbumAssumption, <1>3, SmallestIs, <1>1, TracksAre DEF Songs, NewSong, SoundTracks
<1>4. ASSUME NewPattern(d) # None
      PROVE  /\ NewPattern(d) \in Patterns /\ ~Lives(d, NewPattern(d))
             /\ \A i \in Instances : i[1] = NewPattern(d) => ~Ordered(d, i)
  BY <1>1, <1>2, <1>4, SmallestIs, AlbumAssumption DEF Lives, SoundInstances, NewPattern, Patterns
<1>5. ASSUME NEW p \in Patterns, NewInstance(d, p) # None
      PROVE  NewInstance(d, p) \in 0..MaxInstance /\ ~Ordered(d, <<p, NewInstance(d, p)>>)
  <2> DEFINE free == {n \in 0..MaxInstance : <<p, n>> \notin UsedInstances(d)}
  <2>1. free \subseteq Nat  BY AlbumAssumption
  <2>2. NewInstance(d, p) = Smallest(free)  BY DEF NewInstance
  <2>3. NewInstance(d, p) \in free  BY <2>1, <2>2, <1>5, SmallestIs
  <2> QED  BY <2>3, <1>2
<1> QED  BY <1>3, <1>4, <1>5

\* The transaction of insert_song, key by key.
LEMMA AddedSongKeys ==
    ASSUME NEW d, NEW at, NEW s, s = NewSong(d), s # None, NEW q, q = NewPattern(d), q # None,
           NEW new, new = InsertItem(OrderList(d, s), 0, <<q, 0>>),
           NEW list, list = InsertItem(TrackList(d), at, s), NEW e, e = InsertSong(d, at)
    PROVE  /\ DOMAIN e = AlbumKeys
           /\ \A k \in AlbumKeys : e[k] =
                IF k = SongKey(s, "order") THEN new
                ELSE IF k = SongKey(s, "manifest") THEN {}
                ELSE IF k = PatternKey(q, "grid") /\ DefaultGrid # None THEN DefaultGrid
                ELSE IF k = PatternKey(q, "manifest") THEN {}
                ELSE IF k = InstanceKey(<<q, 0>>) THEN {}
                ELSE IF k = AlbumKey THEN {} ELSE IF k = TracksKey THEN list ELSE d[k]
<1> DEFINE pinst == <<q, 0>>
           a == Change(OrderKey(s), InsertItem(OrderList(d, s), 0, pinst))
           b == Change(<<"song", s, "manifest">>, {})
           c == CreatePattern(pinst[1])
           f == CreateInstance(pinst)
           g == Change(AlbumKey, {})
           h == Change(TracksKey, InsertItem(TrackList(d), at, s))
           t == ((((a ++ b) ++ c) ++ f) ++ g) ++ h
<1>1. e = Put(d, t)  BY DEF InsertSong
<1>2. \A k, old : Value(a, k, old) = IF k = SongKey(s, "order") THEN new ELSE old
  <2>1. a = Change(SongKey(s, "order"), new)  BY DEF OrderKey, SongKey
  <2> HIDE DEF a
  <2> QED  BY <2>1, ValueIs
<1>3. \A k, old : Value(b, k, old) = IF k = SongKey(s, "manifest") THEN {} ELSE old
  <2>1. b = Change(SongKey(s, "manifest"), {})  BY DEF SongKey
  <2> HIDE DEF b
  <2> QED  BY <2>1, ValueIs
<1>4. \A k, old : Value(c, k, old) = IF k = PatternKey(q, "grid") /\ DefaultGrid # None THEN DefaultGrid
               ELSE IF k = PatternKey(q, "manifest") THEN {} ELSE old  BY CreatedValue
<1>5. \A k, old : Value(f, k, old) = IF k = InstanceKey(<<q, 0>>) THEN {} ELSE old  BY ValueIs DEF CreateInstance
<1>6. \A k, old : Value(g, k, old) = IF k = AlbumKey THEN {} ELSE old  BY ValueIs
<1>7. \A k, old : Value(h, k, old) = IF k = TracksKey THEN list ELSE old  BY ValueIs
<1> HIDE DEF a, b, c, f, g, h
<1> DEFINE ab == a ++ b
           abc == ab ++ c
           abcf == abc ++ f
           abcfg == abcf ++ g
<1>8. \A k, old : Value(ab, k, old) = Value(a, k, Value(b, k, old))  BY ValueIs
<1> HIDE DEF ab
<1>9. \A k, old : Value(abc, k, old) = Value(ab, k, Value(c, k, old))  BY ValueIs
<1> HIDE DEF abc
<1>10. \A k, old : Value(abcf, k, old) = Value(abc, k, Value(f, k, old))  BY ValueIs
<1> HIDE DEF abcf
<1>11. \A k, old : Value(abcfg, k, old) = Value(abcf, k, Value(g, k, old))  BY ValueIs
<1> HIDE DEF abcfg
<1>12. \A k, old : Value(abcfg ++ h, k, old) = Value(abcfg, k, Value(h, k, old))  BY ValueIs
<1>13. t = abcfg ++ h  BY DEF ab, abc, abcf, abcfg
<1> HIDE DEF t
<1>14. DOMAIN e = AlbumKeys /\ \A k \in AlbumKeys : e[k] = Value(t, k, d[k])  BY <1>1, PutValue
<1>15. \A k, old : Value(t, k, old) = Value(a, k, Value(b, k, Value(c, k, Value(f, k, Value(g, k, Value(h, k, old))))))
  BY <1>8, <1>9, <1>10, <1>11, <1>12, <1>13
<1>16. ASSUME NEW k \in AlbumKeys
       PROVE  e[k] = IF k = SongKey(s, "order") THEN new
                ELSE IF k = SongKey(s, "manifest") THEN {}
                ELSE IF k = PatternKey(q, "grid") /\ DefaultGrid # None THEN DefaultGrid
                ELSE IF k = PatternKey(q, "manifest") THEN {}
                ELSE IF k = InstanceKey(<<q, 0>>) THEN {}
                ELSE IF k = AlbumKey THEN {} ELSE IF k = TracksKey THEN list ELSE d[k]
  BY <1>2, <1>3, <1>4, <1>5, <1>6, <1>7, <1>14, <1>15
<1> QED  BY <1>14, <1>16

\* The same by kind of key.
LEMMA AddedSongFields ==
    ASSUME NEW d, NEW at, NEW s, s = NewSong(d), s # None, NEW q, q = NewPattern(d), q # None,
           NEW new, new = InsertItem(OrderList(d, s), 0, <<q, 0>>),
           NEW list, list = InsertItem(TrackList(d), at, s), NEW e, e = InsertSong(d, at)
    PROVE  /\ DOMAIN e = AlbumKeys /\ e[AlbumKey] = {} /\ e[TracksKey] = list
           /\ \A u \in Songs : /\ u = s => e[SongKey(u, "manifest")] = {} /\ e[SongKey(u, "order")] = new
                               /\ u # s => \A n \in SongNames : e[SongKey(u, n)] = d[SongKey(u, n)]
           /\ \A p \in Patterns : /\ e[PatternKey(p, "triggers")] = d[PatternKey(p, "triggers")]
                                  /\ p = q => e[PatternKey(p, "manifest")] = {}
                                  /\ p # q => \A n \in PatternNames : e[PatternKey(p, n)] = d[PatternKey(p, n)]
           /\ \A i \in Instances : e[InstanceKey(i)] = IF i = <<q, 0>> THEN {} ELSE d[InstanceKey(i)]
BY AddedSongKeys, KeysAreIn, KeysDiffer DEF SongNames, PatternNames

\* A new song, with one new pattern.
LEMMA AddedSongIsSound ==
    ASSUME NEW d, Sound(d), NEW at \in Nat, NEW e, e = InsertSong(d, at)
    PROVE  Sound(e) /\ TriggersKept(d, e)
<1>1. CASE NewSong(d) = None \/ NewPattern(d) = None  BY <1>1 DEF InsertSong, TriggersKept
<1>2. CASE NewSong(d) # None /\ NewPattern(d) # None
  <2> DEFINE s == NewSong(d)
             q == NewPattern(d)
             pinst == <<q, 0>>
             new == InsertItem(OrderList(d, s), 0, pinst)
             list == InsertItem(TrackList(d), at, s)
  <2>1. SoundTracks(d) /\ SoundOrders(d) /\ SoundSongs(d) /\ SoundInstances(d) /\ SoundPatterns(d)  BY DEF Sound
  <2>2. /\ s \in Songs /\ s \notin ToSet(TrackList(d)) /\ q \in Patterns /\ ~Lives(d, q)
        /\ \A i \in Instances : i[1] = q => ~Ordered(d, i)  BY <1>2, NumbersAreFree
  <2>3. /\ DOMAIN e = AlbumKeys /\ e[AlbumKey] = {} /\ e[TracksKey] = list
        /\ \A u \in Songs : /\ u = s => e[SongKey(u, "manifest")] = {} /\ e[SongKey(u, "order")] = new
                            /\ u # s => \A n \in SongNames : e[SongKey(u, n)] = d[SongKey(u, n)]
        /\ \A p \in Patterns : /\ e[PatternKey(p, "triggers")] = d[PatternKey(p, "triggers")]
                               /\ p = q => e[PatternKey(p, "manifest")] = {}
                               /\ p # q => \A n \in PatternNames : e[PatternKey(p, n)] = d[PatternKey(p, n)]
        /\ \A i \in Instances : e[InstanceKey(i)] = IF i = pinst THEN {} ELSE d[InstanceKey(i)]
    BY <1>2, AddedSongFields
  <2> HIDE DEF s, q
  <2>4. pinst \in Instances /\ pinst[1] = q /\ ~Ordered(d, pinst)  BY AlbumAssumption, <2>2 DEF Instances
  <2> HIDE DEF pinst
  <2>5. OrderList(d, s) = <<>>  BY <2>1, <2>2, OrdersAre DEF SoundSongs, SongNames
  <2>6. /\ new \in Seq(Instances) /\ new # <<>> /\ ToSet(new) = {pinst} /\ IsInjective(new)
    <3> DEFINE none == OrderList(d, s)
    <3>1. none \in Seq(Instances) /\ ToSet(none) = {} /\ IsInjective(none) /\ Len(none) = 0
      BY <2>5, EmptyHasNone DEF IsInjective
    <3> HIDE DEF none
    <3>2. 0 \in Nat /\ pinst \notin ToSet(none)  BY <3>1
    <3>3. /\ InsertItem(none, 0, pinst) \in Seq(Instances) /\ Len(InsertItem(none, 0, pinst)) = Len(none) + 1
          /\ ToSet(InsertItem(none, 0, pinst)) = ToSet(none) \union {pinst} /\ IsInjective(InsertItem(none, 0, pinst))
      <4>1. \A o \in Seq(Instances) : \A n \in Nat : \A x \in Instances : x \notin ToSet(o) /\ IsInjective(o) =>
              /\ InsertItem(o, n, x) \in Seq(Instances) /\ Len(InsertItem(o, n, x)) = Len(o) + 1
              /\ ToSet(InsertItem(o, n, x)) = ToSet(o) \union {x} /\ IsInjective(InsertItem(o, n, x))  BY InsertItemIs
      <4> QED  BY <2>4, <3>1, <3>2, <4>1
    <3>4. new = InsertItem(none, 0, pinst)  BY DEF none
    <3> HIDE DEF new
    <3> QED  BY <3>1, <3>3, <3>4
  <2>7. /\ list \in Seq(Songs) /\ ToSet(list) = ToSet(TrackList(d)) \union {s} /\ IsInjective(list)
    <3> DEFINE tracks == TrackList(d)
    <3> HIDE DEF tracks
    <3>1. list = InsertItem(tracks, at, s)  BY DEF tracks
    <3> HIDE DEF list
    <3> QED  BY <3>1, <2>2, InsertItemIs, <2>1 DEF tracks, SoundTracks
  <2> HIDE DEF new, list
  <2>8. new # None /\ list # None  BY <2>6, <2>7, AlbumAssumption
  <2>9. TrackList(e) = list  BY <2>3, <2>8, OrdersAre
  <2>10. OrderList(e, s) = new /\ \A u \in Songs : u # s => OrderList(e, u) = OrderList(d, u)
    BY <2>3, <2>2, <2>8, OrdersAre DEF SongNames
  <2>11. SoundTracks(e)  BY <2>3, <2>7, <2>8, <2>9, AlbumAssumption DEF SoundTracks
  <2>12. SoundOrders(e)  BY <2>1, <2>6, <2>10, <2>2, <2>4 DEF SoundOrders, Ordered
  <2>13. SoundSongs(e)
    <3> SUFFICES ASSUME NEW u \in Songs
                 PROVE  IF u \in ToSet(TrackList(e)) THEN e[SongKey(u, "manifest")] # None /\ OrderList(e, u) # <<>>
                        ELSE \A n \in SongNames : e[SongKey(u, n)] = None  BY DEF SoundSongs
    <3>1. CASE u = s  BY <3>1, <2>3, <2>6, <2>7, <2>9, <2>10, AlbumAssumption
    <3>2. CASE u # s  BY <3>2, <2>3, <2>7, <2>9, <2>10, <2>1 DEF SoundSongs, SongNames
    <3> QED  BY <3>1, <3>2
  <2>14. \A i : Ordered(e, i) <=> Ordered(d, i) \/ i = pinst  BY <2>5, EmptyHasNone, <2>2, <2>6, <2>10 DEF Ordered
  <2>15. SoundInstances(e)  BY <2>1, <2>3, <2>14, AlbumAssumption DEF SoundInstances
  <2>16. SoundPatterns(e)
    <3> SUFFICES ASSUME NEW p \in Patterns
                 PROVE  IF Lives(e, p) THEN e[PatternKey(p, "manifest")] # None
                        ELSE \A n \in PatternNames : e[PatternKey(p, n)] = None  BY DEF SoundPatterns
    <3> QED  BY <2>3, AlbumAssumption, <2>4, <2>1 DEF Lives, SoundPatterns, PatternNames
  <2> QED  BY <2>3, <2>11, <2>12, <2>13, <2>15, <2>16 DEF Sound, TriggersKept
<1> QED  BY <1>1, <1>2

-----------------------------------------------------------------------------
\* The keys of what is removed.

LEMMA EmptyIs == ASSUME NEW X, NEW s \in Seq(X), Len(s) = 0 PROVE s = <<>>
OBVIOUS

\* The keys of a song and of a pattern.
LEMMA KeySets ==
    /\ \A s, u, n : SongKey(u, n) \in SongKeys(s) <=> u = s /\ n \in SongNames
    /\ \A s : AlbumKey \notin SongKeys(s) /\ TracksKey \notin SongKeys(s)
    /\ \A s, p, n : PatternKey(p, n) \notin SongKeys(s)
    /\ \A s, i : InstanceKey(i) \notin SongKeys(s)
    /\ \A p, q, n : PatternKey(q, n) \in PatternKeys(p) <=> q = p /\ n \in PatternNames
    /\ \A p, i : InstanceKey(i) \in PatternKeys(p) <=> i \in Instances /\ i[1] = p
    /\ \A p : AlbumKey \notin PatternKeys(p) /\ TracksKey \notin PatternKeys(p)
    /\ \A p, s, n : SongKey(s, n) \notin PatternKeys(p)
<1>1. \A p, k : k \in PatternKeys(p) <=> \/ \E n \in PatternNames : k = PatternKey(p, n)
                                         \/ \E i \in Instances : i[1] = p /\ k = InstanceKey(i)
  <2> TAKE p, k
  <2> DEFINE own == {InstanceKey(pinst) : pinst \in {j \in Instances : j[1] = p}}
             names == {PatternKey(p, name) : name \in {"manifest", "grid", "triggers"}}
  <2>1. PatternKeys(p) = names \union own  BY DEF PatternKeys
  <2>2. k \in names <=> \E n \in PatternNames : k = PatternKey(p, n)  BY DEF PatternNames
  <2>3. k \in own <=> \E i \in Instances : i[1] = p /\ k = InstanceKey(i)  OBVIOUS
  <2> HIDE DEF own, names
  <2> QED  BY <2>1, <2>2, <2>3
<1>2. \A p, s, n : SongKey(s, n) \notin PatternKeys(p)  BY <1>1, KeysDiffer
<1> QED  BY <1>2, KeysDiffer, <1>1 DEF SongKeys, SongNames, SongKey

\* RemoveTrack takes a song out of the track list, or the album with it.
RemovedTracks(d, at, k, old) ==
    IF Len(TrackList(d)) = 1 THEN (IF k \in {TracksKey, AlbumKey} THEN None ELSE old)
    ELSE IF k = TracksKey THEN RemoveAt(TrackList(d), at + 1) ELSE old

LEMMA RemovedTrackValue ==
    ASSUME NEW d, NEW at, NEW k, NEW old
    PROVE  Value(RemoveTrack(d, at), k, old) = RemovedTracks(d, at, k, old)
BY ValueIs DEF RemoveTrack, RemovedTracks

\* A track list without a track; the last one takes the album along.
LEMMA RemovedTrackIs ==
    ASSUME NEW d, SoundTracks(d), NEW at \in Tracks(d), NEW e,
           e[AlbumKey] = RemovedTracks(d, at, AlbumKey, d[AlbumKey]),
           e[TracksKey] = RemovedTracks(d, at, TracksKey, d[TracksKey])
    PROVE  SoundTracks(e) /\ ToSet(TrackList(e)) = ToSet(TrackList(d)) \ {SongAt(d, at)}
<1> DEFINE list == TrackList(d)
           k == at + 1
           r == RemoveAt(list, k)
<1>1. list \in Seq(Songs) /\ IsInjective(list) /\ k \in 1..Len(list) /\ SongAt(d, at) = list[k]
  BY TracksAre DEF SoundTracks, SongAt
<1>2. d[AlbumKey] # None /\ d[TracksKey] # None  BY <1>1, OrdersAre DEF SoundTracks
<1> HIDE DEF list, k
<1>3. r \in Seq(Songs) /\ Len(r) = Len(list) - 1 /\ ToSet(r) = ToSet(list) \ {list[k]} /\ IsInjective(r)
  BY <1>1, RemovedIs
<1> HIDE DEF r
<1>4. TrackList(e) = r /\ (e[AlbumKey] # None <=> e[TracksKey] # None)
  <2>1. CASE Len(list) = 1  BY <2>1, <1>3, EmptyIs, OrdersAre DEF RemovedTracks, list
  <2>2. CASE Len(list) # 1
    <3>1. r # None  BY <1>3, AlbumAssumption
    <3> QED  BY <3>1, <1>2, OrdersAre, <2>2, KeysDiffer DEF RemovedTracks, list, r, k
  <2> QED  BY <2>1, <2>2
<1> QED  BY <1>1, <1>3, <1>4 DEF SoundTracks, list

----------------------------------------------------------------------------
\* Removing an instance.

LastSystem(d, s) == SystemCount(d, s) = 1
LastInstance(d, pinst) == InstancesOf(d, pinst[1]) \ {pinst} = {}
KeptKey(d, s, pinst, rest, k) ==
    IF LastInstance(d, pinst) /\ k \in PatternKeys(pinst[1]) THEN None
    ELSE IF k = InstanceKey(pinst) THEN None
    ELSE IF k = SongKey(s, "order") THEN rest ELSE d[k]
GoneKey(d, s, pinst, rest, k) ==
    IF k \in SongKeys(s) THEN None ELSE KeptKey(d, s, pinst, rest, k)

\* The transaction of remove_pattern_instance, key by key.
LEMMA RemovedInstanceKeys ==
    ASSUME NEW d, NEW at, NEW system, NEW s, s = SongAt(d, at), NEW pinst,
           pinst = OrderList(d, s)[system + 1], NEW rest, rest = RemoveAt(OrderList(d, s), system + 1),
           NEW e, e = RemovePatternInstance(d, at, system)
    PROVE  /\ DOMAIN e = AlbumKeys
           /\ \A k \in AlbumKeys : e[k] =
                IF LastSystem(d, s) THEN RemovedTracks(d, at, k, GoneKey(d, s, pinst, rest, k))
                ELSE KeptKey(d, s, pinst, rest, k)
<1> DEFINE a == IF LastSystem(d, s) THEN RemoveTrack(d, at) ++ Removal(SongKeys(s)) ELSE <<>>
           b == IF LastInstance(d, pinst) THEN RemovePattern(pinst[1]) ELSE <<>>
           c == Removal({InstanceKey(pinst)})
           f == Change(SongKey(s, "order"), rest)
           ab == a ++ b
           abc == ab ++ c
           t == abc ++ f
<1>1. e = Put(d, t)  BY DEF RemovePatternInstance, OrderKey, SongKey, OrderAt, LastSystem, LastInstance
<1>2. \A k, old : Value(a, k, old) =
        IF LastSystem(d, s) THEN RemovedTracks(d, at, k, IF k \in SongKeys(s) THEN None ELSE old) ELSE old
  BY ValueIs, RemovedTrackValue
<1>3. \A k, old : Value(b, k, old) = IF LastInstance(d, pinst) /\ k \in PatternKeys(pinst[1]) THEN None ELSE old
  BY ValueIs DEF RemovePattern
<1>4. \A k, old : Value(c, k, old) = IF k = InstanceKey(pinst) THEN None ELSE old
  <2> TAKE k, old
  <2> DEFINE keys == {InstanceKey(pinst)}
  <2>1. c = Removal(keys)  OBVIOUS
  <2>2. k \in keys <=> k = InstanceKey(pinst)  OBVIOUS
  <2> HIDE DEF c, keys
  <2> QED  BY <2>1, <2>2, ValueIs
<1>5. \A k, old : Value(f, k, old) = IF k = SongKey(s, "order") THEN rest ELSE old  BY ValueIs
<1> HIDE DEF a, b, c, f
<1>6. \A k, old : Value(ab, k, old) = Value(a, k, Value(b, k, old))  BY ValueIs
<1> HIDE DEF ab
<1>7. \A k, old : Value(abc, k, old) = Value(ab, k, Value(c, k, old))  BY ValueIs
<1> HIDE DEF abc
<1>8. \A k, old : Value(t, k, old) = Value(abc, k, Value(f, k, old))  BY ValueIs
<1> HIDE DEF t
<1>9. DOMAIN e = AlbumKeys /\ \A k \in AlbumKeys : e[k] = Value(t, k, d[k])  BY <1>1, PutValue
<1>10. ASSUME NEW k \in AlbumKeys
       PROVE  e[k] = IF LastSystem(d, s) THEN RemovedTracks(d, at, k, GoneKey(d, s, pinst, rest, k))
                     ELSE KeptKey(d, s, pinst, rest, k)
  <2> DEFINE kept == KeptKey(d, s, pinst, rest, k)
  <2>1. kept = Value(b, k, Value(c, k, Value(f, k, d[k])))  BY <1>3, <1>4, <1>5 DEF KeptKey
  <2>2. GoneKey(d, s, pinst, rest, k) = IF k \in SongKeys(s) THEN None ELSE kept  BY DEF GoneKey
  <2> HIDE DEF kept
  <2>3. e[k] = IF LastSystem(d, s) THEN RemovedTracks(d, at, k, IF k \in SongKeys(s) THEN None ELSE kept) ELSE kept
    BY <2>1, <1>2, <1>9, <1>6, <1>7, <1>8
  <2> QED  BY <2>2, <2>3 DEF kept
<1> QED  BY <1>9, <1>10

\* The same by kind of key.
LEMMA RemovedInstanceFields ==
    ASSUME NEW d, NEW at, NEW system, NEW s, s = SongAt(d, at), s \in Songs, NEW pinst, pinst \in Instances,
           pinst = OrderList(d, s)[system + 1], NEW rest, rest = RemoveAt(OrderList(d, s), system + 1),
           NEW e, e = RemovePatternInstance(d, at, system)
    PROVE  /\ DOMAIN e = AlbumKeys
           /\ LastSystem(d, s) => /\ e[AlbumKey] = RemovedTracks(d, at, AlbumKey, d[AlbumKey])
                            /\ e[TracksKey] = RemovedTracks(d, at, TracksKey, d[TracksKey])
                            /\ \A n \in SongNames : e[SongKey(s, n)] = None
           /\ ~LastSystem(d, s) => /\ e[AlbumKey] = d[AlbumKey] /\ e[TracksKey] = d[TracksKey]
                             /\ e[SongKey(s, "order")] = rest /\ e[SongKey(s, "manifest")] = d[SongKey(s, "manifest")]
           /\ \A u \in Songs : u # s => \A n \in SongNames : e[SongKey(u, n)] = d[SongKey(u, n)]
           /\ \A p \in Patterns : \A n \in PatternNames :
                e[PatternKey(p, n)] = IF p = pinst[1] /\ LastInstance(d, pinst) THEN None ELSE d[PatternKey(p, n)]
           /\ \A i \in Instances :
                e[InstanceKey(i)] = IF i = pinst \/ (i[1] = pinst[1] /\ LastInstance(d, pinst)) THEN None ELSE d[InstanceKey(i)]
<1> DEFINE kept(k) == KeptKey(d, s, pinst, rest, k)
           gone(k) == GoneKey(d, s, pinst, rest, k)
<1>1. DOMAIN e = AlbumKeys
      /\ \A k \in AlbumKeys : e[k] = IF LastSystem(d, s) THEN RemovedTracks(d, at, k, gone(k)) ELSE kept(k)
  BY RemovedInstanceKeys
<1>2. kept(AlbumKey) = d[AlbumKey] /\ kept(TracksKey) = d[TracksKey]  BY KeysDiffer, KeySets DEF KeptKey
<1>3. \A u, n : n \in SongNames =>
        kept(SongKey(u, n)) = IF u = s /\ n = "order" THEN rest ELSE d[SongKey(u, n)]
  BY KeysDiffer, KeySets DEF KeptKey
<1>4. \A p, n : n \in PatternNames =>
        kept(PatternKey(p, n)) = IF p = pinst[1] /\ LastInstance(d, pinst) THEN None ELSE d[PatternKey(p, n)]
  BY KeysDiffer, KeySets DEF KeptKey
<1>5. \A i \in Instances :
        kept(InstanceKey(i)) = IF i = pinst \/ (i[1] = pinst[1] /\ LastInstance(d, pinst)) THEN None ELSE d[InstanceKey(i)]
  BY KeysDiffer, KeySets DEF KeptKey
<1> HIDE DEF kept
<1>6. gone(AlbumKey) = d[AlbumKey] /\ gone(TracksKey) = d[TracksKey]  BY <1>2, KeySets DEF GoneKey, kept
<1>7. \A u, n : n \in SongNames => gone(SongKey(u, n)) = IF u = s THEN None ELSE d[SongKey(u, n)]
  BY <1>3, KeySets DEF GoneKey, kept
<1>8. \A p, n : gone(PatternKey(p, n)) = kept(PatternKey(p, n))  BY KeySets DEF GoneKey, kept
<1>9. \A i : gone(InstanceKey(i)) = kept(InstanceKey(i))  BY KeySets DEF GoneKey, kept
<1> HIDE DEF gone
<1>10. \A k \in AlbumKeys : k # AlbumKey /\ k # TracksKey => RemovedTracks(d, at, k, gone(k)) = gone(k)
  BY DEF RemovedTracks
<1>11. ASSUME NEW u \in Songs, NEW n \in SongNames
       PROVE  e[SongKey(u, n)] = IF u = s THEN IF LastSystem(d, s) THEN None
                                               ELSE IF n = "order" THEN rest ELSE d[SongKey(u, n)]
                                 ELSE d[SongKey(u, n)]  BY KeysAreIn, KeysDiffer, <1>1, <1>3, <1>7, <1>10
<1>12. ASSUME NEW p \in Patterns, NEW n \in PatternNames
       PROVE  e[PatternKey(p, n)] = IF p = pinst[1] /\ LastInstance(d, pinst) THEN None ELSE d[PatternKey(p, n)]
  BY KeysAreIn, KeysDiffer, <1>1, <1>4, <1>8, <1>10
<1>13. ASSUME NEW i \in Instances
       PROVE  e[InstanceKey(i)] = IF i = pinst \/ (i[1] = pinst[1] /\ LastInstance(d, pinst)) THEN None ELSE d[InstanceKey(i)]
  BY KeysAreIn, KeysDiffer, <1>1, <1>5, <1>9, <1>10
<1>14. "manifest" \in SongNames /\ "order" \in SongNames  BY DEF SongNames
<1>15. s \in Songs => /\ LastSystem(d, s) => \A n \in SongNames : e[SongKey(s, n)] = None
                      /\ ~LastSystem(d, s) => /\ e[SongKey(s, "order")] = rest
                                        /\ e[SongKey(s, "manifest")] = d[SongKey(s, "manifest")]  BY <1>11, <1>14
<1> QED  BY <1>1, <1>11, <1>12, <1>13, <1>15, <1>6, KeysAreIn, <1>2

\* Removing an instance from its song: the song without instances and the
\* pattern without instances go with it.
LEMMA RemoveIsSound ==
    ASSUME NEW d, Sound(d), NEW at \in Tracks(d), NEW system \in Nat,
           NEW s, s = SongAt(d, at), system < Len(OrderList(d, s)), NEW e,
           e = RemovePatternInstance(d, at, system)
    PROVE  Sound(e) /\ TriggersKept(d, e)
<1> DEFINE old == OrderList(d, s)
           k == system + 1
           pinst == old[k]
           rest == RemoveAt(old, k)
           p == pinst[1]
<1>1. SoundTracks(d) /\ SoundOrders(d) /\ SoundSongs(d) /\ SoundInstances(d) /\ SoundPatterns(d)  BY DEF Sound
<1>2. s \in Songs /\ s \in ToSet(TrackList(d))  BY <1>1, TracksAre DEF SoundTracks, UsedSongs
<1>3. old \in Seq(Instances) /\ IsInjective(old) /\ k \in 1..Len(old)  BY <1>1, <1>2 DEF SoundOrders
<1>4. LastSystem(d, s) <=> Len(old) = 1  BY DEF LastSystem, SystemCount
<1>5. LastInstance(d, pinst) <=> \A i \in Instances : i[1] = p /\ d[InstanceKey(i)] # None => i = pinst
  BY DEF LastInstance, InstancesOf, Exists
<1>6. /\ DOMAIN e = AlbumKeys
      /\ LastSystem(d, s) => /\ e[AlbumKey] = RemovedTracks(d, at, AlbumKey, d[AlbumKey])
                             /\ e[TracksKey] = RemovedTracks(d, at, TracksKey, d[TracksKey])
                             /\ \A n \in SongNames : e[SongKey(s, n)] = None
      /\ ~LastSystem(d, s) => /\ e[AlbumKey] = d[AlbumKey] /\ e[TracksKey] = d[TracksKey]
                              /\ e[SongKey(s, "order")] = rest /\ e[SongKey(s, "manifest")] = d[SongKey(s, "manifest")]
      /\ \A u \in Songs : u # s => \A n \in SongNames : e[SongKey(u, n)] = d[SongKey(u, n)]
      /\ \A q \in Patterns : \A n \in PatternNames :
           e[PatternKey(q, n)] = IF q = p /\ LastInstance(d, pinst) THEN None ELSE d[PatternKey(q, n)]
      /\ \A i \in Instances :
           e[InstanceKey(i)] = IF i = pinst \/ (i[1] = p /\ LastInstance(d, pinst)) THEN None ELSE d[InstanceKey(i)]
  BY <1>2, RemovedInstanceFields, <1>3
<1> HIDE DEF old, k
<1>7. /\ rest \in Seq(Instances) /\ Len(rest) = Len(old) - 1 /\ pinst \in ToSet(old)
      /\ ToSet(rest) = ToSet(old) \ {pinst} /\ IsInjective(rest)  BY <1>3, RemovedIs
<1> HIDE DEF pinst, rest, p
<1>8. OrderList(e, s) = rest /\ \A u \in Songs : u # s => OrderList(e, u) = OrderList(d, u)
  <2>1. "order" \in SongNames  BY DEF SongNames
  <2>2. \A u \in Songs : u # s => OrderList(e, u) = OrderList(d, u)  BY <2>1, <1>6, OrdersAre
  <2>3. CASE LastSystem(d, s)
    <3>1. rest = <<>>  BY <2>3, <1>4, <1>7, EmptyIs
    <3> QED  BY <2>1, <2>2, <2>3, <3>1, <1>6, OrdersAre
  <2>4. CASE ~LastSystem(d, s)  BY <1>7, AlbumAssumption, <2>2, <2>4, <1>6, OrdersAre
  <2> QED  BY <2>3, <2>4
<1>9. SoundTracks(e) /\ ToSet(TrackList(e)) = IF LastSystem(d, s) THEN ToSet(TrackList(d)) \ {s} ELSE ToSet(TrackList(d))
  BY <1>1, <1>6, RemovedTrackIs, OrdersAre DEF SoundTracks
<1>10. SoundOrders(e)  BY <1>1, <1>7, <1>8 DEF SoundOrders, old
<1>11. SoundSongs(e)
  <2> SUFFICES ASSUME NEW u \in Songs
               PROVE  IF u \in ToSet(TrackList(e)) THEN e[SongKey(u, "manifest")] # None /\ OrderList(e, u) # <<>>
                      ELSE \A n \in SongNames : e[SongKey(u, n)] = None  BY DEF SoundSongs
  <2>1. IF u \in ToSet(TrackList(d)) THEN d[SongKey(u, "manifest")] # None /\ OrderList(d, u) # <<>>
        ELSE \A n \in SongNames : d[SongKey(u, n)] = None  BY <1>1 DEF SoundSongs
  <2>2. CASE u # s  BY <2>1, <2>2, <1>6, <1>8, <1>9 DEF SongNames
  <2>3. CASE u = s /\ LastSystem(d, s)  BY <2>3, <1>6, <1>9
  <2>4. CASE u = s /\ ~LastSystem(d, s)  BY <2>4, <1>3, <1>4, <1>7, <2>1, <1>2, <1>6, <1>8, <1>9
  <2> QED  BY <2>2, <2>3, <2>4
<1>12. \A i : Ordered(e, i) <=> Ordered(d, i) /\ i # pinst  BY <1>1, <1>2, <1>7, <1>8 DEF SoundOrders, old, Ordered
<1>13. SoundInstances(e)
  <2> SUFFICES ASSUME NEW i \in Instances PROVE e[InstanceKey(i)] # None <=> Ordered(e, i)  BY DEF SoundInstances
  <2>1. d[InstanceKey(i)] # None <=> Ordered(d, i)  BY <1>1 DEF SoundInstances
  <2>2. CASE i = pinst  BY <2>2, <1>6, <1>12
  <2>3. CASE i # pinst /\ i[1] = p /\ LastInstance(d, pinst)  BY <2>1, <2>3, <1>5, <1>6, <1>12
  <2>4. CASE i # pinst /\ ~(i[1] = p /\ LastInstance(d, pinst))  BY <2>1, <2>4, <1>6, <1>12
  <2> QED  BY <2>2, <2>3, <2>4
<1>14. \A q : Lives(e, q) <=> Lives(d, q) /\ ~(q = p /\ LastInstance(d, pinst))  BY <1>6, <1>5 DEF Lives, p
<1>15. SoundPatterns(e)
  <2> SUFFICES ASSUME NEW q \in Patterns
               PROVE  IF Lives(e, q) THEN e[PatternKey(q, "manifest")] # None
                      ELSE \A n \in PatternNames : e[PatternKey(q, n)] = None  BY DEF SoundPatterns
  <2> QED  BY <1>6, <1>14, <1>1 DEF SoundPatterns, PatternNames
<1>16. TriggersKept(d, e)  BY <1>6, <1>14 DEF PatternNames, TriggersKept
<1> QED  BY <1>6, <1>9, <1>10, <1>11, <1>13, <1>15, <1>16 DEF Sound

----------------------------------------------------------------------------
\* Removing a song.

InSong(order, p) == Cardinality({n \in DOMAIN order : order[n][1] = p})
GonePatterns(d, order) ==
    {p \in {i[1] : i \in ToSet(order)} : InSong(order, p) = Cardinality(InstancesOf(d, p))}

\* As many instances as the pattern has are all of them.
LEMMA GoneAre ==
    ASSUME NEW d, NEW order \in Seq(Instances), IsInjective(order),
           \A i \in ToSet(order) : d[InstanceKey(i)] # None
    PROVE  \A p : p \in GonePatterns(d, order) <=>
               /\ \E i \in ToSet(order) : i[1] = p
               /\ \A i \in Instances : i[1] = p /\ d[InstanceKey(i)] # None => i \in ToSet(order)
<1> TAKE p
<1> DEFINE places == {n \in DOMAIN order : order[n][1] = p}
           here == {i \in ToSet(order) : i[1] = p}
           all == InstancesOf(d, p)
           f == [n \in places |-> order[n]]
<1>1. DOMAIN order = 1..Len(order) /\ Len(order) \in Nat /\ \A n \in DOMAIN order : order[n] \in Instances  OBVIOUS
<1>2. IsFiniteSet(Instances)
  <2>1. IsFiniteSet(0..MaxPattern) /\ IsFiniteSet(0..MaxInstance)  BY AlbumAssumption, FS_Interval
  <2> QED  BY <2>1, FS_Product DEF Instances, Patterns
<1>3. here \subseteq all  BY <1>1 DEF ToSet, InstancesOf, Exists
<1>4. f \in Bijection(places, here)  BY DEF ToSet, IsInjective, Bijection, Injection, Surjection
<1>5. IsFiniteSet(places)
  <2>1. IsFiniteSet(1..Len(order))  BY <1>1, FS_Interval
  <2> QED  BY <2>1, FS_Subset, <1>1
<1>6. InSong(order, p) = Cardinality(here)  BY <1>5, FS_Bijection, <1>4 DEF InSong, ExistsBijection
<1>7. here = all <=> Cardinality(here) = Cardinality(all)
  BY <1>3, FS_Subset, <1>2, FS_CardinalityType DEF InstancesOf
<1>8. here = all <=> \A i \in Instances : i[1] = p /\ d[InstanceKey(i)] # None => i \in ToSet(order)
  BY <1>3 DEF InstancesOf, Exists
<1> QED  BY <1>8, <1>6, <1>7 DEF GonePatterns

\* The transaction of remove_song, by kind of key.
LEMMA RemovedSongFields ==
    ASSUME NEW d, NEW at, NEW s, s = SongAt(d, at), s \in Songs, NEW order, order = OrderList(d, s),
           NEW e, e = RemoveSong(d, at)
    PROVE  /\ DOMAIN e = AlbumKeys
           /\ e[AlbumKey] = RemovedTracks(d, at, AlbumKey, d[AlbumKey])
           /\ e[TracksKey] = RemovedTracks(d, at, TracksKey, d[TracksKey])
           /\ \A u \in Songs : \A n \in SongNames :
                e[SongKey(u, n)] = IF u = s THEN None ELSE d[SongKey(u, n)]
           /\ \A p \in Patterns : \A n \in PatternNames :
                e[PatternKey(p, n)] = IF p \in GonePatterns(d, order) THEN None ELSE d[PatternKey(p, n)]
           /\ \A i \in Instances :
                e[InstanceKey(i)] = IF i \in ToSet(order) \/ i[1] \in GonePatterns(d, order) THEN None
                                    ELSE d[InstanceKey(i)]
<1> DEFINE gone == GonePatterns(d, order)
           keys == UNION {PatternKeys(p) : p \in gone}
           own == {InstanceKey(i) : i \in ToSet(order)}
           a == RemoveTrack(d, at)
           b == Removal(SongKeys(s))
           c == Removal(keys)
           f == Removal(own)
           ab == a ++ b
           abc == ab ++ c
           t == abc ++ f
<1>1. e = Put(d, t)  BY DEF RemoveSong, OrderAt, GonePatterns, InSong
<1>2. \A k, old : Value(a, k, old) = RemovedTracks(d, at, k, old)  BY RemovedTrackValue
<1>3. \A k, old : Value(b, k, old) = IF k \in SongKeys(s) THEN None ELSE old  BY ValueIs
<1>4. \A k : k \in keys <=> \E p \in gone : k \in PatternKeys(p)  OBVIOUS
<1>5. \A k : k \in own <=> \E i \in ToSet(order) : k = InstanceKey(i)  OBVIOUS
<1> HIDE DEF gone, keys, own
<1>6. \A k, old : Value(c, k, old) = IF k \in keys THEN None ELSE old  BY ValueIs
<1>7. \A k, old : Value(f, k, old) = IF k \in own THEN None ELSE old  BY ValueIs
<1> HIDE DEF a, b, c, f
<1>8. \A k, old : Value(ab, k, old) = Value(a, k, Value(b, k, old))  BY ValueIs
<1> HIDE DEF ab
<1>9. \A k, old : Value(abc, k, old) = Value(ab, k, Value(c, k, old))  BY ValueIs
<1> HIDE DEF abc
<1>10. \A k, old : Value(t, k, old) = Value(abc, k, Value(f, k, old))  BY ValueIs
<1> HIDE DEF t
<1>11. DOMAIN e = AlbumKeys /\ \A k \in AlbumKeys : e[k] = Value(t, k, d[k])  BY <1>1, PutValue
<1>12. \A k \in AlbumKeys : e[k] = RemovedTracks(d, at, k,
            IF k \in SongKeys(s) \/ k \in keys \/ k \in own THEN None ELSE d[k])
  <2> TAKE k \in AlbumKeys
  <2>1. e[k] = Value(a, k, Value(b, k, Value(c, k, Value(f, k, d[k]))))  BY <1>8, <1>9, <1>10, <1>11
  <2> DEFINE v == Value(b, k, Value(c, k, Value(f, k, d[k])))
  <2>2. v = IF k \in SongKeys(s) \/ k \in keys \/ k \in own THEN None ELSE d[k]  BY <1>3, <1>6, <1>7
  <2>3. e[k] = RemovedTracks(d, at, k, v)  BY <2>1, <1>2
  <2> HIDE DEF v
  <2> QED  BY <2>2, <2>3
<1>13. \A k : k \notin {AlbumKey, TracksKey} => \A old : RemovedTracks(d, at, k, old) = old  BY DEF RemovedTracks
<1>14. e[AlbumKey] = RemovedTracks(d, at, AlbumKey, d[AlbumKey])
       /\ e[TracksKey] = RemovedTracks(d, at, TracksKey, d[TracksKey])
  BY <1>4, <1>5, KeySets, KeysDiffer, <1>12, KeysAreIn
<1>15. ASSUME NEW u \in Songs, NEW n \in SongNames
       PROVE  e[SongKey(u, n)] = IF u = s THEN None ELSE d[SongKey(u, n)]
  BY KeysAreIn, KeysDiffer, <1>4, <1>5, KeySets, <1>12, <1>13
<1>16. ASSUME NEW p \in Patterns, NEW n \in PatternNames
       PROVE  e[PatternKey(p, n)] = IF p \in gone THEN None ELSE d[PatternKey(p, n)]
  BY KeysAreIn, KeysDiffer, <1>5, KeySets, <1>4, <1>12, <1>13
<1>17. ASSUME NEW i \in Instances
       PROVE  e[InstanceKey(i)] = IF i \in ToSet(order) \/ i[1] \in gone THEN None ELSE d[InstanceKey(i)]
  BY KeysAreIn, KeysDiffer, KeySets, <1>5, <1>4, <1>12, <1>13
<1> QED  BY <1>11, <1>14, <1>15, <1>16, <1>17 DEF gone

\* Removing a song: its patterns without other instances go with it.
LEMMA RemoveSongIsSound ==
    ASSUME NEW d, Sound(d), NEW at \in Tracks(d), NEW e, e = RemoveSong(d, at)
    PROVE  Sound(e) /\ TriggersKept(d, e)
<1> DEFINE s == SongAt(d, at)
           order == OrderList(d, s)
           gone == GonePatterns(d, order)
<1>1. SoundTracks(d) /\ SoundOrders(d) /\ SoundSongs(d) /\ SoundInstances(d) /\ SoundPatterns(d)  BY DEF Sound
<1>2. s \in Songs /\ s \in ToSet(TrackList(d))  BY <1>1, TracksAre DEF SoundTracks, UsedSongs
<1>3. order \in Seq(Instances) /\ IsInjective(order)  BY <1>1, <1>2 DEF SoundOrders
<1>4. \A p : p \in gone <=> /\ \E i \in ToSet(order) : i[1] = p
                            /\ \A i \in Instances : i[1] = p /\ d[InstanceKey(i)] # None => i \in ToSet(order)
  BY <1>3, GoneAre, <1>1, <1>2 DEF SoundInstances, ToSet, Ordered
<1>5. /\ DOMAIN e = AlbumKeys
      /\ e[AlbumKey] = RemovedTracks(d, at, AlbumKey, d[AlbumKey])
      /\ e[TracksKey] = RemovedTracks(d, at, TracksKey, d[TracksKey])
      /\ \A u \in Songs : \A n \in SongNames : e[SongKey(u, n)] = IF u = s THEN None ELSE d[SongKey(u, n)]
      /\ \A p \in Patterns : \A n \in PatternNames :
           e[PatternKey(p, n)] = IF p \in gone THEN None ELSE d[PatternKey(p, n)]
      /\ \A i \in Instances :
           e[InstanceKey(i)] = IF i \in ToSet(order) \/ i[1] \in gone THEN None ELSE d[InstanceKey(i)]
  BY <1>2, RemovedSongFields
<1>6. SoundTracks(e) /\ ToSet(TrackList(e)) = ToSet(TrackList(d)) \ {s}  BY <1>1, <1>5, RemovedTrackIs
<1> HIDE DEF s, order, gone
<1>7. OrderList(e, s) = <<>> /\ \A u \in Songs : u # s => OrderList(e, u) = OrderList(d, u)
  BY <1>2, <1>5, OrdersAre DEF SongNames
<1>8. ToSet(OrderList(e, s)) = {} /\ IsInjective(OrderList(e, s)) /\ OrderList(e, s) \in Seq(Instances)
  BY <1>7, EmptyHasNone DEF IsInjective
<1>9. SoundOrders(e)  BY <1>1, <1>7, <1>8 DEF SoundOrders
<1>10. SoundSongs(e)
  <2> SUFFICES ASSUME NEW u \in Songs
               PROVE  IF u \in ToSet(TrackList(e)) THEN e[SongKey(u, "manifest")] # None /\ OrderList(e, u) # <<>>
                      ELSE \A n \in SongNames : e[SongKey(u, n)] = None  BY DEF SoundSongs
  <2>1. CASE u # s  BY <2>1, <1>5, <1>6, <1>7, <1>1 DEF SoundSongs, SongNames
  <2>2. CASE u = s  BY <2>2, <1>5, <1>6
  <2> QED  BY <2>1, <2>2
<1>11. \A i : Ordered(e, i) <=> Ordered(d, i) /\ i \notin ToSet(order)
  BY <1>1, <1>2, <1>7, <1>8 DEF SoundOrders, order, Ordered
<1>12. SoundInstances(e)
  <2> SUFFICES ASSUME NEW i \in Instances PROVE e[InstanceKey(i)] # None <=> Ordered(e, i)  BY DEF SoundInstances
  <2>1. d[InstanceKey(i)] # None <=> Ordered(d, i)  BY <1>1 DEF SoundInstances
  <2>2. CASE i \in ToSet(order)  BY <2>2, <1>5, <1>11
  <2>3. CASE i \notin ToSet(order) /\ i[1] \in gone  BY <2>1, <2>3, <1>5, <1>11, <1>4
  <2>4. CASE i \notin ToSet(order) /\ i[1] \notin gone  BY <2>1, <2>4, <1>5, <1>11
  <2> QED  BY <2>2, <2>3, <2>4
<1>13. \A p : Lives(e, p) <=> Lives(d, p) /\ p \notin gone
  <2> TAKE p
  <2>1. CASE p \in gone  BY <2>1, <1>5 DEF Lives
  <2>2. CASE p \notin gone
    <3>1. ASSUME Lives(d, p) PROVE Lives(e, p)
      <4>1. PICK i \in Instances : i[1] = p /\ d[InstanceKey(i)] # None  BY <3>1 DEF Lives
      <4>2. CASE i \notin ToSet(order)  BY <4>1, <4>2, <2>2, <1>5 DEF Lives
      <4>3. CASE i \in ToSet(order)
        <5>1. PICK j \in Instances : j[1] = p /\ d[InstanceKey(j)] # None /\ j \notin ToSet(order)
          BY <4>1, <4>3, <2>2, <1>4
        <5> QED  BY <5>1, <2>2, <1>5 DEF Lives
      <4> QED  BY <4>2, <4>3
    <3>2. ASSUME Lives(e, p) PROVE Lives(d, p)
      <4>1. PICK i \in Instances : i[1] = p /\ e[InstanceKey(i)] # None  BY <3>2 DEF Lives
      <4> QED  BY <4>1, <1>5 DEF Lives
    <3> QED  BY <2>2, <3>1, <3>2
  <2> QED  BY <2>1, <2>2
<1>14. SoundPatterns(e)
  <2> SUFFICES ASSUME NEW q \in Patterns
               PROVE  IF Lives(e, q) THEN e[PatternKey(q, "manifest")] # None
                      ELSE \A n \in PatternNames : e[PatternKey(q, n)] = None  BY DEF SoundPatterns
  <2> QED  BY <1>5, <1>13, <1>1 DEF SoundPatterns, PatternNames
<1>15. TriggersKept(d, e)  BY <1>5, <1>13 DEF PatternNames, TriggersKept
<1> QED  BY <1>5, <1>6, <1>9, <1>10, <1>12, <1>14, <1>15 DEF Sound

-----------------------------------------------------------------------------
\* Moving instances.

SamePatterns(d, e) ==
    /\ \A p \in Patterns : \A n \in PatternNames : e[PatternKey(p, n)] = d[PatternKey(p, n)]
    /\ \A i \in Instances : e[InstanceKey(i)] = d[InstanceKey(i)]

\* What moves instances and songs only.
LEMMA RearrangedIsSound ==
    ASSUME NEW d, Sound(d), NEW e, DOMAIN e = AlbumKeys, SoundTracks(e), SoundOrders(e), SoundSongs(e),
           SamePatterns(d, e), \A i : Ordered(e, i) <=> Ordered(d, i)
    PROVE  Sound(e) /\ TriggersKept(d, e)
<1>1. SoundInstances(d) /\ SoundPatterns(d)  BY DEF Sound
<1>2. SoundPatterns(e)
  <2> SUFFICES ASSUME NEW q \in Patterns
               PROVE  IF Lives(e, q) THEN e[PatternKey(q, "manifest")] # None
                      ELSE \A n \in PatternNames : e[PatternKey(q, n)] = None  BY DEF SoundPatterns
  <2> QED  BY <1>1 DEF SamePatterns, Lives, SoundPatterns, PatternNames
<1> QED  BY <1>2, <1>1 DEF Sound, SamePatterns, SoundInstances, PatternNames, TriggersKept

\* A transaction that leaves patterns and instances alone.
LEMMA SamePatternsPut ==
    ASSUME NEW d, NEW e,
           \A k \in AlbumKeys : (\A s, n : k # SongKey(s, n)) /\ k # TracksKey => e[k] = d[k]
    PROVE  SamePatterns(d, e)
BY KeysAreIn, KeysDiffer DEF SamePatterns

\* Moving an instance within its song.
LEMMA MoveWithinIsSound ==
    ASSUME NEW d, Sound(d), NEW at \in Tracks(d), NEW from \in Nat, NEW to \in Nat,
           NEW s, s = SongAt(d, at), from < Len(OrderList(d, s)), NEW e,
           e = MovePatternInstance(d, at, from, at, to)
    PROVE  /\ Sound(e) /\ TriggersKept(d, e) /\ \A i : Ordered(e, i) <=> Ordered(d, i)
           /\ \A u \in Songs : SameOrder(OrderList(d, u), OrderList(e, u), OrderList(d, s)[from + 1])
<1> DEFINE old == OrderList(d, s)
           x == old[from + 1]
           new == Moved(old, from, to)
<1>1. SoundTracks(d) /\ SoundOrders(d) /\ SoundSongs(d)  BY DEF Sound
<1>2. s \in Songs /\ s \in ToSet(TrackList(d))  BY <1>1, TracksAre DEF SoundTracks, UsedSongs
<1>3. old \in Seq(Instances) /\ IsInjective(old) /\ from \in 0..(Len(old) - 1)  BY <1>1, <1>2 DEF SoundOrders
<1>4. e = Put(d, Change(SongKey(s, "order"), new))  BY DEF MovePatternInstance, OrderKey, SongKey
<1> HIDE DEF old
<1>5. /\ new \in Seq(Instances) /\ Len(new) = Len(old) /\ ToSet(new) = ToSet(old) /\ IsInjective(new)
      /\ SameOrder(old, new, x)  BY <1>3, MovedIs
<1> HIDE DEF new, x
<1>6. DOMAIN e = AlbumKeys /\ \A k \in AlbumKeys : e[k] = IF k = SongKey(s, "order") THEN new ELSE d[k]
  BY <1>4, PutValue, ValueIs
<1>7. e[AlbumKey] = d[AlbumKey] /\ e[TracksKey] = d[TracksKey]  BY <1>6, KeysAreIn, KeysDiffer
<1>8. ASSUME NEW u \in Songs, NEW n \in SongNames
      PROVE  e[SongKey(u, n)] = IF u = s /\ n = "order" THEN new ELSE d[SongKey(u, n)]  BY KeysAreIn, <1>6, KeysDiffer
<1>9. "manifest" \in SongNames /\ "order" \in SongNames  BY DEF SongNames
<1>10. OrderList(e, s) = new /\ \A u \in Songs : u # s => OrderList(e, u) = OrderList(d, u)
  BY <1>5, AlbumAssumption, <1>2, <1>8, <1>9, OrdersAre
<1>11. TrackList(e) = TrackList(d)  BY <1>7, OrdersAre
<1>12. SoundTracks(e)  BY <1>1, <1>7, <1>11 DEF SoundTracks
<1>13. \A u \in Songs : ToSet(OrderList(e, u)) = ToSet(OrderList(d, u))  BY <1>5, <1>10 DEF old
<1>14. SoundOrders(e)  BY <1>1, <1>5, <1>10, <1>13 DEF SoundOrders
<1>15. SoundSongs(e)
  <2> SUFFICES ASSUME NEW u \in Songs
               PROVE  IF u \in ToSet(TrackList(e)) THEN e[SongKey(u, "manifest")] # None /\ OrderList(e, u) # <<>>
                      ELSE \A n \in SongNames : e[SongKey(u, n)] = None  BY DEF SoundSongs
  <2> QED  BY <1>2, <1>8, <1>10, <1>11, <1>1, <1>3, <1>5, <1>9 DEF SoundSongs
<1>16. \A i : Ordered(e, i) <=> Ordered(d, i)  BY <1>13 DEF Ordered
<1>17. Sound(e) /\ TriggersKept(d, e)  BY <1>6, <1>12, <1>14, <1>15, <1>16, RearrangedIsSound, SamePatternsPut
<1> QED  BY <1>16, <1>17, <1>5, <1>10 DEF x, old, SameOrder

\* What moving an instance to another song puts.
LEMMA AcrossKeys ==
    ASSUME NEW d, NEW at, NEW from, NEW there, NEW to, at # there,
           NEW s, s = SongAt(d, at), NEW v, v = SongAt(d, there), NEW old, old = OrderList(d, s),
           NEW longer, longer = InsertItem(OrderList(d, v), to, old[from + 1]),
           NEW rest, rest = RemoveAt(old, from + 1), NEW fewer, fewer = RemoveAt(TrackList(d), at + 1),
           NEW e, e = MovePatternInstance(d, at, from, there, to)
    PROVE  /\ DOMAIN e = AlbumKeys
           /\ Len(old) > 1 => \A k \in AlbumKeys : e[k] =
                IF k = SongKey(v, "order") THEN longer ELSE IF k = SongKey(s, "order") THEN rest ELSE d[k]
           /\ ~(Len(old) > 1) => \A k \in AlbumKeys : e[k] =
                IF k = TracksKey THEN fewer ELSE IF k \in SongKeys(s) THEN None
                ELSE IF k = SongKey(v, "order") THEN longer ELSE d[k]
<1> DEFINE a == Change(SongKey(v, "order"), longer)
           b == Change(SongKey(s, "order"), rest)
           c == Change(TracksKey, fewer)
           g == Removal(SongKeys(s))
           both == a ++ b
           all == (c ++ g) ++ a
<1>1. e = IF Len(old) > 1 THEN Put(d, both) ELSE Put(d, all)  BY DEF MovePatternInstance, OrderAt, OrderKey, SongKey
<1>2. \A k, o : Value(a, k, o) = IF k = SongKey(v, "order") THEN longer ELSE o  BY ValueIs
<1>3. \A k, o : Value(b, k, o) = IF k = SongKey(s, "order") THEN rest ELSE o  BY ValueIs
<1>4. \A k, o : Value(c, k, o) = IF k = TracksKey THEN fewer ELSE o  BY ValueIs
<1>5. \A k, o : Value(g, k, o) = IF k \in SongKeys(s) THEN None ELSE o  BY ValueIs
<1> HIDE DEF a, b, c, g
<1>6. /\ \A k, o : Value(both, k, o) = Value(a, k, Value(b, k, o))
      /\ \A k, o : Value(all, k, o) = Value(c, k, Value(g, k, Value(a, k, o)))  BY ValueIs
<1> HIDE DEF both, all
<1>7. CASE Len(old) > 1  BY <1>1, <1>7, PutValue, <1>2, <1>3, <1>4, <1>5, <1>6
<1>8. CASE ~(Len(old) > 1)  BY <1>1, <1>8, PutValue, <1>2, <1>3, <1>4, <1>5, <1>6
<1> QED  BY <1>7, <1>8

\* The same by kind of key.
LEMMA AcrossFields ==
    ASSUME NEW d, NEW at, NEW from, NEW there, NEW to, at # there,
           NEW s \in Songs, s = SongAt(d, at), NEW v \in Songs, v = SongAt(d, there), s # v,
           NEW old, old = OrderList(d, s),
           NEW longer, longer = InsertItem(OrderList(d, v), to, old[from + 1]),
           NEW rest, rest = RemoveAt(old, from + 1), NEW fewer, fewer = RemoveAt(TrackList(d), at + 1),
           NEW e, e = MovePatternInstance(d, at, from, there, to)
    PROVE  /\ DOMAIN e = AlbumKeys /\ e[AlbumKey] = d[AlbumKey]
           /\ \A u \in Songs : u \notin {s, v} => \A n \in SongNames : e[SongKey(u, n)] = d[SongKey(u, n)]
           /\ e[SongKey(v, "order")] = longer /\ e[SongKey(v, "manifest")] = d[SongKey(v, "manifest")]
           /\ Len(old) > 1 => /\ e[TracksKey] = d[TracksKey] /\ e[SongKey(s, "order")] = rest
                              /\ e[SongKey(s, "manifest")] = d[SongKey(s, "manifest")]
           /\ ~(Len(old) > 1) => e[TracksKey] = fewer /\ \A n \in SongNames : e[SongKey(s, n)] = None
           /\ SamePatterns(d, e)
<1>1. /\ DOMAIN e = AlbumKeys
      /\ Len(old) > 1 => \A k \in AlbumKeys : e[k] =
            IF k = SongKey(v, "order") THEN longer ELSE IF k = SongKey(s, "order") THEN rest ELSE d[k]
      /\ ~(Len(old) > 1) => \A k \in AlbumKeys : e[k] =
            IF k = TracksKey THEN fewer ELSE IF k \in SongKeys(s) THEN None
            ELSE IF k = SongKey(v, "order") THEN longer ELSE d[k]  BY AcrossKeys
<1>2. /\ e[AlbumKey] = d[AlbumKey]
      /\ e[TracksKey] = IF Len(old) > 1 THEN d[TracksKey] ELSE fewer  BY <1>1, KeysAreIn, KeysDiffer, KeySets
<1>3. ASSUME NEW u \in Songs, NEW n \in SongNames
      PROVE  e[SongKey(u, n)] =
               IF u = v THEN IF n = "order" THEN longer ELSE d[SongKey(u, n)]
               ELSE IF u # s THEN d[SongKey(u, n)]
               ELSE IF ~(Len(old) > 1) THEN None
               ELSE IF n = "order" THEN rest ELSE d[SongKey(u, n)]  BY KeysAreIn, KeysDiffer, KeySets, <1>1
<1>4. SamePatterns(d, e)  BY <1>1, SamePatternsPut DEF SongKeys, SongKey, SongNames
<1> QED  BY <1>1, <1>2, <1>4, <1>3 DEF SongNames

\* Moving an instance to another song; the song it leaves without an
\* instance is removed.
LEMMA MoveAcrossIsSound ==
    ASSUME NEW d, Sound(d), NEW at \in Tracks(d), NEW from \in Nat, NEW there \in Tracks(d), NEW to \in Nat,
           NEW s, s = SongAt(d, at), from < Len(OrderList(d, s)), at # there, NEW e,
           e = MovePatternInstance(d, at, from, there, to)
    PROVE  /\ Sound(e) /\ TriggersKept(d, e) /\ \A i : Ordered(e, i) <=> Ordered(d, i)
           /\ \A u \in Songs : SameOrder(OrderList(d, u), OrderList(e, u), OrderList(d, s)[from + 1])
<1> DEFINE old == OrderList(d, s)
           k == from + 1
           x == old[k]
           rest == RemoveAt(old, k)
           v == SongAt(d, there)
           target == OrderList(d, v)
           longer == InsertItem(target, to, x)
           tracks == TrackList(d)
           fewer == RemoveAt(tracks, at + 1)
<1>1. SoundTracks(d) /\ SoundOrders(d) /\ SoundSongs(d)  BY DEF Sound
<1>2. /\ s \in Songs /\ s \in ToSet(tracks) /\ v \in Songs /\ v \in ToSet(tracks) /\ s # v
      /\ Len(tracks) # 1  BY <1>1, TracksAre DEF SoundTracks, UsedSongs, IsInjective
<1>3. old \in Seq(Instances) /\ IsInjective(old) /\ k \in 1..Len(old)  BY <1>1, <1>2 DEF SoundOrders
<1>4. target \in Seq(Instances) /\ IsInjective(target)  BY <1>1, <1>2 DEF SoundOrders
<1>5. /\ DOMAIN e = AlbumKeys /\ e[AlbumKey] = d[AlbumKey]
      /\ \A u \in Songs : u \notin {s, v} => \A n \in SongNames : e[SongKey(u, n)] = d[SongKey(u, n)]
      /\ e[SongKey(v, "order")] = longer /\ e[SongKey(v, "manifest")] = d[SongKey(v, "manifest")]
      /\ Len(old) > 1 => /\ e[TracksKey] = d[TracksKey] /\ e[SongKey(s, "order")] = rest
                         /\ e[SongKey(s, "manifest")] = d[SongKey(s, "manifest")]
      /\ ~(Len(old) > 1) => e[TracksKey] = fewer /\ \A n \in SongNames : e[SongKey(s, n)] = None
      /\ SamePatterns(d, e)  BY <1>2, AcrossFields
<1> HIDE DEF old, k
<1>6. /\ rest \in Seq(Instances) /\ Len(rest) = Len(old) - 1 /\ x \in ToSet(old) /\ x \in Instances
      /\ ToSet(rest) = ToSet(old) \ {x} /\ IsInjective(rest) /\ SameOrder(old, rest, x)  BY <1>3, RemovedIs
<1> HIDE DEF x, rest
<1>7. x \notin ToSet(target)  BY <1>1, <1>2, <1>6 DEF SoundOrders, old
<1> HIDE DEF target
<1>8. /\ longer \in Seq(Instances) /\ Len(longer) = Len(target) + 1 /\ ToSet(longer) = ToSet(target) \union {x}
      /\ IsInjective(longer) /\ SameOrder(target, longer, x)  BY <1>4, <1>6, <1>7, InsertItemIs
<1> HIDE DEF longer, v
<1>9. "manifest" \in SongNames /\ "order" \in SongNames  BY DEF SongNames
<1>10. /\ OrderList(e, s) = rest /\ OrderList(e, v) = longer
       /\ \A u \in Songs : u \notin {s, v} => OrderList(e, u) = OrderList(d, u)
  BY <1>8, AlbumAssumption, <1>5, OrdersAre, <1>6, <1>3, EmptyIs, <1>9
<1>11. SoundTracks(e) /\ ToSet(TrackList(e)) = IF Len(old) > 1 THEN ToSet(tracks) ELSE ToSet(tracks) \ {s}
  BY <1>5, OrdersAre, <1>1, <1>2, KeysDiffer, RemovedTrackIs DEF SoundTracks, RemovedTracks
<1> HIDE DEF tracks, fewer
<1>12. SoundOrders(e)  BY <1>1, <1>6, <1>8, <1>10, <1>2 DEF SoundOrders, old, target
<1>13. SoundSongs(e)
  <2> SUFFICES ASSUME NEW u \in Songs
               PROVE  IF u \in ToSet(TrackList(e)) THEN e[SongKey(u, "manifest")] # None /\ OrderList(e, u) # <<>>
                      ELSE \A n \in SongNames : e[SongKey(u, n)] = None  BY DEF SoundSongs
  <2>1. IF u \in ToSet(tracks) THEN d[SongKey(u, "manifest")] # None /\ OrderList(d, u) # <<>>
        ELSE \A n \in SongNames : d[SongKey(u, n)] = None  BY <1>1 DEF SoundSongs, tracks
  <2>2. CASE u \notin {s, v}  BY <2>1, <2>2, <1>5, <1>9, <1>10, <1>11
  <2>3. CASE u = v  BY <1>4, <1>8, <2>1, <2>3, <1>2, <1>5, <1>10, <1>11
  <2>4. CASE u = s /\ Len(old) > 1  BY <2>4, <1>3, <1>6, <2>1, <1>2, <1>5, <1>10, <1>11
  <2>5. CASE u = s /\ ~(Len(old) > 1)  BY <2>5, <1>5, <1>11
  <2> QED  BY <2>2, <2>3, <2>4, <2>5
<1>14. \A i : Ordered(e, i) <=> Ordered(d, i)  BY <1>6, <1>8, <1>2, <1>10 DEF Ordered, old, target
<1>15. Sound(e) /\ TriggersKept(d, e)  BY <1>5, <1>11, <1>12, <1>13, <1>14, RearrangedIsSound
<1>16. \A u \in Songs : SameOrder(OrderList(d, u), OrderList(e, u), x)
  BY <1>10, <1>6, <1>8 DEF SameOrder, old, target
<1> QED  BY <1>14, <1>15, <1>16 DEF x, old, k

-----------------------------------------------------------------------------
\* Moving songs, naming them, and editing patterns.

\* Moving a song in the album.
LEMMA MoveSongIsSound ==
    ASSUME NEW d, Sound(d), NEW at \in Tracks(d), NEW to \in Nat, NEW e, e = MoveSong(d, at, to)
    PROVE  /\ Sound(e) /\ TriggersKept(d, e) /\ \A i : Ordered(e, i) <=> Ordered(d, i)
           /\ \A u \in Songs : OrderList(e, u) = OrderList(d, u)
<1> DEFINE list == TrackList(d)
           new == Moved(list, at, to)
<1>1. SoundTracks(d) /\ SoundOrders(d) /\ SoundSongs(d)  BY DEF Sound
<1>2. list \in Seq(Songs) /\ IsInjective(list) /\ at \in 0..(Len(list) - 1) /\ list # <<>>
  BY <1>1, TracksAre DEF SoundTracks
<1>3. d[TracksKey] # None /\ d[AlbumKey] # None  BY <1>2, OrdersAre, <1>1 DEF SoundTracks
<1>4. e = Put(d, Change(TracksKey, new))  BY DEF MoveSong
<1> HIDE DEF list
<1>5. new \in Seq(Songs) /\ ToSet(new) = ToSet(list) /\ IsInjective(new)  BY <1>2, MovedIs
<1> HIDE DEF new
<1>6. DOMAIN e = AlbumKeys /\ \A k \in AlbumKeys : e[k] = IF k = TracksKey THEN new ELSE d[k]
  BY <1>4, PutValue, ValueIs
<1>7. e[AlbumKey] = d[AlbumKey] /\ e[TracksKey] = new  BY <1>6, KeysAreIn, KeysDiffer
<1>8. new # None  BY <1>5, AlbumAssumption
<1>9. TrackList(e) = new  BY <1>7, <1>8, OrdersAre
<1>10. SoundTracks(e)  BY <1>3, <1>5, <1>7, <1>8, <1>9 DEF SoundTracks
<1>11. \A u \in Songs : \A n \in SongNames : e[SongKey(u, n)] = d[SongKey(u, n)]  BY <1>6, KeysAreIn, KeysDiffer
<1>12. "manifest" \in SongNames /\ "order" \in SongNames  BY DEF SongNames
<1>13. \A u \in Songs : OrderList(e, u) = OrderList(d, u)  BY <1>11, <1>12, OrdersAre
<1>14. SoundSongs(e)  BY <1>5, <1>9, <1>1, <1>11, <1>12, <1>13 DEF list, SoundSongs
<1> QED  BY <1>6, <1>10, <1>13, <1>14, RearrangedIsSound, <1>1, SamePatternsPut DEF SoundOrders, Ordered

\* Naming a song, and putting the grid or the triggers of a pattern.
LEMMA NamedIsSound ==
    ASSUME NEW d, Sound(d), NEW s \in ToSet(TrackList(d)), NEW name, NEW e,
           e = Put(d, Change(SongKey(s, "name"), name))
    PROVE  /\ Sound(e) /\ TriggersKept(d, e)
           /\ TrackCount(e) = TrackCount(d) /\ TrackList(e) = TrackList(d)
           /\ \A u \in Songs : OrderList(e, u) = OrderList(d, u)
<1>1. SoundTracks(d) /\ SoundOrders(d) /\ SoundSongs(d)  BY DEF Sound
<1>2. DOMAIN e = AlbumKeys /\ \A k \in AlbumKeys : e[k] = IF k = SongKey(s, "name") THEN name ELSE d[k]
  BY PutValue, ValueIs
<1>3. e[AlbumKey] = d[AlbumKey] /\ e[TracksKey] = d[TracksKey]  BY <1>2, KeysAreIn, KeysDiffer
<1>4. ASSUME NEW u \in Songs, NEW n \in SongNames
      PROVE  e[SongKey(u, n)] = IF u = s /\ n = "name" THEN name ELSE d[SongKey(u, n)]  BY KeysAreIn, <1>2, KeysDiffer
<1>5. "manifest" \in SongNames /\ "order" \in SongNames  BY DEF SongNames
<1>6. \A u \in Songs : OrderList(e, u) = OrderList(d, u)  BY OrdersAre, <1>4, <1>5
<1>7. TrackList(e) = TrackList(d)  BY <1>3, OrdersAre
<1>8. SoundTracks(e) /\ SoundOrders(e)  BY <1>1, <1>3, <1>6, <1>7 DEF SoundTracks, SoundOrders
<1>9. SoundSongs(e)
  <2> SUFFICES ASSUME NEW u \in Songs
               PROVE  IF u \in ToSet(TrackList(e)) THEN e[SongKey(u, "manifest")] # None /\ OrderList(e, u) # <<>>
                      ELSE \A n \in SongNames : e[SongKey(u, n)] = None  BY DEF SoundSongs
  <2> QED  BY <1>4, <1>5, <1>6, <1>7, <1>1 DEF SoundSongs
<1>10. TrackCount(e) = TrackCount(d)  BY <1>3, <1>7 DEF TrackCount, Exists
<1> QED  BY <1>2, <1>6, <1>7, <1>8, <1>9, <1>10, RearrangedIsSound, SamePatternsPut DEF Ordered

\* Editing a pattern that has an instance.
LEMMA EditedIsSound ==
    ASSUME NEW d, Sound(d), NEW p \in Patterns, Lives(d, p), NEW name \in {"grid", "triggers"}, NEW v, NEW e,
           e = Put(d, Change(PatternKey(p, name), v))
    PROVE  /\ Sound(e) /\ TrackCount(e) = TrackCount(d) /\ TrackList(e) = TrackList(d)
           /\ \A u \in Songs : OrderList(e, u) = OrderList(d, u)
           /\ \A q : Lives(e, q) <=> Lives(d, q)
<1>1. SoundTracks(d) /\ SoundOrders(d) /\ SoundSongs(d) /\ SoundInstances(d) /\ SoundPatterns(d)  BY DEF Sound
<1>2. DOMAIN e = AlbumKeys /\ \A k \in AlbumKeys : e[k] = IF k = PatternKey(p, name) THEN v ELSE d[k]
  BY PutValue, ValueIs
<1>3. e[AlbumKey] = d[AlbumKey] /\ e[TracksKey] = d[TracksKey]  BY <1>2, KeysAreIn, KeysDiffer
<1>4. \A u \in Songs : \A n \in SongNames : e[SongKey(u, n)] = d[SongKey(u, n)]  BY <1>2, KeysAreIn, KeysDiffer
<1>5. \A i \in Instances : e[InstanceKey(i)] = d[InstanceKey(i)]  BY <1>2, KeysAreIn, KeysDiffer
<1>6. ASSUME NEW q \in Patterns, NEW n \in PatternNames
      PROVE  e[PatternKey(q, n)] = IF q = p /\ n = name THEN v ELSE d[PatternKey(q, n)]
  BY KeysAreIn, <1>2, KeysDiffer
<1>7. "manifest" \in SongNames /\ "order" \in SongNames /\ "manifest" \in PatternNames /\ name # "manifest"
  BY DEF SongNames, PatternNames
<1>8. \A u \in Songs : OrderList(e, u) = OrderList(d, u)  BY <1>4, <1>7, OrdersAre
<1>9. TrackList(e) = TrackList(d)  BY <1>3, OrdersAre
<1>10. SoundTracks(e) /\ SoundOrders(e)  BY <1>1, <1>3, <1>8, <1>9 DEF SoundTracks, SoundOrders
<1>11. SoundSongs(e)  BY <1>1, <1>4, <1>7, <1>8, <1>9 DEF SoundSongs
<1>12. SoundInstances(e)  BY <1>8, <1>1, <1>5 DEF Ordered, SoundInstances
<1>13. \A q : Lives(e, q) <=> Lives(d, q)  BY <1>5 DEF Lives
<1>14. SoundPatterns(e)
  <2> SUFFICES ASSUME NEW q \in Patterns
               PROVE  IF Lives(e, q) THEN e[PatternKey(q, "manifest")] # None
                      ELSE \A n \in PatternNames : e[PatternKey(q, n)] = None  BY DEF SoundPatterns
  <2> QED  BY <1>6, <1>7, <1>13, <1>1 DEF SoundPatterns
<1>15. TrackCount(e) = TrackCount(d)  BY <1>3, <1>9 DEF TrackCount, Exists
<1> QED  BY <1>2, <1>8, <1>9, <1>10, <1>11, <1>12, <1>13, <1>14, <1>15 DEF Sound

-----------------------------------------------------------------------------
\* The places of instances, the tree and the selection.

\* The tracks of a sound album, and their orders.
LEMMA OrdersOfTracks ==
    ASSUME NEW d, Sound(d)
    PROVE  /\ TrackCount(d) \in Nat
           /\ \A t \in Tracks(d) : t \in Nat /\ SongAt(d, t) \in Songs /\ SongAt(d, t) \in ToSet(TrackList(d))
                /\ OrderAt(d, t) = OrderList(d, SongAt(d, t)) /\ OrderAt(d, t) \in Seq(Instances)
                /\ Len(OrderAt(d, t)) \in Nat /\ Len(OrderAt(d, t)) # 0
           /\ \A t \in Nat : t \in Tracks(d) <=> t < TrackCount(d)
           /\ \A t, u \in Tracks(d) : SongAt(d, t) = SongAt(d, u) => t = u
<1>1. SoundTracks(d) /\ SoundOrders(d) /\ SoundSongs(d)  BY DEF Sound
<1>2. /\ TrackCount(d) \in Nat /\ DOMAIN TrackList(d) = 1..TrackCount(d)
      /\ \A t \in Tracks(d) : t \in Nat /\ t + 1 \in DOMAIN TrackList(d) /\ SongAt(d, t) = TrackList(d)[t + 1]
      /\ UsedSongs(d) = ToSet(TrackList(d)) /\ UsedSongs(d) \subseteq Songs  BY <1>1, TracksAre DEF SoundTracks
<1>3. \A t, u \in Tracks(d) : SongAt(d, t) = SongAt(d, u) => t = u
  <2> SUFFICES ASSUME NEW t \in Tracks(d), NEW u \in Tracks(d), SongAt(d, t) = SongAt(d, u) PROVE t = u  OBVIOUS
  <2> QED  BY <1>2, <1>1 DEF SoundTracks, IsInjective
<1> QED  BY <1>2, <1>3, <1>1 DEF SoundOrders, SoundSongs, UsedSongs, OrderAt, Tracks

\* A place is not None.
LEMMA PairIsThere == \A t, s \in Int : <<t, s>> # None
<1>1. \A t, s \in Int : <<t, s>> \in Seq(Int)  OBVIOUS
<1> QED  BY <1>1, AlbumAssumption

\* An instance is in one place, or in none.
LEMMA LocationIs ==
    ASSUME NEW d, Sound(d), NEW i
    PROVE  /\ Location(d, i) # None =>
                \E t \in Tracks(d) : \E s \in Systems(d, t) : Location(d, i) = <<t, s>> /\ OrderAt(d, t)[s + 1] = i
           /\ \A t \in Tracks(d) : \A s \in Systems(d, t) : OrderAt(d, t)[s + 1] = i => Location(d, i) = <<t, s>>
<1>1. \A a : a \in Places(d, i) <=>
        \E t \in Tracks(d) : \E s \in Systems(d, t) : a = <<t, s>> /\ OrderAt(d, t)[s + 1] = i  BY DEF Places
<1>2. /\ \A t \in Tracks(d) : t \in Nat /\ SongAt(d, t) \in Songs
              /\ OrderAt(d, t) = OrderList(d, SongAt(d, t)) /\ OrderAt(d, t) \in Seq(Instances)
              /\ Len(OrderAt(d, t)) \in Nat
      /\ \A t, u \in Tracks(d) : SongAt(d, t) = SongAt(d, u) => t = u  BY OrdersOfTracks
<1>3. \A t \in Tracks(d) : \A s \in Systems(d, t) : s \in Nat /\ s + 1 \in DOMAIN OrderAt(d, t)  BY <1>2 DEF Systems
<1>4. ASSUME NEW t \in Tracks(d), NEW s \in Systems(d, t), NEW u \in Tracks(d), NEW r \in Systems(d, u),
             OrderAt(d, t)[s + 1] = i, OrderAt(d, u)[r + 1] = i
      PROVE  t = u /\ s = r
  <2>1. i \in ToSet(OrderList(d, SongAt(d, t))) /\ i \in ToSet(OrderList(d, SongAt(d, u)))
    BY <1>2, <1>3, <1>4 DEF ToSet
  <2> QED  BY <1>3, <1>4, <1>2, <2>1 DEF IsInjective, SoundOrders, Sound
<1>5. ASSUME NEW a \in Places(d, i) PROVE Location(d, i) = a
  <2>1. PICK t \in Tracks(d) : \E s \in Systems(d, t) : a = <<t, s>>  BY <1>1
  <2>2. PICK s \in Systems(d, t) : a = <<t, s>>  BY <2>1
  <2> QED  BY <2>2, <1>3, <1>1, <1>4 DEF Location
<1> QED  BY <1>1, <1>5 DEF Location

\* The tree of the order list is made of the album.
Node == [song : Songs, order : Seq(Instances)]

\* The nodes show the tracks.
LEMMA NodesAre ==
    ASSUME NEW d, Sound(d)
    PROVE  /\ MakeNodes(d) \in Seq(Node) /\ DOMAIN MakeNodes(d) = 1..TrackCount(d)
           /\ \A t \in Tracks(d) : /\ t + 1 \in DOMAIN MakeNodes(d) /\ MakeNodes(d)[t + 1].song = SongAt(d, t)
                                   /\ MakeNodes(d)[t + 1].order = OrderAt(d, t)
           /\ \A t : t + 1 \in DOMAIN MakeNodes(d) /\ t \in Nat => t \in Tracks(d)
<1>1. /\ TrackCount(d) \in Nat
      /\ \A t \in Tracks(d) : t \in Nat /\ SongAt(d, t) \in Songs /\ OrderAt(d, t) \in Seq(Instances)
      /\ \A t \in Nat : t \in Tracks(d) <=> t < TrackCount(d)  BY OrdersOfTracks
<1>2. \A i \in 1..TrackCount(d) : i - 1 \in Tracks(d)  BY <1>1
<1>3. \A i \in 1..TrackCount(d) : [song |-> SongAt(d, i - 1), order |-> OrderAt(d, i - 1)] \in Node
  BY <1>1, <1>2 DEF Node
<1>4. MakeNodes(d) \in Seq(Node)
  <2> HIDE DEF Node
  <2> QED  BY <1>1, <1>3 DEF MakeNodes
<1>5. DOMAIN MakeNodes(d) = 1..TrackCount(d)  BY DEF MakeNodes
<1>6. ASSUME NEW t \in Tracks(d)
      PROVE  /\ t + 1 \in DOMAIN MakeNodes(d) /\ MakeNodes(d)[t + 1].song = SongAt(d, t)
             /\ MakeNodes(d)[t + 1].order = OrderAt(d, t)
  <2>1. t + 1 \in 1..TrackCount(d) /\ (t + 1) - 1 = t  BY <1>1
  <2> QED  BY <2>1 DEF MakeNodes
<1>7. \A t : t + 1 \in DOMAIN MakeNodes(d) /\ t \in Nat => t \in Tracks(d)  BY <1>1, <1>5
<1> QED  BY <1>4, <1>5, <1>6, <1>7

\* The tree depends on tracks and orders only.
LEMMA SameNodes ==
    ASSUME NEW d, Sound(d), NEW e, TrackCount(e) = TrackCount(d), TrackList(e) = TrackList(d),
           \A u \in Songs : OrderList(e, u) = OrderList(d, u)
    PROVE  /\ MakeNodes(e) = MakeNodes(d) /\ Tracks(e) = Tracks(d)
           /\ \A t \in Tracks(d) : OrderAt(e, t) = OrderAt(d, t)
<1>1. /\ TrackCount(d) \in Nat
      /\ \A t \in Tracks(d) : t \in Nat /\ SongAt(d, t) \in Songs
      /\ \A t \in Nat : t \in Tracks(d) <=> t < TrackCount(d)  BY OrdersOfTracks
<1> QED  BY <1>1 DEF MakeNodes, Tracks, OrderAt, SongAt

\* Orderlist._update_model clamps the selection to the album.
SelectionType(sel) == sel = None \/ sel \in Nat \X Int

\* The clamped selection is in the album, and an instance just made keeps it.
LEMMA FixedIs ==
    ASSUME Sound(store), SelectionType(selection)
    PROVE  /\ FixedSelection # None =>
                \E t \in Tracks(store) : \E s \in Systems(store, t) : FixedSelection = <<t, s>>
           /\ selection # None /\ selection[1] \in Tracks(store) /\ selection[2] \in Nat =>
                FixedSelection = <<selection[1], Smaller(selection[2], Len(OrderAt(store, selection[1])) - 1)>>
<1> DEFINE last == TrackCount(store) - 1
           t == Smaller(selection[1], last)
           wanted == IF selection[1] > last THEN 0 ELSE selection[2]
           s == Smaller(wanted, Len(OrderAt(store, t)) - 1)
<1>1. FixedSelection = IF selection = None \/ last < 0 \/ s < 0 THEN None ELSE <<t, s>>  BY DEF FixedSelection
<1>2. /\ TrackCount(store) \in Nat
      /\ \A u \in Tracks(store) : u \in Nat /\ Len(OrderAt(store, u)) \in Nat /\ Len(OrderAt(store, u)) # 0
      /\ \A u \in Nat : u \in Tracks(store) <=> u < TrackCount(store)  BY OrdersOfTracks
<1>3. ASSUME selection # None, ~(last < 0) PROVE t \in Tracks(store) /\ wanted \in Int
  BY <1>3, <1>2 DEF SelectionType, Smaller
<1>4. ASSUME selection # None, ~(last < 0), ~(s < 0) PROVE s \in Systems(store, t)
  BY <1>4, <1>2, <1>3 DEF Systems, Smaller
<1>5. ASSUME selection # None, selection[1] \in Tracks(store), selection[2] \in Nat
      PROVE  FixedSelection = <<selection[1], Smaller(selection[2], Len(OrderAt(store, selection[1])) - 1)>>
  BY <1>2, <1>5, <1>1 DEF Smaller
<1> QED  BY <1>5, <1>1, <1>3, <1>4

-----------------------------------------------------------------------------
\* What every handler does.

\* What a handler needs to know of the state.
ListType ==
    /\ tree \in Seq(Node) /\ (current # None => InTree(current))
    /\ SelectionType(selection) /\ track \in Nat
FlagsType ==
    /\ signals \subseteq {"order list", "song", "order list selection", "order list updated"}
    /\ waiting \in BOOLEAN /\ device \in {"key", "mouse"}
    /\ failed \in {None, "location", "full"}

\* The selection is where the instance will be found after the clamping.
Points(d, sel, i) ==
    /\ sel # None /\ sel[1] \in Tracks(d) /\ sel[2] \in Nat
    /\ OrderAt(d, sel[1])[Smaller(sel[2], Len(OrderAt(d, sel[1])) - 1) + 1] = i
Shown == Made(done) => Points(store, selection, done[2])

AlbumInv == Sound(store) /\ ListType /\ FlagsType /\ Shown

Rearranged(d, e, x) ==
    /\ \A i : Ordered(e, i) <=> Ordered(d, i)
    /\ \A u \in Songs : SameOrder(OrderList(d, u), OrderList(e, u), x)

\* What every handler that changes the album does.
AlbumChange ==
    /\ Sound(store') /\ TriggersKept(store, store') /\ SelectionType(selection')
    /\ signals' = signals \union {"order list"} /\ waiting' \in BOOLEAN /\ (device' = "key" => waiting')
    /\ Moves(done') => Rearranged(store, store', done'[2])
    /\ Shown'
    /\ UNCHANGED <<track, tree, current, buttons, failed>>

\* A handler that puts a sound album.
LEMMA ChangesIs ==
    ASSUME waiting \in BOOLEAN, NEW d, Sound(d), TriggersKept(store, d), NEW sel, SelectionType(sel),
           NEW what, NEW wait \in BOOLEAN, Changes(d, sel, what, wait), device' = "key" => wait,
           Moves(what) => Rearranged(store, d, what[2]), Made(what) => Points(d, sel, what[2])
    PROVE  AlbumChange
<1>1. store' = d /\ selection' = sel /\ done' = what /\ signals' = signals \union {"order list"}
      /\ UNCHANGED <<track, tree, current, buttons, failed>>  BY DEF Changes
<1>2. Shown'  BY <1>1 DEF Shown, Points, Made, Tracks, TrackCount, TrackList, OrderAt, OrderList, SongAt
<1> QED  BY <1>1, <1>2 DEF AlbumChange, Changes

\* What the current row stands for.
LEMMA RowIs ==
    ASSUME ListType, current # None
    PROVE  /\ current[1] \in Nat /\ current[1] + 1 \in DOMAIN tree
           /\ IsPattern(current) => /\ NodePattern(current) \in Instances /\ SelectedObject = NodePattern(current)
                                    /\ current[2] \in Nat /\ current[2] + 1 \in DOMAIN tree[current[1] + 1].order
           /\ ~IsPattern(current) => IsSong(current) /\ SelectedObject = <<tree[current[1] + 1].song>>
<1>1. InTree(current) /\ tree \in Seq(Node)  BY DEF ListType
<1>2. current \in Seq(Nat) /\ (Len(current) = 1 \/ Len(current) = 2) /\ current[1] + 1 \in DOMAIN tree
      /\ (IsPattern(current) => current[2] + 1 \in DOMAIN tree[current[1] + 1].order)
  BY <1>1 DEF InTree, IsSong, IsPattern
<1>3. tree[current[1] + 1] \in Node  BY <1>1, <1>2
<1>4. IsPattern(current) => NodePattern(current) \in Instances  BY <1>2, <1>3 DEF NodePattern, Node
<1>5. IsPattern(current) => SelectedObject = NodePattern(current)  BY DEF IsSong, IsPattern, SelectedObject
<1>6. ~IsPattern(current) => IsSong(current)  BY <1>1 DEF InTree
<1>7. IsSong(current) => ~IsPattern(current)  BY DEF IsSong, IsPattern
<1>8. ~IsPattern(current) => SelectedObject = <<tree[current[1] + 1].song>>  BY <1>6 DEF SelectedObject
<1> QED  BY <1>2, <1>4, <1>5, <1>6, <1>8 DEF IsPattern

\* What the row stands for is nowhere in the album.
Lost ==
    /\ current # None
    /\ IF IsPattern(current) THEN Located = None ELSE current[1] >= TrackCount(store)

\* An instance that is found is where it is found.
LEMMA LocatedIs ==
    ASSUME Sound(store), Located # None
    PROVE  \E t \in Tracks(store) : \E s \in Systems(store, t) :
               /\ Located = <<t, s>> /\ OrderAt(store, t)[s + 1] = NodePattern(current)
               /\ t \in Nat /\ s \in Nat /\ SongAt(store, t) \in Songs /\ s < Len(OrderList(store, SongAt(store, t)))
               /\ OrderAt(store, t) = OrderList(store, SongAt(store, t))
               /\ NodePattern(current) \in Instances
<1>1. PICK t \in Tracks(store) : \E s \in Systems(store, t) :
          Located = <<t, s>> /\ OrderAt(store, t)[s + 1] = NodePattern(current)  BY LocationIs DEF Located
<1>2. PICK s \in Systems(store, t) : Located = <<t, s>> /\ OrderAt(store, t)[s + 1] = NodePattern(current)  BY <1>1
<1> QED  BY <1>2, OrdersOfTracks DEF Systems

----------------------------------------------------------------------------
\* The handlers one by one.

Effect == AlbumChange \/ Raises("full") \/ (Raises("location") /\ Lost)

\* Inserting a new instance, or none without a free number.
LEMMA InsertAtRowIs ==
    ASSUME AlbumInv, NEW t \in Tracks(store), NEW s \in Nat, NEW pinst,
           pinst[1] # None /\ pinst[2] # None => pinst \in Instances /\ ~Ordered(store, pinst),
           NEW wait \in BOOLEAN, device' = "key" => wait, InsertAtRow(<<t, s>>, pinst, wait)
    PROVE  AlbumChange \/ Raises("full")
<1>1. CASE pinst[1] = None \/ pinst[2] = None  BY <1>1 DEF InsertAtRow
<1>2. CASE ~(pinst[1] = None \/ pinst[2] = None)
  <2> DEFINE d == InsertPatternInstance(store, t, s, pinst)
             song == SongAt(store, t)
             sel == <<t, s>>
  <2>1. /\ Sound(store) /\ waiting \in BOOLEAN /\ pinst \in Instances /\ ~Ordered(store, pinst)
    BY <1>2 DEF AlbumInv, FlagsType
  <2>2. Changes(d, sel, <<"made", pinst>>, wait)  BY <1>2 DEF InsertAtRow
  <2>3. /\ Sound(d) /\ TriggersKept(store, d) /\ TrackList(d) = TrackList(store) /\ song \in Songs
        /\ Len(OrderList(d, song)) = Len(OrderList(store, song)) + 1
        /\ OrderList(d, song)[Smaller(s, Len(OrderList(store, song))) + 1] = pinst  BY <2>1, InsertIsSound
  <2> HIDE DEF d
  <2>4. TrackCount(d) = TrackCount(store) /\ SongAt(d, t) = song
    <3>1. /\ TrackCount(d) = Len(TrackList(d)) /\ TrackCount(store) = Len(TrackList(store))
      BY <2>1, <2>3, TracksAre DEF Sound, SoundTracks
    <3> QED  BY <3>1, <2>3 DEF SongAt
  <2>5. t \in Nat /\ t \in Tracks(d)  BY <2>1, <2>4, OrdersOfTracks DEF Tracks
  <2>6. OrderAt(d, t)[Smaller(s, Len(OrderAt(d, t)) - 1) + 1] = pinst
    <3>1. OrderAt(d, t) = OrderList(d, song)  BY <2>4 DEF OrderAt
    <3>2. Len(OrderList(store, song)) \in Nat  BY <2>1, OrdersOfTracks
    <3>3. Len(OrderAt(d, t)) - 1 = Len(OrderList(store, song))  BY <2>3, <3>1, <3>2
    <3> QED  BY <2>3, <3>1, <3>3
  <2>7. SelectionType(sel)  BY <2>5 DEF SelectionType
  <2>8. Points(d, sel, pinst)
    <3>1. sel # None  BY <2>5, PairIsThere
    <3> QED  BY <2>5, <2>6, <3>1 DEF Points
  <2> HIDE DEF sel
  <2>9. ~Moves(<<"made", pinst>>) /\ <<"made", pinst>>[2] = pinst  BY DEF Moves
  <2>10. AlbumChange  BY <2>1, <2>2, <2>3, <2>7, <2>8, <2>9, ChangesIs
  <2> QED  BY <2>10
<1> QED  BY <1>1, <1>2

\* Insert and the button for new patterns.
LEMMA NewAfterIs ==
    ASSUME AlbumInv, NEW where, NEW wait \in BOOLEAN, device' = "key" => wait, NewAfter(where, wait),
           where = None => Lost,
           where # None => \E t \in Tracks(store) : \E s \in Nat : where = <<t, s>>
    PROVE  Effect
<1>1. CASE where = None  BY <1>1 DEF NewAfter, Effect
<1>2. CASE where # None
  <2>1. PICK t \in Tracks(store) : \E s \in Nat : where = <<t, s>>  BY <1>2
  <2>2. PICK s \in Nat : where = <<t, s>>  BY <2>1
  <2> DEFINE pinst == <<NewPattern(store), 0>>
  <2>3. InsertAtRow(<<t, s + 1>>, pinst, wait)  BY <1>2, <2>2 DEF NewAfter
  <2>4. pinst[1] # None /\ pinst[2] # None => pinst \in Instances /\ ~Ordered(store, pinst)
    BY NumbersAreFree, AlbumAssumption DEF AlbumInv, Instances
  <2> HIDE DEF pinst
  <2> QED  BY <2>3, <2>4, InsertAtRowIs DEF Effect
<1> QED  BY <1>1, <1>2

\* Reusing a pattern.
LEMMA ReuseIs ==
    ASSUME AlbumInv, IsPattern(current), NEW wait \in BOOLEAN, device' = "key" => wait, Reuse(wait)
    PROVE  Effect
<1> DEFINE p == NodePattern(current)[1]
           pinst == <<p, NewInstance(store, p)>>
<1>1. Sound(store)  BY DEF AlbumInv
<1>2. CASE Located = None  BY <1>2 DEF Reuse, Lost, IsPattern, Effect
<1>3. CASE Located # None
  <2>1. PICK t \in Tracks(store) : \E s \in Systems(store, t) :
            Located = <<t, s>> /\ s \in Nat /\ NodePattern(current) \in Instances  BY <1>1, <1>3, LocatedIs
  <2>2. PICK s \in Systems(store, t) : Located = <<t, s>> /\ s \in Nat /\ NodePattern(current) \in Instances  BY <2>1
  <2>3. InsertAtRow(<<t, s + 1>>, pinst, wait)  BY <1>3, <2>2 DEF Reuse
  <2>4. pinst[1] # None /\ pinst[2] # None => pinst \in Instances /\ ~Ordered(store, pinst)
    BY <1>1, NumbersAreFree, <2>2, InstanceIs DEF Instances
  <2> HIDE DEF pinst
  <2> QED  BY <2>3, <2>4, InsertAtRowIs, <2>2 DEF Effect
<1> QED  BY <1>2, <1>3

\* Removing the selected instance.
LEMMA RemoveSelectedIs ==
    ASSUME AlbumInv, IsPattern(current), NEW wait \in BOOLEAN, device' = "key" => wait, RemoveSelected(wait)
    PROVE  Effect
<1>1. Sound(store) /\ waiting \in BOOLEAN  BY DEF AlbumInv, FlagsType
<1>2. CASE Located = None  BY <1>2 DEF RemoveSelected, Lost, IsPattern, Effect
<1>3. CASE Located # None
  <2>1. PICK t \in Tracks(store) : \E s \in Systems(store, t) :
            /\ Located = <<t, s>> /\ t \in Nat /\ s \in Nat /\ SongAt(store, t) \in Songs
            /\ s < Len(OrderList(store, SongAt(store, t)))  BY <1>1, <1>3, LocatedIs
  <2>2. PICK s \in Systems(store, t) :
            /\ Located = <<t, s>> /\ t \in Nat /\ s \in Nat /\ SongAt(store, t) \in Songs
            /\ s < Len(OrderList(store, SongAt(store, t)))  BY <2>1
  <2> DEFINE song == SongAt(store, t)
             d == RemovePatternInstance(store, t, s)
             sel == <<t, Smaller(s, SystemCount(d, song) - 1)>>
  <2>3. Changes(d, sel, <<"removed">>, wait)  BY <1>3, <2>2 DEF RemoveSelected
  <2>4. Sound(d) /\ TriggersKept(store, d)  BY <1>1, <2>2, RemoveIsSound
  <2> HIDE DEF d
  <2>5. SelectionType(sel)  BY <2>2, <2>4 DEF Sound, SoundOrders, SystemCount, Smaller, SelectionType
  <2> HIDE DEF sel
  <2> QED  BY <1>1, <2>3, <2>4, <2>5, ChangesIs DEF Effect, Moves, Made
<1> QED  BY <1>2, <1>3

\* Both ways to move an instance.
LEMMA MoveInstanceIs ==
    ASSUME AlbumInv, IsPattern(current), NEW t \in Tracks(store), NEW s \in Nat,
           s < Len(OrderList(store, SongAt(store, t))),
           OrderList(store, SongAt(store, t))[s + 1] = NodePattern(current),
           NEW u \in Tracks(store), NEW to \in Nat, NEW sel, SelectionType(sel),
           NEW wait \in BOOLEAN, device' = "key" => wait,
           Changes(MovePatternInstance(store, t, s, u, to), sel, <<"moved", SelectedObject>>, wait)
    PROVE  AlbumChange
<1> DEFINE d == MovePatternInstance(store, t, s, u, to)
           x == NodePattern(current)
<1>1. Sound(store) /\ waiting \in BOOLEAN /\ ListType  BY DEF AlbumInv, FlagsType
<1>2. SelectedObject = x  BY <1>1, RowIs DEF IsPattern
<1>3. /\ Sound(d) /\ TriggersKept(store, d) /\ \A i : Ordered(d, i) <=> Ordered(store, i)
      /\ \A v \in Songs : SameOrder(OrderList(store, v), OrderList(d, v), x)
  BY <1>1, MoveWithinIsSound, MoveAcrossIsSound
<1> HIDE DEF d, x
<1> QED  BY <1>1, <1>3, ChangesIs, <1>2 DEF d, Rearranged, Made

\* When a handler can run at all.
Handles == failed = None /\ (Fresh \/ Impatient \/ (device = "key" /\ ~waiting)) /\ device' \in {"key", "mouse"}

\* The guards of the handlers.
LEMMA KeysAndMouse ==
    /\ Key => Handles /\ device' = "key"
    /\ Can("mouse") => Handles /\ device' = "mouse"
    /\ \A b : Click(b) => Handles /\ device' = "mouse"
BY DEF Key, Can, Click, Handles

LEMMA LocatedRow ==
    ASSUME AlbumInv, Located # None
    PROVE  \E t \in Tracks(store) : \E s \in Nat : Located = <<t, s>>
BY LocatedIs DEF AlbumInv

LEMMA LostPattern == ASSUME IsPattern(current), Located = None PROVE Lost
BY DEF Lost, IsPattern

\* The handlers of the keys.
LEMMA KeyHandlers ==
    ASSUME AlbumInv, KeyInsert \/ KeyReuse \/ KeyDelete \/ KeyMove
    PROVE  Handles /\ Effect
<1>1. CASE KeyInsert  BY <1>1, KeysAndMouse, LocatedRow, LostPattern, NewAfterIs DEF KeyInsert
<1>2. CASE KeyReuse  BY <1>2, KeysAndMouse, ReuseIs DEF KeyReuse
<1>3. CASE KeyDelete  BY <1>3, KeysAndMouse, RemoveSelectedIs DEF KeyDelete
<1>4. CASE KeyMove
  <2>1. Handles /\ IsPattern(current)  BY <1>4, KeysAndMouse DEF KeyMove
  <2>2. CASE Located = None  BY <1>4, <2>2, <2>1, LostPattern DEF KeyMove, Effect
  <2>3. CASE Located # None
    <3>1. PICK t \in Tracks(store) : \E s \in Systems(store, t) :
              /\ Located = <<t, s>> /\ OrderAt(store, t)[s + 1] = NodePattern(current)
              /\ t \in Nat /\ s \in Nat /\ s < Len(OrderList(store, SongAt(store, t)))
              /\ OrderAt(store, t) = OrderList(store, SongAt(store, t))  BY <2>3, LocatedIs DEF AlbumInv
    <3>2. PICK s \in Systems(store, t) :
              /\ Located = <<t, s>> /\ OrderAt(store, t)[s + 1] = NodePattern(current)
              /\ t \in Nat /\ s \in Nat /\ s < Len(OrderList(store, SongAt(store, t)))
              /\ OrderAt(store, t) = OrderList(store, SongAt(store, t))  BY <3>1
    <3>3. PICK offset \in {-1, 1} :
              /\ s + offset \in 0..(Len(OrderAt(store, t)) - 1)
              /\ Changes(MovePatternInstance(store, t, s, t, s + offset), <<t, s + offset>>,
                         <<"moved", SelectedObject>>, TRUE)  BY <1>4, <2>3, <3>2 DEF KeyMove
    <3>4. s + offset \in Nat  BY <3>3
    <3> DEFINE to == s + offset
               sel == <<t, to>>
    <3>5. SelectionType(sel)  BY <3>2, <3>4 DEF SelectionType
    <3>6. Changes(MovePatternInstance(store, t, s, t, to), sel, <<"moved", SelectedObject>>, TRUE)  BY <3>3
    <3>7. to \in Nat  BY <3>4
    <3> HIDE DEF to, sel
    <3> QED  BY <2>1, <3>2, <3>5, <3>6, <3>7, MoveInstanceIs DEF Effect
  <2> QED  BY <2>2, <2>3
<1> QED  BY <1>1, <1>2, <1>3, <1>4

\* The handlers of the tool bar.
LEMMA ToolBarHandlers ==
    ASSUME AlbumInv, AddPattern \/ RemoveClicked \/ ReuseClicked \/ AddSong \/ RemoveSongClicked
    PROVE  Handles /\ Effect
<1>1. Sound(store) /\ waiting \in BOOLEAN /\ ListType /\ SelectionType(selection)
  BY DEF AlbumInv, FlagsType, ListType
<1>2. /\ TrackCount(store) \in Nat
      /\ \A t \in Tracks(store) : t \in Nat /\ Len(OrderAt(store, t)) \in Nat
      /\ \A t \in Nat : t \in Tracks(store) <=> t < TrackCount(store)  BY <1>1, OrdersOfTracks
<1>3. CASE AddPattern
  <2> DEFINE where == IF IsPattern(current) THEN Located
                      ELSE IF current[1] < TrackCount(store) THEN <<current[1], Len(OrderAt(store, current[1]))>>
                      ELSE None
  <2>1. Handles /\ device' = "mouse" /\ current # None /\ NewAfter(where, FALSE)  BY <1>3, KeysAndMouse DEF AddPattern
  <2>2. current[1] \in Nat  BY <1>1, <2>1, RowIs
  <2>3. /\ where = None => Lost
        /\ where # None => \E t \in Tracks(store) : \E s \in Nat : where = <<t, s>>
    BY LocatedRow, LostPattern, PairIsThere, <1>2, <2>2, <2>1 DEF Lost
  <2> HIDE DEF where
  <2> QED  BY <2>1, <2>3, NewAfterIs
<1>4. CASE RemoveClicked  BY <1>4, KeysAndMouse, RemoveSelectedIs DEF RemoveClicked
<1>5. CASE ReuseClicked  BY <1>5, KeysAndMouse, ReuseIs DEF ReuseClicked
<1>6. CASE AddSong
  <2> DEFINE at == IF IsSong(current) THEN current[1] + 1 ELSE TrackCount(store) + 1
             d == InsertSong(store, at)
  <2>1. Handles /\ device' = "mouse" /\ Changes(d, selection, <<"added">>, FALSE)  BY <1>6, KeysAndMouse DEF AddSong
  <2>2. at \in Nat  BY <1>1, RowIs, <1>2 DEF IsSong
  <2> HIDE DEF at
  <2>3. Sound(d) /\ TriggersKept(store, d)  BY <1>1, <2>2, AddedSongIsSound
  <2> HIDE DEF d
  <2> QED  BY <2>1, <1>1, <2>3, ChangesIs DEF Effect, Moves, Made
<1>7. CASE RemoveSongClicked
  <2>1. Handles /\ device' = "mouse" /\ IsSong(current)  BY <1>7, KeysAndMouse DEF RemoveSongClicked
  <2>2. current[1] \in Nat  BY <1>1, <2>1, RowIs DEF IsSong
  <2>3. CASE current[1] < TrackCount(store)
    <3> DEFINE d == RemoveSong(store, current[1])
    <3>1. Changes(d, selection, <<"removed">>, FALSE)  BY <1>7, <2>3 DEF RemoveSongClicked
    <3>2. Sound(d) /\ TriggersKept(store, d)  BY <1>1, RemoveSongIsSound, <2>2, <2>3, <1>2
    <3> HIDE DEF d
    <3> QED  BY <2>1, <1>1, <3>1, <3>2, ChangesIs DEF Effect, Moves, Made
  <2>4. CASE ~(current[1] < TrackCount(store))
    <3>1. Lost  BY <2>2, <2>4, <1>2, <2>1 DEF Lost, IsSong, IsPattern
    <3> QED  BY <2>1, <3>1, <1>7, <2>4 DEF Effect, RemoveSongClicked
  <2> QED  BY <2>3, <2>4
<1> QED  BY <1>3, <1>4, <1>5, <1>6, <1>7

\* Drops, and the name of a song.
LEMMA DropHandlers ==
    ASSUME AlbumInv, DropSong \/ DropPattern \/ Rename
    PROVE  Handles /\ Effect
<1>1. Sound(store) /\ waiting \in BOOLEAN /\ ListType /\ SelectionType(selection)
  BY DEF AlbumInv, FlagsType, ListType
<1>2. /\ TrackCount(store) \in Nat
      /\ \A t \in Tracks(store) : t \in Nat /\ Len(OrderAt(store, t)) \in Nat /\ SongAt(store, t) \in ToSet(TrackList(store))
      /\ \A t \in Nat : t \in Tracks(store) <=> t < TrackCount(store)  BY <1>1, OrdersOfTracks
<1>3. CASE DropSong
  <2>1. PICK to \in 0..TrackCount(store) :
            /\ Can("mouse") /\ IsSong(current)
            /\ IF current[1] >= TrackCount(store) THEN Raises("location")
               ELSE Changes(MoveSong(store, current[1], to), selection, <<"moved", SelectedObject>>, FALSE)
    BY <1>3 DEF DropSong
  <2>2. Handles /\ device' = "mouse" /\ to \in Nat  BY <2>1, <1>2, KeysAndMouse
  <2>3. CASE current[1] >= TrackCount(store)  BY <2>1, <2>3, <2>2 DEF IsSong, IsPattern, Lost, Effect
  <2>4. CASE ~(current[1] >= TrackCount(store))
    <3> DEFINE d == MoveSong(store, current[1], to)
    <3>1. /\ Sound(d) /\ TriggersKept(store, d) /\ \A i : Ordered(d, i) <=> Ordered(store, i)
          /\ \A u \in Songs : OrderList(d, u) = OrderList(store, u)
      BY <1>1, <2>2, MoveSongIsSound, <2>4, <1>2, <2>1, RowIs DEF IsSong
    <3>2. Changes(d, selection, <<"moved", SelectedObject>>, FALSE)  BY <2>1, <2>4
    <3> HIDE DEF d
    <3> QED  BY <2>2, <1>1, <3>1, <3>2, ChangesIs DEF Effect, Rearranged, SameOrder, Made
  <2> QED  BY <2>3, <2>4
<1>4. CASE DropPattern
  <2>1. PICK to \in Tracks(store) : \E system \in 0..Len(OrderAt(store, to)) :
            /\ Can("mouse") /\ IsPattern(current)
            /\ IF Located = None THEN Raises("location")
               ELSE Changes(MovePatternInstance(store, Located[1], Located[2], to, system), selection,
                            <<"moved", SelectedObject>>, FALSE)  BY <1>4 DEF DropPattern
  <2>2. PICK system \in 0..Len(OrderAt(store, to)) :
            /\ Can("mouse") /\ IsPattern(current)
            /\ IF Located = None THEN Raises("location")
               ELSE Changes(MovePatternInstance(store, Located[1], Located[2], to, system), selection,
                            <<"moved", SelectedObject>>, FALSE)  BY <2>1
  <2>3. Handles /\ device' = "mouse" /\ system \in Nat  BY <2>2, <1>2, KeysAndMouse
  <2>4. CASE Located = None  BY <2>2, <2>4, LostPattern, <2>3 DEF Effect
  <2>5. CASE Located # None
    <3>1. PICK t \in Tracks(store) : \E s \in Systems(store, t) :
              /\ Located = <<t, s>> /\ OrderAt(store, t)[s + 1] = NodePattern(current)
              /\ s \in Nat /\ s < Len(OrderList(store, SongAt(store, t)))
              /\ OrderAt(store, t) = OrderList(store, SongAt(store, t))  BY <2>5, <1>1, LocatedIs
    <3>2. PICK s \in Systems(store, t) :
              /\ Located = <<t, s>> /\ OrderAt(store, t)[s + 1] = NodePattern(current)
              /\ s \in Nat /\ s < Len(OrderList(store, SongAt(store, t)))
              /\ OrderAt(store, t) = OrderList(store, SongAt(store, t))  BY <3>1
    <3> QED  BY <2>3, <1>1, <2>2, <3>2, MoveInstanceIs, <2>5 DEF Effect
  <2> QED  BY <2>4, <2>5
<1>5. CASE Rename
  <2> DEFINE song == SongAt(store, SelectedTrack)
             d == Put(store, Change(SongKey(song, "name"), "name"))
  <2>1. Handles /\ device' = "mouse" /\ SelectedTrack >= 0 /\ Changes(d, selection, <<"edited">>, FALSE)
    BY <1>5, KeysAndMouse DEF Rename, SongKey
  <2>2. song \in ToSet(TrackList(store))  BY <1>1, <2>1, <1>2 DEF ListType, SelectedTrack, Smaller
  <2> HIDE DEF song
  <2>3. Sound(d) /\ TriggersKept(store, d)  BY <1>1, <2>2, NamedIsSound
  <2> HIDE DEF d
  <2> QED  BY <2>1, <1>1, <2>3, ChangesIs DEF Effect, Moves, Made
<1> QED  BY <1>3, <1>4, <1>5

\* Selecting a row.
Selects ==
    /\ InTree(current)' /\ track' \in Nat /\ signals' = signals \union {"song", "order list selection"}
    /\ UNCHANGED <<store, selection, tree, waiting, buttons, done, failed>>

LEMMA SelectIs == ASSUME ListType, SelectRow PROVE Handles /\ Selects
<1>1. PICK t \in DOMAIN tree : Select(<<t - 1>>) \/ \E s \in DOMAIN tree[t].order : Select(<<t - 1, s - 1>>)
  BY DEF SelectRow
<1>2. t \in Nat /\ t - 1 \in Nat /\ (t - 1) + 1 = t /\ tree[t] \in Node  BY DEF ListType
<1>3. CASE Select(<<t - 1>>)
  <2>1. current' = <<t - 1>> /\ track' = t - 1 /\ UNCHANGED tree  BY <1>3 DEF Select
  <2>2. <<t - 1>> \in Seq(Nat) /\ <<t - 1>> \in Seq(Int) /\ Len(<<t - 1>>) = 1 /\ <<t - 1>>[1] = t - 1  BY <1>2
  <2>3. <<t - 1>> # None  BY <2>2, AlbumAssumption
  <2>4. InTree(current)'  BY <1>2, <2>1, <2>2, <2>3 DEF InTree, IsSong, IsPattern
  <2> QED  BY <1>2, <1>3, <2>1, <2>4, KeysAndMouse DEF Select, Selects
<1>4. CASE \E s \in DOMAIN tree[t].order : Select(<<t - 1, s - 1>>)
  <2>1. PICK s \in DOMAIN tree[t].order : Select(<<t - 1, s - 1>>)  BY <1>4
  <2>2. s \in Nat /\ s - 1 \in Nat /\ (s - 1) + 1 = s  BY <1>2 DEF Node
  <2> DEFINE row == <<t - 1, s - 1>>
  <2>3. current' = row /\ track' = row[1] /\ UNCHANGED tree  BY <2>1 DEF Select
  <2>4. row \in Seq(Nat) /\ Len(row) = 2 /\ row[1] = t - 1 /\ row[2] = s - 1  BY <1>2, <2>2
  <2> HIDE DEF row
  <2>5. InTree(current)'  BY <1>2, <2>2, <2>3, <2>4, PairIsThere DEF InTree, IsSong, IsPattern
  <2> QED  BY <1>2, <2>1, <2>3, <2>4, <2>5, KeysAndMouse DEF Select, Selects
<1> QED  BY <1>1, <1>3, <1>4

\* Found is what is in an order list.
LEMMA LocatedIffOrdered == ASSUME NEW d, Sound(d), NEW i PROVE Location(d, i) # None <=> Ordered(d, i)
<1>1. \A j : j \in UsedInstances(d) <=> Ordered(d, j)  BY UsedAre DEF SongNames, SoundSongs, Sound
<1>2. \A t \in Tracks(d) : t \in Nat /\ OrderAt(d, t) \in Seq(Instances)  BY OrdersOfTracks
<1>3. \A o \in Seq(Instances) : \A x : x \in ToSet(o) <=> \E s \in 0..(Len(o) - 1) : o[s + 1] = x
  <2> SUFFICES ASSUME NEW o \in Seq(Instances), NEW x
               PROVE  x \in ToSet(o) <=> \E s \in 0..(Len(o) - 1) : o[s + 1] = x  OBVIOUS
  <2>1. Len(o) \in Nat /\ DOMAIN o = 1..Len(o)  OBVIOUS
  <2>2. \A n \in DOMAIN o : n - 1 \in 0..(Len(o) - 1) /\ (n - 1) + 1 = n  BY <2>1
  <2>3. \A s \in 0..(Len(o) - 1) : s + 1 \in DOMAIN o  BY <2>1
  <2> QED  BY <2>2, <2>3 DEF ToSet
<1>4. ASSUME Location(d, i) # None PROVE Ordered(d, i)
  BY <1>4, LocationIs, <1>2, <1>3, <1>1 DEF Systems, UsedInstances
<1>5. ASSUME Ordered(d, i) PROVE Location(d, i) # None
  <2>1. PICK t \in Tracks(d) : i \in ToSet(OrderAt(d, t))  BY <1>1, <1>5 DEF UsedInstances
  <2>2. PICK s \in Systems(d, t) : OrderAt(d, t)[s + 1] = i  BY <2>1, <1>2, <1>3 DEF Systems
  <2>3. s \in Int /\ t \in Int  BY OrdersOfTracks, <1>2 DEF Systems
  <2> QED  BY <2>2, <2>3, LocationIs, PairIsThere
<1> QED  BY <1>4, <1>5

\* Editing a pattern: the album stays as it is.
Edits ==
    /\ Sound(store') /\ TrackCount(store') = TrackCount(store) /\ TrackList(store') = TrackList(store)
    /\ \A u \in Songs : OrderList(store', u) = OrderList(store, u)
    /\ \A q : Lives(store', q) <=> Lives(store, q)
    /\ done' = <<"edited">>
    /\ UNCHANGED <<selection, track, tree, current, waiting, buttons, signals, failed>>

LEMMA EditIs == ASSUME Sound(store), Edit PROVE Handles /\ Edits
<1>1. PICK pinst \in UsedInstances(store) :
          /\ Can("mouse")
          /\ \/ store' = Put(store, Change(PatternKey(pinst[1], "triggers"), "triggers"))
             \/ \E g \in Grids : store' = Put(store, Change(PatternKey(pinst[1], "grid"), g))
          /\ done' = <<"edited">>
          /\ UNCHANGED <<selection, track, tree, current, waiting, buttons, signals, failed>>  BY DEF Edit
<1>2. SoundTracks(store) /\ SoundOrders(store) /\ SoundSongs(store) /\ SoundInstances(store)  BY DEF Sound
<1>3. Ordered(store, pinst)  BY <1>2, UsedAre DEF SongNames, SoundSongs
<1>4. pinst \in Instances
  <2>1. PICK s \in Songs : pinst \in ToSet(OrderList(store, s))  BY <1>3 DEF Ordered
  <2> QED  BY <2>1, <1>2 DEF ToSet, SoundOrders
<1>5. pinst[1] \in Patterns /\ Lives(store, pinst[1])  BY <1>2, <1>3, <1>4, InstanceIs DEF SoundInstances, Lives
<1> QED  BY <1>1, KeysAndMouse, <1>5, EditedIsSound DEF Edits

-----------------------------------------------------------------------------
\* The invariant.

\* Every step is a handler with one of these effects, or the update.
LEMMA StepIs ==
    ASSUME AlbumInv, Next
    PROVE  (Handles /\ (Effect \/ Selects \/ Edits)) \/ Tick
BY KeyHandlers, ToolBarHandlers, DropHandlers, SelectIs, EditIs DEF AlbumInv, Next

\* The row the update selects is in the tree it makes.
LEMMA UpdatedRow ==
    ASSUME Sound(store), SelectionType(selection), FixedSelection # None, UpdateModel
    PROVE  InTree(current)'
<1>1. PICK t \in Tracks(store) : \E s \in Systems(store, t) : FixedSelection = <<t, s>>  BY FixedIs
<1>2. PICK s \in Systems(store, t) : FixedSelection = <<t, s>>  BY <1>1
<1> DEFINE row == <<t, s>>
<1>3. t \in Nat /\ OrderAt(store, t) \in Seq(Instances)  BY OrdersOfTracks
<1>4. s \in Nat /\ s + 1 \in DOMAIN OrderAt(store, t)  BY <1>3 DEF Systems
<1>5. current' = row /\ tree' = MakeNodes(store)  BY <1>2 DEF UpdateModel
<1>6. row \in Seq(Nat) /\ Len(row) = 2 /\ row[1] = t /\ row[2] = s  BY <1>3, <1>4
<1> HIDE DEF row
<1> QED  BY <1>4, <1>5, <1>6, NodesAre, <1>3, PairIsThere DEF InTree, IsPattern, IsSong

\* The invariant is kept by the update, holds at first, and is kept by the
\* handlers.
LEMMA TickKeeps == ASSUME AlbumInv, Tick PROVE AlbumInv'
<1>1. Sound(store) /\ ListType /\ FlagsType /\ SelectionType(selection)  BY DEF AlbumInv, ListType
<1>2. UNCHANGED <<store, track, device, failed>> /\ done' = None  BY DEF Tick
<1>3. Shown'  BY <1>2 DEF Shown, Made
<1>4. CASE ~Fresh /\ UpdateModel
  <2>1. tree' = MakeNodes(store) /\ current' = FixedSelection /\ selection' = FixedSelection
        /\ waiting' = FALSE /\ signals' = {"order list updated"}  BY <1>4 DEF UpdateModel
  <2>2. SelectionType(selection')
    <3>1. SelectionType(FixedSelection)
      <4>1. CASE FixedSelection = None  BY <4>1 DEF SelectionType
      <4>2. CASE FixedSelection # None
        <5>1. PICK t \in Tracks(store) : \E s \in Systems(store, t) : FixedSelection = <<t, s>>
          BY <4>2, <1>1, FixedIs
        <5>2. PICK s \in Systems(store, t) : FixedSelection = <<t, s>>  BY <5>1
        <5> QED  BY <5>2, <1>1, OrdersOfTracks DEF SelectionType, Systems
      <4> QED  BY <4>1, <4>2
    <3> QED  BY <2>1, <3>1
  <2>3. ListType'  BY <1>1, <1>2, <2>2, <2>1, NodesAre, <1>4, UpdatedRow DEF ListType
  <2> QED  BY <1>1, <1>2, <1>3, <2>3, <2>1 DEF AlbumInv, FlagsType
<1>5. CASE Fresh /\ signals' = {} /\ UNCHANGED <<tree, selection, current, waiting>>
  BY <1>1, <1>2, <1>5, <1>3 DEF ListType, InTree, FlagsType, AlbumInv
<1> QED  BY <1>4, <1>5 DEF Tick

LEMMA AlbumInvInit == ASSUME Init PROVE AlbumInv
<1>1. Shown  BY DEF Init, Shown, Made
<1> QED  BY <1>1, NodesAre, AlbumsAtFirst, AlbumIsSound DEF AlbumInv, Init, ListType, SelectionType, FlagsType

LEMMA HandlerKeeps == ASSUME AlbumInv, Handles, Effect \/ Selects \/ Edits PROVE AlbumInv'
<1>1. Sound(store) /\ ListType /\ FlagsType /\ Shown /\ device' \in {"key", "mouse"}  BY DEF AlbumInv, Handles
<1>2. CASE AlbumChange  BY <1>1, <1>2 DEF AlbumChange, ListType, InTree, FlagsType, AlbumInv
<1>3. ASSUME NEW why \in {"location", "full"}, Raises(why) PROVE AlbumInv'
  BY <1>3, <1>1 DEF Raises, ListType, InTree, FlagsType, Shown, AlbumInv
<1>4. CASE Selects  BY <1>1, <1>4 DEF ListType, Selects, FlagsType, Shown, AlbumInv
<1>5. CASE Edits  BY <1>1, <1>5 DEF ListType, Edits, InTree, FlagsType, Shown, Made, AlbumInv
<1> QED  BY <1>2, <1>3, <1>4, <1>5 DEF Effect

\* Every step keeps the invariant.
LEMMA AlbumInvStep == ASSUME AlbumInv, [Next]_vars PROVE AlbumInv'
BY StepIs, TickKeeps, HandlerKeeps DEF vars, AlbumInv, ListType, FlagsType, Shown, InTree

\* The invariant: the album is sound, the current row is a row of the tree
\* (which may be behind), and the selection will show what was made.  It
\* does not need that the mouse is slower than an update.
THEOREM AlbumInvariance == Spec => []AlbumInv
<1>1. Init => AlbumInv  BY AlbumInvInit
<1>2. AlbumInv /\ [Next]_vars => AlbumInv'  BY AlbumInvStep
<1> QED  BY <1>1, <1>2, PTL DEF Spec

\* Whatever runs in whatever order, the keys of the store that the
\* operations of album.py, song.py and pattern.py put add up to an album.
THEOREM AlbumStaysConsistent == Spec => []AlbumIsConsistent
<1>1. AlbumInv => AlbumIsConsistent  BY AlbumIsSound DEF AlbumInv, AlbumIsConsistent
<1> QED  BY <1>1, AlbumInvariance, PTL

-----------------------------------------------------------------------------
\* What the steps do to the patterns.

\* Used is what is in an order list.
LEMMA UsedIs == ASSUME NEW d, Sound(d) PROVE \A i : i \in UsedInstances(d) <=> Ordered(d, i)
BY UsedAre DEF Sound, SongNames, SoundSongs

LEMMA LivesIs == \A d, p : InstancesOf(d, p) # {} <=> Lives(d, p)
BY DEF InstancesOf, Lives, Exists

\* What the steps do to the patterns.
LEMMA TriggersStep ==
    ASSUME AlbumInv, [Next]_vars
    PROVE  \/ TriggersKept(store, store')
           \/ done' = <<"edited">> /\ \A p : Lives(store', p) <=> Lives(store, p)
BY StepIs DEF TriggersKept, Effect, AlbumChange, Raises, Selects, Edits, Tick, vars

\* Triggers change by editing, or go with their pattern.
LEMMA TriggersAreKept ==
    ASSUME AlbumInv, [Next]_vars, NEW p \in Patterns, Triggers(p)' # Triggers(p)
    PROVE  done' = <<"edited">> \/ InstancesOf(store, p)' = {}
BY TriggersStep, LivesIs DEF Triggers, InstancesOf, Exists, PatternKey, InstanceKey, TriggersKept

\* A pattern that comes to life has no triggers.
LEMMA NewIsEmpty ==
    ASSUME AlbumInv, [Next]_vars, NEW p \in Patterns, InstancesOf(store, p) = {}, InstancesOf(store, p)' # {}
    PROVE  Triggers(p)' = None
<1>1. Triggers(p)' = store'[PatternKey(p, "triggers")]
      /\ InstancesOf(store, p)' = InstancesOf(store', p)
  BY DEF Triggers, InstancesOf, Exists, PatternKey, InstanceKey
<1> QED  BY <1>1, TriggersStep, LivesIs DEF TriggersKept, AlbumInv, Sound, SoundPatterns, PatternNames

\* Moving keeps what is used and the order of the others.
LEMMA MovesKeep ==
    ASSUME AlbumInv, [Next]_vars, Moves(done')
    PROVE  /\ UsedInstances(store)' = UsedInstances(store)
           /\ \A s \in Songs : \A x, y \in UsedInstances(store) \ {done'[2]} :
                Precedes(store, s, x, y) <=> Precedes(store', s, x, y)
<1>1. CASE store' = store  BY <1>1 DEF UsedInstances, Tracks, TrackCount, TrackList, OrderAt, OrderList, SongAt
<1>2. CASE AlbumChange
  <2>1. Rearranged(store, store', done'[2]) /\ Sound(store) /\ Sound(store')  BY <1>2 DEF AlbumChange, AlbumInv
  <2>2. \A i : i \in UsedInstances(store') <=> i \in UsedInstances(store)  BY <2>1, UsedIs DEF Rearranged
  <2>3. ASSUME NEW s \in Songs, NEW x, x # done'[2], NEW y, y # done'[2]
        PROVE  Precedes(store, s, x, y) <=> Precedes(store', s, x, y)
    BY <2>1, <2>3 DEF Rearranged, SameOrder, Before, Precedes
  <2> QED  BY <2>3, <2>2 DEF UsedInstances, Tracks, TrackCount, TrackList, OrderAt, OrderList, SongAt
<1>3. CASE Raises("full") \/ Raises("location")  BY <1>1, <1>3 DEF Raises
<1>4. CASE Selects  BY <1>1, <1>4 DEF Selects
<1>5. CASE Edits  BY <1>5 DEF Edits, Moves
<1>6. CASE Tick  BY <1>1, <1>6 DEF Tick
<1>7. CASE UNCHANGED vars  BY <1>1, <1>7 DEF vars
<1> QED  BY <1>2, <1>3, <1>4, <1>5, <1>6, <1>7, StepIs DEF Effect

\* The update selects the instance that was made.
LEMMA UpdateShows ==
    ASSUME AlbumInv, [Next]_vars, Made(done), ~Fresh, Fresh'
    PROVE  IsPattern(current') /\ SelectedObject' = done[2]
<1>1. Sound(store) /\ SelectionType(selection) /\ Points(store, selection, done[2])  BY DEF AlbumInv, ListType, Shown
<1>2. UpdateModel  BY StepIs DEF Effect, AlbumChange, Raises, Fresh, Selects, Edits, Tick, vars
<1> DEFINE t == selection[1]
           s == Smaller(selection[2], Len(OrderAt(store, t)) - 1)
           row == <<t, s>>
<1>3. t \in Tracks(store) /\ selection[2] \in Nat /\ selection # None /\ OrderAt(store, t)[s + 1] = done[2]
  BY <1>1 DEF Points
<1>4. row # None /\ Len(row) = 2 /\ row[1] = t /\ row[2] = s  BY PairIsThere, <1>3, <1>1, OrdersOfTracks DEF Smaller
<1>5. current' = row /\ tree' = MakeNodes(store)  BY <1>2, <1>1, <1>3, FixedIs DEF UpdateModel
<1> HIDE DEF row, s, t
<1> QED  BY <1>3, <1>4, <1>5, <1>1, NodesAre DEF SelectedObject, NodePattern, IsPattern, IsSong

\* The operations touch no triggers of patterns that stay, what is new is
\* empty and is shown by the update, and moving loses and reorders nothing
\* else.
THEOREM AlbumChangesKeepPatterns == Spec => ChangesKeepPatterns
<1>1. AlbumInv /\ [Next]_vars =>
        [\A p \in Patterns : Triggers(p)' # Triggers(p) => done' = <<"edited">> \/ InstancesOf(store, p)' = {}]_vars
  BY TriggersAreKept
<1>2. AlbumInv /\ [Next]_vars =>
        [\A p \in Patterns : InstancesOf(store, p) = {} /\ InstancesOf(store, p)' # {} => Triggers(p)' = None]_vars
  BY NewIsEmpty
<1>3. AlbumInv /\ [Next]_vars =>
        [Moves(done') =>
            /\ UsedInstances(store)' = UsedInstances(store)
            /\ \A s \in Songs : \A x, y \in UsedInstances(store) \ {done'[2]} :
                Precedes(store, s, x, y) <=> Precedes(store', s, x, y)]_vars  BY MovesKeep
<1>4. AlbumInv /\ [Next]_vars =>
        [Made(done) /\ ~Fresh /\ Fresh' => IsPattern(current') /\ SelectedObject' = done[2]]_vars  BY UpdateShows
<1>5. Spec => UsedPatternsKeepTriggers  BY <1>1, AlbumInvariance, PTL DEF Spec, UsedPatternsKeepTriggers
<1>6. Spec => NewPatternIsEmpty  BY <1>2, AlbumInvariance, PTL DEF Spec, NewPatternIsEmpty
<1>7. Spec => MovesKeepPatterns  BY <1>3, AlbumInvariance, PTL DEF Spec, MovesKeepPatterns
<1>8. Spec => UpdateShowsWhatWasMade  BY <1>4, AlbumInvariance, PTL DEF Spec, UpdateShowsWhatWasMade
<1> QED  BY <1>5, <1>6, <1>7, <1>8 DEF ChangesKeepPatterns

-----------------------------------------------------------------------------
\* The list and its buttons, with a hand slower than an update.

\* What the buttons offer for something that is in the album.
Offer(obj) ==
    IF obj = None THEN {"new song"}
    ELSE IF Len(obj) = 1 THEN {"new pattern", "new song", "remove song"}
    ELSE {"new pattern", "reuse", "remove"}

\* The invariant of a hand that is slower than an update: handlers run on
\* a fresh tree, keys that repeat wait for it, and the buttons follow the
\* selection in two updates: their signals say how far they have come.
TreeIsFresh == Fresh => tree = MakeNodes(store)
KeysWait == ~Fresh /\ device = "key" /\ failed = None => waiting
ButtonsFollow ==
    /\ signals \intersect {"order list updated", "order list selection"} = {} => buttons.obj = SelectedObject
    /\ buttons.obj = SelectedObject => buttons.enabled = Offer(buttons.obj)
    /\ Fresh /\ Ordered(store, buttons.obj) => buttons.enabled = Offer(buttons.obj)
    /\ buttons.obj \notin Instances => buttons.enabled = Offer(buttons.obj)

PatientInv == AlbumInv /\ TreeIsFresh /\ KeysWait /\ HandlersFindTheirRow /\ SelectionIsInAlbum /\ ButtonsFollow

\* What a row stands for when the tree is made of the album.
InAlbum(d, obj) == obj = None \/ (obj # None /\ Len(obj) = 1 /\ obj \notin Instances) \/ (obj # None /\ Len(obj) = 2 /\ Ordered(d, obj))

\* On a fresh tree the selected row is in the album.
LEMMA SelectedIs == Sound(store) /\ ListType /\ tree = MakeNodes(store) => InAlbum(store, SelectedObject) /\ ~Lost
<1> SUFFICES ASSUME Sound(store), ListType, tree = MakeNodes(store)
             PROVE  InAlbum(store, SelectedObject) /\ ~Lost  OBVIOUS
<1>1. CASE current = None  BY <1>1 DEF SelectedObject, IsPattern, IsSong, InAlbum, Lost
<1>2. CASE current # None
  <2> DEFINE t == current[1]
  <2>1. /\ t \in Nat /\ t + 1 \in DOMAIN tree
        /\ IsPattern(current) => /\ NodePattern(current) \in Instances /\ SelectedObject = NodePattern(current)
                                 /\ current[2] \in Nat /\ current[2] + 1 \in DOMAIN tree[t + 1].order
        /\ ~IsPattern(current) => IsSong(current) /\ SelectedObject = <<tree[t + 1].song>>  BY <1>2, RowIs
  <2>2. t \in Tracks(store)  BY <2>1, NodesAre
  <2>3. tree[t + 1].song = SongAt(store, t) /\ tree[t + 1].order = OrderAt(store, t)  BY <2>2, NodesAre
  <2>4. /\ SongAt(store, t) \in Songs /\ OrderAt(store, t) \in Seq(Instances) /\ TrackCount(store) \in Nat
        /\ t < TrackCount(store)  BY <2>1, <2>2, OrdersOfTracks
  <2>5. CASE ~IsPattern(current)
    <3>1. <<SongAt(store, t)>> \in Seq(Songs) /\ Len(<<SongAt(store, t)>>) = 1  BY <2>4
    <3>2. ~(t >= TrackCount(store))  BY <2>1, <2>4
    <3> QED  BY <2>5, <3>1, <3>2, <2>1, <2>3, AlbumAssumption DEF InAlbum, Lost, Instances
  <2>6. CASE IsPattern(current)
    <3> DEFINE s == current[2]
               x == NodePattern(current)
    <3>1. x = OrderAt(store, t)[s + 1] /\ s \in Nat /\ s + 1 \in DOMAIN OrderAt(store, t) /\ x \in Instances
      BY <2>1, <2>3, <2>6 DEF NodePattern
    <3>2. Location(store, x) # None  BY <2>1, <3>1, PairIsThere, <2>2, LocationIs, <2>4 DEF Systems
    <3>3. Len(x) = 2 /\ x # None  BY <3>1, PairIsThere DEF Instances, Patterns
    <3> QED  BY <2>1, <2>6, <3>3, <3>2, LocatedIffOrdered DEF InAlbum, Lost, Located
  <2> QED  BY <2>5, <2>6
<1> QED  BY <1>1, <1>2

\* The buttons enabled for what is in the album.
LEMMA OfferIs ==
    ASSUME Sound(store), NEW obj
    PROVE  /\ InAlbum(store, obj) => EnabledFor(obj) = Offer(obj)
           /\ Ordered(store, obj) => EnabledFor(obj) = Offer(obj)
BY LocatedIffOrdered DEF EnabledFor, Offer, InAlbum

\* In an update.
LEMMA ButtonsOffer ==
    ASSUME PatientInv, NEW b, b = UpdatedButtons
    PROVE  /\ b.obj = SelectedObject
           /\ Ordered(store, b.obj) => b.enabled = Offer(b.obj)
           /\ b.obj = None \/ Len(b.obj) = 1 => b.enabled = Offer(b.obj)
BY OfferIs DEF PatientInv, AlbumInv, UpdatedButtons, ButtonsFollow, EnabledFor, Offer

\* A row is nothing, a song or an instance.
LEMMA ObjectIs == ListType => SelectedObject = None \/ Len(SelectedObject) = 1 \/ SelectedObject \in Instances
<1> SUFFICES ASSUME ListType PROVE SelectedObject = None \/ Len(SelectedObject) = 1 \/ SelectedObject \in Instances
  OBVIOUS
<1>1. CASE current = None  BY <1>1 DEF SelectedObject, IsPattern, IsSong
<1>2. CASE current # None  BY <1>2, RowIs
<1> QED  BY <1>1, <1>2

LEMMA SameSelection ==
    UNCHANGED <<tree, current>> => SelectedObject' = SelectedObject
BY DEF SelectedObject, NodePattern, IsPattern, IsSong

\* A handler runs on a fresh tree only, and finds its row.
LEMMA HandlersAreFresh ==
    ASSUME ~Impatient, PatientInv, Handles
    PROVE  Fresh /\ tree = MakeNodes(store) /\ ~Lost
BY SelectedIs DEF PatientInv, KeysWait, Handles, AlbumInv, TreeIsFresh

\* Handlers keep the list and its buttons right.
LEMMA PatientHandler ==
    ASSUME ~Impatient, PatientInv, Handles, Effect \/ Selects \/ Edits
    PROVE  PatientInv'
<1>1. /\ AlbumInv /\ Sound(store) /\ ListType /\ TreeIsFresh /\ KeysWait /\ HandlersFindTheirRow
      /\ SelectionIsInAlbum /\ ButtonsFollow  BY DEF PatientInv, AlbumInv
<1>2. Fresh /\ tree = MakeNodes(store) /\ ~Lost /\ failed = None  BY HandlersAreFresh DEF Handles
<1>3. AlbumInv'  BY <1>1, HandlerKeeps
<1>4. CASE AlbumChange
  <2>1. /\ signals' = signals \union {"order list"} /\ UNCHANGED <<tree, current, buttons, failed>>
        /\ (device' = "key" => waiting')  BY <1>4 DEF AlbumChange
  <2>2. ~Fresh'  BY <2>1 DEF Fresh
  <2>3. TreeIsFresh' /\ SelectionIsInAlbum' /\ KeysWait' /\ HandlersFindTheirRow'
    BY <1>1, <2>1, <2>2 DEF TreeIsFresh, SelectionIsInAlbum, KeysWait, HandlersFindTheirRow
  <2> QED  BY <1>3, <2>3, <1>1, <2>1, <2>2, SameSelection DEF PatientInv, ButtonsFollow
<1>5. CASE Raises("full")
  <2>1. UNCHANGED <<store, selection, tree, current, waiting, buttons, signals>> /\ failed' = "full"
    BY <1>5 DEF Raises
  <2>2. TreeIsFresh' /\ KeysWait' /\ HandlersFindTheirRow'
    BY <1>2, <2>1 DEF TreeIsFresh, KeysWait, HandlersFindTheirRow, Fresh
  <2> QED  BY <1>3, <2>2, <1>1, <1>2, <2>1, SameSelection DEF PatientInv, SelectionIsInAlbum, ButtonsFollow
<1>6. CASE Selects
  <2>1. /\ UNCHANGED <<store, selection, tree, waiting, buttons, failed>>
        /\ signals' = signals \union {"song", "order list selection"}  BY <1>6 DEF Selects
  <2>2. Fresh'  BY <1>2, <2>1 DEF Fresh
  <2>3. TreeIsFresh' /\ KeysWait' /\ HandlersFindTheirRow'
    BY <1>1, <1>2, <2>1, <2>2 DEF TreeIsFresh, KeysWait, HandlersFindTheirRow
  <2>4. InAlbum(store, SelectedObject)'
    <3>1. (Sound(store) /\ ListType /\ tree = MakeNodes(store) => InAlbum(store, SelectedObject) /\ ~Lost)'
      BY SelectedIs, PTL
    <3> QED  BY <3>1, <1>3, <2>2, <2>3 DEF AlbumInv, TreeIsFresh
  <2>5. SelectedObject' \in Instances => Ordered(store, SelectedObject')
    <3>1. None \notin Instances  BY PairIsThere DEF Instances, Patterns
    <3> QED  BY <2>1, <2>4, <3>1 DEF InAlbum, Ordered, OrderList, Instances
  <2>6. ButtonsFollow'  BY <2>1, <1>1, <2>5, <1>2 DEF ButtonsFollow, Ordered, OrderList, Offer
  <2> QED  BY <1>3, <2>3, <2>6, <1>1, <1>2, <2>1 DEF PatientInv, SelectionIsInAlbum
<1>7. CASE Edits
  <2>1. /\ UNCHANGED <<selection, tree, current, waiting, buttons, signals, failed>>
        /\ TrackCount(store') = TrackCount(store) /\ TrackList(store') = TrackList(store)
        /\ \A u \in Songs : OrderList(store', u) = OrderList(store, u)  BY <1>7 DEF Edits
  <2>2. /\ MakeNodes(store') = MakeNodes(store) /\ Tracks(store') = Tracks(store)
        /\ \A t \in Tracks(store) : OrderAt(store', t) = OrderAt(store, t)  BY <1>1, <2>1, SameNodes
  <2>3. TreeIsFresh'
    <3>1. MakeNodes(store)' = MakeNodes(store')  BY DEF MakeNodes, TrackCount, TrackList, SongAt, OrderAt, OrderList
    <3> QED  BY <1>2, <2>1, <2>2, <3>1 DEF TreeIsFresh
  <2>4. KeysWait' /\ HandlersFindTheirRow'  BY <1>1, <1>2, <2>1 DEF KeysWait, HandlersFindTheirRow, Fresh
  <2>5. SelectionIsInAlbum'  BY <1>1, <1>2, <2>1, <2>2 DEF SelectionIsInAlbum
  <2>6. ButtonsFollow'  BY <1>1, <1>2, <2>1, SameSelection DEF ButtonsFollow, Ordered
  <2> QED  BY <1>3, <2>3, <2>4, <2>5, <2>6 DEF PatientInv
<1> QED  BY <1>2, <1>4, <1>5, <1>6, <1>7 DEF Effect

LEMMA NoneIsNoInstance == None \notin Instances /\ \A i \in Instances : Len(i) = 2
BY PairIsThere DEF Instances, Patterns

\* So does the update.
LEMMA PatientTick == ASSUME PatientInv, Tick PROVE PatientInv'
<1>1. /\ AlbumInv /\ Sound(store) /\ ListType /\ TreeIsFresh /\ KeysWait /\ HandlersFindTheirRow
      /\ SelectionIsInAlbum /\ ButtonsFollow /\ SelectionType(selection)  BY DEF PatientInv, AlbumInv, ListType
<1>2. AlbumInv'  BY <1>1, TickKeeps
<1>3. UNCHANGED <<store, failed>> /\ buttons' = UpdatedButtons  BY DEF Tick
<1>4. Fresh' /\ tree' = MakeNodes(store)  BY <1>1 DEF UpdateModel, Fresh, TreeIsFresh, Tick
<1>5. (tree = MakeNodes(store))'  BY <1>3, <1>4 DEF MakeNodes, TrackCount, TrackList, SongAt, OrderAt, OrderList
<1>6. TreeIsFresh' /\ KeysWait' /\ HandlersFindTheirRow'
  BY <1>1, <1>3, <1>4, <1>5 DEF TreeIsFresh, KeysWait, HandlersFindTheirRow
<1>7. SelectionIsInAlbum'
  <2>1. CASE UpdateModel
    <3>1. selection' = FixedSelection  BY <2>1 DEF UpdateModel
    <3>2. CASE FixedSelection = None  BY <3>1, <3>2 DEF SelectionIsInAlbum
    <3>3. CASE FixedSelection # None
      <4>1. PICK t \in Tracks(store) : \E s \in Systems(store, t) : FixedSelection = <<t, s>>  BY <1>1, <3>3, FixedIs
      <4>2. PICK s \in Systems(store, t) : FixedSelection = <<t, s>>  BY <4>1
      <4>3. selection'[1] = t /\ selection'[2] = s  BY <3>1, <4>2
      <4>4. s \in 0..(Len(OrderAt(store, t)) - 1)  BY DEF Systems
      <4> QED  BY <1>3, <4>3, <4>4 DEF SelectionIsInAlbum, Tracks, TrackCount, TrackList, OrderAt, OrderList, SongAt
    <3> QED  BY <3>2, <3>3
  <2>2. CASE Fresh /\ UNCHANGED selection  BY <1>1, <1>3, <2>2 DEF SelectionIsInAlbum
  <2> QED  BY <2>1, <2>2 DEF Tick
<1>8. /\ buttons'.obj = SelectedObject
      /\ Ordered(store, buttons'.obj) => buttons'.enabled = Offer(buttons'.obj)
      /\ buttons'.obj = None \/ Len(buttons'.obj) = 1 => buttons'.enabled = Offer(buttons'.obj)  BY <1>3, ButtonsOffer
<1>9. InAlbum(store, SelectedObject)'
  <2>1. (Sound(store) /\ ListType /\ tree = MakeNodes(store) => InAlbum(store, SelectedObject) /\ ~Lost)'
    BY SelectedIs, PTL
  <2> QED  BY <1>5, <2>1, <1>2 DEF AlbumInv
<1>10. buttons'.obj \notin Instances => buttons'.enabled = Offer(buttons'.obj)  BY <1>1, <1>8, ObjectIs
<1>11. ButtonsFollow'
  <2>1. signals' \intersect {"order list updated", "order list selection"} = {} => (buttons.obj = SelectedObject)'
    BY <1>8, SameSelection DEF UpdateModel, Tick
  <2>2. (buttons.obj = SelectedObject)' => buttons'.enabled = Offer(buttons'.obj)
    BY <1>8, <1>10, <1>3, <1>9, NoneIsNoInstance DEF InAlbum, Ordered, OrderList
  <2> QED  BY <1>8, <1>10, <2>1, <2>2, <1>3 DEF ButtonsFollow, Offer, Ordered, OrderList
<1> QED  BY <1>2, <1>6, <1>7, <1>11 DEF PatientInv

LEMMA PatientInit == ASSUME Init PROVE PatientInv
<1>1. ButtonsFollow  BY DEF Init, SelectedObject, IsPattern, IsSong, Offer, ButtonsFollow
<1> QED
  BY <1>1, AlbumInvInit, AlbumAssumption DEF PatientInv, Init, TreeIsFresh, KeysWait, SelectionIsInAlbum,
     HandlersFindTheirRow

\* Every step does.
LEMMA PatientStep == ASSUME ~Impatient, PatientInv, [Next]_vars PROVE PatientInv'
<1>1. CASE Next  BY <1>1, StepIs, PatientHandler, PatientTick DEF PatientInv
<1>2. CASE UNCHANGED vars
  <2>1. UNCHANGED <<store, selection, tree, current, waiting, buttons, signals, device, failed>>  BY <1>2 DEF vars
  <2>2. TreeIsFresh' /\ KeysWait' /\ HandlersFindTheirRow' /\ SelectionIsInAlbum'
    BY <2>1 DEF PatientInv, TreeIsFresh, KeysWait, HandlersFindTheirRow, SelectionIsInAlbum, Fresh
  <2> QED  BY <2>2, <1>2, AlbumInvStep, <2>1, SameSelection DEF PatientInv, ButtonsFollow, Fresh
<1> QED  BY <1>1, <1>2

\* As long as the mouse is not faster than an update, no handler of the
\* order list looks for what is gone, however fast keys repeat, the tool
\* bar offers what can be done, and the selection is in the album.
THEOREM ListAlwaysShowsAlbum == ASSUME ~Impatient PROVE Spec => []ListShowsAlbum
<1>1. Init => PatientInv  BY PatientInit
<1>2. PatientInv /\ [Next]_vars => PatientInv'  BY PatientStep
<1>3. PatientInv => ListShowsAlbum
  <2> SUFFICES ASSUME PatientInv PROVE ListShowsAlbum  OBVIOUS
  <2>1. Sound(store) /\ ListType /\ FlagsType /\ ButtonsFollow /\ TreeIsFresh  BY DEF PatientInv, AlbumInv
  <2>2. ToolBarFollowsSelection
    <3> SUFFICES ASSUME signals = {} PROVE buttons.enabled = EnabledFor(SelectedObject)
      BY DEF ToolBarFollowsSelection
    <3> QED  BY <2>1, OfferIs, SelectedIs DEF ButtonsFollow, TreeIsFresh, Fresh
  <2> QED  BY <2>2, <2>1, AlbumIsSound DEF PatientInv, ListShowsAlbum, TypeOK, ListType, FlagsType
<1> QED  BY <1>1, <1>2, <1>3, PTL DEF Spec
=============================================================================
