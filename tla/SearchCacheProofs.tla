---------------------------- MODULE SearchCacheProofs ----------------------------
(* For any processes, worker threads, queries, capacities and lifetimes: the *)
(* list and the map of every L1 agree, no answer is older than the two       *)
(* lifetimes together, and what is evicted was used least recently.          *)
EXTENDS SearchCache, SequenceTheorems, TLAPS

\* The keys of a list without repetition.
Distinct(s) == \A i, j \in DOMAIN s : s[i] = s[j] => i = j

\* The maps from some queries to entries, and the values of an L1.
EntryMap == UNION {[D -> Entry] : D \in SUBSET Query}
Cache == [lru_keys : Seq(Query), entries : EntryMap]

--------------------------------------------------------------------------------
(* What the operations of LruCache.cc do to the list of keys.                *)

\* erase takes one place out of the list.
LEMMA ErasePlaces ==
    ASSUME NEW S, NEW s \in Seq(S), NEW k \in L1!ToSet(s)
    PROVE  \E p \in 1..Len(s) :
              /\ s[p] = k
              /\ L1!Erase(s, k) \in Seq(S) /\ Len(L1!Erase(s, k)) = Len(s) - 1
              /\ DOMAIN L1!Erase(s, k) = 1..Len(s) - 1
              /\ \A i \in 1..Len(s) - 1 : L1!Erase(s, k)[i] = IF i < p THEN s[i] ELSE s[i + 1]
<1> DEFINE t == L1!Erase(s, k)
           p == L1!Position(s, k)
<1>0. /\ Len(s) \in Nat /\ DOMAIN s = 1..Len(s)
      /\ \A i \in 1..Len(s) : s[i] \in S
  BY LenProperties, ElementOfSeq
<1>1. p \in 1..Len(s) /\ s[p] = k
  BY <1>0 DEF L1!Position, L1!ToSet
<1> DEFINE a == SubSeq(s, 1, p - 1)
           b == SubSeq(s, p + 1, Len(s))
<1>2. t = a \o b
  BY DEF L1!Erase, L1!RemoveAt
<1>3. /\ a \in Seq(S) /\ Len(a) = p - 1
      /\ \A i \in 1..p - 1 : a[i] = s[i]
  <2>1. p - 1 \in Int /\ \A i \in 1..p - 1 : s[i] \in S
    BY <1>0, <1>1
  <2>2. /\ a \in Seq(S)
        /\ Len(a) = IF 1 <= p - 1 THEN (p - 1) - 1 + 1 ELSE 0
        /\ \A i \in 1..(p - 1) - 1 + 1 : a[i] = s[1 + i - 1]
    BY ONLY <2>1, 1 \in Int, SubSeqProperties
  <2>3. QED
    BY <1>1, <2>2
<1>4. /\ b \in Seq(S) /\ Len(b) = Len(s) - p
      /\ \A i \in 1..Len(s) - p : b[i] = s[p + i]
  <2>1. p + 1 \in Int /\ Len(s) \in Int /\ \A i \in p + 1..Len(s) : s[i] \in S
    BY <1>0, <1>1
  <2>2. /\ b \in Seq(S)
        /\ Len(b) = IF p + 1 <= Len(s) THEN Len(s) - (p + 1) + 1 ELSE 0
        /\ \A i \in 1..Len(s) - (p + 1) + 1 : b[i] = s[(p + 1) + i - 1]
    BY ONLY <2>1, SubSeqProperties
  <2>3. QED
    BY <1>0, <1>1, <2>2
<1> HIDE DEF a, b, t, p
<1>5. /\ t \in Seq(S) /\ Len(t) = Len(s) - 1 /\ DOMAIN t = 1..Len(s) - 1
      /\ \A i \in 1..Len(s) - 1 : t[i] = IF i <= p - 1 THEN a[i] ELSE b[i - (p - 1)]
  <2>1. /\ a \o b \in Seq(S)
        /\ Len(a \o b) = Len(a) + Len(b)
        /\ \A i \in 1..Len(a) + Len(b) :
              (a \o b)[i] = IF i <= Len(a) THEN a[i] ELSE b[i - Len(a)]
    BY ONLY <1>3, <1>4, ConcatProperties
  <2>2. Len(a) + Len(b) = Len(s) - 1
    BY <1>0, <1>1, <1>3, <1>4
  <2>3. DOMAIN t = 1..Len(t)
    BY <1>2, <2>1, LenProperties
  <2>4. QED
    BY <1>2, <1>3, <2>1, <2>2, <2>3
<1>6. \A i \in 1..Len(s) - 1 : t[i] = IF i < p THEN s[i] ELSE s[i + 1]
  <2> SUFFICES ASSUME NEW i \in 1..Len(s) - 1
               PROVE  t[i] = IF i < p THEN s[i] ELSE s[i + 1]
    OBVIOUS
  <2>1. CASE i < p
    <3>1. i \in 1..p - 1 /\ i <= p - 1
      BY <1>0, <1>1, <2>1
    <3>2. QED
      BY <1>3, <1>5, <2>1, <3>1
  <2>2. CASE ~(i < p)
    <3>1. i - (p - 1) \in 1..Len(s) - p /\ p + (i - (p - 1)) = i + 1 /\ ~(i <= p - 1)
      BY <1>0, <1>1, <2>2
    <3>2. QED
      BY <1>4, <1>5, <2>2, <3>1
  <2>3. QED
    BY <2>1, <2>2
<1>7. QED
  BY <1>1, <1>5, <1>6 DEF t

\* erase leaves a list of the same keys, without the one erased; it is shorter by
\* one if that one was there.
LEMMA EraseFromList ==
    ASSUME NEW S, NEW s \in Seq(S), NEW k
    PROVE  /\ L1!Erase(s, k) \in Seq(S)
           /\ Len(L1!Erase(s, k)) <= Len(s)
           /\ k \in L1!ToSet(s) => Len(L1!Erase(s, k)) = Len(s) - 1
           /\ k \notin L1!ToSet(s) => L1!Erase(s, k) = s
           /\ Distinct(s) => /\ Distinct(L1!Erase(s, k))
                             /\ L1!ToSet(L1!Erase(s, k)) = L1!ToSet(s) \ {k}
<1> DEFINE t == L1!Erase(s, k)
<1>1. /\ Len(s) \in Nat /\ DOMAIN s = 1..Len(s)
      /\ \A i \in 1..Len(s) : s[i] \in S
  BY LenProperties, ElementOfSeq
<1>2. CASE k \notin L1!ToSet(s)
  <2>1. t = s
    BY <1>2 DEF L1!Erase
  <2>2. L1!ToSet(s) = L1!ToSet(s) \ {k}
    BY <1>2
  <2>3. s \in Seq(S) /\ Len(s) <= Len(s)
    BY <1>1
  <2>4. QED
    BY ONLY <1>2, <2>1, <2>2, <2>3
<1>3. CASE k \in L1!ToSet(s)
  <2>1. PICK p \in 1..Len(s) :
          /\ s[p] = k
          /\ t \in Seq(S) /\ Len(t) = Len(s) - 1 /\ DOMAIN t = 1..Len(s) - 1
          /\ \A i \in 1..Len(s) - 1 : t[i] = IF i < p THEN s[i] ELSE s[i + 1]
    BY <1>3, ErasePlaces
  <2> HIDE DEF t
  <2>7. ASSUME Distinct(s) PROVE Distinct(t)
    <3> SUFFICES ASSUME NEW i \in 1..Len(s) - 1, NEW j \in 1..Len(s) - 1, t[i] = t[j]
                 PROVE  i = j
      BY <2>1 DEF Distinct
    <3> DEFINE m(x) == IF x < p THEN x ELSE x + 1
    <3>1. m(i) \in 1..Len(s) /\ m(j) \in 1..Len(s) /\ s[m(i)] = s[m(j)]
      BY <1>1, <2>1
    <3>2. m(i) = m(j)
      BY <1>1, <2>7, <3>1 DEF Distinct
    <3>3. QED
      BY <1>1, <2>1, <3>2
  <2>8. ASSUME Distinct(s) PROVE L1!ToSet(t) = L1!ToSet(s) \ {k}
    <3>1. ASSUME NEW i \in 1..Len(s) - 1 PROVE t[i] \in L1!ToSet(s) \ {k}
      <4> DEFINE m == IF i < p THEN i ELSE i + 1
      <4>1. m \in 1..Len(s) /\ t[i] = s[m] /\ m # p
        BY <1>1, <2>1
      <4>2. s[m] # k
        BY <1>1, <2>1, <2>8, <4>1 DEF Distinct
      <4>3. QED
        BY <1>1, <4>1, <4>2 DEF L1!ToSet
    <3>2. ASSUME NEW x \in L1!ToSet(s) \ {k} PROVE x \in L1!ToSet(t)
      <4>1. PICK i \in 1..Len(s) : s[i] = x
        BY <1>1 DEF L1!ToSet
      <4>2. i # p
        BY <2>1, <4>1
      <4> DEFINE m == IF i < p THEN i ELSE i - 1
      <4>3. m \in 1..Len(s) - 1 /\ t[m] = x
        BY <1>1, <2>1, <4>1, <4>2
      <4>4. QED
        BY <2>1, <4>3 DEF L1!ToSet
    <3>3. QED
      BY <2>1, <3>1, <3>2 DEF L1!ToSet
  <2>9. QED
    BY <1>1, <1>3, <2>1, <2>7, <2>8 DEF t
<1>4. QED
  BY <1>2, <1>3

\* splice and push_front: the key is first, the others follow once each.
LEMMA FrontOfList ==
    ASSUME NEW S, NEW s \in Seq(S), NEW k \in S
    PROVE  /\ L1!ToFront(s, k) \in Seq(S)
           /\ L1!ToFront(s, k) # <<>>
           /\ Len(L1!ToFront(s, k)) <= Len(s) + 1
           /\ k \in L1!ToSet(s) => Len(L1!ToFront(s, k)) = Len(s)
           /\ Distinct(s) => /\ Distinct(L1!ToFront(s, k))
                             /\ L1!ToSet(L1!ToFront(s, k)) = L1!ToSet(s) \cup {k}
<1> DEFINE e == L1!Erase(s, k)
           t == L1!ToFront(s, k)
<1>1. /\ e \in Seq(S) /\ Len(e) <= Len(s)
      /\ k \in L1!ToSet(s) => Len(e) = Len(s) - 1
      /\ Distinct(s) => Distinct(e) /\ L1!ToSet(e) = L1!ToSet(s) \ {k}
  BY EraseFromList
<1>2. t = <<k>> \o e
  BY DEF L1!ToFront
<1> HIDE DEF e, t
<1>3. Len(e) \in Nat /\ DOMAIN e = 1..Len(e) /\ Len(s) \in Nat
  BY <1>1, LenProperties
<1>4. <<k>> \in Seq(S) /\ Len(<<k>>) = 1 /\ <<k>>[1] = k
  OBVIOUS
<1>5. /\ t \in Seq(S) /\ Len(t) = 1 + Len(e)
      /\ \A i \in 1..1 + Len(e) : t[i] = IF i <= 1 THEN <<k>>[i] ELSE e[i - 1]
  <2>1. /\ <<k>> \o e \in Seq(S)
        /\ Len(<<k>> \o e) = Len(<<k>>) + Len(e)
        /\ \A i \in 1..Len(<<k>>) + Len(e) :
              (<<k>> \o e)[i] = IF i <= Len(<<k>>) THEN <<k>>[i] ELSE e[i - Len(<<k>>)]
    BY ONLY <1>1, <1>4, ConcatProperties
  <2>2. QED
    BY <1>2, <1>4, <2>1
<1>6. DOMAIN t = 1..1 + Len(e)
  BY <1>5, LenProperties
<1>7. t[1] = k /\ \A i \in 1..Len(e) : t[i + 1] = e[i]
  BY <1>3, <1>4, <1>5
<1>8. ASSUME Distinct(s) PROVE L1!ToSet(t) = L1!ToSet(s) \cup {k}
  <2>1. ASSUME NEW i \in 1..1 + Len(e) PROVE t[i] \in L1!ToSet(s) \cup {k}
    <3>1. CASE i = 1
      BY <1>7, <3>1
    <3>2. CASE i # 1
      <4>1. i - 1 \in 1..Len(e) /\ t[i] = e[i - 1]
        BY <1>3, <1>5, <3>2
      <4>2. e[i - 1] \in L1!ToSet(e)
        BY <1>3, <4>1 DEF L1!ToSet
      <4>3. QED
        BY <1>1, <1>8, <4>1, <4>2
    <3>3. QED
      BY <3>1, <3>2
  <2>2. k \in L1!ToSet(t)
    BY <1>3, <1>6, <1>7 DEF L1!ToSet
  <2>3. ASSUME NEW x \in L1!ToSet(s) \ {k} PROVE x \in L1!ToSet(t)
    <3>1. PICK i \in 1..Len(e) : e[i] = x
      BY <1>1, <1>3, <1>8 DEF L1!ToSet
    <3>2. i + 1 \in 1..1 + Len(e) /\ t[i + 1] = x
      BY <1>3, <1>7, <3>1
    <3>3. QED
      BY <1>6, <3>2 DEF L1!ToSet
  <2>4. QED
    BY <1>6, <2>1, <2>2, <2>3 DEF L1!ToSet
<1>9. ASSUME Distinct(s) PROVE Distinct(t)
  <2>1. \A i \in 1..Len(e) : e[i] # k
    BY <1>1, <1>3, <1>9 DEF L1!ToSet
  <2>2. Distinct(e)
    BY <1>1, <1>9
  <2> SUFFICES ASSUME NEW i \in 1..1 + Len(e), NEW j \in 1..1 + Len(e), t[i] = t[j]
               PROVE  i = j
    BY <1>6 DEF Distinct
  <2>3. CASE i = 1 /\ j = 1
    BY <2>3
  <2>4. CASE i = 1 /\ j # 1
    <3>1. j - 1 \in 1..Len(e) /\ t[j] = e[j - 1]
      BY <1>3, <1>5, <2>4
    <3>2. QED
      BY <1>7, <2>1, <2>4, <3>1
  <2>5. CASE i # 1 /\ j = 1
    <3>1. i - 1 \in 1..Len(e) /\ t[i] = e[i - 1]
      BY <1>3, <1>5, <2>5
    <3>2. QED
      BY <1>7, <2>1, <2>5, <3>1
  <2>6. CASE i # 1 /\ j # 1
    <3>1. /\ i - 1 \in 1..Len(e) /\ t[i] = e[i - 1]
          /\ j - 1 \in 1..Len(e) /\ t[j] = e[j - 1]
      BY <1>3, <1>5, <2>6
    <3>2. i - 1 = j - 1
      BY <1>3, <2>2, <3>1 DEF Distinct
    <3>3. QED
      BY <1>3, <3>2
  <2>7. QED
    BY <2>3, <2>4, <2>5, <2>6
<1>10. t # <<>>
  BY <1>3, <1>5
<1>11. Len(t) <= Len(s) + 1 /\ (k \in L1!ToSet(s) => Len(t) = Len(s))
  BY <1>1, <1>3, <1>5
<1>12. QED
  BY <1>5, <1>8, <1>9, <1>10, <1>11 DEF t

\* pop_back: the list without its last key.
LEMMA BackOfList ==
    ASSUME NEW S, NEW s \in Seq(S), s # <<>>
    PROVE  /\ L1!Front(s) \in Seq(S)
           /\ Len(L1!Front(s)) = Len(s) - 1
           /\ L1!Last(s) \in S
           /\ Distinct(s) => /\ Distinct(L1!Front(s))
                             /\ L1!ToSet(L1!Front(s)) = L1!ToSet(s) \ {L1!Last(s)}
<1> DEFINE f == L1!Front(s)
<1>1. /\ Len(s) \in Nat \ {0} /\ DOMAIN s = 1..Len(s)
      /\ \A i \in 1..Len(s) : s[i] \in S
  BY LenProperties, ElementOfSeq, EmptySeq
<1>2. /\ f \in Seq(S) /\ Len(f) = Len(s) - 1
      /\ \A i \in 1..Len(s) - 1 : f[i] = s[i]
  <2>1. Len(s) - 1 \in Int /\ \A i \in 1..Len(s) - 1 : s[i] \in S
    BY <1>1
  <2>2. /\ SubSeq(s, 1, Len(s) - 1) \in Seq(S)
        /\ Len(SubSeq(s, 1, Len(s) - 1)) =
              IF 1 <= Len(s) - 1 THEN (Len(s) - 1) - 1 + 1 ELSE 0
        /\ \A i \in 1..(Len(s) - 1) - 1 + 1 : SubSeq(s, 1, Len(s) - 1)[i] = s[1 + i - 1]
    BY ONLY <2>1, 1 \in Int, SubSeqProperties
  <2>3. QED
    BY <1>1, <2>2 DEF L1!Front
<1> HIDE DEF f
<1>3. DOMAIN f = 1..Len(s) - 1
  BY <1>2, LenProperties
<1>4. L1!Last(s) = s[Len(s)] /\ L1!Last(s) \in S
  BY <1>1 DEF L1!Last
<1>5. ASSUME Distinct(s) PROVE Distinct(f)
  BY <1>1, <1>2, <1>3, <1>5 DEF Distinct
<1>6. ASSUME Distinct(s) PROVE L1!ToSet(f) = L1!ToSet(s) \ {L1!Last(s)}
  <2>1. \A i \in 1..Len(s) - 1 : f[i] = s[i] /\ s[i] # s[Len(s)]
    BY <1>1, <1>2, <1>6 DEF Distinct
  <2>2. QED
    BY <1>1, <1>3, <1>4, <2>1 DEF L1!ToSet
<1>7. QED
  BY <1>2, <1>4, <1>5, <1>6 DEF f

--------------------------------------------------------------------------------
(* The order of the keys: that of their last use.                            *)

\* a comes before b in s.
Before(s, a, b) == \E i, j \in DOMAIN s : i < j /\ s[i] = a /\ s[j] = b

\* The keys of s are among those of u, and in the same order.
Follows(s, u) ==
    /\ Distinct(u)
    /\ L1!ToSet(s) \subseteq L1!ToSet(u)
    /\ \A a, b \in Query : Before(s, a, b) => Before(u, a, b)

\* Every L1 lists its keys in the order of their last use.
ListsFollowUse == \A th \in Thread : Follows(local_cache[th].lru_keys, used[th])

\* erase leaves the order of the other keys.
LEMMA EraseOrder ==
    ASSUME NEW S, NEW s \in Seq(S), Distinct(s), NEW k, NEW a, NEW b
    PROVE  Before(L1!Erase(s, k), a, b) <=> Before(s, a, b) /\ a # k /\ b # k
<1> DEFINE t == L1!Erase(s, k)
           n == Len(s)
<1>1. n \in Nat /\ DOMAIN s = 1..n
  BY LenProperties
<1>2. CASE k \notin L1!ToSet(s)
  <2>1. t = s
    BY <1>2 DEF L1!Erase
  <2>2. Before(s, a, b) => a \in L1!ToSet(s) /\ b \in L1!ToSet(s)
    BY DEF Before, L1!ToSet
  <2>3. QED
    BY <1>2, <2>1, <2>2
<1>3. CASE k \in L1!ToSet(s)
  <2>1. PICK p \in 1..n :
          /\ s[p] = k /\ DOMAIN t = 1..n - 1
          /\ \A i \in 1..n - 1 : t[i] = IF i < p THEN s[i] ELSE s[i + 1]
    BY <1>3, ErasePlaces
  <2> HIDE DEF t
  <2>2. ASSUME Before(t, a, b) PROVE Before(s, a, b) /\ a # k /\ b # k
    <3>1. PICK i \in 1..n - 1, j \in 1..n - 1 : i < j /\ t[i] = a /\ t[j] = b
      BY <2>1, <2>2 DEF Before
    <3> DEFINE x == IF i < p THEN i ELSE i + 1
               y == IF j < p THEN j ELSE j + 1
    <3>2. /\ x \in 1..n /\ y \in 1..n /\ x < y /\ x # p /\ y # p
          /\ s[x] = a /\ s[y] = b
      BY <1>1, <2>1, <3>1
    <3> HIDE DEF x, y
    <3>3. a # k /\ b # k
      BY <1>1, <2>1, <3>2 DEF Distinct
    <3>4. QED
      BY <1>1, <3>2, <3>3 DEF Before
  <2>3. ASSUME Before(s, a, b), a # k, b # k PROVE Before(t, a, b)
    <3>1. PICK i \in 1..n, j \in 1..n : i < j /\ s[i] = a /\ s[j] = b
      BY <1>1, <2>3 DEF Before
    <3> DEFINE x(m) == IF m < p THEN m ELSE m - 1
    <3>2. i # p /\ j # p
      BY <2>1, <2>3, <3>1
    <3>3. ASSUME NEW m \in 1..n, m # p
          PROVE  x(m) \in 1..n - 1 /\ t[x(m)] = s[m]
      <4>1. CASE m < p
        <5>1. m \in 1..n - 1
          BY <1>1, <2>1, <4>1
        <5>2. QED
          BY <2>1, <4>1, <5>1
      <4>2. CASE ~(m < p)
        <5>1. m - 1 \in 1..n - 1 /\ ~(m - 1 < p) /\ (m - 1) + 1 = m
          BY <1>1, <2>1, <3>3, <4>2
        <5>2. QED
          BY <2>1, <4>2, <5>1
      <4>3. QED
        BY <4>1, <4>2
    <3>4. x(i) < x(j)
      BY <1>1, <2>1, <3>1, <3>2
    <3>5. /\ x(i) \in 1..n - 1 /\ x(j) \in 1..n - 1
          /\ t[x(i)] = a /\ t[x(j)] = b
      BY <3>1, <3>2, <3>3
    <3> HIDE DEF x
    <3>6. QED
      BY <2>1, <3>4, <3>5 DEF Before
  <2>4. QED
    BY <2>2, <2>3 DEF t
<1>4. QED
  BY <1>2, <1>3

\* splice and push_front put the key before the others and leave their order.
LEMMA ToFrontOrder ==
    ASSUME NEW S, NEW s \in Seq(S), Distinct(s), NEW k \in S, NEW a, NEW b
    PROVE  Before(L1!ToFront(s, k), a, b) <=>
             \/ a = k /\ b \in L1!ToSet(s) \ {k}
             \/ Before(s, a, b) /\ a # k /\ b # k
<1> DEFINE e == L1!Erase(s, k)
           t == L1!ToFront(s, k)
<1>1. e \in Seq(S) /\ L1!ToSet(e) = L1!ToSet(s) \ {k}
  BY EraseFromList
<1>2. Before(e, a, b) <=> Before(s, a, b) /\ a # k /\ b # k
  BY EraseOrder
<1>3. t = <<k>> \o e
  BY DEF L1!ToFront
<1> HIDE DEF e, t
<1>4. Len(e) \in Nat /\ DOMAIN e = 1..Len(e)
  BY <1>1, LenProperties
<1>5. <<k>> \in Seq(S) /\ Len(<<k>>) = 1 /\ <<k>>[1] = k
  OBVIOUS
<1>6. /\ DOMAIN t = 1..1 + Len(e) /\ t[1] = k
      /\ \A i \in 1..Len(e) : t[i + 1] = e[i]
  <2>1. /\ <<k>> \o e \in Seq(S)
        /\ Len(<<k>> \o e) = Len(<<k>>) + Len(e)
        /\ \A i \in 1..Len(<<k>>) + Len(e) :
              (<<k>> \o e)[i] = IF i <= Len(<<k>>) THEN <<k>>[i] ELSE e[i - Len(<<k>>)]
    BY ONLY <1>1, <1>5, ConcatProperties
  <2>2. DOMAIN t = 1..Len(t)
    BY <1>3, <2>1, LenProperties
  <2>3. \A i \in 1..1 + Len(e) : t[i] = IF i <= 1 THEN <<k>>[i] ELSE e[i - 1]
    BY <1>3, <1>5, <2>1
  <2>4. \A i \in 1..Len(e) : i + 1 \in 1..1 + Len(e) /\ ~(i + 1 <= 1) /\ (i + 1) - 1 = i
    BY <1>4
  <2>5. QED
    BY <1>3, <1>4, <1>5, <2>1, <2>2, <2>3, <2>4
<1>7. Before(t, a, b) <=> (a = k /\ b \in L1!ToSet(e)) \/ Before(e, a, b)
  <2>1. ASSUME Before(t, a, b) PROVE (a = k /\ b \in L1!ToSet(e)) \/ Before(e, a, b)
    <3>1. PICK i \in 1..1 + Len(e), j \in 1..1 + Len(e) : i < j /\ t[i] = a /\ t[j] = b
      BY <1>6, <2>1 DEF Before
    <3>2. j - 1 \in 1..Len(e) /\ e[j - 1] = b
      BY <1>4, <1>6, <3>1
    <3>3. CASE i = 1
      BY <1>4, <1>6, <3>1, <3>2, <3>3 DEF L1!ToSet
    <3>4. CASE i # 1
      <4>1. i - 1 \in 1..Len(e) /\ e[i - 1] = a /\ i - 1 < j - 1
        BY <1>4, <1>6, <3>1, <3>4
      <4>2. QED
        BY <1>4, <3>2, <4>1 DEF Before
    <3>5. QED
      BY <3>3, <3>4
  <2>2. ASSUME a = k, b \in L1!ToSet(e) PROVE Before(t, a, b)
    <3>1. PICK i \in 1..Len(e) : e[i] = b
      BY <1>4, <2>2 DEF L1!ToSet
    <3>2. i + 1 \in DOMAIN t /\ t[i + 1] = b /\ 1 \in DOMAIN t /\ 1 < i + 1
      BY <1>4, <1>6, <3>1
    <3>3. QED
      BY <1>6, <2>2, <3>2 DEF Before
  <2>3. ASSUME Before(e, a, b) PROVE Before(t, a, b)
    <3>1. PICK i \in 1..Len(e), j \in 1..Len(e) : i < j /\ e[i] = a /\ e[j] = b
      BY <1>4, <2>3 DEF Before
    <3>2. /\ i + 1 \in DOMAIN t /\ j + 1 \in DOMAIN t /\ i + 1 < j + 1
          /\ t[i + 1] = a /\ t[j + 1] = b
      BY <1>4, <1>6, <3>1
    <3>3. QED
      BY <3>2 DEF Before
  <2>4. QED
    BY <2>1, <2>2, <2>3
<1>8. QED
  BY <1>1, <1>2, <1>7 DEF t

\* The key that pop_back drops came after every other.
LEMMA BackOrder ==
    ASSUME NEW S, NEW s \in Seq(S), s # <<>>, NEW a, NEW b
    PROVE  /\ Before(L1!Front(s), a, b) => Before(s, a, b)
           /\ a \in L1!ToSet(L1!Front(s)) => Before(s, a, L1!Last(s))
<1> DEFINE f == L1!Front(s)
           n == Len(s)
<1>1. n \in Nat \ {0} /\ DOMAIN s = 1..n /\ L1!Last(s) = s[n]
  BY LenProperties, EmptySeq DEF L1!Last
<1>2. DOMAIN f = 1..n - 1 /\ \A i \in 1..n - 1 : f[i] = s[i]
  <2>1. n - 1 \in Int /\ \A i \in 1..n - 1 : s[i] \in S
    BY <1>1, ElementOfSeq
  <2>2. /\ SubSeq(s, 1, n - 1) \in Seq(S)
        /\ Len(SubSeq(s, 1, n - 1)) = IF 1 <= n - 1 THEN (n - 1) - 1 + 1 ELSE 0
        /\ \A i \in 1..(n - 1) - 1 + 1 : SubSeq(s, 1, n - 1)[i] = s[1 + i - 1]
    BY ONLY <2>1, 1 \in Int, SubSeqProperties
  <2>3. f = SubSeq(s, 1, n - 1)
    BY DEF L1!Front
  <2> HIDE DEF f
  <2>4. DOMAIN f = 1..Len(f) /\ Len(f) = n - 1
    BY <1>1, <2>2, <2>3, LenProperties
  <2>5. \A i \in 1..n - 1 : i \in 1..(n - 1) - 1 + 1 /\ 1 + i - 1 = i
    BY <1>1
  <2>6. QED
    BY <2>2, <2>3, <2>4, <2>5
<1> HIDE DEF f
<1>3. Before(f, a, b) => Before(s, a, b)
  BY <1>1, <1>2 DEF Before
<1>4. a \in L1!ToSet(f) => Before(s, a, L1!Last(s))
  BY <1>1, <1>2 DEF Before, L1!ToSet
<1>5. QED
  BY <1>3, <1>4 DEF f

\* In a list without repetition the first of two keys has the smaller place.
LEMMA PlaceOf ==
    ASSUME NEW S, NEW s \in Seq(S), Distinct(s), NEW a, NEW b, Before(s, a, b)
    PROVE  L1!Position(s, a) < L1!Position(s, b)
<1>1. PICK i \in DOMAIN s, j \in DOMAIN s : i < j /\ s[i] = a /\ s[j] = b
  BY DEF Before
<1>2. \A k \in DOMAIN s : L1!Position(s, s[k]) = k
  <2> SUFFICES ASSUME NEW k \in DOMAIN s PROVE L1!Position(s, s[k]) = k
    OBVIOUS
  <2> DEFINE p == L1!Position(s, s[k])
  <2>1. p \in DOMAIN s /\ s[p] = s[k]
    BY DEF L1!Position
  <2> HIDE DEF p
  <2>2. p = k
    BY <2>1 DEF Distinct
  <2>3. QED
    BY <2>2 DEF p
<1>3. QED
  BY <1>1, <1>2

\* erase, splice, push_front and pop_back keep a list in the order of use.
LEMMA FollowsKept ==
    ASSUME NEW s \in Seq(Query), Distinct(s), NEW u \in Seq(Query), Follows(s, u),
           NEW q \in Query
    PROVE  /\ Follows(L1!Erase(s, q), u)
           /\ Follows(L1!ToFront(s, q), L1!ToFront(u, q))
           /\ s # <<>> => Follows(L1!Front(s), u)
<1>1. /\ Distinct(u) /\ L1!ToSet(s) \subseteq L1!ToSet(u)
      /\ \A a, b \in Query : Before(s, a, b) => Before(u, a, b)
  BY DEF Follows
<1>2. Follows(L1!Erase(s, q), u)
  <2>1. L1!ToSet(L1!Erase(s, q)) = L1!ToSet(s) \ {q}
    BY EraseFromList
  <2>2. \A a, b \in Query : Before(L1!Erase(s, q), a, b) => Before(s, a, b)
    BY EraseOrder
  <2>3. QED
    BY <1>1, <2>1, <2>2 DEF Follows
<1>3. Follows(L1!ToFront(s, q), L1!ToFront(u, q))
  <2>1. /\ L1!ToSet(L1!ToFront(s, q)) = L1!ToSet(s) \cup {q}
        /\ L1!ToSet(L1!ToFront(u, q)) = L1!ToSet(u) \cup {q}
        /\ Distinct(L1!ToFront(u, q))
    <3>1. L1!ToSet(L1!ToFront(s, q)) = L1!ToSet(s) \cup {q}
      BY FrontOfList
    <3>2. /\ L1!ToSet(L1!ToFront(u, q)) = L1!ToSet(u) \cup {q}
          /\ Distinct(L1!ToFront(u, q))
      BY <1>1, FrontOfList
    <3>3. QED
      BY <3>1, <3>2
  <2>2. ASSUME NEW a \in Query, NEW b \in Query, Before(L1!ToFront(s, q), a, b)
        PROVE  Before(L1!ToFront(u, q), a, b)
    <3>1. \/ a = q /\ b \in L1!ToSet(s) \ {q}
          \/ Before(s, a, b) /\ a # q /\ b # q
      BY <2>2, ToFrontOrder
    <3>2. \/ a = q /\ b \in L1!ToSet(u) \ {q}
          \/ Before(u, a, b) /\ a # q /\ b # q
      BY <1>1, <3>1
    <3>3. QED
      BY <1>1, <3>2, ToFrontOrder
  <2>3. QED
    BY <1>1, <2>1, <2>2 DEF Follows
<1>4. ASSUME s # <<>> PROVE Follows(L1!Front(s), u)
  <2>1. L1!ToSet(L1!Front(s)) \subseteq L1!ToSet(s)
    BY <1>4, BackOfList
  <2>2. \A a, b \in Query : Before(L1!Front(s), a, b) => Before(s, a, b)
    BY <1>4, BackOrder
  <2>3. QED
    BY <1>1, <2>1, <2>2 DEF Follows
<1>5. QED
  BY <1>2, <1>3, <1>4

--------------------------------------------------------------------------------
(* What get and put do to a consistent L1.                                   *)

\* What is said of the map m, which is n without q.
IsWithout(m, n, q) ==
    /\ m \in EntryMap
    /\ DOMAIN m = DOMAIN n \ {q}
    /\ \A j \in DOMAIN n \ {q} : m[j] = n[j]

\* What is said of the map m, which is n with q bound to e.
IsWith(m, n, q, e) ==
    /\ m \in EntryMap
    /\ DOMAIN m = DOMAIN n \cup {q}
    /\ \A j \in DOMAIN n \cup {q} : m[j] = IF j = q THEN e ELSE n[j]

\* Erasing a query from the map.
LEMMA MapWithout ==
    ASSUME NEW n \in EntryMap, NEW q
    PROVE  IsWithout(L1!Without(n, q), n, q)
<1>1. PICK D \in SUBSET Query : n \in [D -> Entry]
  BY DEF EntryMap
<1>2. /\ L1!Without(n, q) \in [D \ {q} -> Entry]
      /\ \A j \in D \ {q} : L1!Without(n, q)[j] = n[j]
      /\ DOMAIN n = D
  BY <1>1 DEF L1!Without
<1>3. D \ {q} \in SUBSET Query
  BY <1>1
<1>4. QED
  BY <1>2, <1>3 DEF EntryMap, IsWithout

\* Binding a query in the map.
LEMMA MapWith ==
    ASSUME NEW n \in EntryMap, NEW q \in Query, NEW e \in Entry
    PROVE  IsWith(L1!With(n, q, e), n, q, e)
<1>1. PICK D \in SUBSET Query : n \in [D -> Entry]
  BY DEF EntryMap
<1>2. /\ L1!With(n, q, e) \in [D \cup {q} -> Entry]
      /\ \A j \in D \cup {q} : L1!With(n, q, e)[j] = IF j = q THEN e ELSE n[j]
      /\ DOMAIN n = D
  BY <1>1 DEF L1!With
<1>3. D \cup {q} \in SUBSET Query
  BY <1>1
<1>4. QED
  BY <1>2, <1>3 DEF EntryMap, IsWith

\* get keeps the list and the map in agreement and changes no entry that stays.
LEMMA GetKeepsAgreement ==
    ASSUME NEW c \in Cache, L1!Consistent(c), NEW q \in Query, NEW t \in Nat
    PROVE  LET d == L1!AfterGet(c, q, t)
           IN  /\ d \in Cache
               /\ L1!Consistent(d)
               /\ \A j \in DOMAIN d.entries :
                     j \in DOMAIN c.entries /\ d.entries[j] = c.entries[j]
<1> DEFINE d == L1!AfterGet(c, q, t)
<1>1. /\ c.lru_keys \in Seq(Query) /\ c.entries \in EntryMap
      /\ Distinct(c.lru_keys) /\ L1!ToSet(c.lru_keys) = DOMAIN c.entries
      /\ Len(c.lru_keys) <= LocalCapacity
      /\ Len(c.lru_keys) \in Nat /\ LocalCapacity \in Nat
  BY LenProperties, CacheAssumption DEF Cache, L1!Consistent, L1!Keys, Distinct
<1>2. CASE L1!Hit(c, q, t)
  <2>1. q \in L1!ToSet(c.lru_keys)
    BY <1>1, <1>2 DEF L1!Hit, L1!Keys
  <2>2. /\ d.lru_keys = L1!ToFront(c.lru_keys, q) /\ d.entries = c.entries
        /\ d = [lru_keys |-> d.lru_keys, entries |-> d.entries]
    BY <1>2 DEF L1!AfterGet, Cache
  <2>3. /\ d.lru_keys \in Seq(Query)
        /\ Len(d.lru_keys) = Len(c.lru_keys)
        /\ Distinct(d.lru_keys)
        /\ L1!ToSet(d.lru_keys) = L1!ToSet(c.lru_keys) \cup {q}
    <3> DEFINE k == c.lru_keys
    <3>1. k \in Seq(Query) /\ q \in L1!ToSet(k) /\ Distinct(k)
      BY <1>1, <2>1
    <3> HIDE DEF k
    <3>2. /\ L1!ToFront(k, q) \in Seq(Query)
          /\ Len(L1!ToFront(k, q)) = Len(k)
          /\ Distinct(L1!ToFront(k, q))
          /\ L1!ToSet(L1!ToFront(k, q)) = L1!ToSet(k) \cup {q}
      BY <3>1, FrontOfList
    <3>3. QED
      BY <2>2, <3>2 DEF k
  <2>4. d \in Cache
    BY <1>1, <2>2, <2>3 DEF Cache
  <2>5. L1!Consistent(d)
    BY <1>1, <2>1, <2>2, <2>3 DEF L1!Consistent, L1!Keys, Distinct
  <2>6. QED
    BY <2>2, <2>4, <2>5
<1>3. CASE ~L1!Hit(c, q, t)
  <2>1. d = [lru_keys |-> L1!Erase(c.lru_keys, q), entries |-> L1!Without(c.entries, q)]
    BY <1>3 DEF L1!AfterGet
  <2>2. d.lru_keys = L1!Erase(c.lru_keys, q) /\ d.entries = L1!Without(c.entries, q)
    BY <2>1
  <2>3. /\ d.lru_keys \in Seq(Query)
        /\ Len(d.lru_keys) <= Len(c.lru_keys)
        /\ Distinct(d.lru_keys)
        /\ L1!ToSet(d.lru_keys) = L1!ToSet(c.lru_keys) \ {q}
        /\ Len(d.lru_keys) \in Nat
    BY <1>1, <2>2, EraseFromList, LenProperties
  <2>4. /\ d.entries \in EntryMap /\ DOMAIN d.entries = DOMAIN c.entries \ {q}
        /\ \A j \in DOMAIN c.entries \ {q} : d.entries[j] = c.entries[j]
    <3>1. IsWithout(d.entries, c.entries, q)
      BY <1>1, <2>2, MapWithout
    <3>2. QED
      BY <3>1 DEF IsWithout
  <2>5. d \in Cache
    BY <2>1, <2>2, <2>3, <2>4 DEF Cache
  <2>6. L1!Consistent(d)
    BY <1>1, <2>3, <2>4 DEF L1!Consistent, L1!Keys, Distinct
  <2>7. QED
    BY <2>4, <2>5, <2>6
<1>4. QED
  BY <1>2, <1>3

\* put keeps the list and the map in agreement and within the capacity, and changes
\* no entry but that of its key.
LEMMA PutKeepsAgreement ==
    ASSUME NEW c \in Cache, L1!Consistent(c), NEW q \in Query, NEW r \in Result,
           NEW t \in 0..MaxTime
    PROVE  LET d == L1!AfterPut(c, q, r, t)
           IN  /\ d \in Cache
               /\ L1!Consistent(d)
               /\ \A j \in DOMAIN d.entries :
                     \/ j = q /\ d.entries[j] = [value |-> r, expires_at |-> t + LocalTtl]
                     \/ j \in DOMAIN c.entries /\ d.entries[j] = c.entries[j]
<1> DEFINE d == L1!AfterPut(c, q, r, t)
           e == [value |-> r, expires_at |-> t + LocalTtl]
           m == L1!With(c.entries, q, e)
           s == L1!ToFront(c.lru_keys, q)
<1>1. /\ c.lru_keys \in Seq(Query) /\ c.entries \in EntryMap
      /\ Distinct(c.lru_keys) /\ L1!ToSet(c.lru_keys) = DOMAIN c.entries
      /\ Len(c.lru_keys) <= LocalCapacity
      /\ Len(c.lru_keys) \in Nat /\ LocalCapacity \in Nat \ {0}
  BY LenProperties, CacheAssumption DEF Cache, L1!Consistent, L1!Keys, Distinct
<1>2. e \in Entry
  BY CacheAssumption DEF Entry
<1> DEFINE k == c.lru_keys
           n == c.entries
<1>k. k \in Seq(Query) /\ Distinct(k) /\ n \in EntryMap
  BY <1>1
<1> HIDE DEF e, k, n
<1>3. /\ s \in Seq(Query) /\ s # <<>> /\ Len(s) <= Len(c.lru_keys) + 1
      /\ Distinct(s) /\ L1!ToSet(s) = L1!ToSet(c.lru_keys) \cup {q}
      /\ Len(s) \in Nat
  <2>1. /\ L1!ToFront(k, q) \in Seq(Query) /\ L1!ToFront(k, q) # <<>>
        /\ Len(L1!ToFront(k, q)) <= Len(k) + 1
        /\ Distinct(L1!ToFront(k, q))
        /\ L1!ToSet(L1!ToFront(k, q)) = L1!ToSet(k) \cup {q}
    BY <1>k, FrontOfList
  <2>2. Len(L1!ToFront(k, q)) \in Nat
    BY <2>1, LenProperties
  <2>3. QED
    BY <2>1, <2>2 DEF k
<1>4. /\ m \in EntryMap /\ DOMAIN m = DOMAIN c.entries \cup {q}
      /\ \A j \in DOMAIN c.entries \cup {q} : m[j] = IF j = q THEN e ELSE c.entries[j]
  <2>1. IsWith(L1!With(n, q, e), n, q, e)
    BY <1>2, <1>k, MapWith
  <2>2. QED
    BY <2>1 DEF n, IsWith
<1>5. d = IF Len(s) > LocalCapacity
          THEN [lru_keys |-> L1!Front(s), entries |-> L1!Without(m, L1!Last(s))]
          ELSE [lru_keys |-> s, entries |-> m]
  BY DEF L1!AfterPut, e
<1> HIDE DEF d, m, s
<1>6. CASE Len(s) > LocalCapacity
  <2>1. /\ d = [lru_keys |-> L1!Front(s), entries |-> L1!Without(m, L1!Last(s))]
        /\ d.lru_keys = L1!Front(s) /\ d.entries = L1!Without(m, L1!Last(s))
    BY <1>5, <1>6
  <2>2. /\ d.lru_keys \in Seq(Query) /\ Len(d.lru_keys) = Len(s) - 1
        /\ L1!Last(s) \in Query
        /\ Distinct(d.lru_keys) /\ L1!ToSet(d.lru_keys) = L1!ToSet(s) \ {L1!Last(s)}
    BY <1>3, <2>1, BackOfList
  <2>3. /\ d.entries \in EntryMap /\ DOMAIN d.entries = DOMAIN m \ {L1!Last(s)}
        /\ \A j \in DOMAIN m \ {L1!Last(s)} : d.entries[j] = m[j]
    <3>1. IsWithout(d.entries, m, L1!Last(s))
      BY <1>4, <2>1, MapWithout
    <3>2. QED
      BY <3>1 DEF IsWithout
  <2>4. d \in Cache
    BY <2>1, <2>2, <2>3 DEF Cache
  <2>5. Len(d.lru_keys) <= LocalCapacity
    BY <1>1, <1>3, <2>2
  <2>6. L1!Consistent(d)
    BY <1>1, <1>3, <1>4, <2>2, <2>3, <2>5 DEF L1!Consistent, L1!Keys, Distinct
  <2>7. QED
    BY <1>4, <2>3, <2>4, <2>6 DEF d, e
<1>7. CASE ~(Len(s) > LocalCapacity)
  <2>1. d = [lru_keys |-> s, entries |-> m] /\ d.lru_keys = s /\ d.entries = m
    BY <1>5, <1>7
  <2>2. d \in Cache
    BY <1>3, <1>4, <2>1 DEF Cache
  <2>3. Len(d.lru_keys) <= LocalCapacity
    BY <1>1, <1>3, <1>7, <2>1
  <2>4. L1!Consistent(d)
    BY <1>1, <1>3, <1>4, <2>1, <2>3 DEF L1!Consistent, L1!Keys, Distinct
  <2>5. QED
    BY <1>4, <2>1, <2>2, <2>4 DEF d, e
<1>8. QED
  BY <1>6, <1>7

--------------------------------------------------------------------------------
(* The invariant.                                                            *)

\* No entry outlives the result in it by more than both lifetimes and the way
\* from one cache to the other.
Good(c) ==
    /\ c \in Cache
    /\ L1!Consistent(c)
    /\ \A q \in DOMAIN c.entries :
          c.entries[q].expires_at < c.entries[q].value.written + RedisTtl + RoundTrip + LocalTtl

\* The parts of TypeOK that the caches do not touch; Redis has nothing expired.
RestTyped ==
    /\ now \in 0..MaxTime
    /\ docs \in [Instance -> 1..MaxDocs] /\ mode \in [Instance -> Mode]
    /\ DOMAIN redis \subseteq Query
    /\ \A q \in DOMAIN redis : redis[q] \in Result /\ now < redis[q].written + RedisTtl
    /\ late \subseteq Command
    /\ context_ \in [Thread -> BOOLEAN]

ThreadsTyped ==
    /\ pc \in [Thread -> {"idle", "get", "reply", "search", "set"}]
    /\ query \in [Thread -> Query]
    /\ used \in [Thread -> Seq(Query)]
    /\ answer \in [Thread -> SUBSET Answer]
    /\ \A th \in Thread : pc[th] \in {"get", "reply", "set"} => mode[th[1]] = "LocalAndRedis"

\* Redis still had what it answered, and that is at most a round trip ago.
Timely(messages) ==
    \A m \in messages : /\ m.at < m.value.written + RedisTtl
                       /\ now <= m.at + RoundTrip

RepliesTimely ==
    /\ reply \in [Thread -> SUBSET Message]
    /\ \A th \in Thread : Timely(reply[th])

CachesGood ==
    /\ local_cache = [th \in Thread |-> local_cache[th]]
    /\ \A th \in Thread : Good(local_cache[th])

IInv == RestTyped /\ ThreadsTyped /\ RepliesTimely /\ CachesGood /\ StaleBound

\* The invariant contains the properties.
LEMMA InvariantSuffices == IInv => TypeOK /\ ListMatchesMap /\ StaleBound
<1> SUFFICES ASSUME IInv PROVE TypeOK /\ ListMatchesMap /\ StaleBound
  OBVIOUS
<1>1. ListMatchesMap /\ StaleBound
  BY DEF IInv, CachesGood, Good, ListMatchesMap
<1>2. ASSUME NEW th \in Thread
      PROVE  /\ local_cache[th].lru_keys \in Seq(Query)
             /\ DOMAIN local_cache[th].entries \subseteq Query
             /\ \A q \in DOMAIN local_cache[th].entries : local_cache[th].entries[q] \in Entry
  <2>1. local_cache[th] \in Cache
    BY DEF IInv, CachesGood, Good
  <2>2. local_cache[th].lru_keys \in Seq(Query) /\ local_cache[th].entries \in EntryMap
    BY <2>1 DEF Cache
  <2>3. PICK D \in SUBSET Query : local_cache[th].entries \in [D -> Entry]
    BY <2>2 DEF EntryMap
  <2>4. QED
    BY <2>2, <2>3
<1>3. QED
  BY <1>1, <1>2 DEF IInv, RestTyped, ThreadsTyped, RepliesTimely, TypeOK

\* A get prolongs no life (LruCache.cc, get).
LEMMA GetKeepsGood ==
    ASSUME NEW c, Good(c), NEW q \in Query, NEW t \in Nat
    PROVE  Good(L1!AfterGet(c, q, t))
<1> DEFINE d == L1!AfterGet(c, q, t)
<1>1. c \in Cache /\ L1!Consistent(c)
  BY DEF Good
<1>2. /\ d \in Cache /\ L1!Consistent(d)
      /\ \A j \in DOMAIN d.entries : j \in DOMAIN c.entries /\ d.entries[j] = c.entries[j]
  BY <1>1, GetKeepsAgreement
<1> HIDE DEF d
<1>3. Good(d)
  BY <1>2 DEF Good
<1>4. QED
  BY <1>3 DEF d

\* A put gives a full local life to a result that Redis had a round trip ago.
LEMMA PutKeepsGood ==
    ASSUME NEW c, Good(c), NEW q \in Query, NEW r \in Result, NEW t \in 0..MaxTime,
           t < r.written + RedisTtl + RoundTrip
    PROVE  Good(L1!AfterPut(c, q, r, t))
<1> DEFINE d == L1!AfterPut(c, q, r, t)
<1>1. c \in Cache /\ L1!Consistent(c)
  BY DEF Good
<1>2. /\ d \in Cache /\ L1!Consistent(d)
      /\ \A j \in DOMAIN d.entries :
            \/ j = q /\ d.entries[j] = [value |-> r, expires_at |-> t + LocalTtl]
            \/ j \in DOMAIN c.entries /\ d.entries[j] = c.entries[j]
  BY <1>1, PutKeepsAgreement
<1> HIDE DEF d
<1>3. ASSUME NEW j \in DOMAIN d.entries
      PROVE  d.entries[j].expires_at < d.entries[j].value.written + RedisTtl + RoundTrip + LocalTtl
  <2>1. CASE d.entries[j] = [value |-> r, expires_at |-> t + LocalTtl]
    <3>1. d.entries[j].expires_at = t + LocalTtl /\ d.entries[j].value.written = r.written
      BY <2>1
    <3>2. r.written \in Nat /\ t \in Nat /\ LocalTtl \in Nat /\ RedisTtl \in Nat /\ RoundTrip \in Nat
      BY CacheAssumption DEF Result
    <3>3. QED
      BY <3>1, <3>2
  <2>2. CASE j \in DOMAIN c.entries /\ d.entries[j] = c.entries[j]
    BY <2>2 DEF Good
  <2>3. QED
    BY <1>2, <2>1, <2>2
<1>4. Good(d)
  BY <1>2, <1>3 DEF Good
<1>5. QED
  BY <1>4 DEF d

\* One thread has a new, good L1.
LEMMA CacheReplaced ==
    ASSUME CachesGood, NEW th \in Thread, NEW c, Good(c),
           local_cache' = [local_cache EXCEPT ![th] = c]
    PROVE  CachesGood'
<1>1. local_cache' = [u \in Thread |-> IF u = th THEN c ELSE local_cache[u]]
  BY DEF CachesGood
<1>2. \A u \in Thread : Good(local_cache'[u])
  BY <1>1 DEF CachesGood
<1>3. local_cache' = [u \in Thread |-> local_cache'[u]]
  BY <1>1
<1>4. CachesGood' <=> /\ local_cache' = [u \in Thread |-> local_cache'[u]]
                      /\ \A u \in Thread : Good(local_cache'[u])
  BY DEF CachesGood, Good, L1!Consistent, L1!Keys
<1>5. QED
  BY <1>2, <1>3, <1>4

\* No L1 changes.
LEMMA CachesKept ==
    ASSUME CachesGood, UNCHANGED local_cache
    PROVE  CachesGood'
BY DEF CachesGood, Good, L1!Consistent, L1!Keys

\* One thread answers with a result that is young enough (Finish; Search).
LEMMA AnswerGiven ==
    ASSUME IInv, NEW th \in Thread, NEW r \in Result,
           now - r.written < RedisTtl + RoundTrip + LocalTtl,
           answer' = [answer EXCEPT ![th] = Given(r)]
    PROVE  answer' \in [Thread -> SUBSET Answer] /\ StaleBound'
<1> DEFINE a == [docs |-> r.docs, age |-> now - r.written]
<1>1. a \in Answer /\ a.age < RedisTtl + RoundTrip + LocalTtl /\ Given(r) = {a}
  BY DEF IInv, RestTyped, Answer, Result, Given
<1> HIDE DEF a
<1>2. /\ answer' \in [Thread -> SUBSET Answer]
      /\ answer'[th] = {a}
      /\ \A u \in Thread : u # th => answer'[u] = answer[u]
  BY <1>1 DEF IInv, ThreadsTyped
<1>3. ASSUME NEW u \in Thread, NEW b \in answer'[u]
      PROVE  b.age < RedisTtl + RoundTrip + LocalTtl
  <2>1. CASE u = th
    BY <1>1, <1>2, <2>1
  <2>2. CASE u # th
    BY <1>2, <2>2 DEF IInv, StaleBound
  <2>3. QED
    BY <2>1, <2>2
<1>4. QED
  BY <1>2, <1>3 DEF StaleBound

\* One thread has no answer yet.
LEMMA AnswerForgotten ==
    ASSUME IInv, NEW th \in Thread, answer' = [answer EXCEPT ![th] = {}]
    PROVE  answer' \in [Thread -> SUBSET Answer] /\ StaleBound'
<1>1. /\ answer' \in [Thread -> SUBSET Answer]
      /\ answer'[th] = {}
      /\ \A u \in Thread : u # th => answer'[u] = answer[u]
  BY DEF IInv, ThreadsTyped
<1>2. QED
  BY <1>1 DEF IInv, StaleBound

\* One thread has a timely reply or none, and the clock stands.
LEMMA ReplyGiven ==
    ASSUME IInv, NEW th \in Thread, NEW messages \in SUBSET Message, Timely(messages),
           reply' = [reply EXCEPT ![th] = messages], now' = now
    PROVE  RepliesTimely'
<1>1. /\ reply' \in [Thread -> SUBSET Message]
      /\ reply'[th] = messages
      /\ \A u \in Thread : u # th => reply'[u] = reply[u]
  BY DEF IInv, RepliesTimely
<1>2. ASSUME NEW u \in Thread, NEW m \in reply'[u]
      PROVE  m.at < m.value.written + RedisTtl /\ now' <= m.at + RoundTrip
  BY <1>1 DEF IInv, RepliesTimely, Timely
<1>3. QED
  BY <1>1, <1>2 DEF RepliesTimely, Timely

\* The clock and the replies stand.
LEMMA RepliesKept ==
    ASSUME IInv, UNCHANGED <<now, reply>>
    PROVE  RepliesTimely'
BY DEF IInv, RepliesTimely, Timely

\* One thread uses a key (the history of LruCache.cc).
LEMMA KeyUsed ==
    ASSUME IInv, NEW th \in Thread, NEW q \in Query,
           used' = [used EXCEPT ![th] = L1!ToFront(@, q)]
    PROVE  used' \in [Thread -> Seq(Query)]
<1>1. used \in [Thread -> Seq(Query)] /\ used[th] \in Seq(Query)
  BY DEF IInv, ThreadsTyped
<1>2. L1!ToFront(used[th], q) \in Seq(Query)
  BY <1>1, FrontOfList
<1>3. QED
  BY <1>1, <1>2

\* A command reaches Redis.
LEMMA StoreKeepsType ==
    ASSUME IInv, NEW c \in Command, Store(c), now' = now
    PROVE  /\ DOMAIN redis' \subseteq Query
           /\ \A q \in DOMAIN redis' :
                 redis'[q] \in Result /\ now' < redis'[q].written + RedisTtl
<1>1. c.query \in Query /\ c.docs \in 1..MaxDocs /\ now \in 0..MaxTime
  BY DEF Command, IInv, RestTyped
<1>2. /\ DOMAIN redis \subseteq Query
      /\ \A q \in DOMAIN redis : redis[q] \in Result /\ now < redis[q].written + RedisTtl
  BY DEF IInv, RestTyped
<1>3. redis' = [q \in DOMAIN redis \cup {c.query} |->
        IF q = c.query THEN [query |-> q, docs |-> c.docs, written |-> now] ELSE redis[q]]
  BY DEF Store
<1>4. DOMAIN redis' = DOMAIN redis \cup {c.query}
  BY <1>3
<1>5. ASSUME NEW q \in DOMAIN redis \cup {c.query} 
      PROVE  redis'[q] \in Result /\ now' < redis'[q].written + RedisTtl
  <2>1. CASE q = c.query
    <3>1. redis'[q] = [query |-> q, docs |-> c.docs, written |-> now]
      BY <1>3, <2>1
    <3>2. RedisTtl \in Nat \ {0}
      BY CacheAssumption
    <3>3. QED
      BY <1>1, <2>1, <3>1, <3>2 DEF Result
  <2>2. CASE q # c.query
    BY <1>2, <1>3, <2>2
  <2>3. QED
    BY <2>1, <2>2
<1>6. QED
  BY <1>1, <1>2, <1>4, <1>5

\* The lifetimes and the bounds, as numbers.
LEMMA Numbers ==
    ASSUME IInv
    PROVE  /\ now \in Nat /\ now \in 0..MaxTime
           /\ RedisTtl \in Nat \ {0} /\ LocalTtl \in Nat \ {0}
           /\ RoundTrip \in Nat /\ MaxTime \in Nat
BY CacheAssumption DEF IInv, RestTyped

--------------------------------------------------------------------------------
(* The steps.                                                                *)

\* SearchCache::get up to the L1.
LEMMA LocalGetKeeps ==
    ASSUME IInv, NEW th \in Thread, NEW q \in Query, LocalGet(th, q)
    PROVE  IInv'
<1>1. /\ query' = [query EXCEPT ![th] = q] /\ query' \in [Thread -> Query]
      /\ UNCHANGED <<now, docs, mode, redis, late, context_, reply>>
      /\ pc[th] = "idle" /\ th[1] \in Instance /\ mode[th[1]] \in Mode
  BY DEF LocalGet, IInv, ThreadsTyped, RestTyped, Thread
<1>2. RestTyped' /\ RepliesTimely'
  BY <1>1, RepliesKept DEF IInv, RestTyped
<1>3. CASE mode[th[1]] = "Disabled"
  <2>1. /\ pc' = [pc EXCEPT ![th] = "search"] /\ answer' = [answer EXCEPT ![th] = {}]
        /\ UNCHANGED <<local_cache, used>>
    BY <1>3 DEF LocalGet
  <2>2. ThreadsTyped' /\ StaleBound'
    BY <1>1, <2>1, AnswerForgotten DEF IInv, ThreadsTyped
  <2>3. CachesGood'
    BY <2>1, CachesKept DEF IInv
  <2>4. QED
    BY <1>2, <2>2, <2>3 DEF IInv
<1>4. CASE mode[th[1]] # "Disabled"
  <2>1. local_cache' = [local_cache EXCEPT ![th] = L1!AfterGet(local_cache[th], q, now)]
    BY <1>4 DEF LocalGet
  <2>2. CachesGood'
    <3>1. Good(local_cache[th]) /\ now \in Nat
      BY Numbers DEF IInv, CachesGood
    <3>2. Good(L1!AfterGet(local_cache[th], q, now))
      BY <3>1, GetKeepsGood
    <3>3. QED
      BY <2>1, <3>2, CacheReplaced DEF IInv
  <2>3. CASE L1!Hit(local_cache[th], q, now)
    <3>1. /\ Finish(th, local_cache[th].entries[q].value)
          /\ used' = [used EXCEPT ![th] = L1!ToFront(@, q)]
      BY <1>4, <2>3 DEF LocalGet
    <3> DEFINE e == local_cache[th].entries[q]
    <3>2. q \in DOMAIN local_cache[th].entries /\ now < e.expires_at
      BY <2>3 DEF L1!Hit, L1!Keys
    <3>3. e \in Entry /\ e.expires_at < e.value.written + RedisTtl + RoundTrip + LocalTtl
      BY <3>2, InvariantSuffices DEF TypeOK, IInv, CachesGood, Good
    <3> HIDE DEF e
    <3>4. e.value \in Result /\ e.expires_at \in Int /\ e.value.written \in Int
      BY <3>3, CacheAssumption DEF Entry, Result
    <3>5. now - e.value.written < RedisTtl + RoundTrip + LocalTtl
      BY <3>2, <3>3, <3>4, Numbers
    <3>6. answer' \in [Thread -> SUBSET Answer] /\ StaleBound'
      BY <3>1, <3>4, <3>5, AnswerGiven DEF Finish, e
    <3>7. used' \in [Thread -> Seq(Query)]
      BY <3>1, KeyUsed
    <3>8. ThreadsTyped'
      BY <1>1, <3>1, <3>6, <3>7 DEF IInv, ThreadsTyped, Finish
    <3>9. QED
      BY <1>2, <2>2, <3>6, <3>8 DEF IInv
  <2>4. CASE ~L1!Hit(local_cache[th], q, now)
    <3>1. /\ pc' = [pc EXCEPT ![th] = AfterMiss(th[1])]
          /\ answer' = [answer EXCEPT ![th] = {}] /\ UNCHANGED used
      BY <1>4, <2>4 DEF LocalGet
    <3>2. AfterMiss(th[1]) \in {"get", "search"}
          /\ (AfterMiss(th[1]) = "get" => mode[th[1]] = "LocalAndRedis")
      BY <1>1, <1>4, CacheAssumption DEF AfterMiss
    <3>3. ThreadsTyped' /\ StaleBound'
      BY <1>1, <3>1, <3>2, AnswerForgotten DEF IInv, ThreadsTyped
    <3>4. QED
      BY <1>2, <2>2, <3>3 DEF IInv
  <2>5. QED
    BY <2>3, <2>4
<1>5. QED
  BY <1>3, <1>4

\* RedisClient::get, as far as Redis's answer.
LEMMA RedisGetKeeps ==
    ASSUME IInv, NEW th \in Thread, RedisGet(th)
    PROVE  IInv'
<1> DEFINE messages == {[value |-> redis[q], at |-> now] : q \in DOMAIN redis \cap {query[th]}}
<1>1. /\ pc' = [pc EXCEPT ![th] = "reply"] /\ pc[th] = "get"
      /\ context_' = [context_ EXCEPT ![th] = TRUE]
      /\ reply' = [reply EXCEPT ![th] = messages]
      /\ UNCHANGED <<now, docs, mode, redis, late, query, local_cache, used, answer>>
  BY DEF RedisGet
<1>2. RestTyped' /\ ThreadsTyped'
  BY <1>1 DEF IInv, RestTyped, ThreadsTyped
<1>3. CachesGood' /\ StaleBound'
  BY <1>1, CachesKept DEF IInv, StaleBound
<1>4. ASSUME NEW m \in messages
      PROVE  m \in Message /\ m.at < m.value.written + RedisTtl /\ now <= m.at + RoundTrip
  <2>1. PICK q \in DOMAIN redis : m = [value |-> redis[q], at |-> now]
    BY <1>4
  <2>2. redis[q] \in Result /\ now < redis[q].written + RedisTtl /\ now \in 0..MaxTime
    BY DEF IInv, RestTyped
  <2>3. m.at = now /\ m.value = redis[q] /\ m \in Message
    BY <2>1, <2>2 DEF Message
  <2>4. now <= now + RoundTrip
    BY Numbers
  <2>5. QED
    BY <2>2, <2>3, <2>4
<1> HIDE DEF messages
<1>5. messages \in SUBSET Message /\ Timely(messages)
  BY <1>4 DEF Timely
<1>6. RepliesTimely'
  BY <1>1, <1>5, ReplyGiven
<1>7. QED
  BY <1>2, <1>3, <1>6 DEF IInv

\* Its arrival, with what it becomes.
LEMMA RedisReplyKeeps ==
    ASSUME IInv, NEW th \in Thread, RedisReply(th)
    PROVE  IInv'
<1> DEFINE q == query[th]
<1>1. /\ q \in Query /\ reply' = [reply EXCEPT ![th] = {}]
      /\ UNCHANGED <<now, docs, mode, redis, late, query, context_>>
  BY DEF RedisReply, IInv, ThreadsTyped
<1>2. RestTyped' /\ RepliesTimely'
  <2>1. {} \in SUBSET Message /\ Timely({})
    BY DEF Timely
  <2>2. QED
    BY <1>1, <2>1, ReplyGiven DEF IInv, RestTyped
<1>3. ASSUME pc' = [pc EXCEPT ![th] = "search"], UNCHANGED <<local_cache, used, answer>>
      PROVE  IInv'
  <2>1. ThreadsTyped'
    BY <1>1, <1>3 DEF IInv, ThreadsTyped
  <2>2. CachesGood' /\ StaleBound'
    BY <1>3, CachesKept DEF IInv, StaleBound
  <2>3. QED
    BY <1>2, <2>1, <2>2 DEF IInv
<1>4. ASSUME NEW m \in reply[th],
             local_cache' = [local_cache EXCEPT ![th] = L1!AfterPut(@, query[th], m.value, now)],
             used' = [used EXCEPT ![th] = L1!ToFront(@, query[th])],
             Finish(th, m.value)
      PROVE  IInv'
  <2> DEFINE r == m.value
  <2>1. /\ r \in Result /\ r.written \in Nat /\ m.at \in Nat
        /\ m.at < r.written + RedisTtl /\ now <= m.at + RoundTrip
    <3>1. m \in Message /\ m.at < m.value.written + RedisTtl /\ now <= m.at + RoundTrip
      BY DEF IInv, RepliesTimely, Timely
    <3>2. QED
      BY <3>1 DEF Message, Result
  <2>2. /\ local_cache' = [local_cache EXCEPT ![th] = L1!AfterPut(local_cache[th], q, r, now)]
        /\ used' = [used EXCEPT ![th] = L1!ToFront(@, q)]
        /\ pc' = [pc EXCEPT ![th] = "idle"] /\ answer' = [answer EXCEPT ![th] = Given(r)]
    BY <1>4 DEF Finish
  <2> HIDE DEF r, q
  <2>3. /\ now < r.written + RedisTtl + RoundTrip
        /\ now - r.written < RedisTtl + RoundTrip + LocalTtl
    <3>1. PICK a \in Nat : m.at = a
      BY <2>1
    <3>2. QED
      BY <2>1, <3>1, Numbers
  <2>4. CachesGood'
    <3>1. Good(local_cache[th])
      BY DEF IInv, CachesGood
    <3>2. Good(L1!AfterPut(local_cache[th], q, r, now))
      BY <1>1, <2>1, <2>3, <3>1, PutKeepsGood, Numbers
    <3>3. QED
      BY <2>2, <3>2, CacheReplaced DEF IInv
  <2>5. answer' \in [Thread -> SUBSET Answer] /\ StaleBound'
    BY <2>1, <2>2, <2>3, AnswerGiven
  <2>6. used' \in [Thread -> Seq(Query)]
    BY <1>1, <2>2, KeyUsed
  <2>7. ThreadsTyped'
    BY <1>1, <2>2, <2>5, <2>6 DEF IInv, ThreadsTyped
  <2>8. QED
    BY <1>2, <2>4, <2>5, <2>7 DEF IInv
<1>5. QED
  BY <1>3, <1>4 DEF RedisReply

\* RedisClient::get without one.
LEMMA RedisGetFailsKeeps ==
    ASSUME IInv, NEW th \in Thread, RedisGetFails(th)
    PROVE  IInv'
<1>1. RestTyped' /\ ThreadsTyped'
  BY DEF RedisGetFails, IInv, RestTyped, ThreadsTyped
<1>2. CachesGood' /\ StaleBound'
  BY CachesKept DEF RedisGetFails, IInv, StaleBound
<1>3. RepliesTimely'
  <2>1. {} \in SUBSET Message /\ Timely({})
    BY DEF Timely
  <2>2. QED
    BY <2>1, ReplyGiven DEF RedisGetFails
<1>4. QED
  BY <1>1, <1>2, <1>3 DEF IInv

\* The search itself, and what its result becomes.
LEMMA SearchKeeps ==
    ASSUME IInv, NEW th \in Thread, Search(th)
    PROVE  IInv'
<1> DEFINE q == query[th]
           r == [query |-> q, docs |-> docs[th[1]], written |-> now]
<1>1. /\ q \in Query /\ r \in Result /\ r.written = now
      /\ UNCHANGED <<now, docs, mode, redis, late, query, context_, reply>>
  BY DEF Search, IInv, ThreadsTyped, RestTyped, Result, Thread
<1>2. RestTyped' /\ RepliesTimely'
  BY <1>1, RepliesKept DEF IInv, RestTyped
<1>3. /\ answer' = [answer EXCEPT ![th] = Given(r)]
      /\ pc' = [pc EXCEPT ![th] = IF mode[th[1]] = "LocalAndRedis" THEN "set" ELSE "idle"]
      /\ IF mode[th[1]] = "Disabled"
         THEN UNCHANGED <<local_cache, used>>
         ELSE /\ local_cache' = [local_cache EXCEPT ![th] = L1!AfterPut(local_cache[th], q, r, now)]
              /\ used' = [used EXCEPT ![th] = L1!ToFront(@, q)]
  BY DEF Search
<1> HIDE DEF q, r
<1>4. answer' \in [Thread -> SUBSET Answer] /\ StaleBound'
  <2>1. now - r.written < RedisTtl + RoundTrip + LocalTtl
    BY <1>1, Numbers
  <2>2. QED
    BY <1>1, <1>3, <2>1, AnswerGiven
<1>5. CachesGood'
  <2>1. CASE mode[th[1]] = "Disabled"
    BY <1>3, <2>1, CachesKept DEF IInv
  <2>2. CASE mode[th[1]] # "Disabled"
    <3>1. Good(local_cache[th]) /\ now < r.written + RedisTtl + RoundTrip /\ now \in 0..MaxTime
      BY <1>1, Numbers DEF IInv, CachesGood
    <3>2. Good(L1!AfterPut(local_cache[th], q, r, now))
      BY <1>1, <3>1, PutKeepsGood
    <3>3. QED
      BY <1>3, <2>2, <3>2, CacheReplaced DEF IInv
  <2>3. QED
    BY <2>1, <2>2
<1>6. used' \in [Thread -> Seq(Query)]
  <2>1. CASE mode[th[1]] = "Disabled"
    BY <1>3, <2>1 DEF IInv, ThreadsTyped
  <2>2. CASE mode[th[1]] # "Disabled"
    BY <1>1, <1>3, <2>2, KeyUsed
  <2>3. QED
    BY <2>1, <2>2
<1>7. ThreadsTyped'
  BY <1>1, <1>3, <1>4, <1>6 DEF IInv, ThreadsTyped
<1>8. QED
  BY <1>2, <1>4, <1>5, <1>7 DEF IInv

\* setEx, with each of its outcomes.
LEMMA RedisSetKeeps ==
    ASSUME IInv, NEW th \in Thread, RedisSet(th)
    PROVE  IInv'
<1> DEFINE c == [query |-> query[th], docs |-> docs[th[1]]]
<1>1. /\ pc' = [pc EXCEPT ![th] = "idle"]
      /\ UNCHANGED <<now, docs, mode, query, local_cache, reply, used, answer>>
      /\ c \in Command
  BY DEF RedisSet, Command, IInv, RestTyped, ThreadsTyped, Thread
<1>2. \/ Store(c) /\ context_' = [context_ EXCEPT ![th] = TRUE] /\ UNCHANGED late
      \/ /\ late' \in {late, late \cup {c}}
         /\ context_' = [context_ EXCEPT ![th] = FALSE]
         /\ UNCHANGED redis
  BY DEF RedisSet
<1> HIDE DEF c
<1>3. RestTyped'
  <2>1. CASE Store(c) /\ context_' = [context_ EXCEPT ![th] = TRUE] /\ UNCHANGED late
    <3>1. /\ DOMAIN redis' \subseteq Query
          /\ \A q \in DOMAIN redis' :
                redis'[q] \in Result /\ now' < redis'[q].written + RedisTtl
      BY <1>1, <2>1, StoreKeepsType
    <3>2. QED
      BY <1>1, <2>1, <3>1 DEF IInv, RestTyped
  <2>2. CASE /\ late' \in {late, late \cup {c}}
             /\ context_' = [context_ EXCEPT ![th] = FALSE]
             /\ UNCHANGED redis
    BY <1>1, <2>2 DEF IInv, RestTyped
  <2>3. QED
    BY <1>2, <2>1, <2>2
<1>4. ThreadsTyped'
  BY <1>1 DEF IInv, ThreadsTyped
<1>5. CachesGood' /\ StaleBound' /\ RepliesTimely'
  BY <1>1, CachesKept, RepliesKept DEF IInv, StaleBound
<1>6. QED
  BY <1>3, <1>4, <1>5 DEF IInv

\* A cache with nothing in it is good.
LEMMA EmptyIsGood == Good(L1!Empty)
<1>1. L1!Empty.lru_keys = <<>> /\ L1!Empty.entries = <<>> /\ DOMAIN <<>> = {}
  BY DEF L1!Empty
<1>2. <<>> \in EntryMap
  <2>1. <<>> \in [{} -> Entry]
    BY <1>1
  <2>2. QED
    BY <2>1 DEF EntryMap
<1>3. L1!Empty \in Cache
  BY <1>2 DEF L1!Empty, Cache
<1>4. L1!Consistent(L1!Empty)
  <2>1. L1!ToSet(<<>>) = {}
    BY <1>1 DEF L1!ToSet
  <2>2. Len(<<>>) <= LocalCapacity
    BY CacheAssumption
  <2>3. QED
    BY <1>1, <2>1, <2>2 DEF L1!Consistent, L1!Keys
<1>5. QED
  BY <1>1, <1>3, <1>4 DEF Good

\* An instance ends and starts again with empty caches.
LEMMA RestartKeeps ==
    ASSUME IInv, NEW i \in Instance, Restart(i)
    PROVE  IInv'
<1>1. PICK m \in Mode : mode' = [mode EXCEPT ![i] = m]
  BY DEF Restart
<1>2. /\ \E d \in 1..MaxDocs : docs' = [docs EXCEPT ![i] = d]
      /\ pc' = [th \in Thread |-> IF th[1] = i THEN "idle" ELSE pc[th]]
      /\ local_cache' = [th \in Thread |-> IF th[1] = i THEN L1!Empty ELSE local_cache[th]]
      /\ context_' = [th \in Thread |-> IF th[1] = i THEN FALSE ELSE context_[th]]
      /\ reply' = [th \in Thread |-> IF th[1] = i THEN {} ELSE reply[th]]
      /\ used' = [th \in Thread |-> IF th[1] = i THEN <<>> ELSE used[th]]
      /\ answer' = [th \in Thread |-> IF th[1] = i THEN {} ELSE answer[th]]
      /\ UNCHANGED <<now, redis, late, query>>
  BY DEF Restart
<1>3. RestTyped'
  BY <1>1, <1>2 DEF IInv, RestTyped
<1>4. ThreadsTyped'
  <2>1. pc' \in [Thread -> {"idle", "get", "reply", "search", "set"}] /\ query' \in [Thread -> Query]
    BY <1>2 DEF IInv, ThreadsTyped
  <2>2. used' \in [Thread -> Seq(Query)]
    BY <1>2, EmptySeq DEF IInv, ThreadsTyped
  <2>3. answer' \in [Thread -> SUBSET Answer]
    BY <1>2 DEF IInv, ThreadsTyped
  <2>4. ASSUME NEW th \in Thread, pc'[th] \in {"get", "reply", "set"}
        PROVE  mode'[th[1]] = "LocalAndRedis"
    <3>1. th[1] # i /\ pc[th] \in {"get", "reply", "set"} /\ th[1] \in Instance
      BY <1>2, <2>4 DEF Thread
    <3>2. QED
      BY <1>1, <3>1 DEF IInv, ThreadsTyped, RestTyped
  <2>5. QED
    BY <2>1, <2>2, <2>3, <2>4 DEF ThreadsTyped
<1>5. CachesGood'
  <2>1. \A th \in Thread : Good(local_cache'[th])
    BY <1>2, EmptyIsGood DEF IInv, CachesGood
  <2>2. local_cache' = [th \in Thread |-> local_cache'[th]]
    BY <1>2
  <2>3. CachesGood' <=> /\ local_cache' = [u \in Thread |-> local_cache'[u]]
                        /\ \A u \in Thread : Good(local_cache'[u])
    BY DEF CachesGood, Good, L1!Consistent, L1!Keys
  <2>4. QED
    BY <2>1, <2>2, <2>3
<1>6. StaleBound' /\ RepliesTimely'
  BY <1>2 DEF IInv, StaleBound, RepliesTimely, Timely
<1>7. QED
  BY <1>3, <1>4, <1>5, <1>6 DEF IInv

\* Redis and the clock.
LEMMA SurroundingsKeep ==
    ASSUME IInv,
           \/ \E c \in late : LateSet(c)
           \/ RedisLosesAll \/ Tick
           \/ UNCHANGED vars
    PROVE  IInv'
<1>1. UNCHANGED <<docs, mode, threadVars>>
  BY DEF LateSet, RedisLosesAll, Tick, vars
<1>2. ThreadsTyped' /\ StaleBound'
  BY <1>1 DEF IInv, ThreadsTyped, StaleBound, threadVars
<1>3. CachesGood'
  BY <1>1, CachesKept DEF IInv, threadVars
<1>4. RestTyped'
  <2>1. CASE \E c \in late : LateSet(c)
    <3>1. PICK c \in late : LateSet(c)
      BY <2>1
    <3>2. c \in Command /\ Store(c) /\ now' = now
      BY <3>1 DEF LateSet, IInv, RestTyped
    <3>3. /\ DOMAIN redis' \subseteq Query
          /\ \A q \in DOMAIN redis' :
                redis'[q] \in Result /\ now' < redis'[q].written + RedisTtl
      BY <3>2, StoreKeepsType
    <3>4. QED
      BY <3>1, <3>3 DEF LateSet, IInv, RestTyped, threadVars
  <2>2. CASE RedisLosesAll
    <3>1. redis' = <<>> /\ DOMAIN <<>> = {}
      BY <2>2 DEF RedisLosesAll
    <3>2. QED
      BY <2>2, <3>1 DEF RedisLosesAll, IInv, RestTyped, threadVars
  <2>3. CASE Tick
    <3>1. now' \in 0..MaxTime /\ now' = now + 1
      BY <2>3, Numbers DEF Tick
    <3>2. redis' = [q \in Live(now + 1) |-> redis[q]] /\ Live(now + 1) \subseteq DOMAIN redis
      BY <2>3 DEF Tick, Live
    <3>3. ASSUME NEW q \in DOMAIN redis'
          PROVE  redis'[q] \in Result /\ now' < redis'[q].written + RedisTtl
      <4>1. q \in DOMAIN redis /\ now + 1 < redis[q].written + RedisTtl /\ redis'[q] = redis[q]
        BY <3>2 DEF Live
      <4>2. QED
        BY <3>1, <4>1 DEF IInv, RestTyped
    <3>4. DOMAIN redis' \subseteq Query
      BY <3>2 DEF IInv, RestTyped
    <3>5. QED
      BY <2>3, <3>1, <3>3, <3>4 DEF Tick, IInv, RestTyped, threadVars
  <2>4. CASE UNCHANGED vars
    BY <2>4 DEF vars, threadVars, IInv, RestTyped
  <2>5. QED
    BY <2>1, <2>2, <2>3, <2>4
<1>5. RepliesTimely'
  <2>1. CASE Tick
    <3>1. ASSUME NEW th \in Thread, NEW m \in reply[th]
          PROVE  m.at < m.value.written + RedisTtl /\ now' <= m.at + RoundTrip
      <4>1. m \in Message /\ m.at < m.value.written + RedisTtl
        BY DEF IInv, RepliesTimely, Timely
      <4>2. PICK a \in Nat : m.at = a
        BY <4>1 DEF Message
      <4>3. now' = now + 1 /\ now < a + RoundTrip
        BY <2>1, <4>2 DEF Tick
      <4>4. now' <= a + RoundTrip
        BY <4>2, <4>3, Numbers
      <4>5. QED
        BY <4>1, <4>2, <4>4
    <3>2. reply' = reply
      BY <1>1 DEF threadVars
    <3>3. QED
      BY <3>1, <3>2 DEF IInv, RepliesTimely, Timely
  <2>2. CASE ~Tick
    <3>1. UNCHANGED <<now, reply>>
      BY <1>1, <2>2 DEF LateSet, RedisLosesAll, vars, threadVars
    <3>2. QED
      BY <3>1, RepliesKept
  <2>3. QED
    BY <2>1, <2>2
<1>6. QED
  BY <1>2, <1>3, <1>4, <1>5 DEF IInv

--------------------------------------------------------------------------------

\* The invariant holds in every state that the processes reach.
THEOREM Invariance == Spec => []IInv
<1>1. Init => IInv
  <2> SUFFICES ASSUME Init PROVE IInv
    OBVIOUS
  <2>1. RestTyped
    <3>1. redis = <<>> /\ DOMAIN <<>> = {}
      BY DEF Init
    <3>2. QED
      BY <3>1, CacheAssumption DEF Init, RestTyped
  <2>2. ThreadsTyped
    <3>1. used \in [Thread -> Seq(Query)]
      BY EmptySeq DEF Init
    <3>2. QED
      BY <3>1 DEF Init, ThreadsTyped
  <2>3. CachesGood
    BY EmptyIsGood DEF Init, CachesGood
  <2>4. StaleBound
    BY DEF Init, StaleBound
  <2>5. RepliesTimely
    BY DEF Init, RepliesTimely, Timely
  <2>6. QED
    BY <2>1, <2>2, <2>3, <2>4, <2>5 DEF IInv
<1>2. IInv /\ [Next]_vars => IInv'
  <2> SUFFICES ASSUME IInv, [Next]_vars PROVE IInv'
    OBVIOUS
  <2>1. ASSUME NEW th \in Thread,
               \/ \E q \in Query : LocalGet(th, q)
               \/ RedisGet(th) \/ RedisReply(th) \/ RedisGetFails(th)
               \/ Search(th) \/ RedisSet(th)
        PROVE  IInv'
    BY <2>1, LocalGetKeeps, RedisGetKeeps, RedisReplyKeeps, RedisGetFailsKeeps,
       SearchKeeps, RedisSetKeeps
  <2>2. ASSUME NEW i \in Instance, Restart(i) PROVE IInv'
    BY <2>2, RestartKeeps
  <2>3. QED
    BY <2>1, <2>2, SurroundingsKeep DEF Next
<1>3. QED
  BY <1>1, <1>2, PTL DEF Spec

\* The variables keep their types.
THEOREM TypeCorrect == Spec => []TypeOK
BY Invariance, InvariantSuffices, PTL

\* The list and the map of every L1 agree (LruCache.cc, get and put).
THEOREM ListsMatchMaps == Spec => []ListMatchesMap
BY Invariance, InvariantSuffices, PTL

\* However many processes and threads share Redis, and whatever it loses, every
\* answer is given within redis_ttl, a round trip and local_ttl of the time its
\* result was computed or last stored in Redis: the two lifetimes add up, and hits
\* and a Redis that is read again add nothing (LruCache.cc, get; SearchCache.cc, get).
THEOREM StalenessIsBounded == Spec => []StaleBound
BY Invariance, InvariantSuffices, PTL

--------------------------------------------------------------------------------
(* Eviction.                                                                 *)

\* What a consistent L1 gives the lemmas on lists.
LEMMA ListOf ==
    ASSUME NEW c, Good(c)
    PROVE  /\ c.lru_keys \in Seq(Query) /\ Distinct(c.lru_keys)
           /\ L1!ToSet(c.lru_keys) = DOMAIN c.entries
           /\ c.entries \in EntryMap
BY DEF Good, Cache, L1!Consistent, L1!Keys, Distinct

\* get: a hit is a use of its key, an expired key leaves the list.
LEMMA GetFollows ==
    ASSUME NEW c, Good(c), NEW u \in Seq(Query), Follows(c.lru_keys, u), NEW q \in Query, NEW t
    PROVE  LET d == L1!AfterGet(c, q, t)
           IN  /\ Follows(d.lru_keys, IF L1!Hit(c, q, t) THEN L1!ToFront(u, q) ELSE u)
               /\ DOMAIN c.entries \ {q} \subseteq DOMAIN d.entries
<1> DEFINE d == L1!AfterGet(c, q, t)
           s == c.lru_keys
<1>1. s \in Seq(Query) /\ Distinct(s) /\ c.entries \in EntryMap
  BY ListOf
<1>2. /\ Follows(L1!Erase(s, q), u)
      /\ Follows(L1!ToFront(s, q), L1!ToFront(u, q))
  <2> HIDE DEF s
  <2>1. Follows(s, u)
    BY DEF s
  <2>2. QED
    BY <1>1, <2>1, FollowsKept
<1>3. CASE L1!Hit(c, q, t)
  <2>1. d.lru_keys = L1!ToFront(s, q) /\ d.entries = c.entries
    <3>1. c = [lru_keys |-> c.lru_keys, entries |-> c.entries]
      BY DEF Good, Cache
    <3>2. QED
      BY <1>3, <3>1 DEF L1!AfterGet
  <2>2. QED
    BY <1>2, <1>3, <2>1
<1>4. CASE ~L1!Hit(c, q, t)
  <2>1. d.lru_keys = L1!Erase(s, q) /\ d.entries = L1!Without(c.entries, q)
    BY <1>4 DEF L1!AfterGet
  <2>2. IsWithout(L1!Without(c.entries, q), c.entries, q)
    BY <1>1, MapWithout
  <2>3. QED
    BY <1>2, <1>4, <2>1, <2>2 DEF IsWithout
<1>5. QED
  BY <1>3, <1>4

\* put: its key is used, and a key it drops was used before every key that stays.
LEMMA PutFollows ==
    ASSUME NEW c, Good(c), NEW u \in Seq(Query), Follows(c.lru_keys, u), NEW q \in Query,
           NEW r \in Result, NEW t \in 0..MaxTime, t < r.written + RedisTtl + RoundTrip
    PROVE  LET d == L1!AfterPut(c, q, r, t)
           IN  /\ Follows(d.lru_keys, L1!ToFront(u, q))
               /\ \A x \in DOMAIN d.entries, p \in DOMAIN c.entries \ (DOMAIN d.entries \cup {q}) :
                     Before(L1!ToFront(u, q), x, p)
<1> DEFINE d == L1!AfterPut(c, q, r, t)
           k == c.lru_keys
           s == L1!ToFront(k, q)
           w == L1!ToFront(u, q)
<1>1. /\ k \in Seq(Query) /\ Distinct(k) /\ L1!ToSet(k) = DOMAIN c.entries
      /\ c.entries \in EntryMap
  BY ListOf
<1>2. Follows(k, u)
  OBVIOUS
<1>3. d.lru_keys = IF Len(s) > LocalCapacity THEN L1!Front(s) ELSE s
  BY DEF L1!AfterPut
<1>4. /\ L1!ToSet(d.lru_keys) = DOMAIN d.entries
  <2>1. Good(L1!AfterPut(c, q, r, t))
    BY PutKeepsGood
  <2>2. QED
    BY <2>1, ListOf
<1> HIDE DEF d, k
<1>5. /\ s \in Seq(Query) /\ s # <<>> /\ Distinct(s)
      /\ L1!ToSet(s) = L1!ToSet(k) \cup {q}
  <2>1. k \in Seq(Query) /\ Distinct(k)
    BY <1>1
  <2>2. /\ L1!ToFront(k, q) \in Seq(Query) /\ L1!ToFront(k, q) # <<>>
        /\ Distinct(L1!ToFront(k, q))
        /\ L1!ToSet(L1!ToFront(k, q)) = L1!ToSet(k) \cup {q}
    BY ONLY <2>1, q \in Query, FrontOfList
  <2>3. QED
    BY <2>2
<1>6. Distinct(u) /\ w \in Seq(Query)
  BY <1>2, FrontOfList DEF Follows
<1>7. Follows(s, w)
  BY <1>1, <1>2, FollowsKept
<1> HIDE DEF s, w
<1>8. CASE Len(s) > LocalCapacity
  <2>1. d.lru_keys = L1!Front(s)
    BY <1>3, <1>8
  <2>2. Follows(L1!Front(s), w)
    BY <1>5, <1>6, <1>7, FollowsKept
  <2>3. L1!ToSet(L1!Front(s)) = L1!ToSet(s) \ {L1!Last(s)} /\ L1!Last(s) \in Query
    BY <1>5, BackOfList
  <2>4. ASSUME NEW x \in DOMAIN d.entries,
               NEW p \in DOMAIN c.entries \ (DOMAIN d.entries \cup {q})
        PROVE  Before(w, x, p)
    <3>1. x \in L1!ToSet(L1!Front(s)) /\ p = L1!Last(s)
      BY <1>1, <1>4, <1>5, <2>1, <2>3
    <3>2. Before(s, x, p)
      BY <1>5, <3>1, BackOrder
    <3>3. x \in Query /\ p \in Query
      <4>1. L1!ToSet(k) \subseteq Query
        BY <1>1, LenProperties, ElementOfSeq DEF L1!ToSet
      <4>2. QED
        BY <1>5, <2>3, <3>1, <4>1
    <3>4. QED
      BY <1>7, <3>2, <3>3 DEF Follows
  <2>5. QED
    BY <2>1, <2>2, <2>4 DEF d, w
<1>9. CASE ~(Len(s) > LocalCapacity)
  <2>1. d.lru_keys = s
    BY <1>3, <1>9
  <2>2. DOMAIN c.entries \ (DOMAIN d.entries \cup {q}) = {}
    BY <1>1, <1>4, <1>5, <2>1
  <2>3. QED
    BY <1>7, <2>1, <2>2 DEF d, w
<1>10. QED
  BY <1>8, <1>9

\* What a step says of the keys of one L1 that are gone.
DropsLeastRecent(th) ==
    LET stay == DOMAIN local_cache'[th].entries
        gone == DOMAIN local_cache[th].entries \ (stay \cup {query'[th]})
    IN  \A q \in stay, p \in gone : L1!Position(used'[th], q) < L1!Position(used'[th], p)

\* A thread that keeps its L1 and its history keeps the order.
LEMMA ThreadKept ==
    ASSUME NEW th \in Thread, Follows(local_cache[th].lru_keys, used[th]),
           local_cache'[th] = local_cache[th], used'[th] = used[th]
    PROVE  Follows(local_cache'[th].lru_keys, used'[th]) /\ DropsLeastRecent(th)
<1>1. DOMAIN local_cache'[th].entries = DOMAIN local_cache[th].entries
  OBVIOUS
<1>2. QED
  BY <1>1 DEF DropsLeastRecent

\* One thread looks a key up.
LEMMA ThreadGets ==
    ASSUME IInv, NEW th \in Thread, Follows(local_cache[th].lru_keys, used[th]),
           NEW q \in Query, query'[th] = q,
           local_cache'[th] = L1!AfterGet(local_cache[th], q, now),
           used'[th] = IF L1!Hit(local_cache[th], q, now)
                       THEN L1!ToFront(used[th], q) ELSE used[th]
    PROVE  Follows(local_cache'[th].lru_keys, used'[th]) /\ DropsLeastRecent(th)
<1> DEFINE c == local_cache[th]
           u == used[th]
           d == L1!AfterGet(c, q, now)
<1>1. Good(c) /\ u \in Seq(Query) /\ Follows(c.lru_keys, u)
  BY DEF IInv, CachesGood, ThreadsTyped
<1>2. /\ Follows(d.lru_keys, IF L1!Hit(c, q, now) THEN L1!ToFront(u, q) ELSE u)
      /\ DOMAIN c.entries \ {q} \subseteq DOMAIN d.entries
  <2> HIDE DEF c, u
  <2>1. QED
    BY <1>1, GetFollows
<1>3. DOMAIN c.entries \ (DOMAIN local_cache'[th].entries \cup {query'[th]}) = {}
  BY <1>2
<1>4. DropsLeastRecent(th)
  BY <1>3 DEF DropsLeastRecent
<1>5. QED
  BY <1>2, <1>4

\* One thread puts a result.
LEMMA ThreadPuts ==
    ASSUME IInv, NEW th \in Thread, Follows(local_cache[th].lru_keys, used[th]),
           NEW q \in Query, query'[th] = q, NEW r \in Result,
           now < r.written + RedisTtl + RoundTrip,
           local_cache'[th] = L1!AfterPut(local_cache[th], q, r, now),
           used'[th] = L1!ToFront(used[th], q)
    PROVE  Follows(local_cache'[th].lru_keys, used'[th]) /\ DropsLeastRecent(th)
<1> DEFINE c == local_cache[th]
           u == used[th]
           d == L1!AfterPut(c, q, r, now)
           w == L1!ToFront(u, q)
<1>1. Good(c) /\ u \in Seq(Query) /\ Follows(c.lru_keys, u)
  BY DEF IInv, CachesGood, ThreadsTyped
<1>2. /\ Follows(d.lru_keys, w)
      /\ \A x \in DOMAIN d.entries, p \in DOMAIN c.entries \ (DOMAIN d.entries \cup {q}) :
            Before(w, x, p)
  <2> HIDE DEF c, u
  <2>1. QED
    BY <1>1, Numbers, PutFollows
<1>3. w \in Seq(Query) /\ Distinct(w)
  <2>1. Distinct(u)
    BY <1>1 DEF Follows
  <2>2. QED
    BY <1>1, <2>1, FrontOfList
<1>4. local_cache'[th] = d /\ used'[th] = w
  OBVIOUS
<1> HIDE DEF d, w
<1>5. ASSUME NEW x \in DOMAIN d.entries,
             NEW p \in DOMAIN c.entries \ (DOMAIN d.entries \cup {q})
      PROVE  L1!Position(w, x) < L1!Position(w, p)
  BY <1>2, <1>3, PlaceOf
<1>6. DropsLeastRecent(th)
  BY <1>4, <1>5 DEF DropsLeastRecent
<1>7. QED
  BY <1>2, <1>4, <1>6

\* Every step keeps every list in the order of use, and drops by it.
LEMMA FollowStep ==
    ASSUME IInv, ListsFollowUse, [Next]_vars, NEW th \in Thread
    PROVE  Follows(local_cache'[th].lru_keys, used'[th]) /\ DropsLeastRecent(th)
<1>0. /\ Follows(local_cache[th].lru_keys, used[th])
      /\ local_cache = [x \in Thread |-> local_cache[x]]
      /\ used \in [Thread -> Seq(Query)] /\ query \in [Thread -> Query]
  BY DEF ListsFollowUse, IInv, CachesGood, ThreadsTyped
<1>1. ASSUME UNCHANGED <<local_cache, used>>
      PROVE  Follows(local_cache'[th].lru_keys, used'[th]) /\ DropsLeastRecent(th)
  BY <1>0, <1>1, ThreadKept
<1>2. ASSUME NEW x \in Thread, x # th, NEW c, NEW u,
             local_cache' = [local_cache EXCEPT ![x] = c],
             used' \in {used, [used EXCEPT ![x] = u]}
      PROVE  Follows(local_cache'[th].lru_keys, used'[th]) /\ DropsLeastRecent(th)
  <2>1. local_cache'[th] = local_cache[th] /\ used'[th] = used[th]
    BY <1>0, <1>2
  <2>2. QED
    BY <1>0, <2>1, ThreadKept
<1>3. ASSUME NEW x \in Thread, NEW q \in Query, LocalGet(x, q)
      PROVE  Follows(local_cache'[th].lru_keys, used'[th]) /\ DropsLeastRecent(th)
  <2>1. CASE mode[x[1]] = "Disabled"
    BY <1>1, <1>3, <2>1 DEF LocalGet
  <2>2. CASE mode[x[1]] # "Disabled"
    <3>1. /\ query' = [query EXCEPT ![x] = q]
          /\ local_cache' = [local_cache EXCEPT ![x] = L1!AfterGet(local_cache[x], q, now)]
          /\ used' = IF L1!Hit(local_cache[x], q, now)
                     THEN [used EXCEPT ![x] = L1!ToFront(used[x], q)] ELSE used
      BY <1>3, <2>2 DEF LocalGet
    <3>2. CASE x = th
      <4>1. /\ query'[th] = q
            /\ local_cache'[th] = L1!AfterGet(local_cache[th], q, now)
            /\ used'[th] = IF L1!Hit(local_cache[th], q, now)
                           THEN L1!ToFront(used[th], q) ELSE used[th]
        BY <1>0, <3>1, <3>2
      <4>2. QED
        BY <1>0, <4>1, ThreadGets
    <3>3. CASE x # th
      BY <1>2, <3>1, <3>3
    <3>4. QED
      BY <3>2, <3>3
  <2>3. QED
    BY <2>1, <2>2
<1>4. ASSUME NEW x \in Thread, NEW q \in Query, q = query[x], query' = query,
             NEW r \in Result, now < r.written + RedisTtl + RoundTrip,
             local_cache' = [local_cache EXCEPT ![x] = L1!AfterPut(local_cache[x], q, r, now)],
             used' = [used EXCEPT ![x] = L1!ToFront(used[x], q)]
      PROVE  Follows(local_cache'[th].lru_keys, used'[th]) /\ DropsLeastRecent(th)
  <2>1. CASE x = th
    <3>1. /\ query'[th] = q
          /\ local_cache'[th] = L1!AfterPut(local_cache[th], q, r, now)
          /\ used'[th] = L1!ToFront(used[th], q)
      BY <1>0, <1>4, <2>1
    <3>2. QED
      BY <1>0, <1>4, <3>1, ThreadPuts
  <2>2. CASE x # th
    BY <1>2, <1>4, <2>2
  <2>3. QED
    BY <2>1, <2>2
<1>5. ASSUME NEW x \in Thread, RedisReply(x)
      PROVE  Follows(local_cache'[th].lru_keys, used'[th]) /\ DropsLeastRecent(th)
  <2> DEFINE q == query[x]
  <2>1. q \in Query /\ query' = query
    BY <1>0, <1>5 DEF RedisReply
  <2>2. ASSUME NEW m \in reply[x],
               local_cache' = [local_cache EXCEPT ![x] = L1!AfterPut(@, query[x], m.value, now)],
               used' = [used EXCEPT ![x] = L1!ToFront(@, query[x])]
        PROVE  Follows(local_cache'[th].lru_keys, used'[th]) /\ DropsLeastRecent(th)
    <3> DEFINE r == m.value
    <3>1. /\ local_cache' = [local_cache EXCEPT ![x] = L1!AfterPut(local_cache[x], q, r, now)]
          /\ used' = [used EXCEPT ![x] = L1!ToFront(used[x], q)]
      BY <2>2
    <3>2. r \in Result /\ now < r.written + RedisTtl + RoundTrip
      <4>1. m \in Message /\ m.at < m.value.written + RedisTtl /\ now <= m.at + RoundTrip
        BY DEF IInv, RepliesTimely, Timely
      <4>2. PICK a \in Nat : m.at = a
        BY <4>1 DEF Message
      <4>3. m.value \in Result /\ m.value.written \in Nat
        BY <4>1 DEF Message, Result
      <4>4. PICK b \in Nat : m.value.written = b
        BY <4>3
      <4>5. now < b + RedisTtl + RoundTrip
        BY <4>1, <4>2, <4>4, Numbers
      <4>6. QED
        BY <4>3, <4>4, <4>5
    <3> HIDE DEF r, q
    <3>3. QED
      BY <1>4, <2>1, <3>1, <3>2 DEF q
  <2>3. QED
    BY <1>1, <1>5, <2>2 DEF RedisReply
<1>6. ASSUME NEW x \in Thread, Search(x)
      PROVE  Follows(local_cache'[th].lru_keys, used'[th]) /\ DropsLeastRecent(th)
  <2> DEFINE q == query[x]
             r == [query |-> q, docs |-> docs[x[1]], written |-> now]
  <2>1. q \in Query /\ query' = query /\ r \in Result /\ r.written = now
    BY <1>0, <1>6 DEF Search, IInv, RestTyped, Result, Thread
  <2>2. CASE mode[x[1]] = "Disabled"
    BY <1>1, <1>6, <2>2 DEF Search
  <2>3. CASE mode[x[1]] # "Disabled"
    <3>1. /\ local_cache' = [local_cache EXCEPT ![x] = L1!AfterPut(local_cache[x], q, r, now)]
          /\ used' = [used EXCEPT ![x] = L1!ToFront(used[x], q)]
      BY <1>6, <2>3 DEF Search
    <3>2. now < r.written + RedisTtl + RoundTrip
      BY <2>1, Numbers
    <3>3. QED
      BY <1>4, <2>1, <3>1, <3>2
  <2>4. QED
    BY <2>2, <2>3
<1>7. ASSUME NEW i \in Instance, Restart(i)
      PROVE  Follows(local_cache'[th].lru_keys, used'[th]) /\ DropsLeastRecent(th)
  <2>1. /\ local_cache'[th] = IF th[1] = i THEN L1!Empty ELSE local_cache[th]
        /\ used'[th] = IF th[1] = i THEN <<>> ELSE used[th]
    BY <1>7 DEF Restart
  <2>2. CASE th[1] # i
    BY <1>0, <2>1, <2>2, ThreadKept
  <2>3. CASE th[1] = i
    <3>1. local_cache'[th] = L1!Empty /\ used'[th] = <<>>
      BY <2>1, <2>3
    <3>2. L1!Empty.lru_keys = <<>> /\ DOMAIN L1!Empty.entries = {}
      BY DEF L1!Empty
    <3>3. Follows(<<>>, <<>>)
      BY DEF Follows, Distinct, Before, L1!ToSet
    <3>4. QED
      BY <3>1, <3>2, <3>3 DEF DropsLeastRecent
  <2>4. QED
    BY <2>2, <2>3
<1>8. ASSUME NEW x \in Thread, RedisGet(x) \/ RedisGetFails(x) \/ RedisSet(x)
      PROVE  UNCHANGED <<local_cache, used>>
  BY <1>8 DEF RedisGet, RedisGetFails, RedisSet
<1>9. ASSUME \/ \E c \in late : LateSet(c)
             \/ RedisLosesAll \/ Tick \/ UNCHANGED vars
      PROVE  UNCHANGED <<local_cache, used>>
  BY <1>9 DEF LateSet, RedisLosesAll, Tick, vars, threadVars
<1>10. QED
  BY <1>1, <1>3, <1>5, <1>6, <1>7, <1>8, <1>9 DEF Next

\* Every L1 lists its keys in the order of their last use (LruCache.cc, get and put).
THEOREM UseOrderInvariance == Spec => []ListsFollowUse
<1>1. Init => ListsFollowUse
  <2> SUFFICES ASSUME Init, NEW th \in Thread
               PROVE  Follows(local_cache[th].lru_keys, used[th])
    BY DEF ListsFollowUse
  <2>1. local_cache[th].lru_keys = <<>> /\ used[th] = <<>>
    BY DEF Init, L1!Empty
  <2>2. Follows(<<>>, <<>>)
    BY DEF Follows, Distinct, Before, L1!ToSet
  <2>3. QED
    BY <2>1, <2>2
<1>2. IInv /\ ListsFollowUse /\ [Next]_vars => ListsFollowUse'
  BY FollowStep DEF ListsFollowUse, Follows, Distinct, Before, L1!ToSet
<1>3. QED
  BY <1>1, <1>2, Invariance, PTL DEF Spec

\* put drops the key that was used least recently (LruCache.cc: splice, push_front and
\* pop_back).
THEOREM EvictionIsLeastRecent == Spec => EvictsLeastRecent
<1>1. IInv /\ ListsFollowUse /\ [Next]_vars => [\A th \in Thread : DropsLeastRecent(th)]_vars
  BY FollowStep
<1>2. EvictsLeastRecent <=> [][\A th \in Thread : DropsLeastRecent(th)]_vars
  BY PTL DEF EvictsLeastRecent, DropsLeastRecent
<1>3. QED
  BY <1>1, <1>2, Invariance, UseOrderInvariance, PTL DEF Spec
================================================================================
