------------------------ MODULE PagedSchedulerProofs ------------------------
(***************************************************************************)
(* Proofs about the Python scheduler, for every configuration, pool and    *)
(* number of requests: lemmas about its operators, the inductive invariant,*)
(* and with it that every slot, request and page is in one place and that  *)
(* nothing generated is lost, however steps end.                           *)
(***************************************************************************)
EXTENDS PagedSchedulerProperties, FiniteSetTheorems, SequenceTheorems, WellFoundedInduction, TLAPS

-----------------------------------------------------------------------------
(* Recursion over the indices of a sequence *)

\* The first of the indices at which something holds.
LEMMA FirstIndex ==
  ASSUME NEW S \in SUBSET Nat, NEW x \in S
  PROVE  \E m \in S : \A k \in S : m <= k
<1> DEFINE R == {ss \in Nat \X Nat : ss[1] < ss[2]}
<1>1. IsWellFoundedOn(R, Nat)
  BY NatLessThanWellFounded, Zenon DEF OpToRel
<1> HIDE DEF R
<1>2. PICK m \in S : \A k \in S : <<k, m>> \notin R
  BY <1>1, WFMin
<1>3. \A k \in S : ~(k < m)
  BY <1>2 DEF R
<1>4. QED
  BY <1>3

\* Induction over 0 .. n for a set of indices.
LEMMA UpTo ==
  ASSUME NEW n \in Nat, NEW P, 0 \in P, \A i \in 1 .. n : i - 1 \in P => i \in P
  PROVE  0 .. n \subseteq P
<1> DEFINE Bad == {i \in 0 .. n : i \notin P}
<1>1. SUFFICES ASSUME NEW x \in Bad
               PROVE  FALSE
  OBVIOUS
<1>2. PICK m \in Bad : \A k \in Bad : m <= k
  <2>1. Bad \in SUBSET Nat
    OBVIOUS
  <2> HIDE DEF Bad
  <2>2. QED
    BY <1>1, <2>1, FirstIndex
<1>3. m \in 1 .. n /\ m - 1 \in 0 .. n /\ ~(m <= m - 1)
  BY <1>2
<1>4. m - 1 \in P
  BY <1>2, <1>3
<1>5. QED
  BY <1>2, <1>3, <1>4

\* A step G, as a function of the index and of what came before, can be iterated.
Iterates(f, n, S, base, G) ==
  /\ f \in [0 .. n -> S]
  /\ f[0] = base
  /\ \A i \in 1 .. n : f[i] = G[<<i, f[i - 1]>>]

\* A function over 0 .. n is built from its base and its step.
LEMMA Recursion ==
  ASSUME NEW S, NEW n \in Nat, NEW base \in S, NEW G \in [(1 .. n) \X S -> S]
  PROVE  \E f : Iterates(f, n, S, base, G)
<1> DEFINE Is(f, m) == /\ f \in [0 .. m -> S]
                       /\ f[0] = base
                       /\ \A i \in 1 .. m : f[i] = G[<<i, f[i - 1]>>]
           P == {m \in 0 .. n : \E f : Is(f, m)}
<1>1. 0 \in P
  <2>1. Is([i \in 0 .. 0 |-> base], 0)
    OBVIOUS
  <2>2. 0 \in 0 .. n
    OBVIOUS
  <2> HIDE DEF Is
  <2>3. QED
    BY <2>1, <2>2
<1>2. ASSUME NEW m \in 1 .. n, m - 1 \in P
      PROVE  m \in P
  <2>1. PICK f : Is(f, m - 1)
    BY <1>2
  <2> DEFINE g == [i \in 0 .. m |-> IF i = m THEN G[<<m, f[m - 1]>>] ELSE f[i]]
  <2>2. f[m - 1] \in S /\ <<m, f[m - 1]>> \in (1 .. n) \X S
    BY <2>1
  <2>3. g \in [0 .. m -> S]
    <3>1. \A i \in 0 .. m : i # m => i \in 0 .. (m - 1)
      OBVIOUS
    <3>2. G[<<m, f[m - 1]>>] \in S
      BY <2>2
    <3>3. QED
      BY <2>1, <3>1, <3>2
  <2>4. g[0] = base
    BY <2>1
  <2>5. ASSUME NEW i \in 1 .. m
        PROVE  g[i] = G[<<i, g[i - 1]>>]
    <3>1. i - 1 \in 0 .. m /\ i - 1 # m /\ i - 1 \in 0 .. (m - 1)
      OBVIOUS
    <3>2. g[i - 1] = f[i - 1]
      BY <3>1
    <3>3. CASE i = m
      BY <3>2, <3>3
    <3>4. CASE i # m
      <4>1. i \in 1 .. (m - 1)
        BY <3>4
      <4>2. g[i] = f[i]
        BY <3>4
      <4>3. QED
        BY <2>1, <3>2, <4>1, <4>2
    <3>5. QED
      BY <3>3, <3>4
  <2> HIDE DEF g
  <2>6. Is(g, m)
    BY <2>3, <2>4, <2>5
  <2>7. QED
    BY <2>6
<1> HIDE DEF P, Is
<1>3. 0 .. n \subseteq P
  BY <1>1, <1>2, UpTo
<1>4. QED
  BY <1>3 DEF P, Is, Iterates

-----------------------------------------------------------------------------
(* Sums *)

\* Sum runs over the first n values.
LEMMA SumRuns ==
  ASSUME NEW n \in Nat, NEW f, \A i \in 1 .. n : f[i] \in Int
  PROVE  \E s \in [0 .. n -> Int] :
           /\ s[0] = 0
           /\ \A i \in 1 .. n : s[i] = s[i - 1] + f[i]
           /\ Sum(f, n) = s[n]
<1> DEFINE G == [p \in (1 .. n) \X Int |-> p[2] + f[p[1]]]
           Eq(s) == s = [i \in 0 .. n |-> IF i = 0 THEN 0 ELSE s[i - 1] + f[i]]
<1>1. PICK g \in [0 .. n -> Int] : g[0] = 0 /\ \A i \in 1 .. n : g[i] = G[<<i, g[i - 1]>>]
  <2> DEFINE S    == Int
             base == 0
  <2>1. G \in [(1 .. n) \X S -> S] /\ base \in S
    OBVIOUS
  <2> HIDE DEF G, S, base
  <2>2. PICK g : Iterates(g, n, S, base, G)
    BY <2>1, Recursion
  <2>3. QED
    BY <2>2 DEF Iterates, S, base
<1>2. \A i \in 1 .. n : g[i] = g[i - 1] + f[i]
  <2>1. \A i \in 1 .. n : i - 1 \in 0 .. n
    OBVIOUS
  <2>2. QED
    BY <1>1, <2>1
<1>3. Eq(g)
  BY <1>1, <1>2
<1> DEFINE t == CHOOSE s : Eq(s)
<1>4. Eq(t)
  BY <1>3
<1>5. Sum(f, n) = t[n]
  BY DEF Sum
<1> HIDE DEF t, G
<1>6. \A i \in 0 .. n : t[i] = g[i]
  <2> DEFINE P == {i \in 0 .. n : t[i] = g[i]}
  <2>1. 0 \in P
    BY <1>1, <1>4
  <2>2. \A i \in 1 .. n : i - 1 \in P => i \in P
    BY <1>2, <1>4
  <2> HIDE DEF P
  <2>3. 0 .. n \subseteq P
    BY <2>1, <2>2, UpTo
  <2>4. QED
    BY <2>3 DEF P
<1>7. n \in 0 .. n
  OBVIOUS
<1>8. QED
  BY <1>1, <1>2, <1>5, <1>6, <1>7

\* The same for a function of integers.
LEMMA SumSteps ==
  ASSUME NEW n \in Nat, NEW f \in [1 .. n -> Int]
  PROVE  \E s \in [0 .. n -> Int] :
           /\ s[0] = 0
           /\ \A i \in 1 .. n : s[i] = s[i - 1] + f[i]
           /\ Sum(f, n) = s[n]
BY SumRuns

-----------------------------------------------------------------------------
(* Filtered sequences *)

\* `out` is made of the entries of items[1 .. n] that are in S, in their order:
\* h says where each of them was.
Picks(out, items, S, n, h) ==
  /\ h \in [1 .. Len(out) -> 1 .. n]
  /\ \A k \in 1 .. Len(out) : out[k] = items[h[k]] /\ out[k] \in S
  /\ \A k, l \in 1 .. Len(out) : k < l => h[k] < h[l]
  /\ \A j \in 1 .. n : items[j] \in S => \E k \in 1 .. Len(out) : h[k] = j

\* Filtered picks the entries of its set, in order.
LEMMA FilteredPicks ==
  ASSUME NEW T, NEW items \in Seq(T), NEW S
  PROVE  /\ Filtered(items, S) \in Seq(T)
         /\ \E h : Picks(Filtered(items, S), items, S, Len(items), h)
<1> DEFINE n == Len(items)
           Q == Seq(T)
           G == [p \in (1 .. n) \X Q |-> IF items[p[1]] \in S THEN Append(p[2], items[p[1]])
                                                              ELSE p[2]]
           Eq(f) == f = [i \in 0 .. n |->
                           IF i = 0 THEN <<>>
                           ELSE IF items[i] \in S THEN Append(f[i - 1], items[i]) ELSE f[i - 1]]
<1>0. n \in Nat /\ \A i \in 1 .. n : items[i] \in T
  OBVIOUS
<1>1. PICK g : Iterates(g, n, Q, <<>>, G)
  <2>1. G \in [(1 .. n) \X Q -> Q]
    <3>1. ASSUME NEW i \in 1 .. n, NEW q \in Q
          PROVE  (IF items[i] \in S THEN Append(q, items[i]) ELSE q) \in Q
      BY <1>0
    <3>2. \A p \in (1 .. n) \X Q : p[1] \in 1 .. n /\ p[2] \in Q
      OBVIOUS
    <3> HIDE DEF Q, n
    <3>3. QED
      BY <3>1, <3>2
  <2>2. <<>> \in Q
    OBVIOUS
  <2> HIDE DEF G, Q, n
  <2>3. QED
    BY <1>0, <2>1, <2>2, Recursion
<1>2. /\ g \in [0 .. n -> Q] /\ g[0] = <<>>
      /\ \A i \in 1 .. n : g[i] = IF items[i] \in S THEN Append(g[i - 1], items[i]) ELSE g[i - 1]
  <2>1. g \in [0 .. n -> Q] /\ g[0] = <<>> /\ \A i \in 1 .. n : g[i] = G[<<i, g[i - 1]>>]
    BY <1>1 DEF Iterates
  <2>2. \A i \in 1 .. n : i - 1 \in 0 .. n
    BY <1>0
  <2> HIDE DEF Q, n
  <2>3. \A i \in 1 .. n : <<i, g[i - 1]>> \in (1 .. n) \X Q
    BY <2>1, <2>2
  <2>4. QED
    BY <2>1, <2>3
<1> DEFINE t == CHOOSE f : Eq(f)
<1>3. Eq(t)
  <2>1. \A i \in 0 .. n : i # 0 => i \in 1 .. n
    BY <1>0
  <2> HIDE DEF n, Q
  <2>2. Eq(g)
    BY <1>2, <2>1
  <2>3. QED
    BY <2>2
<1>4. Filtered(items, S) = t[n]
  BY DEF Filtered
<1> HIDE DEF t, G
<1>5. \A i \in 0 .. n : t[i] = g[i]
  <2> DEFINE P == {i \in 0 .. n : t[i] = g[i]}
  <2>1. 0 \in P
    BY <1>0, <1>2, <1>3
  <2>2. ASSUME NEW i \in 1 .. n, i - 1 \in P
        PROVE  i \in P
    <3>1. i \in 0 .. n /\ i # 0 /\ t[i - 1] = g[i - 1]
      BY <1>0, <2>2
    <3> HIDE DEF n, Q, P
    <3>2. t[i] = IF items[i] \in S THEN Append(t[i - 1], items[i]) ELSE t[i - 1]
      BY <1>3, <3>1
    <3>3. QED
      BY <1>2, <3>1, <3>2 DEF P
  <2> HIDE DEF P
  <2>3. 0 .. n \subseteq P
    BY <1>0, <2>1, <2>2, UpTo
  <2>4. QED
    BY <2>3 DEF P
<1>6. \A i \in 0 .. n : \E h : Picks(g[i], items, S, i, h)
  <2> DEFINE P == {i \in 0 .. n : \E h : Picks(g[i], items, S, i, h)}
  <2>1. 0 \in P
    <3>1. Picks(g[0], items, S, 0, <<>>)
      BY <1>2 DEF Picks
    <3>2. 0 \in 0 .. n
      BY <1>0
    <3>3. QED
      BY <3>1, <3>2
  <2>2. ASSUME NEW i \in 1 .. n, i - 1 \in P
        PROVE  i \in P
    <3>1. PICK h : Picks(g[i - 1], items, S, i - 1, h)
      BY <2>2
    <3>2. i - 1 \in 0 .. n /\ i \in 0 .. n /\ i - 1 + 1 = i /\ i \in Nat
      BY <1>0
    <3> DEFINE q == g[i - 1]
               m == Len(q)
    <3>3. q \in Seq(T) /\ m \in Nat
      BY <1>2, <3>2
    <3>4. CASE items[i] \in S
      <4> DEFINE k == [j \in 1 .. m + 1 |-> IF j = m + 1 THEN i ELSE h[j]]
                 r == Append(q, items[i])
      <4>1. /\ r \in Seq(T) /\ Len(r) = m + 1 /\ r[m + 1] = items[i]
            /\ \A j \in 1 .. m : r[j] = q[j]
        BY <1>0, <3>3
      <4>2. /\ h \in [1 .. m -> 1 .. i - 1]
            /\ \A j \in 1 .. m : q[j] = items[h[j]] /\ q[j] \in S
            /\ \A j, l \in 1 .. m : j < l => h[j] < h[l]
            /\ \A j \in 1 .. i - 1 : items[j] \in S => \E l \in 1 .. m : h[l] = j
        BY <3>1 DEF Picks
      <4> HIDE DEF r, q, m
      <4>3. \A j \in 1 .. m + 1 : j # m + 1 => j \in 1 .. m
        BY <3>3
      <4>4. \A j \in 1 .. m : h[j] \in 1 .. i /\ h[j] < i /\ k[j] = h[j] /\ j # m + 1
        BY <3>2, <3>3, <4>2
      <4>5. k[m + 1] = i
        BY <3>3
      <4>6. k \in [1 .. m + 1 -> 1 .. i]
        BY <3>2, <4>2, <4>3, <4>4
      <4> HIDE DEF k
      <4>7. \A j \in 1 .. m + 1 : r[j] = items[k[j]] /\ r[j] \in S
        BY <3>4, <4>1, <4>2, <4>3, <4>4, <4>5
      <4>8. \A j, l \in 1 .. m + 1 : j < l => k[j] < k[l]
        <5>1. SUFFICES ASSUME NEW j \in 1 .. m + 1, NEW l \in 1 .. m + 1, j < l
                       PROVE  k[j] < k[l]
          OBVIOUS
        <5>2. j \in 1 .. m
          BY <3>3, <5>1
        <5>3. CASE l = m + 1
          BY <4>4, <4>5, <5>2, <5>3
        <5>4. CASE l # m + 1
          BY <4>2, <4>3, <4>4, <5>1, <5>2, <5>4
        <5>5. QED
          BY <5>3, <5>4
      <4>9. \A j \in 1 .. i : items[j] \in S => \E l \in 1 .. m + 1 : k[l] = j
        <5>1. SUFFICES ASSUME NEW j \in 1 .. i, items[j] \in S
                       PROVE  \E l \in 1 .. m + 1 : k[l] = j
          OBVIOUS
        <5>2. CASE j = i
          <6>1. m + 1 \in 1 .. m + 1
            BY <3>3
          <6>2. QED
            BY <4>5, <5>2, <6>1
        <5>3. CASE j # i
          <6>1. j \in 1 .. i - 1
            BY <5>3
          <6>2. PICK l \in 1 .. m : h[l] = j
            BY <4>2, <5>1, <6>1
          <6>3. l \in 1 .. m + 1
            BY <3>3
          <6>4. QED
            BY <4>4, <6>2, <6>3
        <5>4. QED
          BY <5>2, <5>3
      <4>10. Picks(r, items, S, i, k)
        BY <4>1, <4>6, <4>7, <4>8, <4>9 DEF Picks
      <4>11. g[i] = r
        BY <1>2, <3>4 DEF r, q
      <4>12. QED
        BY <3>2, <4>10, <4>11
    <3>5. CASE items[i] \notin S
      <4>1. g[i] = q
        BY <1>2, <3>5
      <4>2. /\ h \in [1 .. m -> 1 .. i - 1]
            /\ \A j \in 1 .. m : q[j] = items[h[j]] /\ q[j] \in S
            /\ \A j, l \in 1 .. m : j < l => h[j] < h[l]
            /\ \A j \in 1 .. i - 1 : items[j] \in S => \E l \in 1 .. m : h[l] = j
        BY <3>1 DEF Picks
      <4>3. \A j \in 1 .. i : j # i => j \in 1 .. i - 1
        OBVIOUS
      <4>4. 1 .. i - 1 \subseteq 1 .. i
        OBVIOUS
      <4> HIDE DEF q, m
      <4>5. h \in [1 .. m -> 1 .. i]
        BY <4>2, <4>4
      <4>6. Picks(q, items, S, i, h)
        BY <3>5, <4>2, <4>3, <4>5 DEF Picks, m
      <4>7. QED
        BY <3>2, <4>1, <4>6
    <3>6. QED
      BY <3>4, <3>5
  <2> HIDE DEF P
  <2>3. 0 .. n \subseteq P
    BY <1>0, <2>1, <2>2, UpTo
  <2>4. QED
    BY <2>3 DEF P
<1>7. n \in 0 .. n
  BY <1>0
<1>8. QED
  BY <1>2, <1>4, <1>5, <1>6, <1>7

-----------------------------------------------------------------------------
(* Sequences without repetition *)

\* No entry occurs twice.
Once(s) == \A i, j \in 1 .. Len(s) : s[i] = s[j] => i = j

\* The set of a sequence's entries.
LEMMA SeqSet ==
  ASSUME NEW T, NEW s \in Seq(T)
  PROVE  /\ ToSet(s) = {s[i] : i \in 1 .. Len(s)}
         /\ ToSet(s) \subseteq T
         /\ Len(s) \in Nat
<1>1. DOMAIN s = 1 .. Len(s) /\ Len(s) \in Nat /\ \A i \in 1 .. Len(s) : s[i] \in T
  OBVIOUS
<1>2. QED
  BY <1>1 DEF ToSet

\* The entries of a concatenation, and where they are.
LEMMA ConcatSet ==
  ASSUME NEW T, NEW s \in Seq(T), NEW t \in Seq(T)
  PROVE  /\ s \o t \in Seq(T)
         /\ ToSet(s \o t) = ToSet(s) \cup ToSet(t)
         /\ Len(s \o t) = Len(s) + Len(t)
         /\ \A i \in 1 .. Len(s) : (s \o t)[i] = s[i]
         /\ \A i \in Len(s) + 1 .. Len(s) + Len(t) : (s \o t)[i] = t[i - Len(s)]
<1> DEFINE u == s \o t
           m == Len(s)
           n == Len(t)
<1>1. /\ u \in Seq(T) /\ Len(u) = m + n /\ m \in Nat /\ n \in Nat
      /\ \A i \in 1 .. m : u[i] = s[i]
      /\ \A i \in m + 1 .. m + n : u[i] = t[i - m]
  OBVIOUS
<1>2. /\ ToSet(u) = {u[i] : i \in 1 .. Len(u)}
      /\ ToSet(s) = {s[i] : i \in 1 .. m}
      /\ ToSet(t) = {t[i] : i \in 1 .. n}
  BY <1>1, SeqSet
<1> HIDE DEF u, m, n
<1>3. ToSet(u) \subseteq ToSet(s) \cup ToSet(t)
  <2>1. SUFFICES ASSUME NEW i \in 1 .. Len(u)
                 PROVE  u[i] \in ToSet(s) \cup ToSet(t)
    BY <1>2
  <2>2. CASE i \in 1 .. m
    BY <1>1, <1>2, <2>2
  <2>3. CASE i \notin 1 .. m
    <3>1. i \in m + 1 .. m + n /\ i - m \in 1 .. n
      BY <1>1, <2>3
    <3>2. QED
      BY <1>1, <1>2, <3>1
  <2>4. QED
    BY <2>2, <2>3
<1>4. ToSet(s) \subseteq ToSet(u)
  <2>1. \A i \in 1 .. m : i \in 1 .. Len(u)
    BY <1>1
  <2>2. QED
    BY <1>1, <1>2, <2>1
<1>5. ToSet(t) \subseteq ToSet(u)
  <2>1. \A i \in 1 .. n : i + m \in m + 1 .. m + n /\ i + m - m = i /\ i + m \in 1 .. Len(u)
    BY <1>1
  <2>2. \A i \in 1 .. n : u[i + m] = t[i]
    BY <1>1, <2>1
  <2>3. QED
    BY <1>2, <2>1, <2>2
<1>6. QED
  BY <1>1, <1>3, <1>4, <1>5 DEF u, m, n

\* Two sequences without repetition and without a common entry make another.
LEMMA OnceConcat ==
  ASSUME NEW T, NEW s \in Seq(T), NEW t \in Seq(T), Once(s), Once(t),
         ToSet(s) \cap ToSet(t) = {}
  PROVE  Once(s \o t)
<1> DEFINE u == s \o t
           m == Len(s)
           n == Len(t)
<1>1. /\ u \in Seq(T) /\ Len(u) = m + n /\ m \in Nat /\ n \in Nat
      /\ \A i \in 1 .. m : u[i] = s[i]
      /\ \A i \in m + 1 .. m + n : u[i] = t[i - m]
  BY ConcatSet
<1>2. /\ ToSet(s) = {s[i] : i \in 1 .. m}
      /\ ToSet(t) = {t[i] : i \in 1 .. n}
  BY SeqSet
<1>3. Once(s) /\ Once(t)
  OBVIOUS
<1> HIDE DEF u
<1>4. \A i \in 1 .. m + n : i \in 1 .. m \/ (i \in m + 1 .. m + n /\ i - m \in 1 .. n)
  BY <1>1
<1>5. SUFFICES ASSUME NEW i \in 1 .. m + n, NEW j \in 1 .. m + n, u[i] = u[j]
               PROVE  i = j
  BY <1>1 DEF Once, u
<1>6. CASE i \in 1 .. m /\ j \in 1 .. m
  BY <1>1, <1>3, <1>5, <1>6 DEF Once
<1>7. CASE i \notin 1 .. m /\ j \notin 1 .. m
  <2>1. i - m \in 1 .. n /\ j - m \in 1 .. n /\ t[i - m] = t[j - m]
    BY <1>1, <1>4, <1>5, <1>7
  <2>2. i - m = j - m
    BY <1>3, <2>1 DEF Once
  <2>3. QED
    BY <1>1, <2>2
<1>8. CASE i \in 1 .. m /\ j \notin 1 .. m
  <2>1. u[i] \in ToSet(s) /\ u[j] \in ToSet(t)
    BY <1>1, <1>2, <1>4, <1>8
  <2>2. QED
    BY <1>5, <2>1
<1>9. CASE i \notin 1 .. m /\ j \in 1 .. m
  <2>1. u[j] \in ToSet(s) /\ u[i] \in ToSet(t)
    BY <1>1, <1>2, <1>4, <1>9
  <2>2. QED
    BY <1>5, <2>1
<1>10. QED
  BY <1>6, <1>7, <1>8, <1>9

\* What is left of a sequence.
LEMMA FilteredSet ==
  ASSUME NEW T, NEW items \in Seq(T), NEW S
  PROVE  /\ Filtered(items, S) \in Seq(T)
         /\ ToSet(Filtered(items, S)) = ToSet(items) \cap S
         /\ Once(items) => Once(Filtered(items, S))
<1> DEFINE out == Filtered(items, S)
           n   == Len(items)
<1>1. out \in Seq(T) /\ \E h : Picks(out, items, S, n, h)
  BY FilteredPicks
<1> HIDE DEF out
<1>2. PICK h : Picks(out, items, S, n, h)
  BY <1>1
<1>3. /\ h \in [1 .. Len(out) -> 1 .. n]
      /\ \A k \in 1 .. Len(out) : out[k] = items[h[k]] /\ out[k] \in S
      /\ \A k, l \in 1 .. Len(out) : k < l => h[k] < h[l]
      /\ \A j \in 1 .. n : items[j] \in S => \E k \in 1 .. Len(out) : h[k] = j
  BY <1>2 DEF Picks
<1>4. /\ ToSet(out) = {out[k] : k \in 1 .. Len(out)}
      /\ ToSet(items) = {items[j] : j \in 1 .. n}
      /\ Len(out) \in Nat /\ n \in Nat
  BY <1>1, SeqSet
<1> HIDE DEF n
<1>5. ToSet(out) = ToSet(items) \cap S
  <2>1. ToSet(out) \subseteq ToSet(items) \cap S
    BY <1>3, <1>4
  <2>2. ASSUME NEW j \in 1 .. n, items[j] \in S
        PROVE  items[j] \in ToSet(out)
    BY <1>3, <1>4, <2>2
  <2>3. QED
    BY <1>4, <2>1, <2>2
<1>6. ASSUME Once(items)
      PROVE  Once(out)
  <2>1. SUFFICES ASSUME NEW k \in 1 .. Len(out), NEW l \in 1 .. Len(out), out[k] = out[l]
                 PROVE  k = l
    BY DEF Once
  <2>2. h[k] = h[l]
    BY <1>3, <1>6, <2>1 DEF Once, n
  <2>3. ~(k < l) /\ ~(l < k)
    <3>1. h[k] \in Int
      BY <1>3, <1>4
    <3>2. QED
      BY <1>3, <2>2, <3>1
  <2>4. QED
    BY <2>3, <1>4
<1>7. QED
  BY <1>1, <1>5, <1>6 DEF out

\* WithoutItems leaves the other entries, in order.
LEMMA WithoutSet ==
  ASSUME NEW T, NEW items \in Seq(T), NEW gone
  PROVE  /\ WithoutItems(items, gone) \in Seq(T)
         /\ ToSet(WithoutItems(items, gone)) = ToSet(items) \ ToSet(gone)
         /\ Once(items) => Once(WithoutItems(items, gone))
BY FilteredSet DEF WithoutItems

-----------------------------------------------------------------------------
(* Sequences of items *)

\* The slots and the requests of some items.
SlotsIn(E) == {it.slot : it \in E}
ReqsIn(E)  == {it.req : it \in E}

\* No two of these items share a slot or a request.
Apart(E) == \A x, y \in E : x.slot = y.slot \/ x.req = y.req => x = y

\* A list of items none of which shares its slot or its request.
Unique(items) == Once(items) /\ Apart(ToSet(items))

\* Filtering keeps items unique ...
LEMMA UniqueFiltered ==
  ASSUME NEW T, NEW items \in Seq(T), NEW S, Unique(items)
  PROVE  Unique(Filtered(items, S))
BY FilteredSet DEF Unique, Apart

\* ... and so does joining lists that share neither slots nor requests.
LEMMA UniqueConcat ==
  ASSUME NEW T, NEW s \in Seq(T), NEW t \in Seq(T), Unique(s), Unique(t),
         SlotsIn(ToSet(s)) \cap SlotsIn(ToSet(t)) = {},
         ReqsIn(ToSet(s)) \cap ReqsIn(ToSet(t)) = {}
  PROVE  Unique(s \o t)
<1>1. ToSet(s \o t) = ToSet(s) \cup ToSet(t)
  BY ConcatSet
<1>2. ToSet(s) \cap ToSet(t) = {}
  BY DEF SlotsIn
<1>3. Once(s \o t)
  BY <1>2, OnceConcat DEF Unique
<1>4. Apart(ToSet(s \o t))
  <2>1. SUFFICES ASSUME NEW x \in ToSet(s) \cup ToSet(t), NEW y \in ToSet(s) \cup ToSet(t),
                        x.slot = y.slot \/ x.req = y.req
                 PROVE  x = y
    BY <1>1 DEF Apart
  <2>2. CASE x \in ToSet(s) /\ y \in ToSet(t)
    BY <2>1, <2>2 DEF SlotsIn, ReqsIn
  <2>3. CASE x \in ToSet(t) /\ y \in ToSet(s)
    BY <2>1, <2>3 DEF SlotsIn, ReqsIn
  <2>4. CASE x \in ToSet(s) /\ y \in ToSet(s)
    BY <2>1, <2>4 DEF Unique, Apart
  <2>5. CASE x \in ToSet(t) /\ y \in ToSet(t)
    BY <2>1, <2>5 DEF Unique, Apart
  <2>6. QED
    BY <2>1, <2>2, <2>3, <2>4, <2>5
<1>5. QED
  BY <1>3, <1>4 DEF Unique

\* The slots of a sequence of items, and their requests.
LEMMA SlotsOfItems ==
  ASSUME NEW T, NEW items \in Seq(T), \A it \in T : it.slot \in Slots
  PROVE  /\ SlotsOf(items) \in Seq(Slots)
         /\ ToSet(SlotsOf(items)) = SlotsIn(ToSet(items))
         /\ Unique(items) => Once(SlotsOf(items))
<1> DEFINE out == [i \in 1 .. Len(items) |-> items[i].slot]
           n   == Len(items)
<1>1. n \in Nat /\ \A i \in 1 .. n : items[i] \in T
  OBVIOUS
<1>2. ToSet(items) = {items[i] : i \in 1 .. n}
  BY SeqSet
<1>3. out \in Seq(Slots)
  <2>1. \A i \in 1 .. n : items[i].slot \in Slots
    BY <1>1
  <2> HIDE DEF n
  <2>2. [i \in 1 .. n |-> items[i].slot] \in Seq(Slots)
    BY <1>1, <2>1
  <2>3. QED
    BY <2>2 DEF n
<1>4. Len(out) = n
  BY <1>1
<1>5. ToSet(out) = {out[i] : i \in 1 .. Len(out)}
  <2> HIDE DEF out
  <2>1. QED
    BY <1>3, SeqSet
<1> HIDE DEF n
<1>6. ToSet(out) = {items[i].slot : i \in 1 .. n}
  <2>1. \A i \in 1 .. n : out[i] = items[i].slot
    BY DEF n
  <2> HIDE DEF out
  <2>2. QED
    BY <1>4, <1>5, <2>1
<1>7. ToSet(out) = SlotsIn(ToSet(items))
  BY <1>2, <1>6 DEF SlotsIn
<1>8. ASSUME Unique(items)
      PROVE  Once(out)
  <2>1. SUFFICES ASSUME NEW i \in 1 .. n, NEW j \in 1 .. n, items[i].slot = items[j].slot
                 PROVE  i = j
    BY <1>4 DEF Once, n
  <2>2. items[i] = items[j]
    BY <1>2, <1>8, <2>1 DEF Unique, Apart
  <2>3. QED
    BY <1>8, <2>2 DEF Unique, Once, n
<1>9. QED
  BY <1>3, <1>7, <1>8 DEF SlotsOf

\* The requests of a list of items, as a list.
LEMMA ReqsOfItems ==
  ASSUME NEW T, NEW items \in Seq(T), \A it \in T : it.req \in Reqs
  PROVE  LET out == [i \in 1 .. Len(items) |-> items[i].req]
         IN  /\ out \in Seq(Reqs)
             /\ ToSet(out) = ReqsIn(ToSet(items))
             /\ Unique(items) => Once(out)
<1> DEFINE out == [i \in 1 .. Len(items) |-> items[i].req]
           n   == Len(items)
<1>1. n \in Nat /\ \A i \in 1 .. n : items[i] \in T
  OBVIOUS
<1>2. ToSet(items) = {items[i] : i \in 1 .. n}
  BY SeqSet
<1>3. out \in Seq(Reqs)
  <2>1. \A i \in 1 .. n : items[i].req \in Reqs
    BY <1>1
  <2> HIDE DEF n
  <2>2. [i \in 1 .. n |-> items[i].req] \in Seq(Reqs)
    BY <1>1, <2>1
  <2>3. QED
    BY <2>2 DEF n
<1>4. Len(out) = n
  BY <1>1
<1>5. ToSet(out) = {out[i] : i \in 1 .. Len(out)}
  <2> HIDE DEF out
  <2>1. QED
    BY <1>3, SeqSet
<1> HIDE DEF n
<1>6. ToSet(out) = {items[i].req : i \in 1 .. n}
  <2>1. \A i \in 1 .. n : out[i] = items[i].req
    BY DEF n
  <2> HIDE DEF out
  <2>2. QED
    BY <1>4, <1>5, <2>1
<1>7. ToSet(out) = ReqsIn(ToSet(items))
  BY <1>2, <1>6 DEF ReqsIn
<1>8. ASSUME Unique(items)
      PROVE  Once(out)
  <2>1. SUFFICES ASSUME NEW i \in 1 .. n, NEW j \in 1 .. n, items[i].req = items[j].req
                 PROVE  i = j
    BY <1>4 DEF Once, n
  <2>2. items[i] = items[j]
    BY <1>2, <1>8, <2>1 DEF Unique, Apart
  <2>3. QED
    BY <1>8, <2>2 DEF Unique, Once, n
<1>9. QED
  BY <1>3, <1>7, <1>8

\* Items that are left have the slots and requests that are left.
LEMMA LeftOver ==
  ASSUME NEW E, NEW G \in SUBSET E, Apart(E)
  PROVE  /\ SlotsIn(E \ G) = SlotsIn(E) \ SlotsIn(G)
         /\ ReqsIn(E \ G) = ReqsIn(E) \ ReqsIn(G)
<1>1. \A x \in E, y \in G : x.slot = y.slot \/ x.req = y.req => x = y
  BY DEF Apart
<1>2. SlotsIn(E \ G) = SlotsIn(E) \ SlotsIn(G)
  BY <1>1 DEF SlotsIn
<1>3. ReqsIn(E \ G) = ReqsIn(E) \ ReqsIn(G)
  BY <1>1 DEF ReqsIn
<1>4. QED
  BY <1>2, <1>3

\* Slots and requests of a union, and of a part.
LEMMA JoinedIn ==
  ASSUME NEW E, NEW G
  PROVE  /\ SlotsIn(E \cup G) = SlotsIn(E) \cup SlotsIn(G)
         /\ ReqsIn(E \cup G) = ReqsIn(E) \cup ReqsIn(G)
         /\ G \subseteq E => SlotsIn(G) \subseteq SlotsIn(E) /\ ReqsIn(G) \subseteq ReqsIn(E)
BY DEF SlotsIn, ReqsIn

\* Two sets of items that share neither slots nor requests are apart together.
LEMMA ApartUnion ==
  ASSUME NEW E, NEW G, Apart(E), Apart(G),
         SlotsIn(E) \cap SlotsIn(G) = {}, ReqsIn(E) \cap ReqsIn(G) = {}
  PROVE  Apart(E \cup G)
<1>1. SUFFICES ASSUME NEW x \in E \cup G, NEW y \in E \cup G,
                      x.slot = y.slot \/ x.req = y.req
               PROVE  x = y
  BY DEF Apart
<1>2. CASE x \in E /\ y \in G
  BY <1>1, <1>2 DEF SlotsIn, ReqsIn
<1>3. CASE x \in G /\ y \in E
  BY <1>1, <1>3 DEF SlotsIn, ReqsIn
<1>4. CASE x \in E /\ y \in E
  BY <1>1, <1>4 DEF Apart
<1>5. CASE x \in G /\ y \in G
  BY <1>1, <1>5 DEF Apart
<1>6. QED
  BY <1>1, <1>2, <1>3, <1>4, <1>5

\* Three disjoint parts of a whole.
Parts(A, B, C, All) ==
  /\ A \cap B = {} /\ A \cap C = {} /\ B \cap C = {}
  /\ A \cup B \cup C = All

\* The items in S start to run, those in U go back, those in D are done: slots
\* and requests stay in one place each.
LEMMA ItemsMove ==
  ASSUME NEW F, NEW W, NEW P, NEW R, NEW D, NEW S, NEW U, NEW AllSlots, NEW AllReqs,
         Apart(P), Apart(R), S \subseteq P, U \subseteq P, D \subseteq R \cup S, S = {} \/ U = {},
         Parts(F, SlotsIn(P), SlotsIn(R), AllSlots),
         Parts(W, ReqsIn(P), ReqsIn(R), AllReqs)
  PROVE  /\ Parts(F \cup SlotsIn(D) \cup SlotsIn(U), SlotsIn(P \ (S \cup U)),
                  SlotsIn((R \cup S) \ D), AllSlots)
         /\ Parts(W \cup ReqsIn(D) \cup ReqsIn(U), ReqsIn(P \ (S \cup U)),
                  ReqsIn((R \cup S) \ D), AllReqs)
<1> DEFINE s(E) == SlotsIn(E)
           r(E) == ReqsIn(E)
<1>1. Apart(S)
  BY DEF Apart
<1>2. /\ s(S) \subseteq s(P) /\ r(S) \subseteq r(P)
      /\ s(U) \subseteq s(P) /\ r(U) \subseteq r(P)
      /\ s(D) \subseteq s(R) \cup s(S) /\ r(D) \subseteq r(R) \cup r(S)
  BY DEF SlotsIn, ReqsIn
<1>3. Apart(R \cup S)
  BY <1>1, <1>2, ApartUnion DEF Parts
<1>4. /\ s(P \ (S \cup U)) = s(P) \ (s(S) \cup s(U))
      /\ r(P \ (S \cup U)) = r(P) \ (r(S) \cup r(U))
  <2>1. S \cup U \in SUBSET P
    OBVIOUS
  <2>2. SlotsIn(P \ (S \cup U)) = SlotsIn(P) \ SlotsIn(S \cup U)
        /\ ReqsIn(P \ (S \cup U)) = ReqsIn(P) \ ReqsIn(S \cup U)
    BY <2>1, LeftOver
  <2>3. QED
    BY <2>2, JoinedIn
<1>5. /\ s((R \cup S) \ D) = (s(R) \cup s(S)) \ s(D)
      /\ r((R \cup S) \ D) = (r(R) \cup r(S)) \ r(D)
  <2>1. D \in SUBSET (R \cup S)
    OBVIOUS
  <2>2. SlotsIn((R \cup S) \ D) = SlotsIn(R \cup S) \ SlotsIn(D)
        /\ ReqsIn((R \cup S) \ D) = ReqsIn(R \cup S) \ ReqsIn(D)
    BY <1>3, <2>1, LeftOver
  <2>3. QED
    BY <2>2, JoinedIn
<1>6. s(S) \cap s(U) = {} /\ r(S) \cap r(U) = {}
  BY DEF SlotsIn, ReqsIn
<1> HIDE DEF s, r
<1>7. /\ Parts(F, s(P), s(R), AllSlots)
      /\ Parts(W, r(P), r(R), AllReqs)
  BY DEF s, r
<1>8. Parts(F \cup s(D) \cup s(U), s(P \ (S \cup U)), s((R \cup S) \ D), AllSlots)
  BY <1>2, <1>4, <1>5, <1>6, <1>7 DEF Parts
<1>9. Parts(W \cup r(D) \cup r(U), r(P \ (S \cup U)), r((R \cup S) \ D), AllReqs)
  BY <1>2, <1>4, <1>5, <1>6, <1>7 DEF Parts
<1>10. QED
  BY <1>8, <1>9 DEF s, r

-----------------------------------------------------------------------------
(* The cache of the scheduler: what is proved of the cache on its own holds of *)
(* every cache the scheduler computes on the way.                              *)

\* The proofs about the page cache, for the cache of the scheduler; those about
\* the pool behind it are not used here, and the pool is left empty.
KVP == INSTANCE PagedKVCacheProofs WITH BatchSize <- MaxRunning, pool <- <<>>

\* A cache as PagedKVCache keeps it: its pages partitioned, its sequences covered.
Good(kv) == KV!TypedIn(kv) /\ KV!PartitionedIn(kv) /\ KV!CoveredIn(kv)
\* What a call may add to each slot.
Growth   == [Slots -> 0 .. MaxSeqLen]

\* The scheduler's constants are a cache's.
LEMMA CacheConstants == KVP!CacheAssumption
BY SchedulerAssumption DEF KVP!CacheAssumption

\* The cache has one sequence for each slot.
LEMMA SameSlots == KV!Seqs = Slots /\ KVP!Seqs = Slots /\ KV!Pool = KVP!Pool
BY DEF KV!Seqs, KVP!Seqs, Slots, KV!Pool, KVP!Pool

\* A good cache is what the proofs about the cache call sound ...
LEMMA SameSound ==
  ASSUME NEW kv
  PROVE  Good(kv) <=> KVP!Sound(kv)
<1>1. KV!TypedIn(kv) <=> KVP!TypedIn(kv)
  BY SameSlots DEF KV!TypedIn, KVP!TypedIn
<1>2. KV!PartitionedIn(kv) <=> KVP!PartitionedIn(kv)
  BY SameSlots DEF KV!PartitionedIn, KVP!PartitionedIn, KV!Distinct, KVP!Distinct, KV!Disjoint,
                   KVP!Disjoint, KV!Occurs, KVP!Occurs
<1>3. KV!CoveredIn(kv) <=> KVP!CoveredIn(kv)
  BY SameSlots DEF KV!CoveredIn, KVP!CoveredIn
<1>4. QED
  BY <1>1, <1>2, <1>3 DEF Good, KVP!Sound

\* ... and the operations are the same there.
LEMMA SameOperations ==
  ASSUME NEW kv, NEW news, NEW s, NEW n
  PROVE  /\ KV!TooLong(kv, news) = KVP!TooLong(kv, news)
         /\ KV!Fits(kv, news) = KVP!Fits(kv, news)
         /\ KV!Allocated(kv, news) = KVP!Allocated(kv, news)
         /\ KV!Freed(kv, s) = KVP!Freed(kv, s)
         /\ KV!Truncated(kv, s, n) = KVP!Truncated(kv, s, n)
         /\ KV!Missing(kv, news, s) = KVP!Missing(kv, news, s)
         /\ KV!Demand(kv, news) = KVP!Demand(kv, news)
         /\ KV!Pages(n) = KVP!Pages(n)
<1>1. KV!Pages(n) = KVP!Pages(n) /\ \A m : KV!Pages(m) = KVP!Pages(m)
  BY DEF KV!Pages, KVP!Pages
<1>2. \A a : KV!Missing(kv, news, a) = KVP!Missing(kv, news, a)
  BY <1>1 DEF KV!Missing, KVP!Missing
<1>3. \A a : KV!DemandBefore(kv, news, a) = KVP!DemandBefore(kv, news, a)
  <2>1. \A S : KV!Cardinality(S) = KVP!Cardinality(S)
    BY DEF KV!Cardinality, KVP!Cardinality
  <2>2. QED
    BY <1>2, <2>1 DEF KV!DemandBefore, KVP!DemandBefore
<1>4. KV!Demand(kv, news) = KVP!Demand(kv, news)
  BY <1>3 DEF KV!Demand, KVP!Demand
<1>5. /\ KV!TooLong(kv, news) = KVP!TooLong(kv, news)
      /\ KV!Fits(kv, news) = KVP!Fits(kv, news)
  BY <1>4, SameSlots DEF KV!TooLong, KVP!TooLong, KV!Fits, KVP!Fits
<1>6. KV!Allocated(kv, news) = KVP!Allocated(kv, news)
  <2>1. \A skip, m : KV!Popped(kv, skip, m) = KVP!Popped(kv, skip, m)
    BY DEF KV!Popped, KVP!Popped
  <2>2. QED
    BY <1>2, <1>3, <1>4, <2>1, SameSlots DEF KV!Allocated, KVP!Allocated
<1>7. KV!Freed(kv, s) = KVP!Freed(kv, s) /\ KV!Truncated(kv, s, n) = KVP!Truncated(kv, s, n)
  BY DEF KV!Freed, KVP!Freed, KV!Truncated, KVP!Truncated
<1>8. QED
  BY <1>1, <1>2, <1>4, <1>5, <1>6, <1>7

\* A good cache has its shape, and no sequence is too long.
LEMMA GoodTyped ==
  ASSUME NEW kv, Good(kv)
  PROVE  /\ kv \in [lens : [Slots -> Nat], tables : [Slots -> Seq(KV!Pool)], free : Seq(KV!Pool)]
         /\ \A s \in Slots : kv.lens[s] <= MaxSeqLen
BY SameSlots DEF Good, KV!TypedIn, KV!CoveredIn

\* Allocating pages for what fits keeps a cache good (PagedKVCache.allocate).
LEMMA GrownGood ==
  ASSUME NEW kv, Good(kv), NEW news \in [Slots -> Nat], ~KV!TooLong(kv, news), KV!Fits(kv, news)
  PROVE  /\ Good(KV!Allocated(kv, news))
         /\ \A s \in Slots : KV!Allocated(kv, news).lens[s] = kv.lens[s] + news[s]
<1>1. news \in Growth
  <2>1. \A s \in Slots : kv.lens[s] \in Nat /\ ~(kv.lens[s] + news[s] > MaxSeqLen)
    BY GoodTyped, SameSlots DEF KV!TooLong
  <2>2. \A s \in Slots : news[s] <= MaxSeqLen
    BY <2>1, SchedulerAssumption
  <2>3. QED
    BY <2>2 DEF Growth
<1>2. news \in KVP!News
  BY <1>1, SameSlots DEF Growth, KVP!News
<1> DEFINE kw == KV!Allocated(kv, news)
<1>3. KVP!Allocates(kv, kw, news)
  BY SameOperations DEF KVP!Allocates
<1>4. KVP!Sound(kv)
  BY SameSound
<1>5. \A s \in Slots : kw.lens[s] = kv.lens[s] + news[s]
  BY SameSlots DEF KV!Allocated
<1> HIDE DEF kw
<1>6. KVP!Sound(kw)
  BY <1>2, <1>3, <1>4, CacheConstants, KVP!AllocateIsGood
<1>7. QED
  BY <1>5, <1>6, SameSound DEF kw

\* Freeing a slot keeps a cache good (PagedKVCache.free_slot).
LEMMA FreedGood ==
  ASSUME NEW kv, Good(kv), NEW s \in Slots
  PROVE  /\ Good(KV!Freed(kv, s))
         /\ KV!Freed(kv, s).lens = [kv.lens EXCEPT ![s] = 0]
<1> DEFINE kw == KV!Freed(kv, s)
<1>1. KVP!Frees(kv, kw, s)
  BY SameOperations DEF KVP!Frees
<1>2. KVP!Sound(kv) /\ s \in KVP!Seqs
  BY SameSound, SameSlots
<1>3. kw.lens = [kv.lens EXCEPT ![s] = 0]
  BY DEF KV!Freed
<1> HIDE DEF kw
<1>4. KVP!Sound(kw)
  BY <1>1, <1>2, CacheConstants, KVP!FreeIsGood
<1>5. QED
  BY <1>3, <1>4, SameSound DEF kw

\* Cutting a slot back keeps a cache good (PagedKVCache.truncate).
LEMMA TruncatedGood ==
  ASSUME NEW kv, Good(kv), NEW s \in Slots, NEW n \in Nat, n <= kv.lens[s]
  PROVE  /\ Good(KV!Truncated(kv, s, n))
         /\ KV!Truncated(kv, s, n).lens = [kv.lens EXCEPT ![s] = n]
<1> DEFINE kw == KV!Truncated(kv, s, n)
<1>1. KVP!Truncates(kv, kw, s, n)
  BY SameOperations DEF KVP!Truncates
<1>2. KVP!Sound(kv) /\ s \in KVP!Seqs
  BY SameSound, SameSlots
<1>3. kw.lens = [kv.lens EXCEPT ![s] = n]
  BY DEF KV!Truncated
<1>0. n \in 0 .. MaxSeqLen
  BY GoodTyped, SchedulerAssumption
<1> HIDE DEF kw
<1>4. KVP!Sound(kw)
  BY <1>0, <1>1, <1>2, CacheConstants, KVP!TruncateIsGood
<1>5. QED
  BY <1>3, <1>4, SameSound DEF kw

\* A new cache is good and empty (PagedKVCache.reset).
LEMMA EmptyGood == Good(KV!Empty) /\ KV!Empty.lens = [s \in Slots |-> 0]
<1>1. KV!Empty = KVP!Empty
  BY DEF KV!Empty, KVP!Empty, KV!Seqs, KVP!Seqs
<1>2. KVP!Sound(KVP!Empty)
  BY CacheConstants, KVP!EmptyIsGood
<1>3. QED
  BY <1>1, <1>2, SameSound, SameSlots DEF KV!Empty

-----------------------------------------------------------------------------
(* Several sequences freed or cut back, one after the other *)

\* The caches of the right shape, and the good ones among them.
CacheStates == [lens : [Slots -> Nat], tables : [Slots -> Seq(KV!Pool)], free : Seq(KV!Pool)]
GoodCaches  == {kv \in CacheStates : Good(kv)}

\* Being good includes having the shape.
LEMMA GoodIsState ==
  ASSUME NEW kv
  PROVE  Good(kv) <=> kv \in GoodCaches
BY GoodTyped DEF GoodCaches, CacheStates

\* Freeing the slots of a list of items, one after the other, empties just these.
LEMMA FreeAllGood ==
  ASSUME NEW c, Good(c), NEW items \in Seq(Items)
  PROVE  /\ Good(FreeAll(c, items))
         /\ \A s \in Slots : FreeAll(c, items).lens[s]
                               = IF s \in SlotsIn(ToSet(items)) THEN 0 ELSE c.lens[s]
<1> DEFINE n == Len(items)
           Q == GoodCaches
           slot == [i \in 1 .. n |-> items[i].slot]
           G == [p \in (1 .. n) \X Q |-> KV!Freed(p[2], slot[p[1]])]
           Eq(f) == f = [i \in 0 .. n |->
                           IF i = 0 THEN c ELSE KV!Freed(f[i - 1], items[i].slot)]
<1>0. n \in Nat /\ slot \in [1 .. n -> Slots] /\ \A i \in 1 .. n : slot[i] = items[i].slot
  <2>1. n \in Nat /\ \A i \in 1 .. n : items[i] \in Items
    OBVIOUS
  <2> HIDE DEF n
  <2>2. \A i \in 1 .. n : items[i].slot \in Slots
    BY <2>1 DEF Items
  <2>3. QED
    BY <2>1, <2>2
<1> HIDE DEF slot
<1>1. PICK g : Iterates(g, n, Q, c, G)
  <2>1. ASSUME NEW i \in 1 .. n, NEW kv \in Q
        PROVE  KV!Freed(kv, slot[i]) \in Q
    BY <1>0, GoodIsState, FreedGood
  <2> HIDE DEF Q, n
  <2>2. G \in [(1 .. n) \X Q -> Q]
    <3>1. \A p \in (1 .. n) \X Q : p[1] \in 1 .. n /\ p[2] \in Q
      OBVIOUS
    <3>2. QED
      BY <2>1, <3>1
  <2>3. c \in Q
    BY GoodIsState DEF Q
  <2> HIDE DEF G
  <2>4. QED
    BY <1>0, <2>2, <2>3, Recursion
<1>2. /\ g \in [0 .. n -> Q] /\ g[0] = c
      /\ \A i \in 1 .. n : g[i] = KV!Freed(g[i - 1], slot[i])
  <2>1. g \in [0 .. n -> Q] /\ g[0] = c /\ \A i \in 1 .. n : g[i] = G[<<i, g[i - 1]>>]
    BY <1>1 DEF Iterates
  <2>2. \A i \in 1 .. n : i - 1 \in 0 .. n
    BY <1>0
  <2> HIDE DEF Q, n
  <2>3. \A i \in 1 .. n : <<i, g[i - 1]>> \in (1 .. n) \X Q
    BY <2>1, <2>2
  <2>4. QED
    BY <2>1, <2>3
<1> DEFINE t == CHOOSE f : Eq(f)
<1>3. Eq(t)
  <2>1. \A i \in 0 .. n : i # 0 => i \in 1 .. n
    BY <1>0
  <2>2. g = [i \in 0 .. n |-> IF i = 0 THEN c ELSE KV!Freed(g[i - 1], items[i].slot)]
    <3> HIDE DEF n, Q
    <3>1. QED
      BY <1>0, <1>2, <2>1
  <2>3. Eq(g)
    BY <2>2
  <2>4. QED
    BY <2>3
<1>4. FreeAll(c, items) = t[n]
  BY DEF FreeAll
<1> HIDE DEF t, G
<1>5. \A i \in 0 .. n : t[i] = g[i]
  <2> DEFINE P == {i \in 0 .. n : t[i] = g[i]}
  <2>1. 0 \in P
    BY <1>0, <1>2, <1>3
  <2>2. ASSUME NEW i \in 1 .. n, i - 1 \in P
        PROVE  i \in P
    <3>1. i \in 0 .. n /\ i # 0 /\ t[i - 1] = g[i - 1]
      BY <1>0, <2>2
    <3> HIDE DEF n, Q, P
    <3>2. t[i] = KV!Freed(t[i - 1], slot[i])
      BY <1>0, <1>3, <3>1
    <3>3. QED
      BY <1>2, <3>1, <3>2 DEF P
  <2> HIDE DEF P
  <2>3. 0 .. n \subseteq P
    BY <1>0, <2>1, <2>2, UpTo
  <2>4. QED
    BY <2>3 DEF P
<1> HIDE DEF Eq
<1> DEFINE Freed(i) == {slot[j] : j \in 1 .. i}
           At(i) == \A s \in Slots : g[i].lens[s] = IF s \in Freed(i) THEN 0 ELSE c.lens[s]
<1>6. \A i \in 0 .. n : At(i)
  <2> DEFINE P == {i \in 0 .. n : At(i)}
  <2>1. 0 \in P
    BY <1>0, <1>2
  <2>2. ASSUME NEW i \in 1 .. n, i - 1 \in P
        PROVE  i \in P
    <3>1. i \in 0 .. n /\ i - 1 \in 0 .. n /\ At(i - 1)
      BY <1>0, <2>2
    <3>2. Good(g[i - 1]) /\ slot[i] \in Slots
      BY <1>0, <1>2, <3>1, GoodIsState
    <3>3. g[i].lens = [g[i - 1].lens EXCEPT ![slot[i]] = 0]
      BY <1>2, <3>2, FreedGood
    <3>4. DOMAIN g[i - 1].lens = Slots
      BY <3>2, GoodTyped
    <3>5. \A s \in Slots : s \in Freed(i) <=> s \in Freed(i - 1) \/ s = slot[i]
      BY <1>0
    <3> HIDE DEF Freed, n
    <3>6. At(i)
      BY <3>1, <3>3, <3>4, <3>5
    <3>7. QED
      BY <3>1, <3>6
  <2> HIDE DEF P
  <2>3. 0 .. n \subseteq P
    BY <1>0, <2>1, <2>2, UpTo
  <2>4. QED
    BY <2>3 DEF P
<1>7. n \in 0 .. n
  BY <1>0
<1>8. \A s \in Slots : s \in Freed(n) <=> s \in SlotsIn(ToSet(items))
  <2>1. ToSet(items) = {items[i] : i \in 1 .. n}
    BY SeqSet
  <2> HIDE DEF n
  <2>2. QED
    BY <1>0, <2>1 DEF SlotsIn
<1>9. FreeAll(c, items) = g[n] /\ Good(g[n])
  BY <1>2, <1>4, <1>5, <1>7, GoodIsState
<1> HIDE DEF n, Freed
<1>10. QED
  BY <1>6, <1>7, <1>8, <1>9

\* Rolling back the slots of a list of items returns just these to the length
\* the scheduler remembered.
LEMMA CutBackGood ==
  ASSUME NEW c, Good(c), NEW items \in Seq(Items), cache.lens \in [Slots -> Nat],
         \A s \in SlotsIn(ToSet(items)) : cache.lens[s] <= c.lens[s]
  PROVE  /\ Good(CutBack(c, items))
         /\ \A s \in Slots : CutBack(c, items).lens[s]
                               = IF s \in SlotsIn(ToSet(items)) THEN cache.lens[s] ELSE c.lens[s]
<1> DEFINE n == Len(items)
           Q == {kv \in GoodCaches : \A s \in SlotsIn(ToSet(items)) :
                                       cache.lens[s] <= kv.lens[s]}
           slot == [i \in 1 .. n |-> items[i].slot]
           G == [p \in (1 .. n) \X Q |-> KV!Truncated(p[2], slot[p[1]], cache.lens[slot[p[1]]])]
           Eq(f) == f = [i \in 0 .. n |->
                           IF i = 0 THEN c
                           ELSE KV!Truncated(f[i - 1], items[i].slot, cache.lens[items[i].slot])]
<1>0. n \in Nat /\ slot \in [1 .. n -> Slots] /\ \A i \in 1 .. n : slot[i] = items[i].slot
  <2>1. n \in Nat /\ \A i \in 1 .. n : items[i] \in Items
    OBVIOUS
  <2> HIDE DEF n
  <2>2. \A i \in 1 .. n : items[i].slot \in Slots
    BY <2>1 DEF Items
  <2>3. QED
    BY <2>1, <2>2
<1>a. \A i \in 1 .. n : slot[i] \in SlotsIn(ToSet(items)) /\ cache.lens[slot[i]] \in Nat
  <2>1. ToSet(items) = {items[i] : i \in 1 .. n}
    BY SeqSet
  <2> HIDE DEF n, slot
  <2>2. QED
    BY <1>0, <2>1 DEF SlotsIn
<1> HIDE DEF slot
<1>1. PICK g : Iterates(g, n, Q, c, G)
  <2>1. ASSUME NEW i \in 1 .. n, NEW kv \in Q
        PROVE  KV!Truncated(kv, slot[i], cache.lens[slot[i]]) \in Q
    <3> DEFINE kw == KV!Truncated(kv, slot[i], cache.lens[slot[i]])
    <3>1. Good(kv) /\ slot[i] \in Slots /\ cache.lens[slot[i]] <= kv.lens[slot[i]]
      BY <1>0, <1>a, GoodIsState
    <3>2. Good(kw) /\ kw.lens = [kv.lens EXCEPT ![slot[i]] = cache.lens[slot[i]]]
      BY <1>a, <3>1, TruncatedGood
    <3>3. DOMAIN kv.lens = Slots
      BY <3>1, GoodTyped
    <3>4. \A s \in SlotsIn(ToSet(items)) : s \in Slots
      <4>1. ToSet(items) \subseteq Items
        BY SeqSet
      <4>2. QED
        BY <4>1 DEF SlotsIn, Items
    <3>5. kw \in GoodCaches
      BY <3>2, GoodIsState
    <3> HIDE DEF kw, n
    <3>6. ASSUME NEW s \in SlotsIn(ToSet(items))
          PROVE  cache.lens[s] <= kw.lens[s]
      <4>1. s \in Slots /\ cache.lens[s] <= kv.lens[s] /\ cache.lens[s] \in Nat
        BY <3>4
      <4>2. QED
        BY <3>2, <3>3, <4>1
    <3>7. QED
      BY <3>5, <3>6 DEF kw
  <2> HIDE DEF Q, n
  <2>2. G \in [(1 .. n) \X Q -> Q]
    <3>1. \A p \in (1 .. n) \X Q : p[1] \in 1 .. n /\ p[2] \in Q
      OBVIOUS
    <3>2. QED
      BY <2>1, <3>1
  <2>3. c \in Q
    BY GoodIsState DEF Q
  <2> HIDE DEF G
  <2>4. QED
    BY <1>0, <2>2, <2>3, Recursion
<1>2. /\ g \in [0 .. n -> Q] /\ g[0] = c
      /\ \A i \in 1 .. n : g[i] = KV!Truncated(g[i - 1], slot[i], cache.lens[slot[i]])
  <2>1. g \in [0 .. n -> Q] /\ g[0] = c /\ \A i \in 1 .. n : g[i] = G[<<i, g[i - 1]>>]
    BY <1>1 DEF Iterates
  <2>2. \A i \in 1 .. n : i - 1 \in 0 .. n
    BY <1>0
  <2> HIDE DEF Q, n
  <2>3. \A i \in 1 .. n : <<i, g[i - 1]>> \in (1 .. n) \X Q
    BY <2>1, <2>2
  <2>4. QED
    BY <2>1, <2>3
<1> DEFINE t == CHOOSE f : Eq(f)
<1>3. Eq(t)
  <2>1. \A i \in 0 .. n : i # 0 => i \in 1 .. n
    BY <1>0
  <2>2. g = [i \in 0 .. n |->
               IF i = 0 THEN c
               ELSE KV!Truncated(g[i - 1], items[i].slot, cache.lens[items[i].slot])]
    <3> HIDE DEF n, Q
    <3>1. QED
      BY <1>0, <1>2, <2>1
  <2>3. Eq(g)
    BY <2>2
  <2>4. QED
    BY <2>3
<1>4. CutBack(c, items) = t[n]
  BY DEF CutBack
<1> HIDE DEF t, G
<1>5. \A i \in 0 .. n : t[i] = g[i]
  <2> DEFINE P == {i \in 0 .. n : t[i] = g[i]}
  <2>1. 0 \in P
    BY <1>0, <1>2, <1>3
  <2>2. ASSUME NEW i \in 1 .. n, i - 1 \in P
        PROVE  i \in P
    <3>1. i \in 0 .. n /\ i # 0 /\ t[i - 1] = g[i - 1]
      BY <1>0, <2>2
    <3> HIDE DEF n, Q, P
    <3>2. t[i] = KV!Truncated(t[i - 1], slot[i], cache.lens[slot[i]])
      BY <1>0, <1>3, <3>1
    <3>3. QED
      BY <1>2, <3>1, <3>2 DEF P
  <2> HIDE DEF P
  <2>3. 0 .. n \subseteq P
    BY <1>0, <2>1, <2>2, UpTo
  <2>4. QED
    BY <2>3 DEF P
<1> HIDE DEF Eq
<1> DEFINE Cut(i) == {slot[j] : j \in 1 .. i}
           At(i) == \A s \in Slots : g[i].lens[s] = IF s \in Cut(i) THEN cache.lens[s] ELSE c.lens[s]
<1>6. \A i \in 0 .. n : At(i)
  <2> DEFINE P == {i \in 0 .. n : At(i)}
  <2>1. 0 \in P
    BY <1>0, <1>2
  <2>2. ASSUME NEW i \in 1 .. n, i - 1 \in P
        PROVE  i \in P
    <3>1. i \in 0 .. n /\ i - 1 \in 0 .. n /\ At(i - 1)
      BY <1>0, <2>2
    <3>2. /\ Good(g[i - 1]) /\ slot[i] \in Slots
          /\ cache.lens[slot[i]] \in Nat /\ cache.lens[slot[i]] <= g[i - 1].lens[slot[i]]
      <4>1. g[i - 1] \in Q
        BY <1>2, <3>1
      <4> HIDE DEF n
      <4>2. QED
        BY <1>0, <1>a, <4>1, GoodIsState
    <3>3. g[i].lens = [g[i - 1].lens EXCEPT ![slot[i]] = cache.lens[slot[i]]]
      BY <1>2, <3>2, TruncatedGood
    <3>4. DOMAIN g[i - 1].lens = Slots
      BY <3>2, GoodTyped
    <3>5. \A s \in Slots : s \in Cut(i) <=> s \in Cut(i - 1) \/ s = slot[i]
      BY <1>0
    <3> HIDE DEF Cut, n
    <3>6. At(i)
      BY <3>1, <3>3, <3>4, <3>5
    <3>7. QED
      BY <3>1, <3>6
  <2> HIDE DEF P
  <2>3. 0 .. n \subseteq P
    BY <1>0, <2>1, <2>2, UpTo
  <2>4. QED
    BY <2>3 DEF P
<1>7. n \in 0 .. n
  BY <1>0
<1>8. \A s \in Slots : s \in Cut(n) <=> s \in SlotsIn(ToSet(items))
  <2>1. ToSet(items) = {items[i] : i \in 1 .. n}
    BY SeqSet
  <2> HIDE DEF n
  <2>2. QED
    BY <1>0, <2>1 DEF SlotsIn
<1>9. CutBack(c, items) = g[n] /\ Good(g[n])
  BY <1>2, <1>4, <1>5, <1>7, GoodIsState
<1> HIDE DEF n, Cut
<1>10. QED
  BY <1>6, <1>7, <1>8, <1>9

-----------------------------------------------------------------------------
(* Least and greatest numbers of a set *)

\* The least of some numbers.
LEMMA MinIs ==
  ASSUME NEW S \in SUBSET Nat, NEW x \in S
  PROVE  Min(S) \in S /\ \A y \in S : Min(S) <= y
<1>1. \E m \in S : \A y \in S : m <= y
  BY FirstIndex
<1>2. QED
  BY <1>1 DEF Min

\* The greatest of some bounded numbers.
LEMMA MaxIs ==
  ASSUME NEW n \in Nat, NEW S \in SUBSET (0 .. n), NEW x \in S
  PROVE  Max(S) \in S /\ \A y \in S : Max(S) >= y
<1> DEFINE R == {n - y : y \in S}
<1>1. R \in SUBSET Nat /\ n - x \in R
  OBVIOUS
<1>2. PICK m \in R : \A y \in R : m <= y
  <2> HIDE DEF R
  <2>1. QED
    BY <1>1, FirstIndex
<1>3. PICK z \in S : m = n - z
  BY <1>2
<1>4. \A y \in S : n - z <= n - y
  BY <1>2, <1>3
<1>5. \A y \in S : z >= y
  BY <1>4
<1>6. QED
  BY <1>5 DEF Max

-----------------------------------------------------------------------------
(* The chunks of a plan *)

\* A chunk attends to a natural number of pairs, an empty one to none.
LEMMA PairsNat ==
  ASSUME NEW p \in Nat, NEW c \in Nat
  PROVE  Pairs(p, c) \in Nat /\ Pairs(p, 0) = 0
<1> DEFINE q == 2 * p + c + 1
<1>1. q \in Nat
  OBVIOUS
<1> HIDE DEF q
<1>2. c * q \in Nat
  BY <1>1
<1> DEFINE w == c * q
<1>3. w \in Nat
  BY <1>2
<1> HIDE DEF w
<1>4. w \div 2 \in Nat
  BY <1>3
<1>5. Pairs(p, c) \in Nat
  BY <1>4 DEF Pairs, w, q
<1>6. Pairs(p, 0) = 0
  BY DEF Pairs
<1>7. QED
  BY <1>5, <1>6

\* _largest_chunk_within_budget keeps within the pairs it is given.
LEMMA LargestChunkIs ==
  ASSUME NEW p \in Nat, NEW most \in Nat, NEW pairs \in Nat
  PROVE  /\ LargestChunk(p, most, pairs) \in 0 .. most
         /\ Pairs(p, LargestChunk(p, most, pairs)) <= pairs
<1> DEFINE S == {c \in 0 .. most : Pairs(p, c) <= pairs}
<1>1. S \in SUBSET (0 .. most) /\ 0 \in S
  BY PairsNat
<1>2. LargestChunk(p, most, pairs) = Max(S)
  BY DEF LargestChunk
<1> HIDE DEF S
<1>3. Max(S) \in S
  BY <1>1, MaxIs
<1>4. QED
  BY <1>2, <1>3 DEF S

\* A chunk of a plan, and what the planning loop carries from item to item.
Chunks == [slot : Slots, req : Reqs, chunk : Nat \ {0}]
Budgets(limited) ==
  {acc \in [chosen : Seq(Chunks), tokens : Nat, pairs : Int, stopped : BOOLEAN] :
     limited => acc.pairs >= 0}

\* How much of a prompt a plan takes.
Share(acc, item, limited) ==
  LET most == Min({Remaining(item.req), acc.tokens, MaxPrefillChunk})
  IN  IF limited THEN LargestChunk(computed[item.req], most, acc.pairs) ELSE most

\* A share keeps within the prompt, the tokens, the chunk limit and the pairs left;
\* without a limit on pairs it is only empty when nothing is to do or to give.
LEMMA ShareIs ==
  ASSUME NEW limited \in BOOLEAN, NEW acc \in Budgets(limited), NEW item \in Items,
         computed[item.req] \in Nat, Remaining(item.req) \in Nat
  PROVE  LET length == Share(acc, item, limited)
         IN  /\ length \in Nat
             /\ length <= Remaining(item.req)
             /\ length <= acc.tokens
             /\ length <= MaxPrefillChunk
             /\ limited => Pairs(computed[item.req], length) <= acc.pairs
             /\ ~limited /\ length = 0 => Remaining(item.req) = 0 \/ acc.tokens = 0
<1> DEFINE all  == {Remaining(item.req), acc.tokens, MaxPrefillChunk}
           most == Min(all)
<1>1. all \in SUBSET Nat /\ acc.tokens \in Nat /\ acc.pairs \in Int
      /\ (limited => acc.pairs \in Nat) /\ MaxPrefillChunk \in Nat \ {0}
  BY SchedulerAssumption DEF Budgets
<1>2. most \in all /\ \A y \in all : most <= y
  <2>1. acc.tokens \in all
    OBVIOUS
  <2> HIDE DEF all
  <2>2. QED
    BY <1>1, <2>1, MinIs
<1>3. /\ most \in Nat /\ most <= Remaining(item.req) /\ most <= acc.tokens
      /\ most <= MaxPrefillChunk
      /\ most = Remaining(item.req) \/ most = acc.tokens \/ most = MaxPrefillChunk
  BY <1>1, <1>2
<1>4. Share(acc, item, limited)
        = IF limited THEN LargestChunk(computed[item.req], most, acc.pairs) ELSE most
  BY DEF Share
<1> HIDE DEF most, all
<1>5. CASE limited
  <2> DEFINE big == LargestChunk(computed[item.req], most, acc.pairs)
  <2>1. big \in 0 .. most /\ Pairs(computed[item.req], big) <= acc.pairs
    BY <1>1, <1>3, <1>5, LargestChunkIs
  <2>2. Share(acc, item, limited) = big
    BY <1>4, <1>5
  <2> HIDE DEF big
  <2>3. big \in Nat /\ big <= Remaining(item.req) /\ big <= acc.tokens /\ big <= MaxPrefillChunk
    BY <1>1, <1>3, <2>1
  <2>4. QED
    BY <1>5, <2>1, <2>2, <2>3
<1>6. CASE ~limited
  BY <1>1, <1>3, <1>4, <1>6
<1>7. QED
  BY <1>5, <1>6

\* One prompt is taken into the plan, or is not.
LEMMA ChunkedIs ==
  ASSUME NEW limited \in BOOLEAN, NEW acc \in Budgets(limited), NEW item \in Items,
         computed[item.req] \in Nat, Remaining(item.req) \in Nat
  PROVE  LET next   == Chunked(acc, item, limited)
             length == Share(acc, item, limited)
         IN  /\ next \in Budgets(limited)
             /\ acc.stopped \/ length = 0 =>
                  /\ next.chosen = acc.chosen /\ next.tokens = acc.tokens
                  /\ next.pairs = acc.pairs /\ next.stopped = (acc.stopped \/ limited)
             /\ ~(acc.stopped \/ length = 0) =>
                  /\ next.chosen = Append(acc.chosen, [slot |-> item.slot, req |-> item.req,
                                                       chunk |-> length])
                  /\ next.tokens = acc.tokens - length
                  /\ next.pairs = acc.pairs - Pairs(computed[item.req], length)
                  /\ next.stopped = acc.stopped
<1> DEFINE next   == Chunked(acc, item, limited)
           length == Share(acc, item, limited)
           x      == [slot |-> item.slot, req |-> item.req, chunk |-> length]
<1>1. next = IF acc.stopped \/ length = 0
             THEN [acc EXCEPT !.stopped = @ \/ limited]
             ELSE [acc EXCEPT !.chosen = Append(@, x), !.tokens = @ - length,
                              !.pairs = @ - Pairs(computed[item.req], length)]
  BY DEF Chunked, Share
<1>2. /\ length \in Nat /\ length <= acc.tokens
      /\ limited => Pairs(computed[item.req], length) <= acc.pairs
      /\ Pairs(computed[item.req], length) \in Nat
  <2>1. length \in Nat /\ length <= acc.tokens
        /\ (limited => Pairs(computed[item.req], length) <= acc.pairs)
    BY ShareIs
  <2>2. QED
    BY <2>1, PairsNat
<1>3. /\ acc.chosen \in Seq(Chunks) /\ acc.tokens \in Nat /\ acc.pairs \in Int
      /\ acc.stopped \in BOOLEAN /\ (limited => acc.pairs >= 0)
      /\ acc = [chosen |-> acc.chosen, tokens |-> acc.tokens, pairs |-> acc.pairs,
                stopped |-> acc.stopped]
  BY DEF Budgets
<1> HIDE DEF next, length
<1>4. CASE acc.stopped \/ length = 0
  <2>1. next = [chosen |-> acc.chosen, tokens |-> acc.tokens, pairs |-> acc.pairs,
                stopped |-> acc.stopped \/ limited]
    BY <1>1, <1>3, <1>4
  <2>2. QED
    BY <1>3, <1>4, <2>1 DEF Budgets, next, length
<1>5. CASE ~(acc.stopped \/ length = 0)
  <2>1. next = [chosen |-> Append(acc.chosen, x), tokens |-> acc.tokens - length,
                pairs |-> acc.pairs - Pairs(computed[item.req], length),
                stopped |-> acc.stopped]
    BY <1>1, <1>3, <1>5
  <2>2. x \in Chunks
    BY <1>2, <1>5 DEF Chunks, Items
  <2> HIDE DEF x
  <2>3. Append(acc.chosen, x) \in Seq(Chunks)
    BY <1>3, <2>2
  <2>4. next \in Budgets(limited)
    BY <1>2, <1>3, <2>1, <2>3 DEF Budgets
  <2>5. QED
    BY <1>5, <2>1, <2>4 DEF next, length, x
<1>6. QED
  BY <1>4, <1>5

\* The prompts are looked at one after the other.
ChunkSteps(g, items, tokens, limited) ==
  /\ g \in [0 .. Len(items) -> Budgets(limited)]
  /\ g[0] = [chosen |-> <<>>, tokens |-> tokens, pairs |-> MaxPairs, stopped |-> FALSE]
  /\ \A i \in 1 .. Len(items) : g[i] = Chunked(g[i - 1], items[i], limited)

\* PlanChunks is the planning loop, run over the whole list.
LEMMA PlanChunksSteps ==
  ASSUME NEW items \in Seq(Items), NEW tokens \in Nat, NEW limited \in BOOLEAN,
         \A it \in ToSet(items) : computed[it.req] \in Nat /\ Remaining(it.req) \in Nat
  PROVE  \E g : /\ ChunkSteps(g, items, tokens, limited)
                /\ PlanChunks(items, tokens, limited) = g[Len(items)].chosen
<1> DEFINE n == Len(items)
           Q == Budgets(limited)
           base == [chosen |-> <<>>, tokens |-> tokens, pairs |-> MaxPairs, stopped |-> FALSE]
           G == [p \in (1 .. n) \X Q |-> Chunked(p[2], items[p[1]], limited)]
           Eq(f) == f = [i \in 0 .. n |-> IF i = 0 THEN base ELSE Chunked(f[i - 1], items[i], limited)]
<1>0. n \in Nat /\ \A i \in 1 .. n : items[i] \in Items /\ items[i] \in ToSet(items)
  <2>1. n \in Nat /\ \A i \in 1 .. n : items[i] \in Items
    OBVIOUS
  <2>2. QED
    BY <2>1, SeqSet
<1>1. PICK g : Iterates(g, n, Q, base, G)
  <2>1. ASSUME NEW i \in 1 .. n, NEW acc \in Q
        PROVE  Chunked(acc, items[i], limited) \in Q
    BY <1>0, ChunkedIs
  <2>3. base \in Q
    BY SchedulerAssumption DEF Budgets
  <2> HIDE DEF Q, n, base
  <2>2. G \in [(1 .. n) \X Q -> Q]
    <3>1. \A p \in (1 .. n) \X Q : p[1] \in 1 .. n /\ p[2] \in Q
      OBVIOUS
    <3>2. QED
      BY <2>1, <3>1
  <2> HIDE DEF G
  <2>4. QED
    BY <1>0, <2>2, <2>3, Recursion
<1> HIDE DEF base
<1>2. /\ g \in [0 .. n -> Q] /\ g[0] = base
      /\ \A i \in 1 .. n : g[i] = Chunked(g[i - 1], items[i], limited)
  <2>1. g \in [0 .. n -> Q] /\ g[0] = base /\ \A i \in 1 .. n : g[i] = G[<<i, g[i - 1]>>]
    BY <1>1 DEF Iterates
  <2>2. \A i \in 1 .. n : i - 1 \in 0 .. n
    BY <1>0
  <2> HIDE DEF Q, n
  <2>3. \A i \in 1 .. n : <<i, g[i - 1]>> \in (1 .. n) \X Q
    BY <2>1, <2>2
  <2>4. QED
    BY <2>1, <2>3
<1> DEFINE t == CHOOSE f : Eq(f)
<1>3. Eq(t)
  <2>1. \A i \in 0 .. n : i # 0 => i \in 1 .. n
    BY <1>0
  <2>2. g = [i \in 0 .. n |-> IF i = 0 THEN base ELSE Chunked(g[i - 1], items[i], limited)]
    <3> HIDE DEF n, Q
    <3>1. QED
      BY <1>2, <2>1
  <2>3. Eq(g)
    BY <2>2
  <2>4. QED
    BY <2>3
<1>4. PlanChunks(items, tokens, limited) = t[n].chosen
  BY DEF PlanChunks, base
<1> HIDE DEF t, G
<1>5. \A i \in 0 .. n : t[i] = g[i]
  <2> DEFINE P == {i \in 0 .. n : t[i] = g[i]}
  <2>1. 0 \in P
    BY <1>0, <1>2, <1>3
  <2>2. ASSUME NEW i \in 1 .. n, i - 1 \in P
        PROVE  i \in P
    <3>1. i \in 0 .. n /\ i # 0 /\ t[i - 1] = g[i - 1]
      BY <1>0, <2>2
    <3> HIDE DEF n, Q, P
    <3>2. t[i] = Chunked(t[i - 1], items[i], limited)
      BY <1>3, <3>1
    <3>3. QED
      BY <1>2, <3>1, <3>2 DEF P
  <2> HIDE DEF P
  <2>3. 0 .. n \subseteq P
    BY <1>0, <2>1, <2>2, UpTo
  <2>4. QED
    BY <2>3 DEF P
<1> HIDE DEF Eq
<1>6. n \in 0 .. n
  BY <1>0
<1>7. ChunkSteps(g, items, tokens, limited)
  BY <1>2 DEF ChunkSteps, base
<1>8. QED
  BY <1>4, <1>5, <1>6, <1>7

\* What is planned for these items, out of the first k of them.
Follows(chosen, items, k) ==
  \A x \in ToSet(chosen) : \E j \in 1 .. k :
    /\ x.slot = items[j].slot /\ x.req = items[j].req
    /\ x.chunk <= Remaining(x.req)

\* Appending an entry.
LEMMA AppendSet ==
  ASSUME NEW T, NEW s \in Seq(T), NEW x \in T
  PROVE  /\ Append(s, x) \in Seq(T)
         /\ ToSet(Append(s, x)) = ToSet(s) \cup {x}
         /\ Once(s) /\ x \notin ToSet(s) => Once(Append(s, x))
<1> DEFINE u == Append(s, x)
           m == Len(s)
<1>1. /\ u \in Seq(T) /\ Len(u) = m + 1 /\ m \in Nat /\ u[m + 1] = x
      /\ \A i \in 1 .. m : u[i] = s[i]
  OBVIOUS
<1>2. ToSet(s) = {s[i] : i \in 1 .. m}
  BY SeqSet
<1> HIDE DEF u
<1>3. ToSet(u) = {u[i] : i \in 1 .. Len(u)}
  BY <1>1, SeqSet
<1> HIDE DEF m
<1>4. \A i \in 1 .. m + 1 : i = m + 1 \/ i \in 1 .. m
  BY <1>1
<1>5. ToSet(u) = ToSet(s) \cup {x}
  <2>1. m + 1 \in 1 .. m + 1 /\ 1 .. m \subseteq 1 .. m + 1
    BY <1>1
  <2>2. QED
    BY <1>1, <1>2, <1>3, <1>4, <2>1
<1>6. ASSUME Once(s), x \notin ToSet(s)
      PROVE  Once(u)
  <2>1. SUFFICES ASSUME NEW i \in 1 .. m + 1, NEW j \in 1 .. m + 1, u[i] = u[j]
                 PROVE  i = j
    BY <1>1 DEF Once
  <2>2. CASE i \in 1 .. m /\ j \in 1 .. m
    BY <1>1, <1>6, <2>1, <2>2 DEF Once, m
  <2>3. QED
    BY <1>1, <1>2, <1>4, <1>6, <2>1, <2>2
<1>7. QED
  BY <1>1, <1>5, <1>6 DEF u

\* The chunks planned are for different items of the list, in its order.
LEMMA PlanChunksFollow ==
  ASSUME NEW items \in Seq(Items), NEW tokens \in Nat, NEW limited \in BOOLEAN, Unique(items),
         \A it \in ToSet(items) : computed[it.req] \in Nat /\ Remaining(it.req) \in Nat
  PROVE  LET chosen == PlanChunks(items, tokens, limited)
         IN  /\ chosen \in Seq(Chunks)
             /\ Unique(chosen)
             /\ Follows(chosen, items, Len(items))
<1> DEFINE n == Len(items)
<1>1. PICK g : /\ ChunkSteps(g, items, tokens, limited)
               /\ PlanChunks(items, tokens, limited) = g[n].chosen
  BY PlanChunksSteps
<1>2. /\ g \in [0 .. n -> Budgets(limited)]
      /\ g[0].chosen = <<>>
      /\ \A i \in 1 .. n : g[i] = Chunked(g[i - 1], items[i], limited)
  BY <1>1 DEF ChunkSteps
<1>3. /\ n \in Nat
      /\ \A i \in 1 .. n : /\ items[i] \in Items /\ items[i] \in ToSet(items)
                           /\ computed[items[i].req] \in Nat /\ Remaining(items[i].req) \in Nat
  <2>1. n \in Nat /\ \A i \in 1 .. n : items[i] \in Items
    OBVIOUS
  <2>2. QED
    BY <2>1, SeqSet
<1>4. \A i, j \in 1 .. n :
        items[i].slot = items[j].slot \/ items[i].req = items[j].req => i = j
  BY <1>3 DEF Unique, Apart, Once
<1> HIDE DEF n
<1> DEFINE Fine(i) == Unique(g[i].chosen) /\ Follows(g[i].chosen, items, i)
           P == {i \in 0 .. n : Fine(i)}
<1>5. 0 \in P
  <2>1. g[0].chosen \in Seq(Chunks) /\ ToSet(<<>>) = {} /\ Len(<<>>) = 0
    BY <1>2, SeqSet DEF ToSet
  <2>2. 0 \in 0 .. n
    BY <1>3
  <2>3. Fine(0)
    BY <1>2, <2>1 DEF Unique, Once, Apart, Follows
  <2>4. QED
    BY <2>2, <2>3
<1>6. ASSUME NEW i \in 1 .. n, i - 1 \in P
      PROVE  i \in P
  <2>1. i \in 0 .. n /\ i - 1 \in 0 .. n /\ Fine(i - 1) /\ 1 .. (i - 1) \subseteq 1 .. i
        /\ i \in 1 .. i /\ i \notin 1 .. (i - 1) /\ 1 .. i \subseteq 1 .. n
    BY <1>3, <1>6
  <2> DEFINE acc    == g[i - 1]
             length == Share(acc, items[i], limited)
             x      == [slot |-> items[i].slot, req |-> items[i].req, chunk |-> length]
  <2>2. acc \in Budgets(limited)
    BY <1>2, <2>1
  <2>3. /\ acc.stopped \/ length = 0 => g[i].chosen = acc.chosen
        /\ ~(acc.stopped \/ length = 0) => g[i].chosen = Append(acc.chosen, x)
        /\ length \in Nat /\ length <= Remaining(items[i].req)
    <3>1. length \in Nat /\ length <= Remaining(items[i].req)
      BY <1>3, <2>2, ShareIs
    <3>2. /\ acc.stopped \/ length = 0 => g[i].chosen = acc.chosen
          /\ ~(acc.stopped \/ length = 0) => g[i].chosen = Append(acc.chosen, x)
      <4> DEFINE item == items[i]
      <4>1. item \in Items /\ computed[item.req] \in Nat /\ Remaining(item.req) \in Nat
        BY <1>3
      <4>2. g[i] = Chunked(acc, item, limited)
        BY <1>2
      <4> HIDE DEF acc, item
      <4>3. LET next == Chunked(acc, item, limited)
                len  == Share(acc, item, limited)
            IN  /\ acc.stopped \/ len = 0 => next.chosen = acc.chosen
                /\ ~(acc.stopped \/ len = 0) =>
                     next.chosen = Append(acc.chosen, [slot |-> item.slot, req |-> item.req,
                                                       chunk |-> len])
        BY <2>2, <4>1, ChunkedIs
      <4>4. QED
        BY <4>2, <4>3 DEF item
    <3>3. QED
      BY <3>1, <3>2
  <2>4. acc.chosen \in Seq(Chunks)
    BY <2>2 DEF Budgets
  <2>5. Unique(acc.chosen) /\ Follows(acc.chosen, items, i - 1)
    BY <2>1
  <2> HIDE DEF acc, length, P, Fine
  <2>6. CASE acc.stopped \/ length = 0
    <3>1. Fine(i)
      BY <2>1, <2>3, <2>5, <2>6 DEF Follows, Fine
    <3>2. QED
      BY <2>1, <3>1 DEF P
  <2>7. CASE ~(acc.stopped \/ length = 0)
    <3>1. x \in Chunks
      BY <1>3, <2>3, <2>7 DEF Chunks, Items
    <3>2. \A y \in ToSet(acc.chosen) : y.slot # x.slot /\ y.req # x.req
      <4>1. SUFFICES ASSUME NEW y \in ToSet(acc.chosen)
                     PROVE  y.slot # items[i].slot /\ y.req # items[i].req
        OBVIOUS
      <4>2. PICK j \in 1 .. i - 1 : y.slot = items[j].slot /\ y.req = items[j].req
        BY <2>5 DEF Follows
      <4>3. j \in 1 .. n /\ j # i
        BY <2>1, <4>2
      <4>4. QED
        BY <1>4, <4>2, <4>3
    <3>3. x.slot = items[i].slot /\ x.req = items[i].req /\ x.chunk <= Remaining(x.req)
      BY <2>3
    <3> HIDE DEF x
    <3>0. x \notin ToSet(acc.chosen) /\ Once(acc.chosen) /\ g[i].chosen = Append(acc.chosen, x)
      BY <2>3, <2>5, <2>7, <3>2 DEF Unique
    <3>4. /\ ToSet(g[i].chosen) = ToSet(acc.chosen) \cup {x}
          /\ Once(g[i].chosen)
      BY <2>4, <3>0, <3>1, AppendSet
    <3>5. Unique(g[i].chosen)
      BY <2>5, <3>2, <3>4 DEF Unique, Apart
    <3>6. Follows(g[i].chosen, items, i)
      BY <2>1, <2>5, <3>3, <3>4 DEF Follows
    <3>7. QED
      BY <2>1, <3>5, <3>6 DEF P, Fine
  <2>8. QED
    BY <2>6, <2>7
<1> HIDE DEF P
<1>7. 0 .. n \subseteq P
  BY <1>3, <1>5, <1>6, UpTo
<1>8. n \in 0 .. n
  BY <1>3
<1>9. Fine(n) /\ g[n].chosen \in Seq(Chunks)
  BY <1>2, <1>7, <1>8 DEF P, Budgets
<1>10. QED
  BY <1>1, <1>9 DEF n

-----------------------------------------------------------------------------
(* Sums and budgets *)

\* A sum grows by its last term.
LEMMA SumMore ==
  ASSUME NEW n \in Nat, NEW f \in [1 .. n + 1 -> Int], NEW g \in [1 .. n -> Int],
         \A i \in 1 .. n : f[i] = g[i]
  PROVE  Sum(g, n) \in Int /\ Sum(f, n + 1) = Sum(g, n) + f[n + 1]
<1>1. PICK s \in [0 .. n -> Int] :
        s[0] = 0 /\ (\A i \in 1 .. n : s[i] = s[i - 1] + g[i]) /\ Sum(g, n) = s[n]
  BY SumSteps
<1> DEFINE m == n + 1
<1>2. m \in Nat /\ f \in [1 .. m -> Int]
  OBVIOUS
<1> HIDE DEF m
<1>3. PICK t \in [0 .. m -> Int] :
        t[0] = 0 /\ (\A i \in 1 .. m : t[i] = t[i - 1] + f[i]) /\ Sum(f, m) = t[m]
  BY <1>2, SumSteps
<1> DEFINE P == {i \in 0 .. n : t[i] = s[i]}
<1>4. 0 \in P
  BY <1>1, <1>3
<1>5. ASSUME NEW i \in 1 .. n, i - 1 \in P
      PROVE  i \in P
  <2>1. t[i - 1] = s[i - 1] /\ i \in 1 .. m
    BY <1>5 DEF m
  <2>2. QED
    BY <1>1, <1>3, <2>1
<1> HIDE DEF P
<1>6. 0 .. n \subseteq P
  BY <1>4, <1>5, UpTo
<1>7. t[n] = s[n]
  BY <1>6 DEF P
<1>8. t[m] = t[n] + f[m]
  <2>1. m \in 1 .. m /\ m - 1 = n
    BY DEF m
  <2>2. QED
    BY <1>3, <2>1
<1>9. s[n] \in Int
  BY <1>1
<1>10. QED
  BY <1>1, <1>3, <1>7, <1>8, <1>9 DEF m

\* The sum of nothing.
LEMMA SumOfNone ==
  ASSUME NEW f \in [1 .. 0 -> Int]
  PROVE  Sum(f, 0) = 0
<1>1. PICK s \in [0 .. 0 -> Int] : s[0] = 0 /\ Sum(f, 0) = s[0]
  BY SumSteps
<1>2. QED
  BY <1>1

-----------------------------------------------------------------------------
(* Counting pages *)

\* A sum over more values than it adds up.
LEMMA SumLast ==
  ASSUME NEW n \in Nat \ {0}, NEW f \in [1 .. n -> Int]
  PROVE  Sum(f, n - 1) \in Int /\ Sum(f, n) = Sum(f, n - 1) + f[n]
<1> DEFINE m == n - 1
<1>1. m \in Nat /\ n = m + 1 /\ \A i \in 1 .. m : i \in 1 .. n /\ f[i] \in Int
  OBVIOUS
<1> HIDE DEF m
<1>2. PICK s \in [0 .. m -> Int] :
        s[0] = 0 /\ (\A i \in 1 .. m : s[i] = s[i - 1] + f[i]) /\ Sum(f, m) = s[m]
  BY <1>1, SumRuns
<1>3. PICK t \in [0 .. n -> Int] :
        t[0] = 0 /\ (\A i \in 1 .. n : t[i] = t[i - 1] + f[i]) /\ Sum(f, n) = t[n]
  BY SumSteps
<1> DEFINE P == {i \in 0 .. m : t[i] = s[i]}
<1>4. 0 \in P
  BY <1>1, <1>2, <1>3
<1>5. \A i \in 1 .. m : i - 1 \in P => i \in P
  BY <1>1, <1>2, <1>3
<1> HIDE DEF P
<1>6. 0 .. m \subseteq P
  BY <1>1, <1>4, <1>5, UpTo
<1>7. t[m] = s[m] /\ s[m] \in Int
  BY <1>1, <1>2, <1>6 DEF P
<1>8. t[n] = t[m] + f[n]
  <2>1. n \in 1 .. n /\ n - 1 = m
    BY <1>1
  <2>2. QED
    BY <1>3, <2>1
<1>9. QED
  BY <1>2, <1>3, <1>7, <1>8 DEF m

\* A sum of values that two others bound together.
LEMMA SumBound ==
  ASSUME NEW n \in Nat, NEW f \in [1 .. n -> Int], NEW g \in [1 .. n -> Int],
         NEW h \in [1 .. n -> Int], \A i \in 1 .. n : f[i] <= g[i] + h[i]
  PROVE  Sum(f, n) \in Int /\ Sum(g, n) \in Int /\ Sum(h, n) \in Int
         /\ Sum(f, n) <= Sum(g, n) + Sum(h, n)
<1>1. PICK s \in [0 .. n -> Int] :
        s[0] = 0 /\ (\A i \in 1 .. n : s[i] = s[i - 1] + f[i]) /\ Sum(f, n) = s[n]
  BY SumSteps
<1>2. PICK t \in [0 .. n -> Int] :
        t[0] = 0 /\ (\A i \in 1 .. n : t[i] = t[i - 1] + g[i]) /\ Sum(g, n) = t[n]
  BY SumSteps
<1>3. PICK u \in [0 .. n -> Int] :
        u[0] = 0 /\ (\A i \in 1 .. n : u[i] = u[i - 1] + h[i]) /\ Sum(h, n) = u[n]
  BY SumSteps
<1> DEFINE P == {i \in 0 .. n : s[i] <= t[i] + u[i]}
<1>4. 0 \in P
  BY <1>1, <1>2, <1>3
<1>5. ASSUME NEW i \in 1 .. n, i - 1 \in P
      PROVE  i \in P
  <2>1. /\ s[i] = s[i - 1] + f[i] /\ t[i] = t[i - 1] + g[i] /\ u[i] = u[i - 1] + h[i]
        /\ s[i - 1] <= t[i - 1] + u[i - 1]
    BY <1>1, <1>2, <1>3, <1>5
  <2>2. /\ s[i - 1] \in Int /\ t[i - 1] \in Int /\ u[i - 1] \in Int
        /\ f[i] \in Int /\ g[i] \in Int /\ h[i] \in Int /\ f[i] <= g[i] + h[i]
    <3>1. i - 1 \in 0 .. n
      OBVIOUS
    <3>2. s[i - 1] \in Int /\ t[i - 1] \in Int /\ u[i - 1] \in Int
      BY <1>1, <1>2, <1>3, <3>1
    <3>3. QED
      BY <3>2
  <2> DEFINE a == s[i - 1]
             b == t[i - 1]
             d == u[i - 1]
             x == f[i]
             y == g[i]
             z == h[i]
  <2>3. s[i] = a + x /\ t[i] = b + y /\ u[i] = d + z
    BY <2>1
  <2>4. a <= b + d /\ x <= y + z /\ a \in Int /\ b \in Int /\ d \in Int
        /\ x \in Int /\ y \in Int /\ z \in Int
    BY <2>1, <2>2
  <2> HIDE DEF a, b, d, x, y, z
  <2>5. s[i] <= t[i] + u[i]
    BY <2>3, <2>4
  <2>6. QED
    BY <2>5
<1> HIDE DEF P
<1>6. 0 .. n \subseteq P
  BY <1>4, <1>5, UpTo
<1>7. n \in 0 .. n /\ n \in P
  BY <1>6
<1>8. s[n] \in Int /\ t[n] \in Int /\ u[n] \in Int /\ s[n] <= t[n] + u[n]
  BY <1>1, <1>2, <1>3, <1>7 DEF P
<1>9. QED
  BY <1>1, <1>2, <1>3, <1>8

\* One column of n pages.
LEMMA ColumnCount ==
  ASSUME NEW s, NEW n \in Nat
  PROVE  IsFiniteSet({s} \X (1 .. n)) /\ Cardinality({s} \X (1 .. n)) = n
<1> DEFINE f == [k \in 1 .. n |-> <<s, k>>]
           T == {s} \X (1 .. n)
<1>1. f \in Bijection(1 .. n, T)
  <2>1. f \in [1 .. n -> T] /\ \A k \in 1 .. n : f[k] = <<s, k>>
    OBVIOUS
  <2>2. \A k, l \in 1 .. n : f[k] = f[l] => k = l
    OBVIOUS
  <2>3. \A t \in T : \E k \in 1 .. n : f[k] = t
    OBVIOUS
  <2> HIDE DEF f, T
  <2>4. QED
    BY <2>1, <2>2, <2>3 DEF Bijection, Injection, Surjection, IsInjective
<1>2. ExistsBijection(1 .. n, T)
  BY <1>1 DEF ExistsBijection
<1> HIDE DEF f, T
<1>3. IsFiniteSet(1 .. n) /\ Cardinality(1 .. n) = n
  <2>1. IsFiniteSet(1 .. n) /\ Cardinality(1 .. n) = IF 1 > n THEN 0 ELSE n - 1 + 1
    BY FS_Interval
  <2>2. QED
    BY <2>1
<1>4. IsFiniteSet(T) /\ Cardinality(T) = n
  BY <1>2, <1>3, FS_Bijection
<1>5. QED
  BY <1>4 DEF T

\* The pages of the first k of some slots, h[i] for the i-th of them.
Stack(c, h, k) ==
  {p \in Slots \X Nat : \E i \in 1 .. k : p[1] = c[i] /\ p[2] \in 1 .. h[i]}

\* Towers of h[i] pages on different slots have the sum of the h[i] pages in all.
LEMMA StackCount ==
  ASSUME NEW n \in Nat, NEW c \in [1 .. n -> Slots], NEW h \in [1 .. n -> Nat],
         \A i, j \in 1 .. n : c[i] = c[j] => i = j
  PROVE  IsFiniteSet(Stack(c, h, n)) /\ Cardinality(Stack(c, h, n)) = Sum(h, n)
<1>1. PICK s \in [0 .. n -> Int] :
        s[0] = 0 /\ (\A i \in 1 .. n : s[i] = s[i - 1] + h[i]) /\ Sum(h, n) = s[n]
  <2>1. h \in [1 .. n -> Int]
    OBVIOUS
  <2>2. QED
    BY <2>1, SumSteps
<1> DEFINE Counted(k) == IsFiniteSet(Stack(c, h, k)) /\ Cardinality(Stack(c, h, k)) = s[k]
           P == {k \in 0 .. n : Counted(k)}
<1>2. 0 \in P
  <2>1. Stack(c, h, 0) = {}
    BY DEF Stack
  <2>2. IsFiniteSet({}) /\ Cardinality({}) = 0
    BY FS_EmptySet
  <2>3. Counted(0)
    BY <1>1, <2>1, <2>2
  <2>4. QED
    BY <2>3
<1>3. ASSUME NEW k \in 1 .. n, k - 1 \in P
      PROVE  k \in P
  <2> DEFINE A == Stack(c, h, k - 1)
             B == {c[k]} \X (1 .. h[k])
  <2>1. IsFiniteSet(A) /\ Cardinality(A) = s[k - 1]
    BY <1>3
  <2>2. h[k] \in Nat /\ c[k] \in Slots
    OBVIOUS
  <2>3. IsFiniteSet(B) /\ Cardinality(B) = h[k]
    BY <2>2, ColumnCount
  <2>4. Stack(c, h, k) = A \cup B
    <3>1. ASSUME NEW p \in Stack(c, h, k)
          PROVE  p \in A \cup B
      <4>1. p \in Slots \X Nat
        BY DEF Stack
      <4>2. PICK i \in 1 .. k : p[1] = c[i] /\ p[2] \in 1 .. h[i]
        BY DEF Stack
      <4>3. CASE i = k
        BY <2>2, <4>1, <4>2, <4>3
      <4>4. CASE i # k
        <5>1. i \in 1 .. (k - 1)
          BY <4>4
        <5>2. p \in A
          BY <4>1, <4>2, <5>1 DEF Stack
        <5>3. QED
          BY <5>2
      <4>5. QED
        BY <4>3, <4>4
    <3>2. A \subseteq Stack(c, h, k)
      <4>1. \A i \in 1 .. (k - 1) : i \in 1 .. k
        OBVIOUS
      <4>2. QED
        BY <4>1 DEF Stack
    <3>3. B \subseteq Stack(c, h, k)
      <4>1. k \in 1 .. k
        OBVIOUS
      <4>2. ASSUME NEW p \in B
            PROVE  p \in Slots \X Nat /\ p[1] = c[k] /\ p[2] \in 1 .. h[k]
        BY <2>2
      <4> HIDE DEF B
      <4>3. QED
        BY <4>1, <4>2 DEF Stack
    <3> HIDE DEF A, B
    <3>4. QED
      BY <3>1, <3>2, <3>3
  <2>5. A \cap B = {}
    <3>1. ASSUME NEW p \in A, p \in B
          PROVE  FALSE
      <4>1. PICK i \in 1 .. (k - 1) : p[1] = c[i]
        BY DEF Stack
      <4>2. p[1] = c[k]
        BY <3>1
      <4>3. i \in 1 .. n /\ k \in 1 .. n /\ i # k
        OBVIOUS
      <4>4. QED
        BY <4>1, <4>2, <4>3
    <3>2. QED
      BY <3>1
  <2> HIDE DEF A, B
  <2>6. IsFiniteSet(A \cup B) /\ Cardinality(A \cup B) = Cardinality(A) + Cardinality(B) - Cardinality({})
    <3>1. /\ IsFiniteSet(A \cup B)
          /\ Cardinality(A \cup B) = Cardinality(A) + Cardinality(B) - Cardinality(A \cap B)
      BY <2>1, <2>3, FS_Union
    <3>2. QED
      BY <2>5, <3>1
  <2>7. Cardinality({}) = 0 /\ s[k - 1] \in Int
    <3>1. k - 1 \in 0 .. n
      OBVIOUS
    <3>2. QED
      BY <1>1, <3>1, FS_EmptySet
  <2>8. Cardinality(A \cup B) = s[k - 1] + h[k] /\ s[k] = s[k - 1] + h[k]
    BY <1>1, <2>1, <2>2, <2>3, <2>6, <2>7
  <2>9. Counted(k)
    BY <2>4, <2>6, <2>8
  <2>10. QED
    BY <2>9
<1> HIDE DEF P
<1>4. 0 .. n \subseteq P
  BY <1>2, <1>3, UpTo
<1>5. n \in P
  BY <1>4
<1>6. QED
  BY <1>1, <1>5 DEF P

\* The places of the pages: the entries of the tables and of the free list.
OwnedIn(kv)   == {p \in Slots \X Nat : p[2] \in 1 .. Len(kv.tables[p[1]])}
\* The places of the free list, and the page in a place.
FreeIn(kv)    == {-1} \X (1 .. Len(kv.free))
PageAt(kv, p) == IF p[1] = -1 THEN kv.free[p[2]] ELSE kv.tables[p[1]][p[2]]

\* Where the pages of a good cache are.
LEMMA PlacesAre ==
  ASSUME NEW kv, Good(kv)
  PROVE  /\ Len(kv.free) \in Nat
         /\ \A p \in FreeIn(kv) : p[1] = -1 /\ p[2] \in 1 .. Len(kv.free) /\ PageAt(kv, p) = kv.free[p[2]]
         /\ \A p \in OwnedIn(kv) : /\ p[1] \in Slots /\ p[1] # -1 /\ p[2] \in 1 .. Len(kv.tables[p[1]])
                                   /\ PageAt(kv, p) = kv.tables[p[1]][p[2]]
         /\ \A p \in FreeIn(kv) \cup OwnedIn(kv) : PageAt(kv, p) \in KV!Pool
<1>1. kv.free \in Seq(KV!Pool) /\ \A s \in Slots : kv.tables[s] \in Seq(KV!Pool)
  BY GoodTyped
<1>2. Len(kv.free) \in Nat /\ \A i \in 1 .. Len(kv.free) : kv.free[i] \in KV!Pool
  BY <1>1
<1>3. ASSUME NEW p \in FreeIn(kv)
      PROVE  /\ p[1] = -1 /\ p[2] \in 1 .. Len(kv.free) /\ PageAt(kv, p) = kv.free[p[2]]
             /\ PageAt(kv, p) \in KV!Pool
  <2>1. p[1] = -1 /\ p[2] \in 1 .. Len(kv.free)
    BY DEF FreeIn
  <2>2. PageAt(kv, p) = kv.free[p[2]]
    BY <2>1 DEF PageAt
  <2>3. QED
    BY <1>2, <2>1, <2>2
<1>4. ASSUME NEW p \in OwnedIn(kv)
      PROVE  /\ p[1] \in Slots /\ p[1] # -1 /\ p[2] \in 1 .. Len(kv.tables[p[1]])
             /\ PageAt(kv, p) = kv.tables[p[1]][p[2]]
             /\ PageAt(kv, p) \in KV!Pool
  <2>1. p[1] \in Slots /\ p[2] \in 1 .. Len(kv.tables[p[1]])
    BY DEF OwnedIn
  <2>2. p[1] # -1
    <3>1. -1 \notin Slots
      BY DEF Slots
    <3>2. QED
      BY <2>1, <3>1
  <2>3. PageAt(kv, p) = kv.tables[p[1]][p[2]]
    BY <2>2 DEF PageAt
  <2> DEFINE table == kv.tables[p[1]]
  <2>4. table \in Seq(KV!Pool) /\ p[2] \in 1 .. Len(table)
    BY <1>1, <2>1
  <2> HIDE DEF table
  <2>5. table[p[2]] \in KV!Pool
    BY <2>4
  <2>6. QED
    BY <2>1, <2>2, <2>3, <2>5 DEF table
<1>5. QED
  BY <1>2, <1>3, <1>4

\* No two places have the same page.
LEMMA PlacesApart ==
  ASSUME NEW kv, Good(kv),
         NEW p \in FreeIn(kv) \cup OwnedIn(kv), NEW q \in FreeIn(kv) \cup OwnedIn(kv),
         PageAt(kv, p) = PageAt(kv, q)
  PROVE  p[1] = q[1] /\ p[2] = q[2]
<1>1. /\ \A i, j \in 1 .. Len(kv.free) : kv.free[i] = kv.free[j] => i = j
      /\ \A s \in Slots : \A i, j \in 1 .. Len(kv.tables[s]) :
           kv.tables[s][i] = kv.tables[s][j] => i = j
      /\ \A s \in Slots : \A i \in 1 .. Len(kv.tables[s]), j \in 1 .. Len(kv.free) :
           kv.tables[s][i] # kv.free[j]
      /\ \A s, t \in Slots : s # t =>
           \A i \in 1 .. Len(kv.tables[s]), j \in 1 .. Len(kv.tables[t]) :
             kv.tables[s][i] # kv.tables[t][j]
  BY SameSlots DEF Good, KV!PartitionedIn, KV!Distinct, KV!Disjoint
<1>2. CASE p \in FreeIn(kv) /\ q \in FreeIn(kv)
  BY <1>1, <1>2, PlacesAre
<1>3. CASE p \in FreeIn(kv) /\ q \in OwnedIn(kv)
  BY <1>1, <1>3, PlacesAre
<1>4. CASE p \in OwnedIn(kv) /\ q \in FreeIn(kv)
  BY <1>1, <1>4, PlacesAre
<1>5. CASE p \in OwnedIn(kv) /\ q \in OwnedIn(kv)
  <2>1. /\ p[1] \in Slots /\ p[2] \in 1 .. Len(kv.tables[p[1]])
        /\ q[1] \in Slots /\ q[2] \in 1 .. Len(kv.tables[q[1]])
        /\ kv.tables[p[1]][p[2]] = kv.tables[q[1]][q[2]]
    BY <1>5, PlacesAre
  <2>2. p[1] = q[1]
    BY <1>1, <2>1
  <2>3. QED
    BY <1>1, <2>1, <2>2
<1>6. QED
  BY <1>2, <1>3, <1>4, <1>5

\* Every page is at some place.
LEMMA PlacesReach ==
  ASSUME NEW kv, Good(kv), NEW page \in KV!Pool
  PROVE  \E p \in FreeIn(kv) \cup OwnedIn(kv) : PageAt(kv, p) = page
<1>1. \/ \E i \in 1 .. Len(kv.free) : kv.free[i] = page
      \/ \E s \in Slots : \E i \in 1 .. Len(kv.tables[s]) : kv.tables[s][i] = page
  BY SameSlots DEF Good, KV!PartitionedIn, KV!Occurs
<1>2. CASE \E i \in 1 .. Len(kv.free) : kv.free[i] = page
  <2>1. PICK i \in 1 .. Len(kv.free) : kv.free[i] = page
    BY <1>2
  <2>2. <<-1, i>> \in FreeIn(kv)
    BY DEF FreeIn
  <2>3. PageAt(kv, <<-1, i>>) = page
    BY <2>1 DEF PageAt
  <2>4. QED
    BY <2>2, <2>3
<1>3. CASE \E s \in Slots : \E i \in 1 .. Len(kv.tables[s]) : kv.tables[s][i] = page
  <2>0. PICK s \in Slots : \E i \in 1 .. Len(kv.tables[s]) : kv.tables[s][i] = page
    BY <1>3
  <2>1. PICK i \in 1 .. Len(kv.tables[s]) : kv.tables[s][i] = page
    BY <2>0
  <2>2. i \in Nat
    <3>1. kv.tables[s] \in Seq(KV!Pool)
      BY GoodTyped
    <3>2. QED
      BY <3>1
  <2>3. <<s, i>> \in OwnedIn(kv)
    BY <2>1, <2>2 DEF OwnedIn
  <2>4. s # -1
    BY DEF Slots
  <2>5. PageAt(kv, <<s, i>>) = page
    BY <2>1, <2>4 DEF PageAt
  <2>6. QED
    BY <2>3, <2>5
<1>4. QED
  BY <1>1, <1>2, <1>3

\* The pages of the tables and those of the free list are all there are.
LEMMA PoolCount ==
  ASSUME NEW kv, Good(kv)
  PROVE  /\ IsFiniteSet(OwnedIn(kv)) /\ Cardinality(OwnedIn(kv)) \in Nat /\ Len(kv.free) \in Nat
         /\ Cardinality(OwnedIn(kv)) + Len(kv.free) = NumBlocks
<1> DEFINE O == OwnedIn(kv)
           F == FreeIn(kv)
           S == F \cup O
           T == KV!Pool
           f == [p \in S |-> PageAt(kv, p)]
<1>1. IsFiniteSet(T) /\ Cardinality(T) = NumBlocks
  <2>1. NumBlocks \in Nat /\ 0 \in Int /\ NumBlocks - 1 \in Int
    BY SchedulerAssumption
  <2>2. IsFiniteSet(T) /\ Cardinality(T) = IF 0 > NumBlocks - 1 THEN 0 ELSE NumBlocks - 1 - 0 + 1
    BY <2>1, FS_Interval DEF KV!Pool
  <2>3. QED
    BY <2>1, <2>2
<1>2. \A p \in S : PageAt(kv, p) \in T /\ p = <<p[1], p[2]>>
  BY PlacesAre DEF OwnedIn, FreeIn
<1>3. \A p, q \in S : PageAt(kv, p) = PageAt(kv, q) => p = q
  <2>1. \A p, q \in S : PageAt(kv, p) = PageAt(kv, q) => p[1] = q[1] /\ p[2] = q[2]
    BY PlacesApart
  <2> HIDE DEF S
  <2>2. QED
    BY <1>2, <2>1
<1>4. \A t \in T : \E p \in S : PageAt(kv, p) = t
  BY PlacesReach
<1>5. O \cap F = {}
  BY PlacesAre
<1> HIDE DEF O, F, S, T
<1>6. f \in [S -> T] /\ \A p \in S : f[p] = PageAt(kv, p)
  BY <1>2
<1>7. \A p, q \in S : f[p] = f[q] => p = q
  BY <1>3, <1>6
<1>8. \A t \in T : \E p \in S : f[p] = t
  BY <1>4, <1>6
<1> HIDE DEF f
<1>9. f \in Injection(S, T) /\ f \in Surjection(S, T)
  BY <1>6, <1>7, <1>8 DEF Injection, IsInjective, Surjection
<1>10. IsFiniteSet(S) /\ Cardinality(S) = NumBlocks
  BY <1>1, <1>9, FS_Injection
<1>11. Len(kv.free) \in Nat /\ IsFiniteSet(F) /\ Cardinality(F) = Len(kv.free)
  BY PlacesAre, ColumnCount DEF F, FreeIn
<1>12. IsFiniteSet(O) /\ Cardinality(O) \in Nat
  <2>1. O \in SUBSET S
    BY DEF S
  <2>2. IsFiniteSet(O)
    BY <1>10, <2>1, FS_Subset
  <2>3. QED
    BY <2>2, FS_CardinalityType
<1>13. Cardinality(F \cup O) = Cardinality(F) + Cardinality(O) - Cardinality(F \cap O)
  BY <1>11, <1>12, FS_Union
<1>14. Cardinality(F \cap O) = 0
  <2>1. F \cap O = {}
    BY <1>5
  <2>2. QED
    BY <2>1, FS_EmptySet
<1>15. QED
  BY <1>10, <1>11, <1>12, <1>13, <1>14 DEF S, O

-----------------------------------------------------------------------------
(* The inductive invariant *)

\* No two items of a list, and no two entries of a queue, are the same.
ListsUnique ==
  /\ Unique(prefilling) /\ Unique(running)
  /\ Once(freeSlots) /\ Once(waiting)

\* The requests answered.
Ids(answers) == {f.id : f \in answers}

\* Every slot is on the free list, or serves one prompt or running sequence;
\* every request waits or has finished, is a prompt under way, or runs.
Placed ==
  /\ ListsUnique
  /\ Parts(ToSet(freeSlots), SlotsIn(ToSet(prefilling)), SlotsIn(ToSet(running)), Slots)
  /\ Parts(ToSet(waiting) \cup Ids(finished), ReqsIn(ToSet(prefilling)),
           ReqsIn(ToSet(running)), 0 .. (nextId - 1))
  /\ ToSet(waiting) \cap Ids(finished) = {}
  /\ \A f, g \in finished : f.id = g.id => f = g

\* The plan of a step is about all that runs and some of the prompts under way.
PlanFollows ==
  /\ pc = "idle" => plan = [decode |-> <<>>, prefill |-> <<>>]
  /\ pc = "planned" =>
       /\ plan.decode = running
       /\ Unique(plan.prefill)
       /\ Follows(plan.prefill, prefilling, Len(prefilling))

\* Only what runs has generated anything since it was last admitted, and only
\* prompts under way have tokens in the cache.
RequestsFit ==
  /\ \A r \in Reqs : r >= nextId => folded[r] = <<>> /\ outputs[r] = <<>> /\ computed[r] = 0
  /\ \A r \in ToSet(waiting) : outputs[r] = <<>> /\ computed[r] = 0
  /\ \A it \in ToSet(prefilling) :
       outputs[it.req] = <<>> /\ computed[it.req] <= PromptLen(it.req)
  /\ \A it \in ToSet(running) : outputs[it.req] # <<>>

\* The inductive invariant: the shape, everything in one place, a plan made of the
\* lists it was made from, requests within their limits, and a good cache.
IInv == TypeOK /\ Placed /\ PlanFollows /\ RequestsFit /\ Good(cache)

-----------------------------------------------------------------------------
(* The parts of Outcome *)

\* The slot of a sampled request, the token it got, the outputs with these tokens,
\* the items that are done with them, and those a failed prefill rolls back.
SlotOf(sampled, r)       == (CHOOSE it \in ToSet(sampled) : it.req = r).slot
TokenOf(sampled, eos, r) == [at  |-> Predict(Written[SlotOf(sampled, r)]),
                             eos |-> eos[SlotOf(sampled, r)]]
LongerOf(sampled, eos) ==
  [r \in Reqs |-> IF r \in ReqsIn(ToSet(sampled)) THEN Append(outputs[r], TokenOf(sampled, eos, r))
                                                  ELSE outputs[r]]
DoneOf(sampled, eos) ==
  Filtered(sampled, {it \in ToSet(sampled) : IsFinished(it.req, LongerOf(sampled, eos)[it.req])})
UndoneOf(failed) == IF failed THEN PlannedItems ELSE <<>>

\* Outcome with these parts given names.
Result(c, started, failed, longer, done, undone) ==
  LET gone == ReqsIn(ToSet(done))
  IN  /\ outputs' = [r \in Reqs |-> IF r \in gone THEN <<>> ELSE longer[r]]
      /\ folded' = [r \in Reqs |-> IF r \in gone THEN <<>> ELSE folded[r]]
      /\ finished' = finished \cup {[id |-> r, out |-> folded[r] \o longer[r]] : r \in gone}
      /\ running' = WithoutItems(running \o started, done)
      /\ prefilling' = WithoutItems(prefilling, started \o undone)
      /\ waiting' = [i \in 1 .. Len(undone) |-> undone[i].req] \o waiting
      /\ computed' = [r \in Reqs |->
           LET own == {it \in ToSet(plan.prefill) : it.req = r}
           IN  IF own = {} THEN computed[r]
               ELSE IF failed THEN 0
               ELSE computed[r] + (CHOOSE it \in own : TRUE).chunk]
      /\ freeSlots' = freeSlots \o SlotsOf(done \o undone)
      /\ cache' = IF failed
                  THEN FreeAll(CutBack(FreeAll(c, done), WithoutItems(plan.decode, done)), undone)
                  ELSE FreeAll(c, done)
      /\ held' = [s \in Slots |-> IF s \in ToSet(SlotsOf(done \o undone)) THEN <<>>
                                  ELSE IF failed THEN held[s] ELSE Written[s]]
      /\ pc' = "idle"
      /\ plan' = [decode |-> <<>>, prefill |-> <<>>]
      /\ UNCHANGED <<nextId, nPrompt, maxTokens>>

\* Outcome is its Result.
LEMMA OutcomeResult ==
  ASSUME NEW c, NEW sampled, NEW started, NEW eos, NEW failed \in BOOLEAN,
         Outcome(c, sampled, started, eos, failed)
  PROVE  Result(c, started, failed, LongerOf(sampled, eos), DoneOf(sampled, eos), UndoneOf(failed))
BY DEF Outcome, Result, LongerOf, TokenOf, SlotOf, DoneOf, UndoneOf, ReqsIn, Vacated, RolledBack,
       EndStep, requestVars

-----------------------------------------------------------------------------
(* The plan of a step under way *)

\* What a step may rely on once it is planned.
Planned == TypeOK /\ Placed /\ PlanFollows /\ RequestsFit /\ pc = "planned"

\* The items of the planned chunks are prompts under way.
LEMMA PlannedItemsAre ==
  ASSUME Planned
  PROVE  /\ PlannedItems \in Seq(Items)
         /\ Unique(PlannedItems)
         /\ ToSet(PlannedItems) \subseteq ToSet(prefilling)
         /\ SlotsIn(ToSet(PlannedItems)) = SlotsIn(ToSet(plan.prefill))
         /\ ReqsIn(ToSet(PlannedItems)) = ReqsIn(ToSet(plan.prefill))
         /\ \A it \in ToSet(PlannedItems) : \E x \in ToSet(plan.prefill) :
              it.slot = x.slot /\ it.req = x.req
         /\ \A x \in ToSet(plan.prefill) : [slot |-> x.slot, req |-> x.req] \in ToSet(PlannedItems)
<1> DEFINE p == plan.prefill
           n == Len(p)
           q == [i \in 1 .. n |-> [slot |-> p[i].slot, req |-> p[i].req]]
<1>1. p \in Seq(Chunks) /\ prefilling \in Seq(Items)
  BY DEF Planned, TypeOK, Chunks
<1>2. Unique(p) /\ Follows(p, prefilling, Len(prefilling))
  BY DEF Planned, PlanFollows
<1>3. PlannedItems = q
  BY DEF PlannedItems
<1> HIDE DEF p
<1>4. /\ n \in Nat /\ ToSet(p) = {p[i] : i \in 1 .. n}
      /\ \A i \in 1 .. n : p[i] \in Chunks
  <2>1. n \in Nat /\ ToSet(p) = {p[i] : i \in 1 .. n} /\ ToSet(p) \subseteq Chunks
    BY <1>1, SeqSet
  <2>2. QED
    BY <2>1
<1>5. ToSet(prefilling) = {prefilling[j] : j \in 1 .. Len(prefilling)}
      /\ ToSet(prefilling) \subseteq Items
  BY <1>1, SeqSet
<1> HIDE DEF n
<1>6. \A i \in 1 .. n : q[i] = [slot |-> p[i].slot, req |-> p[i].req] /\ q[i] \in Items
  BY <1>4 DEF Chunks, Items
<1>7. q \in Seq(Items)
  BY <1>4, <1>6
<1>8. Len(q) = n
  BY <1>4
<1> HIDE DEF q
<1>9. ToSet(q) = {q[i] : i \in 1 .. n}
  BY <1>7, <1>8, SeqSet
<1>10. ToSet(q) \subseteq ToSet(prefilling)
  <2>1. SUFFICES ASSUME NEW i \in 1 .. n
                 PROVE  q[i] \in ToSet(prefilling)
    BY <1>9
  <2>2. PICK j \in 1 .. Len(prefilling) : p[i].slot = prefilling[j].slot
                                          /\ p[i].req = prefilling[j].req
    BY <1>2, <1>4 DEF Follows
  <2>3. prefilling[j] \in ToSet(prefilling) /\ prefilling[j] \in Items
    BY <1>5
  <2>4. prefilling[j] = [slot |-> prefilling[j].slot, req |-> prefilling[j].req]
    BY <2>3 DEF Items
  <2>5. q[i] = prefilling[j]
    BY <1>6, <2>2, <2>4
  <2>6. QED
    BY <2>3, <2>5
<1>11. ASSUME NEW i \in 1 .. n
       PROVE  q[i].slot = p[i].slot /\ q[i].req = p[i].req
  <2>1. q[i] = [slot |-> p[i].slot, req |-> p[i].req]
    BY <1>6
  <2>2. QED
    BY <2>1
<1>12. \A it \in ToSet(q) : \E x \in ToSet(p) : it.slot = x.slot /\ it.req = x.req
  BY <1>4, <1>9, <1>11
<1>13. \A x \in ToSet(p) : [slot |-> x.slot, req |-> x.req] \in ToSet(q)
  BY <1>4, <1>6, <1>9
<1>14. SlotsIn(ToSet(q)) = SlotsIn(ToSet(p)) /\ ReqsIn(ToSet(q)) = ReqsIn(ToSet(p))
  BY <1>4, <1>9, <1>11 DEF SlotsIn, ReqsIn
<1>15. Unique(q)
  <2>1. \A i, j \in 1 .. n : p[i].slot = p[j].slot \/ p[i].req = p[j].req => i = j
    BY <1>2, <1>4 DEF Unique, Apart, Once, n
  <2>2. Once(q)
    BY <1>8, <1>11, <2>1 DEF Once
  <2>3. Apart(ToSet(q))
    BY <1>9, <1>11, <2>1 DEF Apart
  <2>4. QED
    BY <2>2, <2>3 DEF Unique
<1>16. QED
  BY <1>3, <1>7, <1>10, <1>12, <1>13, <1>14, <1>15 DEF p

\* The completed items are the planned ones whose chunk is all that remained.
LEMMA CompletedAre ==
  ASSUME Planned
  PROVE  /\ CompletedItems \in Seq(Items)
         /\ Unique(CompletedItems)
         /\ ToSet(CompletedItems) \subseteq ToSet(PlannedItems)
         /\ \A it \in ToSet(PlannedItems) :
              it \in ToSet(CompletedItems) <=> Chunk(it.slot) = Remaining(it.req)
<1> DEFINE S == {it \in ToSet(PlannedItems) : Chunk(it.slot) = Remaining(it.req)}
<1>1. CompletedItems = Filtered(PlannedItems, S)
  BY DEF CompletedItems
<1> HIDE DEF S
<1>2. /\ Filtered(PlannedItems, S) \in Seq(Items)
      /\ ToSet(Filtered(PlannedItems, S)) = ToSet(PlannedItems) \cap S
      /\ Unique(Filtered(PlannedItems, S))
  BY PlannedItemsAre, FilteredSet, UniqueFiltered
<1>3. QED
  BY <1>1, <1>2 DEF S

\* The slots of a plan: its decodes are the running sequences, its chunks those of
\* prompts, and they share no slot.
LEMMA PlanApart ==
  ASSUME Planned
  PROVE  /\ plan.decode = running
         /\ plan.prefill \in Seq(Chunks) /\ running \in Seq(Items)
         /\ ToSet(plan.prefill) \subseteq Chunks /\ ToSet(running) \subseteq Items
         /\ Unique(plan.prefill) /\ Unique(running)
         /\ SlotsIn(ToSet(plan.prefill)) \cap SlotsIn(ToSet(running)) = {}
         /\ ReqsIn(ToSet(plan.prefill)) \cap ReqsIn(ToSet(running)) = {}
<1>1. plan.decode = running /\ Unique(plan.prefill) /\ Unique(running)
  BY DEF Planned, PlanFollows, Placed, ListsUnique
<1>2. plan.prefill \in Seq(Chunks) /\ running \in Seq(Items)
  BY DEF Planned, TypeOK, Chunks
<1>3. ToSet(plan.prefill) \subseteq Chunks /\ ToSet(running) \subseteq Items
  BY <1>2, SeqSet
<1>4. /\ SlotsIn(ToSet(plan.prefill)) \subseteq SlotsIn(ToSet(prefilling))
      /\ ReqsIn(ToSet(plan.prefill)) \subseteq ReqsIn(ToSet(prefilling))
  <2>1. ToSet(PlannedItems) \subseteq ToSet(prefilling)
    BY PlannedItemsAre
  <2>2. /\ SlotsIn(ToSet(PlannedItems)) \subseteq SlotsIn(ToSet(prefilling))
        /\ ReqsIn(ToSet(PlannedItems)) \subseteq ReqsIn(ToSet(prefilling))
    BY <2>1 DEF SlotsIn, ReqsIn
  <2>3. QED
    BY <2>2, PlannedItemsAre
<1>5. /\ SlotsIn(ToSet(prefilling)) \cap SlotsIn(ToSet(running)) = {}
      /\ ReqsIn(ToSet(prefilling)) \cap ReqsIn(ToSet(running)) = {}
  BY DEF Planned, Placed, Parts
<1>6. QED
  BY <1>1, <1>2, <1>3, <1>4, <1>5

\* Each planned slot has its chunk, the others none.
LEMMA ChunkIs ==
  ASSUME Planned
  PROVE  /\ \A x \in ToSet(plan.prefill) : Chunk(x.slot) = x.chunk
         /\ \A s \in Slots : s \notin SlotsIn(ToSet(plan.prefill)) => Chunk(s) = 0
<1> DEFINE p == plan.prefill
           n == Len(p)
           Own(s) == {i \in 1 .. n : p[i].slot = s}
<1>1. p \in Seq(Chunks) /\ Unique(p)
  BY PlanApart
<1>2. \A s : Chunk(s) = IF Own(s) = {} THEN 0 ELSE p[CHOOSE i \in Own(s) : TRUE].chunk
  BY DEF Chunk
<1> HIDE DEF p
<1>3. ToSet(p) = {p[i] : i \in 1 .. n} /\ n \in Nat
  BY <1>1, SeqSet
<1>4. \A i, j \in 1 .. n : p[i].slot = p[j].slot => i = j
  BY <1>1, <1>3 DEF Unique, Apart, Once
<1> HIDE DEF n
<1>5. ASSUME NEW i \in 1 .. n
      PROVE  Chunk(p[i].slot) = p[i].chunk
  <2>1. Own(p[i].slot) = {i}
    BY <1>4
  <2>2. (CHOOSE j \in {i} : TRUE) = i
    OBVIOUS
  <2> HIDE DEF Own
  <2>3. QED
    BY <1>2, <2>1, <2>2
<1>6. ASSUME NEW s \in Slots, s \notin SlotsIn(ToSet(p))
      PROVE  Chunk(s) = 0
  <2>1. Own(s) = {}
    BY <1>3, <1>6 DEF SlotsIn
  <2> HIDE DEF Own
  <2>2. QED
    BY <1>2, <2>1
<1>7. QED
  BY <1>3, <1>5, <1>6 DEF p

\* A call adds one token to each running slot, and its chunk to each planned one.
LEMMA NewsIs ==
  ASSUME Planned
  PROVE  /\ News \in [Slots -> Nat]
         /\ \A it \in ToSet(running) : News[it.slot] = 1
         /\ \A x \in ToSet(plan.prefill) : News[x.slot] = x.chunk
         /\ \A s \in Slots : s \notin SlotsIn(ToSet(plan.prefill)) /\ s \notin SlotsIn(ToSet(running))
                               => News[s] = 0
<1>1. ToSet(SlotsOf(plan.decode)) = SlotsIn(ToSet(running))
  <2>1. \A it \in Items : it.slot \in Slots
    BY DEF Items
  <2>2. QED
    BY <2>1, PlanApart, SlotsOfItems
<1>2. \A s \in Slots : News[s] = IF s \in SlotsIn(ToSet(running)) THEN 1 ELSE Chunk(s)
  BY <1>1 DEF News
<1>3. DOMAIN News = Slots /\ News = [s \in Slots |-> News[s]]
  BY DEF News
<1> DEFINE pslots == SlotsIn(ToSet(plan.prefill))
           rslots == SlotsIn(ToSet(running))
<1>4. \A it \in ToSet(running) : it.slot \in rslots /\ it.slot \in Slots
  BY PlanApart DEF SlotsIn, Items
<1>5. \A x \in ToSet(plan.prefill) : x.slot \in pslots /\ x.slot \in Slots /\ x.chunk \in Nat
  BY PlanApart DEF SlotsIn, Chunks
<1>6. pslots \cap rslots = {}
  BY PlanApart
<1>7. \A s \in pslots : \E x \in ToSet(plan.prefill) : s = x.slot
  BY DEF SlotsIn
<1> HIDE DEF pslots, rslots
<1>8. /\ \A it \in ToSet(running) : News[it.slot] = 1
      /\ \A x \in ToSet(plan.prefill) : News[x.slot] = x.chunk
      /\ \A s \in Slots : s \notin pslots /\ s \notin rslots => News[s] = 0
  BY <1>2, <1>4, <1>5, <1>6, ChunkIs DEF pslots, rslots
<1>9. ASSUME NEW s \in Slots
      PROVE  News[s] \in Nat
  <2>1. CASE s \in rslots
    BY <1>2, <2>1 DEF rslots
  <2>2. CASE s \in pslots
    BY <1>5, <1>7, <1>8, <2>2
  <2>3. QED
    BY <1>8, <2>1, <2>2
<1>10. News \in [Slots -> Nat]
  BY <1>3, <1>9
<1>11. QED
  BY <1>8, <1>10 DEF pslots, rslots

\* The ids a decoding row and a chunk feed.
LEMMA FedIs ==
  ASSUME Planned
  PROVE  /\ \A it \in ToSet(running) : Fed(it.slot) = <<Last(outputs[it.req]).at>>
         /\ \A x \in ToSet(plan.prefill) :
              Fed(x.slot) = [j \in 1 .. x.chunk |-> PromptAt(x.req, computed[x.req] + j - 1)]
<1> DEFINE A == ToSet(running)
           B == ToSet(plan.prefill)
           Item(s) == CHOOSE it \in A \cup B : it.slot = s
<1>1. ToSet(plan.decode \o plan.prefill) = A \cup B
  <2>1. running \in Seq(Items \cup Chunks) /\ plan.prefill \in Seq(Items \cup Chunks)
    BY PlanApart
  <2>2. QED
    BY <2>1, PlanApart, ConcatSet
<1>2. ToSet(SlotsOf(plan.decode)) = SlotsIn(A)
  <2>1. \A it \in Items : it.slot \in Slots
    BY DEF Items
  <2>2. QED
    BY <2>1, PlanApart, SlotsOfItems
<1>3. \A s : Fed(s) = IF s \in SlotsIn(A)
                      THEN <<Last(outputs[Item(s).req]).at>>
                      ELSE [j \in 1 .. Chunk(s) |->
                              PromptAt(Item(s).req, computed[Item(s).req] + j - 1)]
  BY <1>1, <1>2 DEF Fed
<1>4. \A x, y \in A \cup B : x.slot = y.slot => x = y
  <2>1. Apart(A) /\ Apart(B) /\ SlotsIn(A) \cap SlotsIn(B) = {}
    BY PlanApart DEF Unique
  <2>2. QED
    BY <2>1 DEF Apart, SlotsIn
<1>5. \A x \in A \cup B : Item(x.slot) = x
  BY <1>4
<1>6. \A x \in A : x.slot \in SlotsIn(A)
  BY DEF SlotsIn
<1>7. \A x \in B : x.slot \notin SlotsIn(A) /\ Chunk(x.slot) = x.chunk
  BY PlanApart, ChunkIs DEF SlotsIn
<1> HIDE DEF Item
<1>8. QED
  BY <1>3, <1>5, <1>6, <1>7

\* What a call leaves in the pages are sequences of token ids.
LEMMA WrittenTyped ==
  ASSUME Planned
  PROVE  Written \in [Slots -> Seq(Int)]
<1>0. held \in [Slots -> Seq(Int)] /\ outputs \in [Reqs -> Seq(Token)]
      /\ folded \in [Reqs -> Seq(Token)] /\ nPrompt \in [Reqs -> Nat] /\ computed \in [Reqs -> Nat]
  BY DEF Planned, TypeOK
<1>1. ASSUME NEW it \in ToSet(running)
      PROVE  Fed(it.slot) \in Seq(Int)
  <2>1. it.req \in Reqs /\ outputs[it.req] # <<>>
    BY PlanApart DEF Planned, RequestsFit, Items
  <2> DEFINE o == outputs[it.req]
  <2>2. o \in Seq(Token) /\ o # <<>>
    BY <1>0, <2>1
  <2> HIDE DEF o
  <2>3. o[Len(o)] \in Token
    BY <2>2
  <2>4. Last(o).at \in Int
    BY <2>3 DEF Last, Token
  <2> DEFINE v == Last(o).at
  <2>5. Fed(it.slot) = <<v>>
    BY FedIs DEF o
  <2>6. v \in Int
    BY <2>4
  <2> HIDE DEF v
  <2>7. QED
    BY <2>5, <2>6
<1>2. ASSUME NEW x \in ToSet(plan.prefill)
      PROVE  Fed(x.slot) \in Seq(Int)
  <2>1. x.req \in Reqs /\ x.chunk \in Nat
    BY PlanApart DEF Chunks
  <2>2. x.chunk <= Remaining(x.req)
    BY DEF Planned, PlanFollows, Follows
  <2> DEFINE f == folded[x.req]
             m == nPrompt[x.req]
             c == computed[x.req]
  <2>3. f \in Seq(Token) /\ m \in Nat /\ c \in Nat
    BY <1>0, <2>1
  <2>4. c + x.chunk <= m + Len(f)
    BY <2>1, <2>2, <2>3 DEF Remaining, PromptLen
  <2> HIDE DEF f, m, c
  <2>5. ASSUME NEW j \in 1 .. x.chunk
        PROVE  PromptAt(x.req, c + j - 1) \in Int
    <3> DEFINE p == c + j - 1
    <3>1. PromptAt(x.req, p) = IF p < m THEN p ELSE f[p - m + 1].at
      BY DEF PromptAt, m, f
    <3>2. p \in Nat /\ p - m + 1 <= Len(f) /\ p \in Int
      BY <2>1, <2>3, <2>4
    <3> HIDE DEF p
    <3>5. PromptAt(x.req, p) \in Int
      <4>1. CASE p < m
        BY <3>1, <3>2, <4>1
      <4>2. CASE ~(p < m)
        <5>1. p - m + 1 \in 1 .. Len(f)
          BY <2>3, <3>2, <4>2
        <5>2. f[p - m + 1] \in Token
          BY <2>3, <5>1
        <5>3. QED
          BY <3>1, <4>2, <5>2 DEF Token
      <4>3. QED
        BY <4>1, <4>2
    <3>6. QED
      BY <3>5 DEF p
  <2> DEFINE k     == x.chunk
             ids   == [j \in 1 .. k |-> PromptAt(x.req, c + j - 1)]
  <2>6. Fed(x.slot) = ids
    BY FedIs DEF c
  <2>7. k \in Nat /\ \A j \in 1 .. k : PromptAt(x.req, c + j - 1) \in Int
    BY <2>1, <2>5
  <2> HIDE DEF k
  <2>8. ids \in Seq(Int)
    BY <2>7
  <2>9. QED
    BY <2>6, <2>8
<1>3. ASSUME NEW s \in Slots, News[s] # 0
      PROVE  Fed(s) \in Seq(Int)
  <2>1. s \in SlotsIn(ToSet(plan.prefill)) \/ s \in SlotsIn(ToSet(running))
    BY <1>3, NewsIs
  <2>2. QED
    BY <1>1, <1>2, <2>1 DEF SlotsIn
<1>4. ASSUME NEW s \in Slots
      PROVE  (IF News[s] = 0 THEN held[s] ELSE held[s] \o Fed(s)) \in Seq(Int)
  <2>1. held[s] \in Seq(Int)
    BY <1>0
  <2>2. QED
    BY <1>3, <2>1
<1>5. QED
  BY <1>4 DEF Written

-----------------------------------------------------------------------------
(* How a call ends *)

\* The ways a step calls Outcome.
Ending(c, sampled, started, eos, failed) ==
  /\ Good(c)
  /\ \A s \in Slots : cache.lens[s] <= c.lens[s]
  /\ sampled \in Seq(Items) /\ Unique(sampled)
  /\ started \in Seq(Items) /\ Unique(started)
  /\ ToSet(sampled) \subseteq ToSet(running) \cup ToSet(started)
  /\ ToSet(started) \subseteq ToSet(sampled)
  /\ ToSet(started) \subseteq ToSet(PlannedItems)
  /\ failed \in BOOLEAN /\ (failed => started = <<>>)
  /\ ToSet(sampled) # {} => eos \in [Slots -> BOOLEAN]

\* What a request has been given once it is sampled.
LongerFits(sampled, eos, longer) ==
  /\ longer \in [Reqs -> Seq(Token)]
  /\ \A it \in ToSet(sampled) :
       LET token == [at |-> Predict(Written[it.slot]), eos |-> eos[it.slot]]
       IN  longer[it.req] = Append(outputs[it.req], token) /\ token \in Token
  /\ \A r \in Reqs : r \notin ReqsIn(ToSet(sampled)) => longer[r] = outputs[r]

\* Each sampled request has one more token, the others have what they had.
LEMMA LongerIs ==
  ASSUME Planned, NEW c, NEW sampled, NEW started, NEW eos, NEW failed,
         Ending(c, sampled, started, eos, failed)
  PROVE  LongerFits(sampled, eos, LongerOf(sampled, eos))
<1> DEFINE longer == LongerOf(sampled, eos)
           S      == ToSet(sampled)
           Tok(it) == [at |-> Predict(Written[it.slot]), eos |-> eos[it.slot]]
<1>1. S \subseteq Items /\ Apart(S)
  BY SeqSet DEF Ending, Unique
<1>2. \A r \in Reqs : longer[r] = IF r \in ReqsIn(S) THEN Append(outputs[r], TokenOf(sampled, eos, r))
                                                  ELSE outputs[r]
  BY DEF LongerOf
<1>3. DOMAIN longer = Reqs /\ longer = [r \in Reqs |-> longer[r]]
  BY DEF LongerOf
<1>4. ASSUME NEW it \in S
      PROVE  TokenOf(sampled, eos, it.req) = Tok(it)
  <2>1. \A x \in S : x.req = it.req => x = it
    BY <1>1 DEF Apart
  <2>2. (CHOOSE x \in S : x.req = it.req) = it
    BY <2>1
  <2>3. QED
    BY <2>2 DEF TokenOf, SlotOf
<1>5. ASSUME NEW it \in S
      PROVE  Tok(it) \in Token /\ it.req \in Reqs
  <2>1. it.slot \in Slots /\ it.req \in Reqs
    BY <1>1 DEF Items
  <2>2. eos[it.slot] \in BOOLEAN
    BY <2>1 DEF Ending
  <2> DEFINE ids == Written[it.slot]
  <2>3. ids \in Seq(Int)
    BY <2>1, WrittenTyped
  <2> HIDE DEF ids
  <2>4. Len(ids) \in Nat
    BY <2>3
  <2>5. Predict(ids) \in Int
    BY <2>4 DEF Predict
  <2> DEFINE v == Predict(ids)
             e == eos[it.slot]
  <2>6. v \in Int /\ e \in BOOLEAN
    BY <2>2, <2>5
  <2>7. Tok(it) = [at |-> v, eos |-> e]
    BY DEF ids
  <2> HIDE DEF v, e
  <2>8. [at |-> v, eos |-> e] \in Token
    BY <2>6 DEF Token
  <2>9. QED
    BY <2>1, <2>7, <2>8
<1> HIDE DEF longer, Tok
<1>6. \A it \in S : longer[it.req] = Append(outputs[it.req], Tok(it))
  <2>1. \A it \in S : it.req \in ReqsIn(S)
    BY DEF ReqsIn
  <2>2. QED
    BY <1>2, <1>4, <1>5, <2>1
<1>7. \A r \in Reqs : longer[r] \in Seq(Token)
  <2>1. SUFFICES ASSUME NEW r \in Reqs
                 PROVE  longer[r] \in Seq(Token)
    OBVIOUS
  <2>2. outputs[r] \in Seq(Token)
    BY DEF Planned, TypeOK
  <2>3. CASE r \in ReqsIn(S)
    <3>1. PICK it \in S : r = it.req
      BY <2>3 DEF ReqsIn
    <3> DEFINE o == outputs[r]
               t == Tok(it)
    <3>2. longer[r] = Append(o, t) /\ t \in Token /\ o \in Seq(Token)
      BY <1>5, <1>6, <2>2, <3>1
    <3> HIDE DEF o, t
    <3>3. QED
      BY <3>2
  <2>4. QED
    BY <1>2, <2>2, <2>3
<1>8. longer \in [Reqs -> Seq(Token)]
  BY <1>3, <1>7
<1>9. QED
  BY <1>2, <1>5, <1>6, <1>8 DEF longer, Tok, LongerFits

\* Who leaves: the sampled that are finished, and the prompts rolled back.
Leaving(started, done, undone) ==
  /\ done \in Seq(Items) /\ Unique(done)
  /\ ToSet(done) \subseteq ToSet(running) \cup ToSet(started)
  /\ undone \in Seq(Items) /\ Unique(undone)
  /\ ToSet(undone) \subseteq ToSet(prefilling)
  /\ started \in Seq(Items) /\ Unique(started)
  /\ ToSet(started) \subseteq ToSet(prefilling)
  /\ ToSet(started) = {} \/ ToSet(undone) = {}

\* What leaves the lists at the end of a call was running, or started by it.
LEMMA LeavingIs ==
  ASSUME Planned, NEW c, NEW sampled, NEW started, NEW eos, NEW failed,
         Ending(c, sampled, started, eos, failed)
  PROVE  /\ Leaving(started, DoneOf(sampled, eos), UndoneOf(failed))
         /\ ToSet(DoneOf(sampled, eos)) \subseteq ToSet(sampled)
<1> DEFINE S    == {it \in ToSet(sampled) : IsFinished(it.req, LongerOf(sampled, eos)[it.req])}
           done == DoneOf(sampled, eos)
<1>1. done = Filtered(sampled, S)
  BY DEF DoneOf
<1>2. sampled \in Seq(Items) /\ Unique(sampled)
  BY DEF Ending
<1> HIDE DEF S
<1>3. done \in Seq(Items) /\ Unique(done) /\ ToSet(done) \subseteq ToSet(sampled)
  BY <1>1, <1>2, FilteredSet, UniqueFiltered
<1>4. ToSet(<<>>) = {} /\ <<>> \in Seq(Items) /\ Unique(<<>>)
  BY DEF ToSet, Unique, Once, Apart
<1>5. CASE failed
  <2>1. started = <<>>
    BY <1>5 DEF Ending
  <2>2. UndoneOf(failed) = PlannedItems
    BY <1>5 DEF UndoneOf
  <2>3. QED
    BY <1>3, <1>4, <2>1, <2>2, PlannedItemsAre DEF Ending, Leaving
<1>6. CASE ~failed
  <2>2. UndoneOf(failed) = <<>>
    BY <1>6 DEF UndoneOf
  <2>3. QED
    BY <1>3, <1>4, <2>2, PlannedItemsAre DEF Ending, Leaving
<1>7. QED
  BY <1>5, <1>6

\* Taking items out keeps the others unique.
LEMMA UniqueWithout ==
  ASSUME NEW T, NEW items \in Seq(T), NEW gone, Unique(items)
  PROVE  Unique(WithoutItems(items, gone))
BY UniqueFiltered DEF WithoutItems

\* The lists after a call of the model, as sets.
ListsMoved(started, done, undone) ==
  LET R == ToSet(running)
      P == ToSet(prefilling)
      S == ToSet(started)
      D == ToSet(done)
      U == ToSet(undone)
  IN  /\ running' \in Seq(Items) /\ ToSet(running') = (R \cup S) \ D /\ Unique(running')
      /\ prefilling' \in Seq(Items) /\ ToSet(prefilling') = P \ (S \cup U)
      /\ Unique(prefilling')
      /\ freeSlots' \in Seq(Slots)
      /\ ToSet(freeSlots') = ToSet(freeSlots) \cup SlotsIn(D) \cup SlotsIn(U)
      /\ Once(freeSlots')
      /\ waiting' \in Seq(Reqs) /\ ToSet(waiting') = ToSet(waiting) \cup ReqsIn(U)
      /\ Once(waiting')
      /\ Apart(R \cup P)

\* The lists after a call, as sets of items.
LEMMA ListsAfter ==
  ASSUME Planned, NEW c, NEW started, NEW failed, NEW longer, NEW done, NEW undone,
         Leaving(started, done, undone), Result(c, started, failed, longer, done, undone)
  PROVE  ListsMoved(started, done, undone)
<1> DEFINE R == ToSet(running)
           P == ToSet(prefilling)
           S == ToSet(started)
           D == ToSet(done)
           U == ToSet(undone)
<1>0. /\ running \in Seq(Items) /\ prefilling \in Seq(Items) /\ started \in Seq(Items)
      /\ done \in Seq(Items) /\ undone \in Seq(Items)
      /\ waiting \in Seq(Reqs) /\ freeSlots \in Seq(Slots)
      /\ Unique(running) /\ Unique(prefilling) /\ Unique(started) /\ Unique(done) /\ Unique(undone)
      /\ Once(freeSlots) /\ Once(waiting)
      /\ D \subseteq R \cup S /\ U \subseteq P /\ S \subseteq P /\ (S = {} \/ U = {})
  BY DEF Planned, TypeOK, Placed, ListsUnique, Leaving
<1>1. /\ running' = WithoutItems(running \o started, done)
      /\ prefilling' = WithoutItems(prefilling, started \o undone)
      /\ waiting' = [i \in 1 .. Len(undone) |-> undone[i].req] \o waiting
      /\ freeSlots' = freeSlots \o SlotsOf(done \o undone)
  BY DEF Result
<1>2. /\ SlotsIn(P) \cap SlotsIn(R) = {} /\ ReqsIn(P) \cap ReqsIn(R) = {}
      /\ ToSet(freeSlots) \cap SlotsIn(P) = {} /\ ToSet(freeSlots) \cap SlotsIn(R) = {}
      /\ ToSet(waiting) \cap ReqsIn(P) = {}
  BY DEF Planned, Placed, Parts
<1>3. /\ SlotsIn(S) \subseteq SlotsIn(P) /\ ReqsIn(S) \subseteq ReqsIn(P)
      /\ SlotsIn(U) \subseteq SlotsIn(P) /\ ReqsIn(U) \subseteq ReqsIn(P)
      /\ SlotsIn(D) \subseteq SlotsIn(R) \cup SlotsIn(S)
      /\ ReqsIn(D) \subseteq ReqsIn(R) \cup ReqsIn(S)
      /\ SlotsIn(S) \cap SlotsIn(U) = {} /\ ReqsIn(S) \cap ReqsIn(U) = {}
  BY <1>0 DEF SlotsIn, ReqsIn
<1> HIDE DEF R, P, S, D, U
<1>4. running' \in Seq(Items) /\ ToSet(running') = (R \cup S) \ D /\ Unique(running')
  <2> DEFINE u == running \o started
  <2>1. u \in Seq(Items) /\ ToSet(u) = R \cup S
    BY <1>0, ConcatSet DEF R, S
  <2>2. Unique(u)
    <3>1. SlotsIn(R) \cap SlotsIn(S) = {} /\ ReqsIn(R) \cap ReqsIn(S) = {}
      BY <1>2, <1>3
    <3>2. QED
      BY <1>0, <3>1, UniqueConcat DEF R, S
  <2> HIDE DEF u
  <2>3. /\ WithoutItems(u, done) \in Seq(Items)
        /\ ToSet(WithoutItems(u, done)) = (R \cup S) \ D
        /\ Unique(WithoutItems(u, done))
    BY <2>1, <2>2, WithoutSet, UniqueWithout DEF D
  <2>4. QED
    BY <1>1, <2>3 DEF u
<1>5. prefilling' \in Seq(Items) /\ ToSet(prefilling') = P \ (S \cup U) /\ Unique(prefilling')
  <2> DEFINE u == started \o undone
  <2>1. ToSet(u) = S \cup U
    BY <1>0, ConcatSet DEF S, U
  <2> HIDE DEF u
  <2>3. /\ WithoutItems(prefilling, u) \in Seq(Items)
        /\ ToSet(WithoutItems(prefilling, u)) = P \ (S \cup U)
        /\ Unique(WithoutItems(prefilling, u))
    BY <1>0, <2>1, WithoutSet, UniqueWithout DEF P
  <2>4. QED
    BY <1>1, <2>3 DEF u
<1>6. /\ freeSlots' \in Seq(Slots)
      /\ ToSet(freeSlots') = ToSet(freeSlots) \cup SlotsIn(D) \cup SlotsIn(U)
      /\ Once(freeSlots')
  <2> DEFINE u == done \o undone
  <2>1. u \in Seq(Items) /\ ToSet(u) = D \cup U
    BY <1>0, ConcatSet DEF D, U
  <2>2. SlotsIn(D) \cap SlotsIn(U) = {} /\ ReqsIn(D) \cap ReqsIn(U) = {}
    BY <1>2, <1>3
  <2>3. Unique(u)
    BY <1>0, <2>2, UniqueConcat DEF D, U
  <2> HIDE DEF u
  <2>4. \A it \in Items : it.slot \in Slots
    BY DEF Items
  <2> DEFINE w == SlotsOf(u)
  <2>5. /\ w \in Seq(Slots)
        /\ ToSet(w) = SlotsIn(D \cup U)
        /\ Once(w)
    BY <2>1, <2>3, <2>4, SlotsOfItems
  <2> HIDE DEF w
  <2>6. SlotsIn(D \cup U) = SlotsIn(D) \cup SlotsIn(U)
    BY JoinedIn
  <2>7. ToSet(freeSlots) \cap ToSet(w) = {}
    BY <1>2, <1>3, <2>5, <2>6
  <2>8. /\ freeSlots \o w \in Seq(Slots)
        /\ ToSet(freeSlots \o w) = ToSet(freeSlots) \cup ToSet(w)
        /\ Once(freeSlots \o w)
    <3>1. freeSlots \in Seq(Slots) /\ w \in Seq(Slots) /\ Once(freeSlots) /\ Once(w)
      BY <1>0, <2>5
    <3>2. Once(freeSlots \o w)
      BY <3>1, <2>7, OnceConcat
    <3>3. QED
      BY <3>1, <3>2, ConcatSet
  <2>9. freeSlots' = freeSlots \o w
    BY <1>1 DEF w, u
  <2>10. QED
    BY <2>5, <2>6, <2>8, <2>9
<1>7. /\ waiting' \in Seq(Reqs) /\ ToSet(waiting') = ToSet(waiting) \cup ReqsIn(U)
      /\ Once(waiting')
  <2> DEFINE w == [i \in 1 .. Len(undone) |-> undone[i].req]
  <2>1. \A it \in Items : it.req \in Reqs
    BY DEF Items
  <2>2. w \in Seq(Reqs) /\ ToSet(w) = ReqsIn(U) /\ Once(w)
    BY <1>0, <2>1, ReqsOfItems DEF U
  <2>3. waiting' = w \o waiting
    BY <1>1
  <2> HIDE DEF w
  <2>4. ToSet(w) \cap ToSet(waiting) = {}
    BY <1>2, <1>3, <2>2
  <2>5. /\ w \o waiting \in Seq(Reqs)
        /\ ToSet(w \o waiting) = ToSet(w) \cup ToSet(waiting)
        /\ Once(w \o waiting)
    BY <1>0, <2>2, <2>4, ConcatSet, OnceConcat
  <2>6. QED
    BY <2>2, <2>3, <2>5
<1>8. Apart(R \cup P)
  BY <1>0, <1>2, ApartUnion DEF R, P, Unique
<1>9. QED
  BY <1>4, <1>5, <1>6, <1>7, <1>8 DEF R, P, S, D, U, ListsMoved

\* After a call everything is in one place again.
LEMMA OutcomePlaced ==
  ASSUME Planned, NEW c, NEW started, NEW failed, NEW longer, NEW done, NEW undone,
         Leaving(started, done, undone), Result(c, started, failed, longer, done, undone)
  PROVE  Placed'
<1> DEFINE R == ToSet(running)
           P == ToSet(prefilling)
           S == ToSet(started)
           D == ToSet(done)
           U == ToSet(undone)
           F == ToSet(freeSlots)
           W == ToSet(waiting)
           I == Ids(finished)
<1>1. /\ ToSet(running') = (R \cup S) \ D /\ Unique(running')
      /\ ToSet(prefilling') = P \ (S \cup U) /\ Unique(prefilling')
      /\ ToSet(freeSlots') = F \cup SlotsIn(D) \cup SlotsIn(U) /\ Once(freeSlots')
      /\ ToSet(waiting') = W \cup ReqsIn(U) /\ Once(waiting')
  <2>1. ListsMoved(started, done, undone)
    BY ListsAfter
  <2>2. QED
    BY <2>1 DEF ListsMoved
<1>2. /\ finished' = finished \cup {[id |-> r, out |-> folded[r] \o longer[r]] : r \in ReqsIn(D)}
      /\ nextId' = nextId
  BY DEF Result
<1>3. Ids(finished') = I \cup ReqsIn(D)
  <2> DEFINE Answer(r) == [id |-> r, out |-> folded[r] \o longer[r]]
  <2>0. \A r : Answer(r).id = r
    OBVIOUS
  <2> HIDE DEF Answer
  <2>1a. Ids({Answer(r) : r \in ReqsIn(D)}) = ReqsIn(D)
    BY <2>0 DEF Ids
  <2>1. Ids({[id |-> r, out |-> folded[r] \o longer[r]] : r \in ReqsIn(D)}) = ReqsIn(D)
    BY <2>1a DEF Answer
  <2>2. QED
    BY <1>2, <2>1 DEF Ids
<1>4. /\ Apart(P) /\ Apart(R) /\ S \subseteq P /\ U \subseteq P /\ D \subseteq R \cup S
      /\ S = {} \/ U = {}
      /\ Parts(F, SlotsIn(P), SlotsIn(R), Slots)
      /\ Parts(W \cup I, ReqsIn(P), ReqsIn(R), 0 .. (nextId - 1))
      /\ W \cap I = {}
      /\ \A f, g \in finished : f.id = g.id => f = g
  BY DEF Planned, Placed, ListsUnique, Unique, Leaving
<1>5. /\ ReqsIn(S) \subseteq ReqsIn(P) /\ ReqsIn(U) \subseteq ReqsIn(P)
      /\ ReqsIn(D) \subseteq ReqsIn(R) \cup ReqsIn(S)
      /\ ReqsIn(S) \cap ReqsIn(U) = {}
  BY <1>4 DEF ReqsIn
<1> HIDE DEF R, P, S, D, U, F, W, I
<1>6. /\ Parts(F \cup SlotsIn(D) \cup SlotsIn(U), SlotsIn(P \ (S \cup U)),
               SlotsIn((R \cup S) \ D), Slots)
      /\ Parts((W \cup I) \cup ReqsIn(D) \cup ReqsIn(U), ReqsIn(P \ (S \cup U)),
               ReqsIn((R \cup S) \ D), 0 .. (nextId - 1))
  <2> DEFINE WI == W \cup I
             N  == 0 .. (nextId - 1)
  <2>1. Parts(WI, ReqsIn(P), ReqsIn(R), N)
    BY <1>4
  <2> HIDE DEF WI, N
  <2>2. /\ Parts(F \cup SlotsIn(D) \cup SlotsIn(U), SlotsIn(P \ (S \cup U)),
                 SlotsIn((R \cup S) \ D), Slots)
        /\ Parts(WI \cup ReqsIn(D) \cup ReqsIn(U), ReqsIn(P \ (S \cup U)),
                 ReqsIn((R \cup S) \ D), N)
    BY <1>4, <2>1, ItemsMove
  <2>3. QED
    BY <2>2 DEF WI, N
<1>7. (W \cup ReqsIn(U)) \cup (I \cup ReqsIn(D)) = (W \cup I) \cup ReqsIn(D) \cup ReqsIn(U)
  OBVIOUS
<1>8. (W \cup ReqsIn(U)) \cap (I \cup ReqsIn(D)) = {}
  BY <1>4, <1>5 DEF Parts
<1>9. \A f, g \in finished' : f.id = g.id => f = g
  <2>1. ReqsIn(D) \cap Ids(finished) = {}
    BY <1>4, <1>5 DEF Parts, I
  <2>2. \A f \in finished : f.id \notin ReqsIn(D)
    BY <2>1 DEF Ids
  <2>3. \A f \in finished' : \/ f \in finished
                             \/ \E r \in ReqsIn(D) : f = [id |-> r, out |-> folded[r] \o longer[r]]
    BY <1>2
  <2>4. SUFFICES ASSUME NEW f \in finished', NEW g \in finished', f.id = g.id
                 PROVE  f = g
    OBVIOUS
  <2>5. CASE f \in finished /\ g \in finished
    BY <1>4, <2>4, <2>5
  <2>6. CASE f \notin finished /\ g \notin finished
    <3>1. PICK r \in ReqsIn(D) : f = [id |-> r, out |-> folded[r] \o longer[r]]
      BY <2>3, <2>6
    <3>2. PICK q \in ReqsIn(D) : g = [id |-> q, out |-> folded[q] \o longer[q]]
      BY <2>3, <2>6
    <3>3. r = q
      BY <2>4, <3>1, <3>2
    <3>4. QED
      BY <3>1, <3>2, <3>3
  <2>7. CASE f \in finished /\ g \notin finished
    <3>1. PICK q \in ReqsIn(D) : g = [id |-> q, out |-> folded[q] \o longer[q]]
      BY <2>3, <2>7
    <3>2. QED
      BY <2>2, <2>4, <2>7, <3>1
  <2>8. CASE f \notin finished /\ g \in finished
    <3>1. PICK q \in ReqsIn(D) : f = [id |-> q, out |-> folded[q] \o longer[q]]
      BY <2>3, <2>8
    <3>2. QED
      BY <2>2, <2>4, <2>8, <3>1
  <2>9. QED
    BY <2>5, <2>6, <2>7, <2>8
<1>10. QED
  BY <1>1, <1>2, <1>3, <1>6, <1>7, <1>8, <1>9 DEF Placed, ListsUnique

\* The cache after a call of the model is good, and what it keeps of each slot.
LEMMA CacheAfter ==
  ASSUME Planned, Good(cache), NEW c, Good(c), \A s \in Slots : cache.lens[s] <= c.lens[s],
         NEW started, NEW failed, NEW longer, NEW done, NEW undone,
         Leaving(started, done, undone), Result(c, started, failed, longer, done, undone),
         failed => started = <<>>
  PROVE  /\ Good(cache')
         /\ ~failed /\ undone = <<>> =>
              \A s \in Slots : cache'.lens[s] = IF s \in SlotsIn(ToSet(done)) THEN 0 ELSE c.lens[s]
         /\ failed =>
              \A s \in Slots :
                cache'.lens[s] = IF s \in SlotsIn(ToSet(undone)) \cup SlotsIn(ToSet(done)) THEN 0
                                 ELSE IF s \in SlotsIn(ToSet(running)) THEN cache.lens[s]
                                 ELSE c.lens[s]
<1> DEFINE D     == ToSet(done)
           R     == ToSet(running)
           after == FreeAll(c, done)
           rest  == WithoutItems(running, done)
           cut   == CutBack(after, rest)
<1>1. /\ done \in Seq(Items) /\ undone \in Seq(Items) /\ running \in Seq(Items)
      /\ Unique(running)
      /\ plan.decode = running /\ cache.lens \in [Slots -> Nat]
  <2>1. cache.lens \in [Slots -> Nat]
    BY GoodTyped
  <2>2. QED
    BY <2>1, PlanApart DEF Leaving
<1>2. cache' = IF failed THEN FreeAll(cut, undone) ELSE after
  BY <1>1 DEF Result
<1>3. /\ Good(after)
      /\ \A s \in Slots : after.lens[s] = IF s \in SlotsIn(D) THEN 0 ELSE c.lens[s]
  BY <1>1, FreeAllGood
<1> HIDE DEF after
<1>4. CASE ~failed
  BY <1>2, <1>3, <1>4
<1>5. CASE failed
  <2>1. D \subseteq R
    <3>1. started = <<>> /\ ToSet(<<>>) = {}
      BY <1>5 DEF ToSet
    <3>2. QED
      BY <3>1 DEF Leaving
  <2>2. rest \in Seq(Items) /\ ToSet(rest) = R \ D
    BY <1>1, WithoutSet
  <2>3. SlotsIn(R \ D) = SlotsIn(R) \ SlotsIn(D)
    <3>1. D \in SUBSET R /\ Apart(R)
      BY <1>1, <2>1 DEF Unique
    <3>2. QED
      BY <3>1, LeftOver
  <2>4. SlotsIn(R) \subseteq Slots
    <3>1. R \subseteq Items
      BY <1>1, SeqSet
    <3>2. QED
      BY <3>1 DEF SlotsIn, Items
  <2> HIDE DEF D, R, rest
  <2>5. \A s \in SlotsIn(ToSet(rest)) : cache.lens[s] <= after.lens[s]
    BY <1>3, <2>2, <2>3, <2>4
  <2>6. /\ Good(cut)
        /\ \A s \in Slots : cut.lens[s] = IF s \in SlotsIn(ToSet(rest)) THEN cache.lens[s]
                                                                       ELSE after.lens[s]
    BY <1>1, <1>3, <2>2, <2>5, CutBackGood
  <2> HIDE DEF cut
  <2>7. /\ Good(FreeAll(cut, undone))
        /\ \A s \in Slots : FreeAll(cut, undone).lens[s]
                              = IF s \in SlotsIn(ToSet(undone)) THEN 0 ELSE cut.lens[s]
    BY <1>1, <2>6, FreeAllGood
  <2>8. \A s \in Slots :
          cache'.lens[s] = IF s \in SlotsIn(ToSet(undone)) \cup SlotsIn(D) THEN 0
                           ELSE IF s \in SlotsIn(R) THEN cache.lens[s] ELSE c.lens[s]
    BY <1>2, <1>3, <1>5, <2>2, <2>3, <2>6, <2>7
  <2>9. QED
    BY <1>2, <1>5, <2>7, <2>8 DEF D, R
<1>6. QED
  BY <1>4, <1>5

\* What is computed of each prompt after the call.
LEMMA ComputedAfter ==
  ASSUME Planned, NEW c, NEW started, NEW failed, NEW longer, NEW done, NEW undone,
         Result(c, started, failed, longer, done, undone)
  PROVE  /\ computed' \in [Reqs -> Nat]
         /\ \A x \in ToSet(plan.prefill) :
              computed'[x.req] = IF failed THEN 0 ELSE computed[x.req] + x.chunk
         /\ \A r \in Reqs : r \notin ReqsIn(ToSet(plan.prefill)) => computed'[r] = computed[r]
<1> DEFINE B      == ToSet(plan.prefill)
           Own(r) == {it \in B : it.req = r}
           Val(r) == IF Own(r) = {} THEN computed[r]
                     ELSE IF failed THEN 0
                     ELSE computed[r] + (CHOOSE it \in Own(r) : TRUE).chunk
<1>1. computed' = [r \in Reqs |-> Val(r)]
  BY DEF Result
<1>2. B \subseteq Chunks /\ Apart(B) /\ computed \in [Reqs -> Nat]
  BY PlanApart DEF Planned, TypeOK, Unique
<1> HIDE DEF B
<1>3. ASSUME NEW x \in B
      PROVE  Val(x.req) = (IF failed THEN 0 ELSE computed[x.req] + x.chunk) /\ x.req \in Reqs
             /\ x.chunk \in Nat
  <2>1. Own(x.req) = {x}
    BY <1>2 DEF Apart
  <2>2. (CHOOSE it \in {x} : TRUE) = x
    OBVIOUS
  <2>3. x.req \in Reqs /\ x.chunk \in Nat
    BY <1>2 DEF Chunks
  <2> HIDE DEF Own
  <2>4. QED
    BY <2>1, <2>2, <2>3
<1>4. ASSUME NEW r \in Reqs, r \notin ReqsIn(B)
      PROVE  Val(r) = computed[r]
  <2>1. Own(r) = {}
    BY <1>4 DEF ReqsIn
  <2> HIDE DEF Own
  <2>2. QED
    BY <2>1
<1>5. \A r \in Reqs : Val(r) \in Nat
  <2>1. ASSUME NEW r \in Reqs, r \in ReqsIn(B)
        PROVE  Val(r) \in Nat
    <3>1. PICK x \in B : r = x.req
      BY <2>1 DEF ReqsIn
    <3> HIDE DEF Val
    <3>2. QED
      BY <1>2, <1>3, <3>1
  <2> HIDE DEF Val
  <2>2. QED
    BY <1>2, <1>4, <2>1
<1> HIDE DEF Val
<1>6. QED
  BY <1>1, <1>3, <1>4, <1>5 DEF B

\* After a call the state has its shape.
LEMMA OutcomeTyped ==
  ASSUME Planned, NEW c, NEW sampled, NEW started, NEW eos, NEW failed,
         Ending(c, sampled, started, eos, failed), Outcome(c, sampled, started, eos, failed),
         Good(cache')
  PROVE  TypeOK'
<1> DEFINE longer == LongerOf(sampled, eos)
           done   == DoneOf(sampled, eos)
           undone == UndoneOf(failed)
           gone   == ReqsIn(ToSet(done))
<1>1. Result(c, started, failed, longer, done, undone)
  BY OutcomeResult DEF Ending
<1>2. Leaving(started, done, undone) /\ longer \in [Reqs -> Seq(Token)]
  BY LeavingIs, LongerIs DEF LongerFits
<1> HIDE DEF longer, done, undone
<1>3. /\ running' \in Seq(Items) /\ prefilling' \in Seq(Items)
      /\ freeSlots' \in Seq(Slots) /\ waiting' \in Seq(Reqs)
  <2>1. ListsMoved(started, done, undone)
    BY <1>1, <1>2, ListsAfter
  <2>2. QED
    BY <2>1 DEF ListsMoved
<1>4. computed' \in [Reqs -> Nat]
  BY <1>1, ComputedAfter
<1>5. folded \in [Reqs -> Seq(Token)] /\ held \in [Slots -> Seq(Int)]
      /\ finished \subseteq [id : Reqs, out : Seq(Token)]
      /\ nextId \in 0 .. MaxRequests /\ nPrompt \in [Reqs -> Nat] /\ maxTokens \in [Reqs -> Nat]
  BY DEF Planned, TypeOK
<1>6. gone \subseteq Reqs
  <2>1. ToSet(done) \subseteq Items
    <3>1. done \in Seq(Items)
      BY <1>2 DEF Leaving
    <3>2. QED
      BY <3>1, SeqSet
  <2>2. QED
    BY <2>1 DEF ReqsIn, Items
<1> HIDE DEF gone
<1>7. outputs' \in [Reqs -> Seq(Token)] /\ folded' \in [Reqs -> Seq(Token)]
  <2>1. /\ outputs' = [r \in Reqs |-> IF r \in gone THEN <<>> ELSE longer[r]]
        /\ folded' = [r \in Reqs |-> IF r \in gone THEN <<>> ELSE folded[r]]
    BY <1>1 DEF Result, gone
  <2>2. <<>> \in Seq(Token)
    OBVIOUS
  <2>3. QED
    BY <1>2, <1>5, <2>1, <2>2
<1>8. finished' \subseteq [id : Reqs, out : Seq(Token)]
  <2>1. finished' = finished \cup {[id |-> r, out |-> folded[r] \o longer[r]] : r \in gone}
    BY <1>1 DEF Result, gone
  <2>2. ASSUME NEW r \in gone
        PROVE  folded[r] \o longer[r] \in Seq(Token) /\ r \in Reqs
    <3>1. r \in Reqs /\ folded[r] \in Seq(Token) /\ longer[r] \in Seq(Token)
      BY <1>2, <1>5, <1>6
    <3>2. QED
      BY <3>1
  <2> DEFINE Whole(r) == folded[r] \o longer[r]
  <2>3. \A r \in gone : Whole(r) \in Seq(Token) /\ r \in Reqs
    BY <2>2
  <2> HIDE DEF Whole
  <2>4. {[id |-> r, out |-> Whole(r)] : r \in gone} \subseteq [id : Reqs, out : Seq(Token)]
    BY <2>3
  <2>5. QED
    BY <1>5, <2>1, <2>4 DEF Whole
<1>9. held' \in [Slots -> Seq(Int)]
  <2>1. held' = [s \in Slots |-> IF s \in ToSet(SlotsOf(done \o undone)) THEN <<>>
                                 ELSE IF failed THEN held[s] ELSE Written[s]]
    BY <1>1 DEF Result
  <2>2. Written \in [Slots -> Seq(Int)] /\ <<>> \in Seq(Int)
    BY WrittenTyped
  <2>3. QED
    BY <1>5, <2>1, <2>2
<1>10. /\ nextId' = nextId /\ nPrompt' = nPrompt /\ maxTokens' = maxTokens
       /\ pc' = "idle" /\ plan' = [decode |-> <<>>, prefill |-> <<>>]
  BY <1>1 DEF Result
<1>11. plan' \in [decode : Seq(Items), prefill : Seq([slot : Slots, req : Reqs, chunk : Nat \ {0}])]
  BY <1>10
<1>12. cache' \in [lens : [Slots -> Nat], tables : [Slots -> Seq(KV!Pool)], free : Seq(KV!Pool)]
  BY GoodTyped
<1>13. QED
  BY <1>3, <1>4, <1>5, <1>7, <1>8, <1>9, <1>10, <1>11, <1>12 DEF TypeOK

\* After a call every request is within its limits.
LEMMA OutcomeFits ==
  ASSUME Planned, NEW c, NEW sampled, NEW started, NEW eos, NEW failed,
         Ending(c, sampled, started, eos, failed), Outcome(c, sampled, started, eos, failed)
  PROVE  RequestsFit'
<1> DEFINE longer == LongerOf(sampled, eos)
           done   == DoneOf(sampled, eos)
           undone == UndoneOf(failed)
           R == ToSet(running)
           P == ToSet(prefilling)
           S == ToSet(started)
           D == ToSet(done)
           U == ToSet(undone)
           M == ToSet(sampled)
           B == ToSet(plan.prefill)
<1>1. Result(c, started, failed, longer, done, undone)
  BY OutcomeResult DEF Ending
<1>2. Leaving(started, done, undone) /\ D \subseteq M
  BY LeavingIs
<1>3. /\ longer \in [Reqs -> Seq(Token)]
      /\ \A it \in M : longer[it.req] # <<>>
      /\ \A r \in Reqs : r \notin ReqsIn(M) => longer[r] = outputs[r]
  <2>1. LongerFits(sampled, eos, longer)
    BY LongerIs
  <2>2. ASSUME NEW it \in M
        PROVE  longer[it.req] # <<>>
    <3> DEFINE t == [at |-> Predict(Written[it.slot]), eos |-> eos[it.slot]]
               o == outputs[it.req]
    <3>1. longer[it.req] = Append(o, t) /\ t \in Token
      BY <2>1 DEF LongerFits
    <3>2. it \in Items
      BY SeqSet DEF Ending
    <3>3. o \in Seq(Token)
      BY <3>2 DEF Items, Planned, TypeOK
    <3> HIDE DEF o, t
    <3>4. Append(o, t) # <<>>
      BY <3>1, <3>3
    <3>5. QED
      BY <3>1, <3>4
  <2>3. QED
    BY <2>1, <2>2 DEF LongerFits
<1>4. /\ ToSet(running') = (R \cup S) \ D
      /\ ToSet(prefilling') = P \ (S \cup U)
      /\ ToSet(waiting') = ToSet(waiting) \cup ReqsIn(U)
      /\ Apart(R \cup P)
  <2>1. ListsMoved(started, done, undone)
    BY <1>1, <1>2, ListsAfter
  <2>2. QED
    BY <2>1 DEF ListsMoved
<1>5. /\ \A x \in B : computed'[x.req] = IF failed THEN 0 ELSE computed[x.req] + x.chunk
      /\ \A r \in Reqs : r \notin ReqsIn(B) => computed'[r] = computed[r]
  BY <1>1, ComputedAfter
<1>6. /\ outputs' = [r \in Reqs |-> IF r \in ReqsIn(D) THEN <<>> ELSE longer[r]]
      /\ folded' = [r \in Reqs |-> IF r \in ReqsIn(D) THEN <<>> ELSE folded[r]]
      /\ nPrompt' = nPrompt /\ nextId' = nextId
  BY <1>1 DEF Result
<1>7. /\ R \subseteq Items /\ P \subseteq Items
      /\ ToSet(waiting) \subseteq Reqs
      /\ M \subseteq R \cup S /\ S \subseteq M /\ S \subseteq P /\ D \subseteq M /\ U \subseteq P
      /\ (failed => S = {}) /\ (failed => U = ToSet(PlannedItems)) /\ (~failed => U = {})
  <2>1. R \subseteq Items /\ P \subseteq Items /\ ToSet(waiting) \subseteq Reqs
    <3>1. running \in Seq(Items) /\ prefilling \in Seq(Items) /\ waiting \in Seq(Reqs)
      BY DEF Planned, TypeOK
    <3>2. QED
      BY <3>1, SeqSet
  <2>2. ToSet(<<>>) = {}
    BY DEF ToSet
  <2>3. QED
    BY <1>2, <2>1, <2>2 DEF Ending, Leaving, UndoneOf
<1>8. /\ ReqsIn(U) \subseteq ReqsIn(P) /\ ReqsIn(S) \subseteq ReqsIn(P)
      /\ ReqsIn(M) \subseteq ReqsIn(R) \cup ReqsIn(S)
      /\ ReqsIn(D) \subseteq ReqsIn(M)
      /\ ReqsIn(B) = ReqsIn(ToSet(PlannedItems)) /\ ToSet(PlannedItems) \subseteq P
      /\ ReqsIn(B) \subseteq ReqsIn(P)
  <2>1. ReqsIn(B) = ReqsIn(ToSet(PlannedItems)) /\ ToSet(PlannedItems) \subseteq P
    BY PlannedItemsAre
  <2>2. QED
    BY <1>7, <2>1 DEF ReqsIn
<1>9. /\ ToSet(waiting) \cap ReqsIn(P) = {} /\ ToSet(waiting) \cap ReqsIn(R) = {}
      /\ ReqsIn(P) \cap ReqsIn(R) = {}
      /\ ReqsIn(P) \subseteq 0 .. (nextId - 1) /\ ReqsIn(R) \subseteq 0 .. (nextId - 1)
  BY DEF Planned, Placed, Parts
<1>10. /\ \A r \in Reqs : r >= nextId => folded[r] = <<>> /\ outputs[r] = <<>> /\ computed[r] = 0
       /\ \A r \in ToSet(waiting) : outputs[r] = <<>> /\ computed[r] = 0
       /\ \A it \in P : outputs[it.req] = <<>> /\ computed[it.req] <= PromptLen(it.req)
       /\ \A it \in R : outputs[it.req] # <<>>
  BY DEF Planned, RequestsFit
<1>11. nextId \in Int /\ \A r \in Reqs : r \in Int
  BY SchedulerAssumption DEF Planned, TypeOK, Reqs
<1> HIDE DEF longer, done, undone, R, P, S, D, U, M, B
<1>12. ASSUME NEW r \in Reqs, r >= nextId
       PROVE  folded'[r] = <<>> /\ outputs'[r] = <<>> /\ computed'[r] = 0
  <2>1. r \notin ReqsIn(P) /\ r \notin ReqsIn(R)
    BY <1>9, <1>11, <1>12
  <2>2. r \notin ReqsIn(M) /\ r \notin ReqsIn(D) /\ r \notin ReqsIn(B)
    BY <1>8, <2>1
  <2>3. QED
    BY <1>3, <1>5, <1>6, <1>10, <1>12, <2>2
<1>13. ASSUME NEW r \in ToSet(waiting')
       PROVE  outputs'[r] = <<>> /\ computed'[r] = 0
  <2>1. CASE r \in ToSet(waiting)
    <3>1. r \in Reqs /\ r \notin ReqsIn(P) /\ r \notin ReqsIn(R)
      BY <1>7, <1>9, <2>1
    <3>2. r \notin ReqsIn(M) /\ r \notin ReqsIn(D) /\ r \notin ReqsIn(B)
      BY <1>8, <3>1
    <3>3. QED
      BY <1>3, <1>5, <1>6, <1>10, <2>1, <3>1, <3>2
  <2>2. CASE r \in ReqsIn(U)
    <3>1. failed /\ r \in ReqsIn(B) /\ r \in ReqsIn(P) /\ r \in Reqs
      BY <1>7, <1>8, <2>2 DEF ReqsIn, Items
    <3>2. r \notin ReqsIn(R) /\ r \notin ReqsIn(S)
      BY <1>7, <1>9, <3>1 DEF ReqsIn
    <3>3. r \notin ReqsIn(M) /\ r \notin ReqsIn(D)
      BY <1>8, <3>2
    <3>4. computed'[r] = 0
      BY <1>5, <3>1 DEF ReqsIn
    <3>5. outputs[r] = <<>>
      BY <1>10, <3>1 DEF ReqsIn
    <3>6. QED
      BY <1>3, <1>6, <3>1, <3>3, <3>4, <3>5
  <2>3. QED
    BY <1>4, <1>13, <2>1, <2>2
<1>14. ASSUME NEW it \in ToSet(prefilling')
       PROVE  outputs'[it.req] = <<>> /\ computed'[it.req] <= PromptLen(it.req)'
  <2>1. it \in P /\ it \notin S /\ it \notin U /\ it.req \in Reqs /\ it \in Items
    BY <1>4, <1>7, <1>14 DEF Items
  <2>2. it.req \in ReqsIn(P) /\ it.req \notin ReqsIn(R)
    BY <1>9, <2>1 DEF ReqsIn
  <2>3. \A x \in P : x.req = it.req => x = it
    BY <1>4, <2>1 DEF Apart
  <2>4. it.req \notin ReqsIn(S)
    BY <1>7, <2>1, <2>3 DEF ReqsIn
  <2>5. it.req \notin ReqsIn(M) /\ it.req \notin ReqsIn(D)
    BY <1>8, <2>2, <2>4
  <2>6. outputs'[it.req] = <<>> /\ folded'[it.req] = folded[it.req]
    BY <1>3, <1>6, <1>10, <2>1, <2>5
  <2>7. PromptLen(it.req)' = PromptLen(it.req)
    BY <1>6, <2>6 DEF PromptLen
  <2>8. computed'[it.req] <= PromptLen(it.req)
    <3>1. CASE it.req \notin ReqsIn(B)
      BY <1>5, <1>10, <2>1, <3>1
    <3>2. CASE it.req \in ReqsIn(B)
      <4>1. PICK x \in B : x.req = it.req
        BY <3>2 DEF ReqsIn
      <4>2. x.chunk <= Remaining(it.req) /\ x.chunk \in Nat
        BY <4>1, PlanApart DEF Planned, PlanFollows, Follows, B, Chunks
      <4>3. computed[it.req] \in Nat /\ PromptLen(it.req) \in Nat
        BY <2>1 DEF Planned, TypeOK, PromptLen
      <4>4. computed'[it.req] = IF failed THEN 0 ELSE computed[it.req] + x.chunk
        BY <1>5, <4>1
      <4>5. QED
        BY <4>2, <4>3, <4>4 DEF Remaining
    <3>3. QED
      BY <3>1, <3>2
  <2>9. QED
    BY <2>6, <2>7, <2>8
<1>15. ASSUME NEW it \in ToSet(running')
       PROVE  outputs'[it.req] # <<>>
  <2>1. it \in R \cup S /\ it \notin D /\ it.req \in Reqs
    BY <1>4, <1>7, <1>15 DEF Items
  <2>2. it.req \notin ReqsIn(D)
    <3>1. \A x \in R \cup P : x.req = it.req => x = it
      BY <1>4, <1>7, <2>1 DEF Apart
    <3>2. D \subseteq R \cup P
      BY <1>7
    <3>3. QED
      BY <2>1, <3>1, <3>2 DEF ReqsIn
  <2>3. outputs'[it.req] = longer[it.req]
    BY <1>6, <2>1, <2>2
  <2>4. CASE it.req \in ReqsIn(M)
    BY <1>3, <2>3, <2>4 DEF ReqsIn
  <2>5. CASE it.req \notin ReqsIn(M)
    <3>1. it \in R
      BY <1>7, <2>1, <2>5 DEF ReqsIn
    <3>2. QED
      BY <1>3, <1>10, <2>1, <2>3, <2>5, <3>1
  <2>6. QED
    BY <2>4, <2>5
<1>16. QED
  BY <1>6, <1>12, <1>13, <1>14, <1>15 DEF RequestsFit

\* However a call ends, the invariant holds after it.
LEMMA OutcomeKeeps ==
  ASSUME IInv, pc = "planned", NEW c, NEW sampled, NEW started, NEW eos, NEW failed,
         Ending(c, sampled, started, eos, failed), Outcome(c, sampled, started, eos, failed)
  PROVE  IInv'
<1> DEFINE longer == LongerOf(sampled, eos)
           done   == DoneOf(sampled, eos)
           undone == UndoneOf(failed)
<1>0. Planned /\ Good(cache)
  BY DEF IInv, Planned
<1>1. Result(c, started, failed, longer, done, undone)
  BY OutcomeResult DEF Ending
<1>2. Leaving(started, done, undone)
  BY <1>0, LeavingIs
<1>3. Good(c) /\ (\A s \in Slots : cache.lens[s] <= c.lens[s]) /\ (failed => started = <<>>)
  BY DEF Ending
<1> HIDE DEF longer, done, undone
<1>4. Good(cache')
  BY <1>0, <1>1, <1>2, <1>3, CacheAfter
<1>5. Good(cache)'
  BY <1>4 DEF Good, KV!TypedIn, KV!PartitionedIn, KV!CoveredIn
<1>6. Placed'
  BY <1>0, <1>1, <1>2, OutcomePlaced
<1>7. PlanFollows'
  <2>1. pc' = "idle" /\ plan' = [decode |-> <<>>, prefill |-> <<>>]
    BY <1>1 DEF Result
  <2>2. QED
    BY <2>1 DEF PlanFollows
<1>8. TypeOK'
  BY <1>0, <1>4, OutcomeTyped
<1>9. RequestsFit'
  BY <1>0, OutcomeFits
<1>10. QED
  BY <1>5, <1>6, <1>7, <1>8, <1>9 DEF IInv

\* The empty list of items.
LEMMA NoItems == <<>> \in Seq(Items) /\ Unique(<<>>) /\ ToSet(<<>>) = {}
BY DEF ToSet, Unique, Once, Apart

\* A call that fits grows a good cache by what it adds.
LEMMA GrownIs ==
  ASSUME Planned, Good(cache), CallFits
  PROVE  /\ Good(Grown)
         /\ \A s \in Slots : Grown.lens[s] = cache.lens[s] + News[s]
         /\ \A s \in Slots : cache.lens[s] <= Grown.lens[s]
<1>1. News \in [Slots -> Nat]
  BY NewsIs
<1>2. ~KV!TooLong(cache, News) /\ KV!Fits(cache, News)
  BY DEF CallFits
<1> DEFINE news == News
<1>3. /\ Good(KV!Allocated(cache, news))
      /\ \A s \in Slots : KV!Allocated(cache, news).lens[s] = cache.lens[s] + news[s]
  <2>1. news \in [Slots -> Nat] /\ ~KV!TooLong(cache, news) /\ KV!Fits(cache, news)
    BY <1>1, <1>2
  <2> HIDE DEF news
  <2>2. QED
    BY <2>1, GrownGood
<1>4. \A s \in Slots : cache.lens[s] \in Nat /\ news[s] \in Nat
  BY <1>1, GoodTyped
<1> HIDE DEF news
<1>5. Grown = KV!Allocated(cache, news)
  BY DEF Grown, news
<1>6. \A s \in Slots : cache.lens[s] <= cache.lens[s] + news[s]
  BY <1>4
<1>7. QED
  BY <1>3, <1>5, <1>6 DEF news

\* Every way a call ends.
LEMMA CallEndings ==
  ASSUME Planned, Good(cache)
  PROVE  /\ DecodeStep => \E eos : Ending(Grown, plan.decode, <<>>, eos, FALSE)
                                   /\ Outcome(Grown, plan.decode, <<>>, eos, FALSE)
         /\ PrefillStep => \E eos : Ending(Grown, CompletedItems, CompletedItems, eos, FALSE)
                                    /\ Outcome(Grown, CompletedItems, CompletedItems, eos, FALSE)
         /\ MixedStep =>
              \E eos : /\ Ending(Grown, plan.decode \o CompletedItems, CompletedItems, eos, FALSE)
                       /\ Outcome(Grown, plan.decode \o CompletedItems, CompletedItems, eos, FALSE)
         /\ TooLongFails => Ending(cache, <<>>, <<>>, <<>>, TRUE)
                            /\ Outcome(cache, <<>>, <<>>, <<>>, TRUE)
         /\ ModelFails => Ending(Grown, <<>>, <<>>, <<>>, TRUE)
                          /\ Outcome(Grown, <<>>, <<>>, <<>>, TRUE)
         /\ SamplingFails => \E eos : Ending(Grown, plan.decode, <<>>, eos, TRUE)
                                      /\ Outcome(Grown, plan.decode, <<>>, eos, TRUE)
<1>1. /\ plan.decode = running /\ running \in Seq(Items) /\ Unique(running)
      /\ CompletedItems \in Seq(Items) /\ Unique(CompletedItems)
      /\ ToSet(CompletedItems) \subseteq ToSet(PlannedItems)
  BY PlanApart, CompletedAre
<1>2. /\ plan.decode \o CompletedItems \in Seq(Items)
      /\ ToSet(plan.decode \o CompletedItems) = ToSet(running) \cup ToSet(CompletedItems)
      /\ Unique(plan.decode \o CompletedItems)
  <2>1. /\ SlotsIn(ToSet(CompletedItems)) \subseteq SlotsIn(ToSet(plan.prefill))
        /\ ReqsIn(ToSet(CompletedItems)) \subseteq ReqsIn(ToSet(plan.prefill))
    <3>1. /\ SlotsIn(ToSet(CompletedItems)) \subseteq SlotsIn(ToSet(PlannedItems))
          /\ ReqsIn(ToSet(CompletedItems)) \subseteq ReqsIn(ToSet(PlannedItems))
      BY <1>1 DEF SlotsIn, ReqsIn
    <3>2. QED
      BY <3>1, PlannedItemsAre
  <2>2. /\ SlotsIn(ToSet(running)) \cap SlotsIn(ToSet(CompletedItems)) = {}
        /\ ReqsIn(ToSet(running)) \cap ReqsIn(ToSet(CompletedItems)) = {}
    BY <2>1, PlanApart
  <2>3. QED
    BY <1>1, <2>2, ConcatSet, UniqueConcat
<1>3. CallFits => Good(Grown) /\ \A s \in Slots : cache.lens[s] <= Grown.lens[s]
  BY GrownIs
<1>4. \A s \in Slots : cache.lens[s] <= cache.lens[s]
  BY GoodTyped
<1> HIDE DEF Grown, CompletedItems
<1>5. ASSUME DecodeStep
      PROVE  \E eos : Ending(Grown, plan.decode, <<>>, eos, FALSE)
                      /\ Outcome(Grown, plan.decode, <<>>, eos, FALSE)
  <2>1. PICK eos \in [Slots -> BOOLEAN] : Outcome(Grown, plan.decode, <<>>, eos, FALSE)
    BY <1>5 DEF DecodeStep
  <2>2. Ending(Grown, plan.decode, <<>>, eos, FALSE)
    BY <1>1, <1>3, <1>5, <2>1, NoItems DEF DecodeStep, Ending
  <2>3. QED
    BY <2>1, <2>2
<1>6. ASSUME PrefillStep
      PROVE  \E eos : Ending(Grown, CompletedItems, CompletedItems, eos, FALSE)
                      /\ Outcome(Grown, CompletedItems, CompletedItems, eos, FALSE)
  <2>1. PICK eos \in [Slots -> BOOLEAN] : Outcome(Grown, CompletedItems, CompletedItems, eos, FALSE)
    BY <1>6 DEF PrefillStep
  <2>2. Ending(Grown, CompletedItems, CompletedItems, eos, FALSE)
    BY <1>1, <1>3, <1>6, <2>1, NoItems DEF PrefillStep, Ending
  <2>3. QED
    BY <2>1, <2>2
<1>7. ASSUME MixedStep
      PROVE  \E eos : /\ Ending(Grown, plan.decode \o CompletedItems, CompletedItems, eos, FALSE)
                      /\ Outcome(Grown, plan.decode \o CompletedItems, CompletedItems, eos, FALSE)
  <2>1. PICK eos \in [Slots -> BOOLEAN] :
          Outcome(Grown, plan.decode \o CompletedItems, CompletedItems, eos, FALSE)
    BY <1>7 DEF MixedStep
  <2>2. Ending(Grown, plan.decode \o CompletedItems, CompletedItems, eos, FALSE)
    BY <1>1, <1>2, <1>3, <1>7, <2>1, NoItems DEF MixedStep, Ending
  <2>3. QED
    BY <2>1, <2>2
<1>8. ASSUME TooLongFails
      PROVE  Ending(cache, <<>>, <<>>, <<>>, TRUE) /\ Outcome(cache, <<>>, <<>>, <<>>, TRUE)
  BY <1>4, <1>8, NoItems DEF TooLongFails, Ending
<1>9. ASSUME ModelFails
      PROVE  Ending(Grown, <<>>, <<>>, <<>>, TRUE) /\ Outcome(Grown, <<>>, <<>>, <<>>, TRUE)
  BY <1>3, <1>9, NoItems DEF ModelFails, Ending
<1>10. ASSUME SamplingFails
       PROVE  \E eos : Ending(Grown, plan.decode, <<>>, eos, TRUE)
                       /\ Outcome(Grown, plan.decode, <<>>, eos, TRUE)
  <2>1. PICK eos \in [Slots -> BOOLEAN] : Outcome(Grown, plan.decode, <<>>, eos, TRUE)
    BY <1>10 DEF SamplingFails
  <2>2. Ending(Grown, plan.decode, <<>>, eos, TRUE)
    BY <1>1, <1>3, <1>10, <2>1, NoItems DEF SamplingFails, Ending
  <2>3. QED
    BY <2>1, <2>2
<1>11. QED
  BY <1>5, <1>6, <1>7, <1>8, <1>9, <1>10

-----------------------------------------------------------------------------
(* The clients' calls *)

\* The free list of a new scheduler has each slot once.
LEMMA IotaOnce ==
  LET s == [i \in 1 .. MaxRunning |-> i - 1]
  IN  s \in Seq(Slots) /\ Once(s) /\ ToSet(s) = Slots
<1> DEFINE s == [i \in 1 .. MaxRunning |-> i - 1]
<1>1. MaxRunning \in Nat
  BY SchedulerAssumption
<1>2. s \in Seq(Slots) /\ Len(s) = MaxRunning
  BY <1>1 DEF Slots
<1>3. Once(s)
  BY <1>1, <1>2 DEF Once
<1>4. ToSet(s) = {s[i] : i \in 1 .. Len(s)}
  <2> HIDE DEF s
  <2>1. QED
    BY <1>2, SeqSet
<1>5. ToSet(s) = Slots
  <2>1. \A x \in Slots : x + 1 \in 1 .. MaxRunning /\ s[x + 1] = x
    BY <1>1 DEF Slots
  <2>2. \A i \in 1 .. MaxRunning : s[i] \in Slots
    BY <1>1 DEF Slots
  <2> HIDE DEF s
  <2>3. QED
    BY <1>2, <1>4, <2>1, <2>2
<1>6. QED
  BY <1>2, <1>3, <1>5

\* How everything starts, and starts over.
Fresh ==
  /\ nextId = 0
  /\ nPrompt = [r \in Reqs |-> 0]
  /\ maxTokens = [r \in Reqs |-> 0]
  /\ folded = [r \in Reqs |-> <<>>]
  /\ outputs = [r \in Reqs |-> <<>>]
  /\ computed = [r \in Reqs |-> 0]
  /\ waiting = <<>>
  /\ prefilling = <<>>
  /\ running = <<>>
  /\ freeSlots = [i \in 1 .. MaxRunning |-> i - 1]
  /\ finished = {}
  /\ plan = [decode |-> <<>>, prefill |-> <<>>]
  /\ pc = "idle"
  /\ cache = KV!Empty
  /\ held = [s \in Slots |-> <<>>]

\* The invariant holds at first.
LEMMA FreshIsGood ==
  ASSUME Fresh
  PROVE  IInv
<1>0. MaxRequests \in Nat /\ MaxRunning \in Nat
  BY SchedulerAssumption
<1>1. Good(cache)
  BY EmptyGood DEF Fresh
<1>2. freeSlots \in Seq(Slots) /\ Once(freeSlots) /\ ToSet(freeSlots) = Slots
  BY IotaOnce DEF Fresh
<1>3. TypeOK
  <2>1. cache \in [lens : [Slots -> Nat], tables : [Slots -> Seq(KV!Pool)], free : Seq(KV!Pool)]
    BY <1>1, GoodTyped
  <2>2. nextId \in 0 .. MaxRequests
    BY <1>0 DEF Fresh
  <2>3. /\ nPrompt \in [Reqs -> Nat] /\ maxTokens \in [Reqs -> Nat]
        /\ folded \in [Reqs -> Seq(Token)] /\ outputs \in [Reqs -> Seq(Token)]
        /\ computed \in [Reqs -> Nat]
        /\ held \in [Slots -> Seq(Int)]
    BY DEF Fresh
  <2>4. /\ waiting \in Seq(Reqs) /\ prefilling \in Seq(Items) /\ running \in Seq(Items)
        /\ finished \subseteq [id : Reqs, out : Seq(Token)]
        /\ plan \in [decode : Seq(Items), prefill : Seq([slot : Slots, req : Reqs, chunk : Nat \ {0}])]
        /\ pc \in {"idle", "planned"}
    BY DEF Fresh
  <2>5. QED
    BY <1>2, <2>1, <2>2, <2>3, <2>4 DEF TypeOK
<1>4. /\ waiting = <<>> /\ prefilling = <<>> /\ running = <<>> /\ finished = {} /\ nextId = 0
      /\ ToSet(<<>>) = {} /\ Once(<<>>) /\ Unique(<<>>)
  BY NoItems DEF Fresh, Unique
<1>5. Placed
  <2>1. SlotsIn({}) = {} /\ ReqsIn({}) = {} /\ Ids({}) = {}
    BY DEF SlotsIn, ReqsIn, Ids
  <2>2. 0 .. (nextId - 1) = {}
    BY <1>4
  <2>3. QED
    BY <1>2, <1>4, <2>1, <2>2 DEF Placed, ListsUnique, Parts
<1>6. PlanFollows
  BY DEF Fresh, PlanFollows
<1>7. RequestsFit
  BY <1>4 DEF Fresh, RequestsFit
<1>8. QED
  BY <1>1, <1>3, <1>5, <1>6, <1>7 DEF IInv

\* reset starts again with the invariant.
LEMMA ResetKeeps ==
  ASSUME IInv, Reset
  PROVE  IInv'
<1>1. plan = [decode |-> <<>>, prefill |-> <<>>]
  BY DEF IInv, PlanFollows, Reset
<1>2. Fresh'
  BY <1>1 DEF Reset, Fresh, KV!Empty
<1>3. QED
  BY <1>2, FreshIsGood, PTL

\* add_request keeps the invariant.
LEMMA AddRequestKeeps ==
  ASSUME IInv, NEW shape \in Shapes, AddRequest(shape)
  PROVE  IInv'
<1> DEFINE N == nextId
<1>0. /\ pc = "idle" /\ N < MaxRequests
      /\ nPrompt' = [nPrompt EXCEPT ![N] = shape[1]]
      /\ maxTokens' = [maxTokens EXCEPT ![N] = shape[2]]
      /\ waiting' = Append(waiting, N)
      /\ nextId' = N + 1
      /\ UNCHANGED <<folded, outputs, computed, prefilling, running, freeSlots, finished, plan, pc,
                     cache, held>>
  BY DEF AddRequest, tokenVars
<1>1. TypeOK /\ Placed /\ PlanFollows /\ RequestsFit /\ Good(cache)
  BY DEF IInv
<1>2. N \in Reqs /\ N \in Nat /\ shape[1] \in Nat /\ shape[2] \in Nat /\ N + 1 \in 0 .. MaxRequests
  <2>1. shape \in Nat \X Nat /\ MaxRequests \in Nat
    BY SchedulerAssumption
  <2>2. N \in Nat
    BY <1>1 DEF TypeOK
  <2>3. QED
    BY <1>0, <2>1, <2>2 DEF Reqs
<1>3. /\ ToSet(waiting) \cup Ids(finished) \cup ReqsIn(ToSet(prefilling)) \cup ReqsIn(ToSet(running))
           = 0 .. (N - 1)
      /\ Once(waiting) /\ waiting \in Seq(Reqs)
  BY <1>1 DEF Placed, Parts, ListsUnique, TypeOK
<1> HIDE DEF N
<1>4. /\ N \notin ToSet(waiting) /\ N \notin Ids(finished)
      /\ N \notin ReqsIn(ToSet(prefilling)) /\ N \notin ReqsIn(ToSet(running))
      /\ 0 .. (N + 1 - 1) = (0 .. (N - 1)) \cup {N}
  <2>1. N \notin 0 .. (N - 1) /\ 0 .. (N + 1 - 1) = (0 .. (N - 1)) \cup {N}
    BY <1>2
  <2>2. QED
    BY <1>3, <2>1
<1>5. /\ waiting' \in Seq(Reqs) /\ ToSet(waiting') = ToSet(waiting) \cup {N} /\ Once(waiting')
  BY <1>0, <1>2, <1>3, <1>4, AppendSet
<1>6. TypeOK'
  <2>1. nPrompt' \in [Reqs -> Nat] /\ maxTokens' \in [Reqs -> Nat]
    <3> DEFINE a == shape[1]
               b == shape[2]
    <3>1. a \in Nat /\ b \in Nat /\ nPrompt \in [Reqs -> Nat] /\ maxTokens \in [Reqs -> Nat]
      BY <1>1, <1>2 DEF TypeOK
    <3>2. nPrompt' = [nPrompt EXCEPT ![N] = a] /\ maxTokens' = [maxTokens EXCEPT ![N] = b]
      BY <1>0
    <3> HIDE DEF a, b
    <3>3. QED
      BY <1>2, <3>1, <3>2
  <2>2. nextId' \in 0 .. MaxRequests
    BY <1>0, <1>2
  <2>3. QED
    BY <1>0, <1>1, <1>5, <2>1, <2>2 DEF TypeOK
<1>7. Placed'
  <2>1. Parts(ToSet(waiting') \cup Ids(finished), ReqsIn(ToSet(prefilling)),
              ReqsIn(ToSet(running)), 0 .. (N + 1 - 1))
    <3>1. Parts(ToSet(waiting) \cup Ids(finished), ReqsIn(ToSet(prefilling)),
                ReqsIn(ToSet(running)), 0 .. (N - 1))
      BY <1>1 DEF Placed, N
    <3>2. QED
      BY <1>4, <1>5, <3>1 DEF Parts
  <2>2. ToSet(waiting') \cap Ids(finished) = {}
    BY <1>1, <1>4, <1>5 DEF Placed
  <2>3. ListsUnique'
    BY <1>0, <1>1, <1>5 DEF Placed, ListsUnique
  <2>4. /\ freeSlots' = freeSlots /\ prefilling' = prefilling /\ running' = running
        /\ finished' = finished /\ nextId' = N + 1
    BY <1>0
  <2>5. Parts(ToSet(freeSlots), SlotsIn(ToSet(prefilling)), SlotsIn(ToSet(running)), Slots)
        /\ \A f, g \in finished : f.id = g.id => f = g
    BY <1>1 DEF Placed
  <2>6. Parts(ToSet(waiting') \cup Ids(finished'), ReqsIn(ToSet(prefilling')),
              ReqsIn(ToSet(running')), 0 .. (nextId' - 1))
    <3> DEFINE All == 0 .. (N + 1 - 1)
    <3>1. 0 .. (nextId' - 1) = All
      BY <1>2, <2>4
    <3> HIDE DEF All
    <3>2. Parts(ToSet(waiting') \cup Ids(finished), ReqsIn(ToSet(prefilling)),
                ReqsIn(ToSet(running)), All)
      BY <2>1 DEF All
    <3>3. Parts(ToSet(waiting') \cup Ids(finished'), ReqsIn(ToSet(prefilling')),
                ReqsIn(ToSet(running')), All)
      BY <2>4, <3>2
    <3>4. QED
      BY <3>1, <3>3
  <2>7. Parts(ToSet(freeSlots'), SlotsIn(ToSet(prefilling')), SlotsIn(ToSet(running')), Slots)
    BY <2>4, <2>5
  <2>8. QED
    BY <2>2, <2>3, <2>4, <2>5, <2>6, <2>7 DEF Placed
<1>8. PlanFollows'
  BY <1>0, <1>1 DEF PlanFollows
<1>9. RequestsFit'
  <2>1. \A it \in ToSet(prefilling) : PromptLen(it.req)' = PromptLen(it.req)
    <3>1. \A it \in ToSet(prefilling) : it.req # N
      BY <1>4 DEF ReqsIn
    <3>2. nPrompt \in [Reqs -> Nat]
      BY <1>1 DEF TypeOK
    <3>3. \A r : r # N => nPrompt'[r] = nPrompt[r]
      BY <1>0, <3>2
    <3>4. QED
      BY <1>0, <3>1, <3>3 DEF PromptLen
  <2>2. \A r \in Reqs : r >= N + 1 => r >= N
    BY <1>2, SchedulerAssumption DEF Reqs
  <2>3. \A r \in ToSet(waiting') : outputs[r] = <<>> /\ computed[r] = 0
    <3>1. N >= N
      BY <1>2
    <3>2. QED
      BY <1>1, <1>2, <1>5, <3>1 DEF RequestsFit, N
  <2>4. QED
    BY <1>0, <1>1, <2>1, <2>2, <2>3 DEF RequestsFit, N
<1>10. Good(cache)'
  BY <1>0, <1>1 DEF Good, KV!TypedIn, KV!PartitionedIn, KV!CoveredIn
<1>11. QED
  BY <1>6, <1>7, <1>8, <1>9, <1>10 DEF IInv

\* A step with nothing planned keeps the invariant.
LEMMA EmptyStepKeeps ==
  ASSUME IInv, EmptyStep
  PROVE  IInv'
<1>1. /\ pc' = "idle" /\ plan' = [decode |-> <<>>, prefill |-> <<>>]
      /\ UNCHANGED <<nextId, nPrompt, maxTokens, folded, outputs, computed, waiting, prefilling,
                     running, freeSlots, finished, cache, held>>
  BY DEF EmptyStep, EndStep, requestVars, tokenVars, queueVars
<1>2. PlanFollows'
  BY <1>1 DEF PlanFollows
<1>3. TypeOK'
  <2>1. plan' \in [decode : Seq(Items), prefill : Seq([slot : Slots, req : Reqs, chunk : Nat \ {0}])]
    BY <1>1
  <2>2. QED
    BY <1>1, <2>1 DEF IInv, TypeOK
<1>4. Placed' /\ RequestsFit'
  BY <1>1 DEF IInv, Placed, ListsUnique, RequestsFit, PromptLen
<1>5. Good(cache)'
  BY <1>1 DEF IInv, Good, KV!TypedIn, KV!PartitionedIn, KV!CoveredIn
<1>6. QED
  BY <1>2, <1>3, <1>4, <1>5 DEF IInv

\* So does doing nothing.
LEMMA StutterKeeps ==
  ASSUME IInv, UNCHANGED vars
  PROVE  IInv'
<1>1. UNCHANGED <<nextId, nPrompt, maxTokens, folded, outputs, computed, waiting, prefilling,
                  running, freeSlots, finished, plan, pc, cache, held>>
  BY DEF vars, requestVars, tokenVars, queueVars
<1>2. TypeOK' /\ Placed' /\ PlanFollows' /\ RequestsFit'
  <2>1. TypeOK'
    BY <1>1 DEF IInv, TypeOK
  <2>2. Placed'
    BY <1>1 DEF IInv, Placed, ListsUnique
  <2>3. PlanFollows'
    BY <1>1 DEF IInv, PlanFollows, Follows, Remaining, PromptLen
  <2>4. RequestsFit'
    BY <1>1 DEF IInv, RequestsFit, PromptLen
  <2>5. QED
    BY <2>1, <2>2, <2>3, <2>4
<1>3. Good(cache)'
  BY <1>1 DEF IInv, Good, KV!TypedIn, KV!PartitionedIn, KV!CoveredIn
<1>4. QED
  BY <1>2, <1>3 DEF IInv

-----------------------------------------------------------------------------
(* Preemption *)

\* Taking the last entry off a list.
LEMMA LastOut ==
  ASSUME NEW T, NEW s \in Seq(T), s # <<>>, Once(s)
  PROVE  /\ Last(s) \in ToSet(s)
         /\ Front(s) \in Seq(T)
         /\ ToSet(Front(s)) = ToSet(s) \ {Last(s)}
         /\ Once(Front(s))
<1> DEFINE n == Len(s)
           u == SubSeq(s, 1, n - 1)
           x == s[n]
<1>1. n \in Nat /\ n # 0 /\ \A i \in 1 .. n : s[i] \in T
  OBVIOUS
<1>2. u \in Seq(T) /\ Len(u) = n - 1 /\ \A i \in 1 .. n - 1 : u[i] = s[i]
  <2> DEFINE m == n - 1
  <2>1. 1 \in 1 .. Len(s) + 1 /\ m \in 1 - 1 .. Len(s)
    BY <1>1
  <2> HIDE DEF m
  <2>2. /\ SubSeq(s, 1, m) \in Seq(T)
        /\ Len(SubSeq(s, 1, m)) = IF 1 <= m THEN m - 1 + 1 ELSE 0
        /\ \A i \in 1 .. m - 1 + 1 : SubSeq(s, 1, m)[i] = s[1 + i - 1]
    BY <2>1, SubSeqProperties
  <2>3. m \in Nat /\ m - 1 + 1 = m /\ \A i \in 1 .. m : 1 + i - 1 = i
    BY <2>1
  <2> DEFINE v == SubSeq(s, 1, m)
  <2> HIDE DEF v
  <2>4. v \in Seq(T) /\ Len(v) = m /\ \A i \in 1 .. m : v[i] = s[i]
    BY <2>2, <2>3 DEF v
  <2>5. QED
    BY <2>4 DEF m, v
<1>3. ToSet(s) = {s[i] : i \in 1 .. n}
  BY SeqSet
<1> HIDE DEF u
<1>4. ToSet(u) = {u[i] : i \in 1 .. n - 1}
  BY <1>2, SeqSet
<1>5. \A i, j \in 1 .. n : s[i] = s[j] => i = j
  BY DEF Once
<1> HIDE DEF n
<1>6. n \in 1 .. n /\ n \notin 1 .. n - 1 /\ 1 .. n = (1 .. n - 1) \cup {n}
  BY <1>1
<1>7. ToSet(u) = ToSet(s) \ {x}
  BY <1>2, <1>3, <1>4, <1>5, <1>6
<1>8. Once(u)
  BY <1>2, <1>5, <1>6 DEF Once
<1>9. Last(s) = x /\ Front(s) = u
  BY DEF Last, Front, n, u
<1>10. QED
  BY <1>2, <1>3, <1>6, <1>7, <1>8, <1>9

\* What is evicted, and what that leaves.
LEMMA VictimIs ==
  ASSUME IInv, Preempt
  PROVE  LET v == Last(running)
         IN  /\ v \in ToSet(running) /\ v.slot \in Slots /\ v.req \in Reqs /\ v.req < nextId
             /\ running' \in Seq(Items) /\ Unique(running')
             /\ ToSet(running') = ToSet(running) \ {v}
             /\ freeSlots' \in Seq(Slots) /\ Once(freeSlots')
             /\ ToSet(freeSlots') = ToSet(freeSlots) \cup {v.slot}
             /\ waiting' \in Seq(Reqs) /\ Once(waiting')
             /\ ToSet(waiting') = ToSet(waiting) \cup {v.req}
<1> DEFINE v == Last(running)
           r == v.req
           s == v.slot
<1>1. TypeOK /\ Placed
  BY DEF IInv
<1>2. /\ running # <<>> /\ running' = Front(running)
      /\ freeSlots' = Append(freeSlots, s) /\ waiting' = <<r>> \o waiting
  BY DEF Preempt
<1>3. /\ running \in Seq(Items) /\ Unique(running) /\ Once(freeSlots) /\ Once(waiting)
      /\ freeSlots \in Seq(Slots) /\ waiting \in Seq(Reqs) /\ nextId \in Nat
  BY <1>1 DEF TypeOK, Placed, ListsUnique
<1>4. /\ v \in ToSet(running) /\ Front(running) \in Seq(Items)
      /\ ToSet(Front(running)) = ToSet(running) \ {v} /\ Once(Front(running))
  BY <1>2, <1>3, LastOut DEF Unique
<1>5. v \in Items /\ s \in Slots /\ r \in Reqs
  <2>1. ToSet(running) \subseteq Items
    BY <1>3, SeqSet
  <2>2. QED
    BY <1>4, <2>1 DEF Items
<1> HIDE DEF v
<1>6. s \in SlotsIn(ToSet(running)) /\ r \in ReqsIn(ToSet(running))
  BY <1>4 DEF SlotsIn, ReqsIn
<1>7. s \notin ToSet(freeSlots) /\ r \notin ToSet(waiting) /\ r \in 0 .. (nextId - 1)
  BY <1>1, <1>6 DEF Placed, Parts
<1>8. r < nextId
  BY <1>3, <1>7
<1> HIDE DEF r, s
<1>9. /\ running' \in Seq(Items) /\ Unique(running')
      /\ ToSet(running') = ToSet(running) \ {v}
  <2>1. Apart(ToSet(running))
    BY <1>3 DEF Unique
  <2>2. Apart(ToSet(running) \ {v})
    BY <2>1 DEF Apart
  <2>3. QED
    BY <1>2, <1>4, <2>2 DEF Unique
<1>10. /\ freeSlots' \in Seq(Slots) /\ Once(freeSlots')
       /\ ToSet(freeSlots') = ToSet(freeSlots) \cup {s}
  BY <1>2, <1>3, <1>5, <1>7, AppendSet
<1>11. /\ waiting' \in Seq(Reqs) /\ Once(waiting')
       /\ ToSet(waiting') = ToSet(waiting) \cup {r}
  <2> DEFINE w == <<r>>
  <2>1. w \in Seq(Reqs) /\ Len(w) = 1 /\ w[1] = r
    BY <1>5
  <2>2. waiting' = w \o waiting
    BY <1>2
  <2> HIDE DEF w
  <2>3. ToSet(w) = {r} /\ Once(w)
    <3>1. ToSet(w) = {w[i] : i \in 1 .. Len(w)}
      BY <2>1, SeqSet
    <3>2. QED
      BY <2>1, <3>1 DEF Once
  <2>4. Once(w \o waiting)
    BY <1>3, <1>7, <2>1, <2>3, OnceConcat
  <2>5. w \o waiting \in Seq(Reqs) /\ ToSet(w \o waiting) = ToSet(w) \cup ToSet(waiting)
    BY <1>3, <2>1, ConcatSet
  <2>6. QED
    BY <2>2, <2>3, <2>4, <2>5
<1>12. QED
  BY <1>4, <1>5, <1>8, <1>9, <1>10, <1>11 DEF v, s, r

\* _preempt keeps the invariant: the victim goes back to the front of the queue.
LEMMA PreemptKeeps ==
  ASSUME IInv, Preempt
  PROVE  IInv'
<1> DEFINE v == Last(running)
           r == v.req
           s == v.slot
           R == ToSet(running)
           P == ToSet(prefilling)
<1>1. TypeOK /\ Placed /\ PlanFollows /\ RequestsFit /\ Good(cache)
  BY DEF IInv
<1>2. /\ v \in R /\ s \in Slots /\ r \in Reqs /\ r < nextId
      /\ running' \in Seq(Items) /\ Unique(running') /\ ToSet(running') = R \ {v}
      /\ freeSlots' \in Seq(Slots) /\ Once(freeSlots')
      /\ ToSet(freeSlots') = ToSet(freeSlots) \cup {s}
      /\ waiting' \in Seq(Reqs) /\ Once(waiting')
      /\ ToSet(waiting') = ToSet(waiting) \cup {r}
  BY VictimIs
<1>3. /\ cache' = KV!Freed(cache, s)
      /\ held' = [held EXCEPT ![s] = <<>>]
      /\ folded' = [folded EXCEPT ![r] = @ \o outputs[r]]
      /\ outputs' = [outputs EXCEPT ![r] = <<>>]
      /\ computed' = [computed EXCEPT ![r] = 0]
      /\ pc' = "idle" /\ plan' = [decode |-> <<>>, prefill |-> <<>>]
      /\ UNCHANGED <<nextId, nPrompt, maxTokens, prefilling, finished>>
  BY DEF Preempt, EndStep, Refold, requestVars
<1> HIDE DEF v, r, s
<1>4. Good(cache') /\ Good(cache)'
  <2>1. Good(cache')
    BY <1>1, <1>2, <1>3, FreedGood
  <2>2. QED
    BY <2>1 DEF Good, KV!TypedIn, KV!PartitionedIn, KV!CoveredIn
<1>5. TypeOK'
  <2>1. folded' \in [Reqs -> Seq(Token)]
    <3>1. folded \in [Reqs -> Seq(Token)] /\ outputs[r] \in Seq(Token)
      BY <1>1, <1>2 DEF TypeOK
    <3> DEFINE more == folded[r] \o outputs[r]
    <3>2. more \in Seq(Token)
      BY <1>2, <3>1
    <3>3. folded' = [folded EXCEPT ![r] = more]
      BY <1>3
    <3> HIDE DEF more
    <3>4. QED
      BY <1>2, <3>1, <3>2, <3>3
  <2>2. outputs' \in [Reqs -> Seq(Token)] /\ computed' \in [Reqs -> Nat] /\ held' \in [Slots -> Seq(Int)]
    BY <1>1, <1>2, <1>3 DEF TypeOK
  <2>3. cache' \in [lens : [Slots -> Nat], tables : [Slots -> Seq(KV!Pool)], free : Seq(KV!Pool)]
    BY <1>4, GoodTyped
  <2>4. plan' \in [decode : Seq(Items), prefill : Seq([slot : Slots, req : Reqs, chunk : Nat \ {0}])]
    BY <1>3
  <2>5. QED
    BY <1>1, <1>2, <1>3, <2>1, <2>2, <2>3, <2>4 DEF TypeOK
<1>6. /\ Unique(prefilling) /\ Apart(P) /\ Apart(R)
      /\ Parts(ToSet(freeSlots), SlotsIn(P), SlotsIn(R), Slots)
      /\ Parts(ToSet(waiting) \cup Ids(finished), ReqsIn(P), ReqsIn(R), 0 .. (nextId - 1))
      /\ ToSet(waiting) \cap Ids(finished) = {}
      /\ \A f, g \in finished : f.id = g.id => f = g
  BY <1>1 DEF Placed, ListsUnique, Unique
<1> DEFINE V == {v}
           E == {}
           F == ToSet(freeSlots)
           W == ToSet(waiting)
           I == Ids(finished)
           N == 0 .. (nextId - 1)
<1>7. SlotsIn(V) = {s} /\ ReqsIn(V) = {r} /\ SlotsIn(E) = {} /\ ReqsIn(E) = {}
  BY DEF SlotsIn, ReqsIn, s, r
<1> HIDE DEF R, P, F, W, I, N
<1>8. /\ Parts(F \cup {s}, SlotsIn(P), SlotsIn(R \ V), Slots)
      /\ Parts(W \cup I \cup {r}, ReqsIn(P), ReqsIn(R \ V), N)
  <2> DEFINE WI == W \cup I
  <2>0. V \subseteq R \cup E /\ E \subseteq P
    BY <1>2
  <2>1. Parts(F, SlotsIn(P), SlotsIn(R), Slots) /\ Parts(WI, ReqsIn(P), ReqsIn(R), N)
    BY <1>6 DEF F, W, I, N
  <2> HIDE DEF V, E, WI
  <2>2. /\ Parts(F \cup SlotsIn(V) \cup SlotsIn(E), SlotsIn(P \ (E \cup E)),
                 SlotsIn((R \cup E) \ V), Slots)
        /\ Parts(WI \cup ReqsIn(V) \cup ReqsIn(E), ReqsIn(P \ (E \cup E)),
                 ReqsIn((R \cup E) \ V), N)
    <3>1. E = {}
      BY DEF E
    <3>2. QED
      BY <1>6, <2>0, <2>1, <3>1, ItemsMove
  <2>3. P \ (E \cup E) = P /\ (R \cup E) \ V = R \ V
    BY DEF E
  <2>4. /\ F \cup SlotsIn(V) \cup SlotsIn(E) = F \cup {s}
        /\ WI \cup ReqsIn(V) \cup ReqsIn(E) = W \cup I \cup {r}
    BY <1>7 DEF WI
  <2>5. QED
    BY <2>2, <2>3, <2>4
<1>9. Placed'
  <2>1. ListsUnique'
    BY <1>2, <1>3, <1>6 DEF ListsUnique
  <2>2. /\ prefilling' = prefilling /\ finished' = finished /\ nextId' = nextId
        /\ ToSet(running') = R \ V /\ ToSet(freeSlots') = F \cup {s}
        /\ ToSet(waiting') = W \cup {r}
    BY <1>2, <1>3 DEF F, W
  <2>3. (W \cup {r}) \cup I = W \cup I \cup {r}
    OBVIOUS
  <2>4. (W \cup {r}) \cap I = {}
    <3>1. r \in ReqsIn(R)
      BY <1>2 DEF ReqsIn, r
    <3>2. QED
      BY <1>6, <3>1 DEF Parts, W, I
  <2> HIDE DEF V
  <2>5. Parts(ToSet(freeSlots'), SlotsIn(ToSet(prefilling')), SlotsIn(ToSet(running')), Slots)
    BY <1>8, <2>2 DEF P
  <2>6. Parts(ToSet(waiting') \cup Ids(finished'), ReqsIn(ToSet(prefilling')),
              ReqsIn(ToSet(running')), 0 .. (nextId' - 1))
    <3>1. Parts((W \cup {r}) \cup I, ReqsIn(P), ReqsIn(R \ V), N)
      BY <1>8, <2>3
    <3>2. 0 .. (nextId' - 1) = N /\ Ids(finished') = I
      BY <2>2 DEF N, I
    <3>3. QED
      BY <2>2, <3>1, <3>2 DEF P
  <2>7. ToSet(waiting') \cap Ids(finished') = {}
    BY <2>2, <2>4 DEF I
  <2>8. \A f, g \in finished' : f.id = g.id => f = g
    BY <1>6, <2>2
  <2>9. QED
    BY <2>1, <2>5, <2>6, <2>7, <2>8 DEF Placed
<1>10. PlanFollows'
  BY <1>3 DEF PlanFollows
<1>11. RequestsFit'
  <2>1. folded \in [Reqs -> Seq(Token)] /\ outputs \in [Reqs -> Seq(Token)] /\ computed \in [Reqs -> Nat]
        /\ nextId \in Nat
    BY <1>1 DEF TypeOK
  <2>2. /\ \A q \in Reqs : q # r => /\ folded'[q] = folded[q] /\ outputs'[q] = outputs[q]
                                    /\ computed'[q] = computed[q]
        /\ outputs'[r] = <<>> /\ computed'[r] = 0
    BY <1>2, <1>3, <2>1
  <2>3. ~(r >= nextId)
    BY <1>2, <2>1, SchedulerAssumption DEF Reqs
  <2>4. \A q \in W : q \in Reqs
    <3>1. waiting \in Seq(Reqs)
      BY <1>1 DEF TypeOK
    <3>2. QED
      BY <3>1, SeqSet DEF W
  <2>5. \A it \in P \cup R : it.req \in Reqs
    <3>1. prefilling \in Seq(Items) /\ running \in Seq(Items)
      BY <1>1 DEF TypeOK
    <3>2. P \subseteq Items /\ R \subseteq Items
      BY <3>1, SeqSet DEF P, R
    <3>3. QED
      BY <3>2 DEF Items
  <2>6. \A it \in P : it.req # r
    <3>1. r \in ReqsIn(R)
      BY <1>2 DEF ReqsIn, r
    <3>2. QED
      BY <1>6, <3>1 DEF Parts, ReqsIn
  <2>7. \A it \in R \ {v} : it.req # r
    BY <1>2, <1>6 DEF Apart, r
  <2>8. /\ \A q \in Reqs : q >= nextId => folded[q] = <<>> /\ outputs[q] = <<>> /\ computed[q] = 0
        /\ \A q \in W : outputs[q] = <<>> /\ computed[q] = 0
        /\ \A it \in P : outputs[it.req] = <<>> /\ computed[it.req] <= PromptLen(it.req)
        /\ \A it \in R : outputs[it.req] # <<>>
    BY <1>1 DEF RequestsFit, W, P, R
  <2>9. \A q \in Reqs : q >= nextId => folded'[q] = <<>> /\ outputs'[q] = <<>> /\ computed'[q] = 0
    BY <2>2, <2>3, <2>8
  <2>10. \A q \in W \cup {r} : outputs'[q] = <<>> /\ computed'[q] = 0
    BY <2>2, <2>4, <2>8
  <2>11. \A it \in P : outputs'[it.req] = <<>> /\ computed'[it.req] <= PromptLen(it.req)'
    <3>1. \A it \in P : PromptLen(it.req)' = PromptLen(it.req)
      BY <1>3, <2>2, <2>5, <2>6 DEF PromptLen
    <3>2. QED
      BY <2>2, <2>5, <2>6, <2>8, <3>1
  <2>12. \A it \in R \ {v} : outputs'[it.req] # <<>>
    BY <2>2, <2>5, <2>7, <2>8
  <2>13. ToSet(waiting') = W \cup {r} /\ ToSet(prefilling') = P /\ ToSet(running') = R \ {v}
         /\ nextId' = nextId
    BY <1>2, <1>3 DEF W, P
  <2>14. QED
    BY <2>9, <2>10, <2>11, <2>12, <2>13 DEF RequestsFit
<1>12. QED
  BY <1>4, <1>5, <1>9, <1>10, <1>11 DEF IInv

-----------------------------------------------------------------------------
(* Planning *)

\* A piece of a sequence without repetition.
LEMMA PieceIs ==
  ASSUME NEW T, NEW s \in Seq(T), NEW a \in 1 .. Len(s) + 1, NEW b \in 0 .. Len(s), Once(s),
         a <= b + 1
  PROVE  /\ SubSeq(s, a, b) \in Seq(T)
         /\ Len(SubSeq(s, a, b)) = b - a + 1
         /\ ToSet(SubSeq(s, a, b)) = {s[i] : i \in a .. b}
         /\ Once(SubSeq(s, a, b))
<1> DEFINE u == SubSeq(s, a, b)
           n == Len(s)
<1>1. n \in Nat /\ a \in Nat /\ b \in Nat /\ a \in Int /\ b \in Int /\ a .. b \subseteq 1 .. n
      /\ \A i \in 1 .. n : s[i] \in T
  OBVIOUS
<1>2. /\ u \in Seq(T)
      /\ Len(u) = IF a <= b THEN b - a + 1 ELSE 0
      /\ \A i \in 1 .. b - a + 1 : u[i] = s[a + i - 1]
  <2>1. \A i \in a .. b : s[i] \in T
    BY <1>1
  <2>2. QED
    BY <1>1, <2>1, SubSeqProperties
<1> HIDE DEF u
<1>3. Len(u) = b - a + 1
  BY <1>1, <1>2
<1>4. ToSet(u) = {u[i] : i \in 1 .. Len(u)}
  BY <1>2, SeqSet
<1>5. \A i \in 1 .. b - a + 1 : a + i - 1 \in a .. b
  BY <1>1
<1>6. \A j \in a .. b : j - a + 1 \in 1 .. b - a + 1 /\ a + (j - a + 1) - 1 = j
  BY <1>1
<1>7. ToSet(u) = {s[i] : i \in a .. b}
  <2>1. \A j \in a .. b : u[j - a + 1] = s[j]
    BY <1>2, <1>6
  <2>2. {s[j] : j \in a .. b} \subseteq ToSet(u)
    BY <1>3, <1>4, <1>6, <2>1
  <2>3. ToSet(u) \subseteq {s[j] : j \in a .. b}
    BY <1>2, <1>3, <1>4, <1>5
  <2>4. QED
    BY <2>2, <2>3
<1>8. Once(u)
  <2>1. SUFFICES ASSUME NEW i \in 1 .. b - a + 1, NEW j \in 1 .. b - a + 1, u[i] = u[j]
                 PROVE  i = j
    BY <1>3 DEF Once
  <2>2. s[a + i - 1] = s[a + j - 1] /\ a + i - 1 \in 1 .. n /\ a + j - 1 \in 1 .. n
    BY <1>1, <1>2, <1>5, <2>1
  <2>3. a + i - 1 = a + j - 1
    BY <2>2 DEF Once
  <2>4. QED
    BY <1>1, <2>3
<1>9. QED
  BY <1>2, <1>3, <1>7, <1>8 DEF u

\* How many waiting requests join.
Room == IF MaxPrefillBatch - Len(prefilling) > 0 THEN MaxPrefillBatch - Len(prefilling) ELSE 0

\* Planning admits no more requests than wait, than slots are free, and than
\* the batch has room for, and no fewer than are admissible.
LEMMA CountIs ==
  ASSUME TypeOK
  PROVE  /\ PlannedPrefillCount \in Nat
         /\ PlannedPrefillCount <= Len(waiting)
         /\ PlannedPrefillCount <= Len(freeSlots)
         /\ PlannedPrefillCount <= Room
         /\ Admissible(PlannedPrefillCount)
         /\ \A n \in Nat : n <= Len(waiting) /\ n <= Len(freeSlots) /\ n <= Room /\ Admissible(n)
                           => n <= PlannedPrefillCount
<1> DEFINE all   == {Len(waiting), Len(freeSlots), Room}
           limit == Min(all)
           S     == {n \in 0 .. limit : Admissible(n)}
<1>1. Len(waiting) \in Nat /\ Len(freeSlots) \in Nat /\ Room \in Nat
  <2>1. waiting \in Seq(Reqs) /\ freeSlots \in Seq(Slots) /\ prefilling \in Seq(Items)
    BY DEF TypeOK
  <2>2. Len(waiting) \in Nat /\ Len(freeSlots) \in Nat /\ Len(prefilling) \in Nat
    BY <2>1
  <2>3. MaxPrefillBatch \in Int
    BY SchedulerAssumption
  <2>4. QED
    BY <2>2, <2>3 DEF Room
<1>2. limit \in all /\ \A y \in all : limit <= y
  <2>1. all \in SUBSET Nat /\ Room \in all
    BY <1>1
  <2> HIDE DEF all
  <2>2. QED
    BY <2>1, MinIs
<1>3. limit \in Nat /\ limit <= Len(waiting) /\ limit <= Len(freeSlots) /\ limit <= Room
  BY <1>1, <1>2
<1>4. PlannedPrefillCount = Max(S)
  BY DEF PlannedPrefillCount, Room
<1> HIDE DEF limit
<1>5. 0 \in S /\ S \in SUBSET (0 .. limit)
  <2>1. Admissible(0)
    BY DEF Admissible
  <2>2. 0 \in 0 .. limit
    BY <1>3
  <2>3. QED
    BY <2>1, <2>2
<1> HIDE DEF S
<1>6. Max(S) \in S /\ \A y \in S : Max(S) >= y
  BY <1>3, <1>5, MaxIs
<1>7. Max(S) \in 0 .. limit /\ Admissible(Max(S))
  BY <1>6 DEF S
<1>8. ASSUME NEW n \in Nat, n <= Len(waiting), n <= Len(freeSlots), n <= Room, Admissible(n)
      PROVE  n <= Max(S)
  <2>1. limit = Len(waiting) \/ limit = Len(freeSlots) \/ limit = Room
    BY <1>2
  <2>2. n \in 0 .. limit
    BY <1>1, <1>3, <1>8, <2>1
  <2>3. n \in S
    BY <1>8, <2>2 DEF S
  <2>4. Max(S) >= n /\ Max(S) \in Nat
    BY <1>6, <1>7, <2>3
  <2>5. QED
    BY <2>4
<1>9. QED
  BY <1>1, <1>3, <1>4, <1>7, <1>8

\* The items of the first waiting requests, each with a slot off the free list.
JoinedBy(count) ==
  [i \in 1 .. count |-> [slot |-> freeSlots[Len(freeSlots) - i + 1], req |-> waiting[i]]]

\* They take the last free slots, in the order they wait.
LEMMA JoinedIs ==
  ASSUME TypeOK, Placed, NEW count \in Nat, count <= Len(waiting), count <= Len(freeSlots)
  PROVE  LET joined == JoinedBy(count)
             left   == SubSeq(waiting, count + 1, Len(waiting))
             free   == SubSeq(freeSlots, 1, Len(freeSlots) - count)
         IN  /\ joined \in Seq(Items) /\ Len(joined) = count /\ Unique(joined)
             /\ left \in Seq(Reqs) /\ Once(left)
             /\ ToSet(left) \cap ReqsIn(ToSet(joined)) = {}
             /\ ToSet(left) \cup ReqsIn(ToSet(joined)) = ToSet(waiting)
             /\ free \in Seq(Slots) /\ Once(free)
             /\ ToSet(free) \cap SlotsIn(ToSet(joined)) = {}
             /\ ToSet(free) \cup SlotsIn(ToSet(joined)) = ToSet(freeSlots)
<1> DEFINE joined == JoinedBy(count)
           left   == SubSeq(waiting, count + 1, Len(waiting))
           free   == SubSeq(freeSlots, 1, Len(freeSlots) - count)
           w == Len(waiting)
           m == Len(freeSlots)
<1>1. /\ waiting \in Seq(Reqs) /\ freeSlots \in Seq(Slots)
      /\ Once(waiting) /\ Once(freeSlots)
  BY DEF TypeOK, Placed, ListsUnique
<1>2. /\ w \in Nat /\ m \in Nat /\ count <= w /\ count <= m
      /\ \A i \in 1 .. w : waiting[i] \in Reqs
      /\ \A i \in 1 .. m : freeSlots[i] \in Slots
  BY <1>1
<1>3. ToSet(waiting) = {waiting[i] : i \in 1 .. w} /\ ToSet(freeSlots) = {freeSlots[i] : i \in 1 .. m}
  BY <1>1, SeqSet
<1>4. /\ \A i, j \in 1 .. w : waiting[i] = waiting[j] => i = j
      /\ \A i, j \in 1 .. m : freeSlots[i] = freeSlots[j] => i = j
  BY <1>1 DEF Once
<1>5. /\ left \in Seq(Reqs) /\ Once(left)
      /\ ToSet(left) = {waiting[i] : i \in count + 1 .. w}
  <2>1. count + 1 \in 1 .. Len(waiting) + 1 /\ w \in 0 .. Len(waiting) /\ count + 1 <= w + 1
    BY <1>2
  <2>2. QED
    BY <1>1, <2>1, PieceIs
<1>6. /\ free \in Seq(Slots) /\ Once(free)
      /\ ToSet(free) = {freeSlots[i] : i \in 1 .. m - count}
  <2>1. 1 \in 1 .. Len(freeSlots) + 1 /\ m - count \in 0 .. Len(freeSlots) /\ 1 <= m - count + 1
    BY <1>2
  <2>2. QED
    BY <1>1, <2>1, PieceIs
<1> HIDE DEF left, free, w, m
<1>7. \A i \in 1 .. count : i \in 1 .. w /\ m - i + 1 \in 1 .. m
  BY <1>2
<1> DEFINE item(i) == [slot |-> freeSlots[m - i + 1], req |-> waiting[i]]
<1>8. \A i \in 1 .. count : item(i) \in Items
  BY <1>2, <1>7 DEF Items
<1>9. joined = [i \in 1 .. count |-> item(i)]
  BY DEF JoinedBy, m
<1>9a. \A i \in 1 .. count : item(i).slot = freeSlots[m - i + 1] /\ item(i).req = waiting[i]
  OBVIOUS
<1> HIDE DEF joined, item
<1>10. joined \in Seq(Items) /\ Len(joined) = count /\ \A i \in 1 .. count : joined[i] = item(i)
  BY <1>8, <1>9
<1>11. ToSet(joined) = {joined[i] : i \in 1 .. count}
  BY <1>10, SeqSet
<1>12. \A i \in 1 .. count : joined[i].slot = freeSlots[m - i + 1] /\ joined[i].req = waiting[i]
  BY <1>9a, <1>10
<1>13. ASSUME NEW i \in 1 .. count, NEW j \in 1 .. count,
              joined[i].slot = joined[j].slot \/ joined[i].req = joined[j].req
       PROVE  i = j
  <2>1. waiting[i] = waiting[j] => i = j
    BY <1>4, <1>7
  <2>2. freeSlots[m - i + 1] = freeSlots[m - j + 1] => m - i + 1 = m - j + 1
    BY <1>4, <1>7
  <2>3. m - i + 1 = m - j + 1 => i = j
    BY <1>2
  <2>4. QED
    BY <1>12, <1>13, <2>1, <2>2, <2>3
<1>14. Unique(joined)
  <2>1. Once(joined)
    BY <1>10, <1>13 DEF Once
  <2>2. Apart(ToSet(joined))
    BY <1>11, <1>13 DEF Apart
  <2>3. QED
    BY <2>1, <2>2 DEF Unique
<1>15. ReqsIn(ToSet(joined)) = {waiting[i] : i \in 1 .. count}
  BY <1>11, <1>12 DEF ReqsIn
<1>16. SlotsIn(ToSet(joined)) = {freeSlots[i] : i \in m - count + 1 .. m}
  <2>1. SlotsIn(ToSet(joined)) = {freeSlots[m - i + 1] : i \in 1 .. count}
    BY <1>11, <1>12 DEF SlotsIn
  <2>2. \A i \in 1 .. count : m - i + 1 \in m - count + 1 .. m
    BY <1>2
  <2>3. \A j \in m - count + 1 .. m : m - j + 1 \in 1 .. count /\ m - (m - j + 1) + 1 = j
    BY <1>2
  <2>4. \A x \in {freeSlots[m - i + 1] : i \in 1 .. count} :
          x \in {freeSlots[i] : i \in m - count + 1 .. m}
    BY <2>2
  <2>5. ASSUME NEW j \in m - count + 1 .. m
        PROVE  freeSlots[j] \in {freeSlots[m - i + 1] : i \in 1 .. count}
    <3> DEFINE i == m - j + 1
    <3>1. i \in 1 .. count /\ m - i + 1 = j
      BY <2>3
    <3> HIDE DEF i
    <3>2. QED
      BY <3>1
  <2>6. QED
    BY <2>1, <2>4, <2>5
<1>17. /\ 1 .. w = (1 .. count) \cup (count + 1 .. w) /\ (1 .. count) \cap (count + 1 .. w) = {}
       /\ 1 .. m = (1 .. m - count) \cup (m - count + 1 .. m)
       /\ (1 .. m - count) \cap (m - count + 1 .. m) = {}
  BY <1>2
<1>18. /\ ToSet(left) \cap ReqsIn(ToSet(joined)) = {}
       /\ ToSet(left) \cup ReqsIn(ToSet(joined)) = ToSet(waiting)
  BY <1>3, <1>4, <1>5, <1>15, <1>17
<1>19. /\ ToSet(free) \cap SlotsIn(ToSet(joined)) = {}
       /\ ToSet(free) \cup SlotsIn(ToSet(joined)) = ToSet(freeSlots)
  BY <1>3, <1>4, <1>6, <1>16, <1>17
<1>20. QED
  BY <1>5, <1>6, <1>10, <1>14, <1>18, <1>19 DEF joined, left, free

\* What is left of the token budget after the decodes, how many requests join, and
\* whether attention pairs are limited.
Tokens   == MaxBatchedTokens - Len(running)
Count    == IF Tokens > 0 THEN PlannedPrefillCount ELSE 0
Limited  == running # <<>> /\ MaxPairs > 0

\* What planning does, with the requests that join.
PlanningIs(count, all) ==
  /\ count \in Nat /\ count <= Len(waiting) /\ count <= Len(freeSlots)
  /\ all = prefilling \o JoinedBy(count)
  /\ waiting' = SubSeq(waiting, count + 1, Len(waiting))
  /\ freeSlots' = SubSeq(freeSlots, 1, Len(freeSlots) - count)
  /\ prefilling' = all
  /\ plan' = [decode |-> running, prefill |-> IF Tokens > 0 THEN PlanChunks(all, Tokens, Limited)
                                                           ELSE <<>>]
  /\ pc = "idle" /\ pc' = "planned"
  /\ UNCHANGED <<nextId, nPrompt, maxTokens, folded, outputs, computed, running, finished, cache, held>>

\* plan_iteration is planning with the requests it counts.
LEMMA PlanIterationIs ==
  ASSUME TypeOK, PlanIteration
  PROVE  PlanningIs(Count, prefilling \o JoinedBy(Count))
<1>1. Count \in Nat /\ Count <= Len(waiting) /\ Count <= Len(freeSlots)
  <2>1. waiting \in Seq(Reqs) /\ freeSlots \in Seq(Slots)
    BY DEF TypeOK
  <2>2. Len(waiting) \in Nat /\ Len(freeSlots) \in Nat
    BY <2>1
  <2>3. QED
    BY <2>2, CountIs DEF Count
<1>2. QED
  BY <1>1 DEF PlanIteration, PlanningIs, Count, Tokens, Limited, JoinedBy, requestVars, tokenVars

\* The prompts under way, with those that join.
AllFit(all) ==
  /\ all \in Seq(Items) /\ Unique(all)
  /\ \A it \in ToSet(all) : /\ it.req \in Reqs /\ it.slot \in Slots
                            /\ outputs[it.req] = <<>>
                            /\ computed[it.req] \in Nat /\ Remaining(it.req) \in Nat
                            /\ computed[it.req] <= PromptLen(it.req)

\* The list it plans over: the prompts under way, then those that join.
LEMMA AllIs ==
  ASSUME IInv, NEW count, NEW all, PlanningIs(count, all)
  PROVE  /\ AllFit(all)
         /\ ToSet(all) = ToSet(prefilling) \cup ToSet(JoinedBy(count))
<1> DEFINE joined == JoinedBy(count)
           P == ToSet(prefilling)
           J == ToSet(joined)
<1>0. TypeOK /\ Placed /\ RequestsFit
  BY DEF IInv
<1>1. /\ joined \in Seq(Items) /\ Unique(joined)
      /\ ReqsIn(J) \subseteq ToSet(waiting) /\ SlotsIn(J) \subseteq ToSet(freeSlots)
  BY <1>0, JoinedIs DEF PlanningIs
<1>2. prefilling \in Seq(Items) /\ Unique(prefilling) /\ all = prefilling \o joined
  BY <1>0 DEF TypeOK, Placed, ListsUnique, PlanningIs
<1>3. /\ ToSet(freeSlots) \cap SlotsIn(P) = {} /\ ToSet(waiting) \cap ReqsIn(P) = {}
  BY <1>0 DEF Placed, Parts
<1> HIDE DEF joined
<1>4. all \in Seq(Items) /\ ToSet(all) = P \cup J /\ Unique(all)
  <2>1. SlotsIn(P) \cap SlotsIn(J) = {} /\ ReqsIn(P) \cap ReqsIn(J) = {}
    BY <1>1, <1>3
  <2>2. QED
    BY <1>1, <1>2, <2>1, ConcatSet, UniqueConcat
<1>5. ToSet(all) \subseteq Items
  BY <1>4, SeqSet
<1>6. ASSUME NEW it \in ToSet(all)
      PROVE  /\ it.req \in Reqs /\ it.slot \in Slots
             /\ outputs[it.req] = <<>>
             /\ computed[it.req] \in Nat /\ Remaining(it.req) \in Nat
             /\ computed[it.req] <= PromptLen(it.req)
  <2>1. it.req \in Reqs /\ it.slot \in Slots
    BY <1>5 DEF Items
  <2>2. computed[it.req] \in Nat /\ PromptLen(it.req) \in Nat
    <3>1. /\ computed \in [Reqs -> Nat] /\ nPrompt \in [Reqs -> Nat]
          /\ folded[it.req] \in Seq(Token)
      BY <1>0, <2>1 DEF TypeOK
    <3>2. Len(folded[it.req]) \in Nat /\ nPrompt[it.req] \in Nat
      BY <2>1, <3>1
    <3>3. QED
      BY <2>1, <3>1, <3>2 DEF PromptLen
  <2>3. outputs[it.req] = <<>> /\ computed[it.req] <= PromptLen(it.req)
    <3>1. CASE it \in P
      BY <1>0, <3>1 DEF RequestsFit
    <3>2. CASE it \in J
      <4>1. it.req \in ToSet(waiting)
        BY <1>1, <3>2 DEF ReqsIn
      <4>2. outputs[it.req] = <<>> /\ computed[it.req] = 0
        BY <1>0, <4>1 DEF RequestsFit
      <4>3. QED
        BY <2>2, <4>2
    <3>3. QED
      BY <1>4, <3>1, <3>2
  <2>4. Remaining(it.req) \in Nat
    BY <2>2, <2>3 DEF Remaining
  <2>5. QED
    BY <2>1, <2>2, <2>3, <2>4
<1>7. QED
  BY <1>4, <1>6 DEF AllFit, joined

\* The plan it makes follows that list.
LEMMA PlanPrefillIs ==
  ASSUME IInv, NEW count, NEW all, PlanningIs(count, all)
  PROVE  /\ plan'.prefill \in Seq(Chunks)
         /\ Unique(plan'.prefill)
         /\ Follows(plan'.prefill, all, Len(all))
         /\ plan'.decode = running
<1>1. plan' = [decode |-> running, prefill |-> IF Tokens > 0 THEN PlanChunks(all, Tokens, Limited)
                                                            ELSE <<>>]
  BY DEF PlanningIs
<1>2. AllFit(all)
  BY AllIs
<1>3. CASE Tokens > 0
  <2>1. Tokens \in Nat /\ Limited \in BOOLEAN
    <3>1. running \in Seq(Items)
      BY DEF IInv, TypeOK
    <3>2. Len(running) \in Nat /\ MaxBatchedTokens \in Nat
      BY <3>1, SchedulerAssumption
    <3>3. QED
      BY <1>3, <3>2 DEF Tokens, Limited
  <2> DEFINE chosen == PlanChunks(all, Tokens, Limited)
  <2>2. chosen \in Seq(Chunks) /\ Unique(chosen) /\ Follows(chosen, all, Len(all))
    BY <1>2, <2>1, PlanChunksFollow DEF AllFit
  <2> HIDE DEF chosen
  <2>3. plan'.prefill = chosen /\ plan'.decode = running
    BY <1>1, <1>3 DEF chosen
  <2>4. QED
    BY <2>2, <2>3
<1>4. CASE ~(Tokens > 0)
  <2>1. plan'.prefill = <<>> /\ plan'.decode = running
    BY <1>1, <1>4
  <2>2. <<>> \in Seq(Chunks) /\ Unique(<<>>) /\ ToSet(<<>>) = {}
    BY NoItems
  <2>3. QED
    BY <2>1, <2>2 DEF Follows
<1>5. QED
  BY <1>3, <1>4

\* plan_iteration keeps the invariant.
LEMMA PlanIterationKeeps ==
  ASSUME IInv, PlanIteration
  PROVE  IInv'
<1> DEFINE count  == Count
           joined == JoinedBy(count)
           all    == prefilling \o joined
           P == ToSet(prefilling)
           J == ToSet(joined)
           R == ToSet(running)
           F == ToSet(freeSlots)
           W == ToSet(waiting)
           I == Ids(finished)
           N == 0 .. (nextId - 1)
<1>0. TypeOK /\ Placed /\ PlanFollows /\ RequestsFit /\ Good(cache)
  BY DEF IInv
<1>1. PlanningIs(count, all)
  BY <1>0, PlanIterationIs
<1> HIDE DEF count
<1>2. /\ count \in Nat /\ count <= Len(waiting) /\ count <= Len(freeSlots)
      /\ waiting' = SubSeq(waiting, count + 1, Len(waiting))
      /\ freeSlots' = SubSeq(freeSlots, 1, Len(freeSlots) - count)
      /\ prefilling' = all
      /\ pc' = "planned"
      /\ UNCHANGED <<nextId, nPrompt, maxTokens, folded, outputs, computed, running, finished,
                     cache, held>>
  BY <1>1 DEF PlanningIs
<1>3. /\ ToSet(waiting') \cap ReqsIn(J) = {} /\ ToSet(waiting') \cup ReqsIn(J) = W
      /\ ToSet(freeSlots') \cap SlotsIn(J) = {} /\ ToSet(freeSlots') \cup SlotsIn(J) = F
      /\ waiting' \in Seq(Reqs) /\ Once(waiting')
      /\ freeSlots' \in Seq(Slots) /\ Once(freeSlots')
  BY <1>0, <1>2, JoinedIs
<1>4. AllFit(all) /\ ToSet(all) = P \cup J
  BY <1>1, AllIs
<1>5. /\ plan'.prefill \in Seq(Chunks) /\ Unique(plan'.prefill)
      /\ Follows(plan'.prefill, all, Len(all)) /\ plan'.decode = running
  BY <1>1, PlanPrefillIs
<1>6. plan' = [decode |-> running, prefill |-> plan'.prefill]
  BY <1>1 DEF PlanningIs
<1> HIDE DEF joined, all
<1>7. TypeOK'
  <2>1. plan' \in [decode : Seq(Items), prefill : Seq([slot : Slots, req : Reqs, chunk : Nat \ {0}])]
    <3> DEFINE p == plan'.prefill
    <3>1. p \in Seq(Chunks) /\ running \in Seq(Items)
      BY <1>0, <1>5 DEF TypeOK
    <3>2. plan' = [decode |-> running, prefill |-> p]
      BY <1>6
    <3> HIDE DEF p
    <3>3. QED
      BY <3>1, <3>2 DEF Chunks
  <2>2. prefilling' \in Seq(Items)
    BY <1>2, <1>4 DEF AllFit
  <2>3. QED
    BY <1>0, <1>2, <1>3, <2>1, <2>2 DEF TypeOK
<1>8. Placed'
  <2>1. ListsUnique'
    BY <1>0, <1>2, <1>3, <1>4 DEF AllFit, Placed, ListsUnique
  <2>2. /\ Parts(F, SlotsIn(P), SlotsIn(R), Slots)
        /\ Parts(W \cup I, ReqsIn(P), ReqsIn(R), N)
        /\ W \cap I = {}
        /\ \A f, g \in finished : f.id = g.id => f = g
    BY <1>0 DEF Placed
  <2>3. /\ ToSet(prefilling') = P \cup J /\ running' = running /\ finished' = finished
        /\ nextId' = nextId
    BY <1>2, <1>4
  <2>4. SlotsIn(P \cup J) = SlotsIn(P) \cup SlotsIn(J) /\ ReqsIn(P \cup J) = ReqsIn(P) \cup ReqsIn(J)
    BY JoinedIn
  <2> HIDE DEF P, J, R, F, W, I, N
  <2>5. Parts(ToSet(freeSlots'), SlotsIn(P \cup J), SlotsIn(R), Slots)
    BY <1>3, <2>2, <2>4 DEF Parts
  <2>6. Parts(ToSet(waiting') \cup I, ReqsIn(P \cup J), ReqsIn(R), N)
    <3> DEFINE W2 == ToSet(waiting')
               RJ == ReqsIn(J)
    <3>1. W2 \cap RJ = {} /\ W2 \cup RJ = W
      BY <1>3
    <3> HIDE DEF W2, RJ
    <3>2. Parts(W2 \cup I, ReqsIn(P) \cup RJ, ReqsIn(R), N)
      BY <2>2, <3>1 DEF Parts
    <3>3. QED
      BY <2>4, <3>2 DEF W2, RJ
  <2>7. ToSet(waiting') \cap I = {}
    BY <1>3, <2>2
  <2>8. /\ Parts(ToSet(freeSlots'), SlotsIn(ToSet(prefilling')), SlotsIn(ToSet(running')), Slots)
        /\ Parts(ToSet(waiting') \cup Ids(finished'), ReqsIn(ToSet(prefilling')),
                 ReqsIn(ToSet(running')), 0 .. (nextId' - 1))
        /\ ToSet(waiting') \cap Ids(finished') = {}
    <3>1. R = ToSet(running') /\ I = Ids(finished') /\ N = 0 .. (nextId' - 1)
      BY <2>3 DEF R, I, N
    <3>2. QED
      BY <2>3, <2>5, <2>6, <2>7, <3>1
  <2>9. QED
    BY <2>1, <2>2, <2>3, <2>8 DEF Placed
<1>9. PlanFollows'
  <2>1. /\ plan'.decode = running' /\ Unique(plan'.prefill)
        /\ Follows(plan'.prefill, prefilling', Len(prefilling'))
        /\ pc' = "planned"
    BY <1>2, <1>5
  <2>2. Follows(plan.prefill, prefilling, Len(prefilling))'
    BY <1>2, <2>1 DEF Follows, Remaining, PromptLen
  <2>3. QED
    BY <2>1, <2>2 DEF PlanFollows
<1>10. RequestsFit'
  <2>1. \A r \in ToSet(waiting') : r \in W
    BY <1>3
  <2>2. /\ \A it \in ToSet(prefilling') :
             outputs[it.req] = <<>> /\ computed[it.req] <= PromptLen(it.req)
    BY <1>2, <1>4 DEF AllFit
  <2>3. \A r : PromptLen(r)' = PromptLen(r)
    BY <1>2 DEF PromptLen
  <2>4. QED
    BY <1>0, <1>2, <2>1, <2>2, <2>3 DEF RequestsFit
<1>11. Good(cache)'
  BY <1>0, <1>2 DEF Good, KV!TypedIn, KV!PartitionedIn, KV!CoveredIn
<1>12. QED
  BY <1>7, <1>8, <1>9, <1>10, <1>11 DEF IInv

-----------------------------------------------------------------------------
(* The invariant *)

\* A step that ends with the outcome of a call.
Called == DecodeStep \/ PrefillStep \/ MixedStep \/ TooLongFails \/ ModelFails \/ SamplingFails

\* A call of the model always ends in one of the ways Outcome knows.
LEMMA CallEnds ==
  ASSUME IInv, Called
  PROVE  /\ Planned
         /\ \E c, sampled, started, eos, failed :
              Ending(c, sampled, started, eos, failed) /\ Outcome(c, sampled, started, eos, failed)
<1>1. Planned /\ Good(cache)
  <2>1. pc = "planned"
    BY DEF Called, DecodeStep, PrefillStep, MixedStep, TooLongFails, ModelFails, SamplingFails
  <2>2. QED
    BY <2>1 DEF IInv, Planned
<1>2. QED
  BY <1>1, CallEndings DEF Called

\* Every step keeps the invariant.
LEMMA StepKeeps ==
  ASSUME IInv, [Next]_vars
  PROVE  IInv'
<1>1. ASSUME NEW shape \in Shapes, AddRequest(shape)
      PROVE  IInv'
  BY <1>1, AddRequestKeeps
<1>2. ASSUME Reset
      PROVE  IInv'
  BY <1>2, ResetKeeps
<1>3. ASSUME PlanIteration
      PROVE  IInv'
  BY <1>3, PlanIterationKeeps
<1>4. ASSUME Called
      PROVE  IInv'
  BY <1>4, CallEnds, OutcomeKeeps DEF Planned
<1>5. ASSUME EmptyStep
      PROVE  IInv'
  BY <1>5, EmptyStepKeeps
<1>6. ASSUME Preempt
      PROVE  IInv'
  BY <1>6, PreemptKeeps
<1>7. ASSUME UNCHANGED vars
      PROVE  IInv'
  BY <1>7, StutterKeeps
<1>8. QED
  BY <1>1, <1>2, <1>3, <1>4, <1>5, <1>6, <1>7 DEF Next, Client, Step, Failure, Called

\* The inductive invariant always holds, also across failures, preemption, rollback
\* and reset.
THEOREM AlwaysIInv == Spec => []IInv
<1>1. Init => IInv
  BY FreshIsGood DEF Init, Fresh
<1>2. IInv /\ [Next]_vars => IInv'
  BY StepKeeps
<1>3. QED
  BY <1>1, <1>2, PTL DEF Spec

\* The state keeps the shape the code declares, whatever fails.
THEOREM SchedulerTyped == Spec => []TypeOK
<1>1. IInv => TypeOK
  BY DEF IInv
<1>2. QED
  BY <1>1, AlwaysIInv, PTL

\* The invariant says it in sets, the property in lists.
LEMMA PlacedEach ==
  ASSUME TypeOK, Placed
  PROVE  OnePlaceEach
<1> DEFINE busy   == prefilling \o running
           slots  == freeSlots \o SlotsOf(busy)
           asked  == [i \in 1 .. Len(busy) |-> busy[i].req]
           places == waiting \o asked
           P == ToSet(prefilling)
           R == ToSet(running)
<1>1. /\ prefilling \in Seq(Items) /\ running \in Seq(Items)
      /\ Unique(prefilling) /\ Unique(running)
      /\ freeSlots \in Seq(Slots) /\ Once(freeSlots)
      /\ waiting \in Seq(Reqs) /\ Once(waiting)
  BY DEF TypeOK, Placed, ListsUnique
<1>2. /\ Parts(ToSet(freeSlots), SlotsIn(P), SlotsIn(R), Slots)
      /\ Parts(ToSet(waiting) \cup Ids(finished), ReqsIn(P), ReqsIn(R), 0 .. (nextId - 1))
      /\ ToSet(waiting) \cap Ids(finished) = {}
      /\ \A f, g \in finished : f.id = g.id => f = g
  BY DEF Placed
<1>3. busy \in Seq(Items) /\ ToSet(busy) = P \cup R /\ Unique(busy)
  <2>1. SlotsIn(P) \cap SlotsIn(R) = {} /\ ReqsIn(P) \cap ReqsIn(R) = {}
    BY <1>2 DEF Parts
  <2>2. QED
    BY <1>1, <2>1, ConcatSet, UniqueConcat
<1>4. SlotsIn(P \cup R) = SlotsIn(P) \cup SlotsIn(R) /\ ReqsIn(P \cup R) = ReqsIn(P) \cup ReqsIn(R)
  BY JoinedIn
<1>5. \A it \in Items : it.slot \in Slots /\ it.req \in Reqs
  BY DEF Items
<1> HIDE DEF busy, P, R
<1>6. SlotsOf(busy) \in Seq(Slots) /\ ToSet(SlotsOf(busy)) = SlotsIn(P) \cup SlotsIn(R)
      /\ Once(SlotsOf(busy))
  BY <1>3, <1>4, <1>5, SlotsOfItems
<1>7. asked \in Seq(Reqs) /\ ToSet(asked) = ReqsIn(P) \cup ReqsIn(R) /\ Once(asked)
  BY <1>3, <1>4, <1>5, ReqsOfItems
<1> HIDE DEF asked
<1>8. slots \in Seq(Slots) /\ ToSet(slots) = Slots /\ Once(slots)
  <2> DEFINE own == SlotsOf(busy)
  <2>1. own \in Seq(Slots) /\ ToSet(own) = SlotsIn(P) \cup SlotsIn(R) /\ Once(own)
    BY <1>6
  <2>2. ToSet(freeSlots) \cap ToSet(own) = {} /\ ToSet(freeSlots) \cup ToSet(own) = Slots
    BY <1>2, <2>1 DEF Parts
  <2> HIDE DEF own
  <2>3. /\ freeSlots \o own \in Seq(Slots) /\ Once(freeSlots \o own)
        /\ ToSet(freeSlots \o own) = ToSet(freeSlots) \cup ToSet(own)
    BY <1>1, <2>1, <2>2, ConcatSet, OnceConcat
  <2>4. QED
    BY <2>2, <2>3 DEF own
<1>9. /\ places \in Seq(Reqs) /\ Once(places)
      /\ ToSet(places) = ToSet(waiting) \cup ReqsIn(P) \cup ReqsIn(R)
  <2>1. ToSet(waiting) \cap ToSet(asked) = {}
    BY <1>2, <1>7 DEF Parts
  <2>2. QED
    BY <1>1, <1>7, <2>1, ConcatSet, OnceConcat
<1>10. /\ ToSet(places) \cap Ids(finished) = {}
       /\ ToSet(places) \cup Ids(finished) = 0 .. (nextId - 1)
  BY <1>2, <1>9 DEF Parts
<1> HIDE DEF slots, places
<1>11. IsInjective(slots)
  BY <1>8 DEF Once, IsInjective
<1>12. IsInjective(places)
  BY <1>9 DEF Once, IsInjective
<1>13. QED
  BY <1>2, <1>8, <1>10, <1>11, <1>12 DEF OnePlaceEach, slots, places, asked, busy, Ids

\* Every slot is free or serves one request, and every request is in exactly one of
\* waiting, prefilling, running and finished: _preempt, a rollback, a failed step and
\* finishing never lose or double one.
THEOREM SlotsAndRequestsInOnePlace == Spec => []OnePlaceEach
<1>1. IInv => OnePlaceEach
  BY PlacedEach DEF IInv
<1>2. QED
  BY <1>1, AlwaysIInv, PTL

\* Whatever ends a step, every page is free once or in one place of one table: admission,
\* eviction, truncation and rollback never leak or share a page.
THEOREM SchedulerPagesAccounted == Spec => []PagesAccountedFor
<1>1. IInv => PagesAccountedFor
  BY DEF IInv, Good, PagesAccountedFor, KV!PagesPartitioned, KV!TablesCoverLengths
<1>2. QED
  BY <1>1, AlwaysIInv, PTL

-----------------------------------------------------------------------------
(* What a request has generated *)

\* Agreeing up to its length makes a sequence a prefix.
LEMMA PrefixIs ==
  ASSUME NEW T, NEW s \in Seq(T), NEW t \in Seq(T), Len(s) <= Len(t),
         \A i \in 1 .. Len(s) : s[i] = t[i]
  PROVE  IsPrefix(s, t)
<1> DEFINE n == Len(s)
           u == SubSeq(s, 1, n)
           v == SubSeq(t, 1, n)
<1>1. n \in Nat /\ n \in Int /\ 1 \in Int /\ Len(t) \in Nat /\ n <= Len(t)
      /\ 1 .. n - 1 + 1 = 1 .. n /\ (IF 1 <= n THEN n - 1 + 1 ELSE 0) = n
  OBVIOUS
<1>2. (\A i \in 1 .. n : s[i] \in T) /\ (\A i \in 1 .. n : t[i] \in T)
  BY <1>1
<1>3. /\ u \in Seq(T) /\ Len(u) = n /\ \A i \in 1 .. n : u[i] = s[1 + i - 1]
  BY <1>1, <1>2, SubSeqProperties
<1>4. /\ v \in Seq(T) /\ Len(v) = n /\ \A i \in 1 .. n : v[i] = t[1 + i - 1]
  <2> HIDE DEF n
  <2>1. /\ SubSeq(t, 1, n) \in Seq(T)
        /\ Len(SubSeq(t, 1, n)) = IF 1 <= n THEN n - 1 + 1 ELSE 0
        /\ \A i \in 1 .. n - 1 + 1 : SubSeq(t, 1, n)[i] = t[1 + i - 1]
    BY <1>1, <1>2, SubSeqProperties
  <2>2. QED
    BY <1>1, <2>1
<1> HIDE DEF u, v
<1>5. \A i \in 1 .. n : u[i] = v[i]
  <2>1. \A i \in 1 .. n : 1 + i - 1 = i
    BY <1>1
  <2>2. QED
    BY <1>3, <1>4, <2>1
<1>6. u = v
  BY <1>3, <1>4, <1>5, SeqEqual
<1>7. QED
  BY <1>1, <1>6 DEF IsPrefix, u, v

\* The same output, or one more token.
Extends(s, t) == s = t \/ \E x \in Token : t = Append(s, x)

\* What a request has said so far is a prefix of what it says then.
LEMMA LongerExtends ==
  ASSUME NEW f \in Seq(Token), NEW s \in Seq(Token), NEW t, Extends(s, t)
  PROVE  IsPrefix(f \o s, f \o t)
<1> DEFINE a == f \o s
           m == Len(f)
           n == Len(s)
<1>1. /\ m \in Nat /\ n \in Nat /\ a \in Seq(Token) /\ Len(a) = m + n
      /\ \A i \in 1 .. m : a[i] = f[i]
      /\ \A i \in m + 1 .. m + n : a[i] = s[i - m]
  <2>1. m \in Nat /\ n \in Nat
    OBVIOUS
  <2>2. QED
    BY <2>1, ConcatSet
<1> HIDE DEF a
<1>2. CASE s = t
  <2>1. IsPrefix(a, a)
    BY <1>1, PrefixIs
  <2>2. QED
    BY <1>2, <2>1 DEF a
<1>3. CASE s # t
  <2>1. PICK x \in Token : t = Append(s, x)
    BY <1>3 DEF Extends
  <2>2. /\ t \in Seq(Token) /\ Len(t) = n + 1 /\ \A i \in 1 .. n : t[i] = s[i]
    BY <1>1, <2>1
  <2> DEFINE b == f \o t
  <2>3. /\ b \in Seq(Token) /\ Len(b) = m + Len(t)
        /\ \A i \in 1 .. m : b[i] = f[i]
        /\ \A i \in m + 1 .. m + Len(t) : b[i] = t[i - m]
    BY <2>2, ConcatSet
  <2> HIDE DEF b, m, n
  <2>4. \A i \in 1 .. m + n : i \in 1 .. m \/ (/\ i \in m + 1 .. m + n /\ i - m \in 1 .. n
                                              /\ i \in m + 1 .. m + (n + 1))
    BY <1>1
  <2>5. \A i \in 1 .. m + n : a[i] = b[i]
    BY <1>1, <2>2, <2>3, <2>4
  <2>6. Len(a) <= Len(b) /\ \A i \in 1 .. Len(a) : a[i] = b[i]
    BY <1>1, <2>2, <2>3, <2>5
  <2>7. IsPrefix(a, b)
    BY <1>1, <2>3, <2>6, PrefixIs
  <2>8. QED
    BY <2>7 DEF a, b
<1>4. QED
  BY <1>2, <1>3

\* An answer is what was delivered, or what has been generated so far.
OneEach(fin) == \A f, g \in fin : f.id = g.id => f = g

\* What a request says is its answer once it has one ...
LEMMA OutputDelivered ==
  ASSUME NEW r, NEW fold, NEW out, NEW fin, NEW f, f \in fin, OneEach(fin), f.id = r
  PROVE  OutputOf(r, fold, out, fin) = f.out
<1> DEFINE own == {g \in fin : g.id = r}
<1>1. OutputOf(r, fold, out, fin)
        = IF own = {} THEN fold[r] \o out[r] ELSE (CHOOSE g \in own : TRUE).out
  BY DEF OutputOf
<1>2. own = {f}
  BY DEF OneEach
<1> HIDE DEF own
<1>3. (CHOOSE g \in {f} : TRUE) = f
  OBVIOUS
<1>4. QED
  BY <1>1, <1>2, <1>3

\* ... also after the step ...
LEMMA OutputDeliveredNow ==
  ASSUME NEW r, NEW f, f \in finished', OneEach(finished'), f.id = r
  PROVE  OutputOf(r, folded', outputs', finished') = f.out
BY OutputDelivered

\* ... and until then what was folded into its prompt and what came since.
LEMMA OutputPending ==
  ASSUME NEW r, NEW fold, NEW out, NEW fin, r \notin Ids(fin)
  PROVE  OutputOf(r, fold, out, fin) = fold[r] \o out[r]
<1> DEFINE own == {g \in fin : g.id = r}
<1>1. OutputOf(r, fold, out, fin)
        = IF own = {} THEN fold[r] \o out[r] ELSE (CHOOSE g \in own : TRUE).out
  BY DEF OutputOf
<1>2. own = {}
  BY DEF Ids
<1> HIDE DEF own
<1>3. QED
  BY <1>1, <1>2

\* What was said of each request is a beginning of what is said now.
SaidGrows ==
  \A r \in Reqs : IsPrefix(OutputOf(r, folded, outputs, finished),
                           OutputOf(r, folded', outputs', finished'))

\* Every answer stays; the others are what they were, or longer.
LEMMA SaidGrowsWhen ==
  ASSUME TypeOK, Placed, Placed', finished \subseteq finished',
         \A r \in Reqs : r \notin Ids(finished) =>
           \E t : /\ Extends(outputs[r], t)
                  /\ OutputOf(r, folded', outputs', finished') = folded[r] \o t
  PROVE  SaidGrows
<1>1. OneEach(finished) /\ OneEach(finished')
  BY DEF Placed, OneEach
<1>2. SUFFICES ASSUME NEW r \in Reqs
               PROVE  IsPrefix(OutputOf(r, folded, outputs, finished),
                               OutputOf(r, folded', outputs', finished'))
  BY DEF SaidGrows
<1>3. folded[r] \in Seq(Token) /\ outputs[r] \in Seq(Token)
  BY DEF TypeOK
<1>4. CASE r \in Ids(finished)
  <2>1. PICK f \in finished : f.id = r
    BY <1>4 DEF Ids
  <2>2. OutputOf(r, folded, outputs, finished) = f.out
    BY <1>1, <2>1, OutputDelivered
  <2>3. OutputOf(r, folded', outputs', finished') = f.out
    <3>1. f \in finished'
      OBVIOUS
    <3>2. QED
      BY <1>1, <2>1, <3>1, OutputDeliveredNow
  <2>4. f.out \in Seq(Token)
    BY DEF TypeOK
  <2>5. \A i \in 1 .. Len(f.out) : f.out[i] = f.out[i]
    OBVIOUS
  <2>6. IsPrefix(f.out, f.out)
    <3> DEFINE o == f.out
    <3>1. o \in Seq(Token)
      BY <2>4
    <3> HIDE DEF o
    <3>2. Len(o) <= Len(o)
      BY <3>1
    <3>3. IsPrefix(o, o)
      BY <3>1, <3>2, PrefixIs
    <3>4. QED
      BY <3>3 DEF o
  <2>7. QED
    BY <2>2, <2>3, <2>6
<1>5. CASE r \notin Ids(finished)
  <2>1. OutputOf(r, folded, outputs, finished) = folded[r] \o outputs[r]
    BY <1>5, OutputPending
  <2>2. PICK t : /\ Extends(outputs[r], t)
                 /\ OutputOf(r, folded', outputs', finished') = folded[r] \o t
    BY <1>5
  <2>3. IsPrefix(folded[r] \o outputs[r], folded[r] \o t)
    BY <1>3, <2>2, LongerExtends
  <2>4. QED
    BY <2>1, <2>2, <2>3
<1>6. QED
  BY <1>4, <1>5

\* A call only adds to what requests say.
LEMMA OutcomeSays ==
  ASSUME IInv, pc = "planned", NEW c, NEW sampled, NEW started, NEW eos, NEW failed,
         Ending(c, sampled, started, eos, failed), Outcome(c, sampled, started, eos, failed)
  PROVE  SaidGrows
<1> DEFINE longer == LongerOf(sampled, eos)
           done   == DoneOf(sampled, eos)
           undone == UndoneOf(failed)
           gone   == ReqsIn(ToSet(done))
<1>0. Planned /\ IInv'
  BY OutcomeKeeps DEF IInv, Planned
<1>1. Result(c, started, failed, longer, done, undone)
  BY OutcomeResult DEF Ending
<1>2. LongerFits(sampled, eos, longer)
  BY <1>0, LongerIs
<1>3. /\ outputs' = [r \in Reqs |-> IF r \in gone THEN <<>> ELSE longer[r]]
      /\ folded' = [r \in Reqs |-> IF r \in gone THEN <<>> ELSE folded[r]]
      /\ finished' = finished \cup {[id |-> r, out |-> folded[r] \o longer[r]] : r \in gone}
  BY <1>1 DEF Result
<1> HIDE DEF longer, done, undone
<1>4. ASSUME NEW r \in Reqs
      PROVE  Extends(outputs[r], longer[r])
  <2>1. CASE r \in ReqsIn(ToSet(sampled))
    <3>1. PICK it \in ToSet(sampled) : r = it.req
      BY <2>1 DEF ReqsIn
    <3> DEFINE token == [at |-> Predict(Written[it.slot]), eos |-> eos[it.slot]]
    <3>2. longer[r] = Append(outputs[r], token) /\ token \in Token
      BY <1>2, <3>1 DEF LongerFits
    <3> HIDE DEF token
    <3>3. QED
      BY <3>2 DEF Extends
  <2>2. CASE r \notin ReqsIn(ToSet(sampled))
    BY <1>2, <2>2 DEF LongerFits, Extends
  <2>3. QED
    BY <2>1, <2>2
<1>5. ASSUME NEW r \in Reqs, r \notin Ids(finished)
      PROVE  OutputOf(r, folded', outputs', finished') = folded[r] \o longer[r]
  <2> DEFINE fold == folded'
             out  == outputs'
             fin  == finished'
             Answer(q) == [id |-> q, out |-> folded[q] \o longer[q]]
  <2>1. OneEach(fin)
    BY <1>0 DEF IInv, Placed, OneEach
  <2>2. fin = finished \cup {Answer(q) : q \in gone}
    BY <1>3
  <2>3. \A q : Answer(q).id = q /\ Answer(q).out = folded[q] \o longer[q]
    OBVIOUS
  <2>4. r \notin gone => fold[r] = folded[r] /\ out[r] = longer[r]
    BY <1>3
  <2> HIDE DEF fold, out, fin, Answer
  <2>5. CASE r \in gone
    <3>1. Answer(r) \in fin
      BY <2>2, <2>5
    <3> DEFINE f == Answer(r)
    <3>2. f \in finished' /\ f.id = r /\ f.out = folded[r] \o longer[r] /\ OneEach(finished')
      BY <2>1, <2>3, <3>1 DEF fin
    <3> HIDE DEF f
    <3>3. OutputOf(r, folded', outputs', finished') = f.out
      BY <3>2, OutputDeliveredNow
    <3>4. QED
      BY <3>2, <3>3
  <2>6. CASE r \notin gone
    <3>1. r \notin Ids(fin)
      BY <1>5, <2>2, <2>3, <2>6 DEF Ids
    <3>2. OutputOf(r, fold, out, fin) = fold[r] \o out[r]
      BY <3>1, OutputPending
    <3>3. QED
      BY <2>4, <2>6, <3>2 DEF fold, out, fin
  <2>7. QED
    BY <2>5, <2>6
<1>6. TypeOK /\ Placed /\ Placed' /\ finished \subseteq finished'
  BY <1>0, <1>3 DEF IInv
<1>7. QED
  BY <1>4, <1>5, <1>6, SaidGrowsWhen

\* When no answer is delivered.
LEMMA StillSays ==
  ASSUME IInv, IInv', finished' = finished,
         \A r \in Reqs : folded'[r] \o outputs'[r] = folded[r] \o outputs[r]
  PROVE  SaidGrows
<1>1. TypeOK /\ Placed /\ Placed' /\ finished \subseteq finished'
  BY DEF IInv
<1>3. ASSUME NEW r \in Reqs, r \notin Ids(finished)
      PROVE  OutputOf(r, folded', outputs', finished') = folded[r] \o outputs[r]
  <2> DEFINE fold == folded'
             out  == outputs'
             fin  == finished'
  <2>1. r \notin Ids(fin)
    BY <1>3
  <2>2. fold[r] \o out[r] = folded[r] \o outputs[r]
    OBVIOUS
  <2> HIDE DEF fold, out, fin
  <2>3. OutputOf(r, fold, out, fin) = fold[r] \o out[r]
    BY <2>1, OutputPending
  <2>4. QED
    BY <2>2, <2>3 DEF fold, out, fin
<1>4. \A r \in Reqs : Extends(outputs[r], outputs[r])
  BY DEF Extends
<1>5. QED
  BY <1>1, <1>3, <1>4, SaidGrowsWhen

\* Every step but a reset only adds to what requests say.
LEMMA StepSays ==
  ASSUME IInv, [Next]_vars
  PROVE  nextId' = 0 \/ SaidGrows
<1>0. IInv'
  BY StepKeeps
<1>1. ASSUME UNCHANGED <<folded, outputs, finished>>
      PROVE  SaidGrows
  BY <1>0, <1>1, StillSays
<1>2. ASSUME NEW shape \in Shapes, AddRequest(shape)
      PROVE  SaidGrows
  BY <1>1, <1>2 DEF AddRequest, tokenVars
<1>3. ASSUME PlanIteration \/ EmptyStep \/ UNCHANGED vars
      PROVE  SaidGrows
  BY <1>1, <1>3 DEF PlanIteration, EmptyStep, tokenVars, queueVars, vars
<1>4. ASSUME Called
      PROVE  SaidGrows
  BY <1>4, CallEnds, OutcomeSays DEF Planned
<1>5. ASSUME Preempt
      PROVE  SaidGrows
  <2> DEFINE q == Last(running).req
  <2>1. /\ folded' = [folded EXCEPT ![q] = @ \o outputs[q]]
        /\ outputs' = [outputs EXCEPT ![q] = <<>>]
        /\ finished' = finished
    BY <1>5 DEF Preempt, Refold
  <2>2. folded \in [Reqs -> Seq(Token)] /\ outputs \in [Reqs -> Seq(Token)]
    BY DEF IInv, TypeOK
  <2> HIDE DEF q
  <2>3. ASSUME NEW r \in Reqs
        PROVE  folded'[r] \o outputs'[r] = folded[r] \o outputs[r]
    <3>1. CASE r # q
      BY <2>1, <2>2, <3>1
    <3>2. CASE r = q
      <4> DEFINE more == folded[r] \o outputs[r]
      <4>1. more \in Seq(Token)
        BY <2>2
      <4>2. folded'[r] = more /\ outputs'[r] = <<>>
        BY <2>1, <2>2, <3>2
      <4> HIDE DEF more
      <4>3. more \o <<>> = more
        BY <4>1, ConcatEmptySeq
      <4>4. QED
        BY <4>2, <4>3 DEF more
    <3>3. QED
      BY <3>1, <3>2
  <2>4. QED
    BY <1>0, <2>1, <2>3, StillSays
<1>6. ASSUME Reset
      PROVE  nextId' = 0
  BY <1>6 DEF Reset
<1>7. QED
  BY <1>2, <1>3, <1>4, <1>5, <1>6 DEF Next, Client, Step, Failure, Called

\* Nothing a request has generated is ever lost or changed: not by _preempt, which folds
\* it into the prompt, nor by a rollback, a failed step or finishing.
THEOREM NothingIsLost == Spec => OutputsOnlyGrow
<1>1. IInv /\ [Next]_vars =>
        [nextId' = 0 \/ \A r \in Reqs :
           IsPrefix(OutputOf(r, folded, outputs, finished),
                    OutputOf(r, folded', outputs', finished'))]_vars
  BY StepSays DEF SaidGrows
<1>2. QED
  BY <1>1, AlwaysIInv, PTL DEF Spec, OutputsOnlyGrow

==============================================================================
