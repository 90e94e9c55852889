-------------------------- MODULE PagedKVCacheProofs --------------------------
(***************************************************************************)
(* Proofs about the paged K/V cache, for every number of sequences and     *)
(* pages, every page size and every sequence of operations; and about the  *)
(* pool behind its page tables (PagedForward), at the end of the module.   *)
(***************************************************************************)
EXTENDS PagedForward, FiniteSetTheorems, WellFoundedInduction, TLAPS

-----------------------------------------------------------------------------
(* Arithmetic of pages *)

\* Pages rounds up.
LEMMA PagesRoundsUp ==
  ASSUME NEW n \in Nat
  PROVE  /\ Pages(n) \in Nat
         /\ n <= Pages(n) * BlockSize
         /\ n > (Pages(n) - 1) * BlockSize
<1> DEFINE q == (n - 1) \div BlockSize
           r == (n - 1) % BlockSize
<1>1. BlockSize \in Nat \ {0}
  BY CacheAssumption
<1>2. q \in Int /\ r \in 0 .. (BlockSize - 1) /\ n - 1 = q * BlockSize + r
  BY <1>1
<1>3. q >= -1
  BY <1>1
<1> HIDE DEF q, r
<1>4. (q + 1) * BlockSize = q * BlockSize + BlockSize
  BY <1>1, <1>2
<1>5. q + 1 - 1 = q
  BY <1>2
<1>6. QED
  BY <1>1, <1>2, <1>3, <1>4, <1>5 DEF Pages, q

\* The number of pages that cover n tokens is unique.
LEMMA CoverUnique ==
  ASSUME NEW n \in Nat, NEW k \in Nat, NEW l \in Nat,
         n <= k * BlockSize, n > (l - 1) * BlockSize
  PROVE  l <= k
<1>1. BlockSize \in Nat \ {0}
  BY CacheAssumption
<1>2. SUFFICES ASSUME k <= l - 1
               PROVE  FALSE
  OBVIOUS
<1>3. k * BlockSize <= (l - 1) * BlockSize
  BY <1>1, <1>2
<1>4. k * BlockSize \in Int /\ (l - 1) * BlockSize \in Int
  BY <1>1
<1>5. QED
  BY <1>3, <1>4

\* truncate's number of pages is that of allocate_block.
LEMMA NeededIsPages ==
  ASSUME NEW n \in Nat
  PROVE  (n + BlockSize - 1) \div BlockSize = Pages(n)
<1> DEFINE q == (n - 1) \div BlockSize
<1>1. BlockSize \in Nat \ {0}
  BY CacheAssumption
<1>2. (n - 1 + BlockSize) \div BlockSize = q + 1
  BY <1>1
<1>3. n + BlockSize - 1 = n - 1 + BlockSize
  BY <1>1
<1>4. QED
  BY <1>2, <1>3 DEF Pages

-----------------------------------------------------------------------------
(* How many pages a growth takes, and from where *)

News == [Seqs -> 0 .. MaxSeqLen]
Wanted(c, news, b) == UNION {{a} \X (1 .. Missing(c, news, a)) : a \in 0 .. (b - 1)}

LEMMA MissingNat ==
  ASSUME NEW kv, TypedIn(kv), NEW news \in News, NEW b \in Seqs
  PROVE  Missing(kv, news, b) \in Nat
<1>1. kv.lens[b] + news[b] \in Nat /\ Len(kv.tables[b]) \in Nat
  BY CacheAssumption DEF TypedIn, News
<1>2. Pages(kv.lens[b] + news[b]) \in Nat
  BY <1>1, PagesRoundsUp
<1>3. QED
  BY <1>1, <1>2 DEF Missing

\* The sequences up to b want what those before b want, and what b wants.
LEMMA DemandStep ==
  ASSUME NEW kv, TypedIn(kv), NEW news \in News, NEW b \in Seqs, IsFiniteSet(Wanted(kv, news, b))
  PROVE  /\ IsFiniteSet(Wanted(kv, news, b + 1))
         /\ DemandBefore(kv, news, b) \in Nat
         /\ DemandBefore(kv, news, b + 1)
              = DemandBefore(kv, news, b) + Missing(kv, news, b)
<1> DEFINE W(k) == Wanted(kv, news, k)
           M    == {b} \X (1 .. Missing(kv, news, b))
<1>0. b \in Nat /\ Missing(kv, news, b) \in Nat
  BY MissingNat, CacheAssumption DEF Seqs
<1>1. W(b + 1) = W(b) \cup M
  <2>1. 0 .. (b + 1 - 1) = (0 .. (b - 1)) \cup {b}
    BY <1>0
  <2>2. QED
    BY <2>1 DEF Wanted
<1>2. W(b) \cap M = {}
  <2>1. \A w \in W(b) : w[1] \in 0 .. (b - 1)
    BY DEF Wanted
  <2>2. \A w \in M : w[1] = b
    OBVIOUS
  <2>3. b \notin 0 .. (b - 1)
    BY <1>0
  <2>4. QED
    BY <2>1, <2>2, <2>3
<1>3. /\ IsFiniteSet(M)
      /\ Cardinality(M) = Missing(kv, news, b)
  <2>1. /\ IsFiniteSet(1 .. Missing(kv, news, b))
        /\ Cardinality(1 .. Missing(kv, news, b)) = Missing(kv, news, b)
    BY <1>0, FS_Interval
  <2>2. IsFiniteSet({b}) /\ Cardinality({b}) = 1
    BY FS_Singleton
  <2>3. IsFiniteSet(M) /\ Cardinality(M) = 1 * Missing(kv, news, b)
    BY <2>1, <2>2, FS_Product
  <2>4. QED
    BY <1>0, <2>3
<1> HIDE DEF M
<1>4. Cardinality(W(b)) \in Nat
  BY FS_CardinalityType
<1>5. Cardinality({}) = 0
  BY FS_EmptySet
<1>6. IsFiniteSet(W(b + 1)) /\ Cardinality(W(b + 1)) = Cardinality(W(b)) + Cardinality(M) - 0
  <2>1. /\ IsFiniteSet(W(b) \cup M)
        /\ Cardinality(W(b) \cup M) = Cardinality(W(b)) + Cardinality(M) - Cardinality(W(b) \cap M)
    BY <1>3, FS_Union
  <2>2. QED
    BY <1>1, <1>2, <1>5, <2>1
<1>7. QED
  BY <1>0, <1>3, <1>4, <1>6 DEF DemandBefore, Wanted

\* The first of the indices at which something holds.
LEMMA FirstIndex ==
  ASSUME NEW S \in SUBSET Nat, NEW x \in S
  PROVE  \E m \in S : \A k \in S : m <= k
<1> DEFINE R == {ss \in Nat \X Nat : ss[1] < ss[2]}
<1>1. IsWellFoundedOn(R, Nat)
  BY NatLessThanWellFounded, Zenon DEF OpToRel
<1> HIDE DEF R
<1>2. PICK m \in S : \A k \in S : <<k, m>> \notin R
  BY <1>1, WFMin
<1>3. \A k \in S : ~(k < m)
  BY <1>2 DEF R
<1>4. QED
  BY <1>3

LEMMA DemandFinite ==
  ASSUME NEW kv, TypedIn(kv), NEW news \in News
  PROVE  \A b \in 0 .. BatchSize : IsFiniteSet(Wanted(kv, news, b))
<1> DEFINE Bad == {b \in 0 .. BatchSize : ~IsFiniteSet(Wanted(kv, news, b))}
<1>1. BatchSize \in Nat
  BY CacheAssumption
<1>2. Bad \subseteq Nat
  BY <1>1
<1>3. SUFFICES ASSUME NEW x \in Bad
               PROVE  FALSE
  OBVIOUS
<1>4. PICK m \in Bad : \A k \in Bad : m <= k
  <2> HIDE DEF Bad
  <2>1. QED
    BY <1>2, <1>3, FirstIndex
<1>5. CASE m = 0
  <2>1. Wanted(kv, news, 0) = {}
    BY DEF Wanted
  <2>2. QED
    BY <1>5, <2>1, FS_EmptySet
<1>6. CASE m # 0
  <2>1. m - 1 \in Seqs /\ m - 1 \in 0 .. BatchSize /\ m - 1 < m /\ m - 1 + 1 = m
    BY <1>1, <1>6 DEF Seqs
  <2>2. m - 1 \notin Bad
    BY <1>4, <2>1
  <2>3. IsFiniteSet(Wanted(kv, news, m - 1))
    BY <2>1, <2>2
  <2>4. IsFiniteSet(Wanted(kv, news, m - 1 + 1))
    BY <2>1, <2>3, DemandStep
  <2>5. QED
    BY <2>1, <2>4
<1>7. QED
  BY <1>5, <1>6

\* The pages wanted by one sequence after the other are consecutive runs of the
\* free list: they do not overlap, and together they are the whole demand.
LEMMA DemandRuns ==
  ASSUME NEW kv, TypedIn(kv), NEW news \in News
  PROVE  /\ Demand(kv, news) \in Nat
         /\ \A b \in Seqs :
              /\ DemandBefore(kv, news, b) \in Nat
              /\ DemandBefore(kv, news, b) + Missing(kv, news, b) <= Demand(kv, news)
              /\ \A a \in Seqs : a < b =>
                   DemandBefore(kv, news, a) + Missing(kv, news, a)
                     <= DemandBefore(kv, news, b)
         /\ \A o \in 1 .. Demand(kv, news) : \E b \in Seqs :
              /\ DemandBefore(kv, news, b) < o
              /\ o <= DemandBefore(kv, news, b) + Missing(kv, news, b)
<1> DEFINE D(k) == DemandBefore(kv, news, k)
           W(k) == Wanted(kv, news, k)
           M(k) == Missing(kv, news, k)
<1>1. BatchSize \in Nat
  BY CacheAssumption
<1>2. /\ \A b \in Seqs : b \in 0 .. BatchSize /\ b + 1 \in 0 .. BatchSize
      /\ \A a \in Seqs : \A b \in 0 .. BatchSize : a < b => a + 1 <= b
  BY <1>1 DEF Seqs
<1>3. \A b \in 0 .. BatchSize : IsFiniteSet(W(b)) /\ D(b) = Cardinality(W(b)) /\ D(b) \in Nat
  <2>1. \A b \in 0 .. BatchSize : D(b) = Cardinality(W(b))
    BY DEF DemandBefore, Wanted
  <2>2. QED
    BY <2>1, DemandFinite, FS_CardinalityType
<1>4. \A b \in Seqs : D(b + 1) = D(b) + M(b)
  <2>1. ASSUME NEW b \in Seqs
        PROVE  D(b + 1) = D(b) + M(b)
    BY <1>2, <1>3, DemandStep
  <2>2. QED
    BY <2>1
<1>5. ASSUME NEW a \in 0 .. BatchSize, NEW b \in 0 .. BatchSize, a <= b
      PROVE  D(a) <= D(b)
  <2>1. W(a) \subseteq W(b)
    <3>1. 0 .. (a - 1) \subseteq 0 .. (b - 1)
      BY <1>1, <1>5
    <3>2. QED
      BY <3>1 DEF Wanted
  <2>2. QED
    BY <1>3, <2>1, FS_Subset
<1>6. D(0) = 0
  <2>1. W(0) = {}
    BY DEF Wanted
  <2>2. QED
    BY <1>1, <1>3, <2>1, FS_EmptySet
<1> HIDE DEF D, W, M
<1>7. ASSUME NEW o \in 1 .. D(BatchSize)
      PROVE  \E b \in Seqs : D(b) < o /\ o <= D(b) + M(b)
  <2> DEFINE Enough == {b \in 0 .. BatchSize : o <= D(b)}
  <2>1. Enough \subseteq Nat /\ BatchSize \in Enough
    BY <1>1, <1>7
  <2>2. PICK m \in Enough : \A k \in Enough : m <= k
    <3> HIDE DEF Enough
    <3>1. QED
      BY <2>1, FirstIndex
  <2>3. m # 0
    BY <1>1, <1>6, <2>2
  <2>4. m - 1 \in Seqs /\ m - 1 \in 0 .. BatchSize /\ m - 1 + 1 = m /\ ~(m <= m - 1)
    BY <1>1, <2>2, <2>3 DEF Seqs
  <2>5. m - 1 \notin Enough
    BY <2>2, <2>4
  <2>6. ~(o <= D(m - 1))
    BY <2>4, <2>5
  <2>7. o <= D(m - 1) + M(m - 1)
    BY <1>4, <2>2, <2>4
  <2>8. D(m - 1) \in Nat /\ o \in Nat
    BY <1>1, <1>3, <2>4
  <2>9. D(m - 1) < o
    BY <2>6, <2>8
  <2>10. QED
    BY <2>4, <2>7, <2>9
<1>8. /\ D(BatchSize) \in Nat
      /\ \A b \in Seqs : D(b) \in Nat /\ D(b) + M(b) <= D(BatchSize)
      /\ \A a, b \in Seqs : a < b => D(a) + M(a) <= D(b)
  <2>1. ASSUME NEW b \in Seqs
        PROVE  D(b) \in Nat /\ D(b + 1) <= D(BatchSize)
    BY <1>1, <1>2, <1>3, <1>5, <2>1
  <2>2. ASSUME NEW a \in Seqs, NEW b \in Seqs, a < b
        PROVE  D(a + 1) <= D(b)
    BY <1>2, <1>5, <2>2
  <2>3. QED
    BY <1>1, <1>3, <1>4, <2>1, <2>2
<1>9. Demand(kv, news) = D(BatchSize)
  BY DEF Demand, D
<1>10. QED
  BY <1>7, <1>8, <1>9 DEF D, M

-----------------------------------------------------------------------------
(* The operations, from one cache to the next *)

Allocates(kv, kw, news) == ~TooLong(kv, news) /\ Fits(kv, news) /\ kw = Allocated(kv, news)
Frees(kv, kw, b)        == kw = Freed(kv, b)
Truncates(kv, kw, b, n) == n <= kv.lens[b] /\ kw = Truncated(kv, b, n)

-----------------------------------------------------------------------------
(* allocate_block *)

\* Which page each entry is after a growth.
GrowthMoves(kv, kw, news) ==
  LET n    == Len(kv.free)
      D(b) == DemandBefore(kv, news, b)
      M(b) == Missing(kv, news, b)
      L(b) == Len(kv.tables[b])
  IN  /\ \A b \in Seqs :
           /\ kw.lens[b] = kv.lens[b] + news[b]
           /\ kw.tables[b] \in Seq(Pool)
           /\ Len(kw.tables[b]) = L(b) + M(b)
           /\ \A i \in 1 .. L(b) : kw.tables[b][i] = kv.tables[b][i]
           /\ \A i \in L(b) + 1 .. L(b) + M(b) :
                /\ kw.tables[b][i] = kv.free[n - D(b) - (i - L(b)) + 1]
                /\ n - D(b) - (i - L(b)) + 1 \in n - D(b) - M(b) + 1 .. n - D(b)
      /\ kw.free \in Seq(Pool)
      /\ Demand(kv, news) <= n
      /\ Len(kw.free) = n - Demand(kv, news)
      /\ \A i \in 1 .. (n - Demand(kv, news)) : kw.free[i] = kv.free[i]

LEMMA AllocateMoves ==
  ASSUME NEW kv, NEW kw, TypedIn(kv), NEW news \in News, Allocates(kv, kw, news)
  PROVE  GrowthMoves(kv, kw, news)
<1> DEFINE n    == Len(kv.free)
           D(b) == DemandBefore(kv, news, b)
           M(b) == Missing(kv, news, b)
           T    == Demand(kv, news)
<1>1. /\ kv.free \in Seq(Pool) /\ n \in Nat
      /\ \A b \in Seqs : kv.tables[b] \in Seq(Pool) /\ Len(kv.tables[b]) \in Nat
      /\ \A i \in 1 .. n : kv.free[i] \in Pool
  BY DEF TypedIn
<1>2. /\ T \in Nat /\ T <= n
      /\ \A b \in Seqs : D(b) \in Nat /\ M(b) \in Nat /\ D(b) + M(b) <= T
  BY <1>1, DemandRuns, MissingNat DEF Allocates, Fits
<1>3. kw = Allocated(kv, news)
  BY DEF Allocates
<1>4. /\ \A b \in Seqs : kw.lens[b] = kv.lens[b] + news[b]
      /\ \A b \in Seqs : kw.tables[b] = kv.tables[b] \o Popped(kv, D(b), M(b))
      /\ kw.free = SubSeq(kv.free, 1, n - T)
  BY <1>3 DEF Allocated
<1> HIDE DEF n, D, M, T
<1>5. ASSUME NEW b \in Seqs
      PROVE  /\ kw.tables[b] \in Seq(Pool)
             /\ Len(kw.tables[b]) = Len(kv.tables[b]) + M(b)
             /\ \A i \in 1 .. Len(kv.tables[b]) : kw.tables[b][i] = kv.tables[b][i]
             /\ \A i \in Len(kv.tables[b]) + 1 .. Len(kv.tables[b]) + M(b) :
                  /\ kw.tables[b][i] = kv.free[n - D(b) - (i - Len(kv.tables[b])) + 1]
                  /\ n - D(b) - (i - Len(kv.tables[b])) + 1 \in n - D(b) - M(b) + 1 .. n - D(b)
  <2> DEFINE new == Popped(kv, D(b), M(b))
             old == kv.tables[b]
  <2>1. D(b) \in Nat /\ M(b) \in Nat /\ D(b) + M(b) <= n
    BY <1>1, <1>2
  <2>2. \A j \in 1 .. M(b) : n - D(b) - j + 1 \in 1 .. n
    BY <1>1, <2>1
  <2>3. new = [j \in 1 .. M(b) |-> kv.free[n - D(b) - j + 1]]
    BY DEF Popped, n
  <2>4. new \in Seq(Pool) /\ Len(new) = M(b)
    <3>1. \A j \in 1 .. M(b) : kv.free[n - D(b) - j + 1] \in Pool
      BY <1>1, <2>2
    <3> DEFINE F(j) == kv.free[n - D(b) - j + 1]
               m    == M(b)
    <3>2. new = [j \in 1 .. m |-> F(j)] /\ m \in Nat /\ \A j \in 1 .. m : F(j) \in Pool
      BY <2>1, <2>3, <3>1
    <3> HIDE DEF F, m, new
    <3>3. new \in Seq(Pool) /\ Len(new) = m
      BY <3>2
    <3>4. QED
      BY <3>3 DEF m
  <2>5. old \in Seq(Pool) /\ Len(old) \in Nat
    BY <1>1
  <2> HIDE DEF new, old
  <2>6. /\ old \o new \in Seq(Pool) /\ Len(old \o new) = Len(old) + M(b)
        /\ \A i \in 1 .. Len(old) : (old \o new)[i] = old[i]
        /\ \A i \in Len(old) + 1 .. Len(old) + M(b) : (old \o new)[i] = new[i - Len(old)]
    BY <2>1, <2>4, <2>5
  <2>7. \A i \in Len(old) + 1 .. Len(old) + M(b) :
          /\ i - Len(old) \in 1 .. M(b)
          /\ n - D(b) - (i - Len(old)) + 1 \in n - D(b) - M(b) + 1 .. n - D(b)
    BY <1>1, <2>1, <2>5
  <2>8. \A i \in Len(old) + 1 .. Len(old) + M(b) :
          new[i - Len(old)] = kv.free[n - D(b) - (i - Len(old)) + 1]
    BY <2>3, <2>7
  <2>9. kw.tables[b] = old \o new
    BY <1>4 DEF old, new
  <2>10. QED
    BY <2>6, <2>7, <2>8, <2>9 DEF old
<1>6. /\ kw.free \in Seq(Pool) /\ Len(kw.free) = n - T
      /\ \A i \in 1 .. (n - T) : kw.free[i] = kv.free[i]
  BY <1>1, <1>2, <1>4
<1>7. QED
  BY <1>2, <1>4, <1>5, <1>6 DEF GrowthMoves, n, D, M, T

LEMMA AllocateKeepsType ==
  ASSUME NEW kv, NEW kw, TypedIn(kv), NEW news \in News, Allocates(kv, kw, news)
  PROVE  TypedIn(kw)
<1>1. /\ kw.free \in Seq(Pool)
      /\ \A b \in Seqs : kw.tables[b] \in Seq(Pool)
  <2>1. GrowthMoves(kv, kw, news)
    BY AllocateMoves
  <2>2. QED
    BY <2>1 DEF GrowthMoves
<1>2. \A b \in Seqs : kv.lens[b] + news[b] \in Nat
  BY CacheAssumption DEF TypedIn, News
<1>3. kw = Allocated(kv, news)
  BY DEF Allocates
<1>4. /\ kw.lens = [b \in Seqs |-> kv.lens[b] + news[b]]
      /\ DOMAIN kw.tables = Seqs
      /\ kw.tables = [b \in Seqs |-> kw.tables[b]]
      /\ kw = [lens |-> kw.lens, tables |-> kw.tables, free |-> kw.free]
  BY <1>3 DEF Allocated
<1>5. kw.lens \in [Seqs -> Nat] /\ kw.tables \in [Seqs -> Seq(Pool)]
  BY <1>1, <1>2, <1>4
<1>6. QED
  BY <1>1, <1>4, <1>5 DEF TypedIn

\* An entry of a table that has grown was an entry of it before, or is a page of
\* its own run of the free list, behind all that remains of it.
GrowthOrigins(kv, kw, news) ==
  LET n       == Len(kv.free)
      Before(b) == n - DemandBefore(kv, news, b)
      L(b)    == Len(kv.tables[b])
      Run(b)  == Before(b) - Missing(kv, news, b) + 1 .. Before(b)
      From(b, i) == Before(b) - (i - L(b)) + 1
  IN  /\ n \in Nat
      /\ \A b \in Seqs : \A i \in 1 .. Len(kw.tables[b]) :
           \/ i \in 1 .. L(b) /\ kw.tables[b][i] = kv.tables[b][i]
           \/ /\ i > L(b)
              /\ From(b, i) \in Run(b)
              /\ kw.tables[b][i] = kv.free[From(b, i)]
      /\ \A b \in Seqs : Run(b) \subseteq Len(kw.free) + 1 .. n
      /\ \A a, b \in Seqs : a # b => Run(a) \cap Run(b) = {}
      /\ \A f \in Len(kw.free) + 1 .. n : \E b \in Seqs :
           \E i \in 1 .. Len(kw.tables[b]) : kw.tables[b][i] = kv.free[f]
      /\ Len(kw.free) \in 0 .. n
      /\ \A f \in 1 .. Len(kw.free) : kw.free[f] = kv.free[f]

LEMMA AllocateOrigins ==
  ASSUME NEW kv, NEW kw, TypedIn(kv), NEW news \in News, Allocates(kv, kw, news)
  PROVE  GrowthOrigins(kv, kw, news)
<1> DEFINE n    == Len(kv.free)
           D(b) == DemandBefore(kv, news, b)
           M(b) == Missing(kv, news, b)
           L(b) == Len(kv.tables[b])
           T    == Demand(kv, news)
           Run(b) == n - D(b) - M(b) + 1 .. n - D(b)
<1>1. /\ n \in Nat /\ T \in Nat /\ T <= n
      /\ \A b \in Seqs : D(b) \in Nat /\ M(b) \in Nat /\ L(b) \in Nat /\ D(b) + M(b) <= T
      /\ \A a, b \in Seqs : a < b => D(a) + M(a) <= D(b)
      /\ \A o \in 1 .. T : \E b \in Seqs : D(b) < o /\ o <= D(b) + M(b)
  <2>1. /\ T \in Nat
        /\ \A b \in Seqs : D(b) \in Nat /\ D(b) + M(b) <= T
        /\ \A a, b \in Seqs : a < b => D(a) + M(a) <= D(b)
        /\ \A o \in 1 .. T : \E b \in Seqs : D(b) < o /\ o <= D(b) + M(b)
    BY DemandRuns
  <2>2. \A b \in Seqs : M(b) \in Nat
    BY MissingNat
  <2>3. n \in Nat /\ \A b \in Seqs : L(b) \in Nat
    BY DEF TypedIn
  <2>4. T <= n
    BY DEF Allocates, Fits
  <2>5. QED
    BY <2>1, <2>2, <2>3, <2>4
<1>2. /\ \A b \in Seqs :
           /\ Len(kw.tables[b]) = L(b) + M(b)
           /\ \A i \in 1 .. L(b) : kw.tables[b][i] = kv.tables[b][i]
           /\ \A i \in L(b) + 1 .. L(b) + M(b) :
                /\ kw.tables[b][i] = kv.free[n - D(b) - (i - L(b)) + 1]
                /\ n - D(b) - (i - L(b)) + 1 \in Run(b)
      /\ Len(kw.free) = n - T
      /\ \A i \in 1 .. (n - T) : kw.free[i] = kv.free[i]
  <2>1. GrowthMoves(kv, kw, news)
    BY AllocateMoves
  <2>2. QED
    BY <2>1 DEF GrowthMoves
<1>0. Seqs \subseteq Int
  BY DEF Seqs
<1> HIDE DEF n, D, M, L, T
<1>3. \A b \in Seqs : \A i \in 1 .. Len(kw.tables[b]) :
        \/ i \in 1 .. L(b) /\ kw.tables[b][i] = kv.tables[b][i]
        \/ /\ i > L(b)
           /\ n - D(b) - (i - L(b)) + 1 \in Run(b)
           /\ kw.tables[b][i] = kv.free[n - D(b) - (i - L(b)) + 1]
  <2>1. ASSUME NEW b \in Seqs, NEW i \in 1 .. Len(kw.tables[b])
        PROVE  i \in 1 .. L(b) \/ (i > L(b) /\ i \in L(b) + 1 .. L(b) + M(b))
    <3>1. L(b) \in Nat /\ M(b) \in Nat /\ i \in 1 .. L(b) + M(b)
      BY <1>1, <1>2
    <3>2. QED
      BY <3>1
  <2> HIDE DEF Run
  <2>2. QED
    BY <1>2, <2>1
<1>4. ASSUME NEW b \in Seqs
      PROVE  Run(b) \subseteq Len(kw.free) + 1 .. n
  <2>1. D(b) \in Nat /\ M(b) \in Nat /\ D(b) + M(b) <= T /\ Len(kw.free) = n - T
    BY <1>1, <1>2
  <2>2. n \in Nat /\ T \in Nat
    BY <1>1
  <2>3. ASSUME NEW f \in Run(b)
        PROVE  f \in n - T + 1 .. n
    BY <2>1, <2>2
  <2>4. QED
    BY <2>1, <2>3
<1>5. ASSUME NEW a \in Seqs, NEW b \in Seqs, a # b
      PROVE  Run(a) \cap Run(b) = {}
  <2>1. a < b \/ b < a
    BY <1>0, <1>5
  <2>2. D(a) + M(a) <= D(b) \/ D(b) + M(b) <= D(a)
    BY <1>1, <2>1
  <2>3. QED
    BY <1>1, <2>2
<1>6. ASSUME NEW f \in Len(kw.free) + 1 .. n
      PROVE  \E b \in Seqs : \E i \in 1 .. Len(kw.tables[b]) :
               kw.tables[b][i] = kv.free[f]
  <2>1. n - f + 1 \in 1 .. T
    BY <1>1, <1>2
  <2>2. PICK b \in Seqs : D(b) < n - f + 1 /\ n - f + 1 <= D(b) + M(b)
    BY <1>1, <2>1
  <2> DEFINE i == L(b) + (n - f + 1 - D(b))
  <2>3. /\ i \in L(b) + 1 .. L(b) + M(b)
        /\ i \in 1 .. L(b) + M(b)
        /\ n - D(b) - (i - L(b)) + 1 = f
    <3>1. L(b) \in Nat /\ D(b) \in Nat /\ M(b) \in Nat /\ n \in Nat /\ f \in Int
      BY <1>1, <1>2
    <3>2. n - f + 1 - D(b) \in 1 .. M(b)
      BY <2>2, <3>1
    <3>3. QED
      BY <3>1, <3>2
  <2> HIDE DEF i, Run
  <2>4. kw.tables[b][i] = kv.free[f]
    BY <1>2, <2>3
  <2>5. QED
    BY <1>2, <2>3, <2>4
<1>7. Len(kw.free) \in 0 .. n
  BY <1>1, <1>2
<1>8. \A f \in 1 .. Len(kw.free) : kw.free[f] = kv.free[f]
  BY <1>2
<1>9. QED
  BY <1>1, <1>3, <1>4, <1>5, <1>6, <1>7, <1>8 DEF GrowthOrigins, n, D, M, L, T

LEMMA AllocateKeepsPartition ==
  ASSUME NEW kv, NEW kw, TypedIn(kv), PartitionedIn(kv), NEW news \in News,
         Allocates(kv, kw, news)
  PROVE  PartitionedIn(kw)
<1> DEFINE n         == Len(kv.free)
           m         == Len(kw.free)
           L(b)      == Len(kv.tables[b])
           K(b)      == Len(kw.tables[b])
           Run(b)    == n - DemandBefore(kv, news, b) - Missing(kv, news, b) + 1
                          .. n - DemandBefore(kv, news, b)
           F(b, i)   == n - DemandBefore(kv, news, b) - (i - L(b)) + 1
           Old(b, i) == i \in 1 .. L(b) /\ kw.tables[b][i] = kv.tables[b][i]
           New(b, i) == /\ i > L(b)
                        /\ F(b, i) \in Run(b)
                        /\ kw.tables[b][i] = kv.free[F(b, i)]
<1>1. /\ n \in Nat
      /\ \A b \in Seqs : \A i \in 1 .. K(b) : Old(b, i) \/ New(b, i)
      /\ \A b \in Seqs : Run(b) \subseteq m + 1 .. n
      /\ \A a, b \in Seqs : a # b => Run(a) \cap Run(b) = {}
      /\ \A f \in m + 1 .. n : \E b \in Seqs :
           \E i \in 1 .. K(b) : kw.tables[b][i] = kv.free[f]
      /\ m \in 0 .. n
      /\ \A f \in 1 .. m : kw.free[f] = kv.free[f]
  <2>1. GrowthOrigins(kv, kw, news)
    BY AllocateOrigins
  <2>2. QED
    BY <2>1 DEF GrowthOrigins
<1>2. /\ \A i, j \in 1 .. n : kv.free[i] = kv.free[j] => i = j
      /\ \A b \in Seqs : \A i, j \in 1 .. L(b) : kv.tables[b][i] = kv.tables[b][j] => i = j
      /\ \A b \in Seqs : \A i \in 1 .. L(b) : \A f \in 1 .. n : kv.tables[b][i] # kv.free[f]
      /\ \A a, b \in Seqs : a # b => \A i \in 1 .. L(a) : \A j \in 1 .. L(b) :
           kv.tables[a][i] # kv.tables[b][j]
      /\ \A p \in Pool : \/ \E f \in 1 .. n : kv.free[f] = p
                         \/ \E b \in Seqs : \E i \in 1 .. L(b) : kv.tables[b][i] = p
  BY DEF PartitionedIn, Distinct, Disjoint, Occurs
<1>3. \A b \in Seqs : /\ L(b) \in Nat /\ K(b) \in Nat /\ L(b) <= K(b)
                      /\ DemandBefore(kv, news, b) \in Nat
                      /\ \A i \in 1 .. L(b) : kw.tables[b][i] = kv.tables[b][i]
  <2>1. GrowthMoves(kv, kw, news)
    BY AllocateMoves
  <2>2. QED
    <3>1. \A b \in Seqs : DemandBefore(kv, news, b) \in Nat /\ Missing(kv, news, b) \in Nat
      BY DemandRuns, MissingNat
    <3>2. \A b \in Seqs : L(b) \in Nat
      BY DEF TypedIn
    <3>3. QED
      BY <2>1, <3>1, <3>2 DEF GrowthMoves
<1>4. ASSUME NEW b \in Seqs, NEW i \in 1 .. K(b), NEW j \in 1 .. K(b), F(b, i) = F(b, j)
      PROVE  i = j
  <2> DEFINE d == DemandBefore(kv, news, b)
  <2>1. n \in Nat /\ d \in Nat /\ L(b) \in Nat /\ K(b) \in Nat
    BY <1>1, <1>3
  <2>2. n - d - (i - L(b)) + 1 = n - d - (j - L(b)) + 1
    BY <1>4
  <2> HIDE DEF d, n, L, K
  <2>3. QED
    BY <2>1, <2>2
<1> HIDE DEF n, m, L, K, Run, F
<1>5. \A b \in Seqs : Run(b) \subseteq 1 .. n /\ \A f \in Run(b) : f \notin 1 .. m
  BY <1>1
<1>6. \A f \in 1 .. m : f \in 1 .. n
  BY <1>1
<1>7. ASSUME NEW b \in Seqs, NEW i \in 1 .. K(b), NEW j \in 1 .. K(b),
             kw.tables[b][i] = kw.tables[b][j]
      PROVE  i = j
  <2>1. CASE Old(b, i) /\ Old(b, j)
    <3>1. kv.tables[b][i] = kv.tables[b][j]
      BY <1>7, <2>1
    <3>2. QED
      BY <1>2, <2>1, <3>1
  <2>2. CASE Old(b, i) /\ New(b, j)
    <3>1. kv.tables[b][i] = kv.free[F(b, j)]
      BY <1>7, <2>2
    <3>2. QED
      BY <1>2, <1>5, <2>2, <3>1
  <2>3. CASE New(b, i) /\ Old(b, j)
    <3>1. kv.tables[b][j] = kv.free[F(b, i)]
      BY <1>7, <2>3
    <3>2. QED
      BY <1>2, <1>5, <2>3, <3>1
  <2>4. CASE New(b, i) /\ New(b, j)
    <3>1. F(b, i) = F(b, j)
      BY <1>2, <1>5, <1>7, <2>4
    <3>2. QED
      BY <1>4, <3>1
  <2>5. QED
    BY <1>1, <2>1, <2>2, <2>3, <2>4
<1>8. ASSUME NEW b \in Seqs, NEW i \in 1 .. K(b), NEW f \in 1 .. m,
             kw.tables[b][i] = kw.free[f]
      PROVE  FALSE
  <2>1. kw.tables[b][i] = kv.free[f] /\ f \in 1 .. n
    BY <1>1, <1>6, <1>8
  <2>2. CASE Old(b, i)
    BY <1>2, <2>1, <2>2
  <2>3. CASE New(b, i)
    <3>1. F(b, i) = f
      BY <1>2, <1>5, <2>1, <2>3
    <3>2. QED
      BY <1>5, <2>3, <3>1
  <2>4. QED
    BY <1>1, <2>2, <2>3
<1>9. ASSUME NEW a \in Seqs, NEW b \in Seqs, a # b, NEW i \in 1 .. K(a), NEW j \in 1 .. K(b),
             kw.tables[a][i] = kw.tables[b][j]
      PROVE  FALSE
  <2>1. CASE Old(a, i) /\ Old(b, j)
    <3>1. kv.tables[a][i] = kv.tables[b][j]
      BY <1>9, <2>1
    <3>2. QED
      BY <1>2, <1>9, <2>1, <3>1
  <2>2. CASE Old(a, i) /\ New(b, j)
    <3>1. kv.tables[a][i] = kv.free[F(b, j)]
      BY <1>9, <2>2
    <3>2. QED
      BY <1>2, <1>5, <2>2, <3>1
  <2>3. CASE New(a, i) /\ Old(b, j)
    <3>1. kv.tables[b][j] = kv.free[F(a, i)]
      BY <1>9, <2>3
    <3>2. QED
      BY <1>2, <1>5, <2>3, <3>1
  <2>4. CASE New(a, i) /\ New(b, j)
    <3>1. F(a, i) = F(b, j)
      BY <1>2, <1>5, <1>9, <2>4
    <3>2. Run(a) \cap Run(b) = {}
      BY <1>1, <1>9
    <3>3. QED
      BY <2>4, <3>1, <3>2
  <2>5. QED
    BY <1>1, <2>1, <2>2, <2>3, <2>4
<1>10. ASSUME NEW p \in Pool
       PROVE  \/ \E f \in 1 .. m : kw.free[f] = p
              \/ \E b \in Seqs : \E i \in 1 .. K(b) : kw.tables[b][i] = p
  <2>1. CASE \E b \in Seqs : \E i \in 1 .. L(b) : kv.tables[b][i] = p
    <3>1. PICK b \in Seqs : \E i \in 1 .. L(b) : kv.tables[b][i] = p
      BY <2>1
    <3>2. PICK i \in 1 .. L(b) : kv.tables[b][i] = p
      BY <3>1
    <3>3. i \in 1 .. K(b)
      BY <1>3
    <3>4. QED
      BY <1>3, <3>2, <3>3
  <2>2. CASE \E f \in 1 .. n : kv.free[f] = p
    <3>1. PICK f \in 1 .. n : kv.free[f] = p
      BY <2>2
    <3>2. f \in 1 .. m \/ f \in m + 1 .. n
      BY <1>1
    <3>3. QED
      BY <1>1, <3>1, <3>2
  <2>3. QED
    BY <1>2, <2>1, <2>2
<1>11. QED
  <2>1. /\ Distinct(kw.free)
        /\ \A b \in Seqs : Distinct(kw.tables[b]) /\ Disjoint(kw.tables[b], kw.free)
        /\ \A a, b \in Seqs : a # b => Disjoint(kw.tables[a], kw.tables[b])
        /\ \A p \in Pool : Occurs(p, kw.free) \/ \E b \in Seqs : Occurs(p, kw.tables[b])
    <3>1. \A i, j \in 1 .. m : kw.free[i] = kw.free[j] => i = j
      BY <1>1, <1>2, <1>6
    <3>2. Distinct(kw.free)
      BY <3>1 DEF Distinct, m
    <3>3. \A b \in Seqs : Distinct(kw.tables[b])
      BY <1>7 DEF Distinct, K
    <3>4. \A b \in Seqs : Disjoint(kw.tables[b], kw.free)
      BY <1>8 DEF Disjoint, K, m
    <3>5. \A a, b \in Seqs : a # b => Disjoint(kw.tables[a], kw.tables[b])
      BY <1>9 DEF Disjoint, K
    <3>6. \A p \in Pool : Occurs(p, kw.free) \/ \E b \in Seqs : Occurs(p, kw.tables[b])
      BY <1>10 DEF Occurs, K, m
    <3>7. QED
      BY <3>2, <3>3, <3>4, <3>5, <3>6
  <2>2. QED
    BY <2>1 DEF PartitionedIn

\* A table that is long enough for what its sequence holds grows by what is
\* missing, so that it is neither too short nor too long for the rest.
LEMMA AllocateKeepsCover ==
  ASSUME NEW kv, NEW kw, TypedIn(kv), CoveredIn(kv), NEW news \in News, Allocates(kv, kw, news)
  PROVE  CoveredIn(kw)
<1>1. SUFFICES ASSUME NEW b \in Seqs
               PROVE  /\ kw.lens[b] <= Len(kw.tables[b]) * BlockSize
                      /\ kw.lens[b] > (Len(kw.tables[b]) - 1) * BlockSize
                      /\ kw.lens[b] <= MaxSeqLen
  BY DEF CoveredIn
<1> DEFINE x == kv.lens[b]
           y == kv.lens[b] + news[b]
           L == Len(kv.tables[b])
<1>2. x \in Nat /\ y \in Nat /\ news[b] \in Nat /\ L \in Nat /\ x <= y
  BY CacheAssumption DEF TypedIn, News
<1>3. x <= L * BlockSize /\ x > (L - 1) * BlockSize
  BY DEF CoveredIn
<1>4. kw.lens[b] = y /\ Len(kw.tables[b]) = L + Missing(kv, news, b)
  <2>1. GrowthMoves(kv, kw, news)
    BY AllocateMoves
  <2>2. QED
    BY <2>1 DEF GrowthMoves
<1>5. y <= MaxSeqLen
  BY <1>2, CacheAssumption DEF Allocates, TooLong
<1>6. Missing(kv, news, b) = IF Pages(y) - L > 0 THEN Pages(y) - L ELSE 0
  BY DEF Missing
<1> HIDE DEF x, y, L
<1>7. Pages(y) \in Nat /\ y <= Pages(y) * BlockSize /\ y > (Pages(y) - 1) * BlockSize
  BY <1>2, PagesRoundsUp
<1>8. L <= Pages(y)
  <2>1. BlockSize \in Nat /\ (L - 1) * BlockSize \in Int
    BY <1>2, CacheAssumption
  <2>2. y > (L - 1) * BlockSize
    BY <1>2, <1>3, <2>1
  <2>3. y <= Pages(y) * BlockSize
    BY <1>7
  <2>4. Pages(y) * BlockSize \in Int
    BY <1>7, <2>1
  <2>5. QED
    BY <1>2, <1>7, <2>2, CoverUnique
<1>9. L + Missing(kv, news, b) = Pages(y)
  BY <1>2, <1>6, <1>7, <1>8
<1>10. QED
  BY <1>4, <1>5, <1>7, <1>9

-----------------------------------------------------------------------------
(* free and truncate *)

\* The last pages of one table move to the back of the free list.
Releases(kv, kw, b, k) ==
  LET table == kv.tables[b]
  IN  /\ kw.tables = [kv.tables EXCEPT ![b] = SubSeq(table, 1, k)]
      /\ kw.free = kv.free \o SubSeq(table, k + 1, Len(table))

\* Which page each entry is after the release.
ReleaseMoved(kv, kw, b, k) ==
  LET L == Len(kv.tables[b])
      n == Len(kv.free)
  IN  /\ kw.tables \in [Seqs -> Seq(Pool)]
      /\ kw.free \in Seq(Pool)
      /\ \A a \in Seqs : a # b => kw.tables[a] = kv.tables[a]
      /\ Len(kw.tables[b]) = k
      /\ \A i \in 1 .. k : kw.tables[b][i] = kv.tables[b][i]
      /\ n \in Nat /\ L \in Nat /\ k <= L
      /\ Len(kw.free) = n + L - k
      /\ \A i \in 1 .. n : kw.free[i] = kv.free[i]
      /\ \A i \in n + 1 .. n + L - k : kw.free[i] = kv.tables[b][i - n + k]

LEMMA ReleaseMoves ==
  ASSUME NEW kv, NEW kw, TypedIn(kv), NEW b \in Seqs,
         NEW k \in 0 .. Len(kv.tables[b]), Releases(kv, kw, b, k)
  PROVE  ReleaseMoved(kv, kw, b, k)
<1> DEFINE table == kv.tables[b]
           L     == Len(table)
           n     == Len(kv.free)
           cut   == SubSeq(table, k + 1, L)
<1>1. /\ table \in Seq(Pool) /\ kv.free \in Seq(Pool) /\ L \in Nat /\ n \in Nat /\ k <= L
      /\ k \in Nat /\ kv.tables \in [Seqs -> Seq(Pool)]
  BY DEF TypedIn
<1>2. /\ kw.tables = [kv.tables EXCEPT ![b] = SubSeq(table, 1, k)]
      /\ kw.free = kv.free \o cut
  BY DEF Releases
<1> HIDE DEF table, L, n, cut
<1>3. /\ SubSeq(table, 1, k) \in Seq(Pool) /\ Len(SubSeq(table, 1, k)) = k
      /\ \A i \in 1 .. k : SubSeq(table, 1, k)[i] = table[i]
  BY <1>1 DEF L
<1>4. /\ cut \in Seq(Pool) /\ Len(cut) = L - k
      /\ \A i \in 1 .. (L - k) : cut[i] = table[k + i]
  BY <1>1 DEF L, cut
<1>5. /\ kw.free \in Seq(Pool) /\ Len(kw.free) = n + (L - k)
      /\ \A i \in 1 .. n : kw.free[i] = kv.free[i]
      /\ \A i \in n + 1 .. n + (L - k) : kw.free[i] = cut[i - n]
  <2> DEFINE front == kv.free
  <2>1. front \in Seq(Pool) /\ Len(front) = n /\ n \in Nat /\ L - k \in Nat
    BY <1>1 DEF n
  <2> HIDE DEF front
  <2>2. /\ front \o cut \in Seq(Pool) /\ Len(front \o cut) = n + (L - k)
        /\ \A i \in 1 .. n : (front \o cut)[i] = front[i]
        /\ \A i \in n + 1 .. n + (L - k) : (front \o cut)[i] = cut[i - n]
    BY <1>4, <2>1
  <2>3. QED
    BY <1>2, <2>2 DEF front
<1>6. \A i \in n + 1 .. n + L - k :
        i - n \in 1 .. (L - k) /\ k + (i - n) = i - n + k /\ i \in n + 1 .. n + (L - k)
  BY <1>1
<1>7. \A i \in n + 1 .. n + L - k : kw.free[i] = table[i - n + k]
  BY <1>4, <1>5, <1>6
<1>8. n + (L - k) = n + L - k
  BY <1>1
<1>9. /\ kw.tables \in [Seqs -> Seq(Pool)]
      /\ kw.tables[b] = SubSeq(table, 1, k)
      /\ \A a \in Seqs : a # b => kw.tables[a] = kv.tables[a]
  BY <1>1, <1>2, <1>3
<1>10. QED
  BY <1>1, <1>3, <1>5, <1>7, <1>8, <1>9 DEF ReleaseMoved, table, L, n

LEMMA ReleaseKeepsPartition ==
  ASSUME NEW kv, NEW kw, TypedIn(kv), PartitionedIn(kv), NEW b \in Seqs,
         NEW k \in 0 .. Len(kv.tables[b]), Releases(kv, kw, b, k)
  PROVE  PartitionedIn(kw)
<1> DEFINE L    == Len(kv.tables[b])
           n    == Len(kv.free)
           m    == Len(kw.free)
           K(a) == Len(kw.tables[a])
<1>1. /\ \A a \in Seqs : a # b => kw.tables[a] = kv.tables[a]
      /\ K(b) = k
      /\ \A i \in 1 .. k : kw.tables[b][i] = kv.tables[b][i]
      /\ n \in Nat /\ L \in Nat /\ k \in Nat /\ k <= L
      /\ m = n + L - k
      /\ \A i \in 1 .. n : kw.free[i] = kv.free[i]
      /\ \A i \in n + 1 .. n + L - k : kw.free[i] = kv.tables[b][i - n + k]
  <2>1. k \in Nat
    BY DEF TypedIn
  <2>2. QED
    <3>1. ReleaseMoved(kv, kw, b, k)
      BY <2>1, ReleaseMoves
    <3>2. QED
      BY <3>1, <2>1 DEF ReleaseMoved
<1>2. /\ \A i, j \in 1 .. n : kv.free[i] = kv.free[j] => i = j
      /\ \A a \in Seqs : \A i, j \in 1 .. Len(kv.tables[a]) :
           kv.tables[a][i] = kv.tables[a][j] => i = j
      /\ \A a \in Seqs : \A i \in 1 .. Len(kv.tables[a]) : \A f \in 1 .. n :
           kv.tables[a][i] # kv.free[f]
      /\ \A a, c \in Seqs : a # c => \A i \in 1 .. Len(kv.tables[a]) :
           \A j \in 1 .. Len(kv.tables[c]) : kv.tables[a][i] # kv.tables[c][j]
      /\ \A p \in Pool : \/ \E f \in 1 .. n : kv.free[f] = p
                         \/ \E a \in Seqs : \E i \in 1 .. Len(kv.tables[a]) :
                              kv.tables[a][i] = p
  BY DEF PartitionedIn, Distinct, Disjoint, Occurs
<1> HIDE DEF n, m, L, K
\* An entry of the longer free list, and an entry of a table afterwards.
<1>3. \A f \in 1 .. m : \/ f \in 1 .. n /\ kw.free[f] = kv.free[f]
                        \/ /\ f > n /\ f - n + k \in k + 1 .. L
                           /\ kw.free[f] = kv.tables[b][f - n + k]
  <2>1. \A f \in 1 .. m : \/ f \in 1 .. n
                          \/ f > n /\ f - n + k \in k + 1 .. L /\ f \in n + 1 .. n + L - k
    BY <1>1
  <2>2. QED
    BY <1>1, <2>1
<1>4. \A a \in Seqs : \A i \in 1 .. K(a) :
        /\ i \in 1 .. Len(kv.tables[a])
        /\ kw.tables[a][i] = kv.tables[a][i]
        /\ a = b => i <= k
  BY <1>1 DEF K, L
<1>5. \A i \in k + 1 .. L : i \in 1 .. Len(kv.tables[b]) /\ ~(i <= k)
  BY <1>1 DEF L
<1>6. ASSUME NEW f \in 1 .. m, NEW g \in 1 .. m, kw.free[f] = kw.free[g]
      PROVE  f = g
  <2> DEFINE Old(h) == h \in 1 .. n /\ kw.free[h] = kv.free[h]
             New(h) == /\ h > n /\ h - n + k \in k + 1 .. L
                       /\ kw.free[h] = kv.tables[b][h - n + k]
  <2>1. CASE Old(f) /\ Old(g)
    <3>1. kv.free[f] = kv.free[g]
      BY <1>6, <2>1
    <3>2. QED
      BY <1>2, <2>1, <3>1
  <2>2. CASE Old(f) /\ New(g)
    <3>1. kv.free[f] = kv.tables[b][g - n + k]
      BY <1>6, <2>2
    <3>2. QED
      BY <1>2, <1>5, <2>2, <3>1
  <2>3. CASE New(f) /\ Old(g)
    <3>1. kv.free[g] = kv.tables[b][f - n + k]
      BY <1>6, <2>3
    <3>2. QED
      BY <1>2, <1>5, <2>3, <3>1
  <2>4. CASE New(f) /\ New(g)
    <3>1. kv.tables[b][f - n + k] = kv.tables[b][g - n + k]
      BY <1>6, <2>4
    <3>2. f - n + k = g - n + k
      BY <1>2, <1>5, <2>4, <3>1
    <3>3. f \in Int /\ g \in Int
      OBVIOUS
    <3>4. QED
      BY <1>1, <3>2, <3>3
  <2>5. QED
    BY <1>3, <2>1, <2>2, <2>3, <2>4
<1>7. ASSUME NEW a \in Seqs, NEW i \in 1 .. K(a), NEW f \in 1 .. m,
             kw.tables[a][i] = kw.free[f]
      PROVE  FALSE
  <2>1. kv.tables[a][i] = kw.free[f] /\ i \in 1 .. Len(kv.tables[a])
    BY <1>4, <1>7
  <2>2. CASE f \in 1 .. n /\ kw.free[f] = kv.free[f]
    BY <1>2, <2>1, <2>2
  <2>3. CASE /\ f > n /\ f - n + k \in k + 1 .. L
             /\ kw.free[f] = kv.tables[b][f - n + k]
    <3>1. f - n + k \in 1 .. Len(kv.tables[b]) /\ ~(f - n + k <= k)
      BY <1>5, <2>3
    <3>2. kv.tables[a][i] = kv.tables[b][f - n + k]
      BY <2>1, <2>3
    <3>3. a = b
      BY <1>2, <2>1, <3>1, <3>2
    <3>4. i = f - n + k
      BY <1>2, <2>1, <3>1, <3>2, <3>3
    <3>5. QED
      BY <1>4, <3>1, <3>3, <3>4
  <2>4. QED
    BY <1>3, <2>2, <2>3
<1>8. ASSUME NEW p \in Pool
      PROVE  \/ \E f \in 1 .. m : kw.free[f] = p
             \/ \E a \in Seqs : \E i \in 1 .. K(a) : kw.tables[a][i] = p
  <2>1. CASE \E f \in 1 .. n : kv.free[f] = p
    <3>1. PICK f \in 1 .. n : kv.free[f] = p
      BY <2>1
    <3>2. f \in 1 .. m
      BY <1>1
    <3>3. QED
      BY <1>1, <3>1, <3>2
  <2>2. CASE \E a \in Seqs : \E i \in 1 .. Len(kv.tables[a]) : kv.tables[a][i] = p
    <3>1. PICK a \in Seqs : \E i \in 1 .. Len(kv.tables[a]) : kv.tables[a][i] = p
      BY <2>2
    <3>2. PICK i \in 1 .. Len(kv.tables[a]) : kv.tables[a][i] = p
      BY <3>1
    <3>3. CASE a # b
      <4>1. kw.tables[a] = kv.tables[a]
        BY <1>1, <3>3
      <4>2. QED
        BY <3>2, <4>1 DEF K
    <3>4. CASE a = b /\ i <= k
      <4>1. i \in 1 .. k
        BY <1>1, <3>4
      <4>2. QED
        BY <1>1, <3>2, <3>4, <4>1
    <3>5. CASE a = b /\ ~(i <= k)
      <4>1. i \in 1 .. L
        BY <3>5 DEF L
      <4>2. i - k + n \in n + 1 .. n + L - k /\ i - k + n \in 1 .. m
        BY <1>1, <3>5, <4>1
      <4>3. i - k + n - n + k = i
        BY <1>1, <4>1
      <4>4. kw.free[i - k + n] = p
        BY <1>1, <3>2, <3>5, <4>2, <4>3
      <4>5. QED
        BY <4>2, <4>4
    <3>6. QED
      BY <3>3, <3>4, <3>5
  <2>3. QED
    BY <1>2, <2>1, <2>2
<1>9. /\ Distinct(kw.free)
      /\ \A a \in Seqs : Distinct(kw.tables[a]) /\ Disjoint(kw.tables[a], kw.free)
      /\ \A a, c \in Seqs : a # c => Disjoint(kw.tables[a], kw.tables[c])
      /\ \A p \in Pool : Occurs(p, kw.free) \/ \E a \in Seqs : Occurs(p, kw.tables[a])
  <2>1. Distinct(kw.free)
    BY <1>6 DEF Distinct, m
  <2>2. \A a \in Seqs : Distinct(kw.tables[a])
    <3>1. \A a \in Seqs : \A i, j \in 1 .. K(a) : kw.tables[a][i] = kw.tables[a][j] => i = j
      BY <1>2, <1>4
    <3>2. QED
      BY <3>1 DEF Distinct, K
  <2>3. \A a \in Seqs : Disjoint(kw.tables[a], kw.free)
    BY <1>7 DEF Disjoint, K, m
  <2>4. \A a, c \in Seqs : a # c => Disjoint(kw.tables[a], kw.tables[c])
    <3>1. \A a, c \in Seqs : a # c => \A i \in 1 .. K(a) : \A j \in 1 .. K(c) :
            kw.tables[a][i] # kw.tables[c][j]
      BY <1>2, <1>4
    <3>2. QED
      BY <3>1 DEF Disjoint, K
  <2>5. \A p \in Pool : Occurs(p, kw.free) \/ \E a \in Seqs : Occurs(p, kw.tables[a])
    BY <1>8 DEF Occurs, K, m
  <2>6. QED
    BY <2>1, <2>2, <2>3, <2>4, <2>5
<1>10. QED
  BY <1>9 DEF PartitionedIn

-----------------------------------------------------------------------------
(* The kv keeps its promises *)

Sound(kv) == TypedIn(kv) /\ PartitionedIn(kv) /\ CoveredIn(kv)

LEMMA EmptyIsGood ==
  ASSUME NEW kv, kv = Empty
  PROVE  Sound(kv)
<1>1. /\ kv.lens = [b \in Seqs |-> 0]
      /\ kv.tables = [b \in Seqs |-> <<>>]
      /\ kv.free = [i \in 1 .. NumBlocks |-> i - 1]
      /\ kv = [lens |-> kv.lens, tables |-> kv.tables, free |-> kv.free]
  BY DEF Empty
<1>2. NumBlocks \in Nat /\ BlockSize \in Nat \ {0} /\ MaxSeqLen \in Nat
  BY CacheAssumption
<1>3. kv.free \in Seq(Pool) /\ Len(kv.free) = NumBlocks
  <2>1. \A i \in 1 .. NumBlocks : i - 1 \in Pool
    BY <1>2 DEF Pool
  <2>2. [i \in 1 .. NumBlocks |-> i - 1] \in Seq(Pool)
    BY <1>2, <2>1
  <2>3. QED
    BY <1>1, <1>2, <2>2
<1>4. \A b \in Seqs : kv.tables[b] = <<>> /\ kv.lens[b] = 0
  BY <1>1
<1>5. TypedIn(kv)
  <2>1. kv.tables \in [Seqs -> Seq(Pool)] /\ kv.lens \in [Seqs -> Nat]
    BY <1>1
  <2>2. QED
    BY <1>1, <1>3, <2>1 DEF TypedIn
<1>6. PartitionedIn(kv)
  <2>1. \A b \in Seqs : Len(kv.tables[b]) = 0
    BY <1>4
  <2>2. Distinct(kv.free)
    BY <1>1, <1>2, <1>3 DEF Distinct
  <2>3. \A p \in Pool : Occurs(p, kv.free)
    <3>1. ASSUME NEW p \in Pool
          PROVE  Occurs(p, kv.free)
      <4>1. \A i \in 1 .. NumBlocks : kv.free[i] = i - 1
        BY <1>1
      <4>2. \E i \in 1 .. NumBlocks : i - 1 = p
        <5>1. p + 1 \in 1 .. NumBlocks /\ (p + 1) - 1 = p
          BY <1>2 DEF Pool
        <5>2. QED
          BY <5>1
      <4>3. QED
        BY <1>3, <4>1, <4>2 DEF Occurs
    <3>2. QED
      BY <3>1
  <2>4. QED
    BY <2>1, <2>2, <2>3 DEF PartitionedIn, Distinct, Disjoint
<1>7. CoveredIn(kv)
  <2>1. \A b \in Seqs : Len(kv.tables[b]) = 0
    BY <1>4
  <2>2. 0 <= 0 * BlockSize /\ 0 > (0 - 1) * BlockSize /\ 0 <= MaxSeqLen
    BY <1>2
  <2>3. QED
    BY <1>4, <2>1, <2>2 DEF CoveredIn
<1>8. QED
  BY <1>5, <1>6, <1>7 DEF Sound

LEMMA FreeIsGood ==
  ASSUME NEW kv, NEW kw, Sound(kv), NEW b \in Seqs, Frees(kv, kw, b)
  PROVE  Sound(kw)
<1>0. TypedIn(kv) /\ PartitionedIn(kv) /\ CoveredIn(kv)
  BY DEF Sound
<1>1. kw = Freed(kv, b)
  BY DEF Frees
<1>2. /\ kw.lens = [kv.lens EXCEPT ![b] = 0]
      /\ kw.tables = [kv.tables EXCEPT ![b] = <<>>]
      /\ kw.free = kv.free \o kv.tables[b]
      /\ kw = [lens |-> kw.lens, tables |-> kw.tables, free |-> kw.free]
  BY <1>1 DEF Freed
<1>3. 0 \in 0 .. Len(kv.tables[b]) /\ kv.tables[b] \in Seq(Pool)
  BY <1>0 DEF TypedIn
<1>4. Releases(kv, kw, b, 0)
  <2>1. /\ SubSeq(kv.tables[b], 1, 0) = <<>>
        /\ SubSeq(kv.tables[b], 0 + 1, Len(kv.tables[b])) = kv.tables[b]
    BY <1>3
  <2>2. QED
    BY <1>2, <2>1 DEF Releases
<1>5. PartitionedIn(kw)
  BY <1>0, <1>3, <1>4, ReleaseKeepsPartition
<1>6. TypedIn(kw)
  <2>1. kw.tables \in [Seqs -> Seq(Pool)] /\ kw.free \in Seq(Pool)
    <3>1. ReleaseMoved(kv, kw, b, 0)
      BY <1>0, <1>3, <1>4, ReleaseMoves
    <3>2. QED
      BY <3>1, <1>0, <1>3, <1>4 DEF ReleaseMoved
  <2>2. kw.lens \in [Seqs -> Nat]
    BY <1>0, <1>2 DEF TypedIn
  <2>3. QED
    BY <1>2, <2>1, <2>2 DEF TypedIn
<1>7. CoveredIn(kw)
  <2>1. SUFFICES ASSUME NEW a \in Seqs
                 PROVE  /\ kw.lens[a] <= Len(kw.tables[a]) * BlockSize
                        /\ kw.lens[a] > (Len(kw.tables[a]) - 1) * BlockSize
                        /\ kw.lens[a] <= MaxSeqLen
    BY DEF CoveredIn
  <2>2. CASE a = b
    <3>1. kw.lens[a] = 0 /\ Len(kw.tables[a]) = 0
      BY <1>0, <1>2, <2>2 DEF TypedIn
    <3>2. 0 <= 0 * BlockSize /\ 0 > (0 - 1) * BlockSize /\ 0 <= MaxSeqLen
      BY CacheAssumption
    <3>3. QED
      BY <3>1, <3>2
  <2>3. CASE a # b
    <3>1. kw.lens[a] = kv.lens[a] /\ kw.tables[a] = kv.tables[a]
      BY <1>0, <1>2, <2>3 DEF TypedIn
    <3>2. QED
      BY <1>0, <3>1 DEF CoveredIn
  <2>4. QED
    BY <2>2, <2>3
<1>8. QED
  BY <1>5, <1>6, <1>7 DEF Sound

\* The shorter table holds the pages of the shorter sequence: truncate never
\* needs more pages than the table has.
LEMMA TruncateMoves ==
  ASSUME NEW kv, NEW kw, Sound(kv), NEW b \in Seqs, NEW l \in 0 .. MaxSeqLen,
         Truncates(kv, kw, b, l)
  PROVE  /\ Pages(l) \in 0 .. Len(kv.tables[b])
         /\ Releases(kv, kw, b, Pages(l))
         /\ kw.lens = [kv.lens EXCEPT ![b] = l]
         /\ kw = [lens |-> kw.lens, tables |-> kw.tables, free |-> kw.free]
<1> DEFINE table == kv.tables[b]
           L     == Len(table)
           k     == Pages(l)
<1>1. l \in Nat /\ BlockSize \in Nat \ {0}
  BY CacheAssumption
<1>2. L \in Nat /\ kv.lens[b] \in Nat /\ kv.lens[b] <= L * BlockSize
  BY DEF Sound, TypedIn, CoveredIn
<1>3. l <= kv.lens[b] /\ kw = Truncated(kv, b, l)
  BY DEF Truncates
<1> HIDE DEF L, k
<1>4. l <= L * BlockSize
  <2>1. L * BlockSize \in Int
    BY <1>1, <1>2
  <2>2. QED
    BY <1>1, <1>2, <1>3, <2>1
<1>5. k \in Nat /\ l <= k * BlockSize /\ l > (k - 1) * BlockSize
  BY <1>1, PagesRoundsUp DEF k
<1>6. k <= L
  BY <1>1, <1>2, <1>4, <1>5, CoverUnique
<1>7. (l + BlockSize - 1) \div BlockSize = k
  BY <1>1, NeededIsPages DEF k
<1>8. (IF k < L THEN k ELSE L) = k
  BY <1>2, <1>5, <1>6
<1>9. /\ kw.lens = [kv.lens EXCEPT ![b] = l]
      /\ kw.tables = [kv.tables EXCEPT ![b] = SubSeq(table, 1, k)]
      /\ kw.free = kv.free \o SubSeq(table, k + 1, L)
      /\ kw = [lens |-> kw.lens, tables |-> kw.tables, free |-> kw.free]
  BY <1>3, <1>7, <1>8 DEF Truncated, L
<1>10. Releases(kv, kw, b, k)
  BY <1>9 DEF Releases, L
<1>11. k \in 0 .. L
  BY <1>2, <1>5, <1>6
<1>12. QED
  BY <1>9, <1>10, <1>11 DEF L, k

LEMMA TruncateIsGood ==
  ASSUME NEW kv, NEW kw, Sound(kv), NEW b \in Seqs, NEW l \in 0 .. MaxSeqLen,
         Truncates(kv, kw, b, l)
  PROVE  Sound(kw)
<1>0. TypedIn(kv) /\ PartitionedIn(kv) /\ CoveredIn(kv)
  BY DEF Sound
<1>1. /\ Pages(l) \in 0 .. Len(kv.tables[b])
      /\ Releases(kv, kw, b, Pages(l))
      /\ kw.lens = [kv.lens EXCEPT ![b] = l]
      /\ kw = [lens |-> kw.lens, tables |-> kw.tables, free |-> kw.free]
  BY TruncateMoves
<1>2. l \in Nat /\ l <= MaxSeqLen
  BY CacheAssumption
<1>3. PartitionedIn(kw)
  BY <1>0, <1>1, ReleaseKeepsPartition
<1>4. /\ kw.tables \in [Seqs -> Seq(Pool)] /\ kw.free \in Seq(Pool)
      /\ \A a \in Seqs : a # b => kw.tables[a] = kv.tables[a]
      /\ Len(kw.tables[b]) = Pages(l)
  <2>1. ReleaseMoved(kv, kw, b, Pages(l))
    BY <1>0, <1>1, ReleaseMoves
  <2>2. QED
    BY <2>1, <1>0, <1>1 DEF ReleaseMoved
<1>5. /\ kw.lens \in [Seqs -> Nat] /\ kw.lens[b] = l
      /\ \A a \in Seqs : a # b => kw.lens[a] = kv.lens[a]
  BY <1>0, <1>1, <1>2 DEF TypedIn
<1>6. TypedIn(kw)
  BY <1>1, <1>4, <1>5 DEF TypedIn
<1>7. l <= Pages(l) * BlockSize /\ l > (Pages(l) - 1) * BlockSize
  BY <1>2, PagesRoundsUp
<1>8. CoveredIn(kw)
  <2>1. SUFFICES ASSUME NEW a \in Seqs
                 PROVE  /\ kw.lens[a] <= Len(kw.tables[a]) * BlockSize
                        /\ kw.lens[a] > (Len(kw.tables[a]) - 1) * BlockSize
                        /\ kw.lens[a] <= MaxSeqLen
    BY DEF CoveredIn
  <2>2. CASE a = b
    BY <1>2, <1>4, <1>5, <1>7, <2>2
  <2>3. CASE a # b
    BY <1>0, <1>4, <1>5, <2>3 DEF CoveredIn
  <2>4. QED
    BY <2>2, <2>3
<1>9. QED
  BY <1>3, <1>6, <1>8 DEF Sound

LEMMA AllocateIsGood ==
  ASSUME NEW kv, NEW kw, Sound(kv), NEW news \in News, Allocates(kv, kw, news)
  PROVE  Sound(kw)
BY AllocateKeepsType, AllocateKeepsPartition, AllocateKeepsCover DEF Sound

\* Every operation keeps the inductive invariant.
IInv == Sound(cache)

\* The actions are the operations on the variable.
LEMMA ActionsOperate ==
  /\ \A news \in News : Allocate(news) => Allocates(cache, cache', news)
  /\ \A b \in Seqs : Free(b) => Frees(cache, cache', b)
  /\ \A b \in Seqs : \A l \in 0 .. MaxSeqLen : Truncate(b, l) => Truncates(cache, cache', b, l)
BY DEF Allocate, Allocates, Free, Frees, Truncate, Truncates

LEMMA StepIsGood ==
  ASSUME IInv, [Next]_cache
  PROVE  IInv'
<1>0. Sound(cache) /\ (IInv' <=> Sound(cache'))
  BY DEF IInv
<1>1. CASE \E news \in News : Allocate(news)
  BY <1>0, <1>1, ActionsOperate, AllocateIsGood
<1>2. CASE \E b \in Seqs : Free(b)
  BY <1>0, <1>2, ActionsOperate, FreeIsGood
<1>3. CASE \E b \in Seqs : \E l \in 0 .. MaxSeqLen : Truncate(b, l)
  BY <1>0, <1>3, ActionsOperate, TruncateIsGood
<1>4. CASE Reset
  <2>1. cache' = Empty
    BY <1>4 DEF Reset
  <2>2. QED
    BY <1>0, <2>1, EmptyIsGood
<1>5. CASE UNCHANGED cache
  BY <1>0, <1>5
<1>6. QED
  BY <1>1, <1>2, <1>3, <1>4, <1>5 DEF Next, News

LEMMA AlwaysGood == Spec => []IInv
<1>1. Init => IInv
  BY EmptyIsGood DEF Init, IInv
<1>2. IInv /\ [Next]_cache => IInv'
  BY StepIsGood
<1>3. QED
  BY <1>1, <1>2, PTL DEF Spec

\* The cache always has the shape the code declares.
THEOREM CacheTypeCorrect == Spec => []TypeOK
<1>1. IInv => TypeOK
  BY DEF IInv, Sound, TypeOK
<1>2. QED
  BY <1>1, AlwaysGood, PTL

\* Whatever the order of allocate_block, free, truncate and reset, every page is
\* one entry of the free list or of one table.
THEOREM CachePagesPartitioned == Spec => []PagesPartitioned
<1>1. IInv => PagesPartitioned
  BY DEF IInv, Sound, PagesPartitioned
<1>2. QED
  BY <1>1, AlwaysGood, PTL

\* Every sequence owns exactly the pages its tokens fill.
THEOREM CacheTablesCover == Spec => []TablesCoverLengths
<1>1. IInv => TablesCoverLengths
  BY DEF IInv, Sound, TablesCoverLengths
<1>2. QED
  BY <1>1, AlwaysGood, PTL

\* No operation moves a page that stays in a table.
THEOREM CacheTablesKeepTheirPages == Spec => TablesKeepTheirPages
<1> DEFINE Keeps == \A b \in Seqs : \/ PrefixOf(cache.tables[b], cache'.tables[b])
                                    \/ PrefixOf(cache'.tables[b], cache.tables[b])
<1>0. IInv => Sound(cache) /\ TypedIn(cache)
  BY DEF IInv, Sound
<1>1. ASSUME IInv, NEW news \in News, Allocates(cache, cache', news)
      PROVE  Keeps
  <2>1. ASSUME NEW b \in Seqs
        PROVE  PrefixOf(cache.tables[b], cache'.tables[b])
    <3>1. /\ Len(cache'.tables[b]) = Len(cache.tables[b]) + Missing(cache, news, b)
          /\ \A i \in 1 .. Len(cache.tables[b]) : cache'.tables[b][i] = cache.tables[b][i]
      <4>1. GrowthMoves(cache, cache', news)
        BY <1>0, <1>1, AllocateMoves
      <4>2. QED
        BY <4>1 DEF GrowthMoves
    <3>2. Len(cache.tables[b]) \in Nat /\ Missing(cache, news, b) \in Nat
      <4>1. Missing(cache, news, b) \in Nat
        BY <1>0, <1>1, MissingNat
      <4>2. QED
        BY <1>0, <1>1, <4>1 DEF TypedIn
    <3>3. QED
      BY <3>1, <3>2 DEF PrefixOf
  <2>2. QED
    BY <2>1
<1>2. ASSUME TypedIn(cache), NEW b \in Seqs, NEW k \in 0 .. Len(cache.tables[b]),
             Releases(cache, cache', b, k)
      PROVE  Keeps
  <2>1. ASSUME NEW a \in Seqs
        PROVE  PrefixOf(cache'.tables[a], cache.tables[a])
    <3>0. ReleaseMoved(cache, cache', b, k)
      BY <1>2, ReleaseMoves
    <3>1. Len(cache.tables[a]) \in Nat
      BY <1>2 DEF TypedIn
    <3>2. CASE a = b
      BY <3>0, <3>2 DEF ReleaseMoved, PrefixOf
    <3>3. CASE a # b
      <4>1. cache'.tables[a] = cache.tables[a]
        BY <3>0, <3>3 DEF ReleaseMoved
      <4>2. QED
        BY <3>1, <4>1 DEF PrefixOf
    <3>4. QED
      BY <3>2, <3>3
  <2>2. QED
    BY <2>1
<1>3. ASSUME IInv, NEW b \in Seqs, Frees(cache, cache', b)
      PROVE  Keeps
  <2>1. cache.tables[b] \in Seq(Pool)
    BY <1>0, <1>3 DEF TypedIn
  <2>2. /\ SubSeq(cache.tables[b], 1, 0) = <<>>
        /\ SubSeq(cache.tables[b], 0 + 1, Len(cache.tables[b])) = cache.tables[b]
        /\ 0 \in 0 .. Len(cache.tables[b])
    BY <2>1
  <2>3. Releases(cache, cache', b, 0)
    BY <1>3, <2>2 DEF Releases, Frees, Freed
  <2>4. QED
    BY <1>0, <1>2, <1>3, <2>2, <2>3
<1>4. ASSUME IInv, NEW b \in Seqs, NEW l \in 0 .. MaxSeqLen, Truncates(cache, cache', b, l)
      PROVE  Keeps
  <2>1. Pages(l) \in 0 .. Len(cache.tables[b]) /\ Releases(cache, cache', b, Pages(l))
    BY <1>0, <1>4, TruncateMoves
  <2>2. QED
    BY <1>0, <1>2, <1>4, <2>1
<1>5. ASSUME IInv, Reset
      PROVE  Keeps
  <2>1. \A b \in Seqs : cache'.tables[b] = <<>> /\ Len(cache.tables[b]) \in Nat
    BY <1>0, <1>5 DEF Reset, Empty, TypedIn
  <2>2. QED
    BY <2>1 DEF PrefixOf
<1>6. IInv /\ [Next]_cache => [Keeps]_cache
  BY <1>1, <1>3, <1>4, <1>5, ActionsOperate DEF Next, News
<1>7. QED
  BY <1>6, AlwaysGood, PTL DEF Spec, TablesKeepTheirPages

-----------------------------------------------------------------------------
(* Slots *)

\* A slot number tells the page and the place in it.
LEMMA SlotUnique ==
  ASSUME NEW a \in Nat, NEW c \in Nat,
         NEW r \in 0 .. (BlockSize - 1), NEW s \in 0 .. (BlockSize - 1),
         a * BlockSize + r = c * BlockSize + s
  PROVE  a = c /\ r = s
<1>1. BlockSize \in Nat \ {0}
  BY CacheAssumption
<1> DEFINE x == a * BlockSize
           y == c * BlockSize
<1>2. x \in Int /\ y \in Int
  BY <1>1
<1>3. (c + 1) * BlockSize = y + BlockSize /\ (a + 1) * BlockSize = x + BlockSize
  BY <1>1
<1>4. a - 1 + 1 = a /\ c - 1 + 1 = c
  OBVIOUS
<1>5. CASE a + 1 <= c
  <2>1. (a + 1) * BlockSize <= c * BlockSize
    BY <1>1, <1>5
  <2> HIDE DEF x, y
  <2>2. x + BlockSize <= y
    BY <1>3, <2>1 DEF y
  <2>3. x + r = y + s
    BY DEF x, y
  <2>4. QED
    BY <1>1, <1>2, <2>2, <2>3
<1>6. CASE c + 1 <= a
  <2>1. (c + 1) * BlockSize <= a * BlockSize
    BY <1>1, <1>6
  <2> HIDE DEF x, y
  <2>2. y + BlockSize <= x
    BY <1>3, <2>1 DEF x
  <2>3. x + r = y + s
    BY DEF x, y
  <2>4. QED
    BY <1>1, <1>2, <2>2, <2>3
<1>7. CASE a = c
  <2>1. x = y
    BY <1>7
  <2>2. x + r = y + s
    OBVIOUS
  <2> HIDE DEF x, y
  <2>3. QED
    BY <1>2, <1>7, <2>1, <2>2
<1>8. QED
  BY <1>5, <1>6, <1>7

\* Where a position is: in which page of the table and at which place.
LEMMA PositionOf ==
  ASSUME NEW p \in Nat
  PROVE  /\ p \div BlockSize \in Nat
         /\ p % BlockSize \in 0 .. (BlockSize - 1)
         /\ p = (p \div BlockSize) * BlockSize + (p % BlockSize)
BY CacheAssumption

\* A position below what n pages hold is in one of them.
LEMMA PositionCovered ==
  ASSUME NEW p \in Nat, NEW n \in Nat, p < n * BlockSize
  PROVE  p \div BlockSize + 1 \in 1 .. n
<1> DEFINE q == p \div BlockSize
<1>1. BlockSize \in Nat \ {0}
  BY CacheAssumption
<1>2. q \in Nat /\ p >= q * BlockSize
  <2>1. q \in Nat /\ p % BlockSize \in 0 .. (BlockSize - 1)
        /\ p = q * BlockSize + (p % BlockSize)
    BY PositionOf
  <2>2. q * BlockSize \in Int
    BY <1>1, <2>1
  <2>3. QED
    BY <1>1, <2>1, <2>2
<1> HIDE DEF q
<1>3. SUFFICES ASSUME n <= q
               PROVE  FALSE
  BY <1>2 DEF q
<1>4. n * BlockSize <= q * BlockSize /\ n * BlockSize \in Int /\ q * BlockSize \in Int
  BY <1>1, <1>2, <1>3
<1>5. QED
  BY <1>2, <1>4

\* Every position of every sequence has a page, and a slot of its own.
SlotsApart ==
  /\ \A b \in Seqs : \A p \in 0 .. (cache.lens[b] - 1) :
       /\ p \div BlockSize + 1 \in 1 .. Len(cache.tables[b])
       /\ SlotOf(cache.tables[b], p) \in PoolSlots
  /\ \A a, b \in Seqs : \A p \in 0 .. (cache.lens[a] - 1) : \A q \in 0 .. (cache.lens[b] - 1) :
       SlotOf(cache.tables[a], p) = SlotOf(cache.tables[b], q) => a = b /\ p = q

LEMMA SlotsAreApart ==
  ASSUME IInv
  PROVE  SlotsApart
<1>0. BlockSize \in Nat \ {0} /\ NumBlocks \in Nat
  BY CacheAssumption
<1>1. ASSUME NEW b \in Seqs, NEW p \in 0 .. (cache.lens[b] - 1)
      PROVE  /\ p \in Nat
             /\ p \div BlockSize + 1 \in 1 .. Len(cache.tables[b])
             /\ cache.tables[b][p \div BlockSize + 1] \in Nat
             /\ cache.tables[b][p \div BlockSize + 1] <= NumBlocks - 1
  <2>1. /\ cache.lens[b] \in Nat /\ Len(cache.tables[b]) \in Nat
        /\ cache.tables[b] \in Seq(Pool)
        /\ cache.lens[b] <= Len(cache.tables[b]) * BlockSize
    BY DEF IInv, Sound, TypedIn, CoveredIn
  <2>2. p \in Nat /\ p < cache.lens[b]
    BY <2>1
  <2>3. Len(cache.tables[b]) * BlockSize \in Int
    BY <1>0, <2>1
  <2>4. p < Len(cache.tables[b]) * BlockSize
    BY <2>1, <2>2, <2>3
  <2>5. p \div BlockSize + 1 \in 1 .. Len(cache.tables[b])
    BY <2>1, <2>2, <2>4, PositionCovered
  <2>6. cache.tables[b][p \div BlockSize + 1] \in Pool
    BY <2>1, <2>5
  <2>7. QED
    BY <1>0, <2>2, <2>5, <2>6 DEF Pool
<1>2. ASSUME NEW b \in Seqs, NEW p \in 0 .. (cache.lens[b] - 1)
      PROVE  SlotOf(cache.tables[b], p) \in PoolSlots
  <2> DEFINE g == cache.tables[b][p \div BlockSize + 1]
             r == p % BlockSize
  <2>1. g \in Nat /\ g <= NumBlocks - 1 /\ r \in 0 .. (BlockSize - 1)
    BY <1>1, PositionOf
  <2>2. SlotOf(cache.tables[b], p) = g * BlockSize + r
    BY DEF SlotOf
  <2> HIDE DEF g, r
  <2>3. g * BlockSize <= (NumBlocks - 1) * BlockSize
    BY <1>0, <2>1
  <2>4. (NumBlocks - 1) * BlockSize = NumBlocks * BlockSize - BlockSize
    BY <1>0
  <2>5. g * BlockSize \in Nat /\ NumBlocks * BlockSize \in Nat
    BY <1>0, <2>1
  <2>6. g * BlockSize + r \in 0 .. (NumBlocks * BlockSize - 1)
    BY <1>0, <2>1, <2>3, <2>4, <2>5
  <2>7. QED
    BY <2>2, <2>6 DEF PoolSlots
<1>3. ASSUME NEW a \in Seqs, NEW b \in Seqs,
             NEW p \in 0 .. (cache.lens[a] - 1), NEW q \in 0 .. (cache.lens[b] - 1),
             SlotOf(cache.tables[a], p) = SlotOf(cache.tables[b], q)
      PROVE  a = b /\ p = q
  <2> DEFINE i == p \div BlockSize
             j == q \div BlockSize
  <2>1. /\ p \in Nat /\ i + 1 \in 1 .. Len(cache.tables[a]) /\ cache.tables[a][i + 1] \in Nat
        /\ q \in Nat /\ j + 1 \in 1 .. Len(cache.tables[b]) /\ cache.tables[b][j + 1] \in Nat
    BY <1>1
  <2>2. /\ i \in Nat /\ p % BlockSize \in 0 .. (BlockSize - 1)
        /\ p = i * BlockSize + (p % BlockSize)
        /\ j \in Nat /\ q % BlockSize \in 0 .. (BlockSize - 1)
        /\ q = j * BlockSize + (q % BlockSize)
    BY <2>1, PositionOf
  <2>3. cache.tables[a][i + 1] * BlockSize + (p % BlockSize)
          = cache.tables[b][j + 1] * BlockSize + (q % BlockSize)
    BY <1>3 DEF SlotOf
  <2> HIDE DEF i, j
  <2>4. cache.tables[a][i + 1] = cache.tables[b][j + 1] /\ p % BlockSize = q % BlockSize
    <3> DEFINE g == cache.tables[a][i + 1]
               h == cache.tables[b][j + 1]
               r == p % BlockSize
               t == q % BlockSize
    <3>1. /\ g \in Nat /\ h \in Nat /\ g * BlockSize + r = h * BlockSize + t
          /\ r \in 0 .. (BlockSize - 1) /\ t \in 0 .. (BlockSize - 1)
      BY <2>1, <2>2, <2>3
    <3> HIDE DEF g, h, r, t
    <3>2. g = h /\ r = t
      BY <3>1, SlotUnique
    <3>3. QED
      BY <3>2 DEF g, h, r, t
  <2>5. a = b
    BY <2>1, <2>4 DEF IInv, Sound, PartitionedIn, Disjoint
  <2>6. i + 1 = j + 1
    BY <2>1, <2>4, <2>5 DEF IInv, Sound, PartitionedIn, Distinct
  <2>7. i = j
    BY <2>2, <2>6
  <2>8. QED
    BY <2>2, <2>4, <2>5, <2>7
<1>4. QED
  BY <1>1, <1>2, <1>3 DEF SlotsApart

-----------------------------------------------------------------------------
(* Reading back *)

FInv == IInv /\ ReadsBack

\* Nothing is written over a stored position, and the new ones are written.
LEMMA ForwardReadsBack ==
  ASSUME IInv, IInv', ReadsBack, NEW news \in News, Forward(news)
  PROVE  ReadsBack'
<1>1. SlotsApart
  BY SlotsAreApart
<1>2. SlotsApart'
  BY SlotsAreApart, PTL
<1>3. /\ \A b \in Seqs : cache'.lens[b] = cache.lens[b] + news[b]
      /\ \A b \in Seqs : \A i \in 1 .. Len(cache.tables[b]) :
           cache'.tables[b][i] = cache.tables[b][i]
      /\ \A b \in Seqs : cache.lens[b] \in Nat /\ news[b] \in 0 .. MaxSeqLen
  <2>1. TypedIn(cache) /\ Allocates(cache, cache', news)
    BY ActionsOperate DEF Forward, IInv, Sound
  <2>2. GrowthMoves(cache, cache', news)
    BY <2>1, AllocateMoves
  <2>3. QED
    BY <2>1, <2>2 DEF GrowthMoves, TypedIn, News
<1>4. pool' = Written(cache', cache.lens, news)
  BY DEF Forward
<1> DEFINE Writers(s) == {w \in Seqs \X (0 .. MaxSeqLen) :
                            /\ w[2] < news[w[1]]
                            /\ SlotOf(cache'.tables[w[1]], cache.lens[w[1]] + w[2]) = s}
<1>5. \A s \in PoolSlots :
        /\ Writers(s) = {} => pool'[s] = pool[s]
        /\ Writers(s) # {} => \E w \in Writers(s) : pool'[s] = Token(w[1], cache.lens[w[1]] + w[2])
  BY <1>4 DEF Written, Position
<1> HIDE DEF Writers
<1>6. SUFFICES ASSUME NEW b \in Seqs, NEW p \in 0 .. (cache'.lens[b] - 1)
               PROVE  pool'[SlotOf(cache'.tables[b], p)] = Token(b, p)
  BY DEF ReadsBack, ReadAt
<1> DEFINE s == SlotOf(cache'.tables[b], p)
<1>7. s \in PoolSlots
  BY <1>2 DEF SlotsApart
\* Whoever writes the slot writes this token.
<1>8. ASSUME NEW w \in Writers(s)
      PROVE  w[1] = b /\ cache.lens[w[1]] + w[2] = p
  <2>1. /\ w[1] \in Seqs /\ w[2] \in 0 .. MaxSeqLen /\ w[2] < news[w[1]]
        /\ SlotOf(cache'.tables[w[1]], cache.lens[w[1]] + w[2]) = s
    BY DEF Writers
  <2>2. cache.lens[w[1]] + w[2] \in 0 .. (cache'.lens[w[1]] - 1)
    <3>1. MaxSeqLen \in Nat
      BY CacheAssumption
    <3>2. QED
      BY <1>3, <2>1, <3>1
  <2> HIDE DEF Writers
  <2>3. QED
    BY <1>2, <2>1, <2>2 DEF SlotsApart
<1>9. CASE p < cache.lens[b]
  <2>1. p \in 0 .. (cache.lens[b] - 1)
    BY <1>3, <1>9
  <2>2. Writers(s) = {}
    <3>1. SUFFICES ASSUME NEW w \in Writers(s)
                   PROVE  FALSE
      OBVIOUS
    <3>2. w[1] = b /\ cache.lens[w[1]] + w[2] = p
      BY <1>8
    <3>3. w[2] \in Int /\ w[2] >= 0
      BY DEF Writers
    <3>4. QED
      BY <1>3, <2>1, <3>2, <3>3
  <2>3. s = SlotOf(cache.tables[b], p)
    <3>1. p \div BlockSize + 1 \in 1 .. Len(cache.tables[b])
      BY <1>1, <2>1 DEF SlotsApart
    <3>2. QED
      BY <1>3, <3>1 DEF SlotOf
  <2>4. pool[SlotOf(cache.tables[b], p)] = Token(b, p)
    BY <2>1 DEF ReadsBack, ReadAt
  <2>5. QED
    BY <1>5, <1>7, <2>2, <2>3, <2>4
<1>10. CASE ~(p < cache.lens[b])
  <2>1. p - cache.lens[b] \in 0 .. MaxSeqLen /\ p - cache.lens[b] < news[b]
        /\ cache.lens[b] + (p - cache.lens[b]) = p
    <3>1. MaxSeqLen \in Nat
      BY CacheAssumption
    <3>2. QED
      BY <1>3, <1>10, <3>1
  <2>2. <<b, p - cache.lens[b]>> \in Writers(s)
    BY <2>1 DEF Writers
  <2>3. PICK w \in Writers(s) : pool'[s] = Token(w[1], cache.lens[w[1]] + w[2])
    BY <1>5, <1>7, <2>2
  <2>4. QED
    BY <1>8, <2>3
<1>11. QED
  BY <1>9, <1>10

\* What stays below the lengths is neither moved nor forgotten.
LEMMA ReleaseReadsBack ==
  ASSUME IInv, IInv', ReadsBack, pool' = Outlived(cache'),
         \A b \in Seqs : cache'.lens[b] <= cache.lens[b],
         \A b \in Seqs : \A i \in 1 .. Len(cache'.tables[b]) :
           cache'.tables[b][i] = cache.tables[b][i]
  PROVE  ReadsBack'
<1>1. SlotsApart'
  BY SlotsAreApart, PTL
<1>2. SUFFICES ASSUME NEW b \in Seqs, NEW p \in 0 .. (cache'.lens[b] - 1)
               PROVE  pool'[SlotOf(cache'.tables[b], p)] = Token(b, p)
  BY DEF ReadsBack, ReadAt
<1> DEFINE s == SlotOf(cache'.tables[b], p)
<1>3. p \div BlockSize + 1 \in 1 .. Len(cache'.tables[b]) /\ s \in PoolSlots
  BY <1>1 DEF SlotsApart
<1>4. s = SlotOf(cache.tables[b], p)
  BY <1>3 DEF SlotOf
<1>5. cache.lens[b] \in Nat /\ cache'.lens[b] \in Nat
  BY DEF IInv, Sound, TypedIn
<1>6. pool[s] = Token(b, p)
  <2>1. p \in 0 .. (cache.lens[b] - 1)
    BY <1>5
  <2>2. QED
    BY <1>4, <2>1 DEF ReadsBack, ReadAt
<1>7. ~(pool[s].at >= cache'.lens[pool[s].seq])
  BY <1>5, <1>6 DEF Token
<1>8. pool'[s] = pool[s]
  BY <1>3, <1>7 DEF Outlived
<1>9. QED
  BY <1>6, <1>8

\* The pool's operations are those of the cache.
LEMMA ForwardIsNext ==
  ASSUME [ForwardNext]_<<cache, pool>>
  PROVE  [Next]_cache
BY DEF ForwardNext, Forward, Release, Next, Free, Truncate, Reset

LEMMA FInvStep ==
  ASSUME FInv, [ForwardNext]_<<cache, pool>>
  PROVE  FInv'
<1>0. IInv /\ ReadsBack
  BY DEF FInv
<1>1. IInv'
  BY <1>0, ForwardIsNext, StepIsGood
<1>2. SUFFICES ReadsBack'
  BY <1>1 DEF FInv
<1>3. CASE \E news \in News : Forward(news)
  BY <1>0, <1>1, <1>3, ForwardReadsBack
<1>4. ASSUME NEW b \in Seqs, Release(Free(b))
      PROVE  ReadsBack'
  <2>1. pool' = Outlived(cache') /\ cache' = Freed(cache, b)
    BY <1>4 DEF Release, Free
  <2>2. Sound(cache) /\ TypedIn(cache)
    BY <1>0 DEF IInv, Sound
  <2>3. ASSUME NEW a \in Seqs
        PROVE  /\ cache'.lens[a] <= cache.lens[a]
               /\ \A i \in 1 .. Len(cache'.tables[a]) : cache'.tables[a][i] = cache.tables[a][i]
    <3>1. cache.lens[a] \in Nat
      BY <2>2 DEF TypedIn
    <3>2. CASE a = b
      BY <2>1, <2>2, <3>1, <3>2 DEF Freed, TypedIn
    <3>3. CASE a # b
      BY <2>1, <2>2, <3>1, <3>3 DEF Freed, TypedIn
    <3>4. QED
      BY <3>2, <3>3
  <2>4. QED
    BY <1>0, <1>1, <2>1, <2>3, ReleaseReadsBack
<1>5. ASSUME NEW b \in Seqs, NEW l \in 0 .. MaxSeqLen, Release(Truncate(b, l))
      PROVE  ReadsBack'
  <2>1. pool' = Outlived(cache') /\ Truncate(b, l) /\ l <= cache.lens[b]
    BY <1>5 DEF Release, Truncate
  <2>2. Sound(cache) /\ TypedIn(cache)
    BY <1>0 DEF IInv, Sound
  <2>3. /\ Pages(l) \in 0 .. Len(cache.tables[b]) /\ Releases(cache, cache', b, Pages(l))
        /\ cache'.lens = [cache.lens EXCEPT ![b] = l]
    BY <2>1, <2>2, ActionsOperate, TruncateMoves
  <2>4. /\ \A a \in Seqs : a # b => cache'.tables[a] = cache.tables[a]
        /\ Len(cache'.tables[b]) = Pages(l)
        /\ \A i \in 1 .. Pages(l) : cache'.tables[b][i] = cache.tables[b][i]
    <3>1. ReleaseMoved(cache, cache', b, Pages(l))
      BY <2>2, <2>3, ReleaseMoves
    <3>2. QED
      BY <3>1 DEF ReleaseMoved
  <2>5. ASSUME NEW a \in Seqs
        PROVE  /\ cache'.lens[a] <= cache.lens[a]
               /\ \A i \in 1 .. Len(cache'.tables[a]) : cache'.tables[a][i] = cache.tables[a][i]
    <3>1. cache.lens[a] \in Nat
      BY <2>2 DEF TypedIn
    <3>2. cache'.lens[a] <= cache.lens[a]
      BY <2>1, <2>2, <2>3, <3>1 DEF TypedIn
    <3>3. QED
      BY <2>4, <3>2
  <2>6. QED
    BY <1>0, <1>1, <2>1, <2>5, ReleaseReadsBack
<1>6. CASE Release(Reset)
  <2>1. cache'.lens = [b \in Seqs |-> 0]
    BY <1>6 DEF Release, Reset, Empty
  <2>2. QED
    BY <2>1 DEF ReadsBack
<1>7. CASE UNCHANGED <<cache, pool>>
  BY <1>0, <1>7 DEF ReadsBack, ReadAt
<1>8. QED
  BY <1>3, <1>4, <1>5, <1>6, <1>7 DEF ForwardNext, News

\* With any number of sequences, pages and slots, and after any sequence of
\* forward passes, frees, truncations and resets, every position below a
\* sequence's length reads back the token that was stored for it.
THEOREM PoolReadsBack == ForwardSpec => []ReadsBack
<1>1. ForwardInit => FInv
  <2>1. SUFFICES ASSUME ForwardInit
                 PROVE  FInv
    OBVIOUS
  <2>2. cache = Empty
    BY <2>1 DEF ForwardInit, Init
  <2>3. IInv
    BY <2>2, EmptyIsGood DEF IInv
  <2>4. ReadsBack
    BY <2>2 DEF ReadsBack, Empty
  <2>5. QED
    BY <2>3, <2>4 DEF FInv
<1>2. FInv /\ [ForwardNext]_<<cache, pool>> => FInv'
  BY FInvStep
<1>3. FInv => ReadsBack
  BY DEF FInv
<1>4. QED
  BY <1>1, <1>2, <1>3, PTL DEF ForwardSpec

\* The cache behind the pool is the cache on its own.
THEOREM ForwardIsCache == ForwardSpec => Spec
<1>1. ForwardInit => Init
  BY DEF ForwardInit
<1>2. [ForwardNext]_<<cache, pool>> => [Next]_cache
  BY ForwardIsNext
<1>3. QED
  BY <1>1, <1>2, PTL DEF ForwardSpec, Spec

=============================================================================
