----------------------------- MODULE PagedKVCache -----------------------------
(***************************************************************************)
(* The paged K/V cache (engine/kvcache/paged_kv_cache.py): one pool of     *)
(* pages shared by a fixed number of sequences, each with a length and a   *)
(* table of the pages it owns.  The operations are functions on the cache, *)
(* so that a caller can chain several of them in one of its own steps.     *)
(***************************************************************************)
EXTENDS Integers, Sequences, FiniteSets

CONSTANTS
  BatchSize,  \* batch_size: number of sequences
  NumBlocks,  \* num_blocks: pages in the pool
  BlockSize,  \* block_size: tokens per page
  MaxSeqLen   \* cfg.max_seq_len

ASSUME CacheAssumption ==
  /\ BatchSize \in Nat
  /\ NumBlocks \in Nat
  /\ BlockSize \in Nat \ {0}
  /\ MaxSeqLen \in Nat

VARIABLE cache  \* [lens: cur_lens, tables: block_tables, free: free_blocks]

Seqs == 0 .. (BatchSize - 1)
Pool == 0 .. (NumBlocks - 1)

Empty == [lens   |-> [b \in Seqs |-> 0],
          tables |-> [b \in Seqs |-> <<>>],
          free   |-> [i \in 1 .. NumBlocks |-> i - 1]]

\* Pages that n tokens fill; none when n = 0.
Pages(n) == (n - 1) \div BlockSize + 1

\* Pages sequence b must be given to grow by news[b] tokens.
Missing(c, news, b) ==
  LET short == Pages(c.lens[b] + news[b]) - Len(c.tables[b])
  IN  IF short > 0 THEN short ELSE 0

\* Pages the sequences before b must be given, and all of them together.
DemandBefore(c, news, b) ==
  Cardinality(UNION {{a} \X (1 .. Missing(c, news, a)) : a \in 0 .. (b - 1)})
Demand(c, news) == DemandBefore(c, news, BatchSize)

TooLong(c, news) == \E b \in Seqs : c.lens[b] + news[b] > MaxSeqLen
Fits(c, news)    == Demand(c, news) <= Len(c.free)

\* Mutant: the places of the pages are handed out instead of the pages.
Popped_Index(c, skip, n) == [i \in 1 .. n |-> Len(c.free) - skip - i + 1]
\* Pages are popped off the back of the free list, for one sequence after the
\* other: n of them, once `skip` are gone.
Popped(c, skip, n) == [i \in 1 .. n |-> c.free[Len(c.free) - skip - i + 1]]

\* allocate_block, when it does not raise.
Allocated(c, news) ==
  [lens   |-> [b \in Seqs |-> c.lens[b] + news[b]],
   tables |-> [b \in Seqs |->
                c.tables[b] \o Popped(c, DemandBefore(c, news, b), Missing(c, news, b))],
   free   |-> SubSeq(c.free, 1, Len(c.free) - Demand(c, news))]

\* Mutant: the table is not cleared.
Freed_KeepsTable(c, b) ==
  [c EXCEPT !.free = @ \o c.tables[b], !.lens[b] = 0]
\* free
Freed(c, b) ==
  [lens   |-> [c.lens EXCEPT ![b] = 0],
   tables |-> [c.tables EXCEPT ![b] = <<>>],
   free   |-> c.free \o c.tables[b]]

\* Mutant: the first pages of the table are the ones released.
Truncated_Head(c, b, n) ==
  LET needed == (n + BlockSize - 1) \div BlockSize
      drop   == IF needed < Len(c.tables[b]) THEN Len(c.tables[b]) - needed ELSE 0
  IN  [lens   |-> [c.lens EXCEPT ![b] = n],
       tables |-> [c.tables EXCEPT ![b] = SubSeq(@, drop + 1, Len(@))],
       free   |-> c.free \o SubSeq(c.tables[b], 1, drop)]

\* Mutant: the page of the last tokens is released with the others.
Truncated_Floor(c, b, n) ==
  LET needed == n \div BlockSize
      kept   == IF needed < Len(c.tables[b]) THEN needed ELSE Len(c.tables[b])
  IN  [lens   |-> [c.lens EXCEPT ![b] = n],
       tables |-> [c.tables EXCEPT ![b] = SubSeq(@, 1, kept)],
       free   |-> c.free \o SubSeq(c.tables[b], kept + 1, Len(c.tables[b]))]

\* truncate
Truncated(c, b, n) ==
  LET needed == (n + BlockSize - 1) \div BlockSize
      table  == c.tables[b]
      kept   == IF needed < Len(table) THEN needed ELSE Len(table)
  IN  [lens   |-> [c.lens EXCEPT ![b] = n],
       tables |-> [c.tables EXCEPT ![b] = SubSeq(table, 1, kept)],
       free   |-> c.free \o SubSeq(table, kept + 1, Len(table))]

-----------------------------------------------------------------------------
(* The cache on its own, under any use of its operations *)

\* Both errors, a sequence past max_seq_len and an exhausted pool, are raised
\* before anything is changed.
Allocate(news) ==
  /\ ~TooLong(cache, news)
  /\ Fits(cache, news)
  /\ cache' = Allocated(cache, news)

Free(b) == cache' = Freed(cache, b)

Truncate(b, n) ==
  /\ n <= cache.lens[b]
  /\ cache' = Truncated(cache, b, n)

Reset == cache' = Empty

Init == cache = Empty

Next == \/ \E news \in [Seqs -> 0 .. MaxSeqLen] : Allocate(news)
        \/ \E b \in Seqs : Free(b)
        \/ \E b \in Seqs : \E n \in 0 .. MaxSeqLen : Truncate(b, n)
        \/ Reset

Spec == Init /\ [][Next]_cache

-----------------------------------------------------------------------------
(* What the cache promises *)

\* The cache has the shape the code declares.
TypedIn(c) ==
  c \in [lens : [Seqs -> Nat], tables : [Seqs -> Seq(Pool)], free : Seq(Pool)]
TypeOK == TypedIn(cache)

\* Where a page can be: an entry of the free list or of a table.
Distinct(s)      == \A i, j \in 1 .. Len(s) : s[i] = s[j] => i = j
Disjoint(s, t)   == \A i \in 1 .. Len(s), j \in 1 .. Len(t) : s[i] # t[j]
Occurs(p, s)     == \E i \in 1 .. Len(s) : s[i] = p

\* No page is given out twice and none is lost: every page of the pool is one
\* entry of the free list or of one table, after any sequence of allocate_block,
\* free, truncate and reset.
PartitionedIn(c) ==
  /\ Distinct(c.free)
  /\ \A b \in Seqs : Distinct(c.tables[b]) /\ Disjoint(c.tables[b], c.free)
  /\ \A a, b \in Seqs : a # b => Disjoint(c.tables[a], c.tables[b])
  /\ \A p \in Pool : Occurs(p, c.free) \/ \E b \in Seqs : Occurs(p, c.tables[b])
PagesPartitioned == PartitionedIn(cache)

\* A sequence owns the pages its tokens fill, no fewer and no more, so the
\* growth that allocate_block counts is the growth it makes.
CoveredIn(c) ==
  \A b \in Seqs :
    LET owned == Len(c.tables[b])
    IN  /\ c.lens[b] <= owned * BlockSize
        /\ c.lens[b] > (owned - 1) * BlockSize
        /\ c.lens[b] <= MaxSeqLen
TablesCoverLengths == CoveredIn(cache)

PrefixOf(s, t) == Len(s) <= Len(t) /\ \A i \in 1 .. Len(s) : s[i] = t[i]

\* What is stored stays where it is: an operation on one sequence moves no page
\* of another, and growth and truncation happen at the end of a table.
TablesKeepTheirPages ==
  [][\A b \in Seqs : \/ PrefixOf(cache.tables[b], cache'.tables[b])
                     \/ PrefixOf(cache'.tables[b], cache.tables[b])]_cache

=============================================================================
