----------------------------- MODULE PagedForward -----------------------------
(***************************************************************************)
(* The K/V pool behind the page tables: what paged_forward and the slot    *)
(* mappings store, and what the attention kernels read back through the    *)
(* tables (engine/kvcache/paged_forward.py, PagedKVCache.write).  A stored *)
(* token is known by its sequence and position while the sequence has it;  *)
(* once it is truncated, freed or reset away, what is left of it is stale. *)
(***************************************************************************)
EXTENDS PagedKVCache

VARIABLE pool  \* k_pool and v_pool: what each slot holds

PoolSlots == 0 .. (NumBlocks * BlockSize - 1)
Stale     == [seq |-> -1, at |-> -1]
Token(b, p) == [seq |-> b, at |-> p]

\* The slot of position p of a sequence with this table.
SlotOf(table, p) == table[p \div BlockSize + 1] * BlockSize + (p % BlockSize)

\* Mutant: the position within the call instead of the one in the sequence.
Position_InCall(start, j) == j
\* start_new = starts[i] + j
Position(start, j) == start + j

\* write, for news[b] tokens of every sequence b, after allocate_block has made
\* c of the cache whose lengths were `starts`.
Written(c, starts, news) ==
  [s \in PoolSlots |->
     LET writers == {w \in Seqs \X (0 .. MaxSeqLen) :
                       /\ w[2] < news[w[1]]
                       /\ SlotOf(c.tables[w[1]], Position(starts[w[1]], w[2])) = s}
     IN  IF writers = {} THEN pool[s]
         ELSE LET w == CHOOSE w \in writers : TRUE
              IN  Token(w[1], starts[w[1]] + w[2])]

\* No operation clears the pool; the tokens past a sequence's length are gone.
Outlived(c) ==
  [s \in PoolSlots |->
     IF pool[s] # Stale /\ pool[s].at >= c.lens[pool[s].seq] THEN Stale ELSE pool[s]]

\* paged_forward: grow every sequence, then store the new tokens' K/V.
Forward(news) == Allocate(news) /\ pool' = Written(cache', cache.lens, news)

Release(op) == op /\ pool' = Outlived(cache')

PoolInit == pool = [s \in PoolSlots |-> Stale]

ForwardInit == Init /\ PoolInit

ForwardNext ==
  \/ \E news \in [Seqs -> 0 .. MaxSeqLen] : Forward(news)
  \/ \E b \in Seqs : Release(Free(b))
  \/ \E b \in Seqs : \E n \in 0 .. MaxSeqLen : Release(Truncate(b, n))
  \/ Release(Reset)

ForwardSpec == ForwardInit /\ [][ForwardNext]_<<cache, pool>>

-----------------------------------------------------------------------------

\* What attention reads at position p of sequence b.
ReadAt(b, p) == pool[SlotOf(cache.tables[b], p)]

\* Every position below a sequence's length reads back what was last stored for
\* it: no other sequence's growth, no page that was released and given out
\* again, and no rolled back or recycled slot shows through the page table.
ReadsBack ==
  \A b \in Seqs : \A p \in 0 .. (cache.lens[b] - 1) : ReadAt(b, p) = Token(b, p)

=============================================================================
