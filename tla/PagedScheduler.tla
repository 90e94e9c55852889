---------------------------- MODULE PagedScheduler ----------------------------
(***************************************************************************)
(* The Python scheduler (engine/scheduler/scheduler.py): continuous        *)
(* batching with chunked prefill over a pool that may be too small for all *)
(* that is running, so that requests are preempted and recomputed.  The    *)
(* scheduler is single-threaded: a step is planned (PlanIteration) and     *)
(* then ends in one of the ways step() can end; clients call between the   *)
(* steps.  Dictionaries keyed by slot are sequences of [slot, req] in      *)
(* insertion order.  Request.status and Request.slot are written and never *)
(* read, so they are left out.                                             *)
(*                                                                         *)
(* A token is known by its position in its request, `at`, and by whether   *)
(* it is an EOS.  The model continues the sequence it finds in the cache,  *)
(* and if those are not tokens 0, 1, 2 ... in their places it predicts     *)
(* nonsense, at = -1.                                                      *)
(***************************************************************************)
EXTENDS Integers, Sequences, FiniteSets, SequencesExt

CONSTANTS
  MaxRunning,        \* max_running
  NumBlocks,         \* num_blocks
  BlockSize,         \* block_size
  MaxSeqLen,         \* cfg.max_seq_len
  MaxPrefillBatch,   \* max_prefill_batch_size
  MaxPrefillChunk,   \* max_prefill_chunk_size
  MaxBatchedTokens,  \* max_num_batched_tokens
  MaxPairs,          \* max_prefill_attention_pairs, 0 when there is no limit
  Failures,          \* where a model call may fail: "early", "late"
  MaxRequests,       \* bound: requests added between two resets
  Shapes             \* <<prompt length, max_tokens>> offered to add_request

\* The checks of the constructor.
ASSUME SchedulerAssumption ==
  /\ MaxRunning \in Nat \ {0}
  /\ NumBlocks \in Nat
  /\ BlockSize \in Nat \ {0}
  /\ MaxSeqLen \in Nat
  /\ MaxPrefillBatch \in 1 .. MaxRunning
  /\ MaxPrefillChunk \in Nat \ {0}
  /\ MaxBatchedTokens \in Nat /\ MaxBatchedTokens >= MaxRunning
  /\ MaxPairs \in Nat
  /\ Failures \subseteq {"early", "late"}
  /\ MaxRequests \in Nat
  /\ Shapes \subseteq Nat \X Nat

VARIABLES
  nextId,      \* _next_id
  nPrompt,     \* Request.n_prompt
  maxTokens,   \* Request.max_tokens
  folded,      \* prompt_ids[n_prompt:], the tokens preemption folded in
  outputs,     \* Request.output_ids
  computed,    \* Request.num_prompt_tokens_computed
  waiting,     \* self.waiting
  prefilling,  \* self.prefilling
  running,     \* self.running
  freeSlots,   \* self.free_slots, taken from the back
  finished,    \* self.finished
  plan,        \* the IterationPlan of the step under way
  pc,          \* "idle" between steps, "planned" once the step has its plan
  cache,       \* self.cache
  held         \* external: the tokens each slot's pages hold, in order

requestVars == <<nextId, nPrompt, maxTokens>>
tokenVars   == <<folded, outputs, computed>>
queueVars   == <<waiting, prefilling, running, freeSlots, finished>>
vars == <<requestVars, tokenVars, queueVars, plan, pc, cache, held>>

KV == INSTANCE PagedKVCache WITH BatchSize <- MaxRunning

Reqs  == 0 .. (MaxRequests - 1)
Slots == 0 .. (MaxRunning - 1)
Items == [slot : Slots, req : Reqs]
Token == [at : Int, eos : BOOLEAN]

PromptLen(r)   == nPrompt[r] + Len(folded[r])     \* len(prompt_ids)
Remaining(r)   == PromptLen(r) - computed[r]      \* remaining_prompt_tokens
FullOutput(r)  == folded[r] \o outputs[r]         \* full_output
PromptAt(r, p) == IF p < nPrompt[r] THEN p ELSE folded[r][p - nPrompt[r] + 1].at

SlotsOf(items)    == [i \in 1 .. Len(items) |-> items[i].slot]

\* The items that belong to S, in their order.
Filtered(items, S) ==
  LET kept[i \in 0 .. Len(items)] ==
        IF i = 0 THEN <<>>
        ELSE IF items[i] \in S THEN Append(kept[i - 1], items[i]) ELSE kept[i - 1]
  IN  kept[Len(items)]
WithoutItems(items, gone) == Filtered(items, ToSet(items) \ ToSet(gone))

Init ==
  /\ nextId = 0
  /\ nPrompt = [r \in Reqs |-> 0]
  /\ maxTokens = [r \in Reqs |-> 0]
  /\ folded = [r \in Reqs |-> <<>>]
  /\ outputs = [r \in Reqs |-> <<>>]
  /\ computed = [r \in Reqs |-> 0]
  /\ waiting = <<>>
  /\ prefilling = <<>>
  /\ running = <<>>
  /\ freeSlots = [i \in 1 .. MaxRunning |-> i - 1]
  /\ finished = {}
  /\ plan = [decode |-> <<>>, prefill |-> <<>>]
  /\ pc = "idle"
  /\ cache = KV!Empty
  /\ held = [s \in Slots |-> <<>>]

-----------------------------------------------------------------------------
(* The clients' calls *)

AddRequest(shape) ==
  /\ pc = "idle"
  /\ nextId < MaxRequests
  /\ nPrompt' = [nPrompt EXCEPT ![nextId] = shape[1]]
  /\ maxTokens' = [maxTokens EXCEPT ![nextId] = shape[2]]
  /\ waiting' = Append(waiting, nextId)
  /\ nextId' = nextId + 1
  /\ UNCHANGED <<tokenVars, prefilling, running, freeSlots, finished, plan, pc,
                 cache, held>>

\* reset: everything but the model and the captured graphs starts over.
Reset ==
  /\ pc = "idle"
  /\ nextId > 0
  /\ nextId' = 0
  /\ nPrompt' = [r \in Reqs |-> 0]
  /\ maxTokens' = [r \in Reqs |-> 0]
  /\ folded' = [r \in Reqs |-> <<>>]
  /\ outputs' = [r \in Reqs |-> <<>>]
  /\ computed' = [r \in Reqs |-> 0]
  /\ waiting' = <<>>
  /\ prefilling' = <<>>
  /\ running' = <<>>
  /\ freeSlots' = [i \in 1 .. MaxRunning |-> i - 1]
  /\ finished' = {}
  /\ cache' = KV!Empty
  /\ held' = [s \in Slots |-> <<>>]
  /\ UNCHANGED <<plan, pc>>

-----------------------------------------------------------------------------
(* Planning *)

PromptBlocks(r) == KV!Pages(PromptLen(r))

Sum(f, n) ==
  LET sum[i \in 0 .. n] == IF i = 0 THEN 0 ELSE sum[i - 1] + f[i]
  IN  sum[n]

\* Pages still to be handed to the prompts under way.
Reserved ==
  Sum([i \in 1 .. Len(prefilling) |->
         LET short == PromptBlocks(prefilling[i].req)
                        - Len(cache.tables[prefilling[i].slot])
         IN  IF short > 0 THEN short ELSE 0],
      Len(prefilling))

\* Mutant: the pages of the prompts under way are not reserved.
Admissible_Unreserved(n) ==
  LET need == [i \in 1 .. n |-> PromptBlocks(waiting[i])]
  IN  \A i \in 1 .. n :
        need[i] + Len(running) + Len(prefilling) + i - 1
          <= Len(cache.free) - Sum(need, i - 1)

\* The first n waiting requests can join: each finds the pages of its prompt,
\* and one more for every request ahead of it.
Admissible(n) ==
  LET need == [i \in 1 .. n |-> PromptBlocks(waiting[i])]
  IN  \A i \in 1 .. n :
        need[i] + Len(running) + Len(prefilling) + i - 1
          <= Len(cache.free) - Reserved - Sum(need, i - 1)

\* Mutant: all that wait join, or none.
PlannedPrefillCount_AllOrNone ==
  LET room  == MaxPrefillBatch - Len(prefilling)
      limit == Min({Len(waiting), Len(freeSlots), IF room > 0 THEN room ELSE 0})
  IN  IF Admissible(limit) THEN limit ELSE 0

PlannedPrefillCount ==
  LET room  == MaxPrefillBatch - Len(prefilling)
      limit == Min({Len(waiting), Len(freeSlots), IF room > 0 THEN room ELSE 0})
  IN  Max({n \in 0 .. limit : Admissible(n)})

\* prefill_attention_pairs, and max_chunk_for_attention_pairs by what it finds.
Pairs(prefix, chunk) == (chunk * (2 * prefix + chunk + 1)) \div 2
LargestChunk(prefix, most, pairs) ==
  Max({c \in 0 .. most : Pairs(prefix, c) <= pairs})

\* Mutant: an expensive prompt is passed over and the next one looked at.
Chunked_Bypass(acc, item, limited) ==
  LET start  == computed[item.req]
      most   == Min({Remaining(item.req), acc.tokens, MaxPrefillChunk})
      length == IF limited THEN LargestChunk(start, most, acc.pairs) ELSE most
  IN  IF length = 0
      THEN acc
      ELSE [acc EXCEPT
             !.chosen = Append(@, [slot |-> item.slot, req |-> item.req, chunk |-> length]),
             !.tokens = @ - length,
             !.pairs  = @ - Pairs(start, length)]

\* One prompt is given its chunk of the tokens and pairs that are left, unless
\* there is none or the prompts before it have ended the plan.
Chunked(acc, item, limited) ==
  LET start  == computed[item.req]
      most   == Min({Remaining(item.req), acc.tokens, MaxPrefillChunk})
      length == IF limited THEN LargestChunk(start, most, acc.pairs) ELSE most
  IN  IF acc.stopped \/ length = 0
      THEN [acc EXCEPT !.stopped = @ \/ limited]
      ELSE [acc EXCEPT
             !.chosen = Append(@, [slot |-> item.slot, req |-> item.req, chunk |-> length]),
             !.tokens = @ - length,
             !.pairs  = @ - Pairs(start, length)]

\* Chunks for the prompts under way, in order, while tokens and pairs last; a
\* prompt that the pairs cannot serve is not bypassed.
PlanChunks(items, tokens, limited) ==
  LET acc[i \in 0 .. Len(items)] ==
        IF i = 0
        THEN [chosen |-> <<>>, tokens |-> tokens, pairs |-> MaxPairs, stopped |-> FALSE]
        ELSE Chunked(acc[i - 1], items[i], limited)
  IN  acc[Len(items)].chosen

\* Decode everything that is running; admit and chunk with what is left.
PlanIteration ==
  /\ pc = "idle"
  /\ waiting # <<>> \/ prefilling # <<>> \/ running # <<>>
  /\ LET tokens == MaxBatchedTokens - Len(running)
         count  == IF tokens > 0 THEN PlannedPrefillCount ELSE 0
         joined == [i \in 1 .. count |->
                     [slot |-> freeSlots[Len(freeSlots) - i + 1], req |-> waiting[i]]]
         all    == prefilling \o joined
     IN  /\ waiting' = SubSeq(waiting, count + 1, Len(waiting))
         /\ freeSlots' = SubSeq(freeSlots, 1, Len(freeSlots) - count)
         /\ prefilling' = all
         /\ plan' = [decode  |-> running,
                     prefill |-> IF tokens > 0
                                 THEN PlanChunks(all, tokens, running # <<>> /\ MaxPairs > 0)
                                 ELSE <<>>]
  /\ pc' = "planned"
  /\ UNCHANGED <<requestVars, tokenVars, running, finished, cache, held>>

-----------------------------------------------------------------------------
(* Executing the plan *)

PlanIsEmpty == plan.decode = <<>> /\ plan.prefill = <<>>

EndStep ==
  /\ pc' = "idle"
  /\ plan' = [decode |-> <<>>, prefill |-> <<>>]

Chunk(s) ==
  LET own == {i \in 1 .. Len(plan.prefill) : plan.prefill[i].slot = s}
  IN  IF own = {} THEN 0 ELSE plan.prefill[CHOOSE i \in own : TRUE].chunk

\* n_news: one token for each row that decodes, the chunk for each prompt.
News == [s \in Slots |-> IF s \in ToSet(SlotsOf(plan.decode)) THEN 1 ELSE Chunk(s)]

\* The ids fed to slot s in this call.
Fed(s) ==
  LET item == CHOOSE it \in ToSet(plan.decode \o plan.prefill) : it.slot = s
      r    == item.req
  IN  IF s \in ToSet(SlotsOf(plan.decode))
      THEN <<Last(outputs[r]).at>>
      ELSE [j \in 1 .. Chunk(s) |-> PromptAt(r, computed[r] + j - 1)]

\* External: what the pages hold after the call, and what the model predicts.
Written == [s \in Slots |-> IF News[s] = 0 THEN held[s] ELSE held[s] \o Fed(s)]
Predict(ids) == IF \A p \in 1 .. Len(ids) : ids[p] = p - 1 THEN Len(ids) ELSE -1

PlannedItems ==
  [i \in 1 .. Len(plan.prefill) |->
     [slot |-> plan.prefill[i].slot, req |-> plan.prefill[i].req]]

\* Prompts that are done with this call, in the order of the plan.
CompletedItems ==
  Filtered(PlannedItems,
           {it \in ToSet(PlannedItems) : Chunk(it.slot) = Remaining(it.req)})

\* Mutant: the tokens of a preempted past are not counted.
IsFinished_Forgets(r, out) == Len(out) >= maxTokens[r] \/ Last(out).eos
\* is_finished, for a request that has just been given a token.
IsFinished(r, out) ==
  \/ Len(folded[r]) + Len(out) >= maxTokens[r]
  \/ Last(out).eos

\* The sequences of these items give up all their pages, one after the other.
FreeAll(c, items) ==
  LET after[i \in 0 .. Len(items)] ==
        IF i = 0 THEN c ELSE KV!Freed(after[i - 1], items[i].slot)
  IN  after[Len(items)]

\* ... and those of the running sequences cut back to where they were.
CutBack(c, items) ==
  LET after[i \in 0 .. Len(items)] ==
        IF i = 0 THEN c
        ELSE KV!Truncated(after[i - 1], items[i].slot, cache.lens[items[i].slot])
  IN  after[Len(items)]

\* Mutant: what a failed call appended to the running sequences stays.
RolledBack_KeepsTail(c, decodes, prompts) == FreeAll(c, prompts)
\* The pages a failed call leaves behind: the running sequences are cut back to
\* where they were, the prompts of the plan give up all they had.
RolledBack(c, decodes, prompts) == FreeAll(CutBack(c, decodes), prompts)

\* Mutant: a rolled-back prompt's slot is not given back.
Vacated_Finished(done, undone) == SlotsOf(done)
\* Slots go back in the order finished requests, then rolled-back prompts.
Vacated(done, undone) == SlotsOf(done \o undone)

\* How a call that got as far as the model ends, starting from the pages c.
\* Each of `sampled` gets one token (_commit_decode_logits, then
\* _commit_prefill_logits); those that finish leave in that order; the prompts
\* in `started` now run.  If it `failed`, step rolls the rest back.
Outcome(c, sampled, started, eos, failed) ==
  LET SlotOf(r) == (CHOOSE it \in ToSet(sampled) : it.req = r).slot
      token(r)  == [at |-> Predict(Written[SlotOf(r)]), eos |-> eos[SlotOf(r)]]
      ids       == {it.req : it \in ToSet(sampled)}
      longer    == [r \in Reqs |-> IF r \in ids THEN Append(outputs[r], token(r))
                                                ELSE outputs[r]]
      done      == Filtered(sampled,
                            {it \in ToSet(sampled) : IsFinished(it.req, longer[it.req])})
      gone      == {it.req : it \in ToSet(done)}
      undone    == IF failed THEN PlannedItems ELSE <<>>
      vacated   == Vacated(done, undone)
      after     == FreeAll(c, done)
  IN  /\ outputs' = [r \in Reqs |-> IF r \in gone THEN <<>> ELSE longer[r]]
      /\ folded' = [r \in Reqs |-> IF r \in gone THEN <<>> ELSE folded[r]]
      /\ finished' = finished \cup
                       {[id |-> r, out |-> folded[r] \o longer[r]] : r \in gone}
      /\ running' = WithoutItems(running \o started, done)
      /\ prefilling' = WithoutItems(prefilling, started \o undone)
      /\ waiting' = [i \in 1 .. Len(undone) |-> undone[i].req] \o waiting
      /\ computed' = [r \in Reqs |->
           LET own == {it \in ToSet(plan.prefill) : it.req = r}
           IN  IF own = {} THEN computed[r]
               ELSE IF failed THEN 0
               ELSE computed[r] + (CHOOSE it \in own : TRUE).chunk]
      /\ freeSlots' = freeSlots \o vacated
      /\ cache' = IF failed
                  THEN RolledBack(after, WithoutItems(plan.decode, done), undone)
                  ELSE after
      /\ held' = [s \in Slots |-> IF s \in ToSet(vacated) THEN <<>>
                                  ELSE IF failed THEN held[s] ELSE Written[s]]
  /\ EndStep
  /\ UNCHANGED requestVars

CallFits == ~PlanIsEmpty /\ ~KV!TooLong(cache, News) /\ KV!Fits(cache, News)

Grown == KV!Allocated(cache, News)

\* The three calls, when the model succeeds.  Which tokens are EOS is its choice.
DecodeStep ==
  /\ pc = "planned"
  /\ CallFits
  /\ plan.decode # <<>> /\ plan.prefill = <<>>
  /\ \E eos \in [Slots -> BOOLEAN] : Outcome(Grown, plan.decode, <<>>, eos, FALSE)

PrefillStep ==
  /\ pc = "planned"
  /\ CallFits
  /\ plan.decode = <<>> /\ plan.prefill # <<>>
  /\ \E eos \in [Slots -> BOOLEAN] :
       Outcome(Grown, CompletedItems, CompletedItems, eos, FALSE)

MixedStep ==
  /\ pc = "planned"
  /\ CallFits
  /\ plan.decode # <<>> /\ plan.prefill # <<>>
  /\ \E eos \in [Slots -> BOOLEAN] :
       Outcome(Grown, plan.decode \o CompletedItems, CompletedItems, eos, FALSE)

-----------------------------------------------------------------------------
(* The other ways a step ends *)

\* Nothing can be planned: step returns, or raises when something is waiting or
\* under way.
EmptyStep ==
  /\ pc = "planned"
  /\ PlanIsEmpty
  /\ EndStep
  /\ UNCHANGED <<requestVars, tokenVars, queueVars, cache, held>>

\* allocate_block refuses a sequence past max_seq_len before it changes anything.
TooLongFails ==
  /\ pc = "planned"
  /\ ~PlanIsEmpty
  /\ KV!TooLong(cache, News)
  /\ Outcome(cache, <<>>, <<>>, <<>>, TRUE)

\* The call fails once it has its pages, and before any token is taken from it.
ModelFails ==
  /\ "early" \in Failures
  /\ pc = "planned"
  /\ CallFits
  /\ Outcome(Grown, <<>>, <<>>, <<>>, TRUE)

\* A mixed call succeeds and its decode rows are committed; picking the tokens
\* of the prompts that are done then fails (it allocates device memory).
SamplingFails ==
  /\ "late" \in Failures
  /\ pc = "planned"
  /\ CallFits
  /\ plan.decode # <<>> /\ CompletedItems # <<>>
  /\ \E eos \in [Slots -> BOOLEAN] : Outcome(Grown, plan.decode, <<>>, eos, TRUE)

\* Mutant: tokens folded by an earlier preemption are replaced.
Refold_Last(r) == [folded EXCEPT ![r] = outputs[r]]
Refold(r) == [folded EXCEPT ![r] = @ \o outputs[r]]

\* The pool is exhausted while something runs: _preempt evicts the last of
\* running, folds its output into its prompt and queues it in front.  (With
\* nothing running step would raise again; PrefillAloneFits says it never has
\* to.)  The admissions of the plan stand.
Exhausted ==
  /\ pc = "planned"
  /\ ~PlanIsEmpty
  /\ ~KV!TooLong(cache, News)
  /\ ~KV!Fits(cache, News)

Preempt ==
  /\ Exhausted
  /\ running # <<>>
  /\ LET victim == Last(running)
         r      == victim.req
     IN  /\ cache' = KV!Freed(cache, victim.slot)
         /\ held' = [held EXCEPT ![victim.slot] = <<>>]
         /\ freeSlots' = Append(freeSlots, victim.slot)
         /\ running' = Front(running)
         /\ folded' = Refold(r)
         /\ outputs' = [outputs EXCEPT ![r] = <<>>]
         /\ computed' = [computed EXCEPT ![r] = 0]
         /\ waiting' = <<r>> \o waiting
  /\ EndStep
  /\ UNCHANGED <<requestVars, prefilling, finished>>

-----------------------------------------------------------------------------

Client == (\E shape \in Shapes : AddRequest(shape)) \/ Reset

Step == \/ PlanIteration
        \/ DecodeStep \/ PrefillStep \/ MixedStep
        \/ EmptyStep \/ TooLongFails \/ Preempt

Failure == ModelFails \/ SamplingFails

Next == Client \/ Step \/ Failure

Spec == Init /\ [][Next]_vars

\* run() keeps stepping.
FairSpec == Spec /\ WF_vars(Step)

=============================================================================
