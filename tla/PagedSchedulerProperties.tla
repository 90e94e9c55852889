----------------------- MODULE PagedSchedulerProperties -----------------------
(***************************************************************************)
(* What the Python scheduler promises.                                     *)
(***************************************************************************)
EXTENDS PagedScheduler

\* The state has the shape the code declares.
TypeOK ==
  /\ nextId \in 0 .. MaxRequests
  /\ nPrompt \in [Reqs -> Nat]
  /\ maxTokens \in [Reqs -> Nat]
  /\ folded \in [Reqs -> Seq(Token)]
  /\ outputs \in [Reqs -> Seq(Token)]
  /\ computed \in [Reqs -> Nat]
  /\ waiting \in Seq(Reqs)
  /\ prefilling \in Seq(Items)
  /\ running \in Seq(Items)
  /\ freeSlots \in Seq(Slots)
  /\ finished \subseteq [id : Reqs, out : Seq(Token)]
  /\ plan \in [decode : Seq(Items), prefill : Seq([slot : Slots, req : Reqs, chunk : Nat \ {0}])]
  /\ pc \in {"idle", "planned"}
  /\ cache \in [lens : [Slots -> Nat], tables : [Slots -> Seq(KV!Pool)],
                free : Seq(KV!Pool)]
  /\ held \in [Slots -> Seq(Int)]

\* Every slot is on the free list or serves one request, and every request is
\* in exactly one place, whatever finished, failed or was preempted.
OnePlaceEach ==
  LET busy   == prefilling \o running
      slots  == freeSlots \o SlotsOf(busy)
      places == waiting \o [i \in 1 .. Len(busy) |-> busy[i].req]
      done   == {f.id : f \in finished}
  IN  /\ IsInjective(slots) /\ ToSet(slots) = Slots
      /\ IsInjective(places)
      /\ ToSet(places) \cap done = {}
      /\ ToSet(places) \cup done = 0 .. (nextId - 1)
      /\ \A f, g \in finished : f.id = g.id => f = g

\* Every page is free once or in one place of one table, and each table is as
\* long as its sequence: after growth, eviction, truncation and rollback.
PagesAccountedFor == KV!PagesPartitioned /\ KV!TablesCoverLengths

\* Between any two calls the cache is where the requests think it is: a prompt
\* has exactly its computed tokens in it, a running request all but its newest
\* token, a free slot nothing.  The next token is then fed at its own position.
CacheMatchesRequests ==
  /\ \A it \in ToSet(prefilling) : cache.lens[it.slot] = computed[it.req]
  /\ \A it \in ToSet(running) :
       /\ outputs[it.req] # <<>>
       /\ cache.lens[it.slot] = PromptLen(it.req) + Len(outputs[it.req]) - 1
  /\ \A s \in ToSet(freeSlots) : cache.lens[s] = 0

Continues(r, out) ==
  \A i \in 1 .. Len(out) : out[i].at = nPrompt[r] + i - 1

\* Every answer, finished or on its way, also across preemption, recomputation
\* and rollback, continues its request's own prompt token by token, and stops at
\* its first EOS or at its limit.
AnswersContinueTheirPrompt ==
  /\ \A r \in Reqs : Continues(r, FullOutput(r))
  /\ \A f \in finished :
       /\ Continues(f.id, f.out)
       /\ \A i \in 1 .. Len(f.out) :
            (f.out[i].eos \/ i >= maxTokens[f.id]) <=> i = Len(f.out)

\* A prompt is only admitted if its pages are there, or are reserved, so a step
\* with nothing to evict never exhausts the pool: the re-raise in step's
\* CacheFullError handler is never reached.
PrefillAloneFits == Exhausted => running # <<>>

\* Unless a prompt is empty, step raises for an empty plan in one case only, and
\* says why rightly: nothing is under way and the first in the queue has a prompt
\* that is larger than the whole pool.  The attention budget never stops a step:
\* the RuntimeError that asks for a larger one is never raised.
EmptyPlanOnlyForWantOfPool ==
  pc = "planned" /\ PlanIsEmpty /\ (\A r \in 0 .. (nextId - 1) : nPrompt[r] > 0) =>
    /\ running = <<>> /\ prefilling = <<>>
    /\ waiting # <<>> /\ PromptBlocks(Head(waiting)) > NumBlocks

\* A plan stays within the token budget and, when it shares the step with
\* decodes, within the attention budget; no prompt waits for a later one.
PlanWithinBudgets ==
  pc = "planned" =>
    LET n == Len(plan.prefill)
        pairs == [i \in 1 .. n |-> Pairs(computed[plan.prefill[i].req], plan.prefill[i].chunk)]
    IN  /\ Len(plan.decode) + Sum([i \in 1 .. n |-> plan.prefill[i].chunk], n)
             <= MaxBatchedTokens
        /\ plan.decode # <<>> /\ MaxPairs > 0 => Sum(pairs, n) <= MaxPairs
        /\ \A i \in 1 .. n : plan.prefill[i].req = prefilling[i].req

OutputOf(r, fold, out, fin) ==
  LET own == {f \in fin : f.id = r}
  IN  IF own = {} THEN fold[r] \o out[r] ELSE (CHOOSE f \in own : TRUE).out

\* Nothing a request has generated is ever lost or changed: not by _preempt,
\* which folds it into the prompt, nor by a rollback or by finishing.
OutputsOnlyGrow ==
  [][nextId' = 0 \/ \A r \in Reqs :
       IsPrefix(OutputOf(r, folded, outputs, finished),
                OutputOf(r, folded', outputs', finished'))]_vars

-----------------------------------------------------------------------------
(* What the comments of the code say *)

\* Requests enter prefill in order of arrival ("FCFS").
PromptsFirstComeFirstServed ==
  LET queue == [i \in 1 .. Len(prefilling) |-> prefilling[i].req] \o waiting
  IN  \A i, j \in 1 .. Len(queue) : i < j => queue[i] < queue[j]

-----------------------------------------------------------------------------

\* Every request that fits the pool on its own ends: preemption, recomputation
\* and rollback do not go round for ever, and the scheduler catches up with its
\* clients whenever they pause.
EveryRequestFinishes == []<>({f.id : f \in finished} = 0 .. (nextId - 1))

=============================================================================
