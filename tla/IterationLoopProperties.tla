----------------------- MODULE IterationLoopProperties -----------------------
(***************************************************************************)
(* What the iteration loop promises, and the client's view of it.          *)
(***************************************************************************)
EXTENDS IterationLoop, SequencesExt

\* What a model call is fed: an id at a position, and the slot it is stored in;
\* the device holds one of them per decode row.
Fed        == [id : Places, pos : Nat, slot : Slots]
DeviceRows == [toks : [1 .. 1 -> Fed], len : Nat, table : Seq(Blocks)]

RequestTypes ==
  /\ nextId \in 0 .. MaxRequests
  /\ promptLen \in [Reqs -> 0 .. MaxContextLength]
  /\ maxOutput \in [Reqs -> 0 .. MaxContextLength]
PoolTypes ==
  /\ pending \in Seq(Reqs)
  /\ running \in Seq(Reqs)
  /\ status \in [Reqs -> {"PENDING", "PREFILLING", "DECODING", "COMPLETED"}]
  /\ computed \in [Reqs -> Nat]
  /\ outputs \in [Reqs -> Seq(Tokens)]
  /\ blocks \in [Reqs -> Seq(Blocks)]
  /\ free \in Seq(Blocks)
ClientTypes ==
  /\ completed \in Seq([id : Reqs, out : Seq(Tokens)])
  /\ delivered \in Seq([id : Reqs, out : Seq(Tokens)])
PlanTypes ==
  /\ pc \in {"idle", "scan", "admit", "launch", "decode", "prefill", "mixed", "retire"}
  /\ scan \in Nat
  /\ budget \in 0 .. MaxPrefillTokens
  /\ decodePlan \in Seq(Reqs)
  /\ prefillPlan \in Seq([req : Reqs, chunk : Nat])
  /\ isMixed \in BOOLEAN
  /\ decoded \in Seq(Tokens)
DeviceTypes ==
  /\ dev \in Seq(DeviceRows)
  /\ stateValid \in BOOLEAN
  /\ stateIds \in Seq(Reqs)
  /\ retained \in Seq(Places)
CacheType == kv \in [Slots -> Places]

\* The state has the shape the code declares.  (What max_decode_context_length
\* is, MaxContextCoversRows says.)
TypeOK ==
  /\ RequestTypes
  /\ PoolTypes
  /\ ClientTypes
  /\ PlanTypes
  /\ DeviceTypes
  /\ CacheType

\* Every page is on the free list once or belongs to one running request, which
\* holds what prompt and output limit need and no more: no page leaks, none is
\* shared (allocate_block, free_block and their uses in schedule and
\* update_requests).
BlockPartition ==
  /\ IsInjective(free)
  /\ \A r \in Reqs :
       /\ IsInjective(blocks[r])
       /\ ToSet(blocks[r]) \cap ToSet(free) = {}
       /\ Len(blocks[r]) = IF r \in ToSet(running) THEN BlocksNeeded(r) ELSE 0
       /\ \A q \in Reqs \ {r} : ToSet(blocks[r]) \cap ToSet(blocks[q]) = {}
  /\ ToSet(free) \cup UNION {ToSet(blocks[r]) : r \in Reqs} = Blocks

\* While a batch row is open, the pages of any request that was accepted are
\* there to be had: the failure branch of schedule's admission loop is never
\* taken, so the queue is only ever held up by rows and by the prefill budget.
AdmissionAlwaysFunded ==
  pc = "admit" /\ CanAdmit => BlocksNeeded(Head(pending)) <= Len(free)

\* A plan fits the tensors the constructor allocated, so packing it never runs
\* past a buffer and build_mixed_batch never throws; every row has work.
PlanFitsBuffers ==
  /\ NumRows <= MaxBatchSize
  /\ PlannedPrefillTokens <= MaxPrefillTokens
  /\ \A k \in 1 .. Len(prefillPlan) : prefillPlan[k].chunk > 0

\* Equal up to table columns past the row's context.
SameRow(row, rebuilt) ==
  /\ row.toks = rebuilt.toks
  /\ row.len = rebuilt.len
  /\ SubSeq(row.table, 1, Len(rebuilt.table)) = rebuilt.table

\* During a decode call the device rows, whether built or advanced in place by
\* advance_decode_state, are those a rebuild from the requests would give.
ReplayMatchesRebuild ==
  pc = "decode" =>
    /\ Len(dev) = Len(decodePlan)
    /\ \A i \in 1 .. Len(dev) : SameRow(dev[i], DecodeRows(FALSE)[i])

Continues(r, out) ==
  \A i \in 1 .. Len(out) : Place(out[i]) = [req |-> r, at |-> promptLen[r] + i - 1]

\* Every token in a request's output, also once it has completed, continues
\* that request's own prompt at the right position: no row read another
\* sequence's pages, a stale page or the wrong position, and the cursor of
\* update_requests over the sampled tokens never slipped.
OutputsContinueTheirPrompt ==
  /\ \A r \in Reqs : Continues(r, outputs[r])
  /\ \A c \in ToSet(completed \o delivered) : Continues(c.id, c.out)

\* Requests are admitted in order of arrival, and a later request's prompt is
\* not begun before an earlier one's is done (schedule's single prefill budget).
ServedInOrder ==
  LET queue == running \o pending
  IN  /\ \A i, j \in 1 .. Len(queue) : i < j => queue[i] < queue[j]
      /\ \A i, j \in 1 .. Len(running) :
           i < j /\ computed[running[j]] > 0 => IsPrefillComplete(running[i])

Ids(answers) == [i \in 1 .. Len(answers) |-> answers[i].id]

\* Every accepted request is in exactly one place, whatever failed, and its
\* answer leaves through pop_completed once.
ExactlyOnce ==
  LET everywhere == Ids(delivered) \o Ids(completed) \o running \o pending
  IN  /\ IsInjective(everywhere)
      /\ ToSet(everywhere) = 0 .. (nextId - 1)

\* max_decode_context_length, by which the callback picks its attention kernel,
\* is the longest context of the decode rows it is called with.
MaxContextCoversRows ==
  /\ pc = "decode" => maxContext = LongestDecode
                      /\ \A i \in 1 .. Len(dev) : dev[i].len <= maxContext
  /\ pc = "mixed" => \A i \in 1 .. Len(decodePlan) :
                       MixedRows[i].len <= maxContext

\* A step returns without calling the model only when no request is left: a
\* client that calls step again and again never turns idle over unfinished work,
\* whatever failed before (schedule, and the early return of step).
EmptyPlanMeansNoWork ==
  ScheduleDone /\ ~HasDecode /\ ~HasPrefill => running = <<>> /\ pending = <<>>

\* The oldest running request with some of its prompt still to compute.
FirstUnfinished(i) ==
  /\ ~IsPrefillComplete(running[i])
  /\ \A j \in 1 .. (i - 1) : IsPrefillComplete(running[j])

\* Chunked prefill starves nobody: a step that ends well, however the budget was
\* cut, gives every request whose prompt is done one token, and takes the oldest
\* of the other prompts further (schedule: "prevents decode starvation").
EveryStepServes ==
  [][pc # "retire" /\ pc' = "retire" =>
       /\ running # <<>>
       /\ \A i \in 1 .. Len(running) :
            LET r == running[i]
            IN  /\ IsPrefillComplete(r) => Len(outputs'[r]) = Len(outputs[r]) + 1
                /\ FirstUnfinished(i) => computed'[r] > computed[r]]_vars

-----------------------------------------------------------------------------
(* The client's view *)

AnswerOf(r) ==
  LET ended == completed \o delivered
      own   == {i \in 1 .. Len(ended) : ended[i].id = r}
  IN  IF own = {} THEN outputs[r] ELSE ended[CHOOSE i \in own : TRUE].out

Service == INSTANCE RequestService WITH
  accepted  <- [i \in 1 .. nextId |-> <<promptLen[i - 1], maxOutput[i - 1]>>],
  answer    <- [r \in Reqs |-> AnswerOf(r)],
  delivered <- ToSet(Ids(delivered))

\* The loop implements the service: one own token per started request per step
\* that ends well, none when it fails, ends at EOS or the limit, handed out once.
ImplementsService == Service!Spec

\* ... and it keeps serving, if step is called and the model does not fail for
\* ever.
ImplementsFairService == Service!FairSpec

\* Every request that submit_request accepted is answered, and its answer
\* handed out, when step and pop_completed are called again and again: the loop
\* catches up with its clients whenever they pause.
EveryRequestIsDelivered == []<>(ToSet(Ids(delivered)) = 0 .. (nextId - 1))

=============================================================================
