# A formal model of the Qwen-frence engine

Qwen-frence serves Qwen2.5-1.5B on one H100: a scheduler decides which requests
a step decodes and which prompts it extends, a model callback runs the step on
the GPU over a paged K/V cache, and the sampled tokens go back to the requests.
The numerics are tested against references elsewhere in the repository. What
tests hardly reach is the bookkeeping around them: which row belongs to which
request, which page belongs to which row, what is left behind when a call in the
middle of a step fails. That is what these modules model.

    cd tla
    tlc -workers 2 -config IterationLoopSeparate.cfg MCControlAgreement.tla
    for m in *Proofs.tla PrefillChunk.tla; do tlapm $m; done

`PROJECT.json` names the module of every configuration.

## Inventory

| Component | Source | State | Operations | Status |
|---|---|---|---|---|
| C++ iteration loop | `engine/cpp/src/iteration_loop.cpp`, `include/iteration_loop.hpp` | pending queue, running list, free pages, completed outputs, device rows, retained tokens | `submit_request`, `pop_completed`, `step` (schedule, build or replay metadata, one or two callbacks, update, retire) | modelled |
| Metadata transfer | the same files | two device buffers, one pinned staging buffer, copy stream, events | `begin_async_metadata_copy`, `finish_async_metadata_copy`, buffer flip, waits | modelled |
| Paged K/V cache | `engine/kvcache/paged_kv_cache.py`, `paged_forward.py` | lengths, page tables, free list, pool | `allocate_block`, `free`, `truncate`, `reset`, `write`, `read`, `paged_forward` | modelled |
| Python scheduler | `engine/scheduler/*.py` | waiting, prefilling, running, free slots, finished, the cache | `add_request`, `step`, `reset` | partly: all but the compatibility helpers |
| Graph decoders | `engine/graph/*graph_decoder.py` | static buffers, cached page table and its signature, captured graphs | capture, replay, bucket choice and padding | partly: no `UnrolledCUDAGraphDecoder`, no arithmetic |
| Piecewise prefill, full mixed graphs | `engine/graph/piecewise_prefill.py`, `full_mixed.py` | graphs by shape, static slots, `valid_tokens` | capture, run, fallback | partly: no `FullMixedGraph`, no limit on captured shapes |
| Model adapter | `experiments/integration/model_adapter.py` | decode half of a mixed step | `decode`, `prefill`, `mixed` callbacks | partly: no counters, observers, policies or full mixed graph |
| Python control loop | `experiments/integration/python_control.py` | as the C++ loop | `submit_request`, `pop_completed`, `step` | modelled |
| Single-sequence paged engines | `engine/kvcache/paged_engine.py`, `engine/graph/paged_graph_engine.py` | one cache, one captured graph | `generate` | modelled |
| Kernels, baseline model, weights, configuration, benchmarks | `custom_kernels/`, `baseline/`, `benchmarks/`, ... | tensors | numerics, measurement | not modelled: no state machine, or arithmetic out of TLC's reach |

How they interact. The C++ loop and the Python scheduler are two engines with
the same purpose and different policies. The C++ loop reserves the pages of a
whole request when it admits it and therefore never preempts; it calls the model
back through a Python callable. While that callable runs, other Python code may
call `submit_request` and `pop_completed`: these are the loop's interleavings.
The Python control loop repeats the C++
loop's decisions, so that benchmarks can tell the two languages' overheads apart:
what it measures means something only if the two decide alike. Below the loop, the
CPU thread only enqueues work: the copy stream, the caller's compute streams and the
events between them decide what a kernel finds in the metadata buffers, and an adapter
between loop and model may copy, pad, stage or replay that metadata once more.
The Python scheduler calls the model functions directly, grows sequences page by
page in `PagedKVCache`, and preempts and recomputes when the pool is exhausted;
it is single-threaded, and its difficulty is the number of ways a step can end.

What is hard, and what makes each part correct:

* *C++ loop.* A stable decode cohort advances its device rows in place instead
  of rebuilding them, so state of an earlier step survives into a later one, past
  failures, retirements and arrivals. A step may fail between its two model
  calls. One cursor runs over the sampled tokens of three kinds of rows. It is
  correct if rows are what a rebuild would give, pages are partitioned, requests
  are served in order, answered once, with their own continuation, and the queue
  always drains.
* *Metadata transfer, graphs, adapters.* The CPU builds step n + 1 while the
  kernels of step n still run. Two buffers, one staging buffer and the static inputs
  of every graph are used again and again, and callbacks may raise after half of
  their work has been enqueued. It is correct if every kernel finds the metadata of
  its own step.
* *Paged cache.* Growth is all or nothing over several sequences, truncation and
  growth round with different formulas, and pages must keep their place;
  a slot that is given out again must not show what its last owner stored.
* *Python scheduler.* Slots, pages, lengths and token lists change in different
  loops of different handlers; each failure must leave them in step. It is correct
  if slots and pages are partitioned after every outcome, the cache holds what the
  requests think it holds, answers survive preemption, and preemption ends.

`PROJECT.json` lists the hazards one by one, at their lines, with the properties
that would catch them.

## Modules

    RequestService            the client's view: accept, generate, deliver
      ^ implemented by
    IterationLoop             the C++ loop
      IterationLoopProperties its properties and the refinement mapping
        MCIterationLoop       instances for TLC
        ControlAgreement      the loop and its Python twin in lockstep
          MCControlAgreement  (instantiates PythonControl)
          ControlAgreementProofs  the two loops agree, proved
        IterationLoopProofs   types, pages, delivery, budgets, order of service, proved
          IterationLoopReplayProofs  rows, tokens and the refinement, proved
    PythonControl             the Python control loop
    ModelRuntime              CPU thread, streams, events, buffers, adapters, graphs
      MCModelRuntime          configurations for TLC
      ModelRuntimeProofs      what kernels, copies and replays find, proved
    PagedKVCache              the cache; its operations are functions
      PagedForward            the cache with the contents of its pool
        PagedKVCacheProofs    pages, tables, lengths, and reading back, proved
        PagedGraphEngine      the single-sequence engines
      ^ instantiated by
    PagedScheduler            the Python scheduler
      PagedSchedulerProperties
        MCPagedScheduler
        PagedSchedulerProofs  slots, requests, pages and outputs, proved
          PagedSchedulerAnswerProofs  places, answers, budgets and promised pages, proved
    PrefillChunk              the bisection for the largest chunk, proved

**Tokens and the model call.** A token is known by its sequence and position:
`[req |-> r, at |-> p]` is the one at position `p` of request `r`. The model
(external) is the machine that writes the ids it is fed into the slots it is
given and continues the sequence it finds in the slots the block table names. A
wrong slot, position, length or table therefore gives a wrong token, which is
how metadata errors become visible in answers. Whether a token is an EOS is
arbitrary.

**IterationLoop.** The variables are the members of `IterationLoop` and
`Request`, and the locals of `step` that live across a callback. `pc` says where
the thread inside `step` is. `BeginStep`, `ScanRunning`, `ScanDone` and
`AdmitRequest` are the iterations of `schedule`; `ReplayDecode` is
`advance_decode_state`; `LaunchDecode`, `LaunchPrefill`, `LaunchMixed` build rows
up to the callback; `DecodeReturns`, `PrefillReturns`, `MixedReturns` are what
follows a successful callback, with `update_requests`; `CallbackFails` is the
catch block, after a call that may have written K/V; `AdvanceThrows` is a throw in
`advance_decode_state`, which is outside the try block; `RetireRequest` and
`EndStep` are the compaction. `SubmitRequest` and `PopCompleted` are enabled
between steps and while a callback runs (`ClientMayRun`), nowhere else: the loop
itself never gives up the interpreter lock.

**RequestService.** A client sees accepted requests, growing answers and
deliveries. In one step every request that has started and not ended gets its next
own token, together with the next ones in order of arrival; an answer ends at EOS
or the limit. `IterationLoopProperties!Service` maps the loop to it; scheduling,
pages, rows and failures are stuttering.

**PythonControl, ControlAgreement.** The control loop is a second machine with
state of its own. `ControlAgreement` steps both together, with the same client
calls, the same sampled tokens and the same failures, and `ControlsAgree` compares
their requests, pages and plans at every model call and between steps. The Python
step is one pass of plain loops, where the C++ model takes a step per iteration:
each of its loops is a function of its number of iterations (`Turns` over the running
requests, `Admissions`, and `Settled`, which sorts the requests into done and
retained), and the step is cut in two where it calls the model. The sampled tokens
reach the twin as a sequence, one token for each row of the calls (`RowTokens`), and
`Cursor` says which of them is a request's: rows of unfinished prompts count, their
tokens are not used.

**ModelRuntime.** Memory holds the number of the step that its contents belong to, and
a page table is known by the step that built it. `BeginStep`, `WaitHost`,
`WaitDevice`, `BuildDecode`/`BuildPrefill`/`BuildMixed`, the callbacks, `Sample`,
`Readback` and `Drain` are the CPU thread in `step`; they append operations to
`copyQ` and `computeQ`, which `CopyStep` and `ComputeStep` execute in order, with
waits and records of events as CUDA defines them (external). `copied` is the event
of the staging buffer, `consumed0` and `consumed1` those of the device buffers.

The code runs each step on what is then the caller's current stream
(`iteration_loop.cpp:914-919`), and the tests alternate two streams
(`test_iteration_loop.py:625-650`). So there is a second compute queue, `otherQ`:
`BeginStep` may exchange the two, after which `OtherStep` executes what the steps before
have left there, beside `ComputeStep` and ordered with it by events only. Two queues are
enough for a loop that keeps no metadata: a step enqueues nothing before `WaitDevice`,
which waits for the release of the buffer by the step before last, at the end of that
step's work; and a failed step drains its own stream. So when a step enqueues, at most the
step before it has work on another stream. `config.streams` says when a caller may change
the stream: `"one"` never, `"synchronized"` when nothing but records is left of the work
of the step before, `"any"` at any time.

One combination is left out of the passing run, and out of the theorem on kernels:
metadata kept from step to step (`reuse_stable_decode_metadata`) with `"any"`. There
`KernelsReadTheirBatch` fails, as TLC shows when `[Plain EXCEPT !.streams = "any"]` is
added to `MCConfigs`. The trace: a decode-only step seeds the state and its callback
returns CPU logits, so that `next_tokens.to(kCPU)` waits for nothing; the caller
changes its stream; the next step is a replay and launches `advance_decode_state` on
the new stream without waiting for an event; it may then execute before the rows of
the step before have arrived (TLC's shortest trace) or while that step's kernels still
read the rows it overwrites. The comment at `iteration_loop.cpp:923-924`, that the
readback has synchronised the compute stream, is true only of logits on the device. On
one stream the comment is not needed, since the stream itself orders the advance. The
tests do not combine them: those that change the stream do so without reuse. Deferred
decode rows and the static inputs of captured graphs are likewise checked on one
stream: the adapters say nothing of others.

A callback of any adapter is what it enqueues and what it keeps: an eager pass, a
refresh of static inputs with a replay, a staged and replayed prefill bucket, a
warm-up when a bucket is captured, a clone of staged decode metadata. It may raise
before or after it has enqueued that. An operation at the head of a queue may be
running, so what is asserted of it holds as long as it runs.

**PagedForward, PagedGraphEngine.** `PagedForward` adds what each slot of the pool
holds: `Forward` is `paged_forward`, `Written` the slot mapping of `write`,
`Outlived` says that a token its sequence has given up is stale although nothing
clears it. `PagedGraphEngine` is `generate` of the two single-sequence engines over
that pool; `Capture` is the warm-up that stores to slot zero.

**PagedKVCache** states the operations as functions on a record of lengths,
tables and free list, so that the scheduler can chain them in one of its own
steps, and as a machine of its own for the properties of any calling sequence.

**PagedScheduler.** A step is planned (`PlanIteration`: decode everything, admit
what fits, cut chunks) and then ends one way: `DecodeStep`, `PrefillStep`,
`MixedStep`, `EmptyStep`, `TooLongFails` (a sequence past `max_seq_len`),
`ModelFails`, `SamplingFails`, or `Preempt`. Two steps per `step()` lose nothing,
because nothing interleaves; the plan is then a state that properties can be
stated about. `Outcome` is the common tail: grow, commit decode rows, commit
prompts, finish, or roll back what was not committed.

## Runs

The bounds on requests are `MaxRequests` = 3 (2 in one run). Three requests
on two rows or slots are the least that make one queue behind a full batch, one
retire while another goes on, and one be admitted into pages another has left.

| Run | Question | Bounds |
|---|---|---|
| `IterationLoopSeparate` | Do pages, rows, order and answers stay right with separate callbacks, replay, failing callbacks and clients in the middle of a step; does the loop implement `RequestService`; does its Python twin decide alike? | 2 rows, 2 prefill tokens a step, context 5, pages of 2; shapes with a prompt cut into chunks, outputs that cross a page, and refused ones |
| `IterationLoopPacked` | The same for rows, tokens and the context that covers the rows, with one packed callback per mixed step; is every request answered; is the fair service implemented? | context 4, 3 prefill tokens a step, two shapes |
| `IterationLoopAdvance` | With packed steps and a throwing `advance_decode_state`: are answers lost or repeated, does a plan ever exceed its buffers, does a step ever return idle over unfinished work, or serve some and starve others? | as Separate, packed |
| `IterationLoopAdvanceRetry` | *violated*: are replayed rows still right after such a throw? | 2 requests |
| `ModelRuntime` | Does every kernel, copy and replay find the metadata of its own step, whatever the streams' timing and wherever a callback raises? | 4 steps; seven configurations (`MCConfigs`): eager on one stream, on two without metadata replay, and on two that change when the step before is done; graphs with padded batches and no overlap, graphs with packed steps, deferral with and without clones; prefill bucket of 2, one decode bucket |
| `ModelRuntimeStaleTable` | *violated*: the same for the cached page table when batches are padded | 3 steps, one address for temporaries |
| `PagedKVCache` | Any order of forward calls, frees, truncations and resets on three sequences: do pages stay in one place and does every sequence read back its own tokens? | 5 pages of 2, length at most 4 |
| `CaptureSlotZero` | *violated*: does the capture of `PagedGraphEngine` spare the prompt? | 2 pages of 4 |
| `SchedulerTight` | Do slots, pages, lengths and answers stay right when the pool is too small, calls fail, requests run past `max_seq_len` and prompts exceed the pool; does `step` ever raise for an empty plan without cause? | 2 slots, 5 pages of 1, length at most 5 |
| `SchedulerLive` | Does every request that fits the pool finish, within the budgets, although sampling may fail late? | 3 slots, 7 pages of 1, attention budget 2, so a prompt is held back and one behind it could bypass it |
| `SchedulerOvertaken` | *violated*: are prompts served first come first served? | early failures |
| `SchedulerLateFailure` | *violated*: does the cache match the requests after a late failure? | late failures |

Bounds that are not the code's: `MaxRequests` (requests accepted, or accepted
between two resets), `Shapes` (what clients offer), `MaxSteps` (steps of
`ModelRuntime`; both device buffers have been used twice after four, and everything
a step waits for is at most two steps old), `Requests` of `PagedGraphEngine` (calls
whose pool fits), and `DriftBound` (how often a throw in `advance_decode_state` may
push the device rows before the guard stops it; it only limits repetition of the
same error). Pages of one token make the scheduler's pool scarce with few tokens;
pages of two are used where boundaries inside a page matter.

Every property has a mutant in `PROJECT.json`: a definition of the model changed
the way a slip in the code would change it (a reservation dropped, a page count
rounded down, a page freed twice, an order swapped), under which the same run
finds the property violated.

### What the violated runs show

1. *A throw inside `advance_decode_state` advances rows twice.* It adds to
   positions and lengths in place before its first allocation and runs before the
   try block, so `decode_state_valid_` survives and the retry replays.
2. *Rollback breaks first come first served.* Prompts that were in the plan wait
   again, those admitted without a chunk stay ahead of them.
3. *A failure after the decode rows of a mixed step were committed* truncates
   sequences whose requests keep the new token; cache and request are one apart.
4. *A cached page table can be another cohort's.* With
   `enable_stable_decode_table_cache` a decoder refreshes its static table only when
   address or version of the source change. Padding makes a new tensor for every
   cohort, of version zero and at an address the allocator may have used before. The
   accepted configuration leaves the option off, and without padding the versions of
   the two device buffers tell cohorts apart: the passing run has both cases.
5. *A capture after the prefill overwrites a prompt token.* The pool of
   `PagedGraphEngine` has no spare page, so when prompt and answer end in the same
   page, slot zero is the prompt's when the warm-up writes it.

## Fairness

*C++ loop* (`Fairness`). Weak fairness on `Schedule \/ Launch \/ Compact`: the
driver loops calling `step`, and inside a step the thread runs. Strong fairness on
each callback's return: the model may fail any finite number of times in a row,
but not the same kind of call for ever. Strong rather than weak, because a failure
ends the step and disables the return until the next one. Strong fairness on
`PopCompleted`: the driver collects outputs between steps; it is disabled while
there is nothing to collect or the loop is inside `schedule`. Nothing is assumed of
`SubmitRequest`.

*Scheduler* (`FairSpec`). Weak fairness on `Step`, as `run()` keeps stepping. No
fairness on failures. The live run allows failures after the decode rows were
committed (each such step still makes progress) and excludes `"early"` ones: a model
that fails every second chunk makes rollback free all prefill progress for ever,
so nothing can be promised about it.

Both liveness properties say that the engine catches up with its clients whenever
they pause (`[]<>`), so they also hold when requests keep arriving.

## Proofs

The theorems hold for every value of the constants that the named assumptions of a
module allow (`ConfigAssumption`, `CacheAssumption`, `SchedulerAssumption`: the checks
of the constructors; `RuntimeAssumption`: which adapters can be combined, and a
decoder has at least one bucket), every number and shape of requests, and every
behaviour of the model and of failures. Five hypotheses restrict single theorems. The first
four are there because a run or a listed hazard shows what happens without them:
`~AdvanceMayThrow` in the four theorems of the loop that go through replayed rows
(`IterationLoopAdvanceRetry`), `"late" \notin Failures` in two about the scheduler
(`SchedulerLateFailure`), `NonEmptyPrompts` in the one about its plans, and
`NoStaleTables` in the one about replayed page tables (`ModelRuntimeStaleTable`). The fifth
is about the caller's streams: `OrderedOnly` (one compute stream, or nothing kept from step
to step and nothing staged) in the theorem about kernels, and `OneStreamOnly` in those about
captured graphs and about sampling. The counterexample given above under *ModelRuntime* shows
why the former is needed; the latter is what the adapters take for granted. `TypesHold` and
`CopiesReadWhatWasBuilt` need neither.

### The C++ loop

* `TypeCorrect`: `Spec => []TypeOK`. `TypeOK` is not inductive: a slot computed
  from a block table is in the pool only if the table covers the row, a chunk is a
  natural number only if the plan does not run past the prompt. The invariant
  `TypeInv` adds
  `QueueInv` (running and pending are sorted by id and disjoint),
  `AcceptedInv` (what `submit_request` checked stays true),
  `WaitingInv` (a request that waits is untouched),
  `RunningInv` (a running request has the pages of its longest sequence and has
  not ended, except during compaction),
  `PlanInv` (plans name running requests, chunks are within prompts) and
  `CursorInv` (tokens sampled so far are those of the rows launched so far).
  One lemma per action shows that it keeps `TypeInv`; `SlotInRange`,
  `CeilDivMonotone` and `DecodeContext` carry the arithmetic of pages.
* `PagesPartition`: `Spec => []BlockPartition`. `PagesInv` is the partition stated
  page by page. Only `AdmitRequest` (which pops from the back of the free list, or
  puts back what it popped) and `RetireRequest` (which appends a request's pages)
  disturb it; the lemmas `PopSplits`, `PushJoins` and `WithoutMembers` say what
  those list operations do to the set of elements.
* `AdmissionFunded`: `Spec => []AdmissionAlwaysFunded`. With fewer running requests
  than rows, the held pages are at most `Len(running) * MaxBlocks` (an injection
  from held pages into running requests times `MaxBlocks`), so the pool of
  `MaxBatchSize * MaxBlocks` pages leaves `MaxBlocks` free. The failure branch of
  the admission loop is thus unreachable, whatever the page size.
* `DeliveredOnce`: `Spec => []ExactlyOnce`. `DeliveryInv` says that the answers in
  `completed` and those handed out are of distinct requests, that none of them waits
  or runs, and that every accepted request is in one of the four places. Only
  `Submit`, `AdmitRequest`, `RetireRequest` and `Pop` move a request, and each takes
  it out of one place as it puts it into the next; a failed step in between moves
  none, which is why no answer is lost or repeated.
* `PlansFitBuffers`: `Spec => []PlanFitsBuffers`. `RowsInv` ties the planned rows to
  the cursor of the scan (fewer than `scan`, which stays within `running`), so that
  one more always finds a row; `TokensInv` says that the planned tokens and what is
  left of the budget are at most `MaxPrefillTokens`. `ChunkAppended` counts the tokens
  of a plan one chunk further, with the cardinality theorems.
* `RequestsServedInOrder`: `Spec => []ServedInOrder`. The queue is ordered by
  `QueueInv`; that nothing is begun early is `OrderInv`: `BegunInOrder` is the property
  itself, `PlanOrder` and `Behind` say that a plan names requests in the order of
  `running` and only those the scan has passed, and `AllServed` is what makes it
  inductive: budget is left over only when every earlier prompt in the plan is
  finished by it.
* `ReplayIsRebuild`: `~AdvanceMayThrow => (Spec => []ReplayMatchesRebuild)`, and
  `ContextCoversRows` for `MaxContextCoversRows`. `CohortInv` says that a decode plan
  is in running order. `DeviceInv` says that in a decode call the rows are a rebuild's,
  and that between the calls they are one advance short of it, for every member of the
  cohort that still runs, through retirements, arrivals, pages handed out and
  failures. `AdvanceIsRebuild` is the step: `advance_decode_state` on a row, with the
  token the request was given, is the row that request has now. `ReservedIsSame` says
  that the same ids later still name the same requests. The assumption is
  needed: `IterationLoopAdvanceRetry` is the counterexample without it.
  `LongestCovers` shows that the maximum of the contexts covers each of them; as
  induction over data is not to be had, it goes by the pigeonhole principle over the
  set of contexts.

* `AnswersContinue`: `~AdvanceMayThrow => (Spec => []OutputsContinueTheirPrompt)`, the
  promise of the loop as a whole. `StoredInv` says that the slots of a running request
  hold all of its sequence but the newest token, which is sampled and not stored yet;
  `SampledInv` says the same of the decode rows between the two calls of a step,
  `ContinueInv` and `EndedInv` state the property for running and ended requests.
  `SlotsDiffer` (from the page partition: no two positions of running requests share a
  slot) gives `CallKeeps` and `CallStores`: a call stores the tokens of its rows and
  spoils nobody's, so one that fails, and is repeated, does no harm. `PredictsNext`
  then gives each row its request's next token, for rows that are built, replayed
  (`DeviceInv`) or packed, and `FinishAnswers` follows the tokens through
  `update_requests`. The model's part (`WriteRows`, `Predict`) is the external
  assumption: it stores each id in the slot it is given and continues the sequence
  that the table selects.
* `LoopImplementsService`: `~AdvanceMayThrow => (Spec => ImplementsService)`, the
  refinement of `RequestService`. `AnswerIs` reads the mapping: the client sees a
  request's live output until it leaves `running`, and from then on the answer that
  left. `ServiceInv` is what the other invariants do not say: `EndsInv`, an output
  has ended (EOS or limit) exactly when its request is `COMPLETED` or has left, and
  `AllDecoded`, a plan decodes every running request whose prompt is done. Each kind of
  step has its lemma: `SubmitAccepts`; `PopDelivers` (all that has ended is handed
  out, because clients never run during the compaction); `RetireUnseen` (an answer
  does not change as it moves); `FinishGenerates`, the one with content: the requests
  a step serves are open, they include all that have started (`AllDecoded`), they are
  begun in order of arrival (`BegunInOrder`), and each gets its own next token
  (`ContinueInv`). All other steps are stuttering, the failing ones included. The
  theorem is about safety; that the loop keeps serving (`ImplementsFairService`) needs
  `ENABLED` and stays with TLC.
* `EmptyStepsHaveNoWork`: `Spec => []EmptyPlanMeansNoWork`, and `StepsServe`:
  `Spec => EveryStepServes`, with no hypothesis on failures. They are what the liveness
  of the loop rests on, as safety: a step plans nothing only if nothing runs or waits,
  and one that ends well gives all that decode a token and the oldest unfinished prompt
  some of its tokens. `WorkInv` is their invariant: a plan without chunks
  still has its whole budget, a call has rows or chunks, and one without chunks
  is made when every prompt is done (`NoChunks`: with budget left the scan would have
  taken an unfinished one). Admission ends for want of rows, budget or requests, never
  of pages, which is `AdmissionFunded`. With `OrderInv` the first unfinished
  prompt is then the first in the plan, and `FinishServes` follows the cursor to it.

### The two control loops

* `TwinAlwaysAgrees`: `AgreementSpec => []ControlsAgree`. Between two points where they
  are compared, the C++ loop takes many steps and the twin none, or one that already has
  the result of all of them, so the property is far from inductive. `AgreeInv` says at
  every iteration what the twin's pass makes of it: during the scan, the C++ plan so far
  is the twin's after as many turns (`ScanInv`); during admission, the C++ queues are
  the twin's after as many iterations (`AdmitInv`); in a call, the plans are equal
  (`CallInv`); during the compaction, where the twin has already finished its step, its
  lists are what its last loop would make of those that the C++ loop has left
  (`RetireInv`). `PromptInv` (no more of a prompt is computed than there is) is what
  makes the twin's tests for equality the C++ loop's for the order. `TurnsUnfold`,
  `AdmissionsUnfold` and `SettledUnfold` give the twin's loops one iteration at a time,
  and `FromTo` the induction over iterations, by the least counterexample. The
  delicate steps are `AdmitOfObjects` (both take the same pages off the list: the twin
  tests their number first, C++ pops and puts back, which `PagesFund` shows never
  happens), `CursorFinds` and `AdvancesObject` (each control has its own cursor over
  the sampled tokens, and both give every request the token of the same row), and
  `DoneLeaves`: removing finished requests one by one, front to back, gives the lists
  that one pass over all of them gives, pages in the same order.
  `DoneIsCompleted` takes from `ServiceInv` that the twin's test of the newest token
  finds the requests that C++ has marked. The theorem needs no hypothesis on failures:
  both loops go by the same tokens, right or wrong. `AgreementImplementsLoop` adds that
  the loop beside its twin is the loop alone.

### The cache and its pool

* `CacheTypeCorrect`, `CachePagesPartitioned`, `CacheTablesCover`,
  `CacheTablesKeepTheirPages`: the conjunction `IInv` of `TypeOK`, `PagesPartitioned`
  and `TablesCoverLengths` is inductive (each of the three needs the others: pages
  are counted by lengths, and growth pops as many as the lengths lack). The work is
  in `allocate_block`, which pops for all sequences at once: the pages it takes for
  two sequences are disjoint runs of the free list. The two roundings of
  `allocate_block` and `truncate` agree for every page size.
* `PoolReadsBack`: `ForwardSpec => []ReadsBack`. Live positions of all sequences have
  pairwise distinct slots, because pages are partitioned and a position has its own
  offset within its page; so a pass stores each new token in a slot that no live
  position reads, and nothing that is freed or truncated changes what remains.
* `ForwardIsCache`: `ForwardSpec => Spec`, which hands the theorems about the cache to
  the composed specification that the run checks.

### The Python scheduler

* `SchedulerTyped`, `SlotsAndRequestsInOnePlace`, `SchedulerPagesAccounted`, for every
  kind of failure. None of the properties is inductive alone. `IInv` adds to `TypeOK`
  what they need of each other: `Placed` (slots and requests in one place, with the
  lists as sets of items), `PlanFollows` (a plan names running sequences and a part of
  the prompts, in their order, with chunks no longer than what remains), `RequestsFit`
  (only what runs has output of its own, and only prompts under way have computed
  tokens, within their length) and `Good(cache)`, the invariant of `PagedKVCache`.
  The scheduler computes with caches in the middle of a step, so the cache's lemmas
  are stated for any cache, and `FreeAllGood` and `CutBackGood` carry them through the loops over slots. A call ends by `Outcome`
  whatever happens in it; `CallEndings` lists the ways, and `OutcomePlaced`,
  `OutcomeTyped`, `OutcomeFits` and `CacheAfter` treat them together. `AddRequest`,
  `PlanIteration`, `Preempt` and `Reset` have a lemma each.
* `NothingIsLost`: `Spec => OutputsOnlyGrow`, an action property, from the same
  invariant: what was folded into the prompt, what came since and what was delivered
  are one sequence, which a step extends by at most one token.
* `CacheFollowsRequests` and `AnswersContinue`, if no step fails late. `BInv` is their
  invariant. `PromptsInPlace` (a prompt's slot holds its computed tokens, a free slot
  none) holds whatever fails, and is proved without the hypothesis; `Continuing` adds
  that a running sequence holds all but its newest token, that the ids in those places
  are its own, and the answers so far. `RegularEnds` is where the hypothesis enters: a
  call is then rolled back or committed as a whole. `PredictIs` turns ids in their
  places into the next token of the sequence.
* `PlansStayWithinBudgets`, if prompts are not empty. `SpendingStep` follows the planning
  loop: after each turn the tokens and pairs of the chosen chunks and what is left make
  the budget, and as long as something is left the chunks are for the first prompts.
  The second part needs `Pending` (a prompt under way has tokens left, because the
  others have completed); an empty prompt is passed over.
* `EmptyPlansAreRefusals`: `Spec => []EmptyPlanOnlyForWantOfPool`, for every kind of
  failure; a run with an empty prompt is excused by the property itself, until `reset`.
  `step` raises for an empty plan in two ways, and this says that one cannot happen and
  the other is right. `FirstServed`: without decodes there is no limit on pairs, so the
  first prompt of the list always gets a chunk, hence nothing is under way or joins.
  `PoolIsFree`: then every slot is free (`Placed`), so holds nothing (`PromptsInPlace`),
  so has no pages (`Good`), and the pool is whole. `FirstAdmissible`: so the first in the
  queue joins unless it is larger than the pool, `CountIs` being exact (the planning
  loop stops at the first request that does not fit, and no earlier).
* `PromptsAloneFit`: `Spec => []PrefillAloneFits`. The reservation argument of
  `_planned_prefill_count`: `PromptsReserved` says that the pages promised to the
  prompts under way are no more than the pool has when nothing else holds any. It is
  kept because a request is admitted only if its pages are free beyond what is
  promised and missing, and nothing later makes a promise larger. Pages
  are counted as pairs of a slot and a number (`StackCount`, by cardinality), because
  the sums of the code are over lists and the partition is about sets.
* What the planning loop, the sums and the loops over slots compute is defined by
  functions over 0 .. n; `Recursion` and `UpTo` (by the least counterexample) give their
  steps, so no induction over data is needed.

### The chunk bisection

* `BisectionFindsLargest` and `BisectionNarrows`: for every prefix, limit and budget
  the loop of `max_chunk_for_attention_pairs` ends and returns the largest chunk the
  budget affords. `Between` is its invariant (the lower end is affordable, what lies
  above the upper end is not), and the floored pair count is monotone. This is
  what `PagedScheduler` takes its `LargestChunk` to be.

### The model runtime

`KernelsReadTheirOwnBatch`, `CopiesReadWhatWasBuilt`, `ReplaysReadTheirTable`,
`PiecesWriteTheirOwnRows`, `SamplesAreComputed`, `TypesHold`: for every set of
configurations that the hypotheses above allow, any number of steps and buckets, every size
of the prefill bucket, every timing of the streams and every place where a callback raises.

What holds whatever streams the caller uses is `CommonInv`: the types, the CPU thread's
control, the order of the copy queue, and that the copies under way read what was built for
them, since `WaitHost` lets the CPU thread build again only when none is left. It gives
`TypesHold` and `CopiesReadWhatWasBuilt`. The rest is two arguments, one for one compute
stream and one for two.

*One compute stream* (`IInv`).

The properties speak of the head of a queue; what makes them inductive is a statement
about all of it. `StreamsInv` executes the compute queue from the memory as it will be
once the copies under way have arrived (`Arrived`): every operation finds in it what it
has to (`Right`, for the sequence of memories that `Runs` names), and what the last one
leaves is what the CPU thread counts on for the operations it will append (`Ready`: the
retained decode rows, staged rows, the logits to be sampled, the slots of an uncaptured
bucket, and static tables that agree with the source their signature names). The rest
is what lets memory as it is stand in for memory as it will be:

* `CopiesInv`: a copy reads the staging buffer that was built for it, is followed by
  its record, and the compute stream waits for that record before it touches what the
  copy writes. So the head of the queue reads the same in both memories
  (`HeadUntouched`, `RightPut`), and a copy that arrives changes nothing in `Arrived`.
* `BuffersInv`, `RecordsInv`: all operations that touch a buffer come before a record
  of its event, and records count upwards, so once `WaitDevice` has passed, nobody
  touches the buffer and it may be rebuilt.
* `PlanInv`, `StagedInv`: what the CPU thread's place in `step` says about its plan, and
  when decode rows stay staged.
* `SignatureInv`, `TablesInv`: a signature names no version younger than the buffer's,
  and no page table is younger than the step.

`RunsOff` takes an executed operation off the front and `RunsPut` builds the next copies
under a queue that does not touch them; `PrefillRuns` and `GraphRuns` follow what one
callback enqueues, with its failure after any part. Each action has one lemma about the
streams and one about the CPU thread's variables, and `EveryStep` joins them. Failed steps
are the delicate case: a callback that raised leaves its operations behind, and only
`Drain` in the catch block makes the buffers free again. `NoStaleTables` (the cached page
table is not combined with padding) is a hypothesis of `ReplaysReadTheirTable` only: all
else, kernels' reads of padded batches included, holds without it.

*Two compute streams* (`OrderInv`), when nothing is kept from step to step and nothing staged.
Then no operation changes a device buffer, and the memory to come (`Coming`) can be compared
with what each operation of either queue needs, in whatever order the two streams are executed
(`Reads`). `KeepsOff` says of each queue that it waits for a copy before it touches what the
copy writes, or never touches it; `ReleasedIn`, that what touches a buffer comes before a
record of its event; `EventsInv`, that no event is recorded on both streams at once, so that a
record passed on one cannot stand for work left on the other. From these `OrderTake` shows that
when `WaitDevice` takes a buffer, neither stream has anything to do with it any more
(`Untaken`), and `TakenInv` keeps it so for the stream that the caller has left. `OrderHead`
brings the memory to come back to memory as it is. `KernelsReadTheirOwnBatch` is the
disjunction of the two arguments. Metadata replay with a stream that changes only when the
work of the step before is done is checked by TLC and not proved.

Only model-checked: the liveness properties `EveryRequestIsDelivered`,
`ImplementsFairService` and `EveryRequestFinishes` (liveness and `ENABLED` are out of the
prover's reach). Every invariant and every action property that a run expects to hold is
the property of a theorem. Liveness is proved as far as safety goes: `StepsServe`,
`EmptyStepsHaveNoWork` and `EmptyPlansAreRefusals` show that an engine that keeps stepping
never idles over work it could do; what they leave to TLC is that calls return (the
fairness) and, for the scheduler, that preemption does not undo progress for ever.

## What is left out, and why

* `Request.status` and `Request.slot` of the Python scheduler are written and never
  read. Its compatibility helpers (`_admit`, `_admit_batch`, `_prefill`,
  `_prefill_batch`, `_can_admit`) are not called by `step`. Metrics lists, and the
  loop's counters read only by tests and profilers, change nothing else.
* `max_prefill_chunk_size=None` (no chunk limit) is the case of a chunk as large as
  the token budget; the runs use a finite one.
* Empty prompts: `submit_request` refuses them. The Python `add_request` accepts
  one, and it then holds a slot for ever without a chunk to give it. Nothing says
  what should happen, so shapes with an empty prompt are left out, and the hazard is
  listed. The same goes for requests that pass `max_seq_len`: they are modelled
  (`TooLongFails`), nothing is promised about them, and the live run has none.
* A comment at `scheduler.py:610` says that the latest admitted request is evicted;
  the code evicts the latest to have finished its prompt. The model does what the
  code does, and no property depends on who is evicted.
* An adapter that staged the decode half of a step that then failed between its two
  callbacks refuses every later decode call. The model has this state; no comment
  or test says that the adapter should leave it.
* A batch below its bucket is padded with copies of row 0, which store to row 0's
  slot. They store the same values if equal inputs give equal outputs, which is
  arithmetic; the padded tables are modelled.
* `UnrolledCUDAGraphDecoder` and `FullMixedGraph`: the first is used by benchmarks
  only, the second is an experiment that no accepted configuration turns on. Both
  replay with static inputs as the modelled graphs do. The limit on the number of
  captured shapes only chooses between replay and the eager fallback, both of which
  `ModelRuntime` has.
* The shape of the token ids, positions and slot tensors is abstracted to rows; a
  packed batch is its rows in order.

### Not modelled

Most of the repository has no state to check: kernels and their arithmetic, the
baseline model and weight loading, configuration tables, and well over a hundred scripts
that measure, profile, plot or compare numerics; those alone are the larger part of
its lines. They call the engine through the operations modelled here and add no
transitions to it. The modules cover the control of the C++ loop, the scheduler,
the caches, the graph runtime and the adapter nearly whole, which is a small share of
the lines of the repository for that reason.

## Plan

1. **Done**: `IterationLoop` with `RequestService` and its twin `PythonControl`,
   `PagedKVCache` with `PagedForward`, `PagedGraphEngine`, `PagedScheduler`,
   `ModelRuntime`, `PrefillChunk`; the theorems above.
2. `FullMixedGraph` and `UnrolledCUDAGraphDecoder`, when a configuration uses them.
