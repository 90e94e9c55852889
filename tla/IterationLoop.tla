---------------------------- MODULE IterationLoop ----------------------------
(***************************************************************************)
(* The C++ iteration loop (engine/cpp/src/iteration_loop.cpp): continuous  *)
(* batching of requests over a paged KV cache.  One thread calls step();   *)
(* step schedules, builds the batch metadata, calls the model back once or *)
(* twice, and updates the requests.  While the model's Python callback     *)
(* runs, and between steps, other Python code may call submit_request and  *)
(* pop_completed; nothing else interleaves with step, so the loop          *)
(* iterations inside schedule and the final compaction are steps of their  *)
(* own (pc "scan", "admit", "retire") during which no client call occurs.  *)
(*                                                                         *)
(* A token is known by the sequence and position it belongs to: the token  *)
(* [req |-> r, at |-> p] is the one at position p of request r.  The model *)
(* (forward_fn) is the machine that writes the ids it is fed into the      *)
(* slots it is given and continues the sequence it finds in the slots the  *)
(* block table names: if the metadata are wrong, so is the token.          *)
(***************************************************************************)
EXTENDS Integers, Sequences, FiniteSets

CONSTANTS
  MaxBatchSize,      \* config_.max_batch_size
  MaxPrefillTokens,  \* config_.max_prefill_tokens_per_iter
  MaxContextLength,  \* config_.max_context_length
  BlockSize,         \* config_.block_size
  PackedMixedStep,   \* config_.packed_mixed_step
  ReuseStable,       \* config_.reuse_stable_decode_metadata
  AdvanceMayThrow,   \* whether advance_decode_state can fail half way
  MaxRequests,       \* bound: number of requests ever accepted
  Shapes             \* <<prompt length, max_output_tokens>> offered to submit

\* The checks of the constructor, and the types of the switches.
ASSUME ConfigAssumption ==
  /\ MaxBatchSize \in Nat \ {0}
  /\ MaxPrefillTokens \in Nat \ {0}
  /\ MaxContextLength \in Nat \ {0}
  /\ BlockSize \in Nat \ {0}
  /\ PackedMixedStep \in BOOLEAN
  /\ ReuseStable \in BOOLEAN
  /\ AdvanceMayThrow \in BOOLEAN
  /\ MaxRequests \in Nat
  /\ Shapes \subseteq Int \X Int

VARIABLES
  nextId,     \* next_request_id_
  promptLen,  \* prompt_ids.size() of each request
  maxOutput,  \* max_output_tokens of each request
  pending,    \* pending_queue_
  running,    \* running_requests_
  status,     \* Request::status
  computed,   \* num_prompt_tokens_computed
  outputs,    \* output_ids
  blocks,     \* block_ids
  free,       \* free_blocks_, allocated from the back
  completed,  \* completed_outputs_
  delivered   \* history: everything pop_completed ever returned

VARIABLES
  pc,          \* where the thread inside step() is
  scan,        \* loop index of schedule over running
  budget,      \* prefill_budget
  decodePlan,  \* plan.decode_requests
  prefillPlan, \* plan.prefill_requests with plan.prefill_chunk_sizes
  isMixed,     \* current_step_is_mixed_
  decoded      \* model_output between the decode and the prefill callback

VARIABLES
  dev,         \* decode rows of the active device buffer
  stateValid,  \* decode_state_valid_
  stateIds,    \* decode_state_request_ids_
  retained,    \* retained_decode_tokens_, <<>> when undefined
  maxContext,  \* max_decode_context_length_
  kv           \* external: what each slot of the K/V pool holds

requestVars == <<nextId, promptLen, maxOutput>>
poolVars    == <<pending, running, status, computed, outputs, blocks, free>>
clientVars  == <<completed, delivered>>
planVars    == <<scan, budget, decodePlan, prefillPlan>>
deviceVars  == <<dev, stateValid, stateIds, retained, maxContext>>
vars == <<requestVars, poolVars, clientVars, pc, planVars, isMixed, decoded,
          deviceVars, kv>>

-----------------------------------------------------------------------------
(* Sizes, tokens and slots *)

Reqs == 0 .. (MaxRequests - 1)

CeilDiv(n, d) == (n + d - 1) \div d
\* Mutant: the min with the budget is left out.
Smaller_First(m, n) == m
Smaller(m, n) == IF m <= n THEN m ELSE n

\* Mutant: the pages per request rounded down.
MaxBlocks_Floor == MaxContextLength \div BlockSize
MaxBlocks   == CeilDiv(MaxContextLength, BlockSize)
TotalBlocks == MaxBatchSize * MaxBlocks
Blocks      == 0 .. (TotalBlocks - 1)
Slots       == 0 .. (TotalBlocks * BlockSize - 1)

\* No token: what an unwritten slot holds and what a confused model predicts.
Garbage == [req |-> -1, at |-> -1]
Places  == [req : Int, at : Int]
Tokens  == [req : Int, at : Int, eos : BOOLEAN]

Place(token) == [req |-> token.req, at |-> token.at]

TotalTokens(r)       == promptLen[r] + Len(outputs[r])
IsPrefillComplete(r) == computed[r] >= promptLen[r]
BlocksNeeded(r)      == CeilDiv(promptLen[r] + maxOutput[r], BlockSize)

\* Table entries past the row's own pages are the zeroes of the padding.
SlotAt(table, pos) ==
  LET page == pos \div BlockSize
      block == IF page < Len(table) THEN table[page + 1] ELSE 0
  IN  block * BlockSize + (pos % BlockSize)

-----------------------------------------------------------------------------
(* The rows of a model call *)

\* Mutant: a decode row is always fed the end of the prompt.
LastToken_Prompt(r) == [req |-> r, at |-> promptLen[r] - 1]

\* The last token of a request: its newest output or the end of its prompt.
LastToken(r) ==
  IF outputs[r] = <<>>
  THEN [req |-> r, at |-> promptLen[r] - 1]
  ELSE Place(outputs[r][Len(outputs[r])])

\* One row of build_decode_batch or of the decode part of build_mixed_batch.
DecodeRow(r, includeReserved) ==
  LET total   == TotalTokens(r)
      visible == IF includeReserved THEN Len(blocks[r])
                                    ELSE CeilDiv(total, BlockSize)
  IN  [toks  |-> <<[id   |-> LastToken(r),
                    pos  |-> total - 1,
                    slot |-> SlotAt(blocks[r], total - 1)]>>,
       len   |-> total,
       table |-> SubSeq(blocks[r], 1, visible)]

\* One sequence of build_prefill_batch or of its part of build_mixed_batch.
PrefillRow(item) ==
  LET r       == item.req
      start   == computed[r]
      context == start + item.chunk
  IN  [toks  |-> [j \in 1 .. item.chunk |->
                   [id   |-> [req |-> r, at |-> start + j - 1],
                    pos  |-> start + j - 1,
                    slot |-> SlotAt(blocks[r], start + j - 1)]],
       len   |-> context,
       table |-> SubSeq(blocks[r], 1, CeilDiv(context, BlockSize))]

DecodeRows(includeReserved) ==
  [i \in 1 .. Len(decodePlan) |-> DecodeRow(decodePlan[i], includeReserved)]
PrefillRows == [i \in 1 .. Len(prefillPlan) |-> PrefillRow(prefillPlan[i])]

\* Row i of the active buffer; past the rows built in it, the buffer holds no
\* row of this cohort.
StaleRow  == [toks |-> <<[id |-> Garbage, pos |-> 0, slot |-> 0]>>,
              len |-> 0, table |-> <<>>]
DevRow(i) == IF i <= Len(dev) THEN dev[i] ELSE StaleRow

\* Mutant: the slot is counted up instead of looked up in the table.
AdvanceRow_NextSlot(row, token) ==
  LET last == row.toks[1]
  IN  [toks  |-> <<[id |-> token, pos |-> last.pos + 1, slot |-> last.slot + 1]>>,
       len   |-> row.len + 1,
       table |-> row.table]

\* advance_decode_state on one device row: next id, position, length and slot.
AdvanceRow(row, token) ==
  LET pos == row.toks[1].pos + 1
  IN  [toks  |-> <<[id |-> token, pos |-> pos, slot |-> SlotAt(row.table, pos)]>>,
       len   |-> row.len + 1,
       table |-> row.table]

\* External: the model writes each id it is fed into that token's slot ...
Written(rows) ==
  UNION {{rows[i].toks[j] : j \in 1 .. Len(rows[i].toks)} : i \in 1 .. Len(rows)}
WriteRows(rows) ==
  [s \in Slots |->
     IF \E w \in Written(rows) : w.slot = s
     THEN LET w == CHOOSE w \in Written(rows) : w.slot = s
          IN  IF w.id.at = w.pos THEN w.id ELSE Garbage
     ELSE kv[s]]

\* ... and continues the sequence that each row's table and length select.
Predict(row, cache) ==
  LET first == cache[SlotAt(row.table, 0)]
  IN  IF \A p \in 0 .. (row.len - 1) :
           cache[SlotAt(row.table, p)] = [req |-> first.req, at |-> p]
      THEN [req |-> first.req, at |-> row.len]
      ELSE Garbage

\* The sampled tokens of a call; which of them are EOS is up to the model.
Sampled(rows, eos) ==
  [i \in 1 .. Len(rows) |->
     LET place == Predict(rows[i], WriteRows(rows))
     IN  [req |-> place.req, at |-> place.at, eos |-> eos[i]]]

-----------------------------------------------------------------------------
(* submit_request and pop_completed: the clients' calls *)

\* Clients run while the thread is outside step() or in the Python callback.
ClientMayRun == pc \in {"idle", "decode", "prefill", "mixed"}

\* What submit_request lets through; anything else it rejects by throwing.
ValidShape(shape) ==
  /\ shape[1] > 0
  /\ shape[2] > 0
  /\ shape[1] <= MaxContextLength
  /\ shape[2] <= MaxContextLength - shape[1]

SubmitRequest(shape) ==
  /\ ClientMayRun
  /\ nextId < MaxRequests
  /\ ValidShape(shape)
  /\ promptLen' = [promptLen EXCEPT ![nextId] = shape[1]]
  /\ maxOutput' = [maxOutput EXCEPT ![nextId] = shape[2]]
  /\ pending' = Append(pending, nextId)
  /\ nextId' = nextId + 1
  /\ UNCHANGED <<running, status, computed, outputs, blocks, free, clientVars,
                 pc, planVars, isMixed, decoded, deviceVars, kv>>

\* Mutant: the outputs are returned and not cleared.
PopCompleted_Keeps ==
  /\ ClientMayRun
  /\ completed # <<>>
  /\ delivered' = delivered \o completed
  /\ UNCHANGED <<completed, requestVars, poolVars, pc, planVars, isMixed,
                 decoded, deviceVars, kv>>

PopCompleted ==
  /\ ClientMayRun
  /\ completed # <<>>
  /\ delivered' = delivered \o completed
  /\ completed' = <<>>
  /\ UNCHANGED <<requestVars, poolVars, pc, planVars, isMixed, decoded,
                 deviceVars, kv>>

-----------------------------------------------------------------------------
(* schedule: one pass over running, then admission *)

BeginStep ==
  /\ pc = "idle"
  /\ scan' = 1
  /\ budget' = MaxPrefillTokens
  /\ decodePlan' = <<>>
  /\ prefillPlan' = <<>>
  /\ pc' = "scan"
  /\ UNCHANGED <<requestVars, poolVars, clientVars, isMixed, decoded,
                 deviceVars, kv>>

\* Mutant: a chunk is not charged to the budget.
BudgetAfter_Unspent(chunk) == budget
BudgetAfter(chunk) == budget - chunk

\* Decode every request whose prompt is done; give the others a chunk while
\* the budget lasts.  (The code makes two passes; they do not interact.)
ScanRunning ==
  /\ pc = "scan"
  /\ scan <= Len(running)
  /\ LET r     == running[scan]
         chunk == Smaller(promptLen[r] - computed[r], budget)
     IN  IF IsPrefillComplete(r)
         THEN /\ decodePlan' = Append(decodePlan, r)
              /\ UNCHANGED <<prefillPlan, budget>>
         ELSE IF budget > 0
         THEN /\ prefillPlan' = Append(prefillPlan, [req |-> r, chunk |-> chunk])
              /\ budget' = BudgetAfter(chunk)
              /\ UNCHANGED decodePlan
         ELSE UNCHANGED <<decodePlan, prefillPlan, budget>>
  /\ scan' = scan + 1
  /\ UNCHANGED <<requestVars, poolVars, clientVars, pc, isMixed, decoded,
                 deviceVars, kv>>

ScanDone ==
  /\ pc = "scan"
  /\ scan > Len(running)
  /\ pc' = "admit"
  /\ UNCHANGED <<requestVars, poolVars, clientVars, planVars, isMixed, decoded,
                 deviceVars, kv>>

\* Mutant: the number of rows is not checked.
CanAdmit_Unlimited == pending # <<>> /\ budget > 0

CanAdmit ==
  /\ pending # <<>>
  /\ budget > 0
  /\ Len(running) < MaxBatchSize

\* Pages come off the back of the free list, one pop at a time.
PopBlocks(n) == [i \in 1 .. n |-> free[Len(free) - i + 1]]
\* Mutant: the last page popped stays on the list.
Unpopped_OffByOne(n) == SubSeq(free, 1, Len(free) - n + 1)
Unpopped(n) == SubSeq(free, 1, Len(free) - n)

\* One iteration of the admission loop.  When the pages run out, those popped
\* so far are pushed back in the order they were popped and admission stops.
AdmitRequest ==
  /\ pc = "admit"
  /\ CanAdmit
  /\ LET r     == Head(pending)
         need  == BlocksNeeded(r)
         chunk == Smaller(promptLen[r], budget)
     IN  IF need <= Len(free)
         THEN /\ blocks' = [blocks EXCEPT ![r] = PopBlocks(need)]
              /\ free' = Unpopped(need)
              /\ status' = [status EXCEPT ![r] = "PREFILLING"]
              /\ prefillPlan' = Append(prefillPlan, [req |-> r, chunk |-> chunk])
              /\ budget' = BudgetAfter(chunk)
              /\ running' = Append(running, r)
              /\ pending' = Tail(pending)
              /\ UNCHANGED pc
         ELSE /\ free' = PopBlocks(Len(free))
              /\ pc' = "launch"
              /\ UNCHANGED <<blocks, status, prefillPlan, budget, running, pending>>
  /\ UNCHANGED <<requestVars, computed, outputs, clientVars, scan, decodePlan,
                 isMixed, decoded, deviceVars, kv>>

-----------------------------------------------------------------------------
(* step: from the finished plan to the first model call *)

ScheduleDone == pc = "launch" \/ (pc = "admit" /\ ~CanAdmit)

HasDecode  == decodePlan # <<>>
HasPrefill == prefillPlan # <<>>

\* The rows scheduled, decode rows first, and the tokens the plan packs.
NumRows    == Len(decodePlan) + Len(prefillPlan)
RowReq(k)  == IF k <= Len(decodePlan) THEN decodePlan[k]
              ELSE prefillPlan[k - Len(decodePlan)].req
\* Mutant: only a chunk that ends its prompt is counted as computed.
RowChunk_Last(k) ==
  IF k <= Len(decodePlan) THEN 0
  ELSE LET item == prefillPlan[k - Len(decodePlan)]
       IN  IF computed[item.req] + item.chunk = promptLen[item.req] THEN item.chunk ELSE 0
RowChunk(k) == IF k <= Len(decodePlan) THEN 0
               ELSE prefillPlan[k - Len(decodePlan)].chunk
PlannedPrefillTokens ==
  Cardinality(UNION {{k} \X (1 .. prefillPlan[k].chunk) : k \in 1 .. Len(prefillPlan)})

\* Mutant: the first row's context instead of the longest.
LongestDecode_First == TotalTokens(decodePlan[1])
LongestDecode ==
  CHOOSE m \in {TotalTokens(decodePlan[i]) : i \in 1 .. Len(decodePlan)} :
    \A i \in 1 .. Len(decodePlan) : TotalTokens(decodePlan[i]) <= m

ClearPlan ==
  /\ scan' = 0
  /\ budget' = 0
  /\ decodePlan' = <<>>
  /\ prefillPlan' = <<>>

\* The catch block: the plan and the retained decode state are dropped, the
\* requests keep what they had.
Catch ==
  /\ isMixed' = FALSE
  /\ stateValid' = FALSE
  /\ retained' = <<>>
  /\ decoded' = <<>>
  /\ ClearPlan
  /\ pc' = "idle"

ReturnEmpty ==
  /\ ScheduleDone
  /\ ~HasDecode /\ ~HasPrefill
  /\ isMixed' = FALSE
  /\ ClearPlan
  /\ pc' = "idle"
  /\ UNCHANGED <<requestVars, poolVars, clientVars, decoded, deviceVars, kv>>

CanReuseDecodeState ==
  /\ ReuseStable
  /\ stateValid
  /\ ~HasPrefill
  /\ HasDecode
  /\ Len(retained) = Len(decodePlan)
  /\ stateIds = decodePlan

\* The stable cohort: the device rows advance in place, nothing is rebuilt.
ReplayDecode ==
  /\ ScheduleDone
  /\ CanReuseDecodeState
  /\ dev' = [i \in 1 .. Len(decodePlan) |-> AdvanceRow(DevRow(i), retained[i])]
  /\ maxContext' = LongestDecode
  /\ isMixed' = FALSE
  /\ pc' = "decode"
  /\ UNCHANGED <<requestVars, poolVars, clientVars, planVars, decoded,
                 stateValid, stateIds, retained, kv>>

\* Bound of the model: how far repeated failures may push the device rows.
DriftBound == MaxContextLength

\* advance_decode_state runs outside the try block.  Ids, positions and lengths
\* are updated in place before the first operation that allocates; if that one
\* throws, the slots are still the old ones and the state is still "valid".
AdvanceThrows ==
  /\ AdvanceMayThrow
  /\ ScheduleDone
  /\ CanReuseDecodeState
  /\ DevRow(1).len <= DriftBound
  /\ dev' = [i \in 1 .. Len(decodePlan) |->
               LET row == DevRow(i)
               IN  [toks  |-> <<[id   |-> retained[i],
                                 pos  |-> row.toks[1].pos + 1,
                                 slot |-> row.toks[1].slot]>>,
                    len   |-> row.len + 1,
                    table |-> row.table]]
  /\ isMixed' = FALSE
  /\ ClearPlan
  /\ pc' = "idle"
  /\ UNCHANGED <<requestVars, poolVars, clientVars, decoded, stateValid,
                 stateIds, retained, maxContext, kv>>

\* Decode rows from scratch.  A decode-only step seeds the stable state with
\* the whole reserved table; a mixed one invalidates it.
LaunchDecode ==
  /\ ScheduleDone
  /\ HasDecode
  /\ ~CanReuseDecodeState
  /\ ~(PackedMixedStep /\ HasPrefill)
  /\ LET seed == ReuseStable /\ ~HasPrefill
     IN  /\ dev' = DecodeRows(seed)
         /\ stateValid' = seed
         /\ stateIds' = IF seed THEN decodePlan ELSE stateIds
  /\ maxContext' = LongestDecode
  /\ isMixed' = HasPrefill
  /\ pc' = "decode"
  /\ UNCHANGED <<requestVars, poolVars, clientVars, planVars, decoded,
                 retained, kv>>

\* The active buffer flips and no decode rows are built in it.
LaunchPrefill ==
  /\ ScheduleDone
  /\ HasPrefill
  /\ ~HasDecode
  /\ dev' = <<>>
  /\ maxContext' = 0
  /\ isMixed' = FALSE
  /\ pc' = "prefill"
  /\ UNCHANGED <<requestVars, poolVars, clientVars, planVars, decoded,
                 stateValid, stateIds, retained, kv>>

MixedFits ==
  /\ NumRows <= MaxBatchSize
  /\ Len(decodePlan) + PlannedPrefillTokens <= MaxPrefillTokens + MaxBatchSize

LaunchMixed ==
  /\ ScheduleDone
  /\ PackedMixedStep
  /\ HasDecode /\ HasPrefill
  /\ dev' = <<>>
  /\ IF MixedFits
     THEN /\ maxContext' = LongestDecode
          /\ isMixed' = TRUE
          /\ pc' = "mixed"
          /\ UNCHANGED <<planVars, decoded, stateValid, retained>>
     ELSE /\ maxContext' = 0
          /\ Catch
  /\ UNCHANGED <<requestVars, poolVars, clientVars, stateIds, kv>>

-----------------------------------------------------------------------------
(* step: the model calls, update_requests and the compaction *)

\* Mutant: the limit is noticed one token late.
Stops_Late(r, out) == out[Len(out)].eos \/ Len(out) > maxOutput[r]
Stops(r, out) == out[Len(out)].eos \/ Len(out) >= maxOutput[r]

\* Row k's token goes to row k's request, if its prompt is done with this call.
UpdateRequests(tokens) ==
  LET Row(r)     == CHOOSE k \in 1 .. NumRows : RowReq(k) = r
      scheduled  == {RowReq(k) : k \in 1 .. NumRows}
      reached    == [r \in Reqs |-> IF r \in scheduled
                                    THEN computed[r] + RowChunk(Row(r))
                                    ELSE computed[r]]
      extended   == {r \in scheduled : reached[r] >= promptLen[r]}
      longer     == [r \in Reqs |-> IF r \in extended
                                    THEN Append(outputs[r], tokens[Row(r)])
                                    ELSE outputs[r]]
  IN  /\ computed' = reached
      /\ outputs' = longer
      /\ status' = [r \in Reqs |->
                      IF r \notin extended THEN status[r]
                      ELSE IF Stops(r, longer[r]) THEN "COMPLETED" ELSE "DECODING"]

\* Keep a decode-only step's tokens for the next replay, or invalidate.
RetainTokens(tokens) ==
  IF ReuseStable /\ HasDecode /\ ~HasPrefill
  THEN /\ retained' = [i \in 1 .. Len(decodePlan) |-> Place(tokens[i])]
       /\ UNCHANGED stateValid
  ELSE /\ retained' = <<>>
       /\ stateValid' = FALSE

FinishStep(tokens) ==
  /\ RetainTokens(tokens)
  /\ UpdateRequests(tokens)
  /\ decoded' = <<>>
  /\ pc' = "retire"
  /\ UNCHANGED <<pending, running, blocks, free, planVars, isMixed>>

DecodeReturns ==
  /\ pc = "decode"
  /\ \E eos \in [1 .. Len(dev) -> BOOLEAN] :
       IF HasPrefill
       THEN /\ decoded' = Sampled(dev, eos)
            /\ pc' = "prefill"
            /\ UNCHANGED <<poolVars, planVars, isMixed, stateValid, retained>>
       ELSE FinishStep(Sampled(dev, eos))
  /\ kv' = WriteRows(dev)
  /\ UNCHANGED <<requestVars, clientVars, dev, stateIds, maxContext>>

PrefillReturns ==
  /\ pc = "prefill"
  /\ \E eos \in [1 .. Len(prefillPlan) -> BOOLEAN] :
       FinishStep(decoded \o Sampled(PrefillRows, eos))
  /\ kv' = WriteRows(PrefillRows)
  /\ UNCHANGED <<requestVars, clientVars, dev, stateIds, maxContext>>

\* Mutant: prefill sequences are packed ahead of the decode rows.
MixedRows_PrefillFirst == PrefillRows \o DecodeRows(FALSE)
MixedRows == DecodeRows(FALSE) \o PrefillRows

MixedReturns ==
  /\ pc = "mixed"
  /\ \E eos \in [1 .. NumRows -> BOOLEAN] : FinishStep(Sampled(MixedRows, eos))
  /\ kv' = WriteRows(MixedRows)
  /\ UNCHANGED <<requestVars, clientVars, dev, stateIds, maxContext>>

\* The callback throws, or validate_forward_output rejects what it returned;
\* the kernels may or may not have written their rows by then.
CallbackFails ==
  /\ pc \in {"decode", "prefill", "mixed"}
  /\ LET rows == CASE pc = "decode"  -> dev
                   [] pc = "prefill" -> PrefillRows
                   [] pc = "mixed"   -> MixedRows
     IN  kv' \in {kv, WriteRows(rows)}
  /\ Catch
  /\ UNCHANGED <<requestVars, poolVars, clientVars, dev, stateIds, maxContext>>

\* Mutant: the pages of a retired request are forgotten.
Freed_Leak(r) == free
Freed(r) == free \o blocks[r]

IsRetired(i) == status[running[i]] = "COMPLETED"
Without(seq, i) == SubSeq(seq, 1, i - 1) \o SubSeq(seq, i + 1, Len(seq))

\* One completed request leaves running, front to back, and its pages go home.
RetireRequest ==
  /\ pc = "retire"
  /\ \E i \in 1 .. Len(running) :
       /\ IsRetired(i)
       /\ \A j \in 1 .. (i - 1) : ~IsRetired(j)
       /\ LET r == running[i]
          IN  /\ completed' = Append(completed, [id |-> r, out |-> outputs[r]])
              /\ outputs' = [outputs EXCEPT ![r] = <<>>]
              /\ free' = Freed(r)
              /\ blocks' = [blocks EXCEPT ![r] = <<>>]
              /\ running' = Without(running, i)
  /\ UNCHANGED <<requestVars, pending, status, computed, delivered, pc, planVars,
                 isMixed, decoded, deviceVars, kv>>

EndStep ==
  /\ pc = "retire"
  /\ \A i \in 1 .. Len(running) : ~IsRetired(i)
  /\ isMixed' = FALSE
  /\ ClearPlan
  /\ pc' = "idle"
  /\ UNCHANGED <<requestVars, poolVars, clientVars, decoded, deviceVars, kv>>

-----------------------------------------------------------------------------

Init ==
  /\ nextId = 0
  /\ promptLen = [r \in Reqs |-> 0]
  /\ maxOutput = [r \in Reqs |-> 0]
  /\ pending = <<>>
  /\ running = <<>>
  /\ status = [r \in Reqs |-> "PENDING"]
  /\ computed = [r \in Reqs |-> 0]
  /\ outputs = [r \in Reqs |-> <<>>]
  /\ blocks = [r \in Reqs |-> <<>>]
  /\ free = [i \in 1 .. TotalBlocks |-> i - 1]
  /\ completed = <<>>
  /\ delivered = <<>>
  /\ pc = "idle"
  /\ scan = 0
  /\ budget = 0
  /\ decodePlan = <<>>
  /\ prefillPlan = <<>>
  /\ isMixed = FALSE
  /\ decoded = <<>>
  /\ dev = <<>>
  /\ stateValid = FALSE
  /\ stateIds = <<>>
  /\ retained = <<>>
  /\ maxContext = 0
  /\ kv = [s \in Slots |-> Garbage]

Client == (\E shape \in Shapes : SubmitRequest(shape)) \/ PopCompleted

Schedule == BeginStep \/ ScanRunning \/ ScanDone \/ AdmitRequest

Launch == ReturnEmpty \/ ReplayDecode \/ LaunchDecode \/ LaunchPrefill
          \/ LaunchMixed

Compact == RetireRequest \/ EndStep

Failure == AdvanceThrows \/ CallbackFails

Next == \/ Client
        \/ Schedule
        \/ Launch
        \/ DecodeReturns
        \/ PrefillReturns
        \/ MixedReturns
        \/ Compact
        \/ Failure

Spec == Init /\ [][Next]_vars

\* The driver keeps calling step, and collects outputs between the calls; the
\* model does not fail the same kind of call for ever.
Fairness ==
  /\ WF_vars(Schedule \/ Launch \/ Compact)
  /\ SF_vars(DecodeReturns)
  /\ SF_vars(PrefillReturns)
  /\ SF_vars(MixedReturns)
  /\ SF_vars(PopCompleted)

FairSpec == Spec /\ Fairness

=============================================================================
