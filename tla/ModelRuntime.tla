----------------------------- MODULE ModelRuntime -----------------------------
(***************************************************************************)
(* One step of the iteration loop as the GPU sees it.  The CPU thread      *)
(* builds the batch metadata in one pinned host buffer, enqueues its copy  *)
(* into one of two device buffers on a copy stream, and enqueues the model *)
(* on the compute stream; CUDA events order the streams and tell the CPU   *)
(* when a buffer may be written again (iteration_loop.cpp, step and        *)
(* copy_batch).  The compute stream is the caller's current one, which a   *)
(* caller may change between steps: nothing but events orders two compute  *)
(* streams, and two are modelled.  The model is one of the adapters of     *)
(* model_adapter.py: eager, through captured graphs with static inputs     *)
(* (bucketed_graph_decoder.py, piecewise_prefill.py), or with the decode   *)
(* half of a mixed step staged until the prefill callback.                 *)
(*                                                                         *)
(* Memory holds the number of the step that its contents belong to: a      *)
(* kernel that runs for step n must find n in everything it reads.  A page *)
(* table is known by the step that built it, since a stable cohort is      *)
(* replayed with the table of an earlier step.                             *)
(***************************************************************************)
EXTENDS Integers, Sequences, FiniteSets

CONSTANTS
  Configs,  \* how loop and adapter may be configured, see ConfigType
  Buckets,  \* the batch sizes decode graphs are captured for
  PrefillBucket, \* tokens of the largest captured prefill bucket
  Temps,    \* addresses the caching allocator may return for a temporary
  MaxSteps  \* bound: steps with a plan

ConfigType ==
  [packed   : BOOLEAN,  \* config_.packed_mixed_step
   overlap  : BOOLEAN,  \* config_.overlap_prefill_build
   graphs   : BOOLEAN,  \* PiecewiseGraphModelAdapter rather than ModelAdapter
   deferred : BOOLEAN,  \* PackedMixedPiecewiseGraphModelAdapter
   clone    : BOOLEAN,  \* its clone_decode_metadata
   tableCache : BOOLEAN, \* enable_stable_decode_table_cache
   padding  : BOOLEAN,  \* batches may be smaller than their bucket or table
   reuse    : BOOLEAN,  \* config_.reuse_stable_decode_metadata
   streams  : {"one", "synchronized", "any"}]
     \* when the caller may run a step on another stream than the step before:
     \* never; when all work of that step is done; at any time

\* Python's deferral and the packed C++ step exclude each other.
ASSUME RuntimeAssumption ==
  /\ Configs \subseteq ConfigType
  /\ \A c \in Configs : c.deferred => c.graphs /\ ~c.packed
  /\ Buckets # {}
  /\ PrefillBucket \in Nat \ {0}
  /\ MaxSteps \in Nat

VARIABLES
  config,   \* fixed when loop and adapter are constructed
  pc,       \* where the CPU thread is inside step()
  step,     \* number of the current step
  plan,     \* what schedule() planned, see Plans
  active,   \* active_batch_metadata_
  stable,   \* decode_state_valid_
  cohort,   \* the step that built the active buffer's metadata
  decoding, \* whether a failed step left decode requests running
  output    \* whether the callback's result lives on the device

VARIABLES
  recorded, \* how often the CPU recorded each event
  reached,  \* the last record of each event its stream has passed
  valid,    \* consumed_valid
  copyQ,    \* operations the copy stream has not executed yet
  computeQ, \* ... those of the stream of the current step
  otherQ    \* ... and those of the caller's other compute stream

VARIABLES
  host,     \* external memory: the pinned staging tensors
  dev,      \* ... the two device buffers
  snapshot, \* ... the clones of the staged decode metadata
  static,   \* ... the inputs of each captured decode graph
  pieces,   \* ... the slots and valid_tokens of the captured prefill pieces
  results   \* ... the logits of the decode rows and of the prefill rows

VARIABLES
  version,   \* Tensor._version of each device buffer's decode table
  signature, \* _block_table_source_signature of each decoder
  pending,   \* _pending_mixed
  captured   \* whether the prefill bucket has been captured

cpuVars    == <<pc, step, plan, active, stable, cohort, decoding, output>>
eventVars  == <<recorded, reached, valid>>
memoryVars == <<host, dev, snapshot, static, pieces, results>>
adapterVars == <<version, signature, pending, captured>>
vars == <<config, cpuVars, eventVars, copyQ, computeQ, otherQ, memoryVars, adapterVars>>

Buffers == {0, 1}
Phases  == {"decode", "prefill", "mixed"}
Fields  == {"decode", "prefill", "mixed", "table"}
Logits  == {"decode", "prefill"}
Events  == {"copied", "consumed0", "consumed1"}
Consumed(b) == IF b = 0 THEN "consumed0" ELSE "consumed1"
Nothing == [none |-> TRUE]

\* A plan: whether it has decode and prefill rows; whether its decode rows are
\* the retained cohort; the bucket they go to and whether they must be padded
\* to it; and how many prompt tokens it packs.
Plans == [decode : BOOLEAN, prefill : BOOLEAN, replay : BOOLEAN,
          bucket : Buckets, padded : BOOLEAN, tokens : 1 .. (PrefillBucket + 1)]
IsMixed == plan.decode /\ plan.prefill

-----------------------------------------------------------------------------
(* Streams and events: external, as CUDA defines them *)

\* A stream that waits for an event waits for its last record so far.
WaitOp(event, count) == [op |-> "wait", event |-> event, count |-> count]
RecordOp(event, count) == [op |-> "record", event |-> event, count |-> count]

\* Event::synchronize returns.
Synchronized(event) == reached[event] = recorded[event]

\* Mutant: the compute stream is not made to wait for the copies.
TransferCompute_NoBlock == <<>>
\* transfer_phase, the compute stream's side.
TransferCompute == <<WaitOp("copied", recorded["copied"] + 1)>>

\* ... and the copy stream's: copy_batch waits for the buffer's consumers.
TransferCopy(phase) ==
  (IF valid[active]
   THEN <<WaitOp(Consumed(active), recorded[Consumed(active)])>> ELSE <<>>)
  \o <<[op |-> "copy", phase |-> phase, buf |-> active, step |-> step],
       RecordOp("copied", recorded["copied"] + 1)>>

-----------------------------------------------------------------------------
(* What the model enqueues *)

\* Metadata a model pass reads: tensors of a device buffer or the snapshot.
DecodeSource  == [from |-> "decode", buf |-> active]
PrefillSource == [from |-> "prefill", buf |-> active]
MixedSource   == [from |-> "mixed", buf |-> active]

\* An eager pass over the metadata of `sources`; `fills` are its logits.
Pass(sources, fills) ==
  [op |-> "pass", sources |-> sources, fills |-> fills, step |-> step,
   cohort |-> cohort]

\* BucketedGraphDecoder.decode and CUDAGraphDecoder.decode: refresh the static
\* inputs, the page table only when `table` says so, then replay.
GraphDecode(table) ==
  <<[op |-> "refresh", sources |-> {DecodeSource}, table |-> table,
     bucket |-> plan.bucket, step |-> step, cohort |-> cohort],
    [op |-> "replay", bucket |-> plan.bucket, step |-> step, cohort |-> cohort]>>

\* The signature of the table that is handed to the decoder.  Padding builds a
\* new tensor, at an address the allocator picks and of version zero.
Signatures ==
  IF plan.padded THEN {<<"temporary", a, 0>> : a \in Temps}
                 ELSE {<<"buffer", active, version[active]>>}

\* Mutant: the address alone, without the version.
MustCopyTable_NoVersion(new, old) ==
  ~config.tableCache \/ old = <<>> \/ SubSeq(new, 1, 2) # SubSeq(old, 1, 2)
MustCopyTable(new, old) == ~config.tableCache \/ new # old

\* Mutant: one token more than the bucket holds.
Fits_OffByOne(tokens) == tokens <= PrefillBucket + 1
\* PiecewisePrefill.pieces: a pass that fits the bucket is replayed, once its
\* graphs have been captured; a longer one is run eagerly.
Fits(tokens) == tokens <= PrefillBucket

\* Mutant: valid_tokens keeps its value.
Refilled_Stale(tokens) == pieces.valid
\* pieces[0].valid_tokens.fill_(tokens)
Refilled(tokens) == tokens

\* PiecewisePrefill.forward, or the eager fallback of its callers.
PrefillPass(sources, fills, tokens) ==
  IF config.graphs /\ Fits(tokens)
  THEN (IF captured THEN <<>> ELSE <<[op |-> "warmup"]>>)
       \o <<[op |-> "stage", sources |-> sources, tokens |-> tokens,
             step |-> step, cohort |-> cohort],
            [op |-> "pieces", sources |-> sources, fills |-> fills,
             tokens |-> tokens, step |-> step, cohort |-> cohort]>>
  ELSE <<Pass(sources, fills)>>

CaptureOf(tokens) == captured \/ (config.graphs /\ Fits(tokens))

-----------------------------------------------------------------------------
(* step: planning, and waiting for the buffers *)

\* Bound of the model, not a limit of the code.
MorePlans == step < MaxSteps

\* The caller's current stream is that of the step before, or another.
MayChangeStream ==
  \/ config.streams = "any"
  \/ config.streams = "synchronized" /\ \A k \in 1 .. Len(computeQ) : computeQ[k].op = "record"

\* getStream, with the advance of a replayed step as its first operation: it is
\* ordered behind what this stream holds, and behind nothing else.
TakeStream(changed, ops) ==
  /\ changed => MayChangeStream
  /\ computeQ' = (IF changed THEN otherQ ELSE computeQ) \o ops
  /\ otherQ' = IF changed THEN computeQ ELSE otherQ

\* advance_decode_state
AdvanceTo(s) == [op |-> "advance", buf |-> active, step |-> s, cohort |-> cohort]

\* schedule() and can_reuse_decode_state.  Decode requests of a failed step are
\* still running, so its retry decodes again; a replay keeps cohort and shape.
BeginStep ==
  /\ pc = "idle"
  /\ MorePlans
  /\ \E p \in Plans, changed \in BOOLEAN :
       /\ p.decode \/ p.prefill
       /\ decoding => p.decode
       /\ p.padded => config.padding
       /\ p.replay => /\ stable /\ p.decode /\ ~p.prefill
                      /\ p.bucket = plan.bucket /\ p.padded = plan.padded
       /\ ~p.prefill => p.tokens = 1
       /\ ~p.decode => p.bucket = plan.bucket /\ ~p.padded
       /\ plan' = p
       /\ pc' = IF p.replay THEN "decodeCall" ELSE "hostWait"
       /\ TakeStream(changed, IF p.replay THEN <<AdvanceTo(step + 1)>> ELSE <<>>)
  /\ step' = step + 1
  /\ UNCHANGED <<config, active, stable, cohort, decoding, output, eventVars,
                 copyQ, memoryVars, adapterVars>>

\* Mutant: the copies of the previous step are not waited for.
HostReusable_Always == TRUE
\* copied.synchronize(): the DMA has read the staging buffer.
HostReusable == Synchronized("copied")

WaitHost ==
  /\ pc = "hostWait"
  /\ HostReusable
  /\ pc' = "deviceWait"
  /\ UNCHANGED <<config, step, plan, active, stable, cohort, decoding, output,
                 eventVars, copyQ, computeQ, otherQ, memoryVars, adapterVars>>

\* consumed[1 - active].synchronize(), then the buffers change roles.
WaitDevice ==
  /\ pc = "deviceWait"
  /\ valid[1 - active] => Synchronized(Consumed(1 - active))
  /\ active' = 1 - active
  /\ cohort' = step
  /\ pc' = IF IsMixed /\ config.packed THEN "packed"
           ELSE IF plan.decode THEN "decode" ELSE "prefill"
  /\ UNCHANGED <<config, step, plan, stable, decoding, output, eventVars,
                 copyQ, computeQ, otherQ, memoryVars, adapterVars>>

-----------------------------------------------------------------------------
(* step: building and transferring a phase *)

Transferred(phase) ==
  /\ copyQ' = copyQ \o TransferCopy(phase)
  /\ computeQ' = computeQ \o TransferCompute
  /\ recorded' = [recorded EXCEPT !["copied"] = @ + 1]
  /\ UNCHANGED <<reached, valid, otherQ>>

\* build_decode_batch; without overlap_prefill_build the prefill half of the
\* staging buffer has been built by then.  A decode-only step may seed the state.
BuildDecode ==
  /\ pc = "decode"
  /\ host' = [host EXCEPT !["decode"] = step,
                          !["prefill"] = IF plan.prefill /\ ~config.overlap
                                         THEN step ELSE @]
  /\ version' = [version EXCEPT ![active] = @ + 1]
  /\ Transferred("decode")
  /\ stable' = (config.reuse /\ ~plan.prefill)
  /\ pc' = "decodeCall"
  /\ UNCHANGED <<config, step, plan, active, cohort, decoding, output, dev,
                 snapshot, static, pieces, results, signature, pending, captured>>

BuildPrefill ==
  /\ pc = "prefill"
  /\ host' = [host EXCEPT !["prefill"] = step]
  /\ Transferred("prefill")
  /\ pc' = "prefillCall"
  /\ UNCHANGED <<config, step, plan, active, stable, cohort, decoding, output,
                 dev, snapshot, static, pieces, results, adapterVars>>

BuildMixed ==
  /\ pc = "packed"
  /\ host' = [host EXCEPT !["mixed"] = step]
  /\ Transferred("mixed")
  /\ pc' = "packedCall"
  /\ UNCHANGED <<config, step, plan, active, stable, cohort, decoding, output,
                 dev, snapshot, static, pieces, results, adapterVars>>

-----------------------------------------------------------------------------
(* step: the callbacks *)

\* The catch block drops the decode state; the decode requests keep running.
Caught ==
  /\ pc' = "drain"
  /\ stable' = FALSE
  /\ decoding' = plan.decode
  /\ UNCHANGED <<recorded, valid>>

\* A callback enqueues its work, and then returns or raises.
Calls(ops, next) ==
  \/ /\ computeQ' = computeQ \o ops
     /\ pc' = next
     /\ UNCHANGED <<recorded, valid, stable, decoding>>
  \/ /\ computeQ' = computeQ \o ops
     /\ Caught

callbackUnchanged == <<config, step, plan, active, cohort, output, reached,
                       copyQ, otherQ, memoryVars, version>>

\* The decode half of a mixed step is staged, as a snapshot or as it is.
Deferring == config.deferred /\ plan.decode /\ plan.prefill
Staged ==
  IF config.clone
  THEN [from |-> "snapshot", buf |-> active]
  ELSE DecodeSource
StageOps ==
  IF config.clone
  THEN <<[op |-> "clone", sources |-> {DecodeSource}, step |-> step, cohort |-> cohort]>>
  ELSE <<>>

\* After the decode callback of a mixed step its reads are published.
PublishOps ==
  <<RecordOp(Consumed(active), recorded[Consumed(active)] + 1)>>
Published(ops) ==
  \/ /\ computeQ' = computeQ \o ops \o PublishOps
     /\ recorded' = [recorded EXCEPT ![Consumed(active)] = @ + 1]
     /\ valid' = [valid EXCEPT ![active] = TRUE]
     /\ pc' = "prefill"
     /\ UNCHANGED <<stable, decoding>>
  \/ /\ computeQ' = computeQ \o ops
     /\ Caught

AfterDecode(ops) == IF plan.prefill THEN Published(ops) ELSE Calls(ops, "sample")

\* A callback that raises before it has enqueued anything.  The decode calls
\* that PackedMixedPiecewiseGraphModelAdapter refuses, because decode rows are
\* staged, can end in no other way; a prefill call has taken the rows by then.
CallbackRaises ==
  /\ pc \in {"decodeCall", "prefillCall", "packedCall"}
  /\ pending' = IF pc = "prefillCall" THEN Nothing ELSE pending
  /\ computeQ' = computeQ
  /\ Caught
  /\ UNCHANGED <<callbackUnchanged, signature, captured>>

DecodeStaged ==
  /\ pc = "decodeCall"
  /\ pending = Nothing
  /\ Deferring
  /\ pending' = Staged
  /\ Published(StageOps)
  /\ UNCHANGED <<callbackUnchanged, signature, captured>>

DecodeEager ==
  /\ pc = "decodeCall"
  /\ ~config.graphs
  /\ AfterDecode(<<Pass({DecodeSource}, {"decode"})>>)
  /\ UNCHANGED <<callbackUnchanged, signature, pending, captured>>

DecodeGraph ==
  /\ pc = "decodeCall"
  /\ config.graphs
  /\ pending = Nothing
  /\ ~Deferring
  /\ \E new \in Signatures :
       LET old == signature[plan.bucket]
       IN  /\ signature' = [signature EXCEPT ![plan.bucket] =
                              IF MustCopyTable(new, old) THEN new ELSE old]
           /\ AfterDecode(GraphDecode(MustCopyTable(new, old)))
  /\ UNCHANGED <<callbackUnchanged, pending, captured>>

\* validate_forward_output rejects the decode logits, or the prefill half
\* cannot be built or transferred.
BetweenFails ==
  /\ pc = "prefill"
  /\ plan.decode
  /\ computeQ' = computeQ
  /\ Caught
  /\ UNCHANGED <<callbackUnchanged, signature, pending, captured>>

\* Mutant: the placeholder of the staged rows is never filled.
CombinedFills_Forgotten(combined) == {"prefill"}
\* placeholder.copy_(decode_logits), when decode rows were staged
CombinedFills(combined) == IF combined THEN {"prefill", "decode"} ELSE {"prefill"}

\* The prefill callback; it takes the staged decode rows along and fills their
\* logits.  (Decode rows and prompt tokens of a combined pass fill the bucket.)
PrefillCallback ==
  /\ pc = "prefillCall"
  /\ LET combined == pending # Nothing
         sources  == {PrefillSource} \cup (IF combined THEN {pending} ELSE {})
     IN  Calls(PrefillPass(sources, CombinedFills(combined), plan.tokens), "sample")
  /\ pending' = Nothing
  /\ captured' = CaptureOf(plan.tokens)
  /\ UNCHANGED <<callbackUnchanged, signature>>

\* CppPackedMixedModelAdapter: the rows arrive packed.
MixedCallback ==
  /\ pc = "packedCall"
  /\ Calls(PrefillPass({MixedSource}, {"decode", "prefill"}, plan.tokens), "sample")
  /\ captured' = CaptureOf(plan.tokens)
  /\ UNCHANGED <<callbackUnchanged, signature, pending>>

-----------------------------------------------------------------------------
(* step: sampling, reading the tokens back, and the catch block *)

Planned == {f \in Logits :
              (f = "decode" /\ plan.decode) \/ (f = "prefill" /\ plan.prefill)}

\* The logits stay on the device unless an observer has replaced them, which a
\* deferred decode copies back into its placeholder.
Sample ==
  /\ pc = "sample"
  /\ output' \in IF config.deferred THEN {"device"} ELSE {"device", "host"}
  /\ computeQ' = IF output' = "device"
                 THEN Append(computeQ, [op |-> "sample", fills |-> Planned, step |-> step])
                 ELSE computeQ
  /\ pc' = "readback"
  /\ UNCHANGED <<config, step, plan, active, stable, cohort, decoding, eventVars,
                 copyQ, otherQ, memoryVars, adapterVars>>

\* next_tokens.to(kCPU) waits for the step's stream only if that is where the
\* tokens are; then the requests are updated and the buffer is released.
Readback ==
  /\ pc = "readback"
  /\ output = "device" => computeQ = <<>>
  /\ computeQ' = computeQ \o PublishOps
  /\ recorded' = [recorded EXCEPT ![Consumed(active)] = @ + 1]
  /\ valid' = [valid EXCEPT ![active] = TRUE]
  /\ stable' = (config.reuse /\ plan.decode /\ ~plan.prefill)
  /\ decoding' = FALSE
  /\ pc' = "idle"
  /\ UNCHANGED <<config, step, plan, active, cohort, output, reached, copyQ,
                 otherQ, memoryVars, adapterVars>>

\* Mutant: the streams are not drained.
Drained_Always == TRUE
\* copy_stream.synchronize() and compute_stream->synchronize()
Drained == copyQ = <<>> /\ computeQ = <<>>

Drain ==
  /\ pc = "drain"
  /\ Drained
  /\ pc' = "idle"
  /\ UNCHANGED <<config, step, plan, active, stable, cohort, decoding, output,
                 eventVars, copyQ, computeQ, otherQ, memoryVars, adapterVars>>

-----------------------------------------------------------------------------
(* The streams execute: external, in order within a stream *)

Passed(op) == op.op = "wait" => reached[op.event] >= op.count

\* The contents a pass over some sources puts in the static slots.
Contents(source) ==
  IF source.from = "snapshot" THEN snapshot.decode ELSE dev[source.buf][source.from]
PromptSource(sources) == CHOOSE s \in sources : s.from \in {"prefill", "mixed"}
BufferOf(op) == (CHOOSE s \in op.sources : TRUE).buf

\* A copied phase; the page table is among the tensors of the decode phase.
Copied(op) ==
  [dev EXCEPT ![op.buf] =
     [f \in Fields |-> IF f = op.phase \/ (f = "table" /\ op.phase = "decode")
                       THEN host[op.phase] ELSE dev[op.buf][f]]]

\* Records of one event may be made on two streams, and passed in either order.
PassedEvents(at, op) ==
  IF op.op = "record" /\ at[op.event] < op.count
  THEN [at EXCEPT ![op.event] = op.count] ELSE at

CopyStep ==
  /\ copyQ # <<>>
  /\ LET op == Head(copyQ)
     IN  /\ Passed(op)
         /\ reached' = PassedEvents(reached, op)
         /\ dev' = IF op.op = "copy" THEN Copied(op) ELSE dev
  /\ copyQ' = Tail(copyQ)
  /\ UNCHANGED <<config, cpuVars, recorded, valid, computeQ, otherQ, host, snapshot,
                 static, pieces, results, adapterVars>>

\* What an operation of a compute stream does to everything but the logits.
Executes(op) ==
  /\ Passed(op)
  /\ reached' = PassedEvents(reached, op)
  /\ dev' = IF op.op = "advance"
            THEN [dev EXCEPT ![op.buf]["decode"] = op.step] ELSE dev
  /\ snapshot' = IF op.op = "clone"
                 THEN [decode |-> dev[BufferOf(op)]["decode"],
                       table  |-> dev[BufferOf(op)]["table"]]
                 ELSE snapshot
  /\ static' = IF op.op = "refresh"
               THEN [static EXCEPT ![op.bucket] =
                       [decode |-> dev[BufferOf(op)]["decode"],
                        table  |-> IF op.table THEN dev[BufferOf(op)]["table"]
                                   ELSE @.table]]
               ELSE static
  /\ pieces' = IF op.op = "stage"
               THEN [slots |-> [i \in 1 .. PrefillBucket |->
                                  IF i <= op.tokens
                                  THEN Contents(PromptSource(op.sources))
                                  ELSE pieces.slots[i]],
                     valid |-> Refilled(op.tokens)]
               ELSE pieces
  /\ UNCHANGED <<config, cpuVars, recorded, valid, copyQ, host, adapterVars>>

Filled(op) == [f \in Logits |-> IF f \in op.fills THEN op.step ELSE results[f]]

ComputeStep ==
  /\ computeQ # <<>>
  /\ LET op == Head(computeQ)
     IN  /\ Executes(op)
         /\ results' = CASE op.op \in {"pass", "pieces"} -> Filled(op)
                         [] op.op = "replay" -> [results EXCEPT !["decode"] = op.step]
                         [] OTHER -> results
  /\ computeQ' = Tail(computeQ)
  /\ otherQ' = otherQ

\* The stream the caller has left: the logits that its kernels still write are
\* read by nobody, their step has taken its tokens from elsewhere.
OtherStep ==
  /\ otherQ # <<>>
  /\ Executes(Head(otherQ))
  /\ otherQ' = Tail(otherQ)
  /\ UNCHANGED <<computeQ, results>>

-----------------------------------------------------------------------------

\* Mutant: a captured bucket starts with every row valid.
CapturedTokens_All == PrefillBucket
\* valid_tokens of a bucket when it is captured
CapturedTokens == 0

Init ==
  /\ config \in Configs
  /\ pc = "idle"
  /\ step = 0
  /\ plan = [decode |-> FALSE, prefill |-> FALSE, replay |-> FALSE,
             bucket |-> CHOOSE b \in Buckets : TRUE, padded |-> FALSE, tokens |-> 1]
  /\ active = 0
  /\ stable = FALSE
  /\ cohort = 0
  /\ decoding = FALSE
  /\ output = "device"
  /\ recorded = [e \in Events |-> 0]
  /\ reached = [e \in Events |-> 0]
  /\ valid = [b \in Buffers |-> FALSE]
  /\ copyQ = <<>>
  /\ computeQ = <<>>
  /\ otherQ = <<>>
  /\ host = [p \in Phases |-> 0]
  /\ dev = [b \in Buffers |-> [f \in Fields |-> 0]]
  /\ snapshot = [decode |-> 0, table |-> 0]
  /\ static = [b \in Buckets |-> [decode |-> 0, table |-> 0]]
  /\ pieces = [slots |-> [i \in 1 .. PrefillBucket |-> 0], valid |-> CapturedTokens]
  /\ results = [f \in Logits |-> 0]
  /\ version = [b \in Buffers |-> 0]
  /\ signature = [b \in Buckets |-> <<>>]
  /\ pending = Nothing
  /\ captured = FALSE

Build    == BuildDecode \/ BuildPrefill \/ BuildMixed
Callback == CallbackRaises \/ DecodeStaged \/ DecodeEager \/ DecodeGraph
            \/ PrefillCallback \/ MixedCallback
Cpu == \/ BeginStep
       \/ WaitHost
       \/ WaitDevice
       \/ Build
       \/ Callback
       \/ BetweenFails
       \/ Sample
       \/ Readback
       \/ Drain

\* The session may end after any step.
Done == /\ pc = "idle" /\ ~MorePlans
        /\ copyQ = <<>> /\ computeQ = <<>> /\ otherQ = <<>>
        /\ UNCHANGED vars

Next == Cpu \/ CopyStep \/ ComputeStep \/ OtherStep \/ Done

Spec == Init /\ [][Next]_vars

-----------------------------------------------------------------------------
(* What the transfer and the graphs promise *)

\* What an operation finds and what it needs to find.
SourceReads(source, op) ==
  CASE source.from = "decode" ->
         {<<dev[source.buf]["decode"], op.step>>, <<dev[source.buf]["table"], op.cohort>>}
    [] source.from = "snapshot" ->
         {<<snapshot.decode, op.step>>, <<snapshot.table, op.cohort>>}
    [] source.from = "prefill" -> {<<dev[source.buf]["prefill"], op.step>>}
    [] source.from = "mixed"   -> {<<dev[source.buf]["mixed"], op.step>>}
Agree(pairs) == \A p \in pairs : p[1] = p[2]

\* An operation at the head of its queue may be running already: what holds of
\* it here holds from when its stream reaches it until it has finished.
Running(ops) ==
  {op \in {Head(q) : q \in {computeQ, otherQ} \ {<<>>}} : op.op \in ops}

\* Every pass, clone, refresh and in-place advance reads the metadata that
\* were built for its own step, although the CPU builds ahead, both device
\* buffers, the staging buffer and the staged decode rows are used again, and
\* the caller may change the compute stream.
KernelsReadTheirBatch ==
  /\ \A op \in Running({"pass", "pieces", "stage", "clone", "refresh"}) :
       \A source \in op.sources : Agree(SourceReads(source, op))
  /\ \A op \in Running({"advance"}) :
       dev[op.buf]["decode"] = op.step - 1 /\ dev[op.buf]["table"] = op.cohort

\* A copy that may be running reads what the CPU built for it: the pinned
\* staging buffer is not rebuilt under the DMA.
CopiesReadTheirSource ==
  copyQ # <<>> /\ Head(copyQ).op = "copy" =>
    LET op == Head(copyQ) IN host[op.phase] = op.step

\* A replayed decode graph attends over the pages of its own cohort: the static
\* page table, which is refreshed only when its source seems to have changed,
\* is never that of an earlier one.
ReplayReadsItsTable ==
  \A op \in Running({"replay"}) :
    static[op.bucket].decode = op.step /\ static[op.bucket].table = op.cohort

\* A replayed prefill bucket stores the K/V of its own tokens and of no others,
\* although the rest of its static slots are those of earlier calls; and the
\* warm-up of a capture, which happens while requests are served, stores none.
PiecesWriteTheirRows ==
  /\ \A op \in Running({"pieces"}) :
       pieces.valid = op.tokens /\ \A i \in 1 .. pieces.valid : pieces.slots[i] = op.step
  /\ Running({"warmup"}) # {} => pieces.valid = 0

\* Sampling reads logits of this step for every row, also for decode rows whose
\* logits were only promised by their own callback.
SampledAfterComputed ==
  \A op \in Running({"sample"}) : \A f \in op.fills : results[f] = op.step

-----------------------------------------------------------------------------
(* Types *)

Sources == [from : {"decode", "prefill", "mixed", "snapshot"}, buf : Buffers]
DecodeOf(b) == [from |-> "decode", buf |-> b]

\* The one source of a refresh or a clone, and sources with one prompt source.
OneDecode   == {{DecodeOf(b)} : b \in Buffers}
IsPrompt(s) == s.from \in {"prefill", "mixed"}
OnePrompt   == {S \in SUBSET Sources :
                  \E p \in S : IsPrompt(p) /\ \A s \in S : IsPrompt(s) => s = p}

\* What a compute stream is given to do ...
WaitOps    == [op : {"wait"}, event : {"copied"}, count : Nat]
RecordOps  == [op : {"record"}, event : {"consumed0", "consumed1"}, count : Nat]
PassOps    == [op : {"pass"}, sources : SUBSET Sources, fills : SUBSET Logits,
               step : Nat, cohort : Nat]
CloneOps   == [op : {"clone"}, sources : OneDecode, step : Nat, cohort : Nat]
RefreshOps == [op : {"refresh"}, sources : OneDecode, table : BOOLEAN, bucket : Buckets,
               step : Nat, cohort : Nat]
ReplayOps  == [op : {"replay"}, bucket : Buckets, step : Nat, cohort : Nat]
WarmupOps  == [op : {"warmup"}]
SlotOps    == [op : {"stage"}, sources : OnePrompt, tokens : 1 .. PrefillBucket,
               step : Nat, cohort : Nat]
PiecesOps  == [op : {"pieces"}, sources : OnePrompt, fills : SUBSET Logits,
               tokens : 1 .. PrefillBucket, step : Nat, cohort : Nat]
AdvanceOps == [op : {"advance"}, buf : Buffers, step : Nat, cohort : Nat]
SampleOps  == [op : {"sample"}, fills : SUBSET Logits, step : Nat]

ComputeOps == WaitOps \cup RecordOps \cup PassOps \cup CloneOps \cup RefreshOps
              \cup ReplayOps \cup WarmupOps \cup SlotOps \cup PiecesOps
              \cup AdvanceOps \cup SampleOps

\* ... and what the copy stream is.
CopyOps     == [op : {"copy"}, phase : Phases, buf : Buffers, step : Nat]
CopiedOps   == [op : {"record"}, event : {"copied"}, count : Nat]
ConsumedOps == [op : {"wait"}, event : {"consumed0", "consumed1"}, count : Nat]
TransferOps == CopyOps \cup CopiedOps \cup ConsumedOps

Inputs == [decode : Nat, table : Nat]
Places == {"idle", "hostWait", "deviceWait", "decode", "decodeCall", "prefill", "prefillCall",
           "packed", "packedCall", "sample", "readback", "drain"}
TableSignatures == {<<>>} \cup ({"temporary"} \X Temps \X {0}) \cup ({"buffer"} \X Buffers \X Nat)

\* Every variable is of its type; nothing passes a record that was not made, no
\* decode graph holds a page table younger than the step, and no replayed prefill
\* has more valid tokens than its bucket.
TypeOK ==
  /\ config \in Configs
  /\ pc \in Places
  /\ step \in 0 .. MaxSteps
  /\ plan \in Plans
  /\ active \in Buffers
  /\ stable \in BOOLEAN /\ decoding \in BOOLEAN
  /\ cohort \in 0 .. step
  /\ output \in {"device", "host"}
  /\ recorded \in [Events -> Nat] /\ reached \in [Events -> Nat]
  /\ \A e \in Events : reached[e] <= recorded[e]
  /\ valid \in [Buffers -> BOOLEAN]
  /\ copyQ \in Seq(TransferOps)
  /\ computeQ \in Seq(ComputeOps) /\ otherQ \in Seq(ComputeOps)
  /\ host \in [Phases -> Nat]
  /\ dev \in [Buffers -> [Fields -> Nat]]
  /\ snapshot \in Inputs
  /\ static \in [Buckets -> Inputs] /\ \A b \in Buckets : static[b].table <= step
  /\ pieces \in [slots : [1 .. PrefillBucket -> Nat], valid : 0 .. PrefillBucket]
  /\ results \in [Logits -> Nat]
  /\ version \in [Buffers -> Nat]
  /\ signature \in [Buckets -> TableSignatures]
  /\ pending = Nothing \/ pending \in [from : {"decode", "snapshot"}, buf : Buffers]
  /\ captured \in BOOLEAN

=============================================================================
