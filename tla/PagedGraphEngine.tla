--------------------------- MODULE PagedGraphEngine ---------------------------
(***************************************************************************)
(* The single-sequence engines (engine/kvcache/paged_engine.py and         *)
(* engine/graph/paged_graph_engine.py): a pool sized to one prompt and its *)
(* answer, one prefill, then a token at a time.  The second one captures   *)
(* its decode graph in between, and a capture runs the model on its static *)
(* inputs, which describe one token in slot zero.                          *)
(***************************************************************************)
EXTENDS PagedForward

\* One sequence: BatchSize is 1.
CONSTANT Graphed  \* PagedGraphEngine rather than PagedEngine

PagesFor(q) == (q[1] + q[2] + BlockSize - 1) \div BlockSize

\* Bound of the model: calls, as <<prompt tokens, max_tokens>>, whose pool is no
\* larger than NumBlocks pages.
Requests ==
  {q \in (1 .. MaxSeqLen) \X (1 .. MaxSeqLen) :
     q[1] + q[2] <= MaxSeqLen /\ PagesFor(q) <= NumBlocks}

VARIABLES
  request,  \* the call in progress
  pc,       \* where generate is
  made,     \* len(seq.output_ids)
  confused  \* history: whether a prediction read something else than its prefix

engineVars == <<request, pc, made, confused>>

\* _new_cache: the pages of prompt and answer, and no others.
Idle == [Empty EXCEPT !.free = <<>>]
NewCache(q) == [Empty EXCEPT !.free = [i \in 1 .. PagesFor(q) |-> i - 1]]

\* A prediction follows from the tokens that the pool holds for the sequence.
Predicts == confused' = (confused \/ ~ReadsBack')

Generate(q) ==
  /\ pc = "idle"
  /\ request' = q
  /\ made' = 0
  /\ confused' = FALSE
  /\ cache' = NewCache(q)
  /\ pool' = [s \in PoolSlots |-> Stale]
  /\ pc' = "prefill"

Prefill ==
  /\ pc = "prefill"
  /\ Forward([b \in Seqs |-> request[1]])
  /\ Predicts
  /\ pc' = IF Graphed THEN "capture" ELSE "sample"
  /\ UNCHANGED <<request, made>>

\* capture(): the warm-up stores a token nobody asked for in slot zero.
Capture ==
  /\ pc = "capture"
  /\ pool' = [pool EXCEPT ![0] = Stale]
  /\ pc' = "sample"
  /\ UNCHANGED <<cache, request, made, confused>>

\* The sampled token is an output; EOS and max_tokens end the loop.
Sample ==
  /\ pc = "sample"
  /\ made' = made + 1
  /\ \E eos \in BOOLEAN : pc' = IF eos \/ made' >= request[2] THEN "idle" ELSE "decode"
  /\ UNCHANGED <<cache, pool, request, confused>>

\* One token more, through paged_forward or through the replayed graph, whose
\* inputs build_decode_step_inputs takes from the same table and length.
Decode ==
  /\ pc = "decode"
  /\ Forward([b \in Seqs |-> 1])
  /\ Predicts
  /\ pc' = "sample"
  /\ UNCHANGED <<request, made>>

EngineInit ==
  /\ cache = Idle
  /\ PoolInit
  /\ request = <<0, 0>>
  /\ pc = "idle"
  /\ made = 0
  /\ confused = FALSE

EngineNext ==
  \/ \E q \in Requests : Generate(q)
  \/ Prefill
  \/ Capture
  \/ Sample
  \/ Decode

EngineSpec == EngineInit /\ [][EngineNext]_<<cache, pool, engineVars>>

-----------------------------------------------------------------------------

\* What capture stores goes to a slot that holds no token of the sequence, so
\* that every prediction reads the whole prefix it continues: "throwaway write
\* goes to an unused pool slot" (correctness/checks/check_graph_vs_eager.py).
CaptureIsThrowaway == ~confused

=============================================================================
