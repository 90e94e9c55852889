--------------------------- MODULE ModelRuntimeProofs ---------------------------
(***************************************************************************)
(* Proofs about the streams of the model runtime, for every set of         *)
(* configurations, every number of steps and every timing of the streams.  *)
(*                                                                         *)
(* Types, and what a copy reads, hold whatever streams the caller uses     *)
(* (CommonInv).                                                            *)
(*                                                                         *)
(* For one compute stream the argument follows its queue.  Executed from   *)
(* the memory as it will be once the copies under way have arrived, every  *)
(* operation in the queue finds what it has to find (Runs), and what the   *)
(* last one leaves is what the CPU thread counts on when it enqueues the   *)
(* next (Ready).  Memory and that arrived memory agree on what the head of *)
(* the queue reads, because the stream waits for a copy before it touches  *)
(* what the copy writes (CopiesInv), and because the CPU thread takes a    *)
(* buffer only once all that touch it have been passed (BuffersInv).       *)
(*                                                                         *)
(* For two compute streams, when nothing is kept for later, no operation   *)
(* changes a buffer, so that each has to find its batch in the memory to   *)
(* come, in whatever order the streams run (OrderInv): neither stream      *)
(* touches the buffer that a step has taken, except the step's own, and    *)
(* that one waits for the copies.                                          *)
(***************************************************************************)
EXTENDS ModelRuntime, SequenceTheorems, TLAPS

-----------------------------------------------------------------------------
(* Operations and memory *)

\* What the operations of the compute stream read and write.
Memories ==
  [dev      : [Buffers -> [Fields -> Nat]],
   snapshot : Inputs,
   static   : [Buckets -> Inputs],
   pieces   : [slots : [1 .. PrefillBucket -> Nat], valid : 0 .. PrefillBucket],
   results  : [Logits -> Nat]]
Memory == [dev |-> dev, snapshot |-> snapshot, static |-> static, pieces |-> pieces,
           results |-> results]

PromptIn(op, m) == m.dev[PromptSource(op.sources).buf][PromptSource(op.sources).from]

DevAfter(op, m) ==
  IF op.op = "advance" THEN [m.dev EXCEPT ![op.buf]["decode"] = op.step] ELSE m.dev
SnapshotAfter(op, m) ==
  IF op.op = "clone"
  THEN [decode |-> m.dev[BufferOf(op)]["decode"], table |-> m.dev[BufferOf(op)]["table"]]
  ELSE m.snapshot
StaticAfter(op, m) ==
  IF op.op = "refresh"
  THEN [m.static EXCEPT ![op.bucket] =
          [decode |-> m.dev[BufferOf(op)]["decode"],
           table  |-> IF op.table THEN m.dev[BufferOf(op)]["table"]
                                  ELSE m.static[op.bucket].table]]
  ELSE m.static
PiecesAfter(op, m) ==
  IF op.op = "stage"
  THEN [slots |-> [i \in 1 .. PrefillBucket |->
                     IF i <= op.tokens THEN PromptIn(op, m) ELSE m.pieces.slots[i]],
        valid |-> op.tokens]
  ELSE m.pieces
ResultsAfter(op, m) ==
  [f \in Logits |->
     IF \/ op.op \in {"pass", "pieces"} /\ f \in op.fills
        \/ op.op = "replay" /\ f = "decode"
     THEN op.step ELSE m.results[f]]

\* Memory after an operation.
After(op, m) ==
  [dev |-> DevAfter(op, m), snapshot |-> SnapshotAfter(op, m), static |-> StaticAfter(op, m),
   pieces |-> PiecesAfter(op, m), results |-> ResultsAfter(op, m)]

\* The configurations for which a cached page table is never a temporary.
NoStaleTables == \A c \in Configs : c.tableCache => ~c.padding

\* What an operation has to find.
Readers == {"pass", "pieces", "stage", "clone", "refresh"}
Finds(s, op, m) ==
  /\ s.from # "snapshot" => m.dev[s.buf][s.from] = op.step
  /\ s.from = "decode"   => m.dev[s.buf]["table"] = op.cohort
  /\ s.from = "snapshot" => m.snapshot.decode = op.step /\ m.snapshot.table = op.cohort
Right(op, m) ==
  /\ op.op \in Readers => \A s \in op.sources : Finds(s, op, m)
  /\ op.op = "advance" => /\ m.dev[op.buf]["decode"] = op.step - 1
                          /\ m.dev[op.buf]["table"] = op.cohort
  /\ op.op = "replay"  => /\ m.static[op.bucket].decode = op.step
                          /\ NoStaleTables => m.static[op.bucket].table = op.cohort
  /\ op.op = "pieces"  => /\ m.pieces.valid = op.tokens
                          /\ \A i \in 1 .. op.tokens : m.pieces.slots[i] = op.step
  /\ op.op = "warmup"  => m.pieces.valid = 0
  /\ op.op = "sample"  => \A f \in op.fills : m.results[f] = op.step

\* Executed from memory x, each operation of q finds what it has to, and the
\* last one leaves a.
Runs(q, x, a) ==
  \E m \in [1 .. Len(q) + 1 -> Memories] :
    /\ m[1] = x
    /\ m[Len(q) + 1] = a
    /\ \A k \in 1 .. Len(q) : Right(q[k], m[k]) /\ m[k + 1] = After(q[k], m[k])

-----------------------------------------------------------------------------
(* Copies under way *)

\* What the copy of a phase writes.
FieldsOf(phase) == IF phase = "decode" THEN {"decode", "table"} ELSE {phase}

\* Memory with some fields of a buffer filled by step c.
Put(F, b, c, m) ==
  [m EXCEPT !.dev =
     [d \in Buffers |-> [f \in Fields |-> IF d = b /\ f \in F THEN c ELSE m.dev[d][f]]]]

IsCopy(i) == copyQ[i].op = "copy"
Arriving == {f \in Fields : \E i \in 1 .. Len(copyQ) : IsCopy(i) /\ f \in FieldsOf(copyQ[i].phase)}

\* Memory as it will be when the copies under way have arrived.
Arrived == Put(Arriving, active, cohort, Memory)

\* An operation of the compute stream reads or writes a phase of a buffer.
Touches(op, b, phase) ==
  \/ op.op = "advance" /\ op.buf = b /\ phase = "decode"
  \/ op.op \in Readers /\ \E s \in op.sources : s.from = phase /\ s.buf = b

\* A queue touches no such phase, or first waits until its copy has been counted.
ClearIn(q, b, phase) == \A k \in 1 .. Len(q) : ~Touches(q[k], b, phase)
GuardedIn(q, b, phase, count) ==
  \E j \in 1 .. Len(q) :
    /\ q[j].op = "wait" /\ q[j].count >= count
    /\ \A k \in 1 .. j : ~Touches(q[k], b, phase)

\* A copy is followed by its record, and records count upwards.
CopyOrder(c, at, last) ==
  /\ \A i \in 1 .. Len(c) : c[i].op = "record" =>
       /\ at < c[i].count /\ c[i].count <= last
       /\ \A j \in 1 .. i - 1 : c[j].op = "record" => c[j].count < c[i].count
  /\ \A i \in 1 .. Len(c) : c[i].op = "copy" => i < Len(c) /\ c[i + 1].op = "record"
  /\ c # <<>> => c[Len(c)].op = "record"

\* What a copy under way reads was built for it, and goes where it should.
CopiesOfCohort ==
  \A i \in 1 .. Len(copyQ) : IsCopy(i) =>
    copyQ[i].buf = active /\ copyQ[i].step = cohort /\ host[copyQ[i].phase] = cohort

\* A copy reads what was built for its cohort, and the compute stream waits for
\* it before it touches what the copy writes.
CopyOfCohort(i) ==
  /\ copyQ[i].buf = active /\ copyQ[i].step = cohort /\ host[copyQ[i].phase] = cohort
  /\ GuardedIn(computeQ, active, copyQ[i].phase, copyQ[i + 1].count)
CopiesInv ==
  /\ CopyOrder(copyQ, reached["copied"], recorded["copied"])
  /\ \A i \in 1 .. Len(copyQ) : IsCopy(i) => CopyOfCohort(i)
  /\ pc \in {"deviceWait", "decode", "packed"} => copyQ = <<>>

\* The records an event still waits for come in the order they were made.
RecordsIn(q, at, last) ==
  \A k \in 1 .. Len(q) : q[k].op = "record" =>
    /\ at[q[k].event] < q[k].count /\ q[k].count <= last[q[k].event]
    /\ \A j \in 1 .. k - 1 : q[j].op = "record" /\ q[j].event = q[k].event
                                => q[j].count < q[k].count
RecordsInv == RecordsIn(computeQ, reached, recorded)

\* The operations that touch a buffer come before a record that releases it.
ReleasedIn(q, b, v) ==
  \A k \in 1 .. Len(q) : \A phase \in Phases : Touches(q[k], b, phase) =>
    /\ v[b]
    /\ \E l \in k + 1 .. Len(q) : q[l].op = "record" /\ q[l].event = Consumed(b)
Released(b) == ReleasedIn(computeQ, b, valid)

\* Nobody reads a phase of the active buffer, and no copy of it is under way.
Clear(phase) ==
  /\ \A i \in 1 .. Len(copyQ) : IsCopy(i) => copyQ[i].phase # phase
  /\ ClearIn(computeQ, active, phase)
BuffersInv ==
  /\ \A b \in Buffers : b # active \/ pc \in {"idle", "hostWait", "deviceWait"} => Released(b)
  /\ pc = "decode" => Clear("decode") /\ Clear("prefill")
  /\ pc = "packed" => Clear("mixed")
  /\ pc = "prefill" \/ (pc = "decodeCall" /\ plan.prefill) => Clear("prefill")

-----------------------------------------------------------------------------
(* The CPU thread *)

PlanInv ==
  /\ pc \in {"hostWait", "deviceWait", "sample", "readback"} => plan.decode \/ plan.prefill
  /\ pc \in {"decode", "decodeCall"} => plan.decode
  /\ pc \in {"prefill", "prefillCall"} => plan.prefill
  /\ pc \in {"packed", "packedCall"} => plan.decode /\ plan.prefill /\ config.packed
  /\ pc \in {"decode", "packed", "prefill", "prefillCall", "packedCall"} => cohort = step
  /\ pc = "decodeCall" /\ plan.prefill => cohort = step
  /\ pc \in {"decode", "decodeCall", "prefill", "prefillCall"} => ~(IsMixed /\ config.packed)
  /\ pc = "drain" => ~stable
  /\ cohort <= step
  /\ plan.padded => config.padding

\* Decode rows stay staged only between the two callbacks of a step, or when
\* the step has failed between them: then no decode call is accepted any more.
StagedInv ==
  pending # Nothing =>
    /\ config.deferred /\ plan.decode
    /\ \/ pc \in {"prefill", "prefillCall"}
       \/ pc \in {"idle", "drain"} /\ decoding
       \/ pc \in {"hostWait", "deviceWait", "decode", "decodeCall"}

SignatureInv ==
  \A u \in Buckets : \A b \in Buffers : \A v \in Nat :
    signature[u] = <<"buffer", b, v>> => v <= version[b]

\* What the CPU thread counts on when all it has enqueued is done.
DecodeRowsThere ==
  \/ pc = "idle" /\ stable
  \/ pc \in {"decodeCall", "prefill", "prefillCall"} /\ plan.decode
  \/ pc \in {"sample", "readback"} /\ plan.decode /\ ~plan.prefill
RowsReady(a) ==
  /\ DecodeRowsThere => a.dev[active]["decode"] = step /\ a.dev[active]["table"] = cohort
  /\ pc = "prefillCall" => a.dev[active]["prefill"] = step
  /\ pc = "packedCall"  => a.dev[active]["mixed"] = step
  /\ pc \in {"prefill", "prefillCall"} /\ plan.decode =>
       IF pending = Nothing
       THEN a.results["decode"] = step
       ELSE /\ pending.buf = active
            /\ pending.from = "snapshot" => a.snapshot.decode = step /\ a.snapshot.table = cohort
  /\ pc = "sample" => \A f \in Planned : a.results[f] = step
CaptureReady(a) == ~captured => a.pieces.valid = 0
TablesReady(a) ==
  \A u \in Buckets : \A b \in Buffers :
    signature[u] = <<"buffer", b, version[b]>> => a.static[u].table = a.dev[b]["table"]
Ready(a) == RowsReady(a) /\ CaptureReady(a) /\ TablesReady(a)
StreamsInv == \E a \in Memories : Runs(computeQ, Arrived, a) /\ Ready(a)

TypesInv ==
  /\ config \in Configs
  /\ pc \in Places
  /\ step \in 0 .. MaxSteps
  /\ plan \in Plans
  /\ active \in Buffers
  /\ stable \in BOOLEAN /\ decoding \in BOOLEAN
  /\ cohort \in Nat
  /\ output \in {"device", "host"}
  /\ recorded \in [Events -> Nat] /\ reached \in [Events -> Nat]
  /\ \A e \in Events : reached[e] <= recorded[e]
  /\ valid \in [Buffers -> BOOLEAN]
  /\ copyQ \in Seq(TransferOps)
  /\ computeQ \in Seq(ComputeOps) /\ otherQ \in Seq(ComputeOps)
  /\ host \in [Phases -> Nat]
  /\ Memory \in Memories
  /\ version \in [Buffers -> Nat]
  /\ signature \in [Buckets -> {<<>>} \cup ({"temporary"} \X Temps \X {0})
                                      \cup ({"buffer"} \X Buffers \X Nat)]
  /\ pending = Nothing \/ pending \in [from : {"decode", "snapshot"}, buf : Buffers]
  /\ captured \in BOOLEAN

\* No page table is younger than the step.
TablesInv ==
  /\ \A b \in Buffers : dev[b]["table"] <= step
  /\ \A u \in Buckets : static[u].table <= step

\* The caller runs every step on the same stream.
OneStream == config.streams = "one" /\ otherQ = <<>>

IInv == /\ OneStream
        /\ TypesInv /\ TablesInv /\ PlanInv /\ StagedInv /\ SignatureInv
        /\ CopiesInv /\ RecordsInv /\ BuffersInv /\ StreamsInv

-----------------------------------------------------------------------------
(* What operations do *)

\* Each kind of operation has its own name.
LEMMA KindsOfOperations ==
  ASSUME NEW o \in ComputeOps
  PROVE  /\ o.op = "wait"    => o \in WaitOps
         /\ o.op = "record"  => o \in RecordOps
         /\ o.op = "pass"    => o \in PassOps
         /\ o.op = "clone"   => o \in CloneOps
         /\ o.op = "refresh" => o \in RefreshOps
         /\ o.op = "replay"  => o \in ReplayOps
         /\ o.op = "warmup"  => o \in WarmupOps
         /\ o.op = "stage"   => o \in SlotOps
         /\ o.op = "pieces"  => o \in PiecesOps
         /\ o.op = "advance" => o \in AdvanceOps
         /\ o.op = "sample"  => o \in SampleOps
         /\ o.op \in {"wait", "record", "pass", "clone", "refresh", "replay", "warmup",
                      "stage", "pieces", "advance", "sample"}
  BY DEF ComputeOps, WaitOps, RecordOps, PassOps, CloneOps, RefreshOps, ReplayOps, WarmupOps,
         SlotOps, PiecesOps, AdvanceOps, SampleOps

\* Decode sources of different buffers differ.
LEMMA DecodeOfBuffer ==
  ASSUME NEW b, NEW d, DecodeOf(b) = DecodeOf(d)
  PROVE  b = d
  <1>1. DecodeOf(b).buf = b /\ DecodeOf(d).buf = d
    BY DEF DecodeOf
  <1> QED
    BY <1>1

\* The buffer of a refresh or a clone is that of its one source.
LEMMA OneSource ==
  ASSUME NEW o \in CloneOps \cup RefreshOps
  PROVE  /\ BufferOf(o) \in Buffers
         /\ o.sources = {DecodeOf(BufferOf(o))}
         /\ o.op \in {"clone", "refresh"}
  <1>1. o.sources \in OneDecode /\ o.op \in {"clone", "refresh"}
    BY DEF CloneOps, RefreshOps
  <1>2. PICK b \in Buffers : o.sources = {DecodeOf(b)}
    BY <1>1 DEF OneDecode
  <1>3. (CHOOSE s \in o.sources : TRUE) = DecodeOf(b)
    BY <1>2
  <1>4. DecodeOf(b).buf = b
    BY DEF DecodeOf
  <1>5. BufferOf(o) = b
    BY <1>3, <1>4 DEF BufferOf
  <1> QED
    BY <1>1, <1>2, <1>5

\* The tokens of a staged pass come from its one prompt source.
LEMMA OnePromptSource ==
  ASSUME NEW S \in OnePrompt
  PROVE  PromptSource(S) \in S \cap Sources /\ IsPrompt(PromptSource(S))
  BY DEF OnePrompt, IsPrompt, PromptSource

\* A device buffer, a field of it, a number.
LEMMA DevTyped ==
  ASSUME NEW m \in Memories, NEW b \in Buffers, NEW f \in Fields
  PROVE  m.dev[b][f] \in Nat
  BY DEF Memories

\* An operation leaves device buffers ...
LEMMA DevAfterTyped ==
  ASSUME NEW o \in ComputeOps, NEW m \in Memories
  PROVE  DevAfter(o, m) \in [Buffers -> [Fields -> Nat]]
  <1>1. m.dev \in [Buffers -> [Fields -> Nat]]
    BY DEF Memories
  <1>2. CASE o.op = "advance"
    <2>1. o.buf \in Buffers /\ o.step \in Nat
      BY <1>2, KindsOfOperations DEF AdvanceOps
    <2> QED
      BY <1>1, <1>2, <2>1 DEF DevAfter
  <1> QED
    BY <1>1, <1>2 DEF DevAfter

\* ... a snapshot ...
LEMMA SnapshotAfterTyped ==
  ASSUME NEW o \in ComputeOps, NEW m \in Memories
  PROVE  SnapshotAfter(o, m) \in Inputs
  <1>1. m.snapshot \in Inputs
    BY DEF Memories
  <1>2. CASE o.op = "clone"
    <2>1. BufferOf(o) \in Buffers
      BY <1>2, KindsOfOperations, OneSource
    <2>2. m.dev[BufferOf(o)]["decode"] \in Nat /\ m.dev[BufferOf(o)]["table"] \in Nat
      BY <2>1, DevTyped DEF Fields
    <2> QED
      BY <1>2, <2>2 DEF SnapshotAfter, Inputs
  <1> QED
    BY <1>1, <1>2 DEF SnapshotAfter

\* ... static decode inputs ...
LEMMA StaticAfterTyped ==
  ASSUME NEW o \in ComputeOps, NEW m \in Memories
  PROVE  StaticAfter(o, m) \in [Buckets -> Inputs]
  <1>1. m.static \in [Buckets -> Inputs]
    BY DEF Memories
  <1>2. CASE o.op = "refresh"
    <2>1. BufferOf(o) \in Buffers /\ o.bucket \in Buckets /\ o.table \in BOOLEAN
      BY <1>2, KindsOfOperations, OneSource DEF RefreshOps
    <2>2. m.dev[BufferOf(o)]["decode"] \in Nat /\ m.dev[BufferOf(o)]["table"] \in Nat
      BY <2>1, DevTyped DEF Fields
    <2>3. m.static[o.bucket].table \in Nat
      BY <1>1, <2>1 DEF Inputs
    <2> DEFINE t == IF o.table THEN m.dev[BufferOf(o)]["table"] ELSE m.static[o.bucket].table
    <2>4. [decode |-> m.dev[BufferOf(o)]["decode"], table |-> t] \in Inputs
      BY <2>2, <2>3 DEF Inputs
    <2>5. StaticAfter(o, m)
            = [m.static EXCEPT ![o.bucket] = [decode |-> m.dev[BufferOf(o)]["decode"], table |-> t]]
      BY <1>2 DEF StaticAfter
    <2> HIDE DEF t
    <2> QED
      BY <1>1, <2>1, <2>4, <2>5
  <1> QED
    BY <1>1, <1>2 DEF StaticAfter

\* ... static prefill slots ...
LEMMA PiecesAfterTyped ==
  ASSUME NEW o \in ComputeOps, NEW m \in Memories
  PROVE  PiecesAfter(o, m) \in [slots : [1 .. PrefillBucket -> Nat], valid : 0 .. PrefillBucket]
  <1>1. m.pieces \in [slots : [1 .. PrefillBucket -> Nat], valid : 0 .. PrefillBucket]
    BY DEF Memories
  <1>2. CASE o.op = "stage"
    <2>1. o.sources \in OnePrompt /\ o.tokens \in 1 .. PrefillBucket
      BY <1>2, KindsOfOperations DEF SlotOps
    <2>2. PromptSource(o.sources) \in Sources /\ IsPrompt(PromptSource(o.sources))
      BY <2>1, OnePromptSource
    <2>3. PromptSource(o.sources).buf \in Buffers /\ PromptSource(o.sources).from \in Fields
      BY <2>2 DEF Sources, IsPrompt, Fields
    <2>4. PromptIn(o, m) \in Nat
      BY <2>3, DevTyped DEF PromptIn
    <2>5. [i \in 1 .. PrefillBucket |-> IF i <= o.tokens THEN PromptIn(o, m) ELSE m.pieces.slots[i]]
            \in [1 .. PrefillBucket -> Nat]
      BY <1>1, <2>4
    <2>6. o.tokens \in 0 .. PrefillBucket
      BY <2>1, RuntimeAssumption
    <2> QED
      BY <1>2, <2>5, <2>6 DEF PiecesAfter
  <1> QED
    BY <1>1, <1>2 DEF PiecesAfter

\* ... and logits.
LEMMA ResultsAfterTyped ==
  ASSUME NEW o \in ComputeOps, NEW m \in Memories
  PROVE  ResultsAfter(o, m) \in [Logits -> Nat]
  <1>1. m.results \in [Logits -> Nat]
    BY DEF Memories
  <1>2. CASE o.op \in {"pass", "pieces", "replay"}
    <2>1. o.step \in Nat
      BY <1>2, KindsOfOperations DEF PassOps, PiecesOps, ReplayOps
    <2> QED
      BY <1>1, <2>1 DEF ResultsAfter
  <1> QED
    BY <1>1, <1>2 DEF ResultsAfter

\* An operation leaves a memory.
LEMMA AfterTyped ==
  ASSUME NEW o \in ComputeOps, NEW m \in Memories
  PROVE  After(o, m) \in Memories
  <1>1. /\ DevAfter(o, m) \in [Buffers -> [Fields -> Nat]]
        /\ SnapshotAfter(o, m) \in Inputs
        /\ StaticAfter(o, m) \in [Buckets -> Inputs]
        /\ PiecesAfter(o, m) \in [slots : [1 .. PrefillBucket -> Nat], valid : 0 .. PrefillBucket]
        /\ ResultsAfter(o, m) \in [Logits -> Nat]
    BY DevAfterTyped, SnapshotAfterTyped, StaticAfterTyped, PiecesAfterTyped, ResultsAfterTyped
  <1> QED
    BY <1>1 DEF After, Memories

\* The memories a queue runs through can be continued by one more operation.
LEMMA RunsOn ==
  ASSUME NEW q \in Seq(ComputeOps), NEW x \in Memories, NEW a \in Memories,
         NEW o \in ComputeOps, Runs(q, x, a), Right(o, a)
  PROVE  Runs(Append(q, o), x, After(o, a)) /\ After(o, a) \in Memories
  <1>1. PICK m \in [1 .. Len(q) + 1 -> Memories] :
          /\ m[1] = x
          /\ m[Len(q) + 1] = a
          /\ \A k \in 1 .. Len(q) : Right(q[k], m[k]) /\ m[k + 1] = After(q[k], m[k])
    BY DEF Runs
  <1> DEFINE r == Append(q, o)
             n == [k \in 1 .. Len(r) + 1 |-> IF k = Len(q) + 2 THEN After(o, a) ELSE m[k]]
  <1>2. After(o, a) \in Memories
    BY AfterTyped
  <1>3. /\ Len(q) \in Nat
        /\ Len(r) = Len(q) + 1
        /\ r[Len(q) + 1] = o
        /\ \A k \in 1 .. Len(q) : r[k] = q[k]
    OBVIOUS
  <1> HIDE DEF r
  <1>4. n \in [1 .. Len(r) + 1 -> Memories]
    BY <1>1, <1>2, <1>3
  <1>5. n[1] = x /\ n[Len(r) + 1] = After(o, a)
    BY <1>1, <1>3
  <1>6. ASSUME NEW k \in 1 .. Len(r)
        PROVE  Right(r[k], n[k]) /\ n[k + 1] = After(r[k], n[k])
    <2>1. CASE k \in 1 .. Len(q)
      <3>1. n[k] = m[k] /\ n[k + 1] = m[k + 1] /\ r[k] = q[k]
        BY <1>3, <2>1
      <3> QED
        BY <1>1, <2>1, <3>1
    <2>2. CASE k = Len(q) + 1
      <3>1. n[k] = a /\ n[k + 1] = After(o, a) /\ r[k] = o
        BY <1>1, <1>3, <2>2
      <3> QED
        BY <3>1
    <2> QED
      BY <1>3, <2>1, <2>2
  <1> HIDE DEF n
  <1>7. Runs(r, x, After(o, a))
    BY <1>4, <1>5, <1>6 DEF Runs
  <1> QED
    BY <1>2, <1>7 DEF r

\* An empty queue leaves memory as it is.
LEMMA RunsEmpty ==
  ASSUME NEW x \in Memories
  PROVE  Runs(<<>>, x, x)
  <1> DEFINE m == [k \in 1 .. 1 |-> x]
  <1>1. Len(<<>>) = 0
    OBVIOUS
  <1>2. m \in [1 .. Len(<<>>) + 1 -> Memories] /\ m[1] = x
    BY <1>1
  <1> HIDE DEF m
  <1> QED
    BY <1>1, <1>2 DEF Runs

\* The head of a queue finds what it has to, and the rest runs on from there.
LEMMA RunsOff ==
  ASSUME NEW q \in Seq(ComputeOps), NEW x \in Memories, NEW a \in Memories,
         Runs(q, x, a), q # <<>>
  PROVE  /\ Right(Head(q), x)
         /\ After(Head(q), x) \in Memories
         /\ Runs(Tail(q), After(Head(q), x), a)
  <1>1. PICK m \in [1 .. Len(q) + 1 -> Memories] :
          /\ m[1] = x
          /\ m[Len(q) + 1] = a
          /\ \A k \in 1 .. Len(q) : Right(q[k], m[k]) /\ m[k + 1] = After(q[k], m[k])
    BY DEF Runs
  <1> DEFINE r == Tail(q)
             n == [k \in 1 .. Len(r) + 1 |-> m[k + 1]]
  <1>2. /\ Len(q) \in Nat /\ Len(q) >= 1
        /\ Len(r) = Len(q) - 1
        /\ Head(q) = q[1]
        /\ \A k \in 1 .. Len(r) : r[k] = q[k + 1]
    OBVIOUS
  <1> HIDE DEF r
  <1>3. Right(Head(q), x) /\ m[2] = After(Head(q), x) /\ m[2] \in Memories
    BY <1>1, <1>2
  <1>4. n \in [1 .. Len(r) + 1 -> Memories]
    BY <1>1, <1>2
  <1>5. n[1] = After(Head(q), x) /\ n[Len(r) + 1] = a
    BY <1>1, <1>2, <1>3
  <1>6. ASSUME NEW k \in 1 .. Len(r)
        PROVE  Right(r[k], n[k]) /\ n[k + 1] = After(r[k], n[k])
    <2>1. n[k] = m[k + 1] /\ n[k + 1] = m[k + 2] /\ r[k] = q[k + 1] /\ k + 1 \in 1 .. Len(q)
      BY <1>2
    <2>2. Right(q[k + 1], m[k + 1]) /\ m[(k + 1) + 1] = After(q[k + 1], m[k + 1])
      BY <1>1, <2>1
    <2> QED
      BY <2>1, <2>2
  <1> HIDE DEF n
  <1>7. Runs(r, After(Head(q), x), a)
    BY <1>4, <1>5, <1>6 DEF Runs
  <1> QED
    BY <1>3, <1>7 DEF r

-----------------------------------------------------------------------------
(* Filling fields that an operation does not touch *)

\* The page table of a buffer is copied with its decode phase.
Closed(F) == F \subseteq Fields /\ ("decode" \in F <=> "table" \in F)
Untouched(o, b, F) == \A phase \in F \cap Phases : ~Touches(o, b, phase)
PutDev(F, b, c, d) ==
  [e \in Buffers |-> [f \in Fields |-> IF e = b /\ f \in F THEN c ELSE d[e][f]]]

\* Filling fields changes the device buffers only.
LEMMA PutFields ==
  ASSUME NEW F, NEW b, NEW c \in Nat, NEW m \in Memories
  PROVE  /\ Put(F, b, c, m) \in Memories
         /\ Put(F, b, c, m).dev = PutDev(F, b, c, m.dev)
         /\ Put(F, b, c, m).snapshot = m.snapshot
         /\ Put(F, b, c, m).static = m.static
         /\ Put(F, b, c, m).pieces = m.pieces
         /\ Put(F, b, c, m).results = m.results
         /\ Put(F, b, c, m) = [dev |-> PutDev(F, b, c, m.dev), snapshot |-> m.snapshot,
                               static |-> m.static, pieces |-> m.pieces, results |-> m.results]
  <1> DEFINE d == PutDev(F, b, c, m.dev)
  <1>1. d \in [Buffers -> [Fields -> Nat]]
    BY DEF Memories, PutDev
  <1>2. Put(F, b, c, m) = [m EXCEPT !.dev = d]
    BY DEF Put, PutDev
  <1> HIDE DEF d
  <1>3. [m EXCEPT !.dev = d] = [dev |-> d, snapshot |-> m.snapshot, static |-> m.static,
                                pieces |-> m.pieces, results |-> m.results]
    BY DEF Memories
  <1>4. [dev |-> d, snapshot |-> m.snapshot, static |-> m.static,
         pieces |-> m.pieces, results |-> m.results] \in Memories
    BY <1>1 DEF Memories
  <1>5. Put(F, b, c, m) = [dev |-> d, snapshot |-> m.snapshot, static |-> m.static,
                           pieces |-> m.pieces, results |-> m.results]
    BY <1>2, <1>3
  <1> QED
    BY <1>4, <1>5 DEF d

\* A field of a filled buffer.
LEMMA PutField ==
  ASSUME NEW F, NEW b, NEW c \in Nat, NEW m \in Memories, NEW e \in Buffers, NEW f \in Fields
  PROVE  Put(F, b, c, m).dev[e][f] = IF e = b /\ f \in F THEN c ELSE m.dev[e][f]
  <1>1. Put(F, b, c, m).dev = PutDev(F, b, c, m.dev)
    BY PutFields
  <1> QED
    BY <1>1 DEF PutDev

\* What a reader or an advance finds in the device buffers is not filled.
LEMMA PutUnread ==
  ASSUME NEW F, Closed(F), NEW b \in Buffers, NEW c \in Nat, NEW m \in Memories,
         NEW o \in ComputeOps, Untouched(o, b, F)
  PROVE  /\ o.op \in Readers => \A s \in o.sources : s \in Sources =>
              /\ s.from # "snapshot" => Put(F, b, c, m).dev[s.buf][s.from] = m.dev[s.buf][s.from]
              /\ s.from = "decode" =>
                   Put(F, b, c, m).dev[s.buf]["table"] = m.dev[s.buf]["table"]
         /\ o.op = "advance" =>
              /\ Put(F, b, c, m).dev[o.buf]["decode"] = m.dev[o.buf]["decode"]
              /\ Put(F, b, c, m).dev[o.buf]["table"] = m.dev[o.buf]["table"]
  <1>1. ASSUME o.op \in Readers, NEW s \in o.sources, s \in Sources, s.from # "snapshot"
        PROVE  /\ Put(F, b, c, m).dev[s.buf][s.from] = m.dev[s.buf][s.from]
               /\ s.from = "decode" =>
                    Put(F, b, c, m).dev[s.buf]["table"] = m.dev[s.buf]["table"]
    <2>1. s.buf \in Buffers /\ s.from \in Phases /\ s.from \in Fields /\ "table" \in Fields
      BY <1>1 DEF Sources, Phases, Fields
    <2>2. Touches(o, s.buf, s.from)
      BY <1>1 DEF Touches
    <2>3. ~(s.buf = b /\ s.from \in F)
      BY <2>1, <2>2 DEF Untouched
    <2>4. s.from = "decode" => ~(s.buf = b /\ "table" \in F)
      BY <2>3 DEF Closed
    <2> QED
      BY <2>1, <2>3, <2>4, PutField
  <1>2. ASSUME o.op = "advance"
        PROVE  /\ Put(F, b, c, m).dev[o.buf]["decode"] = m.dev[o.buf]["decode"]
               /\ Put(F, b, c, m).dev[o.buf]["table"] = m.dev[o.buf]["table"]
    <2>1. o.buf \in Buffers /\ "decode" \in Phases /\ "decode" \in Fields /\ "table" \in Fields
      BY <1>2, KindsOfOperations DEF AdvanceOps, Phases, Fields
    <2>2. Touches(o, o.buf, "decode")
      BY <1>2 DEF Touches
    <2>3. ~(o.buf = b /\ "decode" \in F) /\ ~(o.buf = b /\ "table" \in F)
      BY <2>1, <2>2 DEF Untouched, Closed
    <2> QED
      BY <2>1, <2>3, PutField
  <1> QED
    BY <1>1, <1>2 DEF Sources

\* The sources of an operation are sources.
LEMMA SourcesTyped ==
  ASSUME NEW o \in ComputeOps, o.op \in Readers
  PROVE  \A s \in o.sources : s \in Sources
  <1>1. CASE o.op = "pass"
    BY <1>1, KindsOfOperations DEF PassOps
  <1>2. CASE o.op \in {"stage", "pieces"}
    BY <1>2, KindsOfOperations DEF SlotOps, PiecesOps, OnePrompt
  <1>3. CASE o.op \in {"clone", "refresh"}
    BY <1>3, KindsOfOperations, OneSource DEF DecodeOf, Sources
  <1> QED
    BY <1>1, <1>2, <1>3 DEF Readers

\* ... so it finds what it has to as before.
LEMMA RightPut ==
  ASSUME NEW F, Closed(F), NEW b \in Buffers, NEW c \in Nat, NEW m \in Memories,
         NEW o \in ComputeOps, Untouched(o, b, F)
  PROVE  Right(o, Put(F, b, c, m)) <=> Right(o, m)
  <1> DEFINE p == Put(F, b, c, m)
  <1>1. p.snapshot = m.snapshot /\ p.static = m.static /\ p.pieces = m.pieces /\ p.results = m.results
    BY PutFields
  <1>2. o.op \in Readers => \A s \in o.sources : Finds(s, o, p) <=> Finds(s, o, m)
    BY <1>1, PutUnread, SourcesTyped DEF Finds
  <1>3. o.op = "advance" => /\ p.dev[o.buf]["decode"] = m.dev[o.buf]["decode"]
                            /\ p.dev[o.buf]["table"] = m.dev[o.buf]["table"]
    BY PutUnread
  <1> HIDE DEF p
  <1>4. Right(o, p) <=> Right(o, m)
    BY <1>1, <1>2, <1>3 DEF Right
  <1> QED
    BY <1>4 DEF p

\* An advance writes no field that is filled.
LEMMA DevAfterPut ==
  ASSUME NEW F, Closed(F), NEW b \in Buffers, NEW c \in Nat, NEW m \in Memories,
         NEW o \in ComputeOps, Untouched(o, b, F)
  PROVE  DevAfter(o, Put(F, b, c, m)) = PutDev(F, b, c, DevAfter(o, m))
  <1>0. m.dev \in [Buffers -> [Fields -> Nat]]
    BY DEF Memories
  <1>1. Put(F, b, c, m).dev = PutDev(F, b, c, m.dev) /\ m.dev \in [Buffers -> [Fields -> Nat]]
    BY <1>0, PutFields
  <1>2. CASE o.op = "advance"
    <2>1. o.buf \in Buffers /\ o.step \in Nat /\ "decode" \in Phases /\ "decode" \in Fields
      BY <1>2, KindsOfOperations DEF AdvanceOps, Phases, Fields
    <2>2. ~(o.buf = b /\ "decode" \in F)
      BY <1>2, <2>1 DEF Touches, Untouched
    <2> DEFINE d == [PutDev(F, b, c, m.dev) EXCEPT ![o.buf]["decode"] = o.step]
               g == [m.dev EXCEPT ![o.buf]["decode"] = o.step]
    <2>3. ASSUME NEW e \in Buffers, NEW f \in Fields
          PROVE  d[e][f] = IF e = b /\ f \in F THEN c ELSE g[e][f]
      BY <1>1, <2>1, <2>2 DEF PutDev
    <2>4. /\ d \in [Buffers -> [Fields -> Nat]]
      <3>1. PutDev(F, b, c, m.dev) \in [Buffers -> [Fields -> Nat]]
        BY <1>1 DEF PutDev
      <3> QED
        BY <2>1, <3>1
    <2> HIDE DEF d, g
    <2>5. PutDev(F, b, c, g) = [e \in Buffers |-> [f \in Fields |-> d[e][f]]]
      BY <2>3 DEF PutDev
    <2>6. PutDev(F, b, c, g) = d
      BY <2>4, <2>5
    <2> QED
      BY <1>1, <1>2, <2>6 DEF d, g, DevAfter
  <1> QED
    BY <1>1, <1>2 DEF DevAfter

\* What it leaves elsewhere does not depend on the filled fields.
LEMMA RestAfterPut ==
  ASSUME NEW F, Closed(F), NEW b \in Buffers, NEW c \in Nat, NEW m \in Memories,
         NEW o \in ComputeOps, Untouched(o, b, F)
  PROVE  /\ SnapshotAfter(o, Put(F, b, c, m)) = SnapshotAfter(o, m)
         /\ StaticAfter(o, Put(F, b, c, m)) = StaticAfter(o, m)
         /\ PiecesAfter(o, Put(F, b, c, m)) = PiecesAfter(o, m)
         /\ ResultsAfter(o, Put(F, b, c, m)) = ResultsAfter(o, m)
  <1> DEFINE p == Put(F, b, c, m)
  <1>1. p.snapshot = m.snapshot /\ p.static = m.static /\ p.pieces = m.pieces /\ p.results = m.results
    BY PutFields
  <1>2. ASSUME o.op \in {"clone", "refresh"}
        PROVE  /\ p.dev[BufferOf(o)]["decode"] = m.dev[BufferOf(o)]["decode"]
               /\ p.dev[BufferOf(o)]["table"] = m.dev[BufferOf(o)]["table"]
    <2>1. o.sources = {DecodeOf(BufferOf(o))} /\ BufferOf(o) \in Buffers
      BY <1>2, KindsOfOperations, OneSource
    <2>2. DecodeOf(BufferOf(o)) \in o.sources /\ DecodeOf(BufferOf(o)) \in Sources
      BY <2>1 DEF DecodeOf, Sources
    <2>3. DecodeOf(BufferOf(o)).from = "decode" /\ DecodeOf(BufferOf(o)).buf = BufferOf(o)
      BY DEF DecodeOf
    <2>4. o.op \in Readers
      BY <1>2 DEF Readers
    <2> QED
      BY <2>2, <2>3, <2>4, PutUnread
  <1>3. ASSUME o.op = "stage"
        PROVE  PromptIn(o, p) = PromptIn(o, m)
    <2>1. o.sources \in OnePrompt /\ o.op \in Readers
      BY <1>3, KindsOfOperations DEF SlotOps, Readers
    <2>2. /\ PromptSource(o.sources) \in o.sources /\ PromptSource(o.sources) \in Sources
          /\ PromptSource(o.sources).from # "snapshot"
      BY <2>1, OnePromptSource DEF IsPrompt
    <2> QED
      BY <2>1, <2>2, PutUnread DEF PromptIn
  <1> HIDE DEF p
  <1>4. SnapshotAfter(o, p) = SnapshotAfter(o, m)
    BY <1>1, <1>2 DEF SnapshotAfter
  <1>5. StaticAfter(o, p) = StaticAfter(o, m)
    BY <1>1, <1>2 DEF StaticAfter
  <1>6. PiecesAfter(o, p) = PiecesAfter(o, m)
    BY <1>1, <1>3 DEF PiecesAfter
  <1>7. ResultsAfter(o, p) = ResultsAfter(o, m)
    BY <1>1 DEF ResultsAfter
  <1> QED
    BY <1>4, <1>5, <1>6, <1>7 DEF p

\* ... and the fields may be filled before or after it.
LEMMA AfterPut ==
  ASSUME NEW F, Closed(F), NEW b \in Buffers, NEW c \in Nat, NEW m \in Memories,
         NEW o \in ComputeOps, Untouched(o, b, F)
  PROVE  After(o, Put(F, b, c, m)) = Put(F, b, c, After(o, m))
  <1>1. After(o, m) \in Memories
    BY AfterTyped
  <1>2. /\ After(o, m).dev = DevAfter(o, m)
        /\ After(o, m).snapshot = SnapshotAfter(o, m)
        /\ After(o, m).static = StaticAfter(o, m)
        /\ After(o, m).pieces = PiecesAfter(o, m)
        /\ After(o, m).results = ResultsAfter(o, m)
    BY DEF After
  <1>3. Put(F, b, c, After(o, m))
          = [dev |-> PutDev(F, b, c, DevAfter(o, m)), snapshot |-> SnapshotAfter(o, m),
             static |-> StaticAfter(o, m), pieces |-> PiecesAfter(o, m),
             results |-> ResultsAfter(o, m)]
    BY <1>1, <1>2, PutFields
  <1> QED
    BY <1>3, DevAfterPut, RestAfterPut DEF After

\* A queue that does not touch the fields runs as well when they are filled first.
LEMMA RunsPut ==
  ASSUME NEW F, Closed(F), NEW b \in Buffers, NEW c \in Nat,
         NEW q \in Seq(ComputeOps), NEW x \in Memories, NEW a \in Memories, Runs(q, x, a),
         \A k \in 1 .. Len(q) : Untouched(q[k], b, F)
  PROVE  Runs(q, Put(F, b, c, x), Put(F, b, c, a)) /\ Put(F, b, c, a) \in Memories
  <1>1. PICK m \in [1 .. Len(q) + 1 -> Memories] :
          /\ m[1] = x
          /\ m[Len(q) + 1] = a
          /\ \A k \in 1 .. Len(q) : Right(q[k], m[k]) /\ m[k + 1] = After(q[k], m[k])
    BY DEF Runs
  <1> DEFINE n == [k \in 1 .. Len(q) + 1 |-> Put(F, b, c, m[k])]
  <1>2. Len(q) \in Nat
    OBVIOUS
  <1>3. n \in [1 .. Len(q) + 1 -> Memories]
    BY PutFields
  <1>4. n[1] = Put(F, b, c, x) /\ n[Len(q) + 1] = Put(F, b, c, a)
    BY <1>1, <1>2
  <1>5. ASSUME NEW k \in 1 .. Len(q)
        PROVE  Right(q[k], n[k]) /\ n[k + 1] = After(q[k], n[k])
    <2>1. q[k] \in ComputeOps /\ m[k] \in Memories /\ Untouched(q[k], b, F)
      BY <1>2
    <2>2. n[k] = Put(F, b, c, m[k]) /\ n[k + 1] = Put(F, b, c, After(q[k], m[k]))
      BY <1>1, <1>2
    <2>3. Right(q[k], m[k])
      BY <1>1
    <2> HIDE DEF n
    <2>4. Right(q[k], Put(F, b, c, m[k]))
      BY <2>1, <2>3, RightPut
    <2>5. After(q[k], Put(F, b, c, m[k])) = Put(F, b, c, After(q[k], m[k]))
      BY <2>1, AfterPut
    <2> QED
      BY <2>2, <2>4, <2>5
  <1> HIDE DEF n
  <1>6. Runs(q, Put(F, b, c, x), Put(F, b, c, a))
    BY <1>3, <1>4, <1>5 DEF Runs
  <1> QED
    BY <1>6, PutFields

-----------------------------------------------------------------------------
(* Queues that grow by one operation or lose their first *)

\* A queue with one more operation at its end.
LEMMA Appending ==
  ASSUME NEW S, NEW q \in Seq(S), NEW o \in S
  PROVE  /\ Append(q, o) \in Seq(S)
         /\ Len(q) \in Nat
         /\ Len(Append(q, o)) = Len(q) + 1
         /\ Append(q, o)[Len(q) + 1] = o
         /\ \A k \in 1 .. Len(q) : Append(q, o)[k] = q[k]
         /\ \A k \in 1 .. Len(q) + 1 : k \in 1 .. Len(q) \/ k = Len(q) + 1
  OBVIOUS

\* A queue without its head.
LEMMA Popping ==
  ASSUME NEW S, NEW q \in Seq(S), q # <<>>
  PROVE  /\ Tail(q) \in Seq(S)
         /\ Len(q) \in Nat /\ Len(q) >= 1 /\ 1 \in 1 .. Len(q)
         /\ Head(q) = q[1] /\ Head(q) \in S
         /\ Len(Tail(q)) = Len(q) - 1
         /\ \A k \in 1 .. Len(Tail(q)) : Tail(q)[k] = q[k + 1] /\ k + 1 \in 1 .. Len(q)
  OBVIOUS

\* Several operations are appended one after the other.
LEMMA AppendingSeveral ==
  ASSUME NEW S, NEW q \in Seq(S), NEW o \in S, NEW p \in S, NEW r \in S
  PROVE  /\ q \o <<>> = q
         /\ q \o <<o>> = Append(q, o)
         /\ q \o <<o, p>> = Append(Append(q, o), p)
         /\ q \o (<<o>> \o <<p, r>>) = Append(Append(Append(q, o), p), r)
         /\ q \o (<<>> \o <<p, r>>) = Append(Append(q, p), r)
  <1>1. q \o <<>> = q
    BY ConcatEmptySeq
  <1>2. ASSUME NEW t \in Seq(S), NEW u \in S, NEW v \in S
        PROVE  t \o <<u, v>> = Append(Append(t, u), v)
    <2>0. <<u, v>> \in Seq(S) /\ <<u>> \in Seq(S) /\ <<v>> \in Seq(S)
      OBVIOUS
    <2>1. <<u, v>> = <<u>> \o <<v>> /\ <<u>> \in Seq(S) /\ <<v>> \in Seq(S)
      <3>1. /\ <<u>> \o <<v>> \in Seq(S) /\ Len(<<u>> \o <<v>>) = 2
            /\ (<<u>> \o <<v>>)[1] = u /\ (<<u>> \o <<v>>)[2] = v
        BY <2>0
      <3>2. Len(<<u, v>>) = 2 /\ <<u, v>>[1] = u /\ <<u, v>>[2] = v
        OBVIOUS
      <3> DEFINE x == <<u, v>>
                 y == <<u>> \o <<v>>
      <3> HIDE DEF x, y
      <3>3. x \in Seq(S) /\ y \in Seq(S) /\ Len(x) = Len(y) /\ Len(x) = 2
            /\ x[1] = y[1] /\ x[2] = y[2]
        BY <2>0, <3>1, <3>2 DEF x, y
      <3>4. \A i \in 1 .. Len(x) : x[i] = y[i]
        BY <3>3
      <3>5. x = y
        BY <3>3, <3>4, SeqEqual
      <3> QED
        BY <2>0, <3>5 DEF x, y
    <2>2. Append(t, u) = t \o <<u>> /\ Append(t, u) \in Seq(S)
      BY AppendIsConcat
    <2>3. Append(Append(t, u), v) = (t \o <<u>>) \o <<v>>
      BY <2>2, AppendIsConcat
    <2> QED
      BY <2>1, <2>3, ConcatAssociative
  <1>3. q \o <<o>> = Append(q, o) /\ Append(q, o) \in Seq(S)
    BY AppendIsConcat
  <1>4. q \o (<<o>> \o <<p, r>>) = (q \o <<o>>) \o <<p, r>>
    <2>1. <<o>> \in Seq(S) /\ <<p, r>> \in Seq(S)
      OBVIOUS
    <2> QED
      BY <2>1, ConcatAssociative
  <1>5. <<>> \o <<p, r>> = <<p, r>>
    OBVIOUS
  <1>6. q \o <<o, p>> = Append(Append(q, o), p) /\ q \o <<p, r>> = Append(Append(q, p), r)
    BY <1>2
  <1>7. Append(q, o) \o <<p, r>> = Append(Append(Append(q, o), p), r)
    BY <1>2, <1>3
  <1> QED
    BY <1>1, <1>3, <1>4, <1>5, <1>6, <1>7

\* A clear queue stays clear under an operation that does not touch the phase ...
LEMMA ClearOn ==
  ASSUME NEW q \in Seq(ComputeOps), NEW o \in ComputeOps, NEW b, NEW phase,
         ClearIn(q, b, phase), ~Touches(o, b, phase)
  PROVE  ClearIn(Append(q, o), b, phase)
  BY Appending DEF ClearIn

\* ... and when its head has been executed.
LEMMA ClearOff ==
  ASSUME NEW q \in Seq(ComputeOps), q # <<>>, NEW b, NEW phase, ClearIn(q, b, phase)
  PROVE  ClearIn(Tail(q), b, phase)
  BY Popping DEF ClearIn

\* A queue that waits for a copy still does so with more operations behind.
LEMMA GuardedOn ==
  ASSUME NEW q \in Seq(ComputeOps), NEW o \in ComputeOps, NEW b, NEW phase, NEW n,
         GuardedIn(q, b, phase, n)
  PROVE  GuardedIn(Append(q, o), b, phase, n)
  <1> DEFINE r == Append(q, o)
  <1>1. PICK j \in 1 .. Len(q) : /\ q[j].op = "wait" /\ q[j].count >= n
                                 /\ \A k \in 1 .. j : ~Touches(q[k], b, phase)
    BY DEF GuardedIn
  <1>2. Len(q) \in Nat /\ Len(r) = Len(q) + 1 /\ \A k \in 1 .. Len(q) : r[k] = q[k]
    BY Appending
  <1> HIDE DEF r
  <1>3. j \in 1 .. Len(r) /\ r[j] = q[j] /\ \A k \in 1 .. j : r[k] = q[k]
    BY <1>2
  <1>4. GuardedIn(r, b, phase, n)
    BY <1>1, <1>3 DEF GuardedIn
  <1> QED
    BY <1>4 DEF r

\* A wait behind operations that do not touch the phase guards it.
LEMMA GuardedByWait ==
  ASSUME NEW q \in Seq(ComputeOps), NEW o \in WaitOps, NEW b, NEW phase,
         ClearIn(q, b, phase)
  PROVE  GuardedIn(Append(q, o), b, phase, o.count) /\ ClearIn(Append(q, o), b, phase)
  <1> DEFINE r == Append(q, o)
  <1>1. o \in ComputeOps /\ o.op = "wait" /\ o.count >= o.count /\ ~Touches(o, b, phase)
    BY DEF ComputeOps, WaitOps, Touches, Readers
  <1>2. ClearIn(r, b, phase)
    BY <1>1, ClearOn
  <1>3. Len(q) \in Nat /\ Len(r) = Len(q) + 1 /\ r[Len(q) + 1] = o
    BY <1>1, Appending
  <1> HIDE DEF r
  <1>4. Len(q) + 1 \in 1 .. Len(r) /\ \A k \in 1 .. Len(q) + 1 : ~Touches(r[k], b, phase)
    BY <1>2, <1>3 DEF ClearIn
  <1>5. GuardedIn(r, b, phase, o.count)
    BY <1>1, <1>3, <1>4 DEF GuardedIn
  <1> QED
    BY <1>2, <1>5 DEF r

\* A phase stays guarded until the wait for it has been passed.
LEMMA GuardedOff ==
  ASSUME NEW q \in Seq(ComputeOps), q # <<>>, NEW b, NEW phase, NEW n \in Nat,
         GuardedIn(q, b, phase, n)
  PROVE  /\ ~Touches(Head(q), b, phase)
         /\ ~(Head(q).op = "wait" /\ Head(q).count >= n) => GuardedIn(Tail(q), b, phase, n)
  <1> DEFINE r == Tail(q)
  <1>1. PICK j \in 1 .. Len(q) : /\ q[j].op = "wait" /\ q[j].count >= n
                                 /\ \A k \in 1 .. j : ~Touches(q[k], b, phase)
    BY DEF GuardedIn
  <1>2. /\ Len(q) \in Nat /\ Len(q) >= 1 /\ Head(q) = q[1] /\ Len(r) = Len(q) - 1
        /\ \A k \in 1 .. Len(r) : r[k] = q[k + 1]
    BY Popping
  <1> HIDE DEF r
  <1>3. ~Touches(Head(q), b, phase)
    BY <1>1, <1>2
  <1>4. ASSUME ~(Head(q).op = "wait" /\ Head(q).count >= n)
        PROVE  GuardedIn(r, b, phase, n)
    <2>1. j # 1
      BY <1>1, <1>2, <1>4
    <2>2. j - 1 \in 1 .. Len(r) /\ r[j - 1] = q[j]
      BY <1>1, <1>2, <2>1
    <2>3. ASSUME NEW k \in 1 .. j - 1
          PROVE  ~Touches(r[k], b, phase)
      <3>1. k \in 1 .. Len(r) /\ k + 1 \in 1 .. j
        BY <2>2, <1>2
      <3> QED
        BY <1>1, <1>2, <3>1
    <2> QED
      BY <1>1, <2>2, <2>3 DEF GuardedIn
  <1> QED
    BY <1>3, <1>4 DEF r

\* Records keep their order when something else is enqueued ...
LEMMA RecordsOn ==
  ASSUME NEW q \in Seq(ComputeOps), NEW o \in ComputeOps, NEW at, NEW last,
         RecordsIn(q, at, last), o.op # "record"
  PROVE  RecordsIn(Append(q, o), at, last)
  <1> DEFINE r == Append(q, o)
  <1>1. /\ Len(q) \in Nat /\ Len(r) = Len(q) + 1 /\ r[Len(q) + 1] = o
        /\ \A k \in 1 .. Len(q) : r[k] = q[k]
    BY Appending
  <1> HIDE DEF r
  <1>2. ASSUME NEW k \in 1 .. Len(r), r[k].op = "record"
        PROVE  /\ at[r[k].event] < r[k].count /\ r[k].count <= last[r[k].event]
               /\ \A j \in 1 .. k - 1 : r[j].op = "record" /\ r[j].event = r[k].event
                                           => r[j].count < r[k].count
    <2>1. k \in 1 .. Len(q)
      BY <1>1, <1>2
    <2>2. r[k] = q[k] /\ \A j \in 1 .. k - 1 : r[j] = q[j]
      BY <1>1, <2>1
    <2> QED
      BY <1>2, <2>1, <2>2 DEF RecordsIn
  <1>3. RecordsIn(r, at, last)
    BY <1>2 DEF RecordsIn
  <1> QED
    BY <1>3 DEF r

\* A new record counts one more.
LEMMA RecordsOnRecord ==
  ASSUME NEW q \in Seq(ComputeOps), NEW e \in {"consumed0", "consumed1"},
         NEW at \in [Events -> Nat], NEW last \in [Events -> Nat],
         \A f \in Events : at[f] <= last[f], RecordsIn(q, at, last)
  PROVE  /\ RecordOp(e, last[e] + 1) \in ComputeOps
         /\ RecordsIn(Append(q, RecordOp(e, last[e] + 1)), at, [last EXCEPT ![e] = @ + 1])
  <1> DEFINE o == RecordOp(e, last[e] + 1)
             r == Append(q, o)
             n == [last EXCEPT ![e] = @ + 1]
  <1>1. e \in Events /\ last[e] \in Nat /\ at[e] \in Nat
    BY DEF Events
  <1>2. o \in RecordOps /\ o.event = e /\ o.count = last[e] + 1 /\ o.op = "record"
    BY <1>1 DEF RecordOp, RecordOps
  <1>3. o \in ComputeOps
    BY <1>2 DEF ComputeOps
  <1>4. /\ n[e] = last[e] + 1
        /\ \A f \in Events : last[f] \in Nat /\ n[f] \in Nat /\ last[f] <= n[f]
    BY <1>1
  <1> HIDE DEF o, n
  <1>5. /\ Len(q) \in Nat /\ Len(r) = Len(q) + 1 /\ r[Len(q) + 1] = o
        /\ \A k \in 1 .. Len(q) : r[k] = q[k]
    BY <1>3, Appending
  <1> HIDE DEF r
  <1>6. ASSUME NEW k \in 1 .. Len(r), r[k].op = "record"
        PROVE  /\ at[r[k].event] < r[k].count /\ r[k].count <= n[r[k].event]
               /\ \A j \in 1 .. k - 1 : r[j].op = "record" /\ r[j].event = r[k].event
                                           => r[j].count < r[k].count
    <2>1. CASE k \in 1 .. Len(q)
      <3>1. r[k] = q[k] /\ \A j \in 1 .. k - 1 : r[j] = q[j]
        BY <1>5, <2>1
      <3>2. q[k].event \in Events /\ q[k].count \in Nat
        BY <1>6, <2>1, <3>1, KindsOfOperations DEF RecordOps, Events
      <3>3. /\ last[q[k].event] \in Nat /\ n[q[k].event] \in Nat
            /\ last[q[k].event] <= n[q[k].event]
        BY <1>4, <3>2
      <3>4. /\ at[q[k].event] < q[k].count /\ q[k].count <= last[q[k].event]
            /\ \A j \in 1 .. k - 1 : q[j].op = "record" /\ q[j].event = q[k].event
                                        => q[j].count < q[k].count
        BY <1>6, <2>1, <3>1 DEF RecordsIn
      <3>5. q[k].count <= n[q[k].event]
        BY <3>2, <3>3, <3>4
      <3> QED
        BY <3>1, <3>4, <3>5
    <2>2. CASE k = Len(q) + 1
      <3>1. r[k] = o /\ \A j \in 1 .. k - 1 : j \in 1 .. Len(q) /\ r[j] = q[j]
        BY <1>5, <2>2
      <3>2. ASSUME NEW j \in 1 .. Len(q), q[j].op = "record", q[j].event = e
            PROVE  q[j].count < last[e] + 1
        <4>1. q[j].count \in Nat
          BY <3>2, KindsOfOperations DEF RecordOps
        <4>2. q[j].count <= last[e]
          BY <3>2 DEF RecordsIn
        <4> QED
          BY <1>1, <4>1, <4>2
      <3>3. at[e] < last[e] + 1 /\ last[e] + 1 <= n[e]
        BY <1>1, <1>4
      <3>4. at[r[k].event] < r[k].count /\ r[k].count <= n[r[k].event]
        BY <1>2, <3>1, <3>3
      <3>5. \A j \in 1 .. k - 1 : r[j].op = "record" /\ r[j].event = r[k].event
                                   => r[j].count < r[k].count
        BY <1>2, <3>1, <3>2
      <3> QED
        BY <3>4, <3>5
    <2> QED
      BY <1>5, <2>1, <2>2
  <1>7. RecordsIn(r, at, n)
    BY <1>6 DEF RecordsIn
  <1> QED
    BY <1>3, <1>7 DEF o, r, n

\* When the head has been executed the other records are still to come, in order.
LEMMA RecordsOff ==
  ASSUME NEW q \in Seq(ComputeOps), q # <<>>,
         NEW at \in [Events -> Nat], NEW last \in [Events -> Nat],
         \A f \in Events : at[f] <= last[f], RecordsIn(q, at, last)
  PROVE  /\ RecordsIn(Tail(q), PassedEvents(at, Head(q)), last)
         /\ PassedEvents(at, Head(q)) \in [Events -> Nat]
         /\ \A f \in Events : PassedEvents(at, Head(q))[f] <= last[f]
         /\ PassedEvents(at, Head(q))["copied"] = at["copied"]
  <1> DEFINE r == Tail(q)
             n == PassedEvents(at, Head(q))
  <1>1. /\ Len(q) \in Nat /\ Len(q) >= 1 /\ Head(q) = q[1] /\ Len(r) = Len(q) - 1
        /\ \A k \in 1 .. Len(r) : r[k] = q[k + 1]
        /\ \A k \in 1 .. Len(q) : q[k] \in ComputeOps
    BY Popping
  <1> HIDE DEF r
  <1>2. \A k \in 1 .. Len(q) : q[k].op = "record" =>
          q[k].event \in {"consumed0", "consumed1"} /\ q[k].event \in Events /\ q[k].count \in Nat
    BY <1>1, KindsOfOperations DEF RecordOps, Events
  <1>3. CASE q[1].op = "record"
    <2>1. q[1].event \in Events /\ q[1].event # "copied" /\ q[1].count \in Nat
      BY <1>1, <1>2, <1>3
    <2>2. at[q[1].event] < q[1].count /\ q[1].count <= last[q[1].event]
      BY <1>1, <1>3 DEF RecordsIn
    <2>3. n = [at EXCEPT ![q[1].event] = q[1].count]
      BY <1>1, <1>3, <2>2 DEF PassedEvents
    <2> HIDE DEF n
    <2>4. n \in [Events -> Nat] /\ n[q[1].event] = q[1].count
          /\ \A f \in Events : f # q[1].event => n[f] = at[f]
      BY <2>1, <2>3
    <2>5. (\A f \in Events : n[f] <= last[f]) /\ n["copied"] = at["copied"]
      BY <2>1, <2>2, <2>4 DEF Events
    <2>6. ASSUME NEW k \in 1 .. Len(r), r[k].op = "record"
          PROVE  /\ n[r[k].event] < r[k].count /\ r[k].count <= last[r[k].event]
                 /\ \A j \in 1 .. k - 1 : r[j].op = "record" /\ r[j].event = r[k].event
                                             => r[j].count < r[k].count
      <3>1. r[k] = q[k + 1] /\ k + 1 \in 1 .. Len(q) /\ 1 \in 1 .. (k + 1) - 1
            /\ \A j \in 1 .. k - 1 : r[j] = q[j + 1] /\ j + 1 \in 1 .. (k + 1) - 1
        BY <1>1
      <3>2. /\ at[q[k + 1].event] < q[k + 1].count /\ q[k + 1].count <= last[q[k + 1].event]
            /\ \A j \in 1 .. (k + 1) - 1 : q[j].op = "record" /\ q[j].event = q[k + 1].event
                                             => q[j].count < q[k + 1].count
        BY <2>6, <3>1 DEF RecordsIn
      <3>3. n[q[k + 1].event] < q[k + 1].count
        <4>1. q[k + 1].event \in Events
          BY <1>2, <2>6, <3>1
        <4> QED
          BY <1>3, <2>4, <3>1, <3>2, <4>1
      <3> QED
        BY <3>1, <3>2, <3>3
    <2>7. RecordsIn(r, n, last)
      BY <2>6 DEF RecordsIn
    <2> QED
      BY <2>4, <2>5, <2>7 DEF r, n
  <1>4. CASE q[1].op # "record"
    <2>1. n = at
      BY <1>1, <1>4 DEF PassedEvents
    <2> HIDE DEF n
    <2>2. ASSUME NEW k \in 1 .. Len(r), r[k].op = "record"
          PROVE  /\ at[r[k].event] < r[k].count /\ r[k].count <= last[r[k].event]
                 /\ \A j \in 1 .. k - 1 : r[j].op = "record" /\ r[j].event = r[k].event
                                             => r[j].count < r[k].count
      <3>1. r[k] = q[k + 1] /\ k + 1 \in 1 .. Len(q)
            /\ \A j \in 1 .. k - 1 : r[j] = q[j + 1] /\ j + 1 \in 1 .. (k + 1) - 1
        BY <1>1
      <3> QED
        BY <2>2, <3>1 DEF RecordsIn
    <2>3. RecordsIn(r, at, last)
      BY <2>2 DEF RecordsIn
    <2> QED
      BY <2>1, <2>3 DEF r, n
  <1> QED
    BY <1>3, <1>4

\* A released buffer stays released under operations that do not touch it ...
LEMMA ReleasedOn ==
  ASSUME NEW q \in Seq(ComputeOps), NEW o \in ComputeOps, NEW b, NEW v,
         ReleasedIn(q, b, v), \A phase \in Phases : ~Touches(o, b, phase)
  PROVE  ReleasedIn(Append(q, o), b, v)
  <1> DEFINE r == Append(q, o)
  <1>1. /\ Len(q) \in Nat /\ Len(r) = Len(q) + 1 /\ r[Len(q) + 1] = o
        /\ \A k \in 1 .. Len(q) : r[k] = q[k]
    BY Appending
  <1> HIDE DEF r
  <1>2. ASSUME NEW k \in 1 .. Len(r), NEW phase \in Phases, Touches(r[k], b, phase)
        PROVE  /\ v[b]
               /\ \E l \in k + 1 .. Len(r) : r[l].op = "record" /\ r[l].event = Consumed(b)
    <2>1. k \in 1 .. Len(q) /\ r[k] = q[k]
      BY <1>1, <1>2
    <2>2. v[b] /\ \E l \in k + 1 .. Len(q) : q[l].op = "record" /\ q[l].event = Consumed(b)
      BY <1>2, <2>1 DEF ReleasedIn
    <2>3. \A l \in k + 1 .. Len(q) : l \in k + 1 .. Len(r) /\ r[l] = q[l]
      BY <1>1, <2>1
    <2> QED
      BY <2>2, <2>3
  <1>3. ReleasedIn(r, b, v)
    BY <1>2 DEF ReleasedIn
  <1> QED
    BY <1>3 DEF r

\* A record releases whatever comes before it.
LEMMA ReleasedByRecord ==
  ASSUME NEW q \in Seq(ComputeOps), NEW o \in RecordOps, NEW b, NEW v,
         o.event = Consumed(b), v[b]
  PROVE  ReleasedIn(Append(q, o), b, v)
  <1> DEFINE r == Append(q, o)
  <1>1. o \in ComputeOps /\ o.op = "record" /\ \A phase \in Phases : ~Touches(o, b, phase)
    BY DEF ComputeOps, RecordOps, Touches, Readers
  <1>2. Len(q) \in Nat /\ Len(r) = Len(q) + 1 /\ r[Len(q) + 1] = o
    BY <1>1, Appending
  <1> HIDE DEF r
  <1>3. ASSUME NEW k \in 1 .. Len(r), NEW phase \in Phases, Touches(r[k], b, phase)
        PROVE  \E l \in k + 1 .. Len(r) : r[l].op = "record" /\ r[l].event = Consumed(b)
    <2>1. k # Len(q) + 1
      BY <1>1, <1>2, <1>3
    <2>2. Len(q) + 1 \in k + 1 .. Len(r)
      BY <1>2, <2>1
    <2> QED
      BY <1>1, <1>2, <2>2
  <1>4. ReleasedIn(r, b, v)
    BY <1>3 DEF ReleasedIn
  <1> QED
    BY <1>4 DEF r

\* ... and when the head of the queue has been executed.
LEMMA ReleasedOff ==
  ASSUME NEW q \in Seq(ComputeOps), q # <<>>, NEW b, NEW v, ReleasedIn(q, b, v)
  PROVE  ReleasedIn(Tail(q), b, v)
  <1> DEFINE r == Tail(q)
  <1>1. /\ Len(q) \in Nat /\ Len(q) >= 1 /\ Len(r) = Len(q) - 1
        /\ \A k \in 1 .. Len(r) : r[k] = q[k + 1]
    BY Popping
  <1> HIDE DEF r
  <1>2. ASSUME NEW k \in 1 .. Len(r), NEW phase \in Phases, Touches(r[k], b, phase)
        PROVE  /\ v[b]
               /\ \E l \in k + 1 .. Len(r) : r[l].op = "record" /\ r[l].event = Consumed(b)
    <2>1. k + 1 \in 1 .. Len(q) /\ r[k] = q[k + 1]
      BY <1>1
    <2>2. PICK l \in (k + 1) + 1 .. Len(q) : q[l].op = "record" /\ q[l].event = Consumed(b)
      BY <1>2, <2>1 DEF ReleasedIn
    <2>3. l - 1 \in k + 1 .. Len(r) /\ r[l - 1] = q[l]
      BY <1>1, <2>1, <2>2
    <2>4. v[b]
      BY <1>2, <2>1 DEF ReleasedIn
    <2> QED
      BY <2>2, <2>3, <2>4
  <1>3. ReleasedIn(r, b, v)
    BY <1>2 DEF ReleasedIn
  <1> QED
    BY <1>3 DEF r

\* Once the last record of a released buffer has been passed, nothing touches it.
LEMMA ReleasedAndPassed ==
  ASSUME NEW q \in Seq(ComputeOps), NEW b \in Buffers, NEW v,
         NEW at \in [Events -> Nat], NEW last \in [Events -> Nat],
         ReleasedIn(q, b, v), RecordsIn(q, at, last),
         v[b] => at[Consumed(b)] = last[Consumed(b)]
  PROVE  \A phase \in Phases : ClearIn(q, b, phase)
  <1>1. SUFFICES ASSUME NEW phase \in Phases, NEW k \in 1 .. Len(q), Touches(q[k], b, phase)
                 PROVE  FALSE
    BY DEF ClearIn
  <1>2. v[b]
    BY <1>1 DEF ReleasedIn
  <1>3. PICK l \in k + 1 .. Len(q) : q[l].op = "record" /\ q[l].event = Consumed(b)
    BY <1>1 DEF ReleasedIn
  <1>4. l \in 1 .. Len(q) /\ q[l] \in ComputeOps
    OBVIOUS
  <1>5. at[Consumed(b)] < q[l].count /\ q[l].count <= last[Consumed(b)]
    BY <1>3, <1>4 DEF RecordsIn
  <1>6. q[l].count \in Nat /\ at[Consumed(b)] \in Nat
    BY <1>3, <1>4, KindsOfOperations DEF RecordOps, Consumed, Events
  <1> QED
    BY <1>2, <1>5, <1>6

-----------------------------------------------------------------------------
(* The operations the CPU thread enqueues *)

\* An operation that is no record and touches these phases of the active buffer.
Own(o, P) ==
  /\ o \in ComputeOps /\ o.op # "record"
  /\ \A b \in Buffers : \A phase \in Phases : Touches(o, b, phase) => b = active /\ phase \in P

\* The phases that some sources of the active buffer are.
Among(S, P) ==
  \A s \in S : s \in Sources /\ (s.from # "snapshot" => s.buf = active /\ s.from \in P)

\* What the callbacks of a step read: metadata of the active buffer.
LEMMA SourcesHere ==
  ASSUME TypesInv
  PROVE  /\ DecodeSource = DecodeOf(active) /\ DecodeSource \in Sources
         /\ PrefillSource \in Sources /\ MixedSource \in Sources
         /\ {DecodeSource} \in OneDecode
         /\ Among({DecodeSource}, {"decode"})
         /\ Among({PrefillSource}, {"prefill"}) /\ Among({MixedSource}, {"mixed"})
         /\ {PrefillSource} \in OnePrompt /\ {MixedSource} \in OnePrompt
         /\ step \in Nat /\ cohort \in Nat /\ plan.bucket \in Buckets
         /\ plan.tokens \in Nat /\ plan.tokens >= 1
  <1>1. active \in Buffers /\ step \in Nat /\ cohort \in Nat
    BY RuntimeAssumption DEF TypesInv
  <1>2. plan.bucket \in Buckets /\ plan.tokens \in 1 .. (PrefillBucket + 1)
    BY DEF TypesInv, Plans
  <1>3. plan.tokens \in Nat /\ plan.tokens >= 1
    BY <1>2, RuntimeAssumption
  <1>4. /\ DecodeSource = DecodeOf(active) /\ DecodeSource \in Sources
        /\ PrefillSource \in Sources /\ MixedSource \in Sources
        /\ DecodeSource.from = "decode" /\ DecodeSource.buf = active
        /\ PrefillSource.from = "prefill" /\ PrefillSource.buf = active
        /\ MixedSource.from = "mixed" /\ MixedSource.buf = active
    BY <1>1 DEF DecodeSource, PrefillSource, MixedSource, DecodeOf, Sources
  <1>5. {DecodeSource} \in OneDecode
    BY <1>1, <1>4 DEF OneDecode
  <1>6. {PrefillSource} \in OnePrompt /\ {MixedSource} \in OnePrompt
    BY <1>4 DEF OnePrompt, IsPrompt
  <1>7. /\ Among({DecodeSource}, {"decode"})
        /\ Among({PrefillSource}, {"prefill"}) /\ Among({MixedSource}, {"mixed"})
    BY <1>4 DEF Among
  <1> QED
    BY <1>1, <1>2, <1>3, <1>4, <1>5, <1>6, <1>7

\* A reader touches its sources only.
LEMMA ReaderOwn ==
  ASSUME NEW o \in ComputeOps, o.op \in Readers, NEW P, Among(o.sources, P)
  PROVE  Own(o, P)
  <1>1. o.op # "record" /\ o.op # "advance"
    BY DEF Readers
  <1>2. ASSUME NEW b \in Buffers, NEW phase \in Phases, Touches(o, b, phase)
        PROVE  b = active /\ phase \in P
    <2>1. PICK s \in o.sources : s.from = phase /\ s.buf = b
      BY <1>1, <1>2 DEF Touches
    <2>2. s.from # "snapshot"
      BY <2>1 DEF Phases
    <2> QED
      BY <2>1, <2>2 DEF Among
  <1> QED
    BY <1>1, <1>2 DEF Own

\* An operation that reads no metadata touches nothing.
LEMMA OtherOwn ==
  ASSUME NEW o \in ComputeOps, o.op \in {"wait", "replay", "warmup", "sample"}, NEW P
  PROVE  Own(o, P)
  BY DEF Own, Touches, Readers

\* An eager pass ...
LEMMA PassOp ==
  ASSUME TypesInv, NEW S, NEW P, Among(S, P), NEW L \in SUBSET Logits
  PROVE  /\ Own(Pass(S, L), P)
         /\ Pass(S, L).op = "pass" /\ Pass(S, L).sources = S /\ Pass(S, L).fills = L
         /\ Pass(S, L).step = step /\ Pass(S, L).cohort = cohort
  <1> DEFINE o == Pass(S, L)
  <1>1. /\ o.op = "pass" /\ o.sources = S /\ o.fills = L /\ o.step = step /\ o.cohort = cohort
    BY DEF Pass
  <1>2. S \in SUBSET Sources
    BY DEF Among
  <1>3. o \in PassOps
    BY <1>2, SourcesHere DEF Pass, PassOps
  <1> HIDE DEF o
  <1>4. o \in ComputeOps
    BY <1>3 DEF ComputeOps
  <1>5. Own(o, P)
    BY <1>1, <1>4, ReaderOwn DEF Readers
  <1> QED
    BY <1>1, <1>5 DEF o

\* GraphDecode, operation by operation.
Refresh(table) ==
  [op |-> "refresh", sources |-> {DecodeSource}, table |-> table,
   bucket |-> plan.bucket, step |-> step, cohort |-> cohort]
Replay == [op |-> "replay", bucket |-> plan.bucket, step |-> step, cohort |-> cohort]

\* ... the refresh and the replay of a decode graph ...
LEMMA GraphOps ==
  ASSUME TypesInv, NEW t \in BOOLEAN
  PROVE  /\ GraphDecode(t) = <<Refresh(t), Replay>>
         /\ Own(Refresh(t), {"decode"}) /\ Own(Replay, {"decode"})
         /\ BufferOf(Refresh(t)) = active
  <1>1. GraphDecode(t) = <<Refresh(t), Replay>>
    BY DEF GraphDecode, Refresh, Replay
  <1>2. Refresh(t) \in RefreshOps /\ Replay \in ReplayOps
    BY SourcesHere DEF Refresh, Replay, RefreshOps, ReplayOps
  <1>3. Refresh(t) \in ComputeOps /\ Replay \in ComputeOps
    BY <1>2 DEF ComputeOps
  <1>4. Refresh(t).op = "refresh" /\ Refresh(t).sources = {DecodeSource} /\ Replay.op = "replay"
    BY DEF Refresh, Replay
  <1>5. Own(Refresh(t), {"decode"})
    BY <1>3, <1>4, SourcesHere, ReaderOwn DEF Readers
  <1>6. Own(Replay, {"decode"})
    BY <1>3, <1>4, OtherOwn
  <1>7. DecodeOf(BufferOf(Refresh(t))) = DecodeOf(active)
    BY <1>2, <1>4, SourcesHere, OneSource
  <1>8. BufferOf(Refresh(t)) = active
    BY <1>7, DecodeOfBuffer
  <1> QED
    BY <1>1, <1>5, <1>6, <1>8

\* The clone of the staged decode rows.
Clone == [op |-> "clone", sources |-> {DecodeSource}, step |-> step, cohort |-> cohort]

\* ... the clone of the decode metadata ...
LEMMA CloneOp ==
  ASSUME TypesInv
  PROVE  /\ StageOps = IF config.clone THEN <<Clone>> ELSE <<>>
         /\ Own(Clone, {"decode"}) /\ BufferOf(Clone) = active
  <1>1. StageOps = IF config.clone THEN <<Clone>> ELSE <<>>
    BY DEF StageOps, Clone
  <1>2. Clone \in CloneOps
    BY SourcesHere DEF Clone, CloneOps
  <1>3. Clone \in ComputeOps
    BY <1>2 DEF ComputeOps
  <1>4. Clone.op = "clone" /\ Clone.sources = {DecodeSource}
    BY DEF Clone
  <1>5. Own(Clone, {"decode"})
    BY <1>3, <1>4, SourcesHere, ReaderOwn DEF Readers
  <1>6. DecodeOf(BufferOf(Clone)) = DecodeOf(active)
    BY <1>2, <1>4, SourcesHere, OneSource
  <1>7. BufferOf(Clone) = active
    BY <1>6, DecodeOfBuffer
  <1> QED
    BY <1>1, <1>5, <1>7

\* A replayed prefill pass, operation by operation.
Warmup == [op |-> "warmup"]
StageSlots(S, n) ==
  [op |-> "stage", sources |-> S, tokens |-> n, step |-> step, cohort |-> cohort]
ReplayPieces(S, L, n) ==
  [op |-> "pieces", sources |-> S, fills |-> L, tokens |-> n, step |-> step, cohort |-> cohort]

\* ... a replayed prefill with its warm-up ...
LEMMA PieceOps ==
  ASSUME TypesInv, NEW S \in OnePrompt, NEW P, Among(S, P), NEW L \in SUBSET Logits
  PROVE  /\ PrefillPass(S, L, plan.tokens) =
              IF config.graphs /\ Fits(plan.tokens)
              THEN (IF captured THEN <<>> ELSE <<Warmup>>)
                   \o <<StageSlots(S, plan.tokens), ReplayPieces(S, L, plan.tokens)>>
              ELSE <<Pass(S, L)>>
         /\ Own(Warmup, P)
         /\ Fits(plan.tokens) => /\ Own(StageSlots(S, plan.tokens), P)
                                 /\ Own(ReplayPieces(S, L, plan.tokens), P)
  <1> DEFINE n == plan.tokens
  <1>1. PrefillPass(S, L, n) =
          IF config.graphs /\ Fits(n)
          THEN (IF captured THEN <<>> ELSE <<Warmup>>) \o <<StageSlots(S, n), ReplayPieces(S, L, n)>>
          ELSE <<Pass(S, L)>>
    BY DEF PrefillPass, Warmup, StageSlots, ReplayPieces
  <1>2. Own(Warmup, P)
    <2>1. Warmup \in WarmupOps /\ Warmup.op = "warmup"
      BY DEF Warmup, WarmupOps
    <2>2. Warmup \in ComputeOps
      BY <2>1 DEF ComputeOps
    <2> QED
      BY <2>1, <2>2, OtherOwn
  <1>3. ASSUME Fits(n)
        PROVE  Own(StageSlots(S, n), P) /\ Own(ReplayPieces(S, L, n), P)
    <2>1. n \in 1 .. PrefillBucket
      BY <1>3, SourcesHere, RuntimeAssumption DEF Fits
    <2>2. StageSlots(S, n) \in SlotOps /\ ReplayPieces(S, L, n) \in PiecesOps
      BY <2>1, SourcesHere DEF StageSlots, ReplayPieces, SlotOps, PiecesOps
    <2>3. StageSlots(S, n) \in ComputeOps /\ ReplayPieces(S, L, n) \in ComputeOps
      BY <2>2 DEF ComputeOps
    <2>4. /\ StageSlots(S, n).op \in Readers /\ StageSlots(S, n).sources = S
          /\ ReplayPieces(S, L, n).op \in Readers /\ ReplayPieces(S, L, n).sources = S
      BY DEF StageSlots, ReplayPieces, Readers
    <2> QED
      BY <2>3, <2>4, ReaderOwn
  <1> HIDE DEF n
  <1>4. /\ PrefillPass(S, L, n) =
              IF config.graphs /\ Fits(n)
              THEN (IF captured THEN <<>> ELSE <<Warmup>>)
                   \o <<StageSlots(S, n), ReplayPieces(S, L, n)>>
              ELSE <<Pass(S, L)>>
        /\ Own(Warmup, P)
        /\ Fits(n) => /\ Own(StageSlots(S, n), P)
                      /\ Own(ReplayPieces(S, L, n), P)
    BY <1>1, <1>2, <1>3
  <1> QED
    BY <1>4 DEF n

Advance == [op |-> "advance", buf |-> active, step |-> step + 1, cohort |-> cohort]
SampleOp == [op |-> "sample", fills |-> Planned, step |-> step]

\* ... an advance in place ...
LEMMA AdvanceOp ==
  ASSUME TypesInv
  PROVE  Own(Advance, {"decode"})
  <1>1. Advance \in AdvanceOps /\ Advance.op = "advance" /\ Advance.buf = active
    BY SourcesHere DEF Advance, AdvanceOps, TypesInv
  <1>2. Advance \in ComputeOps
    BY <1>1 DEF ComputeOps
  <1> QED
    BY <1>1, <1>2 DEF Own, Touches, Readers

\* ... and sampling are operations that touch what they read and no more.
LEMMA SamplingOp ==
  ASSUME TypesInv
  PROVE  Own(SampleOp, {})
  <1>1. SampleOp \in SampleOps /\ SampleOp.op = "sample"
    BY SourcesHere DEF SampleOp, SampleOps, Planned
  <1>2. SampleOp \in ComputeOps
    BY <1>1 DEF ComputeOps
  <1> QED
    BY <1>1, <1>2, OtherOwn

-----------------------------------------------------------------------------
(* What holds of the queue of the compute stream while it grows *)

\* Executed from the arrived memory, q leaves a; it waits for the copies under
\* way, releases the buffer that is not active, and does not touch phases P.
QueueOk(q, last, v, P, a) ==
  /\ q \in Seq(ComputeOps) /\ a \in Memories
  /\ Runs(q, Arrived, a)
  /\ RecordsIn(q, reached, last)
  /\ \A i \in 1 .. Len(copyQ) : IsCopy(i) =>
       GuardedIn(q, active, copyQ[i].phase, copyQ[i + 1].count)
  /\ \A b \in Buffers : b # active => ReleasedIn(q, b, v)
  /\ \A phase \in P : ClearIn(q, active, phase)

\* The memory of all copies arrived is a memory.
LEMMA ArrivedTyped ==
  ASSUME TypesInv
  PROVE  Arrived \in Memories
  BY PutFields DEF Arrived, TypesInv

\* An operation that touches none of the phases kept clear, and finds what it
\* has to, may be enqueued.
LEMMA OwnOn ==
  ASSUME TypesInv, NEW q, NEW last, NEW v, NEW P \in SUBSET Phases, NEW a,
         QueueOk(q, last, v, P, a),
         NEW o, NEW Q, Own(o, Q), Q \cap P = {}, Right(o, a)
  PROVE  QueueOk(Append(q, o), last, v, P, After(o, a))
  <1>1. /\ q \in Seq(ComputeOps) /\ a \in Memories /\ o \in ComputeOps /\ o.op # "record"
        /\ Runs(q, Arrived, a) /\ RecordsIn(q, reached, last)
    BY DEF QueueOk, Own
  <1>2. Append(q, o) \in Seq(ComputeOps)
    BY <1>1
  <1>3. Runs(Append(q, o), Arrived, After(o, a)) /\ After(o, a) \in Memories
    BY <1>1, ArrivedTyped, RunsOn
  <1>4. RecordsIn(Append(q, o), reached, last)
    BY <1>1, RecordsOn
  <1>5. \A i \in 1 .. Len(copyQ) : IsCopy(i) =>
          GuardedIn(Append(q, o), active, copyQ[i].phase, copyQ[i + 1].count)
    BY <1>1, GuardedOn DEF QueueOk
  <1>6. ASSUME NEW b \in Buffers, b # active
        PROVE  ReleasedIn(Append(q, o), b, v)
    <2>1. ReleasedIn(q, b, v) /\ \A phase \in Phases : ~Touches(o, b, phase)
      BY <1>6 DEF QueueOk, Own
    <2> QED
      BY <1>1, <2>1, ReleasedOn
  <1>7. ASSUME NEW phase \in P
        PROVE  ClearIn(Append(q, o), active, phase)
    <2>1. active \in Buffers /\ phase \in Phases /\ phase \notin Q
      BY DEF TypesInv
    <2>2. ClearIn(q, active, phase) /\ ~Touches(o, active, phase)
      BY <2>1 DEF QueueOk, Own
    <2> QED
      BY <1>1, <2>2, ClearOn
  <1> QED
    BY <1>2, <1>3, <1>4, <1>5, <1>6, <1>7 DEF QueueOk

\* A record publishes what has been enqueued.
LEMMA PublishOn ==
  ASSUME TypesInv, NEW q, NEW P \in SUBSET Phases, NEW a,
         QueueOk(q, recorded, valid, P, a)
  PROVE  LET o == RecordOp(Consumed(active), recorded[Consumed(active)] + 1)
             last == [recorded EXCEPT ![Consumed(active)] = @ + 1]
             v == [valid EXCEPT ![active] = TRUE]
         IN  /\ QueueOk(Append(q, o), last, v, P, a)
             /\ ReleasedIn(Append(q, o), active, v)
             /\ o \in ComputeOps
             /\ last \in [Events -> Nat] /\ last["copied"] = recorded["copied"]
             /\ \A e \in Events : recorded[e] <= last[e]
             /\ v \in [Buffers -> BOOLEAN]
  <1> DEFINE e == Consumed(active)
             o == RecordOp(e, recorded[e] + 1)
             last == [recorded EXCEPT ![e] = @ + 1]
             v == [valid EXCEPT ![active] = TRUE]
  <1>1. /\ q \in Seq(ComputeOps) /\ a \in Memories
        /\ Runs(q, Arrived, a) /\ RecordsIn(q, reached, recorded)
    BY DEF QueueOk
  <1>2. /\ active \in Buffers /\ recorded \in [Events -> Nat] /\ reached \in [Events -> Nat]
        /\ valid \in [Buffers -> BOOLEAN] /\ \A f \in Events : reached[f] <= recorded[f]
    BY DEF TypesInv
  <1>3. e \in {"consumed0", "consumed1"} /\ e \in Events
    BY DEF Consumed, Events
  <1> HIDE DEF e
  <1>4. o \in ComputeOps /\ RecordsIn(Append(q, o), reached, last)
    BY <1>1, <1>2, <1>3, RecordsOnRecord
  <1>5. o.op = "record" /\ o.event = e /\ o \in RecordOps
    <2>1. o.op = "record" /\ o.event = e
      BY DEF RecordOp
    <2> QED
      BY <1>4, <2>1, KindsOfOperations
  <1>6. /\ last \in [Events -> Nat] /\ last["copied"] = recorded["copied"]
        /\ \A f \in Events : recorded[f] <= last[f]
    <2>1. last \in [Events -> Nat] /\ \A f \in Events : recorded[f] <= last[f]
      BY <1>2, <1>3
    <2>2. e # "copied" /\ "copied" \in Events
      BY <1>3 DEF Events
    <2> QED
      BY <1>2, <2>1, <2>2
  <1>7. v \in [Buffers -> BOOLEAN] /\ v[active] /\ \A b \in Buffers : b # active => v[b] = valid[b]
    BY <1>2
  <1> HIDE DEF o, last, v
  <1>8. Right(o, a) /\ After(o, a) = a
    <2>1. Right(o, a)
      BY <1>5 DEF Right, Readers
    <2>2. /\ DevAfter(o, a) = a.dev /\ SnapshotAfter(o, a) = a.snapshot
          /\ StaticAfter(o, a) = a.static /\ PiecesAfter(o, a) = a.pieces
      BY <1>5 DEF DevAfter, SnapshotAfter, StaticAfter, PiecesAfter
    <2>3. ResultsAfter(o, a) = a.results
      <3>1. ResultsAfter(o, a) = [f \in Logits |-> a.results[f]]
        BY <1>5 DEF ResultsAfter
      <3>2. a.results \in [Logits -> Nat]
        BY <1>1 DEF Memories
      <3> QED
        BY <3>1, <3>2
    <2>4. a = [dev |-> a.dev, snapshot |-> a.snapshot, static |-> a.static,
               pieces |-> a.pieces, results |-> a.results]
      BY <1>1 DEF Memories
    <2> QED
      BY <2>1, <2>2, <2>3, <2>4 DEF After
  <1>9. Append(q, o) \in Seq(ComputeOps) /\ Runs(Append(q, o), Arrived, a)
    BY <1>1, <1>4, <1>8, ArrivedTyped, RunsOn
  <1>10. \A i \in 1 .. Len(copyQ) : IsCopy(i) =>
           GuardedIn(Append(q, o), active, copyQ[i].phase, copyQ[i + 1].count)
    BY <1>1, <1>4, GuardedOn DEF QueueOk
  <1>11. \A b \in Buffers : \A phase \in Phases : ~Touches(o, b, phase)
    BY <1>5 DEF Touches, Readers
  <1>12. ASSUME NEW b \in Buffers, b # active
         PROVE  ReleasedIn(Append(q, o), b, v)
    <2>1. ReleasedIn(q, b, valid) /\ v[b] = valid[b]
      BY <1>7, <1>12 DEF QueueOk
    <2>2. ReleasedIn(q, b, v)
      BY <2>1 DEF ReleasedIn
    <2> QED
      BY <1>1, <1>4, <1>11, <2>2, ReleasedOn
  <1>13. ReleasedIn(Append(q, o), active, v)
    BY <1>1, <1>5, <1>7, ReleasedByRecord DEF e
  <1>14. ASSUME NEW phase \in P
         PROVE  ClearIn(Append(q, o), active, phase)
    <2>1. ClearIn(q, active, phase) /\ ~Touches(o, active, phase)
      BY <1>2, <1>11 DEF QueueOk
    <2> QED
      BY <1>1, <1>4, <2>1, ClearOn
  <1>15. QueueOk(Append(q, o), last, v, P, a)
    BY <1>1, <1>4, <1>9, <1>10, <1>12, <1>14 DEF QueueOk
  <1> QED
    BY <1>4, <1>6, <1>7, <1>13, <1>15 DEF e, o, last, v

-----------------------------------------------------------------------------
(* What the callbacks enqueue runs *)

\* What a source holds when the metadata of this step are there.
Here == [step |-> step, cohort |-> cohort]

\* Operations of the current step have to find the same in a source.
LEMMA FindsHere ==
  ASSUME NEW s, NEW o, NEW a, o.step = step, o.cohort = cohort
  PROVE  Finds(s, o, a) <=> Finds(s, Here, a)
  <1>1. Here.step = step /\ Here.cohort = cohort
    BY DEF Here
  <1> QED
    BY <1>1 DEF Finds

\* The logits that have been filled, and the others.
LogitsFilled(b, L, a) == \A f \in Logits : b.results[f] = IF f \in L THEN step ELSE a.results[f]

\* Memory after an operation, part by part.
LEMMA AfterFields ==
  ASSUME NEW o, NEW a
  PROVE  /\ After(o, a).dev = DevAfter(o, a) /\ After(o, a).snapshot = SnapshotAfter(o, a)
         /\ After(o, a).static = StaticAfter(o, a) /\ After(o, a).pieces = PiecesAfter(o, a)
         /\ After(o, a).results = ResultsAfter(o, a)
  BY DEF After

\* A pass leaves its logits.
LEMMA PassRuns ==
  ASSUME TypesInv, NEW P \in SUBSET Phases, NEW last, NEW v, NEW q, NEW a,
         QueueOk(q, last, v, P, a),
         NEW S, NEW Q, Among(S, Q), Q \cap P = {}, NEW L \in SUBSET Logits,
         \A s \in S : Finds(s, Here, a)
  PROVE  \E b \in Memories :
           /\ QueueOk(Append(q, Pass(S, L)), last, v, P, b)
           /\ b.dev = a.dev /\ b.snapshot = a.snapshot /\ b.static = a.static /\ b.pieces = a.pieces
           /\ LogitsFilled(b, L, a)
  <1> DEFINE o == Pass(S, L)
  <1>1. /\ Own(o, Q) /\ o.op = "pass" /\ o.sources = S /\ o.fills = L
        /\ o.step = step /\ o.cohort = cohort
    BY PassOp
  <1> HIDE DEF o
  <1>2. \A s \in o.sources : Finds(s, o, a)
    BY <1>1, FindsHere
  <1>3. Right(o, a)
    BY <1>1, <1>2 DEF Right
  <1>4. QueueOk(Append(q, o), last, v, P, After(o, a))
    BY <1>1, <1>3, OwnOn
  <1>5. After(o, a) \in Memories
    BY <1>4 DEF QueueOk
  <1>6. /\ After(o, a).dev = a.dev /\ After(o, a).snapshot = a.snapshot
        /\ After(o, a).static = a.static /\ After(o, a).pieces = a.pieces
    BY <1>1, AfterFields DEF DevAfter, SnapshotAfter, StaticAfter, PiecesAfter
  <1>7. After(o, a).results = ResultsAfter(o, a)
    BY AfterFields
  <1>8. LogitsFilled(After(o, a), L, a)
    BY <1>1, <1>7 DEF ResultsAfter, LogitsFilled
  <1> QED
    BY <1>4, <1>5, <1>6, <1>8 DEF o

\* A replayed decode graph finds its inputs and its page table, and leaves logits.
LEMMA GraphRuns ==
  ASSUME TypesInv, NEW P \in SUBSET Phases, "decode" \notin P, NEW last, NEW v, NEW q, NEW a,
         QueueOk(q, last, v, P, a), Finds(DecodeSource, Here, a), NEW t \in BOOLEAN,
         ~t /\ NoStaleTables => a.static[plan.bucket].table = cohort
  PROVE  \E b \in Memories :
           /\ QueueOk(Append(Append(q, Refresh(t)), Replay), last, v, P, b)
           /\ b.dev = a.dev /\ b.snapshot = a.snapshot /\ b.pieces = a.pieces
           /\ b.static[plan.bucket].table = IF t THEN cohort ELSE a.static[plan.bucket].table
           /\ \A u \in Buckets : u # plan.bucket => b.static[u] = a.static[u]
           /\ b.results["decode"] = step
  <1> DEFINE o == Refresh(t)
             p == Replay
             c == After(o, a)
             d == After(p, c)
  <1>1. Own(o, {"decode"}) /\ Own(p, {"decode"}) /\ BufferOf(o) = active
    BY GraphOps
  <1>2. /\ o.op = "refresh" /\ o.sources = {DecodeSource} /\ o.table = t
        /\ o.bucket = plan.bucket /\ o.step = step /\ o.cohort = cohort
        /\ p.op = "replay" /\ p.bucket = plan.bucket /\ p.step = step /\ p.cohort = cohort
    BY DEF Refresh, Replay
  <1>3. plan.bucket \in Buckets /\ a \in Memories
    BY SourcesHere DEF QueueOk
  <1>4. a.dev[active]["decode"] = step /\ a.dev[active]["table"] = cohort
    <2>1. DecodeSource.from = "decode" /\ DecodeSource.buf = active
      BY DEF DecodeSource
    <2>2. Here.step = step /\ Here.cohort = cohort
      BY DEF Here
    <2> QED
      BY <2>1, <2>2 DEF Finds
  <1> HIDE DEF o, p
  <1>5. \A s \in o.sources : Finds(s, o, a)
    BY <1>2, FindsHere
  <1>6. Right(o, a)
    BY <1>2, <1>5 DEF Right
  <1>7. QueueOk(Append(q, o), last, v, P, c)
    BY <1>1, <1>6, OwnOn
  <1>8. /\ c.dev = a.dev /\ c.snapshot = a.snapshot /\ c.pieces = a.pieces
    BY <1>2, AfterFields DEF DevAfter, SnapshotAfter, PiecesAfter
  <1>9. c.static = [a.static EXCEPT ![plan.bucket] =
                      [decode |-> step,
                       table |-> IF t THEN cohort ELSE a.static[plan.bucket].table]]
    <2>1. c.static = StaticAfter(o, a)
      BY AfterFields
    <2> QED
      BY <1>1, <1>2, <1>4, <2>1 DEF StaticAfter
  <1>10. a.static \in [Buckets -> Inputs]
    BY <1>3 DEF Memories
  <1>11. /\ c.static[plan.bucket].decode = step
         /\ c.static[plan.bucket].table = IF t THEN cohort ELSE a.static[plan.bucket].table
         /\ \A u \in Buckets : u # plan.bucket => c.static[u] = a.static[u]
    BY <1>3, <1>9, <1>10
  <1> HIDE DEF c
  <1>12. Right(p, c)
    BY <1>2, <1>11 DEF Right, Readers
  <1>13. QueueOk(Append(Append(q, o), p), last, v, P, d)
    BY <1>1, <1>7, <1>12, OwnOn
  <1>14. d \in Memories
    BY <1>13 DEF QueueOk
  <1>15. d.dev = c.dev /\ d.snapshot = c.snapshot /\ d.static = c.static /\ d.pieces = c.pieces
    <2>1. /\ d.dev = DevAfter(p, c) /\ d.snapshot = SnapshotAfter(p, c)
          /\ d.static = StaticAfter(p, c) /\ d.pieces = PiecesAfter(p, c)
      BY AfterFields
    <2> QED
      BY <1>2, <2>1 DEF DevAfter, SnapshotAfter, StaticAfter, PiecesAfter
  <1>16. d.results["decode"] = step
    <2>1. d.results = ResultsAfter(p, c)
      BY AfterFields
    <2> QED
      BY <1>2, <2>1 DEF ResultsAfter, Logits
  <1> HIDE DEF d
  <1> QED
    BY <1>8, <1>11, <1>13, <1>14, <1>15, <1>16 DEF o, p

\* The clone holds what the device buffer holds.
LEMMA CloneRuns ==
  ASSUME TypesInv, NEW P \in SUBSET Phases, "decode" \notin P, NEW last, NEW v, NEW q, NEW a,
         QueueOk(q, last, v, P, a), Finds(DecodeSource, Here, a)
  PROVE  \E b \in Memories :
           /\ QueueOk(Append(q, Clone), last, v, P, b)
           /\ b.dev = a.dev /\ b.static = a.static /\ b.pieces = a.pieces
           /\ b.snapshot.decode = step /\ b.snapshot.table = cohort
  <1> DEFINE o == Clone
             b == After(o, a)
  <1>1. Own(o, {"decode"}) /\ BufferOf(o) = active
    BY CloneOp
  <1>2. o.op = "clone" /\ o.sources = {DecodeSource} /\ o.step = step /\ o.cohort = cohort
    BY DEF Clone
  <1>3. a.dev[active]["decode"] = step /\ a.dev[active]["table"] = cohort
    <2>1. DecodeSource.from = "decode" /\ DecodeSource.buf = active
      BY DEF DecodeSource
    <2>2. Here.step = step /\ Here.cohort = cohort
      BY DEF Here
    <2> QED
      BY <2>1, <2>2 DEF Finds
  <1> HIDE DEF o
  <1>4. \A s \in o.sources : Finds(s, o, a)
    BY <1>2, FindsHere
  <1>5. Right(o, a)
    BY <1>2, <1>4 DEF Right
  <1>6. QueueOk(Append(q, o), last, v, P, b)
    BY <1>1, <1>5, OwnOn
  <1>7. b \in Memories
    BY <1>6 DEF QueueOk
  <1>8. b.dev = a.dev /\ b.static = a.static /\ b.pieces = a.pieces
    BY <1>2, AfterFields DEF DevAfter, StaticAfter, PiecesAfter
  <1>9. b.snapshot.decode = step /\ b.snapshot.table = cohort
    <2>1. b.snapshot = SnapshotAfter(o, a)
      BY AfterFields
    <2> QED
      BY <1>1, <1>2, <1>3, <2>1 DEF SnapshotAfter
  <1> HIDE DEF b
  <1> QED
    BY <1>6, <1>7, <1>8, <1>9 DEF o

\* The warm-up of a capture stores nothing.
LEMMA WarmupRuns ==
  ASSUME TypesInv, NEW P \in SUBSET Phases, NEW last, NEW v, NEW q, NEW a,
         QueueOk(q, last, v, P, a), a.pieces.valid = 0
  PROVE  \E b \in Memories :
           /\ QueueOk(Append(q, Warmup), last, v, P, b)
           /\ b.dev = a.dev /\ b.snapshot = a.snapshot /\ b.static = a.static
           /\ b.results = a.results
  <1> DEFINE o == Warmup
             b == After(o, a)
  <1>1. o.op = "warmup" /\ o \in WarmupOps
    BY DEF Warmup, WarmupOps
  <1>2. o \in ComputeOps
    BY <1>1 DEF ComputeOps
  <1>3. Own(o, {})
    BY <1>1, <1>2, OtherOwn
  <1> HIDE DEF o
  <1>4. Right(o, a)
    BY <1>1 DEF Right, Readers
  <1>5. QueueOk(Append(q, o), last, v, P, b)
    BY <1>3, <1>4, OwnOn
  <1>6. b \in Memories
    BY <1>5 DEF QueueOk
  <1>7. b.dev = a.dev /\ b.snapshot = a.snapshot /\ b.static = a.static
    BY <1>1, AfterFields DEF DevAfter, StaticAfter, SnapshotAfter
  <1>8. b.results = a.results
    <2>1. b.results = ResultsAfter(o, a)
      BY AfterFields
    <2>2. ResultsAfter(o, a) = [f \in Logits |-> a.results[f]]
      BY <1>1 DEF ResultsAfter
    <2>3. a.results \in [Logits -> Nat]
      BY DEF QueueOk, Memories
    <2> QED
      BY <2>1, <2>2, <2>3
  <1> HIDE DEF b
  <1> QED
    BY <1>5, <1>6, <1>7, <1>8 DEF o

\* A replayed prefill pass writes the slots of its own tokens and leaves logits.
LEMMA PiecesRun ==
  ASSUME TypesInv, NEW P \in SUBSET Phases, NEW last, NEW v, NEW q, NEW a,
         QueueOk(q, last, v, P, a),
         NEW S \in OnePrompt, NEW Q, Among(S, Q), Q \cap P = {}, NEW L \in SUBSET Logits,
         \A s \in S : Finds(s, Here, a), Fits(plan.tokens)
  PROVE  \E b \in Memories :
           /\ QueueOk(Append(Append(q, StageSlots(S, plan.tokens)),
                             ReplayPieces(S, L, plan.tokens)), last, v, P, b)
           /\ b.dev = a.dev /\ b.snapshot = a.snapshot /\ b.static = a.static
           /\ LogitsFilled(b, L, a)
  <1> DEFINE n == plan.tokens
             o == StageSlots(S, n)
             p == ReplayPieces(S, L, n)
             c == After(o, a)
             d == After(p, c)
  <1>1. Own(o, Q) /\ Own(p, Q)
    BY PieceOps
  <1>2. /\ o.op = "stage" /\ o.sources = S /\ o.tokens = n /\ o.step = step /\ o.cohort = cohort
        /\ p.op = "pieces" /\ p.sources = S /\ p.fills = L /\ p.tokens = n
        /\ p.step = step /\ p.cohort = cohort
    BY DEF StageSlots, ReplayPieces
  <1>3. n \in 1 .. PrefillBucket
    BY SourcesHere, RuntimeAssumption DEF Fits
  <1> HIDE DEF n, o, p
  <1>4. PromptIn(o, a) = step
    <2> DEFINE s == PromptSource(S)
    <2>1. s \in S /\ IsPrompt(s)
      BY OnePromptSource
    <2>2. Finds(s, Here, a) /\ Here.step = step
      BY <2>1 DEF Here
    <2>3. s.from # "snapshot"
      BY <2>1 DEF IsPrompt
    <2> HIDE DEF s
    <2>4. a.dev[s.buf][s.from] = step
      BY <2>2, <2>3 DEF Finds
    <2> QED
      BY <1>2, <2>4 DEF PromptIn, s
  <1>5. \A s \in S : Finds(s, o, a)
    BY <1>2, FindsHere
  <1>6. Right(o, a)
    BY <1>2, <1>5 DEF Right
  <1>7. QueueOk(Append(q, o), last, v, P, c)
    BY <1>1, <1>6, OwnOn
  <1>8. c.dev = a.dev /\ c.snapshot = a.snapshot /\ c.static = a.static
    BY <1>2, AfterFields DEF DevAfter, StaticAfter, SnapshotAfter
  <1>9. c.pieces.valid = n /\ \A i \in 1 .. n : c.pieces.slots[i] = step
    <2>1. c.pieces = PiecesAfter(o, a)
      BY AfterFields
    <2>2. c.pieces = [slots |-> [i \in 1 .. PrefillBucket |->
                                   IF i <= n THEN step ELSE a.pieces.slots[i]],
                      valid |-> n]
      BY <1>2, <1>4, <2>1 DEF PiecesAfter
    <2>3. \A i \in 1 .. n : i \in 1 .. PrefillBucket /\ i <= n
      BY <1>3, RuntimeAssumption
    <2> QED
      BY <2>2, <2>3
  <1>10. \A f \in Logits : c.results[f] = a.results[f]
    <2>1. c.results = ResultsAfter(o, a)
      BY AfterFields
    <2> QED
      BY <1>2, <2>1 DEF ResultsAfter
  <1> HIDE DEF c
  <1>11. \A s \in S : Finds(s, p, c)
    <2>1. \A s \in S : Finds(s, p, a)
      BY <1>2, FindsHere
    <2> QED
      BY <1>8, <2>1 DEF Finds
  <1>12. Right(p, c)
    BY <1>2, <1>9, <1>11 DEF Right
  <1>13. QueueOk(Append(Append(q, o), p), last, v, P, d)
    BY <1>1, <1>7, <1>12, OwnOn
  <1>14. d \in Memories
    BY <1>13 DEF QueueOk
  <1>15. d.dev = c.dev /\ d.snapshot = c.snapshot /\ d.static = c.static
    BY <1>2, AfterFields DEF DevAfter, StaticAfter, SnapshotAfter
  <1>16. \A f \in Logits : d.results[f] = IF f \in L THEN step ELSE c.results[f]
    <2>1. d.results = ResultsAfter(p, c)
      BY AfterFields
    <2> QED
      BY <1>2, <2>1 DEF ResultsAfter
  <1> HIDE DEF d
  <1>17. LogitsFilled(d, L, a)
    BY <1>10, <1>16 DEF LogitsFilled
  <1> QED
    BY <1>8, <1>13, <1>14, <1>15, <1>17 DEF n, o, p

\* A prefill call, eager or captured now or earlier, leaves its logits.
LEMMA PrefillRuns ==
  ASSUME TypesInv, NEW P \in SUBSET Phases, NEW last, NEW v, NEW a,
         QueueOk(computeQ, last, v, P, a), CaptureReady(a),
         NEW S \in OnePrompt, NEW Q, Among(S, Q), Q \cap P = {}, NEW L \in SUBSET Logits,
         \A s \in S : Finds(s, Here, a)
  PROVE  \E b \in Memories :
           /\ QueueOk(computeQ \o PrefillPass(S, L, plan.tokens), last, v, P, b)
           /\ b.dev = a.dev /\ b.snapshot = a.snapshot /\ b.static = a.static
           /\ LogitsFilled(b, L, a)
           /\ ~CaptureOf(plan.tokens) => b.pieces.valid = 0
  <1> DEFINE n == plan.tokens
             o == StageSlots(S, n)
             p == ReplayPieces(S, L, n)
             ops == PrefillPass(S, L, n)
  <1>1. /\ ops = IF config.graphs /\ Fits(n)
                 THEN (IF captured THEN <<>> ELSE <<Warmup>>) \o <<o, p>> ELSE <<Pass(S, L)>>
        /\ Own(Warmup, Q)
        /\ Fits(n) => Own(o, Q) /\ Own(p, Q)
    BY PieceOps
  <1>2. computeQ \in Seq(ComputeOps)
    BY DEF QueueOk
  <1> HIDE DEF n, o, p, ops
  <1>3. CASE ~(config.graphs /\ Fits(n))
    <2>1. PICK b \in Memories :
            /\ QueueOk(Append(computeQ, Pass(S, L)), last, v, P, b)
            /\ b.dev = a.dev /\ b.snapshot = a.snapshot /\ b.static = a.static /\ b.pieces = a.pieces
            /\ LogitsFilled(b, L, a)
      BY PassRuns
    <2>2. Pass(S, L) \in ComputeOps
      BY PassOp DEF Own
    <2>3. computeQ \o ops = Append(computeQ, Pass(S, L))
      BY <1>1, <1>2, <1>3, <2>2, AppendingSeveral
    <2>4. ~CaptureOf(n) => b.pieces.valid = 0
      BY <1>3, <2>1 DEF CaptureOf, CaptureReady
    <2> QED
      BY <2>1, <2>3, <2>4 DEF n, ops
  <1>4. CASE config.graphs /\ Fits(n) /\ captured
    <2>1. Fits(plan.tokens)
      BY <1>4 DEF n
    <2>2. PICK b \in Memories :
            /\ QueueOk(Append(Append(computeQ, o), p), last, v, P, b)
            /\ b.dev = a.dev /\ b.snapshot = a.snapshot /\ b.static = a.static
            /\ LogitsFilled(b, L, a)
      BY <2>1, PiecesRun DEF n, o, p
    <2>3. o \in ComputeOps /\ p \in ComputeOps
      BY <1>1, <1>4 DEF Own
    <2>4. computeQ \o ops = Append(Append(computeQ, o), p)
      BY <1>1, <1>2, <1>4, <2>3, AppendingSeveral
    <2>5. CaptureOf(n)
      BY <1>4 DEF CaptureOf
    <2> QED
      BY <2>2, <2>4, <2>5 DEF n, ops
  <1>5. CASE config.graphs /\ Fits(n) /\ ~captured
    <2>1. Fits(plan.tokens)
      BY <1>5 DEF n
    <2>2. a.pieces.valid = 0
      BY <1>5 DEF CaptureReady
    <2>3. PICK c \in Memories :
            /\ QueueOk(Append(computeQ, Warmup), last, v, P, c)
            /\ c.dev = a.dev /\ c.snapshot = a.snapshot /\ c.static = a.static
            /\ c.results = a.results
      BY <2>2, WarmupRuns
    <2>4. \A s \in S : Finds(s, Here, c)
      BY <2>3 DEF Finds
    <2> DEFINE r == Append(computeQ, Warmup)
    <2> HIDE DEF r
    <2>5. QueueOk(r, last, v, P, c)
      BY <2>3 DEF r
    <2>6. PICK b \in Memories :
            /\ QueueOk(Append(Append(r, o), p), last, v, P, b)
            /\ b.dev = c.dev /\ b.snapshot = c.snapshot /\ b.static = c.static
            /\ LogitsFilled(b, L, c)
      BY <2>1, <2>4, <2>5, PiecesRun DEF n, o, p
    <2>7. o \in ComputeOps /\ p \in ComputeOps /\ Warmup \in ComputeOps
      BY <1>1, <1>5 DEF Own
    <2>8. computeQ \o ops = Append(Append(r, o), p)
      BY <1>1, <1>2, <1>5, <2>7, AppendingSeveral DEF r
    <2>9. CaptureOf(n)
      BY <1>5 DEF CaptureOf
    <2>10. LogitsFilled(b, L, a)
      BY <2>3, <2>6 DEF LogitsFilled
    <2> QED
      BY <2>3, <2>6, <2>8, <2>9, <2>10 DEF n, ops
  <1> QED
    BY <1>3, <1>4, <1>5

-----------------------------------------------------------------------------
(* What the CPU thread enqueues keeps the streams in order *)

StreamParts ==
  CopiesInv /\ RecordsInv /\ BuffersInv /\ StreamsInv /\ computeQ \in Seq(ComputeOps)

\* The phases that the compute stream must not touch yet.
StillClear == IF pc = "prefill" \/ (pc = "decodeCall" /\ plan.prefill) THEN {"prefill"} ELSE {}

\* The invariant says of the queue what the lemmas about enqueuing need.
LEMMA QueueNow ==
  ASSUME IInv
  PROVE  /\ StillClear \in SUBSET Phases
         /\ \E a \in Memories : QueueOk(computeQ, recorded, valid, StillClear, a) /\ Ready(a)
  <1>1. PICK a \in Memories : Runs(computeQ, Arrived, a) /\ Ready(a)
    BY DEF IInv, StreamsInv
  <1>2. computeQ \in Seq(ComputeOps) /\ RecordsIn(computeQ, reached, recorded)
    BY DEF IInv, TypesInv, RecordsInv
  <1>3. \A i \in 1 .. Len(copyQ) : IsCopy(i) =>
          GuardedIn(computeQ, active, copyQ[i].phase, copyQ[i + 1].count)
    BY DEF IInv, CopiesInv, CopyOfCohort
  <1>4. \A b \in Buffers : b # active => ReleasedIn(computeQ, b, valid)
    BY DEF IInv, BuffersInv, Released
  <1>5. \A phase \in StillClear : ClearIn(computeQ, active, phase)
    BY DEF IInv, BuffersInv, Clear, StillClear
  <1>6. QueueOk(computeQ, recorded, valid, StillClear, a)
    BY <1>1, <1>2, <1>3, <1>4, <1>5 DEF QueueOk
  <1>7. StillClear \in SUBSET Phases
    BY DEF StillClear, Phases
  <1> QED
    BY <1>1, <1>6, <1>7

\* A step of the CPU thread that only enqueues operations.
LEMMA CpuDone ==
  ASSUME TypesInv, CopiesInv,
         UNCHANGED <<active, cohort, copyQ, reached, memoryVars>>,
         recorded'["copied"] = recorded["copied"],
         pc' \notin {"decode", "packed"}, pc' = "deviceWait" => copyQ = <<>>,
         NEW P, NEW a, QueueOk(computeQ', recorded', valid', P, a), Ready(a)',
         pc' \in {"idle", "hostWait", "deviceWait"} => ReleasedIn(computeQ', active, valid'),
         pc' = "prefill" \/ (pc' = "decodeCall" /\ plan'.prefill) =>
           /\ "prefill" \in P
           /\ \A i \in 1 .. Len(copyQ) : IsCopy(i) => copyQ[i].phase # "prefill"
  PROVE  StreamParts'
  <1>1. Arrived' = Arrived
    BY DEF Arrived, Arriving, IsCopy, Memory, memoryVars
  <1>2. host' = host /\ active' = active /\ cohort' = cohort /\ copyQ' = copyQ /\ reached' = reached
    BY DEF memoryVars
  <1>3. CopiesInv'
    <2>1. CopyOrder(copyQ', reached'["copied"], recorded'["copied"])
      BY <1>2 DEF CopiesInv
    <2>2. \A i \in 1 .. Len(copyQ) : IsCopy(i) => GuardedIn(computeQ', active, copyQ[i].phase, copyQ[i + 1].count)
      BY DEF QueueOk
    <2>3. \A i \in 1 .. Len(copyQ) : IsCopy(i) =>
            copyQ[i].buf = active /\ copyQ[i].step = cohort /\ host[copyQ[i].phase] = cohort
      BY DEF CopiesInv, CopyOfCohort
    <2>4. \A i \in 1 .. Len(copyQ') : IsCopy(i)' => CopyOfCohort(i)'
      BY <1>2, <2>2, <2>3 DEF IsCopy, CopyOfCohort
    <2> QED
      BY <2>1, <2>4 DEF CopiesInv
  <1>4. RecordsInv'
    BY <1>2 DEF QueueOk, RecordsInv
  <1>5. BuffersInv'
    <2>1. \A b \in Buffers : b # active' \/ pc' \in {"idle", "hostWait", "deviceWait"} =>
            ReleasedIn(computeQ', b, valid')
      BY <1>2 DEF QueueOk
    <2>2. pc' = "prefill" \/ (pc' = "decodeCall" /\ plan'.prefill) => Clear("prefill")'
      BY <1>2 DEF QueueOk, Clear, IsCopy
    <2> QED
      BY <2>1, <2>2 DEF BuffersInv, Released
  <1>6. StreamsInv'
    BY <1>1 DEF QueueOk, StreamsInv
  <1>7. computeQ' \in Seq(ComputeOps)
    BY DEF QueueOk
  <1> QED
    BY <1>3, <1>4, <1>5, <1>6, <1>7 DEF StreamParts

\* Between two callbacks the CPU thread counts on no rows.
LEMMA NoRowsNeeded ==
  ASSUME NEW a, pc' \in {"hostWait", "deviceWait", "drain"}, CaptureReady(a)', TablesReady(a)'
  PROVE  Ready(a)'
  BY DEF Ready, RowsReady, DecodeRowsThere

\* A step that enqueues nothing and ends the callback with an exception.
LEMMA CaughtKeepsStreams ==
  ASSUME IInv, Caught, computeQ' = computeQ, UNCHANGED <<callbackUnchanged, signature>>,
         captured => captured'
  PROVE  StreamParts'
  <1>1. PICK a \in Memories : QueueOk(computeQ, recorded, valid, StillClear, a) /\ Ready(a)
    BY QueueNow
  <1>2. /\ UNCHANGED <<active, cohort, copyQ, reached, memoryVars>> /\ pc' = "drain"
        /\ recorded' = recorded /\ valid' = valid /\ version' = version /\ signature' = signature
    BY DEF Caught, callbackUnchanged
  <1>3. CaptureReady(a)' /\ TablesReady(a)'
    BY <1>1, <1>2 DEF Ready, CaptureReady, TablesReady
  <1>4. Ready(a)'
    BY <1>2, <1>3, NoRowsNeeded
  <1>5. QueueOk(computeQ', recorded', valid', StillClear, a)
    BY <1>1, <1>2
  <1> QED
    BY <1>2, <1>4, <1>5, CpuDone DEF IInv

\* A callback that raises before it has enqueued anything keeps the streams right ...
LEMMA CallbackRaisesStreams ==
  ASSUME IInv, CallbackRaises
  PROVE  StreamParts'
  <1>1. /\ Caught /\ computeQ' = computeQ /\ UNCHANGED <<callbackUnchanged, signature>>
        /\ captured => captured'
    BY DEF CallbackRaises
  <1> QED
    BY <1>1, CaughtKeepsStreams

\* ... as does a failure between two callbacks.
LEMMA BetweenFailsStreams ==
  ASSUME IInv, BetweenFails
  PROVE  StreamParts'
  <1>1. /\ Caught /\ computeQ' = computeQ /\ UNCHANGED <<callbackUnchanged, signature>>
        /\ captured => captured'
    BY DEF BetweenFails
  <1> QED
    BY <1>1, CaughtKeepsStreams

\* A callback has enqueued its operations, and returns without publishing or raises.
LEMMA CallStreams ==
  ASSUME IInv, UNCHANGED callbackUnchanged, UNCHANGED <<recorded, valid>>,
         pc' \in {"sample", "drain"},
         NEW P, NEW b \in Memories, QueueOk(computeQ', recorded, valid, P, b), Ready(b)'
  PROVE  StreamParts'
  <1>1. /\ UNCHANGED <<active, cohort, copyQ, reached, memoryVars>>
        /\ recorded' = recorded /\ valid' = valid
    BY DEF callbackUnchanged
  <1>2. QueueOk(computeQ', recorded', valid', P, b)
    BY <1>1
  <1> QED
    BY <1>1, <1>2, CpuDone DEF IInv

\* Publishing appends one record.
LEMMA PublishedQueue ==
  ASSUME TypesInv, NEW ops, computeQ \o ops \in Seq(ComputeOps)
  PROVE  computeQ \o ops \o PublishOps
           = Append(computeQ \o ops, RecordOp(Consumed(active), recorded[Consumed(active)] + 1))
  <1> DEFINE q == computeQ \o ops
             o == RecordOp(Consumed(active), recorded[Consumed(active)] + 1)
  <1> HIDE DEF q, o
  <1>1. q \in Seq(ComputeOps \cup {o})
    <2>1. q \in Seq(ComputeOps)
      BY DEF q
    <2> QED
      BY <2>1
  <1>2. q \o <<o>> = Append(q, o)
    BY <1>1, AppendIsConcat
  <1>3. PublishOps = <<o>>
    BY DEF PublishOps, o
  <1>4. q \o PublishOps = Append(q, o)
    BY <1>2, <1>3
  <1> QED
    BY <1>4 DEF q, o

\* The decode half of a mixed step has enqueued its operations and publishes.
LEMMA PublishStreams ==
  ASSUME IInv, UNCHANGED callbackUnchanged, pc = "decodeCall", plan.prefill, pc' = "prefill",
         NEW ops, NEW b \in Memories,
         QueueOk(computeQ \o ops, recorded, valid, StillClear, b), Ready(b)',
         computeQ' = computeQ \o ops \o PublishOps,
         recorded' = [recorded EXCEPT ![Consumed(active)] = @ + 1],
         valid' = [valid EXCEPT ![active] = TRUE]
  PROVE  StreamParts'
  <1>1. UNCHANGED <<active, cohort, copyQ, reached, memoryVars>>
    BY DEF callbackUnchanged
  <1>2. StillClear = {"prefill"} /\ StillClear \in SUBSET Phases
    BY DEF StillClear, Phases
  <1> DEFINE q == computeQ \o ops
             o == RecordOp(Consumed(active), recorded[Consumed(active)] + 1)
  <1>3. TypesInv /\ q \in Seq(ComputeOps) /\ QueueOk(q, recorded, valid, StillClear, b)
    BY DEF IInv, QueueOk
  <1>4. computeQ' = Append(q, o)
    BY <1>3, PublishedQueue
  <1>5. /\ QueueOk(Append(q, o), recorded', valid', StillClear, b)
        /\ recorded'["copied"] = recorded["copied"]
    <2> HIDE DEF q
    <2> QED
      BY <1>2, <1>3, PublishOn
  <1> HIDE DEF q, o
  <1>6. \A i \in 1 .. Len(copyQ) : IsCopy(i) => copyQ[i].phase # "prefill"
    BY DEF IInv, BuffersInv, Clear
  <1>7. QueueOk(computeQ', recorded', valid', StillClear, b)
    BY <1>4, <1>5
  <1> QED
    BY <1>1, <1>2, <1>3, <1>5, <1>6, <1>7, CpuDone DEF IInv

\* The three ways a decode callback ends.
LEMMA DecodeStreams ==
  ASSUME IInv, UNCHANGED callbackUnchanged, pc = "decodeCall",
         NEW ops, NEW b \in Memories,
         QueueOk(computeQ \o ops, recorded, valid, StillClear, b),
         Published(ops) \/ Calls(ops, "sample"),
         pc' = "prefill" => plan.prefill,
         Ready(b)'
  PROVE  StreamParts'
  <1>1. CASE /\ computeQ' = computeQ \o ops /\ UNCHANGED <<recorded, valid>>
             /\ pc' \in {"sample", "drain"}
    <2>1. QueueOk(computeQ', recorded, valid, StillClear, b)
      BY <1>1
    <2> QED
      BY <1>1, <2>1, CallStreams
  <1>2. CASE /\ Published(ops) /\ pc' = "prefill"
             /\ computeQ' = computeQ \o ops \o PublishOps
             /\ recorded' = [recorded EXCEPT ![Consumed(active)] = @ + 1]
             /\ valid' = [valid EXCEPT ![active] = TRUE]
    BY <1>2, PublishStreams
  <1> QED
    BY <1>1, <1>2 DEF Published, Calls, Caught

\* Staged rows are something.
LEMMA NotNothing ==
  ASSUME NEW f, NEW b
  PROVE  [from |-> f, buf |-> b] # Nothing
  <1>1. DOMAIN [from |-> f, buf |-> b] = {"from", "buf"} /\ DOMAIN [none |-> TRUE] = {"none"}
    OBVIOUS
  <1>2. "from" \in {"from", "buf"} /\ "from" \notin {"none"}
    OBVIOUS
  <1> QED
    BY <1>1, <1>2 DEF Nothing

\* A decode callback finds the rows of its step and the table of its cohort ...
LEMMA DecodeRowsNow ==
  ASSUME IInv, pc = "decodeCall", NEW a, Ready(a)
  PROVE  Finds(DecodeSource, Here, a)
  <1>1. a.dev[active]["decode"] = step /\ a.dev[active]["table"] = cohort
    BY DEF IInv, PlanInv, Ready, RowsReady, DecodeRowsThere
  <1>2. /\ DecodeSource.from = "decode" /\ DecodeSource.buf = active
        /\ Here.step = step /\ Here.cohort = cohort
    BY DEF DecodeSource, Here
  <1> QED
    BY <1>1, <1>2 DEF Finds

\* After a decode callback its rows are still there, with their logits unless staged.
LEMMA DecodeRowsAfter ==
  ASSUME IInv, UNCHANGED callbackUnchanged, pc = "decodeCall",
         pc' \in {"prefill", "sample", "drain"}, pc' = "sample" => ~plan.prefill,
         NEW b, Finds(DecodeSource, Here, b),
         IF pending' = Nothing
         THEN b.results["decode"] = step
         ELSE /\ pc' # "sample" /\ pending'.buf = active
              /\ pending'.from = "snapshot" => b.snapshot.decode = step /\ b.snapshot.table = cohort
  PROVE  RowsReady(b)'
  <1>1. step' = step /\ plan' = plan /\ active' = active /\ cohort' = cohort
    BY DEF callbackUnchanged
  <1>2. /\ DecodeSource.from = "decode" /\ DecodeSource.buf = active
        /\ Here.step = step /\ Here.cohort = cohort
    BY DEF DecodeSource, Here
  <1>3. b.dev[active]["decode"] = step /\ b.dev[active]["table"] = cohort
    BY <1>2 DEF Finds
  <1>4. pc' = "sample" => \A f \in Planned' : b.results[f] = step
    BY <1>1 DEF Planned, Logits
  <1> QED
    BY <1>1, <1>3, <1>4 DEF RowsReady

\* An eager decode keeps the streams right ...
LEMMA DecodeEagerStreams ==
  ASSUME IInv, DecodeEager
  PROVE  StreamParts'
  <1> DEFINE o == Pass({DecodeSource}, {"decode"})
             ops == <<o>>
  <1>1. TypesInv /\ StillClear \in SUBSET Phases /\ {"decode"} \cap StillClear = {}
    BY QueueNow DEF IInv, StillClear
  <1>2. PICK a \in Memories : QueueOk(computeQ, recorded, valid, StillClear, a) /\ Ready(a)
    BY QueueNow
  <1>3. /\ UNCHANGED callbackUnchanged /\ pc = "decodeCall" /\ ~config.graphs
        /\ AfterDecode(ops) /\ UNCHANGED <<signature, pending, captured>>
    BY DEF DecodeEager
  <1>4. Finds(DecodeSource, Here, a)
    BY <1>2, <1>3, DecodeRowsNow
  <1>5. Among({DecodeSource}, {"decode"}) /\ {"decode"} \in SUBSET Logits
    BY <1>1, SourcesHere DEF Logits
  <1>6. \A s \in {DecodeSource} : Finds(s, Here, a)
    BY <1>4
  <1>7. PICK b \in Memories :
          /\ QueueOk(Append(computeQ, o), recorded, valid, StillClear, b)
          /\ b.dev = a.dev /\ b.snapshot = a.snapshot /\ b.static = a.static /\ b.pieces = a.pieces
          /\ LogitsFilled(b, {"decode"}, a)
    BY <1>1, <1>2, <1>5, <1>6, PassRuns
  <1>8. computeQ \o ops = Append(computeQ, o)
    <2>1. computeQ \in Seq(ComputeOps) /\ o \in ComputeOps
      BY <1>1, <1>5, PassOp DEF TypesInv, Own
    <2> HIDE DEF o
    <2> QED
      BY <2>1, AppendingSeveral
  <1>9. Published(ops) \/ Calls(ops, "sample")
    BY <1>3 DEF AfterDecode
  <1>10. /\ pc' \in {"prefill", "sample", "drain"} /\ (pc' = "sample" => ~plan.prefill)
         /\ (pc' = "prefill" => plan.prefill)
    <2>1. CASE plan.prefill
      BY <1>3, <2>1 DEF AfterDecode, Published, Caught
    <2>2. CASE ~plan.prefill
      BY <1>3, <2>2 DEF AfterDecode, Calls, Caught
    <2> QED
      BY <2>1, <2>2
  <1> HIDE DEF o, ops
  <1>11. pending' = Nothing
    BY <1>3, RuntimeAssumption DEF IInv, StagedInv, TypesInv
  <1>12. Finds(DecodeSource, Here, b)
    BY <1>4, <1>7 DEF Finds
  <1>13. b.results["decode"] = step
    BY <1>7 DEF Logits, LogitsFilled
  <1>14. RowsReady(b)'
    BY <1>3, <1>10, <1>11, <1>12, <1>13, DecodeRowsAfter
  <1>15. CaptureReady(b)' /\ TablesReady(b)'
    <2>1. version' = version
      BY <1>3 DEF callbackUnchanged
    <2> QED
      BY <1>2, <1>3, <1>7, <2>1 DEF Ready, CaptureReady, TablesReady
  <1>16. Ready(b)'
    BY <1>14, <1>15 DEF Ready
  <1> QED
    BY <1>3, <1>7, <1>8, <1>9, <1>10, <1>16, DecodeStreams

\* ... as does one that stages its rows for the prefill callback ...
LEMMA DecodeStagedStreams ==
  ASSUME IInv, DecodeStaged
  PROVE  StreamParts'
  <1>1. TypesInv /\ StillClear \in SUBSET Phases /\ "decode" \notin StillClear
    BY QueueNow DEF IInv, StillClear
  <1>2. PICK a \in Memories : QueueOk(computeQ, recorded, valid, StillClear, a) /\ Ready(a)
    BY QueueNow
  <1>3. /\ UNCHANGED callbackUnchanged /\ pc = "decodeCall" /\ Published(StageOps)
        /\ UNCHANGED <<signature, captured>> /\ pending' = Staged /\ plan.prefill
    BY DEF DecodeStaged, Deferring
  <1>4. Finds(DecodeSource, Here, a)
    BY <1>2, <1>3, DecodeRowsNow
  <1>5. \E b \in Memories :
          /\ QueueOk(computeQ \o StageOps, recorded, valid, StillClear, b)
          /\ b.dev = a.dev /\ b.static = a.static /\ b.pieces = a.pieces
          /\ config.clone => b.snapshot.decode = step /\ b.snapshot.table = cohort
    <2>1. computeQ \in Seq(ComputeOps) /\ Clone \in ComputeOps
      BY <1>1, CloneOp DEF TypesInv, Own
    <2>2. CASE config.clone
      <3>1. computeQ \o StageOps = Append(computeQ, Clone)
        <4>1. StageOps = <<Clone>>
          BY <1>1, <2>2, CloneOp
        <4> QED
          BY <2>1, <4>1, AppendingSeveral
      <3>2. PICK b \in Memories :
              /\ QueueOk(Append(computeQ, Clone), recorded, valid, StillClear, b)
              /\ b.dev = a.dev /\ b.static = a.static /\ b.pieces = a.pieces
              /\ b.snapshot.decode = step /\ b.snapshot.table = cohort
        BY <1>1, <1>2, <1>4, CloneRuns
      <3> QED
        BY <3>1, <3>2
    <2>3. CASE ~config.clone
      <3>1. computeQ \o StageOps = computeQ
        <4>1. StageOps = <<>>
          BY <1>1, <2>3, CloneOp
        <4> QED
          BY <2>1, <4>1, ConcatEmptySeq
      <3> QED
        BY <1>2, <2>3, <3>1
    <2> QED
      BY <2>2, <2>3
  <1>6. PICK b \in Memories :
          /\ QueueOk(computeQ \o StageOps, recorded, valid, StillClear, b)
          /\ b.dev = a.dev /\ b.static = a.static /\ b.pieces = a.pieces
          /\ config.clone => b.snapshot.decode = step /\ b.snapshot.table = cohort
    BY <1>5
  <1>7. pc' \in {"prefill", "drain"}
    BY <1>3 DEF Published, Caught
  <1>8. Finds(DecodeSource, Here, b)
    <2>1. DecodeSource.from = "decode"
      BY DEF DecodeSource
    <2> QED
      BY <1>4, <1>6, <2>1 DEF Finds
  <1>9. /\ Staged # Nothing /\ Staged.buf = active
        /\ Staged.from = "snapshot" => b.snapshot.decode = step /\ b.snapshot.table = cohort
    <2>1. Staged = [from |-> IF config.clone THEN "snapshot" ELSE "decode", buf |-> active]
      BY DEF Staged, DecodeSource
    <2> DEFINE f == IF config.clone THEN "snapshot" ELSE "decode"
    <2>2. [from |-> f, buf |-> active] # Nothing
      <3> HIDE DEF f
      <3> QED
        BY NotNothing
    <2> QED
      BY <1>6, <2>1, <2>2
  <1>10. RowsReady(b)'
    BY <1>3, <1>7, <1>8, <1>9, DecodeRowsAfter
  <1>11. CaptureReady(b)' /\ TablesReady(b)'
    <2>1. version' = version
      BY <1>3 DEF callbackUnchanged
    <2> QED
      BY <1>2, <1>3, <1>6, <2>1 DEF Ready, CaptureReady, TablesReady
  <1>12. Ready(b)'
    BY <1>10, <1>11 DEF Ready
  <1> QED
    BY <1>3, <1>6, <1>12, DecodeStreams

\* A page table that is not refreshed is that of the cohort.
LEMMA TableKept ==
  ASSUME IInv, pc = "decodeCall", NEW a, Ready(a), NoStaleTables,
         NEW new \in Signatures, ~MustCopyTable(new, signature[plan.bucket])
  PROVE  a.static[plan.bucket].table = cohort
  <1>1. config.tableCache /\ new = signature[plan.bucket]
    BY DEF MustCopyTable
  <1>2. ~plan.padded
    BY <1>1 DEF NoStaleTables, IInv, TypesInv, PlanInv
  <1>3. new = <<"buffer", active, version[active]>>
    BY <1>2 DEF Signatures
  <1>4. plan.bucket \in Buckets /\ active \in Buffers
    BY SourcesHere DEF IInv, TypesInv
  <1>5. a.static[plan.bucket].table = a.dev[active]["table"]
    BY <1>1, <1>3, <1>4 DEF Ready, TablesReady
  <1>6. a.dev[active]["table"] = cohort
    BY DEF IInv, PlanInv, Ready, RowsReady, DecodeRowsThere
  <1> QED
    BY <1>5, <1>6

\* ... and one that replays a graph.
LEMMA DecodeGraphStreams ==
  ASSUME IInv, DecodeGraph
  PROVE  StreamParts'
  <1>1. TypesInv /\ StillClear \in SUBSET Phases /\ "decode" \notin StillClear
    BY QueueNow DEF IInv, StillClear
  <1>2. PICK a \in Memories : QueueOk(computeQ, recorded, valid, StillClear, a) /\ Ready(a)
    BY QueueNow
  <1>3. PICK new \in Signatures :
          /\ signature' = [signature EXCEPT ![plan.bucket] =
                IF MustCopyTable(new, signature[plan.bucket]) THEN new ELSE signature[plan.bucket]]
          /\ AfterDecode(GraphDecode(MustCopyTable(new, signature[plan.bucket])))
    BY DEF DecodeGraph
  <1>4. /\ UNCHANGED callbackUnchanged /\ pc = "decodeCall"
        /\ UNCHANGED <<pending, captured>> /\ pending' = Nothing
    BY DEF DecodeGraph
  <1> DEFINE t == MustCopyTable(new, signature[plan.bucket])
             ops == GraphDecode(t)
  <1>5. Finds(DecodeSource, Here, a)
    BY <1>2, <1>4, DecodeRowsNow
  <1>6. t \in BOOLEAN
    BY DEF MustCopyTable
  <1>7. ~t /\ NoStaleTables => a.static[plan.bucket].table = cohort
    BY <1>2, <1>4, TableKept
  <1>8. signature' = [signature EXCEPT ![plan.bucket] = IF t THEN new ELSE signature[plan.bucket]]
        /\ AfterDecode(ops)
    BY <1>3
  <1> HIDE DEF t
  <1>9. PICK b \in Memories :
          /\ QueueOk(Append(Append(computeQ, Refresh(t)), Replay), recorded, valid, StillClear, b)
          /\ b.dev = a.dev /\ b.snapshot = a.snapshot /\ b.pieces = a.pieces
          /\ b.static[plan.bucket].table = IF t THEN cohort ELSE a.static[plan.bucket].table
          /\ \A u \in Buckets : u # plan.bucket => b.static[u] = a.static[u]
          /\ b.results["decode"] = step
    BY <1>1, <1>2, <1>5, <1>6, <1>7, GraphRuns
  <1>10. computeQ \o ops = Append(Append(computeQ, Refresh(t)), Replay)
    <2>1. /\ computeQ \in Seq(ComputeOps) /\ Refresh(t) \in ComputeOps /\ Replay \in ComputeOps
          /\ ops = <<Refresh(t), Replay>>
      BY <1>1, <1>6, GraphOps DEF TypesInv, Own
    <2> HIDE DEF ops
    <2> QED
      BY <2>1, AppendingSeveral
  <1> HIDE DEF ops
  <1>11. Published(ops) \/ Calls(ops, "sample")
    BY <1>8 DEF AfterDecode
  <1>12. /\ pc' \in {"prefill", "sample", "drain"} /\ (pc' = "sample" => ~plan.prefill)
         /\ (pc' = "prefill" => plan.prefill)
    <2>1. CASE plan.prefill
      BY <1>8, <2>1 DEF AfterDecode, Published, Caught
    <2>2. CASE ~plan.prefill
      BY <1>4, <1>8, <2>2 DEF AfterDecode, Calls, Caught
    <2> QED
      BY <2>1, <2>2
  <1>13. Finds(DecodeSource, Here, b)
    BY <1>5, <1>9 DEF Finds
  <1>14. RowsReady(b)'
    BY <1>4, <1>9, <1>12, <1>13, DecodeRowsAfter
  <1>15. CaptureReady(b)'
    BY <1>2, <1>4, <1>9 DEF Ready, CaptureReady
  <1>16. ASSUME NEW u \in Buckets, NEW d \in Buffers,
                signature'[u] = <<"buffer", d, version[d]>>
         PROVE  b.static[u].table = b.dev[d]["table"]
    <2>1. plan.bucket \in Buckets /\ active \in Buffers /\ signature \in [Buckets -> {<<>>} \cup
             ({"temporary"} \X Temps \X {0}) \cup ({"buffer"} \X Buffers \X Nat)]
      BY <1>1, SourcesHere DEF TypesInv
    <2>2. CASE u # plan.bucket
      <3>1. signature[u] = <<"buffer", d, version[d]>>
        BY <1>8, <1>16, <2>1, <2>2
      <3> QED
        BY <1>2, <1>9, <2>2, <3>1 DEF Ready, TablesReady
    <2>3. CASE u = plan.bucket /\ ~t
      <3>1. signature[u] = <<"buffer", d, version[d]>>
        BY <1>8, <1>16, <2>1, <2>3
      <3> QED
        BY <1>2, <1>9, <2>3, <3>1 DEF Ready, TablesReady
    <2>4. CASE u = plan.bucket /\ t
      <3>1. new = <<"buffer", d, version[d]>>
        BY <1>8, <1>16, <2>1, <2>4
      <3>2. d = active
        BY <3>1 DEF Signatures
      <3>3. a.dev[active]["table"] = cohort
        BY <1>2, <1>4 DEF IInv, PlanInv, Ready, RowsReady, DecodeRowsThere
      <3> QED
        BY <1>9, <2>4, <3>2, <3>3
    <2> QED
      BY <2>2, <2>3, <2>4
  <1>17. TablesReady(b)'
    <2>1. version' = version
      BY <1>4 DEF callbackUnchanged
    <2> QED
      BY <1>16, <2>1 DEF TablesReady
  <1>18. Ready(b)'
    BY <1>14, <1>15, <1>17 DEF Ready
  <1> QED
    BY <1>4, <1>9, <1>10, <1>11, <1>12, <1>18, DecodeStreams

\* A prefill or packed callback has left the logits of every planned row.
LEMMA PrefillStreams ==
  ASSUME IInv, UNCHANGED callbackUnchanged, signature' = signature,
         pc \in {"prefillCall", "packedCall"}, NEW ops, Calls(ops, "sample"),
         NEW a, Ready(a), NEW b \in Memories,
         QueueOk(computeQ \o ops, recorded, valid, StillClear, b),
         b.dev = a.dev, b.static = a.static, ~captured' => b.pieces.valid = 0,
         \A f \in Planned : b.results[f] = step
  PROVE  StreamParts'
  <1>1. /\ UNCHANGED <<recorded, valid>> /\ pc' \in {"sample", "drain"}
        /\ computeQ' = computeQ \o ops
    BY DEF Calls, Caught
  <1>2. step' = step /\ plan' = plan /\ active' = active /\ cohort' = cohort /\ version' = version
    BY DEF callbackUnchanged
  <1>3. Planned' = Planned
    BY <1>2 DEF Planned
  <1>4. plan.prefill
    BY DEF IInv, PlanInv
  <1>5. RowsReady(b)'
    BY <1>1, <1>2, <1>3, <1>4 DEF RowsReady, DecodeRowsThere
  <1>6. CaptureReady(b)' /\ TablesReady(b)'
    BY <1>2 DEF Ready, CaptureReady, TablesReady
  <1>7. Ready(b)'
    BY <1>5, <1>6 DEF Ready
  <1>8. QueueOk(computeQ', recorded, valid, StillClear, b)
    BY <1>1
  <1> QED
    BY <1>1, <1>7, <1>8, CallStreams

\* A prefill callback, with or without staged decode rows, keeps the streams right ...
LEMMA PrefillCallbackStreams ==
  ASSUME IInv, PrefillCallback
  PROVE  StreamParts'
  <1> DEFINE S == {PrefillSource} \cup (IF pending # Nothing THEN {pending} ELSE {})
             L == CombinedFills(pending # Nothing)
  <1>1. TypesInv /\ StillClear = {} /\ StillClear \in SUBSET Phases /\ pc = "prefillCall"
    BY DEF IInv, PrefillCallback, StillClear
  <1>2. PICK a \in Memories : QueueOk(computeQ, recorded, valid, StillClear, a) /\ Ready(a)
    BY QueueNow
  <1>3. /\ UNCHANGED callbackUnchanged /\ signature' = signature
        /\ Calls(PrefillPass(S, L, plan.tokens), "sample") /\ captured' = CaptureOf(plan.tokens)
    BY DEF PrefillCallback
  <1>4. L = (IF pending # Nothing THEN {"prefill", "decode"} ELSE {"prefill"}) /\ L \in SUBSET Logits
    BY DEF CombinedFills, Logits
  <1>5. /\ PrefillSource \in Sources /\ PrefillSource.from = "prefill" /\ PrefillSource.buf = active
    BY <1>1, SourcesHere DEF PrefillSource
  <1>6. a.dev[active]["prefill"] = step /\ (plan.decode => /\ a.dev[active]["decode"] = step
                                                          /\ a.dev[active]["table"] = cohort)
    BY <1>1, <1>2 DEF Ready, RowsReady, DecodeRowsThere
  <1>7. pending # Nothing =>
          /\ plan.decode /\ pending \in [from : {"decode", "snapshot"}, buf : Buffers]
          /\ pending.buf = active
          /\ pending.from = "snapshot" => a.snapshot.decode = step /\ a.snapshot.table = cohort
    <2>1. pending # Nothing => plan.decode /\ pending \in [from : {"decode", "snapshot"}, buf : Buffers]
      BY DEF IInv, TypesInv, StagedInv
    <2> QED
      BY <1>1, <1>2, <2>1 DEF Ready, RowsReady
  <1>8. pending # Nothing =>
          /\ pending \in Sources /\ ~IsPrompt(pending) /\ pending.from \in {"decode", "snapshot"}
    BY <1>7 DEF Sources, IsPrompt
  <1>9. S \in OnePrompt
    <2>1. PrefillSource \in S /\ IsPrompt(PrefillSource) /\ S \in SUBSET Sources
      BY <1>5, <1>8 DEF IsPrompt
    <2>2. \A s \in S : IsPrompt(s) => s = PrefillSource
      BY <1>8
    <2> HIDE DEF S
    <2> QED
      BY <2>1, <2>2 DEF OnePrompt
  <1>10. Among(S, {"prefill", "decode"})
    BY <1>5, <1>7, <1>8 DEF Among
  <1>11. Here.step = step /\ Here.cohort = cohort
    BY DEF Here
  <1>12. Finds(PrefillSource, Here, a)
    BY <1>5, <1>6, <1>11 DEF Finds
  <1>13. pending # Nothing => Finds(pending, Here, a)
    BY <1>6, <1>7, <1>8, <1>11 DEF Finds
  <1>14. \A s \in S : Finds(s, Here, a)
    BY <1>12, <1>13
  <1> HIDE DEF S, L
  <1>15. {"prefill", "decode"} \cap StillClear = {} /\ CaptureReady(a)
    BY <1>1, <1>2 DEF Ready
  <1>16. PICK b \in Memories :
           /\ QueueOk(computeQ \o PrefillPass(S, L, plan.tokens), recorded, valid, StillClear, b)
           /\ b.dev = a.dev /\ b.snapshot = a.snapshot /\ b.static = a.static
           /\ LogitsFilled(b, L, a)
           /\ ~CaptureOf(plan.tokens) => b.pieces.valid = 0
    BY <1>1, <1>2, <1>4, <1>9, <1>10, <1>14, <1>15, PrefillRuns
  <1>17. ASSUME NEW f \in Planned
         PROVE  b.results[f] = step
    <2>1. f \in Logits /\ f \in {"decode", "prefill"} /\ (f = "decode" => plan.decode)
      BY DEF Planned, Logits
    <2>2. CASE f \in L
      BY <1>16, <2>1, <2>2 DEF LogitsFilled
    <2>3. CASE f \notin L
      <3>1. f = "decode" /\ pending = Nothing
        BY <1>4, <2>1, <2>3
      <3>2. a.results["decode"] = step
        BY <1>1, <1>2, <2>1, <3>1 DEF Ready, RowsReady
      <3> QED
        BY <1>16, <2>1, <2>3, <3>1, <3>2 DEF LogitsFilled
    <2> QED
      BY <2>2, <2>3
  <1> QED
    BY <1>1, <1>2, <1>3, <1>16, <1>17, PrefillStreams

\* ... as does one whose rows arrive packed.
LEMMA MixedCallbackStreams ==
  ASSUME IInv, MixedCallback
  PROVE  StreamParts'
  <1> DEFINE S == {MixedSource}
             L == {"decode", "prefill"}
  <1>1. TypesInv /\ StillClear = {} /\ StillClear \in SUBSET Phases /\ pc = "packedCall"
    BY DEF IInv, MixedCallback, StillClear
  <1>2. PICK a \in Memories : QueueOk(computeQ, recorded, valid, StillClear, a) /\ Ready(a)
    BY QueueNow
  <1>3. /\ UNCHANGED callbackUnchanged /\ signature' = signature
        /\ Calls(PrefillPass(S, L, plan.tokens), "sample") /\ captured' = CaptureOf(plan.tokens)
    BY DEF MixedCallback
  <1>4. S \in OnePrompt /\ Among(S, {"mixed"}) /\ L \in SUBSET Logits
    BY <1>1, SourcesHere DEF Logits
  <1>5. a.dev[active]["mixed"] = step
    BY <1>1, <1>2 DEF Ready, RowsReady
  <1>6. MixedSource.from = "mixed" /\ MixedSource.buf = active /\ Here.step = step
    BY DEF MixedSource, Here
  <1>7. \A s \in S : Finds(s, Here, a)
    BY <1>5, <1>6 DEF Finds
  <1> HIDE DEF S, L
  <1>8. {"mixed"} \cap StillClear = {} /\ CaptureReady(a)
    BY <1>1, <1>2 DEF Ready
  <1>9. PICK b \in Memories :
           /\ QueueOk(computeQ \o PrefillPass(S, L, plan.tokens), recorded, valid, StillClear, b)
           /\ b.dev = a.dev /\ b.snapshot = a.snapshot /\ b.static = a.static
           /\ LogitsFilled(b, L, a)
           /\ ~CaptureOf(plan.tokens) => b.pieces.valid = 0
    BY <1>1, <1>2, <1>4, <1>7, <1>8, PrefillRuns
  <1>10. \A f \in Planned : b.results[f] = step
    BY <1>9 DEF Planned, Logits, L, LogitsFilled
  <1> QED
    BY <1>1, <1>2, <1>3, <1>9, <1>10, PrefillStreams

-----------------------------------------------------------------------------
(* The other steps of the CPU thread *)

\* With one stream a step begins behind all that has been enqueued before it.
LEMMA OneStreamTaken ==
  ASSUME IInv, BeginStep
  PROVE  /\ otherQ' = <<>>
         /\ IF plan'.replay
            THEN /\ pc' = "decodeCall" /\ stable /\ plan'.decode /\ ~plan'.prefill
                 /\ computeQ' = Append(computeQ, Advance)
            ELSE pc' = "hostWait" /\ computeQ' = computeQ
  <1>1. config.streams = "one" /\ otherQ = <<>> /\ computeQ \in Seq(ComputeOps)
    BY DEF IInv, OneStream, TypesInv
  <1>2. ~MayChangeStream
    BY <1>1 DEF MayChangeStream
  <1>3. otherQ' = <<>> /\ computeQ' = computeQ \o (IF plan'.replay THEN <<Advance>> ELSE <<>>)
    BY <1>1, <1>2 DEF BeginStep, TakeStream, AdvanceTo, Advance
  <1>4. computeQ \o <<>> = computeQ /\ computeQ \o <<Advance>> = Append(computeQ, Advance)
    BY <1>1
  <1> QED
    BY <1>3, <1>4 DEF BeginStep

\* Planning a step, with the advance of a retained cohort, keeps the streams right.
LEMMA BeginStepStreams ==
  ASSUME IInv, BeginStep
  PROVE  StreamParts'
  <1>1. PICK a \in Memories : QueueOk(computeQ, recorded, valid, {}, a) /\ Ready(a)
    <2>1. PICK a \in Memories : QueueOk(computeQ, recorded, valid, StillClear, a) /\ Ready(a)
      BY QueueNow
    <2>2. StillClear = {}
      BY DEF BeginStep, StillClear
    <2> QED
      BY <2>1, <2>2
  <1>2. /\ UNCHANGED <<active, cohort, copyQ, reached, memoryVars, version, signature, captured>>
        /\ recorded' = recorded /\ valid' = valid /\ pc = "idle" /\ step' = step + 1
        /\ UNCHANGED pending
    BY DEF BeginStep, eventVars, adapterVars
  <1>3. CaptureReady(a)' /\ TablesReady(a)'
    BY <1>1, <1>2 DEF Ready, CaptureReady, TablesReady
  <1>4. TypesInv /\ CopiesInv /\ active \in Buffers /\ step \in Nat
    BY RuntimeAssumption DEF IInv, TypesInv
  <1>5. CASE ~plan'.replay
    <2>1. pc' = "hostWait" /\ computeQ' = computeQ
      BY <1>5, OneStreamTaken
    <2>2. Ready(a)'
      BY <1>3, <2>1, NoRowsNeeded
    <2>3. QueueOk(computeQ', recorded', valid', {}, a)
      BY <1>1, <1>2, <2>1
    <2>4. ReleasedIn(computeQ', active, valid')
      BY <1>2, <1>4, <2>1 DEF IInv, BuffersInv, Released
    <2> QED
      BY <1>2, <1>4, <2>1, <2>2, <2>3, <2>4, CpuDone
  <1>6. CASE plan'.replay
    <2>1. pc' = "decodeCall" /\ stable /\ plan'.decode /\ ~plan'.prefill
          /\ computeQ' = Append(computeQ, Advance)
      BY <1>6, OneStreamTaken
    <2>2. a.dev[active]["decode"] = step /\ a.dev[active]["table"] = cohort
      BY <1>1, <1>2, <2>1 DEF Ready, RowsReady, DecodeRowsThere
    <2>3. /\ Advance.op = "advance" /\ Advance.buf = active /\ Advance.step = step + 1
          /\ Advance.cohort = cohort
      BY DEF Advance
    <2>4. Right(Advance, a)
      <3>1. (step + 1) - 1 = step
        BY <1>4
      <3> QED
        BY <2>2, <2>3, <3>1 DEF Right, Readers
    <2>5. Own(Advance, {"decode"})
      BY <1>4, AdvanceOp
    <2> DEFINE o == Advance
               b == After(o, a)
    <2> HIDE DEF o
    <2>6. QueueOk(Append(computeQ, o), recorded, valid, {}, b)
      BY <1>1, <1>4, <2>4, <2>5, OwnOn DEF o
    <2>7. b \in Memories /\ a.dev \in [Buffers -> [Fields -> Nat]]
      BY <2>6 DEF QueueOk, Memories
    <2>8. b.static = a.static /\ b.pieces = a.pieces /\ b.dev = DevAfter(o, a)
      BY <2>3, AfterFields DEF StaticAfter, PiecesAfter, o
    <2>9. /\ b.dev[active]["decode"] = step + 1
          /\ \A d \in Buffers : b.dev[d]["table"] = a.dev[d]["table"]
      BY <1>4, <2>3, <2>7, <2>8 DEF DevAfter, o, Fields
    <2>10. PICK c \in Memories : c = b
      BY <2>7
    <2>11. QueueOk(computeQ', recorded', valid', {}, c)
      BY <1>2, <2>1, <2>6, <2>10 DEF o
    <2> HIDE DEF b
    <2>12. RowsReady(c)'
      BY <1>2, <1>4, <2>1, <2>2, <2>9, <2>10 DEF RowsReady, DecodeRowsThere
    <2>13. CaptureReady(c)' /\ TablesReady(c)'
      BY <1>1, <1>2, <2>8, <2>9, <2>10 DEF Ready, CaptureReady, TablesReady
    <2>14. Ready(c)'
      BY <2>12, <2>13 DEF Ready
    <2> QED
      BY <1>2, <1>4, <2>1, <2>11, <2>14, CpuDone
  <1> QED
    BY <1>5, <1>6

\* When the last record of the copies has been passed, none is under way.
LEMMA CopiesSynchronized ==
  ASSUME TypesInv, CopiesInv, Synchronized("copied")
  PROVE  copyQ = <<>>
  <1>1. SUFFICES ASSUME copyQ # <<>> PROVE FALSE
    OBVIOUS
  <1>2. Len(copyQ) \in 1 .. Len(copyQ) /\ copyQ[Len(copyQ)] \in TransferOps
    BY <1>1 DEF TypesInv
  <1>3. copyQ[Len(copyQ)].op = "record"
    BY <1>1 DEF CopiesInv, CopyOrder
  <1>4. copyQ[Len(copyQ)].count \in Nat
    BY <1>2, <1>3 DEF TransferOps, CopyOps, CopiedOps, ConsumedOps
  <1>5. /\ reached["copied"] < copyQ[Len(copyQ)].count
        /\ copyQ[Len(copyQ)].count <= recorded["copied"]
    BY <1>2, <1>3 DEF CopiesInv, CopyOrder
  <1>6. reached["copied"] = recorded["copied"] /\ reached["copied"] \in Nat
    BY DEF Synchronized, TypesInv, Events
  <1> QED
    BY <1>4, <1>5, <1>6

\* ... as does waiting for the staging buffer: no copy is under way then ...
LEMMA WaitHostStreams ==
  ASSUME IInv, WaitHost
  PROVE  StreamParts'
  <1>1. PICK a \in Memories : QueueOk(computeQ, recorded, valid, {}, a) /\ Ready(a)
    <2>1. PICK a \in Memories : QueueOk(computeQ, recorded, valid, StillClear, a) /\ Ready(a)
      BY QueueNow
    <2>2. StillClear = {}
      BY DEF WaitHost, StillClear
    <2> QED
      BY <2>1, <2>2
  <1>2. /\ UNCHANGED <<active, cohort, copyQ, reached, memoryVars, version, signature, captured>>
        /\ recorded' = recorded /\ valid' = valid /\ computeQ' = computeQ
        /\ pc = "hostWait" /\ pc' = "deviceWait"
    BY DEF WaitHost, eventVars, adapterVars
  <1>3. CaptureReady(a)' /\ TablesReady(a)'
    BY <1>1, <1>2 DEF Ready, CaptureReady, TablesReady
  <1>4. Ready(a)'
    BY <1>2, <1>3, NoRowsNeeded
  <1>5. TypesInv /\ CopiesInv /\ active \in Buffers
    BY DEF IInv, TypesInv
  <1>6. copyQ = <<>>
    BY <1>5, CopiesSynchronized DEF WaitHost, HostReusable
  <1>7. ReleasedIn(computeQ', active, valid')
    BY <1>2, <1>5 DEF IInv, BuffersInv, Released
  <1>8. QueueOk(computeQ', recorded', valid', {}, a)
    BY <1>1, <1>2
  <1> QED
    BY <1>2, <1>4, <1>5, <1>6, <1>7, <1>8, CpuDone

\* Filling no field changes nothing ...
LEMMA PutNothing ==
  ASSUME NEW b, NEW c \in Nat, NEW m \in Memories
  PROVE  Put({}, b, c, m) = m
  <1>1. m.dev \in [Buffers -> [Fields -> Nat]]
    BY DEF Memories
  <1>2. PutDev({}, b, c, m.dev) = m.dev
    <2>1. PutDev({}, b, c, m.dev) = [e \in Buffers |-> [f \in Fields |-> m.dev[e][f]]]
      BY DEF PutDev
    <2> QED
      BY <1>1, <2>1
  <1>3. Put({}, b, c, m) = [dev |-> m.dev, snapshot |-> m.snapshot, static |-> m.static,
                            pieces |-> m.pieces, results |-> m.results]
    BY <1>2, PutFields
  <1> QED
    BY <1>3 DEF Memories

\* ... so without copies under way all have arrived.
LEMMA ArrivedAll ==
  ASSUME TypesInv, copyQ = <<>>
  PROVE  Arrived = Memory
  <1>1. Arriving = {}
    BY DEF Arriving
  <1>2. Memory \in Memories /\ cohort \in Nat
    BY DEF TypesInv
  <1> QED
    BY <1>1, <1>2, PutNothing DEF Arrived

\* Taking the other device buffer keeps the streams right: nobody touches it.
LEMMA WaitDeviceStreams ==
  ASSUME IInv, WaitDevice
  PROVE  StreamParts'
  <1>1. TypesInv /\ active \in Buffers /\ copyQ = <<>> /\ pc = "deviceWait"
    BY DEF IInv, TypesInv, CopiesInv, WaitDevice
  <1>2. /\ UNCHANGED <<eventVars, copyQ, computeQ, memoryVars, adapterVars, plan>>
        /\ active' = 1 - active /\ cohort' = step
        /\ pc' \in {"packed", "decode", "prefill"} /\ (pc' = "prefill" => ~plan.decode)
    BY DEF WaitDevice
  <1>3. PICK a \in Memories : QueueOk(computeQ, recorded, valid, StillClear, a) /\ Ready(a)
    BY QueueNow
  <1>4. active' \in Buffers /\ \A b \in Buffers : b # active' => b = active
    BY <1>1, <1>2 DEF Buffers
  <1>5. computeQ' = computeQ /\ reached' = reached /\ recorded' = recorded /\ valid' = valid
        /\ copyQ' = <<>>
    BY <1>1, <1>2 DEF eventVars
  <1>6. CopiesInv'
    <2>1. CopyOrder(copyQ', reached'["copied"], recorded'["copied"])
      BY <1>5 DEF CopyOrder
    <2> QED
      BY <1>5, <2>1 DEF CopiesInv
  <1>7. RecordsInv'
    BY <1>5 DEF IInv, RecordsInv
  <1>8. \A b \in Buffers : ReleasedIn(computeQ, b, valid)
    BY <1>1 DEF IInv, BuffersInv, Released
  <1>9. \A phase \in Phases : ClearIn(computeQ, active', phase)
    <2>1. valid[active'] => reached[Consumed(active')] = recorded[Consumed(active')]
      BY <1>2 DEF WaitDevice, Synchronized
    <2>2. /\ computeQ \in Seq(ComputeOps) /\ RecordsIn(computeQ, reached, recorded)
          /\ reached \in [Events -> Nat] /\ recorded \in [Events -> Nat]
      BY DEF IInv, TypesInv, RecordsInv
    <2> QED
      BY <1>4, <1>8, <2>1, <2>2, ReleasedAndPassed
  <1>10. BuffersInv'
    <2>1. \A b \in Buffers : Released(b)'
      BY <1>5, <1>8 DEF Released
    <2>2. \A phase \in Phases : Clear(phase)'
      BY <1>5, <1>9 DEF Clear, IsCopy
    <2> QED
      BY <2>1, <2>2 DEF BuffersInv, Phases
  <1>11. StreamsInv'
    <2>1. Arrived = Memory
      BY <1>1, ArrivedAll
    <2>2. Arrived' = Memory'
      <3>1. Arriving' = {}
        BY <1>5 DEF Arriving
      <3>2. Memory' \in Memories /\ cohort' \in Nat
        <4>1. Memory' = Memory
          BY <1>2 DEF memoryVars, Memory
        <4> QED
          BY <1>1, <1>2, <4>1, RuntimeAssumption DEF TypesInv
      <3>3. Arrived' = Put({}, active', cohort', Memory')
        BY <3>1 DEF Arrived
      <3> QED
        BY <3>2, <3>3, PutNothing
    <2>3. Memory' = Memory
      BY <1>2 DEF memoryVars, Memory
    <2>4. Runs(computeQ', Arrived', a)
      BY <1>3, <1>5, <2>1, <2>2, <2>3 DEF QueueOk
    <2>5. RowsReady(a)'
      BY <1>2 DEF RowsReady, DecodeRowsThere
    <2>6. CaptureReady(a)' /\ TablesReady(a)'
      BY <1>2, <1>3 DEF Ready, CaptureReady, TablesReady, adapterVars
    <2> QED
      BY <2>4, <2>5, <2>6 DEF StreamsInv, Ready
  <1> QED
    BY <1>1, <1>5, <1>6, <1>7, <1>10, <1>11 DEF StreamParts, TypesInv

\* Sampling keeps the streams right ...
LEMMA SampleStreams ==
  ASSUME IInv, Sample
  PROVE  StreamParts'
  <1>1. PICK a \in Memories : QueueOk(computeQ, recorded, valid, {}, a) /\ Ready(a)
    <2>1. PICK a \in Memories : QueueOk(computeQ, recorded, valid, StillClear, a) /\ Ready(a)
      BY QueueNow
    <2>2. StillClear = {}
      BY DEF Sample, StillClear
    <2> QED
      BY <2>1, <2>2
  <1>2. /\ UNCHANGED <<active, cohort, copyQ, reached, memoryVars, version, signature, captured,
                       step, plan>>
        /\ recorded' = recorded /\ valid' = valid /\ pc = "sample" /\ pc' = "readback"
    BY DEF Sample, eventVars, adapterVars
  <1>3. computeQ' = computeQ \/ computeQ' = Append(computeQ, SampleOp)
    BY DEF Sample, SampleOp
  <1>4. TypesInv /\ CopiesInv
    BY DEF IInv
  <1>5. ASSUME NEW b, b.dev = a.dev, b.static = a.static, b.pieces = a.pieces
        PROVE  Ready(b)'
    <2>1. RowsReady(b)'
      BY <1>1, <1>2, <1>5 DEF Ready, RowsReady, DecodeRowsThere
    <2>2. CaptureReady(b)' /\ TablesReady(b)'
      BY <1>1, <1>2, <1>5 DEF Ready, CaptureReady, TablesReady
    <2> QED
      BY <2>1, <2>2 DEF Ready
  <1>6. CASE computeQ' = computeQ
    <2>1. QueueOk(computeQ', recorded', valid', {}, a)
      BY <1>1, <1>2, <1>6
    <2>2. Ready(a)'
      BY <1>5
    <2> QED
      BY <1>2, <1>4, <2>1, <2>2, CpuDone
  <1>7. CASE computeQ' = Append(computeQ, SampleOp)
    <2> DEFINE o == SampleOp
    <2>1. o.op = "sample" /\ o.fills = Planned /\ o.step = step /\ Own(o, {})
      BY <1>4, SamplingOp DEF SampleOp
    <2>2. \A f \in Planned : a.results[f] = step
      BY <1>1, <1>2 DEF Ready, RowsReady
    <2> HIDE DEF o
    <2>3. Right(o, a)
      BY <2>1, <2>2 DEF Right, Readers
    <2>4. QueueOk(Append(computeQ, o), recorded, valid, {}, After(o, a))
      BY <1>1, <1>4, <2>1, <2>3, OwnOn
    <2>5. After(o, a) \in Memories
      BY <2>4 DEF QueueOk
    <2>6. PICK b \in Memories : b = After(o, a)
      BY <2>5
    <2>7. b.dev = a.dev /\ b.static = a.static /\ b.pieces = a.pieces
      BY <2>1, <2>6, AfterFields DEF DevAfter, StaticAfter, PiecesAfter
    <2>8. Ready(b)'
      BY <1>5, <2>7
    <2>9. QueueOk(computeQ', recorded', valid', {}, b)
      BY <1>2, <1>7, <2>4, <2>6 DEF o
    <2> QED
      BY <1>2, <1>4, <2>8, <2>9, CpuDone
  <1> QED
    BY <1>3, <1>6, <1>7

\* ... as do reading the tokens back and releasing the buffer ...
LEMMA ReadbackStreams ==
  ASSUME IInv, Readback
  PROVE  StreamParts'
  <1>1. PICK a \in Memories : QueueOk(computeQ, recorded, valid, {}, a) /\ Ready(a)
    <2>1. PICK a \in Memories : QueueOk(computeQ, recorded, valid, StillClear, a) /\ Ready(a)
      BY QueueNow
    <2>2. StillClear = {}
      BY DEF Readback, StillClear
    <2> QED
      BY <2>1, <2>2
  <1>2. /\ UNCHANGED <<active, cohort, copyQ, reached, memoryVars, version, signature, captured,
                       step, plan>>
        /\ computeQ' = computeQ \o PublishOps
        /\ recorded' = [recorded EXCEPT ![Consumed(active)] = @ + 1]
        /\ valid' = [valid EXCEPT ![active] = TRUE]
        /\ pc = "readback" /\ pc' = "idle" /\ (stable' => plan.decode /\ ~plan.prefill)
    BY DEF Readback, adapterVars
  <1> DEFINE o == RecordOp(Consumed(active), recorded[Consumed(active)] + 1)
  <1>3. TypesInv /\ CopiesInv /\ computeQ \in Seq(ComputeOps)
    BY DEF IInv, TypesInv
  <1>4. computeQ' = Append(computeQ, o)
    <2>1. PublishOps = <<o>>
      BY DEF PublishOps
    <2>2. o \in ComputeOps
      BY <1>1, <1>3, PublishOn
    <2> HIDE DEF o
    <2> QED
      BY <1>2, <1>3, <2>1, <2>2, AppendingSeveral
  <1>5. /\ QueueOk(Append(computeQ, o), recorded', valid', {}, a)
        /\ ReleasedIn(Append(computeQ, o), active, valid')
        /\ recorded'["copied"] = recorded["copied"]
    BY <1>1, <1>2, <1>3, PublishOn
  <1> HIDE DEF o
  <1>6. RowsReady(a)'
    BY <1>1, <1>2 DEF Ready, RowsReady, DecodeRowsThere
  <1>7. CaptureReady(a)' /\ TablesReady(a)'
    BY <1>1, <1>2 DEF Ready, CaptureReady, TablesReady
  <1>8. Ready(a)'
    BY <1>6, <1>7 DEF Ready
  <1>9. QueueOk(computeQ', recorded', valid', {}, a) /\ ReleasedIn(computeQ', active, valid')
    BY <1>4, <1>5
  <1> QED
    BY <1>2, <1>3, <1>5, <1>8, <1>9, CpuDone

\* ... and draining the streams after a failure.
LEMMA DrainStreams ==
  ASSUME IInv, Drain
  PROVE  StreamParts'
  <1>1. PICK a \in Memories : QueueOk(computeQ, recorded, valid, {}, a) /\ Ready(a)
    <2>1. PICK a \in Memories : QueueOk(computeQ, recorded, valid, StillClear, a) /\ Ready(a)
      BY QueueNow
    <2>2. StillClear = {}
      BY DEF Drain, StillClear
    <2> QED
      BY <2>1, <2>2
  <1>2. /\ UNCHANGED <<active, cohort, copyQ, computeQ, reached, memoryVars, version, signature,
                       captured, step, plan, stable>>
        /\ recorded' = recorded /\ valid' = valid
        /\ pc = "drain" /\ pc' = "idle" /\ computeQ = <<>> /\ ~stable
    BY DEF Drain, Drained, eventVars, adapterVars, IInv, PlanInv
  <1>3. RowsReady(a)'
    BY <1>2 DEF RowsReady, DecodeRowsThere
  <1>4. CaptureReady(a)' /\ TablesReady(a)'
    BY <1>1, <1>2 DEF Ready, CaptureReady, TablesReady
  <1>5. Ready(a)'
    BY <1>3, <1>4 DEF Ready
  <1>6. ReleasedIn(computeQ', active, valid')
    BY <1>2 DEF ReleasedIn
  <1>7. QueueOk(computeQ', recorded', valid', {}, a) /\ TypesInv /\ CopiesInv
    BY <1>1, <1>2 DEF IInv
  <1> QED
    BY <1>2, <1>5, <1>6, <1>7, CpuDone

-----------------------------------------------------------------------------
(* Building a phase and transferring it *)

\* Records of the compute stream are counted by the events of the buffers only.
LEMMA RecordsAgree ==
  ASSUME NEW q \in Seq(ComputeOps), NEW at, NEW last, NEW at2, NEW last2,
         RecordsIn(q, at, last),
         \A e \in {"consumed0", "consumed1"} : at2[e] = at[e] /\ last2[e] = last[e]
  PROVE  RecordsIn(q, at2, last2)
  <1>1. \A k \in 1 .. Len(q) : q[k].op = "record" => q[k].event \in {"consumed0", "consumed1"}
    <2>1. \A k \in 1 .. Len(q) : q[k] \in ComputeOps
      OBVIOUS
    <2> QED
      BY <2>1, KindsOfOperations DEF RecordOps
  <1> QED
    BY <1>1 DEF RecordsIn

\* Fields may be filled together or one after the other.
LEMMA PutPut ==
  ASSUME NEW F, NEW G, NEW b, NEW c \in Nat, NEW m \in Memories
  PROVE  Put(F, b, c, Put(G, b, c, m)) = Put(F \cup G, b, c, m)
  <1>1. PutDev(F, b, c, PutDev(G, b, c, m.dev)) = PutDev(F \cup G, b, c, m.dev)
    BY DEF PutDev
  <1>2. /\ Put(G, b, c, m) \in Memories /\ Put(G, b, c, m).dev = PutDev(G, b, c, m.dev)
        /\ Put(G, b, c, m).snapshot = m.snapshot /\ Put(G, b, c, m).static = m.static
        /\ Put(G, b, c, m).pieces = m.pieces /\ Put(G, b, c, m).results = m.results
    BY PutFields
  <1>3. Put(F, b, c, Put(G, b, c, m))
          = [dev |-> PutDev(F, b, c, PutDev(G, b, c, m.dev)), snapshot |-> m.snapshot,
             static |-> m.static, pieces |-> m.pieces, results |-> m.results]
    BY <1>2, PutFields
  <1>4. Put(F \cup G, b, c, m)
          = [dev |-> PutDev(F \cup G, b, c, m.dev), snapshot |-> m.snapshot,
             static |-> m.static, pieces |-> m.pieces, results |-> m.results]
    BY PutFields
  <1> QED
    BY <1>1, <1>3, <1>4

\* The operations of the copy stream.
LEMMA KindsOfTransfers ==
  ASSUME NEW o \in TransferOps
  PROVE  /\ o.op \in {"copy", "record", "wait"}
         /\ o.op = "copy" => o.phase \in Phases /\ o.buf \in Buffers /\ o.step \in Nat
         /\ o.op = "record" => o.event = "copied" /\ o.count \in Nat
         /\ o.op = "wait" => o.event \in {"consumed0", "consumed1"} /\ o.count \in Nat
  BY DEF TransferOps, CopyOps, CopiedOps, ConsumedOps

CopyOp(phase) == [op |-> "copy", phase |-> phase, buf |-> active, step |-> step]
CopiedOp == RecordOp("copied", recorded["copied"] + 1)

\* The copy queue after a transfer: perhaps a wait, the copy, its record.
LEMMA CopyQueueGrown ==
  ASSUME TypesInv, NEW phase \in Phases, Transferred(phase)
  PROVE  /\ copyQ' \in Seq(TransferOps)
         /\ \E w \in {0, 1} :
              /\ Len(copyQ') = Len(copyQ) + w + 2
              /\ \A i \in 1 .. Len(copyQ) : copyQ'[i] = copyQ[i]
              /\ copyQ'[Len(copyQ) + w + 1] = CopyOp(phase)
              /\ copyQ'[Len(copyQ) + w + 2] = CopiedOp
              /\ w = 1 => copyQ'[Len(copyQ) + 1].op = "wait"
  <1> DEFINE W == WaitOp(Consumed(active), recorded[Consumed(active)])
             C == CopyOp(phase)
             R == CopiedOp
             q == copyQ
  <1>1. /\ active \in Buffers /\ step \in Nat /\ recorded \in [Events -> Nat]
        /\ q \in Seq(TransferOps)
    BY RuntimeAssumption DEF TypesInv
  <1>2. C \in TransferOps
    BY <1>1 DEF CopyOp, CopyOps, TransferOps
  <1>3. R \in TransferOps
    <2>1. recorded["copied"] + 1 \in Nat
      BY <1>1 DEF Events
    <2>2. R \in CopiedOps
      BY <2>1 DEF CopiedOp, RecordOp, CopiedOps
    <2> QED
      BY <2>2 DEF TransferOps
  <1>4. W \in TransferOps /\ W.op = "wait"
    <2>1. Consumed(active) \in {"consumed0", "consumed1"} /\ recorded[Consumed(active)] \in Nat
      BY <1>1 DEF Consumed, Events
    <2>2. W \in ConsumedOps /\ W.op = "wait"
      BY <2>1 DEF WaitOp, ConsumedOps
    <2> QED
      BY <2>2 DEF TransferOps
  <1>5. copyQ' = q \o ((IF valid[active] THEN <<W>> ELSE <<>>) \o <<C, R>>)
    BY DEF Transferred, TransferCopy, CopyOp, CopiedOp
  <1> HIDE DEF W, C, R, q
  <1>6. CASE valid[active]
    <2>1. copyQ' = Append(Append(Append(q, W), C), R)
      BY <1>1, <1>2, <1>3, <1>4, <1>5, <1>6, AppendingSeveral
    <2>2. /\ copyQ' \in Seq(TransferOps) /\ Len(copyQ') = Len(q) + 1 + 2
          /\ \A i \in 1 .. Len(q) : copyQ'[i] = q[i]
          /\ copyQ'[Len(q) + 1] = W
          /\ copyQ'[Len(q) + 1 + 1] = C /\ copyQ'[Len(q) + 1 + 2] = R
      BY <1>1, <1>2, <1>3, <1>4, <2>1
    <2> QED
      BY <1>4, <2>2 DEF C, R, q
  <1>7. CASE ~valid[active]
    <2>1. copyQ' = Append(Append(q, C), R)
      BY <1>1, <1>2, <1>3, <1>4, <1>5, <1>7, AppendingSeveral
    <2>2. /\ copyQ' \in Seq(TransferOps) /\ Len(copyQ') = Len(q) + 0 + 2
          /\ \A i \in 1 .. Len(q) : copyQ'[i] = q[i]
          /\ copyQ'[Len(q) + 0 + 1] = C /\ copyQ'[Len(q) + 0 + 2] = R
      BY <1>1, <1>2, <1>3, <1>4, <2>1
    <2> QED
      BY <2>2 DEF C, R, q
  <1> QED
    BY <1>6, <1>7

\* A transfer adds one copy of its phase.
LEMMA TransferCopies ==
  ASSUME TypesInv, CopyOrder(copyQ, reached["copied"], recorded["copied"]), CopiesOfCohort,
         NEW phase \in Phases, Transferred(phase),
         UNCHANGED <<active, cohort, dev, snapshot, static, pieces, results>>, cohort = step,
         host'[phase] = cohort, \A i \in 1 .. Len(copyQ) : IsCopy(i) => host'[copyQ[i].phase] = cohort
  PROVE  /\ CopyOrder(copyQ', reached'["copied"], recorded'["copied"]) /\ CopiesOfCohort'
         /\ \A i \in 1 .. Len(copyQ') :
              IsCopy(i)' => \/ copyQ'[i].phase = phase /\ copyQ'[i + 1].count = recorded["copied"] + 1
                            \/ /\ i \in 1 .. Len(copyQ) /\ IsCopy(i)
                               /\ copyQ'[i] = copyQ[i] /\ copyQ'[i + 1] = copyQ[i + 1]
         /\ Arrived' = Put(FieldsOf(phase), active, cohort, Arrived)
  <1> DEFINE n == Len(copyQ)
             F == FieldsOf(phase)
  <1>1. /\ active \in Buffers /\ step \in Nat /\ recorded \in [Events -> Nat]
        /\ reached \in [Events -> Nat] /\ reached["copied"] <= recorded["copied"]
        /\ copyQ \in Seq(TransferOps) /\ n \in Nat
        /\ recorded["copied"] \in Nat /\ reached["copied"] \in Nat /\ cohort \in Nat
    BY RuntimeAssumption DEF TypesInv, Events
  <1>2. /\ reached' = reached /\ recorded' = [recorded EXCEPT !["copied"] = @ + 1]
    BY DEF Transferred
  <1>6. recorded'["copied"] = recorded["copied"] + 1
    BY <1>1, <1>2 DEF Events
  <1>7. PICK w \in {0, 1} :
          /\ Len(copyQ') = n + w + 2
          /\ \A i \in 1 .. n : copyQ'[i] = copyQ[i]
          /\ copyQ'[n + w + 1] = CopyOp(phase)
          /\ copyQ'[n + w + 2] = CopiedOp
          /\ w = 1 => copyQ'[n + 1].op = "wait"
    BY CopyQueueGrown
  <1>8. \A i \in 1 .. Len(copyQ') :
          \/ i \in 1 .. n
          \/ w = 1 /\ i = n + 1
          \/ i = n + w + 1
          \/ i = n + w + 2
    <2>1. n \in Nat /\ Len(copyQ') = n + w + 2 /\ w \in {0, 1}
      BY <1>1, <1>7
    <2> HIDE DEF n
    <2>2. CASE w = 0
      BY <2>1, <2>2
    <2>3. CASE w = 1
      BY <2>1, <2>3
    <2> QED
      BY <2>1, <2>2, <2>3
  <1>9. /\ CopyOp(phase).op = "copy" /\ CopyOp(phase).phase = phase /\ CopyOp(phase).buf = active
        /\ CopyOp(phase).step = step
        /\ CopiedOp.op = "record" /\ CopiedOp.count = recorded["copied"] + 1
    BY DEF CopyOp, CopiedOp, RecordOp
  <1> HIDE DEF n
  <1>11. \A i \in 1 .. n : i \in 1 .. Len(copyQ') /\ i # n + w + 1 /\ i # n + w + 2
    BY <1>1, <1>7
  <1>12. CopyOrder(copyQ', reached'["copied"], recorded'["copied"])
    <2>1. ASSUME NEW i \in 1 .. Len(copyQ'), copyQ'[i].op = "record"
          PROVE  /\ reached["copied"] < copyQ'[i].count /\ copyQ'[i].count <= recorded["copied"] + 1
                 /\ \A j \in 1 .. i - 1 : copyQ'[j].op = "record" => copyQ'[j].count < copyQ'[i].count
      <3>1. CASE i \in 1 .. n
        <4>1. copyQ[i].op = "record" /\ copyQ'[i] = copyQ[i] /\ copyQ[i].count \in Nat
          BY <1>1, <1>7, <2>1, <3>1, KindsOfTransfers DEF n
        <4>2. \A j \in 1 .. i - 1 : j \in 1 .. n /\ copyQ'[j] = copyQ[j]
          BY <1>1, <1>7, <3>1
        <4>3. /\ reached["copied"] < copyQ[i].count /\ copyQ[i].count <= recorded["copied"]
              /\ \A j \in 1 .. i - 1 : copyQ[j].op = "record" => copyQ[j].count < copyQ[i].count
          BY <3>1, <4>1 DEF CopyOrder, n
        <4>4. copyQ[i].count <= recorded["copied"] + 1
          BY <1>1, <4>1, <4>3
        <4> QED
          BY <4>1, <4>2, <4>3, <4>4
      <3>2. CASE i = n + w + 2
        <4>1. copyQ'[i] = CopiedOp
          BY <1>7, <3>2
        <4>2. ASSUME NEW j \in 1 .. i - 1, copyQ'[j].op = "record"
              PROVE  copyQ'[j].count < recorded["copied"] + 1
          <5>1. j \in 1 .. Len(copyQ') /\ j # n + w + 2
            BY <1>1, <1>7, <3>2
          <5>2. j \in 1 .. n
            BY <1>7, <1>8, <1>9, <4>2, <5>1
          <5>3. copyQ'[j] = copyQ[j] /\ copyQ[j].count \in Nat
            BY <1>1, <1>7, <4>2, <5>2, KindsOfTransfers DEF n
          <5>4. copyQ[j].count <= recorded["copied"]
            BY <4>2, <5>2, <5>3 DEF CopyOrder, n
          <5> QED
            BY <1>1, <5>3, <5>4
        <4>3. reached["copied"] < recorded["copied"] + 1
          BY <1>1
        <4>4. recorded["copied"] + 1 <= recorded["copied"] + 1
          BY <1>1
        <4> QED
          BY <1>9, <4>1, <4>2, <4>3, <4>4
      <3> QED
        BY <1>7, <1>8, <1>9, <2>1, <3>1, <3>2
    <2>2. ASSUME NEW i \in 1 .. Len(copyQ'), copyQ'[i].op = "copy"
          PROVE  i < Len(copyQ') /\ copyQ'[i + 1].op = "record"
      <3>1. CASE i \in 1 .. n
        <4>1. i < n /\ copyQ[i + 1].op = "record"
          BY <1>7, <2>2, <3>1 DEF CopyOrder, n
        <4>2. i + 1 \in 1 .. n /\ i < Len(copyQ')
          BY <1>1, <1>7, <3>1, <4>1
        <4> QED
          BY <1>7, <4>1, <4>2
      <3>2. CASE i = n + w + 1
        <4>1. i + 1 = n + w + 2 /\ i < Len(copyQ')
          BY <1>1, <1>7, <3>2
        <4> QED
          BY <1>7, <1>9, <4>1
      <3> QED
        BY <1>7, <1>8, <1>9, <2>2, <3>1, <3>2
    <2>3. copyQ'[Len(copyQ')].op = "record"
      BY <1>7, <1>9
    <2> QED
      BY <1>2, <1>6, <2>1, <2>2, <2>3 DEF CopyOrder
  <1>13. ASSUME NEW i \in 1 .. Len(copyQ'), IsCopy(i)'
         PROVE  /\ copyQ'[i].buf = active /\ copyQ'[i].step = cohort /\ host'[copyQ'[i].phase] = cohort
                /\ \/ copyQ'[i].phase = phase /\ copyQ'[i + 1].count = recorded["copied"] + 1
                   \/ /\ i \in 1 .. n /\ IsCopy(i)
                      /\ copyQ'[i] = copyQ[i] /\ copyQ'[i + 1] = copyQ[i + 1]
    <2>0. copyQ'[i].op = "copy"
      BY <1>13 DEF IsCopy
    <2>1. CASE i \in 1 .. n
      <3>1. IsCopy(i) /\ copyQ'[i] = copyQ[i]
        BY <1>7, <2>0, <2>1 DEF IsCopy
      <3>2. i < n
        BY <2>1, <3>1 DEF CopyOrder, IsCopy, n
      <3>3. i + 1 \in 1 .. n
        BY <1>1, <2>1, <3>2
      <3>4. copyQ'[i + 1] = copyQ[i + 1]
        BY <1>7, <3>3
      <3>5. copyQ[i].buf = active /\ copyQ[i].step = cohort /\ host'[copyQ[i].phase] = cohort
        BY <2>1, <3>1 DEF CopiesOfCohort, n
      <3> QED
        BY <2>1, <3>1, <3>4, <3>5
    <2>2. CASE i = n + w + 1
      <3>1. copyQ'[i] = CopyOp(phase) /\ copyQ'[i + 1] = CopiedOp
        <4>1. i + 1 = n + w + 2
          BY <1>1, <2>2
        <4> QED
          BY <1>7, <2>2, <4>1
      <3> QED
        BY <1>9, <3>1
    <2> QED
      BY <1>7, <1>8, <1>9, <2>0, <2>1, <2>2
  <1>14. CopiesOfCohort'
    BY <1>13 DEF CopiesOfCohort
  <1>18. F \subseteq Fields
    BY DEF FieldsOf, Fields, Phases
  <1>21. Arriving' = F \cup Arriving
    <2>1. ASSUME NEW f \in F
          PROVE  f \in Arriving'
      <3>1. n + w + 1 \in 1 .. Len(copyQ') /\ f \in Fields
        BY <1>1, <1>7, <1>18
      <3>2. copyQ'[n + w + 1].op = "copy" /\ f \in FieldsOf(copyQ'[n + w + 1].phase)
        BY <1>7, <1>9
      <3> QED
        BY <3>1, <3>2 DEF Arriving, IsCopy
    <2>2. ASSUME NEW f \in Arriving
          PROVE  f \in Arriving'
      <3>1. PICK i \in 1 .. n : IsCopy(i) /\ f \in FieldsOf(copyQ[i].phase)
        BY DEF Arriving, n
      <3>2. f \in Fields /\ i \in 1 .. Len(copyQ') /\ copyQ'[i] = copyQ[i]
        BY <1>7, <1>11 DEF Arriving
      <3> QED
        BY <3>1, <3>2 DEF Arriving, IsCopy
    <2>3. ASSUME NEW f \in Arriving', f \notin F
          PROVE  f \in Arriving
      <3>1. PICK i \in 1 .. Len(copyQ') : IsCopy(i)' /\ f \in FieldsOf(copyQ'[i].phase)
        BY DEF Arriving
      <3>2. i \in 1 .. n /\ IsCopy(i) /\ copyQ'[i].phase = copyQ[i].phase /\ f \in Fields
        BY <1>13, <2>3, <3>1 DEF Arriving
      <3> QED
        BY <3>1, <3>2 DEF Arriving, n
    <2> QED
      BY <2>1, <2>2, <2>3
  <1>22. Arrived' = Put(F, active, cohort, Arrived)
    <2>1. Memory' = Memory /\ Memory \in Memories
      BY DEF Memory, TypesInv
    <2>2. Arrived' = Put(F \cup Arriving, active, cohort, Memory)
      BY <1>21, <2>1 DEF Arrived
    <2> HIDE DEF F
    <2>3. Put(F, active, cohort, Put(Arriving, active, cohort, Memory))
            = Put(F \cup Arriving, active, cohort, Memory)
      BY <1>1, <2>1, PutPut
    <2> QED
      BY <2>2, <2>3 DEF Arrived
  <1> QED
    BY <1>12, <1>13, <1>14, <1>22 DEF n

\* A transfer adds one copy of its phase, and the compute stream waits for it.
LEMMA TransferStreams ==
  ASSUME TypesInv, CopiesInv, RecordsInv, NEW phase \in Phases, Transferred(phase),
         UNCHANGED <<active, cohort, dev, snapshot, static, pieces, results>>, cohort = step,
         host'[phase] = cohort, \A i \in 1 .. Len(copyQ) : IsCopy(i) => host'[copyQ[i].phase] = cohort,
         pc' \notin {"deviceWait", "decode", "packed"},
         ClearIn(computeQ, active, phase),
         NEW a \in Memories, Runs(computeQ, Arrived, a),
         \A b \in Buffers : b # active => ReleasedIn(computeQ, b, valid)
  PROVE  /\ CopiesInv' /\ RecordsInv' /\ computeQ' \in Seq(ComputeOps)
         /\ \A b \in Buffers : b # active => ReleasedIn(computeQ', b, valid')
         /\ Put(FieldsOf(phase), active, cohort, a) \in Memories
         /\ Runs(computeQ', Arrived', Put(FieldsOf(phase), active, cohort, a))
         /\ \A i \in 1 .. Len(copyQ') :
              IsCopy(i)' => \/ copyQ'[i].phase = phase
                            \/ i \in 1 .. Len(copyQ) /\ IsCopy(i) /\ copyQ'[i].phase = copyQ[i].phase
         /\ \A p \in Phases : ClearIn(computeQ, active, p) => ClearIn(computeQ', active, p)
  <1> DEFINE W == WaitOp("copied", recorded["copied"] + 1)
  <1>1. /\ active \in Buffers /\ step \in Nat /\ recorded \in [Events -> Nat]
        /\ reached \in [Events -> Nat] /\ reached["copied"] <= recorded["copied"]
        /\ copyQ \in Seq(TransferOps) /\ computeQ \in Seq(ComputeOps)
        /\ recorded["copied"] \in Nat /\ reached["copied"] \in Nat /\ cohort \in Nat
    BY RuntimeAssumption DEF TypesInv, Events
  <1>2. /\ computeQ' = computeQ \o <<W>> /\ reached' = reached /\ valid' = valid
        /\ recorded' = [recorded EXCEPT !["copied"] = @ + 1]
    BY DEF Transferred, TransferCompute
  <1>3. W \in WaitOps /\ W.op = "wait" /\ W.count = recorded["copied"] + 1
    BY <1>1 DEF WaitOp, WaitOps
  <1>4. W \in ComputeOps
    BY <1>3 DEF ComputeOps
  <1> HIDE DEF W
  <1>5. computeQ' = Append(computeQ, W)
    BY <1>1, <1>2, <1>4, AppendingSeveral
  <1>6. /\ recorded' \in [Events -> Nat] /\ recorded'["copied"] = recorded["copied"] + 1
        /\ \A e \in {"consumed0", "consumed1"} : recorded'[e] = recorded[e]
    BY <1>1, <1>2 DEF Events
  <1>10. \A o : o = W => o.op # "copy" /\ \A b \in Buffers : \A p \in Phases : ~Touches(o, b, p)
    BY <1>3 DEF Touches, Readers
  <1>11. CopyOrder(copyQ, reached["copied"], recorded["copied"]) /\ CopiesOfCohort
    BY DEF CopiesInv, CopyOfCohort, CopiesOfCohort
  <1>12. /\ CopyOrder(copyQ', reached'["copied"], recorded'["copied"]) /\ CopiesOfCohort'
         /\ \A i \in 1 .. Len(copyQ') :
              IsCopy(i)' => \/ copyQ'[i].phase = phase /\ copyQ'[i + 1].count = recorded["copied"] + 1
                            \/ /\ i \in 1 .. Len(copyQ) /\ IsCopy(i)
                               /\ copyQ'[i] = copyQ[i] /\ copyQ'[i + 1] = copyQ[i + 1]
         /\ Arrived' = Put(FieldsOf(phase), active, cohort, Arrived)
    BY <1>11, TransferCopies
  <1>13. ASSUME NEW i \in 1 .. Len(copyQ'), IsCopy(i)'
         PROVE  CopyOfCohort(i)'
    <2>1. CASE copyQ'[i].phase = phase /\ copyQ'[i + 1].count = recorded["copied"] + 1
      <3>1. GuardedIn(computeQ', active, phase, W.count)
        BY <1>1, <1>3, <1>5, GuardedByWait
      <3> QED
        BY <1>3, <1>12, <1>13, <2>1, <3>1 DEF CopyOfCohort, CopiesOfCohort
    <2>2. CASE /\ i \in 1 .. Len(copyQ) /\ IsCopy(i)
               /\ copyQ'[i] = copyQ[i] /\ copyQ'[i + 1] = copyQ[i + 1]
      <3>1. GuardedIn(computeQ, active, copyQ[i].phase, copyQ[i + 1].count)
        BY <2>2 DEF CopiesInv, CopyOfCohort
      <3>2. GuardedIn(computeQ', active, copyQ[i].phase, copyQ[i + 1].count)
        BY <1>1, <1>4, <1>5, <3>1, GuardedOn
      <3> QED
        BY <1>12, <1>13, <2>2, <3>2 DEF CopyOfCohort, CopiesOfCohort
    <2> QED
      BY <1>12, <1>13, <2>1, <2>2
  <1>14. CopiesInv'
    BY <1>12, <1>13 DEF CopiesInv
  <1>15. RecordsInv'
    <2>1. RecordsIn(computeQ', reached, recorded)
      BY <1>1, <1>3, <1>4, <1>5, RecordsOn DEF RecordsInv
    <2>2. computeQ' \in Seq(ComputeOps)
      BY <1>1, <1>4, <1>5
    <2>3. \A e \in {"consumed0", "consumed1"} : reached'[e] = reached[e] /\ recorded'[e] = recorded[e]
      BY <1>2, <1>6
    <2> DEFINE q == computeQ'
               at == reached'
               last == recorded'
    <2> HIDE DEF q, at, last
    <2>4. q \in Seq(ComputeOps) /\ RecordsIn(q, reached, recorded)
      BY <2>1, <2>2 DEF q
    <2>5. \A e \in {"consumed0", "consumed1"} : at[e] = reached[e] /\ last[e] = recorded[e]
      BY <2>3 DEF at, last
    <2>6. RecordsIn(q, at, last)
      BY <2>4, <2>5, RecordsAgree
    <2> QED
      BY <2>6 DEF RecordsInv, q, at, last
  <1>16. \A b \in Buffers : b # active => ReleasedIn(computeQ', b, valid')
    BY <1>1, <1>2, <1>4, <1>5, <1>10, ReleasedOn
  <1>17. \A p \in Phases : ClearIn(computeQ, active, p) => ClearIn(computeQ', active, p)
    BY <1>1, <1>4, <1>5, <1>10, ClearOn
  <1> DEFINE F == FieldsOf(phase)
             b == Put(F, active, cohort, a)
  <1>18. Closed(F) /\ F \cap Phases = {phase}
    BY DEF FieldsOf, Closed, Fields, Phases
  <1>19. Runs(computeQ', Arrived, a)
    <2>1. Arrived \in Memories
      BY ArrivedTyped
    <2>2. Right(W, a)
      BY <1>3 DEF Right, Readers
    <2>3. /\ DevAfter(W, a) = a.dev /\ SnapshotAfter(W, a) = a.snapshot
          /\ StaticAfter(W, a) = a.static /\ PiecesAfter(W, a) = a.pieces
      BY <1>3 DEF DevAfter, SnapshotAfter, StaticAfter, PiecesAfter
    <2>4. ResultsAfter(W, a) = a.results
      <3>1. ResultsAfter(W, a) = [f \in Logits |-> a.results[f]]
        BY <1>3 DEF ResultsAfter
      <3>2. a.results \in [Logits -> Nat]
        BY DEF Memories
      <3> QED
        BY <3>1, <3>2
    <2>5. a = [dev |-> a.dev, snapshot |-> a.snapshot, static |-> a.static,
               pieces |-> a.pieces, results |-> a.results]
      BY DEF Memories
    <2>6. After(W, a) = a
      BY <2>3, <2>4, <2>5 DEF After
    <2> QED
      BY <1>1, <1>4, <1>5, <2>1, <2>2, <2>6, RunsOn
  <1>20. Runs(computeQ', Put(F, active, cohort, Arrived), b) /\ b \in Memories
    <2>1. computeQ' \in Seq(ComputeOps) /\ Arrived \in Memories
      BY <1>1, <1>4, <1>5, ArrivedTyped
    <2>2. \A k \in 1 .. Len(computeQ') : Untouched(computeQ'[k], active, F)
      BY <1>17, <1>18 DEF Untouched, ClearIn
    <2> HIDE DEF F
    <2> QED
      BY <1>1, <1>18, <1>19, <2>1, <2>2, RunsPut
  <1> QED
    BY <1>1, <1>4, <1>5, <1>13, <1>14, <1>15, <1>12, <1>16, <1>17, <1>20

\* What the CPU thread counts on after a transfer, the rows of its phase apart.
LEMMA TransferReady ==
  ASSUME IInv, NEW phase \in Phases, UNCHANGED <<active, cohort, signature, captured>>,
         version' = IF phase = "decode" THEN [version EXCEPT ![active] = @ + 1] ELSE version,
         NEW a \in Memories, Ready(a),
         NEW b, b = Put(FieldsOf(phase), active, cohort, a)
  PROVE  /\ CaptureReady(b)' /\ TablesReady(b)'
         /\ b.snapshot = a.snapshot /\ b.results = a.results
         /\ \A f \in Fields :
              b.dev[active][f] = IF f \in FieldsOf(phase) THEN cohort ELSE a.dev[active][f]
  <1>1. active \in Buffers /\ cohort \in Nat /\ version \in [Buffers -> Nat]
    BY DEF IInv, TypesInv
  <1>2. /\ b.snapshot = a.snapshot /\ b.static = a.static /\ b.pieces = a.pieces
        /\ b.results = a.results
    BY <1>1, PutFields
  <1>3. \A d \in Buffers : \A f \in Fields :
          b.dev[d][f] = IF d = active /\ f \in FieldsOf(phase) THEN cohort ELSE a.dev[d][f]
    BY <1>1, PutField
  <1>4. CaptureReady(b)'
    BY <1>2 DEF Ready, CaptureReady
  <1>5. ASSUME NEW u \in Buckets, NEW d \in Buffers,
               signature[u] = <<"buffer", d, version'[d]>>
        PROVE  b.static[u].table = b.dev[d]["table"]
    <2>1. ~(d = active /\ phase = "decode")
      <3>1. SUFFICES ASSUME d = active, phase = "decode" PROVE FALSE
        OBVIOUS
      <3>2. version'[d] = version[d] + 1 /\ version[d] + 1 \in Nat /\ version[d] \in Nat
        BY <1>1, <3>1
      <3>3. signature[u] = <<"buffer", d, version[d] + 1>>
        BY <1>5, <3>2
      <3>4. version[d] + 1 <= version[d]
        BY <3>2, <3>3 DEF IInv, SignatureInv
      <3> QED
        BY <3>2, <3>4
    <2>2. version'[d] = version[d]
      BY <1>1, <2>1
    <2>3. a.static[u].table = a.dev[d]["table"]
      BY <1>5, <2>2 DEF Ready, TablesReady
    <2>4. ~(d = active /\ "table" \in FieldsOf(phase)) /\ "table" \in Fields
      BY <2>1 DEF FieldsOf, Fields, Phases
    <2> QED
      BY <1>2, <1>3, <2>3, <2>4
  <1>6. TablesReady(b)'
    BY <1>5 DEF TablesReady
  <1> QED
    BY <1>1, <1>2, <1>3, <1>4, <1>6

\* Building a phase and transferring it, given that the buffers are free.
LEMMA BuildStreams ==
  ASSUME IInv, NEW phase \in Phases, Transferred(phase), Clear(phase), cohort = step,
         UNCHANGED <<active, cohort, dev, snapshot, static, pieces, results, signature, captured,
                     plan>>,
         version' = IF phase = "decode" THEN [version EXCEPT ![active] = @ + 1] ELSE version,
         host'[phase] = cohort,
         \A i \in 1 .. Len(copyQ) : IsCopy(i) => host'[copyQ[i].phase] = cohort,
         pc' \in {"decodeCall", "prefillCall", "packedCall"},
         pc' = "decodeCall" => phase = "decode" /\ Clear("prefill"),
         \A a \in Memories : \A b \in Memories :
            /\ Ready(a)
            /\ b.snapshot = a.snapshot /\ b.results = a.results
            /\ \A f \in Fields :
                 b.dev[active][f] = IF f \in FieldsOf(phase) THEN cohort ELSE a.dev[active][f]
            => RowsReady(b)'
  PROVE  StreamParts'
  <1>1. PICK a \in Memories : QueueOk(computeQ, recorded, valid, StillClear, a) /\ Ready(a)
    BY QueueNow
  <1>2. TypesInv /\ CopiesInv /\ RecordsInv /\ ClearIn(computeQ, active, phase)
    BY DEF IInv, Clear
  <1>3. Runs(computeQ, Arrived, a) /\ \A b \in Buffers : b # active => ReleasedIn(computeQ, b, valid)
    BY <1>1 DEF QueueOk
  <1>4. pc' \notin {"deviceWait", "decode", "packed"}
    OBVIOUS
  <1>5. /\ CopiesInv' /\ RecordsInv' /\ computeQ' \in Seq(ComputeOps)
        /\ \A b \in Buffers : b # active => ReleasedIn(computeQ', b, valid')
        /\ Put(FieldsOf(phase), active, cohort, a) \in Memories
        /\ Runs(computeQ', Arrived', Put(FieldsOf(phase), active, cohort, a))
        /\ \A i \in 1 .. Len(copyQ') :
             IsCopy(i)' => \/ copyQ'[i].phase = phase
                           \/ i \in 1 .. Len(copyQ) /\ IsCopy(i) /\ copyQ'[i].phase = copyQ[i].phase
        /\ \A p \in Phases : ClearIn(computeQ, active, p) => ClearIn(computeQ', active, p)
    BY <1>1, <1>2, <1>3, <1>4, TransferStreams
  <1>6. PICK b \in Memories : b = Put(FieldsOf(phase), active, cohort, a)
    BY <1>5
  <1>7. /\ CaptureReady(b)' /\ TablesReady(b)'
        /\ b.snapshot = a.snapshot /\ b.results = a.results
        /\ \A f \in Fields :
             b.dev[active][f] = IF f \in FieldsOf(phase) THEN cohort ELSE a.dev[active][f]
    BY <1>1, <1>6, TransferReady
  <1>8. RowsReady(b)'
    BY <1>1, <1>7
  <1>9. Runs(computeQ', Arrived', b)
    BY <1>5, <1>6
  <1>10. StreamsInv'
    BY <1>7, <1>8, <1>9 DEF StreamsInv, Ready
  <1>11. pc' = "decodeCall" => Clear("prefill")'
    <2>1. SUFFICES ASSUME pc' = "decodeCall" PROVE Clear("prefill")'
      OBVIOUS
    <2>2. /\ \A i \in 1 .. Len(copyQ) : IsCopy(i) => copyQ[i].phase # "prefill"
          /\ ClearIn(computeQ, active, "prefill") /\ phase = "decode"
      BY <2>1 DEF Clear
    <2>3. \A i \in 1 .. Len(copyQ') : IsCopy(i)' => copyQ'[i].phase # "prefill"
      BY <1>5, <2>2
    <2>4. ClearIn(computeQ', active, "prefill")
      BY <1>5, <2>2 DEF Phases
    <2> QED
      BY <2>3, <2>4 DEF Clear
  <1>12. BuffersInv'
    BY <1>5, <1>11 DEF BuffersInv, Released
  <1> QED
    BY <1>5, <1>10, <1>12 DEF StreamParts

\* Building the decode phase keeps the streams right ...
LEMMA BuildDecodeStreams ==
  ASSUME IInv, BuildDecode
  PROVE  StreamParts'
  <1>1. /\ Transferred("decode") /\ copyQ = <<>> /\ cohort = step
        /\ Clear("decode") /\ Clear("prefill") /\ host \in [Phases -> Nat]
    BY DEF BuildDecode, IInv, CopiesInv, PlanInv, BuffersInv, TypesInv
  <1>2. /\ UNCHANGED <<active, cohort, dev, snapshot, static, pieces, results, signature, captured,
                       plan, step>>
        /\ version' = [version EXCEPT ![active] = @ + 1] /\ pc' = "decodeCall"
    BY DEF BuildDecode
  <1>3. host'["decode"] = cohort
    BY <1>1 DEF BuildDecode, Phases
  <1>4. \A i \in 1 .. Len(copyQ) : IsCopy(i) => host'[copyQ[i].phase] = cohort
    BY <1>1
  <1>5. ASSUME NEW b \in Memories,
               \A f \in Fields : f \in FieldsOf("decode") => b.dev[active][f] = cohort
        PROVE  RowsReady(b)'
    <2>1. b.dev[active]["decode"] = cohort /\ b.dev[active]["table"] = cohort
      BY <1>5 DEF Fields, FieldsOf
    <2> QED
      BY <1>1, <1>2, <2>1 DEF RowsReady
  <1>6. "decode" \in Phases
    BY DEF Phases
  <1> QED
    BY <1>1, <1>2, <1>3, <1>4, <1>5, <1>6, BuildStreams

\* ... as does building the prefill phase, also behind a copy of decode rows ...
LEMMA BuildPrefillStreams ==
  ASSUME IInv, BuildPrefill
  PROVE  StreamParts'
  <1>1. /\ Transferred("prefill") /\ cohort = step /\ pc = "prefill"
        /\ Clear("prefill") /\ host \in [Phases -> Nat] /\ TypesInv
    BY DEF BuildPrefill, IInv, PlanInv, BuffersInv, TypesInv
  <1>2. /\ UNCHANGED <<active, cohort, dev, snapshot, static, pieces, results, signature, captured,
                       plan, step, version, pending>>
        /\ pc' = "prefillCall" /\ host' = [host EXCEPT !["prefill"] = step]
    BY DEF BuildPrefill, adapterVars
  <1>3. host'["prefill"] = cohort
    BY <1>1, <1>2 DEF Phases
  <1>4. ASSUME NEW i \in 1 .. Len(copyQ), IsCopy(i)
        PROVE  host'[copyQ[i].phase] = cohort
    <2>1. copyQ[i] \in TransferOps
      BY <1>1 DEF TypesInv
    <2>2. copyQ[i].phase \in Phases
      BY <1>4, <2>1, KindsOfTransfers DEF IsCopy
    <2>3. host[copyQ[i].phase] = cohort
      BY <1>4 DEF IInv, CopiesInv, CopyOfCohort
    <2> QED
      BY <1>1, <1>2, <2>2, <2>3
  <1>5. ASSUME NEW a \in Memories, NEW b \in Memories, Ready(a),
               b.snapshot = a.snapshot, b.results = a.results,
               \A f \in Fields :
                 b.dev[active][f] = IF f \in FieldsOf("prefill") THEN cohort ELSE a.dev[active][f]
        PROVE  RowsReady(b)'
    <2>1. /\ b.dev[active]["prefill"] = cohort
          /\ b.dev[active]["decode"] = a.dev[active]["decode"]
          /\ b.dev[active]["table"] = a.dev[active]["table"]
      BY <1>5 DEF Fields, FieldsOf
    <2>2. RowsReady(a)
      BY <1>5 DEF Ready
    <2> QED
      BY <1>1, <1>2, <1>5, <2>1, <2>2 DEF RowsReady, DecodeRowsThere
  <1>6. "prefill" \in Phases /\ "prefill" # "decode"
    BY DEF Phases
  <1> QED
    BY <1>1, <1>2, <1>3, <1>4, <1>5, <1>6, BuildStreams

\* ... and building the packed phase.
LEMMA BuildMixedStreams ==
  ASSUME IInv, BuildMixed
  PROVE  StreamParts'
  <1>1. /\ Transferred("mixed") /\ copyQ = <<>> /\ cohort = step
        /\ Clear("mixed") /\ host \in [Phases -> Nat]
    BY DEF BuildMixed, IInv, CopiesInv, PlanInv, BuffersInv, TypesInv
  <1>2. /\ UNCHANGED <<active, cohort, dev, snapshot, static, pieces, results, signature, captured,
                       plan, step, version>>
        /\ pc' = "packedCall"
    BY DEF BuildMixed, adapterVars
  <1>3. host'["mixed"] = cohort
    BY <1>1 DEF BuildMixed, Phases
  <1>4. \A i \in 1 .. Len(copyQ) : IsCopy(i) => host'[copyQ[i].phase] = cohort
    BY <1>1
  <1>5. ASSUME NEW b \in Memories,
               \A f \in Fields : f \in FieldsOf("mixed") => b.dev[active][f] = cohort
        PROVE  RowsReady(b)'
    <2>1. b.dev[active]["mixed"] = cohort
      BY <1>5 DEF Fields, FieldsOf
    <2> QED
      BY <1>1, <1>2, <2>1 DEF RowsReady, DecodeRowsThere
  <1>6. "mixed" \in Phases /\ "mixed" # "decode"
    BY DEF Phases
  <1> QED
    BY <1>1, <1>2, <1>3, <1>4, <1>5, <1>6, BuildStreams

-----------------------------------------------------------------------------
(* The streams execute *)

\* The phases under way are those of the copies, with the table of decode rows.
LEMMA ArrivingPhases ==
  ASSUME TypesInv
  PROVE  /\ Closed(Arriving)
         /\ \A p \in Arriving \cap Phases :
              \E i \in 1 .. Len(copyQ) : IsCopy(i) /\ copyQ[i].phase = p
  <1>1. \A i \in 1 .. Len(copyQ) : IsCopy(i) => copyQ[i].phase \in Phases
    <2>1. \A i \in 1 .. Len(copyQ) : copyQ[i] \in TransferOps
      BY DEF TypesInv
    <2> QED
      BY <2>1, KindsOfTransfers DEF IsCopy
  <1>2. Closed(Arriving)
    <2>1. \A p \in Phases : "decode" \in FieldsOf(p) <=> "table" \in FieldsOf(p)
      BY DEF FieldsOf, Phases
    <2>2. Arriving \subseteq Fields /\ "decode" \in Fields /\ "table" \in Fields
      BY DEF Arriving, Fields
    <2>3. "decode" \in Arriving <=> "table" \in Arriving
      BY <1>1, <2>1, <2>2 DEF Arriving
    <2> QED
      BY <2>2, <2>3 DEF Closed
  <1>3. ASSUME NEW p \in Arriving, p \in Phases
        PROVE  \E i \in 1 .. Len(copyQ) : IsCopy(i) /\ copyQ[i].phase = p
    <2>1. PICK i \in 1 .. Len(copyQ) : IsCopy(i) /\ p \in FieldsOf(copyQ[i].phase)
      BY DEF Arriving
    <2>2. p = copyQ[i].phase
      BY <1>3, <2>1 DEF FieldsOf, Phases
    <2> QED
      BY <2>1, <2>2
  <1> QED
    BY <1>2, <1>3

\* The compute stream has not reached an operation that touches what is copied.
LEMMA HeadUntouched ==
  ASSUME IInv, computeQ # <<>>
  PROVE  Closed(Arriving) /\ Untouched(Head(computeQ), active, Arriving)
  <1>1. TypesInv /\ CopiesInv /\ computeQ \in Seq(ComputeOps) /\ copyQ \in Seq(TransferOps)
    BY DEF IInv, TypesInv
  <1>2. Closed(Arriving)
    BY <1>1, ArrivingPhases
  <1>3. ASSUME NEW p \in Arriving \cap Phases
        PROVE  ~Touches(Head(computeQ), active, p)
    <2>1. PICK i \in 1 .. Len(copyQ) : IsCopy(i) /\ copyQ[i].phase = p
      BY <1>1, ArrivingPhases
    <2>2. GuardedIn(computeQ, active, p, copyQ[i + 1].count)
      BY <1>1, <2>1 DEF CopiesInv, CopyOfCohort
    <2>3. i + 1 \in 1 .. Len(copyQ) /\ copyQ[i + 1].op = "record"
      BY <1>1, <2>1 DEF CopiesInv, CopyOrder, IsCopy
    <2>4. copyQ[i + 1] \in TransferOps
      BY <1>1, <2>3
    <2>5. copyQ[i + 1].count \in Nat
      BY <2>3, <2>4, KindsOfTransfers
    <2> QED
      BY <1>1, <2>2, <2>5, GuardedOff
  <1> QED
    BY <1>2, <1>3 DEF Untouched

\* The copies keep their order when the first operation has been executed.
LEMMA CopyOrderOff ==
  ASSUME NEW c \in Seq(TransferOps), c # <<>>, NEW at \in Nat, NEW last, CopyOrder(c, at, last)
  PROVE  CopyOrder(Tail(c), IF Head(c).op = "record" THEN Head(c).count ELSE at, last)
  <1> DEFINE t == Tail(c)
             new == IF Head(c).op = "record" THEN Head(c).count ELSE at
  <1>1. /\ t \in Seq(TransferOps) /\ Len(c) \in Nat /\ Len(c) >= 1 /\ 1 \in 1 .. Len(c)
        /\ Head(c) = c[1] /\ Len(t) = Len(c) - 1
        /\ \A k \in 1 .. Len(t) : t[k] = c[k + 1] /\ k + 1 \in 1 .. Len(c)
    BY Popping
  <1> HIDE DEF t
  <1>2. ASSUME NEW i \in 1 .. Len(t), t[i].op = "record"
        PROVE  /\ new < t[i].count /\ t[i].count <= last
               /\ \A j \in 1 .. i - 1 : t[j].op = "record" => t[j].count < t[i].count
    <2>1. t[i] = c[i + 1] /\ i + 1 \in 1 .. Len(c) /\ 1 \in 1 .. (i + 1) - 1
      BY <1>1
    <2>2. /\ at < c[i + 1].count /\ c[i + 1].count <= last
          /\ \A j \in 1 .. (i + 1) - 1 : c[j].op = "record" => c[j].count < c[i + 1].count
      BY <1>2, <2>1 DEF CopyOrder
    <2>3. \A j \in 1 .. i - 1 : t[j] = c[j + 1] /\ j + 1 \in 1 .. (i + 1) - 1
      BY <1>1
    <2>4. new < c[i + 1].count
      BY <1>1, <2>1, <2>2
    <2> QED
      BY <2>1, <2>2, <2>3, <2>4
  <1>3. ASSUME NEW i \in 1 .. Len(t), t[i].op = "copy"
        PROVE  i < Len(t) /\ t[i + 1].op = "record"
    <2>1. t[i] = c[i + 1] /\ i + 1 \in 1 .. Len(c)
      BY <1>1
    <2>2. i + 1 < Len(c) /\ c[(i + 1) + 1].op = "record"
      BY <1>3, <2>1 DEF CopyOrder
    <2>3. i < Len(t) /\ i + 1 \in 1 .. Len(t)
      BY <1>1, <2>2
    <2>4. t[i + 1] = c[(i + 1) + 1]
      BY <1>1, <2>3
    <2> QED
      BY <2>2, <2>3, <2>4
  <1>4. ASSUME t # <<>>
        PROVE  t[Len(t)].op = "record"
    <2>1. Len(t) \in 1 .. Len(t)
      BY <1>1, <1>4
    <2>2. t[Len(t)] = c[Len(c)]
      BY <1>1, <2>1
    <2> QED
      BY <1>1, <2>2 DEF CopyOrder
  <1> HIDE DEF new
  <1>5. CopyOrder(t, new, last)
    BY <1>2, <1>3, <1>4 DEF CopyOrder
  <1> QED
    BY <1>5 DEF t, new

\* A copy fills its fields with the step of the cohort.
LEMMA CopyPuts ==
  ASSUME TypesInv, NEW o, o.op = "copy", o.phase \in Phases, o.buf = active,
         host[o.phase] = cohort,
         dev' = Copied(o), UNCHANGED <<snapshot, static, pieces, results>>
  PROVE  Memory' = Put(FieldsOf(o.phase), active, cohort, Memory)
  <1>1. Memory \in Memories /\ dev \in [Buffers -> [Fields -> Nat]] /\ active \in Buffers
        /\ cohort \in Nat
    BY DEF TypesInv, Memory, Memories
  <1>2. \A f \in Fields : (f = o.phase \/ (f = "table" /\ o.phase = "decode"))
                             <=> f \in FieldsOf(o.phase)
    BY DEF FieldsOf, Fields, Phases
  <1> DEFINE row == [f \in Fields |-> IF f = o.phase \/ (f = "table" /\ o.phase = "decode")
                                      THEN host[o.phase] ELSE dev[o.buf][f]]
  <1>3. row = [f \in Fields |-> IF f \in FieldsOf(o.phase) THEN cohort ELSE dev[active][f]]
    BY <1>2
  <1>4. Copied(o) = [dev EXCEPT ![active] = row]
    BY DEF Copied
  <1> HIDE DEF row
  <1>5. Copied(o) = [e \in Buffers |-> IF e = active THEN row ELSE dev[e]]
    BY <1>1, <1>4
  <1>6. \A e \in Buffers : dev[e] = [f \in Fields |-> dev[e][f]]
    BY <1>1
  <1>7. Copied(o) = PutDev(FieldsOf(o.phase), active, cohort, dev)
    <2>1. \A e \in Buffers :
            (IF e = active THEN row ELSE dev[e])
              = [f \in Fields |-> IF e = active /\ f \in FieldsOf(o.phase) THEN cohort ELSE dev[e][f]]
      <3>1. ASSUME NEW e \in Buffers, e = active
            PROVE  row = [f \in Fields |-> IF e = active /\ f \in FieldsOf(o.phase)
                                           THEN cohort ELSE dev[e][f]]
        BY <1>3, <3>1
      <3>2. ASSUME NEW e \in Buffers, e # active
            PROVE  dev[e] = [f \in Fields |-> IF e = active /\ f \in FieldsOf(o.phase)
                                              THEN cohort ELSE dev[e][f]]
        BY <1>6, <3>2
      <3> QED
        BY <3>1, <3>2
    <2> QED
      BY <1>5, <2>1 DEF PutDev
  <1>8. /\ Memory.dev = dev /\ Memory.snapshot = snapshot /\ Memory.static = static
        /\ Memory.pieces = pieces /\ Memory.results = results
    BY DEF Memory
  <1>9. Put(FieldsOf(o.phase), active, cohort, Memory)
          = [dev |-> PutDev(FieldsOf(o.phase), active, cohort, dev), snapshot |-> snapshot,
             static |-> static, pieces |-> pieces, results |-> results]
    BY <1>1, <1>8, PutFields
  <1> QED
    BY <1>7, <1>9 DEF Memory

\* A step of the copy stream: what has arrived was counted as arriving.
LEMMA CopyStepArrives ==
  ASSUME TypesInv, CopyOrder(copyQ, reached["copied"], recorded["copied"]), CopiesOfCohort, CopyStep
  PROVE  /\ CopyOrder(copyQ', reached'["copied"], recorded'["copied"]) /\ CopiesOfCohort'
         /\ \A i \in 1 .. Len(copyQ') :
              IsCopy(i)' => /\ i + 1 \in 1 .. Len(copyQ) /\ IsCopy(i + 1)
                            /\ copyQ'[i] = copyQ[i + 1] /\ copyQ'[i + 1] = copyQ[(i + 1) + 1]
         /\ \A e \in {"consumed0", "consumed1"} : reached'[e] = reached[e] /\ recorded'[e] = recorded[e]
         /\ Arrived' = Arrived
  <1> DEFINE o == Head(copyQ)
             t == Tail(copyQ)
  <1>1. /\ copyQ # <<>> /\ copyQ \in Seq(TransferOps)
        /\ reached \in [Events -> Nat] /\ cohort \in Nat
        /\ Memory \in Memories /\ reached["copied"] \in Nat
    BY DEF TypesInv, CopyStep, Events
  <1>2. /\ o \in TransferOps /\ t \in Seq(TransferOps) /\ Len(copyQ) \in Nat
        /\ o = copyQ[1] /\ 1 \in 1 .. Len(copyQ) /\ Len(t) = Len(copyQ) - 1
        /\ \A k \in 1 .. Len(t) : t[k] = copyQ[k + 1] /\ k + 1 \in 1 .. Len(copyQ)
    BY <1>1, Popping
  <1>3. /\ copyQ' = t /\ UNCHANGED <<config, cpuVars, recorded, valid, computeQ, host, snapshot,
                                     static, pieces, results, adapterVars>>
        /\ reached' = PassedEvents(reached, o)
        /\ dev' = IF o.op = "copy" THEN Copied(o) ELSE dev
    BY DEF CopyStep
  <1> HIDE DEF o, t
  <1>4. reached'["copied"] = IF o.op = "record" THEN o.count ELSE reached["copied"]
    <2>1. o.op = "record" => o.event = "copied" /\ reached["copied"] < o.count
      BY <1>1, <1>2, KindsOfTransfers DEF CopyOrder
    <2> QED
      BY <1>1, <1>3, <2>1 DEF Events, PassedEvents
  <1>5. \A e \in {"consumed0", "consumed1"} : reached'[e] = reached[e] /\ recorded'[e] = recorded[e]
    BY <1>1, <1>2, <1>3, KindsOfTransfers DEF Events, PassedEvents
  <1>6. CopyOrder(copyQ', reached'["copied"], recorded'["copied"])
    <2>2. CopyOrder(t, IF o.op = "record" THEN o.count ELSE reached["copied"], recorded["copied"])
      BY <1>1, CopyOrderOff DEF o, t
    <2> QED
      BY <1>3, <1>4, <2>2
  <1>7. ASSUME NEW i \in 1 .. Len(copyQ'), IsCopy(i)'
        PROVE  /\ i + 1 \in 1 .. Len(copyQ) /\ IsCopy(i + 1)
               /\ copyQ'[i] = copyQ[i + 1] /\ copyQ'[i + 1] = copyQ[(i + 1) + 1]
    <2>1. copyQ'[i] = copyQ[i + 1] /\ i + 1 \in 1 .. Len(copyQ) /\ IsCopy(i + 1)
      BY <1>2, <1>3, <1>7 DEF IsCopy
    <2>2. i < Len(copyQ')
      BY <1>6, <1>7 DEF CopyOrder, IsCopy
    <2>3. i + 1 \in 1 .. Len(copyQ')
      BY <1>2, <1>3, <2>2
    <2>4. copyQ'[i + 1] = copyQ[(i + 1) + 1]
      BY <1>2, <1>3, <2>3
    <2> QED
      BY <2>1, <2>4
  <1>8. CopiesOfCohort'
    BY <1>3, <1>7 DEF CopiesOfCohort, cpuVars
  <1>12. Arrived' = Arrived
    <2>1. \A i \in 1 .. Len(t) : i + 1 \in 1 .. Len(copyQ)
      BY <1>2
    <2>2. \A i \in 1 .. Len(copyQ) : i = 1 \/ (i - 1 \in 1 .. Len(t) /\ t[i - 1] = copyQ[i])
      BY <1>2
    <2>3. Arriving' = {f \in Fields : \E i \in 1 .. Len(t) : t[i].op = "copy" /\ f \in FieldsOf(t[i].phase)}
      BY <1>3 DEF Arriving, IsCopy
    <2>4. Arriving = {f \in Fields : \E i \in 1 .. Len(copyQ) :
                                       copyQ[i].op = "copy" /\ f \in FieldsOf(copyQ[i].phase)}
      BY DEF Arriving, IsCopy
    <2>5. Arriving = Arriving' \cup {f \in Fields : o.op = "copy" /\ f \in FieldsOf(o.phase)}
      BY <1>2, <2>2, <2>3, <2>4
    <2>6. active' = active /\ cohort' = cohort
      BY <1>3 DEF cpuVars
    <2>7. CASE o.op # "copy"
      <3>1. Memory' = Memory
        BY <1>3, <2>7 DEF Memory
      <3>2. Arriving' = Arriving
        BY <2>5, <2>7
      <3> QED
        BY <2>6, <3>1, <3>2 DEF Arrived
    <2>8. CASE o.op = "copy"
      <3>1. o.buf = active /\ host[o.phase] = cohort
        BY <1>2, <2>8 DEF CopiesOfCohort, IsCopy
      <3>2. o.phase \in Phases /\ o.buf = active /\ host[o.phase] = cohort
        BY <1>2, <2>8, <3>1, KindsOfTransfers
      <3>3. dev' = Copied(o) /\ UNCHANGED <<snapshot, static, pieces, results>>
        BY <1>3, <2>8
      <3>4. Memory' = Put(FieldsOf(o.phase), active, cohort, Memory)
        BY <1>1, <2>8, <3>2, <3>3, CopyPuts
      <3>5. FieldsOf(o.phase) \subseteq Fields
        BY <3>2 DEF FieldsOf, Fields, Phases
      <3>6. Arriving = Arriving' \cup FieldsOf(o.phase)
        BY <2>5, <2>8, <3>5
      <3> DEFINE A == Arriving'
                 F == FieldsOf(o.phase)
      <3>7. Arrived' = Put(A, active, cohort, Put(F, active, cohort, Memory))
        BY <2>6, <3>4 DEF Arrived
      <3>8. Arrived = Put(A \cup F, active, cohort, Memory)
        BY <3>6 DEF Arrived
      <3> HIDE DEF A, F
      <3>9. Put(A, active, cohort, Put(F, active, cohort, Memory))
              = Put(A \cup F, active, cohort, Memory)
        BY <1>1, PutPut
      <3> QED
        BY <3>7, <3>8, <3>9
    <2> QED
      BY <2>7, <2>8
  <1> QED
    BY <1>5, <1>6, <1>7, <1>8, <1>12

\* ... so what the streams find stays as it is.
LEMMA CopyStepStreams ==
  ASSUME IInv, CopyStep
  PROVE  StreamParts'
  <1> DEFINE o == Head(copyQ)
             t == Tail(copyQ)
  <1>1. /\ TypesInv /\ CopiesInv /\ RecordsInv /\ copyQ # <<>> /\ copyQ \in Seq(TransferOps)
        /\ computeQ \in Seq(ComputeOps) /\ reached \in [Events -> Nat] /\ cohort \in Nat
        /\ Memory \in Memories /\ reached["copied"] \in Nat
    BY DEF IInv, TypesInv, CopyStep, Events
  <1>2. /\ o \in TransferOps /\ t \in Seq(TransferOps) /\ Len(copyQ) \in Nat
        /\ o = copyQ[1] /\ 1 \in 1 .. Len(copyQ) /\ Len(t) = Len(copyQ) - 1
        /\ \A k \in 1 .. Len(t) : t[k] = copyQ[k + 1] /\ k + 1 \in 1 .. Len(copyQ)
    BY <1>1, Popping
  <1>3. /\ copyQ' = t /\ UNCHANGED <<config, cpuVars, recorded, valid, computeQ, host, snapshot,
                                     static, pieces, results, adapterVars>>
        /\ reached' = PassedEvents(reached, o)
        /\ dev' = IF o.op = "copy" THEN Copied(o) ELSE dev
    BY DEF CopyStep
  <1> HIDE DEF o, t
  <1>4. CopyOrder(copyQ, reached["copied"], recorded["copied"]) /\ CopiesOfCohort
    BY <1>1 DEF CopiesInv, CopyOfCohort, CopiesOfCohort
  <1>5. /\ CopyOrder(copyQ', reached'["copied"], recorded'["copied"]) /\ CopiesOfCohort'
        /\ \A i \in 1 .. Len(copyQ') :
             IsCopy(i)' => /\ i + 1 \in 1 .. Len(copyQ) /\ IsCopy(i + 1)
                           /\ copyQ'[i] = copyQ[i + 1] /\ copyQ'[i + 1] = copyQ[(i + 1) + 1]
        /\ \A e \in {"consumed0", "consumed1"} : reached'[e] = reached[e] /\ recorded'[e] = recorded[e]
        /\ Arrived' = Arrived
    BY <1>1, <1>4, CopyStepArrives
  <1>7. ASSUME NEW i \in 1 .. Len(copyQ'), IsCopy(i)'
        PROVE  /\ CopyOfCohort(i)'
               /\ i + 1 \in 1 .. Len(copyQ) /\ IsCopy(i + 1) /\ copyQ'[i] = copyQ[i + 1]
    <2>1. CopyOfCohort(i + 1)
      BY <1>1, <1>5, <1>7 DEF CopiesInv
    <2> QED
      BY <1>3, <1>5, <1>7, <2>1 DEF CopyOfCohort, cpuVars
  <1>8. CopiesInv'
    <2>1. pc' \notin {"deviceWait", "decode", "packed"}
      BY <1>1, <1>3 DEF CopiesInv, cpuVars
    <2> QED
      BY <1>5, <1>7, <2>1 DEF CopiesInv
  <1>9. RecordsInv'
    <2>1. RecordsIn(computeQ, reached, recorded)
      BY <1>1 DEF RecordsInv
    <2> DEFINE at == reached'
               last == recorded'
    <2>2. \A e \in {"consumed0", "consumed1"} : at[e] = reached[e] /\ last[e] = recorded[e]
      BY <1>5
    <2> HIDE DEF at, last
    <2>3. RecordsIn(computeQ, at, last)
      BY <1>1, <2>1, <2>2, RecordsAgree
    <2> QED
      BY <1>3, <2>3 DEF RecordsInv, at, last
  <1>10. \A phase : Clear(phase) => Clear(phase)'
    BY <1>3, <1>7 DEF Clear, cpuVars
  <1>11. BuffersInv'
    <2>1. BuffersInv /\ active' = active /\ pc' = pc /\ plan' = plan
      BY <1>3 DEF IInv, cpuVars
    <2>2. \A b \in Buffers : Released(b) => Released(b)'
      BY <1>3 DEF Released
    <2> QED
      BY <1>10, <2>1, <2>2 DEF BuffersInv
  <1>13. StreamsInv'
    <2>1. PICK a \in Memories : Runs(computeQ, Arrived, a) /\ Ready(a)
      BY DEF IInv, StreamsInv
    <2>2. Runs(computeQ', Arrived', a)
      BY <1>3, <1>5, <2>1
    <2>3. Ready(a)'
      BY <1>3, <2>1 DEF Ready, RowsReady, DecodeRowsThere, CaptureReady, TablesReady, Planned,
                        cpuVars, adapterVars
    <2> QED
      BY <2>2, <2>3 DEF StreamsInv
  <1> QED
    BY <1>1, <1>3, <1>8, <1>9, <1>11, <1>13 DEF StreamParts

\* An operation of a compute stream is executed on memory, the logits apart.
LEMMA ExecutedParts ==
  ASSUME TypesInv, NEW o \in ComputeOps, Executes(o)
  PROVE  /\ dev' = DevAfter(o, Memory) /\ snapshot' = SnapshotAfter(o, Memory)
         /\ static' = StaticAfter(o, Memory) /\ pieces' = PiecesAfter(o, Memory)
  <1>1. Memory \in Memories
    BY DEF TypesInv
  <1>2. /\ Memory.dev = dev /\ Memory.snapshot = snapshot /\ Memory.static = static
        /\ Memory.pieces = pieces /\ Memory.results = results
    BY DEF Memory
  <1>3. /\ dev \in [Buffers -> [Fields -> Nat]] /\ results \in [Logits -> Nat]
        /\ static \in [Buckets -> Inputs]
    BY <1>1 DEF Memory, Memories
  <1>4. /\ dev' = IF o.op = "advance" THEN [dev EXCEPT ![o.buf]["decode"] = o.step] ELSE dev
        /\ snapshot' = IF o.op = "clone"
                       THEN [decode |-> dev[BufferOf(o)]["decode"],
                             table  |-> dev[BufferOf(o)]["table"]]
                       ELSE snapshot
        /\ pieces' = IF o.op = "stage"
                     THEN [slots |-> [i \in 1 .. PrefillBucket |->
                                        IF i <= o.tokens
                                        THEN Contents(PromptSource(o.sources))
                                        ELSE pieces.slots[i]],
                           valid |-> Refilled(o.tokens)]
                     ELSE pieces
    BY DEF Executes
  <1>5. static' = IF o.op = "refresh"
                  THEN [static EXCEPT ![o.bucket] =
                          [decode |-> dev[BufferOf(o)]["decode"],
                           table  |-> IF o.table THEN dev[BufferOf(o)]["table"]
                                      ELSE static[o.bucket].table]]
                  ELSE static
    <2>1. CASE o.op = "refresh"
      <3>1. o.bucket \in Buckets
        BY <1>1, <2>1, KindsOfOperations DEF RefreshOps
      <3>2. static' = [static EXCEPT ![o.bucket] =
                         [decode |-> dev[BufferOf(o)]["decode"],
                          table  |-> IF o.table THEN dev[BufferOf(o)]["table"] ELSE @.table]]
        BY <2>1 DEF Executes
      <3> QED
        BY <1>3, <2>1, <3>1, <3>2
    <2>2. CASE o.op # "refresh"
      BY <2>2 DEF Executes
    <2> QED
      BY <2>1, <2>2
  <1>6. dev' = DevAfter(o, Memory) /\ snapshot' = SnapshotAfter(o, Memory)
    BY <1>2, <1>4 DEF DevAfter, SnapshotAfter
  <1>7. static' = StaticAfter(o, Memory)
    BY <1>2, <1>5 DEF StaticAfter
  <1>8. pieces' = PiecesAfter(o, Memory)
    <2>1. CASE o.op = "stage"
      <3>1. o.sources \in OnePrompt
        BY <1>1, <2>1, KindsOfOperations DEF SlotOps
      <3>2. IsPrompt(PromptSource(o.sources))
        BY <3>1, OnePromptSource
      <3>3. Contents(PromptSource(o.sources)) = PromptIn(o, Memory)
        BY <1>2, <3>2 DEF Contents, PromptIn, IsPrompt
      <3>4. pieces' = [slots |-> [i \in 1 .. PrefillBucket |->
                                    IF i <= o.tokens THEN PromptIn(o, Memory)
                                    ELSE pieces.slots[i]],
                       valid |-> o.tokens]
        BY <1>4, <2>1, <3>3 DEF Refilled
      <3> QED
        BY <1>2, <2>1, <3>4 DEF PiecesAfter
    <2>2. CASE o.op # "stage"
      BY <1>2, <1>4, <2>2 DEF PiecesAfter
    <2> QED
      BY <2>1, <2>2
  <1> QED
    BY <1>6, <1>7, <1>8

\* A step of the stream of the current step executes the head of its queue.
LEMMA MemoryAfterHead ==
  ASSUME TypesInv, ComputeStep
  PROVE  Memory' = After(Head(computeQ), Memory)
  <1> DEFINE o == Head(computeQ)
  <1>1. o \in ComputeOps /\ Memory \in Memories
    BY Popping DEF TypesInv, ComputeStep
  <1>2. /\ Memory.dev = dev /\ Memory.snapshot = snapshot /\ Memory.static = static
        /\ Memory.pieces = pieces /\ Memory.results = results
    BY DEF Memory
  <1>3. /\ dev \in [Buffers -> [Fields -> Nat]] /\ results \in [Logits -> Nat]
        /\ static \in [Buckets -> Inputs]
    BY <1>1 DEF Memory, Memories
  <1>4. results' = CASE o.op \in {"pass", "pieces"} -> Filled(o)
                    [] o.op = "replay" -> [results EXCEPT !["decode"] = o.step]
                    [] OTHER -> results
    BY DEF ComputeStep
  <1>6. /\ dev' = DevAfter(o, Memory) /\ snapshot' = SnapshotAfter(o, Memory)
        /\ static' = StaticAfter(o, Memory) /\ pieces' = PiecesAfter(o, Memory)
    BY <1>1, ExecutedParts DEF ComputeStep
  <1> HIDE DEF o
  <1>9. results' = ResultsAfter(o, Memory)
    <2>1. CASE o.op \in {"pass", "pieces"}
      <3>1. results' = Filled(o)
        BY <1>4, <2>1
      <3> QED
        BY <1>2, <2>1, <3>1 DEF Filled, ResultsAfter
    <2>2. CASE o.op = "replay"
      <3>1. results' = [results EXCEPT !["decode"] = o.step]
        BY <1>4, <2>2
      <3> QED
        BY <1>2, <1>3, <2>2, <3>1 DEF ResultsAfter
    <2>3. CASE o.op \notin {"pass", "pieces", "replay"}
      <3>1. results' = results
        BY <1>4, <2>3
      <3>2. ResultsAfter(o, Memory) = [f \in Logits |-> results[f]]
        BY <1>2, <2>3 DEF ResultsAfter
      <3> QED
        BY <1>3, <3>1, <3>2
    <2> QED
      BY <2>1, <2>2, <2>3
  <1>10. After(o, Memory) = [dev |-> dev', snapshot |-> snapshot', static |-> static',
                             pieces |-> pieces', results |-> results']
    BY <1>6, <1>9 DEF After
  <1> QED
    BY <1>10 DEF Memory, o

\* A step of the compute stream: the rest of the queue runs on as foreseen.
LEMMA ComputeStepStreams ==
  ASSUME IInv, ComputeStep
  PROVE  StreamParts'
  <1> DEFINE o == Head(computeQ)
             t == Tail(computeQ)
  <1>1. /\ TypesInv /\ CopiesInv /\ RecordsIn(computeQ, reached, recorded) /\ computeQ # <<>>
        /\ computeQ \in Seq(ComputeOps) /\ copyQ \in Seq(TransferOps)
        /\ reached \in [Events -> Nat] /\ recorded \in [Events -> Nat]
        /\ \A e \in Events : reached[e] <= recorded[e]
        /\ active \in Buffers /\ cohort \in Nat /\ Memory \in Memories
    BY DEF IInv, TypesInv, RecordsInv, ComputeStep
  <1>2. o \in ComputeOps /\ t \in Seq(ComputeOps) /\ Passed(o)
    BY <1>1, Popping DEF ComputeStep, Executes
  <1>3. /\ computeQ' = t /\ UNCHANGED <<config, cpuVars, recorded, valid, copyQ, host, adapterVars>>
        /\ reached' = PassedEvents(reached, o)
    BY DEF ComputeStep, Executes
  <1>4. /\ RecordsIn(t, PassedEvents(reached, o), recorded)
        /\ PassedEvents(reached, o)["copied"] = reached["copied"]
    BY <1>1, RecordsOff
  <1>5. Memory' = After(o, Memory)
    BY <1>1, MemoryAfterHead
  <1>6. Closed(Arriving) /\ Untouched(o, active, Arriving)
    BY <1>1, HeadUntouched
  <1>7. \A b \in Buffers : Released(b) => ReleasedIn(t, b, valid)
    BY <1>1, ReleasedOff DEF Released
  <1>8. \A phase : ClearIn(computeQ, active, phase) => ClearIn(t, active, phase)
    BY <1>1, ClearOff
  <1>9. ASSUME NEW i \in 1 .. Len(copyQ), IsCopy(i)
        PROVE  CopyOfCohort(i)'
    <2>1. CopyOfCohort(i)
      BY <1>1, <1>9 DEF CopiesInv
    <2>2. i + 1 \in 1 .. Len(copyQ) /\ copyQ[i + 1].op = "record"
      BY <1>1, <1>9 DEF CopiesInv, CopyOrder, IsCopy
    <2>3. copyQ[i + 1] \in TransferOps
      BY <1>1, <2>2
    <2>4. copyQ[i + 1].count \in Nat
      BY <2>2, <2>3, KindsOfTransfers
    <2>5. reached["copied"] < copyQ[i + 1].count
      BY <1>1, <2>2 DEF CopiesInv, CopyOrder
    <2>6. ~(o.op = "wait" /\ o.count >= copyQ[i + 1].count)
      <3>1. SUFFICES ASSUME o.op = "wait", o.count >= copyQ[i + 1].count PROVE FALSE
        OBVIOUS
      <3>2. o.event = "copied" /\ o.count \in Nat
        BY <1>2, <3>1, KindsOfOperations DEF WaitOps
      <3>3. reached["copied"] >= o.count
        BY <1>2, <3>1, <3>2 DEF Passed
      <3>4. reached["copied"] \in Nat
        BY <1>1 DEF Events
      <3> QED
        BY <2>4, <2>5, <3>1, <3>2, <3>3, <3>4
    <2>7. GuardedIn(computeQ, active, copyQ[i].phase, copyQ[i + 1].count)
      BY <2>1 DEF CopyOfCohort
    <2>8. GuardedIn(t, active, copyQ[i].phase, copyQ[i + 1].count)
      BY <1>1, <2>4, <2>6, <2>7, GuardedOff
    <2> HIDE DEF t
    <2> QED
      BY <1>3, <2>1, <2>8 DEF CopyOfCohort, cpuVars
  <1> HIDE DEF o, t
  <1>10. CopiesInv'
    <2>1. CopyOrder(copyQ', reached'["copied"], recorded'["copied"])
      BY <1>1, <1>3, <1>4 DEF CopiesInv
    <2> QED
      BY <1>1, <1>3, <1>9, <2>1 DEF CopiesInv, IsCopy, cpuVars
  <1>11. RecordsInv'
    BY <1>3, <1>4 DEF RecordsInv
  <1>12. BuffersInv'
    <2>1. BuffersInv /\ active' = active /\ pc' = pc /\ plan' = plan
      BY <1>3 DEF IInv, cpuVars
    <2>2. \A b \in Buffers : Released(b) => Released(b)'
      BY <1>3, <1>7 DEF Released
    <2>3. \A phase : Clear(phase) => Clear(phase)'
      BY <1>3, <1>8, <2>1 DEF Clear, IsCopy
    <2> QED
      BY <2>1, <2>2, <2>3 DEF BuffersInv
  <1>13. Arrived' = After(o, Arrived)
    <2>1. Arriving' = Arriving /\ active' = active /\ cohort' = cohort
      BY <1>3 DEF Arriving, IsCopy, cpuVars
    <2>2. Arrived' = Put(Arriving, active, cohort, After(o, Memory))
      BY <1>5, <2>1 DEF Arrived
    <2>3. After(o, Put(Arriving, active, cohort, Memory))
            = Put(Arriving, active, cohort, After(o, Memory))
      BY <1>1, <1>2, <1>6, AfterPut
    <2> QED
      BY <2>2, <2>3 DEF Arrived
  <1>14. StreamsInv'
    <2>1. PICK a \in Memories : Runs(computeQ, Arrived, a) /\ Ready(a)
      BY DEF IInv, StreamsInv
    <2>2. Arrived \in Memories
      BY <1>1, ArrivedTyped
    <2>3. Runs(t, After(o, Arrived), a)
      BY <1>1, <2>1, <2>2, RunsOff DEF o, t
    <2>4. Runs(computeQ', Arrived', a)
      BY <1>3, <1>13, <2>3
    <2>5. Ready(a)'
      BY <1>3, <2>1 DEF Ready, RowsReady, DecodeRowsThere, CaptureReady, TablesReady, Planned,
                        cpuVars, adapterVars
    <2> QED
      BY <2>4, <2>5 DEF StreamsInv
  <1> QED
    BY <1>2, <1>3, <1>10, <1>11, <1>12, <1>14 DEF StreamParts

-----------------------------------------------------------------------------
(* The CPU thread, its plans and the tables it has built *)

ControlParts == TypesInv /\ TablesInv /\ PlanInv /\ StagedInv /\ SignatureInv

\* One more record of an event, and a buffer that has one.
LEMMA RecordedTyped ==
  ASSUME TypesInv, NEW e \in Events
  PROVE  /\ [recorded EXCEPT ![e] = @ + 1] \in [Events -> Nat]
         /\ \A f \in Events : reached[f] <= [recorded EXCEPT ![e] = @ + 1][f]
         /\ [valid EXCEPT ![active] = TRUE] \in [Buffers -> BOOLEAN]
         /\ Consumed(active) \in Events
  <1>1. /\ recorded \in [Events -> Nat] /\ reached \in [Events -> Nat]
        /\ \A f \in Events : reached[f] <= recorded[f]
        /\ valid \in [Buffers -> BOOLEAN]
    BY DEF TypesInv
  <1>2. recorded[e] + 1 \in Nat /\ reached[e] <= recorded[e] + 1
    BY <1>1
  <1>3. Consumed(active) \in Events
    BY DEF Consumed, Events
  <1> QED
    BY <1>1, <1>2, <1>3

\* What the CPU thread leaves to the streams.
LEMMA TypesKept ==
  ASSUME TypesInv, UNCHANGED <<config, reached, dev, snapshot, static, pieces, results>>,
         computeQ' \in Seq(ComputeOps), otherQ' \in Seq(ComputeOps),
         copyQ' \in Seq(TransferOps), pc' \in Places,
         step' \in 0 .. MaxSteps, plan' \in Plans, active' \in Buffers,
         stable' \in BOOLEAN, decoding' \in BOOLEAN, cohort' \in Nat,
         output' \in {"device", "host"},
         recorded' \in [Events -> Nat], \A e \in Events : reached[e] <= recorded'[e],
         valid' \in [Buffers -> BOOLEAN], host' \in [Phases -> Nat],
         version' \in [Buffers -> Nat],
         signature' \in [Buckets -> {<<>>} \cup ({"temporary"} \X Temps \X {0})
                                           \cup ({"buffer"} \X Buffers \X Nat)],
         pending' = Nothing \/ pending' \in [from : {"decode", "snapshot"}, buf : Buffers],
         captured' \in BOOLEAN
  PROVE  TypesInv'
  <1>1. Memory' = Memory
    BY DEF Memory
  <1> QED
    BY <1>1 DEF TypesInv

\* Signatures are those of tables as they are or were.
LEMMA SignatureKept ==
  ASSUME SignatureInv, UNCHANGED <<version, signature>>
  PROVE  SignatureInv'
  BY DEF SignatureInv

\* Tables do not get younger.
LEMMA TablesKept ==
  ASSUME TypesInv, TablesInv, UNCHANGED <<dev, static>>, step' \in Nat, step <= step'
  PROVE  TablesInv'
  <1>1. Memory \in Memories /\ step \in Nat
    BY RuntimeAssumption DEF TypesInv
  <1>2. /\ \A b \in Buffers : dev[b]["table"] \in Nat
        /\ \A u \in Buckets : static[u].table \in Nat
    BY <1>1 DEF Memories, Memory, Fields, Inputs
  <1> QED
    BY <1>1, <1>2 DEF TablesInv

\* Planning a step keeps types, plans, staged rows and signatures right.
LEMMA BeginStepControl ==
  ASSUME ControlParts, BeginStep, computeQ' \in Seq(ComputeOps)
  PROVE  ControlParts'
  <1>1. TypesInv /\ TablesInv /\ PlanInv /\ StagedInv /\ SignatureInv
    BY DEF ControlParts
  <1>2. /\ UNCHANGED <<config, active, stable, cohort, decoding, output, recorded, reached, valid,
                       copyQ, host, dev, snapshot, static, pieces, results, version, signature,
                       pending, captured>>
        /\ step' = step + 1 /\ step < MaxSteps /\ pc = "idle"
    BY DEF BeginStep, MorePlans, eventVars, memoryVars, adapterVars
  <1>3. /\ plan' \in Plans /\ (plan'.decode \/ plan'.prefill)
        /\ decoding => plan'.decode
        /\ plan'.padded => config.padding
        /\ plan'.replay => plan'.decode /\ ~plan'.prefill
        /\ pc' = IF plan'.replay THEN "decodeCall" ELSE "hostWait"
    BY DEF BeginStep
  <1>4. step \in Nat /\ step' \in 0 .. MaxSteps /\ step <= step' /\ step' \in Nat /\ cohort \in Nat
    BY <1>1, <1>2, RuntimeAssumption DEF TypesInv
  <1>5. TypesInv'
    <2>1. pc' \in Places /\ otherQ' \in Seq(ComputeOps)
      BY <1>1, <1>3 DEF TypesInv, Places, BeginStep, TakeStream
    <2> QED
      BY <1>1, <1>2, <1>3, <1>4, <2>1, TypesKept DEF TypesInv
  <1>6. TablesInv'
    BY <1>1, <1>2, <1>4, TablesKept
  <1>7. PlanInv'
    BY <1>1, <1>2, <1>3, <1>4 DEF PlanInv, IsMixed
  <1>8. StagedInv'
    BY <1>1, <1>2, <1>3 DEF StagedInv
  <1>9. SignatureInv'
    BY <1>1, <1>2, SignatureKept
  <1> QED
    BY <1>5, <1>6, <1>7, <1>8, <1>9 DEF ControlParts

\* The steps that wait: for the staging buffer, the device buffer, the streams.
LEMMA WaitsControl ==
  ASSUME ControlParts, WaitHost \/ WaitDevice \/ Drain, computeQ' \in Seq(ComputeOps)
  PROVE  ControlParts'
  <1>1. TypesInv /\ TablesInv /\ PlanInv /\ StagedInv /\ SignatureInv
    BY DEF ControlParts
  <1>2. /\ UNCHANGED <<config, step, plan, stable, decoding, output, recorded, reached, valid,
                       copyQ, otherQ, host, dev, snapshot, static, pieces, results, version, signature,
                       pending, captured>>
        /\ \/ pc = "hostWait" /\ pc' = "deviceWait" /\ cohort' = cohort /\ active' = active
           \/ pc = "drain" /\ pc' = "idle" /\ cohort' = cohort /\ active' = active
           \/ /\ pc = "deviceWait" /\ cohort' = step /\ active' = 1 - active
              /\ pc' = IF IsMixed /\ config.packed THEN "packed"
                       ELSE IF plan.decode THEN "decode" ELSE "prefill"
    BY DEF WaitHost, WaitDevice, Drain, eventVars, memoryVars, adapterVars
  <1>3. step \in Nat /\ step \in 0 .. MaxSteps /\ step <= step /\ active' \in Buffers
        /\ cohort' \in Nat /\ cohort' <= step
    BY <1>1, <1>2, RuntimeAssumption DEF TypesInv, Buffers, PlanInv
  <1>4. TypesInv'
    <2>1. pc' \in Places
      BY <1>2 DEF Places
    <2> QED
      BY <1>1, <1>2, <1>3, <2>1, TypesKept DEF TypesInv
  <1>5. TablesInv'
    BY <1>1, <1>2, <1>3, TablesKept
  <1>6. PlanInv'
    BY <1>1, <1>2, <1>3 DEF PlanInv, IsMixed
  <1>7. StagedInv'
    <2>1. config \in Configs
      BY <1>1 DEF TypesInv
    <2> QED
      BY <1>1, <1>2, <2>1, RuntimeAssumption DEF StagedInv, IsMixed, PlanInv
  <1>8. SignatureInv'
    BY <1>1, <1>2, SignatureKept
  <1> QED
    BY <1>4, <1>5, <1>6, <1>7, <1>8 DEF ControlParts

\* The steps that build and transfer a phase.
LEMMA TransferTyped ==
  ASSUME TypesInv, NEW phase \in Phases, Transferred(phase)
  PROVE  /\ copyQ' \in Seq(TransferOps) /\ recorded' \in [Events -> Nat]
         /\ \A e \in Events : reached[e] <= recorded'[e]
         /\ reached' = reached /\ valid' \in [Buffers -> BOOLEAN] /\ otherQ' = otherQ
  <1>1. copyQ' \in Seq(TransferOps)
    BY CopyQueueGrown
  <1>2. /\ recorded' = [recorded EXCEPT !["copied"] = @ + 1]
        /\ reached' = reached /\ valid' = valid /\ otherQ' = otherQ /\ "copied" \in Events
    BY DEF Transferred, Events
  <1>3. /\ [recorded EXCEPT !["copied"] = @ + 1] \in [Events -> Nat]
        /\ \A f \in Events : reached[f] <= [recorded EXCEPT !["copied"] = @ + 1][f]
    BY <1>2, RecordedTyped
  <1> QED
    BY <1>1, <1>2, <1>3 DEF TypesInv

\* ... and building one does: a rebuilt table gets a new version.
LEMMA BuildControl ==
  ASSUME ControlParts, Build, computeQ' \in Seq(ComputeOps)
  PROVE  ControlParts'
  <1>1. TypesInv /\ TablesInv /\ PlanInv /\ StagedInv /\ SignatureInv
    BY DEF ControlParts
  <1>2. /\ UNCHANGED <<config, step, plan, active, cohort, decoding, output,
                       dev, snapshot, static, pieces, results, signature, pending, captured>>
        /\ \/ /\ pc = "decode" /\ pc' = "decodeCall" /\ stable' = (config.reuse /\ ~plan.prefill)
              /\ version' = [version EXCEPT ![active] = @ + 1]
           \/ pc = "prefill" /\ pc' = "prefillCall" /\ stable' = stable /\ version' = version
           \/ pc = "packed" /\ pc' = "packedCall" /\ stable' = stable /\ version' = version
    BY DEF Build, BuildDecode, BuildPrefill, BuildMixed, adapterVars
  <1>3. step \in Nat /\ step <= step /\ active \in Buffers /\ config \in Configs
        /\ version \in [Buffers -> Nat]
    BY <1>1, RuntimeAssumption DEF TypesInv
  <1>4. /\ copyQ' \in Seq(TransferOps) /\ recorded' \in [Events -> Nat]
        /\ \A e \in Events : reached[e] <= recorded'[e]
        /\ reached' = reached /\ valid' \in [Buffers -> BOOLEAN] /\ otherQ' = otherQ
    <2>1. PICK phase \in Phases : Transferred(phase)
      BY DEF Build, BuildDecode, BuildPrefill, BuildMixed, Phases
    <2> QED
      BY <1>1, <2>1, TransferTyped
  <1>5. host' \in [Phases -> Nat]
    BY <1>1, <1>3 DEF TypesInv, Build, BuildDecode, BuildPrefill, BuildMixed
  <1>6. version' \in [Buffers -> Nat] /\ \A b \in Buffers : version[b] <= version'[b]
    BY <1>2, <1>3
  <1>7. TypesInv'
    <2>1. stable' \in BOOLEAN /\ pc' \in Places
      BY <1>1, <1>2 DEF TypesInv, Places
    <2> QED
      BY <1>1, <1>2, <1>4, <1>5, <1>6, <2>1, TypesKept DEF TypesInv
  <1>8. TablesInv'
    BY <1>1, <1>2, <1>3, TablesKept
  <1>9. PlanInv'
    BY <1>1, <1>2 DEF PlanInv, IsMixed
  <1>10. StagedInv'
    BY <1>1, <1>2, <1>3, RuntimeAssumption DEF StagedInv, PlanInv
  <1>11. SignatureInv'
    BY <1>1, <1>2, <1>3, <1>6 DEF SignatureInv
  <1> QED
    BY <1>7, <1>8, <1>9, <1>10, <1>11 DEF ControlParts

\* A callback returns, or it raises and the step is caught.
Ends(next) ==
  \/ pc' = next /\ UNCHANGED <<stable, decoding>>
  \/ pc' = "drain" /\ ~stable' /\ stable' \in BOOLEAN /\ decoding' = plan.decode
EventsTyped ==
  /\ recorded' \in [Events -> Nat] /\ valid' \in [Buffers -> BOOLEAN]
  /\ \A e \in Events : reached[e] <= recorded'[e]

\* The ways a callback without a successor ends ...
LEMMA CallEnds ==
  ASSUME TypesInv, NEW ops, NEW next, Calls(ops, next)
  PROVE  Ends(next) /\ EventsTyped
  <1>1. recorded' = recorded /\ valid' = valid
    BY DEF Calls, Caught
  <1>2. EventsTyped
    BY <1>1 DEF EventsTyped, TypesInv
  <1>3. Ends(next)
    BY DEF Calls, Caught, Ends
  <1> QED
    BY <1>2, <1>3

\* ... and those of a decode callback that publishes its reads ...
LEMMA PublishedEnds ==
  ASSUME TypesInv, NEW ops, Published(ops)
  PROVE  Ends("prefill") /\ EventsTyped
  <1>1. Ends("prefill")
    BY DEF Published, Caught, Ends
  <1>2. \/ recorded' = recorded /\ valid' = valid
        \/ /\ recorded' = [recorded EXCEPT ![Consumed(active)] = @ + 1]
           /\ valid' = [valid EXCEPT ![active] = TRUE]
    BY DEF Published, Caught
  <1>3. Consumed(active) \in Events
    BY DEF Consumed, Events
  <1>4. EventsTyped
    <2>1. CASE recorded' = recorded /\ valid' = valid
      BY <2>1 DEF EventsTyped, TypesInv
    <2>2. CASE /\ recorded' = [recorded EXCEPT ![Consumed(active)] = @ + 1]
               /\ valid' = [valid EXCEPT ![active] = TRUE]
      <3>1. /\ [recorded EXCEPT ![Consumed(active)] = @ + 1] \in [Events -> Nat]
            /\ \A f \in Events : reached[f] <= [recorded EXCEPT ![Consumed(active)] = @ + 1][f]
            /\ [valid EXCEPT ![active] = TRUE] \in [Buffers -> BOOLEAN]
        BY <1>3, RecordedTyped
      <3> QED
        BY <2>2, <3>1 DEF EventsTyped
    <2> QED
      BY <1>2, <2>1, <2>2
  <1> QED
    BY <1>1, <1>4

\* ... so all ways a decode callback ends.
LEMMA AfterDecodeEnds ==
  ASSUME TypesInv, NEW ops, AfterDecode(ops)
  PROVE  Ends(IF plan.prefill THEN "prefill" ELSE "sample") /\ EventsTyped
  <1>1. CASE plan.prefill
    BY <1>1, PublishedEnds DEF AfterDecode
  <1>2. CASE ~plan.prefill
    BY <1>2, CallEnds DEF AfterDecode
  <1> QED
    BY <1>1, <1>2

\* Whatever a callback does, plans and the types of everything are kept; what
\* it stages and which table it copies is left to the lemmas below.
LEMMA CallbackKeeps ==
  ASSUME ControlParts, UNCHANGED callbackUnchanged, computeQ' \in Seq(ComputeOps), EventsTyped,
         NEW next, Ends(next),
         \/ pc = "decodeCall" /\ next = (IF plan.prefill THEN "prefill" ELSE "sample")
         \/ pc \in {"prefillCall", "packedCall"} /\ next = "sample"
         \/ pc \in {"decodeCall", "prefillCall", "packedCall", "prefill"} /\ next = "drain" /\ ~stable',
         signature' \in [Buckets -> {<<>>} \cup ({"temporary"} \X Temps \X {0})
                                           \cup ({"buffer"} \X Buffers \X Nat)],
         pending' = Nothing \/ pending' \in [from : {"decode", "snapshot"}, buf : Buffers],
         captured' \in BOOLEAN
  PROVE  TypesInv' /\ TablesInv' /\ PlanInv'
  <1>1. TypesInv /\ TablesInv /\ PlanInv
    BY DEF ControlParts
  <1>2. UNCHANGED <<config, step, plan, active, cohort, output, reached, copyQ, otherQ, host, dev,
                    snapshot, static, pieces, results, version>>
    BY DEF callbackUnchanged, memoryVars
  <1>3. pc' \in {"prefill", "sample", "drain"} /\ pc' \in Places
    BY DEF Ends, Places
  <1>4. stable' \in BOOLEAN /\ decoding' \in BOOLEAN /\ step \in Nat /\ step <= step
    BY <1>1, RuntimeAssumption DEF Ends, TypesInv, Plans
  <1>5. TypesInv'
    BY <1>1, <1>2, <1>3, <1>4, TypesKept DEF TypesInv, EventsTyped
  <1>6. TablesInv'
    BY <1>1, <1>2, <1>4, TablesKept
  <1>7. PlanInv'
    BY <1>1, <1>2 DEF PlanInv, IsMixed, Ends
  <1> QED
    BY <1>5, <1>6, <1>7

\* A failure keeps types, plans, staged rows and signatures right ...
LEMMA CallbackRaisesControl ==
  ASSUME ControlParts, CallbackRaises \/ BetweenFails, computeQ' \in Seq(ComputeOps)
  PROVE  ControlParts'
  <1>1. TypesInv /\ StagedInv /\ SignatureInv /\ PlanInv
    BY DEF ControlParts
  <1>2. /\ UNCHANGED callbackUnchanged /\ signature' = signature /\ captured' = captured
        /\ pending' = Nothing \/ (pending' = pending /\ pc # "prefillCall")
        /\ pc \in {"decodeCall", "prefillCall", "packedCall", "prefill"}
        /\ Caught
    BY DEF CallbackRaises, BetweenFails
  <1>3. EventsTyped
    BY <1>1, <1>2 DEF EventsTyped, TypesInv, Caught
  <1>4. Ends("drain") /\ ~stable' /\ pc' = "drain" /\ decoding' = plan.decode
    BY <1>2 DEF Ends, Caught
  <1>5. TypesInv' /\ TablesInv' /\ PlanInv'
    <2>1. /\ signature' \in [Buckets -> {<<>>} \cup ({"temporary"} \X Temps \X {0})
                                               \cup ({"buffer"} \X Buffers \X Nat)]
          /\ captured' \in BOOLEAN
          /\ pending' = Nothing \/ pending' \in [from : {"decode", "snapshot"}, buf : Buffers]
      BY <1>1, <1>2 DEF TypesInv
    <2> QED
      BY <1>2, <1>3, <1>4, <2>1, CallbackKeeps
  <1>6. StagedInv'
    BY <1>1, <1>2, <1>4 DEF StagedInv, callbackUnchanged
  <1>7. SignatureInv'
    BY <1>1, <1>2, SignatureKept DEF callbackUnchanged
  <1> QED
    BY <1>5, <1>6, <1>7 DEF ControlParts

\* ... as does a staged decode ...
LEMMA DecodeStagedControl ==
  ASSUME ControlParts, DecodeStaged, computeQ' \in Seq(ComputeOps)
  PROVE  ControlParts'
  <1>1. TypesInv /\ SignatureInv /\ active \in Buffers
    BY DEF ControlParts, TypesInv
  <1>2. /\ UNCHANGED callbackUnchanged /\ signature' = signature /\ captured' = captured
        /\ pc = "decodeCall" /\ config.deferred /\ plan.decode /\ plan.prefill
        /\ Published(StageOps) /\ pending' = Staged
    BY DEF DecodeStaged, Deferring
  <1>3. Ends("prefill") /\ EventsTyped
    BY <1>1, <1>2, PublishedEnds
  <1>4. pending' \in [from : {"decode", "snapshot"}, buf : Buffers]
    BY <1>1, <1>2 DEF Staged, DecodeSource
  <1>5. TypesInv' /\ TablesInv' /\ PlanInv'
    <2>1. /\ signature' \in [Buckets -> {<<>>} \cup ({"temporary"} \X Temps \X {0})
                                               \cup ({"buffer"} \X Buffers \X Nat)]
          /\ captured' \in BOOLEAN
      BY <1>1, <1>2 DEF TypesInv
    <2>2. "prefill" = IF plan.prefill THEN "prefill" ELSE "sample"
      BY <1>2
    <2> QED
      BY <1>2, <1>3, <1>4, <2>1, <2>2, CallbackKeeps
  <1>6. StagedInv'
    BY <1>2, <1>3 DEF StagedInv, callbackUnchanged, Ends
  <1>7. SignatureInv'
    BY <1>1, <1>2, SignatureKept DEF callbackUnchanged
  <1> QED
    BY <1>5, <1>6, <1>7 DEF ControlParts

\* ... an eager decode ...
LEMMA DecodeEagerControl ==
  ASSUME ControlParts, DecodeEager, computeQ' \in Seq(ComputeOps)
  PROVE  ControlParts'
  <1>1. TypesInv /\ SignatureInv /\ StagedInv /\ config \in Configs
    BY DEF ControlParts, TypesInv
  <1>2. /\ UNCHANGED callbackUnchanged /\ signature' = signature /\ captured' = captured
        /\ pending' = pending /\ pc = "decodeCall" /\ ~config.graphs
        /\ AfterDecode(<<Pass({DecodeSource}, {"decode"})>>)
    BY DEF DecodeEager
  <1>3. Ends(IF plan.prefill THEN "prefill" ELSE "sample") /\ EventsTyped
    BY <1>1, <1>2, AfterDecodeEnds
  <1>4. pending = Nothing
    BY <1>1, <1>2, RuntimeAssumption DEF StagedInv
  <1>5. TypesInv' /\ TablesInv' /\ PlanInv'
    <2>1. /\ signature' \in [Buckets -> {<<>>} \cup ({"temporary"} \X Temps \X {0})
                                               \cup ({"buffer"} \X Buffers \X Nat)]
          /\ captured' \in BOOLEAN
      BY <1>1, <1>2 DEF TypesInv
    <2> QED
      BY <1>2, <1>3, <1>4, <2>1, CallbackKeeps
  <1>6. StagedInv'
    BY <1>2, <1>4 DEF StagedInv
  <1>7. SignatureInv'
    BY <1>1, <1>2, SignatureKept DEF callbackUnchanged
  <1> QED
    BY <1>5, <1>6, <1>7 DEF ControlParts

\* The signature of a table: a temporary's, or that of a device buffer as it is.
LEMMA SignaturesTyped ==
  ASSUME TypesInv, NEW new \in Signatures
  PROVE  /\ new \in ({"temporary"} \X Temps \X {0}) \cup ({"buffer"} \X Buffers \X Nat)
         /\ \A b \in Buffers : \A v \in Nat : new = <<"buffer", b, v>> => v = version[b]
  <1>1. active \in Buffers /\ version[active] \in Nat
    BY DEF TypesInv
  <1>2. CASE plan.padded
    <2>1. PICK t \in Temps : new = <<"temporary", t, 0>>
      BY <1>2 DEF Signatures
    <2> QED
      BY <2>1
  <1>3. CASE ~plan.padded
    <2>1. new = <<"buffer", active, version[active]>>
      BY <1>3 DEF Signatures
    <2> QED
      BY <1>1, <2>1
  <1> QED
    BY <1>2, <1>3

\* ... a decode that replays a graph and keeps the signature it compared ...
LEMMA DecodeGraphControl ==
  ASSUME ControlParts, DecodeGraph, computeQ' \in Seq(ComputeOps)
  PROVE  ControlParts'
  <1>1. TypesInv /\ SignatureInv /\ plan.bucket \in Buckets /\ version \in [Buffers -> Nat]
    BY DEF ControlParts, TypesInv, Plans
  <1>2. /\ UNCHANGED callbackUnchanged /\ captured' = captured
        /\ pending' = pending /\ pending = Nothing /\ pc = "decodeCall"
    BY DEF DecodeGraph
  <1>3. PICK new \in Signatures :
          LET old == signature[plan.bucket]
          IN  /\ signature' = [signature EXCEPT ![plan.bucket] =
                                 IF MustCopyTable(new, old) THEN new ELSE old]
              /\ AfterDecode(GraphDecode(MustCopyTable(new, old)))
    BY DEF DecodeGraph
  <1> DEFINE s == IF MustCopyTable(new, signature[plan.bucket])
                  THEN new ELSE signature[plan.bucket]
             Kinds == {<<>>} \cup ({"temporary"} \X Temps \X {0}) \cup ({"buffer"} \X Buffers \X Nat)
  <1>4. signature' = [signature EXCEPT ![plan.bucket] = s] /\ (s = new \/ s = signature[plan.bucket])
    BY <1>3
  <1>5. signature \in [Buckets -> Kinds]
    BY <1>1 DEF TypesInv
  <1>6. new \in Kinds /\ \A b \in Buffers : \A v \in Nat : new = <<"buffer", b, v>> => v = version[b]
    BY <1>1, SignaturesTyped
  <1>7. Ends(IF plan.prefill THEN "prefill" ELSE "sample") /\ EventsTyped
    BY <1>1, <1>3, AfterDecodeEnds
  <1> HIDE DEF s, Kinds
  <1>8. s \in Kinds
    BY <1>1, <1>4, <1>5, <1>6
  <1>9. signature' \in [Buckets -> Kinds]
    BY <1>4, <1>5, <1>8
  <1>10. TypesInv' /\ TablesInv' /\ PlanInv'
    <2>1. captured' \in BOOLEAN
      BY <1>1, <1>2 DEF TypesInv
    <2> QED
      BY <1>2, <1>7, <1>9, <2>1, CallbackKeeps DEF Kinds
  <1>11. StagedInv'
    BY <1>2 DEF StagedInv
  <1>12. SignatureInv'
    <2>1. ASSUME NEW u \in Buckets, NEW b \in Buffers, NEW v \in Nat,
                 signature'[u] = <<"buffer", b, v>>
          PROVE  v <= version[b]
      <3>1. CASE u = plan.bucket /\ s = new
        <4>1. v = version[b]
          BY <1>1, <1>4, <1>5, <1>6, <2>1, <3>1
        <4> QED
          BY <4>1
      <3>2. CASE u # plan.bucket \/ s = signature[plan.bucket]
        <4>1. signature[u] = <<"buffer", b, v>>
          BY <1>1, <1>4, <1>5, <2>1, <3>2
        <4> QED
          BY <1>1, <4>1 DEF SignatureInv
      <3> QED
        BY <1>4, <3>1, <3>2
    <2>2. version' = version
      BY <1>2 DEF callbackUnchanged
    <2> QED
      BY <2>1, <2>2 DEF SignatureInv
  <1> QED
    BY <1>10, <1>11, <1>12 DEF ControlParts

\* ... a prefill callback, which takes the staged rows ...
LEMMA PrefillControl ==
  ASSUME ControlParts, PrefillCallback \/ MixedCallback, computeQ' \in Seq(ComputeOps)
  PROVE  ControlParts'
  <1>1. TypesInv /\ SignatureInv /\ StagedInv /\ PlanInv /\ config \in Configs
    BY DEF ControlParts, TypesInv
  <1>2. /\ UNCHANGED callbackUnchanged /\ signature' = signature
        /\ captured' = CaptureOf(plan.tokens)
        /\ \/ pc = "prefillCall" /\ pending' = Nothing
           \/ pc = "packedCall" /\ pending' = pending
    BY DEF PrefillCallback, MixedCallback
  <1>3. Ends("sample") /\ EventsTyped
    <2>1. PICK ops : Calls(ops, "sample")
      BY DEF PrefillCallback, MixedCallback
    <2> QED
      BY <1>1, <2>1, CallEnds
  <1>4. pending' = Nothing
    BY <1>1, <1>2, RuntimeAssumption DEF StagedInv
  <1>5. TypesInv' /\ TablesInv' /\ PlanInv'
    <2>1. signature' \in [Buckets -> {<<>>} \cup ({"temporary"} \X Temps \X {0})
                                            \cup ({"buffer"} \X Buffers \X Nat)]
      BY <1>1, <1>2 DEF TypesInv
    <2>2. captured' \in BOOLEAN
      BY <1>1, <1>2 DEF CaptureOf, TypesInv
    <2> QED
      BY <1>2, <1>3, <1>4, <2>1, <2>2, CallbackKeeps
  <1>6. StagedInv'
    BY <1>4 DEF StagedInv
  <1>7. SignatureInv'
    BY <1>1, <1>2, SignatureKept DEF callbackUnchanged
  <1> QED
    BY <1>5, <1>6, <1>7 DEF ControlParts

\* ... and sampling and reading back.
LEMMA FinishControl ==
  ASSUME ControlParts, Sample \/ Readback, computeQ' \in Seq(ComputeOps)
  PROVE  ControlParts'
  <1>1. TypesInv /\ TablesInv /\ PlanInv /\ StagedInv /\ SignatureInv
    BY DEF ControlParts
  <1>2. /\ UNCHANGED <<config, step, plan, active, cohort, reached, copyQ, otherQ, host, dev, snapshot,
                       static, pieces, results, version, signature, pending, captured>>
        /\ pc \in {"sample", "readback"} /\ pc' \in {"readback", "idle"} /\ pc' \in Places
        /\ output' \in {"device", "host"}
        /\ stable' \in BOOLEAN /\ decoding' \in BOOLEAN
    BY <1>1 DEF Sample, Readback, eventVars, memoryVars, adapterVars, TypesInv,
                  Places
  <1>3. EventsTyped
    <2>1. CASE recorded' = recorded /\ valid' = valid
      BY <1>1, <2>1 DEF EventsTyped, TypesInv
    <2>2. CASE Readback
      <3>1. Consumed(active) \in Events
        BY DEF Consumed, Events
      <3>2. /\ [recorded EXCEPT ![Consumed(active)] = @ + 1] \in [Events -> Nat]
            /\ \A f \in Events : reached[f] <= [recorded EXCEPT ![Consumed(active)] = @ + 1][f]
            /\ [valid EXCEPT ![active] = TRUE] \in [Buffers -> BOOLEAN]
        BY <1>1, <3>1, RecordedTyped
      <3> QED
        BY <2>2, <3>2 DEF EventsTyped, Readback
    <2> QED
      BY <2>1, <2>2 DEF Sample, eventVars
  <1>4. TypesInv'
    BY <1>1, <1>2, <1>3, TypesKept DEF TypesInv, EventsTyped
  <1>5. TablesInv'
    <2>1. step \in Nat /\ step <= step
      BY <1>1, RuntimeAssumption DEF TypesInv
    <2> QED
      BY <1>1, <1>2, <2>1, TablesKept
  <1>6. PlanInv'
    BY <1>1, <1>2 DEF PlanInv, Sample, Readback, IsMixed
  <1>7. StagedInv'
    BY <1>1, <1>2 DEF StagedInv
  <1>8. SignatureInv'
    BY <1>1, <1>2, SignatureKept
  <1> QED
    BY <1>4, <1>5, <1>6, <1>7, <1>8 DEF ControlParts

\* The streams change nothing that the CPU thread keeps.
LEMMA StreamsKeep ==
  ASSUME ControlParts, UNCHANGED <<config, cpuVars, recorded, valid, host, adapterVars>>,
         reached' \in [Events -> Nat], \A e \in Events : reached'[e] <= recorded[e],
         copyQ' \in Seq(TransferOps), computeQ' \in Seq(ComputeOps), otherQ' \in Seq(ComputeOps),
         Memory' \in Memories
  PROVE  TypesInv' /\ PlanInv' /\ StagedInv' /\ SignatureInv'
  <1>1. TypesInv /\ PlanInv /\ StagedInv /\ SignatureInv
    BY DEF ControlParts
  <1>2. UNCHANGED <<config, pc, step, plan, active, stable, cohort, decoding, output,
                    recorded, valid, host, version, signature, pending, captured>>
    BY DEF cpuVars, adapterVars
  <1>3. TypesInv'
    BY <1>1, <1>2 DEF TypesInv
  <1>4. PlanInv' /\ StagedInv' /\ SignatureInv'
    BY <1>1, <1>2 DEF PlanInv, IsMixed, StagedInv, SignatureInv
  <1> QED
    BY <1>3, <1>4

\* A copied table is that of the cohort, no younger than the step ...
LEMMA CopyStepControl ==
  ASSUME ControlParts, CopyStep, CopiesOfCohort,
         CopyOrder(copyQ, reached["copied"], recorded["copied"])
  PROVE  ControlParts'
  <1> DEFINE o == Head(copyQ)
  <1>1. /\ TypesInv /\ TablesInv /\ copyQ # <<>> /\ copyQ \in Seq(TransferOps)
        /\ computeQ \in Seq(ComputeOps) /\ cohort <= step
        /\ reached \in [Events -> Nat] /\ recorded \in [Events -> Nat]
        /\ \A e \in Events : reached[e] <= recorded[e]
        /\ Memory \in Memories /\ active \in Buffers /\ cohort \in Nat
    BY DEF ControlParts, TypesInv, PlanInv, CopyStep
  <1>2. /\ o \in TransferOps /\ copyQ' \in Seq(TransferOps) /\ o = copyQ[1] /\ 1 \in 1 .. Len(copyQ)
    BY <1>1, Popping DEF CopyStep
  <1>3. /\ UNCHANGED <<config, cpuVars, recorded, valid, computeQ, otherQ, host, snapshot, static,
                       pieces, results, adapterVars>>
        /\ reached' = PassedEvents(reached, o)
        /\ dev' = IF o.op = "copy" THEN Copied(o) ELSE dev
    BY DEF CopyStep
  <1> HIDE DEF o
  <1>4. reached' \in [Events -> Nat] /\ \A e \in Events : reached'[e] <= recorded[e]
    <2>1. CASE o.op = "record"
      <3>1. o.event = "copied" /\ o.count \in Nat
        BY <1>2, <2>1, KindsOfTransfers
      <3>2. o.count <= recorded["copied"]
        BY <1>1, <1>2, <2>1 DEF CopyOrder
      <3> QED
        BY <1>1, <1>3, <2>1, <3>1, <3>2 DEF PassedEvents
    <2> QED
      BY <1>1, <1>3, <2>1 DEF PassedEvents
  <1>5. Memory' \in Memories /\ TablesInv'
    <2>1. CASE o.op = "copy"
      <3>1. o.buf = active /\ host[o.phase] = cohort
        BY <1>1, <1>2, <2>1 DEF CopiesOfCohort, IsCopy
      <3>2. o.phase \in Phases /\ o.buf = active /\ host[o.phase] = cohort
        BY <1>2, <2>1, <3>1, KindsOfTransfers
      <3>3. Memory' = Put(FieldsOf(o.phase), active, cohort, Memory)
        BY <1>1, <1>3, <2>1, <3>2, CopyPuts
      <3>4. Memory' \in Memories
        BY <1>1, <3>3, PutFields
      <3>5. Memory.dev = dev /\ Memory'.dev = dev' /\ static' = static /\ step' = step
        BY <1>3 DEF Memory, cpuVars
      <3>6. \A b \in Buffers : dev'[b]["table"] = cohort \/ dev'[b]["table"] = dev[b]["table"]
        BY <1>1, <3>3, <3>5, PutField DEF Fields
      <3>7. TablesInv'
        BY <1>1, <3>5, <3>6 DEF TablesInv
      <3> QED
        BY <3>4, <3>7
    <2>2. CASE o.op # "copy"
      <3>1. dev' = dev /\ static' = static /\ step' = step
        BY <1>3, <2>2 DEF cpuVars
      <3>2. Memory' = Memory
        BY <1>3, <3>1 DEF Memory
      <3> QED
        BY <1>1, <3>1, <3>2 DEF TablesInv
    <2> QED
      BY <2>1, <2>2
  <1>6. computeQ' \in Seq(ComputeOps) /\ otherQ' \in Seq(ComputeOps)
    BY <1>1, <1>3 DEF TypesInv
  <1>7. TypesInv' /\ PlanInv' /\ StagedInv' /\ SignatureInv'
    BY <1>2, <1>3, <1>4, <1>5, <1>6, StreamsKeep
  <1> QED
    BY <1>5, <1>7 DEF ControlParts

\* ... and a refreshed one is that of a buffer.
LEMMA ExecutedControl ==
  ASSUME ControlParts, NEW o \in ComputeOps, Executes(o),
         results' \in [Logits -> Nat],
         o.op = "record" => o.count <= recorded[o.event],
         computeQ' \in Seq(ComputeOps), otherQ' \in Seq(ComputeOps)
  PROVE  ControlParts'
  <1>1. /\ TypesInv /\ TablesInv /\ copyQ \in Seq(TransferOps)
        /\ reached \in [Events -> Nat] /\ recorded \in [Events -> Nat]
        /\ \A e \in Events : reached[e] <= recorded[e] /\ Memory \in Memories
    BY DEF ControlParts, TypesInv
  <1>3. /\ UNCHANGED <<config, cpuVars, recorded, valid, copyQ, host, adapterVars>>
        /\ reached' = PassedEvents(reached, o)
    BY DEF Executes
  <1>4. reached' \in [Events -> Nat] /\ \A e \in Events : reached'[e] <= recorded[e]
    <2>1. o.op = "record" => o.event \in Events /\ o.count \in Nat
      BY KindsOfOperations DEF RecordOps, Events
    <2> QED
      BY <1>1, <1>3, <2>1 DEF PassedEvents
  <1>5. Memory \in Memories
    BY DEF ControlParts, TypesInv
  <1>6. /\ dev' = DevAfter(o, Memory) /\ snapshot' = SnapshotAfter(o, Memory)
        /\ static' = StaticAfter(o, Memory) /\ pieces' = PiecesAfter(o, Memory)
    BY <1>1, ExecutedParts
  <1>2. Memory' \in Memories
    <2>1. After(o, Memory) \in Memories
      BY <1>5, AfterTyped
    <2>2. /\ DevAfter(o, Memory) \in [Buffers -> [Fields -> Nat]]
          /\ SnapshotAfter(o, Memory) \in Inputs
          /\ StaticAfter(o, Memory) \in [Buckets -> Inputs]
          /\ PiecesAfter(o, Memory) \in [slots : [1 .. PrefillBucket -> Nat], valid : 0 .. PrefillBucket]
      BY <2>1 DEF After, Memories
    <2> QED
      BY <1>6, <2>2 DEF Memory, Memories
  <1>7. Memory.dev = dev /\ Memory.static = static /\ step' = step
    BY <1>3 DEF Memory, cpuVars
  <1>8. dev \in [Buffers -> [Fields -> Nat]] /\ static \in [Buckets -> Inputs]
    BY <1>5, <1>7 DEF Memories
  <1>9. \A b \in Buffers : dev'[b]["table"] = dev[b]["table"]
    <2>1. CASE o.op = "advance"
      <3>1. o.buf \in Buffers
        BY <2>1, KindsOfOperations DEF AdvanceOps
      <3>2. dev' = [dev EXCEPT ![o.buf]["decode"] = o.step]
        BY <1>6, <1>7, <2>1 DEF DevAfter
      <3> QED
        BY <1>8, <3>1, <3>2 DEF Fields
    <2> QED
      BY <1>6, <1>7, <2>1 DEF DevAfter
  <1>10. \A u \in Buckets : \/ static'[u].table = static[u].table
                            \/ \E b \in Buffers : static'[u].table = dev[b]["table"]
    <2>1. CASE o.op = "refresh"
      <3>1. o.bucket \in Buckets /\ BufferOf(o) \in Buffers
        BY <2>1, KindsOfOperations, OneSource DEF RefreshOps
      <3>2. static' = [static EXCEPT ![o.bucket] =
                         [decode |-> dev[BufferOf(o)]["decode"],
                          table  |-> IF o.table THEN dev[BufferOf(o)]["table"]
                                     ELSE static[o.bucket].table]]
        BY <1>6, <1>7, <2>1 DEF StaticAfter
      <3> QED
        BY <1>8, <3>1, <3>2
    <2> QED
      BY <1>6, <1>7, <2>1 DEF StaticAfter
  <1>11. TablesInv'
    BY <1>1, <1>7, <1>9, <1>10 DEF TablesInv
  <1>13. TypesInv' /\ PlanInv' /\ StagedInv' /\ SignatureInv'
    <2>1. copyQ' \in Seq(TransferOps)
      BY <1>1, <1>3
    <2> QED
      BY <1>2, <1>3, <1>4, <2>1, StreamsKeep
  <1> QED
    BY <1>11, <1>13 DEF ControlParts

\* A step of the stream of the current step.
LEMMA ComputeStepControl ==
  ASSUME ControlParts, ComputeStep,
         Head(computeQ).op = "record" => Head(computeQ).count <= recorded[Head(computeQ).event]
  PROVE  ControlParts'
  <1>1. /\ TypesInv /\ computeQ # <<>> /\ computeQ \in Seq(ComputeOps)
        /\ otherQ' = otherQ /\ otherQ \in Seq(ComputeOps) /\ Executes(Head(computeQ))
    BY DEF ControlParts, TypesInv, ComputeStep
  <1>2. Head(computeQ) \in ComputeOps /\ computeQ' \in Seq(ComputeOps)
    BY <1>1, Popping DEF ComputeStep
  <1>3. results' \in [Logits -> Nat]
    <2>1. Memory' = After(Head(computeQ), Memory) /\ Memory \in Memories
      BY <1>1, MemoryAfterHead DEF TypesInv
    <2>2. Memory' \in Memories
      BY <1>2, <2>1, AfterTyped
    <2> QED
      BY <2>2 DEF Memory, Memories
  <1> QED
    BY <1>1, <1>2, <1>3, ExecutedControl

-----------------------------------------------------------------------------
(* The invariant *)

\* What the CPU thread has built holds initially.
LEMMA ControlInitially ==
  ASSUME Init
  PROVE  /\ ControlParts
         /\ copyQ = <<>> /\ computeQ = <<>> /\ otherQ = <<>> /\ pc = "idle" /\ stable = FALSE
         /\ Memory \in Memories /\ Memory.pieces.valid = 0
  <1>1. /\ step = 0 /\ cohort = 0 /\ active = 0 /\ pc = "idle" /\ copyQ = <<>> /\ computeQ = <<>>
        /\ otherQ = <<>>
        /\ pending = Nothing /\ stable = FALSE /\ captured = FALSE
        /\ recorded = [e \in Events |-> 0] /\ reached = [e \in Events |-> 0]
    BY DEF Init
  <1>2. plan \in Plans /\ plan.padded = FALSE
    <2>1. (CHOOSE b \in Buckets : TRUE) \in Buckets
      BY RuntimeAssumption
    <2>2. 1 \in 1 .. (PrefillBucket + 1)
      BY RuntimeAssumption
    <2> QED
      BY <2>1, <2>2 DEF Init, Plans
  <1>3. Memory \in Memories /\ Memory.pieces.valid = 0
    <2>1. dev \in [Buffers -> [Fields -> Nat]] /\ snapshot \in Inputs /\ static \in [Buckets -> Inputs]
          /\ results \in [Logits -> Nat]
      BY DEF Init, Inputs
    <2>2. /\ pieces \in [slots : [1 .. PrefillBucket -> Nat], valid : 0 .. PrefillBucket]
          /\ pieces.valid = 0
      <3>1. 0 \in 0 .. PrefillBucket /\ [i \in 1 .. PrefillBucket |-> 0] \in [1 .. PrefillBucket -> Nat]
        BY RuntimeAssumption
      <3>2. pieces = [slots |-> [i \in 1 .. PrefillBucket |-> 0], valid |-> 0]
        BY DEF Init, CapturedTokens
      <3> QED
        BY <3>1, <3>2
    <2> QED
      BY <2>1, <2>2 DEF Memory, Memories
  <1>4. TypesInv
    <2>1. /\ 0 \in 0 .. MaxSteps /\ 0 \in Buffers
          /\ copyQ \in Seq(TransferOps) /\ computeQ \in Seq(ComputeOps)
          /\ otherQ \in Seq(ComputeOps) /\ pc \in Places
      BY <1>1, RuntimeAssumption DEF Buffers, Places
    <2>2. signature \in [Buckets -> {<<>>} \cup ({"temporary"} \X Temps \X {0})
                                           \cup ({"buffer"} \X Buffers \X Nat)]
      BY DEF Init
    <2>3. /\ recorded \in [Events -> Nat] /\ reached \in [Events -> Nat]
          /\ \A e \in Events : reached[e] <= recorded[e]
      BY <1>1
    <2>4. /\ valid \in [Buffers -> BOOLEAN] /\ host \in [Phases -> Nat]
          /\ version \in [Buffers -> Nat] /\ config \in Configs
          /\ decoding \in BOOLEAN /\ output \in {"device", "host"}
      BY DEF Init
    <2> QED
      BY <1>1, <1>2, <1>3, <2>1, <2>2, <2>3, <2>4 DEF TypesInv
  <1>5. TablesInv
    BY <1>1 DEF Init, TablesInv, Fields
  <1>6. PlanInv /\ StagedInv
    BY <1>1, <1>2 DEF PlanInv, StagedInv
  <1>7. SignatureInv
    BY DEF Init, SignatureInv
  <1> QED
    BY <1>1, <1>3, <1>4, <1>5, <1>6, <1>7 DEF ControlParts

\* The invariant holds initially.
LEMMA Initially ==
  ASSUME Init, config.streams = "one"
  PROVE  IInv
  <1>1. /\ copyQ = <<>> /\ computeQ = <<>> /\ otherQ = <<>> /\ pc = "idle" /\ stable = FALSE
        /\ Memory \in Memories /\ Memory.pieces.valid = 0
    BY ControlInitially
  <1>2. TypesInv /\ TablesInv /\ PlanInv /\ StagedInv /\ SignatureInv
    BY ControlInitially DEF ControlParts
  <1>8. CopiesInv /\ RecordsInv /\ BuffersInv
    BY <1>1 DEF CopiesInv, CopyOrder, RecordsInv, RecordsIn, BuffersInv, Released, ReleasedIn
  <1>9. StreamsInv
    <2>1. Arrived = Memory
      BY <1>1, <1>2, ArrivedAll
    <2>2. PICK a \in Memories : a = Memory
      BY <1>1
    <2>3. Runs(computeQ, Arrived, a)
      BY <1>1, <2>1, <2>2, RunsEmpty
    <2>4. RowsReady(a)
      BY <1>1 DEF RowsReady, DecodeRowsThere
    <2>5. CaptureReady(a)
      BY <1>1, <2>2 DEF CaptureReady
    <2>6. TablesReady(a)
      <3>1. \A u \in Buckets : signature[u] = <<>>
        BY DEF Init
      <3>2. \A b \in Buffers : version[b] \in Nat
        BY DEF Init
      <3>3. \A b \in Buffers : \A v \in Nat : <<>> # <<"buffer", b, v>>
        OBVIOUS
      <3> QED
        BY <3>1, <3>2, <3>3 DEF TablesReady
    <2> QED
      BY <2>3, <2>4, <2>5, <2>6 DEF StreamsInv, Ready
  <1>10. OneStream
    BY <1>1 DEF OneStream
  <1> QED
    BY <1>2, <1>8, <1>9, <1>10 DEF IInv

\* A step in which nothing happens.
LEMMA Stuttering ==
  ASSUME IInv, UNCHANGED vars
  PROVE  IInv'
  <1>1. UNCHANGED <<config, pc, step, plan, active, stable, cohort, decoding, output, recorded,
                    reached, valid, copyQ, computeQ, otherQ, host, dev, snapshot, static, pieces,
                    results, version, signature, pending, captured>>
    BY DEF vars, cpuVars, eventVars, memoryVars, adapterVars
  <1>2. /\ Memory' = Memory /\ Arriving' = Arriving
        /\ \A a : Ready(a) => Ready(a)'
    BY <1>1 DEF Memory, Arriving, IsCopy, Ready, RowsReady, DecodeRowsThere, CaptureReady,
                TablesReady, Planned
  <1>3. Arrived' = Arrived
    BY <1>1, <1>2 DEF Arrived
  <1>4. TypesInv'
    BY <1>1, <1>2 DEF IInv, TypesInv
  <1>5. TablesInv' /\ PlanInv' /\ StagedInv' /\ SignatureInv'
    BY <1>1 DEF IInv, TablesInv, PlanInv, IsMixed, StagedInv, SignatureInv
  <1>6. CopiesInv' /\ RecordsInv'
    BY <1>1 DEF IInv, CopiesInv, IsCopy, CopyOfCohort, RecordsInv
  <1>7. BuffersInv'
    BY <1>1 DEF IInv, BuffersInv, Released, Clear, IsCopy
  <1>8. StreamsInv'
    <2>1. PICK a \in Memories : Runs(computeQ, Arrived, a) /\ Ready(a)
      BY DEF IInv, StreamsInv
    <2>2. Runs(computeQ', Arrived', a) /\ Ready(a)'
      BY <1>1, <1>2, <1>3, <2>1
    <2> QED
      BY <2>2 DEF StreamsInv
  <1>9. OneStream'
    BY <1>1 DEF IInv, OneStream
  <1> QED
    BY <1>4, <1>5, <1>6, <1>7, <1>8, <1>9 DEF IInv

\* Only planning a step and the other stream itself change the other stream.
LEMMA OtherKept ==
  ASSUME \/ WaitHost \/ WaitDevice \/ Drain \/ Build \/ Callback \/ BetweenFails
         \/ Sample \/ Readback \/ CopyStep \/ ComputeStep
  PROVE  otherQ' = otherQ /\ config' = config
  <1>1. CASE WaitHost \/ WaitDevice \/ Drain \/ Sample \/ Readback
    BY <1>1 DEF WaitHost, WaitDevice, Drain, Sample, Readback
  <1>2. CASE Build
    BY <1>2 DEF Build, BuildDecode, BuildPrefill, BuildMixed, Transferred
  <1>3. CASE Callback \/ BetweenFails
    <2>1. UNCHANGED callbackUnchanged
      BY <1>3 DEF Callback, CallbackRaises, DecodeStaged, DecodeEager, DecodeGraph,
                  PrefillCallback, MixedCallback, BetweenFails
    <2> QED
      BY <2>1 DEF callbackUnchanged
  <1>4. CASE CopyStep \/ ComputeStep
    BY <1>4 DEF CopyStep, ComputeStep, Executes
  <1> QED
    BY <1>1, <1>2, <1>3, <1>4

\* Every step keeps what the streams find, and what the CPU thread has built.
LEMMA EveryStep ==
  ASSUME IInv, Next
  PROVE  IInv'
  <1>0. ControlParts
    BY DEF ControlParts, IInv
  <1>1. SUFFICES StreamParts' /\ ControlParts'
    <2>1. OneStream'
      <3>1. CASE BeginStep
        BY <3>1, OneStreamTaken DEF IInv, OneStream, BeginStep
      <3>2. CASE OtherStep \/ Done
        BY <3>2 DEF IInv, OneStream, OtherStep, Done, vars
      <3> QED
        BY <3>1, <3>2, OtherKept DEF IInv, OneStream, Next, Cpu
    <2> QED
      BY <2>1 DEF StreamParts, ControlParts, IInv
  <1>2. CASE BeginStep
    <2>1. StreamParts'
      BY <1>2, BeginStepStreams
    <2>2. computeQ' \in Seq(ComputeOps)
      BY <2>1 DEF StreamParts
    <2> QED
      BY <1>0, <1>2, <2>1, <2>2, BeginStepControl
  <1>3. CASE WaitHost \/ WaitDevice \/ Drain
    <2>1. StreamParts'
      BY <1>3, WaitHostStreams, WaitDeviceStreams, DrainStreams
    <2>2. computeQ' \in Seq(ComputeOps)
      BY <2>1 DEF StreamParts
    <2> QED
      BY <1>0, <1>3, <2>1, <2>2, WaitsControl
  <1>4. CASE Build
    <2>1. StreamParts'
      <3>1. BuildDecode \/ BuildPrefill \/ BuildMixed
        BY <1>4 DEF Build
      <3> QED
        BY <3>1, BuildDecodeStreams, BuildPrefillStreams, BuildMixedStreams
    <2>2. computeQ' \in Seq(ComputeOps)
      BY <2>1 DEF StreamParts
    <2> QED
      BY <1>0, <1>4, <2>1, <2>2, BuildControl
  <1>5. CASE CallbackRaises \/ BetweenFails
    <2>1. StreamParts'
      BY <1>5, CallbackRaisesStreams, BetweenFailsStreams
    <2>2. computeQ' \in Seq(ComputeOps)
      BY <2>1 DEF StreamParts
    <2> QED
      BY <1>0, <1>5, <2>1, <2>2, CallbackRaisesControl
  <1>6. CASE DecodeStaged \/ DecodeEager \/ DecodeGraph
    <2>1. StreamParts'
      BY <1>6, DecodeStagedStreams, DecodeEagerStreams, DecodeGraphStreams
    <2>2. computeQ' \in Seq(ComputeOps)
      BY <2>1 DEF StreamParts
    <2> QED
      BY <1>0, <1>6, <2>1, <2>2, DecodeStagedControl, DecodeEagerControl, DecodeGraphControl
  <1>7. CASE PrefillCallback \/ MixedCallback
    <2>1. StreamParts'
      BY <1>7, PrefillCallbackStreams, MixedCallbackStreams
    <2>2. computeQ' \in Seq(ComputeOps)
      BY <2>1 DEF StreamParts
    <2> QED
      BY <1>0, <1>7, <2>1, <2>2, PrefillControl
  <1>8. CASE Sample \/ Readback
    <2>1. StreamParts'
      BY <1>8, SampleStreams, ReadbackStreams
    <2>2. computeQ' \in Seq(ComputeOps)
      BY <2>1 DEF StreamParts
    <2> QED
      BY <1>0, <1>8, <2>1, <2>2, FinishControl
  <1>9. CASE CopyStep
    <2>1. CopiesOfCohort /\ CopyOrder(copyQ, reached["copied"], recorded["copied"])
      BY DEF IInv, CopiesInv, CopyOfCohort, CopiesOfCohort
    <2> QED
      BY <1>0, <1>9, <2>1, CopyStepStreams, CopyStepControl
  <1>10. CASE ComputeStep
    <2>1. Head(computeQ).op = "record" => Head(computeQ).count <= recorded[Head(computeQ).event]
      BY <1>10, Popping DEF IInv, TypesInv, RecordsInv, RecordsIn, ComputeStep
    <2> QED
      BY <1>0, <1>10, <2>1, ComputeStepStreams, ComputeStepControl
  <1>12. CASE OtherStep
    BY <1>12 DEF OtherStep, IInv, OneStream
  <1>11. CASE Done
    <2>1. UNCHANGED vars
      BY <1>11 DEF Done
    <2>2. IInv'
      BY <2>1, Stuttering
    <2> QED
      BY <2>2 DEF IInv, TypesInv, StreamParts, ControlParts
  <1> QED
    BY <1>2, <1>3, <1>4, <1>5, <1>6, <1>7, <1>8, <1>9, <1>10, <1>11, <1>12 DEF Next, Cpu, Callback

-----------------------------------------------------------------------------
(* What holds whatever streams the caller uses *)

\* Copies come in order, read what was built for them, and are not under way
\* when what they read is built again; no record is counted ahead.
CopyParts ==
  /\ CopyOrder(copyQ, reached["copied"], recorded["copied"])
  /\ CopiesOfCohort
  /\ pc \in {"deviceWait", "decode", "packed"} => copyQ = <<>>
  /\ pc = "prefill" \/ (pc = "decodeCall" /\ plan.prefill) =>
       \A i \in 1 .. Len(copyQ) : IsCopy(i) => copyQ[i].phase # "prefill"
Counted(q, last) == \A k \in 1 .. Len(q) : q[k].op = "record" => q[k].count <= last[q[k].event]

\* ... with what the CPU thread has built.
CommonInv == ControlParts /\ CopyParts /\ Counted(computeQ, recorded) /\ Counted(otherQ, recorded)

\* Other operations leave the records counted as they are ...
LEMMA CountedOn ==
  ASSUME NEW q \in Seq(ComputeOps), NEW ops \in Seq(ComputeOps), NEW last, Counted(q, last),
         \A k \in 1 .. Len(ops) : ops[k].op # "record"
  PROVE  Counted(q \o ops, last) /\ q \o ops \in Seq(ComputeOps)
  <1>1. /\ Len(q) \in Nat /\ Len(ops) \in Nat /\ Len(q \o ops) = Len(q) + Len(ops)
        /\ \A k \in 1 .. Len(q) : (q \o ops)[k] = q[k]
        /\ \A k \in 1 .. Len(ops) : (q \o ops)[Len(q) + k] = ops[k]
        /\ q \o ops \in Seq(ComputeOps)
    OBVIOUS
  <1> DEFINE r == q \o ops
  <1> HIDE DEF r
  <1>2. ASSUME NEW k \in 1 .. Len(r), r[k].op = "record"
        PROVE  r[k].count <= last[r[k].event]
    <2>1. CASE k \in 1 .. Len(q)
      BY <1>1, <1>2, <2>1 DEF Counted, r
    <2>2. CASE k \notin 1 .. Len(q)
      <3>1. k - Len(q) \in 1 .. Len(ops) /\ k = Len(q) + (k - Len(q))
        BY <1>1, <2>2 DEF r
      <3>2. r[k] = ops[k - Len(q)]
        BY <1>1, <3>1 DEF r
      <3> QED
        BY <1>2, <3>1, <3>2
    <2> QED
      BY <2>1, <2>2
  <1>3. Counted(r, last)
    BY <1>2 DEF Counted
  <1> QED
    BY <1>1, <1>3 DEF r

\* ... and a count that grows covers them and the new record.
LEMMA CountedMore ==
  ASSUME NEW q \in Seq(ComputeOps), NEW last \in [Events -> Nat], NEW e \in Events,
         Counted(q, last)
  PROVE  Counted(q, [last EXCEPT ![e] = @ + 1])
  <1> DEFINE n == [last EXCEPT ![e] = @ + 1]
  <1>1. \A f \in Events : last[f] \in Nat /\ n[f] \in Nat /\ last[f] <= n[f]
    OBVIOUS
  <1> HIDE DEF n
  <1>2. ASSUME NEW k \in 1 .. Len(q), q[k].op = "record"
        PROVE  q[k].count <= n[q[k].event]
    <2>1. q[k] \in ComputeOps
      OBVIOUS
    <2>2. q[k].event \in Events /\ q[k].count \in Nat
      BY <1>2, <2>1, KindsOfOperations DEF RecordOps, Events
    <2>3. q[k].count <= last[q[k].event]
      BY <1>2 DEF Counted
    <2> QED
      BY <1>1, <2>2, <2>3
  <1>3. Counted(q, n)
    BY <1>2 DEF Counted
  <1> QED
    BY <1>3 DEF n

\* ... nor does the release of the active buffer count ahead ...
LEMMA CountedRecord ==
  ASSUME TypesInv, NEW q \in Seq(ComputeOps), Counted(q, recorded)
  PROVE  /\ q \o PublishOps \in Seq(ComputeOps)
         /\ Counted(q \o PublishOps, [recorded EXCEPT ![Consumed(active)] = @ + 1])
  <1> DEFINE e == Consumed(active)
             last == [recorded EXCEPT ![e] = @ + 1]
             o == RecordOp(e, recorded[e] + 1)
  <1>1. e \in {"consumed0", "consumed1"} /\ e \in Events /\ recorded \in [Events -> Nat]
        /\ last[e] = recorded[e] + 1 /\ last[e] \in Nat
    BY DEF Consumed, Events, TypesInv
  <1>2. o \in RecordOps /\ o.op = "record" /\ o.event = e /\ o.count = last[e]
    BY <1>1 DEF RecordOp, RecordOps
  <1>3. o \in ComputeOps /\ Counted(q, last)
    BY <1>1, <1>2, CountedMore DEF ComputeOps
  <1>4. PublishOps = <<o>>
    BY DEF PublishOps
  <1> HIDE DEF o, last, e
  <1>5. q \o <<o>> = Append(q, o)
    BY <1>3, AppendingSeveral
  <1>6. /\ Append(q, o) \in Seq(ComputeOps) /\ Len(Append(q, o)) = Len(q) + 1
        /\ Append(q, o)[Len(q) + 1] = o /\ \A k \in 1 .. Len(q) : Append(q, o)[k] = q[k]
        /\ \A k \in 1 .. Len(q) + 1 : k \in 1 .. Len(q) \/ k = Len(q) + 1
    BY <1>3, Appending
  <1>7. last[e] <= last[e]
    BY <1>1
  <1>8. Counted(Append(q, o), last)
    BY <1>2, <1>3, <1>6, <1>7 DEF Counted
  <1> QED
    BY <1>4, <1>5, <1>6, <1>8 DEF last, e

\* ... and a stream that executes its first operation has fewer to count.
LEMMA CountedOff ==
  ASSUME NEW q \in Seq(ComputeOps), q # <<>>, NEW last, Counted(q, last)
  PROVE  /\ Counted(Tail(q), last) /\ Tail(q) \in Seq(ComputeOps) /\ Head(q) \in ComputeOps
         /\ Head(q).op = "record" => Head(q).count <= last[Head(q).event]
  BY Popping DEF Counted

\* The operations a callback enqueues are operations, and no records.
Work(ops) == ops \in Seq(ComputeOps) /\ \A k \in 1 .. Len(ops) : ops[k].op # "record"

\* They can be enqueued one after the other.
LEMMA WorkOf ==
  /\ Work(<<>>)
  /\ \A o \in ComputeOps : o.op # "record" => Work(<<o>>)
  /\ \A o, p \in ComputeOps : o.op # "record" /\ p.op # "record" => Work(<<o, p>>)
  /\ \A a, b : Work(a) /\ Work(b) => Work(a \o b)
  <1>1. ASSUME NEW a, NEW b, Work(a), Work(b)
        PROVE  Work(a \o b)
    <2>1. /\ a \in Seq(ComputeOps) /\ b \in Seq(ComputeOps)
          /\ \A k \in 1 .. Len(a) : a[k].op # "record"
          /\ \A k \in 1 .. Len(b) : b[k].op # "record"
      BY <1>1 DEF Work
    <2>2. /\ Len(a) \in Nat /\ Len(b) \in Nat /\ Len(a \o b) = Len(a) + Len(b)
          /\ \A k \in 1 .. Len(a \o b) : (a \o b)[k] = IF k <= Len(a) THEN a[k] ELSE b[k - Len(a)]
          /\ a \o b \in Seq(ComputeOps)
      BY <2>1
    <2>3. ASSUME NEW k \in 1 .. Len(a \o b)
          PROVE  (a \o b)[k].op # "record"
      <3>1. CASE k <= Len(a)
        BY <2>1, <2>2, <3>1
      <3>2. CASE ~(k <= Len(a))
        <4>1. k - Len(a) \in 1 .. Len(b)
          BY <2>2, <3>2
        <4> QED
          BY <2>1, <2>2, <3>2, <4>1
      <3> QED
        BY <3>1, <3>2
    <2> QED
      BY <2>2, <2>3 DEF Work
  <1> QED
    BY <1>1 DEF Work

\* A callback enqueues such work, and then perhaps the release of the buffer.
LEMMA CallbackWork ==
  ASSUME TypesInv, Callback \/ BetweenFails
  PROVE  \E ops : /\ Work(ops)
                  /\ \/ computeQ' = computeQ \o ops /\ recorded' = recorded
                     \/ /\ computeQ' = computeQ \o ops \o PublishOps
                        /\ recorded' = [recorded EXCEPT ![Consumed(active)] = @ + 1]
  <1> DEFINE Ended(ops) == \/ computeQ' = computeQ \o ops /\ recorded' = recorded
                           \/ /\ computeQ' = computeQ \o ops \o PublishOps
                              /\ recorded' = [recorded EXCEPT ![Consumed(active)] = @ + 1]
  <1>1. \A ops : Published(ops) \/ (\E next : Calls(ops, next)) \/ AfterDecode(ops) => Ended(ops)
    BY DEF Published, Calls, AfterDecode, Caught
  <1>2. CASE CallbackRaises \/ BetweenFails
    <2>1. computeQ' = computeQ \o <<>> /\ recorded' = recorded
      BY <1>2, AppendingSeveral DEF CallbackRaises, BetweenFails, Caught, TypesInv
    <2> QED
      BY <2>1, WorkOf
  <1>3. CASE DecodeStaged
    <2>1. Work(StageOps)
      BY CloneOp, WorkOf DEF Own
    <2> QED
      BY <1>1, <1>3, <2>1 DEF DecodeStaged
  <1>4. CASE DecodeEager
    <2>1. Own(Pass({DecodeSource}, {"decode"}), {"decode"})
      BY SourcesHere, PassOp DEF Logits
    <2>2. Work(<<Pass({DecodeSource}, {"decode"})>>)
      BY <2>1, WorkOf DEF Own
    <2> QED
      BY <1>1, <1>4, <2>2 DEF DecodeEager
  <1>5. CASE DecodeGraph
    <2>1. PICK t \in BOOLEAN : AfterDecode(GraphDecode(t))
      BY <1>5 DEF DecodeGraph, MustCopyTable
    <2>2. Work(GraphDecode(t))
      BY GraphOps, WorkOf DEF Own
    <2> QED
      BY <1>1, <2>1, <2>2
  <1>6. ASSUME NEW S \in OnePrompt, NEW L \in SUBSET Logits
        PROVE  Work(PrefillPass(S, L, plan.tokens))
    <2>1. S \in SUBSET Sources
      BY DEF OnePrompt
    <2> DEFINE n == plan.tokens
    <2>3. Pass(S, L) \in ComputeOps /\ Pass(S, L).op # "record"
      <3>1. Pass(S, L) \in PassOps /\ Pass(S, L).op = "pass"
        BY <2>1, SourcesHere DEF Pass, PassOps
      <3> QED
        BY <3>1 DEF ComputeOps
    <2>4. Warmup \in ComputeOps /\ Warmup.op # "record"
      <3>1. Warmup \in WarmupOps /\ Warmup.op = "warmup"
        BY DEF Warmup, WarmupOps
      <3> QED
        BY <3>1 DEF ComputeOps
    <2>5. CASE config.graphs /\ Fits(n)
      <3>1. n \in 1 .. PrefillBucket
        BY <2>5, SourcesHere, RuntimeAssumption DEF Fits
      <3>2. StageSlots(S, n) \in SlotOps /\ ReplayPieces(S, L, n) \in PiecesOps
        BY <3>1, SourcesHere DEF StageSlots, ReplayPieces, SlotOps, PiecesOps
      <3>3. /\ StageSlots(S, n) \in ComputeOps /\ ReplayPieces(S, L, n) \in ComputeOps
            /\ StageSlots(S, n).op # "record" /\ ReplayPieces(S, L, n).op # "record"
        BY <3>2 DEF ComputeOps, SlotOps, PiecesOps
      <3>4. PrefillPass(S, L, n) = (IF captured THEN <<>> ELSE <<Warmup>>)
                                   \o <<StageSlots(S, n), ReplayPieces(S, L, n)>>
        BY <2>5 DEF PrefillPass, Warmup, StageSlots, ReplayPieces
      <3>5. Work(IF captured THEN <<>> ELSE <<Warmup>>)
        BY <2>4, WorkOf
      <3>6. Work(<<StageSlots(S, n), ReplayPieces(S, L, n)>>)
        BY <3>3, WorkOf
      <3> QED
        BY <3>4, <3>5, <3>6, WorkOf
    <2>6. CASE ~(config.graphs /\ Fits(n))
      BY <2>3, <2>6, WorkOf DEF PrefillPass
    <2> QED
      BY <2>5, <2>6
  <1>7. CASE PrefillCallback
    <2> DEFINE S == {PrefillSource} \cup (IF pending # Nothing THEN {pending} ELSE {})
               L == CombinedFills(pending # Nothing)
    <2>1. PrefillSource \in Sources /\ IsPrompt(PrefillSource)
      BY SourcesHere DEF PrefillSource, IsPrompt
    <2>2. pending # Nothing => pending \in Sources /\ ~IsPrompt(pending)
      BY DEF TypesInv, Sources, IsPrompt
    <2>3. S \in SUBSET Sources /\ PrefillSource \in S /\ \A s \in S : IsPrompt(s) => s = PrefillSource
      BY <2>1, <2>2
    <2>4. L \in SUBSET Logits
      BY DEF CombinedFills, Logits
    <2>5. Calls(PrefillPass(S, L, plan.tokens), "sample")
      BY <1>7 DEF PrefillCallback
    <2> HIDE DEF S, L
    <2>6. S \in OnePrompt
      BY <2>1, <2>3 DEF OnePrompt
    <2> QED
      BY <1>1, <1>6, <2>4, <2>5, <2>6
  <1>8. CASE MixedCallback
    <2>1. {MixedSource} \in OnePrompt /\ {"decode", "prefill"} \in SUBSET Logits
      BY SourcesHere DEF Logits
    <2>2. Calls(PrefillPass({MixedSource}, {"decode", "prefill"}, plan.tokens), "sample")
      BY <1>8 DEF MixedCallback
    <2> QED
      BY <1>1, <1>6, <2>1, <2>2
  <1> QED
    BY <1>2, <1>3, <1>4, <1>5, <1>7, <1>8 DEF Callback

\* Copies that nobody disturbs stay as they are.
LEMMA CopiesKept ==
  ASSUME CopyParts, UNCHANGED <<copyQ, reached, active, cohort, host>>,
         recorded'["copied"] = recorded["copied"],
         pc' \in {"deviceWait", "decode", "packed"} => copyQ = <<>>,
         pc' = "prefill" \/ (pc' = "decodeCall" /\ plan'.prefill) =>
           \A i \in 1 .. Len(copyQ) : IsCopy(i) => copyQ[i].phase # "prefill"
  PROVE  CopyParts'
  <1>1. CopiesOfCohort' /\ \A i : IsCopy(i)' = IsCopy(i)
    BY DEF CopyParts, CopiesOfCohort, IsCopy
  <1> QED
    BY <1>1 DEF CopyParts

\* Planning a step may exchange the two compute streams.
LEMMA CommonBegin ==
  ASSUME CommonInv, BeginStep
  PROVE  CommonInv'
  <1>1. TypesInv /\ computeQ \in Seq(ComputeOps) /\ otherQ \in Seq(ComputeOps)
    BY DEF CommonInv, ControlParts, TypesInv
  <1>2. /\ UNCHANGED <<copyQ, reached, recorded, active, cohort, host>>
        /\ pc' = "hostWait" \/ (pc' = "decodeCall" /\ ~plan'.prefill)
    BY DEF BeginStep, eventVars, memoryVars
  <1>3. PICK changed \in BOOLEAN, ops \in {<<AdvanceTo(step + 1)>>, <<>>} : TakeStream(changed, ops)
    BY DEF BeginStep
  <1>4. Work(ops)
    <2>1. AdvanceTo(step + 1) \in ComputeOps /\ AdvanceTo(step + 1).op # "record"
      BY <1>1, AdvanceOp DEF Advance, AdvanceTo, Own
    <2> QED
      BY <2>1, WorkOf
  <1>5. \A q \in {computeQ, otherQ} : Counted(q \o ops, recorded) /\ q \o ops \in Seq(ComputeOps)
    BY <1>1, <1>4, CountedOn DEF Work, CommonInv
  <1>6. computeQ' \in {q \o ops : q \in {computeQ, otherQ}} /\ otherQ' \in {computeQ, otherQ}
    BY <1>3 DEF TakeStream
  <1>7. computeQ' \in Seq(ComputeOps) /\ Counted(computeQ', recorded')
    BY <1>2, <1>5, <1>6
  <1>8. Counted(otherQ', recorded')
    BY <1>2, <1>6 DEF CommonInv
  <1>9. ControlParts'
    BY <1>7, BeginStepControl DEF CommonInv
  <1>10. CopyParts'
    BY <1>2, CopiesKept DEF CommonInv
  <1> QED
    BY <1>7, <1>8, <1>9, <1>10 DEF CommonInv

\* Once the staging buffer may be used again no copy is under way.
LEMMA NoCopies ==
  ASSUME TypesInv, CopyParts, Synchronized("copied")
  PROVE  copyQ = <<>>
  <1>1. SUFFICES ASSUME copyQ # <<>> PROVE FALSE
    OBVIOUS
  <1>2. Len(copyQ) \in 1 .. Len(copyQ) /\ copyQ[Len(copyQ)] \in TransferOps
    BY <1>1 DEF TypesInv
  <1>3. copyQ[Len(copyQ)].op = "record"
    BY <1>1 DEF CopyParts, CopyOrder
  <1>4. copyQ[Len(copyQ)].count \in Nat
    BY <1>2, <1>3, KindsOfTransfers
  <1>5. /\ reached["copied"] < copyQ[Len(copyQ)].count
        /\ copyQ[Len(copyQ)].count <= recorded["copied"]
    BY <1>2, <1>3 DEF CopyParts, CopyOrder
  <1>6. reached["copied"] = recorded["copied"] /\ reached["copied"] \in Nat
    BY DEF Synchronized, TypesInv, Events
  <1> QED
    BY <1>4, <1>5, <1>6

\* The steps that wait: the staging buffer is built only when no copy is under way.
LEMMA CommonWaits ==
  ASSUME CommonInv, WaitHost \/ WaitDevice \/ Drain
  PROVE  CommonInv'
  <1>1. TypesInv /\ CopyParts /\ computeQ \in Seq(ComputeOps)
    BY DEF CommonInv, ControlParts, TypesInv
  <1>2. UNCHANGED <<computeQ, otherQ, copyQ, reached, recorded, host>>
    BY DEF WaitHost, WaitDevice, Drain, eventVars, memoryVars
  <1>3. ControlParts'
    BY <1>1, <1>2, WaitsControl DEF CommonInv
  <1>4. copyQ = <<>> \/ pc' = "idle"
    <2>1. CASE WaitHost
      BY <1>1, <2>1, NoCopies DEF WaitHost, HostReusable
    <2>2. CASE WaitDevice
      BY <1>1, <2>2 DEF WaitDevice, CopyParts
    <2>3. CASE Drain
      BY <2>3 DEF Drain
    <2> QED
      BY <2>1, <2>2, <2>3
  <1>5. CopyParts'
    <2>1. CASE copyQ = <<>>
      <3>1. CopiesOfCohort'
        BY <1>2, <2>1 DEF CopiesOfCohort
      <3>2. CopyOrder(copyQ', reached'["copied"], recorded'["copied"])
        BY <1>1, <1>2 DEF CopyParts
      <3>3. \A i \in 1 .. Len(copyQ') : FALSE
        BY <1>2, <2>1
      <3> QED
        BY <1>2, <2>1, <3>1, <3>2, <3>3 DEF CopyParts
    <2>2. CASE pc' = "idle"
      <3>1. Drain
        BY <2>2 DEF WaitHost, WaitDevice
      <3>2. UNCHANGED <<active, cohort>>
        BY <3>1 DEF Drain
      <3> QED
        BY <1>1, <1>2, <2>2, <3>2, CopiesKept
    <2> QED
      BY <1>4, <2>1, <2>2
  <1> QED
    BY <1>2, <1>3, <1>5 DEF CommonInv

\* Building is the transfer of one phase.
LEMMA BuildOnePhase ==
  ASSUME CommonInv, Build
  PROVE  /\ UNCHANGED <<config, active, cohort, dev, snapshot, static, pieces, results, plan, pending>>
         /\ cohort = step
         /\ \E phase \in Phases :
              /\ Transferred(phase)
              /\ host'[phase] = cohort
              /\ \A i \in 1 .. Len(copyQ) : IsCopy(i) => host'[copyQ[i].phase] = cohort
              /\ phase \in {"decode", "mixed"} => copyQ = <<>>
              /\ phase = "decode" => pc = "decode" /\ pc' = "decodeCall"
              /\ phase = "prefill" => pc = "prefill" /\ pc' = "prefillCall"
              /\ phase = "mixed" => pc = "packed" /\ pc' = "packedCall"
  <1>1. TypesInv /\ CopyParts /\ PlanInv /\ host \in [Phases -> Nat] /\ cohort \in Nat
    BY DEF CommonInv, ControlParts, TypesInv
  <1>2. UNCHANGED <<config, active, cohort, dev, snapshot, static, pieces, results, plan, pending>>
        /\ cohort = step
    BY <1>1 DEF Build, BuildDecode, BuildPrefill, BuildMixed, PlanInv, adapterVars
  <1>3. PICK phase \in Phases :
          /\ Transferred(phase)
          /\ host' = [host EXCEPT ![phase] = step,
                                  !["prefill"] = IF \/ phase = "prefill"
                                                    \/ phase = "decode" /\ plan.prefill /\ ~config.overlap
                                                 THEN step ELSE @]
          /\ phase = "decode" => pc = "decode" /\ pc' = "decodeCall"
          /\ phase = "prefill" => pc = "prefill" /\ pc' = "prefillCall"
          /\ phase = "mixed" => pc = "packed" /\ pc' = "packedCall"
    <2>1. CASE BuildDecode
      <3>1. "decode" \in Phases /\ Transferred("decode") /\ pc = "decode" /\ pc' = "decodeCall"
        BY <2>1 DEF BuildDecode, Phases
      <3>2. host' = [host EXCEPT !["decode"] = step,
                          !["prefill"] = IF \/ "decode" = "prefill"
                                            \/ "decode" = "decode" /\ plan.prefill /\ ~config.overlap
                                         THEN step ELSE @]
        BY <1>1, <2>1 DEF BuildDecode
      <3> QED
        BY <3>1, <3>2
    <2>2. CASE BuildPrefill
      <3>1. "prefill" \in Phases /\ Transferred("prefill") /\ pc = "prefill" /\ pc' = "prefillCall"
            /\ host' = [host EXCEPT !["prefill"] = step]
        BY <2>2 DEF BuildPrefill, Phases
      <3>2. host' = [host EXCEPT !["prefill"] = step,
                          !["prefill"] = IF \/ "prefill" = "prefill"
                                            \/ "prefill" = "decode" /\ plan.prefill /\ ~config.overlap
                                         THEN step ELSE @]
        BY <1>1, <3>1 DEF Phases
      <3> QED
        BY <3>1, <3>2
    <2>3. CASE BuildMixed
      <3>1. "mixed" \in Phases /\ Transferred("mixed") /\ pc = "packed" /\ pc' = "packedCall"
            /\ host' = [host EXCEPT !["mixed"] = step]
        BY <2>3 DEF BuildMixed, Phases
      <3>2. host' = [host EXCEPT !["mixed"] = step,
                          !["prefill"] = IF \/ "mixed" = "prefill"
                                            \/ "mixed" = "decode" /\ plan.prefill /\ ~config.overlap
                                         THEN step ELSE @]
        BY <1>1, <3>1 DEF Phases
      <3> QED
        BY <3>1, <3>2
    <2> QED
      BY <2>1, <2>2, <2>3 DEF Build
  <1>4. /\ host'[phase] = cohort
        /\ \A p \in Phases : host'[p] = host[p] \/ p = phase \/ (p = "prefill" /\ phase = "decode")
    BY <1>1, <1>2, <1>3 DEF Phases
  <1>5. \A i \in 1 .. Len(copyQ) : IsCopy(i) => copyQ[i].phase \in Phases
    BY <1>1, KindsOfTransfers DEF TypesInv, IsCopy
  <1>6. phase \in {"decode", "mixed"} => copyQ = <<>>
    BY <1>1, <1>3 DEF CopyParts
  <1>7. \A i \in 1 .. Len(copyQ) : IsCopy(i) => host'[copyQ[i].phase] = cohort
    <2>1. SUFFICES ASSUME NEW i \in 1 .. Len(copyQ), IsCopy(i)
                   PROVE  host'[copyQ[i].phase] = cohort
      OBVIOUS
    <2>2. phase = "prefill"
      BY <1>6, <2>1 DEF Phases
    <2>3. host[copyQ[i].phase] = cohort
      BY <1>1, <2>1 DEF CopyParts, CopiesOfCohort
    <2> QED
      BY <1>4, <1>5, <2>1, <2>2, <2>3
  <1> QED
    BY <1>2, <1>3, <1>4, <1>6, <1>7

\* Building and transferring a phase.
LEMMA CommonBuild ==
  ASSUME CommonInv, Build
  PROVE  CommonInv'
  <1>1. TypesInv /\ CopyParts /\ PlanInv /\ computeQ \in Seq(ComputeOps) /\ otherQ \in Seq(ComputeOps)
        /\ recorded \in [Events -> Nat] /\ host \in [Phases -> Nat] /\ cohort \in Nat
    BY DEF CommonInv, ControlParts, TypesInv
  <1>2. UNCHANGED <<active, cohort, dev, snapshot, static, pieces, results, plan>> /\ cohort = step
    BY BuildOnePhase
  <1>3. PICK phase \in Phases :
          /\ Transferred(phase)
          /\ host'[phase] = cohort
          /\ \A i \in 1 .. Len(copyQ) : IsCopy(i) => host'[copyQ[i].phase] = cohort
          /\ phase \in {"decode", "mixed"} => copyQ = <<>>
          /\ phase = "decode" => pc = "decode" /\ pc' = "decodeCall"
          /\ phase = "prefill" => pc = "prefill" /\ pc' = "prefillCall"
          /\ phase = "mixed" => pc = "packed" /\ pc' = "packedCall"
    BY BuildOnePhase
  <1>4. /\ CopyOrder(copyQ', reached'["copied"], recorded'["copied"]) /\ CopiesOfCohort'
        /\ \A i \in 1 .. Len(copyQ') :
             IsCopy(i)' => \/ copyQ'[i].phase = phase
                           \/ i \in 1 .. Len(copyQ) /\ IsCopy(i) /\ copyQ'[i] = copyQ[i]
    BY <1>1, <1>2, <1>3, TransferCopies DEF CopyParts
  <1>5. CopyParts'
    <2>1. pc' \notin {"deviceWait", "decode", "packed"}
      BY <1>3 DEF Phases
    <2>2. ASSUME pc' = "prefill" \/ pc' = "decodeCall", NEW i \in 1 .. Len(copyQ'), IsCopy(i)'
          PROVE  copyQ'[i].phase # "prefill"
      BY <1>3, <1>4, <2>2 DEF Phases
    <2> QED
      BY <1>4, <2>1, <2>2 DEF CopyParts
  <1>6. /\ computeQ' = computeQ \o TransferCompute /\ otherQ' = otherQ
         /\ recorded' = [recorded EXCEPT !["copied"] = @ + 1]
    BY <1>3 DEF Transferred
  <1>7. Work(TransferCompute)
    <2>1. WaitOp("copied", recorded["copied"] + 1) \in WaitOps
      BY <1>1 DEF WaitOp, WaitOps, Events
    <2>2. WaitOp("copied", recorded["copied"] + 1) \in ComputeOps
          /\ WaitOp("copied", recorded["copied"] + 1).op # "record"
      BY <2>1 DEF ComputeOps, WaitOp
    <2> QED
      BY <2>2, WorkOf DEF TransferCompute
  <1>8. "copied" \in Events
    BY DEF Events
  <1>9. computeQ' \in Seq(ComputeOps) /\ Counted(computeQ', recorded') /\ Counted(otherQ', recorded')
    BY <1>1, <1>6, <1>7, <1>8, CountedOn, CountedMore DEF Work, CommonInv
  <1>10. ControlParts'
    BY <1>9, BuildControl DEF CommonInv
  <1> QED
    BY <1>5, <1>9, <1>10 DEF CommonInv

\* The callbacks, on whichever stream they enqueue their work.
LEMMA CommonCallback ==
  ASSUME CommonInv, Callback \/ BetweenFails
  PROVE  CommonInv'
  <1>1. TypesInv /\ CopyParts /\ computeQ \in Seq(ComputeOps) /\ otherQ \in Seq(ComputeOps)
        /\ recorded \in [Events -> Nat] /\ ControlParts /\ PlanInv
    BY DEF CommonInv, ControlParts, TypesInv
  <1>2. UNCHANGED callbackUnchanged
    BY DEF Callback, CallbackRaises, DecodeStaged, DecodeEager, DecodeGraph,
           PrefillCallback, MixedCallback, BetweenFails
  <1>3. UNCHANGED <<copyQ, reached, active, cohort, host, otherQ, plan>>
    BY <1>2 DEF callbackUnchanged, memoryVars
  <1>4. PICK ops : /\ Work(ops)
                   /\ \/ computeQ' = computeQ \o ops /\ recorded' = recorded
                      \/ /\ computeQ' = computeQ \o ops \o PublishOps
                         /\ recorded' = [recorded EXCEPT ![Consumed(active)] = @ + 1]
    BY <1>1, CallbackWork
  <1>5. computeQ \o ops \in Seq(ComputeOps) /\ Counted(computeQ \o ops, recorded)
    BY <1>1, <1>4, CountedOn DEF Work, CommonInv
  <1>6. Consumed(active) \in Events /\ Consumed(active) # "copied" /\ "copied" \in Events
    BY DEF Consumed, Events
  <1>7. /\ computeQ' \in Seq(ComputeOps) /\ Counted(computeQ', recorded')
        /\ Counted(otherQ', recorded') /\ recorded'["copied"] = recorded["copied"]
    <2>1. CASE computeQ' = computeQ \o ops /\ recorded' = recorded
      BY <1>3, <1>5, <2>1 DEF CommonInv
    <2>2. CASE /\ computeQ' = computeQ \o ops \o PublishOps
               /\ recorded' = [recorded EXCEPT ![Consumed(active)] = @ + 1]
      <3>1. Counted(otherQ, recorded')
        BY <1>1, <1>6, <2>2, CountedMore DEF CommonInv
      <3>2. computeQ' \in Seq(ComputeOps) /\ Counted(computeQ', recorded')
        BY <1>1, <1>5, <2>2, CountedRecord
      <3> QED
        BY <1>1, <1>3, <1>6, <2>2, <3>1, <3>2
    <2> QED
      BY <1>4, <2>1, <2>2
  <1>8. ControlParts'
    BY <1>1, <1>7, CallbackRaisesControl, DecodeStagedControl, DecodeEagerControl, DecodeGraphControl,
       PrefillControl DEF Callback
  <1>9. /\ pc' \in {"prefill", "sample", "drain"}
        /\ pc' = "prefill" => pc = "decodeCall" /\ plan.prefill
    BY DEF Callback, CallbackRaises, DecodeStaged, DecodeEager, DecodeGraph, PrefillCallback,
           MixedCallback, BetweenFails, AfterDecode, Published, Calls, Caught, Deferring
  <1>10. CopyParts'
    BY <1>1, <1>3, <1>7, <1>9, CopiesKept DEF CopyParts
  <1> QED
    BY <1>7, <1>8, <1>10 DEF CommonInv

\* Sampling and reading the tokens back.
LEMMA CommonFinish ==
  ASSUME CommonInv, Sample \/ Readback
  PROVE  CommonInv'
  <1>1. TypesInv /\ CopyParts /\ computeQ \in Seq(ComputeOps) /\ otherQ \in Seq(ComputeOps)
        /\ recorded \in [Events -> Nat] /\ ControlParts
    BY DEF CommonInv, ControlParts, TypesInv
  <1>2. UNCHANGED <<copyQ, reached, active, cohort, host, otherQ, plan>>
        /\ pc' \in {"readback", "idle"}
    BY DEF Sample, Readback, eventVars, memoryVars
  <1>3. Consumed(active) \in Events /\ Consumed(active) # "copied" /\ "copied" \in Events
    BY DEF Consumed, Events
  <1>4. /\ computeQ' \in Seq(ComputeOps) /\ Counted(computeQ', recorded')
        /\ Counted(otherQ', recorded') /\ recorded'["copied"] = recorded["copied"]
    <2>1. CASE Sample
      <3>1. recorded' = recorded /\ computeQ' \in {computeQ, Append(computeQ, SampleOp)}
        BY <2>1 DEF Sample, eventVars, SampleOp
      <3>2. SampleOp \in ComputeOps /\ SampleOp.op # "record"
        BY <1>1, SamplingOp DEF Own
      <3>3. Append(computeQ, SampleOp) = computeQ \o <<SampleOp>>
        BY <1>1, <3>2, AppendingSeveral
      <3>4. Append(computeQ, SampleOp) \in Seq(ComputeOps) /\ Counted(Append(computeQ, SampleOp), recorded)
        BY <1>1, <3>2, <3>3, WorkOf, CountedOn DEF Work, CommonInv
      <3> QED
        BY <1>1, <1>2, <3>1, <3>4 DEF CommonInv
    <2>2. CASE Readback
      <3>1. /\ computeQ' = computeQ \o PublishOps
            /\ recorded' = [recorded EXCEPT ![Consumed(active)] = @ + 1]
        BY <2>2 DEF Readback
      <3>2. Counted(otherQ, recorded')
        BY <1>1, <1>3, <3>1, CountedMore DEF CommonInv
      <3>3. computeQ' \in Seq(ComputeOps) /\ Counted(computeQ', recorded')
        BY <1>1, <3>1, CountedRecord DEF CommonInv
      <3> QED
        BY <1>1, <1>2, <1>3, <3>1, <3>2, <3>3
    <2> QED
      BY <2>1, <2>2
  <1>5. ControlParts'
    BY <1>1, <1>4, FinishControl
  <1>6. CopyParts'
    BY <1>1, <1>2, <1>4, CopiesKept
  <1> QED
    BY <1>4, <1>5, <1>6 DEF CommonInv

\* The copy stream.
LEMMA CommonCopy ==
  ASSUME CommonInv, CopyStep
  PROVE  CommonInv'
  <1>1. TypesInv /\ CopyParts /\ ControlParts /\ CopiesOfCohort
        /\ CopyOrder(copyQ, reached["copied"], recorded["copied"])
    BY DEF CommonInv, ControlParts, CopyParts
  <1>2. UNCHANGED <<pc, plan, recorded, computeQ, otherQ>> /\ copyQ # <<>>
    BY DEF CopyStep, cpuVars
  <1>3. ControlParts'
    BY <1>1, CopyStepControl
  <1>4. /\ CopyOrder(copyQ', reached'["copied"], recorded'["copied"]) /\ CopiesOfCohort'
        /\ \A i \in 1 .. Len(copyQ') :
             IsCopy(i)' => i + 1 \in 1 .. Len(copyQ) /\ IsCopy(i + 1) /\ copyQ'[i] = copyQ[i + 1]
    BY <1>1, CopyStepArrives
  <1>5. CopyParts'
    BY <1>1, <1>2, <1>4 DEF CopyParts
  <1> QED
    BY <1>2, <1>3, <1>5 DEF CommonInv

\* The compute streams.
LEMMA CommonExecute ==
  ASSUME CommonInv, ComputeStep \/ OtherStep
  PROVE  CommonInv'
  <1>1. /\ TypesInv /\ ControlParts /\ CopyParts
        /\ computeQ \in Seq(ComputeOps) /\ otherQ \in Seq(ComputeOps)
        /\ Counted(computeQ, recorded) /\ Counted(otherQ, recorded)
        /\ results \in [Logits -> Nat] /\ reached \in [Events -> Nat]
    BY DEF CommonInv, ControlParts, TypesInv, Memory, Memories
  <1>2. PICK q \in {computeQ, otherQ} : q # <<>> /\ Executes(Head(q))
    BY DEF ComputeStep, OtherStep
  <1>3. /\ UNCHANGED <<pc, plan, copyQ, active, cohort, host, recorded>>
        /\ reached' = PassedEvents(reached, Head(q))
    BY <1>2 DEF Executes, cpuVars
  <1>4. Head(q) \in ComputeOps /\ (Head(q).op = "record" => Head(q).count <= recorded[Head(q).event])
    BY <1>1, <1>2, CountedOff
  <1>5. /\ computeQ' \in Seq(ComputeOps) /\ otherQ' \in Seq(ComputeOps)
        /\ Counted(computeQ', recorded') /\ Counted(otherQ', recorded')
    BY <1>1, <1>3, CountedOff DEF ComputeStep, OtherStep
  <1>6. ControlParts'
    <2>1. CASE ComputeStep
      <3>1. computeQ # <<>>
        BY <2>1 DEF ComputeStep
      <3> QED
        BY <1>1, <2>1, <3>1, CountedOff, ComputeStepControl
    <2>2. CASE OtherStep
      <3>1. results' = results
        BY <2>2 DEF OtherStep
      <3> QED
        BY <1>1, <1>2, <1>4, <1>5, <3>1, ExecutedControl
    <2> QED
      BY <2>1, <2>2
  <1>7. reached'["copied"] = reached["copied"]
    <2>1. Head(q).op = "record" => Head(q).event # "copied"
      BY <1>4, KindsOfOperations DEF RecordOps
    <2> QED
      BY <1>1, <1>3, <2>1 DEF PassedEvents, Events
  <1>8. CopyParts'
    <2>1. CopiesOfCohort' /\ \A i : IsCopy(i)' = IsCopy(i)
      BY <1>1, <1>3 DEF CopyParts, CopiesOfCohort, IsCopy
    <2> QED
      BY <1>1, <1>3, <1>7, <2>1 DEF CopyParts
  <1> QED
    BY <1>5, <1>6, <1>8 DEF CommonInv

\* Initially no stream has anything to do.
LEMMA CommonInitially ==
  ASSUME Init
  PROVE  CommonInv
  <1>1. ControlParts /\ copyQ = <<>> /\ computeQ = <<>> /\ otherQ = <<>> /\ pc = "idle"
    BY ControlInitially
  <1>2. CopyParts
    BY <1>1 DEF CopyParts, CopyOrder, CopiesOfCohort
  <1> QED
    BY <1>1, <1>2 DEF CommonInv, Counted

\* A step in which nothing happens.
LEMMA CommonStuttering ==
  ASSUME CommonInv, UNCHANGED vars
  PROVE  CommonInv'
  <1>1. UNCHANGED <<config, pc, step, plan, active, stable, cohort, decoding, output, recorded,
                    reached, valid, copyQ, computeQ, otherQ, host, dev, snapshot, static, pieces,
                    results, version, signature, pending, captured>>
    BY DEF vars, cpuVars, eventVars, memoryVars, adapterVars
  <1>2. TypesInv' /\ TablesInv' /\ PlanInv' /\ StagedInv' /\ SignatureInv'
    <2>1. Memory' = Memory
      BY <1>1 DEF Memory
    <2>2. TypesInv'
      BY <1>1, <2>1 DEF CommonInv, ControlParts, TypesInv
    <2>3. TablesInv' /\ PlanInv' /\ StagedInv' /\ SignatureInv'
      BY <1>1 DEF CommonInv, ControlParts, TablesInv, PlanInv, IsMixed, StagedInv, SignatureInv
    <2> QED
      BY <2>2, <2>3
  <1>3. CopyParts'
    BY <1>1, CopiesKept DEF CommonInv, CopyParts
  <1> QED
    BY <1>1, <1>2, <1>3 DEF CommonInv, ControlParts, Counted

\* Every step keeps it.
LEMMA CommonStep ==
  ASSUME CommonInv, Next
  PROVE  CommonInv'
  <1>1. CASE Done
    BY <1>1, CommonStuttering DEF Done
  <1> QED
    BY <1>1, CommonBegin, CommonWaits, CommonBuild, CommonCallback, CommonFinish, CommonCopy,
       CommonExecute DEF Next, Cpu

\* It holds of every behaviour, and no assumption is made about the caller.
LEMMA CommonInvariance == Spec => []CommonInv
  <1>1. Init => CommonInv
    BY CommonInitially
  <1>2. CommonInv /\ [Next]_vars => CommonInv'
    BY CommonStep, CommonStuttering
  <1> QED
    BY <1>1, <1>2, PTL DEF Spec

\* Whatever streams the caller uses, every variable has its type; besides, no
\* stream passes a record that was not made, no static page table is younger than
\* the current step, and no replayed prefill has more valid tokens than its
\* bucket (TypeOK).
THEOREM TypesHold == Spec => []TypeOK
  <1>1. ASSUME CommonInv
        PROVE  TypeOK
    <2>1. TypesInv /\ TablesInv /\ cohort <= step
      BY <1>1 DEF CommonInv, ControlParts, PlanInv
    <2>2. /\ dev \in [Buffers -> [Fields -> Nat]] /\ snapshot \in Inputs
          /\ static \in [Buckets -> Inputs]
          /\ pieces \in [slots : [1 .. PrefillBucket -> Nat], valid : 0 .. PrefillBucket]
          /\ results \in [Logits -> Nat]
      BY <2>1 DEF TypesInv, Memory, Memories
    <2>3. cohort \in 0 .. step
      BY <2>1 DEF TypesInv
    <2>4. signature \in [Buckets -> TableSignatures]
      BY <2>1 DEF TypesInv, TableSignatures
    <2> QED
      BY <2>1, <2>2, <2>3, <2>4 DEF TypesInv, TablesInv, TypeOK
  <1>2. CommonInv => TypeOK
    BY <1>1
  <1> QED
    BY <1>2, CommonInvariance, PTL

\* Whatever streams the caller uses, the DMA of a copy reads what the CPU thread
\* built for it: the staging buffer is not rebuilt while a copy of it is under
\* way (CopiesReadTheirSource).
THEOREM CopiesReadWhatWasBuilt == Spec => []CopiesReadTheirSource
  <1>1. ASSUME CommonInv
        PROVE  CopiesReadTheirSource
    <2>1. SUFFICES ASSUME copyQ # <<>>, Head(copyQ).op = "copy"
                   PROVE  host[Head(copyQ).phase] = Head(copyQ).step
      BY DEF CopiesReadTheirSource
    <2>2. copyQ \in Seq(TransferOps) /\ CopiesOfCohort
      BY <1>1 DEF CommonInv, ControlParts, TypesInv, CopyParts
    <2>3. Head(copyQ) = copyQ[1] /\ 1 \in 1 .. Len(copyQ)
      BY <2>1, <2>2, Popping
    <2> QED
      BY <2>1, <2>2, <2>3 DEF CopiesOfCohort, IsCopy
  <1>2. CommonInv => CopiesReadTheirSource
    BY <1>1
  <1> QED
    BY <1>2, CommonInvariance, PTL

-----------------------------------------------------------------------------
(* What one compute stream promises *)

\* The caller runs every step on the same stream.
OneStreamOnly == \A c \in Configs : c.streams = "one"

\* The inductive invariant holds of every behaviour.
LEMMA Invariance ==
  ASSUME OneStreamOnly
  PROVE  Spec => []IInv
  <1>1. Init => IInv
    BY Initially DEF Init, OneStreamOnly
  <1>2. IInv /\ [Next]_vars => IInv'
    BY EveryStep, Stuttering
  <1> QED
    BY <1>1, <1>2, PTL DEF Spec

\* Only the one stream has a head.
LEMMA OneHead ==
  ASSUME IInv, NEW ops, NEW op \in Running(ops)
  PROVE  computeQ # <<>> /\ op = Head(computeQ) /\ op.op \in ops
  BY DEF IInv, OneStream, Running

\* The head of the queue finds in memory, as it is now, what it has to.
LEMMA HeadFinds ==
  ASSUME IInv, computeQ # <<>>
  PROVE  Head(computeQ) \in ComputeOps /\ Right(Head(computeQ), Memory)
  <1> DEFINE o == Head(computeQ)
  <1>1. /\ TypesInv /\ computeQ \in Seq(ComputeOps) /\ active \in Buffers /\ cohort \in Nat
        /\ Memory \in Memories
    BY DEF IInv, TypesInv
  <1>2. o \in ComputeOps
    BY <1>1, Popping
  <1>3. Closed(Arriving) /\ Untouched(o, active, Arriving)
    BY HeadUntouched
  <1>4. PICK a \in Memories : Runs(computeQ, Arrived, a)
    BY DEF IInv, StreamsInv
  <1>5. Arrived \in Memories
    BY <1>1, ArrivedTyped
  <1>6. Right(o, Arrived)
    BY <1>1, <1>4, <1>5, RunsOff
  <1> HIDE DEF o
  <1>7. Right(o, Put(Arriving, active, cohort, Memory))
    BY <1>6 DEF Arrived
  <1>8. Right(o, Memory)
    BY <1>1, <1>2, <1>3, <1>7, RightPut
  <1> QED
    BY <1>2, <1>8 DEF o

\* What a source holds when an operation finds in it what it has to.
LEMMA SourceAgrees ==
  ASSUME NEW s \in Sources, NEW o, Finds(s, o, Memory)
  PROVE  Agree(SourceReads(s, o))
  <1>1. Memory.dev = dev /\ Memory.snapshot = snapshot
    BY DEF Memory
  <1>2. s.from \in {"decode", "prefill", "mixed", "snapshot"}
    BY DEF Sources
  <1>3. CASE s.from = "decode"
    <2>1. SourceReads(s, o) = {<<dev[s.buf]["decode"], o.step>>, <<dev[s.buf]["table"], o.cohort>>}
      BY <1>3 DEF SourceReads
    <2>2. dev[s.buf]["decode"] = o.step /\ dev[s.buf]["table"] = o.cohort
      BY <1>1, <1>3 DEF Finds
    <2> QED
      BY <2>1, <2>2 DEF Agree
  <1>4. CASE s.from = "snapshot"
    <2>1. SourceReads(s, o) = {<<snapshot.decode, o.step>>, <<snapshot.table, o.cohort>>}
      BY <1>4 DEF SourceReads
    <2>2. snapshot.decode = o.step /\ snapshot.table = o.cohort
      BY <1>1, <1>4 DEF Finds
    <2> QED
      BY <2>1, <2>2 DEF Agree
  <1>5. CASE s.from = "prefill"
    <2>1. SourceReads(s, o) = {<<dev[s.buf]["prefill"], o.step>>}
      BY <1>5 DEF SourceReads
    <2>2. dev[s.buf]["prefill"] = o.step
      BY <1>1, <1>5 DEF Finds
    <2> QED
      BY <2>1, <2>2 DEF Agree
  <1>6. CASE s.from = "mixed"
    <2>1. SourceReads(s, o) = {<<dev[s.buf]["mixed"], o.step>>}
      BY <1>6 DEF SourceReads
    <2>2. dev[s.buf]["mixed"] = o.step
      BY <1>1, <1>6 DEF Finds
    <2> QED
      BY <2>1, <2>2 DEF Agree
  <1> QED
    BY <1>2, <1>3, <1>4, <1>5, <1>6

\* On one compute stream, and when no cached table can be a temporary, a replayed
\* decode graph attends over the pages of its own cohort (ReplayReadsItsTable).
\* The second hypothesis is needed: a cached signature survives a temporary at
\* the same address.
THEOREM ReplaysReadTheirTable ==
  ASSUME OneStreamOnly, NoStaleTables
  PROVE  Spec => []ReplayReadsItsTable
  <1>1. ASSUME IInv
        PROVE  ReplayReadsItsTable
    <2>1. SUFFICES ASSUME NEW op \in Running({"replay"})
                   PROVE  static[op.bucket].decode = op.step /\ static[op.bucket].table = op.cohort
      BY DEF ReplayReadsItsTable
    <2>2. computeQ # <<>> /\ op = Head(computeQ) /\ op.op = "replay"
      BY <1>1, OneHead
    <2>3. Right(op, Memory) /\ Memory.static = static
      BY <1>1, <2>2, HeadFinds DEF Memory
    <2> QED
      BY <2>2, <2>3 DEF Right
  <1>2. IInv => ReplayReadsItsTable
    BY <1>1
  <1> QED
    BY <1>2, Invariance, PTL

\* On one compute stream, a replayed prefill bucket stores the K/V of its own
\* tokens and of no others, and the warm-up of its capture stores none
\* (PiecesWriteTheirRows).
THEOREM PiecesWriteTheirOwnRows ==
  ASSUME OneStreamOnly
  PROVE  Spec => []PiecesWriteTheirRows
  <1>1. ASSUME IInv
        PROVE  PiecesWriteTheirRows
    <2>1. ASSUME NEW op \in Running({"pieces"})
          PROVE  /\ pieces.valid = op.tokens
                 /\ \A i \in 1 .. pieces.valid : pieces.slots[i] = op.step
      <3>1. computeQ # <<>> /\ op = Head(computeQ) /\ op.op = "pieces"
        BY <1>1, OneHead
      <3>2. Right(op, Memory) /\ Memory.pieces = pieces
        BY <1>1, <3>1, HeadFinds DEF Memory
      <3> QED
        BY <3>1, <3>2 DEF Right
    <2>2. ASSUME NEW op \in Running({"warmup"})
          PROVE  pieces.valid = 0
      <3>1. computeQ # <<>> /\ op = Head(computeQ) /\ op.op = "warmup"
        BY <1>1, OneHead
      <3>2. Right(op, Memory) /\ Memory.pieces = pieces
        BY <1>1, <3>1, HeadFinds DEF Memory
      <3> QED
        BY <3>1, <3>2 DEF Right
    <2> QED
      BY <2>1, <2>2 DEF PiecesWriteTheirRows
  <1>2. IInv => PiecesWriteTheirRows
    BY <1>1
  <1> QED
    BY <1>2, Invariance, PTL

\* On one compute stream, sampling reads logits of its own step for every row,
\* also of decode rows that were staged until the prefill callback
\* (SampledAfterComputed).
THEOREM SamplesAreComputed ==
  ASSUME OneStreamOnly
  PROVE  Spec => []SampledAfterComputed
  <1>1. ASSUME IInv
        PROVE  SampledAfterComputed
    <2>1. SUFFICES ASSUME NEW op \in Running({"sample"}), NEW f \in op.fills
                   PROVE  results[f] = op.step
      BY DEF SampledAfterComputed
    <2>2. computeQ # <<>> /\ op = Head(computeQ) /\ op.op = "sample"
      BY <1>1, OneHead
    <2>3. Right(op, Memory) /\ Memory.results = results
      BY <1>1, <2>2, HeadFinds DEF Memory
    <2> QED
      BY <2>1, <2>2, <2>3 DEF Right
  <1>2. IInv => SampledAfterComputed
    BY <1>1
  <1> QED
    BY <1>2, Invariance, PTL

-----------------------------------------------------------------------------
(* What events order between two compute streams *)

\* The device buffers as they will be when the copies under way have arrived.
Coming == PutDev(Arriving, active, cohort, dev)

\* Each operation that reads a buffer finds in d what was built for its step,
\* and none changes a buffer.
Found(s, op, d) ==
  d[s.buf][s.from] = op.step /\ (s.from = "decode" => d[s.buf]["table"] = op.cohort)
ReadsHere(op, d) ==
  /\ op.op # "advance"
  /\ op.op \in Readers => \A s \in op.sources : s.from # "snapshot" /\ Found(s, op, d)
Reads(q, d) == \A k \in 1 .. Len(q) : ReadsHere(q[k], d)

\* A queue releases no buffer by this event; it has nothing to do with a buffer.
NoRecord(q, e) == \A k \in 1 .. Len(q) : q[k].op = "record" => q[k].event # e
Untaken(q, b) == NoRecord(q, Consumed(b)) /\ \A phase \in Phases : ClearIn(q, b, phase)

\* A queue waits for the copies c into buffer b before it touches what they
\* write, or never touches it.
Guards(q, c, b) ==
  \A i \in 1 .. Len(c) : c[i].op = "copy" => GuardedIn(q, b, c[i].phase, c[i + 1].count)
KeepsOff(q, c, b) ==
  \A i \in 1 .. Len(c) : c[i].op = "copy" =>
    ClearIn(q, b, c[i].phase) \/ GuardedIn(q, b, c[i].phase, c[i + 1].count)

\* The CPU thread has not taken a buffer for its step yet.
Waiting == {"idle", "hostWait", "deviceWait"}
QueueInv(q) ==
  /\ Reads(q, Coming)
  /\ RecordsIn(q, reached, recorded)
  /\ KeepsOff(q, copyQ, active)
  /\ \A b \in Buffers : b # active \/ pc \in Waiting => ReleasedIn(q, b, valid)

\* The phases of the active buffer that the stream must not touch yet.
KeptClear == CASE pc = "decode" -> {"decode", "prefill"}
               [] pc = "packed" -> {"mixed"}
               [] OTHER -> StillClear

\* Once a step has taken a buffer, only its own stream has to do with it.
TakenInv ==
  pc \notin Waiting => /\ Untaken(otherQ, active)
                       /\ Guards(computeQ, copyQ, active)
                       /\ \A phase \in KeptClear : ClearIn(computeQ, active, phase)

\* No event is recorded by both streams at once; one that counts for nothing was
\* never recorded.
EventsInv ==
  /\ \A e \in Events : NoRecord(computeQ, e) \/ NoRecord(otherQ, e)
  /\ \A b \in Buffers : ~valid[b] => recorded[Consumed(b)] = 0

\* What a callback finds in its batch when the copies have arrived.
BatchInv ==
  /\ pc = "decodeCall"  => Coming[active]["decode"] = step /\ Coming[active]["table"] = cohort
  /\ pc = "prefillCall" => Coming[active]["prefill"] = step
  /\ pc = "packedCall"  => Coming[active]["mixed"] = step

\* Nothing is kept from step to step, and nothing staged within a step.
Fresh == ~config.reuse /\ ~config.deferred /\ ~stable /\ pending = Nothing

OrderInv == CommonInv /\ Fresh /\ QueueInv(computeQ) /\ QueueInv(otherQ)
            /\ TakenInv /\ EventsInv /\ BatchInv

\* A queue reads right as it grows and is executed: one more operation ...
LEMMA ReadsOn ==
  ASSUME NEW q \in Seq(ComputeOps), NEW o \in ComputeOps, NEW d, Reads(q, d), ReadsHere(o, d)
  PROVE  Reads(Append(q, o), d)
  <1> DEFINE r == Append(q, o)
  <1>1. /\ Len(r) = Len(q) + 1 /\ r[Len(q) + 1] = o /\ \A k \in 1 .. Len(q) : r[k] = q[k]
        /\ \A k \in 1 .. Len(q) + 1 : k \in 1 .. Len(q) \/ k = Len(q) + 1
    BY Appending
  <1> HIDE DEF r
  <1>2. Reads(r, d)
    BY <1>1 DEF Reads
  <1> QED
    BY <1>2 DEF r

\* ... the first operation finds what it has to, and so do the others behind it ...
LEMMA ReadsOff ==
  ASSUME NEW q \in Seq(ComputeOps), q # <<>>, NEW d, Reads(q, d)
  PROVE  Reads(Tail(q), d) /\ ReadsHere(Head(q), d)
  BY Popping DEF Reads

\* ... and while fields are filled that no operation touches.
LEMMA ReadsPut ==
  ASSUME NEW q \in Seq(ComputeOps), NEW phase \in Phases, NEW b \in Buffers, NEW c \in Nat,
         NEW d \in [Buffers -> [Fields -> Nat]], Reads(q, d), ClearIn(q, b, phase)
  PROVE  Reads(q, PutDev(FieldsOf(phase), b, c, d))
  <1>1. SUFFICES ASSUME NEW k \in 1 .. Len(q)
                 PROVE  ReadsHere(q[k], PutDev(FieldsOf(phase), b, c, d))
    BY DEF Reads
  <1>2. q[k] \in ComputeOps /\ ReadsHere(q[k], d) /\ ~Touches(q[k], b, phase)
    BY DEF Reads, ClearIn
  <1>3. SUFFICES ASSUME q[k].op \in Readers, NEW s \in q[k].sources
                 PROVE  Found(s, q[k], PutDev(FieldsOf(phase), b, c, d))
    BY <1>2 DEF ReadsHere
  <1>4. /\ s.from # "snapshot" /\ Found(s, q[k], d) /\ s \in Sources
        /\ ~(s.from = phase /\ s.buf = b)
    BY <1>2, <1>3, SourcesTyped DEF ReadsHere, Touches
  <1>5. s.from \in Phases /\ s.from \in Fields /\ s.buf \in Buffers /\ "table" \in Fields
    BY <1>4 DEF Sources, Phases, Fields
  <1>6. \A f \in Fields : PutDev(FieldsOf(phase), b, c, d)[s.buf][f]
                            = IF s.buf = b /\ f \in FieldsOf(phase) THEN c ELSE d[s.buf][f]
    BY <1>5 DEF PutDev
  <1>7. /\ ~(s.buf = b /\ s.from \in FieldsOf(phase))
        /\ s.from = "decode" => ~(s.buf = b /\ "table" \in FieldsOf(phase))
    BY <1>4, <1>5 DEF FieldsOf, Phases
  <1> QED
    BY <1>4, <1>5, <1>6, <1>7 DEF Found

\* A queue that does not record an event, as it grows and is executed ...
LEMMA NoRecordOn ==
  ASSUME NEW q \in Seq(ComputeOps), NEW o \in ComputeOps, NEW e,
         NoRecord(q, e), o.op = "record" => o.event # e
  PROVE  NoRecord(Append(q, o), e)
  <1> DEFINE r == Append(q, o)
  <1>1. /\ Len(r) = Len(q) + 1 /\ r[Len(q) + 1] = o /\ \A k \in 1 .. Len(q) : r[k] = q[k]
        /\ \A k \in 1 .. Len(q) + 1 : k \in 1 .. Len(q) \/ k = Len(q) + 1
    BY Appending
  <1> HIDE DEF r
  <1>2. NoRecord(r, e)
    BY <1>1 DEF NoRecord
  <1> QED
    BY <1>2 DEF r

\* ... whether by the first operation or by one behind it ...
LEMMA NoRecordOff ==
  ASSUME NEW q \in Seq(ComputeOps), q # <<>>, NEW e, NoRecord(q, e)
  PROVE  NoRecord(Tail(q), e) /\ (Head(q).op = "record" => Head(q).event # e)
  BY Popping DEF NoRecord

\* ... and what holds of all operations holds of those behind the first.
LEMMA UntakenOff ==
  ASSUME NEW q \in Seq(ComputeOps), q # <<>>, NEW b, Untaken(q, b)
  PROVE  Untaken(Tail(q), b)
  BY NoRecordOff, ClearOff DEF Untaken

\* An untaken buffer is released, and its copies are kept off.
LEMMA UntakenReleased ==
  ASSUME NEW q, NEW b, Untaken(q, b), NEW v
  PROVE  ReleasedIn(q, b, v)
  BY DEF Untaken, ClearIn, ReleasedIn

\* Records count the less, the more have been made.
LEMMA RecordsLater ==
  ASSUME NEW q \in Seq(ComputeOps), NEW at, NEW last \in [Events -> Nat],
         NEW more \in [Events -> Nat],
         RecordsIn(q, at, last), \A e \in Events : last[e] <= more[e]
  PROVE  RecordsIn(q, at, more)
  <1>1. SUFFICES ASSUME NEW k \in 1 .. Len(q), q[k].op = "record"
                 PROVE  q[k].count <= more[q[k].event]
    BY DEF RecordsIn
  <1>2. q[k] \in ComputeOps
    OBVIOUS
  <1>3. q[k].event \in Events /\ q[k].count \in Nat
    BY <1>1, <1>2, KindsOfOperations DEF RecordOps, Events
  <1>4. q[k].count <= last[q[k].event]
    BY <1>1 DEF RecordsIn
  <1> QED
    BY <1>3, <1>4

\* An event that one queue passes is not one the other still records.
LEMMA RecordsElsewhere ==
  ASSUME NEW q \in Seq(ComputeOps), NEW at \in [Events -> Nat], NEW last, NEW o \in ComputeOps,
         RecordsIn(q, at, last), o.op = "record" => NoRecord(q, o.event)
  PROVE  RecordsIn(q, PassedEvents(at, o), last)
  <1> DEFINE n == PassedEvents(at, o)
  <1>1. \A e \in Events : ~(o.op = "record" /\ e = o.event) => n[e] = at[e]
    BY DEF PassedEvents
  <1> HIDE DEF n
  <1>2. \A k \in 1 .. Len(q) : q[k].op = "record" => n[q[k].event] = at[q[k].event]
    <2>1. SUFFICES ASSUME NEW k \in 1 .. Len(q), q[k].op = "record"
                   PROVE  n[q[k].event] = at[q[k].event]
      OBVIOUS
    <2>2. q[k] \in ComputeOps
      OBVIOUS
    <2>3. q[k].event \in Events
      BY <2>1, <2>2, KindsOfOperations DEF RecordOps, Events
    <2> QED
      BY <1>1, <2>1, <2>3 DEF NoRecord
  <1>3. RecordsIn(q, n, last)
    BY <1>2 DEF RecordsIn
  <1> QED
    BY <1>3 DEF n

\* What holds of the step's own queue while it grows: the phases P are still clear.
Growing(q, last, v, P) ==
  /\ q \in Seq(ComputeOps)
  /\ Reads(q, Coming)
  /\ RecordsIn(q, reached, last)
  /\ Guards(q, copyQ, active)
  /\ \A b \in Buffers : b # active => ReleasedIn(q, b, v)
  /\ \A phase \in P : ClearIn(q, active, phase)

\* An operation that touches phases Q of the active buffer, and finds them there.
MayRun(o, Q) == Own(o, Q) /\ ReadsHere(o, Coming)

\* Such an operation may be enqueued ...
LEMMA GrowOn ==
  ASSUME TypesInv, NEW q, NEW last, NEW v, NEW P \in SUBSET Phases, Growing(q, last, v, P),
         NEW o, NEW Q, MayRun(o, Q), Q \cap P = {}
  PROVE  /\ Growing(Append(q, o), last, v, P)
         /\ \A e : NoRecord(q, e) => NoRecord(Append(q, o), e)
  <1>1. /\ q \in Seq(ComputeOps) /\ o \in ComputeOps /\ o.op # "record"
        /\ Reads(q, Coming) /\ ReadsHere(o, Coming) /\ RecordsIn(q, reached, last)
    BY DEF Growing, MayRun, Own
  <1>2. Append(q, o) \in Seq(ComputeOps) /\ Reads(Append(q, o), Coming)
    BY <1>1, ReadsOn
  <1>3. RecordsIn(Append(q, o), reached, last)
    BY <1>1, RecordsOn
  <1>4. Guards(Append(q, o), copyQ, active)
    BY <1>1, GuardedOn DEF Growing, Guards
  <1>5. ASSUME NEW b \in Buffers, b # active
        PROVE  ReleasedIn(Append(q, o), b, v)
    <2>1. ReleasedIn(q, b, v) /\ \A phase \in Phases : ~Touches(o, b, phase)
      BY <1>5 DEF Growing, MayRun, Own
    <2> QED
      BY <1>1, <2>1, ReleasedOn
  <1>6. ASSUME NEW phase \in P
        PROVE  ClearIn(Append(q, o), active, phase)
    <2>1. active \in Buffers /\ phase \in Phases /\ phase \notin Q
      BY DEF TypesInv
    <2>2. ClearIn(q, active, phase) /\ ~Touches(o, active, phase)
      BY <2>1 DEF Growing, MayRun, Own
    <2> QED
      BY <1>1, <2>2, ClearOn
  <1>7. \A e : NoRecord(q, e) => NoRecord(Append(q, o), e)
    BY <1>1, NoRecordOn
  <1> QED
    BY <1>2, <1>3, <1>4, <1>5, <1>6, <1>7 DEF Growing

\* ... and so may the few that a callback enqueues.
MayAllRun(ops, Q) ==
  \/ ops = <<>>
  \/ \E o : MayRun(o, Q) /\ ops = <<o>>
  \/ \E o, p : MayRun(o, Q) /\ MayRun(p, Q) /\ ops \in {<<o, p>>, <<>> \o <<o, p>>}
  \/ \E o, p, r : MayRun(o, Q) /\ MayRun(p, Q) /\ MayRun(r, Q) /\ ops = <<o>> \o <<p, r>>
LEMMA GrowBy ==
  ASSUME TypesInv, NEW q, NEW last, NEW v, NEW P \in SUBSET Phases, Growing(q, last, v, P),
         NEW ops, NEW Q, MayAllRun(ops, Q), Q \cap P = {}
  PROVE  /\ Growing(q \o ops, last, v, P)
         /\ \A e : NoRecord(q, e) => NoRecord(q \o ops, e)
  <1> DEFINE Grown(r) == Growing(r, last, v, P) /\ \A e : NoRecord(q, e) => NoRecord(r, e)
  <1>1. Grown(q) /\ q \in Seq(ComputeOps)
    BY DEF Growing
  <1>2. \A r : \A o : Grown(r) /\ MayRun(o, Q) => Grown(Append(r, o)) /\ o \in ComputeOps
    BY GrowOn DEF MayRun, Own
  <1> HIDE DEF Grown
  <1>3. CASE ops = <<>>
    <2>1. q \o ops = q
      BY <1>1, <1>3
    <2> QED
      BY <1>1, <2>1 DEF Grown
  <1>4. ASSUME NEW o, MayRun(o, Q), ops = <<o>>
        PROVE  Grown(q \o ops)
    <2>1. o \in ComputeOps /\ Grown(Append(q, o))
      BY <1>1, <1>2, <1>4
    <2>2. q \o ops = Append(q, o)
      BY <1>1, <1>4, <2>1, AppendingSeveral
    <2> QED
      BY <2>1, <2>2
  <1>5. ASSUME NEW o, NEW p, MayRun(o, Q), MayRun(p, Q), ops \in {<<o, p>>, <<>> \o <<o, p>>}
        PROVE  Grown(q \o ops)
    <2>1. o \in ComputeOps /\ p \in ComputeOps /\ Grown(Append(Append(q, o), p))
      BY <1>1, <1>2, <1>5
    <2>2. q \o <<o, p>> = Append(Append(q, o), p) /\ q \o (<<>> \o <<o, p>>) = Append(Append(q, o), p)
      BY <1>1, <2>1, AppendingSeveral
    <2> QED
      BY <1>5, <2>1, <2>2
  <1>6. ASSUME NEW o, NEW p, NEW r, MayRun(o, Q), MayRun(p, Q), MayRun(r, Q),
               ops = <<o>> \o <<p, r>>
        PROVE  Grown(q \o ops)
    <2>1. /\ o \in ComputeOps /\ p \in ComputeOps /\ r \in ComputeOps
          /\ Grown(Append(Append(Append(q, o), p), r))
      BY <1>1, <1>2, <1>6
    <2>2. q \o ops = Append(Append(Append(q, o), p), r)
      BY <1>1, <1>6, <2>1, AppendingSeveral
    <2> QED
      BY <2>1, <2>2
  <1>7. Grown(q \o ops)
    <2>1. CASE \E o : MayRun(o, Q) /\ ops = <<o>>
      BY <1>4, <2>1
    <2>2. CASE \E o, p : MayRun(o, Q) /\ MayRun(p, Q) /\ ops \in {<<o, p>>, <<>> \o <<o, p>>}
      <3>1. PICK o, p : MayRun(o, Q) /\ MayRun(p, Q) /\ ops \in {<<o, p>>, <<>> \o <<o, p>>}
        BY <2>2
      <3> QED
        BY <1>5, <3>1
    <2>3. CASE \E o, p, r : MayRun(o, Q) /\ MayRun(p, Q) /\ MayRun(r, Q) /\ ops = <<o>> \o <<p, r>>
      <3>1. PICK o, p, r : MayRun(o, Q) /\ MayRun(p, Q) /\ MayRun(r, Q) /\ ops = <<o>> \o <<p, r>>
        BY <2>3
      <3> QED
        BY <1>6, <3>1
    <2>4. CASE ops = <<>>
      <3>1. q \o ops = q
        BY <1>1, <2>4
      <3> QED
        BY <1>1, <3>1
    <2> QED
      BY <2>1, <2>2, <2>3, <2>4 DEF MayAllRun
  <1> QED
    BY <1>7 DEF Grown

\* The release of the active buffer covers all that has been enqueued.
LEMMA GrowRelease ==
  ASSUME TypesInv, NEW q, NEW P \in SUBSET Phases, Growing(q, recorded, valid, P)
  PROVE  LET last == [recorded EXCEPT ![Consumed(active)] = @ + 1]
             v == [valid EXCEPT ![active] = TRUE]
         IN  /\ Growing(q \o PublishOps, last, v, P)
             /\ ReleasedIn(q \o PublishOps, active, v)
             /\ \A e : e # Consumed(active) /\ NoRecord(q, e) => NoRecord(q \o PublishOps, e)
             /\ last \in [Events -> Nat] /\ \A e \in Events : recorded[e] <= last[e]
             /\ v \in [Buffers -> BOOLEAN] /\ v[active]
             /\ \A b \in Buffers : b # active => v[b] = valid[b]
             /\ \A b \in Buffers : b # active => last[Consumed(b)] = recorded[Consumed(b)]
  <1> DEFINE e == Consumed(active)
             o == RecordOp(e, recorded[e] + 1)
             last == [recorded EXCEPT ![e] = @ + 1]
             v == [valid EXCEPT ![active] = TRUE]
  <1>1. /\ q \in Seq(ComputeOps) /\ Reads(q, Coming) /\ RecordsIn(q, reached, recorded)
    BY DEF Growing
  <1>2. /\ active \in Buffers /\ recorded \in [Events -> Nat] /\ reached \in [Events -> Nat]
        /\ valid \in [Buffers -> BOOLEAN] /\ \A f \in Events : reached[f] <= recorded[f]
    BY DEF TypesInv
  <1>3. e \in {"consumed0", "consumed1"} /\ e \in Events
        /\ \A b \in Buffers : b # active => Consumed(b) # e /\ Consumed(b) \in Events
    BY <1>2 DEF Consumed, Events, Buffers
  <1>4. PublishOps = <<o>>
    BY DEF PublishOps
  <1> HIDE DEF e
  <1>5. o \in ComputeOps /\ RecordsIn(Append(q, o), reached, last)
    BY <1>1, <1>2, <1>3, RecordsOnRecord
  <1>6. o.op = "record" /\ o.event = e /\ o \in RecordOps
    <2>1. o.op = "record" /\ o.event = e
      BY DEF RecordOp
    <2> QED
      BY <1>5, <2>1, KindsOfOperations
  <1>7. /\ last \in [Events -> Nat] /\ \A f \in Events : recorded[f] <= last[f]
        /\ \A b \in Buffers : b # active => last[Consumed(b)] = recorded[Consumed(b)]
    BY <1>2, <1>3
  <1>8. v \in [Buffers -> BOOLEAN] /\ v[active] /\ \A b \in Buffers : b # active => v[b] = valid[b]
    BY <1>2
  <1> HIDE DEF o, last, v
  <1>9. q \o PublishOps = Append(q, o)
    BY <1>1, <1>4, <1>5, AppendingSeveral
  <1>10. ReadsHere(o, Coming)
    BY <1>6 DEF ReadsHere, Readers
  <1>11. Append(q, o) \in Seq(ComputeOps) /\ Reads(Append(q, o), Coming)
    BY <1>1, <1>5, <1>10, ReadsOn
  <1>12. Guards(Append(q, o), copyQ, active)
    BY <1>1, <1>5, GuardedOn DEF Growing, Guards
  <1>13. \A b : \A phase : ~Touches(o, b, phase)
    BY <1>6 DEF Touches, Readers
  <1>14. ASSUME NEW b \in Buffers, b # active
         PROVE  ReleasedIn(Append(q, o), b, v)
    <2>1. ReleasedIn(q, b, valid) /\ v[b] = valid[b]
      BY <1>8, <1>14 DEF Growing
    <2>2. ReleasedIn(q, b, v)
      BY <2>1 DEF ReleasedIn
    <2> QED
      BY <1>1, <1>5, <1>13, <2>2, ReleasedOn
  <1>15. ReleasedIn(Append(q, o), active, v)
    BY <1>1, <1>5, <1>6, <1>8, ReleasedByRecord DEF e
  <1>16. ASSUME NEW phase \in P
         PROVE  ClearIn(Append(q, o), active, phase)
    BY <1>1, <1>5, <1>13, ClearOn DEF Growing
  <1>17. \A f : f # e /\ NoRecord(q, f) => NoRecord(Append(q, o), f)
    BY <1>1, <1>5, <1>6, NoRecordOn
  <1>18. Growing(Append(q, o), last, v, P)
    BY <1>5, <1>11, <1>12, <1>14, <1>16 DEF Growing
  <1> QED
    BY <1>7, <1>8, <1>9, <1>15, <1>17, <1>18 DEF e, last, v

\* A step of the CPU thread that enqueues on its own stream.
LEMMA OrderCpu ==
  ASSUME OrderInv, CommonInv', UNCHANGED <<config, active, cohort, copyQ, otherQ, reached, dev>>,
         pc \notin Waiting, ~stable', pending' = Nothing,
         NEW P, Growing(computeQ', recorded', valid', P), KeptClear' \subseteq P,
         \A e : e # Consumed(active) /\ NoRecord(computeQ, e) => NoRecord(computeQ', e),
         recorded' \in [Events -> Nat], \A e \in Events : recorded[e] <= recorded'[e],
         \A b \in Buffers : (valid[b] => valid'[b])
                            /\ (~valid'[b] => recorded'[Consumed(b)] = recorded[Consumed(b)]),
         pc' \in Waiting => ReleasedIn(computeQ', active, valid'),
         pc' \notin {"decodeCall", "prefillCall", "packedCall"}
  PROVE  OrderInv'
  <1>1. /\ CommonInv /\ Fresh /\ QueueInv(computeQ) /\ QueueInv(otherQ) /\ TakenInv /\ EventsInv
        /\ TypesInv /\ otherQ \in Seq(ComputeOps) /\ recorded \in [Events -> Nat]
        /\ active \in Buffers
    BY DEF OrderInv, CommonInv, ControlParts, TypesInv
  <1>2. /\ config' = config /\ active' = active /\ cohort' = cohort /\ copyQ' = copyQ
        /\ otherQ' = otherQ /\ reached' = reached
    OBVIOUS
  <1>3. Coming' = Coming
    BY DEF Coming, Arriving, IsCopy
  <1>4. Untaken(otherQ, active)
    BY <1>1 DEF TakenInv
  <1>5. Fresh'
    BY <1>1 DEF Fresh
  <1>6. QueueInv(computeQ)'
    <2>1. Reads(computeQ', Coming') /\ RecordsIn(computeQ', reached', recorded')
      BY <1>2, <1>3 DEF Growing
    <2>2. KeepsOff(computeQ', copyQ', active')
      BY <1>2 DEF Growing, Guards, KeepsOff
    <2>3. \A b \in Buffers : b # active' \/ pc' \in Waiting => ReleasedIn(computeQ', b, valid')
      BY <1>2 DEF Growing
    <2> QED
      BY <2>1, <2>2, <2>3 DEF QueueInv
  <1>7. QueueInv(otherQ)'
    <2>1. Reads(otherQ', Coming') /\ KeepsOff(otherQ', copyQ', active')
      BY <1>1, <1>2, <1>3 DEF QueueInv
    <2>2. RecordsIn(otherQ', reached', recorded')
      <3>1. RecordsIn(otherQ, reached, recorded)
        BY <1>1 DEF QueueInv
      <3>2. RecordsIn(otherQ, reached, recorded')
        BY <1>1, <3>1, RecordsLater
      <3> QED
        BY <1>2, <3>2
    <2>3. ASSUME NEW b \in Buffers
          PROVE  ReleasedIn(otherQ', b, valid')
      <3>1. CASE b = active
        BY <1>2, <1>4, <3>1, UntakenReleased
      <3>2. CASE b # active
        <4>1. ReleasedIn(otherQ, b, valid)
          BY <1>1, <3>2 DEF QueueInv
        <4>2. ReleasedIn(otherQ, b, valid')
          BY <4>1 DEF ReleasedIn
        <4> QED
          BY <1>2, <4>2
      <3> QED
        BY <3>1, <3>2
    <2> QED
      BY <2>1, <2>2, <2>3 DEF QueueInv
  <1>8. TakenInv'
    <2>1. Untaken(otherQ', active') /\ Guards(computeQ', copyQ', active')
      BY <1>2, <1>4 DEF Growing
    <2>2. \A phase \in KeptClear' : ClearIn(computeQ', active', phase)
      BY <1>2 DEF Growing
    <2> QED
      BY <2>1, <2>2 DEF TakenInv
  <1>9. EventsInv'
    <2>1. ASSUME NEW e \in Events
          PROVE  NoRecord(computeQ', e) \/ NoRecord(otherQ', e)
      BY <1>1, <1>2, <1>4 DEF EventsInv, Untaken
    <2>2. \A b \in Buffers : ~valid'[b] => recorded'[Consumed(b)] = 0
      BY <1>1 DEF EventsInv
    <2> QED
      BY <2>1, <2>2 DEF EventsInv
  <1>10. BatchInv'
    BY DEF BatchInv
  <1> QED
    BY <1>5, <1>6, <1>7, <1>8, <1>9, <1>10 DEF OrderInv

\* The step's own queue, before the step adds to it.
LEMMA GrowingNow ==
  ASSUME OrderInv, pc \notin Waiting
  PROVE  Growing(computeQ, recorded, valid, KeptClear) /\ KeptClear \in SUBSET Phases
  <1>1. computeQ \in Seq(ComputeOps) /\ QueueInv(computeQ) /\ TakenInv
    BY DEF OrderInv, CommonInv, ControlParts, TypesInv
  <1>2. Growing(computeQ, recorded, valid, KeptClear)
    BY <1>1 DEF Growing, QueueInv, TakenInv
  <1>3. KeptClear \in SUBSET Phases
    BY DEF KeptClear, StillClear, Phases
  <1> QED
    BY <1>2, <1>3

\* What the callbacks enqueue may run.
LEMMA ReaderRuns ==
  ASSUME NEW o \in ComputeOps, o.op \in Readers, NEW Q, Among(o.sources, Q),
         o.step = step, o.cohort = cohort,
         \A s \in o.sources : s.from # "snapshot" /\ Found(s, Here, Coming)
  PROVE  MayRun(o, Q)
  <1>1. Own(o, Q)
    BY ReaderOwn
  <1>2. o.op # "advance"
    BY DEF Readers
  <1>3. \A s \in o.sources : Found(s, o, Coming)
    BY DEF Found, Here
  <1> QED
    BY <1>1, <1>2, <1>3 DEF MayRun, ReadsHere

\* ... also operations that read no buffer.
LEMMA OtherRuns ==
  ASSUME NEW o \in ComputeOps, o.op \in {"wait", "replay", "warmup", "sample"}, NEW Q
  PROVE  MayRun(o, Q)
  BY OtherOwn DEF MayRun, ReadsHere, Readers

\* A callback ends: it returns, publishes or raises.
LEMMA OrderEnds ==
  ASSUME OrderInv, CommonInv', UNCHANGED callbackUnchanged, pending' = Nothing,
         pc \in {"decodeCall", "prefillCall", "packedCall"},
         NEW Q, pc = "decodeCall" => Q = {"decode"},
         NEW ops, MayAllRun(ops, Q),
         \/ pc = "decodeCall" /\ AfterDecode(ops)
         \/ Calls(ops, "sample")
  PROVE  OrderInv'
  <1>1. TypesInv /\ pc \notin Waiting /\ EventsInv /\ Fresh /\ active \in Buffers
        /\ recorded \in [Events -> Nat] /\ valid \in [Buffers -> BOOLEAN]
    BY DEF OrderInv, CommonInv, ControlParts, TypesInv, Waiting
  <1>2. UNCHANGED <<config, plan, active, cohort, copyQ, otherQ, reached, dev>>
    BY DEF callbackUnchanged, memoryVars
  <1>3. Growing(computeQ, recorded, valid, KeptClear) /\ KeptClear \in SUBSET Phases
    BY <1>1, GrowingNow
  <1>4. /\ Q \cap KeptClear = {}
        /\ pc = "decodeCall" /\ plan.prefill => KeptClear = {"prefill"}
    BY DEF KeptClear, StillClear
  <1> DEFINE q == computeQ \o ops
  <1>5. /\ Growing(q, recorded, valid, KeptClear)
        /\ \A e : NoRecord(computeQ, e) => NoRecord(q, e)
    BY <1>1, <1>3, <1>4, GrowBy
  <1>6. CASE /\ computeQ' = q /\ UNCHANGED <<recorded, valid>> /\ ~stable'
             /\ pc' \in {"sample", "drain"}
    <2>1. KeptClear' = {} /\ pc' \notin Waiting
      BY <1>6 DEF KeptClear, StillClear, Waiting
    <2>2. Growing(computeQ', recorded', valid', KeptClear)
      BY <1>5, <1>6
    <2>3. \A e \in Events : recorded[e] <= recorded[e]
      BY <1>1
    <2> QED
      BY <1>1, <1>2, <1>5, <1>6, <2>1, <2>2, <2>3, OrderCpu
  <1>7. CASE /\ pc = "decodeCall" /\ plan.prefill /\ pc' = "prefill" /\ ~stable'
             /\ computeQ' = q \o PublishOps
             /\ recorded' = [recorded EXCEPT ![Consumed(active)] = @ + 1]
             /\ valid' = [valid EXCEPT ![active] = TRUE]
    <2>1. KeptClear' = {"prefill"} /\ pc' \notin Waiting
      BY <1>7 DEF KeptClear, StillClear, Waiting
    <2> HIDE DEF q
    <2>2. /\ Growing(computeQ', recorded', valid', KeptClear)
          /\ \A e : e # Consumed(active) /\ NoRecord(computeQ, e) => NoRecord(computeQ', e)
          /\ recorded' \in [Events -> Nat] /\ \A e \in Events : recorded[e] <= recorded'[e]
          /\ valid' \in [Buffers -> BOOLEAN] /\ valid'[active]
          /\ \A b \in Buffers : b # active => valid'[b] = valid[b]
          /\ \A b \in Buffers : b # active => recorded'[Consumed(b)] = recorded[Consumed(b)]
      BY <1>1, <1>3, <1>5, <1>7, GrowRelease
    <2>3. \A b \in Buffers : (valid[b] => valid'[b])
                             /\ (~valid'[b] => recorded'[Consumed(b)] = recorded[Consumed(b)])
      BY <2>2
    <2> QED
      BY <1>1, <1>2, <1>4, <1>7, <2>1, <2>2, <2>3, OrderCpu
  <1>8. ~stable /\ (stable' = stable \/ stable' = FALSE)
    BY <1>1 DEF Fresh, AfterDecode, Calls, Published, Caught
  <1> QED
    BY <1>6, <1>7, <1>8 DEF AfterDecode, Calls, Published, Caught

\* ... a pass over prompt tokens, however it is run ...
LEMMA PrefillMayRun ==
  ASSUME TypesInv, NEW S \in OnePrompt, NEW Q, Among(S, Q), NEW L \in SUBSET Logits,
         \A s \in S : s.from # "snapshot" /\ Found(s, Here, Coming)
  PROVE  MayAllRun(PrefillPass(S, L, plan.tokens), Q)
  <1> DEFINE n == plan.tokens
  <1>1. /\ PrefillPass(S, L, n) =
              IF config.graphs /\ Fits(n)
              THEN (IF captured THEN <<>> ELSE <<Warmup>>) \o <<StageSlots(S, n), ReplayPieces(S, L, n)>>
              ELSE <<Pass(S, L)>>
        /\ Own(Warmup, Q)
        /\ Fits(n) => Own(StageSlots(S, n), Q) /\ Own(ReplayPieces(S, L, n), Q)
    BY PieceOps
  <1>2. MayRun(Pass(S, L), Q)
    <2> DEFINE o == Pass(S, L)
    <2>1. Own(o, Q) /\ o.op = "pass" /\ o.sources = S /\ o.step = step /\ o.cohort = cohort
      BY PassOp
    <2> HIDE DEF o
    <2>2. MayRun(o, Q)
      BY <2>1, ReaderRuns DEF Own, Readers
    <2> QED
      BY <2>2 DEF o
  <1>3. MayRun(Warmup, Q)
    BY <1>1, OtherRuns DEF Own, Warmup
  <1>4. ASSUME Fits(n)
        PROVE  MayRun(StageSlots(S, n), Q) /\ MayRun(ReplayPieces(S, L, n), Q)
    <2>1. /\ StageSlots(S, n).op \in Readers /\ StageSlots(S, n).sources = S
          /\ StageSlots(S, n).step = step /\ StageSlots(S, n).cohort = cohort
          /\ ReplayPieces(S, L, n).op \in Readers /\ ReplayPieces(S, L, n).sources = S
          /\ ReplayPieces(S, L, n).step = step /\ ReplayPieces(S, L, n).cohort = cohort
      BY DEF StageSlots, ReplayPieces, Readers
    <2>2. StageSlots(S, n) \in ComputeOps /\ ReplayPieces(S, L, n) \in ComputeOps
      BY <1>1, <1>4 DEF Own
    <2> QED
      BY <2>1, <2>2, ReaderRuns
  <1> HIDE DEF n
  <1>5. MayAllRun(PrefillPass(S, L, n), Q)
    BY <1>1, <1>2, <1>3, <1>4 DEF MayAllRun
  <1> QED
    BY <1>5 DEF n

\* ... and the decode rows, eagerly or through a graph.
LEMMA DecodeMayRun ==
  ASSUME TypesInv, Found(DecodeSource, Here, Coming)
  PROVE  /\ MayAllRun(<<Pass({DecodeSource}, {"decode"})>>, {"decode"})
         /\ \A t \in BOOLEAN : MayAllRun(GraphDecode(t), {"decode"})
  <1>1. DecodeSource.from = "decode" /\ Among({DecodeSource}, {"decode"})
    BY SourcesHere DEF DecodeSource
  <1>2. MayRun(Pass({DecodeSource}, {"decode"}), {"decode"})
    <2> DEFINE o == Pass({DecodeSource}, {"decode"})
    <2>1. /\ Own(o, {"decode"}) /\ o.op = "pass" /\ o.sources = {DecodeSource}
          /\ o.step = step /\ o.cohort = cohort
      BY <1>1, PassOp DEF Logits
    <2> HIDE DEF o
    <2>2. MayRun(o, {"decode"})
      BY <1>1, <2>1, ReaderRuns DEF Own, Readers
    <2> QED
      BY <2>2 DEF o
  <1>3. ASSUME NEW t \in BOOLEAN
        PROVE  MayAllRun(GraphDecode(t), {"decode"})
    <2>1. /\ GraphDecode(t) = <<Refresh(t), Replay>>
          /\ Own(Refresh(t), {"decode"}) /\ Own(Replay, {"decode"})
      BY GraphOps
    <2>2. /\ Refresh(t).op \in Readers /\ Refresh(t).sources = {DecodeSource}
          /\ Refresh(t).step = step /\ Refresh(t).cohort = cohort
          /\ Replay.op = "replay" /\ Refresh(t) \in ComputeOps /\ Replay \in ComputeOps
      BY <2>1 DEF Refresh, Replay, Readers, Own
    <2>3. MayRun(Refresh(t), {"decode"})
      BY <1>1, <2>2, ReaderRuns
    <2>4. MayRun(Replay, {"decode"})
      BY <2>2, OtherRuns
    <2> QED
      BY <2>1, <2>3, <2>4 DEF MayAllRun
  <1> QED
    BY <1>2, <1>3 DEF MayAllRun

\* The callbacks.
LEMMA OrderCallback ==
  ASSUME OrderInv, CommonInv', Callback \/ BetweenFails
  PROVE  OrderInv'
  <1>1. /\ TypesInv /\ Fresh /\ BatchInv /\ ~Deferring /\ pending = Nothing
        /\ active \in Buffers /\ recorded \in [Events -> Nat]
    BY DEF OrderInv, CommonInv, ControlParts, TypesInv, Fresh, Deferring
  <1>2. UNCHANGED callbackUnchanged
    BY DEF Callback, CallbackRaises, DecodeStaged, DecodeEager, DecodeGraph,
           PrefillCallback, MixedCallback, BetweenFails
  <1>3. CASE CallbackRaises \/ BetweenFails
    <2>1. /\ computeQ' = computeQ /\ pc' = "drain" /\ ~stable' /\ UNCHANGED <<recorded, valid>>
          /\ pending' = Nothing /\ pc \notin Waiting
      BY <1>1, <1>3 DEF CallbackRaises, BetweenFails, Caught, Waiting
    <2>2. Growing(computeQ', recorded', valid', KeptClear) /\ KeptClear' = {}
      BY <2>1, GrowingNow DEF KeptClear, StillClear
    <2>3. UNCHANGED <<config, active, cohort, copyQ, otherQ, reached, dev>>
      BY <1>2 DEF callbackUnchanged, memoryVars
    <2>4. pc' \notin Waiting /\ \A e \in Events : recorded[e] <= recorded'[e]
      BY <1>1, <2>1 DEF Waiting
    <2> QED
      BY <1>1, <2>1, <2>2, <2>3, <2>4, OrderCpu
  <1>4. CASE DecodeStaged
    BY <1>1, <1>4 DEF DecodeStaged
  <1>5. ASSUME pc = "decodeCall"
        PROVE  Found(DecodeSource, Here, Coming)
    BY <1>1, <1>5 DEF BatchInv, Found, DecodeSource, Here
  <1>6. CASE DecodeEager
    <2>1. /\ pc = "decodeCall" /\ AfterDecode(<<Pass({DecodeSource}, {"decode"})>>)
          /\ pending' = Nothing
      BY <1>1, <1>6 DEF DecodeEager
    <2>2. MayAllRun(<<Pass({DecodeSource}, {"decode"})>>, {"decode"})
      BY <1>1, <1>5, <2>1, DecodeMayRun
    <2> QED
      BY <1>2, <2>1, <2>2, OrderEnds
  <1>7. CASE DecodeGraph
    <2>1. PICK t \in BOOLEAN : AfterDecode(GraphDecode(t))
      BY <1>7 DEF DecodeGraph, MustCopyTable
    <2>2. pc = "decodeCall" /\ pending' = Nothing
      BY <1>1, <1>7 DEF DecodeGraph
    <2>3. MayAllRun(GraphDecode(t), {"decode"})
      BY <1>1, <1>5, <2>2, DecodeMayRun
    <2> QED
      BY <1>2, <2>1, <2>2, <2>3, OrderEnds
  <1>8. CASE PrefillCallback
    <2> DEFINE S == {PrefillSource}
               L == CombinedFills(FALSE)
    <2>1. S \in OnePrompt /\ Among(S, {"prefill"}) /\ L \in SUBSET Logits
      BY <1>1, SourcesHere DEF CombinedFills, Logits
    <2>2. pc = "prefillCall" /\ pending' = Nothing /\ Calls(PrefillPass(S, L, plan.tokens), "sample")
      BY <1>1, <1>8 DEF PrefillCallback
    <2>3. PrefillSource.from # "snapshot" /\ Found(PrefillSource, Here, Coming)
      BY <1>1, <2>2 DEF BatchInv, Found, PrefillSource, Here
    <2>4. \A s \in S : s.from # "snapshot" /\ Found(s, Here, Coming)
      BY <2>3
    <2> HIDE DEF S, L
    <2>5. MayAllRun(PrefillPass(S, L, plan.tokens), {"prefill"})
      BY <1>1, <2>1, <2>4, PrefillMayRun
    <2> QED
      BY <1>2, <2>2, <2>5, OrderEnds
  <1>9. CASE MixedCallback
    <2> DEFINE S == {MixedSource}
               L == {"decode", "prefill"}
    <2>1. S \in OnePrompt /\ Among(S, {"mixed"}) /\ L \in SUBSET Logits
      BY <1>1, SourcesHere DEF Logits
    <2>2. pc = "packedCall" /\ pending' = Nothing /\ Calls(PrefillPass(S, L, plan.tokens), "sample")
      BY <1>1, <1>9 DEF MixedCallback
    <2>3. MixedSource.from # "snapshot" /\ Found(MixedSource, Here, Coming)
      BY <1>1, <2>2 DEF BatchInv, Found, MixedSource, Here
    <2>4. \A s \in S : s.from # "snapshot" /\ Found(s, Here, Coming)
      BY <2>3
    <2> HIDE DEF S, L
    <2>5. MayAllRun(PrefillPass(S, L, plan.tokens), {"mixed"})
      BY <1>1, <2>1, <2>4, PrefillMayRun
    <2> QED
      BY <1>2, <2>2, <2>5, OrderEnds
  <1> QED
    BY <1>3, <1>4, <1>6, <1>7, <1>8, <1>9 DEF Callback

\* Sampling, reading the tokens back, and the end of a failed step.
LEMMA OrderFinish ==
  ASSUME OrderInv, CommonInv', Sample \/ Readback \/ Drain
  PROVE  OrderInv'
  <1>1. /\ TypesInv /\ Fresh /\ TakenInv /\ active \in Buffers /\ recorded \in [Events -> Nat]
        /\ valid \in [Buffers -> BOOLEAN] /\ computeQ \in Seq(ComputeOps)
    BY DEF OrderInv, CommonInv, ControlParts, TypesInv
  <1>2. /\ UNCHANGED <<config, active, cohort, copyQ, otherQ, reached, dev, pending>>
        /\ pc \notin Waiting
    BY DEF Sample, Readback, Drain, Waiting, eventVars, memoryVars, adapterVars
  <1>3. Growing(computeQ, recorded, valid, KeptClear) /\ KeptClear \in SUBSET Phases
    BY <1>2, GrowingNow
  <1>4. pending' = Nothing /\ ~stable'
    <2>1. stable' = stable \/ stable' = (config.reuse /\ plan.decode /\ ~plan.prefill)
      BY DEF Sample, Readback, Drain
    <2>2. ~stable /\ ~config.reuse /\ pending = Nothing
      BY <1>1 DEF Fresh
    <2>3. ~(config.reuse /\ plan.decode /\ ~plan.prefill)
      BY <2>2
    <2>4. ~stable'
      BY <2>1, <2>2, <2>3
    <2> QED
      BY <1>2, <2>2, <2>4
  <1>5. KeptClear' = {} /\ pc' \notin {"decodeCall", "prefillCall", "packedCall"}
    BY DEF Sample, Readback, Drain, KeptClear, StillClear
  <1>6. \A e \in Events : recorded[e] <= recorded[e]
    BY <1>1
  <1>7. CASE Sample
    <2>1. pc' \notin Waiting /\ UNCHANGED <<recorded, valid>>
          /\ computeQ' \in {computeQ, Append(computeQ, SampleOp)}
      BY <1>7 DEF Sample, Waiting, eventVars, SampleOp
    <2>2. MayRun(SampleOp, {})
      BY <1>1, SamplingOp, OtherRuns DEF Own, SampleOp
    <2>3. /\ Growing(Append(computeQ, SampleOp), recorded, valid, KeptClear)
          /\ \A e : NoRecord(computeQ, e) => NoRecord(Append(computeQ, SampleOp), e)
      BY <1>1, <1>3, <2>2, GrowOn
    <2>4. /\ Growing(computeQ', recorded', valid', KeptClear)
          /\ \A e : NoRecord(computeQ, e) => NoRecord(computeQ', e)
      BY <1>3, <2>1, <2>3
    <2> QED
      BY <1>1, <1>2, <1>4, <1>5, <1>6, <2>1, <2>4, OrderCpu
  <1>8. CASE Readback
    <2>1. /\ computeQ' = computeQ \o PublishOps
          /\ recorded' = [recorded EXCEPT ![Consumed(active)] = @ + 1]
          /\ valid' = [valid EXCEPT ![active] = TRUE]
      BY <1>8 DEF Readback
    <2>2. /\ Growing(computeQ', recorded', valid', KeptClear)
          /\ ReleasedIn(computeQ', active, valid')
          /\ \A e : e # Consumed(active) /\ NoRecord(computeQ, e) => NoRecord(computeQ', e)
          /\ recorded' \in [Events -> Nat] /\ \A e \in Events : recorded[e] <= recorded'[e]
          /\ valid' \in [Buffers -> BOOLEAN] /\ valid'[active]
          /\ \A b \in Buffers : b # active => valid'[b] = valid[b]
          /\ \A b \in Buffers : b # active => recorded'[Consumed(b)] = recorded[Consumed(b)]
      BY <1>1, <1>3, <2>1, GrowRelease
    <2>3. \A b \in Buffers : (valid[b] => valid'[b])
                             /\ (~valid'[b] => recorded'[Consumed(b)] = recorded[Consumed(b)])
      BY <2>2
    <2> QED
      BY <1>1, <1>2, <1>4, <1>5, <2>2, <2>3, OrderCpu
  <1>9. CASE Drain
    <2>1. computeQ = <<>> /\ computeQ' = computeQ /\ UNCHANGED <<recorded, valid>>
      BY <1>9 DEF Drain, Drained, eventVars
    <2>2. ReleasedIn(computeQ', active, valid')
      BY <2>1 DEF ReleasedIn
    <2> QED
      BY <1>1, <1>2, <1>3, <1>4, <1>5, <1>6, <2>1, <2>2, OrderCpu
  <1> QED
    BY <1>7, <1>8, <1>9

\* The step that exchanges the streams, or waits, before a buffer is taken.
LEMMA OrderBegin ==
  ASSUME OrderInv, CommonInv', BeginStep \/ WaitHost
  PROVE  OrderInv'
  <1>1. /\ Fresh /\ QueueInv(computeQ) /\ QueueInv(otherQ) /\ EventsInv
        /\ computeQ \in Seq(ComputeOps) /\ otherQ \in Seq(ComputeOps)
    BY DEF OrderInv, CommonInv, ControlParts, TypesInv
  <1>2. /\ UNCHANGED <<config, stable, pending, active, cohort, copyQ, dev, recorded, reached, valid>>
        /\ pc \in Waiting
    BY DEF BeginStep, WaitHost, eventVars, memoryVars, adapterVars, Waiting
  <1>3. pc' \in {"hostWait", "deviceWait"}
    BY <1>1 DEF BeginStep, WaitHost, Fresh
  <1>4. \/ computeQ' = computeQ /\ otherQ' = otherQ
        \/ computeQ' = otherQ /\ otherQ' = computeQ
    <2>1. CASE WaitHost
      BY <2>1 DEF WaitHost
    <2>2. CASE BeginStep
      <3>1. PICK p \in Plans, changed \in BOOLEAN :
              /\ p.replay => stable
              /\ TakeStream(changed, IF p.replay THEN <<AdvanceTo(step + 1)>> ELSE <<>>)
        BY <2>2 DEF BeginStep
      <3>2. TakeStream(changed, <<>>)
        BY <1>1, <3>1 DEF Fresh
      <3>3. computeQ \o <<>> = computeQ /\ otherQ \o <<>> = otherQ
        BY <1>1
      <3> QED
        BY <3>2, <3>3 DEF TakeStream
    <2> QED
      BY <2>1, <2>2
  <1>5. Coming' = Coming
    BY <1>2 DEF Coming, Arriving, IsCopy
  <1>6. pc' \in Waiting /\ \A b \in Buffers : \A q \in {computeQ, otherQ} : ReleasedIn(q, b, valid)
    BY <1>1, <1>2, <1>3 DEF QueueInv, Waiting
  <1>7. QueueInv(computeQ)' /\ QueueInv(otherQ)'
    BY <1>1, <1>2, <1>4, <1>5, <1>6 DEF QueueInv
  <1>8. Fresh' /\ EventsInv'
    BY <1>1, <1>2, <1>4 DEF Fresh, EventsInv
  <1>9. TakenInv' /\ BatchInv'
    BY <1>3 DEF TakenInv, BatchInv, Waiting
  <1> QED
    BY <1>7, <1>8, <1>9 DEF OrderInv

\* A step takes the other buffer: its consumers have been passed on both streams.
LEMMA OrderTake ==
  ASSUME OrderInv, CommonInv', WaitDevice
  PROVE  OrderInv'
  <1>1. /\ Fresh /\ QueueInv(computeQ) /\ QueueInv(otherQ) /\ EventsInv
        /\ computeQ \in Seq(ComputeOps) /\ otherQ \in Seq(ComputeOps) /\ copyQ = <<>>
        /\ recorded \in [Events -> Nat] /\ reached \in [Events -> Nat] /\ active \in Buffers
        /\ \A e \in Events : reached[e] <= recorded[e]
    BY DEF OrderInv, CommonInv, ControlParts, TypesInv, CopyParts, WaitDevice
  <1>2. /\ UNCHANGED <<config, stable, pending, copyQ, dev, recorded, reached, valid, computeQ, otherQ>>
        /\ pc \in Waiting /\ active' = 1 - active
        /\ pc' \in {"packed", "decode", "prefill"}
    BY DEF WaitDevice, eventVars, memoryVars, adapterVars, Waiting
  <1>3. active' \in Buffers /\ \A b \in Buffers : b # active' => b = active
    BY <1>1, <1>2 DEF Buffers
  <1>4. \A b \in Buffers : \A q \in {computeQ, otherQ} : ReleasedIn(q, b, valid)
    BY <1>1, <1>2 DEF QueueInv
  <1>5. reached[Consumed(active')] = recorded[Consumed(active')]
    <2>1. CASE valid[active']
      BY <1>2, <2>1 DEF WaitDevice, Synchronized
    <2>2. CASE ~valid[active']
      <3>1. recorded[Consumed(active')] = 0
        BY <1>1, <1>3, <2>2 DEF EventsInv
      <3>2. Consumed(active') \in Events
        BY DEF Consumed, Events
      <3> QED
        BY <1>1, <3>1, <3>2
    <2> QED
      BY <2>1, <2>2
  <1>6. ASSUME NEW q \in {computeQ, otherQ}
        PROVE  Untaken(q, active')
    <2>1. q \in Seq(ComputeOps) /\ RecordsIn(q, reached, recorded) /\ ReleasedIn(q, active', valid)
      BY <1>1, <1>3, <1>4, <1>6 DEF QueueInv
    <2>2. \A phase \in Phases : ClearIn(q, active', phase)
      BY <1>1, <1>3, <1>5, <2>1, ReleasedAndPassed
    <2>3. ASSUME NEW k \in 1 .. Len(q), q[k].op = "record", q[k].event = Consumed(active')
          PROVE  FALSE
      <3>1. /\ reached[q[k].event] < q[k].count /\ q[k].count <= recorded[q[k].event]
        BY <2>1, <2>3 DEF RecordsIn
      <3>2. q[k] \in ComputeOps
        BY <2>1
      <3>3. q[k].count \in Nat /\ q[k].event \in Events
        BY <2>3, <3>2, KindsOfOperations DEF RecordOps, Events
      <3> QED
        BY <1>1, <1>5, <2>3, <3>1, <3>3
    <2> QED
      BY <2>2, <2>3 DEF Untaken, NoRecord
  <1>7. Coming' = Coming
    <2>1. Arriving = {} /\ Arriving' = {}
      BY <1>1, <1>2 DEF Arriving
    <2> QED
      BY <1>2, <2>1 DEF Coming, PutDev
  <1>8. ASSUME NEW q \in {computeQ, otherQ}
        PROVE  /\ Reads(q, Coming') /\ RecordsIn(q, reached', recorded') /\ KeepsOff(q, copyQ', active')
               /\ \A b \in Buffers : ReleasedIn(q, b, valid')
    <2>1. Reads(q, Coming) /\ RecordsIn(q, reached, recorded)
      BY <1>1, <1>8 DEF QueueInv
    <2>2. KeepsOff(q, copyQ', active')
      BY <1>1, <1>2 DEF KeepsOff
    <2> QED
      BY <1>2, <1>4, <1>7, <2>1, <2>2
  <1>9. QueueInv(computeQ)' /\ QueueInv(otherQ)'
    BY <1>2, <1>8 DEF QueueInv
  <1>10. TakenInv'
    <2>1. Untaken(otherQ', active') /\ Guards(computeQ', copyQ', active')
      BY <1>1, <1>2, <1>6 DEF Guards
    <2>2. KeptClear' \subseteq Phases
      BY DEF KeptClear, StillClear, Phases
    <2>3. \A phase \in KeptClear' : ClearIn(computeQ', active', phase)
      BY <1>2, <1>6, <2>2 DEF Untaken
    <2> QED
      BY <2>1, <2>3 DEF TakenInv
  <1>11. Fresh' /\ EventsInv' /\ BatchInv'
    BY <1>1, <1>2 DEF Fresh, EventsInv, BatchInv
  <1> QED
    BY <1>9, <1>10, <1>11 DEF OrderInv

\* Building and transferring a phase that nobody touches.
LEMMA OrderBuild ==
  ASSUME OrderInv, CommonInv', Build
  PROVE  OrderInv'
  <1>1. /\ CommonInv /\ Fresh /\ QueueInv(computeQ) /\ QueueInv(otherQ) /\ EventsInv /\ TypesInv
        /\ computeQ \in Seq(ComputeOps) /\ otherQ \in Seq(ComputeOps) /\ active \in Buffers
        /\ recorded \in [Events -> Nat] /\ reached \in [Events -> Nat] /\ cohort \in Nat
        /\ copyQ' \in Seq(TransferOps) /\ recorded["copied"] \in Nat
        /\ CopyOrder(copyQ, reached["copied"], recorded["copied"]) /\ CopiesOfCohort
    BY DEF OrderInv, CommonInv, ControlParts, TypesInv, CopyParts, Events
  <1>2. UNCHANGED <<config, active, cohort, dev, snapshot, static, pieces, results, plan, pending>>
        /\ cohort = step
    BY <1>1, BuildOnePhase
  <1>3. PICK phase \in Phases :
              /\ Transferred(phase)
              /\ host'[phase] = cohort
              /\ \A i \in 1 .. Len(copyQ) : IsCopy(i) => host'[copyQ[i].phase] = cohort
              /\ phase = "decode" => pc = "decode" /\ pc' = "decodeCall"
              /\ phase = "prefill" => pc = "prefill" /\ pc' = "prefillCall"
              /\ phase = "mixed" => pc = "packed" /\ pc' = "packedCall"
    BY <1>1, BuildOnePhase
  <1>4. /\ pc \notin Waiting /\ pc' \notin Waiting /\ phase \in KeptClear
        /\ KeptClear' \subseteq KeptClear /\ KeptClear \in SUBSET Phases
    BY <1>2, <1>3 DEF Waiting, KeptClear, StillClear, Phases
  <1>5. /\ Untaken(otherQ, active) /\ Guards(computeQ, copyQ, active)
        /\ \A p \in KeptClear : ClearIn(computeQ, active, p)
    BY <1>4 DEF OrderInv, TakenInv
  <1> DEFINE W == WaitOp("copied", recorded["copied"] + 1)
  <1>6. W \in WaitOps /\ W.op = "wait" /\ W.count = recorded["copied"] + 1
    BY <1>1 DEF WaitOp, WaitOps
  <1>7. W \in ComputeOps
    BY <1>6 DEF ComputeOps
  <1>8. /\ computeQ' = computeQ \o <<W>> /\ otherQ' = otherQ /\ reached' = reached /\ valid' = valid
        /\ recorded' = [recorded EXCEPT !["copied"] = @ + 1]
    BY <1>3 DEF Transferred, TransferCompute
  <1> HIDE DEF W
  <1>9. computeQ' = Append(computeQ, W) /\ computeQ' \in Seq(ComputeOps)
    BY <1>1, <1>7, <1>8, AppendingSeveral
  <1>10. \A b : \A p : ~Touches(W, b, p)
    BY <1>6 DEF Touches, Readers
  <1>11. /\ \A i \in 1 .. Len(copyQ') :
              IsCopy(i)' => \/ copyQ'[i].phase = phase /\ copyQ'[i + 1].count = recorded["copied"] + 1
                            \/ /\ i \in 1 .. Len(copyQ) /\ IsCopy(i)
                               /\ copyQ'[i] = copyQ[i] /\ copyQ'[i + 1] = copyQ[i + 1]
         /\ Arrived' = Put(FieldsOf(phase), active, cohort, Arrived)
    BY <1>1, <1>2, <1>3, TransferCopies
  <1>12. Coming' = PutDev(FieldsOf(phase), active, cohort, Coming)
         /\ Coming \in [Buffers -> [Fields -> Nat]]
    <2>1. Arrived'.dev = Coming' /\ Arrived.dev = Coming
      BY DEF Arrived, Put, Memory, Coming, PutDev
    <2>2. Arrived \in Memories
      BY <1>1, ArrivedTyped
    <2>3. Put(FieldsOf(phase), active, cohort, Arrived).dev
            = PutDev(FieldsOf(phase), active, cohort, Arrived.dev)
      BY <1>1, <2>2, PutFields
    <2> QED
      BY <1>11, <2>1, <2>2, <2>3 DEF Memories
  <1>13. Reads(computeQ', Coming') /\ Reads(otherQ', Coming')
    <2>1. ClearIn(computeQ, active, phase) /\ ClearIn(otherQ, active, phase)
      BY <1>4, <1>5 DEF Untaken
    <2>2. Reads(computeQ, Coming') /\ Reads(otherQ, Coming')
      BY <1>1, <1>12, <2>1, ReadsPut DEF QueueInv
    <2>3. ReadsHere(W, Coming')
      BY <1>6 DEF ReadsHere, Readers
    <2> QED
      BY <1>1, <1>7, <1>8, <1>9, <2>2, <2>3, ReadsOn
  <1>14. RecordsIn(computeQ', reached', recorded') /\ RecordsIn(otherQ', reached', recorded')
    <2> DEFINE q == computeQ'
               at == reached'
               last == recorded'
    <2>1. RecordsIn(q, reached, recorded) /\ q \in Seq(ComputeOps)
      BY <1>1, <1>6, <1>7, <1>9, RecordsOn DEF QueueInv
    <2>2. \A e \in {"consumed0", "consumed1"} : at[e] = reached[e] /\ last[e] = recorded[e]
      BY <1>1, <1>8 DEF Events
    <2>3. RecordsIn(otherQ, reached, recorded)
      BY <1>1 DEF QueueInv
    <2> HIDE DEF q, at, last
    <2>4. RecordsIn(q, at, last) /\ RecordsIn(otherQ, at, last)
      BY <1>1, <2>1, <2>2, <2>3, RecordsAgree
    <2> QED
      BY <1>8, <2>4 DEF q, at, last
  <1>15. Guards(computeQ', copyQ', active')
    <2>1. SUFFICES ASSUME NEW i \in 1 .. Len(copyQ'), IsCopy(i)'
                   PROVE  GuardedIn(computeQ', active', copyQ'[i].phase, copyQ'[i + 1].count)
      BY DEF Guards, IsCopy
    <2>2. CASE copyQ'[i].phase = phase /\ copyQ'[i + 1].count = recorded["copied"] + 1
      <3>1. GuardedIn(computeQ', active, phase, W.count)
        BY <1>1, <1>4, <1>5, <1>6, <1>9, GuardedByWait
      <3> QED
        BY <1>2, <1>6, <2>2, <3>1
    <2>3. CASE /\ i \in 1 .. Len(copyQ) /\ IsCopy(i)
               /\ copyQ'[i] = copyQ[i] /\ copyQ'[i + 1] = copyQ[i + 1]
      <3>1. GuardedIn(computeQ, active, copyQ[i].phase, copyQ[i + 1].count)
        BY <1>5, <2>3 DEF Guards, IsCopy
      <3>2. GuardedIn(computeQ', active, copyQ[i].phase, copyQ[i + 1].count)
        BY <1>1, <1>7, <1>9, <3>1, GuardedOn
      <3> QED
        BY <1>2, <2>3, <3>2
    <2> QED
      BY <1>11, <2>1, <2>2, <2>3
  <1>16. KeepsOff(otherQ', copyQ', active')
    <2>1. \A i \in 1 .. Len(copyQ') : copyQ'[i].op = "copy" => copyQ'[i].phase \in Phases
      BY <1>1, KindsOfTransfers
    <2> QED
      BY <1>2, <1>5, <1>8, <2>1 DEF KeepsOff, Untaken
  <1>17. \A b \in Buffers : b # active => ReleasedIn(computeQ', b, valid') /\ ReleasedIn(otherQ', b, valid')
    BY <1>1, <1>7, <1>8, <1>9, <1>10, ReleasedOn DEF QueueInv
  <1>18. QueueInv(computeQ)' /\ QueueInv(otherQ)'
    <2>1. KeepsOff(computeQ', copyQ', active')
      BY <1>15 DEF KeepsOff, Guards
    <2> QED
      BY <1>2, <1>4, <1>13, <1>14, <1>16, <1>17, <2>1 DEF QueueInv
  <1>19. TakenInv'
    <2>1. \A p \in KeptClear' : ClearIn(computeQ', active', p)
      BY <1>1, <1>2, <1>4, <1>5, <1>7, <1>9, <1>10, ClearOn
    <2> QED
      BY <1>2, <1>5, <1>8, <1>15, <2>1 DEF TakenInv
  <1>20. EventsInv'
    <2>1. \A e : NoRecord(computeQ, e) => NoRecord(computeQ', e)
      BY <1>1, <1>6, <1>7, <1>9, NoRecordOn
    <2>2. \A b \in Buffers : recorded'[Consumed(b)] = recorded[Consumed(b)]
      BY <1>1, <1>8 DEF Consumed, Events
    <2> QED
      BY <1>1, <1>8, <2>1, <2>2 DEF EventsInv
  <1>21. Fresh'
    <2>1. stable' = stable \/ stable' = (config.reuse /\ ~plan.prefill)
      BY DEF Build, BuildDecode, BuildPrefill, BuildMixed
    <2>2. ~stable /\ ~config.reuse /\ pending = Nothing /\ ~config.deferred
      BY <1>1 DEF Fresh
    <2>3. ~(config.reuse /\ ~plan.prefill)
      BY <2>2
    <2>4. ~stable'
      BY <2>1, <2>2, <2>3
    <2> QED
      BY <1>2, <2>2, <2>4 DEF Fresh
  <1>22. BatchInv'
    <2>1. \A f \in FieldsOf(phase) : Coming'[active][f] = cohort
      BY <1>1, <1>3, <1>12 DEF PutDev, FieldsOf, Fields, Phases
    <2>2. step' = step
      BY DEF Build, BuildDecode, BuildPrefill, BuildMixed
    <2> QED
      BY <1>2, <1>3, <2>1, <2>2 DEF BatchInv, FieldsOf, Phases
  <1> QED
    BY <1>18, <1>19, <1>20, <1>21, <1>22 DEF OrderInv

\* A step of the copy stream: what has arrived was to come.
LEMMA OrderCopy ==
  ASSUME OrderInv, CommonInv', CopyStep
  PROVE  OrderInv'
  <1>1. /\ TypesInv /\ Fresh /\ QueueInv(computeQ) /\ QueueInv(otherQ) /\ TakenInv /\ EventsInv /\ BatchInv
        /\ computeQ \in Seq(ComputeOps) /\ otherQ \in Seq(ComputeOps)
        /\ CopyOrder(copyQ, reached["copied"], recorded["copied"]) /\ CopiesOfCohort
    BY DEF OrderInv, CommonInv, ControlParts, TypesInv, CopyParts
  <1>2. UNCHANGED <<config, pc, step, plan, active, stable, cohort, recorded, valid, computeQ, otherQ,
                    pending>>
    BY DEF CopyStep, cpuVars, adapterVars
  <1>3. /\ \A i \in 1 .. Len(copyQ') :
             IsCopy(i)' => /\ i + 1 \in 1 .. Len(copyQ) /\ IsCopy(i + 1)
                           /\ copyQ'[i] = copyQ[i + 1] /\ copyQ'[i + 1] = copyQ[(i + 1) + 1]
        /\ \A e \in {"consumed0", "consumed1"} : reached'[e] = reached[e] /\ recorded'[e] = recorded[e]
        /\ Arrived' = Arrived
    BY <1>1, CopyStepArrives
  <1>4. Coming' = Coming
    BY <1>3 DEF Arrived, Put, Memory, Coming, PutDev
  <1>5. ASSUME NEW q \in {computeQ, otherQ}, QueueInv(q)
        PROVE  /\ Reads(q, Coming') /\ RecordsIn(q, reached', recorded') /\ KeepsOff(q, copyQ', active')
               /\ \A b \in Buffers : b # active' \/ pc' \in Waiting => ReleasedIn(q, b, valid')
               /\ Guards(q, copyQ, active) => Guards(q, copyQ', active')
    <2>1. /\ Reads(q, Coming) /\ RecordsIn(q, reached, recorded) /\ KeepsOff(q, copyQ, active)
          /\ \A b \in Buffers : b # active \/ pc \in Waiting => ReleasedIn(q, b, valid)
          /\ q \in Seq(ComputeOps)
      BY <1>1, <1>5 DEF QueueInv
    <2> DEFINE at == reached'
               last == recorded'
    <2>2. RecordsIn(q, at, last)
      <3>1. \A e \in {"consumed0", "consumed1"} : at[e] = reached[e] /\ last[e] = recorded[e]
        BY <1>3
      <3> HIDE DEF at, last
      <3> QED
        BY <2>1, <3>1, RecordsAgree
    <2>3. KeepsOff(q, copyQ', active')
      BY <1>2, <1>3, <2>1 DEF KeepsOff, IsCopy
    <2>4. Guards(q, copyQ, active) => Guards(q, copyQ', active')
      BY <1>2, <1>3 DEF Guards, IsCopy
    <2> QED
      BY <1>2, <1>4, <2>1, <2>2, <2>3, <2>4
  <1>6. QueueInv(computeQ)' /\ QueueInv(otherQ)'
    BY <1>1, <1>2, <1>5 DEF QueueInv
  <1>7. TakenInv'
    <2>1. KeptClear' = KeptClear
      BY <1>2 DEF KeptClear, StillClear
    <2> QED
      BY <1>1, <1>2, <1>5, <2>1 DEF TakenInv
  <1>8. Fresh' /\ EventsInv' /\ BatchInv'
    BY <1>1, <1>2, <1>4 DEF Fresh, EventsInv, BatchInv
  <1> QED
    BY <1>6, <1>7, <1>8 DEF OrderInv

\* What keeps a queue off the copies under way does so until it has waited for
\* them: it can pass a wait for a copy only when the copy has arrived.
LEMMA KeepsOffLater ==
  ASSUME NEW q \in Seq(ComputeOps), q # <<>>, NEW b, Passed(Head(q)),
         copyQ \in Seq(TransferOps), reached["copied"] \in Nat,
         CopyOrder(copyQ, reached["copied"], recorded["copied"]), NEW i \in 1 .. Len(copyQ), IsCopy(i),
         GuardedIn(q, b, copyQ[i].phase, copyQ[i + 1].count)
  PROVE  GuardedIn(Tail(q), b, copyQ[i].phase, copyQ[i + 1].count)
  <1>1. i + 1 \in 1 .. Len(copyQ) /\ copyQ[i + 1].op = "record"
    BY DEF CopyOrder, IsCopy
  <1>2. copyQ[i + 1] \in TransferOps
    BY <1>1
  <1>3. copyQ[i + 1].count \in Nat /\ reached["copied"] < copyQ[i + 1].count
    BY <1>1, <1>2, KindsOfTransfers DEF CopyOrder
  <1>4. Head(q) \in ComputeOps
    BY Popping
  <1>5. Head(q).op = "wait" => Head(q).event = "copied" /\ Head(q).count \in Nat
    BY <1>4, KindsOfOperations DEF WaitOps
  <1>6. ~(Head(q).op = "wait" /\ Head(q).count >= copyQ[i + 1].count)
    BY <1>3, <1>5 DEF Passed
  <1> QED
    BY <1>3, <1>6, GuardedOff

\* A compute stream executes the next operation of its queue.
LEMMA OrderExecute ==
  ASSUME OrderInv, CommonInv', ComputeStep \/ OtherStep
  PROVE  OrderInv'
  <1>1. /\ TypesInv /\ Fresh /\ QueueInv(computeQ) /\ QueueInv(otherQ) /\ TakenInv /\ EventsInv /\ BatchInv
        /\ computeQ \in Seq(ComputeOps) /\ otherQ \in Seq(ComputeOps) /\ copyQ \in Seq(TransferOps)
        /\ recorded \in [Events -> Nat] /\ reached \in [Events -> Nat] /\ reached["copied"] \in Nat
        /\ \A e \in Events : reached[e] <= recorded[e]
        /\ CopyOrder(copyQ, reached["copied"], recorded["copied"])
    BY DEF OrderInv, CommonInv, ControlParts, TypesInv, CopyParts, Events
  <1>2. PICK q \in {computeQ, otherQ}, r \in {computeQ, otherQ} :
          /\ q # <<>> /\ Executes(Head(q))
          /\ \/ q = computeQ /\ r = otherQ /\ computeQ' = Tail(q) /\ otherQ' = r
             \/ q = otherQ /\ r = computeQ /\ otherQ' = Tail(q) /\ computeQ' = r
    BY DEF ComputeStep, OtherStep
  <1>3. /\ QueueInv(q) /\ QueueInv(r) /\ q \in Seq(ComputeOps) /\ r \in Seq(ComputeOps)
        /\ \A e \in Events : NoRecord(q, e) \/ NoRecord(r, e)
    BY <1>1, <1>2 DEF EventsInv
  <1>4. /\ UNCHANGED <<config, pc, step, plan, active, stable, cohort, recorded, valid, copyQ, pending>>
        /\ reached' = PassedEvents(reached, Head(q)) /\ Passed(Head(q))
    BY <1>2 DEF Executes, cpuVars, adapterVars
  <1>5. /\ Head(q) \in ComputeOps /\ Head(q) = q[1] /\ 1 \in 1 .. Len(q)
        /\ Tail(q) \in Seq(ComputeOps)
    BY <1>2, <1>3, Popping
  <1>6. Reads(Tail(q), Coming) /\ ReadsHere(Head(q), Coming)
    BY <1>2, <1>3, ReadsOff DEF QueueInv
  <1>7. Coming' = Coming
    <2>1. dev' = dev
      BY <1>2, <1>6 DEF Executes, ReadsHere
    <2> QED
      BY <1>4, <2>1 DEF Coming, Arriving, IsCopy
  <1>8. RecordsIn(Tail(q), reached', recorded')
    BY <1>1, <1>2, <1>3, <1>4, RecordsOff DEF QueueInv
  <1>9. RecordsIn(r, reached', recorded')
    <2>1. Head(q).op = "record" => NoRecord(r, Head(q).event)
      <3>1. ASSUME Head(q).op = "record"
            PROVE  Head(q).event \in Events /\ ~NoRecord(q, Head(q).event)
        BY <1>5, <3>1, KindsOfOperations DEF RecordOps, Events, NoRecord
      <3> QED
        BY <1>3, <3>1
    <2> QED
      BY <1>1, <1>3, <1>4, <1>5, <2>1, RecordsElsewhere DEF QueueInv
  <1>10. ASSUME NEW i \in 1 .. Len(copyQ), IsCopy(i)
         PROVE  /\ ClearIn(q, active, copyQ[i].phase) => ClearIn(Tail(q), active, copyQ[i].phase)
                /\ GuardedIn(q, active, copyQ[i].phase, copyQ[i + 1].count)
                     => GuardedIn(Tail(q), active, copyQ[i].phase, copyQ[i + 1].count)
    BY <1>1, <1>2, <1>3, <1>4, <1>10, ClearOff, KeepsOffLater
  <1>11. KeepsOff(Tail(q), copyQ, active) /\ KeepsOff(r, copyQ, active)
    BY <1>3, <1>10 DEF QueueInv, KeepsOff, IsCopy
  <1>12. \A b \in Buffers : b # active \/ pc \in Waiting =>
           ReleasedIn(Tail(q), b, valid) /\ ReleasedIn(r, b, valid)
    BY <1>2, <1>3, ReleasedOff DEF QueueInv
  <1>13. QueueInv(computeQ)' /\ QueueInv(otherQ)'
    <2>1. ASSUME NEW s \in {Tail(q), r}
          PROVE  /\ Reads(s, Coming') /\ RecordsIn(s, reached', recorded') /\ KeepsOff(s, copyQ', active')
                 /\ \A b \in Buffers : b # active' \/ pc' \in Waiting => ReleasedIn(s, b, valid')
      BY <1>3, <1>4, <1>6, <1>7, <1>8, <1>9, <1>11, <1>12 DEF QueueInv
    <2>2. computeQ' \in {Tail(q), r} /\ otherQ' \in {Tail(q), r}
      BY <1>2
    <2> QED
      BY <2>1, <2>2 DEF QueueInv
  <1>14. TakenInv'
    <2>1. SUFFICES ASSUME pc \notin Waiting
                   PROVE  /\ Untaken(otherQ', active) /\ Guards(computeQ', copyQ, active)
                          /\ \A phase \in KeptClear : ClearIn(computeQ', active, phase)
      BY <1>4 DEF TakenInv, KeptClear, StillClear
    <2>2. /\ Untaken(otherQ, active) /\ Guards(computeQ, copyQ, active)
          /\ \A phase \in KeptClear : ClearIn(computeQ, active, phase)
      BY <1>1, <2>1 DEF TakenInv
    <2>3. CASE q = computeQ /\ r = otherQ /\ computeQ' = Tail(q) /\ otherQ' = r
      BY <1>2, <1>3, <1>10, <2>2, <2>3, ClearOff DEF Guards, IsCopy
    <2>4. CASE q = otherQ /\ r = computeQ /\ otherQ' = Tail(q) /\ computeQ' = r
      BY <1>2, <1>3, <2>2, <2>4, UntakenOff
    <2> QED
      BY <1>2, <2>3, <2>4
  <1>15. EventsInv'
    <2>1. \A e \in Events : NoRecord(Tail(q), e) \/ NoRecord(r, e)
      BY <1>2, <1>3, NoRecordOff
    <2>2. \A e \in Events : NoRecord(computeQ', e) \/ NoRecord(otherQ', e)
      BY <1>2, <2>1
    <2> QED
      BY <1>1, <1>4, <2>2 DEF EventsInv
  <1>16. Fresh' /\ BatchInv'
    BY <1>1, <1>4, <1>7 DEF Fresh, BatchInv
  <1> QED
    BY <1>13, <1>14, <1>15, <1>16 DEF OrderInv

\* It holds at the start, when nothing is kept and nothing staged.
LEMMA OrderInitially ==
  ASSUME Init, ~config.reuse, ~config.deferred
  PROVE  OrderInv
  <1>1. CommonInv
    BY CommonInitially
  <1>2. copyQ = <<>> /\ computeQ = <<>> /\ otherQ = <<>> /\ pc = "idle" /\ stable = FALSE
    BY ControlInitially
  <1>3. QueueInv(computeQ) /\ QueueInv(otherQ)
    BY <1>2 DEF QueueInv, Reads, RecordsIn, KeepsOff, ReleasedIn
  <1>4. TakenInv /\ BatchInv
    BY <1>2 DEF TakenInv, BatchInv, Waiting
  <1>5. EventsInv
    <2>1. \A e : NoRecord(computeQ, e)
      BY <1>2 DEF NoRecord
    <2>2. \A b \in Buffers : recorded[Consumed(b)] = 0
      BY DEF Init, Consumed, Events
    <2> QED
      BY <2>1, <2>2 DEF EventsInv
  <1>6. Fresh
    BY <1>2 DEF Fresh, Init
  <1> QED
    BY <1>1, <1>3, <1>4, <1>5, <1>6 DEF OrderInv

\* Every step keeps it, and so does a step in which nothing happens.
LEMMA OrderStep ==
  ASSUME OrderInv, [Next]_vars
  PROVE  OrderInv'
  <1>1. CommonInv'
    BY CommonStep, CommonStuttering DEF OrderInv
  <1>2. CASE UNCHANGED vars
    <2>1. UNCHANGED <<config, pc, step, plan, active, stable, cohort, recorded, reached, valid,
                      copyQ, computeQ, otherQ, dev, pending>>
      BY <1>2 DEF vars, cpuVars, eventVars, memoryVars, adapterVars
    <2>2. Coming' = Coming /\ KeptClear' = KeptClear
      BY <2>1 DEF Coming, Arriving, IsCopy, KeptClear, StillClear
    <2>3. QueueInv(computeQ)' /\ QueueInv(otherQ)'
      BY <2>1, <2>2 DEF OrderInv, QueueInv
    <2>4. TakenInv'
      BY <2>1, <2>2 DEF OrderInv, TakenInv
    <2>5. EventsInv' /\ BatchInv' /\ Fresh'
      BY <2>1, <2>2 DEF OrderInv, EventsInv, BatchInv, Fresh
    <2> QED
      BY <1>1, <2>3, <2>4, <2>5 DEF OrderInv
  <1>3. CASE Cpu
    BY <1>1, <1>3, OrderBegin, OrderTake, OrderBuild, OrderCallback, OrderFinish DEF Cpu
  <1>4. CASE Done
    BY <1>2, <1>4 DEF Done
  <1> QED
    BY <1>1, <1>2, <1>3, <1>4, OrderCopy, OrderExecute DEF Next

\* An operation that may be running finds its batch in memory as it is now: it
\* does not touch what is still to arrive.
LEMMA OrderHead ==
  ASSUME OrderInv, NEW q \in {computeQ, otherQ}, q # <<>>
  PROVE  /\ Head(q) \in ComputeOps /\ Head(q).op # "advance"
         /\ Head(q).op \in Readers =>
              \A s \in Head(q).sources : s.from # "snapshot" /\ Found(s, Head(q), dev)
  <1>1. /\ TypesInv /\ QueueInv(q) /\ q \in Seq(ComputeOps) /\ copyQ \in Seq(TransferOps)
        /\ CopyOrder(copyQ, reached["copied"], recorded["copied"])
    BY DEF OrderInv, CommonInv, ControlParts, TypesInv, CopyParts
  <1> DEFINE o == Head(q)
  <1>2. o \in ComputeOps /\ o = q[1] /\ 1 \in 1 .. Len(q)
    BY <1>1, Popping
  <1>3. ReadsHere(o, Coming)
    BY <1>1, ReadsOff DEF QueueInv
  <1>4. ASSUME NEW i \in 1 .. Len(copyQ), IsCopy(i)
        PROVE  ~Touches(o, active, copyQ[i].phase)
    <2>1. CASE ClearIn(q, active, copyQ[i].phase)
      BY <1>2, <2>1 DEF ClearIn
    <2>2. CASE GuardedIn(q, active, copyQ[i].phase, copyQ[i + 1].count)
      <3>1. i + 1 \in 1 .. Len(copyQ) /\ copyQ[i + 1].op = "record"
        BY <1>1, <1>4 DEF CopyOrder, IsCopy
      <3>2. copyQ[i + 1] \in TransferOps
        BY <1>1, <3>1
      <3>3. copyQ[i + 1].count \in Nat
        BY <3>1, <3>2, KindsOfTransfers
      <3> QED
        BY <1>1, <2>2, <3>3, GuardedOff
    <2> QED
      BY <1>1, <1>4, <2>1, <2>2 DEF QueueInv, KeepsOff, IsCopy
  <1> HIDE DEF o
  <1>5. ASSUME o.op \in Readers, NEW s \in o.sources
        PROVE  s.from # "snapshot" /\ Found(s, o, dev)
    <2>1. s.from # "snapshot" /\ Found(s, o, Coming) /\ s \in Sources
      BY <1>2, <1>3, <1>5, SourcesTyped DEF ReadsHere
    <2>2. s.from \in Phases /\ s.from \in Fields /\ "table" \in Fields /\ s.buf \in Buffers
      BY <2>1 DEF Sources, Phases, Fields
    <2>3. ~(s.buf = active /\ s.from \in Arriving)
      <3>1. SUFFICES ASSUME s.buf = active, s.from \in Arriving
                     PROVE  FALSE
        OBVIOUS
      <3>2. PICK i \in 1 .. Len(copyQ) : IsCopy(i) /\ copyQ[i].phase = s.from
        BY <1>1, <2>2, <3>1, ArrivingPhases
      <3>3. ~Touches(o, active, s.from)
        BY <1>4, <3>2
      <3> QED
        BY <1>5, <3>1, <3>3 DEF Touches
    <2>4. s.from = "decode" => ~(s.buf = active /\ "table" \in Arriving)
      BY <1>1, <2>3, ArrivingPhases DEF Closed
    <2>5. /\ Coming[s.buf][s.from] = dev[s.buf][s.from]
          /\ s.from = "decode" => Coming[s.buf]["table"] = dev[s.buf]["table"]
      <3>1. \A f \in Fields : ~(s.buf = active /\ f \in Arriving) => Coming[s.buf][f] = dev[s.buf][f]
        BY <2>2 DEF Coming, PutDev
      <3> QED
        BY <2>2, <2>3, <2>4, <3>1
    <2> QED
      BY <2>1, <2>5 DEF Found
  <1> QED
    BY <1>2, <1>3, <1>5 DEF ReadsHere, o

\* Either the caller stays on one stream, or nothing is kept from step to step
\* and nothing staged within a step.
OrderedOnly == \A c \in Configs : c.streams = "one" \/ (~c.reuse /\ ~c.deferred)

\* Every pass, clone, refresh and in-place advance reads the metadata that were
\* built for its own step, however far the CPU thread has built ahead and
\* whichever step has failed (KernelsReadTheirBatch): on one compute stream
\* whatever the configuration, and on changing streams when neither metadata
\* nor decode rows are kept for later.  The hypothesis is needed: a replay after
\* CPU logits and a change of stream advances rows that may still be read.
THEOREM KernelsReadTheirOwnBatch ==
  ASSUME OrderedOnly
  PROVE  Spec => []KernelsReadTheirBatch
  <1>1. ASSUME IInv
        PROVE  KernelsReadTheirBatch
    <2>1. ASSUME NEW op \in Running({"pass", "pieces", "stage", "clone", "refresh"}),
                 NEW source \in op.sources
          PROVE  Agree(SourceReads(source, op))
      <3>1. computeQ # <<>> /\ op = Head(computeQ) /\ op.op \in Readers
        BY <1>1, OneHead DEF Readers
      <3>2. op \in ComputeOps /\ Right(op, Memory)
        BY <1>1, <3>1, HeadFinds
      <3>3. source \in Sources
        BY <2>1, <3>1, <3>2, SourcesTyped
      <3>4. Finds(source, op, Memory)
        BY <2>1, <3>1, <3>2 DEF Right
      <3> QED
        BY <3>3, <3>4, SourceAgrees
    <2>2. ASSUME NEW op \in Running({"advance"})
          PROVE  dev[op.buf]["decode"] = op.step - 1 /\ dev[op.buf]["table"] = op.cohort
      <3>1. computeQ # <<>> /\ op = Head(computeQ) /\ op.op = "advance"
        BY <1>1, OneHead
      <3>2. Right(op, Memory) /\ Memory.dev = dev
        BY <1>1, <3>1, HeadFinds DEF Memory
      <3> QED
        BY <3>1, <3>2 DEF Right
    <2> QED
      BY <2>1, <2>2 DEF KernelsReadTheirBatch
  <1>2. ASSUME OrderInv
        PROVE  KernelsReadTheirBatch
    <2>1. ASSUME NEW op \in Running({"pass", "pieces", "stage", "clone", "refresh"}),
                 NEW source \in op.sources
          PROVE  Agree(SourceReads(source, op))
      <3>1. PICK q \in {computeQ, otherQ} : q # <<>> /\ op = Head(q) /\ op.op \in Readers
        BY DEF Running, Readers
      <3>2. op \in ComputeOps /\ source.from # "snapshot" /\ Found(source, op, dev)
        BY <1>2, <2>1, <3>1, OrderHead
      <3>3. source \in Sources
        BY <2>1, <3>1, <3>2, SourcesTyped
      <3>4. Finds(source, op, Memory)
        BY <3>2, <3>3 DEF Found, Finds, Memory, Sources
      <3> QED
        BY <3>3, <3>4, SourceAgrees
    <2>2. Running({"advance"}) = {}
      BY <1>2, OrderHead DEF Running
    <2> QED
      BY <2>1, <2>2 DEF KernelsReadTheirBatch
  <1>3. Init => IInv \/ OrderInv
    BY Initially, OrderInitially DEF Init, OrderedOnly
  <1>4. (IInv \/ OrderInv) /\ [Next]_vars => (IInv \/ OrderInv)'
    BY EveryStep, Stuttering, OrderStep
  <1>5. IInv \/ OrderInv => KernelsReadTheirBatch
    BY <1>1, <1>2
  <1> QED
    BY <1>3, <1>4, <1>5, PTL DEF Spec

=============================================================================
