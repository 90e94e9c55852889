------------------------- MODULE IterationLoopProofs -------------------------
(***************************************************************************)
(* Proofs about the iteration loop, for every value of its constants: the  *)
(* type invariant, the partition of the pages, that every answer is handed *)
(* out once, and the plans.                                                *)
(***************************************************************************)
EXTENDS IterationLoopProperties, FiniteSetTheorems, TLAPS

-----------------------------------------------------------------------------
(* Sizes and slots *)

\* Rounding up keeps naturals natural.
LEMMA CeilDivNat ==
  ASSUME NEW n \in Nat, NEW d \in Nat \ {0}
  PROVE  CeilDiv(n, d) \in Nat
BY DEF CeilDiv

\* There is at least one page per row.
LEMMA TotalBlocksPositive == TotalBlocks \in Nat \ {0}
<1>1. MaxContextLength + BlockSize - 1 >= BlockSize
  BY ConfigAssumption
<1>2. MaxBlocks \in Nat \ {0}
  BY <1>1, ConfigAssumption DEF MaxBlocks, CeilDiv
<1>3. QED
  BY <1>2, ConfigAssumption DEF TotalBlocks

\* A position looked up in a table of pages is a slot of the pool.
LEMMA SlotInRange ==
  ASSUME NEW table \in Seq(Blocks), NEW pos \in Nat
  PROVE  SlotAt(table, pos) \in Slots
<1> DEFINE page  == pos \div BlockSize
           block == IF page < Len(table) THEN table[page + 1] ELSE 0
<1>0. BlockSize \in Nat \ {0} /\ TotalBlocks \in Nat \ {0}
  BY ConfigAssumption, TotalBlocksPositive
<1>1. page \in Nat
  BY <1>0
<1>2. block \in 0 .. (TotalBlocks - 1)
  BY <1>0, <1>1 DEF Blocks
<1>3. pos % BlockSize \in 0 .. (BlockSize - 1)
  BY <1>0
<1> HIDE DEF block
<1>4. block * BlockSize \in Nat /\ block * BlockSize <= (TotalBlocks - 1) * BlockSize
  BY <1>0, <1>2
<1>5. (TotalBlocks - 1) * BlockSize = TotalBlocks * BlockSize - BlockSize
  BY <1>0
<1>6. block * BlockSize + (pos % BlockSize) \in Slots
  BY <1>0, <1>3, <1>4, <1>5 DEF Slots
<1>7. QED
  BY <1>6 DEF SlotAt, block

\* More tokens need no fewer pages.
LEMMA CeilDivMonotone ==
  ASSUME NEW m \in Nat, NEW n \in Nat, m <= n, NEW d \in Nat \ {0}
  PROVE  CeilDiv(m, d) <= CeilDiv(n, d)
<1> DEFINE a == m + d - 1
           b == n + d - 1
<1>1. a \in Nat /\ b \in Nat /\ a <= b
  OBVIOUS
<1> HIDE DEF a, b
<1>2. a \div d <= b \div d
  BY <1>1
<1>3. QED
  BY <1>2 DEF CeilDiv, a, b

-----------------------------------------------------------------------------
(* The inductive invariant behind TypeOK *)

InRunning(r) == \E i \in 1 .. Len(running) : running[i] = r

Sorted(s) == \A i, j \in 1 .. Len(s) : i < j => s[i] < s[j]

\* Requests wait and run in the order they were accepted, so none is twice in
\* the queue.
QueueInv ==
  /\ Sorted(running)
  /\ Sorted(pending)
  /\ \A i \in 1 .. Len(running) : \A j \in 1 .. Len(pending) : running[i] < pending[j]
  /\ \A i \in 1 .. Len(running) : running[i] < nextId
  /\ \A j \in 1 .. Len(pending) : pending[j] < nextId

\* Only what submit_request let through is in play.
AcceptedInv ==
  \A r \in Reqs : r < nextId =>
    /\ promptLen[r] >= 1 /\ maxOutput[r] >= 1
    /\ promptLen[r] + maxOutput[r] <= MaxContextLength

\* A request that waits, or has not arrived, is untouched.
WaitingInv ==
  /\ \A r \in Reqs : r >= nextId => status[r] = "PENDING"
  /\ \A j \in 1 .. Len(pending) : status[pending[j]] = "PENDING"
  /\ \A r \in Reqs : status[r] = "PENDING" => outputs[r] = <<>> /\ computed[r] = 0

\* A running request holds the pages of its longest sequence, and until the end
\* of a step none of them has ended.
RunningInv ==
  /\ \A i \in 1 .. Len(running) :
       /\ Len(blocks[running[i]]) = BlocksNeeded(running[i])
       /\ status[running[i]] # "PENDING"
       /\ pc # "retire" => status[running[i]] # "COMPLETED"
  /\ \A r \in Reqs : r < nextId /\ status[r] # "COMPLETED" => Len(outputs[r]) < maxOutput[r]

\* A plan serves running requests, and its chunks are of their prompts.
PlanInv ==
  pc # "retire" =>
    /\ \A i \in 1 .. Len(decodePlan) : InRunning(decodePlan[i])
    /\ \A i \in 1 .. Len(prefillPlan) :
         LET item == prefillPlan[i]
         IN  InRunning(item.req) /\ computed[item.req] + item.chunk <= promptLen[item.req]

\* The scan starts at the first request, and the tokens sampled so far are those
\* of the rows launched so far.
CursorInv ==
  /\ pc = "scan" => scan >= 1
  /\ pc = "decode" => Len(dev) = Len(decodePlan)
  /\ pc = "prefill" => Len(decoded) = Len(decodePlan)
  /\ pc # "prefill" => decoded = <<>>

TypeInv ==
  /\ TypeOK
  /\ QueueInv
  /\ AcceptedInv
  /\ WaitingInv
  /\ RunningInv
  /\ PlanInv
  /\ CursorInv

-----------------------------------------------------------------------------
(* The rows of a call are well formed *)

\* A table entry list cut to its first n pages.
LEMMA PrefixType ==
  ASSUME NEW S, NEW s \in Seq(S), NEW n \in 0 .. Len(s)
  PROVE  SubSeq(s, 1, n) \in Seq(S) /\ Len(SubSeq(s, 1, n)) = n
OBVIOUS

\* The id a decode row is fed is a place in some sequence.
LEMMA LastTokenType ==
  ASSUME TypeOK, NEW r \in Reqs
  PROVE  LastToken(r) \in Places
<1>1. promptLen[r] \in Nat /\ outputs[r] \in Seq(Tokens) /\ r \in Int
  BY ConfigAssumption DEF TypeOK, RequestTypes, PoolTypes, Reqs
<1>2. CASE outputs[r] = <<>>
  BY <1>1, <1>2 DEF LastToken, Places
<1>3. CASE outputs[r] # <<>>
  <2>1. outputs[r][Len(outputs[r])] \in Tokens
    BY <1>1, <1>3
  <2>2. QED
    BY <1>3, <2>1 DEF LastToken, Place, Places, Tokens
<1>4. QED
  BY <1>2, <1>3

\* A running request's context never outgrows the pages it holds.
LEMMA ContextFits ==
  ASSUME TypeInv, NEW r \in Reqs, InRunning(r), NEW n \in Nat, n <= promptLen[r] + maxOutput[r]
  PROVE  CeilDiv(n, BlockSize) \in 0 .. Len(blocks[r])
<1>1. promptLen[r] \in Nat /\ maxOutput[r] \in Nat /\ BlockSize \in Nat \ {0}
  BY ConfigAssumption DEF TypeInv, TypeOK, RequestTypes, PoolTypes
<1>2. Len(blocks[r]) = CeilDiv(promptLen[r] + maxOutput[r], BlockSize)
  BY DEF TypeInv, RunningInv, InRunning, BlocksNeeded
<1>3. CeilDiv(n, BlockSize) <= CeilDiv(promptLen[r] + maxOutput[r], BlockSize)
  BY <1>1, CeilDivMonotone
<1>4. CeilDiv(n, BlockSize) \in Nat
  BY <1>1, CeilDivNat
<1>5. Len(blocks[r]) \in Nat
  BY DEF TypeInv, TypeOK, RequestTypes, PoolTypes
<1>6. QED
  BY <1>2, <1>3, <1>4, <1>5

\* The context of a request that decodes: at least its prompt, at most its limit.
LEMMA DecodeContext ==
  ASSUME TypeInv, NEW r \in Reqs, InRunning(r), pc # "retire"
  PROVE  /\ TotalTokens(r) \in Nat \ {0}
         /\ TotalTokens(r) <= promptLen[r] + maxOutput[r]
<1>1. promptLen[r] \in Nat /\ maxOutput[r] \in Nat /\ Len(outputs[r]) \in Nat
  BY DEF TypeInv, TypeOK, RequestTypes, PoolTypes
<1>2. r < nextId /\ status[r] # "COMPLETED"
  BY DEF TypeInv, QueueInv, RunningInv, InRunning
<1>3. promptLen[r] >= 1 /\ Len(outputs[r]) < maxOutput[r]
  BY <1>2 DEF TypeInv, AcceptedInv, RunningInv
<1>4. QED
  BY <1>1, <1>3 DEF TotalTokens

\* The rows build_decode_batch makes.
LEMMA DecodeRowType ==
  ASSUME TypeInv, NEW r \in Reqs, InRunning(r), pc # "retire", NEW reserved \in BOOLEAN
  PROVE  DecodeRow(r, reserved) \in DeviceRows
<1> DEFINE total   == TotalTokens(r)
           visible == IF reserved THEN Len(blocks[r]) ELSE CeilDiv(total, BlockSize)
<1>1. total \in Nat \ {0} /\ total <= promptLen[r] + maxOutput[r]
  BY DecodeContext
<1>2. blocks[r] \in Seq(Blocks)
  BY DEF TypeInv, TypeOK, RequestTypes, PoolTypes
<1>3. LastToken(r) \in Places
  BY LastTokenType DEF TypeInv
<1> HIDE DEF total
<1>4. visible \in 0 .. Len(blocks[r])
  BY <1>1, <1>2, ContextFits
<1>5. SlotAt(blocks[r], total - 1) \in Slots
  BY <1>1, <1>2, SlotInRange
<1>6. SubSeq(blocks[r], 1, visible) \in Seq(Blocks)
  <2> HIDE DEF visible
  <2> QED BY <1>2, <1>4, PrefixType
<1> HIDE DEF visible
<1>7. [toks |-> <<[id |-> LastToken(r), pos |-> total - 1, slot |-> SlotAt(blocks[r], total - 1)]>>,
       len |-> total, table |-> SubSeq(blocks[r], 1, visible)] \in DeviceRows
  BY <1>1, <1>3, <1>5, <1>6 DEF DeviceRows, Fed
<1>8. QED
  BY <1>7 DEF DecodeRow, total, visible

\* The rows of any call, decode or prefill.
Rows == [toks : Seq(Fed), len : Nat, table : Seq(Blocks)]

\* The rows on the device are rows.
LEMMA DeviceRowsAreRows == DeviceRows \subseteq Rows
<1>1. ASSUME NEW toks \in [1 .. 1 -> Fed]
      PROVE  toks \in Seq(Fed)
  <2>1. toks = [i \in 1 .. 1 |-> toks[i]]
    OBVIOUS
  <2>2. [i \in 1 .. 1 |-> toks[i]] \in Seq(Fed)
    OBVIOUS
  <2>3. QED
    BY <2>1, <2>2
<1>2. QED
  BY <1>1 DEF DeviceRows, Rows

\* The sequences build_prefill_batch makes.
LEMMA PrefillRowType ==
  ASSUME TypeInv, NEW item \in [req : Reqs, chunk : Nat], InRunning(item.req),
         computed[item.req] + item.chunk <= promptLen[item.req]
  PROVE  PrefillRow(item) \in Rows
<1> DEFINE r       == item.req
           start   == computed[r]
           context == start + item.chunk
           toks    == [j \in 1 .. item.chunk |->
                        [id   |-> [req |-> r, at |-> start + j - 1],
                         pos  |-> start + j - 1,
                         slot |-> SlotAt(blocks[r], start + j - 1)]]
<1>1. r \in Reqs /\ r \in Int /\ item.chunk \in Nat /\ start \in Nat /\ context \in Nat
  <2>1. r \in Reqs /\ item.chunk \in Nat
    OBVIOUS
  <2>2. r \in Int
    BY <2>1, ConfigAssumption DEF Reqs
  <2>3. start \in Nat
    BY <2>1 DEF TypeInv, TypeOK, RequestTypes, PoolTypes
  <2>4. QED
    BY <2>1, <2>2, <2>3
<1>2. blocks[r] \in Seq(Blocks) /\ promptLen[r] \in Nat /\ maxOutput[r] \in Nat
  BY DEF TypeInv, TypeOK, RequestTypes, PoolTypes
<1>3. CeilDiv(context, BlockSize) \in 0 .. Len(blocks[r])
  BY <1>1, <1>2, ContextFits
<1>4. SubSeq(blocks[r], 1, CeilDiv(context, BlockSize)) \in Seq(Blocks)
  BY <1>2, <1>3, PrefixType
<1>5. toks \in Seq(Fed)
  <2>1. ASSUME NEW j \in 1 .. item.chunk
        PROVE  [id |-> [req |-> r, at |-> start + j - 1], pos |-> start + j - 1,
                slot |-> SlotAt(blocks[r], start + j - 1)] \in Fed
    <3>1. start + j - 1 \in Nat
      BY <1>1
    <3>2. SlotAt(blocks[r], start + j - 1) \in Slots
      BY <1>2, <3>1, SlotInRange
    <3>3. QED
      BY <1>1, <3>1, <3>2 DEF Fed, Places
  <2>2. QED
    BY <1>1, <2>1
<1> HIDE DEF toks, context, r, start
<1>6. [toks |-> toks, len |-> context,
       table |-> SubSeq(blocks[r], 1, CeilDiv(context, BlockSize))] \in Rows
  BY <1>1, <1>4, <1>5 DEF Rows
<1>7. QED
  BY <1>6 DEF PrefillRow, toks, context, r, start

-----------------------------------------------------------------------------
(* A model call *)

\* What a call writes are places in sequences.
LEMMA WriteType ==
  ASSUME TypeOK, NEW rows \in Seq(Rows)
  PROVE  WriteRows(rows) \in [Slots -> Places]
<1>1. ASSUME NEW w \in Written(rows)
      PROVE  w.id \in Places
  <2>1. PICK i \in 1 .. Len(rows) : w \in {rows[i].toks[j] : j \in 1 .. Len(rows[i].toks)}
    BY DEF Written
  <2>2. rows[i].toks \in Seq(Fed)
    <3>1. rows[i] \in Rows
      OBVIOUS
    <3>2. QED
      BY <3>1 DEF Rows
  <2>3. w \in Fed
    BY <2>1, <2>2
  <2>4. QED
    BY <2>3 DEF Fed
<1>2. Garbage \in Places
  BY DEF Garbage, Places
<1>3. ASSUME NEW s \in Slots
      PROVE  WriteRows(rows)[s] \in Places
  <2>1. kv[s] \in Places
    BY DEF TypeOK, CacheType
  <2>2. CASE \E w \in Written(rows) : w.slot = s
    <3> DEFINE w == CHOOSE w \in Written(rows) : w.slot = s
    <3>1. w \in Written(rows)
      BY <2>2
    <3>2. QED
      BY <1>1, <1>2, <2>2, <3>1 DEF WriteRows
  <2>3. CASE ~ \E w \in Written(rows) : w.slot = s
    BY <2>1, <2>3 DEF WriteRows
  <2>4. QED
    BY <2>2, <2>3
<1>4. QED
  BY <1>3 DEF WriteRows

\* What the model predicts is a place in a sequence.
LEMMA PredictType ==
  ASSUME NEW row \in Rows, NEW cache \in [Slots -> Places]
  PROVE  Predict(row, cache) \in Places
<1>1. row.table \in Seq(Blocks) /\ row.len \in Nat
  BY DEF Rows
<1>2. SlotAt(row.table, 0) \in Slots
  BY <1>1, SlotInRange
<1>3. cache[SlotAt(row.table, 0)].req \in Int
  BY <1>2 DEF Places
<1>4. [req |-> cache[SlotAt(row.table, 0)].req, at |-> row.len] \in Places
  BY <1>1, <1>3 DEF Places
<1>5. Garbage \in Places
  BY DEF Garbage, Places
<1>6. QED
  BY <1>4, <1>5 DEF Predict

\* A call samples one token per row.
LEMMA SampledType ==
  ASSUME TypeOK, NEW rows \in Seq(Rows), NEW eos \in [1 .. Len(rows) -> BOOLEAN]
  PROVE  Sampled(rows, eos) \in Seq(Tokens) /\ Len(Sampled(rows, eos)) = Len(rows)
<1> DEFINE N     == 1 .. Len(rows)
           place == [i \in N |-> Predict(rows[i], WriteRows(rows))]
           token == [i \in N |-> [req |-> place[i].req, at |-> place[i].at, eos |-> eos[i]]]
<1>1. ASSUME NEW i \in N
      PROVE  token[i] \in Tokens
  <2>1. place[i] \in Places
    <3>1. Predict(rows[i], WriteRows(rows)) \in Places
      BY WriteType, PredictType
    <3>2. QED
      BY <3>1
  <2>2. eos[i] \in BOOLEAN
    OBVIOUS
  <2>3. place[i].req \in Int /\ place[i].at \in Int
    BY <2>1 DEF Places
  <2> HIDE DEF place
  <2>4. [req |-> place[i].req, at |-> place[i].at, eos |-> eos[i]] \in Tokens
    BY <2>2, <2>3, Zenon DEF Tokens
  <2>5. QED
    BY <2>4
<1>2. Sampled(rows, eos) = token
  BY DEF Sampled
<1> HIDE DEF token
<1>3. token = [i \in N |-> token[i]]
  BY DEF token
<1>4. QED
  BY <1>1, <1>2, <1>3

-----------------------------------------------------------------------------
(* The initial states, and the calls of the clients *)

\* The invariant holds initially.
LEMMA InitTypeInv == Init => TypeInv
<1> SUFFICES ASSUME Init PROVE TypeInv
  OBVIOUS
<1>1. TypeOK
  <2>1. free \in Seq(Blocks)
    BY TotalBlocksPositive DEF Init, Blocks
  <2>2. kv \in [Slots -> Places]
    BY DEF Init, Garbage, Places
  <2>3. /\ promptLen \in [Reqs -> 0 .. MaxContextLength]
        /\ maxOutput \in [Reqs -> 0 .. MaxContextLength]
        /\ nextId \in 0 .. MaxRequests /\ budget \in 0 .. MaxPrefillTokens
    BY ConfigAssumption DEF Init
  <2>4. PoolTypes
    BY <2>1 DEF Init, PoolTypes
  <2>a. \A S : <<>> \in Seq(S)
    OBVIOUS
  <2>b. 0 \in Nat /\ FALSE \in BOOLEAN
    OBVIOUS
  <2>5. ClientTypes /\ DeviceTypes
    BY <2>a, <2>b, Zenon DEF Init, ClientTypes, DeviceTypes
  <2>6. PlanTypes
    BY <2>3, <2>a, <2>b, Zenon DEF Init, PlanTypes
  <2>7. QED
    BY <2>2, <2>3, <2>4, <2>5, <2>6 DEF Init, TypeOK, RequestTypes, CacheType
<1>2. QueueInv /\ AcceptedInv /\ RunningInv /\ PlanInv /\ CursorInv
  BY ConfigAssumption DEF Init, QueueInv, Sorted, AcceptedInv, RunningInv, PlanInv, CursorInv, Reqs
<1>3. WaitingInv
  BY DEF Init, WaitingInv
<1>4. QED
  BY <1>1, <1>2, <1>3 DEF TypeInv

\* What is unchanged keeps its type.
LEMMA TypesFrame ==
  /\ RequestTypes /\ UNCHANGED requestVars => RequestTypes'
  /\ PoolTypes /\ UNCHANGED poolVars => PoolTypes'
  /\ ClientTypes /\ UNCHANGED clientVars => ClientTypes'
  /\ PlanTypes /\ UNCHANGED <<pc, planVars, isMixed, decoded>> => PlanTypes'
  /\ DeviceTypes /\ UNCHANGED deviceVars => DeviceTypes'
  /\ CacheType /\ UNCHANGED kv => CacheType'
<1>1. RequestTypes /\ UNCHANGED requestVars => RequestTypes'
  BY DEF RequestTypes, requestVars
<1>2. PoolTypes /\ UNCHANGED poolVars => PoolTypes'
  BY DEF PoolTypes, poolVars
<1>3. ClientTypes /\ UNCHANGED clientVars => ClientTypes'
  BY DEF ClientTypes, clientVars
<1>4. PlanTypes /\ UNCHANGED <<pc, planVars, isMixed, decoded>> => PlanTypes'
  BY DEF PlanTypes, planVars
<1>5. DeviceTypes /\ UNCHANGED deviceVars => DeviceTypes'
  BY DEF DeviceTypes, deviceVars
<1>6. CacheType /\ UNCHANGED kv => CacheType'
  BY DEF CacheType
<1>7. QED
  BY <1>1, <1>2, <1>3, <1>4, <1>5, <1>6

\* A step that leaves the requests alone disturbs neither the order of the queue
\* nor what is known of the requests in it.
LEMMA PoolFrame ==
  ASSUME QueueInv, AcceptedInv, WaitingInv, RunningInv, UNCHANGED <<requestVars, poolVars>>,
         pc # "retire"
  PROVE  QueueInv' /\ AcceptedInv' /\ WaitingInv' /\ RunningInv'
<1> USE DEF requestVars, poolVars
<1>1. QueueInv'
  BY DEF QueueInv, Sorted
<1>2. AcceptedInv'
  BY DEF AcceptedInv
<1>3. WaitingInv'
  BY DEF WaitingInv
<1>4. RunningInv'
  BY DEF RunningInv, BlocksNeeded
<1>5. QED
  BY <1>1, <1>2, <1>3, <1>4

\* Nor does it disturb a plan that stands.
LEMMA PlanFrame ==
  ASSUME PlanInv, UNCHANGED <<requestVars, poolVars, decodePlan, prefillPlan>>, pc # "retire"
  PROVE  PlanInv'
BY DEF PlanInv, InRunning, requestVars, poolVars

\* What appending to a sequence gives, and that it keeps the order.
LEMMA AppendFacts ==
  ASSUME NEW S, NEW s \in Seq(S), NEW x \in S
  PROVE  /\ Append(s, x) \in Seq(S) /\ Len(Append(s, x)) = Len(s) + 1
         /\ \A i \in 1 .. Len(s) : Append(s, x)[i] = s[i]
         /\ Append(s, x)[Len(s) + 1] = x
         /\ \A i \in 1 .. Len(Append(s, x)) : i \in 1 .. Len(s) \/ i = Len(s) + 1
OBVIOUS

\* A queue stays sorted when the next id is appended.
LEMMA SortedAppend ==
  ASSUME NEW s \in Seq(Reqs), NEW x \in Reqs, Sorted(s), \A i \in 1 .. Len(s) : s[i] < x
  PROVE  Sorted(Append(s, x))
BY AppendFacts DEF Sorted

\* submit_request accepts a request that was nowhere before, of a valid shape.
LEMMA SubmitTypeInv ==
  ASSUME TypeInv, NEW shape \in Shapes, SubmitRequest(shape)
  PROVE  TypeInv'
<1>1. /\ RequestTypes /\ PoolTypes /\ ClientTypes /\ PlanTypes /\ DeviceTypes /\ CacheType
      /\ QueueInv /\ AcceptedInv /\ WaitingInv /\ RunningInv /\ PlanInv /\ CursorInv
  BY DEF TypeInv, TypeOK
<1>2. /\ nextId < MaxRequests /\ ValidShape(shape) /\ nextId' = nextId + 1
      /\ promptLen' = [promptLen EXCEPT ![nextId] = shape[1]]
      /\ maxOutput' = [maxOutput EXCEPT ![nextId] = shape[2]]
      /\ pending' = Append(pending, nextId)
      /\ running' = running /\ status' = status /\ computed' = computed /\ outputs' = outputs
      /\ blocks' = blocks /\ free' = free /\ pc' = pc
      /\ UNCHANGED <<clientVars, planVars, isMixed, decoded, deviceVars, kv>>
  BY DEF SubmitRequest
<1>3. nextId \in Nat /\ nextId \in Reqs
  BY <1>1, <1>2, ConfigAssumption DEF RequestTypes, Reqs
<1>4. /\ shape[1] \in 1 .. MaxContextLength /\ shape[2] \in 1 .. MaxContextLength
      /\ shape[1] + shape[2] <= MaxContextLength
  BY <1>2, ConfigAssumption DEF ValidShape
<1>5. /\ \A i \in 1 .. Len(running) : running[i] \in Reqs /\ running[i] < nextId
      /\ \A j \in 1 .. Len(pending) : pending[j] \in Reqs /\ pending[j] < nextId
  BY <1>1 DEF QueueInv, PoolTypes
<1>6. /\ \A r \in Reqs : r < nextId + 1 => r < nextId \/ r = nextId
      /\ \A r \in Reqs : r >= nextId + 1 => r >= nextId
      /\ \A r \in Reqs : r < nextId => r < nextId + 1
      /\ nextId < nextId + 1
  BY <1>3, ConfigAssumption DEF Reqs
<1>7. \A j \in 1 .. Len(pending') : pending'[j] = nextId \/ \E i \in 1 .. Len(pending) : pending'[j] = pending[i]
  BY <1>1, <1>2, <1>3, AppendFacts DEF PoolTypes
<1>8. /\ promptLen'[nextId] = shape[1] /\ maxOutput'[nextId] = shape[2]
      /\ \A r \in Reqs : r # nextId => promptLen'[r] = promptLen[r] /\ maxOutput'[r] = maxOutput[r]
  BY <1>1, <1>2, <1>3 DEF RequestTypes
<1>9. \A r \in Reqs : r < nextId => r # nextId
  BY <1>3, ConfigAssumption DEF Reqs
<1>10. TypeOK'
  <2>1. RequestTypes'
    BY <1>1, <1>2, <1>3, <1>4, ConfigAssumption DEF RequestTypes
  <2>2. PoolTypes'
    BY <1>1, <1>2, <1>3, AppendFacts DEF PoolTypes
  <2>3. QED
    BY <1>1, <1>2, <2>1, <2>2, TypesFrame DEF TypeOK
<1>11. QueueInv'
  <2>1. Sorted(pending')
    BY <1>1, <1>2, <1>3, <1>5, SortedAppend DEF QueueInv, PoolTypes
  <2>2. \A i \in 1 .. Len(running) : \A j \in 1 .. Len(pending') : running[i] < pending'[j]
    BY <1>1, <1>5, <1>7 DEF QueueInv
  <2>3. \A j \in 1 .. Len(pending') : pending'[j] < nextId + 1
    BY <1>5, <1>6, <1>7
  <2>4. \A i \in 1 .. Len(running) : running[i] < nextId + 1
    BY <1>5, <1>6
  <2>5. QED
    BY <1>1, <1>2, <2>1, <2>2, <2>3, <2>4 DEF QueueInv, Sorted
<1>12. AcceptedInv'
  BY <1>1, <1>2, <1>4, <1>6, <1>8, <1>9 DEF AcceptedInv
<1>13. WaitingInv'
  BY <1>1, <1>2, <1>3, <1>6, <1>7 DEF WaitingInv
<1>14. RunningInv'
  <2>1. ASSUME NEW r \in Reqs, r < nextId', status[r] # "COMPLETED"
        PROVE  Len(outputs[r]) < maxOutput'[r]
    <3>1. CASE r = nextId
      BY <1>1, <1>3, <1>4, <1>8, <3>1 DEF WaitingInv
    <3>2. CASE r # nextId
      BY <1>1, <1>2, <1>6, <1>8, <2>1, <3>2 DEF RunningInv
    <3>3. QED
      BY <3>1, <3>2
  <2>2. \A i \in 1 .. Len(running) : BlocksNeeded(running[i])' = BlocksNeeded(running[i])
    BY <1>2, <1>5, <1>8, <1>9 DEF BlocksNeeded
  <2>3. QED
    BY <1>1, <1>2, <2>1, <2>2 DEF RunningInv
<1>15. PlanInv'
  <2>1. \A r : InRunning(r) => InRunning(r)' /\ promptLen'[r] = promptLen[r]
    BY <1>2, <1>5, <1>8, <1>9 DEF InRunning
  <2>2. QED
    BY <1>1, <1>2, <2>1 DEF PlanInv, planVars
<1>16. CursorInv'
  BY <1>1, <1>2 DEF CursorInv, planVars, deviceVars
<1>17. QED
  BY <1>10, <1>11, <1>12, <1>13, <1>14, <1>15, <1>16 DEF TypeInv

\* pop_completed only moves answers to the client.
LEMMA PopTypeInv ==
  ASSUME TypeInv, PopCompleted
  PROVE  TypeInv'
<1>1. /\ RequestTypes /\ PoolTypes /\ ClientTypes /\ PlanTypes /\ DeviceTypes /\ CacheType
      /\ QueueInv /\ AcceptedInv /\ WaitingInv /\ RunningInv /\ PlanInv /\ CursorInv
  BY DEF TypeInv, TypeOK
<1>2. /\ pc # "retire" /\ delivered' = delivered \o completed /\ completed' = <<>>
      /\ UNCHANGED <<requestVars, poolVars, pc, planVars, isMixed, decoded, deviceVars, kv>>
  BY DEF PopCompleted, ClientMayRun
<1>3. ClientTypes'
  BY <1>1, <1>2 DEF ClientTypes
<1>4. TypeOK'
  BY <1>1, <1>2, <1>3, TypesFrame DEF TypeOK
<1>5. QueueInv' /\ AcceptedInv' /\ WaitingInv' /\ RunningInv'
  BY <1>1, <1>2, PoolFrame
<1>6. PlanInv'
  BY <1>1, <1>2, PlanFrame DEF planVars
<1>7. CursorInv'
  BY <1>1, <1>2 DEF CursorInv, planVars, deviceVars
<1>8. QED
  BY <1>4, <1>5, <1>6, <1>7 DEF TypeInv

-----------------------------------------------------------------------------
(* schedule *)

\* The conjuncts of the invariant, to cite at once.
LEMMA Parts ==
  ASSUME TypeInv
  PROVE  /\ RequestTypes /\ PoolTypes /\ ClientTypes /\ PlanTypes /\ DeviceTypes /\ CacheType
         /\ QueueInv /\ AcceptedInv /\ WaitingInv /\ RunningInv /\ PlanInv /\ CursorInv
BY DEF TypeInv, TypeOK

\* A step that only plans or calls leaves this much to show.
LEMMA StepFrame ==
  ASSUME TypeInv, UNCHANGED <<requestVars, poolVars, clientVars>>, pc # "retire",
         PlanTypes', DeviceTypes', CacheType', PlanInv', CursorInv'
  PROVE  TypeInv'
<1>1. QueueInv' /\ AcceptedInv' /\ WaitingInv' /\ RunningInv'
  BY Parts, PoolFrame
<1>2. TypeOK'
  BY Parts, TypesFrame DEF TypeOK
<1>3. QED
  BY <1>1, <1>2 DEF TypeInv

\* An empty plan is typed and serves nobody.
LEMMA EmptyPlan ==
  ASSUME ClearPlan, pc' = "idle", isMixed' \in BOOLEAN, decoded' = <<>>
  PROVE  PlanTypes' /\ PlanInv' /\ CursorInv'
<1>1. scan' = 0 /\ budget' = 0 /\ decodePlan' = <<>> /\ prefillPlan' = <<>>
  BY DEF ClearPlan
<1>2. 0 \in Nat /\ 0 \in 0 .. MaxPrefillTokens /\ (\A S : <<>> \in Seq(S)) /\ Len(<<>>) = 0
  BY ConfigAssumption
<1>3. PlanTypes'
  BY <1>1, <1>2, Zenon DEF PlanTypes
<1>4. PlanInv'
  BY <1>1, <1>2 DEF PlanInv
<1>5. CursorInv'
  BY <1>1 DEF CursorInv
<1>6. QED
  BY <1>3, <1>4, <1>5

\* A step starts with an empty plan and a full budget.
LEMMA BeginStepTypeInv ==
  ASSUME TypeInv, BeginStep
  PROVE  TypeInv'
<1>1. /\ pc = "idle" /\ pc' = "scan" /\ scan' = 1 /\ budget' = MaxPrefillTokens
      /\ decodePlan' = <<>> /\ prefillPlan' = <<>>
      /\ isMixed' = isMixed /\ decoded' = decoded
      /\ UNCHANGED <<requestVars, poolVars, clientVars, deviceVars, kv>>
  BY DEF BeginStep
<1>2. PlanTypes'
  <2>1. 1 \in Nat /\ MaxPrefillTokens \in 0 .. MaxPrefillTokens /\ \A S : <<>> \in Seq(S)
    BY ConfigAssumption
  <2>2. isMixed \in BOOLEAN /\ decoded \in Seq(Tokens)
    BY Parts DEF PlanTypes
  <2>3. QED
    BY <1>1, <2>1, <2>2, Zenon DEF PlanTypes
<1>3. PlanInv'
  BY <1>1 DEF PlanInv
<1>4. CursorInv'
  BY <1>1, Parts DEF CursorInv
<1>5. DeviceTypes' /\ CacheType'
  BY <1>1, Parts, TypesFrame
<1>6. QED
  BY <1>1, <1>2, <1>3, <1>4, <1>5, StepFrame

\* A chunk is a natural number of tokens, within the budget.
LEMMA ChunkFits ==
  ASSUME NEW n \in Nat, NEW b \in Nat
  PROVE  Smaller(n, b) \in Nat /\ Smaller(n, b) <= n /\ Smaller(n, b) <= b
BY DEF Smaller

\* The scan plans the running requests in their order, within the budget.
LEMMA ScanRunningTypeInv ==
  ASSUME TypeInv, ScanRunning
  PROVE  TypeInv'
<1> DEFINE r     == running[scan]
           chunk == Smaller(promptLen[r] - computed[r], budget)
           item  == [req |-> r, chunk |-> chunk]
<1>1. /\ pc = "scan" /\ pc' = "scan" /\ scan <= Len(running) /\ scan' = scan + 1
      /\ isMixed' = isMixed /\ decoded' = decoded
      /\ UNCHANGED <<requestVars, poolVars, clientVars, deviceVars, kv>>
  BY DEF ScanRunning
<1>2. /\ scan \in Nat /\ budget \in 0 .. MaxPrefillTokens /\ decodePlan \in Seq(Reqs)
      /\ prefillPlan \in Seq([req : Reqs, chunk : Nat]) /\ running \in Seq(Reqs)
      /\ isMixed \in BOOLEAN /\ decoded \in Seq(Tokens)
  BY Parts DEF PlanTypes, PoolTypes
<1>3. DeviceTypes' /\ CacheType'
  BY <1>1, Parts, TypesFrame
<1>4. scan \in Nat /\ scan >= 1
  BY <1>1, <1>2, Parts DEF CursorInv
<1>5. CursorInv'
  BY <1>1, <1>4, Parts DEF CursorInv
<1>6. r \in Reqs /\ InRunning(r) /\ r < nextId
  BY <1>1, <1>2, <1>4, Parts DEF InRunning, QueueInv
<1>7. promptLen[r] \in Nat /\ computed[r] \in Nat /\ scan' \in Nat
  BY <1>1, <1>4, <1>6, Parts DEF RequestTypes, PoolTypes
<1> HIDE DEF r
<1>8. CASE /\ IsPrefillComplete(r) /\ decodePlan' = Append(decodePlan, r)
           /\ prefillPlan' = prefillPlan /\ budget' = budget
  <2>1. decodePlan' \in Seq(Reqs)
    BY <1>2, <1>6, <1>8, AppendFacts
  <2>2. PlanTypes'
    BY <1>1, <1>2, <1>7, <1>8, <2>1, Zenon DEF PlanTypes
  <2>3. \A i \in 1 .. Len(decodePlan') : InRunning(decodePlan'[i])
    BY <1>1, <1>2, <1>6, <1>8, AppendFacts, Parts DEF PlanInv
  <2>4. PlanInv'
    BY <1>1, <1>8, <2>3, Parts DEF PlanInv, InRunning, requestVars, poolVars
  <2>5. QED
    BY <1>1, <1>3, <1>5, <2>2, <2>4, StepFrame
<1>9. CASE /\ ~IsPrefillComplete(r) /\ budget > 0 /\ decodePlan' = decodePlan
           /\ prefillPlan' = Append(prefillPlan, item) /\ budget' = budget - chunk
  <2>1. promptLen[r] - computed[r] \in Nat /\ budget \in Nat
    BY <1>2, <1>7, <1>9 DEF IsPrefillComplete
  <2>2. chunk \in Nat /\ chunk <= promptLen[r] - computed[r] /\ chunk <= budget
    BY <2>1, ChunkFits
  <2> HIDE DEF chunk
  <2>3. item \in [req : Reqs, chunk : Nat] /\ budget' \in 0 .. MaxPrefillTokens
    BY <1>2, <1>6, <1>9, <2>2, ConfigAssumption
  <2>4. computed[item.req] + item.chunk <= promptLen[item.req]
    BY <1>7, <2>2
  <2>5. InRunning(item.req)
    BY <1>6
  <2> HIDE DEF item
  <2>6. prefillPlan' \in Seq([req : Reqs, chunk : Nat])
    BY <1>2, <1>9, <2>3, AppendFacts
  <2>7. PlanTypes'
    BY <1>1, <1>2, <1>7, <1>9, <2>3, <2>6, Zenon DEF PlanTypes
  <2>8. \A i \in 1 .. Len(prefillPlan') :
          /\ InRunning(prefillPlan'[i].req)
          /\ computed[prefillPlan'[i].req] + prefillPlan'[i].chunk <= promptLen[prefillPlan'[i].req]
    BY <1>1, <1>2, <1>9, <2>3, <2>4, <2>5, AppendFacts, Parts DEF PlanInv
  <2>9. PlanInv'
    BY <1>1, <1>9, <2>8, Parts DEF PlanInv, InRunning, requestVars, poolVars
  <2>10. QED
    BY <1>1, <1>3, <1>5, <2>7, <2>9, StepFrame
<1>10. CASE decodePlan' = decodePlan /\ prefillPlan' = prefillPlan /\ budget' = budget
  <2>1. PlanTypes'
    BY <1>1, <1>2, <1>7, <1>10, Zenon DEF PlanTypes
  <2>2. PlanInv'
    BY <1>1, <1>10, Parts, PlanFrame
  <2>3. QED
    BY <1>1, <1>3, <1>5, <2>1, <2>2, StepFrame
<1>11. QED
  BY <1>8, <1>9, <1>10 DEF ScanRunning, BudgetAfter, r

\* After the scan every running request has been looked at.
LEMMA ScanDoneTypeInv ==
  ASSUME TypeInv, ScanDone
  PROVE  TypeInv'
<1>1. /\ pc = "scan" /\ pc' = "admit" /\ isMixed' = isMixed /\ decoded' = decoded
      /\ UNCHANGED <<requestVars, poolVars, clientVars, planVars, deviceVars, kv>>
  BY DEF ScanDone
<1>2. DeviceTypes' /\ CacheType'
  BY <1>1, Parts, TypesFrame
<1>3. PlanTypes'
  BY <1>1, Parts DEF PlanTypes, planVars
<1>4. PlanInv'
  BY <1>1, Parts, PlanFrame DEF planVars
<1>5. CursorInv'
  BY <1>1, Parts DEF CursorInv
<1>6. QED
  BY <1>1, <1>2, <1>3, <1>4, <1>5, StepFrame

\* Pages popped off the free list are pages, and so are those left on it.
LEMMA PopFacts ==
  ASSUME free \in Seq(Blocks), NEW n \in 0 .. Len(free)
  PROVE  /\ PopBlocks(n) \in Seq(Blocks) /\ Len(PopBlocks(n)) = n
         /\ Unpopped(n) \in Seq(Blocks)
<1>1. \A i \in 1 .. n : free[Len(free) - i + 1] \in Blocks
  OBVIOUS
<1>2. PopBlocks(n) \in Seq(Blocks) /\ Len(PopBlocks(n)) = n
  BY <1>1 DEF PopBlocks
<1>3. Unpopped(n) \in Seq(Blocks)
  BY DEF Unpopped
<1>4. QED
  BY <1>2, <1>3

\* The head and the tail of a queue that is in order.
LEMMA HeadTailFacts ==
  ASSUME NEW s \in Seq(Reqs), s # <<>>, Sorted(s)
  PROVE  /\ Head(s) \in Reqs /\ Head(s) = s[1] /\ 1 \in 1 .. Len(s)
         /\ Tail(s) \in Seq(Reqs) /\ Sorted(Tail(s))
         /\ \A j \in 1 .. Len(Tail(s)) :
              j + 1 \in 1 .. Len(s) /\ Tail(s)[j] = s[j + 1] /\ Head(s) < Tail(s)[j]
<1>1. /\ Head(s) \in Reqs /\ Head(s) = s[1] /\ 1 \in 1 .. Len(s) /\ Tail(s) \in Seq(Reqs)
      /\ Len(Tail(s)) = Len(s) - 1
  OBVIOUS
<1>2. \A j \in 1 .. Len(Tail(s)) : j + 1 \in 1 .. Len(s) /\ Tail(s)[j] = s[j + 1]
  OBVIOUS
<1>3. \A j \in 1 .. Len(Tail(s)) : Head(s) < Tail(s)[j]
  BY <1>1, <1>2 DEF Sorted
<1>4. Sorted(Tail(s))
  <2>1. ASSUME NEW i \in 1 .. Len(Tail(s)), NEW j \in 1 .. Len(Tail(s)), i < j
        PROVE  Tail(s)[i] < Tail(s)[j]
    BY <1>2, <2>1 DEF Sorted
  <2>2. QED
    BY <2>1 DEF Sorted
<1>5. QED
  BY <1>1, <1>2, <1>3, <1>4

\* The pages a request needs are a natural number of them.
LEMMA BlocksNeededNat ==
  ASSUME RequestTypes, NEW r \in Reqs
  PROVE  BlocksNeeded(r) \in Nat
<1>1. promptLen[r] + maxOutput[r] \in Nat /\ BlockSize \in Nat \ {0}
  BY ConfigAssumption DEF RequestTypes
<1>2. QED
  BY <1>1, CeilDivNat DEF BlocksNeeded

\* Admission moves the head of the queue, with its pages, to the end of running
\* and of the plan; when pages run out it only reorders the free list.
LEMMA AdmitTypeInv ==
  ASSUME TypeInv, AdmitRequest
  PROVE  TypeInv'
<1> DEFINE r     == Head(pending)
           need  == BlocksNeeded(r)
           chunk == Smaller(promptLen[r], budget)
           item  == [req |-> r, chunk |-> chunk]
<1>1. /\ pc = "admit" /\ pending # <<>> /\ budget > 0
      /\ computed' = computed /\ outputs' = outputs
      /\ scan' = scan /\ decodePlan' = decodePlan /\ isMixed' = isMixed /\ decoded' = decoded
      /\ UNCHANGED <<requestVars, clientVars, deviceVars, kv>>
  BY DEF AdmitRequest, CanAdmit
<1>2. /\ pending \in Seq(Reqs) /\ running \in Seq(Reqs) /\ free \in Seq(Blocks)
      /\ blocks \in [Reqs -> Seq(Blocks)] /\ computed \in [Reqs -> Nat]
      /\ status \in [Reqs -> {"PENDING", "PREFILLING", "DECODING", "COMPLETED"}]
      /\ outputs \in [Reqs -> Seq(Tokens)]
  BY Parts DEF PoolTypes
<1>3. /\ scan \in Nat /\ budget \in 0 .. MaxPrefillTokens /\ decodePlan \in Seq(Reqs)
      /\ prefillPlan \in Seq([req : Reqs, chunk : Nat])
      /\ isMixed \in BOOLEAN /\ decoded \in Seq(Tokens)
  BY Parts DEF PlanTypes
<1>4. /\ Sorted(pending) /\ Sorted(running)
      /\ \A i \in 1 .. Len(running) : \A j \in 1 .. Len(pending) : running[i] < pending[j]
      /\ \A i \in 1 .. Len(running) : running[i] < nextId /\ running[i] \in Reqs
      /\ \A j \in 1 .. Len(pending) : pending[j] < nextId /\ pending[j] \in Reqs
  BY <1>2, Parts DEF QueueInv
<1>5. /\ r \in Reqs /\ r = pending[1] /\ 1 \in 1 .. Len(pending)
      /\ Tail(pending) \in Seq(Reqs) /\ Sorted(Tail(pending))
      /\ \A j \in 1 .. Len(Tail(pending)) :
           j + 1 \in 1 .. Len(pending) /\ Tail(pending)[j] = pending[j + 1] /\ r < Tail(pending)[j]
  BY <1>1, <1>2, <1>4, HeadTailFacts
<1> HIDE DEF r
<1>6. /\ r < nextId /\ status[r] = "PENDING" /\ outputs[r] = <<>> /\ computed[r] = 0
      /\ \A i \in 1 .. Len(running) : running[i] < r
  BY <1>4, <1>5, Parts DEF WaitingInv
<1>7. need \in Nat /\ promptLen[r] \in Nat
  BY <1>5, BlocksNeededNat, Parts DEF RequestTypes
<1>8. RequestTypes' /\ ClientTypes' /\ DeviceTypes' /\ CacheType' /\ AcceptedInv'
  BY <1>1, Parts, TypesFrame DEF AcceptedInv, requestVars
<1>9. CASE /\ need <= Len(free)
           /\ blocks' = [blocks EXCEPT ![r] = PopBlocks(need)] /\ free' = Unpopped(need)
           /\ status' = [status EXCEPT ![r] = "PREFILLING"]
           /\ prefillPlan' = Append(prefillPlan, item) /\ budget' = budget - chunk
           /\ running' = Append(running, r) /\ pending' = Tail(pending) /\ pc' = pc
  <2>1. /\ PopBlocks(need) \in Seq(Blocks) /\ Len(PopBlocks(need)) = need
        /\ Unpopped(need) \in Seq(Blocks)
    <3>1. need \in 0 .. Len(free)
      BY <1>2, <1>7, <1>9
    <3> HIDE DEF need
    <3>2. QED
      BY <1>2, <3>1, PopFacts
  <2> HIDE DEF need
  <2>2. chunk \in Nat /\ chunk <= promptLen[r] /\ chunk <= budget
    <3>1. budget \in Nat
      BY <1>3
    <3>2. QED
      BY <1>7, <3>1, ChunkFits
  <2> HIDE DEF chunk
  <2>3. item \in [req : Reqs, chunk : Nat] /\ budget' \in 0 .. MaxPrefillTokens
    BY <1>3, <1>5, <1>9, <2>2, ConfigAssumption
  <2>4. item.req = r /\ item.chunk = chunk
    OBVIOUS
  <2> HIDE DEF item
  <2>5. /\ running' \in Seq(Reqs) /\ Len(running') = Len(running) + 1
        /\ \A i \in 1 .. Len(running) : running'[i] = running[i]
        /\ running'[Len(running) + 1] = r
        /\ \A i \in 1 .. Len(running') : i \in 1 .. Len(running) \/ i = Len(running) + 1
    BY <1>2, <1>5, <1>9, AppendFacts
  <2>6. \A i \in 1 .. Len(running') : running'[i] = r \/ \E k \in 1 .. Len(running) : running'[i] = running[k]
    BY <2>5
  <2>7. \A j \in 1 .. Len(pending') : \E k \in 1 .. Len(pending) : pending'[j] = pending[k]
    BY <1>5, <1>9
  <2>8. \A j \in 1 .. Len(pending') : r < pending'[j] /\ pending'[j] \in Reqs
    BY <1>5, <1>9
  <2>9. PoolTypes'
    BY <1>1, <1>2, <1>5, <1>9, <2>1, <2>5 DEF PoolTypes
  <2>10. PlanTypes'
    <3>1. prefillPlan' \in Seq([req : Reqs, chunk : Nat])
      BY <1>3, <1>9, <2>3, AppendFacts
    <3>2. QED
      BY <1>1, <1>3, <1>9, <2>3, <3>1, Zenon DEF PlanTypes
  <2>11. QueueInv'
    <3>1. Sorted(running')
      BY <1>2, <1>4, <1>5, <1>6, <1>9, SortedAppend
    <3>2. Sorted(pending')
      BY <1>5, <1>9
    <3>3. \A i \in 1 .. Len(running') : \A j \in 1 .. Len(pending') : running'[i] < pending'[j]
      BY <1>4, <2>6, <2>7, <2>8
    <3>4. \A i \in 1 .. Len(running') : running'[i] < nextId
      BY <1>4, <1>6, <2>6
    <3>5. \A j \in 1 .. Len(pending') : pending'[j] < nextId
      BY <1>4, <2>7
    <3>6. QED
      BY <1>1, <3>1, <3>2, <3>3, <3>4, <3>5 DEF QueueInv, Sorted, requestVars
  <2>12. WaitingInv'
    <3>1. \A q \in Reqs : q # r => status'[q] = status[q]
      BY <1>2, <1>9
    <3>2. status'[r] = "PREFILLING"
      BY <1>2, <1>5, <1>9
    <3>3. \A q \in Reqs : q >= nextId => q # r
      BY <1>5, <1>6, Parts, ConfigAssumption DEF Reqs, RequestTypes
    <3>4. \A j \in 1 .. Len(pending') : pending'[j] # r
      BY <1>5, <2>8, ConfigAssumption DEF Reqs
    <3>5. QED
      BY <1>1, <2>7, <2>8, <3>1, <3>2, <3>3, <3>4, Parts DEF WaitingInv, requestVars
  <2>13. RunningInv'
    <3>1. \A q \in Reqs : BlocksNeeded(q)' = BlocksNeeded(q)
      BY <1>1 DEF BlocksNeeded, requestVars
    <3>2. \A q \in Reqs : q # r => status'[q] = status[q] /\ blocks'[q] = blocks[q]
      BY <1>2, <1>9
    <3>3. status'[r] = "PREFILLING" /\ blocks'[r] = PopBlocks(need)
      BY <1>2, <1>5, <1>9
    <3>4. \A i \in 1 .. Len(running) : running[i] # r
      BY <1>4, <1>5, <1>6, ConfigAssumption DEF Reqs
    <3>5. \A i \in 1 .. Len(running') :
            /\ Len(blocks'[running'[i]]) = BlocksNeeded(running'[i])
            /\ status'[running'[i]] \notin {"PENDING", "COMPLETED"}
      <4>1. need = BlocksNeeded(r)
        BY DEF need
      <4> SUFFICES ASSUME NEW i \in 1 .. Len(running')
                   PROVE  /\ Len(blocks'[running'[i]]) = BlocksNeeded(running'[i])
                          /\ status'[running'[i]] \notin {"PENDING", "COMPLETED"}
        OBVIOUS
      <4>2. CASE running'[i] = r
        BY <2>1, <3>3, <4>1, <4>2
      <4>3. ASSUME NEW k \in 1 .. Len(running), running'[i] = running[k]
            PROVE  /\ Len(blocks'[running'[i]]) = BlocksNeeded(running'[i])
                   /\ status'[running'[i]] \notin {"PENDING", "COMPLETED"}
        <5>1. running[k] \in Reqs /\ running[k] # r
          BY <1>4, <3>4
        <5>2. /\ Len(blocks[running[k]]) = BlocksNeeded(running[k])
              /\ status[running[k]] \notin {"PENDING", "COMPLETED"}
          BY <1>1, Parts DEF RunningInv
        <5>3. QED
          BY <3>2, <4>3, <5>1, <5>2
      <4>4. QED
        BY <2>6, <4>2, <4>3
    <3>6. \A q \in Reqs : q < nextId /\ status'[q] # "COMPLETED" => Len(outputs[q]) < maxOutput[q]
      BY <1>6, <3>2, Parts DEF RunningInv
    <3>7. running' \in Seq(Reqs)
      BY <2>5
    <3>8. QED
      BY <1>1, <3>1, <3>5, <3>6, <3>7 DEF RunningInv, requestVars
  <2>14. PlanInv'
    <3>0. \A i \in 1 .. Len(running) + 1 : i \in 1 .. Len(running')
      BY <2>5
    <3>1. \A q : InRunning(q) => \E i \in 1 .. Len(running') : running'[i] = q
      <4>1. \A i \in 1 .. Len(running) : i \in 1 .. Len(running')
        BY <1>2, <3>0
      <4>2. QED
        BY <2>5, <4>1 DEF InRunning
    <3>2. \E i \in 1 .. Len(running') : running'[i] = r
      <4>1. Len(running) + 1 \in 1 .. Len(running')
        BY <1>2, <3>0
      <4>2. QED
        BY <2>5, <4>1
    <3>3. \A i \in 1 .. Len(prefillPlan') :
            prefillPlan'[i] = item \/ \E k \in 1 .. Len(prefillPlan) : prefillPlan'[i] = prefillPlan[k]
      BY <1>3, <1>9, <2>3, AppendFacts
    <3>4. computed[r] + chunk <= promptLen[r]
      BY <1>6, <1>7, <2>2
    <3>5. ASSUME NEW i \in 1 .. Len(prefillPlan')
          PROVE  /\ \E k \in 1 .. Len(running') : running'[k] = prefillPlan'[i].req
                 /\ computed[prefillPlan'[i].req] + prefillPlan'[i].chunk <= promptLen[prefillPlan'[i].req]
      BY <1>1, <2>4, <3>1, <3>2, <3>3, <3>4, Parts DEF PlanInv
    <3>6. ASSUME NEW i \in 1 .. Len(decodePlan)
          PROVE  \E k \in 1 .. Len(running') : running'[k] = decodePlan[i]
      BY <1>1, <3>1, Parts DEF PlanInv
    <3>7. QED
      BY <1>1, <3>5, <3>6 DEF PlanInv, InRunning, requestVars
  <2>15. CursorInv'
    BY <1>1, <1>9, Parts DEF CursorInv
  <2>16. QED
    BY <1>8, <2>9, <2>10, <2>11, <2>12, <2>13, <2>14, <2>15 DEF TypeInv, TypeOK
<1>10. CASE /\ free' = PopBlocks(Len(free)) /\ pc' = "launch"
            /\ UNCHANGED <<blocks, status, prefillPlan, budget, running, pending>>
  <2>1. free' \in Seq(Blocks)
    BY <1>2, <1>10, PopFacts
  <2>2. PoolTypes'
    BY <1>1, <1>2, <1>10, <2>1 DEF PoolTypes
  <2>3. PlanTypes'
    BY <1>1, <1>3, <1>10, Zenon DEF PlanTypes
  <2>4. QueueInv'
    BY <1>1, <1>10, Parts DEF QueueInv, Sorted, requestVars
  <2>5. WaitingInv'
    BY <1>1, <1>10, Parts DEF WaitingInv, requestVars
  <2>6. RunningInv'
    BY <1>1, <1>10, Parts DEF RunningInv, BlocksNeeded, requestVars
  <2>7. PlanInv'
    BY <1>1, <1>10, Parts DEF PlanInv, InRunning, requestVars
  <2>8. CursorInv'
    BY <1>1, <1>10, Parts DEF CursorInv
  <2>9. QED
    BY <1>8, <2>2, <2>3, <2>4, <2>5, <2>6, <2>7, <2>8 DEF TypeInv, TypeOK
<1>11. QED
  BY <1>9, <1>10 DEF AdmitRequest, BudgetAfter, r

-----------------------------------------------------------------------------
(* step: the launches, and the catch block *)

\* A launch happens outside the calls, the scan and the compaction.
LEMMA ScheduleDonePc == ScheduleDone => pc \in {"launch", "admit"}
BY DEF ScheduleDone

\* The rows of the active buffer, stale ones included, are rows.
LEMMA DevRowType ==
  ASSUME DeviceTypes, NEW i \in Nat \ {0}
  PROVE  DevRow(i) \in DeviceRows
<1>1. CASE i <= Len(dev)
  BY <1>1 DEF DevRow, DeviceTypes
<1>2. CASE ~(i <= Len(dev))
  <2>1. 0 \in Slots
    <3>1. TotalBlocks * BlockSize \in Nat \ {0}
      BY TotalBlocksPositive, ConfigAssumption
    <3>2. QED
      BY <3>1 DEF Slots
  <2>2. Garbage \in Places
    BY DEF Garbage, Places
  <2>3. <<[id |-> Garbage, pos |-> 0, slot |-> 0]>> \in [1 .. 1 -> Fed]
    BY <2>1, <2>2 DEF Fed
  <2>4. StaleRow \in DeviceRows
    BY <2>3 DEF StaleRow, DeviceRows
  <2>5. QED
    BY <1>2, <2>4 DEF DevRow
<1>3. QED
  BY <1>1, <1>2

\* Advancing a row in place gives a row, whether it is finished or cut short.
LEMMA AdvancedRowType ==
  ASSUME NEW row \in DeviceRows, NEW token \in Places
  PROVE  /\ AdvanceRow(row, token) \in DeviceRows
         /\ [toks  |-> <<[id |-> token, pos |-> row.toks[1].pos + 1, slot |-> row.toks[1].slot]>>,
             len   |-> row.len + 1,
             table |-> row.table] \in DeviceRows
<1> DEFINE pos  == row.toks[1].pos + 1
           slot == row.toks[1].slot
<1>1. row.toks[1] \in Fed /\ row.len + 1 \in Nat /\ row.table \in Seq(Blocks)
  BY DEF DeviceRows
<1>2. pos \in Nat /\ slot \in Slots
  BY <1>1 DEF Fed
<1>3. SlotAt(row.table, pos) \in Slots
  BY <1>1, <1>2, SlotInRange
<1> HIDE DEF pos, slot
<1>4. ASSUME NEW s \in Slots
      PROVE  [toks |-> <<[id |-> token, pos |-> pos, slot |-> s]>>, len |-> row.len + 1,
              table |-> row.table] \in DeviceRows
  <2>1. [id |-> token, pos |-> pos, slot |-> s] \in Fed
    BY <1>2 DEF Fed
  <2>2. <<[id |-> token, pos |-> pos, slot |-> s]>> \in [1 .. 1 -> Fed]
    BY <2>1
  <2>3. QED
    BY <1>1, <2>2 DEF DeviceRows
<1>5. QED
  BY <1>2, <1>3, <1>4 DEF AdvanceRow, pos, slot

\* An empty plan ends the step.
LEMMA ReturnEmptyTypeInv ==
  ASSUME TypeInv, ReturnEmpty
  PROVE  TypeInv'
<1>1. /\ pc \in {"launch", "admit"} /\ pc' = "idle" /\ isMixed' = FALSE /\ decoded' = decoded
      /\ ClearPlan /\ UNCHANGED <<requestVars, poolVars, clientVars, deviceVars, kv>>
  BY ScheduleDonePc DEF ReturnEmpty
<1>2. decoded' = <<>>
  BY <1>1, Parts DEF CursorInv
<1>3. isMixed' \in BOOLEAN
  BY <1>1
<1>4. PlanTypes' /\ PlanInv' /\ CursorInv'
  BY <1>1, <1>2, <1>3, EmptyPlan
<1>5. DeviceTypes' /\ CacheType'
  BY <1>1, Parts, TypesFrame
<1>6. QED
  BY <1>1, <1>4, <1>5, StepFrame

\* A replay advances rows that stay rows.
LEMMA ReplayTypeInv ==
  ASSUME TypeInv, ReplayDecode
  PROVE  TypeInv'
<1>1. /\ pc \in {"launch", "admit"} /\ pc' = "decode" /\ isMixed' = FALSE /\ decoded' = decoded
      /\ dev' = [i \in 1 .. Len(decodePlan) |-> AdvanceRow(DevRow(i), retained[i])]
      /\ Len(retained) = Len(decodePlan)
      /\ stateValid' = stateValid /\ stateIds' = stateIds /\ retained' = retained
      /\ UNCHANGED <<requestVars, poolVars, clientVars, planVars, kv>>
  BY ScheduleDonePc DEF ReplayDecode, CanReuseDecodeState
<1>2. Len(decodePlan) \in Nat /\ retained \in Seq(Places)
  BY Parts DEF PlanTypes, DeviceTypes
<1>3. \A i \in 1 .. Len(decodePlan) : AdvanceRow(DevRow(i), retained[i]) \in DeviceRows
  <2>1. ASSUME NEW i \in 1 .. Len(decodePlan)
        PROVE  AdvanceRow(DevRow(i), retained[i]) \in DeviceRows
    <3>1. i \in Nat \ {0} /\ retained[i] \in Places
      BY <1>1, <1>2
    <3>2. QED
      BY <3>1, DevRowType, AdvancedRowType, Parts
  <2>2. QED
    BY <2>1
<1>4. dev' \in Seq(DeviceRows) /\ Len(dev') = Len(decodePlan)
  BY <1>1, <1>2, <1>3
<1>5. DeviceTypes' /\ CacheType'
  <2>1. DeviceTypes'
    BY <1>1, <1>4, Parts, Zenon DEF DeviceTypes
  <2>2. QED
    BY <1>1, <2>1, Parts, TypesFrame
<1>6. PlanTypes'
  BY <1>1, Parts, Zenon DEF PlanTypes, planVars
<1>7. PlanInv'
  BY <1>1, Parts, PlanFrame DEF planVars
<1>8. CursorInv'
  BY <1>1, <1>4, Parts DEF CursorInv, planVars
<1>9. QED
  BY <1>1, <1>5, <1>6, <1>7, <1>8, StepFrame

\* A failed advance leaves rows that still have the type of rows.
LEMMA AdvanceThrowsTypeInv ==
  ASSUME TypeInv, AdvanceThrows
  PROVE  TypeInv'
<1> DEFINE Cut(i) == [toks  |-> <<[id   |-> retained[i],
                                   pos  |-> DevRow(i).toks[1].pos + 1,
                                   slot |-> DevRow(i).toks[1].slot]>>,
                      len   |-> DevRow(i).len + 1,
                      table |-> DevRow(i).table]
<1>1. /\ pc \in {"launch", "admit"} /\ pc' = "idle" /\ isMixed' = FALSE /\ decoded' = decoded
      /\ dev' = [i \in 1 .. Len(decodePlan) |-> Cut(i)]
      /\ Len(retained) = Len(decodePlan) /\ ClearPlan
      /\ stateValid' = stateValid /\ stateIds' = stateIds /\ retained' = retained
      /\ UNCHANGED <<requestVars, poolVars, clientVars, kv>>
  BY ScheduleDonePc DEF AdvanceThrows, CanReuseDecodeState
<1>2. Len(decodePlan) \in Nat /\ retained \in Seq(Places)
  BY Parts DEF PlanTypes, DeviceTypes
<1>3. \A i \in 1 .. Len(decodePlan) : Cut(i) \in DeviceRows
  <2>1. ASSUME NEW i \in 1 .. Len(decodePlan)
        PROVE  Cut(i) \in DeviceRows
    <3>1. i \in Nat \ {0} /\ retained[i] \in Places
      BY <1>1, <1>2
    <3>2. DevRow(i) \in DeviceRows
      BY <3>1, DevRowType, Parts
    <3>3. QED
      BY <3>1, <3>2, AdvancedRowType
  <2>2. QED
    BY <2>1
<1> HIDE DEF Cut
<1>4. dev' \in Seq(DeviceRows)
  BY <1>1, <1>2, <1>3
<1>5. DeviceTypes' /\ CacheType'
  <2>1. DeviceTypes'
    BY <1>1, <1>4, Parts, Zenon DEF DeviceTypes
  <2>2. QED
    BY <1>1, <2>1, Parts, TypesFrame
<1>6. PlanTypes' /\ PlanInv' /\ CursorInv'
  <2>1. decoded' = <<>>
    BY <1>1, Parts DEF CursorInv
  <2>2. isMixed' \in BOOLEAN
    BY <1>1
  <2>3. QED
    BY <1>1, <2>1, <2>2, EmptyPlan
<1>7. QED
  BY <1>1, <1>5, <1>6, StepFrame

\* Rows rebuilt from the requests are rows.
LEMMA LaunchDecodeTypeInv ==
  ASSUME TypeInv, LaunchDecode
  PROVE  TypeInv'
<1> DEFINE seed == ReuseStable /\ ~HasPrefill
<1>1. /\ pc \in {"launch", "admit"} /\ pc' = "decode" /\ isMixed' = HasPrefill
      /\ decoded' = decoded /\ dev' = DecodeRows(seed) /\ stateValid' = seed
      /\ stateIds' = (IF seed THEN decodePlan ELSE stateIds) /\ retained' = retained
      /\ UNCHANGED <<requestVars, poolVars, clientVars, planVars, kv>>
  BY ScheduleDonePc DEF LaunchDecode
<1>2. decodePlan \in Seq(Reqs) /\ stateIds \in Seq(Reqs) /\ retained \in Seq(Places)
  BY Parts DEF PlanTypes, DeviceTypes
<1>3. seed \in BOOLEAN /\ HasPrefill \in BOOLEAN
  BY DEF HasPrefill
<1>4. pc # "retire"
  BY <1>1
<1> HIDE DEF seed
<1>5. \A i \in 1 .. Len(decodePlan) : DecodeRow(decodePlan[i], seed) \in DeviceRows
  <2>1. ASSUME NEW i \in 1 .. Len(decodePlan)
        PROVE  DecodeRow(decodePlan[i], seed) \in DeviceRows
    <3>1. decodePlan[i] \in Reqs /\ InRunning(decodePlan[i])
      BY <1>2, <1>4, Parts DEF PlanInv
    <3>2. QED
      BY <1>3, <1>4, <3>1, DecodeRowType
  <2>2. QED
    BY <2>1
<1>6. dev' \in Seq(DeviceRows) /\ Len(dev') = Len(decodePlan)
  BY <1>1, <1>2, <1>5 DEF DecodeRows
<1>7. DeviceTypes' /\ CacheType'
  <2>1. stateIds' \in Seq(Reqs)
    BY <1>1, <1>2
  <2>2. DeviceTypes'
    BY <1>1, <1>2, <1>3, <1>6, <2>1, Zenon DEF DeviceTypes
  <2>3. QED
    BY <1>1, <2>2, Parts, TypesFrame
<1>8. PlanTypes'
  BY <1>1, <1>3, Parts, Zenon DEF PlanTypes, planVars
<1>9. PlanInv'
  BY <1>1, Parts, PlanFrame DEF planVars
<1>10. CursorInv'
  BY <1>1, <1>6, Parts DEF CursorInv, planVars
<1>11. QED
  BY <1>1, <1>7, <1>8, <1>9, <1>10, StepFrame

\* A prefill-only step builds no decode row.
LEMMA LaunchPrefillTypeInv ==
  ASSUME TypeInv, LaunchPrefill
  PROVE  TypeInv'
<1>1. /\ pc \in {"launch", "admit"} /\ pc' = "prefill" /\ isMixed' = FALSE
      /\ decoded' = decoded /\ dev' = <<>> /\ decodePlan = <<>>
      /\ stateValid' = stateValid /\ stateIds' = stateIds /\ retained' = retained
      /\ UNCHANGED <<requestVars, poolVars, clientVars, planVars, kv>>
  BY ScheduleDonePc DEF LaunchPrefill, HasDecode
<1>2. dev' \in Seq(DeviceRows)
  BY <1>1
<1>3. DeviceTypes' /\ CacheType'
  <2>1. DeviceTypes'
    BY <1>1, <1>2, Parts, Zenon DEF DeviceTypes
  <2>2. QED
    BY <1>1, <2>1, Parts, TypesFrame
<1>4. PlanTypes'
  <2>1. isMixed' \in BOOLEAN
    BY <1>1
  <2>2. QED
    BY <1>1, <2>1, Parts, Zenon DEF PlanTypes, planVars
<1>5. PlanInv'
  BY <1>1, Parts, PlanFrame DEF planVars
<1>6. CursorInv'
  BY <1>1, Parts DEF CursorInv, planVars
<1>7. QED
  BY <1>1, <1>3, <1>4, <1>5, <1>6, StepFrame

\* A packed step is launched, or ends in the catch block.
LEMMA LaunchMixedTypeInv ==
  ASSUME TypeInv, LaunchMixed
  PROVE  TypeInv'
<1>1. /\ pc \in {"launch", "admit"} /\ dev' = <<>> /\ stateIds' = stateIds
      /\ UNCHANGED <<requestVars, poolVars, clientVars, kv>>
  BY ScheduleDonePc DEF LaunchMixed
<1>2. CASE /\ pc' = "mixed" /\ isMixed' = TRUE
           /\ UNCHANGED <<planVars, decoded, stateValid, retained>>
  <2>1. DeviceTypes' /\ CacheType'
    <3>1. dev' \in Seq(DeviceRows)
      BY <1>1
    <3>2. DeviceTypes'
      BY <1>1, <1>2, <3>1, Parts, Zenon DEF DeviceTypes
    <3>3. QED
      BY <1>1, <3>2, Parts, TypesFrame
  <2>2. PlanTypes'
    <3>1. isMixed' \in BOOLEAN
      BY <1>2
    <3>2. QED
      BY <1>1, <1>2, <3>1, Parts, Zenon DEF PlanTypes, planVars
  <2>3. PlanInv'
    BY <1>1, <1>2, Parts, PlanFrame DEF planVars
  <2>4. CursorInv'
    BY <1>1, <1>2, Parts DEF CursorInv, planVars
  <2>5. QED
    BY <1>1, <2>1, <2>2, <2>3, <2>4, StepFrame
<1>3. CASE Catch
  <2>1. DeviceTypes' /\ CacheType'
    <3>1. dev' \in Seq(DeviceRows) /\ retained' \in Seq(Places) /\ stateValid' \in BOOLEAN
      <4>1. dev' = <<>> /\ retained' = <<>> /\ stateValid' = FALSE
        BY <1>1, <1>3 DEF Catch
      <4>2. (\A S : <<>> \in Seq(S)) /\ FALSE \in BOOLEAN
        OBVIOUS
      <4>3. QED
        BY <4>1, <4>2, Zenon
    <3>2. DeviceTypes'
      BY <1>1, <3>1, Parts, Zenon DEF DeviceTypes
    <3>3. QED
      BY <1>1, <3>2, Parts, TypesFrame
  <2>2. PlanTypes' /\ PlanInv' /\ CursorInv'
    <3>1. /\ pc' = "idle" /\ isMixed' = FALSE /\ decoded' = <<>> /\ ClearPlan
      BY <1>3 DEF Catch
    <3>2. isMixed' \in BOOLEAN
      BY <3>1
    <3>3. QED
      BY <3>1, <3>2, EmptyPlan
  <2>3. QED
    BY <1>1, <2>1, <2>2, StepFrame
<1>4. QED
  BY <1>2, <1>3 DEF LaunchMixed

-----------------------------------------------------------------------------
(* step: the calls that return, and update_requests *)

\* Every row belongs to a running request, and its tokens are counted.
LEMMA RowFacts ==
  ASSUME TypeInv, pc # "retire", NEW k \in 1 .. NumRows
  PROVE  RowReq(k) \in Reqs /\ InRunning(RowReq(k)) /\ RowChunk(k) \in Nat
<1>1. decodePlan \in Seq(Reqs) /\ prefillPlan \in Seq([req : Reqs, chunk : Nat])
  BY Parts DEF PlanTypes
<1>2. CASE k <= Len(decodePlan)
  BY <1>1, <1>2, Parts DEF PlanInv, RowReq, RowChunk, NumRows
<1>3. CASE ~(k <= Len(decodePlan))
  <2> DEFINE i == k - Len(decodePlan)
  <2>1. i \in 1 .. Len(prefillPlan)
    BY <1>1, <1>3 DEF NumRows
  <2>2. prefillPlan[i] \in [req : Reqs, chunk : Nat] /\ InRunning(prefillPlan[i].req)
    <3> HIDE DEF i
    <3>1. prefillPlan[i] \in [req : Reqs, chunk : Nat]
      <4> DEFINE Items == [req : Reqs, chunk : Nat]
      <4>1. prefillPlan \in Seq(Items)
        BY <1>1
      <4> HIDE DEF Items
      <4>2. prefillPlan[i] \in Items
        BY <2>1, <4>1
      <4>3. QED
        BY <4>2 DEF Items
    <3>2. InRunning(prefillPlan[i].req)
      BY <2>1, Parts DEF PlanInv
    <3>3. QED
      BY <3>1, <3>2
  <2>3. QED
    BY <1>3, <2>2 DEF RowReq, RowChunk
<1>4. QED
  BY <1>2, <1>3

\* What update_requests does to one request: nothing, or it moves the request on
\* by its row's chunk and perhaps appends its row's token.
LEMMA UpdateFacts ==
  ASSUME NEW tokens, UpdateRequests(tokens), NEW r \in Reqs
  PROVE  \/ computed'[r] = computed[r] /\ outputs'[r] = outputs[r] /\ status'[r] = status[r]
         \/ \E k \in 1 .. NumRows :
              /\ RowReq(k) = r
              /\ computed'[r] = computed[r] + RowChunk(k)
              /\ \/ outputs'[r] = outputs[r] /\ status'[r] = status[r]
                 \/ /\ outputs'[r] = Append(outputs[r], tokens[k])
                    /\ status'[r] = IF Stops(r, outputs'[r]) THEN "COMPLETED" ELSE "DECODING"
<1> DEFINE row       == CHOOSE k \in 1 .. NumRows : RowReq(k) = r
           scheduled == {RowReq(k) : k \in 1 .. NumRows}
<1>1. CASE r \notin scheduled
  BY <1>1 DEF UpdateRequests
<1>2. CASE r \in scheduled
  <2>1. row \in 1 .. NumRows /\ RowReq(row) = r
    BY <1>2
  <2>2. computed'[r] = computed[r] + RowChunk(row)
    BY <1>2 DEF UpdateRequests
  <2>3. CASE computed'[r] >= promptLen[r]
    BY <1>2, <2>1, <2>2, <2>3 DEF UpdateRequests
  <2>4. CASE ~(computed'[r] >= promptLen[r])
    BY <1>2, <2>1, <2>2, <2>4 DEF UpdateRequests
  <2>5. QED
    BY <2>3, <2>4
<1>3. QED
  BY <1>1, <1>2

\* update_requests gives each scheduled request its chunk and its token, and the
\* status that says whether its prompt is done; the plan names each request once,
\* so no request is served twice.
LEMMA FinishTypeInv ==
  ASSUME TypeInv, pc \in {"decode", "prefill", "mixed"},
         NEW tokens \in Seq(Tokens), Len(tokens) = NumRows, FinishStep(tokens),
         UNCHANGED <<requestVars, clientVars, dev, stateIds>>, CacheType'
  PROVE  TypeInv'
<1>1. /\ UpdateRequests(tokens) /\ RetainTokens(tokens) /\ decoded' = <<>> /\ pc' = "retire"
      /\ pending' = pending /\ running' = running /\ blocks' = blocks /\ free' = free
      /\ UNCHANGED <<planVars, isMixed>>
  BY DEF FinishStep
<1>2. /\ pending \in Seq(Reqs) /\ running \in Seq(Reqs) /\ free \in Seq(Blocks)
      /\ blocks \in [Reqs -> Seq(Blocks)] /\ computed \in [Reqs -> Nat]
      /\ status \in [Reqs -> {"PENDING", "PREFILLING", "DECODING", "COMPLETED"}]
      /\ outputs \in [Reqs -> Seq(Tokens)]
  BY Parts DEF PoolTypes
<1>3. pc # "retire"
  OBVIOUS
<1>4. \A r \in Reqs : ~InRunning(r) =>
        computed'[r] = computed[r] /\ outputs'[r] = outputs[r] /\ status'[r] = status[r]
  BY <1>1, <1>3, UpdateFacts, RowFacts
<1>5. \A r \in Reqs :
        /\ status'[r] \in {"PENDING", "PREFILLING", "DECODING", "COMPLETED"}
        /\ computed'[r] \in Nat
        /\ outputs'[r] \in Seq(Tokens)
  <2>1. ASSUME NEW r \in Reqs, NEW k \in 1 .. NumRows
        PROVE  computed[r] + RowChunk(k) \in Nat /\ Append(outputs[r], tokens[k]) \in Seq(Tokens)
    <3>1. RowChunk(k) \in Nat /\ tokens[k] \in Tokens
      BY <1>3, RowFacts
    <3>2. QED
      BY <1>2, <3>1
  <2>2. ASSUME NEW r \in Reqs
        PROVE  /\ status[r] \in {"PENDING", "PREFILLING", "DECODING", "COMPLETED"}
               /\ computed[r] \in Nat /\ outputs[r] \in Seq(Tokens)
    BY <1>2
  <2>3. ASSUME NEW r \in Reqs
        PROVE  /\ status'[r] \in {"PENDING", "PREFILLING", "DECODING", "COMPLETED"}
               /\ computed'[r] \in Nat /\ outputs'[r] \in Seq(Tokens)
    <3>1. CASE computed'[r] = computed[r] /\ outputs'[r] = outputs[r] /\ status'[r] = status[r]
      BY <2>2, <3>1
    <3>2. ASSUME NEW k \in 1 .. NumRows, computed'[r] = computed[r] + RowChunk(k),
                 \/ outputs'[r] = outputs[r] /\ status'[r] = status[r]
                 \/ /\ outputs'[r] = Append(outputs[r], tokens[k])
                    /\ status'[r] = IF Stops(r, outputs'[r]) THEN "COMPLETED" ELSE "DECODING"
          PROVE  /\ status'[r] \in {"PENDING", "PREFILLING", "DECODING", "COMPLETED"}
                 /\ computed'[r] \in Nat /\ outputs'[r] \in Seq(Tokens)
      BY <2>1, <2>2, <3>2
    <3>3. QED
      BY <1>1, <3>1, <3>2, UpdateFacts
  <2>4. QED
    BY <2>3
<1>6. TypeOK'
  <2>1. PoolTypes'
    <3>1. /\ computed' = [r \in Reqs |-> computed'[r]]
          /\ outputs' = [r \in Reqs |-> outputs'[r]]
          /\ status' = [r \in Reqs |-> status'[r]]
      BY <1>1 DEF UpdateRequests
    <3>2. /\ computed' \in [Reqs -> Nat] /\ outputs' \in [Reqs -> Seq(Tokens)]
          /\ status' \in [Reqs -> {"PENDING", "PREFILLING", "DECODING", "COMPLETED"}]
      BY <1>5, <3>1
    <3>3. QED
      BY <1>1, <1>2, <3>2 DEF PoolTypes
  <2>2. PlanTypes'
    <3>1. decoded' \in Seq(Tokens)
      BY <1>1
    <3>2. QED
      BY <1>1, <3>1, Parts, Zenon DEF PlanTypes, planVars
  <2>3. DeviceTypes'
    <3>1. retained' \in Seq(Places) /\ stateValid' \in BOOLEAN
      <4>1. CASE /\ retained' = [i \in 1 .. Len(decodePlan) |-> Place(tokens[i])]
                 /\ stateValid' = stateValid
        <5>1. Len(decodePlan) \in Nat /\ Len(prefillPlan) \in Nat
          BY Parts DEF PlanTypes
        <5>2. \A i \in 1 .. Len(decodePlan) : tokens[i] \in Tokens
          BY <5>1 DEF NumRows
        <5>3. \A i \in 1 .. Len(decodePlan) : Place(tokens[i]) \in Places
          BY <5>2 DEF Tokens, Place, Places
        <5>4. retained' \in Seq(Places)
          BY <4>1, <5>1, <5>3
        <5>5. QED
          BY <4>1, <5>4, Parts, Zenon DEF DeviceTypes
      <4>2. CASE retained' = <<>> /\ stateValid' = FALSE
        <5>1. retained' \in Seq(Places)
          BY <4>2
        <5>2. QED
          BY <4>2, <5>1, Zenon
      <4>3. CASE retained' = retained /\ stateValid' = stateValid
        BY <4>3, Parts, Zenon DEF DeviceTypes
      <4>4. QED
        BY <1>1, <4>1, <4>2, <4>3 DEF RetainTokens
    <3>2. QED
      BY <3>1, Parts, Zenon DEF DeviceTypes
  <2>4. QED
    BY <2>1, <2>2, <2>3, Parts, TypesFrame DEF TypeOK
<1>7. QueueInv'
  BY <1>1, Parts DEF QueueInv, Sorted, requestVars
<1>8. AcceptedInv'
  BY Parts DEF AcceptedInv, requestVars
<1>9. \A i \in 1 .. Len(running) : running[i] \in Reqs /\ running[i] < nextId
  BY <1>2, Parts DEF QueueInv
<1>10. WaitingInv'
  <2>1. \A r \in Reqs : r >= nextId => ~InRunning(r)
    BY <1>9, Parts, ConfigAssumption DEF InRunning, RequestTypes, Reqs
  <2>2. \A j \in 1 .. Len(pending) : pending[j] \in Reqs /\ ~InRunning(pending[j])
    <3>1. \A j \in 1 .. Len(pending) : pending[j] \in Reqs
      BY <1>2
    <3>2. \A i \in 1 .. Len(running) : \A j \in 1 .. Len(pending) : running[i] < pending[j]
      BY Parts DEF QueueInv
    <3>3. \A i \in 1 .. Len(running) : \A j \in 1 .. Len(pending) : running[i] # pending[j]
      BY <1>9, <3>1, <3>2, ConfigAssumption DEF Reqs
    <3>4. QED
      BY <3>1, <3>3 DEF InRunning
  <2>3. ASSUME NEW r \in Reqs, status'[r] = "PENDING"
        PROVE  outputs'[r] = <<>> /\ computed'[r] = 0
    <3>1. CASE InRunning(r)
      <4>1. status[r] # "PENDING"
        BY <3>1, Parts DEF InRunning, RunningInv
      <4>2. status'[r] # "PENDING"
        BY <1>1, <4>1, UpdateFacts
      <4>3. QED
        BY <2>3, <4>2
    <3>2. CASE ~InRunning(r)
      BY <1>4, <2>3, <3>2, Parts DEF WaitingInv
    <3>3. QED
      BY <3>1, <3>2
  <2>4. QED
    BY <1>1, <1>4, <2>1, <2>2, <2>3, Parts DEF WaitingInv, requestVars
<1>11. RunningInv'
  <2>1. \A r \in Reqs : BlocksNeeded(r)' = BlocksNeeded(r)
    BY DEF BlocksNeeded, requestVars
  <2>2. ASSUME NEW i \in 1 .. Len(running)
        PROVE  Len(blocks[running[i]]) = BlocksNeeded(running[i]) /\ status'[running[i]] # "PENDING"
    <3>1. status[running[i]] # "PENDING"
      BY Parts DEF RunningInv
    <3>2. status'[running[i]] # "PENDING"
      BY <1>1, <1>9, <3>1, UpdateFacts
    <3>3. QED
      BY <3>2, Parts DEF RunningInv
  <2>3. ASSUME NEW r \in Reqs, r < nextId, status'[r] # "COMPLETED"
        PROVE  Len(outputs'[r]) < maxOutput[r]
    <3>1. CASE outputs'[r] = outputs[r] /\ status'[r] = status[r]
      BY <2>3, <3>1, Parts DEF RunningInv
    <3>2. CASE status'[r] = IF Stops(r, outputs'[r]) THEN "COMPLETED" ELSE "DECODING"
      <4>1. Len(outputs'[r]) \in Nat /\ maxOutput[r] \in Nat
        BY <1>5, Parts DEF RequestTypes
      <4>2. ~(Len(outputs'[r]) >= maxOutput[r])
        BY <2>3, <3>2 DEF Stops
      <4>3. QED
        BY <4>1, <4>2
    <3>3. QED
      BY <1>1, <3>1, <3>2, UpdateFacts
  <2>4. QED
    BY <1>1, <1>9, <2>1, <2>2, <2>3 DEF RunningInv, requestVars
<1>12. PlanInv' /\ CursorInv'
  BY <1>1 DEF PlanInv, CursorInv
<1>13. QED
  BY <1>6, <1>7, <1>8, <1>10, <1>11, <1>12 DEF TypeInv

\* The rows of each of the three calls.
LEMMA CallRows ==
  ASSUME TypeInv, pc # "retire"
  PROVE  /\ dev \in Seq(Rows)
         /\ PrefillRows \in Seq(Rows) /\ Len(PrefillRows) = Len(prefillPlan)
         /\ MixedRows \in Seq(Rows) /\ Len(MixedRows) = NumRows
<1>1. decodePlan \in Seq(Reqs) /\ prefillPlan \in Seq([req : Reqs, chunk : Nat])
  BY Parts DEF PlanTypes
<1>2. ASSUME NEW s \in Seq(DeviceRows)
      PROVE  s \in Seq(Rows)
  BY DeviceRowsAreRows
<1>3. dev \in Seq(Rows)
  BY <1>2, Parts DEF DeviceTypes
<1>4. PrefillRows \in Seq(Rows) /\ Len(PrefillRows) = Len(prefillPlan)
  <2>1. ASSUME NEW i \in 1 .. Len(prefillPlan)
        PROVE  PrefillRow(prefillPlan[i]) \in Rows
    <3> DEFINE Items == [req : Reqs, chunk : Nat]
    <3>1. prefillPlan \in Seq(Items)
      BY <1>1
    <3> HIDE DEF Items
    <3>2. prefillPlan[i] \in Items
      BY <3>1
    <3>3. /\ InRunning(prefillPlan[i].req)
          /\ computed[prefillPlan[i].req] + prefillPlan[i].chunk <= promptLen[prefillPlan[i].req]
      BY Parts DEF PlanInv
    <3>4. QED
      BY <3>2, <3>3, PrefillRowType DEF Items
  <2>2. QED
    BY <1>1, <2>1 DEF PrefillRows
<1>5. ASSUME NEW reserved \in BOOLEAN
      PROVE  DecodeRows(reserved) \in Seq(Rows) /\ Len(DecodeRows(reserved)) = Len(decodePlan)
  <2>1. ASSUME NEW i \in 1 .. Len(decodePlan)
        PROVE  DecodeRow(decodePlan[i], reserved) \in Rows
    <3>1. decodePlan[i] \in Reqs /\ InRunning(decodePlan[i])
      BY <1>1, Parts DEF PlanInv
    <3>2. DecodeRow(decodePlan[i], reserved) \in DeviceRows
      BY <3>1, DecodeRowType
    <3>3. QED
      BY <3>2, DeviceRowsAreRows
  <2>2. QED
    BY <1>1, <2>1 DEF DecodeRows
<1>6. MixedRows \in Seq(Rows) /\ Len(MixedRows) = NumRows
  <2> DEFINE first  == DecodeRows(FALSE)
             second == PrefillRows
  <2>1. first \in Seq(Rows) /\ Len(first) = Len(decodePlan)
    BY <1>5
  <2>2. second \in Seq(Rows) /\ Len(second) = Len(prefillPlan)
    BY <1>4
  <2>3. MixedRows = first \o second
    BY DEF MixedRows
  <2> HIDE DEF first, second
  <2>4. QED
    BY <2>1, <2>2, <2>3 DEF NumRows
<1>7. QED
  BY <1>3, <1>4, <1>6

\* The decode callback ends the step or hands over to the prefill callback.
LEMMA DecodeReturnsTypeInv ==
  ASSUME TypeInv, DecodeReturns
  PROVE  TypeInv'
<1>1. /\ pc = "decode" /\ kv' = WriteRows(dev)
      /\ UNCHANGED <<requestVars, clientVars, dev, stateIds, maxContext>>
  BY DEF DecodeReturns
<1>2. dev \in Seq(Rows) /\ Len(dev) = Len(decodePlan)
  BY <1>1, CallRows, Parts DEF CursorInv
<1>3. TypeOK
  BY DEF TypeInv
<1>4. CacheType'
  BY <1>1, <1>2, <1>3, WriteType DEF CacheType
<1>5. PICK eos \in [1 .. Len(dev) -> BOOLEAN] :
        IF HasPrefill
        THEN /\ decoded' = Sampled(dev, eos)
             /\ pc' = "prefill"
             /\ UNCHANGED <<poolVars, planVars, isMixed, stateValid, retained>>
        ELSE FinishStep(Sampled(dev, eos))
  BY DEF DecodeReturns
<1>6. Sampled(dev, eos) \in Seq(Tokens) /\ Len(Sampled(dev, eos)) = Len(dev)
  BY <1>2, <1>3, SampledType
<1>7. CASE HasPrefill
  <2>1. /\ decoded' = Sampled(dev, eos) /\ pc' = "prefill"
        /\ UNCHANGED <<poolVars, planVars, isMixed, stateValid, retained>>
    BY <1>5, <1>7
  <2>2. DeviceTypes'
    BY <1>1, <2>1, Parts, Zenon DEF DeviceTypes
  <2>3. PlanTypes'
    BY <1>6, <2>1, Parts, Zenon DEF PlanTypes, planVars
  <2>4. PlanInv'
    BY <1>1, <2>1, Parts, PlanFrame DEF planVars
  <2>5. CursorInv'
    BY <1>2, <1>6, <2>1 DEF CursorInv, planVars
  <2>6. QED
    BY <1>1, <1>4, <2>1, <2>2, <2>3, <2>4, <2>5, StepFrame
<1>8. CASE ~HasPrefill
  <2>1. NumRows = Len(dev)
    BY <1>2, <1>8, Parts DEF NumRows, HasPrefill, PlanTypes
  <2>2. FinishStep(Sampled(dev, eos))
    BY <1>5, <1>8
  <2>3. QED
    BY <1>1, <1>4, <1>6, <2>1, <2>2, FinishTypeInv
<1>9. QED
  BY <1>7, <1>8

\* The prefill callback ends the step.
LEMMA PrefillReturnsTypeInv ==
  ASSUME TypeInv, PrefillReturns
  PROVE  TypeInv'
<1>1. /\ pc = "prefill" /\ kv' = WriteRows(PrefillRows)
      /\ UNCHANGED <<requestVars, clientVars, dev, stateIds, maxContext>>
  BY DEF PrefillReturns
<1>2. PrefillRows \in Seq(Rows) /\ Len(PrefillRows) = Len(prefillPlan)
  BY <1>1, CallRows
<1>3. TypeOK /\ decoded \in Seq(Tokens) /\ Len(decoded) = Len(decodePlan)
  BY <1>1, Parts DEF TypeInv, CursorInv, PlanTypes
<1>4. CacheType'
  BY <1>1, <1>2, <1>3, WriteType DEF CacheType
<1>5. PICK eos \in [1 .. Len(prefillPlan) -> BOOLEAN] :
        FinishStep(decoded \o Sampled(PrefillRows, eos))
  BY DEF PrefillReturns
<1>6. /\ Sampled(PrefillRows, eos) \in Seq(Tokens)
      /\ Len(Sampled(PrefillRows, eos)) = Len(prefillPlan)
  BY <1>2, <1>3, SampledType
<1> DEFINE tokens == decoded \o Sampled(PrefillRows, eos)
<1>7. tokens \in Seq(Tokens) /\ Len(tokens) = NumRows
  BY <1>3, <1>6 DEF NumRows
<1>8. FinishStep(tokens)
  BY <1>5
<1> HIDE DEF tokens
<1>9. QED
  BY <1>1, <1>4, <1>7, <1>8, FinishTypeInv

\* The packed callback ends the step.
LEMMA MixedReturnsTypeInv ==
  ASSUME TypeInv, MixedReturns
  PROVE  TypeInv'
<1>1. /\ pc = "mixed" /\ kv' = WriteRows(MixedRows)
      /\ UNCHANGED <<requestVars, clientVars, dev, stateIds, maxContext>>
  BY DEF MixedReturns
<1>2. MixedRows \in Seq(Rows) /\ Len(MixedRows) = NumRows
  BY <1>1, CallRows
<1>3. TypeOK
  BY DEF TypeInv
<1>4. CacheType'
  BY <1>1, <1>2, <1>3, WriteType DEF CacheType
<1>5. PICK eos \in [1 .. NumRows -> BOOLEAN] : FinishStep(Sampled(MixedRows, eos))
  BY DEF MixedReturns
<1>6. Sampled(MixedRows, eos) \in Seq(Tokens) /\ Len(Sampled(MixedRows, eos)) = NumRows
  BY <1>2, <1>3, SampledType
<1>7. QED
  BY <1>1, <1>4, <1>5, <1>6, FinishTypeInv

\* A failed callback drops the plan and keeps the requests.
LEMMA CallbackFailsTypeInv ==
  ASSUME TypeInv, CallbackFails
  PROVE  TypeInv'
<1>1. /\ pc \in {"decode", "prefill", "mixed"}
      /\ kv' \in {kv, WriteRows(dev), WriteRows(PrefillRows), WriteRows(MixedRows)}
      /\ Catch /\ dev' = dev /\ stateIds' = stateIds
      /\ UNCHANGED <<requestVars, poolVars, clientVars>>
  BY DEF CallbackFails
<1>2. TypeOK /\ pc # "retire"
  BY <1>1 DEF TypeInv
<1>3. CacheType'
  BY <1>1, <1>2, CallRows, WriteType, Parts DEF CacheType
<1>4. DeviceTypes'
  <2>1. retained' = <<>> /\ stateValid' = FALSE
    BY <1>1 DEF Catch
  <2>2. <<>> \in Seq(Places) /\ FALSE \in BOOLEAN
    OBVIOUS
  <2>3. QED
    BY <1>1, <2>1, <2>2, Parts, Zenon DEF DeviceTypes
<1>5. PlanTypes' /\ PlanInv' /\ CursorInv'
  <2>1. /\ pc' = "idle" /\ isMixed' = FALSE /\ decoded' = <<>> /\ ClearPlan
    BY <1>1 DEF Catch
  <2>2. isMixed' \in BOOLEAN
    BY <2>1
  <2>3. QED
    BY <2>1, <2>2, EmptyPlan
<1>6. QED
  BY <1>1, <1>2, <1>3, <1>4, <1>5, StepFrame

-----------------------------------------------------------------------------
(* step: the compaction *)

\* Taking one element out of a sequence that is in order.
LEMMA WithoutFacts ==
  ASSUME NEW s \in Seq(Reqs), NEW i \in 1 .. Len(s), Sorted(s)
  PROVE  /\ Without(s, i) \in Seq(Reqs) /\ Sorted(Without(s, i))
         /\ \A j \in 1 .. Len(Without(s, i)) :
              \E k \in 1 .. Len(s) : k # i /\ Without(s, i)[j] = s[k]
<1> DEFINE t     == Without(s, i)
           front == SubSeq(s, 1, i - 1)
           back  == SubSeq(s, i + 1, Len(s))
           m(j)  == IF j < i THEN j ELSE j + 1
<1>a. /\ front \in Seq(Reqs) /\ Len(front) = i - 1
      /\ \A j \in 1 .. (i - 1) : front[j] = s[j]
  OBVIOUS
<1>b. /\ back \in Seq(Reqs) /\ Len(back) = Len(s) - i
      /\ \A j \in 1 .. (Len(s) - i) : back[j] = s[i + j]
  OBVIOUS
<1>c. t = front \o back
  BY DEF Without
<1> HIDE DEF t, front, back
<1>1. t \in Seq(Reqs) /\ Len(t) = Len(s) - 1
  BY <1>a, <1>b, <1>c
<1>2. \A j \in 1 .. Len(t) : m(j) \in 1 .. Len(s) /\ m(j) # i /\ t[j] = s[m(j)]
  <2>1. ASSUME NEW j \in 1 .. Len(t), j < i
        PROVE  j \in 1 .. Len(s) /\ t[j] = s[j]
    <3>1. j \in 1 .. Len(front)
      BY <1>1, <1>a, <2>1
    <3>2. t[j] = front[j]
      BY <1>a, <1>b, <1>c, <3>1
    <3>3. QED
      BY <1>1, <1>a, <2>1, <3>1, <3>2
  <2>2. ASSUME NEW j \in 1 .. Len(t), ~(j < i)
        PROVE  j + 1 \in 1 .. Len(s) /\ t[j] = s[j + 1]
    <3>1. j - (i - 1) \in 1 .. Len(back) /\ j + 1 \in 1 .. Len(s)
      BY <1>1, <1>b, <2>2
    <3>2. t[j] = back[j - (i - 1)]
      BY <1>a, <1>b, <1>c, <2>2, <3>1
    <3>3. i + (j - (i - 1)) = j + 1
      OBVIOUS
    <3>4. QED
      BY <1>b, <3>1, <3>2, <3>3
  <2>3. QED
    BY <2>1, <2>2
<1>3. \A j, k \in 1 .. Len(t) : j < k => m(j) < m(k)
  BY <1>1
<1> HIDE DEF m
<1>4. Sorted(t)
  BY <1>2, <1>3 DEF Sorted
<1>5. QED
  BY <1>1, <1>2, <1>4 DEF t

\* A completed request leaves running with its pages, and the order stays.
LEMMA RetireTypeInv ==
  ASSUME TypeInv, RetireRequest
  PROVE  TypeInv'
<1>1. PICK i \in 1 .. Len(running) :
        /\ IsRetired(i)
        /\ completed' = Append(completed, [id |-> running[i], out |-> outputs[running[i]]])
        /\ outputs' = [outputs EXCEPT ![running[i]] = <<>>]
        /\ free' = Freed(running[i])
        /\ blocks' = [blocks EXCEPT ![running[i]] = <<>>]
        /\ running' = Without(running, i)
  BY DEF RetireRequest
<1> DEFINE r == running[i]
<1>2. /\ pc = "retire" /\ pending' = pending /\ status' = status /\ computed' = computed
      /\ delivered' = delivered /\ pc' = pc
      /\ UNCHANGED <<requestVars, planVars, isMixed, decoded, deviceVars, kv>>
  BY DEF RetireRequest
<1>3. /\ pending \in Seq(Reqs) /\ running \in Seq(Reqs) /\ free \in Seq(Blocks)
      /\ blocks \in [Reqs -> Seq(Blocks)] /\ computed \in [Reqs -> Nat]
      /\ status \in [Reqs -> {"PENDING", "PREFILLING", "DECODING", "COMPLETED"}]
      /\ outputs \in [Reqs -> Seq(Tokens)]
  BY Parts DEF PoolTypes
<1>4. r \in Reqs /\ status[r] = "COMPLETED"
  BY <1>1, <1>3 DEF IsRetired
<1>5. /\ running' \in Seq(Reqs) /\ Sorted(running')
      /\ \A j \in 1 .. Len(running') :
           \E k \in 1 .. Len(running) : k # i /\ running'[j] = running[k]
  BY <1>1, <1>3, WithoutFacts, Parts DEF QueueInv
<1>6. \A k \in 1 .. Len(running) : running[k] \in Reqs /\ (k # i => running[k] # r)
  <2>1. ASSUME NEW k \in 1 .. Len(running), k # i
        PROVE  running[k] # running[i]
    <3>1. running[k] \in Int /\ running[i] \in Int
      BY <1>3, ConfigAssumption DEF Reqs
    <3>2. k < i \/ i < k
      BY <1>3, <2>1
    <3>3. running[k] < running[i] \/ running[i] < running[k]
      BY <2>1, <3>2, Parts DEF QueueInv, Sorted
    <3>4. QED
      BY <3>1, <3>3
  <2>2. QED
    BY <1>3, <2>1
<1> HIDE DEF r
<1>7. TypeOK'
  <2>1. outputs' \in [Reqs -> Seq(Tokens)] /\ blocks' \in [Reqs -> Seq(Blocks)]
    BY <1>1, <1>3 DEF r
  <2>2. free' \in Seq(Blocks)
    BY <1>1, <1>3, <1>4 DEF Freed, r
  <2>3. PoolTypes'
    BY <1>2, <1>3, <1>5, <2>1, <2>2 DEF PoolTypes
  <2>4. ClientTypes'
    <3> DEFINE Answers == [id : Reqs, out : Seq(Tokens)]
               answer  == [id |-> r, out |-> outputs[r]]
    <3>1. answer \in Answers
      BY <1>3, <1>4
    <3>2. completed \in Seq(Answers) /\ delivered \in Seq(Answers)
      BY Parts DEF ClientTypes
    <3>3. completed' = Append(completed, answer)
      BY <1>1 DEF r
    <3> HIDE DEF answer, Answers
    <3>4. completed' \in Seq(Answers)
      BY <3>1, <3>2, <3>3, AppendFacts
    <3>5. QED
      BY <1>2, <3>2, <3>4 DEF ClientTypes, Answers
  <2>5. QED
    BY <1>2, <2>3, <2>4, Parts, TypesFrame DEF TypeOK
<1>8. QueueInv'
  <2>1. \A j \in 1 .. Len(running') : running'[j] < nextId
    BY <1>5, Parts DEF QueueInv
  <2>2. \A j \in 1 .. Len(running') : \A k \in 1 .. Len(pending) : running'[j] < pending[k]
    BY <1>5, Parts DEF QueueInv
  <2>3. Sorted(pending) /\ \A k \in 1 .. Len(pending) : pending[k] < nextId
    BY Parts DEF QueueInv
  <2>4. QED
    BY <1>2, <1>5, <2>1, <2>2, <2>3 DEF QueueInv, Sorted, requestVars
<1>9. AcceptedInv'
  BY <1>2, Parts DEF AcceptedInv, requestVars
<1>10. \A q \in Reqs : q # r => outputs'[q] = outputs[q] /\ blocks'[q] = blocks[q]
  BY <1>1, <1>3 DEF r
<1>11. WaitingInv'
  <2>1. \A q \in Reqs : status[q] = "PENDING" => q # r
    BY <1>4
  <2>2. QED
    BY <1>2, <1>10, <2>1, Parts DEF WaitingInv, requestVars
<1>12. RunningInv'
  <2>1. \A q \in Reqs : BlocksNeeded(q)' = BlocksNeeded(q)
    BY <1>2 DEF BlocksNeeded, requestVars
  <2>2. ASSUME NEW j \in 1 .. Len(running')
        PROVE  /\ Len(blocks'[running'[j]]) = BlocksNeeded(running'[j])
               /\ status'[running'[j]] # "PENDING" /\ running'[j] \in Reqs
    <3>1. PICK k \in 1 .. Len(running) : k # i /\ running'[j] = running[k]
      BY <1>5
    <3>2. QED
      BY <1>2, <1>6, <1>10, <3>1, Parts DEF RunningInv
  <2>3. \A q \in Reqs : q < nextId /\ status'[q] # "COMPLETED" => Len(outputs'[q]) < maxOutput[q]
    BY <1>2, <1>4, <1>10, Parts DEF RunningInv
  <2>4. QED
    BY <1>2, <2>1, <2>2, <2>3 DEF RunningInv, requestVars
<1>13. PlanInv' /\ CursorInv'
  BY <1>2, Parts DEF PlanInv, CursorInv
<1>14. QED
  BY <1>7, <1>8, <1>9, <1>11, <1>12, <1>13 DEF TypeInv

\* The step ends when no completed request is left in running.
LEMMA EndStepTypeInv ==
  ASSUME TypeInv, EndStep
  PROVE  TypeInv'
<1>1. /\ pc = "retire" /\ pc' = "idle" /\ isMixed' = FALSE /\ decoded' = decoded /\ ClearPlan
      /\ \A i \in 1 .. Len(running) : ~IsRetired(i)
      /\ UNCHANGED <<requestVars, poolVars, clientVars, deviceVars, kv>>
  BY DEF EndStep
<1>2. PlanTypes' /\ PlanInv' /\ CursorInv'
  <2>1. decoded' = <<>> /\ isMixed' \in BOOLEAN
    BY <1>1, Parts DEF CursorInv
  <2>2. QED
    BY <1>1, <2>1, EmptyPlan
<1>3. QueueInv'
  BY <1>1, Parts DEF QueueInv, Sorted, requestVars, poolVars
<1>4. AcceptedInv' /\ WaitingInv'
  BY <1>1, Parts DEF AcceptedInv, WaitingInv, requestVars, poolVars
<1>5. RunningInv'
  BY <1>1, Parts DEF RunningInv, BlocksNeeded, IsRetired, requestVars, poolVars
<1>6. QED
  BY <1>1, <1>2, <1>3, <1>4, <1>5, Parts, TypesFrame DEF TypeInv, TypeOK

-----------------------------------------------------------------------------
(* The theorem *)

\* Every step preserves the invariant: one case per action.
LEMMA NextTypeInv == TypeInv /\ [Next]_vars => TypeInv'
<1> SUFFICES ASSUME TypeInv, [Next]_vars PROVE TypeInv'
  OBVIOUS
<1>1. CASE Client
  BY <1>1, SubmitTypeInv, PopTypeInv DEF Client
<1>2. CASE Schedule
  BY <1>2, BeginStepTypeInv, ScanRunningTypeInv, ScanDoneTypeInv, AdmitTypeInv DEF Schedule
<1>3. CASE Launch
  BY <1>3, ReturnEmptyTypeInv, ReplayTypeInv, LaunchDecodeTypeInv, LaunchPrefillTypeInv,
     LaunchMixedTypeInv DEF Launch
<1>4. CASE DecodeReturns \/ PrefillReturns \/ MixedReturns
  BY <1>4, DecodeReturnsTypeInv, PrefillReturnsTypeInv, MixedReturnsTypeInv
<1>5. CASE Compact
  BY <1>5, RetireTypeInv, EndStepTypeInv DEF Compact
<1>6. CASE Failure
  BY <1>6, AdvanceThrowsTypeInv, CallbackFailsTypeInv DEF Failure
<1>7. CASE UNCHANGED vars
  <2>1. UNCHANGED <<requestVars, poolVars, clientVars, pc, planVars, isMixed, decoded, deviceVars, kv>>
    BY <1>7 DEF vars
  <2>2. TypeOK'
    BY <2>1, Parts, TypesFrame DEF TypeOK
  <2>3. QueueInv' /\ AcceptedInv' /\ WaitingInv' /\ RunningInv'
    BY <2>1, Parts DEF QueueInv, Sorted, AcceptedInv, WaitingInv, RunningInv, BlocksNeeded,
                       requestVars, poolVars
  <2>4. PlanInv' /\ CursorInv'
    BY <2>1, Parts DEF PlanInv, InRunning, CursorInv, requestVars, poolVars, planVars, deviceVars
  <2>5. QED
    BY <2>2, <2>3, <2>4 DEF TypeInv
<1>8. QED
  BY <1>1, <1>2, <1>3, <1>4, <1>5, <1>6, <1>7 DEF Next

\* Whatever the batch size, the budgets, the context and page sizes, the number
\* and shapes of requests, the model and its failures: every state of the loop has
\* the shape the code declares.  In particular no row addresses a slot outside the
\* K/V pool, no budget goes below zero, and no failed or empty step leaves a value
\* of the wrong kind behind.
THEOREM TypeCorrect == Spec => []TypeOK
<1>1. Init => TypeInv
  BY InitTypeInv
<1>2. TypeInv /\ [Next]_vars => TypeInv'
  BY NextTypeInv
<1>3. TypeInv => TypeOK
  BY DEF TypeInv
<1>4. QED
  BY <1>1, <1>2, <1>3, PTL DEF Spec

-----------------------------------------------------------------------------
(***************************************************************************)
(* Pages: they are partitioned between the free list and the running       *)
(* requests, and there are enough of them.                                 *)
(***************************************************************************)

(* Sequences without repetition *)

\* The elements of a sequence, by index.
LEMMA ToSetFacts ==
  ASSUME NEW S, NEW s \in Seq(S)
  PROVE  /\ DOMAIN s = 1 .. Len(s)
         /\ ToSet(s) \subseteq S
         /\ \A x : x \in ToSet(s) <=> \E i \in 1 .. Len(s) : s[i] = x
BY DEF ToSet

\* Taking n elements off the back of the free list splits it in two.
LEMMA PopSplits ==
  ASSUME free \in Seq(Blocks), IsInjective(free), NEW n \in 0 .. Len(free)
  PROVE  /\ IsInjective(PopBlocks(n)) /\ IsInjective(Unpopped(n))
         /\ \A b : b \in ToSet(free) <=> b \in ToSet(PopBlocks(n)) \/ b \in ToSet(Unpopped(n))
         /\ \A b : ~(b \in ToSet(PopBlocks(n)) /\ b \in ToSet(Unpopped(n)))
<1> DEFINE popped == PopBlocks(n)
           kept   == Unpopped(n)
           N      == Len(free)
<1>1. N \in Nat /\ n \in Nat /\ n <= N /\ DOMAIN free = 1 .. N
  OBVIOUS
<1>2. /\ popped \in Seq(Blocks) /\ Len(popped) = n /\ DOMAIN popped = 1 .. n
      /\ \A i \in 1 .. n : popped[i] = free[N - i + 1] /\ N - i + 1 \in 1 .. N
  BY <1>1, PopFacts DEF PopBlocks
<1>3. /\ kept \in Seq(Blocks) /\ Len(kept) = N - n /\ DOMAIN kept = 1 .. (N - n)
      /\ \A i \in 1 .. (N - n) : kept[i] = free[i] /\ i \in 1 .. N
  <2>1. kept = SubSeq(free, 1, N - n) /\ N - n \in 0 .. N
    BY <1>1 DEF Unpopped
  <2> HIDE DEF kept
  <2>2. /\ kept \in Seq(Blocks) /\ Len(kept) = N - n
        /\ \A i \in 1 .. (N - n) : kept[i] = free[i]
    BY <2>1
  <2>3. QED
    BY <1>1, <2>2
<1>4. \A i, j \in 1 .. N : free[i] = free[j] => i = j
  BY <1>1 DEF IsInjective
<1> HIDE DEF popped, kept, N
<1>5. IsInjective(popped)
  <2>1. ASSUME NEW i \in 1 .. n, NEW j \in 1 .. n, popped[i] = popped[j]
        PROVE  i = j
    <3>1. N - i + 1 = N - j + 1
      BY <1>2, <1>4, <2>1
    <3>2. QED
      BY <1>1, <3>1
  <2>2. QED
    BY <1>2, <2>1 DEF IsInjective
<1>6. IsInjective(kept)
  BY <1>3, <1>4 DEF IsInjective
<1>7. \A b : b \in ToSet(popped) <=> \E i \in 1 .. n : popped[i] = b
  BY <1>2, ToSetFacts
<1>8. \A b : b \in ToSet(kept) <=> \E i \in 1 .. (N - n) : kept[i] = b
  BY <1>3, ToSetFacts
<1>9. \A b : b \in ToSet(free) <=> \E i \in 1 .. N : free[i] = b
  BY ToSetFacts DEF N
<1>10. \A b : b \in ToSet(free) <=> b \in ToSet(popped) \/ b \in ToSet(kept)
  <2>1. ASSUME NEW i \in 1 .. N
        PROVE  free[i] \in ToSet(popped) \/ free[i] \in ToSet(kept)
    <3>1. CASE i <= N - n
      <4>1. i \in 1 .. (N - n)
        BY <1>1, <3>1
      <4>2. QED
        BY <1>3, <1>8, <4>1
    <3>2. CASE ~(i <= N - n)
      <4>1. N - i + 1 \in 1 .. n /\ N - (N - i + 1) + 1 = i
        BY <1>1, <3>2
      <4>2. QED
        BY <1>2, <1>7, <4>1
    <3>3. QED
      BY <3>1, <3>2
  <2>2. \A i \in 1 .. n : popped[i] \in ToSet(free)
    BY <1>2, <1>9
  <2>3. \A i \in 1 .. (N - n) : kept[i] \in ToSet(free)
    BY <1>3, <1>9
  <2>4. QED
    BY <1>7, <1>8, <1>9, <2>1, <2>2, <2>3
<1>11. \A b : ~(b \in ToSet(popped) /\ b \in ToSet(kept))
  <2>1. ASSUME NEW i \in 1 .. n, NEW j \in 1 .. (N - n), popped[i] = kept[j]
        PROVE  FALSE
    <3>1. N - i + 1 = j
      BY <1>2, <1>3, <1>4, <2>1
    <3>2. QED
      BY <1>1, <3>1
  <2>2. QED
    BY <1>7, <1>8, <2>1
<1>12. QED
  BY <1>5, <1>6, <1>10, <1>11 DEF popped, kept

\* Putting pages back that are not on the list.
LEMMA PushJoins ==
  ASSUME NEW s \in Seq(Blocks), NEW t \in Seq(Blocks), IsInjective(s), IsInjective(t),
         \A b : ~(b \in ToSet(s) /\ b \in ToSet(t))
  PROVE  /\ IsInjective(s \o t)
         /\ \A b : b \in ToSet(s \o t) <=> b \in ToSet(s) \/ b \in ToSet(t)
<1> DEFINE u == s \o t
           m == Len(s)
           n == Len(t)
<1>1. /\ m \in Nat /\ n \in Nat /\ u \in Seq(Blocks) /\ Len(u) = m + n
      /\ DOMAIN s = 1 .. m /\ DOMAIN t = 1 .. n /\ DOMAIN u = 1 .. (m + n)
  OBVIOUS
<1>2. \A i \in 1 .. (m + n) : u[i] = IF i <= m THEN s[i] ELSE t[i - m]
  OBVIOUS
<1>3. /\ \A b : b \in ToSet(s) <=> \E i \in 1 .. m : s[i] = b
      /\ \A b : b \in ToSet(t) <=> \E i \in 1 .. n : t[i] = b
  BY ToSetFacts
<1>4. \A b : b \in ToSet(u) <=> \E i \in 1 .. (m + n) : u[i] = b
  BY <1>1, ToSetFacts
<1> HIDE DEF u, m, n
<1>5. \A i \in 1 .. (m + n) : i \in 1 .. m \/ (~(i <= m) /\ i - m \in 1 .. n)
  BY <1>1
<1>6. IsInjective(u)
  <2> DEFINE Fore(i) == i \in 1 .. m /\ u[i] = s[i] /\ s[i] \in ToSet(s)
             Hind(i)  == i \in Int /\ i - m \in 1 .. n /\ u[i] = t[i - m] /\ t[i - m] \in ToSet(t)
  <2>a. \A i \in 1 .. (m + n) : Fore(i) \/ Hind(i)
    <3>1. ASSUME NEW i \in 1 .. (m + n), i \in 1 .. m
          PROVE  Fore(i)
      BY <1>1, <1>2, <1>3, <3>1
    <3>2. ASSUME NEW i \in 1 .. (m + n), ~(i <= m), i - m \in 1 .. n
          PROVE  Hind(i)
      BY <1>1, <1>2, <1>3, <3>2
    <3>3. QED
      BY <1>5, <3>1, <3>2
  <2>b. /\ \A i, j \in 1 .. m : s[i] = s[j] => i = j
        /\ \A i, j \in 1 .. n : t[i] = t[j] => i = j
    BY <1>1 DEF IsInjective
  <2>1. ASSUME NEW i \in 1 .. (m + n), NEW j \in 1 .. (m + n), u[i] = u[j]
        PROVE  i = j
    <3>1. CASE Fore(i) /\ Fore(j)
      BY <2>1, <2>b, <3>1
    <3>2. CASE Hind(i) /\ Hind(j)
      <4>1. i - m = j - m
        BY <2>1, <2>b, <3>2
      <4>2. QED
        BY <1>1, <4>1
    <3>3. CASE (Fore(i) /\ Hind(j)) \/ (Hind(i) /\ Fore(j))
      BY <2>1, <3>3
    <3>4. QED
      BY <2>a, <3>1, <3>2, <3>3
  <2>2. QED
    BY <1>1, <2>1 DEF IsInjective
<1>7. \A b : b \in ToSet(u) <=> b \in ToSet(s) \/ b \in ToSet(t)
  <2>1. \A i \in 1 .. m : i \in 1 .. (m + n) /\ u[i] = s[i]
    BY <1>1, <1>2
  <2>2. \A i \in 1 .. n : i + m \in 1 .. (m + n) /\ u[i + m] = t[i]
    <3>1. \A i \in 1 .. n : i + m \in 1 .. (m + n) /\ ~(i + m <= m) /\ i + m - m = i
      BY <1>1
    <3>2. ASSUME NEW i \in 1 .. n
          PROVE  u[i + m] = t[i]
      <4>1. i + m \in 1 .. (m + n) /\ ~(i + m <= m) /\ (i + m) - m = i
        BY <1>1, <3>1
      <4>2. u[i + m] = t[(i + m) - m]
        BY <1>2, <4>1
      <4>3. QED
        BY <4>1, <4>2
    <3>3. QED
      BY <3>1, <3>2
  <2>3. \A i \in 1 .. (m + n) : (\E k \in 1 .. m : u[i] = s[k]) \/ (\E k \in 1 .. n : u[i] = t[k])
    BY <1>2, <1>5
  <2>4. QED
    BY <1>3, <1>4, <2>1, <2>2, <2>3
<1>8. QED
  BY <1>6, <1>7 DEF u

\* Taking one element out of a queue in order leaves the others.
LEMMA WithoutMembers ==
  ASSUME NEW s \in Seq(Reqs), NEW i \in 1 .. Len(s), Sorted(s)
  PROVE  \A q : (\E j \in 1 .. Len(Without(s, i)) : Without(s, i)[j] = q)
                <=> (\E k \in 1 .. Len(s) : s[k] = q) /\ q # s[i]
<1> DEFINE t     == Without(s, i)
           front == SubSeq(s, 1, i - 1)
           back  == SubSeq(s, i + 1, Len(s))
<1>1. \A j \in 1 .. Len(t) : \E k \in 1 .. Len(s) : k # i /\ t[j] = s[k]
  BY WithoutFacts
<1>2. \A k \in 1 .. Len(s) : k # i => s[k] # s[i]
  <2>1. ASSUME NEW k \in 1 .. Len(s), k # i
        PROVE  s[k] # s[i]
    <3>1. s[k] \in Int /\ s[i] \in Int
      BY ConfigAssumption DEF Reqs
    <3>2. k < i \/ i < k
      BY <2>1
    <3>3. s[k] < s[i] \/ s[i] < s[k]
      BY <3>2 DEF Sorted
    <3>4. QED
      BY <3>1, <3>3
  <2>2. QED
    BY <2>1
<1>3. /\ front \in Seq(Reqs) /\ Len(front) = i - 1
      /\ \A j \in 1 .. (i - 1) : front[j] = s[j]
  OBVIOUS
<1>4. /\ back \in Seq(Reqs) /\ Len(back) = Len(s) - i
      /\ \A j \in 1 .. (Len(s) - i) : back[j] = s[i + j]
  OBVIOUS
<1>5. t = front \o back
  BY DEF Without
<1> HIDE DEF t, front, back
<1>6. ASSUME NEW k \in 1 .. Len(s), k # i
      PROVE  \E j \in 1 .. Len(t) : t[j] = s[k]
  <2>1. CASE k < i
    <3>1. k \in 1 .. Len(front) /\ k \in 1 .. (i - 1) /\ k \in 1 .. Len(t)
      BY <1>3, <1>4, <1>5, <2>1
    <3>2. t[k] = front[k]
      BY <1>3, <1>4, <1>5, <3>1
    <3>3. QED
      BY <1>3, <3>1, <3>2
  <2>2. CASE i < k
    <3>1. k - i \in 1 .. Len(back) /\ k - 1 \in 1 .. Len(t) /\ i + (k - i) = k
      BY <1>3, <1>4, <1>5, <2>2
    <3>2. t[k - 1] = back[k - i]
      BY <1>3, <1>4, <1>5, <2>2, <3>1
    <3>3. back[k - i] = s[i + (k - i)]
      BY <1>4, <3>1
    <3>4. QED
      BY <3>1, <3>2, <3>3
  <2>3. QED
    BY <1>6, <2>1, <2>2
<1>7. QED
  BY <1>1, <1>2, <1>6 DEF t

-----------------------------------------------------------------------------
(* BlockPartition *)

\* The partition, page by page.
PagesInv ==
  /\ IsInjective(free)
  /\ \A r \in Reqs : IsInjective(blocks[r])
  /\ \A r \in Reqs : Len(blocks[r]) = IF InRunning(r) THEN BlocksNeeded(r) ELSE 0
  /\ \A r \in Reqs : \A b : ~(b \in ToSet(blocks[r]) /\ b \in ToSet(free))
  /\ \A r, q \in Reqs : r # q => \A b : ~(b \in ToSet(blocks[r]) /\ b \in ToSet(blocks[q]))
  /\ \A b \in Blocks : b \in ToSet(free) \/ \E r \in Reqs : b \in ToSet(blocks[r])

\* The invariant is the partition, page by page instead of by sets.
LEMMA PartitionFacts ==
  ASSUME PoolTypes
  PROVE  PagesInv => BlockPartition
<1> DEFINE Held == UNION {ToSet(blocks[r]) : r \in Reqs}
<1>1. running \in Seq(Reqs) /\ free \in Seq(Blocks) /\ blocks \in [Reqs -> Seq(Blocks)]
  BY DEF PoolTypes
<1>2. \A r : r \in ToSet(running) <=> InRunning(r)
  BY <1>1, ToSetFacts DEF InRunning
<1>3. \A b : b \in Held <=> \E r \in Reqs : b \in ToSet(blocks[r])
  OBVIOUS
<1>4. ToSet(free) \subseteq Blocks /\ \A r \in Reqs : ToSet(blocks[r]) \subseteq Blocks
  BY <1>1, ToSetFacts
<1> HIDE DEF Held
<1>5. ASSUME \A b \in Blocks : b \in ToSet(free) \/ \E r \in Reqs : b \in ToSet(blocks[r])
      PROVE  ToSet(free) \cup Held = Blocks
  BY <1>3, <1>4, <1>5
<1>6. QED
  BY <1>2, <1>5, Zenon DEF BlockPartition, PagesInv, Held

\* Initially every page is on the free list once.
LEMMA InitPages == Init => PagesInv
<1> SUFFICES ASSUME Init PROVE PagesInv
  OBVIOUS
<1>1. /\ free = [i \in 1 .. TotalBlocks |-> i - 1] /\ blocks = [r \in Reqs |-> <<>>]
      /\ running = <<>>
  BY DEF Init
<1>2. free \in Seq(Int) /\ Len(free) = TotalBlocks
  BY <1>1, TotalBlocksPositive
<1>3. IsInjective(free)
  BY <1>1, TotalBlocksPositive DEF IsInjective
<1>4. \A r \in Reqs : IsInjective(blocks[r]) /\ Len(blocks[r]) = 0 /\ ToSet(blocks[r]) = {}
  BY <1>1 DEF IsInjective, ToSet
<1>5. \A r : ~InRunning(r)
  BY <1>1 DEF InRunning
<1>6. \A b \in Blocks : b \in ToSet(free)
  <2>1. ASSUME NEW b \in Blocks
        PROVE  b + 1 \in 1 .. Len(free) /\ free[b + 1] = b
    BY <1>1, <1>2, TotalBlocksPositive DEF Blocks
  <2>2. QED
    BY <1>2, <2>1, ToSetFacts
<1>7. QED
  BY <1>3, <1>4, <1>5, <1>6 DEF PagesInv

\* Only admission and retirement move pages.
LEMMA PagesFrame ==
  ASSUME PagesInv, UNCHANGED <<running, blocks, free>>,
         \A r \in Reqs : InRunning(r) => BlocksNeeded(r)' = BlocksNeeded(r)
  PROVE  PagesInv'
BY DEF PagesInv, InRunning, ToSet

\* Admission moves pages off the back of the free list to one request.
LEMMA AdmitPages ==
  ASSUME TypeInv, PagesInv, AdmitRequest
  PROVE  PagesInv'
<1> DEFINE r    == Head(pending)
           need == BlocksNeeded(r)
<1>1. UNCHANGED requestVars /\ pending # <<>>
  BY DEF AdmitRequest, CanAdmit
<1>2. /\ pending \in Seq(Reqs) /\ running \in Seq(Reqs) /\ free \in Seq(Blocks)
      /\ blocks \in [Reqs -> Seq(Blocks)]
  BY Parts DEF PoolTypes
<1>3. IsInjective(free) /\ Len(free) \in Nat
  BY <1>2 DEF PagesInv
<1>4. r \in Reqs /\ r = pending[1] /\ 1 \in 1 .. Len(pending)
  BY <1>1, <1>2, HeadTailFacts, Parts DEF QueueInv
<1>5. ~InRunning(r)
  <2>1. \A i \in 1 .. Len(running) : running[i] \in Int /\ running[i] < r
    BY <1>2, <1>4, Parts, ConfigAssumption DEF QueueInv, Reqs
  <2>2. QED
    BY <1>4, <2>1, ConfigAssumption DEF InRunning, Reqs
<1>6. need \in Nat
  BY <1>4, BlocksNeededNat, Parts
<1>7. \A q \in Reqs : BlocksNeeded(q)' = BlocksNeeded(q)
  BY <1>1 DEF BlocksNeeded, requestVars
<1>8. ToSet(blocks[r]) = {}
  BY <1>2, <1>4, <1>5, ToSetFacts DEF PagesInv
<1> HIDE DEF r
<1>9. CASE /\ need <= Len(free)
           /\ blocks' = [blocks EXCEPT ![r] = PopBlocks(need)] /\ free' = Unpopped(need)
           /\ running' = Append(running, r)
  <2>1. need \in 0 .. Len(free)
    BY <1>3, <1>6, <1>9
  <2>2. need = BlocksNeeded(r)
    OBVIOUS
  <2> HIDE DEF need
  <2>3. /\ IsInjective(PopBlocks(need)) /\ IsInjective(free')
        /\ \A b : b \in ToSet(free) <=> b \in ToSet(PopBlocks(need)) \/ b \in ToSet(free')
        /\ \A b : ~(b \in ToSet(PopBlocks(need)) /\ b \in ToSet(free'))
        /\ Len(PopBlocks(need)) = need
    BY <1>2, <1>3, <1>9, <2>1, PopSplits, PopFacts
  <2>4. /\ blocks'[r] = PopBlocks(need)
        /\ \A q \in Reqs : q # r => blocks'[q] = blocks[q]
    BY <1>2, <1>4, <1>9
  <2>5. \A q \in Reqs : (\E i \in 1 .. Len(running') : running'[i] = q) <=> (InRunning(q) \/ q = r)
    <3>1. /\ Len(running') = Len(running) + 1 /\ Len(running) \in Nat
          /\ \A i \in 1 .. Len(running) : running'[i] = running[i]
          /\ running'[Len(running) + 1] = r
          /\ \A i \in 1 .. Len(running') : i \in 1 .. Len(running) \/ i = Len(running) + 1
      BY <1>2, <1>4, <1>9, AppendFacts
    <3>2. Len(running) + 1 \in 1 .. Len(running') /\ \A i \in 1 .. Len(running) : i \in 1 .. Len(running')
      BY <3>1
    <3>3. QED
      BY <3>1, <3>2 DEF InRunning
  <2>6. \A q \in Reqs : Len(blocks'[q]) =
          IF \E i \in 1 .. Len(running') : running'[i] = q THEN BlocksNeeded(q) ELSE 0
    BY <1>5, <2>2, <2>3, <2>4, <2>5 DEF PagesInv
  <2>7. \A q \in Reqs : IsInjective(blocks'[q])
    BY <2>3, <2>4 DEF PagesInv
  <2>8. \A q \in Reqs : \A b : ~(b \in ToSet(blocks'[q]) /\ b \in ToSet(free'))
    BY <2>3, <2>4 DEF PagesInv
  <2>9. \A p, q \in Reqs : p # q => \A b : ~(b \in ToSet(blocks'[p]) /\ b \in ToSet(blocks'[q]))
    <3>1. \A q \in Reqs : q # r => \A b : ~(b \in ToSet(PopBlocks(need)) /\ b \in ToSet(blocks[q]))
      BY <2>3 DEF PagesInv
    <3>2. \A p, q \in Reqs : p # q => \A b : ~(b \in ToSet(blocks[p]) /\ b \in ToSet(blocks[q]))
      BY DEF PagesInv
    <3>3. QED
      BY <2>4, <3>1, <3>2
  <2>10. \A b \in Blocks : b \in ToSet(free') \/ \E q \in Reqs : b \in ToSet(blocks'[q])
    BY <1>4, <1>8, <2>3, <2>4 DEF PagesInv
  <2>11. QED
    BY <1>7, <2>3, <2>6, <2>7, <2>8, <2>9, <2>10 DEF PagesInv, InRunning
<1>10. CASE free' = PopBlocks(Len(free)) /\ UNCHANGED <<blocks, running>>
  <2>1. Len(free) \in 0 .. Len(free)
    BY <1>3
  <2>2. /\ IsInjective(free')
        /\ \A b : b \in ToSet(free) <=> b \in ToSet(free') \/ b \in ToSet(Unpopped(Len(free)))
    BY <1>2, <1>3, <1>10, <2>1, PopSplits
  <2>3. ToSet(Unpopped(Len(free))) = {}
    <3>1. Unpopped(Len(free)) = <<>>
      BY <1>2, <1>3 DEF Unpopped
    <3>2. QED
      BY <3>1 DEF ToSet
  <2>4. \A b : b \in ToSet(free) <=> b \in ToSet(free')
    BY <2>2, <2>3
  <2>5. QED
    BY <1>7, <1>10, <2>2, <2>4 DEF PagesInv, InRunning
<1>11. QED
  BY <1>9, <1>10 DEF AdmitRequest, r

\* Retirement gives all the pages of one request back.
LEMMA RetirePages ==
  ASSUME TypeInv, PagesInv, RetireRequest
  PROVE  PagesInv'
<1>1. PICK i \in 1 .. Len(running) :
        /\ free' = Freed(running[i])
        /\ blocks' = [blocks EXCEPT ![running[i]] = <<>>]
        /\ running' = Without(running, i)
  BY DEF RetireRequest
<1> DEFINE r == running[i]
<1>2. UNCHANGED requestVars
  BY DEF RetireRequest
<1>3. /\ running \in Seq(Reqs) /\ free \in Seq(Blocks) /\ blocks \in [Reqs -> Seq(Blocks)]
      /\ Sorted(running)
  BY Parts DEF PoolTypes, QueueInv
<1>4. r \in Reqs /\ blocks[r] \in Seq(Blocks)
  BY <1>3
<1>5. \A q \in Reqs : BlocksNeeded(q)' = BlocksNeeded(q)
  BY <1>2 DEF BlocksNeeded, requestVars
<1>6. \A q \in Reqs : (\E j \in 1 .. Len(running') : running'[j] = q) <=> (InRunning(q) /\ q # r)
  <2>1. \A q : (\E j \in 1 .. Len(Without(running, i)) : Without(running, i)[j] = q)
                 <=> (\E k \in 1 .. Len(running) : running[k] = q) /\ q # running[i]
    BY <1>3, WithoutMembers
  <2>2. QED
    BY <1>1, <2>1 DEF InRunning
<1>7. free' = free \o blocks[r]
  BY <1>1 DEF Freed
<1>8. blocks'[r] = <<>> /\ \A q \in Reqs : q # r => blocks'[q] = blocks[q]
  BY <1>1, <1>3, <1>4
<1> HIDE DEF r
<1>9. /\ IsInjective(free')
      /\ \A b : b \in ToSet(free') <=> b \in ToSet(free) \/ b \in ToSet(blocks[r])
  BY <1>3, <1>4, <1>7, PushJoins DEF PagesInv
<1>10. ToSet(blocks'[r]) = {} /\ IsInjective(blocks'[r]) /\ Len(blocks'[r]) = 0
  BY <1>8 DEF ToSet, IsInjective
<1>11. \A q \in Reqs : Len(blocks'[q]) =
         IF \E j \in 1 .. Len(running') : running'[j] = q THEN BlocksNeeded(q) ELSE 0
  BY <1>6, <1>8, <1>10 DEF PagesInv
<1>12. \A q \in Reqs : IsInjective(blocks'[q])
  BY <1>8, <1>10 DEF PagesInv
<1>13. \A q \in Reqs : \A b : ~(b \in ToSet(blocks'[q]) /\ b \in ToSet(free'))
  BY <1>4, <1>8, <1>9, <1>10 DEF PagesInv
<1>14. \A p, q \in Reqs : p # q => \A b : ~(b \in ToSet(blocks'[p]) /\ b \in ToSet(blocks'[q]))
  <2>1. \A p, q \in Reqs : p # q => \A b : ~(b \in ToSet(blocks[p]) /\ b \in ToSet(blocks[q]))
    BY DEF PagesInv
  <2>2. QED
    BY <1>8, <1>10, <2>1
<1>15. \A b \in Blocks : b \in ToSet(free') \/ \E q \in Reqs : b \in ToSet(blocks'[q])
  BY <1>8, <1>9 DEF PagesInv
<1>16. QED
  BY <1>5, <1>9, <1>11, <1>12, <1>13, <1>14, <1>15 DEF PagesInv, InRunning

\* Every step preserves the partition.
LEMMA NextPages == TypeInv /\ PagesInv /\ [Next]_vars => PagesInv'
<1> SUFFICES ASSUME TypeInv, PagesInv, [Next]_vars PROVE PagesInv'
  OBVIOUS
<1>1. CASE \E shape \in Shapes : SubmitRequest(shape)
  <2>1. PICK shape \in Shapes : SubmitRequest(shape)
    BY <1>1
  <2>2. /\ promptLen' = [promptLen EXCEPT ![nextId] = shape[1]]
        /\ maxOutput' = [maxOutput EXCEPT ![nextId] = shape[2]]
        /\ UNCHANGED <<running, blocks, free>>
    BY <2>1 DEF SubmitRequest
  <2>3. \A r \in Reqs : InRunning(r) => r # nextId
    BY Parts, ConfigAssumption DEF InRunning, QueueInv, RequestTypes, Reqs
  <2>4. \A r \in Reqs : InRunning(r) => BlocksNeeded(r)' = BlocksNeeded(r)
    BY <2>2, <2>3, Parts DEF BlocksNeeded, RequestTypes
  <2>5. QED
    BY <2>2, <2>4, PagesFrame
<1>2. CASE AdmitRequest
  BY <1>2, AdmitPages
<1>3. CASE RetireRequest
  BY <1>3, RetirePages
<1>4. CASE UNCHANGED <<running, blocks, free, requestVars>>
  <2>1. \A r \in Reqs : BlocksNeeded(r)' = BlocksNeeded(r)
    BY <1>4 DEF BlocksNeeded, requestVars
  <2>2. QED
    BY <1>4, <2>1, PagesFrame
<1>5. CASE PopCompleted \/ BeginStep \/ ScanRunning \/ ScanDone
  BY <1>4, <1>5 DEF PopCompleted, BeginStep, ScanRunning, ScanDone, poolVars
<1>6. CASE Launch
  BY <1>4, <1>6 DEF Launch, ReturnEmpty, ReplayDecode, LaunchDecode, LaunchPrefill, LaunchMixed, poolVars
<1>7. CASE DecodeReturns
  BY <1>4, <1>7 DEF DecodeReturns, FinishStep, poolVars
<1>8. CASE PrefillReturns \/ MixedReturns
  BY <1>4, <1>8 DEF PrefillReturns, MixedReturns, FinishStep
<1>9. CASE EndStep \/ Failure
  BY <1>4, <1>9 DEF EndStep, Failure, AdvanceThrows, CallbackFails, poolVars
<1>10. CASE UNCHANGED vars
  BY <1>4, <1>10 DEF vars, poolVars
<1>11. QED
  BY <1>1, <1>2, <1>3, <1>5, <1>6, <1>7, <1>8, <1>9, <1>10 DEF Next, Client, Schedule, Compact

\* Every page is on the free list once or belongs to one running request, which
\* holds what its prompt and its output limit need: schedule and update_requests
\* neither leak a page nor hand one out twice, whatever the batch, the page size
\* and the order of arrivals, ends and failures.
THEOREM PagesPartition == Spec => []BlockPartition
<1>1. Init => TypeInv /\ PagesInv
  BY InitTypeInv, InitPages
<1>2. TypeInv /\ PagesInv /\ [Next]_vars => (TypeInv /\ PagesInv)'
  BY NextTypeInv, NextPages
<1>3. TypeInv /\ PagesInv => BlockPartition
  BY Parts, PartitionFacts
<1>4. QED
  BY <1>1, <1>2, <1>3, PTL DEF Spec

-----------------------------------------------------------------------------
(* AdmissionAlwaysFunded *)

\* A request that was accepted needs no more pages than a row has.
LEMMA NeedsAtMostARow ==
  ASSUME TypeInv, NEW r \in Reqs, r < nextId
  PROVE  BlocksNeeded(r) \in Nat /\ BlocksNeeded(r) <= MaxBlocks /\ MaxBlocks \in Nat
<1>1. promptLen[r] + maxOutput[r] \in Nat /\ promptLen[r] + maxOutput[r] <= MaxContextLength
  BY Parts DEF AcceptedInv, RequestTypes
<1>2. MaxContextLength \in Nat /\ BlockSize \in Nat \ {0}
  BY ConfigAssumption
<1>3. QED
  BY <1>1, <1>2, CeilDivMonotone, CeilDivNat DEF BlocksNeeded, MaxBlocks

\* The numbers from 1 to n are n.
LEMMA CountTo ==
  ASSUME NEW n \in Nat
  PROVE  IsFiniteSet(1 .. n) /\ Cardinality(1 .. n) = n
<1>1. 1 \in Int /\ n \in Int
  OBVIOUS
<1>2. IsFiniteSet(1 .. n) /\ Cardinality(1 .. n) = IF 1 > n THEN 0 ELSE n - 1 + 1
  BY <1>1, FS_Interval
<1>3. QED
  BY <1>2

\* A sequence has at most as many elements as it has places.
LEMMA ToSetBound ==
  ASSUME NEW S, NEW s \in Seq(S)
  PROVE  IsFiniteSet(ToSet(s)) /\ Cardinality(ToSet(s)) <= Len(s)
<1> DEFINE f == [x \in ToSet(s) |-> CHOOSE i \in 1 .. Len(s) : s[i] = x]
<1>1. \A x \in ToSet(s) : f[x] \in 1 .. Len(s) /\ s[f[x]] = x
  BY ToSetFacts
<1>2. f \in [ToSet(s) -> 1 .. Len(s)] /\ DOMAIN f = ToSet(s)
  BY <1>1
<1> HIDE DEF f
<1>3. f \in Injection(ToSet(s), 1 .. Len(s))
  BY <1>1, <1>2 DEF Injection, IsInjective
<1>4. IsFiniteSet(1 .. Len(s)) /\ Cardinality(1 .. Len(s)) = Len(s)
  BY CountTo
<1>5. QED
  BY <1>3, <1>4, FS_Injection

\* The running requests hold at most MaxBlocks pages each.
LEMMA HeldBound ==
  ASSUME TypeInv, PagesInv
  PROVE  LET held == UNION {ToSet(blocks[r]) : r \in Reqs}
         IN  IsFiniteSet(held) /\ Cardinality(held) <= Len(running) * MaxBlocks
<1> DEFINE held  == UNION {ToSet(blocks[r]) : r \in Reqs}
           rows  == 1 .. Len(running)
           cells == rows \X (1 .. MaxBlocks)
           f     == [b \in held |-> CHOOSE c \in cells : blocks[running[c[1]]][c[2]] = b]
<1>1. running \in Seq(Reqs) /\ blocks \in [Reqs -> Seq(Blocks)] /\ Len(running) \in Nat
  BY Parts DEF PoolTypes
<1>2. MaxBlocks \in Nat
  BY ConfigAssumption, CeilDivNat DEF MaxBlocks
<1>3. ASSUME NEW b \in held
      PROVE  \E c \in cells : blocks[running[c[1]]][c[2]] = b
  <2>1. PICK r \in Reqs : b \in ToSet(blocks[r])
    OBVIOUS
  <2>2. blocks[r] \in Seq(Blocks)
    BY <1>1
  <2>3. PICK j \in 1 .. Len(blocks[r]) : blocks[r][j] = b
    BY <2>1, <2>2, ToSetFacts
  <2>4. InRunning(r) /\ Len(blocks[r]) = BlocksNeeded(r)
    BY <2>2, <2>3 DEF PagesInv
  <2>5. PICK i \in rows : running[i] = r
    BY <2>4 DEF InRunning
  <2>6. r < nextId
    BY <2>5, Parts DEF QueueInv
  <2>7. j \in 1 .. MaxBlocks
    BY <2>3, <2>4, <2>6, NeedsAtMostARow
  <2>8. <<i, j>> \in cells /\ blocks[running[<<i, j>>[1]]][<<i, j>>[2]] = b
    BY <2>3, <2>5, <2>7
  <2>9. QED
    BY <2>8
<1>4. \A b \in held : f[b] \in cells /\ blocks[running[f[b][1]]][f[b][2]] = b
  BY <1>3
<1>5. f \in [held -> cells] /\ DOMAIN f = held
  BY <1>4
<1> HIDE DEF f, held
<1>6. f \in Injection(held, cells)
  BY <1>4, <1>5 DEF Injection, IsInjective
<1>7. IsFiniteSet(cells) /\ Cardinality(cells) = Len(running) * MaxBlocks
  <2> DEFINE cols == 1 .. MaxBlocks
  <2>1. IsFiniteSet(rows) /\ Cardinality(rows) = Len(running)
    BY <1>1, CountTo
  <2>2. IsFiniteSet(cols) /\ Cardinality(cols) = MaxBlocks
    BY <1>2, CountTo
  <2>3. cells = rows \X cols
    OBVIOUS
  <2> HIDE DEF rows, cols, cells
  <2>4. IsFiniteSet(rows \X cols) /\ Cardinality(rows \X cols) = Cardinality(rows) * Cardinality(cols)
    BY <2>1, <2>2, FS_Product
  <2>5. QED
    BY <2>1, <2>2, <2>3, <2>4
<1>8. IsFiniteSet(held) /\ Cardinality(held) <= Len(running) * MaxBlocks
  <2> HIDE DEF cells
  <2>1. QED
    BY <1>6, <1>7, FS_Injection
<1>9. QED
  BY <1>8 DEF held

\* The pages that are not held are on the list.
LEMMA FreeBound ==
  ASSUME TypeInv, PagesInv
  PROVE  TotalBlocks <= Len(running) * MaxBlocks + Len(free)
<1> DEFINE held == UNION {ToSet(blocks[r]) : r \in Reqs}
           list == ToSet(free)
<1>1. /\ free \in Seq(Blocks) /\ running \in Seq(Reqs) /\ Len(free) \in Nat
      /\ Len(running) * MaxBlocks \in Nat
  <2>1. free \in Seq(Blocks) /\ running \in Seq(Reqs)
    BY Parts DEF PoolTypes
  <2>2. MaxBlocks \in Nat
    BY ConfigAssumption, CeilDivNat DEF MaxBlocks
  <2>3. Len(free) \in Nat /\ Len(running) \in Nat
    BY <2>1
  <2>4. QED
    BY <2>1, <2>2, <2>3
<1>2. IsFiniteSet(held) /\ Cardinality(held) <= Len(running) * MaxBlocks
  BY HeldBound
<1>3. IsFiniteSet(list) /\ Cardinality(list) <= Len(free)
  BY <1>1, ToSetBound
<1>4. Blocks \subseteq held \cup list
  BY DEF PagesInv
<1>5. Cardinality(Blocks) = TotalBlocks
  <2>1. IsFiniteSet(Blocks) /\ Cardinality(Blocks) = (TotalBlocks - 1) - 0 + 1
    BY TotalBlocksPositive, FS_Interval DEF Blocks
  <2>2. QED
    BY <2>1, TotalBlocksPositive
<1> HIDE DEF held, list
<1>6. /\ IsFiniteSet(held \cup list)
      /\ Cardinality(held \cup list) = Cardinality(held) + Cardinality(list) - Cardinality(held \cap list)
  BY <1>2, <1>3, FS_Union
<1>7. /\ Cardinality(held) \in Nat /\ Cardinality(list) \in Nat
      /\ Cardinality(held \cap list) \in Nat
  BY <1>2, <1>3, FS_CardinalityType, FS_Intersection
<1>8. Cardinality(Blocks) <= Cardinality(held \cup list)
  BY <1>4, <1>6, FS_Subset
<1>9. QED
  BY <1>1, <1>2, <1>3, <1>5, <1>6, <1>7, <1>8, TotalBlocksPositive

\* The pages that are not on the free list belong to the rows that are taken, and
\* no row has more than its share.
LEMMA PagesFund == TypeInv /\ PagesInv => AdmissionAlwaysFunded
<1> SUFFICES ASSUME TypeInv, PagesInv, CanAdmit
             PROVE  BlocksNeeded(Head(pending)) <= Len(free)
  BY DEF AdmissionAlwaysFunded
<1>1. /\ pending # <<>> /\ Len(running) < MaxBatchSize
      /\ running \in Seq(Reqs) /\ pending \in Seq(Reqs) /\ free \in Seq(Blocks)
  BY Parts DEF CanAdmit, PoolTypes
<1>2. Head(pending) \in Reqs /\ Head(pending) < nextId
  BY <1>1, HeadTailFacts, Parts DEF QueueInv
<1>3. /\ BlocksNeeded(Head(pending)) \in Nat /\ BlocksNeeded(Head(pending)) <= MaxBlocks
      /\ MaxBlocks \in Nat
  BY <1>2, NeedsAtMostARow
<1>4. MaxBatchSize * MaxBlocks <= Len(running) * MaxBlocks + Len(free)
  BY FreeBound DEF TotalBlocks
<1>5. MaxBlocks <= Len(free)
  <2> DEFINE open == MaxBatchSize - Len(running)
  <2>1. open \in Nat \ {0} /\ Len(free) \in Nat /\ MaxBatchSize \in Nat /\ Len(running) \in Nat
    BY <1>1, ConfigAssumption
  <2>2. MaxBatchSize * MaxBlocks - Len(running) * MaxBlocks = open * MaxBlocks
    BY <1>3, <2>1
  <2>3. open * MaxBlocks >= MaxBlocks
    <3> HIDE DEF open
    <3>1. QED
      BY <1>3, <2>1
  <2>4. QED
    BY <1>3, <1>4, <2>1, <2>2, <2>3
<1>6. QED
  BY <1>1, <1>3, <1>5

\* While a batch row is open, the pages of any request that was accepted are there
\* to be had, for every batch size, page size and context length: total_blocks as
\* the constructor computes it makes the failure branch of schedule's admission
\* loop unreachable.
THEOREM AdmissionFunded == Spec => []AdmissionAlwaysFunded
<1>1. Init => TypeInv /\ PagesInv
  BY InitTypeInv, InitPages
<1>2. TypeInv /\ PagesInv /\ [Next]_vars => (TypeInv /\ PagesInv)'
  BY NextTypeInv, NextPages
<1>3. QED
  BY <1>1, <1>2, PagesFund, PTL DEF Spec

-----------------------------------------------------------------------------
(***************************************************************************)
(* Delivery: every accepted request is in exactly one place, and its       *)
(* answer is handed out once.                                              *)
(***************************************************************************)

\* The answers that left running, handed out or not, and where a request is.
Answered     == delivered \o completed
InPending(r) == \E j \in 1 .. Len(pending) : pending[j] = r
IsAnswered(r) == \E k \in 1 .. Len(Answered) : Answered[k].id = r

\* ExactlyOnce, request by request.  (That no request is twice in the queues,
\* QueueInv says.)
DeliveryInv ==
  /\ \A k, l \in 1 .. Len(Answered) : Answered[k].id = Answered[l].id => k = l
  /\ \A k \in 1 .. Len(Answered) :
       LET r == Answered[k].id
       IN  r < nextId /\ ~InRunning(r) /\ ~InPending(r)
  /\ \A r \in Reqs : r < nextId => IsAnswered(r) \/ InRunning(r) \/ InPending(r)

-----------------------------------------------------------------------------
(* The invariant *)

\* Nothing has happened yet.
LEMMA InitDelivery == Init => DeliveryInv
<1> SUFFICES ASSUME Init PROVE DeliveryInv
  OBVIOUS
<1>1. delivered = <<>> /\ completed = <<>> /\ nextId = 0
  BY DEF Init
<1>2. Len(Answered) = 0
  BY <1>1 DEF Answered
<1>3. \A r \in Reqs : ~(r < nextId)
  BY <1>1, ConfigAssumption DEF Reqs
<1>4. QED
  BY <1>2, <1>3 DEF DeliveryInv

\* Answers and queues that stay as they are keep the invariant.
LEMMA DeliveryFrame ==
  ASSUME DeliveryInv, Answered' = Answered, UNCHANGED <<nextId, running, pending>>
  PROVE  DeliveryInv'
BY DEF DeliveryInv, IsAnswered, InRunning, InPending

\* submit_request puts a new request at the end of the queue.
LEMMA SubmitDelivery ==
  ASSUME TypeInv, DeliveryInv, NEW shape \in Shapes, SubmitRequest(shape)
  PROVE  DeliveryInv'
<1>1. /\ nextId < MaxRequests /\ nextId' = nextId + 1 /\ pending' = Append(pending, nextId)
      /\ running' = running /\ delivered' = delivered /\ completed' = completed
  BY DEF SubmitRequest, clientVars
<1>2. /\ pending \in Seq(Reqs) /\ running \in Seq(Reqs) /\ nextId \in Nat /\ nextId \in Reqs
  BY <1>1, Parts, ConfigAssumption DEF PoolTypes, RequestTypes, Reqs
<1>3. /\ Len(pending') = Len(pending) + 1 /\ Len(pending) \in Nat
      /\ \A j \in 1 .. Len(pending) : pending'[j] = pending[j]
      /\ pending'[Len(pending) + 1] = nextId
  BY <1>1, <1>2
<1>4. \A r : InPending(r)' <=> InPending(r) \/ r = nextId
  <2>1. \A j \in 1 .. Len(pending') : j \in 1 .. Len(pending) \/ j = Len(pending) + 1
    BY <1>3
  <2>2. \A j \in 1 .. Len(pending) : j \in 1 .. Len(pending')
    BY <1>3
  <2>3. Len(pending) + 1 \in 1 .. Len(pending')
    BY <1>3
  <2>4. QED
    BY <1>3, <2>1, <2>2, <2>3 DEF InPending
<1>5. Answered' = Answered /\ \A r : (InRunning(r)' <=> InRunning(r)) /\ (IsAnswered(r)' <=> IsAnswered(r))
  BY <1>1 DEF Answered, InRunning, IsAnswered
<1>6. \A r \in Reqs : r < nextId' => r < nextId \/ r = nextId
  BY <1>1, <1>2, ConfigAssumption DEF Reqs
<1>7. ASSUME NEW k \in 1 .. Len(Answered)
      PROVE  /\ Answered[k].id < nextId' /\ Answered[k].id # nextId
             /\ ~InRunning(Answered[k].id)' /\ ~InPending(Answered[k].id)'
  <2>1. Answered[k].id < nextId /\ Answered[k].id \in Int
    <3> DEFINE Answers == [id : Reqs, out : Seq(Tokens)]
    <3>1. /\ delivered \in Seq(Answers) /\ completed \in Seq(Answers)
          /\ \A c \in Answers : c.id \in Int
      BY Parts, ConfigAssumption DEF ClientTypes, Reqs
    <3> HIDE DEF Answers
    <3>2. Answered \in Seq(Answers)
      BY <3>1 DEF Answered
    <3>3. Answered[k].id \in Int
      BY <3>1, <3>2
    <3>4. QED
      BY <3>3 DEF DeliveryInv
  <2>2. Answered[k].id < nextId' /\ Answered[k].id # nextId
    BY <1>1, <1>2, <2>1
  <2>3. QED
    BY <1>4, <1>5, <2>2 DEF DeliveryInv
<1>8. QED
  BY <1>4, <1>5, <1>6, <1>7 DEF DeliveryInv

\* An admitted request moves from the head of the queue to the end of running.
LEMMA AdmitDelivery ==
  ASSUME TypeInv, DeliveryInv, AdmitRequest
  PROVE  DeliveryInv'
<1>1. /\ pending # <<>> /\ nextId' = nextId /\ delivered' = delivered /\ completed' = completed
      /\ \/ running' = Append(running, Head(pending)) /\ pending' = Tail(pending)
         \/ running' = running /\ pending' = pending
  BY DEF AdmitRequest, CanAdmit, requestVars, clientVars
<1>2. Answered' = Answered
  BY <1>1 DEF Answered
<1>3. CASE running' = running /\ pending' = pending
  BY <1>1, <1>2, <1>3, DeliveryFrame
<1>4. CASE running' = Append(running, Head(pending)) /\ pending' = Tail(pending)
  <2>1. /\ pending \in Seq(Reqs) /\ running \in Seq(Reqs) /\ Sorted(pending)
    BY Parts DEF PoolTypes, QueueInv
  <2>2. /\ Head(pending) = pending[1] /\ 1 \in 1 .. Len(pending) /\ Head(pending) \in Reqs
        /\ Len(pending') = Len(pending) - 1 /\ Len(pending) \in Nat
        /\ \A j \in 1 .. Len(pending') : j + 1 \in 1 .. Len(pending) /\ pending'[j] = pending[j + 1]
    BY <1>1, <1>4, <2>1
  <2>3. /\ Len(running') = Len(running) + 1 /\ Len(running) \in Nat
        /\ \A i \in 1 .. Len(running) : running'[i] = running[i]
        /\ running'[Len(running) + 1] = Head(pending)
    BY <1>4, <2>1, <2>2
  <2>4. \A r : InRunning(r)' <=> InRunning(r) \/ r = Head(pending)
    <3>1. \A i \in 1 .. Len(running') : i \in 1 .. Len(running) \/ i = Len(running) + 1
      BY <2>3
    <3>2. /\ \A i \in 1 .. Len(running) : i \in 1 .. Len(running')
          /\ Len(running) + 1 \in 1 .. Len(running')
      BY <2>3
    <3>3. QED
      BY <2>3, <3>1, <3>2 DEF InRunning
  <2>5. \A r : InPending(r)' => InPending(r)
    BY <2>2 DEF InPending
  <2>6. \A r : InPending(r) => InPending(r)' \/ r = Head(pending)
    <3>1. ASSUME NEW j \in 1 .. Len(pending), j # 1
          PROVE  j - 1 \in 1 .. Len(pending') /\ pending'[j - 1] = pending[j]
      <4>1. j - 1 \in 1 .. Len(pending') /\ (j - 1) + 1 = j
        BY <2>2, <3>1
      <4>2. pending'[j - 1] = pending[(j - 1) + 1]
        BY <2>2, <4>1
      <4>3. QED
        BY <4>1, <4>2
    <3>2. QED
      BY <2>2, <3>1 DEF InPending
  <2>7. InPending(Head(pending))
    BY <2>2 DEF InPending
  <2>8. \A r : IsAnswered(r)' <=> IsAnswered(r)
    BY <1>2 DEF IsAnswered
  <2>9. QED
    BY <1>1, <1>2, <2>4, <2>5, <2>6, <2>7, <2>8 DEF DeliveryInv
<1>5. QED
  BY <1>1, <1>3, <1>4

\* A retired request leaves running and its answer is the newest.
LEMMA RetireDelivery ==
  ASSUME TypeInv, DeliveryInv, RetireRequest
  PROVE  DeliveryInv'
<1>1. PICK i \in 1 .. Len(running) :
        /\ completed' = Append(completed, [id |-> running[i], out |-> outputs[running[i]]])
        /\ running' = Without(running, i)
  BY DEF RetireRequest
<1> DEFINE r == running[i]
           n == Len(Answered)
<1>2. nextId' = nextId /\ pending' = pending /\ delivered' = delivered
  BY DEF RetireRequest, requestVars
<1>3. /\ running \in Seq(Reqs) /\ Sorted(running) /\ r \in Reqs /\ r < nextId /\ InRunning(r)
      /\ \A j \in 1 .. Len(pending) : r < pending[j] /\ pending[j] \in Reqs
  BY Parts DEF PoolTypes, QueueInv, InRunning
<1>4. \A q : InRunning(q)' <=> InRunning(q) /\ q # r
  <2>1. \A q : (\E j \in 1 .. Len(Without(running, i)) : Without(running, i)[j] = q)
                 <=> (\E k \in 1 .. Len(running) : running[k] = q) /\ q # running[i]
    BY <1>3, WithoutMembers
  <2>2. QED
    BY <1>1, <2>1 DEF InRunning
<1>5. ~InPending(r)
  BY <1>3, ConfigAssumption DEF InPending, Reqs
<1>6. /\ n \in Nat /\ Len(Answered') = n + 1
      /\ \A k \in 1 .. n : Answered'[k] = Answered[k]
      /\ Answered'[n + 1].id = r
  <2> DEFINE Answers == [id : Reqs, out : Seq(Tokens)]
             answer  == [id |-> r, out |-> outputs[r]]
  <2>1. delivered \in Seq(Answers) /\ completed \in Seq(Answers)
    BY Parts DEF ClientTypes
  <2>2. completed' = Append(completed, answer) /\ answer.id = r
    BY <1>1
  <2> HIDE DEF answer, Answers, r
  <2>3. Answered = delivered \o completed /\ Answered' = delivered \o Append(completed, answer)
    BY <1>2, <2>2 DEF Answered
  <2>4. /\ Len(Answered) \in Nat /\ Len(Answered') = Len(Answered) + 1
        /\ \A k \in 1 .. Len(Answered) : Answered'[k] = Answered[k]
        /\ Answered'[Len(Answered) + 1] = answer
    BY <2>1, <2>3
  <2>5. QED
    BY <2>2, <2>4
<1>7. \A q : InPending(q)' <=> InPending(q)
  BY <1>2 DEF InPending
<1> HIDE DEF n, r
<1>8. /\ \A k \in 1 .. (n + 1) : k \in 1 .. n \/ k = n + 1
      /\ \A k \in 1 .. n : k \in 1 .. (n + 1)
      /\ n + 1 \in 1 .. (n + 1)
  BY <1>6
<1>9. \A q : IsAnswered(q)' <=> IsAnswered(q) \/ q = r
  BY <1>6, <1>8 DEF IsAnswered, n
<1>10. \A k \in 1 .. n : Answered[k].id # r
  BY <1>3 DEF DeliveryInv, n
<1>11. /\ \A k, l \in 1 .. n : Answered[k].id = Answered[l].id => k = l
       /\ \A k \in 1 .. n : /\ Answered[k].id < nextId /\ ~InRunning(Answered[k].id)
                            /\ ~InPending(Answered[k].id)
       /\ \A q \in Reqs : q < nextId => IsAnswered(q) \/ InRunning(q) \/ InPending(q)
  BY DEF DeliveryInv, n
<1>12. \A k, l \in 1 .. Len(Answered') : Answered'[k].id = Answered'[l].id => k = l
  BY <1>6, <1>8, <1>10, <1>11
<1>13. \A k \in 1 .. Len(Answered') :
         (/\ Answered[k].id < nextId /\ ~InRunning(Answered[k].id) /\ ~InPending(Answered[k].id))'
  <2>1. ASSUME NEW k \in 1 .. Len(Answered')
        PROVE  /\ Answered'[k].id < nextId
               /\ ~(InRunning(Answered'[k].id) /\ Answered'[k].id # r)
               /\ ~InPending(Answered'[k].id)
    BY <1>3, <1>5, <1>6, <1>8, <1>11
  <2>2. ASSUME NEW k \in 1 .. Len(Answered')
        PROVE  (/\ Answered[k].id < nextId /\ ~InRunning(Answered[k].id) /\ ~InPending(Answered[k].id))'
    <3> DEFINE q == Answered'[k].id
    <3>1. q < nextId /\ ~(InRunning(q) /\ q # r) /\ ~InPending(q)
      BY <2>1
    <3> HIDE DEF q
    <3>2. ~(\E m \in 1 .. Len(running') : running'[m] = q)
      BY <1>4, <3>1 DEF InRunning
    <3>3. ~(\E j \in 1 .. Len(pending') : pending'[j] = q)
      BY <1>7, <3>1 DEF InPending
    <3>4. QED
      BY <1>2, <3>1, <3>2, <3>3 DEF InRunning, InPending, q
  <2>3. QED
    BY <2>2
<1>14. \A q \in Reqs : q < nextId' => IsAnswered(q)' \/ InRunning(q)' \/ InPending(q)'
  BY <1>2, <1>4, <1>7, <1>9, <1>11
<1>15. QED
  BY <1>12, <1>13, <1>14 DEF DeliveryInv

\* Every step preserves the invariant.
LEMMA NextDelivery == TypeInv /\ DeliveryInv /\ [Next]_vars => DeliveryInv'
<1> SUFFICES ASSUME TypeInv, DeliveryInv, [Next]_vars PROVE DeliveryInv'
  OBVIOUS
<1>1. CASE \E shape \in Shapes : SubmitRequest(shape)
  BY <1>1, SubmitDelivery
<1>2. CASE AdmitRequest
  BY <1>2, AdmitDelivery
<1>3. CASE RetireRequest
  BY <1>3, RetireDelivery
<1>4. CASE PopCompleted
  <2>1. /\ delivered' = delivered \o completed /\ completed' = <<>>
        /\ UNCHANGED <<nextId, running, pending>>
    BY <1>4 DEF PopCompleted, requestVars, poolVars
  <2> DEFINE Answers == [id : Reqs, out : Seq(Tokens)]
  <2>2. delivered \in Seq(Answers) /\ completed \in Seq(Answers)
    BY Parts DEF ClientTypes
  <2> HIDE DEF Answers
  <2>3. Answered' = Answered
    <3>1. Answered' = (delivered \o completed) \o <<>>
      BY <2>1 DEF Answered
    <3>2. (delivered \o completed) \o <<>> = delivered \o completed
      BY <2>2
    <3>3. QED
      BY <3>1, <3>2 DEF Answered
  <2>4. QED
    BY <2>1, <2>3, DeliveryFrame
<1>5. CASE UNCHANGED <<nextId, running, pending, delivered, completed>>
  BY <1>5, DeliveryFrame DEF Answered
<1>6. CASE BeginStep \/ ScanRunning \/ ScanDone
  BY <1>5, <1>6 DEF BeginStep, ScanRunning, ScanDone, poolVars, requestVars, clientVars
<1>7. CASE Launch
  BY <1>5, <1>7 DEF Launch, ReturnEmpty, ReplayDecode, LaunchDecode, LaunchPrefill, LaunchMixed,
                    poolVars, requestVars, clientVars
<1>8. CASE DecodeReturns
  BY <1>5, <1>8 DEF DecodeReturns, FinishStep, poolVars, requestVars, clientVars
<1>9. CASE PrefillReturns \/ MixedReturns
  BY <1>5, <1>9 DEF PrefillReturns, MixedReturns, FinishStep, requestVars, clientVars
<1>10. CASE EndStep \/ Failure
  BY <1>5, <1>10 DEF EndStep, Failure, AdvanceThrows, CallbackFails, poolVars, requestVars, clientVars
<1>11. CASE UNCHANGED vars
  BY <1>5, <1>11 DEF vars, poolVars, requestVars, clientVars
<1>12. QED
  BY <1>1, <1>2, <1>3, <1>4, <1>6, <1>7, <1>8, <1>9, <1>10, <1>11 DEF Next, Client, Schedule, Compact

-----------------------------------------------------------------------------
(* ExactlyOnce *)

\* A concatenation, by index.
LEMMA ConcatFacts ==
  ASSUME NEW S, NEW s \in Seq(S), NEW t \in Seq(S)
  PROVE  /\ s \o t \in Seq(S) /\ Len(s \o t) = Len(s) + Len(t)
         /\ \A k \in 1 .. Len(s) : (s \o t)[k] = s[k]
         /\ \A k \in 1 .. Len(t) : (s \o t)[Len(s) + k] = t[k]
OBVIOUS

\* The ids of some answers, by index.
LEMMA IdsFacts ==
  ASSUME NEW s \in Seq([id : Reqs, out : Seq(Tokens)])
  PROVE  /\ Ids(s) \in Seq(Reqs) /\ Len(Ids(s)) = Len(s)
         /\ \A k \in 1 .. Len(s) : Ids(s)[k] = s[k].id
<1> DEFINE Answers == [id : Reqs, out : Seq(Tokens)]
           Id(k)   == s[k].id
<1>1. \A c \in Answers : c.id \in Reqs
  OBVIOUS
<1> HIDE DEF Answers
<1>2. s \in Seq(Answers)
  BY DEF Answers
<1>3. Len(s) \in Nat /\ \A k \in 1 .. Len(s) : Id(k) \in Reqs
  BY <1>1, <1>2
<1>4. Ids(s) = [k \in 1 .. Len(s) |-> Id(k)]
  BY DEF Ids
<1> HIDE DEF Id
<1>5. Ids(s) \in Seq(Reqs) /\ Len(Ids(s)) = Len(s)
  BY <1>3, <1>4
<1>6. \A k \in 1 .. Len(s) : Ids(s)[k] = Id(k)
  BY <1>4
<1>7. QED
  BY <1>5, <1>6 DEF Id

\* Answers, running and pending in one row, by index.
LEMMA Everywhere ==
  ASSUME TypeOK
  PROVE  LET everywhere == Ids(delivered) \o Ids(completed) \o running \o pending
             n == Len(Answered)
             m == n + Len(running)
         IN  /\ everywhere \in Seq(Reqs) /\ n \in Nat /\ Len(everywhere) = m + Len(pending)
             /\ \A k \in 1 .. n : everywhere[k] = Answered[k].id
             /\ \A i \in 1 .. Len(running) : everywhere[n + i] = running[i]
             /\ \A j \in 1 .. Len(pending) : everywhere[m + j] = pending[j]
<1> DEFINE Answers == [id : Reqs, out : Seq(Tokens)]
           a == Ids(delivered)
           b == Ids(completed)
<1>1. delivered \in Seq(Answers) /\ completed \in Seq(Answers)
  BY DEF TypeOK, ClientTypes
<1>2. running \in Seq(Reqs) /\ pending \in Seq(Reqs)
  BY DEF TypeOK, PoolTypes
<1>3. /\ a \in Seq(Reqs) /\ Len(a) = Len(delivered)
      /\ \A k \in 1 .. Len(delivered) : a[k] = delivered[k].id
  BY <1>1, IdsFacts
<1>4. /\ b \in Seq(Reqs) /\ Len(b) = Len(completed)
      /\ \A k \in 1 .. Len(completed) : b[k] = completed[k].id
  BY <1>1, IdsFacts
<1> HIDE DEF a, b, Answers
<1>5. /\ Len(Answered) = Len(a) + Len(b)
      /\ \A k \in 1 .. Len(a) : Answered[k] = delivered[k]
      /\ \A k \in 1 .. Len(b) : Answered[Len(a) + k] = completed[k]
  BY <1>1, <1>3, <1>4 DEF Answered
<1> DEFINE all == a \o b \o running \o pending
<1>6. /\ all \in Seq(Reqs) /\ Len(all) = Len(a) + Len(b) + Len(running) + Len(pending)
      /\ \A k \in 1 .. Len(a) : all[k] = a[k]
      /\ \A k \in 1 .. Len(b) : all[Len(a) + k] = b[k]
      /\ \A i \in 1 .. Len(running) : all[Len(a) + Len(b) + i] = running[i]
      /\ \A j \in 1 .. Len(pending) : all[Len(a) + Len(b) + Len(running) + j] = pending[j]
  <2> DEFINE ab  == a \o b
             abr == ab \o running
  <2>a. a \in Seq(Reqs) /\ b \in Seq(Reqs)
    BY <1>3, <1>4
  <2>1. /\ ab \in Seq(Reqs) /\ Len(ab) = Len(a) + Len(b)
        /\ \A k \in 1 .. Len(a) : ab[k] = a[k]
        /\ \A k \in 1 .. Len(b) : ab[Len(a) + k] = b[k]
    BY <2>a
  <2> HIDE DEF ab
  <2>b. ab \in Seq(Reqs)
    BY <2>1
  <2>2. /\ abr \in Seq(Reqs) /\ Len(abr) = Len(ab) + Len(running)
        /\ \A k \in 1 .. Len(ab) : abr[k] = ab[k]
        /\ \A i \in 1 .. Len(running) : abr[Len(ab) + i] = running[i]
    BY <1>2, <2>b
  <2> HIDE DEF abr
  <2>c. abr \in Seq(Reqs)
    BY <2>2
  <2>3. /\ abr \o pending \in Seq(Reqs) /\ Len(abr \o pending) = Len(abr) + Len(pending)
        /\ \A k \in 1 .. Len(abr) : (abr \o pending)[k] = abr[k]
        /\ \A j \in 1 .. Len(pending) : (abr \o pending)[Len(abr) + j] = pending[j]
    BY <1>2, <2>c
  <2>4. all = abr \o pending
    BY DEF ab, abr
  <2> HIDE DEF all
  <2>5. Len(a) \in Nat /\ Len(b) \in Nat /\ Len(running) \in Nat
    BY <1>2, <1>3, <1>4
  <2>6. \A k \in 1 .. Len(a) : k \in 1 .. Len(ab) /\ k \in 1 .. Len(abr)
    BY <2>1, <2>2, <2>5
  <2>7. \A k \in 1 .. Len(b) : Len(a) + k \in 1 .. Len(ab) /\ Len(a) + k \in 1 .. Len(abr)
    BY <2>1, <2>2, <2>5
  <2>8. \A i \in 1 .. Len(running) : Len(ab) + i \in 1 .. Len(abr)
    BY <2>1, <2>2, <2>5
  <2>9. QED
    BY <2>1, <2>2, <2>3, <2>4, <2>6, <2>7, <2>8
<1>7. Len(a) \in Nat /\ Len(b) \in Nat /\ Len(running) \in Nat
  BY <1>2, <1>3, <1>4
<1>8. all = Ids(delivered) \o Ids(completed) \o running \o pending
  BY DEF a, b
<1> HIDE DEF all
<1>9. \A k \in 1 .. Len(Answered) : all[k] = Answered[k].id
  <2>1. ASSUME NEW k \in 1 .. Len(Answered), k <= Len(a)
        PROVE  all[k] = Answered[k].id
    BY <1>3, <1>5, <1>6, <1>7, <2>1
  <2>2. ASSUME NEW k \in 1 .. Len(Answered), ~(k <= Len(a))
        PROVE  all[k] = Answered[k].id
    <3> DEFINE l == k - Len(a)
    <3>1. l \in 1 .. Len(b) /\ Len(a) + l = k
      BY <1>5, <1>7, <2>2
    <3> HIDE DEF l
    <3>2. all[Len(a) + l] = b[l] /\ Answered[Len(a) + l] = completed[l] /\ b[l] = completed[l].id
      BY <1>4, <1>5, <1>6, <3>1
    <3>3. QED
      BY <3>1, <3>2
  <2>3. QED
    BY <2>1, <2>2
<1>10. Len(Answered) = Len(a) + Len(b) /\ Len(Answered) \in Nat
  BY <1>5, <1>7
<1>11. /\ all \in Seq(Reqs) /\ Len(all) = Len(Answered) + Len(running) + Len(pending)
       /\ \A i \in 1 .. Len(running) : all[Len(Answered) + i] = running[i]
       /\ \A j \in 1 .. Len(pending) : all[Len(Answered) + Len(running) + j] = pending[j]
  BY <1>6, <1>10
<1>12. QED
  BY <1>8, <1>9, <1>10, <1>11

\* Every accepted request waits, runs, or has an answer that is or will be handed
\* out by pop_completed, and nothing is in two of these places or twice in one:
\* for every batch size, order of ends and pattern of failures, and also when
\* clients call in the middle of a step.
THEOREM DeliveredOnce == Spec => []ExactlyOnce
<1>1. Init => TypeInv /\ DeliveryInv
  BY InitTypeInv, InitDelivery
<1>2. TypeInv /\ DeliveryInv /\ [Next]_vars => (TypeInv /\ DeliveryInv)'
  BY NextTypeInv, NextDelivery
<1>3. TypeInv /\ DeliveryInv => ExactlyOnce
  <2> SUFFICES ASSUME TypeInv, DeliveryInv PROVE ExactlyOnce
    OBVIOUS
  <2> DEFINE everywhere == Ids(delivered) \o Ids(completed) \o running \o pending
             n == Len(Answered)
             m == n + Len(running)
  <2>1. /\ everywhere \in Seq(Reqs) /\ n \in Nat /\ Len(everywhere) = m + Len(pending)
        /\ \A k \in 1 .. n : everywhere[k] = Answered[k].id
        /\ \A i \in 1 .. Len(running) : everywhere[n + i] = running[i]
        /\ \A j \in 1 .. Len(pending) : everywhere[m + j] = pending[j]
    BY Everywhere DEF TypeInv
  <2>2. /\ running \in Seq(Reqs) /\ pending \in Seq(Reqs) /\ Sorted(running) /\ Sorted(pending)
        /\ \A i \in 1 .. Len(running) : \A j \in 1 .. Len(pending) : running[i] < pending[j]
        /\ \A i \in 1 .. Len(running) : running[i] < nextId
        /\ \A j \in 1 .. Len(pending) : pending[j] < nextId
        /\ nextId \in 0 .. MaxRequests
    BY Parts DEF PoolTypes, QueueInv, RequestTypes
  <2> HIDE DEF everywhere, n
  <2> DEFINE Ans(k) == k \in 1 .. n /\ everywhere[k] = Answered[k].id
             Run(k) == k - n \in 1 .. Len(running) /\ everywhere[k] = running[k - n]
             Pen(k) == k - m \in 1 .. Len(pending) /\ everywhere[k] = pending[k - m]
  <2>3. \A k \in 1 .. Len(everywhere) : Ans(k) \/ Run(k) \/ Pen(k)
    <3>1. ASSUME NEW k \in 1 .. Len(everywhere), k <= n
          PROVE  Ans(k)
      BY <2>1, <3>1
    <3>2. ASSUME NEW k \in 1 .. Len(everywhere), ~(k <= n), k <= m
          PROVE  Run(k)
      <4>1. k - n \in 1 .. Len(running) /\ n + (k - n) = k
        BY <2>1, <2>2, <3>2
      <4>2. everywhere[n + (k - n)] = running[k - n]
        BY <2>1, <4>1
      <4>3. QED
        BY <4>1, <4>2
    <3>3. ASSUME NEW k \in 1 .. Len(everywhere), ~(k <= m)
          PROVE  Pen(k)
      <4>1. k - m \in 1 .. Len(pending) /\ m + (k - m) = k
        BY <2>1, <2>2, <3>3
      <4>2. everywhere[m + (k - m)] = pending[k - m]
        BY <2>1, <4>1
      <4>3. QED
        BY <4>1, <4>2
    <3>4. QED
      BY <3>1, <3>2, <3>3
  <2>4. \A i, j \in 1 .. Len(running) : running[i] = running[j] => i = j
    BY <2>2, ConfigAssumption DEF Sorted, Reqs
  <2>5. \A i, j \in 1 .. Len(pending) : pending[i] = pending[j] => i = j
    BY <2>2, ConfigAssumption DEF Sorted, Reqs
  <2>6. /\ \A i \in 1 .. Len(running) : \A j \in 1 .. Len(pending) : running[i] # pending[j]
        /\ \A k \in 1 .. n : \A i \in 1 .. Len(running) : Answered[k].id # running[i]
        /\ \A k \in 1 .. n : \A j \in 1 .. Len(pending) : Answered[k].id # pending[j]
    <3>1. \A i \in 1 .. Len(running) : \A j \in 1 .. Len(pending) : running[i] # pending[j]
      BY <2>2, ConfigAssumption DEF Reqs
    <3>2. QED
      BY <3>1 DEF DeliveryInv, InRunning, InPending, n
  <2>7. IsInjective(everywhere)
    <3>1. ASSUME NEW k \in 1 .. Len(everywhere), NEW l \in 1 .. Len(everywhere),
                 everywhere[k] = everywhere[l]
          PROVE  k = l
      <4>1. CASE Ans(k) /\ Ans(l)
        BY <3>1, <4>1 DEF DeliveryInv, n
      <4>2. CASE Run(k) /\ Run(l)
        <5>1. k - n = l - n
          BY <2>4, <3>1, <4>2
        <5>2. QED
          BY <2>1, <5>1
      <4>3. CASE Pen(k) /\ Pen(l)
        <5>1. k - m = l - m
          BY <2>5, <3>1, <4>3
        <5>2. QED
          BY <2>1, <2>2, <5>1
      <4>4. CASE (Ans(k) /\ Run(l)) \/ (Run(k) /\ Ans(l)) \/ (Ans(k) /\ Pen(l))
                 \/ (Pen(k) /\ Ans(l)) \/ (Run(k) /\ Pen(l)) \/ (Pen(k) /\ Run(l))
        BY <2>6, <3>1, <4>4
      <4>5. QED
        BY <2>3, <4>1, <4>2, <4>3, <4>4
    <3>2. DOMAIN everywhere = 1 .. Len(everywhere)
      BY <2>1
    <3>3. QED
      BY <3>1, <3>2 DEF IsInjective
  <2>8. ToSet(everywhere) = 0 .. (nextId - 1)
    <3>1. \A x : x \in ToSet(everywhere) <=> \E k \in 1 .. Len(everywhere) : everywhere[k] = x
      BY <2>1, ToSetFacts
    <3>2. ASSUME NEW k \in 1 .. Len(everywhere)
          PROVE  everywhere[k] \in 0 .. (nextId - 1)
      <4>1. everywhere[k] < nextId
        <5>1. CASE Ans(k)
          BY <5>1 DEF DeliveryInv, n
        <5>2. CASE Run(k) \/ Pen(k)
          BY <2>2, <5>2
        <5>3. QED
          BY <2>3, <5>1, <5>2
      <4>2. everywhere[k] \in Nat
        BY <2>1, ConfigAssumption DEF Reqs
      <4>3. QED
        BY <2>2, <4>1, <4>2
    <3>3. ASSUME NEW r \in 0 .. (nextId - 1)
          PROVE  \E k \in 1 .. Len(everywhere) : everywhere[k] = r
      <4>1. r \in Reqs /\ r < nextId
        BY <2>2, ConfigAssumption DEF Reqs
      <4>2. CASE IsAnswered(r)
        <5>1. PICK k \in 1 .. n : Answered[k].id = r
          BY <4>2 DEF IsAnswered, n
        <5>2. k \in 1 .. Len(everywhere)
          BY <2>1, <2>2
        <5>3. QED
          BY <2>1, <5>1, <5>2
      <4>3. CASE InRunning(r)
        <5>1. PICK i \in 1 .. Len(running) : running[i] = r
          BY <4>3 DEF InRunning
        <5>2. n + i \in 1 .. Len(everywhere)
          BY <2>1, <2>2
        <5>3. QED
          BY <2>1, <5>1, <5>2
      <4>4. CASE InPending(r)
        <5>1. PICK j \in 1 .. Len(pending) : pending[j] = r
          BY <4>4 DEF InPending
        <5>2. m + j \in 1 .. Len(everywhere)
          BY <2>1, <2>2
        <5>3. QED
          BY <2>1, <5>1, <5>2
      <4>5. QED
        BY <4>1, <4>2, <4>3, <4>4 DEF DeliveryInv
    <3>4. QED
      BY <3>1, <3>2, <3>3
  <2>9. QED
    BY <2>7, <2>8 DEF ExactlyOnce, everywhere
<1>4. QED
  BY <1>1, <1>2, <1>3, PTL DEF Spec

-----------------------------------------------------------------------------
(***************************************************************************)
(* Plans: they fit the buffers, and requests are served in the order they  *)
(* came.                                                                   *)
(***************************************************************************)

(* PlanFitsBuffers: rows and tokens are counted against the batch *)

\* The tokens a plan packs, as PlannedPrefillTokens counts them.
PlannedTokens(plan) == UNION {{k} \X (1 .. plan[k].chunk) : k \in 1 .. Len(plan)}

\* There is a row for every running request, and the scan has planned no more
\* than it has passed.
RowsInv ==
  /\ Len(running) <= MaxBatchSize
  /\ NumRows <= MaxBatchSize
  /\ pc = "scan" => NumRows < scan /\ scan <= Len(running) + 1
  /\ pc = "admit" => NumRows <= Len(running)

\* What is planned and what is left of the budget make at most the budget.
TokensInv ==
  /\ IsFiniteSet(PlannedTokens(prefillPlan))
  /\ Cardinality(PlannedTokens(prefillPlan)) + budget <= MaxPrefillTokens
  /\ \A k \in 1 .. Len(prefillPlan) : prefillPlan[k].chunk > 0

\* An empty plan fits.
LEMMA EmptyFits ==
  ASSUME NEW plan, plan = <<>>
  PROVE  /\ IsFiniteSet(PlannedTokens(plan)) /\ Cardinality(PlannedTokens(plan)) = 0
         /\ Len(plan) = 0
<1>1. PlannedTokens(plan) = {}
  BY DEF PlannedTokens
<1>2. IsFiniteSet({}) /\ Cardinality({}) = 0
  BY FS_EmptySet
<1> HIDE DEF PlannedTokens
<1>3. QED
  BY <1>1, <1>2

\* One more chunk is that many more tokens.
LEMMA ChunkAppended ==
  ASSUME NEW plan \in Seq([req : Reqs, chunk : Nat]), NEW item \in [req : Reqs, chunk : Nat],
         IsFiniteSet(PlannedTokens(plan))
  PROVE  /\ IsFiniteSet(PlannedTokens(Append(plan, item)))
         /\ Cardinality(PlannedTokens(plan)) \in Nat
         /\ Cardinality(PlannedTokens(Append(plan, item)))
              = Cardinality(PlannedTokens(plan)) + item.chunk
<1> DEFINE n   == Len(plan) + 1
           old == PlannedTokens(plan)
           new == PlannedTokens(Append(plan, item))
           M   == {n} \X (1 .. item.chunk)
           chunk(k) == Append(plan, item)[k].chunk
<1>1. /\ n \in Nat /\ Len(plan) \in Nat /\ Len(Append(plan, item)) = n
      /\ \A k \in 1 .. Len(plan) : Append(plan, item)[k] = plan[k]
      /\ Append(plan, item)[n] = item
  BY AppendFacts
<1>2. item.chunk \in Nat
  OBVIOUS
<1>3. 1 .. n = (1 .. Len(plan)) \cup {n}
  BY <1>1
<1>4. new = old \cup M
  <2>1. new = UNION {{k} \X (1 .. chunk(k)) : k \in 1 .. n}
    BY <1>1 DEF PlannedTokens
  <2>2. old = UNION {{k} \X (1 .. chunk(k)) : k \in 1 .. Len(plan)}
    BY <1>1 DEF PlannedTokens
  <2>3. M = {n} \X (1 .. chunk(n))
    BY <1>1
  <2> HIDE DEF new, old, M, chunk, n
  <2>4. QED
    BY <1>3, <2>1, <2>2, <2>3
<1>5. old \cap M = {}
  <2>1. \A w \in old : w[1] \in 1 .. Len(plan)
    BY DEF PlannedTokens
  <2>2. \A w \in M : w[1] = n
    OBVIOUS
  <2>3. n \notin 1 .. Len(plan)
    BY <1>1
  <2>4. QED
    BY <2>1, <2>2, <2>3
<1>6. IsFiniteSet(M) /\ Cardinality(M) = item.chunk
  <2>1. IsFiniteSet(1 .. item.chunk) /\ Cardinality(1 .. item.chunk) = item.chunk
    BY <1>2, FS_Interval
  <2>2. IsFiniteSet({n}) /\ Cardinality({n}) = 1
    BY FS_Singleton
  <2>3. IsFiniteSet(M) /\ Cardinality(M) = 1 * item.chunk
    BY <2>1, <2>2, FS_Product
  <2>4. QED
    BY <1>2, <2>3
<1> HIDE DEF M, old, new
<1>7. IsFiniteSet(old)
  BY DEF old
<1>8. Cardinality(old) \in Nat
  BY <1>7, FS_CardinalityType
<1>a. Cardinality({}) = 0
  BY FS_EmptySet
<1>9. IsFiniteSet(new) /\ Cardinality(new) = Cardinality(old) + Cardinality(M) - 0
  <2>1. /\ IsFiniteSet(old \cup M)
        /\ Cardinality(old \cup M) = Cardinality(old) + Cardinality(M) - Cardinality(old \cap M)
    BY <1>6, <1>7, FS_Union
  <2>2. QED
    BY <1>4, <1>5, <1>a, <2>1
<1>10. QED
  BY <1>2, <1>6, <1>8, <1>9 DEF old, new

\* Nothing runs and nothing is planned.
LEMMA InitFits == Init => RowsInv /\ TokensInv
<1> SUFFICES ASSUME Init PROVE RowsInv /\ TokensInv
  OBVIOUS
<1>1. running = <<>> /\ decodePlan = <<>> /\ prefillPlan = <<>> /\ budget = 0 /\ pc = "idle"
  BY DEF Init
<1>2. RowsInv
  BY <1>1, ConfigAssumption DEF RowsInv, NumRows
<1>3. TokensInv
  BY <1>1, EmptyFits, ConfigAssumption DEF TokensInv
<1>4. QED
  BY <1>2, <1>3

\* A step that leaves running and the plan alone, outside schedule.
LEMMA FitsFrame ==
  ASSUME RowsInv, TokensInv, UNCHANGED <<running, budget, decodePlan, prefillPlan>>,
         pc' \notin {"scan", "admit"} \/ UNCHANGED <<pc, scan>>
  PROVE  RowsInv' /\ TokensInv'
BY DEF RowsInv, TokensInv, NumRows

\* A step that gives the plan up.
LEMMA FitsClear ==
  ASSUME RowsInv, UNCHANGED running, ClearPlan, pc' = "idle"
  PROVE  RowsInv' /\ TokensInv'
<1>1. decodePlan' = <<>> /\ prefillPlan' = <<>> /\ budget' = 0
  BY DEF ClearPlan
<1>2. RowsInv'
  BY <1>1, ConfigAssumption DEF RowsInv, NumRows
<1>3. TokensInv'
  BY <1>1, EmptyFits, ConfigAssumption DEF TokensInv
<1>4. QED
  BY <1>2, <1>3

\* The scan plans at most one row for each request it passes, within the budget.
LEMMA ScanFits ==
  ASSUME TypeInv, RowsInv, TokensInv, ScanRunning
  PROVE  RowsInv' /\ TokensInv'
<1> DEFINE r     == running[scan]
           chunk == Smaller(promptLen[r] - computed[r], budget)
           item  == [req |-> r, chunk |-> chunk]
<1>1. /\ pc = "scan" /\ pc' = "scan" /\ scan <= Len(running) /\ scan' = scan + 1
      /\ running' = running
  BY DEF ScanRunning, poolVars
<1>2. /\ scan \in Nat /\ budget \in Nat /\ decodePlan \in Seq(Reqs)
      /\ prefillPlan \in Seq([req : Reqs, chunk : Nat]) /\ running \in Seq(Reqs)
  BY Parts, ConfigAssumption DEF PlanTypes, PoolTypes
<1>3. scan >= 1
  BY <1>1, Parts DEF CursorInv
<1>4. r \in Reqs
  BY <1>1, <1>2, <1>3
<1>5. promptLen[r] \in Nat /\ computed[r] \in Nat
  BY <1>4, Parts DEF RequestTypes, PoolTypes
<1> HIDE DEF r
<1>6. /\ Len(running) <= MaxBatchSize /\ Len(decodePlan) + Len(prefillPlan) < scan
      /\ MaxBatchSize \in Nat /\ Len(decodePlan) \in Nat /\ Len(prefillPlan) \in Nat
      /\ Len(running) \in Nat
  BY <1>1, <1>2, ConfigAssumption DEF RowsInv, NumRows
<1>7. CASE decodePlan' = Append(decodePlan, r) /\ prefillPlan' = prefillPlan /\ budget' = budget
  <2>1. Len(decodePlan') = Len(decodePlan) + 1
    BY <1>2, <1>4, <1>7
  <2>2. RowsInv'
    BY <1>1, <1>2, <1>6, <1>7, <2>1 DEF RowsInv, NumRows
  <2>3. QED
    BY <1>7, <2>2 DEF TokensInv
<1>8. CASE /\ ~IsPrefillComplete(r) /\ budget > 0 /\ decodePlan' = decodePlan
           /\ prefillPlan' = Append(prefillPlan, item) /\ budget' = budget - chunk
  <2>1. /\ chunk \in Nat /\ chunk <= budget /\ chunk > 0
    BY <1>2, <1>5, <1>8 DEF IsPrefillComplete, Smaller
  <2> HIDE DEF chunk
  <2>2. item \in [req : Reqs, chunk : Nat] /\ item.chunk = chunk
    BY <1>4, <2>1
  <2> HIDE DEF item
  <2>3. /\ Len(prefillPlan') = Len(prefillPlan) + 1
        /\ \A k \in 1 .. Len(prefillPlan') : k \in 1 .. Len(prefillPlan) \/ k = Len(prefillPlan) + 1
        /\ \A k \in 1 .. Len(prefillPlan) : prefillPlan'[k] = prefillPlan[k]
        /\ prefillPlan'[Len(prefillPlan) + 1] = item
    BY <1>2, <1>8, <2>2, AppendFacts
  <2>4. RowsInv'
    BY <1>1, <1>2, <1>6, <1>8, <2>3 DEF RowsInv, NumRows
  <2>5. /\ IsFiniteSet(PlannedTokens(prefillPlan'))
        /\ Cardinality(PlannedTokens(prefillPlan')) = Cardinality(PlannedTokens(prefillPlan)) + chunk
        /\ Cardinality(PlannedTokens(prefillPlan)) \in Nat
    BY <1>2, <1>8, <2>2, ChunkAppended DEF TokensInv
  <2>6. Cardinality(PlannedTokens(prefillPlan')) + budget' <= MaxPrefillTokens
    BY <1>2, <1>8, <2>1, <2>5, ConfigAssumption DEF TokensInv
  <2>7. \A k \in 1 .. Len(prefillPlan') : prefillPlan'[k].chunk > 0
    BY <2>1, <2>2, <2>3 DEF TokensInv
  <2>8. QED
    BY <2>4, <2>5, <2>6, <2>7 DEF TokensInv
<1>9. CASE decodePlan' = decodePlan /\ prefillPlan' = prefillPlan /\ budget' = budget
  <2>1. RowsInv'
    BY <1>1, <1>2, <1>6, <1>9 DEF RowsInv, NumRows
  <2>2. QED
    BY <1>9, <2>1 DEF TokensInv
<1>10. QED
  BY <1>7, <1>8, <1>9 DEF ScanRunning, BudgetAfter, r

\* Admission adds a row to running and to the plan, and a chunk to its tokens.
LEMMA AdmitFits ==
  ASSUME TypeInv, RowsInv, TokensInv, AdmitRequest
  PROVE  RowsInv' /\ TokensInv'
<1> DEFINE r     == Head(pending)
           chunk == Smaller(promptLen[r], budget)
           item  == [req |-> r, chunk |-> chunk]
<1>1. /\ pc = "admit" /\ pending # <<>> /\ budget > 0 /\ Len(running) < MaxBatchSize
      /\ decodePlan' = decodePlan
  BY DEF AdmitRequest, CanAdmit
<1>2. /\ budget \in Nat /\ decodePlan \in Seq(Reqs)
      /\ prefillPlan \in Seq([req : Reqs, chunk : Nat])
      /\ running \in Seq(Reqs) /\ pending \in Seq(Reqs) /\ Sorted(pending)
  BY Parts, ConfigAssumption DEF PlanTypes, PoolTypes, QueueInv
<1>3. r \in Reqs /\ r = pending[1] /\ 1 \in 1 .. Len(pending)
  BY <1>1, <1>2, HeadTailFacts
<1>4. r < nextId
  BY <1>3, Parts DEF QueueInv
<1> HIDE DEF r
<1>5. promptLen[r] \in Nat /\ promptLen[r] >= 1
  BY <1>3, <1>4, Parts DEF RequestTypes, AcceptedInv
<1>6. /\ NumRows <= Len(running) /\ Len(decodePlan) \in Nat /\ Len(prefillPlan) \in Nat
      /\ Len(running) \in Nat /\ MaxBatchSize \in Nat
  BY <1>1, <1>2, ConfigAssumption DEF RowsInv
<1>7. CASE /\ prefillPlan' = Append(prefillPlan, item) /\ budget' = budget - chunk
           /\ running' = Append(running, r) /\ pc' = pc
  <2>1. chunk \in Nat /\ chunk <= budget /\ chunk > 0
    BY <1>1, <1>2, <1>5 DEF Smaller
  <2> HIDE DEF chunk
  <2>2. item \in [req : Reqs, chunk : Nat] /\ item.chunk = chunk
    BY <1>3, <2>1
  <2> HIDE DEF item
  <2>3. /\ Len(prefillPlan') = Len(prefillPlan) + 1
        /\ \A k \in 1 .. Len(prefillPlan') : k \in 1 .. Len(prefillPlan) \/ k = Len(prefillPlan) + 1
        /\ \A k \in 1 .. Len(prefillPlan) : prefillPlan'[k] = prefillPlan[k]
        /\ prefillPlan'[Len(prefillPlan) + 1] = item
    BY <1>2, <1>7, <2>2, AppendFacts
  <2>4. Len(running') = Len(running) + 1
    BY <1>2, <1>3, <1>7
  <2>5. RowsInv'
    BY <1>1, <1>6, <1>7, <2>3, <2>4 DEF RowsInv, NumRows
  <2>6. /\ IsFiniteSet(PlannedTokens(prefillPlan'))
        /\ Cardinality(PlannedTokens(prefillPlan')) = Cardinality(PlannedTokens(prefillPlan)) + chunk
        /\ Cardinality(PlannedTokens(prefillPlan)) \in Nat
    BY <1>2, <1>7, <2>2, ChunkAppended DEF TokensInv
  <2>7. Cardinality(PlannedTokens(prefillPlan')) + budget' <= MaxPrefillTokens
    BY <1>2, <1>7, <2>1, <2>6, ConfigAssumption DEF TokensInv
  <2>8. \A k \in 1 .. Len(prefillPlan') : prefillPlan'[k].chunk > 0
    BY <2>1, <2>2, <2>3 DEF TokensInv
  <2>9. QED
    BY <2>5, <2>6, <2>7, <2>8 DEF TokensInv
<1>8. CASE UNCHANGED <<running, budget, prefillPlan>> /\ pc' = "launch"
  BY <1>1, <1>8, FitsFrame
<1>9. QED
  BY <1>7, <1>8 DEF AdmitRequest, BudgetAfter, r

\* Every step keeps the plan within the batch.
LEMMA NextFits == TypeInv /\ RowsInv /\ TokensInv /\ [Next]_vars => RowsInv' /\ TokensInv'
<1> SUFFICES ASSUME TypeInv, RowsInv, TokensInv, [Next]_vars PROVE RowsInv' /\ TokensInv'
  OBVIOUS
<1>1. CASE ScanRunning
  BY <1>1, ScanFits
<1>2. CASE AdmitRequest
  BY <1>2, AdmitFits
<1>3. CASE BeginStep
  <2>1. /\ pc' = "scan" /\ scan' = 1 /\ budget' = MaxPrefillTokens /\ running' = running
        /\ decodePlan' = <<>> /\ prefillPlan' = <<>>
    BY <1>3 DEF BeginStep, poolVars
  <2>2. RowsInv'
    <3>1. Len(running) \in Nat
      BY Parts DEF PoolTypes
    <3>2. QED
      BY <2>1, <3>1, ConfigAssumption DEF RowsInv, NumRows
  <2>3. TokensInv'
    BY <2>1, EmptyFits, ConfigAssumption DEF TokensInv
  <2>4. QED
    BY <2>2, <2>3
<1>4. CASE ScanDone
  <2>1. /\ pc = "scan" /\ pc' = "admit" /\ scan > Len(running)
        /\ UNCHANGED <<running, budget, decodePlan, prefillPlan>>
    BY <1>4 DEF ScanDone, poolVars, planVars
  <2>2. scan \in Nat /\ Len(running) \in Nat /\ Len(decodePlan) \in Nat /\ Len(prefillPlan) \in Nat
    BY Parts DEF PlanTypes, PoolTypes
  <2>3. RowsInv'
    BY <2>1, <2>2 DEF RowsInv, NumRows
  <2>4. QED
    BY <2>1, <2>3 DEF TokensInv
<1>5. CASE RetireRequest
  <2>1. PICK i \in 1 .. Len(running) : running' = Without(running, i)
    BY <1>5 DEF RetireRequest
  <2>2. pc = "retire" /\ pc' = pc /\ UNCHANGED <<budget, decodePlan, prefillPlan>>
    BY <1>5 DEF RetireRequest, planVars
  <2>3. running \in Seq(Reqs)
    BY Parts DEF PoolTypes
  <2>4. Len(running') = Len(running) - 1 /\ Len(running) \in Nat
    <3> DEFINE front == SubSeq(running, 1, i - 1)
               back  == SubSeq(running, i + 1, Len(running))
    <3>1. front \in Seq(Reqs) /\ Len(front) = i - 1
      BY <2>3
    <3>2. back \in Seq(Reqs) /\ Len(back) = Len(running) - i
      BY <2>3
    <3>3. running' = front \o back
      BY <2>1 DEF Without
    <3> HIDE DEF front, back
    <3>4. QED
      BY <2>1, <2>3, <3>1, <3>2, <3>3
  <2>5. RowsInv'
    BY <2>2, <2>4, ConfigAssumption DEF RowsInv, NumRows
  <2>6. QED
    BY <2>2, <2>5 DEF TokensInv
<1>6. CASE Client
  BY <1>6, FitsFrame DEF Client, SubmitRequest, PopCompleted, poolVars, planVars
<1>7. CASE ReplayDecode \/ LaunchDecode \/ LaunchPrefill
  BY <1>7, FitsFrame DEF ReplayDecode, LaunchDecode, LaunchPrefill, poolVars, planVars
<1>8. CASE ReturnEmpty \/ EndStep \/ Failure
  BY <1>8, FitsClear DEF ReturnEmpty, EndStep, Failure, AdvanceThrows, CallbackFails, Catch, poolVars
<1>9. CASE LaunchMixed
  BY <1>9, FitsClear, FitsFrame DEF LaunchMixed, Catch, poolVars, planVars
<1>10. CASE DecodeReturns
  BY <1>10, FitsFrame DEF DecodeReturns, FinishStep, poolVars, planVars
<1>11. CASE PrefillReturns \/ MixedReturns
  BY <1>11, FitsFrame DEF PrefillReturns, MixedReturns, FinishStep, planVars
<1>12. CASE UNCHANGED vars
  BY <1>12, FitsFrame DEF vars, poolVars, planVars
<1>13. QED
  BY <1>1, <1>2, <1>3, <1>4, <1>5, <1>6, <1>7, <1>8, <1>9, <1>10, <1>11, <1>12
  DEF Next, Schedule, Launch, Compact

\* A plan never has more rows than the batch, nor more prompt tokens than a step
\* is given, and no row is without work: for every configuration, every prompt
\* and every pattern of failures.
THEOREM PlansFitBuffers == Spec => []PlanFitsBuffers
<1>1. Init => TypeInv /\ RowsInv /\ TokensInv
  BY InitTypeInv, InitFits
<1>2. TypeInv /\ RowsInv /\ TokensInv /\ [Next]_vars => (TypeInv /\ RowsInv /\ TokensInv)'
  BY NextTypeInv, NextFits
<1>3. TypeInv /\ RowsInv /\ TokensInv => PlanFitsBuffers
  <2> SUFFICES ASSUME TypeInv, RowsInv, TokensInv PROVE PlanFitsBuffers
    OBVIOUS
  <2>1. PlannedPrefillTokens = Cardinality(PlannedTokens(prefillPlan))
    BY DEF PlannedPrefillTokens, PlannedTokens
  <2>2. budget \in Nat
    BY Parts, ConfigAssumption DEF PlanTypes
  <2>3. Cardinality(PlannedTokens(prefillPlan)) \in Nat
    BY FS_CardinalityType DEF TokensInv
  <2>4. PlannedPrefillTokens <= MaxPrefillTokens
    BY <2>1, <2>2, <2>3, ConfigAssumption DEF TokensInv
  <2>5. QED
    BY <2>4 DEF RowsInv, TokensInv, PlanFitsBuffers
<1>4. QED
  BY <1>1, <1>2, <1>3, PTL DEF Spec

-----------------------------------------------------------------------------
(* ServedInOrder: prompts are begun in the order of arrival *)

\* The prompt of r is done, or will be with this plan.
Served(r) ==
  \/ IsPrefillComplete(r)
  \/ \E k \in 1 .. Len(prefillPlan) :
       prefillPlan[k].req = r /\ computed[r] + prefillPlan[k].chunk = promptLen[r]

\* The second half of ServedInOrder, by request instead of by index.
BegunInOrder ==
  \A r, q \in Reqs :
    InRunning(r) /\ InRunning(q) /\ r < q /\ computed[q] > 0 => IsPrefillComplete(r)

\* A plan cuts chunks in order, of prompts that are not done, and only once the
\* earlier ones are served.
PlanOrder ==
  pc # "retire" =>
    /\ \A k, l \in 1 .. Len(prefillPlan) : k < l => prefillPlan[k].req < prefillPlan[l].req
    /\ \A k \in 1 .. Len(prefillPlan) : ~IsPrefillComplete(prefillPlan[k].req)
    /\ \A i \in 1 .. Len(decodePlan) : IsPrefillComplete(decodePlan[i])
    /\ \A k \in 1 .. Len(prefillPlan) : \A r \in Reqs :
         InRunning(r) /\ r < prefillPlan[k].req => Served(r)

\* Budget is left over only once everything before is served.
Behind ==
  pc = "scan" =>
    /\ \A k \in 1 .. Len(prefillPlan) : \A i \in 1 .. Len(running) :
         i >= scan => prefillPlan[k].req < running[i]
    /\ budget > 0 => \A i \in 1 .. Len(running) : i < scan => Served(running[i])
AllServed == pc = "admit" /\ budget > 0 => \A r \in Reqs : InRunning(r) => Served(r)

OrderInv == BegunInOrder /\ PlanOrder /\ Behind /\ AllServed

\* Nothing has begun.
LEMMA InitOrder == Init => OrderInv
<1> SUFFICES ASSUME Init PROVE OrderInv
  OBVIOUS
<1>1. /\ running = <<>> /\ decodePlan = <<>> /\ prefillPlan = <<>> /\ pc = "idle"
      /\ Len(running) = 0 /\ Len(decodePlan) = 0 /\ Len(prefillPlan) = 0
  BY DEF Init
<1>2. QED
  BY <1>1 DEF OrderInv, BegunInOrder, PlanOrder, Behind, AllServed, InRunning

\* A step that leaves prompts, requests and plan alone.
LEMMA OrderFrame ==
  ASSUME OrderInv, UNCHANGED <<promptLen, running, computed, decodePlan, prefillPlan>>,
         pc # "retire" \/ pc' = "retire",
         pc' \notin {"scan", "admit"} \/ UNCHANGED <<pc, scan, budget>>
  PROVE  OrderInv'
<1>1. \A r : (Served(r)' <=> Served(r)) /\ (InRunning(r)' <=> InRunning(r))
            /\ (IsPrefillComplete(r)' <=> IsPrefillComplete(r))
  BY DEF Served, InRunning, IsPrefillComplete
<1>2. BegunInOrder'
  BY <1>1 DEF OrderInv, BegunInOrder
<1>3. PlanOrder'
  BY <1>1 DEF OrderInv, PlanOrder, IsPrefillComplete, Served, InRunning
<1>4. Behind'
  BY <1>1 DEF OrderInv, Behind, IsPrefillComplete, Served
<1>5. AllServed'
  BY <1>1 DEF OrderInv, AllServed
<1>6. QED
  BY <1>2, <1>3, <1>4, <1>5 DEF OrderInv

\* A step that starts with an empty plan, or ends with one.
LEMMA OrderClear ==
  ASSUME OrderInv, UNCHANGED <<promptLen, running, computed>>,
         decodePlan' = <<>>, prefillPlan' = <<>>,
         pc' = "idle" \/ (pc' = "scan" /\ scan' = 1)
  PROVE  OrderInv'
<1>1. Len(decodePlan') = 0 /\ Len(prefillPlan') = 0
  OBVIOUS
<1>2. BegunInOrder'
  BY DEF OrderInv, BegunInOrder, InRunning, IsPrefillComplete
<1>3. PlanOrder' /\ Behind' /\ AllServed'
  BY <1>1 DEF PlanOrder, Behind, AllServed
<1>4. QED
  BY <1>2, <1>3 DEF OrderInv

\* A new request is neither running nor planned.
LEMMA SubmitOrder ==
  ASSUME TypeInv, OrderInv, NEW shape \in Shapes, SubmitRequest(shape)
  PROVE  OrderInv'
<1>1. /\ pc \notin {"scan", "admit", "retire"} /\ pc' = pc
      /\ promptLen' = [promptLen EXCEPT ![nextId] = shape[1]]
      /\ running' = running /\ computed' = computed
      /\ decodePlan' = decodePlan /\ prefillPlan' = prefillPlan
  BY DEF SubmitRequest, ClientMayRun, planVars
<1>2. \A r : InRunning(r) => r \in Reqs /\ r < nextId
  BY Parts DEF InRunning, QueueInv, PoolTypes
<1>3. nextId \in Nat /\ promptLen \in [Reqs -> 0 .. MaxContextLength]
  BY Parts, ConfigAssumption DEF RequestTypes
<1>4. \A r : InRunning(r) => promptLen'[r] = promptLen[r]
  BY <1>1, <1>2, <1>3, ConfigAssumption DEF Reqs
<1>5. \A r : InRunning(r) => /\ IsPrefillComplete(r)' <=> IsPrefillComplete(r)
                             /\ Served(r)' <=> Served(r)
  BY <1>1, <1>4 DEF IsPrefillComplete, Served
<1>6. \A r : InRunning(r)' <=> InRunning(r)
  BY <1>1 DEF InRunning
<1>7. /\ \A i \in 1 .. Len(decodePlan) : InRunning(decodePlan[i])
      /\ \A k \in 1 .. Len(prefillPlan) : InRunning(prefillPlan[k].req)
  BY <1>1, Parts DEF PlanInv
<1>8. BegunInOrder'
  BY <1>1, <1>4, <1>6 DEF OrderInv, BegunInOrder, IsPrefillComplete
<1>9. PlanOrder'
  <2>1. \A k \in 1 .. Len(prefillPlan) :
          ~(computed[prefillPlan[k].req] >= promptLen'[prefillPlan[k].req])
    BY <1>1, <1>4, <1>7 DEF OrderInv, PlanOrder, IsPrefillComplete
  <2>2. \A i \in 1 .. Len(decodePlan) : computed[decodePlan[i]] >= promptLen'[decodePlan[i]]
    BY <1>1, <1>4, <1>7 DEF OrderInv, PlanOrder, IsPrefillComplete
  <2>3. \A k \in 1 .. Len(prefillPlan) : \A r \in Reqs :
          InRunning(r)' /\ r < prefillPlan[k].req => Served(r)'
    BY <1>1, <1>5, <1>6 DEF OrderInv, PlanOrder
  <2>4. QED
    BY <1>1, <2>1, <2>2, <2>3 DEF OrderInv, PlanOrder, IsPrefillComplete
<1>10. QED
  BY <1>1, <1>8, <1>9 DEF OrderInv, Behind, AllServed

\* One more chunk at the end of the plan takes nobody's service away, and ends
\* the prompt that it reaches the end of.
LEMMA ServedAppend ==
  ASSUME prefillPlan \in Seq([req : Reqs, chunk : Nat]), UNCHANGED <<promptLen, computed>>,
         NEW item \in [req : Reqs, chunk : Nat], prefillPlan' = Append(prefillPlan, item)
  PROVE  /\ \A r : Served(r) => Served(r)'
         /\ \A r : r = item.req /\ computed[r] + item.chunk = promptLen[r] => Served(r)'
<1>1. /\ Len(prefillPlan') = Len(prefillPlan) + 1 /\ Len(prefillPlan) \in Nat
      /\ \A k \in 1 .. Len(prefillPlan) : prefillPlan'[k] = prefillPlan[k]
      /\ prefillPlan'[Len(prefillPlan) + 1] = item
  BY AppendFacts
<1>2. /\ \A k \in 1 .. Len(prefillPlan) : k \in 1 .. Len(prefillPlan')
      /\ Len(prefillPlan) + 1 \in 1 .. Len(prefillPlan')
  BY <1>1
<1>3. \A r : IsPrefillComplete(r)' <=> IsPrefillComplete(r)
  BY DEF IsPrefillComplete
<1>4. QED
  BY <1>1, <1>2, <1>3 DEF Served

\* The scan serves the running requests front to back.
LEMMA ScanOrder ==
  ASSUME TypeInv, OrderInv, ScanRunning
  PROVE  OrderInv'
<1> DEFINE r     == running[scan]
           chunk == Smaller(promptLen[r] - computed[r], budget)
           item  == [req |-> r, chunk |-> chunk]
<1>1. /\ pc = "scan" /\ pc' = "scan" /\ scan <= Len(running) /\ scan' = scan + 1
      /\ UNCHANGED <<promptLen, running, computed>>
  BY DEF ScanRunning, poolVars, requestVars
<1>2. /\ scan \in Nat /\ budget \in Nat /\ decodePlan \in Seq(Reqs)
      /\ prefillPlan \in Seq([req : Reqs, chunk : Nat]) /\ running \in Seq(Reqs)
      /\ Sorted(running) /\ \A q \in Reqs : q \in Int
  BY Parts, ConfigAssumption DEF PlanTypes, PoolTypes, QueueInv, Reqs
<1>3. scan >= 1
  BY <1>1, Parts DEF CursorInv
<1>4. r \in Reqs /\ scan \in 1 .. Len(running)
  BY <1>1, <1>2, <1>3
<1>5. promptLen[r] \in Nat /\ computed[r] \in Nat
  BY <1>4, Parts DEF RequestTypes, PoolTypes
<1>6. /\ \A i \in 1 .. Len(running) : i < scan \/ i = scan \/ i >= scan + 1
      /\ \A i \in 1 .. Len(running) : i >= scan + 1 => r < running[i]
      /\ \A i \in 1 .. Len(running) : running[i] < r => i < scan
  <2>1. \A i \in 1 .. Len(running) : i < scan \/ i = scan \/ i >= scan + 1
    BY <1>2
  <2>2. \A i \in 1 .. Len(running) : i >= scan + 1 => r < running[i]
    BY <1>2, <1>4 DEF Sorted
  <2>3. \A i \in 1 .. Len(running) : running[i] \in Int
    BY <1>2
  <2>4. r \in Int
    BY <1>2, <1>4
  <2>5. \A i \in 1 .. Len(running) : running[i] < r => i < scan
    BY <2>1, <2>2, <2>3, <2>4
  <2>6. QED
    BY <2>1, <2>2, <2>5
<1>7. \A q : (IsPrefillComplete(q)' <=> IsPrefillComplete(q)) /\ (InRunning(q)' <=> InRunning(q))
  BY <1>1 DEF IsPrefillComplete, InRunning
<1>8. BegunInOrder' /\ AllServed'
  BY <1>1, <1>7 DEF OrderInv, BegunInOrder, AllServed
<1>9. /\ \A k, l \in 1 .. Len(prefillPlan) : k < l => prefillPlan[k].req < prefillPlan[l].req
      /\ \A k \in 1 .. Len(prefillPlan) : ~IsPrefillComplete(prefillPlan[k].req)
      /\ \A i \in 1 .. Len(decodePlan) : IsPrefillComplete(decodePlan[i])
      /\ \A k \in 1 .. Len(prefillPlan) : \A q \in Reqs :
           InRunning(q) /\ q < prefillPlan[k].req => Served(q)
      /\ \A k \in 1 .. Len(prefillPlan) : \A i \in 1 .. Len(running) :
           i >= scan => prefillPlan[k].req < running[i]
      /\ budget > 0 => \A i \in 1 .. Len(running) : i < scan => Served(running[i])
  BY <1>1 DEF OrderInv, PlanOrder, Behind
<1>a. \A i \in 1 .. Len(running) : i >= scan + 1 => i >= scan
  BY <1>2
<1>b. \A i \in 1 .. Len(running) : i < scan + 1 => i < scan \/ i = scan
  BY <1>2
<1>10. CASE /\ IsPrefillComplete(r) /\ decodePlan' = Append(decodePlan, r)
            /\ prefillPlan' = prefillPlan /\ budget' = budget
  <2>1. \A q : Served(q)' <=> Served(q)
    BY <1>1, <1>10 DEF Served, IsPrefillComplete
  <2>2. \A i \in 1 .. Len(decodePlan') : IsPrefillComplete(decodePlan'[i])
    <3> HIDE DEF r
    <3> QED BY <1>2, <1>4, <1>9, <1>10, AppendFacts
  <2>3. PlanOrder'
    BY <1>1, <1>7, <1>9, <1>10, <2>1, <2>2 DEF PlanOrder, IsPrefillComplete
  <2>4. \A i \in 1 .. Len(running) : i < scan + 1 /\ budget > 0 => Served(running[i])
    BY <1>9, <1>10, <1>b DEF Served
  <2>5. Behind'
    BY <1>1, <1>9, <1>10, <1>a, <2>1, <2>4 DEF Behind, Served, IsPrefillComplete
  <2>6. QED
    BY <1>8, <2>3, <2>5 DEF OrderInv
<1>11. CASE /\ ~IsPrefillComplete(r) /\ budget > 0 /\ decodePlan' = decodePlan
            /\ prefillPlan' = Append(prefillPlan, item) /\ budget' = budget - chunk
  <2>1. /\ chunk \in Nat
        /\ budget - chunk > 0 => computed[r] + chunk = promptLen[r]
    <3> DEFINE left == promptLen[r] - computed[r]
    <3>1. left \in Nat /\ computed[r] + left = promptLen[r]
      BY <1>5, <1>11 DEF IsPrefillComplete
    <3> HIDE DEF left
    <3>2. /\ Smaller(left, budget) \in Nat
          /\ budget - Smaller(left, budget) > 0 => Smaller(left, budget) = left
      BY <1>2, <3>1 DEF Smaller
    <3>3. QED
      BY <3>1, <3>2 DEF left
  <2> HIDE DEF chunk
  <2>2. item \in [req : Reqs, chunk : Nat] /\ item.chunk = chunk /\ item.req = r
    BY <1>4, <2>1
  <2> HIDE DEF item
  <2>3. /\ Len(prefillPlan') = Len(prefillPlan) + 1 /\ Len(prefillPlan) \in Nat
        /\ \A k \in 1 .. Len(prefillPlan') : k \in 1 .. Len(prefillPlan) \/ k = Len(prefillPlan) + 1
        /\ \A k \in 1 .. Len(prefillPlan) : prefillPlan'[k] = prefillPlan[k]
        /\ prefillPlan'[Len(prefillPlan) + 1] = item
    BY <1>2, <1>11, <2>2, AppendFacts
  <2>4. /\ \A q : Served(q) => Served(q)'
        /\ \A q : q = item.req /\ computed[q] + item.chunk = promptLen[q] => Served(q)'
    <3>1. /\ UNCHANGED <<promptLen, computed>> /\ prefillPlan' = Append(prefillPlan, item)
          /\ prefillPlan \in Seq([req : Reqs, chunk : Nat]) /\ item \in [req : Reqs, chunk : Nat]
      BY <1>1, <1>2, <1>11, <2>2
    <3>2. QED
      BY <3>1, ServedAppend, Zenon
  <2>5. \A k \in 1 .. Len(prefillPlan) : prefillPlan[k].req < r
    BY <1>2, <1>4, <1>9
  <2>6. \A q \in Reqs : InRunning(q) /\ q < r => Served(q)
    BY <1>6, <1>9, <1>11 DEF InRunning
  <2>7. \A k, l \in 1 .. Len(prefillPlan') : k < l => prefillPlan'[k].req < prefillPlan'[l].req
    <3> HIDE DEF r
    <3>1. \A k, l \in 1 .. Len(prefillPlan') :
            k < l => k \in 1 .. Len(prefillPlan)
      BY <2>3
    <3>2. QED
      BY <1>9, <2>2, <2>3, <2>5, <3>1
  <2>8. \A k \in 1 .. Len(prefillPlan') : ~IsPrefillComplete(prefillPlan'[k].req)
    <3> HIDE DEF r
    <3> QED BY <1>9, <1>11, <2>2, <2>3
  <2>9. \A k \in 1 .. Len(prefillPlan') : \A q \in Reqs :
          InRunning(q) /\ q < prefillPlan'[k].req => Served(q)
    <3> HIDE DEF r
    <3> QED BY <1>9, <2>2, <2>3, <2>6
  <2>10. PlanOrder'
    <3>1. /\ \A k \in 1 .. Len(prefillPlan') : ~(IsPrefillComplete(prefillPlan[k].req)')
          /\ \A i \in 1 .. Len(decodePlan') : IsPrefillComplete(decodePlan[i])'
      BY <1>1, <1>9, <1>11, <2>8 DEF IsPrefillComplete
    <3>2. \A k \in 1 .. Len(prefillPlan') : \A q \in Reqs :
            InRunning(q)' /\ q < prefillPlan'[k].req => Served(q)'
      BY <1>7, <2>4, <2>9
    <3>3. QED
      BY <2>7, <3>1, <3>2 DEF PlanOrder
  <2>11. \A k \in 1 .. Len(prefillPlan') : \A i \in 1 .. Len(running) :
           i >= scan + 1 => prefillPlan'[k].req < running[i]
    <3> HIDE DEF r
    <3> QED BY <1>6, <1>9, <1>a, <2>2, <2>3
  <2>12. budget - chunk > 0 => \A i \in 1 .. Len(running) : i < scan + 1 => Served(running[i])'
    <3>1. ASSUME budget - chunk > 0, NEW i \in 1 .. Len(running), i < scan + 1
          PROVE  Served(running[i])'
      <4>1. CASE i < scan
        <5>1. Served(running[i])
          BY <1>9, <1>11, <4>1
        <5>2. \A q : q = running[i] => Served(q)'
          BY <2>4, <5>1
        <5>3. QED
          BY <1>1, <5>2 DEF Served, IsPrefillComplete
      <4>2. CASE i = scan
        <5>1. \A q : q = r => Served(q)'
          <6> HIDE DEF r
          <6> QED BY <2>1, <2>2, <2>4, <3>1
        <5>2. QED
          BY <1>1, <4>2, <5>1 DEF Served, IsPrefillComplete
      <4>3. QED
        BY <1>b, <3>1, <4>1, <4>2
    <3>2. QED
      BY <3>1
  <2>13. Behind'
    BY <1>1, <1>11, <2>11, <2>12 DEF Behind, Served, IsPrefillComplete
  <2>14. QED
    BY <1>8, <2>10, <2>13 DEF OrderInv
<1>12. CASE ~(budget > 0) /\ UNCHANGED <<decodePlan, prefillPlan, budget>>
  <2>1. \A q : Served(q)' <=> Served(q)
    BY <1>1, <1>12 DEF Served, IsPrefillComplete
  <2>2. PlanOrder'
    BY <1>1, <1>7, <1>9, <1>12, <2>1 DEF PlanOrder, IsPrefillComplete
  <2>3. Behind'
    BY <1>1, <1>9, <1>12, <1>a DEF Behind
  <2>4. QED
    BY <1>8, <2>2, <2>3 DEF OrderInv
<1>13. QED
  BY <1>10, <1>11, <1>12 DEF ScanRunning, BudgetAfter, r

\* Admission goes on only while everything before is served.
LEMMA AdmitOrder ==
  ASSUME TypeInv, OrderInv, AdmitRequest
  PROVE  OrderInv'
<1> DEFINE r     == Head(pending)
           chunk == Smaller(promptLen[r], budget)
           item  == [req |-> r, chunk |-> chunk]
<1>1. /\ pc = "admit" /\ pending # <<>> /\ budget > 0 /\ decodePlan' = decodePlan
      /\ UNCHANGED <<promptLen, computed>>
  BY DEF AdmitRequest, CanAdmit, requestVars
<1>2. /\ budget \in Nat /\ decodePlan \in Seq(Reqs)
      /\ prefillPlan \in Seq([req : Reqs, chunk : Nat])
      /\ running \in Seq(Reqs) /\ pending \in Seq(Reqs) /\ Sorted(pending)
      /\ \A q \in Reqs : q \in Int
  BY Parts, ConfigAssumption DEF PlanTypes, PoolTypes, QueueInv, Reqs
<1>3. r \in Reqs /\ r = pending[1] /\ 1 \in 1 .. Len(pending)
  BY <1>1, <1>2, HeadTailFacts
<1>4. /\ r < nextId /\ status[r] = "PENDING" /\ computed[r] = 0
      /\ \A q : InRunning(q) => q \in Reqs /\ q < r
  BY <1>2, <1>3, Parts DEF QueueInv, WaitingInv, InRunning
<1> HIDE DEF r
<1>5. promptLen[r] \in Nat /\ promptLen[r] >= 1
  BY <1>3, <1>4, Parts DEF RequestTypes, AcceptedInv
<1>6. /\ \A k, l \in 1 .. Len(prefillPlan) : k < l => prefillPlan[k].req < prefillPlan[l].req
      /\ \A k \in 1 .. Len(prefillPlan) : ~IsPrefillComplete(prefillPlan[k].req)
      /\ \A i \in 1 .. Len(decodePlan) : IsPrefillComplete(decodePlan[i])
      /\ \A k \in 1 .. Len(prefillPlan) : \A q \in Reqs :
           InRunning(q) /\ q < prefillPlan[k].req => Served(q)
      /\ \A q \in Reqs : InRunning(q) => Served(q)
  BY <1>1 DEF OrderInv, PlanOrder, AllServed
<1>7. CASE /\ prefillPlan' = Append(prefillPlan, item) /\ budget' = budget - chunk
           /\ running' = Append(running, r) /\ pc' = pc
  <2>1. chunk \in Nat /\ (budget - chunk > 0 => computed[r] + chunk = promptLen[r])
    BY <1>2, <1>4, <1>5 DEF Smaller
  <2> HIDE DEF chunk
  <2>2. item \in [req : Reqs, chunk : Nat] /\ item.chunk = chunk /\ item.req = r
    BY <1>3, <2>1
  <2> HIDE DEF item
  <2>3. /\ Len(prefillPlan') = Len(prefillPlan) + 1 /\ Len(prefillPlan) \in Nat
        /\ \A k \in 1 .. Len(prefillPlan') : k \in 1 .. Len(prefillPlan) \/ k = Len(prefillPlan) + 1
        /\ \A k \in 1 .. Len(prefillPlan) : prefillPlan'[k] = prefillPlan[k]
        /\ prefillPlan'[Len(prefillPlan) + 1] = item
    BY <1>2, <1>7, <2>2, AppendFacts
  <2>4. /\ \A q : Served(q) => Served(q)'
        /\ \A q : q = item.req /\ computed[q] + item.chunk = promptLen[q] => Served(q)'
    <3>1. /\ UNCHANGED <<promptLen, computed>> /\ prefillPlan' = Append(prefillPlan, item)
          /\ prefillPlan \in Seq([req : Reqs, chunk : Nat]) /\ item \in [req : Reqs, chunk : Nat]
      BY <1>1, <1>2, <1>7, <2>2
    <3>2. QED
      BY <3>1, ServedAppend, Zenon
  <2>5. \A q : InRunning(q)' <=> InRunning(q) \/ q = r
    <3>1. /\ Len(running') = Len(running) + 1 /\ Len(running) \in Nat
          /\ \A i \in 1 .. Len(running) : running'[i] = running[i]
          /\ running'[Len(running) + 1] = r
          /\ \A i \in 1 .. Len(running') : i \in 1 .. Len(running) \/ i = Len(running) + 1
      BY <1>2, <1>3, <1>7, AppendFacts
    <3>2. /\ Len(running) + 1 \in 1 .. Len(running')
          /\ \A i \in 1 .. Len(running) : i \in 1 .. Len(running')
      BY <3>1
    <3>3. QED
      BY <3>1, <3>2 DEF InRunning
  <2>6. BegunInOrder'
    <3>1. ASSUME NEW x \in Reqs, NEW q \in Reqs, InRunning(x)', InRunning(q)', x < q, computed[q] > 0
          PROVE  computed[x] >= promptLen[x]
      <4>1. q # r
        BY <1>4, <3>1
      <4>2. InRunning(q) /\ q < r
        BY <1>4, <2>5, <3>1, <4>1
      <4>3. x # r
        BY <1>2, <3>1, <4>2
      <4>4. QED
        BY <2>5, <3>1, <4>2, <4>3 DEF OrderInv, BegunInOrder, IsPrefillComplete
    <3>2. QED
      BY <1>1, <3>1 DEF BegunInOrder, IsPrefillComplete
  <2>7. \A k \in 1 .. Len(prefillPlan) : prefillPlan[k].req < r
    <3>1. \A k \in 1 .. Len(prefillPlan) : InRunning(prefillPlan[k].req)
      BY <1>1, Parts DEF PlanInv
    <3>2. QED
      BY <1>4, <3>1
  <2>8. \A k, l \in 1 .. Len(prefillPlan') : k < l => prefillPlan'[k].req < prefillPlan'[l].req
    <3>1. \A k, l \in 1 .. Len(prefillPlan') :
            k < l => k \in 1 .. Len(prefillPlan)
      BY <2>3
    <3>2. QED
      BY <1>6, <2>2, <2>3, <2>7, <3>1
  <2>9. \A k \in 1 .. Len(prefillPlan') :
          ~(computed[prefillPlan'[k].req] >= promptLen[prefillPlan'[k].req])
    <3>1. ~(computed[r] >= promptLen[r])
      BY <1>4, <1>5
    <3>2. QED
      BY <1>6, <2>2, <2>3, <3>1 DEF IsPrefillComplete
  <2>10. \A k \in 1 .. Len(prefillPlan') : \A q \in Reqs :
           InRunning(q)' /\ q < prefillPlan'[k].req => Served(q)
    <3>1. ASSUME NEW k \in 1 .. Len(prefillPlan'), NEW q \in Reqs, InRunning(q)',
                 q < prefillPlan'[k].req
          PROVE  InRunning(q)
      <4>1. prefillPlan'[k].req \in Int /\ (prefillPlan'[k].req = r \/ prefillPlan'[k].req < r)
        <5>1. CASE k \in 1 .. Len(prefillPlan)
          <6>1. InRunning(prefillPlan[k].req)
            BY <1>1, <5>1, Parts DEF PlanInv
          <6>2. QED
            BY <1>2, <1>4, <2>3, <5>1, <6>1
        <5>2. CASE k = Len(prefillPlan) + 1
          BY <1>2, <1>3, <2>2, <2>3, <5>2
        <5>3. QED
          BY <2>3, <5>1, <5>2
      <4>2. q # r
        BY <1>2, <1>3, <3>1, <4>1
      <4>3. QED
        BY <2>5, <3>1, <4>2
    <3>2. QED
      BY <1>6, <3>1
  <2>11. PlanOrder'
    <3>1. \A i \in 1 .. Len(decodePlan) : computed[decodePlan[i]] >= promptLen[decodePlan[i]]
      BY <1>6 DEF IsPrefillComplete
    <3>2. \A k \in 1 .. Len(prefillPlan') : \A q \in Reqs :
            InRunning(q)' /\ q < prefillPlan'[k].req => Served(q)'
      BY <2>4, <2>10
    <3>3. QED
      BY <1>1, <2>8, <2>9, <3>1, <3>2 DEF PlanOrder, IsPrefillComplete
  <2>12. AllServed'
    <3>1. ASSUME budget - chunk > 0, NEW q \in Reqs, InRunning(q)'
          PROVE  Served(q)'
      <4>1. CASE q = r
        BY <2>1, <2>2, <2>4, <3>1, <4>1
      <4>2. CASE q # r
        BY <1>6, <2>4, <2>5, <3>1, <4>2
      <4>3. QED
        BY <4>1, <4>2
    <3>2. QED
      BY <1>7, <3>1 DEF AllServed
  <2>13. QED
    BY <1>1, <1>7, <2>6, <2>11, <2>12 DEF OrderInv, Behind
<1>8. CASE UNCHANGED <<running, prefillPlan>> /\ pc' = "launch"
  BY <1>1, <1>8, OrderFrame
<1>9. QED
  BY <1>7, <1>8 DEF AdmitRequest, BudgetAfter, r

\* update_requests moves a request that has one row on by that row's chunk.
LEMMA UpdateMoves ==
  ASSUME NEW tokens, UpdateRequests(tokens), NEW r \in Reqs, NEW k \in 1 .. NumRows,
         RowReq(k) = r, \A l \in 1 .. NumRows : RowReq(l) = r => l = k
  PROVE  computed'[r] = computed[r] + RowChunk(k)
<1> DEFINE row       == CHOOSE l \in 1 .. NumRows : RowReq(l) = r
           scheduled == {RowReq(l) : l \in 1 .. NumRows}
<1>1. r \in scheduled
  OBVIOUS
<1>2. row = k
  OBVIOUS
<1>3. computed'[r] = computed[r] + RowChunk(row)
  BY <1>1 DEF UpdateRequests
<1>4. QED
  BY <1>2, <1>3

\* When a step ends well, prompts have been moved on in order.
LEMMA FinishOrder ==
  ASSUME TypeInv, OrderInv, pc # "retire", NEW tokens, FinishStep(tokens), UNCHANGED requestVars
  PROVE  OrderInv'
<1>1. UpdateRequests(tokens) /\ pc' = "retire" /\ running' = running /\ promptLen' = promptLen
  BY DEF FinishStep, requestVars
<1>2. /\ decodePlan \in Seq(Reqs) /\ prefillPlan \in Seq([req : Reqs, chunk : Nat])
      /\ computed \in [Reqs -> Nat] /\ promptLen \in [Reqs -> 0 .. MaxContextLength]
  BY Parts DEF PlanTypes, PoolTypes, RequestTypes
<1>a. Len(decodePlan) \in Nat /\ Len(prefillPlan) \in Nat /\ \A q \in Reqs : q \in Int
  BY <1>2, ConfigAssumption DEF Reqs
<1>3. \A q \in Reqs : computed'[q] \in Nat /\ computed'[q] >= computed[q]
  <2>1. ASSUME NEW q \in Reqs
        PROVE  computed'[q] \in Nat /\ computed'[q] >= computed[q]
    <3>1. \A k \in 1 .. NumRows : RowChunk(k) \in Nat
      BY RowFacts
    <3>2. computed[q] \in Nat
      BY <1>2
    <3>3. computed'[q] = computed[q] \/ \E k \in 1 .. NumRows : computed'[q] = computed[q] + RowChunk(k)
      BY <1>1, UpdateFacts
    <3>4. QED
      BY <3>1, <3>2, <3>3
  <2>2. QED
    BY <2>1
<1>4. /\ \A k, l \in 1 .. Len(prefillPlan) : k < l => prefillPlan[k].req < prefillPlan[l].req
      /\ \A k \in 1 .. Len(prefillPlan) : ~IsPrefillComplete(prefillPlan[k].req)
      /\ \A i \in 1 .. Len(decodePlan) : IsPrefillComplete(decodePlan[i])
      /\ \A k \in 1 .. Len(prefillPlan) : \A q \in Reqs :
           InRunning(q) /\ q < prefillPlan[k].req => Served(q)
  BY DEF OrderInv, PlanOrder
<1>5. \A k \in 1 .. Len(prefillPlan) : prefillPlan[k].req \in Int
  <2>1. \A k \in 1 .. Len(prefillPlan) : InRunning(prefillPlan[k].req)
    BY Parts DEF PlanInv
  <2>2. \A q : InRunning(q) => q \in Reqs
    BY Parts DEF InRunning, PoolTypes
  <2>3. QED
    BY <1>a, <2>1, <2>2
<1>6. ASSUME NEW r \in Reqs, NEW q \in Reqs, InRunning(r), InRunning(q), r < q, computed'[q] > 0
      PROVE  computed'[r] >= promptLen[r]
  <2>1. computed[r] \in Nat /\ computed'[r] \in Nat /\ computed'[r] >= computed[r]
        /\ promptLen[r] \in Nat /\ computed[q] \in Nat
    BY <1>2, <1>3
  <2>2. CASE computed[q] > 0
    <3>1. computed[r] >= promptLen[r]
      BY <1>6, <2>2 DEF OrderInv, BegunInOrder, IsPrefillComplete
    <3>2. QED
      BY <2>1, <3>1
  <2>3. CASE IsPrefillComplete(r)
    BY <2>1, <2>3 DEF IsPrefillComplete
  <2>4. CASE computed[q] = 0 /\ ~IsPrefillComplete(r)
    <3>1. PICK k \in 1 .. NumRows : RowReq(k) = q /\ computed'[q] = computed[q] + RowChunk(k)
      BY <1>1, <1>6, <2>4, UpdateFacts
    <3>2. ~(k <= Len(decodePlan))
      BY <1>6, <2>4, <3>1 DEF RowChunk
    <3>3. k - Len(decodePlan) \in 1 .. Len(prefillPlan) /\ prefillPlan[k - Len(decodePlan)].req = q
      BY <1>a, <3>1, <3>2 DEF NumRows, RowReq
    <3>4. Served(r)
      BY <1>4, <1>6, <3>3
    <3>5. PICK l \in 1 .. Len(prefillPlan) :
            prefillPlan[l].req = r /\ computed[r] + prefillPlan[l].chunk = promptLen[r]
      BY <2>4, <3>4 DEF Served
    <3> DEFINE row == l + Len(decodePlan)
    <3>6. row \in 1 .. NumRows /\ ~(row <= Len(decodePlan)) /\ row - Len(decodePlan) = l
      BY <1>a, <3>5 DEF NumRows
    <3> HIDE DEF row
    <3>7. RowReq(row) = r /\ RowChunk(row) = prefillPlan[l].chunk
      BY <3>5, <3>6 DEF RowReq, RowChunk
    <3>8. ASSUME NEW j \in 1 .. NumRows, RowReq(j) = r
          PROVE  j = row
      <4>1. CASE j <= Len(decodePlan)
        <5>1. j \in 1 .. Len(decodePlan) /\ decodePlan[j] = r
          BY <1>a, <3>8, <4>1 DEF NumRows, RowReq
        <5>2. QED
          BY <1>4, <2>4, <5>1
      <4>2. CASE ~(j <= Len(decodePlan))
        <5> DEFINE m == j - Len(decodePlan)
        <5>1. m \in 1 .. Len(prefillPlan) /\ prefillPlan[m].req = r
          BY <1>a, <3>8, <4>2 DEF NumRows, RowReq
        <5> HIDE DEF m
        <5>2. prefillPlan[m].req = prefillPlan[l].req /\ prefillPlan[l].req \in Int
          BY <1>5, <3>5, <5>1
        <5>3. m = l
          BY <1>4, <3>5, <5>1, <5>2
        <5>4. QED
          BY <1>a, <3>6, <5>3 DEF m
      <4>3. QED
        BY <4>1, <4>2
    <3>9. computed'[r] = computed[r] + RowChunk(row)
      BY <1>1, <3>6, <3>7, <3>8, UpdateMoves
    <3>10. QED
      BY <2>1, <3>5, <3>7, <3>9
  <2>5. QED
    BY <2>1, <2>2, <2>3, <2>4
<1>7. BegunInOrder'
  BY <1>1, <1>6 DEF BegunInOrder, InRunning, IsPrefillComplete
<1>8. QED
  BY <1>1, <1>7 DEF OrderInv, PlanOrder, Behind, AllServed

\* Retirement only takes requests out.
LEMMA RetireOrder ==
  ASSUME TypeInv, OrderInv, RetireRequest
  PROVE  OrderInv'
<1>1. PICK i \in 1 .. Len(running) : running' = Without(running, i)
  BY DEF RetireRequest
<1>2. pc = "retire" /\ pc' = pc /\ promptLen' = promptLen /\ computed' = computed
  BY DEF RetireRequest, requestVars
<1>3. running \in Seq(Reqs) /\ Sorted(running)
  BY Parts DEF PoolTypes, QueueInv
<1>4. \A q : InRunning(q)' => InRunning(q)
  <2>1. \A q : (\E j \in 1 .. Len(Without(running, i)) : Without(running, i)[j] = q)
                 <=> (\E k \in 1 .. Len(running) : running[k] = q) /\ q # running[i]
    BY <1>3, WithoutMembers
  <2>2. QED
    BY <1>1, <2>1 DEF InRunning
<1>5. BegunInOrder'
  BY <1>2, <1>4 DEF OrderInv, BegunInOrder, IsPrefillComplete
<1>6. QED
  BY <1>2, <1>5 DEF OrderInv, PlanOrder, Behind, AllServed

\* Every step keeps the order.
LEMMA NextOrder == TypeInv /\ OrderInv /\ [Next]_vars => OrderInv'
<1> SUFFICES ASSUME TypeInv, OrderInv, [Next]_vars PROVE OrderInv'
  OBVIOUS
<1>1. CASE \E shape \in Shapes : SubmitRequest(shape)
  BY <1>1, SubmitOrder
<1>2. CASE ScanRunning
  BY <1>2, ScanOrder
<1>3. CASE AdmitRequest
  BY <1>3, AdmitOrder
<1>4. CASE RetireRequest
  BY <1>4, RetireOrder
<1>5. CASE ScanDone
  <2>1. /\ pc = "scan" /\ pc' = "admit" /\ scan > Len(running)
        /\ UNCHANGED <<promptLen, running, computed, budget, decodePlan, prefillPlan>>
    BY <1>5 DEF ScanDone, requestVars, poolVars, planVars
  <2>2. \A q : /\ Served(q)' <=> Served(q)
               /\ InRunning(q)' <=> InRunning(q)
               /\ IsPrefillComplete(q)' <=> IsPrefillComplete(q)
    BY <2>1 DEF Served, InRunning, IsPrefillComplete
  <2>3. scan \in Nat /\ Len(running) \in Nat
    BY Parts DEF PlanTypes, PoolTypes
  <2>4. \A i \in 1 .. Len(running) : i < scan
    BY <2>1, <2>3
  <2>5. BegunInOrder' /\ PlanOrder'
    BY <2>1, <2>2 DEF OrderInv, BegunInOrder, PlanOrder, IsPrefillComplete
  <2>6. AllServed'
    <3>1. budget > 0 => \A q : InRunning(q) => Served(q)
      BY <2>1, <2>4 DEF OrderInv, Behind, InRunning
    <3>2. QED
      BY <2>1, <2>2, <3>1 DEF AllServed
  <2>7. QED
    BY <2>1, <2>5, <2>6 DEF OrderInv, Behind
<1>6. CASE BeginStep
  BY <1>6, OrderClear DEF BeginStep, requestVars, poolVars
<1>7. CASE PopCompleted
  BY <1>7, OrderFrame DEF PopCompleted, ClientMayRun, requestVars, poolVars, planVars
<1>8. CASE ReplayDecode \/ LaunchDecode \/ LaunchPrefill
  <2>1. /\ pc' \in {"decode", "prefill"} /\ pc # "retire"
        /\ UNCHANGED <<promptLen, running, computed, decodePlan, prefillPlan>>
    BY <1>8, ScheduleDonePc DEF ReplayDecode, LaunchDecode, LaunchPrefill, requestVars, poolVars, planVars
  <2>2. QED
    BY <2>1, OrderFrame
<1>9. CASE ReturnEmpty \/ EndStep \/ Failure
  BY <1>9, OrderClear DEF ReturnEmpty, EndStep, Failure, AdvanceThrows, CallbackFails, Catch,
                          ClearPlan, requestVars, poolVars
<1>10. CASE LaunchMixed
  <2>1. \/ /\ pc' = "mixed" /\ pc # "retire"
           /\ UNCHANGED <<promptLen, running, computed, decodePlan, prefillPlan>>
        \/ Catch /\ UNCHANGED <<promptLen, running, computed>>
    BY <1>10, ScheduleDonePc DEF LaunchMixed, requestVars, poolVars, planVars
  <2>2. QED
    BY <2>1, OrderFrame, OrderClear DEF Catch, ClearPlan
<1>11. CASE DecodeReturns
  <2>1. pc = "decode" /\ UNCHANGED requestVars
    BY <1>11 DEF DecodeReturns
  <2>2. \/ /\ pc' = "prefill"
           /\ UNCHANGED <<promptLen, running, computed, decodePlan, prefillPlan>>
        \/ \E tokens : FinishStep(tokens)
    BY <1>11 DEF DecodeReturns, requestVars, poolVars, planVars
  <2>3. QED
    BY <2>1, <2>2, OrderFrame, FinishOrder
<1>12. CASE PrefillReturns \/ MixedReturns
  <2>1. pc # "retire" /\ UNCHANGED requestVars /\ \E tokens : FinishStep(tokens)
    BY <1>12 DEF PrefillReturns, MixedReturns
  <2>2. QED
    BY <2>1, FinishOrder
<1>13. CASE UNCHANGED vars
  BY <1>13, OrderFrame DEF vars, requestVars, poolVars, planVars
<1>14. QED
  BY <1>1, <1>2, <1>3, <1>4, <1>5, <1>6, <1>7, <1>8, <1>9, <1>10, <1>11, <1>12, <1>13
  DEF Next, Client, Schedule, Launch, Compact

\* Requests are admitted in the order they were accepted, and no prompt is begun
\* before all earlier ones are done, although steps fail, chunks are cut short by
\* the budget and requests leave in any order: for every configuration.
THEOREM RequestsServedInOrder == Spec => []ServedInOrder
<1>1. Init => TypeInv /\ OrderInv
  BY InitTypeInv, InitOrder
<1>2. TypeInv /\ OrderInv /\ [Next]_vars => (TypeInv /\ OrderInv)'
  BY NextTypeInv, NextOrder
<1>3. TypeInv /\ OrderInv => ServedInOrder
  <2> SUFFICES ASSUME TypeInv, OrderInv PROVE ServedInOrder
    OBVIOUS
  <2> DEFINE queue == running \o pending
             n     == Len(running)
  <2>1. /\ running \in Seq(Reqs) /\ pending \in Seq(Reqs) /\ Sorted(running) /\ Sorted(pending)
        /\ \A i \in 1 .. n : \A j \in 1 .. Len(pending) : running[i] < pending[j]
    BY Parts DEF PoolTypes, QueueInv
  <2>2. /\ n \in Nat /\ Len(pending) \in Nat /\ Len(queue) = n + Len(pending)
        /\ \A i \in 1 .. n : queue[i] = running[i]
        /\ \A i \in 1 .. Len(queue) : i <= n \/ (i - n \in 1 .. Len(pending) /\ queue[i] = pending[i - n])
    BY <2>1
  <2> HIDE DEF queue, n
  <2>3. ASSUME NEW i \in 1 .. Len(queue), NEW j \in 1 .. Len(queue), i < j
        PROVE  queue[i] < queue[j]
    <3>1. CASE i <= n /\ j <= n
      <4>1. i \in 1 .. n /\ j \in 1 .. n
        BY <2>2, <3>1
      <4>2. QED
        BY <2>1, <2>2, <2>3, <4>1 DEF Sorted, n
    <3>2. CASE i <= n /\ ~(j <= n)
      <4>1. i \in 1 .. n /\ j - n \in 1 .. Len(pending) /\ queue[j] = pending[j - n]
        BY <2>2, <3>2
      <4>2. QED
        BY <2>1, <2>2, <4>1
    <3>3. CASE ~(i <= n) /\ ~(j <= n)
      <4>1. /\ i - n \in 1 .. Len(pending) /\ queue[i] = pending[i - n]
            /\ j - n \in 1 .. Len(pending) /\ queue[j] = pending[j - n]
        BY <2>2, <3>3
      <4>2. i - n < j - n
        BY <2>2, <2>3
      <4>3. QED
        BY <2>1, <4>1, <4>2 DEF Sorted
    <3>4. QED
      BY <2>2, <2>3, <3>1, <3>2, <3>3
  <2>4. ASSUME NEW i \in 1 .. Len(running), NEW j \in 1 .. Len(running), i < j,
               computed[running[j]] > 0
        PROVE  IsPrefillComplete(running[i])
    <3>1. running[i] \in Reqs /\ running[j] \in Reqs /\ running[i] < running[j]
      BY <2>1, <2>4 DEF Sorted
    <3>2. InRunning(running[i]) /\ InRunning(running[j])
      BY DEF InRunning
    <3>3. QED
      BY <2>4, <3>1, <3>2 DEF OrderInv, BegunInOrder
  <2>5. QED
    BY <2>3, <2>4 DEF ServedInOrder, queue
<1>4. QED
  BY <1>1, <1>2, <1>3, PTL DEF Spec

==============================================================================
