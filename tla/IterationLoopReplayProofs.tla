----------------------- MODULE IterationLoopReplayProofs -----------------------
(***************************************************************************)
(* What the model calls are given and give, for every value of the         *)
(* constants, unless advance_decode_state throws: rows that advance in     *)
(* place are the rows a rebuild would give, the tokens sampled continue    *)
(* their own prompts, and the loop implements the service its clients see. *)
(* At the end, with throws or without: a step is never idle over work.     *)
(***************************************************************************)
EXTENDS IterationLoopProofs

\* The decode rows are planned in the order of running, so each request has one.
CohortInv ==
  /\ Sorted(decodePlan)
  /\ pc = "scan" => \A k \in 1 .. Len(decodePlan) : \A i \in 1 .. Len(running) :
       i >= scan => decodePlan[k] < running[i]

\* The call seeds, or has replayed, the stable state.
Seeded == ReuseStable /\ ~HasPrefill

\* The rows on the device are a rebuild's during a call; between the calls, one
\* advance makes them what a rebuild would give now, for each request of the
\* cohort that still runs.
DeviceInv ==
  /\ \A i \in 1 .. Len(stateIds) : status[stateIds[i]] # "PENDING"
  /\ pc \in {"prefill", "mixed"} => HasPrefill
  /\ pc = "decode" => /\ dev = DecodeRows(Seeded)
                      /\ Seeded => stateIds = decodePlan
  /\ stateValid /\ pc \notin {"decode", "prefill", "mixed"} =>
       /\ Len(dev) = Len(stateIds) /\ Len(retained) = Len(stateIds)
       /\ \A i \in 1 .. Len(stateIds) : InRunning(stateIds[i]) =>
            AdvanceRow(dev[i], retained[i]) = DecodeRow(stateIds[i], TRUE)

-----------------------------------------------------------------------------
(* The order of the cohort *)

\* A step that leaves running, or ends the scan, or gives the plan up.
LEMMA CohortFrame ==
  ASSUME CohortInv,
         \/ decodePlan' = decodePlan /\ (pc' # "scan" \/ UNCHANGED <<pc, scan, running>>)
         \/ decodePlan' = <<>>
  PROVE  CohortInv'
<1>1. CASE decodePlan' = decodePlan /\ (pc' # "scan" \/ UNCHANGED <<pc, scan, running>>)
  BY <1>1 DEF CohortInv, Sorted
<1>2. CASE decodePlan' = <<>>
  <2>1. Len(decodePlan') = 0
    BY <1>2
  <2>2. QED
    BY <2>1 DEF CohortInv, Sorted
<1>3. QED
  BY <1>1, <1>2

\* The scan plans the running requests in their order.
LEMMA ScanCohort ==
  ASSUME TypeInv, CohortInv, ScanRunning
  PROVE  CohortInv'
<1> DEFINE r == running[scan]
<1>1. /\ pc = "scan" /\ pc' = "scan" /\ scan <= Len(running) /\ scan' = scan + 1
      /\ running' = running
      /\ decodePlan' = decodePlan \/ decodePlan' = Append(decodePlan, r)
  BY DEF ScanRunning, poolVars
<1>2. /\ scan \in Nat /\ decodePlan \in Seq(Reqs) /\ running \in Seq(Reqs) /\ Sorted(running)
  BY Parts DEF PlanTypes, PoolTypes, QueueInv
<1>3. scan >= 1
  BY <1>1, Parts DEF CursorInv
<1>4. r \in Reqs /\ scan \in 1 .. Len(running)
  BY <1>1, <1>2, <1>3
<1>5. /\ \A i \in 1 .. Len(running) : i >= scan + 1 => i >= scan /\ r < running[i]
      /\ \A k \in 1 .. Len(decodePlan) : decodePlan[k] < r
  BY <1>1, <1>2, <1>4 DEF Sorted, CohortInv
<1> HIDE DEF r
<1>6. CASE decodePlan' = decodePlan
  BY <1>1, <1>5, <1>6 DEF CohortInv, Sorted
<1>7. CASE decodePlan' = Append(decodePlan, r)
  <2>1. Sorted(decodePlan')
    BY <1>2, <1>4, <1>5, <1>7, SortedAppend DEF CohortInv
  <2>2. \A k \in 1 .. Len(decodePlan') : decodePlan'[k] = r \/ \E l \in 1 .. Len(decodePlan) : decodePlan'[k] = decodePlan[l]
    BY <1>2, <1>4, <1>7, AppendFacts
  <2>3. \A k \in 1 .. Len(decodePlan') : \A i \in 1 .. Len(running) :
          i >= scan + 1 => decodePlan'[k] < running[i]
    BY <1>1, <1>5, <2>2 DEF CohortInv
  <2>4. QED
    BY <1>1, <2>1, <2>3 DEF CohortInv
<1>8. QED
  BY <1>1, <1>6, <1>7

\* Every step keeps the cohort in order.
LEMMA NextCohort == TypeInv /\ CohortInv /\ [Next]_vars => CohortInv'
<1> SUFFICES ASSUME TypeInv, CohortInv, [Next]_vars PROVE CohortInv'
  OBVIOUS
<1>1. CASE ScanRunning
  BY <1>1, ScanCohort
<1>2. CASE BeginStep \/ ReturnEmpty \/ EndStep \/ AdvanceThrows
  BY <1>2, CohortFrame DEF BeginStep, ReturnEmpty, EndStep, AdvanceThrows, ClearPlan
<1>3. CASE ScanDone \/ AdmitRequest
  BY <1>3, CohortFrame DEF ScanDone, AdmitRequest, planVars
<1>4. CASE Client
  <2>1. pc' # "scan" /\ decodePlan' = decodePlan
    BY <1>4 DEF Client, SubmitRequest, PopCompleted, ClientMayRun, planVars
  <2>2. QED
    BY <2>1, CohortFrame
<1>5. CASE ReplayDecode \/ LaunchDecode \/ LaunchPrefill
  <2>1. pc' # "scan" /\ decodePlan' = decodePlan
    BY <1>5 DEF ReplayDecode, LaunchDecode, LaunchPrefill, planVars
  <2>2. QED
    BY <2>1, CohortFrame
<1>6. CASE LaunchMixed
  <2>1. (pc' # "scan" /\ decodePlan' = decodePlan) \/ decodePlan' = <<>>
    BY <1>6 DEF LaunchMixed, Catch, ClearPlan, planVars
  <2>2. QED
    BY <2>1, CohortFrame
<1>7. CASE CallbackFails
  <2>1. decodePlan' = <<>>
    BY <1>7 DEF CallbackFails, Catch, ClearPlan
  <2>2. QED
    BY <2>1, CohortFrame
<1>8. CASE DecodeReturns \/ PrefillReturns \/ MixedReturns
  <2>1. pc' # "scan" /\ decodePlan' = decodePlan
    BY <1>8 DEF DecodeReturns, PrefillReturns, MixedReturns, FinishStep, planVars
  <2>2. QED
    BY <2>1, CohortFrame
<1>9. CASE RetireRequest
  <2>1. pc' # "scan" /\ decodePlan' = decodePlan
    BY <1>9 DEF RetireRequest, planVars
  <2>2. QED
    BY <2>1, CohortFrame
<1>10. CASE UNCHANGED vars
  BY <1>10, CohortFrame DEF vars, poolVars, planVars
<1>11. QED
  BY <1>1, <1>2, <1>3, <1>4, <1>5, <1>6, <1>7, <1>8, <1>9, <1>10
  DEF Next, Schedule, Launch, Compact, Failure

-----------------------------------------------------------------------------
(* One row *)

\* A row depends on its request only.
LEMMA RowFrame ==
  ASSUME NEW r, promptLen'[r] = promptLen[r], outputs'[r] = outputs[r], blocks'[r] = blocks[r]
  PROVE  DecodeRow(r, TRUE)' = DecodeRow(r, TRUE) /\ DecodeRow(r, FALSE)' = DecodeRow(r, FALSE)
BY DEF DecodeRow, TotalTokens, LastToken

\* The heart of replay: a row that advances with the token its request has just
\* been given is the row that request has now.
LEMMA AdvanceIsRebuild ==
  ASSUME TypeInv, pc # "retire", NEW r \in Reqs, InRunning(r), NEW token \in Tokens,
         promptLen'[r] = promptLen[r], blocks'[r] = blocks[r],
         outputs'[r] = Append(outputs[r], token)
  PROVE  AdvanceRow(DecodeRow(r, TRUE), Place(token)) = DecodeRow(r, TRUE)'
<1> DEFINE total == TotalTokens(r)
           table == SubSeq(blocks[r], 1, Len(blocks[r]))
           last  == [id |-> LastToken(r), pos |-> total - 1, slot |-> SlotAt(blocks[r], total - 1)]
           next  == [id |-> Place(token), pos |-> total, slot |-> SlotAt(blocks[r], total)]
           row   == [toks |-> <<last>>, len |-> total, table |-> table]
           new   == [toks |-> <<next>>, len |-> total + 1, table |-> table]
<1>1. total \in Nat \ {0}
  BY DecodeContext
<1>2. outputs[r] \in Seq(Tokens) /\ blocks[r] \in Seq(Blocks) /\ promptLen[r] \in Nat
  BY Parts DEF PoolTypes, RequestTypes
<1>3. table = blocks[r]
  BY <1>2
<1>4. /\ outputs'[r] # <<>> /\ Len(outputs'[r]) = Len(outputs[r]) + 1
      /\ outputs'[r][Len(outputs'[r])] = token
  BY <1>2
<1>5. LastToken(r)' = Place(token)
  BY <1>4 DEF LastToken, Place
<1>6. TotalTokens(r)' = total + 1
  BY <1>2, <1>4 DEF TotalTokens
<1> HIDE DEF total
<1>7. DecodeRow(r, TRUE) = row
  BY DEF DecodeRow, total
<1>8. (total + 1) - 1 = total /\ (total - 1) + 1 = total
  BY <1>1
<1>9. DecodeRow(r, TRUE)' = new
  <2>1. SlotAt(blocks[r], TotalTokens(r) - 1)' = SlotAt(blocks[r], total)
    BY <1>6, <1>8 DEF SlotAt
  <2>2. QED
    BY <1>5, <1>6, <1>8, <2>1 DEF DecodeRow
<1>10. AdvanceRow(row, Place(token)) = new
  <2>1. row.toks[1].pos + 1 = total /\ row.len = total /\ row.table = table
    BY <1>8
  <2>2. SlotAt(row.table, row.toks[1].pos + 1) = SlotAt(blocks[r], total)
    BY <1>3, <2>1
  <2> HIDE DEF row
  <2>3. QED
    BY <2>1, <2>2 DEF AdvanceRow
<1>11. QED
  BY <1>7, <1>9, <1>10

\* The whole reserved table serves as well as the part of it that is in use.
LEMMA ReservedIsSame ==
  ASSUME TypeInv, pc # "retire", NEW r \in Reqs, InRunning(r), NEW reserved \in BOOLEAN
  PROVE  SameRow(DecodeRow(r, reserved), DecodeRow(r, FALSE))
<1> DEFINE total == TotalTokens(r)
           used  == CeilDiv(total, BlockSize)
           table == IF reserved THEN SubSeq(blocks[r], 1, Len(blocks[r])) ELSE SubSeq(blocks[r], 1, used)
<1>1. total \in Nat \ {0} /\ total <= promptLen[r] + maxOutput[r]
  BY DecodeContext
<1>2. blocks[r] \in Seq(Blocks)
  BY Parts DEF PoolTypes
<1> HIDE DEF total
<1>3. used \in 0 .. Len(blocks[r])
  BY <1>1, ContextFits
<1> HIDE DEF used
<1>4. SubSeq(table, 1, Len(SubSeq(blocks[r], 1, used))) = SubSeq(blocks[r], 1, used)
  <2>1. /\ Len(SubSeq(blocks[r], 1, used)) = used
        /\ SubSeq(blocks[r], 1, used) \in Seq(Blocks)
    BY <1>2, <1>3
  <2>2. SubSeq(blocks[r], 1, Len(blocks[r])) = blocks[r]
    BY <1>2
  <2>3. SubSeq(SubSeq(blocks[r], 1, used), 1, used) = SubSeq(blocks[r], 1, used)
    BY <1>2, <1>3
  <2>4. QED
    BY <2>1, <2>2, <2>3
<1>5. /\ DecodeRow(r, reserved).toks = DecodeRow(r, FALSE).toks
      /\ DecodeRow(r, reserved).len = DecodeRow(r, FALSE).len
  BY DEF DecodeRow
<1>6. DecodeRow(r, reserved).table = table /\ DecodeRow(r, FALSE).table = SubSeq(blocks[r], 1, used)
  BY DEF DecodeRow, total, used
<1> HIDE DEF table
<1>7. QED
  BY <1>4, <1>5, <1>6 DEF SameRow

-----------------------------------------------------------------------------
(* The steps *)

InCall == pc \in {"decode", "prefill", "mixed"}

\* What a row is built from stays.
SameRequest(r) ==
  promptLen'[r] = promptLen[r] /\ outputs'[r] = outputs[r] /\ blocks'[r] = blocks[r]

\* The rows of a plan whose requests stay.
LEMMA RowsFrame ==
  ASSUME UNCHANGED <<decodePlan, prefillPlan>>,
         \A i \in 1 .. Len(decodePlan) : SameRequest(decodePlan[i])
  PROVE  DecodeRows(Seeded)' = DecodeRows(Seeded)
<1>1. Seeded' = Seeded
  BY DEF Seeded, HasPrefill
<1>2. ASSUME NEW i \in 1 .. Len(decodePlan)
      PROVE  DecodeRow(decodePlan[i], Seeded)' = DecodeRow(decodePlan[i], Seeded)
  BY <1>1, <1>2 DEF SameRequest, DecodeRow, TotalTokens, LastToken
<1>3. QED
  BY <1>2 DEF DecodeRows

\* A step outside the calls, or of a client during one, that touches no row of
\* the device and no request of the cohort but those that leave.
LEMMA DeviceFrame ==
  ASSUME TypeInv, DeviceInv, UNCHANGED <<dev, stateValid, stateIds, retained>>,
         \A r \in Reqs : status[r] # "PENDING" =>
                  /\ status'[r] # "PENDING"
                  /\ InRunning(r)' => InRunning(r) /\ SameRequest(r),
         \/ ~InCall /\ ~InCall'
         \/ /\ UNCHANGED <<pc, decodePlan, prefillPlan>>
            /\ \A i \in 1 .. Len(decodePlan) : SameRequest(decodePlan[i])
  PROVE  DeviceInv'
<1>0. \A i \in 1 .. Len(stateIds) : stateIds[i] \in Reqs
  BY Parts DEF DeviceTypes
<1>1. \A i \in 1 .. Len(stateIds') : status'[stateIds'[i]] # "PENDING"
  BY <1>0 DEF DeviceInv
<1>2. pc' \in {"prefill", "mixed"} => HasPrefill'
  BY DEF DeviceInv, InCall, HasPrefill
<1>3. pc' = "decode" => dev' = DecodeRows(Seeded)' /\ (Seeded' => stateIds' = decodePlan')
  BY RowsFrame DEF DeviceInv, InCall, Seeded, HasPrefill
<1>4. ASSUME stateValid', ~InCall', NEW i \in 1 .. Len(stateIds), InRunning(stateIds[i])'
      PROVE  AdvanceRow(dev[i], retained[i]) = DecodeRow(stateIds[i], TRUE)'
  <2>1. PICK r \in Reqs : r = stateIds[i]
    BY <1>0
  <2>2. status[r] # "PENDING" /\ InRunning(r)'
    BY <1>4, <2>1 DEF DeviceInv, InRunning
  <2>3. InRunning(r) /\ SameRequest(r)
    BY <2>2
  <2>4. AdvanceRow(dev[i], retained[i]) = DecodeRow(r, TRUE)
    BY <1>4, <2>1, <2>3 DEF DeviceInv, InCall
  <2>5. DecodeRow(r, TRUE)' = DecodeRow(r, TRUE)
    BY <2>3, RowFrame DEF SameRequest
  <2>6. DecodeRow(stateIds[i], TRUE)' = DecodeRow(r, TRUE)'
    BY <2>1 DEF DecodeRow, TotalTokens, LastToken
  <2>7. QED
    BY <2>4, <2>5, <2>6
<1>5. stateValid' /\ ~InCall' =>
        /\ Len(dev') = Len(stateIds') /\ Len(retained') = Len(stateIds')
        /\ \A i \in 1 .. Len(stateIds') : InRunning(stateIds[i])' =>
             AdvanceRow(dev'[i], retained'[i]) = DecodeRow(stateIds[i], TRUE)'
  BY <1>4 DEF DeviceInv, InCall
<1>6. QED
  BY <1>1, <1>2, <1>3, <1>5 DEF DeviceInv, InCall

\* A step that ends the call with the state given up.
LEMMA DeviceDropped ==
  ASSUME TypeInv, DeviceInv, stateIds' = stateIds, stateValid' = FALSE, ~InCall',
         \A r \in Reqs : status[r] # "PENDING" => status'[r] # "PENDING"
  PROVE  DeviceInv'
<1>1. \A i \in 1 .. Len(stateIds) : stateIds[i] \in Reqs
  BY Parts DEF DeviceTypes
<1>2. QED
  BY <1>1 DEF DeviceInv, InCall

\* Nothing is retained at first.
LEMMA InitDevice == Init => CohortInv /\ DeviceInv
<1> SUFFICES ASSUME Init PROVE CohortInv /\ DeviceInv
  OBVIOUS
<1>1. /\ pc = "idle" /\ decodePlan = <<>> /\ stateIds = <<>> /\ stateValid = FALSE
      /\ Len(decodePlan) = 0 /\ Len(stateIds) = 0
  BY DEF Init
<1>2. QED
  BY <1>1 DEF CohortInv, DeviceInv, Sorted

\* A new request is in no cohort.
LEMMA SubmitDevice ==
  ASSUME TypeInv, DeviceInv, NEW shape \in Shapes, SubmitRequest(shape)
  PROVE  DeviceInv'
<1>1. /\ pc \notin {"scan", "admit", "launch", "retire"} /\ pc' = pc
      /\ promptLen' = [promptLen EXCEPT ![nextId] = shape[1]]
      /\ UNCHANGED <<running, status, outputs, blocks, decodePlan, prefillPlan,
                     dev, stateValid, stateIds, retained>>
  BY DEF SubmitRequest, ClientMayRun, planVars, deviceVars
<1>2. \A r : InRunning(r) => r \in Reqs /\ r < nextId
  BY Parts DEF InRunning, QueueInv, PoolTypes
<1>3. nextId \in Nat /\ promptLen \in [Reqs -> 0 .. MaxContextLength]
  BY Parts, ConfigAssumption DEF RequestTypes
<1>4. \A r : InRunning(r) => SameRequest(r)
  BY <1>1, <1>2, <1>3, ConfigAssumption DEF Reqs, SameRequest
<1>5. \A r : InRunning(r)' <=> InRunning(r)
  BY <1>1 DEF InRunning
<1>6. \A i \in 1 .. Len(decodePlan) : InRunning(decodePlan[i])
  BY <1>1, Parts DEF PlanInv
<1>7. (~InCall /\ ~InCall') \/ UNCHANGED <<pc, decodePlan, prefillPlan>>
  BY <1>1
<1>8. QED
  BY <1>1, <1>4, <1>5, <1>6, <1>7, DeviceFrame

\* A request that is admitted was in no cohort yet.
LEMMA AdmitDevice ==
  ASSUME TypeInv, DeviceInv, AdmitRequest
  PROVE  DeviceInv'
<1> DEFINE h == Head(pending)
<1>1. /\ pc = "admit" /\ pending # <<>> /\ pc' \in {"admit", "launch"}
      /\ UNCHANGED <<promptLen, outputs, dev, stateValid, stateIds, retained>>
      /\ \/ /\ blocks' = [blocks EXCEPT ![h] = PopBlocks(BlocksNeeded(h))]
            /\ status' = [status EXCEPT ![h] = "PREFILLING"]
            /\ running' = Append(running, h)
         \/ UNCHANGED <<blocks, status, running>>
  BY DEF AdmitRequest, CanAdmit, requestVars, deviceVars
<1>2. /\ pending \in Seq(Reqs) /\ running \in Seq(Reqs) /\ Sorted(pending)
      /\ status \in [Reqs -> {"PENDING", "PREFILLING", "DECODING", "COMPLETED"}]
      /\ blocks \in [Reqs -> Seq(Blocks)]
  BY Parts DEF PoolTypes, QueueInv
<1>3. h \in Reqs /\ status[h] = "PENDING"
  BY <1>1, <1>2, HeadTailFacts, Parts DEF WaitingInv
<1> HIDE DEF h
<1>4. ASSUME NEW r \in Reqs, status[r] # "PENDING"
      PROVE  /\ status'[r] # "PENDING"
             /\ InRunning(r)' => InRunning(r) /\ SameRequest(r)
  <2>1. r # h
    BY <1>3, <1>4
  <2>2. status'[r] = status[r] /\ SameRequest(r)
    BY <1>1, <1>2, <1>4, <2>1 DEF SameRequest
  <2>3. InRunning(r)' => InRunning(r)
    <3>1. ASSUME NEW k \in 1 .. Len(running'), running'[k] = r
          PROVE  \E j \in 1 .. Len(running) : running[j] = r
      <4>1. CASE running' = running
        BY <3>1, <4>1
      <4>2. CASE running' = Append(running, h)
        <5>1. k \in 1 .. Len(running) \/ running'[k] = h
          BY <1>2, <1>3, <4>2, AppendFacts
        <5>2. k \in 1 .. Len(running) => running'[k] = running[k]
          BY <1>2, <1>3, <4>2, AppendFacts
        <5>3. QED
          BY <2>1, <3>1, <5>1, <5>2
      <4>3. QED
        BY <1>1, <4>1, <4>2
    <3>2. QED
      BY <3>1 DEF InRunning
  <2>4. QED
    BY <1>4, <2>2, <2>3
<1>5. ~InCall /\ ~InCall'
  BY <1>1 DEF InCall
<1>6. QED
  BY <1>1, <1>4, <1>5, DeviceFrame

\* A replay advances the rows of its own cohort to those a rebuild would give.
LEMMA ReplayDevice ==
  ASSUME TypeInv, DeviceInv, ReplayDecode
  PROVE  DeviceInv'
<1>1. /\ pc \in {"launch", "admit"} /\ pc' = "decode" /\ stateValid /\ ReuseStable /\ ~HasPrefill
      /\ stateIds = decodePlan
      /\ dev' = [i \in 1 .. Len(decodePlan) |-> AdvanceRow(DevRow(i), retained[i])]
      /\ UNCHANGED <<promptLen, status, outputs, blocks, decodePlan, prefillPlan, stateIds>>
  BY ScheduleDonePc DEF ReplayDecode, CanReuseDecodeState, requestVars, poolVars, planVars
<1>2. DecodeRows(Seeded)' = DecodeRows(Seeded)
  BY <1>1, RowsFrame DEF SameRequest
<1>3. Seeded
  BY <1>1 DEF Seeded
<1>4. ASSUME NEW i \in 1 .. Len(decodePlan)
      PROVE  AdvanceRow(DevRow(i), retained[i]) = DecodeRow(decodePlan[i], Seeded)
  <2>1. InRunning(decodePlan[i])
    BY <1>1, Parts DEF PlanInv
  <2>2. Len(dev) = Len(stateIds) /\ AdvanceRow(dev[i], retained[i]) = DecodeRow(decodePlan[i], TRUE)
    BY <1>1, <2>1 DEF DeviceInv
  <2>3. DevRow(i) = dev[i]
    BY <1>1, <2>2 DEF DevRow
  <2>4. Seeded = TRUE
    BY <1>3, Zenon DEF Seeded
  <2>5. QED
    BY <2>2, <2>3, <2>4
<1>5. dev' = DecodeRows(Seeded)
  BY <1>1, <1>4 DEF DecodeRows
<1>6. QED
  BY <1>1, <1>2, <1>5 DEF DeviceInv

\* Rows that are built are a rebuild's.
LEMMA LaunchDevice ==
  ASSUME TypeInv, DeviceInv, LaunchDecode
  PROVE  DeviceInv'
<1>1. /\ pc \in {"launch", "admit"} /\ pc' = "decode" /\ dev' = DecodeRows(Seeded)
      /\ stateIds' = IF Seeded THEN decodePlan ELSE stateIds
      /\ UNCHANGED <<promptLen, status, outputs, blocks, decodePlan, prefillPlan>>
  BY ScheduleDonePc DEF LaunchDecode, Seeded, requestVars, poolVars, planVars
<1>2. DecodeRows(Seeded)' = DecodeRows(Seeded)
  BY <1>1, RowsFrame DEF SameRequest
<1>3. Seeded' <=> Seeded
  BY <1>1 DEF Seeded, HasPrefill
<1>4. \A i \in 1 .. Len(decodePlan) : status[decodePlan[i]] # "PENDING"
  BY <1>1, Parts DEF PlanInv, InRunning, RunningInv
<1>5. QED
  BY <1>1, <1>2, <1>3, <1>4 DEF DeviceInv

\* The row of update_requests that ends or passes its prompt gives its token.
LEMMA UpdateExtends ==
  ASSUME NEW tokens, UpdateRequests(tokens), NEW r \in Reqs, NEW k \in 1 .. NumRows,
         RowReq(k) = r, \A l \in 1 .. NumRows : RowReq(l) = r => l = k,
         computed[r] + RowChunk(k) >= promptLen[r]
  PROVE  outputs'[r] = Append(outputs[r], tokens[k])
<1> DEFINE row       == CHOOSE l \in 1 .. NumRows : RowReq(l) = r
           scheduled == {RowReq(l) : l \in 1 .. NumRows}
<1>1. r \in scheduled /\ row = k
  OBVIOUS
<1>2. outputs'[r] = Append(outputs[r], tokens[row])
  BY <1>1 DEF UpdateRequests
<1>3. QED
  BY <1>1, <1>2

\* Nobody goes back to waiting at the end of a step.
LEMMA FinishStatus ==
  ASSUME NEW tokens, UpdateRequests(tokens), NEW r \in Reqs, status[r] # "PENDING"
  PROVE  status'[r] # "PENDING"
BY UpdateFacts

\* A decode-only step that ends well leaves the rows one advance short of what
\* its requests are now.
LEMMA FinishDevice ==
  ASSUME TypeInv, OrderInv, CohortInv, DeviceInv, pc = "decode", ~HasPrefill, Seeded,
         NEW tokens \in Seq(Tokens), Len(tokens) = Len(decodePlan),
         UpdateRequests(tokens), pc' = "retire",
         retained' = [i \in 1 .. Len(decodePlan) |-> Place(tokens[i])],
         UNCHANGED <<promptLen, blocks, running, dev, stateIds>>
  PROVE  DeviceInv'
<1>1. /\ decodePlan \in Seq(Reqs) /\ Len(decodePlan) \in Nat
      /\ prefillPlan = <<>> /\ NumRows = Len(decodePlan)
  BY Parts DEF PlanTypes, HasPrefill, NumRows
<1>2. stateIds = decodePlan /\ dev = DecodeRows(TRUE)
  <2>1. Seeded = TRUE
    BY Zenon DEF Seeded
  <2>2. QED
    BY <2>1 DEF DeviceInv
<1>3. Len(dev) = Len(decodePlan) /\ \A i \in 1 .. Len(decodePlan) : dev[i] = DecodeRow(decodePlan[i], TRUE)
  BY <1>1, <1>2 DEF DecodeRows
<1>4. \A k, l \in 1 .. Len(decodePlan) : decodePlan[k] = decodePlan[l] => k = l
  <2>1. Sorted(decodePlan) /\ \A k \in 1 .. Len(decodePlan) : decodePlan[k] \in Int
    BY <1>1, ConfigAssumption DEF CohortInv, Reqs
  <2>2. QED
    BY <1>1, <2>1 DEF Sorted
<1>5. ASSUME NEW i \in 1 .. Len(decodePlan)
      PROVE  AdvanceRow(dev[i], retained'[i]) = DecodeRow(stateIds[i], TRUE)'
  <2>1. PICK r \in Reqs : r = decodePlan[i]
    BY <1>1
  <2>2. InRunning(r) /\ tokens[i] \in Tokens
    BY <2>1, Parts DEF PlanInv
  <2>3. computed[r] + 0 >= promptLen[r]
    <3>1. computed[r] \in Nat /\ computed[r] >= promptLen[r]
      BY <2>1, Parts DEF PoolTypes, OrderInv, PlanOrder, IsPrefillComplete
    <3>2. QED
      BY <3>1
  <2>4. /\ i \in 1 .. NumRows /\ RowReq(i) = r /\ RowChunk(i) = 0
        /\ \A l \in 1 .. NumRows : RowReq(l) = r => l = i
    BY <1>1, <1>4, <2>1 DEF RowReq, RowChunk
  <2>5. outputs'[r] = Append(outputs[r], tokens[i])
    BY <2>3, <2>4, UpdateExtends
  <2>6. AdvanceRow(DecodeRow(r, TRUE), Place(tokens[i])) = DecodeRow(r, TRUE)'
    BY <2>2, <2>5, AdvanceIsRebuild
  <2>7. DecodeRow(stateIds[i], TRUE)' = DecodeRow(r, TRUE)'
    BY <1>2, <2>1 DEF DecodeRow, TotalTokens, LastToken
  <2>8. dev[i] = DecodeRow(r, TRUE) /\ retained'[i] = Place(tokens[i])
    BY <1>3, <2>1
  <2>9. QED
    BY <2>6, <2>7, <2>8
<1>6. \A i \in 1 .. Len(stateIds') : status'[stateIds'[i]] # "PENDING"
  <2>1. \A i \in 1 .. Len(stateIds) : stateIds[i] \in Reqs /\ status[stateIds[i]] # "PENDING"
    BY Parts DEF DeviceTypes, DeviceInv
  <2>2. QED
    BY <2>1, FinishStatus
<1>7. Len(retained') = Len(decodePlan)
  BY <1>1
<1>8. QED
  BY <1>2, <1>3, <1>5, <1>6, <1>7 DEF DeviceInv

\* The first call of a step returns: it is the step's only one and its tokens
\* are retained or given up, or the prefill call follows.
LEMMA DecodeReturnsDevice ==
  ASSUME TypeInv, OrderInv, CohortInv, DeviceInv, DecodeReturns
  PROVE  DeviceInv'
<1>1. /\ pc = "decode"
      /\ UNCHANGED <<promptLen, dev, stateIds>>
  BY DEF DecodeReturns, requestVars
<1>2. PICK eos \in [1 .. Len(dev) -> BOOLEAN] :
        IF HasPrefill
        THEN /\ pc' = "prefill"
             /\ UNCHANGED <<poolVars, planVars, stateValid, retained>>
        ELSE FinishStep(Sampled(dev, eos))
  BY DEF DecodeReturns
<1>3. CASE HasPrefill
  <2>1. pc' = "prefill" /\ UNCHANGED <<status, prefillPlan>>
    BY <1>2, <1>3 DEF poolVars, planVars
  <2>2. QED
    BY <1>1, <1>3, <2>1 DEF DeviceInv, HasPrefill
<1>4. CASE ~HasPrefill
  <2> DEFINE tokens == Sampled(dev, eos)
  <2>1. dev \in Seq(Rows) /\ Len(dev) = Len(decodePlan) /\ TypeOK
    BY <1>1, CallRows, Parts DEF CursorInv, TypeInv
  <2>2. tokens \in Seq(Tokens) /\ Len(tokens) = Len(decodePlan)
    BY <2>1, SampledType
  <2>3. FinishStep(tokens)
    BY <1>2, <1>4
  <2> HIDE DEF tokens
  <2>4. /\ UpdateRequests(tokens) /\ RetainTokens(tokens) /\ pc' = "retire"
        /\ UNCHANGED <<blocks, running>>
    BY <2>3 DEF FinishStep
  <2>5. CASE ReuseStable /\ HasDecode
    <3>1. retained' = [i \in 1 .. Len(decodePlan) |-> Place(tokens[i])]
      BY <1>4, <2>4, <2>5 DEF RetainTokens
    <3>2. Seeded
      BY <1>4, <2>5 DEF Seeded
    <3>3. QED
      BY <1>1, <1>4, <2>2, <2>4, <3>1, <3>2, FinishDevice
  <2>6. CASE ~(ReuseStable /\ HasDecode)
    <3>1. stateValid' = FALSE /\ ~InCall'
      BY <2>4, <2>6 DEF RetainTokens, InCall
    <3>2. \A r \in Reqs : status[r] # "PENDING" => status'[r] # "PENDING"
      BY <2>4, FinishStatus
    <3>3. QED
      BY <1>1, <3>1, <3>2, DeviceDropped
  <2>7. QED
    BY <2>5, <2>6
<1>5. QED
  BY <1>3, <1>4

\* A step that prefills gives the state up.
LEMMA PrefillDevice ==
  ASSUME TypeInv, DeviceInv, PrefillReturns \/ MixedReturns
  PROVE  DeviceInv'
<1>1. PICK tokens : FinishStep(tokens)
  BY DEF PrefillReturns, MixedReturns
<1>2. HasPrefill /\ stateIds' = stateIds
  BY DEF PrefillReturns, MixedReturns, DeviceInv
<1>3. stateValid' = FALSE /\ UpdateRequests(tokens) /\ ~InCall'
  BY <1>1, <1>2 DEF FinishStep, RetainTokens, InCall
<1>4. \A r \in Reqs : status[r] # "PENDING" => status'[r] # "PENDING"
  BY <1>3, FinishStatus
<1>5. QED
  BY <1>2, <1>3, <1>4, DeviceDropped

\* A request that retires leaves its cohort.
LEMMA RetireDevice ==
  ASSUME TypeInv, DeviceInv, RetireRequest
  PROVE  DeviceInv'
<1>1. PICK i \in 1 .. Len(running) :
        /\ outputs' = [outputs EXCEPT ![running[i]] = <<>>]
        /\ blocks' = [blocks EXCEPT ![running[i]] = <<>>]
        /\ running' = Without(running, i)
  BY DEF RetireRequest
<1>2. /\ ~InCall /\ ~InCall'
      /\ UNCHANGED <<promptLen, status, dev, stateValid, stateIds, retained>>
  BY DEF RetireRequest, InCall, requestVars, deviceVars
<1>3. /\ running \in Seq(Reqs) /\ Sorted(running) /\ running[i] \in Reqs
      /\ outputs \in [Reqs -> Seq(Tokens)] /\ blocks \in [Reqs -> Seq(Blocks)]
  BY <1>1, Parts DEF PoolTypes, QueueInv
<1>4. \A r : InRunning(r)' => InRunning(r) /\ r # running[i]
  <2>1. \A r : (\E j \in 1 .. Len(Without(running, i)) : Without(running, i)[j] = r)
                 <=> (\E k \in 1 .. Len(running) : running[k] = r) /\ r # running[i]
    BY <1>1, <1>3, WithoutMembers
  <2>2. QED
    BY <1>1, <2>1 DEF InRunning
<1>5. \A r \in Reqs : r # running[i] => SameRequest(r)
  BY <1>1, <1>2, <1>3 DEF SameRequest
<1>6. QED
  BY <1>2, <1>4, <1>5, DeviceFrame

\* Every step keeps the rows, unless advance_decode_state throws half way.
LEMMA NextDevice ==
  ASSUME ~AdvanceMayThrow
  PROVE  TypeInv /\ OrderInv /\ CohortInv /\ DeviceInv /\ [Next]_vars => DeviceInv'
<1> SUFFICES ASSUME TypeInv, OrderInv, CohortInv, DeviceInv, [Next]_vars PROVE DeviceInv'
  OBVIOUS
<1>1. CASE \E shape \in Shapes : SubmitRequest(shape)
  BY <1>1, SubmitDevice
<1>2. CASE AdmitRequest
  BY <1>2, AdmitDevice
<1>3. CASE ReplayDecode
  BY <1>3, ReplayDevice
<1>4. CASE LaunchDecode
  BY <1>4, LaunchDevice
<1>5. CASE DecodeReturns
  BY <1>5, DecodeReturnsDevice
<1>6. CASE PrefillReturns \/ MixedReturns
  BY <1>6, PrefillDevice
<1>7. CASE RetireRequest
  BY <1>7, RetireDevice
<1>8. CASE BeginStep \/ ScanRunning \/ ScanDone \/ ReturnEmpty \/ EndStep
  <2>1. /\ ~InCall /\ ~InCall'
        /\ UNCHANGED <<promptLen, status, running, outputs, blocks, dev, stateValid, stateIds, retained>>
    BY <1>8, ScheduleDonePc DEF BeginStep, ScanRunning, ScanDone, ReturnEmpty, EndStep, InCall,
         requestVars, poolVars, deviceVars
  <2>2. QED
    BY <2>1, DeviceFrame DEF InRunning, SameRequest
<1>9. CASE PopCompleted \/ UNCHANGED vars
  <2>1. UNCHANGED <<promptLen, status, running, outputs, blocks, pc, decodePlan, prefillPlan,
                    dev, stateValid, stateIds, retained>>
    BY <1>9 DEF PopCompleted, vars, requestVars, poolVars, planVars, deviceVars
  <2>2. QED
    BY <2>1, DeviceFrame DEF InRunning, SameRequest
<1>10. CASE LaunchPrefill
  <2>1. /\ pc' = "prefill" /\ HasPrefill' /\ stateIds' = stateIds /\ status' = status
    BY <1>10 DEF LaunchPrefill, HasPrefill, poolVars, planVars
  <2>2. QED
    BY <2>1 DEF DeviceInv
<1>11. CASE LaunchMixed
  <2>1. /\ stateIds' = stateIds /\ status' = status
        /\ \/ pc' = "mixed" /\ HasPrefill'
           \/ Catch
    BY <1>11 DEF LaunchMixed, HasPrefill, poolVars, planVars
  <2>2. QED
    BY <2>1, DeviceDropped DEF DeviceInv, Catch, InCall
<1>12. CASE CallbackFails
  <2>1. stateIds' = stateIds /\ status' = status /\ Catch
    BY <1>12 DEF CallbackFails, poolVars
  <2>2. QED
    BY <2>1, DeviceDropped DEF Catch, InCall
<1>13. CASE AdvanceThrows
  BY <1>13 DEF AdvanceThrows
<1>14. QED
  BY <1>1, <1>2, <1>3, <1>4, <1>5, <1>6, <1>7, <1>8, <1>9, <1>10, <1>11, <1>12, <1>13
  DEF Next, Client, Schedule, Launch, Compact, Failure

\* Every decode call is given the rows a rebuild from the requests would give it,
\* however many steps in a row were replayed: for every configuration, if the
\* in-place advance does not throw half way (IterationLoopAdvanceRetry shows what
\* happens when it does).
THEOREM ReplayIsRebuild ==
  ASSUME ~AdvanceMayThrow
  PROVE  Spec => []ReplayMatchesRebuild
<1>1. Init => TypeInv /\ OrderInv /\ CohortInv /\ DeviceInv
  BY InitTypeInv, InitOrder, InitDevice
<1>2. TypeInv /\ OrderInv /\ CohortInv /\ DeviceInv /\ [Next]_vars
        => (TypeInv /\ OrderInv /\ CohortInv /\ DeviceInv)'
  BY NextTypeInv, NextOrder, NextCohort, NextDevice
<1>3. TypeInv /\ DeviceInv => ReplayMatchesRebuild
  <2> SUFFICES ASSUME TypeInv, DeviceInv, pc = "decode"
               PROVE  /\ Len(dev) = Len(decodePlan)
                      /\ \A i \in 1 .. Len(dev) : SameRow(dev[i], DecodeRows(FALSE)[i])
    BY DEF ReplayMatchesRebuild
  <2>1. decodePlan \in Seq(Reqs)
    BY Parts DEF PlanTypes
  <2>2. dev = DecodeRows(Seeded) /\ Seeded \in BOOLEAN
    BY ConfigAssumption DEF DeviceInv, Seeded
  <2>3. Len(dev) = Len(decodePlan)
    BY Parts DEF CursorInv
  <2>4. ASSUME NEW i \in 1 .. Len(decodePlan)
        PROVE  SameRow(dev[i], DecodeRows(FALSE)[i])
    <3>1. decodePlan[i] \in Reqs /\ InRunning(decodePlan[i])
      BY <2>1, Parts DEF PlanInv
    <3>2. SameRow(DecodeRow(decodePlan[i], Seeded), DecodeRow(decodePlan[i], FALSE))
      BY <2>2, <3>1, ReservedIsSame
    <3>3. dev[i] = DecodeRow(decodePlan[i], Seeded)
      BY <2>2 DEF DecodeRows
    <3>4. DecodeRows(FALSE)[i] = DecodeRow(decodePlan[i], FALSE)
      BY DEF DecodeRows
    <3>5. QED
      BY <3>2, <3>3, <3>4
  <2>5. QED
    BY <2>3, <2>4
<1>4. QED
  BY <1>1, <1>2, <1>3, PTL DEF Spec

-----------------------------------------------------------------------------
(* The context length that picks the kernel *)

\* The contexts of the decode rows, and the longest of a list of contexts.
Totals     == [i \in 1 .. Len(decodePlan) |-> TotalTokens(decodePlan[i])]
LongestOf(t) == CHOOSE m \in {t[i] : i \in DOMAIN t} : \A i \in DOMAIN t : t[i] <= m

\* The decode rows' longest context was computed when they were built or advanced.
ContextInv == pc \in {"decode", "mixed"} => maxContext = LongestOf(Totals)

\* LongestDecode looks at the contexts only.
LEMMA LongestIsOfTotals == LongestDecode = LongestOf(Totals)
<1>1. DOMAIN Totals = 1 .. Len(decodePlan)
  BY DEF Totals
<1>2. \A i \in 1 .. Len(decodePlan) : Totals[i] = TotalTokens(decodePlan[i])
  BY DEF Totals
<1>3. {Totals[i] : i \in DOMAIN Totals} = {TotalTokens(decodePlan[i]) : i \in 1 .. Len(decodePlan)}
  BY <1>1, <1>2
<1>4. \A m : (\A i \in DOMAIN Totals : Totals[i] <= m)
               <=> (\A i \in 1 .. Len(decodePlan) : TotalTokens(decodePlan[i]) <= m)
  BY <1>1, <1>2
<1> HIDE DEF Totals
<1>5. QED
  BY <1>3, <1>4 DEF LongestDecode, LongestOf

\* A list of contexts that is not empty has a longest one.  (Were there a longer
\* context above each, adding one would map the numbers some context reaches, 0
\* among them, one to one into the others.)
LEMMA LongestCovers ==
  ASSUME NEW n \in Nat, NEW bound \in Nat, NEW t \in [1 .. n -> 0 .. bound], NEW i \in 1 .. n
  PROVE  t[i] <= LongestOf(t)
<1> DEFINE Reached == {k \in 0 .. bound : \E j \in 1 .. n : k <= t[j]}
           Above   == Reached \ {0}
<1>1. \A j \in 1 .. n : t[j] \in Nat /\ t[j] <= bound
  OBVIOUS
<1>2. /\ 0 \in Reached /\ Reached \subseteq 0 .. bound
      /\ \A j \in 1 .. n : t[j] \in Reached
  BY <1>1
<1>3. /\ IsFiniteSet(Reached) /\ IsFiniteSet(Above)
      /\ Cardinality(Above) < Cardinality(Reached)
  <2> HIDE DEF Reached
  <2>1. IsFiniteSet(0 .. bound)
    BY FS_Interval
  <2>2. IsFiniteSet(Reached)
    BY <1>2, <2>1, FS_Subset
  <2>3. Cardinality(Reached) \in Nat
    BY <2>2, FS_CardinalityType
  <2>4. IsFiniteSet(Above) /\ Cardinality(Above) = Cardinality(Reached) - 1
    BY <1>2, <2>2, FS_RemoveElement
  <2>5. QED
    BY <2>2, <2>3, <2>4
<1>4. \E j \in 1 .. n : \A l \in 1 .. n : t[l] <= t[j]
  <2> SUFFICES ASSUME \A j \in 1 .. n : \E l \in 1 .. n : ~(t[l] <= t[j])
               PROVE  FALSE
    OBVIOUS
  <2> DEFINE f == [k \in Reached |-> k + 1]
  <2>1. ASSUME NEW k \in Reached
        PROVE  k + 1 \in Above
    <3>1. PICK j \in 1 .. n : k <= t[j]
      OBVIOUS
    <3>2. PICK l \in 1 .. n : ~(t[l] <= t[j])
      OBVIOUS
    <3>3. k \in Nat
      OBVIOUS
    <3> HIDE DEF Reached, Above, f
    <3>4. t[l] \in Nat /\ t[j] \in Nat /\ t[l] <= bound
      BY <1>1
    <3>5. k + 1 <= t[l] /\ k + 1 \in 0 .. bound /\ k + 1 # 0
      <4>1. \A p, q \in Nat : k <= q /\ ~(p <= q) /\ p <= bound =>
              k + 1 <= p /\ k + 1 \in 0 .. bound /\ k + 1 # 0
        BY <3>3
      <4>2. QED
        BY <3>1, <3>2, <3>4, <4>1
    <3> USE DEF Reached, Above
    <3>6. QED
      BY <3>5
  <2>2. \A k \in Reached : k \in Int
    BY <1>2
  <2> HIDE DEF Reached, Above
  <2>3. f \in [Reached -> Above]
    BY <2>1
  <2>4. \A k, l \in Reached : f[k] = f[l] => k = l
    BY <2>2
  <2> HIDE DEF f
  <2>5. \E k, l \in Reached : k # l /\ f[k] = f[l]
    BY <1>3, <2>3, FS_PigeonHole
  <2>6. QED
    BY <2>4, <2>5
<1>5. \E m \in {t[l] : l \in DOMAIN t} : \A l \in DOMAIN t : t[l] <= m
  BY <1>4
<1>6. \A l \in DOMAIN t : t[l] <= LongestOf(t)
  BY <1>5 DEF LongestOf
<1>7. QED
  BY <1>6

\* The plan's contexts, while its requests stay.
LEMMA TotalsFrame ==
  ASSUME decodePlan' = decodePlan, \A i \in 1 .. Len(decodePlan) : SameRequest(decodePlan[i])
  PROVE  LongestOf(Totals)' = LongestOf(Totals)
<1>1. Totals' = Totals
  BY DEF Totals, TotalTokens, SameRequest
<1>2. QED
  BY <1>1 DEF LongestOf

\* Every step keeps it.
LEMMA NextContext == TypeInv /\ ContextInv /\ [Next]_vars => ContextInv'
<1> SUFFICES ASSUME TypeInv, ContextInv, [Next]_vars PROVE ContextInv'
  OBVIOUS
<1>1. CASE ReplayDecode \/ LaunchDecode \/ (LaunchMixed /\ pc' = "mixed")
  <2>1. maxContext' = LongestDecode /\ UNCHANGED <<decodePlan, promptLen, outputs, blocks>>
    BY <1>1 DEF ReplayDecode, LaunchDecode, LaunchMixed, Catch, requestVars, poolVars, planVars
  <2>2. QED
    BY <2>1, LongestIsOfTotals, TotalsFrame DEF ContextInv, SameRequest
<1>2. CASE \E shape \in Shapes : SubmitRequest(shape)
  <2>1. PICK shape : SubmitRequest(shape)
    BY <1>2
  <2>2. /\ pc # "retire" /\ promptLen' = [promptLen EXCEPT ![nextId] = shape[1]]
        /\ UNCHANGED <<pc, maxContext, outputs, blocks, decodePlan>>
    BY <2>1 DEF SubmitRequest, ClientMayRun, planVars, deviceVars
  <2>3. \A i \in 1 .. Len(decodePlan) : decodePlan[i] \in Reqs /\ decodePlan[i] < nextId
    <3>1. \A i \in 1 .. Len(decodePlan) : InRunning(decodePlan[i])
      BY <2>2, Parts DEF PlanInv
    <3>2. \A r : InRunning(r) => r \in Reqs /\ r < nextId
      BY Parts DEF InRunning, QueueInv, PoolTypes
    <3>3. QED
      BY <3>1, <3>2
  <2>4. \A i \in 1 .. Len(decodePlan) : SameRequest(decodePlan[i])
    <3>1. nextId \in Nat /\ promptLen \in [Reqs -> 0 .. MaxContextLength]
      BY Parts, ConfigAssumption DEF RequestTypes
    <3>2. QED
      BY <2>2, <2>3, <3>1, ConfigAssumption DEF Reqs, SameRequest
  <2>5. QED
    BY <2>2, <2>4, TotalsFrame DEF ContextInv
<1>3. CASE PopCompleted \/ UNCHANGED vars
  <2>1. UNCHANGED <<pc, maxContext, promptLen, outputs, blocks, decodePlan>>
    BY <1>3 DEF PopCompleted, vars, requestVars, poolVars, planVars, deviceVars
  <2>2. QED
    BY <2>1, TotalsFrame DEF ContextInv, SameRequest
<1>4. CASE pc' \notin {"decode", "mixed"}
  BY <1>4 DEF ContextInv
<1>5. CASE \/ Schedule \/ ReturnEmpty \/ LaunchPrefill \/ (LaunchMixed /\ pc' # "mixed")
           \/ DecodeReturns \/ PrefillReturns \/ MixedReturns \/ Compact \/ Failure
  <2>1. pc' \notin {"decode", "mixed"}
    BY <1>5 DEF Schedule, BeginStep, ScanRunning, ScanDone, AdmitRequest, ReturnEmpty,
         LaunchPrefill, LaunchMixed, Catch, DecodeReturns, PrefillReturns, MixedReturns, FinishStep,
         Compact, RetireRequest, EndStep, Failure, AdvanceThrows, CallbackFails
  <2>2. QED
    BY <1>4, <2>1
<1>6. QED
  BY <1>1, <1>2, <1>3, <1>5 DEF Next, Client, Launch

\* The decode rows of a call are rows.
LEMMA DecodeRowsType ==
  ASSUME TypeInv, pc # "retire", NEW reserved \in BOOLEAN
  PROVE  DecodeRows(reserved) \in Seq(Rows) /\ Len(DecodeRows(reserved)) = Len(decodePlan)
<1>1. decodePlan \in Seq(Reqs)
  BY Parts DEF PlanTypes
<1>2. ASSUME NEW i \in 1 .. Len(decodePlan)
      PROVE  DecodeRow(decodePlan[i], reserved) \in Rows
  <2>1. decodePlan[i] \in Reqs /\ InRunning(decodePlan[i])
    BY <1>1, Parts DEF PlanInv
  <2>2. DecodeRow(decodePlan[i], reserved) \in DeviceRows
    BY <2>1, DecodeRowType
  <2>3. QED
    BY <2>2, DeviceRowsAreRows
<1>3. QED
  BY <1>1, <1>2 DEF DecodeRows

\* The context length the callback picks its attention kernel by covers every
\* decode row of the call, and is exact for the rows on the device: for every
\* configuration, if the in-place advance does not throw half way.
THEOREM ContextCoversRows ==
  ASSUME ~AdvanceMayThrow
  PROVE  Spec => []MaxContextCoversRows
<1>1. Init => TypeInv /\ OrderInv /\ CohortInv /\ DeviceInv /\ ContextInv
  <2>1. Init => ContextInv
    BY DEF Init, ContextInv
  <2>2. QED
    BY <2>1, InitTypeInv, InitOrder, InitDevice
<1>2. TypeInv /\ OrderInv /\ CohortInv /\ DeviceInv /\ ContextInv /\ [Next]_vars
        => (TypeInv /\ OrderInv /\ CohortInv /\ DeviceInv /\ ContextInv)'
  BY NextTypeInv, NextOrder, NextCohort, NextDevice, NextContext
<1>3. TypeInv /\ DeviceInv /\ ContextInv => MaxContextCoversRows
  <2> SUFFICES ASSUME TypeInv, DeviceInv, ContextInv, pc \in {"decode", "mixed"}
               PROVE  MaxContextCoversRows
    BY DEF MaxContextCoversRows
  <2>1. decodePlan \in Seq(Reqs) /\ Len(decodePlan) \in Nat /\ MaxContextLength \in Nat
    BY Parts, ConfigAssumption DEF PlanTypes
  <2>2. \A i \in 1 .. Len(decodePlan) : TotalTokens(decodePlan[i]) \in 0 .. MaxContextLength
    <3>1. ASSUME NEW i \in 1 .. Len(decodePlan), NEW r, r = decodePlan[i]
          PROVE  TotalTokens(r) \in 0 .. MaxContextLength
      <4>1. r \in Reqs /\ InRunning(r)
        BY <2>1, <3>1, Parts DEF PlanInv
      <4>2. TotalTokens(r) \in Nat \ {0} /\ TotalTokens(r) <= promptLen[r] + maxOutput[r]
        BY <4>1, DecodeContext
      <4>3. promptLen[r] + maxOutput[r] <= MaxContextLength /\ promptLen[r] \in Nat /\ maxOutput[r] \in Nat
        BY <4>1, Parts DEF InRunning, QueueInv, AcceptedInv, RequestTypes
      <4>4. QED
        BY <2>1, <4>2, <4>3
    <3>2. QED
      BY <3>1
  <2>3. Totals \in [1 .. Len(decodePlan) -> 0 .. MaxContextLength]
    BY <2>2 DEF Totals
  <2>4. \A i \in 1 .. Len(decodePlan) : TotalTokens(decodePlan[i]) <= maxContext
    <3>1. \A i \in 1 .. Len(decodePlan) : Totals[i] <= LongestOf(Totals)
      BY <2>1, <2>3, LongestCovers
    <3>2. QED
      BY <3>1 DEF ContextInv, Totals
  <2>5. \A reserved : \A i \in 1 .. Len(decodePlan) :
          DecodeRows(reserved)[i].len = TotalTokens(decodePlan[i])
    BY DEF DecodeRows, DecodeRow
  <2>6. pc = "decode" => \A i \in 1 .. Len(dev) : dev[i].len <= maxContext
    <3>1. pc = "decode" => Len(dev) = Len(decodePlan) /\ dev = DecodeRows(Seeded)
      BY Parts DEF CursorInv, DeviceInv
    <3>2. QED
      BY <2>4, <2>5, <3>1
  <2>7. \A i \in 1 .. Len(decodePlan) : MixedRows[i].len <= maxContext
    <3> DEFINE first == DecodeRows(FALSE)
    <3>1. first \in Seq(Rows) /\ Len(first) = Len(decodePlan) /\ PrefillRows \in Seq(Rows)
      BY CallRows, DecodeRowsType
    <3>2. \A i \in 1 .. Len(decodePlan) : first[i].len = TotalTokens(decodePlan[i])
      BY <2>5
    <3> HIDE DEF first
    <3>3. \A i \in 1 .. Len(decodePlan) : MixedRows[i] = first[i]
      <4>1. MixedRows = first \o PrefillRows
        BY DEF MixedRows, first
      <4>2. QED
        BY <2>1, <3>1, <4>1
    <3>4. QED
      BY <2>4, <3>2, <3>3
  <2>8. QED
    BY <2>6, <2>7, LongestIsOfTotals DEF MaxContextCoversRows, ContextInv
<1>4. QED
  BY <1>1, <1>2, <1>3, PTL DEF Spec

-----------------------------------------------------------------------------
(* OutputsContinueTheirPrompt: what the pool holds for each request *)

At(r, p) == [req |-> r, at |-> p]

\* The first n slots of a table hold the first n tokens of r.
Holds(cache, table, r, n) == \A p \in 0 .. (n - 1) : cache[SlotAt(table, p)] = At(r, p)

\* How many tokens of a running request are in the pool between two calls: its
\* newest output is sampled, but not stored yet.
Stored(r) == IF IsPrefillComplete(r) THEN TotalTokens(r) - 1 ELSE computed[r]

StoredInv == \A r \in Reqs : InRunning(r) => Holds(kv, blocks[r], r, Stored(r))

\* Between the two calls of a step the decode rows are stored and sampled.
SampledInv ==
  pc = "prefill" => \A i \in 1 .. Len(decodePlan) : \A r \in Reqs : r = decodePlan[i] =>
    /\ Holds(kv, blocks[r], r, TotalTokens(r))
    /\ Place(decoded[i]) = At(r, TotalTokens(r))

ContinueInv ==
  \A r \in Reqs :
    /\ computed[r] < promptLen[r] => outputs[r] = <<>>
    /\ Continues(r, outputs[r])

Rightly(c) == c.id \in Reqs /\ c.id < nextId /\ Continues(c.id, c.out)
EndedInv ==
  /\ \A k \in 1 .. Len(completed) : Rightly(completed[k])
  /\ \A k \in 1 .. Len(delivered) : Rightly(delivered[k])

AnswersInv == StoredInv /\ SampledInv /\ ContinueInv /\ EndedInv

-----------------------------------------------------------------------------
(* Slots *)

\* A slot number tells the page and the place in it.
LEMMA SlotUnique ==
  ASSUME NEW a \in Nat, NEW c \in Nat, NEW d \in Nat \ {0},
         NEW s \in 0 .. (d - 1), NEW t \in 0 .. (d - 1), a * d + s = c * d + t
  PROVE  a = c /\ s = t
<1> DEFINE x == a * d
           y == c * d
<1>1. x \in Int /\ y \in Int /\ (c + 1) * d = y + d /\ (a + 1) * d = x + d
  OBVIOUS
<1>2. a + 1 <= c => (a + 1) * d <= y
  OBVIOUS
<1>3. c + 1 <= a => (c + 1) * d <= x
  OBVIOUS
<1>4. a = c => x = y
  OBVIOUS
<1>5. x + s = y + t
  OBVIOUS
<1> HIDE DEF x, y
<1>6. ~(a + 1 <= c)
  BY <1>1, <1>2, <1>5
<1>7. ~(c + 1 <= a)
  BY <1>1, <1>3, <1>5
<1>8. a = c
  BY <1>6, <1>7
<1>9. QED
  BY <1>1, <1>4, <1>5, <1>8

\* A position below n tokens is in one of the pages that n tokens need.
LEMMA PositionInPages ==
  ASSUME NEW n \in Nat, NEW p \in 0 .. (n - 1), NEW d \in Nat \ {0}
  PROVE  p \div d \in Nat /\ p \div d < CeilDiv(n, d)
<1> DEFINE m == p + d
<1>1. m \in Nat /\ m <= n + d - 1 /\ m \div d = p \div d + 1
  OBVIOUS
<1> HIDE DEF m
<1> DEFINE k == n + d - 1
<1>2. k \in Nat /\ m <= k
  BY <1>1
<1> HIDE DEF k
<1>3. m \div d <= k \div d /\ k \div d \in Nat
  BY <1>1, <1>2
<1>4. p \div d \in Nat
  OBVIOUS
<1>5. QED
  BY <1>1, <1>3, <1>4 DEF CeilDiv, k

\* The most tokens a request may have.
Room(r) == promptLen[r] + maxOutput[r]

\* The slot of a position a running request may reach.
LEMMA SlotOfPosition ==
  ASSUME TypeInv, NEW r \in Reqs, InRunning(r), NEW p \in 0 .. (Room(r) - 1)
  PROVE  /\ p \div BlockSize + 1 \in 1 .. Len(blocks[r])
         /\ blocks[r][p \div BlockSize + 1] \in Blocks
         /\ SlotAt(blocks[r], p) = blocks[r][p \div BlockSize + 1] * BlockSize + (p % BlockSize)
<1> DEFINE page == p \div BlockSize
<1>1. Room(r) \in Nat /\ BlockSize \in Nat \ {0} /\ blocks[r] \in Seq(Blocks)
  BY Parts, ConfigAssumption DEF RequestTypes, PoolTypes, Room
<1>2. Len(blocks[r]) = CeilDiv(Room(r), BlockSize)
  BY Parts DEF RunningInv, InRunning, BlocksNeeded, Room
<1>3. page \in Nat /\ page < CeilDiv(Room(r), BlockSize)
  BY <1>1, PositionInPages
<1>4. SlotAt(blocks[r], p) = (IF page < Len(blocks[r]) THEN blocks[r][page + 1] ELSE 0) * BlockSize + (p % BlockSize)
  BY DEF SlotAt
<1> HIDE DEF page
<1>5. page < Len(blocks[r]) /\ Len(blocks[r]) \in Nat
  BY <1>1, <1>2, <1>3
<1>6. page + 1 \in 1 .. Len(blocks[r]) /\ blocks[r][page + 1] \in Blocks
  BY <1>1, <1>3, <1>5
<1>7. QED
  BY <1>4, <1>5, <1>6 DEF page

\* No two positions of running requests share a slot.
LEMMA SlotsDiffer ==
  ASSUME TypeInv, PagesInv, NEW r \in Reqs, NEW q \in Reqs, InRunning(r), InRunning(q),
         NEW p \in 0 .. (Room(r) - 1), NEW t \in 0 .. (Room(q) - 1),
         SlotAt(blocks[r], p) = SlotAt(blocks[q], t)
  PROVE  r = q /\ p = t
<1> DEFINE i == p \div BlockSize + 1
           j == t \div BlockSize + 1
<1>1. /\ i \in 1 .. Len(blocks[r]) /\ blocks[r][i] \in Blocks
      /\ SlotAt(blocks[r], p) = blocks[r][i] * BlockSize + (p % BlockSize)
  BY SlotOfPosition
<1>2. /\ j \in 1 .. Len(blocks[q]) /\ blocks[q][j] \in Blocks
      /\ SlotAt(blocks[q], t) = blocks[q][j] * BlockSize + (t % BlockSize)
  BY SlotOfPosition
<1>3. BlockSize \in Nat \ {0} /\ TotalBlocks \in Nat \ {0} /\ Room(r) \in Nat /\ Room(q) \in Nat
  BY Parts, ConfigAssumption, TotalBlocksPositive DEF RequestTypes, Room
<1>4. p % BlockSize \in 0 .. (BlockSize - 1) /\ t % BlockSize \in 0 .. (BlockSize - 1)
  BY <1>3
<1>5. blocks[r][i] \in Nat /\ blocks[q][j] \in Nat
  BY <1>1, <1>2, <1>3 DEF Blocks
<1>6. blocks[r][i] = blocks[q][j] /\ p % BlockSize = t % BlockSize
  <2> DEFINE a == blocks[r][i]
             c == blocks[q][j]
             x == p % BlockSize
             y == t % BlockSize
  <2>1. a * BlockSize + x = c * BlockSize + y
    BY <1>1, <1>2
  <2>2. a \in Nat /\ c \in Nat /\ x \in 0 .. (BlockSize - 1) /\ y \in 0 .. (BlockSize - 1)
    BY <1>4, <1>5
  <2> HIDE DEF i, j, a, c, x, y
  <2>3. a = c /\ x = y
    BY <1>3, <2>1, <2>2, SlotUnique
  <2>4. QED
    BY <2>3 DEF a, c, x, y
<1>7. blocks[r] \in Seq(Blocks) /\ blocks[q] \in Seq(Blocks)
  BY Parts DEF PoolTypes
<1> HIDE DEF i, j
<1>8. r = q
  <2>1. blocks[r][i] \in ToSet(blocks[r]) /\ blocks[q][j] \in ToSet(blocks[q])
    BY <1>1, <1>2, <1>7, ToSetFacts
  <2>2. QED
    BY <1>6, <2>1 DEF PagesInv
<1>9. i = j
  <2>1. IsInjective(blocks[r]) /\ DOMAIN blocks[r] = 1 .. Len(blocks[r])
    BY <1>7 DEF PagesInv
  <2>2. QED
    BY <1>1, <1>2, <1>6, <1>8, <2>1 DEF IsInjective
<1>10. p \div BlockSize = t \div BlockSize
  BY <1>3, <1>9 DEF i, j
<1>11. p = (p \div BlockSize) * BlockSize + (p % BlockSize) /\ t = (t \div BlockSize) * BlockSize + (t % BlockSize)
  BY <1>3
<1>12. QED
  BY <1>6, <1>8, <1>10, <1>11

-----------------------------------------------------------------------------
(* One call *)

\* What a row feeds the model at one position.
FeedAt(r, p) == [id |-> At(r, p), pos |-> p, slot |-> SlotAt(blocks[r], p)]

\* A row continues what the pool holds for its request, and its table leads to
\* all of that request's slots.
RowOf(row, r) ==
  /\ row.len <= Room(r)
  /\ \A j \in 1 .. Len(row.toks) :
       \E p \in 0 .. (row.len - 1) : row.toks[j] = FeedAt(r, p)
  /\ \A p \in 0 .. (row.len - 1) :
       \/ p < Stored(r)
       \/ \E j \in 1 .. Len(row.toks) : row.toks[j] = FeedAt(r, p)
  /\ \A p \in 0 .. (row.len - 1) : SlotAt(row.table, p) = SlotAt(blocks[r], p)

\* The room of a request is a number of tokens.
LEMMA RoomNat ==
  ASSUME TypeInv, NEW q \in Reqs
  PROVE  Room(q) \in Nat
<1>1. RequestTypes
  BY Parts
<1>2. promptLen[q] \in Nat /\ maxOutput[q] \in Nat
  BY <1>1, ConfigAssumption DEF RequestTypes
<1>3. QED
  BY <1>2 DEF Room

\* A call stores nothing but tokens in their own slots.
LEMMA CallKeeps ==
  ASSUME TypeInv, PagesInv, NEW rows \in Seq(Rows), NEW ids \in Seq(Reqs), Len(ids) = Len(rows),
         \A i \in 1 .. Len(rows) : InRunning(ids[i]) /\ RowOf(rows[i], ids[i]),
         NEW r \in Reqs, InRunning(r), NEW p \in 0 .. (Room(r) - 1),
         \/ kv[SlotAt(blocks[r], p)] = At(r, p)
         \/ \E w \in Written(rows) : w = FeedAt(r, p)
  PROVE  WriteRows(rows)[SlotAt(blocks[r], p)] = At(r, p)
<1> DEFINE s == SlotAt(blocks[r], p)
<1>1. blocks[r] \in Seq(Blocks) /\ p \in Nat
  BY Parts, ConfigAssumption DEF RequestTypes, PoolTypes, Room
<1>2. s \in Slots
  BY <1>1, SlotInRange
<1>3. ASSUME NEW w \in Written(rows), w.slot = s
      PROVE  w.id = At(r, p) /\ w.pos = p
  <2>1. PICK i \in 1 .. Len(rows) : \E j \in 1 .. Len(rows[i].toks) : w = rows[i].toks[j]
    BY DEF Written
  <2>2. PICK j \in 1 .. Len(rows[i].toks) : w = rows[i].toks[j]
    BY <2>1
  <2>3. PICK q \in Reqs : q = ids[i]
    OBVIOUS
  <2>a. rows[i] \in Rows
    OBVIOUS
  <2>b. rows[i].len \in Nat
    BY <2>a DEF Rows
  <2>4. InRunning(q) /\ RowOf(rows[i], q) /\ rows[i].len \in Nat
    BY <2>3, <2>b
  <2>5. PICK t \in 0 .. (rows[i].len - 1) : w = FeedAt(q, t)
    BY <2>2, <2>4 DEF RowOf
  <2>6. Room(q) \in Nat
    BY RoomNat
  <2>7. t \in 0 .. (Room(q) - 1)
    BY <2>4, <2>5, <2>6 DEF RowOf
  <2>8. SlotAt(blocks[r], p) = SlotAt(blocks[q], t)
    BY <1>3, <2>5 DEF FeedAt
  <2>9. r = q /\ p = t
    BY <2>4, <2>7, <2>8, SlotsDiffer
  <2>10. QED
    BY <2>5, <2>9 DEF FeedAt
<1> DEFINE w == CHOOSE x \in Written(rows) : x.slot = s
<1>4. CASE \E x \in Written(rows) : x.slot = s
  <2>1. w \in Written(rows) /\ w.slot = s
    BY <1>4
  <2>2. WriteRows(rows)[s] = IF w.id.at = w.pos THEN w.id ELSE Garbage
    BY <1>2, <1>4 DEF WriteRows
  <2>3. w.id = At(r, p) /\ w.pos = p
    BY <1>3, <2>1
  <2>4. QED
    BY <2>2, <2>3 DEF At
<1>5. CASE ~ \E x \in Written(rows) : x.slot = s
  <2>1. WriteRows(rows)[s] = kv[s]
    BY <1>2, <1>5 DEF WriteRows
  <2>2. ~ \E x \in Written(rows) : x = FeedAt(r, p)
    BY <1>5 DEF FeedAt
  <2>3. QED
    BY <2>1, <2>2
<1>6. QED
  BY <1>4, <1>5

\* What the pool holds before a call it holds after it.
LEMMA CallHolds ==
  ASSUME TypeInv, PagesInv, NEW rows \in Seq(Rows), NEW ids \in Seq(Reqs), Len(ids) = Len(rows),
         \A i \in 1 .. Len(rows) : InRunning(ids[i]) /\ RowOf(rows[i], ids[i]),
         NEW r \in Reqs, InRunning(r), NEW n \in Nat, n <= Room(r),
         Holds(kv, blocks[r], r, n)
  PROVE  Holds(WriteRows(rows), blocks[r], r, n)
<1>1. Room(r) \in Nat
  BY Parts, ConfigAssumption DEF RequestTypes, Room
<1>2. ASSUME NEW p \in 0 .. (n - 1)
      PROVE  WriteRows(rows)[SlotAt(blocks[r], p)] = At(r, p)
  <2>1. kv[SlotAt(blocks[r], p)] = At(r, p) /\ p \in 0 .. (Room(r) - 1)
    BY <1>1 DEF Holds
  <2>2. QED
    BY <2>1, CallKeeps
<1>3. QED
  BY <1>2 DEF Holds

\* How much is stored is a number.
LEMMA StoredType ==
  ASSUME TypeInv, NEW r \in Reqs
  PROVE  Stored(r) \in Int
<1>1. computed[r] \in Nat /\ promptLen[r] \in Nat /\ Len(outputs[r]) \in Nat
  BY Parts, ConfigAssumption DEF PoolTypes, RequestTypes
<1>2. QED
  BY <1>1 DEF Stored, TotalTokens, IsPrefillComplete

\* A call stores the tokens of every row, so that the pool holds the whole
\* sequence the row describes.
LEMMA CallStores ==
  ASSUME TypeInv, PagesInv, StoredInv, NEW rows \in Seq(Rows), NEW ids \in Seq(Reqs),
         Len(ids) = Len(rows),
         \A i \in 1 .. Len(rows) : InRunning(ids[i]) /\ RowOf(rows[i], ids[i]),
         NEW i \in 1 .. Len(rows), NEW r \in Reqs, r = ids[i]
  PROVE  Holds(WriteRows(rows), blocks[r], r, rows[i].len)
<1>0. rows[i] \in Rows
  OBVIOUS
<1>1. Room(r) \in Nat /\ rows[i].len \in Nat
  <2>1. rows[i].len \in Nat
    BY <1>0 DEF Rows
  <2>2. Room(r) \in Nat
    BY Parts, ConfigAssumption DEF RequestTypes, Room
  <2>3. QED
    BY <2>1, <2>2
<1>2. InRunning(r) /\ RowOf(rows[i], r)
  OBVIOUS
<1>3. ASSUME NEW p \in 0 .. (rows[i].len - 1)
      PROVE  WriteRows(rows)[SlotAt(blocks[r], p)] = At(r, p)
  <2>1. p \in 0 .. (Room(r) - 1) /\ p \in Nat
    BY <1>1, <1>2 DEF RowOf
  <2>2. CASE p < Stored(r)
    <3>1. Holds(kv, blocks[r], r, Stored(r))
      BY <1>2 DEF StoredInv
    <3>2. Stored(r) \in Int
      BY StoredType
    <3>3. kv[SlotAt(blocks[r], p)] = At(r, p)
      BY <2>1, <2>2, <3>1, <3>2 DEF Holds
    <3>4. QED
      BY <1>2, <2>1, <3>3, CallKeeps
  <2>3. CASE \E j \in 1 .. Len(rows[i].toks) : rows[i].toks[j] = FeedAt(r, p)
    <3>1. \E w \in Written(rows) : w = FeedAt(r, p)
      BY <2>3 DEF Written
    <3>2. QED
      BY <1>2, <2>1, <3>1, CallKeeps
  <2>4. QED
    BY <1>2, <2>2, <2>3 DEF RowOf
<1>4. QED
  BY <1>3 DEF Holds

\* From a whole sequence the model predicts the next token of that sequence.
LEMMA PredictsNext ==
  ASSUME NEW row, NEW cache, NEW r, row.len \in Nat \ {0},
         Holds(cache, blocks[r], r, row.len),
         \A p \in 0 .. (row.len - 1) : SlotAt(row.table, p) = SlotAt(blocks[r], p)
  PROVE  Predict(row, cache) = At(r, row.len)
<1>1. \A p \in 0 .. (row.len - 1) : cache[SlotAt(row.table, p)] = [req |-> r, at |-> p]
  BY DEF Holds, At
<1>2. cache[SlotAt(row.table, 0)] = [req |-> r, at |-> 0]
  BY <1>1
<1>3. cache[SlotAt(row.table, 0)].req = r
  BY <1>2
<1>4. QED
  BY <1>1, <1>3 DEF Predict, At

\* So the token sampled for a row is the next of its request.
LEMMA CallSamples ==
  ASSUME TypeInv, PagesInv, StoredInv, NEW rows \in Seq(Rows), NEW ids \in Seq(Reqs),
         Len(ids) = Len(rows),
         \A i \in 1 .. Len(rows) : InRunning(ids[i]) /\ RowOf(rows[i], ids[i]),
         NEW i \in 1 .. Len(rows), NEW r \in Reqs, r = ids[i], rows[i].len > 0, NEW eos
  PROVE  Place(Sampled(rows, eos)[i]) = At(r, rows[i].len)
<1>1. Holds(WriteRows(rows), blocks[r], r, rows[i].len)
  BY CallStores
<1>2. rows[i].len \in Nat \ {0}
  <2>1. rows[i] \in Rows
    OBVIOUS
  <2>2. QED
    BY <2>1 DEF Rows
<1>3. RowOf(rows[i], r)
  OBVIOUS
<1>4. Predict(rows[i], WriteRows(rows)) = At(r, rows[i].len)
  BY <1>1, <1>2, <1>3, PredictsNext DEF RowOf
<1>5. Place(Sampled(rows, eos)[i]) = [req |-> At(r, rows[i].len).req, at |-> At(r, rows[i].len).at]
  BY <1>4 DEF Sampled, Place
<1>6. QED
  BY <1>5 DEF At

-----------------------------------------------------------------------------
(* The rows that build_decode_batch and build_prefill_batch make *)

\* A decode row feeds the newest token of its request.
LEMMA DecodeRowOf ==
  ASSUME TypeInv, OrderInv, ContinueInv, pc # "retire", NEW i \in 1 .. Len(decodePlan),
         NEW r \in Reqs, r = decodePlan[i], NEW reserved \in BOOLEAN
  PROVE  /\ InRunning(r) /\ RowOf(DecodeRow(r, reserved), r)
         /\ DecodeRow(r, reserved).len = TotalTokens(r)
         /\ Stored(r) = TotalTokens(r) - 1
<1> DEFINE total   == TotalTokens(r)
           visible == IF reserved THEN Len(blocks[r]) ELSE CeilDiv(total, BlockSize)
           row     == DecodeRow(r, reserved)
<1>1. InRunning(r) /\ IsPrefillComplete(r)
  BY Parts DEF PlanInv, OrderInv, PlanOrder
<1>2. total \in Nat \ {0} /\ total <= Room(r)
  BY <1>1, DecodeContext DEF Room
<1>3. /\ blocks[r] \in Seq(Blocks) /\ outputs[r] \in Seq(Tokens) /\ promptLen[r] \in Nat
      /\ BlockSize \in Nat \ {0}
  BY Parts, ConfigAssumption DEF PoolTypes, RequestTypes
<1>4. LastToken(r) = At(r, total - 1)
  <2>1. CASE outputs[r] = <<>>
    <3>1. total = promptLen[r]
      BY <1>3, <2>1 DEF TotalTokens
    <3>2. QED
      BY <2>1, <3>1 DEF LastToken, At
  <2>2. CASE outputs[r] # <<>>
    <3> DEFINE n == Len(outputs[r])
    <3>1. n \in Nat /\ n \in 1 .. n
      BY <1>3, <2>2
    <3>2. Place(outputs[r][n]) = [req |-> r, at |-> promptLen[r] + n - 1]
      BY <3>1 DEF ContinueInv, Continues
    <3>3. total - 1 = promptLen[r] + n - 1
      BY <1>3, <3>1 DEF TotalTokens
    <3>4. QED
      BY <2>2, <3>2, <3>3 DEF LastToken, At
  <2>3. QED
    BY <2>1, <2>2
<1>5. visible \in 0 .. Len(blocks[r]) /\ CeilDiv(total, BlockSize) <= visible
  <2>1. CeilDiv(total, BlockSize) \in 0 .. Len(blocks[r])
    BY <1>1, <1>2, ContextFits DEF Room
  <2>2. QED
    BY <1>3, <2>1
<1> HIDE DEF total
<1>6. /\ row.toks = <<[id |-> LastToken(r), pos |-> total - 1, slot |-> SlotAt(blocks[r], total - 1)]>>
      /\ row.len = total /\ row.table = SubSeq(blocks[r], 1, visible)
  BY DEF DecodeRow, total
<1> HIDE DEF row
<1>7. Len(row.toks) = 1 /\ row.toks[1] = FeedAt(r, total - 1)
  BY <1>4, <1>6 DEF FeedAt
<1>8. Stored(r) = total - 1
  BY <1>1 DEF Stored, total
<1>9. ASSUME NEW p \in 0 .. (total - 1)
      PROVE  SlotAt(row.table, p) = SlotAt(blocks[r], p)
  <2>1. p \div BlockSize \in Nat /\ p \div BlockSize < CeilDiv(total, BlockSize)
    BY <1>2, <1>3, PositionInPages
  <2> DEFINE page == p \div BlockSize
             cut  == SubSeq(blocks[r], 1, visible)
  <2>2. CeilDiv(total, BlockSize) \in Nat
    BY <1>2, <1>3, CeilDivNat
  <2> HIDE DEF page, visible
  <2>3. /\ page + 1 \in 1 .. visible /\ page < visible /\ page < Len(blocks[r])
    BY <1>3, <1>5, <2>1, <2>2 DEF page
  <2>4. Len(cut) = visible /\ cut[page + 1] = blocks[r][page + 1]
    BY <1>3, <1>5, <2>3
  <2> HIDE DEF cut
  <2>5. QED
    BY <1>6, <2>3, <2>4 DEF SlotAt, page, cut
<1>10. RowOf(row, r)
  <2>1. \A j \in 1 .. Len(row.toks) : \E p \in 0 .. (row.len - 1) : row.toks[j] = FeedAt(r, p)
    BY <1>2, <1>6, <1>7
  <2>2. \A p \in 0 .. (row.len - 1) :
          p < Stored(r) \/ \E j \in 1 .. Len(row.toks) : row.toks[j] = FeedAt(r, p)
    BY <1>2, <1>6, <1>7, <1>8
  <2>3. QED
    BY <1>2, <1>6, <1>9, <2>1, <2>2 DEF RowOf
<1>11. QED
  BY <1>1, <1>6, <1>8, <1>10 DEF row, total

\* A prefill row feeds the next chunk of its prompt.
LEMMA PrefillRowOf ==
  ASSUME TypeInv, OrderInv, pc # "retire", NEW i \in 1 .. Len(prefillPlan),
         NEW r \in Reqs, r = prefillPlan[i].req, NEW chunk \in Nat, chunk = prefillPlan[i].chunk
  PROVE  /\ InRunning(r) /\ RowOf(PrefillRow(prefillPlan[i]), r)
         /\ PrefillRow(prefillPlan[i]).len = computed[r] + chunk
         /\ computed[r] + chunk <= promptLen[r]
         /\ Stored(r) = computed[r]
         /\ ~IsPrefillComplete(r)
<1> DEFINE start   == computed[r]
           context == start + chunk
           visible == CeilDiv(context, BlockSize)
           row     == PrefillRow(prefillPlan[i])
<1>1. InRunning(r) /\ ~IsPrefillComplete(r) /\ context <= promptLen[r]
  BY Parts DEF PlanInv, OrderInv, PlanOrder
<1>3. /\ blocks[r] \in Seq(Blocks) /\ promptLen[r] \in Nat /\ maxOutput[r] \in Nat
      /\ start \in Nat /\ BlockSize \in Nat \ {0} /\ context \in Nat
  BY Parts, ConfigAssumption DEF PoolTypes, RequestTypes
<1>2. context <= Room(r)
  BY <1>1, <1>3 DEF Room
<1>5. visible \in 0 .. Len(blocks[r])
  BY <1>1, <1>2, <1>3, ContextFits DEF Room
<1>6. /\ row.toks = [j \in 1 .. chunk |->
                      [id   |-> [req |-> r, at |-> start + j - 1], pos |-> start + j - 1,
                       slot |-> SlotAt(blocks[r], start + j - 1)]]
      /\ row.len = context /\ row.table = SubSeq(blocks[r], 1, visible)
  BY DEF PrefillRow
<1>8. Stored(r) = start
  BY <1>1 DEF Stored
<1> HIDE DEF start, context, row
<1>7. Len(row.toks) = chunk /\ \A j \in 1 .. chunk : row.toks[j] = FeedAt(r, start + j - 1)
  BY <1>6 DEF FeedAt, At
<1>9. ASSUME NEW p \in 0 .. (context - 1)
      PROVE  SlotAt(row.table, p) = SlotAt(blocks[r], p)
  <2>1. p \div BlockSize \in Nat /\ p \div BlockSize < visible
    BY <1>3, PositionInPages
  <2> DEFINE page == p \div BlockSize
             cut  == SubSeq(blocks[r], 1, visible)
  <2> HIDE DEF page, visible
  <2>3. /\ page + 1 \in 1 .. visible /\ page < visible /\ page < Len(blocks[r])
    BY <1>3, <1>5, <2>1 DEF page
  <2>4. Len(cut) = visible /\ cut[page + 1] = blocks[r][page + 1]
    BY <1>3, <1>5, <2>3
  <2> HIDE DEF cut
  <2>5. QED
    BY <1>6, <2>3, <2>4 DEF SlotAt, page, cut
<1>10. RowOf(row, r)
  <2>0. context = start + chunk
    BY DEF context
  <2>1. ASSUME NEW j \in 1 .. Len(row.toks)
        PROVE  \E p \in 0 .. (row.len - 1) : row.toks[j] = FeedAt(r, p)
    <3>1. start + j - 1 \in 0 .. (row.len - 1)
      BY <1>3, <1>6, <1>7, <2>0
    <3>2. QED
      BY <1>7, <3>1
  <2>2. ASSUME NEW p \in 0 .. (row.len - 1), ~(p < Stored(r))
        PROVE  \E j \in 1 .. Len(row.toks) : row.toks[j] = FeedAt(r, p)
    <3>1. p - start + 1 \in 1 .. chunk /\ start + (p - start + 1) - 1 = p
      BY <1>3, <1>6, <1>8, <2>0, <2>2
    <3>2. QED
      BY <1>7, <3>1
  <2>3. QED
    BY <1>2, <1>6, <1>9, <2>1, <2>2 DEF RowOf
<1>11. QED
  BY <1>1, <1>6, <1>8, <1>10 DEF row, start, context

-----------------------------------------------------------------------------
(* The end of a step *)

\* The tokens of row k's request in the pool after the calls of the step.
RowLen(k) ==
  IF k <= Len(decodePlan) THEN TotalTokens(RowReq(k)) ELSE computed[RowReq(k)] + RowChunk(k)

\* update_requests moves a request by its row, and gives it the row's token if
\* its prompt is done.
LEMMA UpdateExact ==
  ASSUME NEW tokens, UpdateRequests(tokens), NEW r \in Reqs
  PROVE  \/ /\ \A k \in 1 .. NumRows : RowReq(k) # r
            /\ computed'[r] = computed[r] /\ outputs'[r] = outputs[r]
         \/ \E k \in 1 .. NumRows :
              /\ RowReq(k) = r
              /\ computed'[r] = computed[r] + RowChunk(k)
              /\ outputs'[r] = IF computed'[r] >= promptLen[r]
                               THEN Append(outputs[r], tokens[k]) ELSE outputs[r]
<1> DEFINE row       == CHOOSE k \in 1 .. NumRows : RowReq(k) = r
           scheduled == {RowReq(k) : k \in 1 .. NumRows}
<1>1. CASE r \notin scheduled
  BY <1>1 DEF UpdateRequests
<1>2. CASE r \in scheduled
  <2>1. row \in 1 .. NumRows /\ RowReq(row) = r
    BY <1>2
  <2>2. computed'[r] = computed[r] + RowChunk(row)
    BY <1>2 DEF UpdateRequests
  <2>3. CASE computed'[r] >= promptLen[r]
    BY <1>2, <2>1, <2>2, <2>3 DEF UpdateRequests
  <2>4. CASE ~(computed'[r] >= promptLen[r])
    BY <1>2, <2>1, <2>2, <2>4 DEF UpdateRequests
  <2>5. QED
    BY <2>3, <2>4
<1>3. QED
  BY <1>1, <1>2

\* A row decodes a request whose prompt is done or prefills one whose is not.
LEMMA RowKind ==
  ASSUME TypeInv, OrderInv, pc # "retire", NEW k \in 1 .. NumRows, NEW r \in Reqs, r = RowReq(k)
  PROVE  \/ IsPrefillComplete(r) /\ RowChunk(k) = 0 /\ RowLen(k) = TotalTokens(r)
         \/ /\ ~IsPrefillComplete(r) /\ RowChunk(k) \in Nat
            /\ RowLen(k) = computed[r] + RowChunk(k) /\ RowLen(k) <= promptLen[r]
<1>1. /\ decodePlan \in Seq(Reqs) /\ prefillPlan \in Seq([req : Reqs, chunk : Nat])
      /\ NumRows = Len(decodePlan) + Len(prefillPlan)
  BY Parts DEF PlanTypes, NumRows
<1>2. CASE k <= Len(decodePlan)
  <2>1. k \in 1 .. Len(decodePlan) /\ r = decodePlan[k] /\ RowChunk(k) = 0
    BY <1>1, <1>2 DEF RowReq, RowChunk
  <2>2. IsPrefillComplete(r)
    BY <2>1 DEF OrderInv, PlanOrder
  <2>3. QED
    BY <1>2, <2>1, <2>2 DEF RowLen
<1>3. CASE ~(k <= Len(decodePlan))
  <2> DEFINE i == k - Len(decodePlan)
  <2>1. i \in 1 .. Len(prefillPlan) /\ r = prefillPlan[i].req /\ RowChunk(k) = prefillPlan[i].chunk
    BY <1>1, <1>3 DEF RowReq, RowChunk
  <2>2. ~IsPrefillComplete(r) /\ computed[r] + RowChunk(k) <= promptLen[r]
    BY <2>1, Parts DEF OrderInv, PlanOrder, PlanInv
  <2>3. RowChunk(k) \in Nat
    BY RowFacts
  <2>4. QED
    BY <1>3, <2>2, <2>3 DEF RowLen
<1>4. QED
  BY <1>2, <1>3

\* Stored, spelled out for both ends of a step.
LEMMA StoredNow ==
  ASSUME NEW r
  PROVE  /\ computed[r] >= promptLen[r] => Stored(r) = (promptLen[r] + Len(outputs[r])) - 1
         /\ ~(computed[r] >= promptLen[r]) => Stored(r) = computed[r]
BY Zenon DEF Stored, IsPrefillComplete, TotalTokens

LEMMA StoredNext ==
  ASSUME NEW r, promptLen' = promptLen
  PROVE  /\ computed'[r] >= promptLen[r] => Stored(r)' = (promptLen[r] + Len(outputs'[r])) - 1
         /\ ~(computed'[r] >= promptLen[r]) => Stored(r)' = computed'[r]
BY Zenon DEF Stored, IsPrefillComplete, TotalTokens

\* A step ends well: every row is stored, its token is the next of its request,
\* and nobody else was touched.
LEMMA FinishAnswers ==
  ASSUME TypeInv, OrderInv, AnswersInv, pc # "retire", NEW tokens \in Seq(Tokens),
         Len(tokens) = NumRows, FinishStep(tokens), UNCHANGED <<requestVars, clientVars>>,
         \A r \in Reqs : InRunning(r) => Holds(kv', blocks[r], r, Stored(r)),
         \A k \in 1 .. NumRows : \A r \in Reqs : r = RowReq(k) =>
           /\ Holds(kv', blocks[r], r, RowLen(k))
           /\ RowLen(k) > 0 => Place(tokens[k]) = At(r, RowLen(k))
  PROVE  AnswersInv'
<1>1. /\ UpdateRequests(tokens) /\ pc' = "retire"
      /\ UNCHANGED <<promptLen, nextId, completed, delivered, running, blocks>>
  BY DEF FinishStep, requestVars, clientVars
<1>2. SampledInv'
  BY <1>1 DEF SampledInv
<1>3. EndedInv'
  BY <1>1 DEF AnswersInv, EndedInv, Rightly, Continues
<1>4. ASSUME NEW r \in Reqs
      PROVE  /\ computed'[r] < promptLen[r] => outputs'[r] = <<>>
             /\ Continues(r, outputs'[r])
             /\ InRunning(r) => Holds(kv', blocks[r], r, Stored(r)')
  <2>1. /\ computed[r] \in Nat /\ promptLen[r] \in Nat /\ outputs[r] \in Seq(Tokens)
    BY Parts, ConfigAssumption DEF PoolTypes, RequestTypes
  <2>2. /\ computed[r] < promptLen[r] => outputs[r] = <<>>
        /\ Continues(r, outputs[r])
    BY DEF AnswersInv, ContinueInv
  <2>3. /\ computed'[r] >= promptLen[r] => Stored(r)' = (promptLen[r] + Len(outputs'[r])) - 1
        /\ ~(computed'[r] >= promptLen[r]) => Stored(r)' = computed'[r]
    BY <1>1, StoredNext
  <2>4. /\ computed[r] >= promptLen[r] => Stored(r) = (promptLen[r] + Len(outputs[r])) - 1
        /\ ~(computed[r] >= promptLen[r]) => Stored(r) = computed[r]
    BY StoredNow
  <2>5. CASE computed'[r] = computed[r] /\ outputs'[r] = outputs[r]
    <3>1. Stored(r)' = Stored(r)
      BY <2>3, <2>4, <2>5
    <3>2. QED
      BY <2>2, <2>5, <3>1
  <2>6. ASSUME NEW k \in 1 .. NumRows, RowReq(k) = r, computed'[r] = computed[r] + RowChunk(k),
               outputs'[r] = IF computed'[r] >= promptLen[r]
                             THEN Append(outputs[r], tokens[k]) ELSE outputs[r]
        PROVE  /\ computed'[r] < promptLen[r] => outputs'[r] = <<>>
               /\ Continues(r, outputs'[r])
               /\ InRunning(r) => Holds(kv', blocks[r], r, Stored(r)')
    <3>1. /\ Holds(kv', blocks[r], r, RowLen(k))
          /\ RowLen(k) > 0 => Place(tokens[k]) = At(r, RowLen(k))
      BY <2>6
    <3>2. /\ RowChunk(k) \in Nat
          /\ \/ computed[r] >= promptLen[r] /\ RowChunk(k) = 0 /\ RowLen(k) = promptLen[r] + Len(outputs[r])
             \/ /\ computed[r] < promptLen[r]
                /\ RowLen(k) = computed[r] + RowChunk(k) /\ RowLen(k) <= promptLen[r]
      BY <2>1, <2>6, RowKind DEF IsPrefillComplete, TotalTokens
    <3>3. Len(outputs[r]) \in Nat /\ (outputs[r] = <<>> => Len(outputs[r]) = 0)
      BY <2>1
    <3>4. CASE computed'[r] < promptLen[r]
      <4>1. outputs'[r] = outputs[r] /\ outputs[r] = <<>> /\ Stored(r)' = RowLen(k)
        BY <2>1, <2>2, <2>3, <2>6, <3>2, <3>4
      <4>2. QED
        BY <2>2, <3>1, <4>1
    <3>5. CASE computed'[r] >= promptLen[r]
      <4> DEFINE n == Len(outputs[r])
      <4>1. outputs'[r] = Append(outputs[r], tokens[k])
        BY <2>6, <3>5
      <4>2. RowLen(k) = promptLen[r] + n
        <5>1. CASE computed[r] >= promptLen[r]
          BY <2>1, <3>2, <5>1
        <5>2. CASE computed[r] < promptLen[r]
          <6>1. RowLen(k) = computed[r] + RowChunk(k) /\ RowLen(k) <= promptLen[r]
            BY <2>1, <3>2, <5>2
          <6>2. RowLen(k) = promptLen[r]
            <7> DEFINE x == RowLen(k)
                       p == promptLen[r]
            <7>1. x = computed'[r]
              BY <2>6, <6>1
            <7>2. x >= p /\ x <= p
              BY <3>5, <6>1, <7>1
            <7>3. p \in Nat /\ x \in Nat
              BY <2>1, <3>2, <6>1
            <7> HIDE DEF x, p
            <7>4. x = p
              BY <7>2, <7>3
            <7>5. QED
              BY <7>4 DEF x, p
          <6>3. n = 0
            BY <2>2, <3>3, <5>2
          <6>4. QED
            BY <2>1, <6>2, <6>3
        <5>3. QED
          BY <2>1, <5>1, <5>2
      <4>3. promptLen[r] >= 1
        <5>1. r < nextId
          BY <2>6, RowFacts, Parts DEF InRunning, QueueInv
        <5>2. QED
          BY <5>1, Parts DEF AcceptedInv
      <4>4. Place(tokens[k]) = At(r, promptLen[r] + n)
        BY <2>1, <3>1, <3>3, <4>2, <4>3
      <4>5. tokens[k] \in Tokens
        OBVIOUS
      <4>6. /\ Len(outputs'[r]) = n + 1 /\ outputs'[r][n + 1] = tokens[k]
            /\ \A i \in 1 .. n : outputs'[r][i] = outputs[r][i]
            /\ \A i \in 1 .. (n + 1) : i \in 1 .. n \/ i = n + 1
        BY <2>1, <4>1, <4>5
      <4>7. Stored(r)' = RowLen(k)
        <5> DEFINE m == Len(outputs'[r])
                   p == promptLen[r]
        <5>1. Stored(r)' = (p + m) - 1
          BY <2>3, <3>5
        <5>2. m = n + 1 /\ RowLen(k) = p + n
          BY <4>2, <4>6
        <5>3. n \in Nat /\ p \in Nat
          BY <2>1, <3>3
        <5> HIDE DEF n, m, p
        <5>4. QED
          BY <5>1, <5>2, <5>3
      <4> HIDE DEF n
      <4>8. n \in Nat /\ (promptLen[r] + (n + 1)) - 1 = promptLen[r] + n
        BY <2>1, <3>3 DEF n
      <4>9. ASSUME NEW i \in 1 .. Len(outputs'[r])
            PROVE  Place(outputs'[r][i]) = [req |-> r, at |-> promptLen[r] + i - 1]
        <5>1. CASE i \in 1 .. n
          BY <2>2, <4>6, <5>1 DEF Continues, n
        <5>2. CASE i = n + 1
          BY <4>4, <4>6, <4>8, <5>2 DEF At
        <5>3. QED
          BY <4>6, <5>1, <5>2
      <4>10. QED
        <5>1. ~(computed'[r] < promptLen[r])
          <6>1. computed'[r] \in Nat
            BY <2>1, <2>6, <3>2
          <6>2. QED
            BY <2>1, <3>5, <6>1
        <5>2. Continues(r, outputs'[r])
          BY <4>9 DEF Continues
        <5>3. Holds(kv', blocks[r], r, Stored(r)')
          BY <3>1, <4>7
        <5>4. QED
          BY <5>1, <5>2, <5>3
    <3>6. QED
      BY <2>1, <2>6, <3>2, <3>4, <3>5
  <2>7. QED
    BY <1>1, <2>5, <2>6, UpdateExact
<1>5. ContinueInv'
  <2>1. \A r \in Reqs : Continues(r, outputs[r])' <=> Continues(r, outputs'[r])
    BY <1>1 DEF Continues
  <2>2. QED
    BY <1>1, <1>4, <2>1 DEF ContinueInv
<1>6. StoredInv'
  <2>1. \A r : InRunning(r)' <=> InRunning(r)
    BY <1>1 DEF InRunning
  <2>2. \A r \in Reqs : Holds(kv, blocks[r], r, Stored(r))' <=> Holds(kv', blocks[r], r, Stored(r)')
    BY <1>1 DEF Holds
  <2>3. QED
    BY <1>4, <2>1, <2>2 DEF StoredInv
<1>7. QED
  BY <1>2, <1>3, <1>5, <1>6 DEF AnswersInv

-----------------------------------------------------------------------------
(* The calls *)

\* The rows of a call and the running requests they are of.
Serves(rows, ids) ==
  /\ Len(ids) = Len(rows)
  /\ \A i \in 1 .. Len(rows) : InRunning(ids[i]) /\ RowOf(rows[i], ids[i])

\* What is stored of a request has room in its pages.
LEMMA StoredFits ==
  ASSUME TypeInv, pc # "retire", NEW r \in Reqs, InRunning(r)
  PROVE  Stored(r) \in Nat /\ Stored(r) <= Room(r)
<1>1. /\ computed[r] \in Nat /\ promptLen[r] \in Nat /\ maxOutput[r] \in Nat
      /\ TotalTokens(r) \in Nat \ {0} /\ TotalTokens(r) <= promptLen[r] + maxOutput[r]
  BY Parts, ConfigAssumption, DecodeContext DEF PoolTypes, RequestTypes
<1>2. CASE IsPrefillComplete(r)
  BY <1>1, <1>2 DEF Stored, Room
<1>3. CASE ~IsPrefillComplete(r)
  BY <1>1, <1>3 DEF Stored, Room, IsPrefillComplete
<1>4. QED
  BY <1>2, <1>3

\* After a call the pool holds what it held, and the sequences of the rows, and
\* the tokens sampled are the next ones of those.
LEMMA CallAnswers ==
  ASSUME TypeInv, PagesInv, StoredInv, pc # "retire",
         NEW rows \in Seq(Rows), NEW ids \in Seq(Reqs), Serves(rows, ids), NEW eos
  PROVE  /\ \A r \in Reqs : InRunning(r) => Holds(WriteRows(rows), blocks[r], r, Stored(r))
         /\ \A i \in 1 .. Len(rows) : \A r \in Reqs : r = ids[i] =>
              /\ Holds(WriteRows(rows), blocks[r], r, rows[i].len)
              /\ rows[i].len > 0 => Place(Sampled(rows, eos)[i]) = At(r, rows[i].len)
<1>1. Len(ids) = Len(rows) /\ \A i \in 1 .. Len(rows) : InRunning(ids[i]) /\ RowOf(rows[i], ids[i])
  BY DEF Serves
<1>2. ASSUME NEW r \in Reqs, InRunning(r)
      PROVE  Holds(WriteRows(rows), blocks[r], r, Stored(r))
  <2>1. Stored(r) \in Nat /\ Stored(r) <= Room(r) /\ Holds(kv, blocks[r], r, Stored(r))
    BY <1>2, StoredFits DEF StoredInv
  <2>2. QED
    BY <1>1, <1>2, <2>1, CallHolds
<1>3. ASSUME NEW i \in 1 .. Len(rows), NEW r \in Reqs, r = ids[i]
      PROVE  Holds(WriteRows(rows), blocks[r], r, rows[i].len)
  BY <1>1, <1>3, CallStores
<1>4. ASSUME NEW i \in 1 .. Len(rows), NEW r \in Reqs, r = ids[i], rows[i].len > 0
      PROVE  Place(Sampled(rows, eos)[i]) = At(r, rows[i].len)
  BY <1>1, <1>4, CallSamples
<1>5. QED
  BY <1>2, <1>3, <1>4

\* The decode rows serve the decode requests of the plan,
LEMMA DecodeServes ==
  ASSUME TypeInv, OrderInv, ContinueInv, pc # "retire", NEW reserved \in BOOLEAN
  PROVE  /\ DecodeRows(reserved) \in Seq(Rows) /\ decodePlan \in Seq(Reqs)
         /\ Serves(DecodeRows(reserved), decodePlan)
         /\ \A i \in 1 .. Len(decodePlan) : \A r \in Reqs : r = decodePlan[i] =>
              /\ DecodeRows(reserved)[i].len = TotalTokens(r)
              /\ TotalTokens(r) > 0 /\ TotalTokens(r) \in Nat /\ TotalTokens(r) <= Room(r)
<1>1. /\ DecodeRows(reserved) \in Seq(Rows) /\ Len(DecodeRows(reserved)) = Len(decodePlan)
      /\ decodePlan \in Seq(Reqs)
  BY DecodeRowsType, Parts DEF PlanTypes
<1>2. ASSUME NEW i \in 1 .. Len(decodePlan), NEW r \in Reqs, r = decodePlan[i]
      PROVE  /\ InRunning(r) /\ RowOf(DecodeRows(reserved)[i], r)
             /\ DecodeRows(reserved)[i].len = TotalTokens(r)
             /\ TotalTokens(r) > 0 /\ TotalTokens(r) \in Nat /\ TotalTokens(r) <= Room(r)
  <2>1. DecodeRows(reserved)[i] = DecodeRow(r, reserved)
    BY <1>2 DEF DecodeRows
  <2>2. InRunning(r) /\ RowOf(DecodeRow(r, reserved), r) /\ DecodeRow(r, reserved).len = TotalTokens(r)
    BY <1>2, DecodeRowOf
  <2>3. TotalTokens(r) \in Nat \ {0} /\ TotalTokens(r) <= Room(r)
    BY <2>2, DecodeContext DEF Room
  <2>4. QED
    BY <2>1, <2>2, <2>3
<1>3. \A i \in 1 .. Len(decodePlan) : decodePlan[i] \in Reqs
  BY <1>1
<1>4. QED
  BY <1>1, <1>2, <1>3 DEF Serves

\* the prefill rows the prefill requests,
PrefillIds == [i \in 1 .. Len(prefillPlan) |-> prefillPlan[i].req]

LEMMA PrefillServes ==
  ASSUME TypeInv, OrderInv, pc # "retire"
  PROVE  /\ PrefillRows \in Seq(Rows) /\ PrefillIds \in Seq(Reqs)
         /\ Serves(PrefillRows, PrefillIds)
         /\ \A i \in 1 .. Len(prefillPlan) : \A r \in Reqs : r = prefillPlan[i].req =>
              PrefillIds[i] = r /\ PrefillRows[i].len = computed[r] + prefillPlan[i].chunk
<1>1. PrefillRows \in Seq(Rows) /\ Len(PrefillRows) = Len(prefillPlan)
  BY CallRows
<1> DEFINE Items == [req : Reqs, chunk : Nat]
<1>2. prefillPlan \in Seq(Items)
  BY Parts DEF PlanTypes
<1>a. \A c \in Items : c.req \in Reqs /\ c.chunk \in Nat
  OBVIOUS
<1> HIDE DEF Items
<1>3. \A i \in 1 .. Len(prefillPlan) : prefillPlan[i].req \in Reqs /\ prefillPlan[i].chunk \in Nat
  BY <1>2, <1>a
<1>4. PrefillIds \in Seq(Reqs) /\ Len(PrefillIds) = Len(prefillPlan)
  BY <1>2, <1>3 DEF PrefillIds
<1>5. ASSUME NEW i \in 1 .. Len(prefillPlan), NEW r \in Reqs, r = prefillPlan[i].req
      PROVE  /\ InRunning(r) /\ RowOf(PrefillRows[i], r) /\ PrefillIds[i] = r
             /\ PrefillRows[i].len = computed[r] + prefillPlan[i].chunk
  <2>1. PrefillRows[i] = PrefillRow(prefillPlan[i]) /\ PrefillIds[i] = r
    BY <1>5 DEF PrefillRows, PrefillIds
  <2>2. PICK chunk \in Nat : chunk = prefillPlan[i].chunk
    BY <1>3
  <2>3. /\ InRunning(r) /\ RowOf(PrefillRow(prefillPlan[i]), r)
        /\ PrefillRow(prefillPlan[i]).len = computed[r] + chunk
    BY <1>5, <2>2, PrefillRowOf
  <2>4. QED
    BY <2>1, <2>2, <2>3
<1>6. QED
  BY <1>1, <1>3, <1>4, <1>5 DEF Serves

\* and the packed rows all of them, row by row.
RowIds == decodePlan \o PrefillIds

LEMMA MixedServes ==
  ASSUME TypeInv, OrderInv, ContinueInv, pc # "retire"
  PROVE  /\ MixedRows \in Seq(Rows) /\ Len(MixedRows) = NumRows /\ RowIds \in Seq(Reqs)
         /\ Serves(MixedRows, RowIds)
         /\ \A k \in 1 .. NumRows : RowIds[k] = RowReq(k) /\ MixedRows[k].len = RowLen(k)
<1> DEFINE first == DecodeRows(FALSE)
           n     == Len(decodePlan)
<1>1. /\ first \in Seq(Rows) /\ decodePlan \in Seq(Reqs) /\ Len(first) = n
      /\ \A i \in 1 .. n : \A r \in Reqs : r = decodePlan[i] =>
           InRunning(r) /\ RowOf(first[i], r) /\ first[i].len = TotalTokens(r)
  BY DecodeServes DEF Serves
<1>2. /\ PrefillRows \in Seq(Rows) /\ PrefillIds \in Seq(Reqs)
      /\ Len(PrefillRows) = Len(prefillPlan) /\ Len(PrefillIds) = Len(prefillPlan)
      /\ \A i \in 1 .. Len(prefillPlan) : \A r \in Reqs : r = prefillPlan[i].req =>
           /\ InRunning(r) /\ RowOf(PrefillRows[i], r) /\ PrefillIds[i] = r
           /\ PrefillRows[i].len = computed[r] + prefillPlan[i].chunk
  <2>1. Len(PrefillRows) = Len(prefillPlan)
    BY CallRows
  <2>2. \A i \in 1 .. Len(prefillPlan) : InRunning(PrefillIds[i]) /\ RowOf(PrefillRows[i], PrefillIds[i])
    BY <2>1, PrefillServes DEF Serves
  <2>3. QED
    BY <2>1, <2>2, PrefillServes DEF Serves
<1>3. MixedRows = first \o PrefillRows /\ NumRows = n + Len(prefillPlan)
  BY DEF MixedRows, NumRows
<1> HIDE DEF first
<1>4. /\ MixedRows \in Seq(Rows) /\ Len(MixedRows) = NumRows
      /\ RowIds \in Seq(Reqs) /\ Len(RowIds) = NumRows
  <2>1. MixedRows \in Seq(Rows) /\ Len(MixedRows) = NumRows
    BY CallRows
  <2>2. decodePlan \in Seq(Reqs) /\ PrefillIds \in Seq(Reqs) /\ Len(PrefillIds) = Len(prefillPlan)
    BY <1>1, <1>2
  <2>3. RowIds \in Seq(Reqs) /\ Len(RowIds) = Len(decodePlan) + Len(prefillPlan)
    BY <2>2 DEF RowIds
  <2>4. QED
    BY <2>1, <2>3 DEF NumRows
<1>5. ASSUME NEW k \in 1 .. NumRows
      PROVE  /\ InRunning(RowIds[k]) /\ RowOf(MixedRows[k], RowIds[k])
             /\ RowIds[k] = RowReq(k) /\ MixedRows[k].len = RowLen(k)
  <2>1. CASE k <= n
    <3>1. k \in 1 .. n /\ MixedRows[k] = first[k] /\ RowIds[k] = decodePlan[k] /\ decodePlan[k] \in Reqs
      BY <1>1, <1>2, <1>3, <2>1 DEF RowIds
    <3>2. RowReq(k) = decodePlan[k] /\ RowLen(k) = TotalTokens(decodePlan[k])
      BY <2>1 DEF RowReq, RowLen
    <3>3. PICK r \in Reqs : r = decodePlan[k]
      BY <3>1
    <3>4. InRunning(r) /\ RowOf(first[k], r) /\ first[k].len = TotalTokens(r)
      BY <1>1, <3>1, <3>3
    <3>5. QED
      BY <3>1, <3>2, <3>3, <3>4
  <2>2. CASE ~(k <= n)
    <3> DEFINE i == k - n
    <3>1. i \in 1 .. Len(prefillPlan) /\ MixedRows[k] = PrefillRows[i] /\ RowIds[k] = PrefillIds[i]
      BY <1>1, <1>2, <1>3, <2>2 DEF RowIds
    <3>2. RowReq(k) = prefillPlan[i].req /\ RowChunk(k) = prefillPlan[i].chunk
      BY <2>2 DEF RowReq, RowChunk
    <3>3. RowLen(k) = computed[RowReq(k)] + RowChunk(k)
      BY <2>2 DEF RowLen
    <3>4. PICK r \in Reqs : r = prefillPlan[i].req
      BY <3>2, RowFacts
    <3> HIDE DEF i
    <3>5. /\ InRunning(r) /\ RowOf(PrefillRows[i], r) /\ PrefillIds[i] = r
          /\ PrefillRows[i].len = computed[r] + prefillPlan[i].chunk
      BY <1>2, <3>1, <3>4
    <3>6. QED
      BY <3>1, <3>2, <3>3, <3>4, <3>5
  <2>3. QED
    BY <2>1, <2>2
<1>6. QED
  BY <1>4, <1>5 DEF Serves

-----------------------------------------------------------------------------
(* The steps *)

\* A step that leaves the requests alone, and of the pool at least what is theirs.
LEMMA AnswersFrame ==
  ASSUME AnswersInv, SampledInv',
         UNCHANGED <<nextId, promptLen, computed, outputs, running, blocks, completed, delivered>>,
         \/ kv' = kv
         \/ \A r \in Reqs : InRunning(r) => Holds(kv', blocks[r], r, Stored(r))
  PROVE  AnswersInv'
<1>1. EndedInv'
  BY DEF AnswersInv, EndedInv, Rightly, Continues
<1>2. ContinueInv'
  BY DEF AnswersInv, ContinueInv, Continues
<1>3. ASSUME NEW r \in Reqs, InRunning(r)
      PROVE  Holds(kv', blocks[r], r, Stored(r))
  BY <1>3 DEF AnswersInv, StoredInv, Holds
<1>4. \A r : Stored(r)' = Stored(r)
  BY DEF Stored, TotalTokens, IsPrefillComplete
<1>5. StoredInv'
  BY <1>3, <1>4 DEF StoredInv, InRunning, Holds
<1>6. QED
  BY <1>1, <1>2, <1>5 DEF AnswersInv

\* Nothing is stored, and nobody answered.
LEMMA InitAnswers == Init => AnswersInv
<1> SUFFICES ASSUME Init PROVE AnswersInv
  OBVIOUS
<1>1. /\ running = <<>> /\ completed = <<>> /\ delivered = <<>> /\ pc = "idle"
      /\ outputs = [r \in Reqs |-> <<>>]
      /\ Len(running) = 0 /\ Len(completed) = 0 /\ Len(delivered) = 0 /\ Len(<<>>) = 0
  BY DEF Init
<1>2. \A r \in Reqs : outputs[r] = <<>> /\ Continues(r, outputs[r])
  BY <1>1 DEF Continues
<1>3. QED
  BY <1>1, <1>2 DEF AnswersInv, StoredInv, SampledInv, ContinueInv, EndedInv, InRunning

\* A new request has no output; those that run, or ran, came before it.
LEMMA SubmitAnswers ==
  ASSUME TypeInv, AnswersInv, NEW shape \in Shapes, SubmitRequest(shape)
  PROVE  AnswersInv'
<1>1. /\ pc # "retire" /\ nextId' = nextId + 1
      /\ promptLen' = [promptLen EXCEPT ![nextId] = shape[1]]
      /\ UNCHANGED <<running, computed, outputs, blocks, completed, delivered, pc, decodePlan,
                     decoded, kv>>
  BY DEF SubmitRequest, ClientMayRun, clientVars, planVars
<1>2. nextId \in Nat /\ promptLen \in [Reqs -> 0 .. MaxContextLength] /\ \A r \in Reqs : r \in Int
  BY Parts, ConfigAssumption DEF RequestTypes, Reqs
<1>3. \A r \in Reqs : r < nextId => promptLen'[r] = promptLen[r]
  BY <1>1, <1>2
<1>4. ASSUME NEW r \in Reqs, r < nextId
      PROVE  /\ Stored(r)' = Stored(r) /\ TotalTokens(r)' = TotalTokens(r)
             /\ \A out : Continues(r, out) => Continues(r, out)'
  BY <1>1, <1>3, <1>4 DEF Stored, TotalTokens, IsPrefillComplete, Continues
<1>5. \A r : InRunning(r) => r \in Reqs /\ r < nextId
  BY Parts DEF InRunning, QueueInv, PoolTypes
<1>6. StoredInv'
  <2>1. ASSUME NEW r \in Reqs, InRunning(r)'
        PROVE  Holds(kv, blocks[r], r, Stored(r))'
    <3>1. InRunning(r)
      BY <1>1, <2>1 DEF InRunning
    <3>2. Stored(r)' = Stored(r) /\ Holds(kv, blocks[r], r, Stored(r))
      BY <1>4, <1>5, <3>1 DEF AnswersInv, StoredInv
    <3>3. QED
      BY <1>1, <3>2 DEF Holds
  <2>2. QED
    BY <2>1 DEF StoredInv
<1>7. SampledInv'
  <2>1. ASSUME pc = "prefill", NEW j \in 1 .. Len(decodePlan), NEW r \in Reqs, r = decodePlan[j]
        PROVE  /\ Holds(kv, blocks[r], r, TotalTokens(r))'
               /\ Place(decoded[j])' = At(r, TotalTokens(r)')
    <3>1. InRunning(r)
      BY <1>1, <2>1, Parts DEF PlanInv
    <3>2. TotalTokens(r)' = TotalTokens(r)
      BY <1>4, <1>5, <3>1
    <3>3. Holds(kv, blocks[r], r, TotalTokens(r)) /\ Place(decoded[j]) = At(r, TotalTokens(r))
      BY <2>1 DEF AnswersInv, SampledInv
    <3>4. QED
      BY <1>1, <3>2, <3>3 DEF Holds, Place
  <2>2. QED
    BY <1>1, <2>1 DEF SampledInv, At
<1>8. ContinueInv'
  <2>1. ASSUME NEW r \in Reqs
        PROVE  /\ computed'[r] < promptLen'[r] => outputs'[r] = <<>>
               /\ Continues(r, outputs[r])'
    <3>1. CASE r < nextId
      <4>1. computed[r] < promptLen[r] => outputs[r] = <<>>
        BY DEF AnswersInv, ContinueInv
      <4>2. Continues(r, outputs[r])
        BY DEF AnswersInv, ContinueInv
      <4>3. QED
        BY <1>1, <1>3, <3>1, <4>1, <4>2 DEF Continues
    <3>2. CASE ~(r < nextId)
      <4>1. outputs[r] = <<>>
        BY <1>2, <3>2, Parts DEF WaitingInv
      <4>2. outputs'[r] = <<>> /\ Len(outputs'[r]) = 0
        BY <1>1, <4>1
      <4>3. QED
        BY <4>2 DEF Continues
    <3>3. QED
      BY <3>1, <3>2
  <2>2. QED
    BY <2>1 DEF ContinueInv, Continues
<1>9. EndedInv'
  <2>1. ASSUME NEW c, Rightly(c)
        PROVE  Rightly(c)'
    <3>1. c.id \in Reqs /\ c.id < nextId /\ Continues(c.id, c.out)
      BY <2>1 DEF Rightly
    <3>2. c.id < nextId'
      BY <1>1, <1>2, <3>1
    <3>3. promptLen'[c.id] = promptLen[c.id]
      BY <1>3, <3>1
    <3>4. QED
      BY <3>1, <3>2, <3>3 DEF Rightly, Continues
  <2>2. QED
    BY <1>1, <2>1 DEF AnswersInv, EndedInv
<1>10. QED
  BY <1>6, <1>7, <1>8, <1>9 DEF AnswersInv

\* pop_completed moves answers and changes none.
LEMMA PopAnswers ==
  ASSUME TypeInv, AnswersInv, PopCompleted
  PROVE  AnswersInv'
<1>1. /\ delivered' = delivered \o completed /\ completed' = <<>>
      /\ UNCHANGED <<nextId, promptLen, computed, outputs, running, blocks, pc, decodePlan, decoded, kv>>
  BY DEF PopCompleted, requestVars, poolVars, planVars
<1> DEFINE Answers == [id : Reqs, out : Seq(Tokens)]
<1>2. delivered \in Seq(Answers) /\ completed \in Seq(Answers)
  BY Parts DEF ClientTypes
<1> HIDE DEF Answers
<1>3. \A k \in 1 .. Len(delivered') : \/ \E l \in 1 .. Len(delivered) : delivered'[k] = delivered[l]
                                      \/ \E l \in 1 .. Len(completed) : delivered'[k] = completed[l]
  <2>1. ASSUME NEW k \in 1 .. Len(delivered')
        PROVE  \/ k \in 1 .. Len(delivered) /\ delivered'[k] = delivered[k]
               \/ k - Len(delivered) \in 1 .. Len(completed) /\ delivered'[k] = completed[k - Len(delivered)]
    BY <1>1, <1>2
  <2>2. QED
    BY <2>1
<1>4. \A c : Rightly(c)' <=> Rightly(c)
  BY <1>1 DEF Rightly, Continues
<1>5. Len(completed') = 0
  BY <1>1
<1>6. EndedInv'
  BY <1>3, <1>4, <1>5 DEF AnswersInv, EndedInv
<1>7. StoredInv' /\ SampledInv' /\ ContinueInv'
  <2>1. StoredInv'
    BY <1>1 DEF AnswersInv, StoredInv, InRunning, Holds, Stored, TotalTokens, IsPrefillComplete
  <2>2. SampledInv'
    BY <1>1 DEF AnswersInv, SampledInv, Holds, TotalTokens
  <2>3. ContinueInv'
    BY <1>1 DEF AnswersInv, ContinueInv, Continues
  <2>4. QED
    BY <2>1, <2>2, <2>3
<1>8. QED
  BY <1>6, <1>7 DEF AnswersInv

\* A request that is admitted has nothing in its pages, and gets none of another's.
LEMMA AdmitAnswers ==
  ASSUME TypeInv, AnswersInv, AdmitRequest
  PROVE  AnswersInv'
<1> DEFINE h == Head(pending)
<1>1. /\ pc = "admit" /\ pending # <<>> /\ pc' \in {"admit", "launch"}
      /\ UNCHANGED <<nextId, promptLen, computed, outputs, completed, delivered, kv>>
      /\ \/ /\ blocks' = [blocks EXCEPT ![h] = PopBlocks(BlocksNeeded(h))]
            /\ running' = Append(running, h)
         \/ UNCHANGED <<blocks, running>>
  BY DEF AdmitRequest, CanAdmit, requestVars, clientVars
<1>2. SampledInv'
  BY <1>1 DEF SampledInv
<1>3. CASE UNCHANGED <<blocks, running>>
  BY <1>1, <1>2, <1>3, AnswersFrame
<1>4. CASE /\ blocks' = [blocks EXCEPT ![h] = PopBlocks(BlocksNeeded(h))]
           /\ running' = Append(running, h)
  <2>1. /\ pending \in Seq(Reqs) /\ running \in Seq(Reqs) /\ Sorted(pending)
        /\ blocks \in [Reqs -> Seq(Blocks)]
    BY Parts DEF PoolTypes, QueueInv
  <2>2. h \in Reqs /\ h < nextId /\ status[h] = "PENDING"
    BY <1>1, <2>1, HeadTailFacts, Parts DEF WaitingInv, QueueInv
  <2> HIDE DEF h
  <2>3. Stored(h) = 0
    <3>1. computed[h] = 0 /\ promptLen[h] >= 1 /\ promptLen[h] \in Nat
      BY <2>2, Parts, ConfigAssumption DEF WaitingInv, AcceptedInv, RequestTypes
    <3>2. ~(computed[h] >= promptLen[h])
      BY <3>1
    <3>3. QED
      BY <3>1, <3>2, StoredNow
  <2>4. \A r : Stored(r)' = Stored(r)
    BY <1>1 DEF Stored, TotalTokens, IsPrefillComplete
  <2>5. ASSUME NEW r \in Reqs, InRunning(r)'
        PROVE  Holds(kv, blocks[r], r, Stored(r))'
    <3>1. CASE r = h
      BY <2>3, <2>4, <3>1 DEF Holds
    <3>2. CASE r # h
      <4>1. PICK k \in 1 .. Len(running') : running'[k] = r
        BY <2>5 DEF InRunning
      <4>2. k \in 1 .. Len(running) /\ running[k] = r
        BY <1>4, <2>1, <2>2, <3>2, <4>1, AppendFacts
      <4>3. InRunning(r)
        BY <4>2 DEF InRunning
      <4>4. Holds(kv, blocks[r], r, Stored(r)) /\ blocks'[r] = blocks[r]
        BY <1>4, <2>1, <3>2, <4>3 DEF AnswersInv, StoredInv
      <4>5. QED
        BY <1>1, <2>4, <4>4 DEF Holds
    <3>3. QED
      BY <3>1, <3>2
  <2>6. StoredInv'
    BY <2>5 DEF StoredInv
  <2>7. EndedInv' /\ ContinueInv'
    BY <1>1 DEF AnswersInv, EndedInv, ContinueInv, Rightly, Continues
  <2>8. QED
    BY <1>2, <2>6, <2>7 DEF AnswersInv
<1>5. QED
  BY <1>1, <1>3, <1>4

\* The output of a request that retires is its answer.
LEMMA RetireAnswers ==
  ASSUME TypeInv, AnswersInv, RetireRequest
  PROVE  AnswersInv'
<1>1. PICK i \in 1 .. Len(running) :
        /\ completed' = Append(completed, [id |-> running[i], out |-> outputs[running[i]]])
        /\ outputs' = [outputs EXCEPT ![running[i]] = <<>>]
        /\ blocks' = [blocks EXCEPT ![running[i]] = <<>>]
        /\ running' = Without(running, i)
  BY DEF RetireRequest
<1>2. /\ pc' = "retire"
      /\ UNCHANGED <<nextId, promptLen, computed, delivered, kv>>
  BY DEF RetireRequest, requestVars
<1>3. /\ running \in Seq(Reqs) /\ Sorted(running) /\ running[i] \in Reqs /\ running[i] < nextId
      /\ outputs \in [Reqs -> Seq(Tokens)] /\ blocks \in [Reqs -> Seq(Blocks)]
  BY <1>1, Parts DEF PoolTypes, QueueInv
<1> DEFINE q      == running[i]
           answer == [id |-> q, out |-> outputs[q]]
<1>4. SampledInv'
  BY <1>2 DEF SampledInv
<1>5. EndedInv'
  <2> DEFINE Answers == [id : Reqs, out : Seq(Tokens)]
  <2>1. answer \in Answers /\ answer.id = q /\ answer.out = outputs[q]
    BY <1>3
  <2>2. completed \in Seq(Answers)
    BY Parts DEF ClientTypes
  <2>3. Rightly(answer)
    BY <1>3, <2>1 DEF AnswersInv, ContinueInv, Rightly
  <2>4. completed' = Append(completed, answer)
    BY <1>1
  <2> HIDE DEF Answers, answer
  <2>5. \A k \in 1 .. Len(completed') :
          (k \in 1 .. Len(completed) /\ completed'[k] = completed[k]) \/ completed'[k] = answer
    BY <2>1, <2>2, <2>4, AppendFacts
  <2>6. \A c : Rightly(c)' <=> Rightly(c)
    BY <1>2 DEF Rightly, Continues
  <2>7. QED
    BY <1>2, <2>3, <2>5, <2>6 DEF AnswersInv, EndedInv
<1>6. ContinueInv'
  <2>1. ASSUME NEW r \in Reqs
        PROVE  /\ computed'[r] < promptLen'[r] => outputs'[r] = <<>>
               /\ Continues(r, outputs[r])'
    <3>1. outputs'[r] = <<>> \/ outputs'[r] = outputs[r]
      BY <1>1, <1>3
    <3>2. CASE outputs'[r] = <<>>
      <4>1. Len(outputs'[r]) = 0
        BY <3>2
      <4>2. QED
        BY <3>2, <4>1 DEF Continues
    <3>3. CASE outputs'[r] = outputs[r]
      BY <1>2, <3>3 DEF AnswersInv, ContinueInv, Continues
    <3>4. QED
      BY <3>1, <3>2, <3>3
  <2>2. QED
    BY <2>1 DEF ContinueInv
<1>7. StoredInv'
  <2>1. \A r : InRunning(r)' => InRunning(r) /\ r # q
    <3>1. \A r : (\E j \in 1 .. Len(Without(running, i)) : Without(running, i)[j] = r)
                   <=> (\E k \in 1 .. Len(running) : running[k] = r) /\ r # q
      BY <1>1, <1>3, WithoutMembers
    <3>2. QED
      BY <1>1, <3>1 DEF InRunning
  <2>2. ASSUME NEW r \in Reqs, InRunning(r)'
        PROVE  Holds(kv, blocks[r], r, Stored(r))'
    <3>1. InRunning(r) /\ outputs'[r] = outputs[r] /\ blocks'[r] = blocks[r]
      BY <1>1, <1>3, <2>1, <2>2
    <3>2. Stored(r)' = Stored(r)
      BY <1>2, <3>1 DEF Stored, TotalTokens, IsPrefillComplete
    <3>3. Holds(kv, blocks[r], r, Stored(r))
      BY <3>1 DEF AnswersInv, StoredInv
    <3>4. QED
      BY <1>2, <3>1, <3>2, <3>3 DEF Holds
  <2>3. QED
    BY <2>2 DEF StoredInv
<1>8. QED
  BY <1>4, <1>5, <1>6, <1>7 DEF AnswersInv

\* The decode call returns.
LEMMA DecodeReturnsAnswers ==
  ASSUME TypeInv, PagesInv, OrderInv, DeviceInv, AnswersInv, DecodeReturns
  PROVE  AnswersInv'
<1>1. /\ pc = "decode" /\ kv' = WriteRows(dev) /\ UNCHANGED <<requestVars, clientVars>>
  BY DEF DecodeReturns
<1>2. PICK eos \in [1 .. Len(dev) -> BOOLEAN] :
        IF HasPrefill
        THEN /\ decoded' = Sampled(dev, eos)
             /\ UNCHANGED <<poolVars, planVars>>
        ELSE FinishStep(Sampled(dev, eos))
  BY DEF DecodeReturns
<1>3. dev = DecodeRows(Seeded) /\ Seeded \in BOOLEAN
  BY <1>1, ConfigAssumption DEF DeviceInv, Seeded
<1>4. ContinueInv /\ StoredInv /\ pc # "retire"
  BY <1>1 DEF AnswersInv
<1>5. /\ dev \in Seq(Rows) /\ decodePlan \in Seq(Reqs) /\ Serves(dev, decodePlan)
      /\ \A k \in 1 .. Len(decodePlan) : \A r \in Reqs : r = decodePlan[k] =>
           dev[k].len = TotalTokens(r) /\ TotalTokens(r) > 0
  <2>1. ASSUME NEW b \in BOOLEAN
        PROVE  /\ DecodeRows(b) \in Seq(Rows) /\ decodePlan \in Seq(Reqs)
               /\ Serves(DecodeRows(b), decodePlan)
               /\ \A k \in 1 .. Len(decodePlan) : \A r \in Reqs : r = decodePlan[k] =>
                    DecodeRows(b)[k].len = TotalTokens(r) /\ TotalTokens(r) > 0
    BY <1>4, DecodeServes
  <2>2. QED
    BY <1>3, <2>1
<1>6. Len(dev) = Len(decodePlan)
  BY <1>5 DEF Serves
<1>a. /\ \A r \in Reqs : InRunning(r) => Holds(WriteRows(dev), blocks[r], r, Stored(r))
      /\ \A i \in 1 .. Len(dev) : \A r \in Reqs : r = decodePlan[i] =>
           /\ Holds(WriteRows(dev), blocks[r], r, dev[i].len)
           /\ dev[i].len > 0 => Place(Sampled(dev, eos)[i]) = At(r, dev[i].len)
  <2>1. dev \in Seq(Rows) /\ decodePlan \in Seq(Reqs) /\ Serves(dev, decodePlan)
    BY <1>5
  <2>2. QED
    BY <1>4, <2>1, CallAnswers, Zenon
<1> DEFINE tokens == Sampled(dev, eos)
<1>7. \A r \in Reqs : InRunning(r) => Holds(kv', blocks[r], r, Stored(r))
  BY <1>1, <1>a
<1>8. ASSUME NEW k \in 1 .. Len(decodePlan), NEW r \in Reqs, r = decodePlan[k]
      PROVE  Holds(kv', blocks[r], r, TotalTokens(r)) /\ Place(tokens[k]) = At(r, TotalTokens(r))
  <2>1. /\ Holds(WriteRows(dev), blocks[r], r, dev[k].len)
        /\ dev[k].len > 0 => Place(tokens[k]) = At(r, dev[k].len)
    BY <1>6, <1>8, <1>a DEF tokens
  <2>2. dev[k].len = TotalTokens(r) /\ TotalTokens(r) > 0
    BY <1>5, <1>8
  <2>3. QED
    BY <1>1, <2>1, <2>2
<1>9. tokens \in Seq(Tokens) /\ Len(tokens) = Len(decodePlan)
  BY <1>5, <1>6, SampledType DEF TypeInv
<1> HIDE DEF tokens
<1>10. CASE HasPrefill
  <2>1. /\ decoded' = tokens
        /\ UNCHANGED <<nextId, promptLen, computed, outputs, running, blocks, completed, delivered, decodePlan>>
    BY <1>1, <1>2, <1>10 DEF tokens, requestVars, clientVars, poolVars, planVars
  <2>2. SampledInv'
    <3>1. ASSUME NEW k \in 1 .. Len(decodePlan'), NEW r \in Reqs, r = decodePlan'[k]
          PROVE  /\ Holds(kv, blocks[r], r, TotalTokens(r))'
                 /\ Place(decoded[k])' = At(r, TotalTokens(r)')
      <4>1. Holds(kv', blocks[r], r, TotalTokens(r)) /\ Place(tokens[k]) = At(r, TotalTokens(r))
        BY <1>8, <2>1, <3>1
      <4>2. TotalTokens(r)' = TotalTokens(r)
        BY <2>1 DEF TotalTokens
      <4>3. QED
        BY <2>1, <4>1, <4>2 DEF Holds, Place
    <3>2. QED
      BY <3>1 DEF SampledInv, At
  <2>3. QED
    BY <1>7, <2>1, <2>2, AnswersFrame
<1>11. CASE ~HasPrefill
  <2>1. FinishStep(tokens)
    BY <1>2, <1>11 DEF tokens
  <2>2. NumRows = Len(decodePlan)
    <3>1. prefillPlan = <<>> /\ Len(decodePlan) \in Nat
      BY <1>5, <1>11 DEF HasPrefill
    <3>2. QED
      BY <3>1 DEF NumRows
  <2>3. ASSUME NEW k \in 1 .. NumRows, NEW r \in Reqs, r = RowReq(k)
        PROVE  /\ Holds(kv', blocks[r], r, RowLen(k))
               /\ RowLen(k) > 0 => Place(tokens[k]) = At(r, RowLen(k))
    <3>1. k <= Len(decodePlan)
      BY <1>5, <2>2
    <3>2. r = decodePlan[k] /\ RowLen(k) = TotalTokens(r)
      BY <2>3, <3>1 DEF RowReq, RowLen
    <3>3. QED
      BY <1>8, <2>2, <3>2
  <2>4. QED
    BY <1>1, <1>4, <1>7, <1>9, <2>1, <2>2, <2>3, FinishAnswers
<1>12. QED
  BY <1>10, <1>11

\* The prefill call returns: the decode rows of the step, if it has any, were
\* stored and sampled before it, and it leaves their slots alone.
LEMMA PrefillReturnsAnswers ==
  ASSUME TypeInv, PagesInv, OrderInv, AnswersInv, PrefillReturns
  PROVE  AnswersInv'
<1>1. /\ pc = "prefill" /\ kv' = WriteRows(PrefillRows) /\ UNCHANGED <<requestVars, clientVars>>
  BY DEF PrefillReturns
<1>2. PICK eos \in [1 .. Len(prefillPlan) -> BOOLEAN] :
        FinishStep(decoded \o Sampled(PrefillRows, eos))
  BY DEF PrefillReturns
<1>3. ContinueInv /\ StoredInv /\ SampledInv /\ pc # "retire"
  BY <1>1 DEF AnswersInv
<1>4. /\ PrefillRows \in Seq(Rows) /\ PrefillIds \in Seq(Reqs) /\ Serves(PrefillRows, PrefillIds)
      /\ Len(PrefillRows) = Len(prefillPlan)
  BY <1>3, PrefillServes, CallRows
<1>5. /\ \A r \in Reqs : InRunning(r) => Holds(WriteRows(PrefillRows), blocks[r], r, Stored(r))
      /\ \A i \in 1 .. Len(PrefillRows) : \A r \in Reqs : r = PrefillIds[i] =>
           /\ Holds(WriteRows(PrefillRows), blocks[r], r, PrefillRows[i].len)
           /\ PrefillRows[i].len > 0 =>
                Place(Sampled(PrefillRows, eos)[i]) = At(r, PrefillRows[i].len)
  BY <1>3, <1>4, CallAnswers, Zenon
<1> DEFINE later  == Sampled(PrefillRows, eos)
           tokens == decoded \o later
<1>6. /\ later \in Seq(Tokens) /\ Len(later) = Len(prefillPlan)
      /\ decoded \in Seq(Tokens) /\ Len(decoded) = Len(decodePlan)
  BY <1>1, <1>4, SampledType, Parts DEF TypeInv, PlanTypes, CursorInv
<1>7. FinishStep(tokens)
  BY <1>2
<1>8. \A i \in 1 .. Len(prefillPlan) : \A r \in Reqs : r = PrefillIds[i] =>
        /\ Holds(kv', blocks[r], r, PrefillRows[i].len)
        /\ PrefillRows[i].len > 0 => Place(later[i]) = At(r, PrefillRows[i].len)
  BY <1>1, <1>4, <1>5
<1> HIDE DEF later
<1>9. /\ tokens \in Seq(Tokens) /\ Len(tokens) = NumRows
      /\ \A k \in 1 .. Len(decodePlan) : tokens[k] = decoded[k]
      /\ \A i \in 1 .. Len(prefillPlan) : tokens[Len(decodePlan) + i] = later[i]
  <2>1. Len(decodePlan) \in Nat
    BY Parts DEF PlanTypes
  <2>2. QED
    BY <1>6, <2>1 DEF NumRows
<1> HIDE DEF tokens
<1>10. ASSUME NEW k \in 1 .. NumRows, NEW r \in Reqs, r = RowReq(k)
       PROVE  /\ Holds(kv', blocks[r], r, RowLen(k))
              /\ RowLen(k) > 0 => Place(tokens[k]) = At(r, RowLen(k))
  <2>1. /\ decodePlan \in Seq(Reqs) /\ Len(decodePlan) \in Nat /\ Len(prefillPlan) \in Nat
        /\ NumRows = Len(decodePlan) + Len(prefillPlan)
    BY Parts DEF PlanTypes, NumRows
  <2>2. CASE k <= Len(decodePlan)
    <3>1. k \in 1 .. Len(decodePlan) /\ r = decodePlan[k] /\ RowLen(k) = TotalTokens(r)
      BY <1>10, <2>1, <2>2 DEF RowReq, RowLen
    <3>2. Holds(kv, blocks[r], r, TotalTokens(r)) /\ Place(decoded[k]) = At(r, TotalTokens(r))
      BY <1>1, <1>3, <3>1 DEF SampledInv
    <3>3. InRunning(r) /\ TotalTokens(r) \in Nat /\ TotalTokens(r) <= Room(r)
      <4>1. InRunning(r)
        BY <1>10, RowFacts, <1>3
      <4>2. QED
        BY <1>3, <4>1, DecodeContext DEF Room
    <3>4. Holds(kv', blocks[r], r, TotalTokens(r))
      <4>1. \A j \in 1 .. Len(PrefillRows) : InRunning(PrefillIds[j]) /\ RowOf(PrefillRows[j], PrefillIds[j])
        BY <1>4 DEF Serves
      <4>2. Len(PrefillIds) = Len(PrefillRows)
        BY <1>4 DEF Serves
      <4>3. Holds(WriteRows(PrefillRows), blocks[r], r, TotalTokens(r))
        BY <1>4, <3>2, <3>3, <4>1, <4>2, CallHolds
      <4>4. QED
        BY <1>1, <4>3
    <3>5. QED
      BY <1>9, <3>1, <3>2, <3>4
  <2>3. CASE ~(k <= Len(decodePlan))
    <3> DEFINE i == k - Len(decodePlan)
    <3>1. i \in 1 .. Len(prefillPlan) /\ tokens[k] = later[i]
      <4>1. i \in 1 .. Len(prefillPlan) /\ Len(decodePlan) + i = k
        BY <2>1, <2>3
      <4>2. QED
        BY <1>9, <4>1
    <3>2. r = prefillPlan[i].req /\ RowLen(k) = computed[r] + prefillPlan[i].chunk
      BY <1>10, <2>3 DEF RowReq, RowLen, RowChunk
    <3> HIDE DEF i
    <3>3. PrefillIds[i] = r /\ PrefillRows[i].len = RowLen(k)
      BY <1>3, <3>1, <3>2, PrefillServes
    <3>4. QED
      BY <1>8, <3>1, <3>3
  <2>4. QED
    BY <2>2, <2>3
<1>11. \A r \in Reqs : InRunning(r) => Holds(kv', blocks[r], r, Stored(r))
  BY <1>1, <1>5
<1>12. QED
  BY <1>1, <1>3, <1>7, <1>9, <1>10, <1>11, FinishAnswers

\* The packed call returns.
LEMMA MixedReturnsAnswers ==
  ASSUME TypeInv, PagesInv, OrderInv, AnswersInv, MixedReturns
  PROVE  AnswersInv'
<1>1. /\ pc = "mixed" /\ kv' = WriteRows(MixedRows) /\ UNCHANGED <<requestVars, clientVars>>
  BY DEF MixedReturns
<1>2. PICK eos \in [1 .. NumRows -> BOOLEAN] : FinishStep(Sampled(MixedRows, eos))
  BY DEF MixedReturns
<1>3. ContinueInv /\ StoredInv /\ pc # "retire"
  BY <1>1 DEF AnswersInv
<1>4. /\ MixedRows \in Seq(Rows) /\ Len(MixedRows) = NumRows /\ RowIds \in Seq(Reqs)
      /\ Serves(MixedRows, RowIds)
      /\ \A k \in 1 .. NumRows : RowIds[k] = RowReq(k) /\ MixedRows[k].len = RowLen(k)
  BY <1>3, MixedServes
<1>5. /\ \A r \in Reqs : InRunning(r) => Holds(WriteRows(MixedRows), blocks[r], r, Stored(r))
      /\ \A i \in 1 .. Len(MixedRows) : \A r \in Reqs : r = RowIds[i] =>
           /\ Holds(WriteRows(MixedRows), blocks[r], r, MixedRows[i].len)
           /\ MixedRows[i].len > 0 =>
                Place(Sampled(MixedRows, eos)[i]) = At(r, MixedRows[i].len)
  <2>1. MixedRows \in Seq(Rows) /\ RowIds \in Seq(Reqs) /\ Serves(MixedRows, RowIds)
    BY <1>4
  <2>2. QED
    BY <1>3, <2>1, CallAnswers, Zenon
<1> DEFINE tokens == Sampled(MixedRows, eos)
<1>6. tokens \in Seq(Tokens) /\ Len(tokens) = NumRows
  BY <1>4, SampledType DEF TypeInv
<1>7. ASSUME NEW k \in 1 .. NumRows, NEW r \in Reqs, r = RowReq(k)
      PROVE  /\ Holds(kv', blocks[r], r, RowLen(k))
             /\ RowLen(k) > 0 => Place(tokens[k]) = At(r, RowLen(k))
  <2>1. k \in 1 .. Len(MixedRows) /\ r = RowIds[k] /\ MixedRows[k].len = RowLen(k)
    BY <1>4, <1>7
  <2>2. QED
    BY <1>1, <1>5, <2>1
<1>8. FinishStep(tokens)
  BY <1>2
<1>9. \A r \in Reqs : InRunning(r) => Holds(kv', blocks[r], r, Stored(r))
  BY <1>1, <1>5
<1> HIDE DEF tokens
<1>10. QED
  BY <1>1, <1>3, <1>6, <1>7, <1>8, <1>9, FinishAnswers

\* A call that fails stored nothing, or what it would have stored anyway.
LEMMA FailureAnswers ==
  ASSUME TypeInv, PagesInv, OrderInv, DeviceInv, AnswersInv, CallbackFails
  PROVE  AnswersInv'
<1>1. /\ pc \in {"decode", "prefill", "mixed"} /\ pc' = "idle"
      /\ UNCHANGED <<nextId, promptLen, computed, outputs, running, blocks, completed, delivered>>
      /\ \/ kv' = kv
         \/ pc = "decode" /\ kv' = WriteRows(dev)
         \/ pc = "prefill" /\ kv' = WriteRows(PrefillRows)
         \/ pc = "mixed" /\ kv' = WriteRows(MixedRows)
  BY DEF CallbackFails, Catch, requestVars, clientVars, poolVars
<1>2. ContinueInv /\ StoredInv /\ pc # "retire"
  BY <1>1 DEF AnswersInv
<1>3. ASSUME NEW rows \in Seq(Rows), NEW ids \in Seq(Reqs), Serves(rows, ids), kv' = WriteRows(rows)
      PROVE  \A r \in Reqs : InRunning(r) => Holds(kv', blocks[r], r, Stored(r))
  <2>1. \A r \in Reqs : InRunning(r) => Holds(WriteRows(rows), blocks[r], r, Stored(r))
    BY <1>2, <1>3, CallAnswers
  <2>2. QED
    BY <1>3, <2>1
<1>4. SampledInv'
  BY <1>1 DEF SampledInv
<1>5. CASE kv' = kv
  BY <1>1, <1>4, <1>5, AnswersFrame
<1>6. CASE pc = "decode" /\ kv' = WriteRows(dev)
  <2>1. dev = DecodeRows(Seeded) /\ Seeded \in BOOLEAN
    BY <1>6, ConfigAssumption DEF DeviceInv, Seeded
  <2>2. \A b \in BOOLEAN : DecodeRows(b) \in Seq(Rows) /\ decodePlan \in Seq(Reqs)
                           /\ Serves(DecodeRows(b), decodePlan)
    BY <1>2, DecodeServes
  <2>3. dev \in Seq(Rows) /\ decodePlan \in Seq(Reqs) /\ Serves(dev, decodePlan)
    BY <2>1, <2>2
  <2>4. QED
    BY <1>1, <1>3, <1>4, <1>6, <2>3, AnswersFrame
<1>7. CASE pc = "prefill" /\ kv' = WriteRows(PrefillRows)
  BY <1>1, <1>2, <1>3, <1>4, <1>7, PrefillServes, AnswersFrame
<1>8. CASE pc = "mixed" /\ kv' = WriteRows(MixedRows)
  BY <1>1, <1>2, <1>3, <1>4, <1>8, MixedServes, AnswersFrame
<1>9. QED
  BY <1>1, <1>5, <1>6, <1>7, <1>8

\* Every step keeps it.
LEMMA NextAnswers ==
  TypeInv /\ PagesInv /\ OrderInv /\ DeviceInv /\ AnswersInv /\ [Next]_vars => AnswersInv'
<1> SUFFICES ASSUME TypeInv, PagesInv, OrderInv, DeviceInv, AnswersInv, [Next]_vars
             PROVE  AnswersInv'
  OBVIOUS
<1>1. CASE \E shape \in Shapes : SubmitRequest(shape)
  BY <1>1, SubmitAnswers
<1>2. CASE PopCompleted
  BY <1>2, PopAnswers
<1>3. CASE AdmitRequest
  BY <1>3, AdmitAnswers
<1>4. CASE DecodeReturns
  BY <1>4, DecodeReturnsAnswers
<1>5. CASE PrefillReturns
  BY <1>5, PrefillReturnsAnswers
<1>6. CASE MixedReturns
  BY <1>6, MixedReturnsAnswers
<1>7. CASE RetireRequest
  BY <1>7, RetireAnswers
<1>8. CASE CallbackFails
  BY <1>8, FailureAnswers
<1>9. CASE \/ BeginStep \/ ScanRunning \/ ScanDone \/ ReturnEmpty \/ ReplayDecode \/ LaunchDecode
           \/ LaunchMixed \/ EndStep \/ AdvanceThrows
  <2>1. /\ pc' # "prefill" /\ kv' = kv
        /\ UNCHANGED <<nextId, promptLen, computed, outputs, running, blocks, completed, delivered>>
    BY <1>9 DEF BeginStep, ScanRunning, ScanDone, ReturnEmpty, ReplayDecode, LaunchDecode,
         LaunchMixed, Catch, EndStep, AdvanceThrows, requestVars, poolVars, clientVars
  <2>2. SampledInv'
    BY <2>1 DEF SampledInv
  <2>3. QED
    BY <2>1, <2>2, AnswersFrame
<1>10. CASE LaunchPrefill
  <2>1. /\ decodePlan' = <<>> /\ kv' = kv
        /\ UNCHANGED <<nextId, promptLen, computed, outputs, running, blocks, completed, delivered>>
    BY <1>10 DEF LaunchPrefill, HasDecode, requestVars, poolVars, clientVars, planVars
  <2>2. Len(decodePlan') = 0
    BY <2>1
  <2>3. SampledInv'
    BY <2>2 DEF SampledInv
  <2>4. QED
    BY <2>1, <2>3, AnswersFrame
<1>11. CASE UNCHANGED vars
  <2>1. UNCHANGED <<nextId, promptLen, computed, outputs, running, blocks, completed, delivered, kv,
                    pc, decodePlan, decoded>>
    BY <1>11 DEF vars, requestVars, poolVars, clientVars, planVars
  <2>2. SampledInv'
    BY <2>1 DEF AnswersInv, SampledInv, Holds, TotalTokens
  <2>3. QED
    BY <2>1, <2>2, AnswersFrame
<1>12. QED
  BY <1>1, <1>2, <1>3, <1>4, <1>5, <1>6, <1>7, <1>8, <1>9, <1>10, <1>11
  DEF Next, Client, Schedule, Launch, Compact, Failure

\* Every token given to a request continues that request's own prompt at the
\* right position, however steps are batched, packed, replayed, fail and are
\* retried: for every configuration, if the in-place advance does not throw half
\* way.
THEOREM AnswersContinue ==
  ASSUME ~AdvanceMayThrow
  PROVE  Spec => []OutputsContinueTheirPrompt
<1>1. Init => TypeInv /\ PagesInv /\ OrderInv /\ CohortInv /\ DeviceInv /\ AnswersInv
  BY InitTypeInv, InitPages, InitOrder, InitDevice, InitAnswers
<1>2. TypeInv /\ PagesInv /\ OrderInv /\ CohortInv /\ DeviceInv /\ AnswersInv /\ [Next]_vars
        => (TypeInv /\ PagesInv /\ OrderInv /\ CohortInv /\ DeviceInv /\ AnswersInv)'
  BY NextTypeInv, NextPages, NextOrder, NextCohort, NextDevice, NextAnswers
<1>3. TypeInv /\ AnswersInv => OutputsContinueTheirPrompt
  <2> SUFFICES ASSUME TypeInv, AnswersInv PROVE OutputsContinueTheirPrompt
    OBVIOUS
  <2> DEFINE Answers == [id : Reqs, out : Seq(Tokens)]
             ended   == completed \o delivered
  <2>1. completed \in Seq(Answers) /\ delivered \in Seq(Answers)
    BY Parts DEF ClientTypes
  <2> HIDE DEF Answers
  <2>2. /\ ended \in Seq(Answers)
        /\ \A k \in 1 .. Len(ended) :
             \/ k \in 1 .. Len(completed) /\ ended[k] = completed[k]
             \/ k - Len(completed) \in 1 .. Len(delivered) /\ ended[k] = delivered[k - Len(completed)]
    BY <2>1
  <2> HIDE DEF ended
  <2>3. ASSUME NEW c \in ToSet(ended)
        PROVE  Continues(c.id, c.out)
    <3>1. PICK k \in 1 .. Len(ended) : ended[k] = c
      BY <2>2, ToSetFacts
    <3>2. Rightly(c)
      BY <2>2, <3>1 DEF AnswersInv, EndedInv
    <3>3. QED
      BY <3>2 DEF Rightly
  <2>4. QED
    BY <2>3 DEF OutputsContinueTheirPrompt, AnswersInv, ContinueInv, ended
<1>4. QED
  BY <1>1, <1>2, <1>3, PTL DEF Spec

-----------------------------------------------------------------------------
(* ImplementsService: what a client has seen of a request *)

\* An answer that left running has ended, and so has a request that will retire;
\* no other request has.
EndsInv ==
  /\ \A r \in Reqs : r < nextId /\ status[r] # "COMPLETED" /\ outputs[r] # <<>>
                       => ~Stops(r, outputs[r])
  /\ \A r \in Reqs : InRunning(r) /\ status[r] = "COMPLETED"
                       => outputs[r] # <<>> /\ Stops(r, outputs[r])
  /\ \A k \in 1 .. Len(Answered) :
       Answered[k].out # <<>> /\ Stops(Answered[k].id, Answered[k].out)

InDecode(r) == \E k \in 1 .. Len(decodePlan) : decodePlan[k] = r

\* A plan decodes every request whose prompt is done.
AllDecoded ==
  \A i \in 1 .. Len(running) :
    /\ \/ pc \in {"admit", "launch", "decode", "prefill", "mixed"}
       \/ pc = "scan" /\ i < scan
    /\ IsPrefillComplete(running[i])
    => InDecode(running[i])

ServiceInv == EndsInv /\ AllDecoded

\* Nothing has been asked, so nothing has ended.
LEMMA InitService == Init => ServiceInv
<1> SUFFICES ASSUME Init PROVE ServiceInv
  OBVIOUS
<1>1. /\ running = <<>> /\ completed = <<>> /\ delivered = <<>>
      /\ outputs = [r \in Reqs |-> <<>>] /\ Len(<<>>) = 0 /\ Len(running) = 0
  BY DEF Init
<1>2. Len(Answered) = 0
  BY <1>1 DEF Answered
<1>3. \A r \in Reqs : outputs[r] = <<>> /\ ~InRunning(r)
  BY <1>1 DEF InRunning
<1>4. QED
  BY <1>1, <1>2, <1>3 DEF ServiceInv, EndsInv, AllDecoded

\* A step that leaves requests and answers alone.
LEMMA EndsFrame ==
  ASSUME EndsInv, Answered' = Answered,
         UNCHANGED <<nextId, maxOutput, running, status, outputs>>
  PROVE  EndsInv'
BY DEF EndsInv, InRunning, Stops

\* A step that leaves the plan to the end, or drops it.
LEMMA DecodedFrame ==
  ASSUME AllDecoded,
         \/ pc' \in {"idle", "retire"}
         \/ /\ pc' \in {"admit", "launch", "decode", "prefill", "mixed"}
            /\ pc \in {"admit", "launch", "decode", "prefill", "mixed"}
            /\ UNCHANGED <<promptLen, running, computed, decodePlan>>
         \/ UNCHANGED <<pc, scan, promptLen, running, computed, decodePlan>>
  PROVE  AllDecoded'
<1>1. CASE pc' \in {"idle", "retire"}
  BY <1>1 DEF AllDecoded
<1>2. CASE /\ pc' \in {"admit", "launch", "decode", "prefill", "mixed"}
           /\ pc \in {"admit", "launch", "decode", "prefill", "mixed"}
           /\ UNCHANGED <<promptLen, running, computed, decodePlan>>
  BY <1>2 DEF AllDecoded, InDecode, IsPrefillComplete
<1>3. CASE UNCHANGED <<pc, scan, promptLen, running, computed, decodePlan>>
  BY <1>3 DEF AllDecoded, InDecode, IsPrefillComplete
<1>4. QED
  BY <1>1, <1>2, <1>3

Answers == [id : Reqs, out : Seq(Tokens)]
\* Answers are those of requests.
LEMMA AnsweredTyped ==
  ASSUME TypeInv
  PROVE  /\ delivered \in Seq(Answers) /\ completed \in Seq(Answers) /\ Answered \in Seq(Answers)
         /\ \A k \in 1 .. Len(Answered) : Answered[k].id \in Reqs /\ Answered[k].out \in Seq(Tokens)
<1>1. delivered \in Seq(Answers) /\ completed \in Seq(Answers)
  BY Parts DEF ClientTypes, Answers
<1>2. \A c \in Answers : c.id \in Reqs /\ c.out \in Seq(Tokens)
  BY DEF Answers
<1>3. Answered \in Seq(Answers)
  BY <1>1 DEF Answered
<1>4. QED
  BY <1>1, <1>2, <1>3

\* A new request has no output, and is not running.
LEMMA SubmitService ==
  ASSUME TypeInv, DeliveryInv, ServiceInv, NEW shape \in Shapes, SubmitRequest(shape)
  PROVE  ServiceInv'
<1>1. /\ nextId' = nextId + 1
      /\ promptLen' = [promptLen EXCEPT ![nextId] = shape[1]]
      /\ maxOutput' = [maxOutput EXCEPT ![nextId] = shape[2]]
      /\ UNCHANGED <<running, status, outputs, completed, delivered, pc, computed, scan, decodePlan>>
  BY DEF SubmitRequest, clientVars, planVars
<1>2. /\ nextId \in Nat /\ promptLen \in [Reqs -> 0 .. MaxContextLength]
      /\ maxOutput \in [Reqs -> 0 .. MaxContextLength] /\ \A r \in Reqs : r \in Int
  BY Parts, ConfigAssumption DEF RequestTypes, Reqs
<1>3. \A r \in Reqs : r < nextId => promptLen'[r] = promptLen[r] /\ maxOutput'[r] = maxOutput[r]
  BY <1>1, <1>2
<1>4. \A r : InRunning(r) => r \in Reqs /\ r < nextId
  BY Parts DEF InRunning, QueueInv, PoolTypes
<1>5. ASSUME NEW r \in Reqs, r < nextId', status[r] # "COMPLETED", outputs[r] # <<>>
      PROVE  ~Stops(r, outputs[r])'
  <2>1. r < nextId
    <3>1. r = nextId => outputs[r] = <<>>
      BY <1>2, Parts DEF WaitingInv
    <3>2. QED
      BY <1>1, <1>2, <1>5, <3>1
  <2>2. ~Stops(r, outputs[r])
    BY <1>5, <2>1 DEF ServiceInv, EndsInv
  <2>3. QED
    BY <1>1, <1>3, <2>1, <2>2 DEF Stops
<1>6. ASSUME NEW r \in Reqs, InRunning(r), status[r] = "COMPLETED"
      PROVE  outputs[r] # <<>> /\ Stops(r, outputs[r])'
  <2>1. outputs[r] # <<>> /\ Stops(r, outputs[r])
    BY <1>6 DEF ServiceInv, EndsInv
  <2>2. QED
    BY <1>1, <1>3, <1>4, <1>6, <2>1 DEF Stops
<1>7. Answered' = Answered /\ \A r : InRunning(r)' <=> InRunning(r)
  BY <1>1 DEF Answered, InRunning
<1>8. ASSUME NEW k \in 1 .. Len(Answered)
      PROVE  Answered[k].out # <<>> /\ Stops(Answered[k].id, Answered[k].out)'
  <2>1. Answered[k].out # <<>> /\ Stops(Answered[k].id, Answered[k].out)
    BY DEF ServiceInv, EndsInv
  <2>2. Answered[k].id < nextId /\ Answered[k].id \in Reqs
    BY AnsweredTyped DEF DeliveryInv
  <2>3. QED
    BY <1>3, <1>7, <2>1, <2>2 DEF Stops
<1>9. EndsInv'
  BY <1>1, <1>5, <1>6, <1>7, <1>8 DEF EndsInv, Stops
<1>10. AllDecoded'
  <2>1. ASSUME NEW i \in 1 .. Len(running)
        PROVE  IsPrefillComplete(running[i])' <=> IsPrefillComplete(running[i])
    <3>1. running[i] \in Reqs /\ running[i] < nextId
      BY <1>4 DEF InRunning
    <3>2. QED
      BY <1>1, <1>3, <3>1 DEF IsPrefillComplete
  <2>2. QED
    BY <1>1, <2>1 DEF ServiceInv, AllDecoded, InDecode
<1>11. QED
  BY <1>9, <1>10 DEF ServiceInv


\* pop_completed moves answers.
LEMMA PopService ==
  ASSUME TypeInv, ServiceInv, PopCompleted
  PROVE  ServiceInv' /\ Answered' = Answered
<1>1. /\ delivered' = delivered \o completed /\ completed' = <<>>
      /\ UNCHANGED <<nextId, promptLen, maxOutput, running, status, computed, outputs, pc, scan,
                     decodePlan>>
  BY DEF PopCompleted, requestVars, poolVars, planVars
<1>2. delivered \in Seq(Answers) /\ completed \in Seq(Answers)
  BY AnsweredTyped
<1>3. Answered' = Answered
  <2>1. Answered' = (delivered \o completed) \o <<>>
    BY <1>1 DEF Answered
  <2>2. (delivered \o completed) \o <<>> = delivered \o completed
    BY <1>2
  <2>3. QED
    BY <2>1, <2>2 DEF Answered
<1>4. QED
  BY <1>1, <1>3, EndsFrame, DecodedFrame DEF ServiceInv

\* The scan leaves no request behind whose prompt is done.
LEMMA ScanService ==
  ASSUME TypeInv, ServiceInv, ScanRunning
  PROVE  ServiceInv'
<1> DEFINE r == running[scan]
<1>1. /\ pc = "scan" /\ pc' = "scan" /\ scan <= Len(running) /\ scan' = scan + 1
      /\ UNCHANGED <<nextId, promptLen, maxOutput, running, status, computed, outputs, completed,
                     delivered>>
      /\ decodePlan' = decodePlan \/ decodePlan' = Append(decodePlan, r)
      /\ IsPrefillComplete(r) => decodePlan' = Append(decodePlan, r)
  BY DEF ScanRunning, poolVars, requestVars, clientVars
<1>2. /\ scan \in Nat /\ scan >= 1 /\ decodePlan \in Seq(Reqs) /\ running \in Seq(Reqs)
  BY <1>1, Parts DEF PlanTypes, PoolTypes, CursorInv
<1>3. r \in Reqs
  BY <1>1, <1>2
<1>4. EndsInv'
  BY <1>1, EndsFrame DEF ServiceInv, Answered
<1>5. ASSUME NEW i \in 1 .. Len(running), i < scan + 1, IsPrefillComplete(running[i])
      PROVE  InDecode(running[i])'
  <2>1. CASE i < scan
    <3>1. PICK k \in 1 .. Len(decodePlan) : decodePlan[k] = running[i]
      BY <1>1, <1>5, <2>1 DEF ServiceInv, AllDecoded, InDecode
    <3>2. k \in 1 .. Len(decodePlan') /\ decodePlan'[k] = running[i]
      BY <1>1, <1>2, <1>3, <3>1
    <3>3. QED
      BY <1>1, <3>2 DEF InDecode
  <2>2. CASE i = scan
    <3>1. Len(decodePlan') = Len(decodePlan) + 1 /\ decodePlan'[Len(decodePlan) + 1] = running[i]
      BY <1>1, <1>2, <1>3, <1>5, <2>2
    <3>2. Len(decodePlan) + 1 \in 1 .. Len(decodePlan')
      BY <1>2, <3>1
    <3>3. QED
      BY <1>1, <3>1, <3>2 DEF InDecode
  <2>3. QED
    BY <1>2, <1>5, <2>1, <2>2
<1>6. AllDecoded'
  BY <1>1, <1>5 DEF AllDecoded, IsPrefillComplete
<1>7. QED
  BY <1>4, <1>6 DEF ServiceInv

\* An admitted request has output and prompt still to come.
LEMMA AdmitService ==
  ASSUME TypeInv, ServiceInv, AdmitRequest
  PROVE  ServiceInv'
<1> DEFINE h == Head(pending)
<1>1. /\ pc = "admit" /\ pending # <<>> /\ pc' \in {"admit", "launch"}
      /\ UNCHANGED <<nextId, promptLen, maxOutput, computed, outputs, completed, delivered,
                     decodePlan>>
      /\ \/ /\ status' = [status EXCEPT ![h] = "PREFILLING"]
            /\ running' = Append(running, h)
         \/ UNCHANGED <<status, running>>
  BY DEF AdmitRequest, CanAdmit, requestVars, clientVars
<1>2. Answered' = Answered
  BY <1>1 DEF Answered
<1>3. CASE UNCHANGED <<status, running>>
  BY <1>1, <1>2, <1>3, EndsFrame, DecodedFrame DEF ServiceInv
<1>4. CASE status' = [status EXCEPT ![h] = "PREFILLING"] /\ running' = Append(running, h)
  <2>1. /\ pending \in Seq(Reqs) /\ running \in Seq(Reqs) /\ Sorted(pending)
        /\ status \in [Reqs -> {"PENDING", "PREFILLING", "DECODING", "COMPLETED"}]
    BY Parts DEF PoolTypes, QueueInv
  <2>2. h \in Reqs /\ h < nextId /\ status[h] = "PENDING"
    BY <1>1, <2>1, HeadTailFacts, Parts DEF WaitingInv, QueueInv
  <2> HIDE DEF h
  <2>3. outputs[h] = <<>> /\ ~IsPrefillComplete(h)
    <3>1. outputs[h] = <<>> /\ computed[h] = 0 /\ promptLen[h] >= 1 /\ promptLen[h] \in Nat
      BY <2>2, Parts, ConfigAssumption DEF WaitingInv, AcceptedInv, RequestTypes
    <3>2. QED
      BY <3>1 DEF IsPrefillComplete
  <2>4. \A i \in 1 .. Len(running') :
          \/ i \in 1 .. Len(running) /\ running'[i] = running[i]
          \/ running'[i] = h
    BY <1>4, <2>1, <2>2, AppendFacts
  <2>5. ASSUME NEW r \in Reqs
        PROVE  status'[r] = IF r = h THEN "PREFILLING" ELSE status[r]
    BY <1>4, <2>1
  <2>6. ASSUME NEW r \in Reqs, InRunning(r)', status'[r] = "COMPLETED"
        PROVE  outputs[r] # <<>> /\ Stops(r, outputs[r])
    <3>1. r # h /\ status[r] = "COMPLETED"
      BY <2>5, <2>6
    <3>2. InRunning(r)
      BY <2>4, <2>6, <3>1 DEF InRunning
    <3>3. QED
      BY <3>1, <3>2 DEF ServiceInv, EndsInv
  <2>7. ASSUME NEW r \in Reqs, r < nextId, status'[r] # "COMPLETED", outputs[r] # <<>>
        PROVE  ~Stops(r, outputs[r])
    BY <2>3, <2>5, <2>7 DEF ServiceInv, EndsInv
  <2>8. EndsInv'
    BY <1>1, <1>2, <2>6, <2>7 DEF EndsInv, ServiceInv, Stops
  <2>9. AllDecoded'
    BY <1>1, <2>3, <2>4 DEF ServiceInv, AllDecoded, InDecode, IsPrefillComplete
  <2>10. QED
    BY <2>8, <2>9 DEF ServiceInv
<1>5. QED
  BY <1>1, <1>3, <1>4


\* The calls that end a step, and the one that is followed by another.
EndsWell ==
  /\ pc \in {"decode", "prefill", "mixed"} /\ UNCHANGED <<requestVars, clientVars>>
  /\ \E tokens \in Seq(Tokens) : Len(tokens) = NumRows /\ FinishStep(tokens)
HandsOver ==
  /\ pc = "decode" /\ pc' = "prefill"
  /\ UNCHANGED <<requestVars, clientVars, poolVars, planVars>>
\* A call that returns ends the step, or is the decode call before a prefill.
LEMMA CallsReturn ==
  ASSUME TypeInv, DecodeReturns \/ PrefillReturns \/ MixedReturns
  PROVE  EndsWell \/ HandsOver
<1>1. TypeOK
  BY DEF TypeInv
<1>2. CASE DecodeReturns
  <2>1. pc = "decode" /\ UNCHANGED <<requestVars, clientVars>>
    BY <1>2 DEF DecodeReturns
  <2>2. dev \in Seq(Rows) /\ Len(dev) = Len(decodePlan)
    BY <2>1, CallRows, Parts DEF CursorInv
  <2>3. PICK eos \in [1 .. Len(dev) -> BOOLEAN] :
          IF HasPrefill
          THEN pc' = "prefill" /\ UNCHANGED <<poolVars, planVars>>
          ELSE FinishStep(Sampled(dev, eos))
    BY <1>2 DEF DecodeReturns
  <2>4. Sampled(dev, eos) \in Seq(Tokens) /\ Len(Sampled(dev, eos)) = Len(dev)
    BY <1>1, <2>2, SampledType
  <2>5. ~HasPrefill => NumRows = Len(dev)
    BY <2>2, Parts DEF NumRows, HasPrefill, PlanTypes
  <2>6. QED
    BY <2>1, <2>3, <2>4, <2>5 DEF EndsWell, HandsOver
<1>3. CASE PrefillReturns
  <2>1. pc = "prefill" /\ UNCHANGED <<requestVars, clientVars>>
    BY <1>3 DEF PrefillReturns
  <2>2. PrefillRows \in Seq(Rows) /\ Len(PrefillRows) = Len(prefillPlan)
    BY <2>1, CallRows
  <2>a. decoded \in Seq(Tokens) /\ Len(decoded) = Len(decodePlan)
    BY <2>1, Parts DEF CursorInv, PlanTypes
  <2>3. PICK eos \in [1 .. Len(prefillPlan) -> BOOLEAN] :
          FinishStep(decoded \o Sampled(PrefillRows, eos))
    BY <1>3 DEF PrefillReturns
  <2>4. /\ Sampled(PrefillRows, eos) \in Seq(Tokens)
        /\ Len(Sampled(PrefillRows, eos)) = Len(prefillPlan)
    BY <1>1, <2>2, SampledType
  <2> DEFINE tokens == decoded \o Sampled(PrefillRows, eos)
  <2>5. tokens \in Seq(Tokens) /\ Len(tokens) = NumRows
    BY <2>a, <2>4 DEF NumRows
  <2>6. FinishStep(tokens)
    BY <2>3
  <2> HIDE DEF tokens
  <2>7. QED
    BY <2>1, <2>5, <2>6 DEF EndsWell
<1>4. CASE MixedReturns
  <2>1. pc = "mixed" /\ UNCHANGED <<requestVars, clientVars>>
    BY <1>4 DEF MixedReturns
  <2>2. MixedRows \in Seq(Rows) /\ Len(MixedRows) = NumRows
    BY <2>1, CallRows
  <2>3. PICK eos \in [1 .. NumRows -> BOOLEAN] : FinishStep(Sampled(MixedRows, eos))
    BY <1>4 DEF MixedReturns
  <2>4. Sampled(MixedRows, eos) \in Seq(Tokens) /\ Len(Sampled(MixedRows, eos)) = NumRows
    BY <1>1, <2>2, <2>3, SampledType
  <2>5. QED
    BY <2>1, <2>3, <2>4 DEF EndsWell
<1>5. QED
  BY <1>2, <1>3, <1>4

\* A request that is given a token by update_requests has ended or goes on, and
\* its status says which.
LEMMA FinishService ==
  ASSUME TypeInv, ServiceInv, EndsWell
  PROVE  ServiceInv'
<1>1. PICK tokens \in Seq(Tokens) : Len(tokens) = NumRows /\ FinishStep(tokens)
  BY DEF EndsWell
<1>2. /\ UpdateRequests(tokens) /\ pc # "retire" /\ pc' = "retire"
      /\ UNCHANGED <<nextId, maxOutput, running, completed, delivered>>
  BY <1>1 DEF FinishStep, EndsWell, requestVars, clientVars
<1>3. outputs \in [Reqs -> Seq(Tokens)]
  BY Parts DEF PoolTypes
<1>4. ASSUME NEW r \in Reqs
      PROVE  \/ outputs'[r] = outputs[r] /\ status'[r] = status[r]
             \/ /\ outputs'[r] # <<>>
                /\ status'[r] = IF Stops(r, outputs'[r]) THEN "COMPLETED" ELSE "DECODING"
  <2>1. CASE outputs'[r] = outputs[r] /\ status'[r] = status[r]
    BY <2>1
  <2>2. CASE \E k \in 1 .. NumRows :
               /\ outputs'[r] = Append(outputs[r], tokens[k])
               /\ status'[r] = IF Stops(r, outputs'[r]) THEN "COMPLETED" ELSE "DECODING"
    <3>1. PICK k \in 1 .. NumRows :
            /\ outputs'[r] = Append(outputs[r], tokens[k])
            /\ status'[r] = IF Stops(r, outputs'[r]) THEN "COMPLETED" ELSE "DECODING"
      BY <2>2
    <3>2. tokens[k] \in Tokens /\ outputs[r] \in Seq(Tokens)
      BY <1>1, <1>3
    <3>3. Len(outputs'[r]) = Len(outputs[r]) + 1 /\ Len(outputs[r]) \in Nat
      BY <3>1, <3>2, AppendFacts
    <3>4. outputs'[r] # <<>>
      BY <3>3
    <3>5. QED
      BY <3>1, <3>4
  <2>3. QED
    BY <1>2, <2>1, <2>2, UpdateFacts
<1>5. \A r \in Reqs : InRunning(r) => r < nextId /\ status[r] # "COMPLETED"
  BY <1>2, Parts DEF InRunning, QueueInv, RunningInv
<1>6. Answered' = Answered /\ \A r : InRunning(r)' <=> InRunning(r)
  BY <1>2 DEF Answered, InRunning
<1>7. \A r : \A out : Stops(r, out)' <=> Stops(r, out)
  BY <1>2 DEF Stops
<1>8. EndsInv'
  <2>1. \A r \in Reqs : r < nextId' /\ status'[r] # "COMPLETED" /\ outputs'[r] # <<>>
                          => ~Stops(r, outputs'[r])
    BY <1>2, <1>4 DEF ServiceInv, EndsInv
  <2>2. \A r \in Reqs : InRunning(r) /\ status'[r] = "COMPLETED"
                          => outputs'[r] # <<>> /\ Stops(r, outputs'[r])
    BY <1>4, <1>5
  <2>3. QED
    BY <1>2, <1>6, <2>1, <2>2 DEF ServiceInv, EndsInv, Stops
<1>9. AllDecoded'
  BY <1>2, DecodedFrame DEF ServiceInv
<1>10. QED
  BY <1>8, <1>9 DEF ServiceInv

\* The output of a request that retires is the newest answer.
LEMMA RetireService ==
  ASSUME TypeInv, DeliveryInv, ServiceInv, RetireRequest
  PROVE  /\ ServiceInv'
         /\ \E r \in Reqs :
              /\ InRunning(r) /\ outputs' = [outputs EXCEPT ![r] = <<>>]
              /\ Len(Answered') = Len(Answered) + 1
              /\ \A k \in 1 .. Len(Answered) : Answered'[k] = Answered[k]
              /\ Answered'[Len(Answered) + 1] = [id |-> r, out |-> outputs[r]]
<1>1. PICK i \in 1 .. Len(running) :
        /\ IsRetired(i)
        /\ completed' = Append(completed, [id |-> running[i], out |-> outputs[running[i]]])
        /\ outputs' = [outputs EXCEPT ![running[i]] = <<>>]
        /\ running' = Without(running, i)
  BY DEF RetireRequest
<1>2. /\ pc' = "retire"
      /\ UNCHANGED <<nextId, maxOutput, status, delivered>>
  BY DEF RetireRequest, requestVars
<1>3. /\ running \in Seq(Reqs) /\ Sorted(running) /\ running[i] \in Reqs
      /\ outputs \in [Reqs -> Seq(Tokens)]
  BY <1>1, Parts DEF PoolTypes, QueueInv
<1> DEFINE q      == running[i]
           answer == [id |-> q, out |-> outputs[q]]
<1>4. InRunning(q) /\ status[q] = "COMPLETED"
  BY <1>1 DEF InRunning, IsRetired
<1>5. outputs[q] # <<>> /\ Stops(q, outputs[q])
  BY <1>3, <1>4 DEF ServiceInv, EndsInv
<1>6. /\ Len(Answered) \in Nat /\ Len(Answered') = Len(Answered) + 1
      /\ \A k \in 1 .. Len(Answered) : Answered'[k] = Answered[k]
      /\ Answered'[Len(Answered) + 1] = answer
  <2>1. delivered \in Seq(Answers) /\ completed \in Seq(Answers)
    BY AnsweredTyped
  <2>2. completed' = Append(completed, answer) /\ answer \in Answers
    BY <1>1, <1>3 DEF Answers
  <2> HIDE DEF answer
  <2>3. Answered = delivered \o completed /\ Answered' = delivered \o Append(completed, answer)
    BY <1>2, <2>2 DEF Answered
  <2>4. QED
    BY <2>1, <2>2, <2>3
<1>7. \A r : InRunning(r)' => InRunning(r) /\ r # q
  <2>1. \A r : (\E j \in 1 .. Len(Without(running, i)) : Without(running, i)[j] = r)
                 <=> (\E k \in 1 .. Len(running) : running[k] = r) /\ r # q
    BY <1>1, <1>3, WithoutMembers
  <2>2. QED
    BY <1>1, <2>1 DEF InRunning
<1>8. \A r \in Reqs : outputs'[r] = IF r = q THEN <<>> ELSE outputs[r]
  BY <1>1, <1>3
<1>9. \A k \in 1 .. Len(Answered') :
        \/ k \in 1 .. Len(Answered) /\ Answered'[k] = Answered[k]
        \/ Answered'[k].id = q /\ Answered'[k].out = outputs[q]
  <2>1. \A k \in 1 .. Len(Answered') : k \in 1 .. Len(Answered) \/ k = Len(Answered) + 1
    BY <1>6
  <2>2. answer.id = q /\ answer.out = outputs[q]
    OBVIOUS
  <2> HIDE DEF answer, q
  <2>3. QED
    BY <1>6, <2>1, <2>2
<1> HIDE DEF q
<1>10. EndsInv'
  <2>1. \A r \in Reqs : r < nextId' /\ status'[r] # "COMPLETED" /\ outputs'[r] # <<>>
                          => ~Stops(r, outputs'[r])
    BY <1>2, <1>8 DEF ServiceInv, EndsInv
  <2>2. \A r \in Reqs : InRunning(r)' /\ status'[r] = "COMPLETED"
                          => outputs'[r] # <<>> /\ Stops(r, outputs'[r])
    BY <1>2, <1>7, <1>8 DEF ServiceInv, EndsInv
  <2>3. \A k \in 1 .. Len(Answered') :
          Answered'[k].out # <<>> /\ Stops(Answered'[k].id, Answered'[k].out)
    BY <1>5, <1>9 DEF ServiceInv, EndsInv
  <2>4. QED
    BY <1>2, <2>1, <2>2, <2>3 DEF EndsInv, Stops
<1>11. AllDecoded'
  BY <1>2, DecodedFrame DEF ServiceInv
<1>12. QED
  BY <1>1, <1>3, <1>4, <1>6, <1>10, <1>11 DEF ServiceInv, q


\* Every step keeps it.
LEMMA NextService ==
  TypeInv /\ DeliveryInv /\ ServiceInv /\ [Next]_vars => ServiceInv'
<1> SUFFICES ASSUME TypeInv, DeliveryInv, ServiceInv, [Next]_vars PROVE ServiceInv'
  OBVIOUS
<1>1. CASE \E shape \in Shapes : SubmitRequest(shape)
  BY <1>1, SubmitService
<1>2. CASE PopCompleted
  BY <1>2, PopService
<1>3. CASE ScanRunning
  BY <1>3, ScanService
<1>4. CASE AdmitRequest
  BY <1>4, AdmitService
<1>5. CASE RetireRequest
  BY <1>5, RetireService
<1>6. CASE DecodeReturns \/ PrefillReturns \/ MixedReturns
  <2>1. CASE EndsWell
    BY <2>1, FinishService
  <2>2. CASE HandsOver
    <3>1. /\ UNCHANGED <<nextId, promptLen, maxOutput, running, status, computed, outputs, completed,
                         delivered, decodePlan>>
          /\ pc = "decode" /\ pc' = "prefill"
      BY <2>2 DEF HandsOver, requestVars, clientVars, poolVars, planVars
    <3>2. QED
      BY <3>1, EndsFrame, DecodedFrame DEF ServiceInv, Answered
  <2>3. QED
    BY <1>6, <2>1, <2>2, CallsReturn
<1>7. CASE BeginStep \/ ScanDone
  <2>1. /\ UNCHANGED <<nextId, promptLen, maxOutput, running, status, computed, outputs, completed,
                       delivered>>
        /\ \/ pc' = "scan" /\ scan' = 1
           \/ pc = "scan" /\ pc' = "admit" /\ scan > Len(running) /\ decodePlan' = decodePlan
    BY <1>7 DEF BeginStep, ScanDone, requestVars, poolVars, clientVars, planVars
  <2>2. scan \in Nat /\ Len(running) \in Nat
    BY Parts DEF PlanTypes, PoolTypes
  <2>3. AllDecoded'
    BY <2>1, <2>2 DEF ServiceInv, AllDecoded, InDecode, IsPrefillComplete
  <2>4. QED
    BY <2>1, <2>3, EndsFrame DEF ServiceInv, Answered
<1>8. CASE ReturnEmpty \/ EndStep \/ Failure
  <2>1. /\ UNCHANGED <<nextId, maxOutput, running, status, outputs, completed, delivered>>
        /\ pc' = "idle"
    BY <1>8 DEF ReturnEmpty, EndStep, Failure, AdvanceThrows, CallbackFails, Catch, requestVars,
         poolVars, clientVars
  <2>2. QED
    BY <2>1, EndsFrame, DecodedFrame DEF ServiceInv, Answered
<1>9. CASE ReplayDecode \/ LaunchDecode \/ LaunchPrefill \/ LaunchMixed
  <2>1. /\ UNCHANGED <<nextId, promptLen, maxOutput, running, status, computed, outputs, completed,
                       delivered>>
        /\ pc \in {"admit", "launch"}
        /\ pc' = "idle" \/ (pc' \in {"decode", "prefill", "mixed"} /\ decodePlan' = decodePlan)
    BY <1>9, ScheduleDonePc DEF ReplayDecode, LaunchDecode, LaunchPrefill, LaunchMixed, Catch,
         requestVars, poolVars, clientVars, planVars
  <2>2. QED
    BY <2>1, EndsFrame, DecodedFrame DEF ServiceInv, Answered
<1>10. CASE UNCHANGED vars
  <2>1. UNCHANGED <<nextId, promptLen, maxOutput, running, status, computed, outputs, completed,
                    delivered, pc, scan, decodePlan>>
    BY <1>10 DEF vars, requestVars, poolVars, clientVars, planVars
  <2>2. QED
    BY <2>1, EndsFrame, DecodedFrame DEF ServiceInv, Answered
<1>11. QED
  BY <1>1, <1>2, <1>3, <1>4, <1>5, <1>6, <1>7, <1>8, <1>9, <1>10
  DEF Next, Client, Schedule, Launch, Compact

-----------------------------------------------------------------------------
(* The mapping *)

\* The answer the client sees of a request, from those that left running.
AnswerFrom(c, d, r, live) ==
  LET ended == c \o d
      own   == {i \in 1 .. Len(ended) : ended[i].id = r}
  IN  IF own = {} THEN live ELSE ended[CHOOSE i \in own : TRUE].out
\* In answers that name no request twice, found is that of r, or what is live.
NoneTwice(a) == \A k, l \in 1 .. Len(a) : a[k].id = a[l].id => k = l
Finds(a, r, live, found) ==
  /\ \A k \in 1 .. Len(a) : a[k].id = r => found = a[k].out
  /\ (\A k \in 1 .. Len(a) : a[k].id # r) => found = live
\* An answer that left running is found; otherwise the output is what there is.
LEMMA AnswerFound ==
  ASSUME NEW c \in Seq(Answers), NEW d \in Seq(Answers), NEW r, NEW live, NoneTwice(d \o c)
  PROVE  Finds(d \o c, r, live, AnswerFrom(c, d, r, live))
<1> DEFINE a == d \o c
           e == c \o d
           own == {i \in 1 .. Len(e) : e[i].id = r}
           first == CHOOSE i \in own : TRUE
<1>1. AnswerFrom(c, d, r, live) = IF own = {} THEN live ELSE e[first].out
  BY DEF AnswerFrom
<1>2. \A i \in 1 .. Len(e) : \E k \in 1 .. Len(a) : e[i] = a[k]
  <2>1. ASSUME NEW i \in 1 .. Len(e)
        PROVE  \/ i + Len(d) \in 1 .. Len(a) /\ e[i] = a[i + Len(d)]
               \/ i - Len(c) \in 1 .. Len(a) /\ e[i] = a[i - Len(c)]
    OBVIOUS
  <2>2. QED
    BY <2>1
<1>3. \A k \in 1 .. Len(a) : \E i \in 1 .. Len(e) : e[i] = a[k]
  <2>1. ASSUME NEW k \in 1 .. Len(a)
        PROVE  \/ k + Len(c) \in 1 .. Len(e) /\ a[k] = e[k + Len(c)]
               \/ k - Len(d) \in 1 .. Len(e) /\ a[k] = e[k - Len(d)]
    OBVIOUS
  <2>2. QED
    BY <2>1
<1>4. \A k, l \in 1 .. Len(a) : a[k].id = a[l].id => k = l
  BY DEF NoneTwice
<1> HIDE DEF a, e
<1>5. own # {} => first \in 1 .. Len(e) /\ e[first].id = r
  OBVIOUS
<1> HIDE DEF first
<1>6. ASSUME NEW k \in 1 .. Len(a), a[k].id = r
      PROVE  AnswerFrom(c, d, r, live) = a[k].out
  <2>1. own # {}
    BY <1>3, <1>6
  <2>2. PICK l \in 1 .. Len(a) : e[first] = a[l]
    BY <1>2, <1>5, <2>1
  <2>3. l = k
    BY <1>4, <1>5, <1>6, <2>1, <2>2
  <2>4. QED
    BY <1>1, <2>1, <2>2, <2>3
<1>7. ASSUME \A k \in 1 .. Len(a) : a[k].id # r
      PROVE  AnswerFrom(c, d, r, live) = live
  BY <1>1, <1>2, <1>7
<1>8. QED
  BY <1>6, <1>7 DEF a, Finds


\* There is only one answer to find.
LEMMA FoundOnce ==
  ASSUME NEW a, NEW r, NEW live, NEW found, NEW again,
         Finds(a, r, live, found), Finds(a, r, live, again)
  PROVE  found = again
BY DEF Finds

\* The answer of a request is the one that left running, or its output so far.
LEMMA AnswerIs ==
  ASSUME TypeInv, DeliveryInv
  PROVE  /\ \A k \in 1 .. Len(Answered) : AnswerOf(Answered[k].id) = Answered[k].out
         /\ \A r : ~IsAnswered(r) => AnswerOf(r) = outputs[r]
<1>1. completed \in Seq(Answers) /\ delivered \in Seq(Answers)
  BY AnsweredTyped
<1>2. NoneTwice(delivered \o completed)
  BY DEF DeliveryInv, Answered, NoneTwice
<1>3. \A r : AnswerOf(r) = AnswerFrom(completed, delivered, r, outputs[r])
  BY DEF AnswerOf, AnswerFrom
<1>4. ASSUME NEW r
      PROVE  /\ \A k \in 1 .. Len(Answered) : Answered[k].id = r => AnswerOf(r) = Answered[k].out
             /\ ~IsAnswered(r) => AnswerOf(r) = outputs[r]
  <2>1. Finds(delivered \o completed, r, outputs[r], AnswerFrom(completed, delivered, r, outputs[r]))
    BY <1>1, <1>2, AnswerFound
  <2>2. QED
    BY <1>3, <2>1 DEF Finds, Answered, IsAnswered
<1>5. QED
  BY <1>4

\* What the client's view says of the requests of the loop.
LEMMA ClientView ==
  ASSUME TypeInv
  PROVE  /\ \A r : r \in Service!Accepted <=> r \in Reqs /\ r < nextId
         /\ \A r \in Reqs : r < nextId =>
              Service!Prompt(r) = promptLen[r] /\ Service!Limit(r) = maxOutput[r]
         /\ \A r : r \in Service!Started <=> r \in Reqs /\ r < nextId /\ AnswerOf(r) # <<>>
         /\ \A r : r \in Service!Ended <=>
              r \in Reqs /\ r < nextId /\ AnswerOf(r) # <<>> /\ Stops(r, AnswerOf(r))
<1>1. nextId \in Nat /\ nextId <= MaxRequests /\ MaxRequests \in Nat
  BY Parts, ConfigAssumption DEF RequestTypes
<1> DEFINE shapes == [i \in 1 .. nextId |-> <<promptLen[i - 1], maxOutput[i - 1]>>]
<1>2. Len(shapes) = nextId
  BY <1>1
<1>3. \A r : r \in Service!Accepted <=> r \in Reqs /\ r < nextId
  BY <1>1, <1>2 DEF Service!Accepted, Reqs
<1>4. ASSUME NEW r \in Reqs, r < nextId
      PROVE  Service!Prompt(r) = promptLen[r] /\ Service!Limit(r) = maxOutput[r]
  <2>1. r + 1 \in 1 .. nextId /\ (r + 1) - 1 = r
    BY <1>1, <1>4 DEF Reqs
  <2>2. shapes[r + 1] = <<promptLen[r], maxOutput[r]>>
    BY <2>1
  <2>3. QED
    BY <2>2 DEF Service!Prompt, Service!Limit
<1>5. \A r : r \in Service!Started <=> r \in Reqs /\ r < nextId /\ AnswerOf(r) # <<>>
  BY <1>3 DEF Service!Started
<1>6. \A r : r \in Service!Ended <=>
        r \in Reqs /\ r < nextId /\ AnswerOf(r) # <<>> /\ Stops(r, AnswerOf(r))
  BY <1>4, <1>5 DEF Service!Ended, Stops
<1>7. QED
  BY <1>3, <1>4, <1>5, <1>6

\* In the client's view a request has ended when its answer has left running or
\* is about to.
LEMMA EndedIs ==
  ASSUME TypeInv, DeliveryInv, ServiceInv, NEW r
  PROVE  /\ r \in Service!Ended <=>
              IsAnswered(r) \/ (r \in Reqs /\ InRunning(r) /\ status[r] = "COMPLETED")
         /\ IsAnswered(r) => r \in Reqs /\ r < nextId /\ AnswerOf(r) # <<>>
<1>1. CASE IsAnswered(r)
  <2>1. PICK k \in 1 .. Len(Answered) : Answered[k].id = r
    BY <1>1 DEF IsAnswered
  <2>2. r \in Reqs /\ r < nextId
    BY <2>1, AnsweredTyped DEF DeliveryInv
  <2>3. AnswerOf(r) = Answered[k].out /\ Answered[k].out # <<>> /\ Stops(r, Answered[k].out)
    BY <2>1, AnswerIs DEF ServiceInv, EndsInv
  <2>4. QED
    BY <1>1, <2>2, <2>3, ClientView
<1>2. CASE ~IsAnswered(r) /\ r \in Reqs /\ r < nextId
  <2>1. AnswerOf(r) = outputs[r]
    BY <1>2, AnswerIs
  <2>2. InRunning(r) \/ InPending(r)
    BY <1>2 DEF DeliveryInv
  <2>3. InPending(r) => status[r] = "PENDING" /\ outputs[r] = <<>>
    BY <1>2, Parts DEF InPending, WaitingInv
  <2>4. InRunning(r) => ~InPending(r)
    BY <1>2, Parts, ConfigAssumption DEF InRunning, InPending, QueueInv, Reqs
  <2>5. InRunning(r) /\ status[r] = "COMPLETED" => outputs[r] # <<>> /\ Stops(r, outputs[r])
    BY <1>2 DEF ServiceInv, EndsInv
  <2>6. status[r] # "COMPLETED" /\ outputs[r] # <<>> => ~Stops(r, outputs[r])
    BY <1>2 DEF ServiceInv, EndsInv
  <2>7. QED
    BY <1>2, <2>1, <2>2, <2>3, <2>4, <2>5, <2>6, ClientView
<1>3. CASE ~IsAnswered(r) /\ ~(r \in Reqs /\ r < nextId)
  <2>1. InRunning(r) => r \in Reqs /\ r < nextId
    BY Parts DEF InRunning, QueueInv, PoolTypes
  <2>2. QED
    BY <1>3, <2>1, ClientView
<1>4. QED
  BY <1>1, <1>2, <1>3

\* The answers the client has taken.
LEMMA TakenIs ==
  ASSUME NEW d \in Seq(Answers)
  PROVE  \A r : r \in ToSet(Ids(d)) <=> \E k \in 1 .. Len(d) : d[k].id = r
<1>1. /\ Ids(d) \in Seq(Reqs) /\ Len(Ids(d)) = Len(d)
      /\ \A k \in 1 .. Len(d) : Ids(d)[k] = d[k].id
  BY IdsFacts DEF Answers
<1>2. \A r : r \in ToSet(Ids(d)) <=> \E k \in 1 .. Len(Ids(d)) : Ids(d)[k] = r
  BY <1>1, ToSetFacts
<1>3. QED
  BY <1>1, <1>2

\* The service starts with nothing accepted.
LEMMA InitImplements == Init => Service!Init
<1> SUFFICES ASSUME Init PROVE Service!Init
  OBVIOUS
<1>1. /\ nextId = 0 /\ completed = <<>> /\ delivered = <<>>
      /\ outputs = [r \in Reqs |-> <<>>]
  BY DEF Init
<1>2. [i \in 1 .. nextId |-> <<promptLen[i - 1], maxOutput[i - 1]>>] = <<>>
  BY <1>1
<1>3. \A r \in Reqs : AnswerOf(r) = <<>>
  <2>1. Len(completed \o delivered) = 0
    BY <1>1
  <2>2. QED
    BY <1>1, <2>1 DEF AnswerOf
<1>4. ToSet(Ids(delivered)) = {}
  <2>1. Ids(delivered) = <<>>
    BY <1>1 DEF Ids
  <2>2. QED
    BY <2>1 DEF ToSet
<1>5. QED
  BY <1>2, <1>3, <1>4 DEF Service!Init, Service!Reqs, Reqs


\* Scheduling, launching and failing calls are not seen by the client.
LEMMA Unseen ==
  ASSUME UNCHANGED <<nextId, promptLen, maxOutput, outputs, completed, delivered>>
  PROVE  UNCHANGED Service!vars
<1>1. \A r : AnswerOf(r)' = AnswerOf(r)
  BY DEF AnswerOf
<1>2. ToSet(Ids(delivered))' = ToSet(Ids(delivered))
  BY DEF Ids, ToSet
<1>3. QED
  BY <1>1, <1>2 DEF Service!vars

\* submit_request accepts.
LEMMA SubmitAccepts ==
  ASSUME TypeInv, NEW shape \in Shapes, SubmitRequest(shape)
  PROVE  Service!Accept
<1>1. /\ nextId < MaxRequests /\ nextId' = nextId + 1 /\ ValidShape(shape)
      /\ promptLen' = [promptLen EXCEPT ![nextId] = shape[1]]
      /\ maxOutput' = [maxOutput EXCEPT ![nextId] = shape[2]]
      /\ UNCHANGED <<outputs, completed, delivered>>
  BY DEF SubmitRequest, clientVars
<1>2. /\ nextId \in Nat /\ nextId \in Reqs /\ promptLen \in [Reqs -> 0 .. MaxContextLength]
      /\ maxOutput \in [Reqs -> 0 .. MaxContextLength]
      /\ \A r \in Reqs : r \in Int
  BY <1>1, Parts, ConfigAssumption DEF RequestTypes, Reqs
<1>3. shape \in Int \X Int
  BY ConfigAssumption
<1>a. shape = <<shape[1], shape[2]>> /\ shape[1] \in Int /\ shape[2] \in Int
  BY <1>3
<1>4. /\ shape[1] > 0 /\ shape[2] > 0 /\ shape[1] + shape[2] <= MaxContextLength
  BY <1>1, <1>a, ConfigAssumption DEF ValidShape
<1> DEFINE shapes == [i \in 1 .. nextId |-> <<promptLen[i - 1], maxOutput[i - 1]>>]
           more   == [i \in 1 .. nextId' |-> <<promptLen'[i - 1], maxOutput'[i - 1]>>]
<1>5. more = Append(shapes, shape)
  <2>1. Len(shapes) = nextId /\ shapes \in Seq(Int \X Int)
    <3>1. \A i \in 1 .. nextId : i - 1 \in Reqs
      BY <1>1, <1>2, ConfigAssumption DEF Reqs
    <3>2. \A i \in 1 .. nextId : <<promptLen[i - 1], maxOutput[i - 1]>> \in Int \X Int
      BY <1>2, <3>1, ConfigAssumption
    <3>3. QED
      BY <1>2, <3>2
  <2>2. ASSUME NEW i \in 1 .. nextId
        PROVE  <<promptLen'[i - 1], maxOutput'[i - 1]>> = shapes[i]
    <3>1. i - 1 \in Reqs /\ i - 1 # nextId
      BY <1>1, <1>2, ConfigAssumption DEF Reqs
    <3>2. promptLen'[i - 1] = promptLen[i - 1] /\ maxOutput'[i - 1] = maxOutput[i - 1]
      BY <1>1, <1>2, <3>1
    <3>3. QED
      BY <3>2
  <2>3. <<promptLen'[(nextId + 1) - 1], maxOutput'[(nextId + 1) - 1]>> = shape
    <3>1. (nextId + 1) - 1 = nextId
      BY <1>2
    <3>2. promptLen'[nextId] = shape[1] /\ maxOutput'[nextId] = shape[2]
      BY <1>1, <1>2
    <3>3. QED
      BY <1>a, <3>1, <3>2
  <2> HIDE DEF shapes
  <2>4. /\ Append(shapes, shape) \in Seq(Int \X Int) /\ Len(Append(shapes, shape)) = nextId + 1
        /\ \A i \in 1 .. nextId : Append(shapes, shape)[i] = shapes[i]
        /\ Append(shapes, shape)[nextId + 1] = shape
    BY <1>3, <2>1, AppendFacts
  <2>5. /\ more = [i \in 1 .. (nextId + 1) |-> more[i]]
        /\ \A i \in 1 .. (nextId + 1) : more[i] = <<promptLen'[i - 1], maxOutput'[i - 1]>>
    BY <1>1
  <2> HIDE DEF more
  <2>6. ASSUME NEW i \in 1 .. (nextId + 1)
        PROVE  more[i] = Append(shapes, shape)[i]
    <3>1. i \in 1 .. nextId \/ i = nextId + 1
      BY <1>2
    <3>2. QED
      BY <2>2, <2>3, <2>4, <2>5, <3>1
  <2>7. Append(shapes, shape) = [i \in 1 .. (nextId + 1) |-> Append(shapes, shape)[i]]
    <3> DEFINE longer == Append(shapes, shape)
    <3>1. longer \in Seq(Int \X Int) /\ Len(longer) = nextId + 1
      BY <2>4
    <3> HIDE DEF longer
    <3>2. longer = [i \in 1 .. (nextId + 1) |-> longer[i]]
      BY <3>1
    <3>3. QED
      BY <3>2 DEF longer
  <2>8. QED
    BY <2>5, <2>6, <2>7
<1>6. Len(shapes) < MaxRequests
  BY <1>1, <1>2
<1>7. \A r : AnswerOf(r)' = AnswerOf(r)
  BY <1>1 DEF AnswerOf
<1>8. ToSet(Ids(delivered))' = ToSet(Ids(delivered))
  BY <1>1 DEF Ids, ToSet
<1>9. QED
  BY <1>4, <1>5, <1>6, <1>7, <1>8 DEF Service!Accept

\* pop_completed delivers all that has ended, and there is something new.
LEMMA PopDelivers ==
  ASSUME TypeInv, TypeInv', DeliveryInv, ServiceInv, PopCompleted
  PROVE  Service!Deliver
<1>1. /\ pc # "retire" /\ completed # <<>> /\ completed' = <<>>
      /\ delivered' = delivered \o completed
      /\ UNCHANGED <<nextId, promptLen, maxOutput, outputs>>
  BY DEF PopCompleted, ClientMayRun, requestVars, poolVars
<1>2. completed \in Seq(Answers) /\ delivered \in Seq(Answers)
  BY AnsweredTyped
<1>3. Answered' = Answered /\ Answered = delivered'
  BY <1>1, PopService DEF Answered
<1>4. \A r : IsAnswered(r) <=> r \in ToSet(Ids(delivered'))
  <2>1. delivered' \in Seq(Answers)
    BY <1>1, <1>2
  <2>2. QED
    BY <1>3, <2>1, TakenIs DEF IsAnswered
<1>5. \A r : r \in Service!Ended <=> IsAnswered(r)
  <2>1. \A r : InRunning(r) => status[r] # "COMPLETED"
    BY <1>1, Parts DEF InRunning, RunningInv
  <2>2. QED
    BY <2>1, EndedIs
<1>6. \E r : r \in ToSet(Ids(delivered')) /\ r \notin ToSet(Ids(delivered))
  <2>1. PICK k \in 1 .. Len(completed) : k = 1
    BY <1>1, <1>2
  <2>2. /\ Len(delivered) + k \in 1 .. Len(Answered) /\ Answered[Len(delivered) + k] = completed[k]
        /\ \A l \in 1 .. Len(delivered) : l \in 1 .. Len(Answered) /\ Answered[l] = delivered[l]
                                          /\ l # Len(delivered) + k
    BY <1>2 DEF Answered
  <2>3. IsAnswered(completed[k].id)
    BY <2>2 DEF IsAnswered
  <2>4. \A l \in 1 .. Len(delivered) : delivered[l].id # completed[k].id
    BY <2>2 DEF DeliveryInv
  <2>5. QED
    BY <1>2, <1>4, <2>3, <2>4, TakenIs
<1>7. \A r \in Reqs : AnswerOf(r)' = AnswerOf(r)
  <2>1. NoneTwice(delivered \o completed) /\ delivered' \o completed' = delivered \o completed
    BY <1>3 DEF DeliveryInv, Answered, NoneTwice
  <2>2. completed' \in Seq(Answers) /\ delivered' \in Seq(Answers)
    BY <1>1, <1>2
  <2>3. ASSUME NEW r \in Reqs
        PROVE  AnswerFrom(completed', delivered', r, outputs[r])
                 = AnswerFrom(completed, delivered, r, outputs[r])
    <3> DEFINE e == completed'
               f == delivered'
               live == outputs[r]
    <3>1. e \in Seq(Answers) /\ f \in Seq(Answers) /\ f \o e = delivered \o completed
      BY <2>1, <2>2
    <3> HIDE DEF e, f, live
    <3>2. NoneTwice(f \o e)
      BY <2>1, <3>1
    <3>3. Finds(f \o e, r, live, AnswerFrom(e, f, r, live))
      BY <3>1, <3>2, AnswerFound
    <3>4. Finds(delivered \o completed, r, live, AnswerFrom(completed, delivered, r, live))
      BY <1>2, <2>1, AnswerFound
    <3>5. AnswerFrom(e, f, r, live) = AnswerFrom(completed, delivered, r, live)
      BY <3>1, <3>3, <3>4, FoundOnce
    <3>6. QED
      BY <3>5 DEF e, f, live
  <2>4. QED
    BY <1>1, <2>3 DEF AnswerOf, AnswerFrom
<1>8. Service!Ended = ToSet(Ids(delivered'))
  <2>1. Service!Ended \subseteq ToSet(Ids(delivered')) /\ ToSet(Ids(delivered')) \subseteq Service!Ended
    BY <1>4, <1>5
  <2>2. QED
    BY <2>1
<1>9. Service!Ended # ToSet(Ids(delivered))
  BY <1>6, <1>8
<1>10. ToSet(Ids(delivered))' = Service!Ended
  BY <1>8 DEF Ids, ToSet
<1>11. QED
  BY <1>1, <1>7, <1>9, <1>10 DEF Service!Deliver

\* An answer stays what it was when its request retires.
LEMMA RetireUnseen ==
  ASSUME TypeInv, TypeInv', DeliveryInv, DeliveryInv', ServiceInv, RetireRequest
  PROVE  UNCHANGED Service!vars
<1>1. PICK q \in Reqs :
        /\ InRunning(q) /\ outputs' = [outputs EXCEPT ![q] = <<>>]
        /\ Len(Answered') = Len(Answered) + 1
        /\ \A k \in 1 .. Len(Answered) : Answered'[k] = Answered[k]
        /\ Answered'[Len(Answered) + 1] = [id |-> q, out |-> outputs[q]]
  BY RetireService
<1>2. UNCHANGED <<nextId, promptLen, maxOutput, delivered>>
  BY DEF RetireRequest, requestVars
<1>3. /\ outputs \in [Reqs -> Seq(Tokens)] /\ Len(Answered) \in Nat
      /\ completed' \in Seq(Answers) /\ delivered' \in Seq(Answers)
  <2>1. ClientTypes' /\ PoolTypes
    BY Parts DEF TypeInv, TypeOK
  <2>2. QED
    BY <2>1, AnsweredTyped DEF ClientTypes, PoolTypes, Answers
<1>4. \A r : /\ \A k \in 1 .. Len(Answered') : Answered'[k].id = r => AnswerOf(r)' = Answered'[k].out
             /\ (\A k \in 1 .. Len(Answered') : Answered'[k].id # r) => AnswerOf(r)' = outputs'[r]
  <2>1. NoneTwice(delivered' \o completed')
    BY DEF DeliveryInv, Answered, NoneTwice
  <2>2. \A r : AnswerOf(r)' = AnswerFrom(completed', delivered', r, outputs'[r])
    BY DEF AnswerOf, AnswerFrom
  <2>3. ASSUME NEW r
        PROVE  Finds(delivered' \o completed', r, outputs'[r],
                     AnswerFrom(completed', delivered', r, outputs'[r]))
    BY <1>3, <2>1, AnswerFound
  <2>4. QED
    BY <2>2, <2>3 DEF Finds, Answered
<1>5. ~IsAnswered(q)
  BY <1>1 DEF IsAnswered, DeliveryInv
<1>6. ASSUME NEW r \in Reqs
      PROVE  AnswerOf(r)' = AnswerOf(r)
  <2>1. CASE IsAnswered(r)
    <3>1. PICK k \in 1 .. Len(Answered) : Answered[k].id = r
      BY <2>1 DEF IsAnswered
    <3>2. k \in 1 .. Len(Answered') /\ Answered'[k] = Answered[k]
      BY <1>1, <1>3
    <3>3. QED
      BY <1>4, <3>1, <3>2, AnswerIs
  <2>2. CASE r = q
    <3>1. Len(Answered) + 1 \in 1 .. Len(Answered')
      BY <1>1, <1>3
    <3>2. Answered'[Len(Answered) + 1].id = q /\ Answered'[Len(Answered) + 1].out = outputs[q]
      BY <1>1
    <3>3. QED
      BY <1>4, <1>5, <2>2, <3>1, <3>2, AnswerIs
  <2>3. CASE ~IsAnswered(r) /\ r # q
    <3>1. \A k \in 1 .. Len(Answered') : k \in 1 .. Len(Answered) \/ k = Len(Answered) + 1
      BY <1>1, <1>3
    <3>2. Answered'[Len(Answered) + 1].id = q
      BY <1>1
    <3>3. \A k \in 1 .. Len(Answered') : Answered'[k].id # r
      BY <1>1, <2>3, <3>1, <3>2 DEF IsAnswered
    <3>4. outputs'[r] = outputs[r]
      BY <1>1, <1>3, <2>3
    <3>5. QED
      BY <1>4, <2>3, <3>3, <3>4, AnswerIs
  <2>4. QED
    BY <2>1, <2>2, <2>3
<1>7. ToSet(Ids(delivered))' = ToSet(Ids(delivered))
  BY <1>2 DEF Ids, ToSet
<1>8. QED
  BY <1>2, <1>6, <1>7 DEF Service!vars

\* A request that has a row is moved on by one of its rows.
LEMMA UpdateServes ==
  ASSUME NEW tokens, UpdateRequests(tokens), NEW r \in Reqs,
         \E k \in 1 .. NumRows : RowReq(k) = r
  PROVE  \E k \in 1 .. NumRows :
           /\ RowReq(k) = r
           /\ computed'[r] = computed[r] + RowChunk(k)
           /\ computed'[r] >= promptLen[r] => outputs'[r] = Append(outputs[r], tokens[k])
<1> DEFINE row       == CHOOSE k \in 1 .. NumRows : RowReq(k) = r
           scheduled == {RowReq(k) : k \in 1 .. NumRows}
<1>1. row \in 1 .. NumRows /\ RowReq(row) = r /\ r \in scheduled
  OBVIOUS
<1>2. computed'[r] = computed[r] + RowChunk(row)
  BY <1>1 DEF UpdateRequests
<1>3. computed'[r] >= promptLen[r] => outputs'[r] = Append(outputs[r], tokens[row])
  BY <1>1, <1>2 DEF UpdateRequests
<1>4. QED
  BY <1>1, <1>2, <1>3

\* A step that ends well gives each request it serves its next own token: those
\* that have started and not ended, and the next ones in order of arrival.
LEMMA FinishGenerates ==
  ASSUME TypeInv, TypeInv', DeliveryInv, OrderInv, OrderInv', AnswersInv, AnswersInv',
         ServiceInv, EndsWell
  PROVE  Service!Generate \/ UNCHANGED Service!vars
<1>1. PICK tokens \in Seq(Tokens) : Len(tokens) = NumRows /\ FinishStep(tokens)
  BY DEF EndsWell
<1>2. /\ UpdateRequests(tokens) /\ pc \in {"decode", "prefill", "mixed"} /\ pc # "retire"
      /\ UNCHANGED <<nextId, promptLen, maxOutput, pending, running, completed, delivered>>
  BY <1>1 DEF FinishStep, EndsWell, requestVars, clientVars
<1>3. /\ outputs \in [Reqs -> Seq(Tokens)] /\ outputs' \in [Reqs -> Seq(Tokens)]
      /\ promptLen \in [Reqs -> 0 .. MaxContextLength] /\ computed \in [Reqs -> Nat]
      /\ decodePlan \in Seq(Reqs) /\ prefillPlan \in Seq([req : Reqs, chunk : Nat])
      /\ completed \in Seq(Answers) /\ delivered \in Seq(Answers)
  <2>1. PoolTypes' /\ PoolTypes /\ RequestTypes /\ PlanTypes
    BY Parts DEF TypeInv, TypeOK
  <2>2. QED
    BY <2>1, AnsweredTyped DEF PoolTypes, RequestTypes, PlanTypes
<1>4. MaxContextLength \in Nat /\ \A r \in Reqs : r \in Int
  BY ConfigAssumption DEF Reqs
<1> DEFINE served == {r \in Reqs : outputs'[r] # outputs[r]}
<1>5. ASSUME NEW r \in served
      PROVE  \E k \in 1 .. NumRows :
               /\ RowReq(k) = r /\ computed'[r] >= promptLen[r]
               /\ outputs'[r] = Append(outputs[r], tokens[k])
  BY <1>2, UpdateExact
<1>6. ASSUME NEW r \in Reqs, \E k \in 1 .. NumRows : RowReq(k) = r, computed'[r] >= promptLen[r]
      PROVE  r \in served
  <2>1. PICK k \in 1 .. NumRows : outputs'[r] = Append(outputs[r], tokens[k])
    BY <1>2, <1>6, UpdateServes
  <2>2. outputs[r] \in Seq(Tokens) /\ tokens[k] \in Tokens
    BY <1>1, <1>3
  <2>3. Len(outputs'[r]) = Len(outputs[r]) + 1 /\ Len(outputs[r]) \in Nat
    BY <2>1, <2>2, AppendFacts
  <2>4. QED
    BY <2>3
<1>7. ASSUME NEW r \in Reqs, InRunning(r), IsPrefillComplete(r)
      PROVE  r \in served
  <2>1. InDecode(r)
    BY <1>2, <1>7 DEF InRunning, ServiceInv, AllDecoded
  <2>2. PICK k \in 1 .. Len(decodePlan) : decodePlan[k] = r
    BY <2>1 DEF InDecode
  <2>3. k \in 1 .. NumRows /\ RowReq(k) = r
    BY <1>3, <2>2 DEF NumRows, RowReq
  <2>4. PICK l \in 1 .. NumRows : computed'[r] = computed[r] + RowChunk(l)
    BY <1>2, <2>3, UpdateServes
  <2>5. RowChunk(l) \in Nat
    BY <1>2, RowFacts
  <2>6. computed'[r] >= promptLen[r]
    BY <1>3, <1>4, <1>7, <2>4, <2>5 DEF IsPrefillComplete
  <2>7. QED
    BY <1>6, <2>3, <2>6
<1>8. ASSUME NEW r \in served
      PROVE  /\ InRunning(r) /\ r < nextId /\ status[r] # "COMPLETED" /\ ~IsAnswered(r)
             /\ r \in Reqs /\ computed'[r] > 0
  <2>1. InRunning(r) /\ r \in Reqs /\ computed'[r] >= promptLen[r]
    BY <1>2, <1>5, RowFacts
  <2>2. r < nextId /\ status[r] # "COMPLETED"
    BY <1>2, <2>1, Parts DEF InRunning, QueueInv, RunningInv
  <2>3. ~IsAnswered(r)
    BY <2>1 DEF IsAnswered, DeliveryInv
  <2>4. promptLen[r] >= 1 /\ computed'[r] \in Nat
    <3>1. PoolTypes'
      BY DEF TypeInv, TypeOK
    <3>2. QED
      BY <2>1, <2>2, <3>1, Parts DEF AcceptedInv, PoolTypes
  <2>5. QED
    BY <1>3, <1>4, <2>1, <2>2, <2>3, <2>4
<1> DEFINE newest(r) == outputs'[r][Len(outputs'[r])]
<1>9. ASSUME NEW r \in served
      PROVE  /\ newest(r).eos \in BOOLEAN
             /\ outputs'[r] = Append(outputs[r],
                  [req |-> r, at |-> promptLen[r] + Len(outputs[r]), eos |-> newest(r).eos])
  <2>1. PICK k \in 1 .. NumRows : outputs'[r] = Append(outputs[r], tokens[k])
    BY <1>5
  <2>2. outputs[r] \in Seq(Tokens) /\ tokens[k] \in Tokens /\ r \in Reqs
    BY <1>1, <1>3, <1>8
  <2> DEFINE n == Len(outputs[r])
  <2>3. n \in Nat /\ Len(outputs'[r]) = n + 1 /\ outputs'[r][n + 1] = tokens[k]
    BY <2>1, <2>2, AppendFacts
  <2>4. newest(r) = tokens[k]
    BY <2>3
  <2>5. Place(tokens[k]) = [req |-> r, at |-> promptLen[r] + (n + 1) - 1]
    <3>1. n + 1 \in 1 .. Len(outputs'[r])
      BY <2>3
    <3>2. Continues(r, outputs[r])'
      BY <2>2 DEF AnswersInv, ContinueInv
    <3>3. QED
      BY <1>2, <2>3, <3>1, <3>2 DEF Continues
  <2>6. tokens[k].req = r /\ tokens[k].at = promptLen[r] + n
    BY <1>3, <1>4, <2>2, <2>3, <2>5 DEF Place
  <2>7. /\ tokens[k] = [req |-> tokens[k].req, at |-> tokens[k].at, eos |-> tokens[k].eos]
        /\ tokens[k].eos \in BOOLEAN
    BY <2>2 DEF Tokens
  <2>8. QED
    BY <2>1, <2>4, <2>6, <2>7
<1> HIDE DEF newest
\* The answers the client sees.
<1>10. NoneTwice(delivered \o completed)
  BY DEF DeliveryInv, Answered, NoneTwice
<1>11. ASSUME NEW r \in served
       PROVE  AnswerOf(r) = outputs[r] /\ AnswerOf(r)' = outputs'[r]
  <2>1. ~IsAnswered(r)
    BY <1>8
  <2>2. AnswerOf(r) = outputs[r]
    BY <2>1, AnswerIs
  <2>3. AnswerOf(r)' = AnswerFrom(completed, delivered, r, outputs'[r])
    BY <1>2 DEF AnswerOf, AnswerFrom
  <2>4. Finds(delivered \o completed, r, outputs'[r],
              AnswerFrom(completed, delivered, r, outputs'[r]))
    BY <1>3, <1>10, AnswerFound
  <2>5. QED
    BY <2>1, <2>2, <2>3, <2>4 DEF Finds, IsAnswered, Answered
<1>12. ASSUME NEW r \in Reqs, r \notin served
       PROVE  AnswerOf(r)' = AnswerOf(r)
  <2>1. outputs'[r] = outputs[r]
    BY <1>12
  <2>2. QED
    BY <1>2, <2>1 DEF AnswerOf
<1>13. ToSet(Ids(delivered))' = ToSet(Ids(delivered))
  BY <1>2 DEF Ids, ToSet
\* Who is served.
<1>14. \A r \in served : r \in Service!Open
  <2>1. ASSUME NEW r \in served PROVE r \in Service!Open
    <3>1. r \in Service!Accepted
      BY <1>8, ClientView
    <3>2. r \notin Service!Ended
      BY <1>8, EndedIs
    <3>3. QED
      BY <3>1, <3>2 DEF Service!Open
  <2>2. QED
    BY <2>1
<1>15. ASSUME NEW r \in Service!Started \cap Service!Open
       PROVE  r \in served
  <2>1. r \in Reqs /\ r < nextId /\ AnswerOf(r) # <<>> /\ r \notin Service!Ended
    BY <1>15, ClientView DEF Service!Open
  <2>2. ~IsAnswered(r)
    BY <2>1, EndedIs
  <2>3. outputs[r] # <<>>
    BY <2>1, <2>2, AnswerIs
  <2>4. InRunning(r)
    BY <2>1, <2>2, <2>3, Parts DEF DeliveryInv, InPending, WaitingInv
  <2>5. IsPrefillComplete(r)
    BY <1>3, <1>4, <2>1, <2>3 DEF AnswersInv, ContinueInv, IsPrefillComplete
  <2>6. QED
    BY <1>7, <2>1, <2>4, <2>5
<1>16. ASSUME NEW r \in Service!Accepted, NEW q \in served, r < q
       PROVE  r \in served \cup Service!Started
  <2>1. r \in Reqs /\ r < nextId
    BY ClientView
  <2>2. CASE IsAnswered(r)
    BY <2>1, <2>2, EndedIs, ClientView
  <2>3. CASE ~IsAnswered(r)
    <3>1. ~InPending(r)
      <4>1. InRunning(q) /\ q \in Reqs
        BY <1>8
      <4>2. InPending(r) => q < r
        BY <4>1, Parts DEF InRunning, InPending, QueueInv
      <4>3. QED
        BY <1>4, <1>16, <2>1, <4>1, <4>2
    <3>2. InRunning(r)
      BY <2>1, <2>3, <3>1 DEF DeliveryInv
    <3>3. computed'[r] >= promptLen[r]
      <4>1. InRunning(r)' /\ InRunning(q)'
        BY <1>2, <1>8, <3>2 DEF InRunning
      <4>2. IsPrefillComplete(r)'
        BY <1>8, <1>16, <2>1, <4>1 DEF OrderInv, BegunInOrder
      <4>3. QED
        BY <1>2, <4>2 DEF IsPrefillComplete
    <3>4. computed'[r] = computed[r] \/ \E k \in 1 .. NumRows : RowReq(k) = r
      BY <1>2, <2>1, UpdateExact
    <3>5. CASE computed'[r] = computed[r]
      BY <1>7, <2>1, <3>2, <3>3, <3>5 DEF IsPrefillComplete
    <3>6. CASE \E k \in 1 .. NumRows : RowReq(k) = r
      BY <1>6, <2>1, <3>3, <3>6
    <3>7. QED
      BY <3>4, <3>5, <3>6
  <2>4. QED
    BY <2>2, <2>3
<1>17. CASE served = {}
  <2>1. \A r \in Reqs : AnswerOf(r)' = AnswerOf(r)
    BY <1>12, <1>17
  <2>2. QED
    BY <1>2, <1>13, <2>1 DEF Service!vars
<1>18. CASE served # {}
  <2> DEFINE eos == [r \in served |-> newest(r).eos]
  <2>1. eos \in [served -> BOOLEAN]
    BY <1>9
  <2>2. ASSUME NEW r \in Reqs
        PROVE  AnswerOf(r)' = IF r \in served
                 THEN Append(AnswerOf(r), [req |-> r, at |-> Service!Prompt(r) + Len(AnswerOf(r)),
                                           eos |-> eos[r]])
                 ELSE AnswerOf(r)
    <3>1. CASE r \in served
      <4>1. Service!Prompt(r) = promptLen[r]
        BY <1>8, <3>1, ClientView
      <4>2. eos[r] = newest(r).eos
        BY <3>1
      <4> HIDE DEF eos
      <4>3. QED
        BY <1>9, <1>11, <3>1, <4>1, <4>2
    <3>2. CASE r \notin served
      BY <1>12, <3>2
    <3>3. QED
      BY <3>1, <3>2
  <2>3. served \in SUBSET Service!Open
    BY <1>14
  <2>4. Service!Started \cap Service!Open \subseteq served
    BY <1>15
  <2>5. \A r \in Service!Accepted : \A q \in served : r < q => r \in served \cup Service!Started
    BY <1>16
  <2>6. Service!Reqs = Reqs
    BY DEF Service!Reqs, Reqs
  <2> DEFINE Gives(s, e) ==
        /\ s # {}
        /\ Service!Started \cap Service!Open \subseteq s
        /\ \A r \in Service!Accepted : \A q \in s : r < q => r \in s \cup Service!Started
        /\ [r \in Reqs |-> AnswerOf(r)]' = [r \in Service!Reqs |->
             IF r \in s
             THEN Append([q \in Reqs |-> AnswerOf(q)][r],
                         [req |-> r,
                          at  |-> Service!Prompt(r) + Len([q \in Reqs |-> AnswerOf(q)][r]),
                          eos |-> e[r]])
             ELSE [q \in Reqs |-> AnswerOf(q)][r]]
        /\ UNCHANGED <<[i \in 1 .. nextId |-> <<promptLen[i - 1], maxOutput[i - 1]>>],
                       ToSet(Ids(delivered))>>
  <2> HIDE DEF served, eos
  <2>7. UNCHANGED <<[i \in 1 .. nextId |-> <<promptLen[i - 1], maxOutput[i - 1]>>],
                    ToSet(Ids(delivered))>>
    BY <1>2, <1>13
  <2>8. [r \in Reqs |-> AnswerOf(r)]' = [r \in Service!Reqs |-> IF r \in served
          THEN Append([q \in Reqs |-> AnswerOf(q)][r],
                      [req |-> r,
                       at  |-> Service!Prompt(r) + Len([q \in Reqs |-> AnswerOf(q)][r]),
                       eos |-> eos[r]])
          ELSE [q \in Reqs |-> AnswerOf(q)][r]]
    BY <2>2, <2>6
  <2>9. Gives(served, eos)
    BY <1>18, <2>4, <2>5, <2>7, <2>8
  <2> HIDE DEF Gives
  <2>10. \E s \in SUBSET Service!Open : \E e \in [s -> BOOLEAN] : Gives(s, e)
    BY <2>1, <2>3, <2>9
  <2>11. QED
    BY <2>10 DEF Gives, Service!Generate
<1>19. QED
  BY <1>17, <1>18

\* Every step of the loop is a step of the service, or one the client does not see.
LEMMA NextImplements ==
  ASSUME TypeInv, TypeInv', DeliveryInv, DeliveryInv', OrderInv, OrderInv', AnswersInv,
         AnswersInv', ServiceInv, [Next]_vars
  PROVE  [Service!Next]_(Service!vars)
<1>1. CASE \E shape \in Shapes : SubmitRequest(shape)
  <2>1. Service!Accept
    BY <1>1, SubmitAccepts
  <2>2. QED
    BY <2>1 DEF Service!Next
<1>2. CASE PopCompleted
  <2>1. Service!Deliver
    BY <1>2, PopDelivers
  <2>2. QED
    BY <2>1 DEF Service!Next
<1>3. CASE DecodeReturns \/ PrefillReturns \/ MixedReturns
  <2>1. CASE EndsWell
    <3>1. Service!Generate \/ UNCHANGED Service!vars
      BY <2>1, FinishGenerates
    <3>2. QED
      BY <3>1 DEF Service!Next
  <2>2. CASE HandsOver
    <3>1. UNCHANGED <<nextId, promptLen, maxOutput, outputs, completed, delivered>>
      BY <2>2 DEF HandsOver, requestVars, poolVars, clientVars
    <3>2. QED
      BY <3>1, Unseen
  <2>3. QED
    BY <1>3, <2>1, <2>2, CallsReturn
<1>4. CASE RetireRequest
  BY <1>4, RetireUnseen
<1>5. CASE \/ BeginStep \/ ScanRunning \/ ScanDone \/ AdmitRequest \/ Launch \/ EndStep \/ Failure
           \/ UNCHANGED vars
  <2>1. UNCHANGED <<nextId, promptLen, maxOutput, outputs, completed, delivered>>
    BY <1>5 DEF BeginStep, ScanRunning, ScanDone, AdmitRequest, Launch, ReturnEmpty, ReplayDecode,
         LaunchDecode, LaunchPrefill, LaunchMixed, EndStep, Failure, AdvanceThrows, CallbackFails,
         vars, requestVars, poolVars, clientVars
  <2>2. QED
    BY <2>1, Unseen
<1>6. QED
  BY <1>1, <1>2, <1>3, <1>4, <1>5 DEF Next, Client, Schedule, Compact

\* The loop implements the service: whatever is batched, packed, replayed, fails
\* and is retried, a client sees requests accepted, answered with their own
\* tokens in order of arrival, one each per step that ends well, ended at EOS or
\* the limit, and handed out once: for every configuration, if the in-place
\* advance does not throw half way.
THEOREM LoopImplementsService ==
  ASSUME ~AdvanceMayThrow
  PROVE  Spec => ImplementsService
<1> DEFINE Inv == /\ TypeInv /\ PagesInv /\ DeliveryInv /\ OrderInv /\ CohortInv /\ DeviceInv
                  /\ AnswersInv /\ ServiceInv
<1>1. Init => Inv
  BY InitTypeInv, InitPages, InitDelivery, InitOrder, InitDevice, InitAnswers, InitService
<1>2. Inv /\ [Next]_vars => Inv'
  BY NextTypeInv, NextPages, NextDelivery, NextOrder, NextCohort, NextDevice, NextAnswers,
     NextService
<1>3. Inv /\ Inv' /\ [Next]_vars => [Service!Next]_(Service!vars)
  BY NextImplements
<1>4. Init => Service!Init
  BY InitImplements
<1> HIDE DEF Inv
<1>5. QED
  BY <1>1, <1>2, <1>3, <1>4, PTL DEF Spec, ImplementsService, Service!Spec

-----------------------------------------------------------------------------
(***************************************************************************)
(* A step always has something to show for itself.  Neither theorem needs  *)
(* the in-place advance to be whole: what is on the device decides tokens, *)
(* not who is served.                                                      *)
(***************************************************************************)

AllComplete == \A i \in 1 .. Len(running) : IsPrefillComplete(running[i])

\* Schedule never stops for want of pages.  A plan without chunks has its whole
\* budget, so when it is launched every prompt is done; and what is launched is
\* not empty.
WorkInv ==
  /\ pc # "launch"
  /\ pc \in {"scan", "admit"} /\ ~HasPrefill => budget = MaxPrefillTokens
  /\ InCall => HasDecode \/ HasPrefill
  /\ InCall /\ ~HasPrefill => AllComplete

\* When a plan without chunks is finished, every prompt is done.
LEMMA NoChunks ==
  ASSUME TypeInv, OrderInv, WorkInv, ScheduleDone, ~HasPrefill
  PROVE  pc = "admit" /\ budget = MaxPrefillTokens /\ AllComplete
<1>1. pc = "admit" /\ budget = MaxPrefillTokens /\ budget > 0
  BY ConfigAssumption DEF ScheduleDone, WorkInv
<1>2. Len(prefillPlan) = 0
  BY DEF HasPrefill
<1>3. ASSUME NEW i \in 1 .. Len(running)
      PROVE  IsPrefillComplete(running[i])
  <2>1. running[i] \in Reqs /\ InRunning(running[i])
    BY Parts DEF PoolTypes, InRunning
  <2>2. Served(running[i])
    BY <1>1, <2>1 DEF OrderInv, AllServed
  <2>3. QED
    BY <1>2, <2>2 DEF Served
<1>4. QED
  BY <1>1, <1>3 DEF AllComplete

\* A step that leaves schedule, or stays where it is.
LEMMA WorkFrame ==
  ASSUME WorkInv,
         \/ pc' \in {"idle", "retire"}
         \/ UNCHANGED <<pc, budget, decodePlan, prefillPlan, promptLen, running, computed>>
  PROVE  WorkInv'
<1>1. CASE pc' \in {"idle", "retire"}
  BY <1>1 DEF WorkInv, InCall
<1>2. CASE UNCHANGED <<pc, budget, decodePlan, prefillPlan, promptLen, running, computed>>
  BY <1>2 DEF WorkInv, InCall, HasDecode, HasPrefill, AllComplete, IsPrefillComplete
<1>3. QED
  BY <1>1, <1>2

\* The scan keeps the whole budget until it cuts a chunk.
LEMMA ScanWork ==
  ASSUME TypeInv, WorkInv, ScanRunning
  PROVE  WorkInv'
<1> DEFINE r    == running[scan]
           item == [req |-> r, chunk |-> Smaller(promptLen[r] - computed[r], budget)]
<1>1. /\ pc = "scan" /\ pc' = "scan"
      /\ UNCHANGED <<prefillPlan, budget>> \/ prefillPlan' = Append(prefillPlan, item)
  BY DEF ScanRunning
<1>2. prefillPlan \in Seq([req : Reqs, chunk : Nat])
  BY Parts DEF PlanTypes
<1> HIDE DEF item
<1>3. CASE UNCHANGED <<prefillPlan, budget>>
  BY <1>1, <1>3 DEF WorkInv, InCall, HasPrefill
<1>4. CASE prefillPlan' = Append(prefillPlan, item)
  <2>1. prefillPlan' # <<>>
    BY <1>2, <1>4
  <2>2. QED
    BY <1>1, <2>1 DEF WorkInv, InCall, HasPrefill
<1>5. QED
  BY <1>1, <1>3, <1>4

\* Admission cuts a chunk for whom it admits, and is never refused the pages.
LEMMA AdmitWork ==
  ASSUME TypeInv, PagesInv, WorkInv, AdmitRequest
  PROVE  WorkInv'
<1> DEFINE r    == Head(pending)
           item == [req |-> r, chunk |-> Smaller(promptLen[r], budget)]
<1>1. BlocksNeeded(Head(pending)) <= Len(free)
  BY PagesFund DEF AdmissionAlwaysFunded, AdmitRequest
<1>2. pc' = "admit" /\ prefillPlan' = Append(prefillPlan, item)
  BY <1>1 DEF AdmitRequest
<1>3. prefillPlan \in Seq([req : Reqs, chunk : Nat])
  BY Parts DEF PlanTypes
<1> HIDE DEF item
<1>4. prefillPlan' # <<>>
  BY <1>2, <1>3
<1>5. QED
  BY <1>2, <1>4 DEF WorkInv, InCall, HasPrefill

\* What is launched is not empty, and without chunks it leaves no prompt behind.
LEMMA LaunchWork ==
  ASSUME TypeInv, OrderInv, WorkInv, ScheduleDone, HasDecode \/ HasPrefill,
         pc' \in {"decode", "prefill", "mixed"},
         UNCHANGED <<decodePlan, prefillPlan, promptLen, running, computed>>
  PROVE  WorkInv'
<1>1. ~HasPrefill => AllComplete
  BY NoChunks
<1>2. QED
  BY <1>1 DEF WorkInv, InCall, HasDecode, HasPrefill, AllComplete, IsPrefillComplete

\* A new request is not among those a call is made for.
LEMMA SubmitWork ==
  ASSUME TypeInv, WorkInv, NEW shape \in Shapes, SubmitRequest(shape)
  PROVE  WorkInv'
<1>1. /\ promptLen' = [promptLen EXCEPT ![nextId] = shape[1]]
      /\ UNCHANGED <<pc, budget, decodePlan, prefillPlan, running, computed>>
  BY DEF SubmitRequest, planVars
<1>2. /\ promptLen \in [Reqs -> 0 .. MaxContextLength] /\ running \in Seq(Reqs)
      /\ \A i \in 1 .. Len(running) : running[i] < nextId
  BY Parts DEF RequestTypes, PoolTypes, QueueInv
<1>3. ASSUME NEW i \in 1 .. Len(running)
      PROVE  promptLen'[running[i]] = promptLen[running[i]]
  <2>1. running[i] \in Reqs /\ running[i] # nextId
    BY <1>2, ConfigAssumption DEF Reqs
  <2>2. QED
    BY <1>1, <1>2, <2>1
<1>4. AllComplete => AllComplete'
  BY <1>1, <1>3 DEF AllComplete, IsPrefillComplete
<1>5. QED
  BY <1>1, <1>4 DEF WorkInv, InCall, HasDecode, HasPrefill

\* It holds initially.
LEMMA InitWork == Init => WorkInv
BY DEF Init, WorkInv, InCall

\* Every step keeps it.
LEMMA NextWork == TypeInv /\ PagesInv /\ OrderInv /\ WorkInv /\ [Next]_vars => WorkInv'
<1> SUFFICES ASSUME TypeInv, PagesInv, OrderInv, WorkInv, [Next]_vars PROVE WorkInv'
  OBVIOUS
<1>1. CASE \E shape \in Shapes : SubmitRequest(shape)
  BY <1>1, SubmitWork
<1>2. CASE PopCompleted
  BY <1>2, WorkFrame DEF PopCompleted, requestVars, poolVars, planVars
<1>3. CASE BeginStep
  BY <1>3 DEF BeginStep, WorkInv, InCall
<1>4. CASE ScanRunning
  BY <1>4, ScanWork
<1>5. CASE ScanDone
  BY <1>5 DEF ScanDone, planVars, WorkInv, InCall, HasPrefill
<1>6. CASE AdmitRequest
  BY <1>6, AdmitWork
<1>7. CASE ReturnEmpty \/ EndStep \/ AdvanceThrows \/ CallbackFails
  <2>1. pc' = "idle"
    BY <1>7 DEF ReturnEmpty, EndStep, AdvanceThrows, CallbackFails, Catch
  <2>2. QED
    BY <2>1, WorkFrame
<1>8. CASE ReplayDecode \/ LaunchDecode \/ LaunchPrefill
  <2>1. /\ ScheduleDone
        /\ HasDecode \/ HasPrefill
        /\ pc' \in {"decode", "prefill", "mixed"}
        /\ UNCHANGED <<decodePlan, prefillPlan, promptLen, running, computed>>
    BY <1>8 DEF ReplayDecode, CanReuseDecodeState, LaunchDecode, LaunchPrefill, planVars,
         requestVars, poolVars
  <2>2. QED
    BY <2>1, LaunchWork
<1>9. CASE LaunchMixed
  <2>1. ScheduleDone /\ HasDecode /\ UNCHANGED <<promptLen, running, computed>>
    BY <1>9 DEF LaunchMixed, requestVars, poolVars
  <2>2. CASE MixedFits
    <3>1. pc' = "mixed" /\ UNCHANGED <<decodePlan, prefillPlan>>
      BY <1>9, <2>2 DEF LaunchMixed, planVars
    <3>2. QED
      BY <2>1, <3>1, LaunchWork
  <2>3. CASE ~MixedFits
    BY <1>9, <2>3, WorkFrame DEF LaunchMixed, Catch
  <2>4. QED
    BY <2>2, <2>3
<1>10. CASE DecodeReturns \/ PrefillReturns \/ MixedReturns
  <2>1. CASE EndsWell
    BY <2>1, WorkFrame DEF EndsWell, FinishStep
  <2>2. CASE HandsOver
    <3>1. /\ pc = "decode" /\ pc' = "prefill"
          /\ UNCHANGED <<decodePlan, prefillPlan, promptLen, running, computed>>
      BY <2>2 DEF HandsOver, requestVars, poolVars, planVars
    <3>2. QED
      BY <3>1 DEF WorkInv, InCall, HasDecode, HasPrefill, AllComplete, IsPrefillComplete
  <2>3. QED
    BY <1>10, <2>1, <2>2, CallsReturn
<1>11. CASE RetireRequest
  BY <1>11, WorkFrame DEF RetireRequest
<1>12. CASE UNCHANGED vars
  BY <1>12, WorkFrame DEF vars, requestVars, poolVars, planVars
<1>13. QED
  BY <1>1, <1>2, <1>3, <1>4, <1>5, <1>6, <1>7, <1>8, <1>9, <1>10, <1>11, <1>12
  DEF Next, Client, Schedule, Launch, Compact, Failure

\* Whatever is batched, packed, refused or fails, a step that finds nothing to
\* schedule leaves no request behind it, for every configuration.
THEOREM EmptyStepsHaveNoWork == Spec => []EmptyPlanMeansNoWork
<1> DEFINE Inv == TypeInv /\ PagesInv /\ DeliveryInv /\ OrderInv /\ ServiceInv /\ WorkInv
<1>1. Init => Inv
  BY InitTypeInv, InitPages, InitDelivery, InitOrder, InitService, InitWork
<1>2. Inv /\ [Next]_vars => Inv'
  BY NextTypeInv, NextPages, NextDelivery, NextOrder, NextService, NextWork
<1>3. Inv => EmptyPlanMeansNoWork
  <2> SUFFICES ASSUME Inv, ScheduleDone, ~HasDecode, ~HasPrefill
               PROVE  running = <<>> /\ pending = <<>>
    BY DEF EmptyPlanMeansNoWork
  <2>1. pc = "admit" /\ budget = MaxPrefillTokens /\ AllComplete
    BY NoChunks
  <2>2. running \in Seq(Reqs) /\ pending \in Seq(Reqs)
    BY Parts DEF PoolTypes
  <2>3. \A i \in 1 .. Len(running) : FALSE
    <3>1. Len(decodePlan) = 0
      BY DEF HasDecode
    <3>2. QED
      BY <2>1, <3>1 DEF AllComplete, ServiceInv, AllDecoded, InDecode
  <2>4. running = <<>> /\ Len(running) = 0
    BY <2>2, <2>3
  <2>5. pending = <<>>
    BY <2>1, <2>4, ConfigAssumption DEF ScheduleDone, CanAdmit
  <2>6. QED
    BY <2>4, <2>5
<1> HIDE DEF Inv
<1>4. QED
  BY <1>1, <1>2, <1>3, PTL DEF Spec

\* A chunk is cut for the oldest prompt that is not done.
LEMMA OldestPlanned ==
  ASSUME TypeInv, OrderInv, WorkInv, InCall, NEW i \in 1 .. Len(running), FirstUnfinished(i)
  PROVE  \E k \in 1 .. Len(prefillPlan) : prefillPlan[k].req = running[i]
<1>1. /\ running \in Seq(Reqs) /\ prefillPlan \in Seq([req : Reqs, chunk : Nat])
      /\ Sorted(running) /\ pc # "retire"
  BY Parts DEF PoolTypes, PlanTypes, QueueInv, InCall
<1>2. HasPrefill
  BY DEF WorkInv, AllComplete, FirstUnfinished
<1>3. 1 \in 1 .. Len(prefillPlan)
  BY <1>1, <1>2 DEF HasPrefill
<1> DEFINE q == prefillPlan[1].req
<1>4. q \in Reqs /\ InRunning(q) /\ ~IsPrefillComplete(q)
  <2>1. q \in Reqs
    <3> DEFINE Items == [req : Reqs, chunk : Nat]
    <3>1. prefillPlan \in Seq(Items)
      BY <1>1
    <3> HIDE DEF Items
    <3>2. prefillPlan[1] \in Items
      BY <1>3, <3>1
    <3>3. QED
      BY <3>2 DEF Items
  <2>2. InRunning(q)
    BY <1>1, <1>3, Parts DEF PlanInv
  <2>3. ~IsPrefillComplete(q)
    BY <1>1, <1>3 DEF OrderInv, PlanOrder
  <2>4. QED
    BY <2>1, <2>2, <2>3
<1>5. PICK j \in 1 .. Len(running) : running[j] = q
  BY <1>4 DEF InRunning
<1>6. j >= i
  BY <1>4, <1>5 DEF FirstUnfinished
<1>7. CASE j = i
  BY <1>3, <1>5, <1>7
<1>8. CASE j > i
  <2>1. running[i] \in Reqs /\ InRunning(running[i]) /\ running[i] < q
    BY <1>1, <1>5, <1>8 DEF Sorted, InRunning
  <2>2. Served(running[i])
    BY <1>1, <1>3, <2>1 DEF OrderInv, PlanOrder
  <2>3. QED
    BY <2>2 DEF Served, FirstUnfinished
<1>9. QED
  BY <1>1, <1>5, <1>6, <1>7, <1>8

\* The end of a step gives each request whose prompt is done its token, and the
\* oldest other one its chunk.
LEMMA FinishServes ==
  ASSUME TypeInv, TokensInv, OrderInv, ServiceInv, WorkInv, EndsWell,
         NEW i \in 1 .. Len(running), NEW r, r = running[i]
  PROVE  /\ IsPrefillComplete(r) => Len(outputs'[r]) = Len(outputs[r]) + 1
         /\ FirstUnfinished(i) => computed'[r] > computed[r]
<1>1. PICK tokens \in Seq(Tokens) : Len(tokens) = NumRows /\ FinishStep(tokens)
  BY DEF EndsWell
<1>2. /\ UpdateRequests(tokens) /\ InCall /\ pc # "retire" /\ promptLen' = promptLen
  BY <1>1 DEF FinishStep, EndsWell, InCall, requestVars
<1>3. /\ decodePlan \in Seq(Reqs) /\ prefillPlan \in Seq([req : Reqs, chunk : Nat])
      /\ running \in Seq(Reqs) /\ outputs \in [Reqs -> Seq(Tokens)] /\ computed \in [Reqs -> Nat]
      /\ promptLen \in [Reqs -> 0 .. MaxContextLength]
      /\ NumRows = Len(decodePlan) + Len(prefillPlan)
  BY Parts DEF PlanTypes, PoolTypes, RequestTypes, NumRows
<1>4. /\ r \in Reqs /\ computed[r] \in Nat /\ promptLen[r] \in Nat
      /\ Len(decodePlan) \in Nat /\ Len(prefillPlan) \in Nat
  BY <1>3, ConfigAssumption
<1>5. ASSUME NEW k \in 1 .. NumRows, RowReq(k) = r
      PROVE  \E l \in 1 .. NumRows :
               /\ RowReq(l) = r /\ computed'[r] = computed[r] + RowChunk(l)
               /\ outputs'[r] = IF computed'[r] >= promptLen[r]
                                THEN Append(outputs[r], tokens[l]) ELSE outputs[r]
  BY <1>2, <1>4, <1>5, UpdateExact
<1>6. ASSUME IsPrefillComplete(r)
      PROVE  Len(outputs'[r]) = Len(outputs[r]) + 1
  <2>1. PICK k \in 1 .. Len(decodePlan) : decodePlan[k] = r
    BY <1>2, <1>6 DEF ServiceInv, AllDecoded, InDecode, InCall
  <2>2. k \in 1 .. NumRows /\ RowReq(k) = r
    BY <1>3, <2>1 DEF RowReq
  <2>3. PICK l \in 1 .. NumRows :
               /\ RowReq(l) = r /\ computed'[r] = computed[r] + RowChunk(l)
               /\ outputs'[r] = IF computed'[r] >= promptLen[r]
                                THEN Append(outputs[r], tokens[l]) ELSE outputs[r]
    BY <1>5, <2>2
  <2>4. RowChunk(l) \in Nat
    BY <1>2, RowFacts
  <2>5. computed'[r] >= promptLen[r]
    <3>1. computed[r] >= promptLen[r]
      BY <1>6 DEF IsPrefillComplete
    <3>2. QED
      BY <1>4, <2>3, <2>4, <3>1
  <2>6. outputs'[r] = Append(outputs[r], tokens[l]) /\ tokens[l] \in Tokens
    BY <1>1, <2>3, <2>5
  <2>7. outputs[r] \in Seq(Tokens)
    BY <1>3, <1>4
  <2>8. QED
    BY <2>6, <2>7, AppendFacts
<1>7. ASSUME FirstUnfinished(i)
      PROVE  computed'[r] > computed[r]
  <2>1. PICK p \in 1 .. Len(prefillPlan) : prefillPlan[p].req = r
    BY <1>2, <1>7, OldestPlanned
  <2>2. Len(decodePlan) + p \in 1 .. NumRows /\ RowReq(Len(decodePlan) + p) = r
    <3>1. /\ Len(decodePlan) + p \in 1 .. NumRows /\ ~(Len(decodePlan) + p <= Len(decodePlan))
          /\ (Len(decodePlan) + p) - Len(decodePlan) = p
      <4> DEFINE d == Len(decodePlan)
                 f == Len(prefillPlan)
      <4>1. d \in Nat /\ f \in Nat /\ p \in 1 .. f /\ NumRows = d + f
        BY <1>3, <1>4, <2>1
      <4> HIDE DEF d, f
      <4>2. d + p \in 1 .. NumRows /\ ~(d + p <= d) /\ (d + p) - d = p
        BY <4>1
      <4>3. QED
        BY <4>2 DEF d
    <3>2. QED
      BY <2>1, <3>1, Zenon DEF RowReq
  <2>3. PICK l \in 1 .. NumRows : RowReq(l) = r /\ computed'[r] = computed[r] + RowChunk(l)
    BY <1>5, <2>2
  <2>4. ~(l <= Len(decodePlan))
    <3>1. ASSUME l <= Len(decodePlan) PROVE FALSE
      <4>1. l \in 1 .. Len(decodePlan) /\ decodePlan[l] = r
        BY <1>3, <2>3, <3>1 DEF RowReq
      <4>2. QED
        BY <1>2, <1>7, <4>1 DEF OrderInv, PlanOrder, FirstUnfinished
    <3>2. QED
      BY <3>1
  <2>5. l - Len(decodePlan) \in 1 .. Len(prefillPlan)
    BY <1>3, <2>4
  <2>6. RowChunk(l) > 0 /\ RowChunk(l) \in Nat
    <3>1. RowChunk(l) = prefillPlan[l - Len(decodePlan)].chunk
      BY <2>4, Zenon DEF RowChunk
    <3>2. prefillPlan[l - Len(decodePlan)].chunk > 0
      BY <2>5 DEF TokensInv
    <3>3. RowChunk(l) \in Nat
      BY <1>2, RowFacts
    <3>4. QED
      BY <3>1, <3>2, <3>3
  <2>7. QED
    BY <1>4, <2>3, <2>6
<1>8. QED
  BY <1>6, <1>7

\* Only a call that returns, and is the last of its step, begins the compaction.
LEMMA ServesAtEnd ==
  ASSUME TypeInv, TokensInv, OrderInv, ServiceInv, WorkInv, [Next]_vars,
         pc # "retire", pc' = "retire"
  PROVE  /\ running # <<>>
         /\ \A i \in 1 .. Len(running) :
              LET r == running[i]
              IN  /\ IsPrefillComplete(r) => Len(outputs'[r]) = Len(outputs[r]) + 1
                  /\ FirstUnfinished(i) => computed'[r] > computed[r]
<1>1. DecodeReturns \/ PrefillReturns \/ MixedReturns
  BY DEF Next, Client, Schedule, Launch, Compact, Failure, SubmitRequest, PopCompleted, BeginStep,
     ScanRunning, ScanDone, AdmitRequest, ReturnEmpty, ReplayDecode, LaunchDecode, LaunchPrefill,
     LaunchMixed, RetireRequest, EndStep, AdvanceThrows, CallbackFails, Catch, vars
<1>2. EndsWell
  BY <1>1, CallsReturn DEF HandsOver
<1>3. InCall /\ (HasDecode \/ HasPrefill)
  BY <1>2 DEF EndsWell, WorkInv, InCall
<1>4. \E k \in 1 .. NumRows : TRUE
  BY <1>3, Parts DEF HasDecode, HasPrefill, NumRows, PlanTypes
<1>5. \E r : InRunning(r)
  BY <1>4, RowFacts
<1>6. running # <<>>
  BY <1>5 DEF InRunning
<1>7. QED
  BY <1>2, <1>6, FinishServes

\* For every configuration, and whatever failed before, a step that ends well
\* gives every request that decodes its token and takes the oldest unfinished
\* prompt further.
THEOREM StepsServe == Spec => EveryStepServes
<1> DEFINE Inv == /\ TypeInv /\ PagesInv /\ DeliveryInv /\ RowsInv /\ TokensInv /\ OrderInv
                  /\ ServiceInv /\ WorkInv
           Progress == pc # "retire" /\ pc' = "retire" =>
             /\ running # <<>>
             /\ \A i \in 1 .. Len(running) :
                  LET r == running[i]
                  IN  /\ IsPrefillComplete(r) => Len(outputs'[r]) = Len(outputs[r]) + 1
                      /\ FirstUnfinished(i) => computed'[r] > computed[r]
<1>1. Init => Inv
  BY InitTypeInv, InitPages, InitDelivery, InitFits, InitOrder, InitService, InitWork
<1>2. Inv /\ [Next]_vars => Inv'
  BY NextTypeInv, NextPages, NextDelivery, NextFits, NextOrder, NextService, NextWork
<1>3. Inv /\ [Next]_vars => Progress
  BY ServesAtEnd
<1>4. Inv /\ [Next]_vars => [Progress]_vars
  BY <1>3
<1> HIDE DEF Inv
<1>5. QED
  <2>1. Spec => [][Progress]_vars
    <3> HIDE DEF Progress
    <3>1. QED
      BY <1>1, <1>2, <1>4, PTL DEF Spec
  <2>2. QED
    BY <2>1 DEF EveryStepServes

===============================================================================
