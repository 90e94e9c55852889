---------------------------- MODULE PythonControl ----------------------------
(***************************************************************************)
(* The readable Python twin of the C++ iteration loop                      *)
(* (experiments/integration/python_control.py), whose contract is to match *)
(* the scheduling of the C++ code.  Its step is one pass of plain loops,   *)
(* each the function of its number of iterations; it is cut in two here    *)
(* where it calls the model, since requests can be submitted meanwhile.    *)
(***************************************************************************)
EXTENDS Integers, Sequences

CONSTANTS MaxBatchSize, MaxPrefillTokens, MaxContextLength, BlockSize

VARIABLE control

\* A Request object; the control holds them in its queues.
NewRequest(id, shape) ==
  [id |-> id, prompt |-> shape[1], limit |-> shape[2],
   computed |-> 0, output |-> <<>>, blocks |-> <<>>]

MaxBlocks    == (MaxContextLength + BlockSize - 1) \div BlockSize
TotalLen(r)  == r.prompt + Len(r.output)
IsDecoding(r) == r.computed = r.prompt
Lesser(m, n) == IF m <= n THEN m ELSE n

Accepts(shape) ==
  /\ shape[1] > 0 /\ shape[2] > 0
  /\ shape[1] + shape[2] <= MaxContextLength

\* A request it does not accept is refused with an error.
SubmitRequest(shape) ==
  control' = IF ~Accepts(shape) THEN control
             ELSE [control EXCEPT
                    !.waiting = Append(@, NewRequest(control.nextId, shape)),
                    !.nextId = @ + 1]

PopCompleted == control' = [control EXCEPT !.completed = <<>>]

-----------------------------------------------------------------------------
(* step, up to the calls of forward *)

Remaining(r) == r.prompt - r.computed

\* One running request's turn: it decodes, or gets a chunk while the budget
\* lasts.  (The code makes two passes; they do not interact.)
Turn(t, r) ==
  LET chunk == Lesser(Remaining(r), t.budget)
      gets  == Remaining(r) # 0 /\ t.budget # 0
  IN  [decode  |-> IF IsDecoding(r) THEN Append(t.decode, r) ELSE t.decode,
       prefill |-> IF gets THEN Append(t.prefill, [req |-> r.id, chunk |-> chunk])
                   ELSE t.prefill,
       budget  |-> IF gets THEN t.budget - chunk ELSE t.budget]

\* The plan after each number of turns.
Turns(requests) ==
  LET plan[i \in 0 .. Len(requests)] ==
        IF i = 0
        THEN [decode |-> <<>>, prefill |-> <<>>, budget |-> MaxPrefillTokens]
        ELSE Turn(plan[i - 1], requests[i])
  IN  plan

Pages(r) == (r.prompt + r.limit + BlockSize - 1) \div BlockSize

\* The condition of the admission loop, and the break of its body.
Admits(a) ==
  /\ a.waiting # <<>>
  /\ a.budget # 0
  /\ Len(a.running) < MaxBatchSize
  /\ Pages(Head(a.waiting)) <= Len(a.free)

\* One iteration of the admission loop; pages are popped off the list's back.
Admit(a) ==
  LET r     == Head(a.waiting)
      chunk == Lesser(r.prompt, a.budget)
      last  == Len(a.free)
  IN  IF ~Admits(a) THEN a
      ELSE [waiting |-> Tail(a.waiting),
            running |-> Append(a.running,
                          [r EXCEPT !.blocks = [i \in 1 .. Pages(r) |->
                                                  a.free[last - i + 1]]]),
            free    |-> SubSeq(a.free, 1, last - Pages(r)),
            prefill |-> Append(a.prefill, [req |-> r.id, chunk |-> chunk]),
            budget  |-> a.budget - chunk]

\* The queues after each number of iterations: never more than requests wait.
Admissions(start) ==
  LET queues[i \in 0 .. Len(start.waiting)] ==
        IF i = 0 THEN start ELSE Admit(queues[i - 1])
  IN  queues

Longest(requests) ==
  LET lengths == {TotalLen(requests[i]) : i \in 1 .. Len(requests)}
  IN  IF requests = <<>> THEN 0 ELSE CHOOSE m \in lengths : \A n \in lengths : n <= m

\* The plan of all running requests, and what the admission loop starts from.
PlanOf(c) == Turns(c.running)[Len(c.running)]
Start(c)  == [waiting |-> c.waiting, running |-> c.running, free |-> c.free,
              prefill |-> PlanOf(c).prefill, budget |-> PlanOf(c).budget]

\* A step without work changes nothing.
BeginStep ==
  LET decode == PlanOf(control).decode
      queues == Admissions(Start(control))[Len(control.waiting)]
  IN  control' = IF decode = <<>> /\ queues.prefill = <<>> THEN control
                 ELSE [control EXCEPT
                        !.waiting = queues.waiting,
                        !.running = queues.running,
                        !.free = queues.free,
                        !.decode = [i \in 1 .. Len(decode) |-> decode[i].id],
                        !.prefill = queues.prefill,
                        !.maxContext = Longest(decode)]

\* forward raised: the plan was local, the requests keep what they had.
ForwardRaises == control' = [control EXCEPT !.decode = <<>>, !.prefill = <<>>]

-----------------------------------------------------------------------------
(* The rest of step *)

InPlan(c, id) ==
  \/ \E k \in 1 .. Len(c.decode) : c.decode[k] = id
  \/ \E k \in 1 .. Len(c.prefill) : c.prefill[k].req = id
ChunkOf(c, id) ==
  LET own == {i \in 1 .. Len(c.prefill) : c.prefill[i].req = id}
  IN  IF own = {} THEN 0 ELSE c.prefill[CHOOSE i \in own : TRUE].chunk

\* Mutant: the tokens of the prefill rows are taken first.
Cursor_PrefillFirst(c, id) ==
  CHOOSE k \in 1 .. (Len(c.decode) + Len(c.prefill)) :
    IF k <= Len(c.prefill) THEN c.prefill[k].req = id
                           ELSE c.decode[k - Len(c.prefill)] = id

\* Where the cursor over the sampled tokens is at a request's row: it counts the
\* decode rows and then all prefill rows, also those of unfinished prompts.
Cursor(c, id) ==
  CHOOSE k \in 1 .. (Len(c.decode) + Len(c.prefill)) :
    IF k <= Len(c.decode) THEN c.decode[k] = id
                          ELSE c.prefill[k - Len(c.decode)].req = id

\* A request after its row: its chunk is computed, and the token at the cursor is
\* appended unless the prompt is still unfinished.
Advanced(c, r, tokens) ==
  LET reached == [r EXCEPT !.computed = @ + ChunkOf(c, r.id)]
  IN  IF InPlan(c, r.id) /\ IsDecoding(reached)
      THEN [reached EXCEPT !.output = Append(@, tokens[Cursor(c, r.id)])]
      ELSE reached

IsDone(r) == r.output # <<>> /\ (r.output[Len(r.output)].eos \/ Len(r.output) >= r.limit)

\* Mutant: the pages of a request that is done go to the front of the list.
Settle_Front(s, r) ==
  [retained  |-> IF IsDone(r) THEN s.retained ELSE Append(s.retained, r),
   completed |-> IF IsDone(r) THEN Append(s.completed, [id |-> r.id, out |-> r.output])
                 ELSE s.completed,
   free      |-> IF IsDone(r) THEN r.blocks \o s.free ELSE s.free]

\* One iteration of the loop that sorts the requests into done and retained.
Settle(s, r) ==
  [retained  |-> IF IsDone(r) THEN s.retained ELSE Append(s.retained, r),
   completed |-> IF IsDone(r) THEN Append(s.completed, [id |-> r.id, out |-> r.output])
                 ELSE s.completed,
   free      |-> IF IsDone(r) THEN s.free \o r.blocks ELSE s.free]

\* The lists after each number of iterations.
Settled(requests, completed, free) ==
  LET lists[i \in 0 .. Len(requests)] ==
        IF i = 0
        THEN [retained |-> <<>>, completed |-> completed, free |-> free]
        ELSE Settle(lists[i - 1], requests[i])
  IN  lists

\* The sampled tokens are given, one for each row of the calls.
FinishStep(tokens) ==
  LET after == [i \in 1 .. Len(control.running) |->
                  Advanced(control, control.running[i], tokens)]
      lists == Settled(after, control.completed, control.free)[Len(after)]
  IN  control' = [control EXCEPT
                   !.running = lists.retained,
                   !.completed = lists.completed,
                   !.free = lists.free,
                   !.decode = <<>>, !.prefill = <<>>]

Init ==
  control = [waiting |-> <<>>, running |-> <<>>, completed |-> <<>>, nextId |-> 0,
             free |-> [i \in 1 .. (MaxBatchSize * MaxBlocks) |-> i - 1],
             maxContext |-> 0, decode |-> <<>>, prefill |-> <<>>]

=============================================================================
