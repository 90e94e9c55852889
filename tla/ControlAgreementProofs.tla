------------------------ MODULE ControlAgreementProofs ------------------------
(***************************************************************************)
(* The C++ loop and its Python twin agree, for every value of the          *)
(* constants and however steps end: the loops of the twin's step, unfolded *)
(* one iteration at a time, are the steps of the C++ loop, so the twin's   *)
(* next state can be read off the C++ state at every point in between.     *)
(***************************************************************************)
EXTENDS ControlAgreement, IterationLoopReplayProofs

-----------------------------------------------------------------------------
(* Iterations of a loop *)

\* The first of the indices at which something holds.
LEMMA FirstIndex ==
  ASSUME NEW S \in SUBSET Nat, NEW x \in S
  PROVE  \E m \in S : \A k \in S : m <= k
<1> DEFINE R == {ss \in Nat \X Nat : ss[1] < ss[2]}
<1>1. IsWellFoundedOn(R, Nat)
  BY NatLessThanWellFounded, Zenon DEF OpToRel
<1> HIDE DEF R
<1>2. PICK m \in S : \A k \in S : <<k, m>> \notin R
  BY <1>1, WFMin
<1>3. \A k \in S : ~(k < m)
  BY <1>2 DEF R
<1>4. QED
  BY <1>3

\* Induction over m .. n for a set of indices.
LEMMA FromTo ==
  ASSUME NEW m \in Nat, NEW n \in Nat, NEW P, m \in P,
         \A i \in (m + 1) .. n : i - 1 \in P => i \in P
  PROVE  m .. n \subseteq P
<1> DEFINE Bad == {i \in m .. n : i \notin P}
<1>1. SUFFICES ASSUME NEW x \in Bad
               PROVE  FALSE
  OBVIOUS
<1>2. PICK k \in Bad : \A l \in Bad : k <= l
  <2>1. Bad \in SUBSET Nat
    OBVIOUS
  <2> HIDE DEF Bad
  <2>2. QED
    BY <1>1, <2>1, FirstIndex
<1>3. k \in (m + 1) .. n /\ k - 1 \in m .. n /\ ~(k <= k - 1)
  BY <1>2
<1>4. k - 1 \in P
  BY <1>2, <1>3
<1>5. QED
  BY <1>2, <1>3, <1>4

\* What the twin's plan and its lists start from.
Blank == [decode |-> <<>>, prefill |-> <<>>, budget |-> MaxPrefillTokens]
Unsettled(completions, pages) ==
  [retained |-> <<>>, completed |-> completions, free |-> pages]

\* The twin's plan grows by one turn per running request.
LEMMA TurnsUnfold ==
  ASSUME NEW requests, Len(requests) \in Nat
  PROVE  /\ Twin!Turns(requests)[0] = Blank
         /\ \A i \in 1 .. Len(requests) :
              Twin!Turns(requests)[i] = Twin!Turn(Twin!Turns(requests)[i - 1], requests[i])
<1> DEFINE n == Len(requests)
           Is(f, m) == f = [i \in 0 .. m |-> IF i = 0 THEN Blank
                                             ELSE Twin!Turn(f[i - 1], requests[i])]
           P == {m \in 0 .. n : \E f : Is(f, m)}
<1>1. 0 \in P
  <2>1. Is([i \in 0 .. 0 |-> Blank], 0)
    OBVIOUS
  <2> HIDE DEF Is
  <2>2. QED
    BY <2>1
<1>2. ASSUME NEW m \in 1 .. n, m - 1 \in P
      PROVE  m \in P
  <2>1. PICK f : Is(f, m - 1)
    BY <1>2
  <2> DEFINE g == [i \in 0 .. m |-> IF i = m THEN Twin!Turn(f[m - 1], requests[m]) ELSE f[i]]
  <2>2. ASSUME NEW i \in 0 .. m
        PROVE  g[i] = IF i = 0 THEN Blank ELSE Twin!Turn(g[i - 1], requests[i])
    <3>1. CASE i = m
      BY <3>1
    <3>2. CASE i # m
      BY <2>1, <3>2
    <3>3. QED
      BY <3>1, <3>2
  <2>3. Is(g, m)
    BY <2>2
  <2> HIDE DEF Is, g
  <2>4. QED
    BY <2>3
<1>3. n \in P
  <2> HIDE DEF P, n
  <2>1. n \in Nat
    BY DEF n
  <2>2. \A i \in (0 + 1) .. n : i - 1 \in P => i \in P
    BY <1>2, <2>1
  <2>3. 0 .. n \subseteq P
    BY <1>1, <2>1, <2>2, FromTo
  <2>4. QED
    BY <2>1, <2>3
<1>4. Is(Twin!Turns(requests), n)
  <2>1. \E f : Is(f, n)
    BY <1>3
  <2>2. Twin!Turns(requests) = CHOOSE f : Is(f, n)
    BY Zenon DEF Twin!Turns, Blank
  <2> HIDE DEF Is
  <2>3. QED
    BY <2>1, <2>2
<1>5. QED
  BY <1>4

\* The admission loop repeats its body on the queues.
LEMMA AdmissionsUnfold ==
  ASSUME NEW start, Len(start.waiting) \in Nat
  PROVE  /\ Twin!Admissions(start)[0] = start
         /\ \A i \in 1 .. Len(start.waiting) :
              Twin!Admissions(start)[i] = Twin!Admit(Twin!Admissions(start)[i - 1])
<1> DEFINE n == Len(start.waiting)
           Is(f, m) == f = [i \in 0 .. m |-> IF i = 0 THEN start
                                             ELSE Twin!Admit(f[i - 1])]
           P == {m \in 0 .. n : \E f : Is(f, m)}
<1>1. 0 \in P
  <2>1. Is([i \in 0 .. 0 |-> start], 0)
    OBVIOUS
  <2> HIDE DEF Is
  <2>2. QED
    BY <2>1
<1>2. ASSUME NEW m \in 1 .. n, m - 1 \in P
      PROVE  m \in P
  <2>1. PICK f : Is(f, m - 1)
    BY <1>2
  <2> DEFINE g == [i \in 0 .. m |-> IF i = m THEN Twin!Admit(f[m - 1]) ELSE f[i]]
  <2>2. ASSUME NEW i \in 0 .. m
        PROVE  g[i] = IF i = 0 THEN start ELSE Twin!Admit(g[i - 1])
    <3>1. CASE i = m
      BY <3>1
    <3>2. CASE i # m
      BY <2>1, <3>2
    <3>3. QED
      BY <3>1, <3>2
  <2>3. Is(g, m)
    BY <2>2
  <2> HIDE DEF Is, g
  <2>4. QED
    BY <2>3
<1>3. n \in P
  <2> HIDE DEF P, n
  <2>1. n \in Nat
    BY DEF n
  <2>2. \A i \in (0 + 1) .. n : i - 1 \in P => i \in P
    BY <1>2, <2>1
  <2>3. 0 .. n \subseteq P
    BY <1>1, <2>1, <2>2, FromTo
  <2>4. QED
    BY <2>1, <2>3
<1>4. Is(Twin!Admissions(start), n)
  <2>1. \E f : Is(f, n)
    BY <1>3
  <2>2. Twin!Admissions(start) = CHOOSE f : Is(f, n)
    BY Zenon DEF Twin!Admissions
  <2> HIDE DEF Is
  <2>3. QED
    BY <2>1, <2>2
<1>5. QED
  BY <1>4

\* The twin settles one running request after the other.
LEMMA SettledUnfold ==
  ASSUME NEW requests, Len(requests) \in Nat, NEW done, NEW pages
  PROVE  /\ Twin!Settled(requests, done, pages)[0] = Unsettled(done, pages)
         /\ \A i \in 1 .. Len(requests) :
              Twin!Settled(requests, done, pages)[i] = Twin!Settle(Twin!Settled(requests, done, pages)[i - 1], requests[i])
<1> DEFINE n == Len(requests)
           Is(f, m) == f = [i \in 0 .. m |-> IF i = 0 THEN Unsettled(done, pages)
                                             ELSE Twin!Settle(f[i - 1], requests[i])]
           P == {m \in 0 .. n : \E f : Is(f, m)}
<1>1. 0 \in P
  <2>1. Is([i \in 0 .. 0 |-> Unsettled(done, pages)], 0)
    OBVIOUS
  <2> HIDE DEF Is
  <2>2. QED
    BY <2>1
<1>2. ASSUME NEW m \in 1 .. n, m - 1 \in P
      PROVE  m \in P
  <2>1. PICK f : Is(f, m - 1)
    BY <1>2
  <2> DEFINE g == [i \in 0 .. m |-> IF i = m THEN Twin!Settle(f[m - 1], requests[m]) ELSE f[i]]
  <2>2. ASSUME NEW i \in 0 .. m
        PROVE  g[i] = IF i = 0 THEN Unsettled(done, pages) ELSE Twin!Settle(g[i - 1], requests[i])
    <3>1. CASE i = m
      BY <3>1
    <3>2. CASE i # m
      BY <2>1, <3>2
    <3>3. QED
      BY <3>1, <3>2
  <2>3. Is(g, m)
    BY <2>2
  <2> HIDE DEF Is, g
  <2>4. QED
    BY <2>3
<1>3. n \in P
  <2> HIDE DEF P, n
  <2>1. n \in Nat
    BY DEF n
  <2>2. \A i \in (0 + 1) .. n : i - 1 \in P => i \in P
    BY <1>2, <2>1
  <2>3. 0 .. n \subseteq P
    BY <1>1, <2>1, <2>2, FromTo
  <2>4. QED
    BY <2>1, <2>3
<1>4. Is(Twin!Settled(requests, done, pages), n)
  <2>1. \E f : Is(f, n)
    BY <1>3
  <2>2. Twin!Settled(requests, done, pages) = CHOOSE f : Is(f, n)
    BY Zenon DEF Twin!Settled, Unsettled
  <2> HIDE DEF Is
  <2>3. QED
    BY <2>1, <2>2
<1>5. QED
  BY <1>4

-----------------------------------------------------------------------------
(* The invariant *)

\* What the twin's loops have reached when the C++ loops have got this far.
PlanSoFar   == [decode |-> Objects(decodePlan), prefill |-> prefillPlan, budget |-> budget]
QueuesSoFar == [waiting |-> Objects(pending), running |-> Objects(running),
                free |-> free, prefill |-> prefillPlan, budget |-> budget]
\* ... and what its last loop makes of the lists that the C++ loop has left.
ListsToCome == Twin!Settled(Objects(running), completed, free)[Len(running)]

\* The twin is a record, and numbers its requests as the C++ loop does.
RecordInv ==
  control = [waiting |-> control.waiting, running |-> control.running,
             completed |-> control.completed, nextId |-> nextId,
             free |-> control.free, maxContext |-> control.maxContext,
             decode |-> control.decode, prefill |-> control.prefill]

\* No more of a prompt is computed than there is, so that the twin's tests for
\* equality are those of the C++ loop for the order.
PromptInv == \A r \in Reqs : computed[r] <= promptLen[r]

ScanInv ==
  pc = "scan" =>
    /\ SameQueues
    /\ scan - 1 <= Len(running)
    /\ Twin!Turns(control.running)[scan - 1] = PlanSoFar

AdmitInv ==
  pc = "admit" =>
    /\ control.completed = completed
    /\ prefillPlan = <<>> => SameQueues
    /\ Twin!PlanOf(control).decode = Objects(decodePlan)
    /\ Len(control.waiting) \in Nat /\ Len(pending) <= Len(control.waiting)
    /\ Twin!Admissions(Twin!Start(control))[Len(control.waiting) - Len(pending)]
         = QueuesSoFar

CallInv ==
  InCall => /\ SameQueues
            /\ control.decode = decodePlan /\ control.prefill = prefillPlan
            /\ control.maxContext = maxContext

RetireInv ==
  pc = "retire" =>
    /\ control.waiting = Objects(pending)
    /\ ListsToCome = [retained |-> control.running, completed |-> control.completed,
                      free |-> control.free]

AgreeInv ==
  /\ RecordInv
  /\ PromptInv
  /\ pc # "launch"
  /\ pc = "idle" => SameQueues
  /\ ScanInv
  /\ AdmitInv
  /\ CallInv
  /\ RetireInv

-----------------------------------------------------------------------------
(* The twin's objects *)

\* The objects of a queue, one by one.
LEMMA ObjectsFacts ==
  ASSUME NEW s \in Seq(Reqs)
  PROVE  /\ Objects(s) \in Seq({Object(r) : r \in Reqs})
         /\ Len(Objects(s)) = Len(s)
         /\ \A i \in 1 .. Len(s) : Objects(s)[i] = Object(s[i])
         /\ Objects(s) = <<>> <=> s = <<>>
<1> DEFINE O == {Object(r) : r \in Reqs}
           t == Objects(s)
<1>1. \A i \in 1 .. Len(s) : Object(s[i]) \in O
  OBVIOUS
<1>2. t \in [1 .. Len(s) -> O] /\ \A i \in 1 .. Len(s) : t[i] = Object(s[i])
  BY <1>1 DEF Objects
<1> HIDE DEF O, t
<1>3. Len(s) \in Nat /\ (s = <<>> <=> Len(s) = 0)
  OBVIOUS
<1>4. t \in Seq(O) /\ Len(t) = Len(s)
  BY <1>2, <1>3
<1>5. t = <<>> <=> Len(t) = 0
  BY <1>4
<1>6. QED
  BY <1>2, <1>3, <1>4, <1>5 DEF O, t

\* A request joins a queue with its object.
LEMMA ObjectsAppend ==
  ASSUME NEW s \in Seq(Reqs), NEW r \in Reqs
  PROVE  Objects(Append(s, r)) = Append(Objects(s), Object(r))
<1> DEFINE O == {Object(q) : q \in Reqs}
           a == Objects(Append(s, r))
           b == Append(Objects(s), Object(r))
           n == Len(s) + 1
<1>1. Append(s, r) \in Seq(Reqs) /\ Len(Append(s, r)) = n
  OBVIOUS
<1>2. \A i \in 1 .. n : Append(s, r)[i] = IF i = n THEN r ELSE s[i]
  OBVIOUS
<1>3. a \in Seq(O) /\ Len(a) = n /\ \A i \in 1 .. n : a[i] = Object(Append(s, r)[i])
  BY <1>1, ObjectsFacts
<1>4. Objects(s) \in Seq(O) /\ Object(r) \in O /\ Len(Objects(s)) = Len(s)
  BY ObjectsFacts
<1>5. \A i \in 1 .. Len(s) : Objects(s)[i] = Object(s[i])
  BY ObjectsFacts
<1> HIDE DEF O
<1>6. b \in Seq(O) /\ Len(b) = n
  BY <1>4
<1>7. \A i \in 1 .. n : b[i] = IF i = n THEN Object(r) ELSE Object(s[i])
  BY <1>4, <1>5
<1> HIDE DEF a, b
<1>8. \A i \in 1 .. n : a[i] = b[i]
  BY <1>2, <1>3, <1>7
<1>9. a = b
  BY <1>3, <1>6, <1>8
<1>10. QED
  BY <1>9 DEF a, b

\* The first of a queue leaves it with its object.
LEMMA ObjectsTail ==
  ASSUME NEW s \in Seq(Reqs), s # <<>>
  PROVE  Head(Objects(s)) = Object(Head(s)) /\ Tail(Objects(s)) = Objects(Tail(s))
<1> DEFINE O == {Object(q) : q \in Reqs}
           t == Objects(s)
           a == Objects(Tail(s))
           b == Tail(t)
           n == Len(s) - 1
<1>1. /\ Tail(s) \in Seq(Reqs) /\ Len(Tail(s)) = n /\ n \in Nat
      /\ Head(s) = s[1] /\ \A i \in 1 .. n : Tail(s)[i] = s[i + 1]
  OBVIOUS
<1>2. /\ t \in Seq(O) /\ Len(t) = Len(s) /\ t # <<>>
      /\ \A i \in 1 .. Len(s) : t[i] = Object(s[i])
  BY ObjectsFacts
<1>3. a \in Seq(O) /\ Len(a) = n /\ \A i \in 1 .. n : a[i] = Object(Tail(s)[i])
  BY <1>1, ObjectsFacts
<1> HIDE DEF O, t, a
<1>4. /\ Head(t) = t[1] /\ b \in Seq(O) /\ Len(b) = n
      /\ \A i \in 1 .. n : b[i] = t[i + 1]
  BY <1>2
<1> HIDE DEF b
<1>5. \A i \in 1 .. n : i + 1 \in 1 .. Len(s) /\ a[i] = b[i]
  BY <1>1, <1>2, <1>3, <1>4
<1>6. a = b
  BY <1>3, <1>4, <1>5
<1>7. Head(t) = Object(Head(s))
  BY <1>1, <1>2, <1>4
<1>8. QED
  BY <1>6, <1>7 DEF a, b, t

\* A request's object after a step, and those of a queue.
NextObject(r) ==
  [id |-> r, prompt |-> promptLen'[r], limit |-> maxOutput'[r],
   computed |-> computed'[r], output |-> outputs'[r], blocks |-> blocks'[r]]
NextObjects(s) == [i \in 1 .. Len(s) |-> NextObject(s[i])]

\* They are the objects that the next state has.
LEMMA ObjectsNext ==
  /\ Objects(pending)' = NextObjects(pending')
  /\ Objects(running)' = NextObjects(running')
  /\ Objects(decodePlan)' = NextObjects(decodePlan')
BY DEF Objects, Object, NextObjects, NextObject

\* Requests that a step leaves alone keep their objects.
LEMMA SameObjects ==
  ASSUME NEW s \in Seq(Reqs), \A i \in 1 .. Len(s) : NextObject(s[i]) = Object(s[i])
  PROVE  NextObjects(s) = Objects(s)
BY DEF Objects, NextObjects

\* A step that leaves all requests alone keeps all objects.
LEMMA StillObjects ==
  ASSUME UNCHANGED <<promptLen, maxOutput, computed, outputs, blocks>>
  PROVE  /\ \A r : NextObject(r) = Object(r)
         /\ \A s : NextObjects(s) = Objects(s)
         /\ pending' = pending => Objects(pending)' = Objects(pending)
         /\ running' = running => Objects(running)' = Objects(running)
         /\ decodePlan' = decodePlan => Objects(decodePlan)' = Objects(decodePlan)
BY DEF Objects, Object, NextObjects, NextObject

\* A request joins a queue with the object that the step gives it.
LEMMA JoinsWithObject ==
  ASSUME NEW s \in Seq(Reqs), NEW r \in Reqs,
         \A i \in 1 .. Len(s) : NextObject(s[i]) = Object(s[i])
  PROVE  NextObjects(Append(s, r)) = Append(Objects(s), NextObject(r))
<1> DEFINE O == {Object(q) : q \in Reqs} \cup {NextObject(r)}
           b == Append(Objects(s), NextObject(r))
           n == Len(s) + 1
<1>1. /\ Append(s, r) \in Seq(Reqs) /\ Len(Append(s, r)) = n /\ n \in Nat
      /\ \A i \in 1 .. n : Append(s, r)[i] = IF i = n THEN r ELSE s[i]
  OBVIOUS
<1>2. /\ Objects(s) \in Seq({Object(q) : q \in Reqs}) /\ Len(Objects(s)) = Len(s)
      /\ \A i \in 1 .. Len(s) : Objects(s)[i] = Object(s[i])
  BY ObjectsFacts
<1>3. Objects(s) \in Seq(O) /\ NextObject(r) \in O
  <2> DEFINE P == {Object(q) : q \in Reqs}
  <2>1. Objects(s) \in Seq(P) /\ P \subseteq O
    BY <1>2
  <2> HIDE DEF P, O
  <2>2. Objects(s) \in Seq(O)
    BY <2>1
  <2>3. QED
    BY <2>2 DEF O
<1> HIDE DEF O
<1>4. /\ b \in Seq(O) /\ Len(b) = n
      /\ \A i \in 1 .. n : b[i] = IF i = n THEN NextObject(r) ELSE Objects(s)[i]
  BY <1>2, <1>3
<1> HIDE DEF b
<1>5. b = [i \in 1 .. n |-> IF i = n THEN NextObject(r) ELSE Objects(s)[i]]
  BY <1>1, <1>4
<1>6. NextObjects(Append(s, r)) = [i \in 1 .. n |-> IF i = n THEN NextObject(r) ELSE Objects(s)[i]]
  <2>1. \A i \in 1 .. n : NextObject(Append(s, r)[i])
                            = IF i = n THEN NextObject(r) ELSE Objects(s)[i]
    BY <1>1, <1>2
  <2>2. QED
    BY <1>1, <2>1 DEF NextObjects
<1>7. QED
  BY <1>5, <1>6 DEF b

-----------------------------------------------------------------------------
(* submit_request and pop_completed *)

\* Both accept the same shapes.
LEMMA SameShapes ==
  ASSUME NEW shape \in Shapes
  PROVE  ValidShape(shape) <=> Twin!Accepts(shape)
<1>1. shape[1] \in Int /\ shape[2] \in Int /\ MaxContextLength \in Nat
  BY ConfigAssumption
<1>2. QED
  BY <1>1 DEF ValidShape, Twin!Accepts

\* Both queue the same request under the same id; the others do not notice.
LEMMA SubmitAgrees ==
  ASSUME TypeInv, PagesInv, AgreeInv,
         NEW shape \in Shapes, SubmitRequest(shape), Twin!SubmitRequest(shape)
  PROVE  AgreeInv'
<1>1. /\ ClientMayRun /\ nextId < MaxRequests /\ ValidShape(shape)
      /\ promptLen' = [promptLen EXCEPT ![nextId] = shape[1]]
      /\ maxOutput' = [maxOutput EXCEPT ![nextId] = shape[2]]
      /\ pending' = Append(pending, nextId) /\ nextId' = nextId + 1
      /\ UNCHANGED <<running, computed, outputs, blocks, free, completed, pc>>
      /\ UNCHANGED <<decodePlan, prefillPlan, maxContext>>
  BY DEF SubmitRequest, clientVars, planVars, deviceVars
<1>2. /\ pending \in Seq(Reqs) /\ running \in Seq(Reqs)
      /\ promptLen \in [Reqs -> 0 .. MaxContextLength]
      /\ maxOutput \in [Reqs -> 0 .. MaxContextLength]
      /\ computed \in [Reqs -> Nat] /\ outputs \in [Reqs -> Seq(Tokens)]
      /\ blocks \in [Reqs -> Seq(Blocks)]
  BY Parts DEF PoolTypes, RequestTypes
<1>3. nextId \in Reqs /\ nextId \in Nat /\ shape[1] \in Nat
  BY <1>1, ConfigAssumption, Parts DEF RequestTypes, Reqs, ValidShape
<1>4. computed[nextId] = 0 /\ outputs[nextId] = <<>> /\ blocks[nextId] = <<>>
  <2>1. status[nextId] = "PENDING"
    BY <1>3, Parts DEF WaitingInv
  <2>2. ~InRunning(nextId)
    BY <1>2, <1>3, Parts DEF InRunning, QueueInv
  <2>3. Len(blocks[nextId]) = 0
    BY <1>3, <2>2 DEF PagesInv
  <2>4. QED
    BY <1>2, <1>3, <2>1, <2>3, Parts DEF WaitingInv
<1>5. NextObject(nextId) = Twin!NewRequest(nextId, shape)
  <2>1. promptLen'[nextId] = shape[1] /\ maxOutput'[nextId] = shape[2]
    BY <1>1, <1>2, <1>3
  <2>2. computed'[nextId] = 0 /\ outputs'[nextId] = <<>> /\ blocks'[nextId] = <<>>
    BY <1>1, <1>4
  <2>3. QED
    BY <2>1, <2>2 DEF NextObject, Twin!NewRequest
<1>6. \A r \in Reqs : r # nextId => NextObject(r) = Object(r)
  BY <1>1, <1>2 DEF Object, NextObject
<1>7. /\ \A i \in 1 .. Len(pending) : NextObject(pending[i]) = Object(pending[i])
      /\ \A i \in 1 .. Len(running) : NextObject(running[i]) = Object(running[i])
  <2>1. /\ \A i \in 1 .. Len(pending) : pending[i] \in Reqs
        /\ \A i \in 1 .. Len(running) : running[i] \in Reqs
    BY <1>2
  <2>2. /\ \A i \in 1 .. Len(pending) : pending[i] < nextId
        /\ \A i \in 1 .. Len(running) : running[i] < nextId
    BY Parts, Zenon DEF QueueInv
  <2>3. \A r \in Reqs : r < nextId => r # nextId
    BY <1>3
  <2>4. QED
    BY <1>6, <2>1, <2>2, <2>3
<1>8. Objects(running)' = Objects(running)
  BY <1>1, <1>2, <1>7, ObjectsNext, SameObjects
<1>9. Objects(pending)' = Append(Objects(pending), Twin!NewRequest(nextId, shape))
  BY <1>1, <1>2, <1>3, <1>5, <1>7, ObjectsNext, JoinsWithObject
<1>10. control' = [control EXCEPT
                    !.waiting = Append(control.waiting, Twin!NewRequest(nextId, shape)),
                    !.nextId = nextId + 1]
  <2>1. control.nextId = nextId
    BY DEF AgreeInv, RecordInv
  <2>2. Twin!Accepts(shape)
    BY <1>1, SameShapes
  <2>3. control' = [control EXCEPT
                    !.waiting = Append(control.waiting, Twin!NewRequest(control.nextId, shape)),
                    !.nextId = control.nextId + 1]
    BY <2>2 DEF Twin!SubmitRequest
  <2>4. QED
    BY <2>1, <2>3
<1>11. SameQueues
  BY <1>1 DEF ClientMayRun, AgreeInv, CallInv, InCall
<1>12. /\ RecordInv'
       /\ control'.waiting = Append(control.waiting, Twin!NewRequest(nextId, shape))
       /\ control'.running = control.running /\ control'.completed = control.completed
       /\ control'.free = control.free /\ control'.maxContext = control.maxContext
       /\ control'.decode = control.decode /\ control'.prefill = control.prefill
  <2> DEFINE w == Append(control.waiting, Twin!NewRequest(nextId, shape))
             n == nextId + 1
  <2>1. control' = [control EXCEPT !.waiting = w, !.nextId = n]
    BY <1>10
  <2>2. nextId' = n
    BY <1>1
  <2> HIDE DEF w, n
  <2>3. control' = [waiting |-> w, running |-> control.running,
                    completed |-> control.completed, nextId |-> nextId',
                    free |-> control.free, maxContext |-> control.maxContext,
                    decode |-> control.decode, prefill |-> control.prefill]
    BY <2>1, <2>2 DEF AgreeInv, RecordInv
  <2>4. QED
    BY <2>3 DEF RecordInv, w
<1>13. SameQueues'
  BY <1>1, <1>8, <1>9, <1>11, <1>12 DEF SameQueues
<1>14. PromptInv'
  BY <1>1, <1>2, <1>3, <1>4 DEF AgreeInv, PromptInv
<1>15. pc' \in {"idle", "decode", "prefill", "mixed"}
  BY <1>1 DEF ClientMayRun
<1>16. CallInv'
  BY <1>1, <1>12, <1>13 DEF AgreeInv, CallInv, InCall
<1>17. QED
  BY <1>12, <1>13, <1>14, <1>15, <1>16 DEF AgreeInv, ScanInv, AdmitInv, RetireInv

\* Neither keeps what it returned.
LEMMA PopAgrees ==
  ASSUME AgreeInv, PopCompleted, Twin!PopCompleted
  PROVE  AgreeInv'
<1>1. /\ ClientMayRun /\ completed' = <<>>
      /\ UNCHANGED <<nextId, promptLen, maxOutput, pending, running, computed, outputs>>
      /\ UNCHANGED <<blocks, free, pc, decodePlan, prefillPlan, maxContext>>
  BY DEF PopCompleted, requestVars, poolVars, planVars, deviceVars
<1>2. SameQueues /\ pc' \in {"idle", "decode", "prefill", "mixed"}
  BY <1>1 DEF ClientMayRun, AgreeInv, CallInv, InCall
<1>3. /\ RecordInv' /\ control'.completed = <<>>
      /\ control'.waiting = control.waiting /\ control'.running = control.running
      /\ control'.free = control.free /\ control'.maxContext = control.maxContext
      /\ control'.decode = control.decode /\ control'.prefill = control.prefill
  BY <1>1 DEF AgreeInv, RecordInv, Twin!PopCompleted
<1>4. SameQueues'
  BY <1>1, <1>2, <1>3, StillObjects DEF SameQueues
<1>5. PromptInv'
  BY <1>1 DEF AgreeInv, PromptInv
<1>6. CallInv'
  BY <1>1, <1>3, <1>4 DEF AgreeInv, CallInv, InCall
<1>7. QED
  BY <1>2, <1>3, <1>4, <1>5, <1>6 DEF AgreeInv, ScanInv, AdmitInv, RetireInv

-----------------------------------------------------------------------------
(* step, up to the model calls *)

\* The empty plan is the twin's before its first turn.
LEMMA BeginAgrees ==
  ASSUME TypeInv, AgreeInv, BeginStep, control' = control
  PROVE  AgreeInv'
<1>1. /\ pc = "idle" /\ pc' = "scan" /\ scan' = 1 /\ budget' = MaxPrefillTokens
      /\ decodePlan' = <<>> /\ prefillPlan' = <<>>
      /\ UNCHANGED <<nextId, promptLen, maxOutput, pending, running, computed, outputs>>
      /\ UNCHANGED <<blocks, free, completed>>
  BY DEF BeginStep, requestVars, poolVars, clientVars
<1>2. pending \in Seq(Reqs) /\ running \in Seq(Reqs)
  BY Parts DEF PoolTypes
<1>3. SameQueues'
  BY <1>1, StillObjects DEF AgreeInv, SameQueues
<1>4. PlanSoFar' = Blank
  BY <1>1 DEF PlanSoFar, Blank, Objects
<1>5. Twin!Turns(control.running)[0] = Blank
  <2>1. Len(control.running) \in Nat
    BY <1>1, <1>2, ObjectsFacts DEF AgreeInv, SameQueues
  <2>2. QED
    BY <2>1, TurnsUnfold
<1>6. ScanInv'
  BY <1>1, <1>2, <1>3, <1>4, <1>5 DEF ScanInv
<1>7. RecordInv' /\ PromptInv'
  BY <1>1 DEF AgreeInv, RecordInv, PromptInv
<1>8. QED
  BY <1>1, <1>6, <1>7 DEF AgreeInv, AdmitInv, CallInv, InCall, RetireInv

\* What the next turn does for the object of a running request.
LEMMA TurnOfObject ==
  ASSUME TypeInv, PromptInv, NEW r \in Reqs
  PROVE  LET chunk == Smaller(promptLen[r] - computed[r], budget)
         IN  Twin!Turn(PlanSoFar, Object(r)) =
               IF IsPrefillComplete(r)
               THEN [decode |-> Append(Objects(decodePlan), Object(r)),
                     prefill |-> prefillPlan, budget |-> budget]
               ELSE IF budget > 0
               THEN [decode |-> Objects(decodePlan),
                     prefill |-> Append(prefillPlan, [req |-> r, chunk |-> chunk]),
                     budget |-> BudgetAfter(chunk)]
               ELSE PlanSoFar
<1> DEFINE chunk == Smaller(promptLen[r] - computed[r], budget)
           o     == Object(r)
<1>1. /\ promptLen[r] \in Nat /\ computed[r] \in Nat /\ computed[r] <= promptLen[r]
      /\ budget \in Nat
  BY Parts, ConfigAssumption DEF RequestTypes, PoolTypes, PlanTypes, PromptInv
<1>2. o.id = r /\ o.prompt = promptLen[r] /\ o.computed = computed[r]
  BY DEF Object
<1> HIDE DEF o
<1>3. /\ Twin!IsDecoding(o) <=> IsPrefillComplete(r)
      /\ Twin!Remaining(o) # 0 <=> ~IsPrefillComplete(r)
      /\ budget # 0 <=> budget > 0
      /\ Twin!Lesser(Twin!Remaining(o), budget) = chunk
      /\ BudgetAfter(chunk) = budget - chunk
  BY <1>1, <1>2 DEF Twin!Remaining, Twin!IsDecoding, Twin!Lesser, Smaller,
                    IsPrefillComplete, BudgetAfter
<1> HIDE DEF chunk
<1>4. /\ PlanSoFar.decode = Objects(decodePlan) /\ PlanSoFar.prefill = prefillPlan
      /\ PlanSoFar.budget = budget
  BY DEF PlanSoFar
<1>5. CASE IsPrefillComplete(r)
  BY <1>2, <1>3, <1>4, <1>5 DEF Twin!Turn, o
<1>6. CASE ~IsPrefillComplete(r) /\ budget > 0
  BY <1>2, <1>3, <1>4, <1>6 DEF Twin!Turn, o, chunk
<1>7. CASE ~IsPrefillComplete(r) /\ ~(budget > 0)
  BY <1>2, <1>3, <1>4, <1>7 DEF Twin!Turn, o, PlanSoFar
<1>8. QED
  BY <1>5, <1>6, <1>7

\* One iteration of the C++ loop over running is one turn of the twin's.
LEMMA ScanAgrees ==
  ASSUME TypeInv, AgreeInv, ScanRunning, control' = control
  PROVE  AgreeInv'
<1> DEFINE r     == running[scan]
           chunk == Smaller(promptLen[r] - computed[r], budget)
<1>1. /\ pc = "scan" /\ pc' = "scan" /\ scan <= Len(running) /\ scan' = scan + 1
      /\ IF IsPrefillComplete(r)
         THEN /\ decodePlan' = Append(decodePlan, r)
              /\ UNCHANGED <<prefillPlan, budget>>
         ELSE IF budget > 0
         THEN /\ prefillPlan' = Append(prefillPlan, [req |-> r, chunk |-> chunk])
              /\ budget' = BudgetAfter(chunk)
              /\ UNCHANGED decodePlan
         ELSE UNCHANGED <<decodePlan, prefillPlan, budget>>
      /\ UNCHANGED <<nextId, promptLen, maxOutput, pending, running, computed, outputs>>
      /\ UNCHANGED <<blocks, free, completed>>
  BY DEF ScanRunning, requestVars, poolVars, clientVars
<1>2. /\ running \in Seq(Reqs) /\ decodePlan \in Seq(Reqs)
      /\ scan \in Nat /\ scan >= 1 /\ scan \in 1 .. Len(running)
  BY <1>1, Parts DEF PoolTypes, PlanTypes, CursorInv
<1>3. r \in Reqs
  BY <1>2
<1>4. /\ SameQueues /\ PromptInv /\ RecordInv
      /\ Twin!Turns(control.running)[scan - 1] = PlanSoFar
  BY <1>1 DEF AgreeInv, ScanInv
<1>5. Len(control.running) = Len(running) /\ control.running[scan] = Object(r)
  BY <1>2, <1>4, ObjectsFacts DEF SameQueues
<1>6. Twin!Turns(control.running)[scan] = Twin!Turn(PlanSoFar, Object(r))
  <2>1. Len(control.running) \in Nat /\ scan \in 1 .. Len(control.running)
    BY <1>2, <1>5
  <2>2. Twin!Turns(control.running)[scan]
          = Twin!Turn(Twin!Turns(control.running)[scan - 1], control.running[scan])
    BY <2>1, TurnsUnfold
  <2>3. QED
    BY <1>4, <1>5, <2>2
<1>7. SameQueues'
  BY <1>1, <1>4, StillObjects DEF SameQueues
<1>8. PlanSoFar' = Twin!Turn(PlanSoFar, Object(r))
  <2>1. /\ decodePlan' = decodePlan => Objects(decodePlan)' = Objects(decodePlan)
        /\ decodePlan' = Append(decodePlan, r)
             => Objects(decodePlan)' = Append(Objects(decodePlan), Object(r))
    BY <1>1, <1>2, <1>3, StillObjects, ObjectsNext, ObjectsAppend
  <2> HIDE DEF r, chunk
  <2>2. Twin!Turn(PlanSoFar, Object(r)) =
          IF IsPrefillComplete(r)
          THEN [decode |-> Append(Objects(decodePlan), Object(r)),
                prefill |-> prefillPlan, budget |-> budget]
          ELSE IF budget > 0
          THEN [decode |-> Objects(decodePlan),
                prefill |-> Append(prefillPlan, [req |-> r, chunk |-> chunk]),
                budget |-> BudgetAfter(chunk)]
          ELSE PlanSoFar
    BY <1>3, <1>4, TurnOfObject DEF chunk
  <2>3. PlanSoFar' = [decode |-> Objects(decodePlan)', prefill |-> prefillPlan',
                      budget |-> budget']
    BY DEF PlanSoFar
  <2>4. CASE IsPrefillComplete(r)
    BY <1>1, <2>1, <2>2, <2>3, <2>4
  <2>5. CASE ~IsPrefillComplete(r) /\ budget > 0
    BY <1>1, <2>1, <2>2, <2>3, <2>5
  <2>6. CASE ~IsPrefillComplete(r) /\ ~(budget > 0)
    BY <1>1, <2>1, <2>2, <2>3, <2>6 DEF PlanSoFar
  <2>7. QED
    BY <2>4, <2>5, <2>6
<1> HIDE DEF r
<1>9. ScanInv'
  <2>1. scan' - 1 = scan /\ scan' - 1 <= Len(running')
    BY <1>1, <1>2
  <2>2. QED
    BY <1>6, <1>7, <1>8, <2>1 DEF ScanInv
<1>10. RecordInv' /\ PromptInv'
  BY <1>1, <1>4 DEF RecordInv, PromptInv
<1>11. QED
  BY <1>1, <1>9, <1>10 DEF AgreeInv, AdmitInv, CallInv, InCall, RetireInv

\* The twin's plan is complete when the C++ loop has gone through running.
LEMMA ScanDoneAgrees ==
  ASSUME TypeInv, AgreeInv, ScanDone, control' = control
  PROVE  AgreeInv'
<1>1. /\ pc = "scan" /\ pc' = "admit" /\ scan > Len(running)
      /\ UNCHANGED <<nextId, promptLen, maxOutput, pending, running, computed, outputs>>
      /\ UNCHANGED <<blocks, free, completed, budget, decodePlan, prefillPlan>>
  BY DEF ScanDone, requestVars, poolVars, clientVars, planVars
<1>2. pending \in Seq(Reqs) /\ running \in Seq(Reqs) /\ scan \in Nat
  BY Parts DEF PoolTypes, PlanTypes
<1>3. /\ SameQueues /\ scan - 1 <= Len(running)
      /\ Twin!Turns(control.running)[scan - 1] = PlanSoFar
  BY <1>1 DEF AgreeInv, ScanInv
<1>4. /\ Len(control.running) = Len(running) /\ Len(control.waiting) = Len(pending)
      /\ Len(pending) \in Nat
  <2>1. Len(Objects(running)) = Len(running) /\ Len(Objects(pending)) = Len(pending)
    BY <1>2, ObjectsFacts
  <2>2. QED
    BY <1>2, <1>3, <2>1 DEF SameQueues
<1>5. Twin!PlanOf(control) = PlanSoFar
  <2>1. scan - 1 = Len(control.running)
    BY <1>1, <1>2, <1>3, <1>4
  <2>2. QED
    BY <1>3, <2>1 DEF Twin!PlanOf
<1>6. Twin!Start(control) = QueuesSoFar
  BY <1>3, <1>5 DEF Twin!Start, SameQueues, QueuesSoFar, PlanSoFar
<1>7. Twin!Start(control).waiting = control.waiting
  BY DEF Twin!Start
<1>8. Twin!Admissions(Twin!Start(control))[Len(control.waiting) - Len(pending)] = QueuesSoFar
  <2> DEFINE start == Twin!Start(control)
  <2>1. Len(start.waiting) \in Nat
    BY <1>4, <1>7
  <2> HIDE DEF start
  <2>2. Twin!Admissions(start)[0] = start
    BY <2>1, AdmissionsUnfold
  <2>3. QED
    BY <1>4, <1>6, <2>2 DEF start
<1>9. SameQueues'
  BY <1>1, <1>3, StillObjects DEF SameQueues
<1>10. /\ QueuesSoFar' = QueuesSoFar /\ Objects(decodePlan)' = Objects(decodePlan)
  BY <1>1, StillObjects DEF QueuesSoFar
<1>11. Twin!PlanOf(control).decode = Objects(decodePlan)
  BY <1>5 DEF PlanSoFar
<1>12. control.completed = completed
  BY <1>3 DEF SameQueues
<1>13. /\ Twin!PlanOf(control)' = Twin!PlanOf(control)
       /\ Twin!Admissions(Twin!Start(control))' = Twin!Admissions(Twin!Start(control))
  BY DEF Twin!PlanOf, Twin!Start, Twin!Admissions, Twin!Turns, Twin!Admit, Twin!Turn
<1>14. AdmitInv'
  BY <1>1, <1>4, <1>8, <1>9, <1>10, <1>11, <1>12, <1>13 DEF AdmitInv
<1>15. RecordInv' /\ PromptInv'
  BY <1>1 DEF AgreeInv, RecordInv, PromptInv
<1>16. QED
  BY <1>1, <1>14, <1>15 DEF AgreeInv, ScanInv, CallInv, InCall, RetireInv

\* The head of the queue, admitted, as the twin admits its object; the twin's
\* loop ends where the C++ loop does.
LEMMA AdmitOfObjects ==
  ASSUME TypeInv, PagesInv, pc = "admit"
  PROVE  /\ ~CanAdmit => Twin!Admit(QueuesSoFar) = QueuesSoFar
         /\ CanAdmit =>
              LET r     == Head(pending)
                  chunk == Smaller(promptLen[r], budget)
              IN  Twin!Admit(QueuesSoFar) =
                    [waiting |-> Objects(Tail(pending)),
                     running |-> Append(Objects(running),
                                   [Object(r) EXCEPT !.blocks = PopBlocks(BlocksNeeded(r))]),
                     free    |-> Unpopped(BlocksNeeded(r)),
                     prefill |-> Append(prefillPlan, [req |-> r, chunk |-> chunk]),
                     budget  |-> BudgetAfter(chunk)]
<1> DEFINE r     == Head(pending)
           chunk == Smaller(promptLen[r], budget)
           q     == QueuesSoFar
           o     == Object(r)
<1>1. /\ pending \in Seq(Reqs) /\ running \in Seq(Reqs) /\ free \in Seq(Blocks)
      /\ budget \in Nat
  BY Parts, ConfigAssumption DEF PoolTypes, PlanTypes
<1>2. /\ q.waiting = Objects(pending) /\ q.running = Objects(running) /\ q.free = free
      /\ q.prefill = prefillPlan /\ q.budget = budget
  BY DEF QueuesSoFar
<1>3. /\ Len(Objects(running)) = Len(running)
      /\ Objects(pending) = <<>> <=> pending = <<>>
  BY <1>1, ObjectsFacts
<1>4. pending # <<>> => Head(Objects(pending)) = o /\ Tail(Objects(pending)) = Objects(Tail(pending))
  BY <1>1, ObjectsTail
<1>5. /\ o.id = r /\ o.prompt = promptLen[r] /\ o.limit = maxOutput[r]
  BY DEF Object
<1> HIDE DEF q, o, r
<1>6. Twin!Pages(o) = BlocksNeeded(r)
  BY <1>5 DEF Twin!Pages, BlocksNeeded, CeilDiv
<1>7. CASE ~CanAdmit
  <2>1. ~Twin!Admits(q)
    BY <1>1, <1>2, <1>3, <1>7 DEF CanAdmit, Twin!Admits
  <2>2. QED
    BY <1>7, <2>1 DEF Twin!Admit, q
<1>8. CASE CanAdmit
  <2>1. pending # <<>> /\ budget # 0 /\ Len(running) < MaxBatchSize
    BY <1>1, <1>8 DEF CanAdmit
  <2>2. BlocksNeeded(r) <= Len(free)
    BY <1>8, PagesFund DEF AdmissionAlwaysFunded, r
  <2>3. Head(q.waiting) = o /\ Twin!Admits(q)
    BY <1>2, <1>3, <1>4, <1>6, <2>1, <2>2 DEF Twin!Admits
  <2>4. /\ Twin!Lesser(o.prompt, q.budget) = chunk
        /\ q.budget - chunk = BudgetAfter(chunk)
        /\ SubSeq(q.free, 1, Len(q.free) - Twin!Pages(o)) = Unpopped(BlocksNeeded(r))
        /\ [i \in 1 .. Twin!Pages(o) |-> q.free[Len(q.free) - i + 1]]
             = PopBlocks(BlocksNeeded(r))
    BY <1>2, <1>5, <1>6 DEF Twin!Lesser, Smaller, BudgetAfter, Unpopped, PopBlocks
  <2> HIDE DEF chunk
  <2>5. Twin!Admit(q) =
          [waiting |-> Objects(Tail(pending)),
           running |-> Append(Objects(running),
                         [o EXCEPT !.blocks = PopBlocks(BlocksNeeded(r))]),
           free    |-> Unpopped(BlocksNeeded(r)),
           prefill |-> Append(prefillPlan, [req |-> r, chunk |-> chunk]),
           budget  |-> BudgetAfter(chunk)]
    <3>1. Tail(q.waiting) = Objects(Tail(pending))
      BY <1>2, <1>4, <2>1
    <3>2. Twin!Admit(q) =
            [waiting |-> Tail(q.waiting),
             running |-> Append(q.running,
                           [o EXCEPT !.blocks = [i \in 1 .. Twin!Pages(o) |->
                                                   q.free[Len(q.free) - i + 1]]]),
             free    |-> SubSeq(q.free, 1, Len(q.free) - Twin!Pages(o)),
             prefill |-> Append(q.prefill, [req |-> o.id,
                                            chunk |-> Twin!Lesser(o.prompt, q.budget)]),
             budget  |-> q.budget - Twin!Lesser(o.prompt, q.budget)]
      BY <2>3, Zenon DEF Twin!Admit
    <3>3. QED
      BY <1>2, <1>5, <2>4, <3>1, <3>2, Zenon
  <2>6. QED
    BY <1>8, <2>5 DEF q, o, r, chunk
<1>9. QED
  BY <1>7, <1>8

\* One iteration of the C++ admission loop is one of the twin's.
LEMMA AdmitAgrees ==
  ASSUME TypeInv, PagesInv, AgreeInv, AdmitRequest, control' = control
  PROVE  AgreeInv'
<1> DEFINE r     == Head(pending)
           need  == BlocksNeeded(r)
           chunk == Smaller(promptLen[r], budget)
           k     == Len(control.waiting) - Len(pending)
           start == Twin!Start(control)
<1>1. /\ pc = "admit" /\ CanAdmit /\ pending # <<>>
      /\ UNCHANGED <<nextId, promptLen, maxOutput, computed, outputs, completed, decodePlan>>
  BY DEF AdmitRequest, CanAdmit, requestVars, clientVars
<1>2. need <= Len(free)
  BY <1>1, PagesFund DEF AdmissionAlwaysFunded
<1>3. /\ blocks' = [blocks EXCEPT ![r] = PopBlocks(need)] /\ free' = Unpopped(need)
      /\ prefillPlan' = Append(prefillPlan, [req |-> r, chunk |-> chunk])
      /\ budget' = BudgetAfter(chunk) /\ running' = Append(running, r)
      /\ pending' = Tail(pending) /\ pc' = pc
  BY <1>2 DEF AdmitRequest
<1>4. /\ pending \in Seq(Reqs) /\ running \in Seq(Reqs) /\ decodePlan \in Seq(Reqs)
      /\ blocks \in [Reqs -> Seq(Blocks)] /\ prefillPlan \in Seq([req : Reqs, chunk : Nat])
  BY Parts DEF PoolTypes, PlanTypes
<1>5. /\ r \in Reqs /\ r = pending[1] /\ 1 \in 1 .. Len(pending)
      /\ Len(Tail(pending)) = Len(pending) - 1 /\ Len(pending) \in Nat \ {0}
      /\ Tail(pending) \in Seq(Reqs)
  BY <1>1, <1>4
<1> HIDE DEF r, need, chunk, k, start
<1>6. /\ Twin!PlanOf(control).decode = Objects(decodePlan)
      /\ control.completed = completed /\ Len(control.waiting) \in Nat
      /\ Len(pending) <= Len(control.waiting)
      /\ Twin!Admissions(start)[k] = QueuesSoFar
  BY <1>1 DEF AgreeInv, AdmitInv, start, k
<1>7. Twin!Admissions(start)[k + 1] = Twin!Admit(QueuesSoFar)
  <2>1. start.waiting = control.waiting
    BY DEF Twin!Start, start
  <2>2. k + 1 \in 1 .. Len(control.waiting) /\ (k + 1) - 1 = k
    BY <1>5, <1>6 DEF k
  <2>3. Len(start.waiting) \in Nat /\ k + 1 \in 1 .. Len(start.waiting)
    BY <1>6, <2>1, <2>2
  <2>4. Twin!Admissions(start)[k + 1] = Twin!Admit(Twin!Admissions(start)[(k + 1) - 1])
    BY <2>3, AdmissionsUnfold
  <2>5. QED
    BY <1>6, <2>2, <2>4
<1>8. NextObject(r) = [Object(r) EXCEPT !.blocks = PopBlocks(need)]
  <2>1. blocks'[r] = PopBlocks(need)
    BY <1>3, <1>4, <1>5
  <2>2. QED
    BY <1>1, <2>1 DEF Object, NextObject
<1>9. \A q \in Reqs : q # r => NextObject(q) = Object(q)
  BY <1>1, <1>3, <1>4 DEF Object, NextObject
<1>10. \A i \in 1 .. Len(running) : running[i] \in Reqs /\ running[i] # r
  <2>1. \A i \in 1 .. Len(running) : running[i] < r
    BY <1>5, Parts, Zenon DEF QueueInv
  <2>2. \A q \in Reqs : q < r => q # r
    BY <1>5, ConfigAssumption DEF Reqs
  <2>3. \A i \in 1 .. Len(running) : running[i] \in Reqs
    BY <1>4
  <2>4. QED
    BY <2>1, <2>2, <2>3
<1>11. Objects(running)' = Append(Objects(running), NextObject(r))
  BY <1>3, <1>4, <1>5, <1>9, <1>10, ObjectsNext, JoinsWithObject
<1>12. Objects(pending)' = Objects(Tail(pending))
  <2>1. \A j \in 1 .. Len(Tail(pending)) : Tail(pending)[j] \in Reqs /\ Tail(pending)[j] # r
    <3>1. \A j \in 1 .. Len(Tail(pending)) : r < Tail(pending)[j]
      BY <1>1, <1>4, HeadTailFacts, Parts DEF QueueInv, r
    <3>2. \A q \in Reqs : r < q => q # r
      BY <1>5, ConfigAssumption DEF Reqs
    <3>3. QED
      BY <1>5, <3>1, <3>2
  <2>2. QED
    BY <1>3, <1>5, <1>9, <2>1, ObjectsNext, SameObjects
<1>13. Objects(decodePlan)' = Objects(decodePlan)
  <2>1. \A i \in 1 .. Len(decodePlan) : decodePlan[i] \in Reqs /\ decodePlan[i] # r
    BY <1>1, <1>4, <1>10, Parts DEF PlanInv, InRunning
  <2>2. QED
    BY <1>1, <1>4, <1>9, <2>1, ObjectsNext, SameObjects
<1>14. QueuesSoFar' = Twin!Admit(QueuesSoFar)
  <2>1. Twin!Admit(QueuesSoFar) =
          [waiting |-> Objects(Tail(pending)),
           running |-> Append(Objects(running),
                         [Object(r) EXCEPT !.blocks = PopBlocks(need)]),
           free    |-> Unpopped(need),
           prefill |-> Append(prefillPlan, [req |-> r, chunk |-> chunk]),
           budget  |-> BudgetAfter(chunk)]
    BY <1>1, AdmitOfObjects DEF r, need, chunk
  <2>2. QED
    BY <1>3, <1>8, <1>11, <1>12, <2>1 DEF QueuesSoFar
<1>15. AdmitInv'
  <2>1. Len(control.waiting) - Len(pending') = k + 1 /\ Len(pending') <= Len(control.waiting)
    BY <1>3, <1>5, <1>6 DEF k
  <2>2. prefillPlan' # <<>>
    <3> DEFINE item == [req |-> r, chunk |-> chunk]
    <3>1. Len(Append(prefillPlan, item)) = Len(prefillPlan) + 1 /\ Len(prefillPlan) \in Nat
      BY <1>4
    <3> HIDE DEF item
    <3>2. QED
      BY <1>3, <3>1 DEF item
  <2>3. /\ Twin!PlanOf(control)' = Twin!PlanOf(control)
        /\ Twin!Admissions(Twin!Start(control))' = Twin!Admissions(start)
    BY DEF Twin!PlanOf, Twin!Start, Twin!Admissions, Twin!Turns, Twin!Admit, Twin!Turn, start
  <2>4. QED
    BY <1>1, <1>3, <1>6, <1>7, <1>13, <1>14, <2>1, <2>2, <2>3 DEF AdmitInv
<1>16. RecordInv' /\ PromptInv'
  BY <1>1 DEF AgreeInv, RecordInv, PromptInv
<1>17. QED
  BY <1>1, <1>3, <1>15, <1>16 DEF AgreeInv, ScanInv, CallInv, InCall, RetireInv

\* When the C++ loop has admitted what it can, so has the twin: the iterations
\* it has left do nothing.
LEMMA LoopsEnd ==
  ASSUME TypeInv, PagesInv, AgreeInv, ScheduleDone
  PROVE  /\ pc = "admit" /\ control.completed = completed
         /\ prefillPlan = <<>> => SameQueues
         /\ Twin!PlanOf(control).decode = Objects(decodePlan)
         /\ Twin!Admissions(Twin!Start(control))[Len(control.waiting)] = QueuesSoFar
<1> DEFINE start == Twin!Start(control)
           n     == Len(control.waiting)
           k     == n - Len(pending)
           P     == {j \in Nat : Twin!Admissions(start)[j] = QueuesSoFar}
<1>1. pc = "admit" /\ ~CanAdmit
  BY DEF ScheduleDone, AgreeInv
<1>2. /\ control.completed = completed
      /\ prefillPlan = <<>> => SameQueues
      /\ Twin!PlanOf(control).decode = Objects(decodePlan)
      /\ n \in Nat /\ Len(pending) <= n
      /\ Twin!Admissions(start)[k] = QueuesSoFar
  BY <1>1 DEF AgreeInv, AdmitInv
<1>3. Len(pending) \in Nat /\ k \in Nat /\ k <= n
  BY <1>2, Parts DEF PoolTypes
<1>4. start.waiting = control.waiting
  BY DEF Twin!Start
<1> HIDE DEF start, n, k
<1>5. ASSUME NEW i \in (k + 1) .. n, Twin!Admissions(start)[i - 1] = QueuesSoFar
      PROVE  Twin!Admissions(start)[i] = QueuesSoFar
  <2>1. Len(start.waiting) \in Nat /\ i \in 1 .. Len(start.waiting)
    BY <1>2, <1>3, <1>4 DEF n
  <2>2. Twin!Admissions(start)[i] = Twin!Admit(Twin!Admissions(start)[i - 1])
    BY <2>1, AdmissionsUnfold
  <2>3. Twin!Admit(QueuesSoFar) = QueuesSoFar
    BY <1>1, AdmitOfObjects
  <2>4. QED
    BY <1>5, <2>2, <2>3
<1>6. n \in P
  <2>1. \A i \in (k + 1) .. n : i - 1 \in P => i \in P
    BY <1>2, <1>3, <1>5
  <2>2. k \in P
    BY <1>2, <1>3
  <2> HIDE DEF P
  <2>3. k .. n \subseteq P
    BY <1>2, <1>3, <2>1, <2>2, FromTo
  <2>4. QED
    BY <1>2, <1>3, <2>3
<1>7. QED
  BY <1>1, <1>2, <1>6 DEF start, n

\* The longest context of the decode rows, 0 if there is none.
LEMMA LongestOfObjects ==
  ASSUME TypeInv
  PROVE  Twin!Longest(Objects(decodePlan)) = IF HasDecode THEN LongestDecode ELSE 0
<1> DEFINE d       == Objects(decodePlan)
           lengths == {Twin!TotalLen(d[i]) : i \in 1 .. Len(d)}
           totals  == {TotalTokens(decodePlan[i]) : i \in 1 .. Len(decodePlan)}
<1>1. decodePlan \in Seq(Reqs)
  BY Parts DEF PlanTypes
<1>2. /\ Len(d) = Len(decodePlan) /\ (d = <<>> <=> decodePlan = <<>>)
      /\ \A i \in 1 .. Len(decodePlan) : d[i] = Object(decodePlan[i])
  BY <1>1, ObjectsFacts
<1>3. \A r : Twin!TotalLen(Object(r)) = TotalTokens(r)
  BY DEF Twin!TotalLen, TotalTokens, Object
<1> HIDE DEF d
<1>4. lengths = totals
  BY <1>2, <1>3
<1>5. \A m : (\A n \in lengths : n <= m)
               <=> (\A i \in 1 .. Len(decodePlan) : TotalTokens(decodePlan[i]) <= m)
  BY <1>4
<1> HIDE DEF lengths, totals
<1>6. (CHOOSE m \in lengths : \A n \in lengths : n <= m) = LongestDecode
  BY <1>4, <1>5 DEF LongestDecode, totals
<1>7. QED
  <2>1. Twin!Longest(d) = IF d = <<>> THEN 0
                          ELSE CHOOSE m \in lengths : \A n \in lengths : n <= m
    BY Zenon DEF Twin!Longest, lengths
  <2>2. Twin!Longest(d) = IF HasDecode THEN LongestDecode ELSE 0
    BY <1>2, <1>6, <2>1 DEF HasDecode
  <2>3. QED
    BY <2>2 DEF d

\* What a planned call leaves behind: the plan as it was, or nothing of it.
LEMMA PlannedFacts ==
  ASSUME Planned
  PROVE  /\ ScheduleDone /\ (HasDecode \/ HasPrefill)
         /\ UNCHANGED <<nextId, promptLen, maxOutput, pending, running, computed, outputs>>
         /\ UNCHANGED <<blocks, free, completed>>
         /\ \/ pc' = "idle"
            \/ /\ pc' \in {"decode", "prefill", "mixed"} /\ UNCHANGED <<decodePlan, prefillPlan>>
               /\ maxContext' = IF HasDecode THEN LongestDecode ELSE 0
<1>1. CASE ReplayDecode
  BY <1>1 DEF ReplayDecode, CanReuseDecodeState, requestVars, poolVars, clientVars, planVars
<1>2. CASE LaunchDecode
  BY <1>2 DEF LaunchDecode, requestVars, poolVars, clientVars, planVars
<1>3. CASE LaunchPrefill
  BY <1>3 DEF LaunchPrefill, requestVars, poolVars, clientVars, planVars
<1>4. CASE LaunchMixed
  BY <1>4 DEF LaunchMixed, Catch, requestVars, poolVars, clientVars, planVars
<1>5. QED
  BY <1>1, <1>2, <1>3, <1>4 DEF Planned

\* Both make the same call.
LEMMA PlannedAgrees ==
  ASSUME TypeInv, PagesInv, AgreeInv, Planned, Twin!BeginStep
  PROVE  AgreeInv'
<1>1. /\ ScheduleDone /\ (HasDecode \/ HasPrefill)
      /\ UNCHANGED <<nextId, promptLen, maxOutput, pending, running, computed, outputs>>
      /\ UNCHANGED <<blocks, free, completed>>
      /\ \/ pc' = "idle"
         \/ /\ pc' \in {"decode", "prefill", "mixed"} /\ UNCHANGED <<decodePlan, prefillPlan>>
            /\ maxContext' = IF HasDecode THEN LongestDecode ELSE 0
  BY PlannedFacts
<1>2. /\ control.completed = completed
      /\ Twin!PlanOf(control).decode = Objects(decodePlan)
      /\ Twin!Admissions(Twin!Start(control))[Len(control.waiting)] = QueuesSoFar
  BY <1>1, LoopsEnd
<1>3. decodePlan \in Seq(Reqs) /\ prefillPlan \in Seq([req : Reqs, chunk : Nat])
  BY Parts DEF PlanTypes
<1> DEFINE d   == Objects(decodePlan)
           ids == [i \in 1 .. Len(d) |-> d[i].id]
<1>4. ids = decodePlan /\ (d = <<>> <=> ~HasDecode)
  <2>1. /\ Len(d) = Len(decodePlan) /\ (d = <<>> <=> decodePlan = <<>>)
        /\ \A i \in 1 .. Len(decodePlan) : d[i] = Object(decodePlan[i])
    BY <1>3, ObjectsFacts
  <2>2. \A r : Object(r).id = r
    BY DEF Object
  <2> HIDE DEF d
  <2>3. \A i \in 1 .. Len(decodePlan) : d[i].id = decodePlan[i]
    BY <2>1, <2>2
  <2>4. QED
    BY <1>3, <2>1, <2>3 DEF HasDecode
<1>5. Twin!Longest(d) = IF HasDecode THEN LongestDecode ELSE 0
  BY LongestOfObjects
<1> HIDE DEF d
<1>6. control' = [control EXCEPT
                   !.waiting = Objects(pending), !.running = Objects(running),
                   !.free = free, !.decode = decodePlan, !.prefill = prefillPlan,
                   !.maxContext = Twin!Longest(d)]
  <2>1. ~(d = <<>> /\ prefillPlan = <<>>)
    BY <1>1, <1>4 DEF HasPrefill
  <2>2. /\ QueuesSoFar.waiting = Objects(pending) /\ QueuesSoFar.running = Objects(running)
        /\ QueuesSoFar.free = free /\ QueuesSoFar.prefill = prefillPlan
    BY DEF QueuesSoFar
  <2>3. control' = [control EXCEPT
                     !.waiting = QueuesSoFar.waiting, !.running = QueuesSoFar.running,
                     !.free = QueuesSoFar.free, !.decode = ids,
                     !.prefill = QueuesSoFar.prefill, !.maxContext = Twin!Longest(d)]
    BY <1>2, <2>1, <2>2, Zenon DEF Twin!BeginStep, d
  <2>4. QED
    BY <1>4, <2>2, <2>3
<1>7. /\ RecordInv'
      /\ control'.waiting = Objects(pending) /\ control'.running = Objects(running)
      /\ control'.free = free /\ control'.completed = completed
      /\ control'.decode = decodePlan /\ control'.prefill = prefillPlan
      /\ control'.maxContext = Twin!Longest(d)
  <2> DEFINE w == Objects(pending)
             q == Objects(running)
             m == Twin!Longest(d)
  <2>1. control' = [control EXCEPT !.waiting = w, !.running = q, !.free = free,
                      !.decode = decodePlan, !.prefill = prefillPlan, !.maxContext = m]
    BY <1>6
  <2> HIDE DEF w, q, m
  <2>2. control' = [waiting |-> w, running |-> q, completed |-> control.completed,
                    nextId |-> nextId, free |-> free, maxContext |-> m,
                    decode |-> decodePlan, prefill |-> prefillPlan]
    <3> DEFINE cw == control.waiting
               cr == control.running
               cc == control.completed
               cf == control.free
               cm == control.maxContext
               cd == control.decode
               cp == control.prefill
    <3>1. control = [waiting |-> cw, running |-> cr, completed |-> cc, nextId |-> nextId,
                     free |-> cf, maxContext |-> cm, decode |-> cd, prefill |-> cp]
      BY DEF AgreeInv, RecordInv
    <3> HIDE DEF cw, cr, cc, cf, cm, cd, cp
    <3>2. control' = [waiting |-> w, running |-> q, completed |-> cc, nextId |-> nextId,
                      free |-> free, maxContext |-> m, decode |-> decodePlan,
                      prefill |-> prefillPlan]
      BY <2>1, <3>1
    <3>3. QED
      BY <3>2 DEF cc
  <2>3. QED
    BY <1>1, <1>2, <2>2 DEF RecordInv, w, q, m
<1>8. SameQueues'
  BY <1>1, <1>7, StillObjects DEF SameQueues
<1>9. PromptInv'
  BY <1>1 DEF AgreeInv, PromptInv
<1>10. CallInv'
  BY <1>1, <1>5, <1>7, <1>8 DEF CallInv, InCall
<1>11. QED
  BY <1>1, <1>7, <1>8, <1>9, <1>10 DEF AgreeInv, ScanInv, AdmitInv, RetireInv

\* Neither finds anything to do.
LEMMA EmptyAgrees ==
  ASSUME TypeInv, PagesInv, AgreeInv, ReturnEmpty, Twin!BeginStep
  PROVE  AgreeInv'
<1>1. /\ ScheduleDone /\ decodePlan = <<>> /\ prefillPlan = <<>> /\ pc' = "idle"
      /\ UNCHANGED <<nextId, promptLen, maxOutput, pending, running, computed, outputs>>
      /\ UNCHANGED <<blocks, free, completed>>
  BY DEF ReturnEmpty, HasDecode, HasPrefill, requestVars, poolVars, clientVars
<1>2. /\ SameQueues
      /\ Twin!PlanOf(control).decode = Objects(decodePlan)
      /\ Twin!Admissions(Twin!Start(control))[Len(control.waiting)] = QueuesSoFar
  BY <1>1, LoopsEnd
<1>3. Objects(decodePlan) = <<>> /\ QueuesSoFar.prefill = <<>>
  BY <1>1 DEF Objects, QueuesSoFar
<1>4. control' = control
  BY <1>2, <1>3, Zenon DEF Twin!BeginStep
<1>5. SameQueues'
  BY <1>1, <1>2, <1>4, StillObjects DEF SameQueues
<1>6. RecordInv' /\ PromptInv'
  BY <1>1, <1>4 DEF AgreeInv, RecordInv, PromptInv
<1>7. QED
  BY <1>1, <1>5, <1>6 DEF AgreeInv, ScanInv, AdmitInv, CallInv, InCall, RetireInv

-----------------------------------------------------------------------------
(* Failures *)

\* The plan is dropped; the requests keep what they had on both sides.
LEMMA FailureAgrees ==
  ASSUME AgreeInv, CallbackFails, Twin!ForwardRaises
  PROVE  AgreeInv'
<1>1. /\ InCall /\ pc' = "idle"
      /\ UNCHANGED <<nextId, promptLen, maxOutput, pending, running, computed, outputs>>
      /\ UNCHANGED <<blocks, free, completed>>
  BY DEF CallbackFails, Catch, InCall, requestVars, poolVars, clientVars
<1>2. SameQueues
  BY <1>1 DEF AgreeInv, CallInv
<1>3. /\ RecordInv'
      /\ control'.waiting = control.waiting /\ control'.running = control.running
      /\ control'.free = control.free /\ control'.completed = control.completed
  <2>1. control' = [control EXCEPT !.decode = <<>>, !.prefill = <<>>]
    BY DEF Twin!ForwardRaises
  <2>2. control' = [waiting |-> control.waiting, running |-> control.running,
                    completed |-> control.completed, nextId |-> nextId,
                    free |-> control.free, maxContext |-> control.maxContext,
                    decode |-> <<>>, prefill |-> <<>>]
    <3> DEFINE cw == control.waiting
               cr == control.running
               cc == control.completed
               cf == control.free
               cm == control.maxContext
               cd == control.decode
               cp == control.prefill
    <3>1. control = [waiting |-> cw, running |-> cr, completed |-> cc, nextId |-> nextId,
                     free |-> cf, maxContext |-> cm, decode |-> cd, prefill |-> cp]
      BY DEF AgreeInv, RecordInv
    <3> HIDE DEF cw, cr, cc, cf, cm, cd, cp
    <3>2. control' = [waiting |-> cw, running |-> cr, completed |-> cc, nextId |-> nextId,
                      free |-> cf, maxContext |-> cm, decode |-> <<>>, prefill |-> <<>>]
      BY <2>1, <3>1
    <3>3. QED
      BY <3>2 DEF cw, cr, cc, cf, cm
  <2>3. QED
    BY <1>1, <2>2 DEF RecordInv
<1>4. SameQueues'
  BY <1>1, <1>2, <1>3, StillObjects DEF SameQueues
<1>5. PromptInv'
  BY <1>1 DEF AgreeInv, PromptInv
<1>6. QED
  BY <1>1, <1>3, <1>4, <1>5 DEF AgreeInv, ScanInv, AdmitInv, CallInv, InCall, RetireInv

\* Only a step without prefill replays, so nothing was admitted when it throws.
LEMMA ThrowAgrees ==
  ASSUME TypeInv, PagesInv, AgreeInv, AdvanceThrows, control' = control
  PROVE  AgreeInv'
<1>1. /\ ScheduleDone /\ prefillPlan = <<>> /\ pc' = "idle"
      /\ UNCHANGED <<nextId, promptLen, maxOutput, pending, running, computed, outputs>>
      /\ UNCHANGED <<blocks, free, completed>>
  BY DEF AdvanceThrows, CanReuseDecodeState, HasPrefill, requestVars, poolVars, clientVars
<1>2. SameQueues
  BY <1>1, LoopsEnd
<1>3. SameQueues'
  BY <1>1, <1>2, StillObjects DEF SameQueues
<1>4. RecordInv' /\ PromptInv'
  BY <1>1 DEF AgreeInv, RecordInv, PromptInv
<1>5. QED
  BY <1>1, <1>3, <1>4 DEF AgreeInv, ScanInv, AdmitInv, CallInv, InCall, RetireInv

-----------------------------------------------------------------------------
(* step, after the model calls *)

\* The twin has the rows that the C++ plan has, with their chunks.
LEMMA SameRows ==
  ASSUME TypeInv, OrderInv, pc # "retire",
         control.decode = decodePlan, control.prefill = prefillPlan, NEW r \in Reqs
  PROVE  /\ Twin!InPlan(control, r) <=> \E k \in 1 .. NumRows : RowReq(k) = r
         /\ Twin!Cursor(control, r) = CHOOSE k \in 1 .. NumRows : RowReq(k) = r
         /\ IsPrefillComplete(r) => Twin!ChunkOf(control, r) = 0
         /\ (\A k \in 1 .. NumRows : RowReq(k) # r) => Twin!ChunkOf(control, r) = 0
         /\ \A k \in 1 .. NumRows :
              RowReq(k) = r /\ ~IsPrefillComplete(r) => Twin!ChunkOf(control, r) = RowChunk(k)
<1> DEFINE nd  == Len(decodePlan)
           np  == Len(prefillPlan)
           own == {i \in 1 .. np : prefillPlan[i].req = r}
<1>1. nd \in Nat /\ np \in Nat /\ NumRows = nd + np
  BY Parts DEF PlanTypes, NumRows
<1>2. /\ \A k, l \in 1 .. np : k < l => prefillPlan[k].req < prefillPlan[l].req
      /\ \A k \in 1 .. np : ~IsPrefillComplete(prefillPlan[k].req)
      /\ \A i \in 1 .. nd : IsPrefillComplete(decodePlan[i])
  BY DEF OrderInv, PlanOrder
<1>3. \A i \in 1 .. np : nd + i \in 1 .. NumRows /\ RowReq(nd + i) = prefillPlan[i].req
                         /\ RowChunk(nd + i) = prefillPlan[i].chunk
  BY <1>1 DEF RowReq, RowChunk
<1>4. \A k \in 1 .. nd : k \in 1 .. NumRows /\ RowReq(k) = decodePlan[k]
  BY <1>1 DEF RowReq
<1>5. \A k \in 1 .. NumRows : k \in 1 .. nd \/ \E i \in 1 .. np : k = nd + i
  <2>1. \A k \in 1 .. NumRows : k \in 1 .. nd \/ (k - nd \in 1 .. np /\ k = nd + (k - nd))
    BY <1>1
  <2>2. QED
    BY <2>1
<1>6. Twin!ChunkOf(control, r)
        = IF own = {} THEN 0 ELSE prefillPlan[CHOOSE i \in own : TRUE].chunk
  <2> DEFINE p    == control.prefill
             mine == {i \in 1 .. Len(p) : p[i].req = r}
  <2>1. Twin!ChunkOf(control, r) = IF mine = {} THEN 0 ELSE p[CHOOSE i \in mine : TRUE].chunk
    BY DEF Twin!ChunkOf
  <2>2. p = prefillPlan
    OBVIOUS
  <2> HIDE DEF p
  <2>3. QED
    BY <2>1, <2>2
<1>7. Twin!InPlan(control, r) <=> \/ \E k \in 1 .. nd : decodePlan[k] = r
                                  \/ \E k \in 1 .. np : prefillPlan[k].req = r
  BY Zenon DEF Twin!InPlan
<1> HIDE DEF nd, np
<1>8. Twin!InPlan(control, r) <=> \E k \in 1 .. NumRows : RowReq(k) = r
  BY <1>3, <1>4, <1>5, <1>7
<1>9. IsPrefillComplete(r) => Twin!ChunkOf(control, r) = 0
  BY <1>2, <1>6
<1>10. (\A k \in 1 .. NumRows : RowReq(k) # r) => Twin!ChunkOf(control, r) = 0
  BY <1>3, <1>6
<1>11. ASSUME NEW k \in 1 .. NumRows, RowReq(k) = r, ~IsPrefillComplete(r)
       PROVE  Twin!ChunkOf(control, r) = RowChunk(k)
  <2>1. PICK i \in 1 .. np : k = nd + i
    BY <1>2, <1>4, <1>5, <1>11
  <2>2. prefillPlan[i].req = r /\ RowChunk(k) = prefillPlan[i].chunk
    BY <1>3, <1>11, <2>1
  <2>3. \A j \in 1 .. np : prefillPlan[j].req = r => j = i
    <3>1. SUFFICES ASSUME NEW j \in 1 .. np, prefillPlan[j].req = r, j # i
                   PROVE  FALSE
      OBVIOUS
    <3>2. r < r
      BY <1>1, <1>2, <2>2, <3>1
    <3>3. QED
      BY <3>2, ConfigAssumption DEF Reqs
  <2>4. own = {i}
    BY <2>2, <2>3
  <2>5. (CHOOSE j \in own : TRUE) = i
    BY <2>4
  <2>6. QED
    BY <1>6, <2>2, <2>4, <2>5
<1>12. Twin!Cursor(control, r) = CHOOSE k \in 1 .. NumRows : RowReq(k) = r
  <2> DEFINE d == control.decode
             p == control.prefill
  <2>1. Twin!Cursor(control, r) =
          CHOOSE k \in 1 .. (Len(d) + Len(p)) :
            IF k <= Len(d) THEN d[k] = r ELSE p[k - Len(d)].req = r
    BY DEF Twin!Cursor
  <2>2. d = decodePlan /\ p = prefillPlan
    OBVIOUS
  <2> HIDE DEF d, p
  <2>3. Twin!Cursor(control, r) =
          CHOOSE k \in 1 .. NumRows :
            IF k <= Len(decodePlan) THEN decodePlan[k] = r
                                    ELSE prefillPlan[k - Len(decodePlan)].req = r
    BY <2>1, <2>2 DEF NumRows
  <2>4. \A k : (IF k <= Len(decodePlan) THEN decodePlan[k] = r
                                       ELSE prefillPlan[k - Len(decodePlan)].req = r)
                <=> RowReq(k) = r
    BY DEF RowReq
  <2>5. QED
    BY <2>3, <2>4
<1>13. QED
  BY <1>8, <1>9, <1>10, <1>11, <1>12

\* Where the twin's cursor is at a request with a row, there is the token that
\* the request has got.
LEMMA CursorFinds ==
  ASSUME TypeInv, OrderInv, pc # "retire",
         control.decode = decodePlan, control.prefill = prefillPlan, NEW r \in Reqs,
         Twin!InPlan(control, r), outputs'[r] # <<>>
  PROVE  RowTokens(outputs')[Twin!Cursor(control, r)] = outputs'[r][Len(outputs'[r])]
<1> DEFINE k == Twin!Cursor(control, r)
<1>1. k \in 1 .. NumRows /\ RowReq(k) = r
  BY SameRows
<1> HIDE DEF k
<1>2. RowTokens(outputs')[k] = outputs'[r][Len(outputs'[r])]
  BY <1>1 DEF RowTokens
<1>3. QED
  BY <1>2 DEF k

\* update_requests advances a request as the twin advances its object.
LEMMA AdvancesObject ==
  ASSUME TypeInv, OrderInv, PromptInv, pc # "retire",
         control.decode = decodePlan, control.prefill = prefillPlan,
         NEW tokens \in Seq(Tokens), Len(tokens) = NumRows, UpdateRequests(tokens),
         UNCHANGED <<promptLen, maxOutput, blocks>>, NEW r \in Reqs
  PROVE  /\ Twin!Advanced(control, Object(r), RowTokens(outputs')) = NextObject(r)
         /\ computed'[r] <= promptLen'[r]
<1> DEFINE o     == Object(r)
           all   == RowTokens(outputs')
           token == all[Twin!Cursor(control, r)]
           chunk == Twin!ChunkOf(control, r)
           next  == computed[r] + chunk
<1>1. /\ promptLen[r] \in Nat /\ computed[r] \in Nat /\ computed[r] <= promptLen[r]
      /\ outputs[r] \in Seq(Tokens)
  BY Parts, ConfigAssumption DEF RequestTypes, PoolTypes, PromptInv
<1>2. /\ o.id = r
      /\ Twin!Advanced(control, o, all) =
           IF Twin!InPlan(control, r) /\ next = promptLen[r]
           THEN [id |-> r, prompt |-> promptLen[r], limit |-> maxOutput[r],
                 computed |-> next, output |-> Append(outputs[r], token), blocks |-> blocks[r]]
           ELSE [id |-> r, prompt |-> promptLen[r], limit |-> maxOutput[r],
                 computed |-> next, output |-> outputs[r], blocks |-> blocks[r]]
  <2> DEFINE reached == [o EXCEPT !.computed = o.computed + Twin!ChunkOf(control, o.id)]
  <2>1. /\ o.id = r /\ o.computed = computed[r]
    BY DEF Object
  <2> HIDE DEF chunk
  <2>2. reached = [id |-> r, prompt |-> promptLen[r], limit |-> maxOutput[r],
                   computed |-> next, output |-> outputs[r], blocks |-> blocks[r]]
    BY <2>1 DEF Object, chunk
  <2>3. Twin!Advanced(control, o, all) =
          IF Twin!InPlan(control, o.id) /\ Twin!IsDecoding(reached)
          THEN [reached EXCEPT !.output =
                  Append(reached.output, all[Twin!Cursor(control, o.id)])]
          ELSE reached
    BY Zenon DEF Twin!Advanced
  <2> HIDE DEF reached, o, all, next
  <2>4. /\ Twin!IsDecoding(reached) <=> next = promptLen[r]
        /\ [reached EXCEPT !.output = Append(reached.output, token)] =
             [id |-> r, prompt |-> promptLen[r], limit |-> maxOutput[r],
              computed |-> next, output |-> Append(outputs[r], token), blocks |-> blocks[r]]
    <3>1. /\ reached.computed = next /\ reached.prompt = promptLen[r]
          /\ reached.output = outputs[r]
      BY <2>2
    <3> DEFINE longer == Append(outputs[r], token)
    <3> HIDE DEF longer
    <3>2. [reached EXCEPT !.output = longer] =
            [id |-> r, prompt |-> promptLen[r], limit |-> maxOutput[r],
             computed |-> next, output |-> longer, blocks |-> blocks[r]]
      BY <2>2
    <3>3. Twin!IsDecoding(reached) <=> next = promptLen[r]
      BY <3>1 DEF Twin!IsDecoding
    <3>4. QED
      BY <3>1, <3>2, <3>3 DEF longer
  <2>5. QED
    BY <2>1, <2>2, <2>3, <2>4
<1>3. NextObject(r) = [id |-> r, prompt |-> promptLen[r], limit |-> maxOutput[r],
                       computed |-> computed'[r], output |-> outputs'[r], blocks |-> blocks[r]]
  BY DEF NextObject
<1> HIDE DEF o, chunk
<1>4. CASE /\ \A k \in 1 .. NumRows : RowReq(k) # r
           /\ computed'[r] = computed[r] /\ outputs'[r] = outputs[r]
  <2>1. ~Twin!InPlan(control, r) /\ chunk = 0
    BY <1>4, SameRows DEF chunk
  <2>2. next = computed'[r]
    BY <1>1, <1>4, <2>1
  <2> HIDE DEF next, token
  <2>3. QED
    BY <1>1, <1>2, <1>3, <1>4, <2>1, <2>2 DEF o, token
<1>5. CASE \E k \in 1 .. NumRows :
             /\ RowReq(k) = r
             /\ computed'[r] = computed[r] + RowChunk(k)
             /\ outputs'[r] = IF computed'[r] >= promptLen[r]
                              THEN Append(outputs[r], tokens[k]) ELSE outputs[r]
  <2>1. PICK k \in 1 .. NumRows :
          /\ RowReq(k) = r
          /\ computed'[r] = computed[r] + RowChunk(k)
          /\ outputs'[r] = IF computed'[r] >= promptLen[r]
                           THEN Append(outputs[r], tokens[k]) ELSE outputs[r]
    BY <1>5
  <2>2. Twin!InPlan(control, r)
    BY <2>1, SameRows
  <2>3. chunk = RowChunk(k) /\ RowChunk(k) \in Nat /\ computed[r] + RowChunk(k) <= promptLen[r]
    <3>1. \/ IsPrefillComplete(r) /\ RowChunk(k) = 0
          \/ ~IsPrefillComplete(r) /\ RowChunk(k) \in Nat /\ computed[r] + RowChunk(k) <= promptLen[r]
      BY <2>1, RowKind
    <3>2. QED
      BY <1>1, <2>1, <3>1, SameRows DEF chunk
  <2>4. next = computed'[r] /\ computed'[r] <= promptLen[r] /\ computed'[r] \in Nat
    BY <1>1, <2>1, <2>3
  <2> HIDE DEF next, token
  <2>5. CASE computed'[r] >= promptLen[r]
    <3>1. tokens[k] \in Tokens /\ outputs'[r] = Append(outputs[r], tokens[k])
      BY <2>1, <2>5
    <3>2. token = tokens[k]
      <4>1. outputs'[r] # <<>> /\ outputs'[r][Len(outputs'[r])] = tokens[k]
        BY <1>1, <3>1
      <4>2. QED
        BY <2>2, <4>1, CursorFinds DEF token, all
    <3>3. next = promptLen[r]
      BY <1>1, <2>4, <2>5
    <3>4. QED
      BY <1>2, <1>3, <2>2, <2>4, <3>1, <3>2, <3>3 DEF o, token
  <2>6. CASE ~(computed'[r] >= promptLen[r])
    <3>1. next # promptLen[r] /\ outputs'[r] = outputs[r]
      BY <1>1, <2>1, <2>4, <2>6
    <3>2. QED
      BY <1>2, <1>3, <2>4, <3>1 DEF o, token
  <2>7. QED
    BY <2>5, <2>6
<1>6. QED
  BY <1>4, <1>5, UpdateExact

\* The decode call of a separate mixed step hands over to the prefill call.
LEMMA HandsOverAgrees ==
  ASSUME TypeInv, AgreeInv, Returned, pc' # "retire", control' = control
  PROVE  AgreeInv'
<1>1. /\ pc = "decode" /\ pc' = "prefill" /\ maxContext' = maxContext
      /\ UNCHANGED <<nextId, promptLen, maxOutput, pending, running, computed, outputs>>
      /\ UNCHANGED <<blocks, free, completed, decodePlan, prefillPlan>>
  <2>1. HandsOver
    BY CallsReturn DEF Returned, EndsWell, FinishStep
  <2>2. maxContext' = maxContext
    BY DEF Returned, DecodeReturns, PrefillReturns, MixedReturns
  <2>3. QED
    BY <2>1, <2>2 DEF HandsOver, requestVars, poolVars, clientVars, planVars
<1>2. SameQueues /\ CallInv
  BY <1>1 DEF AgreeInv, CallInv, InCall
<1>3. SameQueues'
  BY <1>1, <1>2, StillObjects DEF SameQueues
<1>4. RecordInv' /\ PromptInv' /\ CallInv'
  BY <1>1, <1>2, <1>3 DEF AgreeInv, RecordInv, PromptInv, CallInv, InCall
<1>5. QED
  BY <1>1, <1>4 DEF AgreeInv, ScanInv, AdmitInv, RetireInv

\* What the twin's last loop leaves is a record of three lists.
LEMMA SettledIsRecord ==
  ASSUME NEW requests, Len(requests) \in Nat, NEW done, NEW pages
  PROVE  LET lists == Twin!Settled(requests, done, pages)[Len(requests)]
         IN  lists = [retained |-> lists.retained, completed |-> lists.completed,
                      free |-> lists.free]
<1> DEFINE n     == Len(requests)
           f     == Twin!Settled(requests, done, pages)
           lists == f[n]
<1>1. f[0] = Unsettled(done, pages)
      /\ \A i \in 1 .. n : f[i] = Twin!Settle(f[i - 1], requests[i])
  BY SettledUnfold
<1> HIDE DEF f
<1>2. CASE n = 0
  <2>1. lists = Unsettled(done, pages)
    BY <1>1, <1>2
  <2> HIDE DEF lists
  <2>2. lists = [retained |-> lists.retained, completed |-> lists.completed,
                 free |-> lists.free]
    BY <2>1 DEF Unsettled
  <2>3. QED
    BY <2>2 DEF lists, f, n
<1>3. CASE n # 0
  <2>1. n \in 1 .. n
    BY <1>3
  <2>2. lists = Twin!Settle(f[n - 1], requests[n])
    BY <1>1, <2>1
  <2>3. PICK kept, ended, back :
          lists = [retained |-> kept, completed |-> ended, free |-> back]
    BY <2>2 DEF Twin!Settle
  <2> HIDE DEF lists
  <2>4. lists = [retained |-> lists.retained, completed |-> lists.completed,
                 free |-> lists.free]
    BY <2>3
  <2>5. QED
    BY <2>4 DEF lists, f, n
<1>4. QED
  <2>1. n \in Nat
    OBVIOUS
  <2>2. QED
    BY <1>2, <1>3

\* The call has advanced the same requests; the twin has also sorted them into
\* the lists that the C++ loop has yet to make.
LEMMA FinishAgrees ==
  ASSUME TypeInv, OrderInv, AgreeInv, Returned, pc' = "retire",
         Twin!FinishStep(RowTokens(outputs'))
  PROVE  AgreeInv'
<1>1. PICK tokens \in Seq(Tokens) :
        /\ Len(tokens) = NumRows /\ UpdateRequests(tokens) /\ InCall
        /\ UNCHANGED <<nextId, promptLen, maxOutput, pending, running, blocks, free, completed>>
  <2>1. EndsWell
    BY CallsReturn DEF Returned, HandsOver
  <2>2. QED
    BY <2>1 DEF EndsWell, FinishStep, InCall, requestVars, clientVars
<1>2. pending \in Seq(Reqs) /\ running \in Seq(Reqs)
  BY Parts DEF PoolTypes
<1>3. /\ SameQueues /\ control.decode = decodePlan /\ control.prefill = prefillPlan
      /\ PromptInv /\ RecordInv /\ pc # "retire"
  BY <1>1 DEF AgreeInv, CallInv, InCall
<1>4. \A r \in Reqs : /\ Twin!Advanced(control, Object(r), RowTokens(outputs')) = NextObject(r)
                      /\ computed'[r] <= promptLen'[r]
  BY <1>1, <1>3, AdvancesObject
<1> DEFINE token == RowTokens(outputs')
           old   == control.running
           after == [i \in 1 .. Len(old) |-> Twin!Advanced(control, old[i], token)]
           lists == Twin!Settled(after, control.completed, control.free)[Len(after)]
<1>5. after = NextObjects(running) /\ Len(after) = Len(running)
  <2>1. /\ Len(old) = Len(running)
        /\ \A i \in 1 .. Len(running) : old[i] = Object(running[i]) /\ running[i] \in Reqs
    <3>1. /\ Len(Objects(running)) = Len(running)
          /\ \A i \in 1 .. Len(running) : Objects(running)[i] = Object(running[i])
      BY <1>2, ObjectsFacts
    <3>2. old = Objects(running)
      BY <1>3 DEF SameQueues
    <3> HIDE DEF old
    <3>3. QED
      BY <1>2, <3>1, <3>2
  <2> HIDE DEF old, token
  <2>2. \A i \in 1 .. Len(running) :
          Twin!Advanced(control, old[i], token) = NextObject(running[i])
    BY <1>4, <2>1 DEF token
  <2>3. after = [i \in 1 .. Len(running) |-> NextObject(running[i])]
    BY <2>1, <2>2
  <2>4. Len(running) \in Nat
    BY <1>2
  <2> HIDE DEF after
  <2>5. QED
    BY <2>3, <2>4 DEF NextObjects
<1>6. control' = [control EXCEPT !.running = lists.retained, !.completed = lists.completed,
                                 !.free = lists.free, !.decode = <<>>, !.prefill = <<>>]
  BY Zenon DEF Twin!FinishStep
<1> HIDE DEF after, token, old
<1>7. lists = [retained |-> lists.retained, completed |-> lists.completed,
               free |-> lists.free]
  <2>1. Len(after) \in Nat
    BY <1>2, <1>5
  <2>2. QED
    BY <2>1, SettledIsRecord
<1>8. ListsToCome' = lists
  <2>1. ListsToCome' = Twin!Settled(Objects(running)', completed', free')[Len(running')]
    BY DEF ListsToCome, Twin!Settled, Twin!Settle, Twin!IsDone
  <2>2. Objects(running)' = after
    BY <1>1, <1>5, ObjectsNext
  <2>3. completed' = control.completed /\ free' = control.free
    BY <1>1, <1>3 DEF SameQueues
  <2>4. QED
    BY <1>1, <1>5, <2>1, <2>2, <2>3
<1> HIDE DEF lists
<1>9. Objects(pending)' = Objects(pending)
  <2>1. ASSUME NEW j \in 1 .. Len(pending)
        PROVE  NextObject(pending[j]) = Object(pending[j])
    <3> DEFINE r == pending[j]
    <3>1. r \in Reqs /\ ~InRunning(r)
      <4>1. r \in Reqs
        BY <1>2
      <4>2. \A i \in 1 .. Len(running) : running[i] < r
        BY Parts, Zenon DEF QueueInv
      <4>3. ~(r < r)
        BY <4>1, ConfigAssumption DEF Reqs
      <4> HIDE DEF r
      <4>4. ~InRunning(r)
        BY <4>2, <4>3 DEF InRunning
      <4>5. QED
        BY <4>1, <4>4
    <3> HIDE DEF r
    <3>2. \A k \in 1 .. NumRows : RowReq(k) # r
      BY <1>3, <3>1, RowFacts
    <3>3. computed'[r] = computed[r] /\ outputs'[r] = outputs[r]
      BY <1>1, <3>1, <3>2, UpdateExact
    <3>4. NextObject(r) = Object(r)
      BY <1>1, <3>3 DEF NextObject, Object
    <3>5. QED
      BY <3>4 DEF r
  <2>2. QED
    BY <1>1, <1>2, <2>1, ObjectsNext, SameObjects
<1>10. /\ RecordInv' /\ control'.waiting = control.waiting
       /\ control'.running = lists.retained /\ control'.completed = lists.completed
       /\ control'.free = lists.free
  <2> DEFINE lr == lists.retained
             lc == lists.completed
             lf == lists.free
             cw == control.waiting
             cr == control.running
             cc == control.completed
             cf == control.free
             cm == control.maxContext
             cd == control.decode
             cp == control.prefill
  <2>1. control = [waiting |-> cw, running |-> cr, completed |-> cc, nextId |-> nextId,
                   free |-> cf, maxContext |-> cm, decode |-> cd, prefill |-> cp]
    BY <1>3 DEF RecordInv
  <2>2. control' = [control EXCEPT !.running = lr, !.completed = lc, !.free = lf,
                                   !.decode = <<>>, !.prefill = <<>>]
    BY <1>6
  <2> HIDE DEF lr, lc, lf, cw, cr, cc, cf, cm, cd, cp
  <2>3. control' = [waiting |-> cw, running |-> lr, completed |-> lc, nextId |-> nextId,
                    free |-> lf, maxContext |-> cm, decode |-> <<>>, prefill |-> <<>>]
    BY <2>1, <2>2
  <2>4. QED
    BY <1>1, <2>3 DEF RecordInv, lr, lc, lf, cw
<1>11. RetireInv'
  BY <1>3, <1>7, <1>8, <1>9, <1>10 DEF RetireInv, SameQueues
<1>12. PromptInv'
  BY <1>4 DEF PromptInv
<1>13. QED
  BY <1>10, <1>11, <1>12 DEF AgreeInv, ScanInv, AdmitInv, CallInv, InCall

\* A request is done for the twin when it is completed for the C++ loop.
LEMMA DoneIsCompleted ==
  ASSUME TypeInv, ServiceInv, NEW r \in Reqs, InRunning(r)
  PROVE  Twin!IsDone(Object(r)) <=> status[r] = "COMPLETED"
<1>1. r < nextId
  BY Parts DEF QueueInv, InRunning
<1>2. Twin!IsDone(Object(r)) <=> outputs[r] # <<>> /\ Stops(r, outputs[r])
  BY DEF Twin!IsDone, Object, Stops
<1>3. QED
  BY <1>1, <1>2 DEF ServiceInv, EndsInv

\* While no request is done, all are retained and nothing else changes.
LEMMA NoneDone ==
  ASSUME NEW S, NEW s \in Seq(S), NEW done, NEW pages, NEW m \in 0 .. Len(s),
         \A j \in 1 .. m : ~Twin!IsDone(s[j])
  PROVE  Twin!Settled(s, done, pages)[m] =
           [retained |-> SubSeq(s, 1, m), completed |-> done, free |-> pages]
<1> DEFINE f == Twin!Settled(s, done, pages)
           All(i) == [retained |-> SubSeq(s, 1, i), completed |-> done, free |-> pages]
           P == {i \in Nat : f[i] = All(i)}
<1>1. Len(s) \in Nat /\ m \in Nat
  OBVIOUS
<1>2. /\ f[0] = Unsettled(done, pages)
      /\ \A i \in 1 .. Len(s) : f[i] = Twin!Settle(f[i - 1], s[i])
  BY <1>1, SettledUnfold
<1> HIDE DEF f
<1>3. 0 \in P
  <2>1. SubSeq(s, 1, 0) = <<>>
    OBVIOUS
  <2>2. QED
    BY <1>2, <2>1 DEF Unsettled
<1>4. ASSUME NEW i \in 1 .. m, i - 1 \in P
      PROVE  i \in P
  <2>1. i \in 1 .. Len(s) /\ i - 1 \in Nat
    BY <1>1
  <2>2. f[i] = Twin!Settle(All(i - 1), s[i])
    BY <1>2, <1>4, <2>1
  <2>3. Append(SubSeq(s, 1, i - 1), s[i]) = SubSeq(s, 1, i)
    BY <2>1
  <2>7. ~Twin!IsDone(s[i])
    OBVIOUS
  <2>4. Twin!Settle(All(i - 1), s[i]) = [retained |-> Append(SubSeq(s, 1, i - 1), s[i]),
                                         completed |-> done, free |-> pages]
    <3> DEFINE before == SubSeq(s, 1, i - 1)
               x      == s[i]
    <3>1. ~Twin!IsDone(x)
      BY <2>7
    <3> HIDE DEF before, x
    <3>2. Twin!Settle([retained |-> before, completed |-> done, free |-> pages], x)
            = [retained |-> Append(before, x), completed |-> done, free |-> pages]
      BY <3>1 DEF Twin!Settle
    <3>3. QED
      BY <3>2 DEF before, x
  <2>5. f[i] = All(i)
    BY <2>2, <2>3, <2>4
  <2>6. QED
    BY <2>1, <2>5
<1>5. m \in P
  <2> HIDE DEF P
  <2>1. \A i \in (0 + 1) .. m : i - 1 \in P => i \in P
    BY <1>1, <1>4
  <2>2. 0 .. m \subseteq P
    BY <1>1, <1>3, <2>1, FromTo
  <2>3. QED
    BY <1>1, <2>2
<1>6. QED
  BY <1>5 DEF f

\* t is s without its i-th object, the first one that is done.
FirstLeaves(s, t, i) ==
  /\ Len(t) = Len(s) - 1
  /\ \A j \in 1 .. Len(t) : t[j] = IF j < i THEN s[j] ELSE s[j + 1]
  /\ \A j \in 1 .. (i - 1) : ~Twin!IsDone(s[j])
  /\ Twin!IsDone(s[i])

\* The first request that is done can leave ahead of the loop: what the loop
\* makes of the others from there is what it would have made of all.
LEMMA DoneLeaves ==
  ASSUME NEW S, NEW s \in Seq(S), NEW t \in Seq(S), NEW done, NEW pages,
         NEW i \in 1 .. Len(s), FirstLeaves(s, t, i)
  PROVE  Twin!Settled(t, Append(done, [id |-> s[i].id, out |-> s[i].output]),
                      pages \o s[i].blocks)[Len(t)]
           = Twin!Settled(s, done, pages)[Len(s)]
<1> DEFINE n     == Len(s)
           ended == Append(done, [id |-> s[i].id, out |-> s[i].output])
           back  == pages \o s[i].blocks
           f     == Twin!Settled(s, done, pages)
           g     == Twin!Settled(t, ended, back)
           P     == {j \in Nat : g[j - 1] = f[j]}
<1>1. /\ n \in Nat /\ i \in 1 .. n /\ Len(t) = n - 1 /\ Len(t) \in Nat
      /\ i - 1 \in 0 .. Len(t) /\ i - 1 \in 0 .. n /\ i \in Nat /\ i <= n
  BY DEF FirstLeaves
<1>a. /\ \A j \in 1 .. Len(t) : t[j] = IF j < i THEN s[j] ELSE s[j + 1]
      /\ \A j \in 1 .. (i - 1) : ~Twin!IsDone(s[j])
  BY DEF FirstLeaves
<1>2. /\ \A j \in 1 .. n : f[j] = Twin!Settle(f[j - 1], s[j])
      /\ \A j \in 1 .. (n - 1) : g[j] = Twin!Settle(g[j - 1], t[j])
  <2> HIDE DEF ended, back, P
  <2>1. \A j \in 1 .. Len(s) : f[j] = Twin!Settle(f[j - 1], s[j])
    <3>1. Len(s) \in Nat
      BY <1>1
    <3>2. QED
      BY <3>1, SettledUnfold
  <2>2. \A j \in 1 .. Len(t) : g[j] = Twin!Settle(g[j - 1], t[j])
    BY <1>1, SettledUnfold
  <2>3. QED
    BY <1>1, <2>1, <2>2
<1>3. f[i - 1] = [retained |-> SubSeq(s, 1, i - 1), completed |-> done, free |-> pages]
  <2> DEFINE m == i - 1
  <2>1. m \in 0 .. Len(s) /\ \A j \in 1 .. m : ~Twin!IsDone(s[j])
    BY <1>1, <1>a
  <2> HIDE DEF m
  <2>2. f[m] = [retained |-> SubSeq(s, 1, m), completed |-> done, free |-> pages]
    BY <2>1, NoneDone
  <2>3. QED
    BY <2>2 DEF m
<1>4. \A j \in 1 .. (i - 1) : t[j] = s[j]
  BY <1>1, <1>a
<1>5. g[i - 1] = [retained |-> SubSeq(t, 1, i - 1), completed |-> ended, free |-> back]
  <2>1. \A j \in 1 .. (i - 1) : ~Twin!IsDone(t[j])
    BY <1>4, <1>a
  <2> HIDE DEF ended, back
  <2>2. QED
    BY <1>1, <2>1, NoneDone
<1>6. SubSeq(t, 1, i - 1) = SubSeq(s, 1, i - 1)
  BY <1>1, <1>4
<1> HIDE DEF f, g
<1>7. i \in P
  <2>1. f[i] = Twin!Settle(f[i - 1], s[i])
    BY <1>1, <1>2
  <2> DEFINE before == SubSeq(s, 1, i - 1)
             x      == s[i]
  <2>2. Twin!IsDone(x)
    BY DEF FirstLeaves
  <2> HIDE DEF before, x
  <2>3. Twin!Settle([retained |-> before, completed |-> done, free |-> pages], x)
          = [retained |-> before, completed |-> Append(done, [id |-> x.id, out |-> x.output]),
             free |-> pages \o x.blocks]
    BY <2>2 DEF Twin!Settle
  <2>4. f[i] = g[i - 1]
    BY <1>3, <1>5, <1>6, <2>1, <2>3 DEF before, x
  <2>5. QED
    BY <1>1, <2>4
<1> HIDE DEF n
<1>8. ASSUME NEW j \in (i + 1) .. n, j - 1 \in P
      PROVE  j \in P
  <2>1. /\ j \in 1 .. n /\ j - 1 \in 1 .. (n - 1) /\ ~(j - 1 < i) /\ (j - 1) + 1 = j
        /\ j - 1 \in Nat /\ j \in Nat
    BY <1>1
  <2>2. t[j - 1] = s[j]
    BY <1>1, <1>a, <2>1
  <2>3. f[j] = Twin!Settle(f[j - 1], s[j])
    BY <1>2, <2>1
  <2>4. g[j - 1] = Twin!Settle(g[(j - 1) - 1], t[j - 1])
    BY <1>2, <2>1
  <2>5. g[(j - 1) - 1] = f[j - 1]
    BY <1>8
  <2>6. QED
    BY <2>1, <2>2, <2>3, <2>4, <2>5
<1>9. n \in P
  <2>1. \A j \in (i + 1) .. n : j - 1 \in P => j \in P
    BY <1>8
  <2> HIDE DEF P
  <2>2. i .. n \subseteq P
    BY <1>1, <1>7, <2>1, FromTo
  <2>3. QED
    BY <1>1, <2>2
<1>10. g[Len(t)] = f[Len(s)]
  BY <1>1, <1>9 DEF n
<1>11. QED
  BY <1>10 DEF f, g

\* What comes behind the element that is taken out moves up by one.
LEMMA WithoutAt ==
  ASSUME NEW s \in Seq(Reqs), NEW i \in 1 .. Len(s)
  PROVE  LET t == Without(s, i)
         IN  /\ Len(t) = Len(s) - 1
             /\ \A j \in 1 .. Len(t) : t[j] = IF j < i THEN s[j] ELSE s[j + 1]
<1> DEFINE front == SubSeq(s, 1, i - 1)
           back  == SubSeq(s, i + 1, Len(s))
           t     == front \o back
<1>1. /\ front \in Seq(Reqs) /\ Len(front) = i - 1
      /\ \A j \in 1 .. (i - 1) : front[j] = s[j]
  OBVIOUS
<1>2. /\ back \in Seq(Reqs) /\ Len(back) = Len(s) - i
      /\ \A j \in 1 .. (Len(s) - i) : back[j] = s[i + j]
  OBVIOUS
<1> HIDE DEF front, back
<1>3. /\ Len(t) = Len(s) - 1
      /\ \A j \in 1 .. Len(t) : t[j] = IF j < i THEN front[j] ELSE back[j - (i - 1)]
  <2>1. Len(t) = Len(s) - 1
    <3>1. Len(t) = Len(front) + Len(back)
      <4>1. front \in Seq(Reqs) /\ back \in Seq(Reqs)
        BY <1>1, <1>2
      <4>2. QED
        BY <4>1
    <3>2. (i - 1) + (Len(s) - i) = Len(s) - 1
      OBVIOUS
    <3>3. QED
      BY <1>1, <1>2, <3>1, <3>2
  <2>2. ASSUME NEW j \in 1 .. Len(t)
        PROVE  t[j] = IF j < i THEN front[j] ELSE back[j - (i - 1)]
    <3>1. CASE j < i
      <4>1. j \in 1 .. Len(front)
        BY <1>1, <2>1, <3>1
      <4>2. QED
        BY <1>1, <1>2, <3>1, <4>1
    <3>2. CASE ~(j < i)
      <4>1. j - (i - 1) \in 1 .. Len(back)
        BY <1>1, <1>2, <2>1, <3>2
      <4>2. QED
        BY <1>1, <1>2, <3>2, <4>1
    <3>3. QED
      BY <3>1, <3>2
  <2>3. QED
    BY <2>1, <2>2
<1> HIDE DEF t
<1>4. \A j \in 1 .. Len(t) : ~(j < i) => /\ j - (i - 1) \in 1 .. (Len(s) - i)
                                         /\ i + (j - (i - 1)) = j + 1
  BY <1>3
<1>5. \A j \in 1 .. Len(t) : t[j] = IF j < i THEN s[j] ELSE s[j + 1]
  BY <1>1, <1>2, <1>3, <1>4
<1>6. QED
  BY <1>3, <1>5 DEF t, front, back, Without

\* The C++ loop retires a request; the lists it is heading for stay.
LEMMA RetireAgrees ==
  ASSUME TypeInv, ServiceInv, AgreeInv, RetireRequest, control' = control
  PROVE  AgreeInv'
<1>1. PICK i \in 1 .. Len(running) :
        /\ IsRetired(i) /\ \A j \in 1 .. (i - 1) : ~IsRetired(j)
        /\ completed' = Append(completed, [id |-> running[i], out |-> outputs[running[i]]])
        /\ outputs' = [outputs EXCEPT ![running[i]] = <<>>]
        /\ free' = free \o blocks[running[i]]
        /\ blocks' = [blocks EXCEPT ![running[i]] = <<>>]
        /\ running' = Without(running, i)
        /\ pc = "retire" /\ pc' = "retire"
        /\ UNCHANGED <<nextId, promptLen, maxOutput, pending, computed>>
  BY DEF RetireRequest, Freed, requestVars
<1> DEFINE r == running[i]
           t == Without(running, i)
           O == {Object(q) : q \in Reqs}
           x == Objects(running)
           y == Objects(t)
<1>2. /\ pending \in Seq(Reqs) /\ running \in Seq(Reqs) /\ r \in Reqs
      /\ outputs \in [Reqs -> Seq(Tokens)] /\ blocks \in [Reqs -> Seq(Blocks)]
      /\ Sorted(running)
  BY Parts DEF PoolTypes, QueueInv
<1>3. /\ t \in Seq(Reqs) /\ Len(t) = Len(running) - 1
      /\ \A j \in 1 .. Len(t) : t[j] = IF j < i THEN running[j] ELSE running[j + 1]
      /\ \A j \in 1 .. Len(t) : t[j] # r
  <2>1. t \in Seq(Reqs)
    BY <1>2, WithoutFacts
  <2>2. \A j \in 1 .. Len(t) : t[j] # r
    <3>1. \A q : (\E j \in 1 .. Len(t) : t[j] = q)
                 <=> (\E k \in 1 .. Len(running) : running[k] = q) /\ q # r
      BY <1>2, WithoutMembers
    <3> HIDE DEF t, r
    <3>2. QED
      BY <3>1
  <2>3. /\ Len(t) = Len(running) - 1
        /\ \A j \in 1 .. Len(t) : t[j] = IF j < i THEN running[j] ELSE running[j + 1]
    BY <1>2, WithoutAt
  <2>4. QED
    BY <2>1, <2>2, <2>3
<1> HIDE DEF t
<1>4. \A q \in Reqs : q # r => NextObject(q) = Object(q)
  BY <1>1, <1>2 DEF Object, NextObject
<1>5. Objects(running)' = y
  <2>1. \A j \in 1 .. Len(t) : t[j] \in Reqs
    BY <1>3
  <2> HIDE DEF r
  <2>2. \A j \in 1 .. Len(t) : NextObject(t[j]) = Object(t[j])
    BY <1>3, <1>4, <2>1
  <2>3. NextObjects(t) = y
    BY <1>3, <2>2, SameObjects
  <2>4. running' = t
    BY <1>1 DEF t
  <2>5. QED
    BY <2>3, <2>4, ObjectsNext
<1>6. Objects(pending)' = Objects(pending)
  <2>1. \A j \in 1 .. Len(pending) : pending[j] \in Reqs /\ pending[j] # r
    <3>1. \A j \in 1 .. Len(pending) : r < pending[j]
      BY Parts, Zenon DEF QueueInv
    <3>2. \A q \in Reqs : r < q => q # r
      BY <1>2, ConfigAssumption DEF Reqs
    <3>3. QED
      BY <1>2, <3>1, <3>2
  <2>2. QED
    BY <1>1, <1>2, <1>4, <2>1, ObjectsNext, SameObjects
<1>7. /\ x \in Seq(O) /\ Len(x) = Len(running)
      /\ \A j \in 1 .. Len(running) : x[j] = Object(running[j])
  BY <1>2, ObjectsFacts
<1>8. /\ y \in Seq(O) /\ Len(y) = Len(t)
      /\ \A j \in 1 .. Len(t) : y[j] = Object(t[j])
  BY <1>3, ObjectsFacts
<1>9. \A j \in 1 .. Len(running) : Twin!IsDone(Object(running[j])) <=> IsRetired(j)
  <2>1. \A j \in 1 .. Len(running) : running[j] \in Reqs /\ InRunning(running[j])
    BY <1>2 DEF InRunning
  <2>2. QED
    BY <2>1, DoneIsCompleted DEF IsRetired
<1>10. Object(r).id = r /\ Object(r).output = outputs[r] /\ Object(r).blocks = blocks[r]
  BY DEF Object
<1> HIDE DEF O, x, y, r
<1>11. /\ Len(running) \in Nat /\ i \in 1 .. Len(x) /\ x[i] = Object(r)
       /\ FirstLeaves(x, y, i)
  <2>1. Len(running) \in Nat
    BY <1>2
  <2>2. \A j \in 1 .. Len(t) : j \in 1 .. Len(running) /\ j + 1 \in 1 .. Len(running)
    BY <1>3, <2>1
  <2>3. \A j \in 1 .. Len(y) : y[j] = IF j < i THEN x[j] ELSE x[j + 1]
    BY <1>3, <1>7, <1>8, <2>2
  <2>4. \A j \in 1 .. (i - 1) : j \in 1 .. Len(running)
    BY <2>1
  <2>5. \A j \in 1 .. (i - 1) : ~Twin!IsDone(x[j])
    BY <1>1, <1>7, <1>9, <2>4
  <2>6. x[i] = Object(r) /\ Twin!IsDone(x[i])
    BY <1>1, <1>7, <1>9 DEF r
  <2>7. QED
    BY <1>3, <1>7, <1>8, <2>1, <2>3, <2>5, <2>6 DEF FirstLeaves
<1>12. Twin!Settled(y, completed', free')[Len(y)] = ListsToCome
  <2>1. Twin!Settled(y, Append(completed, [id |-> x[i].id, out |-> x[i].output]),
                     free \o x[i].blocks)[Len(y)]
          = Twin!Settled(x, completed, free)[Len(x)]
    BY <1>7, <1>8, <1>11, DoneLeaves
  <2>2. /\ completed' = Append(completed, [id |-> x[i].id, out |-> x[i].output])
        /\ free' = free \o x[i].blocks
    BY <1>1, <1>10, <1>11 DEF r
  <2>3. QED
    BY <1>7, <2>1, <2>2 DEF ListsToCome, x
<1>13. ListsToCome' = ListsToCome
  <2>1. ListsToCome' = Twin!Settled(Objects(running)', completed', free')[Len(running')]
    BY DEF ListsToCome, Twin!Settled, Twin!Settle, Twin!IsDone
  <2>2. QED
    BY <1>1, <1>5, <1>8, <1>12, <2>1 DEF t
<1>14. RetireInv'
  BY <1>1, <1>6, <1>13 DEF AgreeInv, RetireInv
<1>15. RecordInv' /\ PromptInv'
  BY <1>1 DEF AgreeInv, RecordInv, PromptInv
<1>16. QED
  BY <1>1, <1>14, <1>15 DEF AgreeInv, ScanInv, AdmitInv, CallInv, InCall

\* With nothing left to retire, the lists that the C++ loop was heading for are
\* the ones it has.
LEMMA EndAgrees ==
  ASSUME TypeInv, ServiceInv, AgreeInv, EndStep, control' = control
  PROVE  AgreeInv'
<1> DEFINE O == {Object(q) : q \in Reqs}
           x == Objects(running)
           n == Len(running)
<1>1. /\ pc = "retire" /\ pc' = "idle" /\ \A j \in 1 .. n : ~IsRetired(j)
      /\ UNCHANGED <<nextId, promptLen, maxOutput, pending, running, computed, outputs>>
      /\ UNCHANGED <<blocks, free, completed>>
  BY DEF EndStep, requestVars, poolVars, clientVars
<1>2. running \in Seq(Reqs) /\ n \in Nat
  BY Parts DEF PoolTypes
<1>3. /\ x \in Seq(O) /\ Len(x) = n /\ \A j \in 1 .. n : x[j] = Object(running[j])
  BY <1>2, ObjectsFacts
<1>4. \A j \in 1 .. n : ~Twin!IsDone(x[j])
  <2>1. \A j \in 1 .. n : running[j] \in Reqs /\ InRunning(running[j])
    BY <1>2 DEF InRunning
  <2>2. QED
    BY <1>1, <1>3, <2>1, DoneIsCompleted DEF IsRetired
<1> HIDE DEF O, x, n
<1>5. ListsToCome = [retained |-> SubSeq(x, 1, n), completed |-> completed, free |-> free]
  <2>1. n \in 0 .. Len(x)
    BY <1>2, <1>3
  <2>2. QED
    BY <1>3, <1>4, <2>1, NoneDone DEF ListsToCome, x, n
<1>6. SubSeq(x, 1, n) = x
  BY <1>2, <1>3
<1>7. SameQueues
  <2>1. /\ control.waiting = Objects(pending)
        /\ ListsToCome = [retained |-> control.running, completed |-> control.completed,
                          free |-> control.free]
    BY <1>1 DEF AgreeInv, RetireInv
  <2>2. control.running = x /\ control.completed = completed /\ control.free = free
    <3>1. /\ ListsToCome.retained = SubSeq(x, 1, n) /\ ListsToCome.completed = completed
          /\ ListsToCome.free = free
      BY <1>5
    <3>2. /\ ListsToCome.retained = control.running
          /\ ListsToCome.completed = control.completed
          /\ ListsToCome.free = control.free
      BY <2>1
    <3>3. QED
      BY <1>6, <3>1, <3>2
  <2>3. QED
    BY <2>1, <2>2 DEF SameQueues, x
<1>8. SameQueues'
  BY <1>1, <1>7, StillObjects DEF SameQueues
<1>9. RecordInv' /\ PromptInv'
  BY <1>1 DEF AgreeInv, RecordInv, PromptInv
<1>10. QED
  BY <1>1, <1>8, <1>9 DEF AgreeInv, ScanInv, AdmitInv, CallInv, InCall, RetireInv

-----------------------------------------------------------------------------
(* The theorem *)

\* Both begin with the same free list and no requests.
LEMMA InitAgrees == AgreementInit => AgreeInv
<1> SUFFICES ASSUME AgreementInit
             PROVE  AgreeInv
  OBVIOUS
<1>1. /\ nextId = 0 /\ pending = <<>> /\ running = <<>> /\ completed = <<>> /\ pc = "idle"
      /\ free = [i \in 1 .. TotalBlocks |-> i - 1]
      /\ promptLen = [r \in Reqs |-> 0] /\ computed = [r \in Reqs |-> 0]
  BY DEF AgreementInit, Init
<1>2. control = [waiting |-> <<>>, running |-> <<>>, completed |-> <<>>, nextId |-> 0,
                 free |-> free, maxContext |-> 0, decode |-> <<>>, prefill |-> <<>>]
  <2>1. MaxBatchSize * Twin!MaxBlocks = TotalBlocks
    BY DEF Twin!MaxBlocks, TotalBlocks, MaxBlocks, CeilDiv
  <2>2. QED
    BY <1>1, <2>1 DEF AgreementInit, Twin!Init
<1>3. Objects(<<>>) = <<>>
  BY DEF Objects
<1>4. SameQueues
  BY <1>1, <1>2, <1>3 DEF SameQueues
<1>5. RecordInv
  BY <1>1, <1>2 DEF RecordInv
<1>6. PromptInv
  BY <1>1 DEF PromptInv
<1>7. QED
  BY <1>1, <1>4, <1>5, <1>6 DEF AgreeInv, ScanInv, AdmitInv, CallInv, InCall, RetireInv

\* Neither moves: a stutter, or a shape that both refuse.
LEMMA StillAgrees ==
  ASSUME AgreeInv, UNCHANGED vars, control' = control
  PROVE  AgreeInv'
<1>1. /\ UNCHANGED <<nextId, promptLen, maxOutput, pending, running, computed, outputs>>
      /\ UNCHANGED <<blocks, free, completed, pc, scan, budget, decodePlan, prefillPlan>>
      /\ UNCHANGED maxContext
  BY DEF vars, requestVars, poolVars, clientVars, planVars, deviceVars
<1>2. /\ Objects(pending)' = Objects(pending) /\ Objects(running)' = Objects(running)
      /\ Objects(decodePlan)' = Objects(decodePlan)
  BY <1>1, StillObjects
<1>3. SameQueues' = SameQueues
  BY <1>1, <1>2 DEF SameQueues
<1>4. PlanSoFar' = PlanSoFar /\ QueuesSoFar' = QueuesSoFar
  BY <1>1, <1>2 DEF PlanSoFar, QueuesSoFar
<1>5. ListsToCome' = ListsToCome
  <2>1. ListsToCome' = Twin!Settled(Objects(running)', completed', free')[Len(running')]
    BY DEF ListsToCome, Twin!Settled, Twin!Settle, Twin!IsDone
  <2>2. QED
    BY <1>1, <1>2, <2>1 DEF ListsToCome
<1>6. /\ Twin!PlanOf(control)' = Twin!PlanOf(control)
      /\ Twin!Turns(control.running)' = Twin!Turns(control.running)
      /\ Twin!Admissions(Twin!Start(control))' = Twin!Admissions(Twin!Start(control))
  BY DEF Twin!PlanOf, Twin!Start, Twin!Admissions, Twin!Turns, Twin!Admit, Twin!Turn
<1>7. RecordInv' /\ PromptInv' /\ ScanInv'
  BY <1>1, <1>3, <1>4, <1>6 DEF AgreeInv, RecordInv, PromptInv, ScanInv
<1>8. AdmitInv'
  BY <1>1, <1>2, <1>3, <1>4, <1>6 DEF AgreeInv, AdmitInv
<1>9. CallInv' /\ RetireInv'
  BY <1>1, <1>2, <1>3, <1>5 DEF AgreeInv, CallInv, InCall, RetireInv
<1>10. QED
  BY <1>1, <1>3, <1>7, <1>8, <1>9 DEF AgreeInv

\* A step of the two is a step of the C++ loop, or leaves it alone.
LEMMA LoopSteps == AgreementNext => [Next]_vars
BY DEF AgreementNext, Next, Client, Launch, Planned, Returned, Failure, Refused

\* Every step of the two preserves the invariant.
LEMMA NextAgrees ==
  TypeInv /\ PagesInv /\ OrderInv /\ ServiceInv /\ AgreeInv
    /\ [AgreementNext]_<<vars, control>> => AgreeInv'
<1> SUFFICES ASSUME TypeInv, PagesInv, OrderInv, ServiceInv, AgreeInv,
                    [AgreementNext]_<<vars, control>>
             PROVE  AgreeInv'
  OBVIOUS
<1>1. ASSUME NEW shape \in Shapes, SubmitRequest(shape), Twin!SubmitRequest(shape)
      PROVE  AgreeInv'
  BY <1>1, SubmitAgrees
<1>2. ASSUME NEW shape \in Shapes, Refused(shape), Twin!SubmitRequest(shape)
      PROVE  AgreeInv'
  <2>1. UNCHANGED vars /\ ~Twin!Accepts(shape)
    BY <1>2, SameShapes DEF Refused
  <2>2. control' = control
    BY <1>2, <2>1 DEF Twin!SubmitRequest
  <2>3. QED
    BY <2>1, <2>2, StillAgrees
<1>3. CASE PopCompleted /\ Twin!PopCompleted
  BY <1>3, PopAgrees
<1>4. CASE Planned /\ Twin!BeginStep
  BY <1>4, PlannedAgrees
<1>5. CASE ReturnEmpty /\ Twin!BeginStep
  BY <1>5, EmptyAgrees
<1>6. CASE Returned /\ pc' = "retire" /\ Twin!FinishStep(RowTokens(outputs'))
  BY <1>6, FinishAgrees
<1>7. CASE Returned /\ pc' # "retire" /\ UNCHANGED control
  BY <1>7, HandsOverAgrees
<1>8. CASE CallbackFails /\ Twin!ForwardRaises
  BY <1>8, FailureAgrees
<1>9. CASE Schedule /\ UNCHANGED control
  BY <1>9, BeginAgrees, ScanAgrees, ScanDoneAgrees, AdmitAgrees DEF Schedule
<1>10. CASE Compact /\ UNCHANGED control
  BY <1>10, RetireAgrees, EndAgrees DEF Compact
<1>11. CASE AdvanceThrows /\ UNCHANGED control
  BY <1>11, ThrowAgrees
<1>12. CASE UNCHANGED <<vars, control>>
  BY <1>12, StillAgrees
<1>13. QED
  BY <1>1, <1>2, <1>3, <1>4, <1>5, <1>6, <1>7, <1>8, <1>9, <1>10, <1>11, <1>12
     DEF AgreementNext

\* The C++ loop behaves beside its twin as it does alone.
LEMMA AgreementImplementsLoop == AgreementSpec => Spec
<1>1. AgreementInit => Init
  BY DEF AgreementInit
<1>2. [AgreementNext]_<<vars, control>> => [Next]_vars
  BY LoopSteps
<1>3. QED
  BY <1>1, <1>2, PTL DEF AgreementSpec, Spec

\* The Python control loop schedules as the C++ loop does: for every
\* configuration, and whatever is submitted, refused, batched, packed, replayed
\* or fails, both hold the same requests in the same order, page for page, and
\* make their model calls for the same rows, chunks and longest context.
THEOREM TwinAlwaysAgrees == AgreementSpec => []ControlsAgree
<1> DEFINE Inv == TypeInv /\ PagesInv /\ DeliveryInv /\ OrderInv /\ ServiceInv /\ AgreeInv
<1>1. AgreementInit => Inv
  BY InitTypeInv, InitPages, InitDelivery, InitOrder, InitService, InitAgrees
     DEF AgreementInit
<1>2. Inv /\ [AgreementNext]_<<vars, control>> => Inv'
  <2>1. [AgreementNext]_<<vars, control>> => [Next]_vars
    BY LoopSteps
  <2>2. QED
    BY <2>1, NextTypeInv, NextPages, NextDelivery, NextOrder, NextService, NextAgrees
<1>3. Inv => ControlsAgree
  BY DEF AgreeInv, ControlsAgree, ClientMayRun, CallInv, InCall
<1> HIDE DEF Inv
<1>4. QED
  BY <1>1, <1>2, <1>3, PTL DEF AgreementSpec
=============================================================================
