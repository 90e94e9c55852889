---------------------- MODULE PagedSchedulerAnswerProofs ----------------------
(***************************************************************************)
(* Proofs about what the Python scheduler computes: where a sequence is in *)
(* its pages, what the model is fed and answers, what a plan spends, and   *)
(* that a prompt finds the pages it was promised.                          *)
(***************************************************************************)
EXTENDS PagedSchedulerProofs

-----------------------------------------------------------------------------
(* Calls that are committed whole, or rolled back whole *)

\* The pages a call ends with, and the prompts that start to run with it.
Grows(c, started, failed) ==
  /\ \A s \in Slots : c.lens[s] = cache.lens[s] + News[s] \/ (failed /\ c.lens[s] = cache.lens[s])
  /\ ~failed => ToSet(started) = ToSet(CompletedItems)

\* A call that fails does so before any of its tokens is taken.
Regular(sampled, failed) ==
  IF failed THEN sampled = <<>>
            ELSE ToSet(sampled) = ToSet(running) \cup ToSet(CompletedItems)

\* Without planned chunks nothing completes.
LEMMA NoneCompleted ==
  ASSUME Planned, plan.prefill = <<>>
  PROVE  ToSet(CompletedItems) = {}
<1>1. ToSet(<<>>) = {}
  BY NoItems
<1>2. ReqsIn(ToSet(PlannedItems)) = {}
  <2>1. ReqsIn({}) = {}
    BY DEF ReqsIn
  <2>2. QED
    BY <1>1, <2>1, PlannedItemsAre
<1>3. ToSet(PlannedItems) = {}
  BY <1>2 DEF ReqsIn
<1>4. QED
  BY <1>3, CompletedAre

\* A way a call can end.
Ends(c, sampled, started, eos, failed) ==
  /\ Ending(c, sampled, started, eos, failed) /\ Outcome(c, sampled, started, eos, failed)
  /\ Grows(c, started, failed)
  /\ "late" \notin Failures => Regular(sampled, failed)

\* How a call ends, and how far the cache has grown by then.
LEMMA CallEndsHow ==
  ASSUME IInv, Called
  PROVE  /\ Planned
         /\ \E c, sampled, started, eos, failed :
              Ends(c, sampled, started, eos, failed)
<1>1. Planned /\ Good(cache)
  <2>1. pc = "planned"
    BY DEF Called, DecodeStep, PrefillStep, MixedStep, TooLongFails, ModelFails, SamplingFails
  <2>2. QED
    BY <2>1 DEF IInv, Planned
<1>2. CallFits => \A s \in Slots : Grown.lens[s] = cache.lens[s] + News[s]
  BY <1>1, GrownIs
<1>3. plan.decode = running /\ ToSet(<<>>) = {}
  BY <1>1, PlanApart, NoItems
<1>4. ToSet(plan.decode \o CompletedItems) = ToSet(running) \cup ToSet(CompletedItems)
  BY <1>1, PlanApart, CompletedAre, ConcatSet
<1>5. ASSUME DecodeStep
      PROVE  \E eos : Ends(Grown, plan.decode, <<>>, eos, FALSE)
  <2>1. CallFits /\ ToSet(CompletedItems) = {}
    BY <1>1, <1>5, NoneCompleted DEF DecodeStep
  <2> HIDE DEF CompletedItems, Grown
  <2>2. Grows(Grown, <<>>, FALSE) /\ Regular(plan.decode, FALSE)
    BY <1>2, <1>3, <2>1 DEF Grows, Regular
  <2>3. PICK eos :
          /\ Ending(Grown, plan.decode, <<>>, eos, FALSE)
          /\ Outcome(Grown, plan.decode, <<>>, eos, FALSE)
    BY <1>1, <1>5, CallEndings
  <2>4. Ends(Grown, plan.decode, <<>>, eos, FALSE)
    BY <2>2, <2>3 DEF Ends
  <2>5. QED
    BY <2>4
<1>6. ASSUME PrefillStep
      PROVE  \E eos : Ends(Grown, CompletedItems, CompletedItems, eos, FALSE)
  <2>1. CallFits /\ ToSet(running) = {}
    BY <1>3, <1>6 DEF PrefillStep
  <2> HIDE DEF CompletedItems, Grown
  <2>2. Grows(Grown, CompletedItems, FALSE) /\ Regular(CompletedItems, FALSE)
    BY <1>2, <2>1 DEF Grows, Regular
  <2>3. PICK eos :
          /\ Ending(Grown, CompletedItems, CompletedItems, eos, FALSE)
          /\ Outcome(Grown, CompletedItems, CompletedItems, eos, FALSE)
    BY <1>1, <1>6, CallEndings
  <2>4. Ends(Grown, CompletedItems, CompletedItems, eos, FALSE)
    BY <2>2, <2>3 DEF Ends
  <2>5. QED
    BY <2>4
<1>7. ASSUME MixedStep
      PROVE  \E eos : Ends(Grown, plan.decode \o CompletedItems, CompletedItems, eos, FALSE)
  <2>1. CallFits
    BY <1>7 DEF MixedStep
  <2> HIDE DEF CompletedItems, Grown
  <2>2. Grows(Grown, CompletedItems, FALSE) /\ Regular(plan.decode \o CompletedItems, FALSE)
    BY <1>2, <1>4, <2>1 DEF Grows, Regular
  <2>3. PICK eos :
          /\ Ending(Grown, plan.decode \o CompletedItems, CompletedItems, eos, FALSE)
          /\ Outcome(Grown, plan.decode \o CompletedItems, CompletedItems, eos, FALSE)
    BY <1>1, <1>7, CallEndings
  <2>4. Ends(Grown, plan.decode \o CompletedItems, CompletedItems, eos, FALSE)
    BY <2>2, <2>3 DEF Ends
  <2>5. QED
    BY <2>4
<1>8. ASSUME TooLongFails
      PROVE  Ends(cache, <<>>, <<>>, <<>>, TRUE)
  BY <1>1, <1>8, CallEndings DEF Ends, Grows, Regular
<1>9. ASSUME ModelFails
      PROVE  Ends(Grown, <<>>, <<>>, <<>>, TRUE)
  <2>1. CallFits
    BY <1>9 DEF ModelFails
  <2> HIDE DEF Grown
  <2>2. Grows(Grown, <<>>, TRUE) /\ Regular(<<>>, TRUE)
    BY <1>2, <2>1 DEF Grows, Regular
  <2>3. QED
    BY <1>1, <1>9, <2>2, CallEndings DEF Ends
<1>10. ASSUME SamplingFails
       PROVE  \E eos : Ends(Grown, plan.decode, <<>>, eos, TRUE)
  <2>1. CallFits /\ "late" \in Failures
    BY <1>10 DEF SamplingFails
  <2> HIDE DEF Grown
  <2>2. Grows(Grown, <<>>, TRUE)
    BY <1>2, <2>1 DEF Grows
  <2>3. PICK eos :
          /\ Ending(Grown, plan.decode, <<>>, eos, TRUE)
          /\ Outcome(Grown, plan.decode, <<>>, eos, TRUE)
    BY <1>1, <1>10, CallEndings
  <2>4. Ends(Grown, plan.decode, <<>>, eos, TRUE)
    BY <2>1, <2>2, <2>3 DEF Ends
  <2>5. QED
    BY <2>4
<1> HIDE DEF Grown, CompletedItems
<1>11. \E c, sampled, started, eos, failed : Ends(c, sampled, started, eos, failed)
  BY <1>5, <1>6, <1>7, <1>8, <1>9, <1>10 DEF Called
<1>12. QED
  BY <1>1, <1>11

\* The state after a call that is rolled back ...
RolledEnd ==
  LET U == ToSet(PlannedItems)
  IN  /\ outputs' = outputs /\ folded' = folded /\ finished' = finished
      /\ nextId' = nextId /\ nPrompt' = nPrompt /\ maxTokens' = maxTokens
      /\ ToSet(running') = ToSet(running)
      /\ ToSet(prefilling') = ToSet(prefilling) \ U
      /\ ToSet(freeSlots') = ToSet(freeSlots) \cup SlotsIn(U)
      /\ \A r \in Reqs : r \notin ReqsIn(ToSet(plan.prefill)) => computed'[r] = computed[r]
      /\ \A s \in Slots : /\ cache'.lens[s] = IF s \in SlotsIn(U) THEN 0 ELSE cache.lens[s]
                          /\ held'[s] = IF s \in SlotsIn(U) THEN <<>> ELSE held[s]

\* ... and after one that is committed.
CommittedEnd(sampled, eos, longer, D) ==
  LET C == ToSet(CompletedItems)
      M == ToSet(running) \cup C
      gone == ReqsIn(D)
  IN  /\ ToSet(sampled) = M
      /\ D \subseteq M
      /\ \A it \in M : it \in D <=> IsFinished(it.req, longer[it.req])
      /\ LongerFits(sampled, eos, longer)
      /\ outputs' = [r \in Reqs |-> IF r \in gone THEN <<>> ELSE longer[r]]
      /\ folded' = [r \in Reqs |-> IF r \in gone THEN <<>> ELSE folded[r]]
      /\ finished' = finished \cup {[id |-> r, out |-> folded[r] \o longer[r]] : r \in gone}
      /\ nextId' = nextId /\ nPrompt' = nPrompt /\ maxTokens' = maxTokens
      /\ ToSet(running') = M \ D
      /\ ToSet(prefilling') = ToSet(prefilling) \ C
      /\ ToSet(freeSlots') = ToSet(freeSlots) \cup SlotsIn(D)
      /\ \A x \in ToSet(plan.prefill) : computed'[x.req] = computed[x.req] + x.chunk
      /\ \A r \in Reqs : r \notin ReqsIn(ToSet(plan.prefill)) => computed'[r] = computed[r]
      /\ \A s \in Slots :
           /\ cache'.lens[s] = IF s \in SlotsIn(D) THEN 0 ELSE cache.lens[s] + News[s]
           /\ held'[s] = IF s \in SlotsIn(D) THEN <<>> ELSE Written[s]

\* A call with nothing late is rolled back or committed as a whole.
LEMMA RegularEnds ==
  ASSUME IInv, Planned, NEW c, NEW sampled, NEW started, NEW eos, NEW failed,
         Ending(c, sampled, started, eos, failed), Outcome(c, sampled, started, eos, failed),
         Grows(c, started, failed), Regular(sampled, failed)
  PROVE  RolledEnd \/ \E longer, D : CommittedEnd(sampled, eos, longer, D)
<1> DEFINE longer == LongerOf(sampled, eos)
           done   == DoneOf(sampled, eos)
           undone == UndoneOf(failed)
           D == ToSet(done)
           U == ToSet(undone)
           S == ToSet(started)
           M == ToSet(sampled)
<1>1. Result(c, started, failed, longer, done, undone)
  BY OutcomeResult DEF Ending
<1>2. Leaving(started, done, undone) /\ D \subseteq M
  BY LeavingIs
<1>3. LongerFits(sampled, eos, longer)
  BY LongerIs
<1>4. ListsMoved(started, done, undone)
  BY <1>1, <1>2, ListsAfter
<1>5. \A it \in M : it \in D <=> IsFinished(it.req, longer[it.req])
  <2> DEFINE Fin == {it \in M : IsFinished(it.req, longer[it.req])}
  <2>1. done = Filtered(sampled, Fin) /\ sampled \in Seq(Items)
    BY DEF DoneOf, Ending
  <2> HIDE DEF Fin, longer, done, M
  <2>2. ToSet(Filtered(sampled, Fin)) = M \cap Fin
    BY <2>1, FilteredSet DEF M
  <2>3. QED
    BY <2>1, <2>2 DEF Fin
<1>6. /\ Good(c) /\ Good(cache) /\ \A s \in Slots : cache.lens[s] <= c.lens[s]
      /\ (failed => started = <<>>) /\ failed \in BOOLEAN
  BY DEF Ending, IInv
<1>6a. undone = IF failed THEN PlannedItems ELSE <<>>
  BY DEF UndoneOf
<1> HIDE DEF longer, done, undone
<1>7. /\ outputs' = [r \in Reqs |-> IF r \in ReqsIn(D) THEN <<>> ELSE longer[r]]
      /\ folded' = [r \in Reqs |-> IF r \in ReqsIn(D) THEN <<>> ELSE folded[r]]
      /\ finished' = finished \cup {[id |-> r, out |-> folded[r] \o longer[r]] : r \in ReqsIn(D)}
      /\ held' = [s \in Slots |-> IF s \in ToSet(SlotsOf(done \o undone)) THEN <<>>
                                  ELSE IF failed THEN held[s] ELSE Written[s]]
      /\ nextId' = nextId /\ nPrompt' = nPrompt /\ maxTokens' = maxTokens
  BY <1>1 DEF Result
<1>8. ToSet(SlotsOf(done \o undone)) = SlotsIn(D) \cup SlotsIn(U)
  <2>1. done \in Seq(Items) /\ undone \in Seq(Items) /\ \A it \in Items : it.slot \in Slots
    BY <1>2 DEF Leaving, Items
  <2> DEFINE u == done \o undone
  <2>2. u \in Seq(Items) /\ ToSet(u) = D \cup U
    BY <2>1, ConcatSet
  <2> HIDE DEF u
  <2>3. ToSet(SlotsOf(u)) = SlotsIn(D \cup U)
    BY <2>1, <2>2, SlotsOfItems
  <2>4. QED
    BY <2>3, JoinedIn DEF u
<1>9. /\ ToSet(running') = (ToSet(running) \cup S) \ D
      /\ ToSet(prefilling') = ToSet(prefilling) \ (S \cup U)
      /\ ToSet(freeSlots') = ToSet(freeSlots) \cup SlotsIn(D) \cup SlotsIn(U)
  BY <1>4 DEF ListsMoved
<1>10. /\ \A x \in ToSet(plan.prefill) :
            computed'[x.req] = IF failed THEN 0 ELSE computed[x.req] + x.chunk
       /\ \A r \in Reqs : r \notin ReqsIn(ToSet(plan.prefill)) => computed'[r] = computed[r]
  BY <1>1, ComputedAfter
<1>11. /\ (~failed /\ undone = <<>> =>
              \A s \in Slots : cache'.lens[s] = IF s \in SlotsIn(D) THEN 0 ELSE c.lens[s])
       /\ failed =>
              \A s \in Slots :
                cache'.lens[s] = IF s \in SlotsIn(U) \cup SlotsIn(D) THEN 0
                                 ELSE IF s \in SlotsIn(ToSet(running)) THEN cache.lens[s]
                                 ELSE c.lens[s]
  BY <1>1, <1>2, <1>6, CacheAfter
<1>12. ToSet(<<>>) = {} /\ SlotsIn({}) = {} /\ ReqsIn({}) = {}
  BY NoItems DEF SlotsIn, ReqsIn
<1>13. CASE failed
  <2>1. sampled = <<>> /\ started = <<>>
        /\ \A s \in Slots : c.lens[s] = cache.lens[s] \/ c.lens[s] = cache.lens[s] + News[s]
    BY <1>6, <1>13 DEF Grows, Regular
  <2>2. D = {} /\ S = {} /\ M = {} /\ U = ToSet(PlannedItems)
    BY <1>2, <1>6a, <1>12, <1>13, <2>1
  <2>3. outputs' = outputs /\ folded' = folded /\ finished' = finished
    <3>1. \A r \in Reqs : longer[r] = outputs[r]
      BY <1>3, <1>12, <2>2 DEF LongerFits
    <3>2. outputs = [r \in Reqs |-> outputs[r]] /\ folded = [r \in Reqs |-> folded[r]]
      BY DEF Planned, TypeOK
    <3> HIDE DEF D
    <3>3. QED
      BY <1>7, <1>12, <2>2, <3>1, <3>2
  <2>4. \A s \in Slots : s \notin SlotsIn(U) /\ s \notin SlotsIn(ToSet(running)) => News[s] = 0
    BY <2>2, NewsIs, PlannedItemsAre
  <2>5. \A s \in Slots : cache.lens[s] \in Nat
    BY <1>6, GoodTyped
  <2> HIDE DEF D, S, M, U
  <2>6. \A s \in Slots : /\ cache'.lens[s] = IF s \in SlotsIn(U) THEN 0 ELSE cache.lens[s]
                         /\ held'[s] = IF s \in SlotsIn(U) THEN <<>> ELSE held[s]
    <3>1. ASSUME NEW s \in Slots
          PROVE  cache'.lens[s] = IF s \in SlotsIn(U) THEN 0 ELSE cache.lens[s]
      BY <1>11, <1>12, <1>13, <2>1, <2>2, <2>4, <2>5
    <3>2. ASSUME NEW s \in Slots
          PROVE  held'[s] = IF s \in SlotsIn(U) THEN <<>> ELSE held[s]
      BY <1>7, <1>8, <1>12, <1>13, <2>2
    <3>3. QED
      BY <3>1, <3>2
  <2>7. RolledEnd
    BY <1>7, <1>9, <1>10, <1>12, <2>2, <2>3, <2>6 DEF RolledEnd
  <2>8. QED
    BY <2>7
<1>14. CASE ~failed
  <2>1. /\ \A s \in Slots : c.lens[s] = cache.lens[s] + News[s]
        /\ M = ToSet(running) \cup ToSet(CompletedItems)
        /\ S = ToSet(CompletedItems)
    BY <1>14 DEF Grows, Regular
  <2>2. U = {} /\ undone = <<>>
    BY <1>6a, <1>12, <1>14
  <2> HIDE DEF D, S, M, U
  <2>3. \A s \in Slots : /\ cache'.lens[s] = IF s \in SlotsIn(D) THEN 0 ELSE cache.lens[s] + News[s]
                         /\ held'[s] = IF s \in SlotsIn(D) THEN <<>> ELSE Written[s]
    BY <1>7, <1>8, <1>11, <1>12, <1>14, <2>1, <2>2
  <2>4. CommittedEnd(sampled, eos, longer, D)
    <3>1. /\ ToSet(running') = (ToSet(running) \cup ToSet(CompletedItems)) \ D
          /\ ToSet(prefilling') = ToSet(prefilling) \ ToSet(CompletedItems)
          /\ ToSet(freeSlots') = ToSet(freeSlots) \cup SlotsIn(D)
      BY <1>9, <1>12, <2>1, <2>2
    <3>2. /\ ToSet(sampled) = ToSet(running) \cup ToSet(CompletedItems)
          /\ D \subseteq ToSet(running) \cup ToSet(CompletedItems)
          /\ \A it \in ToSet(running) \cup ToSet(CompletedItems) :
               it \in D <=> IsFinished(it.req, longer[it.req])
      BY <1>2, <1>5, <2>1 DEF M
    <3>3. /\ \A x \in ToSet(plan.prefill) : computed'[x.req] = computed[x.req] + x.chunk
          /\ \A r \in Reqs : r \notin ReqsIn(ToSet(plan.prefill)) => computed'[r] = computed[r]
      BY <1>10, <1>14
    <3>4. QED
      BY <1>3, <1>7, <2>3, <3>1, <3>2, <3>3 DEF CommittedEnd
  <2>5. QED
    BY <2>4
<1>15. QED
  BY <1>6, <1>13, <1>14

-----------------------------------------------------------------------------
(* The prompts under way *)

\* The prompts and running sequences share no slot and no request.
LEMMA BusyApart ==
  ASSUME Placed
  PROVE  Apart(ToSet(prefilling) \cup ToSet(running))
<1> DEFINE P == ToSet(prefilling)
           R == ToSet(running)
<1>1. Apart(P) /\ Apart(R)
  BY DEF Placed, ListsUnique, Unique
<1>2. SlotsIn(P) \cap SlotsIn(R) = {} /\ ReqsIn(P) \cap ReqsIn(R) = {}
  BY DEF Placed, Parts
<1> HIDE DEF P, R
<1>3. Apart(P \cup R)
  BY <1>1, <1>2, ApartUnion
<1>4. QED
  BY <1>3 DEF P, R

\* What a call does to a prompt: it gets its chunk, if it has one in the plan.
LEMMA PromptNews ==
  ASSUME Planned, NEW it \in ToSet(prefilling)
  PROVE  /\ it.slot \in Slots /\ it.req \in Reqs
         /\ \/ \E x \in ToSet(plan.prefill) : x.slot = it.slot /\ x.req = it.req
            \/ it.req \notin ReqsIn(ToSet(plan.prefill)) /\ News[it.slot] = 0
<1>1. it \in Items /\ Apart(ToSet(prefilling)) /\ it.slot \notin SlotsIn(ToSet(running))
  <2>1. prefilling \in Seq(Items)
    BY DEF Planned, TypeOK
  <2>2. it \in Items
    BY <2>1, SeqSet
  <2>3. it.slot \in SlotsIn(ToSet(prefilling))
    BY DEF SlotsIn
  <2>4. QED
    BY <2>2, <2>3 DEF Planned, Placed, ListsUnique, Unique, Parts
<1>2. it.slot \in Slots /\ it.req \in Reqs
  BY <1>1 DEF Items
<1>3. \A x \in ToSet(plan.prefill) : [slot |-> x.slot, req |-> x.req] \in ToSet(prefilling)
  BY PlannedItemsAre
<1>4. ASSUME NEW x \in ToSet(plan.prefill), x.slot = it.slot \/ x.req = it.req
      PROVE  x.slot = it.slot /\ x.req = it.req
  <2> DEFINE y == [slot |-> x.slot, req |-> x.req]
  <2>1. y \in ToSet(prefilling) /\ y.slot = x.slot /\ y.req = x.req
    BY <1>3
  <2> HIDE DEF y
  <2>2. y = it
    BY <1>1, <1>4, <2>1 DEF Apart
  <2>3. QED
    BY <2>1, <2>2
<1>5. CASE it.slot \in SlotsIn(ToSet(plan.prefill))
  <2>1. PICK x \in ToSet(plan.prefill) : x.slot = it.slot
    BY <1>5 DEF SlotsIn
  <2>2. x.req = it.req
    BY <1>4, <2>1
  <2>3. QED
    BY <1>2, <2>1, <2>2
<1>6. CASE it.slot \notin SlotsIn(ToSet(plan.prefill))
  <2>1. News[it.slot] = 0
    BY <1>1, <1>2, <1>6, NewsIs
  <2>2. it.req \notin ReqsIn(ToSet(plan.prefill))
    BY <1>4, <1>6 DEF SlotsIn, ReqsIn
  <2>3. QED
    BY <1>2, <2>1, <2>2
<1>7. QED
  BY <1>5, <1>6

\* A free slot gets nothing.
LEMMA FreeNews ==
  ASSUME Planned, NEW s \in ToSet(freeSlots)
  PROVE  s \in Slots /\ s \notin SlotsIn(ToSet(prefilling)) /\ News[s] = 0
<1>1. s \in Slots
  <2>1. freeSlots \in Seq(Slots)
    BY DEF Planned, TypeOK
  <2>2. QED
    BY <2>1, SeqSet
<1>2. s \notin SlotsIn(ToSet(prefilling)) /\ s \notin SlotsIn(ToSet(running))
  BY DEF Planned, Placed, Parts
<1>3. SlotsIn(ToSet(plan.prefill)) \subseteq SlotsIn(ToSet(prefilling))
  <2>1. /\ SlotsIn(ToSet(PlannedItems)) = SlotsIn(ToSet(plan.prefill))
        /\ ToSet(PlannedItems) \subseteq ToSet(prefilling)
    BY PlannedItemsAre
  <2>2. QED
    BY <2>1 DEF SlotsIn
<1>4. QED
  BY <1>1, <1>2, <1>3, NewsIs

\* Between any two calls the pages of a prompt hold its computed tokens, and a
\* free slot has none.
PromptsInPlace ==
  /\ \A it \in ToSet(prefilling) : cache.lens[it.slot] = computed[it.req]
  /\ \A s \in ToSet(freeSlots) : cache.lens[s] = 0

\* What a call does to the prompts: those that are still under way after it have
\* been given their chunk and lack some more, or had none.
PromptsMove ==
  /\ nextId' = nextId /\ nPrompt' = nPrompt
  /\ \A it \in ToSet(prefilling') :
       /\ it \in ToSet(prefilling)
       /\ folded'[it.req] = folded[it.req]
       /\ computed'[it.req] = computed[it.req] + News[it.slot]
       /\ cache'.lens[it.slot] = cache.lens[it.slot] + News[it.slot]
       /\ News[it.slot] = 0 \/ News[it.slot] < Remaining(it.req)
  /\ \A s \in ToSet(freeSlots') : cache'.lens[s] = 0

\* What a call does to the prompts under way and to their pages.
LEMMA CallMoves ==
  ASSUME IInv, PromptsInPlace, Called
  PROVE  PromptsMove
<1>0. Planned
  BY CallEndsHow
<1>1. PICK c, sampled, started, eos, failed : Ends(c, sampled, started, eos, failed)
  BY CallEndsHow
<1> DEFINE longer == LongerOf(sampled, eos)
           done   == DoneOf(sampled, eos)
           undone == UndoneOf(failed)
           D == ToSet(done)
           U == ToSet(undone)
           S == ToSet(started)
           P == ToSet(prefilling)
           R == ToSet(running)
           C == ToSet(CompletedItems)
<1>2. Ending(c, sampled, started, eos, failed) /\ Grows(c, started, failed) /\ failed \in BOOLEAN
  BY <1>1 DEF Ends, Ending
<1>3. Result(c, started, failed, longer, done, undone)
  BY <1>1, <1>2, OutcomeResult DEF Ends
<1>4. Leaving(started, done, undone)
  BY <1>0, <1>2, LeavingIs
<1>5. ListsMoved(started, done, undone)
  BY <1>0, <1>3, <1>4, ListsAfter
<1>6. /\ Good(c) /\ Good(cache) /\ (\A s \in Slots : cache.lens[s] <= c.lens[s])
      /\ (failed => started = <<>>)
  BY <1>2 DEF Ending, IInv
<1>7. undone = IF failed THEN PlannedItems ELSE <<>>
  BY DEF UndoneOf
<1> HIDE DEF longer, done, undone
<1>8. /\ ToSet(prefilling') = P \ (S \cup U)
      /\ ToSet(freeSlots') = ToSet(freeSlots) \cup SlotsIn(D) \cup SlotsIn(U)
      /\ D \subseteq R \cup S /\ U \subseteq P /\ S \subseteq P
  BY <1>4, <1>5 DEF ListsMoved, Leaving
<1>9. /\ \A x \in ToSet(plan.prefill) :
           computed'[x.req] = IF failed THEN 0 ELSE computed[x.req] + x.chunk
      /\ \A r \in Reqs : r \notin ReqsIn(ToSet(plan.prefill)) => computed'[r] = computed[r]
  BY <1>0, <1>3, ComputedAfter
<1>10. /\ ~failed /\ undone = <<>> =>
               \A s \in Slots : cache'.lens[s] = IF s \in SlotsIn(D) THEN 0 ELSE c.lens[s]
       /\ failed =>
               \A s \in Slots :
                 cache'.lens[s] = IF s \in SlotsIn(U) \cup SlotsIn(D) THEN 0
                                  ELSE IF s \in SlotsIn(R) THEN cache.lens[s]
                                  ELSE c.lens[s]
  BY <1>0, <1>3, <1>4, <1>6, CacheAfter
<1>11. ToSet(<<>>) = {} /\ SlotsIn({}) = {} /\ ReqsIn({}) = {}
  BY NoItems DEF SlotsIn, ReqsIn
<1>12. /\ folded' = [r \in Reqs |-> IF r \in ReqsIn(D) THEN <<>> ELSE folded[r]]
       /\ nextId' = nextId /\ nPrompt' = nPrompt
  BY <1>3 DEF Result
<1>13. \A s \in Slots : /\ cache.lens[s] \in Nat /\ News[s] \in Nat
                        /\ News[s] = 0 => c.lens[s] = cache.lens[s]
                        /\ ~failed => c.lens[s] = cache.lens[s] + News[s]
  <2>1. \A s \in Slots : cache.lens[s] \in Nat /\ News[s] \in Nat
    BY <1>0, <1>6, GoodTyped, NewsIs
  <2>2. \A s \in Slots : c.lens[s] = cache.lens[s] + News[s] \/ (failed /\ c.lens[s] = cache.lens[s])
    BY <1>2 DEF Grows
  <2>3. QED
    BY <2>1, <2>2
<1>14. Apart(P \cup R)
  BY <1>0, BusyApart DEF Planned
<1>15. ~failed => U = {} /\ undone = <<>> /\ S = C
  BY <1>2, <1>7, <1>11 DEF Grows
<1>16. failed => S = {} /\ ReqsIn(U) = ReqsIn(ToSet(plan.prefill))
  BY <1>0, <1>6, <1>7, <1>11, PlannedItemsAre
<1>16a. P \cap R = {}
  <2>1. SlotsIn(P) \cap SlotsIn(R) = {}
    BY <1>0 DEF Planned, Placed, Parts
  <2>2. QED
    BY <2>1 DEF SlotsIn
<1> HIDE DEF D, U, S, P, R, C
<1>17. ASSUME NEW it \in ToSet(prefilling')
       PROVE  /\ it \in P
              /\ it.slot \in Slots /\ it.req \in Reqs
              /\ it.slot \notin SlotsIn(D) /\ it.req \notin ReqsIn(D)
              /\ it.slot \notin SlotsIn(U) /\ it.req \notin ReqsIn(U)
              /\ it.slot \notin SlotsIn(R)
              /\ it \notin S
  <2>1. it \in P /\ it \notin S /\ it \notin U
    BY <1>8
  <2>2. it.slot \in Slots /\ it.req \in Reqs
    BY <1>0, <2>1, PromptNews DEF P
  <2>3. it \notin R /\ it \notin D
    BY <1>8, <1>16a, <2>1
  <2>4. it.slot \notin SlotsIn(R)
    BY <1>14, <2>1, <2>3 DEF Apart, SlotsIn
  <2>5. /\ it.slot \notin SlotsIn(D) /\ it.req \notin ReqsIn(D)
        /\ it.slot \notin SlotsIn(U) /\ it.req \notin ReqsIn(U)
    BY <1>8, <1>14, <2>1, <2>3 DEF Apart, SlotsIn, ReqsIn
  <2>6. QED
    BY <2>1, <2>2, <2>4, <2>5
<1>18. ASSUME NEW it \in ToSet(prefilling')
       PROVE  /\ it \in P
              /\ folded'[it.req] = folded[it.req]
              /\ computed'[it.req] = computed[it.req] + News[it.slot]
              /\ cache'.lens[it.slot] = cache.lens[it.slot] + News[it.slot]
              /\ News[it.slot] = 0 \/ News[it.slot] < Remaining(it.req)
  <2>1. /\ it \in P
        /\ it.slot \in Slots /\ it.req \in Reqs
        /\ it.slot \notin SlotsIn(D) /\ it.req \notin ReqsIn(D)
        /\ it.slot \notin SlotsIn(U) /\ it.req \notin ReqsIn(U)
        /\ it.slot \notin SlotsIn(R)
        /\ it \notin S
    BY <1>17
  <2>2. computed[it.req] \in Nat /\ cache.lens[it.slot] \in Nat
    <3>1. computed \in [Reqs -> Nat]
      BY <1>0 DEF Planned, TypeOK
    <3>2. QED
      BY <1>13, <2>1, <3>1
  <2>3. folded'[it.req] = folded[it.req]
    BY <1>12, <2>1
  <2>4. cache'.lens[it.slot] = c.lens[it.slot]
    BY <1>2, <1>10, <1>15, <2>1
  <2>5. CASE it.req \notin ReqsIn(ToSet(plan.prefill)) /\ News[it.slot] = 0
    <3>1. computed'[it.req] = computed[it.req] + 0
      BY <1>9, <2>1, <2>2, <2>5
    <3>2. cache'.lens[it.slot] = cache.lens[it.slot] + 0
      BY <1>13, <2>1, <2>2, <2>4, <2>5
    <3>3. QED
      BY <2>1, <2>3, <2>5, <3>1, <3>2
  <2>6. CASE \E x \in ToSet(plan.prefill) : x.slot = it.slot /\ x.req = it.req
    <3>1. PICK x \in ToSet(plan.prefill) : x.slot = it.slot /\ x.req = it.req
      BY <2>6
    <3>2. ~failed
      <4>1. it.req \in ReqsIn(ToSet(plan.prefill))
        BY <3>1 DEF ReqsIn
      <4>2. QED
        BY <1>16, <2>1, <4>1
    <3>3. News[it.slot] = x.chunk /\ Chunk(it.slot) = x.chunk
      BY <1>0, <3>1, NewsIs, ChunkIs
    <3>4. x.chunk < Remaining(it.req)
      <4>1. [slot |-> x.slot, req |-> x.req] \in ToSet(PlannedItems)
        BY <1>0, PlannedItemsAre
      <4> DEFINE y == [slot |-> x.slot, req |-> x.req]
      <4>2. y \in ToSet(PlannedItems) /\ y \in P /\ y.slot = x.slot /\ y.req = x.req
        BY <1>0, <4>1, PlannedItemsAre DEF P
      <4> HIDE DEF y
      <4>3. y = it
        BY <1>14, <2>1, <3>1, <4>2 DEF Apart
      <4>4. it \notin ToSet(CompletedItems)
        BY <1>15, <2>1, <3>2 DEF C
      <4>5. x.chunk # Remaining(it.req)
        BY <1>0, <3>3, <4>2, <4>3, <4>4, CompletedAre
      <4>6. x.chunk <= Remaining(it.req)
        <5>1. Follows(plan.prefill, prefilling, Len(prefilling))
          BY <1>0 DEF Planned, PlanFollows
        <5>2. QED
          BY <3>1, <5>1 DEF Follows
      <4>7. x.chunk \in Nat
        BY <1>0, PlanApart DEF Chunks
      <4>8. Remaining(it.req) \in Int
        <5>1. TypeOK
          BY <1>0 DEF Planned
        <5>2. computed[it.req] \in Nat /\ nPrompt[it.req] \in Nat /\ folded[it.req] \in Seq(Token)
          BY <2>1, <5>1 DEF TypeOK
        <5>3. Len(folded[it.req]) \in Nat
          BY <5>2
        <5>4. QED
          BY <5>2, <5>3 DEF Remaining, PromptLen
      <4>9. QED
        BY <4>5, <4>6, <4>7, <4>8
    <3>5. computed'[it.req] = computed[it.req] + x.chunk
      BY <1>9, <3>1, <3>2
    <3>6. cache'.lens[it.slot] = cache.lens[it.slot] + News[it.slot]
      BY <1>13, <2>1, <2>4, <3>2
    <3>7. QED
      BY <2>1, <2>3, <3>3, <3>4, <3>5, <3>6
  <2>7. QED
    BY <1>0, <2>1, <2>5, <2>6, PromptNews DEF P
<1>19. ASSUME NEW s \in ToSet(freeSlots')
       PROVE  cache'.lens[s] = 0
  <2>0. SlotsIn(D) \subseteq Slots /\ SlotsIn(U) \subseteq Slots
    <3>1. done \in Seq(Items) /\ undone \in Seq(Items)
      BY <1>4 DEF Leaving
    <3>2. D \subseteq Items /\ U \subseteq Items
      BY <3>1, SeqSet DEF D, U
    <3>3. QED
      BY <3>2 DEF SlotsIn, Items
  <2>1. CASE s \in SlotsIn(D) \cup SlotsIn(U)
    BY <1>2, <1>10, <1>11, <1>15, <2>0, <2>1
  <2>2. CASE s \notin SlotsIn(D) \cup SlotsIn(U)
    <3>1. s \in ToSet(freeSlots)
      BY <1>8, <2>2
    <3>2. s \in Slots /\ News[s] = 0 /\ cache.lens[s] = 0
      BY <1>0, <3>1, FreeNews DEF PromptsInPlace
    <3>3. c.lens[s] = 0
      BY <1>13, <3>2
    <3>4. QED
      BY <1>2, <1>10, <1>15, <2>2, <3>2, <3>3
  <2>3. QED
    BY <2>1, <2>2
<1>20. QED
  BY <1>12, <1>18, <1>19 DEF PromptsMove, P

\* The prompts that are still under way after any step but a plan or a reset:
\* they are the same prompts, and their n new tokens are in their pages.
PromptsOnward ==
  /\ \A it \in ToSet(prefilling') :
       /\ it \in ToSet(prefilling) /\ it.req \in Reqs
       /\ nPrompt'[it.req] = nPrompt[it.req]
       /\ folded'[it.req] = folded[it.req]
       /\ \E n \in Nat : /\ computed'[it.req] = computed[it.req] + n
                         /\ cache'.lens[it.slot] = cache.lens[it.slot] + n
                         /\ n = 0 \/ n < Remaining(it.req)
  /\ \A s \in ToSet(freeSlots') : cache'.lens[s] = 0

\* The request of a prompt under way.
LEMMA BusyTyped ==
  ASSUME TypeOK, Placed, NEW it \in ToSet(prefilling)
  PROVE  /\ it.slot \in Slots /\ it.req \in Reqs /\ it.req < nextId
         /\ computed[it.req] \in Nat /\ nPrompt[it.req] \in Nat
         /\ folded[it.req] \in Seq(Token) /\ Len(folded[it.req]) \in Nat
<1>1. prefilling \in Seq(Items)
  BY DEF TypeOK
<1>2. it \in Items
  BY <1>1, SeqSet
<1>3. it.slot \in Slots /\ it.req \in Reqs
  BY <1>2 DEF Items
<1>4. it.req \in 0 .. (nextId - 1)
  BY DEF Placed, Parts, ReqsIn
<1>5. nextId \in Nat
  BY DEF TypeOK
<1>6. it.req < nextId
  BY <1>4, <1>5
<1>7. computed[it.req] \in Nat /\ nPrompt[it.req] \in Nat /\ folded[it.req] \in Seq(Token)
  BY <1>3 DEF TypeOK
<1>8. Len(folded[it.req]) \in Nat
  BY <1>7
<1>9. QED
  BY <1>3, <1>6, <1>7, <1>8

\* Through a call prompts stay as long as they were, or leave the list, ...
LEMMA CallOnward ==
  ASSUME IInv, PromptsInPlace, Called
  PROVE  PromptsOnward
<1>1. PromptsMove
  BY CallMoves
<1>2. Planned /\ TypeOK /\ Placed
  BY CallEndsHow DEF IInv
<1>3. ASSUME NEW it \in ToSet(prefilling')
      PROVE  /\ it \in ToSet(prefilling) /\ it.req \in Reqs
             /\ nPrompt'[it.req] = nPrompt[it.req]
             /\ folded'[it.req] = folded[it.req]
             /\ \E n \in Nat : /\ computed'[it.req] = computed[it.req] + n
                               /\ cache'.lens[it.slot] = cache.lens[it.slot] + n
                               /\ n = 0 \/ n < Remaining(it.req)
  <2> DEFINE n == News[it.slot]
  <2>1. /\ it \in ToSet(prefilling) /\ nPrompt' = nPrompt
        /\ folded'[it.req] = folded[it.req]
        /\ computed'[it.req] = computed[it.req] + n
        /\ cache'.lens[it.slot] = cache.lens[it.slot] + n
        /\ n = 0 \/ n < Remaining(it.req)
    BY <1>1 DEF PromptsMove
  <2>2. it.req \in Reqs /\ it.slot \in Slots
    BY <1>2, <2>1, BusyTyped
  <2>3. n \in Nat
    BY <1>2, <2>2, NewsIs
  <2> HIDE DEF n
  <2>4. QED
    BY <2>1, <2>2, <2>3
<1>4. QED
  BY <1>1, <1>3 DEF PromptsMove, PromptsOnward

\* ... through add_request ...
LEMMA AddRequestOnward ==
  ASSUME IInv, PromptsInPlace, NEW shape \in Shapes, AddRequest(shape)
  PROVE  PromptsOnward
<1>1. /\ nPrompt' = [nPrompt EXCEPT ![nextId] = shape[1]]
      /\ UNCHANGED <<folded, computed, prefilling, freeSlots, cache>>
  BY DEF AddRequest, tokenVars
<1>2. TypeOK /\ Placed /\ nPrompt \in [Reqs -> Nat]
  BY DEF IInv, TypeOK
<1>3. ASSUME NEW it \in ToSet(prefilling')
      PROVE  /\ it \in ToSet(prefilling) /\ it.req \in Reqs
             /\ nPrompt'[it.req] = nPrompt[it.req]
             /\ computed'[it.req] = computed[it.req] + 0
             /\ cache'.lens[it.slot] = cache.lens[it.slot] + 0
  <2>1. it \in ToSet(prefilling)
    BY <1>1
  <2>2. it.slot \in Slots /\ it.req \in Reqs /\ it.req < nextId /\ computed[it.req] \in Nat
    BY <1>2, <2>1, BusyTyped
  <2>3. nextId \in Nat /\ it.req # nextId
    BY <1>2, <2>2 DEF TypeOK, Reqs
  <2>4. cache.lens[it.slot] \in Nat
    BY <2>2, GoodTyped DEF IInv
  <2>5. QED
    BY <1>1, <1>2, <2>1, <2>2, <2>3, <2>4
<1>4. QED
  BY <1>1, <1>3 DEF PromptsOnward, PromptsInPlace

\* ... through _preempt, whose victim was running ...
LEMMA PreemptOnward ==
  ASSUME IInv, PromptsInPlace, Preempt
  PROVE  PromptsOnward
<1> DEFINE v == Last(running)
           w == v.req
           u == v.slot
<1>0. TypeOK /\ Placed /\ Good(cache)
  BY DEF IInv
<1>1. /\ v \in ToSet(running) /\ u \in Slots /\ w \in Reqs
      /\ ToSet(freeSlots') = ToSet(freeSlots) \cup {u}
  BY VictimIs
<1>2. /\ cache' = KV!Freed(cache, u)
      /\ folded' = [folded EXCEPT ![w] = @ \o outputs[w]]
      /\ computed' = [computed EXCEPT ![w] = 0]
      /\ UNCHANGED <<nPrompt, prefilling>>
  BY DEF Preempt, EndStep, Refold, requestVars
<1>3. \A it \in ToSet(prefilling) : it.slot # u /\ it.req # w
  <2>1. /\ SlotsIn(ToSet(prefilling)) \cap SlotsIn(ToSet(running)) = {}
        /\ ReqsIn(ToSet(prefilling)) \cap ReqsIn(ToSet(running)) = {}
    BY <1>0 DEF Placed, Parts
  <2> HIDE DEF v
  <2>2. QED
    BY <1>1, <2>1 DEF SlotsIn, ReqsIn
<1> HIDE DEF v, w, u
<1>4. \A s \in Slots : cache.lens[s] \in Nat /\ cache'.lens[s] = IF s = u THEN 0 ELSE cache.lens[s]
  <2>1. cache'.lens = [cache.lens EXCEPT ![u] = 0]
    BY <1>0, <1>1, <1>2, FreedGood
  <2>2. cache.lens \in [Slots -> Nat]
    BY <1>0, GoodTyped
  <2>3. QED
    BY <1>1, <2>1, <2>2
<1>5. \A r \in Reqs : r # w => folded'[r] = folded[r] /\ computed'[r] = computed[r]
  <2>1. folded \in [Reqs -> Seq(Token)] /\ computed \in [Reqs -> Nat]
    BY <1>0 DEF TypeOK
  <2>2. QED
    BY <1>1, <1>2, <2>1
<1>6. ASSUME NEW it \in ToSet(prefilling')
      PROVE  /\ it \in ToSet(prefilling) /\ it.req \in Reqs
             /\ folded'[it.req] = folded[it.req]
             /\ computed'[it.req] = computed[it.req] + 0
             /\ cache'.lens[it.slot] = cache.lens[it.slot] + 0
  <2>1. it \in ToSet(prefilling)
    BY <1>2
  <2>2. it.slot \in Slots /\ it.req \in Reqs /\ computed[it.req] \in Nat
    BY <1>0, <2>1, BusyTyped
  <2>3. QED
    BY <1>3, <1>4, <1>5, <2>1, <2>2
<1>7. ASSUME NEW s \in ToSet(freeSlots')
      PROVE  cache'.lens[s] = 0
  <2>1. CASE s = u
    BY <1>1, <1>4, <2>1
  <2>2. CASE s # u
    <3>1. s \in ToSet(freeSlots)
      BY <1>1, <2>2
    <3>2. s \in Slots
      <4>1. freeSlots \in Seq(Slots)
        BY <1>0 DEF TypeOK
      <4>2. QED
        BY <3>1, <4>1, SeqSet
    <3>3. QED
      BY <1>4, <2>2, <3>1, <3>2 DEF PromptsInPlace
  <2>3. QED
    BY <2>1, <2>2
<1>8. QED
  BY <1>2, <1>6, <1>7 DEF PromptsOnward

\* ... and through what does not touch them.
LEMMA UnchangedOnward ==
  ASSUME IInv, PromptsInPlace,
         UNCHANGED <<nPrompt, folded, computed, prefilling, freeSlots, cache>>
  PROVE  PromptsOnward
<1>1. ASSUME NEW it \in ToSet(prefilling)
      PROVE  it.req \in Reqs /\ computed[it.req] \in Nat /\ cache.lens[it.slot] \in Nat
  BY BusyTyped, GoodTyped DEF IInv
<1>2. \A it \in ToSet(prefilling) : /\ computed[it.req] = computed[it.req] + 0
                                    /\ cache.lens[it.slot] = cache.lens[it.slot] + 0
  BY <1>1
<1>3. QED
  BY <1>1, <1>2 DEF PromptsOnward, PromptsInPlace

\* Every step plans, resets, or leaves the prompts as they were but for the
\* tokens they have been given.
LEMMA StepOnward ==
  ASSUME IInv, PromptsInPlace, [Next]_vars
  PROVE  PlanIteration \/ Fresh' \/ PromptsOnward
<1>1. ASSUME NEW shape \in Shapes, AddRequest(shape)
      PROVE  PromptsOnward
  BY <1>1, AddRequestOnward
<1>2. ASSUME Reset
      PROVE  Fresh'
  BY <1>2 DEF Reset, Fresh, IInv, PlanFollows
<1>3. ASSUME Called
      PROVE  PromptsOnward
  BY <1>3, CallOnward
<1>4. ASSUME EmptyStep
      PROVE  PromptsOnward
  BY <1>4, UnchangedOnward DEF EmptyStep, requestVars, tokenVars, queueVars
<1>5. ASSUME Preempt
      PROVE  PromptsOnward
  BY <1>5, PreemptOnward
<1>6. ASSUME UNCHANGED vars
      PROVE  PromptsOnward
  BY <1>6, UnchangedOnward DEF vars, requestVars, tokenVars, queueVars
<1>7. QED
  BY <1>1, <1>2, <1>3, <1>4, <1>5, <1>6 DEF Next, Client, Step, Failure, Called

\* A new scheduler has nothing in its pages.
LEMMA FreshInPlace ==
  ASSUME Fresh
  PROVE  PromptsInPlace
<1>1. prefilling = <<>> /\ cache = KV!Empty /\ IInv
  BY FreshIsGood DEF Fresh
<1>2. \A s \in Slots : cache.lens[s] = 0
  BY <1>1, EmptyGood
<1>3. ToSet(prefilling) = {}
  BY <1>1, NoItems
<1>4. ToSet(freeSlots) \subseteq Slots
  <2>1. freeSlots \in Seq(Slots)
    BY <1>1 DEF IInv, TypeOK
  <2>2. QED
    BY <2>1, SeqSet
<1>5. QED
  BY <1>2, <1>3, <1>4 DEF PromptsInPlace

\* What planning does to the prompts: some that wait join, in empty slots.
Joining(count) ==
  LET joined == JoinedBy(count)
  IN  /\ count \in Nat /\ count <= Len(waiting) /\ count <= Len(freeSlots)
      /\ joined \in Seq(Items) /\ Len(joined) = count /\ Unique(joined)
      /\ ReqsIn(ToSet(joined)) \subseteq ToSet(waiting)
      /\ SlotsIn(ToSet(joined)) \subseteq ToSet(freeSlots)
      /\ ToSet(prefilling') = ToSet(prefilling) \cup ToSet(joined)
      /\ ToSet(freeSlots') \subseteq ToSet(freeSlots)
      /\ UNCHANGED <<nextId, nPrompt, maxTokens, folded, outputs, computed, running, finished, cache,
                     held>>

\* Joining prompts take free slots, with nothing in them, from their start.
LEMMA PlanJoins ==
  ASSUME IInv, PlanIteration
  PROVE  Joining(Count)
<1> DEFINE count == Count
           all   == prefilling \o JoinedBy(Count)
<1>0. TypeOK /\ Placed
  BY DEF IInv
<1>1. PlanningIs(count, all)
  BY <1>0, PlanIterationIs
<1> HIDE DEF count, all
<1>2. /\ count \in Nat /\ count <= Len(waiting) /\ count <= Len(freeSlots)
      /\ prefilling' = all
      /\ freeSlots' = SubSeq(freeSlots, 1, Len(freeSlots) - count)
      /\ UNCHANGED <<nextId, nPrompt, maxTokens, folded, outputs, computed, running, finished, cache,
                     held>>
  BY <1>1 DEF PlanningIs
<1>3. ToSet(all) = ToSet(prefilling) \cup ToSet(JoinedBy(count))
  BY <1>1, AllIs
<1>4. /\ JoinedBy(count) \in Seq(Items) /\ Len(JoinedBy(count)) = count /\ Unique(JoinedBy(count))
      /\ ReqsIn(ToSet(JoinedBy(count))) \subseteq ToSet(waiting)
      /\ SlotsIn(ToSet(JoinedBy(count))) \subseteq ToSet(freeSlots)
      /\ ToSet(freeSlots') \subseteq ToSet(freeSlots)
  BY <1>0, <1>2, JoinedIs
<1>5. Joining(count)
  BY <1>2, <1>3, <1>4 DEF Joining
<1>6. QED
  BY <1>5 DEF count

\* Every step keeps prompts in their place.
LEMMA PromptsStayInPlace ==
  ASSUME IInv, PromptsInPlace, [Next]_vars
  PROVE  PromptsInPlace'
<1>1. CASE PlanIteration
  <2> DEFINE count == Count
  <2>1. Joining(count)
    BY <1>1, PlanJoins
  <2> HIDE DEF count
  <2>2. /\ ReqsIn(ToSet(JoinedBy(count))) \subseteq ToSet(waiting)
        /\ SlotsIn(ToSet(JoinedBy(count))) \subseteq ToSet(freeSlots)
        /\ ToSet(prefilling') = ToSet(prefilling) \cup ToSet(JoinedBy(count))
        /\ ToSet(freeSlots') \subseteq ToSet(freeSlots)
        /\ computed' = computed /\ cache' = cache
    BY <2>1 DEF Joining
  <2>3. \A r \in ToSet(waiting) : computed[r] = 0
    BY DEF IInv, RequestsFit
  <2>4. QED
    BY <2>2, <2>3 DEF PromptsInPlace, ReqsIn, SlotsIn
<1>2. CASE Fresh'
  BY <1>2, FreshInPlace, PTL
<1>3. CASE PromptsOnward
  <2>1. ASSUME NEW it \in ToSet(prefilling')
        PROVE  cache'.lens[it.slot] = computed'[it.req]
    BY <1>3 DEF PromptsOnward, PromptsInPlace
  <2>2. QED
    BY <1>3, <2>1 DEF PromptsOnward, PromptsInPlace
<1>4. QED
  BY <1>1, <1>2, <1>3, StepOnward

\* A prompt's slot always holds its computed tokens, a free slot none; this needs
\* nothing of how calls end.
LEMMA AlwaysPromptsInPlace == Spec => []PromptsInPlace
<1>1. Init => PromptsInPlace
  BY FreshInPlace DEF Init, Fresh
<1>2. IInv /\ PromptsInPlace /\ [Next]_vars => PromptsInPlace'
  BY PromptsStayInPlace
<1>3. QED
  BY <1>1, <1>2, AlwaysIInv, PTL DEF Spec

-----------------------------------------------------------------------------
(* What the pages hold and what the model then says *)

\* These ids are those of the tokens 0, 1, 2 ..., n - 1.
Counts(ids, n) == ids \in Seq(Int) /\ Len(ids) = n /\ \A p \in 1 .. n : ids[p] = p - 1

\* Generated from a prompt of n tokens for a request of at most m: t continues
\* the prompt and there is no reason to end it ...
OnItsWay(n, m, t) ==
  \A i \in 1 .. Len(t) : t[i].at = n + i - 1 /\ ~t[i].eos /\ i < m

\* ... or it continues the prompt and ends where it has to.
AtItsEnd(n, m, t) ==
  /\ \A i \in 1 .. Len(t) : t[i].at = n + i - 1
  /\ \A i \in 1 .. Len(t) : (t[i].eos \/ i >= m) <=> i = Len(t)

\* A request under way, and one that is answered.
Goes(r)     == OnItsWay(nPrompt[r], maxTokens[r], FullOutput(r))
Answered(f) == AtItsEnd(nPrompt[f.id], maxTokens[f.id], f.out)

\* The pages of a running sequence hold all but its newest token.
RunningInPlace ==
  \A it \in ToSet(running) :
    /\ outputs[it.req] # <<>>
    /\ cache.lens[it.slot] = PromptLen(it.req) + Len(outputs[it.req]) - 1

\* What schedulers whose calls fail early or not at all keep.
Continuing ==
  /\ RunningInPlace
  /\ \A s \in Slots : Counts(held[s], cache.lens[s])
  /\ \A r \in Reqs : Goes(r)
  /\ \A f \in finished : Answered(f)

\* What is inductive about the pages and the answers: prompts and running sequences
\* in their places, the ids in those places, and the tokens that were predicted
\* from them.
BInv == PromptsInPlace /\ Continuing

\* From tokens in their places the model predicts the next.
LEMMA PredictIs ==
  ASSUME NEW ids, NEW n \in Nat, Counts(ids, n)
  PROVE  Predict(ids) = n
BY DEF Counts, Predict

\* What a request has generated, before and since it was last admitted.
LEMMA FullIs ==
  ASSUME TypeOK, NEW r \in Reqs
  PROVE  /\ FullOutput(r) \in Seq(Token)
         /\ Len(folded[r]) \in Nat /\ Len(outputs[r]) \in Nat /\ nPrompt[r] \in Nat
         /\ Len(FullOutput(r)) = Len(folded[r]) + Len(outputs[r])
         /\ \A i \in 1 .. Len(folded[r]) : FullOutput(r)[i] = folded[r][i]
         /\ \A i \in 1 .. Len(outputs[r]) : FullOutput(r)[Len(folded[r]) + i] = outputs[r][i]
<1> DEFINE f == folded[r]
           o == outputs[r]
<1>1. f \in Seq(Token) /\ o \in Seq(Token) /\ nPrompt[r] \in Nat
  BY DEF TypeOK
<1>2. FullOutput(r) = f \o o
  BY DEF FullOutput
<1> HIDE DEF f, o
<1>3. /\ f \o o \in Seq(Token)
      /\ Len(f) \in Nat /\ Len(o) \in Nat
      /\ Len(f \o o) = Len(f) + Len(o)
      /\ \A i \in 1 .. Len(f) : (f \o o)[i] = f[i]
      /\ \A i \in 1 .. Len(o) : (f \o o)[Len(f) + i] = o[i]
  BY <1>1
<1>4. QED
  BY <1>1, <1>2, <1>3 DEF f, o

\* The prompt of a request that goes on is made of the tokens 0, 1, 2 ...
LEMMA PromptInOrder ==
  ASSUME TypeOK, NEW r \in Reqs, Goes(r), NEW p \in Nat, p < PromptLen(r)
  PROVE  PromptAt(r, p) = p
<1> DEFINE i == p - nPrompt[r] + 1
           k == Len(folded[r])
<1>1. k \in Nat /\ nPrompt[r] \in Nat /\ Len(outputs[r]) \in Nat
      /\ Len(FullOutput(r)) = k + Len(outputs[r])
      /\ \A j \in 1 .. k : FullOutput(r)[j] = folded[r][j]
  BY FullIs
<1>2. p < nPrompt[r] + k
  BY DEF PromptLen
<1>3. CASE p < nPrompt[r]
  BY <1>3 DEF PromptAt
<1>4. CASE ~(p < nPrompt[r])
  <2> HIDE DEF k
  <2>1. i \in 1 .. k /\ i \in 1 .. Len(FullOutput(r))
    BY <1>1, <1>2, <1>4
  <2>2. FullOutput(r)[i].at = nPrompt[r] + i - 1
    BY <2>1 DEF Goes, OnItsWay
  <2>3. folded[r][i].at = p
    BY <1>1, <2>1, <2>2
  <2>4. QED
    BY <1>4, <2>3 DEF PromptAt
<1>5. QED
  BY <1>3, <1>4

\* Appending the next ids in order.
LEMMA CountsOn ==
  ASSUME NEW ids, NEW n \in Nat, Counts(ids, n), NEW more \in Seq(Int), NEW m \in Nat,
         Len(more) = m, \A j \in 1 .. m : more[j] = n + j - 1
  PROVE  Counts(ids \o more, n + m)
<1>1. /\ ids \o more \in Seq(Int)
      /\ Len(ids \o more) = n + m
      /\ \A p \in 1 .. n : (ids \o more)[p] = p - 1
  BY DEF Counts
<1>2. ASSUME NEW p \in n + 1 .. n + m
      PROVE  (ids \o more)[p] = p - 1
  <2>1. (ids \o more)[p] = more[p - n] /\ p - n \in 1 .. m
    BY DEF Counts
  <2>2. QED
    BY <2>1
<1>3. \A p \in 1 .. n + m : p \in 1 .. n \/ p \in n + 1 .. n + m
  OBVIOUS
<1> DEFINE all == ids \o more
<1>4. \A p \in 1 .. n + m : all[p] = p - 1
  BY <1>1, <1>2, <1>3
<1>5. all \in Seq(Int) /\ Len(all) = n + m
  BY <1>1
<1> HIDE DEF all
<1>6. Counts(all, n + m)
  BY <1>4, <1>5 DEF Counts
<1>7. QED
  BY <1>6 DEF all

\* A running sequence is fed its newest token at its own place ...
LEMMA DecodeFeedsNext ==
  ASSUME IInv, Planned, BInv, NEW it \in ToSet(running)
  PROVE  /\ Fed(it.slot) = <<cache.lens[it.slot]>>
         /\ cache.lens[it.slot] + 1 = PromptLen(it.req) + Len(outputs[it.req])
<1> DEFINE r == it.req
           o == outputs[r]
           n == Len(o)
           k == Len(folded[r])
<1>1. r \in Reqs /\ o # <<>> /\ o \in Seq(Token)
  <2>1. it \in Items
    BY PlanApart
  <2>2. QED
    BY <2>1 DEF Items, IInv, RequestsFit, TypeOK
<1>2. TypeOK /\ Goes(r) /\ cache.lens[it.slot] = PromptLen(r) + n - 1
  BY <1>1 DEF BInv, Continuing, RunningInPlace, IInv
<1>3. /\ k \in Nat /\ n \in Nat /\ nPrompt[r] \in Nat
      /\ Len(FullOutput(r)) = k + n
      /\ \A i \in 1 .. n : FullOutput(r)[k + i] = o[i]
  BY <1>1, <1>2, FullIs
<1>4. Fed(it.slot) = <<Last(o).at>> /\ Last(o) = o[n]
  BY FedIs DEF Last
<1>5. PromptLen(r) = nPrompt[r] + k
  BY DEF PromptLen
<1>6. n \in 1 .. n
  BY <1>1, <1>3
<1> HIDE DEF n, k, o, r
<1>7. k + n \in 1 .. Len(FullOutput(r)) /\ FullOutput(r)[k + n] = o[n]
  BY <1>3, <1>6
<1>8. o[n].at = nPrompt[r] + (k + n) - 1
  BY <1>2, <1>7 DEF Goes, OnItsWay
<1>9. o[n].at = cache.lens[it.slot]
  BY <1>2, <1>3, <1>5, <1>8
<1>10. cache.lens[it.slot] + 1 = PromptLen(r) + n
  BY <1>2, <1>3, <1>5
<1>11. QED
  BY <1>4, <1>9, <1>10 DEF o, r, n

\* ... and a prompt the next of its tokens.
LEMMA ChunkFeedsNext ==
  ASSUME IInv, Planned, BInv, NEW x \in ToSet(plan.prefill)
  PROVE  /\ Fed(x.slot) = [j \in 1 .. x.chunk |-> cache.lens[x.slot] + j - 1]
         /\ x.chunk \in Nat \ {0}
         /\ cache.lens[x.slot] = computed[x.req]
         /\ cache.lens[x.slot] + x.chunk <= PromptLen(x.req)
<1> DEFINE r == x.req
<1>1. x \in Chunks /\ [slot |-> x.slot, req |-> r] \in ToSet(prefilling)
  BY PlanApart, PlannedItemsAre
<1>2. r \in Reqs /\ x.chunk \in Nat \ {0} /\ TypeOK /\ Goes(r)
  BY <1>1 DEF Chunks, BInv, Continuing, IInv
<1>3. cache.lens[x.slot] = computed[r]
  BY <1>1 DEF BInv, PromptsInPlace
<1>4. computed[r] \in Nat /\ PromptLen(r) \in Nat
  <2>1. computed[r] \in Nat
    BY <1>2 DEF TypeOK
  <2>2. nPrompt[r] \in Nat /\ Len(folded[r]) \in Nat
    BY <1>2, FullIs
  <2>3. PromptLen(r) \in Nat
    BY <2>2 DEF PromptLen
  <2>4. QED
    BY <2>1, <2>3
<1>5. x.chunk <= PromptLen(r) - computed[r]
  <2>1. pc = "planned"
    BY DEF Planned
  <2>2. \E j \in 1 .. Len(prefilling) : x.chunk <= Remaining(x.req)
    BY <2>1 DEF IInv, PlanFollows, Follows
  <2>3. QED
    BY <2>2 DEF Remaining
<1>6. Fed(x.slot) = [j \in 1 .. x.chunk |-> PromptAt(r, computed[r] + j - 1)]
  BY FedIs
<1> HIDE DEF r
<1>7. ASSUME NEW j \in 1 .. x.chunk
      PROVE  PromptAt(r, computed[r] + j - 1) = computed[r] + j - 1
  <2> DEFINE p == computed[r] + j - 1
  <2>1. p \in Nat /\ p < PromptLen(r)
    BY <1>2, <1>4, <1>5
  <2> HIDE DEF p
  <2>2. PromptAt(r, p) = p
    BY <1>2, <2>1, PromptInOrder
  <2>3. QED
    BY <2>2 DEF p
<1>8. Fed(x.slot) = [j \in 1 .. x.chunk |-> computed[r] + j - 1]
  BY <1>6, <1>7
<1>9. computed[r] + x.chunk <= PromptLen(r)
  BY <1>2, <1>4, <1>5
<1>10. QED
  BY <1>2, <1>3, <1>8, <1>9 DEF r

\* After a call the pages of every slot still hold tokens in their places.
LEMMA WrittenInOrder ==
  ASSUME IInv, Planned, BInv, NEW s \in Slots
  PROVE  Counts(Written[s], cache.lens[s] + News[s])
<1> DEFINE n == cache.lens[s]
<1>1. Counts(held[s], n) /\ n \in Nat /\ News[s] \in Nat
  BY NewsIs, GoodTyped DEF BInv, Continuing, IInv
<1>2. Written[s] = IF News[s] = 0 THEN held[s] ELSE held[s] \o Fed(s)
  BY DEF Written
<1>3. ASSUME NEW it \in ToSet(running), it.slot = s
      PROVE  Counts(Written[s], n + News[s])
  <2>1. News[s] = 1 /\ Fed(s) = <<n>>
    BY <1>3, NewsIs, DecodeFeedsNext
  <2> HIDE DEF n
  <2> DEFINE more == <<n>>
  <2>2. more \in Seq(Int) /\ Len(more) = 1 /\ \A j \in 1 .. 1 : more[j] = n + j - 1
    BY <1>1
  <2>3. Written[s] = held[s] \o more
    BY <1>2, <2>1
  <2> HIDE DEF more
  <2>4. Counts(held[s] \o more, n + 1)
    BY <1>1, <2>2, CountsOn
  <2>5. QED
    BY <2>1, <2>3, <2>4
<1>4. ASSUME NEW x \in ToSet(plan.prefill), x.slot = s
      PROVE  Counts(Written[s], n + News[s])
  <2> DEFINE more == [j \in 1 .. x.chunk |-> n + j - 1]
  <2>1. News[s] = x.chunk /\ Fed(s) = more /\ x.chunk \in Nat \ {0}
    BY <1>4, NewsIs, ChunkFeedsNext
  <2> HIDE DEF n
  <2>2. \A j \in 1 .. x.chunk : n + j - 1 \in Int
    BY <1>1, <2>1
  <2>3. more \in Seq(Int) /\ Len(more) = x.chunk /\ \A j \in 1 .. x.chunk : more[j] = n + j - 1
    BY <2>1, <2>2
  <2>4. Written[s] = held[s] \o more
    BY <1>2, <2>1
  <2> HIDE DEF more
  <2>5. Counts(held[s] \o more, n + x.chunk)
    BY <1>1, <2>1, <2>3, CountsOn
  <2>6. QED
    BY <2>1, <2>4, <2>5
<1>5. ASSUME s \notin SlotsIn(ToSet(plan.prefill)), s \notin SlotsIn(ToSet(running))
      PROVE  Counts(Written[s], n + News[s])
  <2>1. News[s] = 0
    BY <1>5, NewsIs
  <2> HIDE DEF n
  <2>2. QED
    BY <1>1, <1>2, <2>1
<1> HIDE DEF n
<1>6. Counts(Written[s], n + News[s])
  BY <1>3, <1>4, <1>5 DEF SlotsIn
<1>7. QED
  BY <1>6 DEF n

-----------------------------------------------------------------------------
(* Committed calls *)

\* A request that is given a token has it for the place after all it has.
LEMMA SampledToken ==
  ASSUME IInv, Planned, BInv, NEW sampled, NEW eos, NEW longer, NEW D,
         CommittedEnd(sampled, eos, longer, D), NEW it \in ToSet(sampled)
  PROVE  /\ it.req \in Reqs /\ it.slot \in Slots
         /\ cache.lens[it.slot] + News[it.slot] = PromptLen(it.req) + Len(outputs[it.req])
         /\ \E token \in Token : /\ token.at = PromptLen(it.req) + Len(outputs[it.req])
                                 /\ longer[it.req] = Append(outputs[it.req], token)
<1> DEFINE r == it.req
           s == it.slot
           n == cache.lens[s] + News[s]
           m == PromptLen(r) + Len(outputs[r])
<1>1. it \in ToSet(running) \/ it \in ToSet(CompletedItems)
  BY DEF CommittedEnd
<1>2. it \in Items
  BY <1>1, PlanApart, CompletedAre, PlannedItemsAre, SeqSet
<1>3. r \in Reqs /\ s \in Slots
  BY <1>2 DEF Items
<1>4. n \in Nat
  BY <1>3, NewsIs, GoodTyped DEF IInv
<1>5. n = m
  <2>1. CASE it \in ToSet(running)
    BY <2>1, NewsIs, DecodeFeedsNext
  <2>2. CASE it \in ToSet(CompletedItems)
    <3>1. it \in ToSet(PlannedItems) /\ it \in ToSet(prefilling) /\ Chunk(s) = Remaining(r)
      BY <2>2, CompletedAre, PlannedItemsAre
    <3>2. PICK x \in ToSet(plan.prefill) : s = x.slot /\ r = x.req
      BY <3>1, PlannedItemsAre
    <3>3. News[s] = Chunk(s) /\ cache.lens[s] = computed[r]
      BY <3>2, NewsIs, ChunkIs, ChunkFeedsNext
    <3>4. outputs[r] = <<>>
      BY <3>1 DEF IInv, RequestsFit
    <3>5. computed[r] \in Nat /\ nPrompt[r] \in Nat /\ Len(folded[r]) \in Nat
      <4>1. TypeOK
        BY DEF IInv
      <4>2. computed[r] \in Nat
        BY <1>3, <4>1 DEF TypeOK
      <4>3. QED
        BY <1>3, <4>1, <4>2, FullIs
    <3>6. PromptLen(r) \in Nat /\ Len(outputs[r]) = 0
      BY <3>4, <3>5 DEF PromptLen
    <3>7. QED
      BY <3>1, <3>3, <3>5, <3>6 DEF Remaining
  <2>3. QED
    BY <1>1, <2>1, <2>2
<1>6. Counts(Written[s], n)
  BY <1>3, WrittenInOrder
<1> HIDE DEF n, m
<1>7. Predict(Written[s]) = n
  BY <1>4, <1>6, PredictIs
<1> DEFINE token == [at |-> Predict(Written[s]), eos |-> eos[s]]
<1>8. LongerFits(sampled, eos, longer)
  BY DEF CommittedEnd
<1>9. longer[r] = Append(outputs[r], token) /\ token \in Token
  BY <1>8 DEF LongerFits
<1>10. token.at = m
  BY <1>5, <1>7
<1> HIDE DEF token
<1>11. \E t \in Token : t.at = m /\ longer[r] = Append(outputs[r], t)
  BY <1>9, <1>10
<1>12. QED
  BY <1>3, <1>5, <1>11 DEF n, m, r, s

\* What it has then continues its prompt, and ends exactly if it is finished.
LEMMA OneMore ==
  ASSUME TypeOK, NEW r \in Reqs, Goes(r), NEW token \in Token,
         token.at = PromptLen(r) + Len(outputs[r]), NEW out, out = Append(outputs[r], token)
  PROVE  /\ ~IsFinished(r, out) => OnItsWay(nPrompt[r], maxTokens[r], folded[r] \o out)
         /\ IsFinished(r, out) => AtItsEnd(nPrompt[r], maxTokens[r], folded[r] \o out)
         /\ Len(out) = Len(outputs[r]) + 1
<1> DEFINE f == folded[r]
           o == outputs[r]
           g == FullOutput(r)
           t == f \o out
           n == Len(f) + Len(o)
           np == nPrompt[r]
           mt == maxTokens[r]
<1>1. f \in Seq(Token) /\ o \in Seq(Token) /\ np \in Nat /\ mt \in Nat
  BY DEF TypeOK
<1>2. g = f \o o /\ token.at = np + Len(f) + Len(o) /\ out = Append(o, token)
  BY DEF FullOutput, PromptLen
<1>3. OnItsWay(np, mt, g)
  BY DEF Goes
<1>4. IsFinished(r, out) <=> Len(f) + Len(out) >= mt \/ Last(out).eos
  BY DEF IsFinished
<1> HIDE DEF f, o, g, t, n, np, mt
<1>5. /\ Len(f) \in Nat /\ Len(o) \in Nat /\ n \in Nat
      /\ Len(out) = Len(o) + 1 /\ Last(out) = token
      /\ Len(t) = n + 1 /\ Len(g) = n
      /\ \A i \in 1 .. n : t[i] = g[i]
      /\ t[n + 1] = token
  <2>1. /\ out \in Seq(Token) /\ Len(out) = Len(o) + 1 /\ out[Len(o) + 1] = token
        /\ \A i \in 1 .. Len(o) : out[i] = o[i]
        /\ Len(f) \in Nat /\ Len(o) \in Nat
    BY <1>1, <1>2
  <2>2. Last(out) = token
    BY <2>1 DEF Last
  <2> HIDE DEF IsFinished
  <2>3. /\ Len(t) = Len(f) + Len(out)
        /\ \A i \in 1 .. Len(f) : t[i] = f[i]
        /\ \A i \in Len(f) + 1 .. Len(f) + Len(out) : t[i] = out[i - Len(f)]
    <3>1. f \in Seq(Token) /\ out \in Seq(Token)
      BY <1>1, <2>1
    <3>2. /\ Len(f \o out) = Len(f) + Len(out)
          /\ \A i \in 1 .. Len(f) : (f \o out)[i] = f[i]
          /\ \A i \in Len(f) + 1 .. Len(f) + Len(out) : (f \o out)[i] = out[i - Len(f)]
      BY ONLY <3>1, ConcatSet
    <3>3. QED
      BY <3>2 DEF t
  <2>4. /\ Len(g) = Len(f) + Len(o)
        /\ \A i \in 1 .. Len(f) : g[i] = f[i]
        /\ \A i \in Len(f) + 1 .. Len(f) + Len(o) : g[i] = o[i - Len(f)]
    BY <1>1, <1>2, ConcatSet
  <2>5. ASSUME NEW i \in 1 .. n
        PROVE  t[i] = g[i]
    <3>1. CASE i \in 1 .. Len(f)
      BY <2>3, <2>4, <3>1
    <3>2. CASE i \in Len(f) + 1 .. Len(f) + Len(o)
      <4>1. i - Len(f) \in 1 .. Len(o)
        BY <2>1, <3>2
      <4>2. i \in Len(f) + 1 .. Len(f) + Len(out)
        BY <2>1, <3>2
      <4>3. QED
        BY <2>1, <2>3, <2>4, <3>2, <4>1, <4>2
    <3>3. QED
      BY <2>1, <3>1, <3>2 DEF n
  <2>6. t[n + 1] = token
    <3> DEFINE k == n + 1
    <3>1. k \in Len(f) + 1 .. Len(f) + Len(out) /\ k - Len(f) = Len(o) + 1
      BY <2>1 DEF n
    <3> HIDE DEF k
    <3>2. t[k] = out[k - Len(f)]
      BY <2>3, <3>1
    <3>3. t[k] = token
      BY <2>1, <3>1, <3>2
    <3>4. QED
      BY <3>3 DEF k
  <2>7. QED
    BY <2>1, <2>2, <2>3, <2>4, <2>5, <2>6 DEF n
<1>6. token.at = np + (n + 1) - 1
  BY <1>1, <1>2, <1>5 DEF n
<1>7. IsFinished(r, out) <=> n + 1 >= mt \/ token.eos
  BY <1>4, <1>5 DEF n
<1>8. \A i \in 1 .. Len(t) : t[i].at = np + i - 1
  <2>1. ASSUME NEW i \in 1 .. n
        PROVE  t[i].at = np + i - 1
    BY <1>3, <1>5 DEF OnItsWay
  <2>2. \A i \in 1 .. Len(t) : i \in 1 .. n \/ i = n + 1
    BY <1>5
  <2>3. QED
    BY <1>5, <1>6, <2>1, <2>2
<1>9. \A i \in 1 .. n : ~t[i].eos /\ i < mt
  BY <1>3, <1>5 DEF OnItsWay
<1>10. ASSUME ~IsFinished(r, out)
       PROVE  OnItsWay(np, mt, t)
  <2>1. ~token.eos /\ n + 1 < mt
    BY <1>1, <1>5, <1>7, <1>10
  <2>2. \A i \in 1 .. Len(t) : i \in 1 .. n \/ i = n + 1
    BY <1>5
  <2>3. \A i \in 1 .. Len(t) : ~t[i].eos /\ i < mt
    BY <1>5, <1>9, <2>1, <2>2
  <2>4. QED
    BY <1>8, <2>3 DEF OnItsWay
<1>11. ASSUME IsFinished(r, out)
       PROVE  AtItsEnd(np, mt, t)
  <2>1. \A i \in 1 .. Len(t) : i \in 1 .. n \/ i = n + 1
    BY <1>5
  <2>2. token.eos \/ n + 1 >= mt
    BY <1>7, <1>11
  <2>3. \A i \in 1 .. n : ~t[i].eos /\ ~(i >= mt) /\ i # Len(t)
    BY <1>1, <1>5, <1>9
  <2>4. ASSUME NEW i \in 1 .. Len(t)
        PROVE  (t[i].eos \/ i >= mt) <=> i = Len(t)
    <3>1. CASE i \in 1 .. n
      BY <2>3, <3>1
    <3>2. CASE i = n + 1
      BY <1>5, <2>2, <3>2
    <3>3. QED
      BY <2>1, <3>1, <3>2
  <2>5. QED
    BY <1>8, <2>4 DEF AtItsEnd
<1>12. QED
  BY <1>5, <1>10, <1>11 DEF f, o, t, np, mt

\* The requests of a committed call.
LEMMA CommittedAnswers ==
  ASSUME IInv, Planned, BInv, NEW sampled, NEW eos, NEW longer, NEW D,
         CommittedEnd(sampled, eos, longer, D)
  PROVE  /\ \A r \in Reqs : Goes(r)'
         /\ \A f \in finished' : Answered(f)'
<1>1. /\ nPrompt' = nPrompt /\ maxTokens' = maxTokens
      /\ outputs' = [r \in Reqs |-> IF r \in ReqsIn(D) THEN <<>> ELSE longer[r]]
      /\ folded' = [r \in Reqs |-> IF r \in ReqsIn(D) THEN <<>> ELSE folded[r]]
      /\ finished' = finished \cup {[id |-> r, out |-> folded[r] \o longer[r]] : r \in ReqsIn(D)}
      /\ \A r \in Reqs : r \notin ReqsIn(ToSet(sampled)) => longer[r] = outputs[r]
      /\ D \subseteq ToSet(sampled)
      /\ \A it \in ToSet(sampled) : it \in D <=> IsFinished(it.req, longer[it.req])
  BY DEF CommittedEnd, LongerFits
<1>2. TypeOK /\ (\A r \in Reqs : Goes(r)) /\ (\A f \in finished : Answered(f))
  BY DEF IInv, BInv, Continuing
<1>3. ASSUME NEW it \in ToSet(sampled)
      PROVE  /\ it.req \in Reqs
             /\ it \notin D => OnItsWay(nPrompt[it.req], maxTokens[it.req],
                                        folded[it.req] \o longer[it.req])
             /\ it \in D => AtItsEnd(nPrompt[it.req], maxTokens[it.req],
                                     folded[it.req] \o longer[it.req])
  <2> DEFINE r == it.req
             out == longer[r]
  <2>1. r \in Reqs
    BY SampledToken
  <2>2. PICK token \in Token : token.at = PromptLen(r) + Len(outputs[r])
                               /\ out = Append(outputs[r], token)
    BY SampledToken
  <2>3. it \in D <=> IsFinished(r, out)
    BY <1>1
  <2>4. Goes(r)
    BY <1>2, <2>1
  <2> HIDE DEF r, out
  <2>5. /\ ~IsFinished(r, out) => OnItsWay(nPrompt[r], maxTokens[r], folded[r] \o out)
        /\ IsFinished(r, out) => AtItsEnd(nPrompt[r], maxTokens[r], folded[r] \o out)
    BY <1>2, <2>1, <2>2, <2>4, OneMore
  <2>6. QED
    BY <2>1, <2>3, <2>5 DEF r, out
<1>4. ASSUME NEW r \in Reqs
      PROVE  OnItsWay(nPrompt'[r], maxTokens'[r], folded'[r] \o outputs'[r])
  <2>1. CASE r \in ReqsIn(D)
    <3>1. folded'[r] = <<>> /\ outputs'[r] = <<>> /\ Len(<<>> \o <<>>) = 0
      BY <1>1, <2>1, ConcatEmptySeq
    <3>2. QED
      BY <3>1 DEF OnItsWay
  <2>2. CASE r \notin ReqsIn(D) /\ r \in ReqsIn(ToSet(sampled))
    <3>1. PICK it \in ToSet(sampled) : it.req = r
      BY <2>2 DEF ReqsIn
    <3>2. it \notin D
      BY <2>2, <3>1 DEF ReqsIn
    <3>3. folded'[r] = folded[r] /\ outputs'[r] = longer[r]
      BY <1>1, <2>2
    <3>4. QED
      BY <1>1, <1>3, <3>1, <3>2, <3>3
  <2>3. CASE r \notin ReqsIn(D) /\ r \notin ReqsIn(ToSet(sampled))
    <3>1. folded'[r] = folded[r] /\ outputs'[r] = outputs[r]
      BY <1>1, <2>3
    <3>2. OnItsWay(nPrompt[r], maxTokens[r], folded[r] \o outputs[r])
      BY <1>2 DEF Goes, FullOutput
    <3>3. QED
      BY <1>1, <3>1, <3>2
  <2>4. QED
    BY <2>1, <2>2, <2>3
<1>5. \A r \in Reqs : Goes(r)'
  BY <1>4 DEF Goes, FullOutput
<1>6. ASSUME NEW f \in finished'
      PROVE  AtItsEnd(nPrompt'[f.id], maxTokens'[f.id], f.out)
  <2>1. CASE f \in finished
    BY <1>1, <1>2, <2>1 DEF Answered
  <2>2. CASE f \notin finished
    <3>1. PICK r \in ReqsIn(D) : f = [id |-> r, out |-> folded[r] \o longer[r]]
      BY <1>1, <2>2
    <3>2. PICK it \in D : it.req = r
      BY DEF ReqsIn
    <3>3. it \in ToSet(sampled)
      BY <1>1
    <3>4. QED
      BY <1>1, <1>3, <3>1, <3>2, <3>3
  <2>3. QED
    BY <2>1, <2>2
<1>7. \A f \in finished' : Answered(f)'
  BY <1>6 DEF Answered
<1>8. QED
  BY <1>5, <1>7

\* A committed call leaves the cache where the running requests think it is.
LEMMA CommittedMatches ==
  ASSUME IInv, Planned, BInv, NEW sampled, NEW eos, NEW longer, NEW D,
         CommittedEnd(sampled, eos, longer, D)
  PROVE  RunningInPlace'
<1> DEFINE C == ToSet(CompletedItems)
           R == ToSet(running)
           P == ToSet(prefilling)
<1>1. /\ ToSet(sampled) = R \cup C
      /\ D \subseteq R \cup C
      /\ outputs' = [r \in Reqs |-> IF r \in ReqsIn(D) THEN <<>> ELSE longer[r]]
      /\ folded' = [r \in Reqs |-> IF r \in ReqsIn(D) THEN <<>> ELSE folded[r]]
      /\ nPrompt' = nPrompt
      /\ ToSet(running') = (R \cup C) \ D
      /\ \A s \in Slots :
           cache'.lens[s] = IF s \in SlotsIn(D) THEN 0 ELSE cache.lens[s] + News[s]
  BY DEF CommittedEnd
<1>2. Apart(P \cup R) /\ C \subseteq P
  BY BusyApart, CompletedAre, PlannedItemsAre DEF Planned
<1>3. TypeOK
  BY DEF IInv
<1>4. \A it \in P \cup R : it \notin D => it.slot \notin SlotsIn(D) /\ it.req \notin ReqsIn(D)
  <2> HIDE DEF P, R, C
  <2>1. QED
    BY <1>1, <1>2 DEF Apart, SlotsIn, ReqsIn
<1> HIDE DEF P, C, R
<1>7. ASSUME NEW it \in ToSet(running')
      PROVE  /\ outputs'[it.req] # <<>>
             /\ cache'.lens[it.slot]
                   = nPrompt'[it.req] + Len(folded'[it.req]) + Len(outputs'[it.req]) - 1
  <2> DEFINE r == it.req
             n == Len(outputs[r])
  <2>1. it \in ToSet(sampled) /\ it \notin D /\ it \in P \cup R
    BY <1>1, <1>2, <1>7
  <2>2. it.slot \notin SlotsIn(D) /\ r \notin ReqsIn(D)
    BY <1>4, <2>1
  <2>3. /\ r \in Reqs /\ it.slot \in Slots
        /\ cache.lens[it.slot] + News[it.slot] = PromptLen(r) + n
    BY <2>1, SampledToken
  <2>4. PICK token \in Token : token.at = PromptLen(r) + n /\ longer[r] = Append(outputs[r], token)
    BY <2>1, SampledToken
  <2>5. outputs'[r] = longer[r] /\ folded'[r] = folded[r]
    BY <1>1, <2>2, <2>3
  <2>6. outputs[r] \in Seq(Token)
    BY <1>3, <2>3 DEF TypeOK
  <2> HIDE DEF r
  <2>7. n \in Nat /\ Len(longer[r]) = n + 1 /\ longer[r] # <<>>
    BY <2>4, <2>6
  <2>8. cache'.lens[it.slot] = PromptLen(r) + n
    BY <1>1, <2>2, <2>3
  <2>9. nPrompt[r] \in Nat /\ Len(folded[r]) \in Nat
    BY <1>3, <2>3, FullIs
  <2> HIDE DEF n
  <2>10. /\ outputs'[r] # <<>>
         /\ cache'.lens[it.slot] = nPrompt'[r] + Len(folded'[r]) + Len(outputs'[r]) - 1
    BY <1>1, <2>5, <2>7, <2>8, <2>9 DEF PromptLen
  <2>11. QED
    BY <2>10 DEF r
<1>8. QED
  BY <1>7 DEF RunningInPlace, PromptLen

\* A committed call keeps places and answers.
LEMMA CommittedKeeps ==
  ASSUME IInv, Planned, BInv, NEW sampled, NEW eos, NEW longer, NEW D,
         CommittedEnd(sampled, eos, longer, D)
  PROVE  Continuing'
<1>1. RunningInPlace' /\ (\A r \in Reqs : Goes(r)') /\ (\A f \in finished' : Answered(f)')
  BY CommittedMatches, CommittedAnswers
<1>2. ASSUME NEW s \in Slots
      PROVE  Counts(held'[s], cache'.lens[s])
  <2>1. /\ cache'.lens[s] = IF s \in SlotsIn(D) THEN 0 ELSE cache.lens[s] + News[s]
        /\ held'[s] = IF s \in SlotsIn(D) THEN <<>> ELSE Written[s]
    BY DEF CommittedEnd
  <2>2. Counts(Written[s], cache.lens[s] + News[s])
    BY WrittenInOrder
  <2>3. Counts(<<>>, 0)
    BY DEF Counts
  <2>4. QED
    BY <2>1, <2>2, <2>3
<1>3. QED
  BY <1>1, <1>2 DEF Continuing

\* A call that is rolled back leaves it there too.
LEMMA RolledKeeps ==
  ASSUME IInv, Planned, BInv, RolledEnd
  PROVE  Continuing'
<1> DEFINE U == ToSet(PlannedItems)
<1>1. /\ outputs' = outputs /\ folded' = folded /\ finished' = finished
      /\ nextId' = nextId /\ nPrompt' = nPrompt /\ maxTokens' = maxTokens
      /\ ToSet(running') = ToSet(running)
      /\ \A s \in Slots : /\ cache'.lens[s] = IF s \in SlotsIn(U) THEN 0 ELSE cache.lens[s]
                          /\ held'[s] = IF s \in SlotsIn(U) THEN <<>> ELSE held[s]
  BY DEF RolledEnd
<1>2. /\ RunningInPlace
      /\ \A s \in Slots : Counts(held[s], cache.lens[s])
      /\ \A r \in Reqs : Goes(r)
      /\ \A f \in finished : Answered(f)
  BY DEF BInv, Continuing
<1>3. SlotsIn(U) \cap SlotsIn(ToSet(running)) = {}
  BY PlanApart, PlannedItemsAre
<1> HIDE DEF U
<1>6. ASSUME NEW it \in ToSet(running')
      PROVE  /\ outputs'[it.req] # <<>>
             /\ cache'.lens[it.slot] = nPrompt'[it.req] + Len(folded'[it.req]) + Len(outputs'[it.req]) - 1
  <2>1. it \in ToSet(running)
    BY <1>1
  <2>2. it.slot \in Slots /\ it.slot \notin SlotsIn(U)
    BY <1>3, <2>1, PlanApart DEF Items, SlotsIn
  <2>3. /\ outputs[it.req] # <<>>
        /\ cache.lens[it.slot] = nPrompt[it.req] + Len(folded[it.req]) + Len(outputs[it.req]) - 1
    BY <1>2, <2>1 DEF RunningInPlace, PromptLen
  <2>4. QED
    BY <1>1, <2>2, <2>3
<1>8. RunningInPlace'
  BY <1>6 DEF RunningInPlace, PromptLen
<1>9. ASSUME NEW s \in Slots
      PROVE  Counts(held'[s], cache'.lens[s])
  <2>1. Counts(<<>>, 0)
    BY DEF Counts
  <2>2. QED
    BY <1>1, <1>2, <2>1
<1>10. \A r \in Reqs : Goes(r)'
  BY <1>1, <1>2 DEF Goes, FullOutput
<1>11. \A f \in finished' : Answered(f)'
  BY <1>1, <1>2 DEF Answered
<1>12. QED
  BY <1>8, <1>9, <1>10, <1>11 DEF Continuing

\* They hold at first ...
LEMMA FreshMatches ==
  ASSUME Fresh
  PROVE  Continuing
<1>1. /\ folded = [r \in Reqs |-> <<>>]
      /\ outputs = [r \in Reqs |-> <<>>]
      /\ running = <<>> /\ finished = {}
      /\ cache = KV!Empty
      /\ held = [s \in Slots |-> <<>>]
  BY DEF Fresh
<1>3. ASSUME NEW r \in Reqs
      PROVE  Goes(r)
  <2>1. FullOutput(r) = <<>> \o <<>> /\ Len(<<>> \o <<>>) = 0
    BY <1>1, ConcatEmptySeq DEF FullOutput
  <2>2. QED
    BY <2>1 DEF Goes, OnItsWay
<1>4. \A s \in Slots : cache.lens[s] = 0
  BY <1>1, EmptyGood
<1>5. \A s \in Slots : Counts(held[s], cache.lens[s])
  <2>1. Counts(<<>>, 0)
    BY DEF Counts
  <2>2. QED
    BY <1>1, <1>4, <2>1
<1>6. ToSet(running) = {}
  BY <1>1, NoItems
<1>7. QED
  BY <1>1, <1>3, <1>5, <1>6 DEF Continuing, RunningInPlace

\* ... after a reset ...
LEMMA ResetMatches ==
  ASSUME IInv, Reset
  PROVE  Continuing'
<1>1. Fresh'
  BY DEF Reset, Fresh, IInv, PlanFollows
<1>2. QED
  BY <1>1, FreshMatches, PTL

\* ... when a request is added ...
LEMMA AddRequestMatches ==
  ASSUME IInv, BInv, NEW shape \in Shapes, AddRequest(shape)
  PROVE  Continuing'
<1> DEFINE N == nextId
<1>1. /\ nPrompt' = [nPrompt EXCEPT ![N] = shape[1]]
      /\ maxTokens' = [maxTokens EXCEPT ![N] = shape[2]]
      /\ UNCHANGED <<folded, outputs, computed, prefilling, running, freeSlots, finished, cache, held>>
  BY DEF AddRequest, tokenVars
<1>2. TypeOK /\ Placed /\ RequestsFit
  BY DEF IInv
<1>3. /\ N \in Nat /\ N >= N
      /\ \A f \in finished : f.id # N
      /\ \A it \in ToSet(running) : it.req # N
      /\ \A it \in ToSet(prefilling) : it.req # N
  <2>1. N \in Nat
    BY <1>2 DEF TypeOK
  <2>2. /\ Ids(finished) \subseteq 0 .. (N - 1)
        /\ ReqsIn(ToSet(prefilling)) \subseteq 0 .. (N - 1)
        /\ ReqsIn(ToSet(running)) \subseteq 0 .. (N - 1)
    BY <1>2 DEF Placed, Parts
  <2> HIDE DEF N
  <2>3. N \notin 0 .. (N - 1) /\ N >= N
    BY <2>1
  <2>4. QED
    BY <2>1, <2>2, <2>3 DEF Ids, ReqsIn
<1>4. \A r \in Reqs : r # N => nPrompt'[r] = nPrompt[r] /\ maxTokens'[r] = maxTokens[r]
  BY <1>1, <1>2 DEF TypeOK
<1>5. ASSUME NEW r \in Reqs
      PROVE  OnItsWay(nPrompt'[r], maxTokens'[r], folded[r] \o outputs[r])
  <2>1. CASE r = N
    <3>1. folded[r] = <<>> /\ outputs[r] = <<>> /\ Len(<<>> \o <<>>) = 0
      BY <1>2, <1>3, <2>1, ConcatEmptySeq DEF RequestsFit
    <3>2. QED
      BY <3>1 DEF OnItsWay
  <2>2. CASE r # N
    BY <1>4, <2>2 DEF BInv, Continuing, Goes, FullOutput
  <2>3. QED
    BY <2>1, <2>2
<1>6. \A r \in Reqs : Goes(r)'
  BY <1>1, <1>5 DEF Goes, FullOutput
<1>7. ASSUME NEW f \in finished
      PROVE  AtItsEnd(nPrompt'[f.id], maxTokens'[f.id], f.out)
  <2>1. f.id \in Reqs /\ f.id # N
    BY <1>2, <1>3 DEF TypeOK
  <2>2. QED
    BY <1>4, <2>1 DEF BInv, Continuing, Answered
<1>8. \A f \in finished' : Answered(f)'
  BY <1>1, <1>7 DEF Answered
<1>9. RunningInPlace'
  <2>1. ASSUME NEW it \in ToSet(running)
        PROVE  cache.lens[it.slot] = nPrompt'[it.req] + Len(folded[it.req]) + Len(outputs[it.req]) - 1
    <3>1. it.req \in Reqs /\ it.req # N
      <4>1. running \in Seq(Items)
        BY <1>2 DEF TypeOK
      <4>2. it \in Items
        BY <4>1, SeqSet
      <4>3. QED
        BY <1>3, <4>2 DEF Items
    <3>2. QED
      BY <1>4, <3>1 DEF BInv, Continuing, RunningInPlace, PromptLen
  <2>2. QED
    BY <1>1, <2>1 DEF BInv, Continuing, RunningInPlace, PromptLen
<1>10. \A s \in Slots : Counts(held'[s], cache'.lens[s])
  BY <1>1 DEF BInv, Continuing
<1>11. QED
  BY <1>6, <1>8, <1>9, <1>10 DEF Continuing

\* Nothing changes that this is about.
LEMMA UnchangedMatches ==
  ASSUME BInv, UNCHANGED <<nPrompt, maxTokens, folded, outputs, running, finished, cache, held>>
  PROVE  Continuing'
<1>1. RunningInPlace'
  BY DEF BInv, Continuing, RunningInPlace, PromptLen
<1>2. \A r \in Reqs : Goes(r)'
  BY DEF BInv, Continuing, Goes, FullOutput
<1>3. \A f \in finished' : Answered(f)'
  BY DEF BInv, Continuing, Answered
<1>4. \A s \in Slots : Counts(held'[s], cache'.lens[s])
  BY DEF BInv, Continuing
<1>5. QED
  BY <1>1, <1>2, <1>3, <1>4 DEF Continuing

\* ... when a step is planned ...
LEMMA PlanIterationMatches ==
  ASSUME IInv, BInv, PlanIteration
  PROVE  Continuing'
<1> DEFINE count == Count
<1>1. Joining(count)
  BY PlanJoins
<1> HIDE DEF count
<1>2. UNCHANGED <<nPrompt, maxTokens, folded, outputs, running, finished, cache, held>>
  BY <1>1 DEF Joining
<1>3. QED
  BY <1>2, UnchangedMatches

\* ... and when a sequence is evicted, whose output goes into its prompt.
LEMMA PreemptMatches ==
  ASSUME IInv, BInv, Preempt
  PROVE  Continuing'
<1> DEFINE v == Last(running)
           w == v.req
           u == v.slot
<1>0. TypeOK /\ Placed /\ RequestsFit /\ Good(cache) /\ RunningInPlace
  BY DEF IInv, BInv, Continuing
<1>1. /\ v \in ToSet(running) /\ u \in Slots /\ w \in Reqs
      /\ ToSet(running') = ToSet(running) \ {v}
  BY VictimIs
<1>2. /\ cache' = KV!Freed(cache, u)
      /\ held' = [held EXCEPT ![u] = <<>>]
      /\ folded' = [folded EXCEPT ![w] = @ \o outputs[w]]
      /\ outputs' = [outputs EXCEPT ![w] = <<>>]
      /\ UNCHANGED <<nPrompt, maxTokens, finished>>
  BY DEF Preempt, EndStep, Refold, requestVars
<1>3. \A it \in ToSet(running') : it.slot # u /\ it.req # w
  <2>1. Apart(ToSet(running))
    BY <1>0 DEF Placed, ListsUnique, Unique
  <2> HIDE DEF v
  <2>2. QED
    BY <1>1, <2>1 DEF Apart
<1> HIDE DEF v, w, u
<1>4. /\ \A s \in Slots : cache'.lens[s] = IF s = u THEN 0 ELSE cache.lens[s]
      /\ \A s \in Slots : held'[s] = IF s = u THEN <<>> ELSE held[s]
  <2>1. cache'.lens = [cache.lens EXCEPT ![u] = 0]
    BY <1>0, <1>1, <1>2, FreedGood
  <2>2. cache.lens \in [Slots -> Nat] /\ held \in [Slots -> Seq(Int)]
    BY <1>0, GoodTyped DEF TypeOK
  <2>3. QED
    BY <1>1, <1>2, <2>1, <2>2
<1>5. /\ \A r \in Reqs : r # w => folded'[r] = folded[r] /\ outputs'[r] = outputs[r]
      /\ folded'[w] = folded[w] \o outputs[w] /\ outputs'[w] = <<>>
  <2>1. folded \in [Reqs -> Seq(Token)] /\ outputs \in [Reqs -> Seq(Token)]
    BY <1>0 DEF TypeOK
  <2>2. QED
    BY <1>1, <1>2, <2>1
<1>6. ASSUME NEW r \in Reqs
      PROVE  OnItsWay(nPrompt[r], maxTokens[r], folded'[r] \o outputs'[r])
  <2>1. OnItsWay(nPrompt[r], maxTokens[r], folded[r] \o outputs[r])
    BY DEF BInv, Continuing, Goes, FullOutput
  <2>2. CASE r = w
    <3>1. folded[w] \o outputs[w] \in Seq(Token)
      BY <1>0, <1>1 DEF TypeOK
    <3> DEFINE more == folded[w] \o outputs[w]
    <3>2. more \o <<>> = more
      BY <3>1, ConcatEmptySeq
    <3>3. QED
      BY <1>5, <2>1, <2>2, <3>2
  <2>3. CASE r # w
    BY <1>5, <2>1, <2>3
  <2>4. QED
    BY <2>2, <2>3
<1>7. \A r \in Reqs : Goes(r)'
  BY <1>2, <1>6 DEF Goes, FullOutput
<1>8. \A f \in finished' : Answered(f)'
  BY <1>2 DEF BInv, Continuing, Answered
<1>9. ASSUME NEW s \in Slots
      PROVE  Counts(held'[s], cache'.lens[s])
  <2>1. Counts(<<>>, 0)
    BY DEF Counts
  <2>2. QED
    BY <1>4, <2>1 DEF BInv, Continuing
<1>11. ASSUME NEW it \in ToSet(running')
       PROVE  /\ outputs'[it.req] # <<>>
              /\ cache'.lens[it.slot]
                    = nPrompt'[it.req] + Len(folded'[it.req]) + Len(outputs'[it.req]) - 1
  <2>1. it \in ToSet(running)
    BY <1>1
  <2>2. it.slot \in Slots /\ it.req \in Reqs
    <3>1. running \in Seq(Items)
      BY <1>0 DEF TypeOK
    <3>2. it \in Items
      BY <2>1, <3>1, SeqSet
    <3>3. QED
      BY <3>2 DEF Items
  <2>3. /\ outputs[it.req] # <<>>
        /\ cache.lens[it.slot] = nPrompt[it.req] + Len(folded[it.req]) + Len(outputs[it.req]) - 1
    BY <1>0, <2>1 DEF RunningInPlace, PromptLen
  <2>4. it.slot # u /\ it.req # w
    BY <1>3 DEF u, w
  <2>5. QED
    BY <1>2, <1>4, <1>5, <2>2, <2>3, <2>4
<1>12. RunningInPlace'
  BY <1>11 DEF RunningInPlace, PromptLen
<1>13. QED
  BY <1>7, <1>8, <1>9, <1>12 DEF Continuing

\* Every step keeps them, if none fails late.
LEMMA StepMatches ==
  ASSUME "late" \notin Failures, IInv, BInv, [Next]_vars
  PROVE  BInv'
<1>1. ASSUME NEW shape \in Shapes, AddRequest(shape)
      PROVE  Continuing'
  BY <1>1, AddRequestMatches
<1>2. ASSUME Reset
      PROVE  Continuing'
  BY <1>2, ResetMatches
<1>3. ASSUME PlanIteration
      PROVE  Continuing'
  BY <1>3, PlanIterationMatches
<1>4. ASSUME Called
      PROVE  Continuing'
  <2>1. Planned
    BY <1>4, CallEndsHow
  <2>2. PICK c, sampled, started, eos, failed : Ends(c, sampled, started, eos, failed)
    BY <1>4, CallEndsHow
  <2>3. /\ Ending(c, sampled, started, eos, failed) /\ Outcome(c, sampled, started, eos, failed)
        /\ Grows(c, started, failed) /\ Regular(sampled, failed)
    BY <2>2 DEF Ends
  <2>4. RolledEnd \/ \E longer, D : CommittedEnd(sampled, eos, longer, D)
    BY <2>1, <2>3, RegularEnds
  <2>5. QED
    BY <2>1, <2>4, RolledKeeps, CommittedKeeps
<1>5. ASSUME EmptyStep
      PROVE  Continuing'
  BY <1>5, UnchangedMatches DEF EmptyStep, requestVars, tokenVars, queueVars
<1>6. ASSUME Preempt
      PROVE  Continuing'
  BY <1>6, PreemptMatches
<1>7. ASSUME UNCHANGED vars
      PROVE  Continuing'
  BY <1>7, UnchangedMatches DEF vars, requestVars, tokenVars, queueVars
<1>8. Continuing'
  BY <1>1, <1>2, <1>3, <1>4, <1>5, <1>6, <1>7 DEF Next, Client, Step, Failure, Called
<1>9. PromptsInPlace'
  BY PromptsStayInPlace DEF BInv
<1>10. QED
  BY <1>8, <1>9 DEF BInv

\* So they always hold then.
LEMMA AlwaysBInv ==
  ASSUME "late" \notin Failures
  PROVE  Spec => []BInv
<1>1. Init => BInv
  BY FreshMatches, FreshInPlace DEF Init, Fresh, BInv
<1>2. IInv /\ BInv /\ [Next]_vars => BInv'
  BY StepMatches
<1>3. QED
  BY <1>1, <1>2, AlwaysIInv, PTL DEF Spec

\* Unless a step fails after its forward, the cache is always where the requests think it
\* is: a prompt has its computed tokens in it, a running request all but its newest token,
\* so step feeds every token at its own position.
THEOREM CacheFollowsRequests ==
  ASSUME "late" \notin Failures
  PROVE  Spec => []CacheMatchesRequests
<1>1. BInv => CacheMatchesRequests
  BY DEF BInv, Continuing, PromptsInPlace, RunningInPlace, CacheMatchesRequests
<1>2. QED
  BY <1>1, AlwaysBInv, PTL

\* Unless a step fails after its forward, every answer continues its own prompt token by
\* token, across preemption, recomputation and rollback, and stops at its first EOS or at
\* its limit.
THEOREM AnswersContinue ==
  ASSUME "late" \notin Failures
  PROVE  Spec => []AnswersContinueTheirPrompt
<1>1. BInv => AnswersContinueTheirPrompt
  BY DEF BInv, Continuing, AnswersContinueTheirPrompt, Continues, Goes, Answered, OnItsWay, AtItsEnd
<1>2. QED
  BY <1>1, AlwaysBInv, PTL

-----------------------------------------------------------------------------
(* Budgets *)

\* The tokens and the attention pairs of some chunks.
ChunksOf(chosen) == [i \in 1 .. Len(chosen) |-> chosen[i].chunk]
PairsOf(chosen)  == [i \in 1 .. Len(chosen) |-> Pairs(computed[chosen[i].req], chosen[i].chunk)]
TokenCost(chosen) == Sum(ChunksOf(chosen), Len(chosen))
PairCost(chosen)  == Sum(PairsOf(chosen), Len(chosen))

\* They are sums of integers.
LEMMA CostsTyped ==
  ASSUME TypeOK, NEW chosen \in Seq(Chunks)
  PROVE  /\ Len(chosen) \in Nat
         /\ ChunksOf(chosen) \in [1 .. Len(chosen) -> Int]
         /\ PairsOf(chosen) \in [1 .. Len(chosen) -> Int]
<1>1. Len(chosen) \in Nat /\ \A i \in 1 .. Len(chosen) : chosen[i] \in Chunks
  OBVIOUS
<1>2. ASSUME NEW i \in 1 .. Len(chosen)
      PROVE  chosen[i].chunk \in Int /\ Pairs(computed[chosen[i].req], chosen[i].chunk) \in Int
  <2>1. chosen[i].chunk \in Nat /\ chosen[i].req \in Reqs
    BY <1>1 DEF Chunks
  <2>2. computed[chosen[i].req] \in Nat
    BY <2>1 DEF TypeOK
  <2> DEFINE a == computed[chosen[i].req]
             b == chosen[i].chunk
  <2>3. a \in Nat /\ b \in Nat
    BY <2>1, <2>2
  <2> HIDE DEF a, b
  <2>4. Pairs(a, b) \in Nat
    BY <2>3, PairsNat
  <2>5. b \in Int /\ Pairs(a, b) \in Int
    BY <2>3, <2>4
  <2>6. QED
    BY <2>5 DEF a, b
<1>3. QED
  BY <1>1, <1>2 DEF ChunksOf, PairsOf

\* No chunks cost nothing.
LEMMA CostsOfNone ==
  ASSUME TypeOK
  PROVE  TokenCost(<<>>) = 0 /\ PairCost(<<>>) = 0
<1> DEFINE none == <<>>
<1>1. none \in Seq(Chunks) /\ Len(none) = 0
  OBVIOUS
<1> HIDE DEF none
<1>2. ChunksOf(none) \in [1 .. 0 -> Int] /\ PairsOf(none) \in [1 .. 0 -> Int]
  BY <1>1, CostsTyped
<1>3. Sum(ChunksOf(none), 0) = 0 /\ Sum(PairsOf(none), 0) = 0
  BY <1>2, SumOfNone
<1>4. TokenCost(none) = 0 /\ PairCost(none) = 0
  BY <1>1, <1>3 DEF TokenCost, PairCost
<1>5. QED
  BY <1>4 DEF none

\* One more chunk costs its tokens and its pairs.
LEMMA CostsMore ==
  ASSUME TypeOK, NEW chosen \in Seq(Chunks), NEW x \in Chunks
  PROVE  LET more == Append(chosen, x)
         IN  /\ TokenCost(chosen) \in Int /\ PairCost(chosen) \in Int
             /\ TokenCost(more) = TokenCost(chosen) + x.chunk
             /\ PairCost(more) = PairCost(chosen) + Pairs(computed[x.req], x.chunk)
<1> DEFINE more == Append(chosen, x)
           n == Len(chosen)
<1>1. /\ more \in Seq(Chunks) /\ Len(more) = n + 1 /\ n \in Nat
      /\ more[n + 1] = x /\ \A i \in 1 .. n : more[i] = chosen[i]
  OBVIOUS
<1> HIDE DEF more
<1>2. /\ ChunksOf(chosen) \in [1 .. n -> Int] /\ PairsOf(chosen) \in [1 .. n -> Int]
      /\ ChunksOf(more) \in [1 .. n + 1 -> Int] /\ PairsOf(more) \in [1 .. n + 1 -> Int]
  BY <1>1, CostsTyped
<1> HIDE DEF n
<1>3. /\ \A i \in 1 .. n : ChunksOf(more)[i] = ChunksOf(chosen)[i]
      /\ \A i \in 1 .. n : PairsOf(more)[i] = PairsOf(chosen)[i]
      /\ ChunksOf(more)[n + 1] = x.chunk
      /\ PairsOf(more)[n + 1] = Pairs(computed[x.req], x.chunk)
  <2>1. \A i \in 1 .. n : i \in 1 .. n + 1
    BY <1>1
  <2>2. n + 1 \in 1 .. n + 1
    BY <1>1
  <2>3. n = Len(chosen)
    BY DEF n
  <2>4. QED
    BY <1>1, <2>1, <2>2, <2>3 DEF ChunksOf, PairsOf
<1>4. /\ Sum(ChunksOf(chosen), n) \in Int
      /\ Sum(ChunksOf(more), n + 1) = Sum(ChunksOf(chosen), n) + x.chunk
  BY <1>1, <1>2, <1>3, SumMore
<1>5. /\ Sum(PairsOf(chosen), n) \in Int
      /\ Sum(PairsOf(more), n + 1) = Sum(PairsOf(chosen), n) + Pairs(computed[x.req], x.chunk)
  BY <1>1, <1>2, <1>3, SumMore
<1>6. QED
  BY <1>1, <1>4, <1>5 DEF TokenCost, PairCost, more, n

\* What has been given out of the budgets to the first k prompts: they have all
\* been served, or there is nothing for those that follow.
Spent(acc, items, k, tokens) ==
  /\ TokenCost(acc.chosen) + acc.tokens = tokens
  /\ PairCost(acc.chosen) + acc.pairs = MaxPairs
  /\ Len(acc.chosen) <= k
  /\ \A i \in 1 .. Len(acc.chosen) : acc.chosen[i].req = items[i].req
  /\ Len(acc.chosen) = k \/ acc.stopped \/ acc.tokens = 0

\* A turn of the planning loop spends what it takes, and passes no prompt over.
LEMMA SpendingStep ==
  ASSUME TypeOK, NEW items \in Seq(Items), NEW tokens \in Nat, NEW limited \in BOOLEAN,
         NEW k \in 1 .. Len(items), NEW acc \in Budgets(limited),
         Remaining(items[k].req) \in Nat \ {0}, Spent(acc, items, k - 1, tokens)
  PROVE  Spent(Chunked(acc, items[k], limited), items, k, tokens)
<1> DEFINE item   == items[k]
           next   == Chunked(acc, item, limited)
           length == Share(acc, item, limited)
           n      == Len(acc.chosen)
<1>1. /\ item \in Items /\ computed[item.req] \in Nat /\ Remaining(item.req) \in Nat \ {0}
      /\ item.slot \in Slots /\ item.req \in Reqs /\ k \in Nat
  <2>1. item \in Items /\ k \in Nat
    OBVIOUS
  <2> HIDE DEF item
  <2>2. item.slot \in Slots /\ item.req \in Reqs
    BY <2>1 DEF Items
  <2>3. computed[item.req] \in Nat
    BY <2>2 DEF TypeOK
  <2>4. Remaining(item.req) \in Nat \ {0}
    BY DEF item
  <2>5. QED
    BY <2>1, <2>2, <2>3, <2>4
<1>2. /\ TokenCost(acc.chosen) + acc.tokens = tokens
      /\ PairCost(acc.chosen) + acc.pairs = MaxPairs
      /\ n <= k - 1
      /\ \A i \in 1 .. n : acc.chosen[i].req = items[i].req
      /\ n = k - 1 \/ acc.stopped \/ acc.tokens = 0
  BY DEF Spent
<1>3. acc.chosen \in Seq(Chunks) /\ acc.tokens \in Nat /\ acc.pairs \in Int /\ acc.stopped \in BOOLEAN
      /\ n \in Nat
  BY DEF Budgets
<1> HIDE DEF item, n
<1>3a. computed[item.req] \in Nat /\ Remaining(item.req) \in Nat /\ item \in Items
  BY <1>1
<1>4. /\ length \in Nat
      /\ length <= acc.tokens
      /\ ~limited /\ length = 0 => Remaining(item.req) = 0 \/ acc.tokens = 0
  BY <1>3a, ShareIs
<1>5. /\ acc.stopped \/ length = 0 =>
           /\ next.chosen = acc.chosen /\ next.tokens = acc.tokens
           /\ next.pairs = acc.pairs /\ next.stopped = (acc.stopped \/ limited)
      /\ ~(acc.stopped \/ length = 0) =>
           /\ next.chosen = Append(acc.chosen, [slot |-> item.slot, req |-> item.req,
                                                chunk |-> length])
           /\ next.tokens = acc.tokens - length
           /\ next.pairs = acc.pairs - Pairs(computed[item.req], length)
           /\ next.stopped = acc.stopped
  BY <1>3a, ChunkedIs
<1> HIDE DEF next, length
<1>6. CASE acc.stopped \/ length = 0
  <2>1. /\ next.chosen = acc.chosen /\ next.tokens = acc.tokens
        /\ next.pairs = acc.pairs /\ next.stopped = (acc.stopped \/ limited)
    BY <1>5, <1>6
  <2>2. next.stopped \/ next.tokens = 0
    BY <1>1, <1>4, <1>6, <2>1
  <2>3. n <= k
    BY <1>1, <1>2, <1>3
  <2>4. Spent(next, items, k, tokens)
    BY <1>2, <2>1, <2>2, <2>3 DEF Spent, n
  <2>5. QED
    BY <2>4 DEF next, item
<1>7. CASE ~(acc.stopped \/ length = 0)
  <2> DEFINE x    == [slot |-> item.slot, req |-> item.req, chunk |-> length]
             more == Append(acc.chosen, x)
  <2>1. /\ next.chosen = more
        /\ next.tokens = acc.tokens - length
        /\ next.pairs = acc.pairs - Pairs(computed[item.req], length)
    BY <1>5, <1>7
  <2>2. x \in Chunks /\ x.chunk = length /\ x.req = item.req
    BY <1>1, <1>4, <1>7 DEF Chunks
  <2>3. n = k - 1
    BY <1>2, <1>3, <1>4, <1>7
  <2> HIDE DEF x
  <2>4. /\ TokenCost(acc.chosen) \in Int /\ PairCost(acc.chosen) \in Int
        /\ TokenCost(more) = TokenCost(acc.chosen) + x.chunk
        /\ PairCost(more) = PairCost(acc.chosen) + Pairs(computed[x.req], x.chunk)
    BY <1>3, <2>2, CostsMore
  <2>5. Len(more) = k /\ more[k] = x /\ \A i \in 1 .. n : more[i] = acc.chosen[i]
    BY <1>1, <1>3, <2>2, <2>3 DEF n
  <2>6. Pairs(computed[item.req], length) \in Int
    <3> DEFINE a == computed[item.req]
    <3>1. a \in Nat
      BY <1>1
    <3> HIDE DEF a
    <3>2. Pairs(a, length) \in Nat
      BY <1>4, <3>1, PairsNat
    <3>3. Pairs(a, length) \in Int
      BY <3>2
    <3>4. QED
      BY <3>3 DEF a
  <2> HIDE DEF more
  <2>7. \A i \in 1 .. k : more[i].req = items[i].req
    <3>1. \A i \in 1 .. k : i \in 1 .. n \/ i = k
      BY <1>1, <2>3
    <3>2. QED
      BY <1>2, <2>2, <2>5, <3>1 DEF item
  <2>8. TokenCost(more) + next.tokens = tokens
    BY <1>2, <1>3, <1>4, <2>1, <2>2, <2>4
  <2>9. PairCost(more) + next.pairs = MaxPairs
    BY <1>2, <1>3, <2>1, <2>2, <2>4, <2>6
  <2>10. Spent(next, items, k, tokens)
    BY <1>1, <2>1, <2>5, <2>7, <2>8, <2>9 DEF Spent
  <2>11. QED
    BY <2>10 DEF next, item
<1>8. QED
  BY <1>6, <1>7

\* A plan stays within its budgets and passes over no prompt.
LEMMA PlanSpends ==
  ASSUME TypeOK, NEW items \in Seq(Items), NEW tokens \in Nat, NEW limited \in BOOLEAN,
         \A it \in ToSet(items) : computed[it.req] \in Nat /\ Remaining(it.req) \in Nat \ {0}
  PROVE  LET chosen == PlanChunks(items, tokens, limited)
         IN  /\ TokenCost(chosen) \in Int /\ TokenCost(chosen) <= tokens
             /\ limited => PairCost(chosen) <= MaxPairs
             /\ \A i \in 1 .. Len(chosen) : chosen[i].req = items[i].req
<1>1. \A it \in ToSet(items) : computed[it.req] \in Nat /\ Remaining(it.req) \in Nat
  OBVIOUS
<1>2. PICK g : ChunkSteps(g, items, tokens, limited)
               /\ PlanChunks(items, tokens, limited) = g[Len(items)].chosen
  BY <1>1, PlanChunksSteps
<1> DEFINE n == Len(items)
<1>3. /\ n \in Nat
      /\ g \in [0 .. n -> Budgets(limited)]
      /\ g[0] = [chosen |-> <<>>, tokens |-> tokens, pairs |-> MaxPairs, stopped |-> FALSE]
      /\ \A i \in 1 .. n : g[i] = Chunked(g[i - 1], items[i], limited)
  BY <1>2 DEF ChunkSteps
<1>4. \A i \in 1 .. n : Remaining(items[i].req) \in Nat \ {0}
  <2>1. \A i \in 1 .. n : items[i] \in ToSet(items)
    BY SeqSet
  <2>2. QED
    BY <2>1
<1> DEFINE P == {k \in 0 .. n : Spent(g[k], items, k, tokens)}
<1> HIDE DEF n
<1>5. 0 \in P
  <2>1. /\ g[0].chosen = <<>> /\ g[0].tokens = tokens /\ g[0].pairs = MaxPairs
        /\ Len(<<>>) = 0
    BY <1>3
  <2>2. TokenCost(g[0].chosen) + g[0].tokens = tokens /\ PairCost(g[0].chosen) + g[0].pairs = MaxPairs
    <3>1. TokenCost(g[0].chosen) = 0 /\ PairCost(g[0].chosen) = 0 /\ MaxPairs \in Nat
      BY <2>1, CostsOfNone, SchedulerAssumption
    <3>2. QED
      BY <2>1, <3>1
  <2>3. 0 <= 0 /\ 1 .. 0 = {} /\ 0 \in 0 .. n
    BY <1>3
  <2>4. Spent(g[0], items, 0, tokens)
    BY <2>1, <2>2, <2>3 DEF Spent
  <2>5. QED
    BY <2>3, <2>4
<1>6. ASSUME NEW k \in 1 .. n, k - 1 \in P
      PROVE  k \in P
  <2>1. Spent(g[k - 1], items, k - 1, tokens) /\ k - 1 \in 0 .. n /\ k \in 0 .. n
    BY <1>3, <1>6
  <2>2. g[k - 1] \in Budgets(limited) /\ g[k] = Chunked(g[k - 1], items[k], limited)
    BY <1>3, <2>1
  <2>3. Spent(Chunked(g[k - 1], items[k], limited), items, k, tokens)
    BY <1>4, <2>1, <2>2, SpendingStep DEF n
  <2>4. QED
    BY <2>1, <2>2, <2>3
<1> HIDE DEF P
<1>7. 0 .. n \subseteq P
  BY <1>3, <1>5, <1>6, UpTo
<1>8. Spent(g[n], items, n, tokens) /\ g[n] \in Budgets(limited)
  <2>1. n \in 0 .. n
    BY <1>3
  <2>2. QED
    BY <1>3, <1>7, <2>1 DEF P
<1> DEFINE chosen == g[n].chosen
<1>9. /\ TokenCost(chosen) + g[n].tokens = tokens
      /\ PairCost(chosen) + g[n].pairs = MaxPairs
      /\ \A i \in 1 .. Len(chosen) : chosen[i].req = items[i].req
  BY <1>8 DEF Spent
<1>10. /\ chosen \in Seq(Chunks) /\ g[n].tokens \in Nat /\ g[n].pairs \in Int
       /\ limited => g[n].pairs >= 0
  BY <1>8 DEF Budgets
<1> HIDE DEF chosen
<1>11. TokenCost(chosen) \in Int /\ PairCost(chosen) \in Int
  <2>1. /\ Len(chosen) \in Nat
        /\ ChunksOf(chosen) \in [1 .. Len(chosen) -> Int]
        /\ PairsOf(chosen) \in [1 .. Len(chosen) -> Int]
    BY <1>10, CostsTyped
  <2>2. PICK s \in [0 .. Len(chosen) -> Int] : Sum(ChunksOf(chosen), Len(chosen)) = s[Len(chosen)]
    BY <2>1, SumSteps
  <2>3. PICK t \in [0 .. Len(chosen) -> Int] : Sum(PairsOf(chosen), Len(chosen)) = t[Len(chosen)]
    BY <2>1, SumSteps
  <2>4. QED
    BY <2>1, <2>2, <2>3 DEF TokenCost, PairCost
<1>12. /\ TokenCost(chosen) \in Int /\ TokenCost(chosen) <= tokens
       /\ limited => PairCost(chosen) <= MaxPairs
  BY <1>9, <1>10, <1>11
<1>13. PlanChunks(items, tokens, limited) = chosen
  BY <1>2 DEF chosen, n
<1>14. QED
  BY <1>9, <1>12, <1>13

\* No more sequences run than there are slots.
LEMMA FewRun ==
  ASSUME TypeOK, Placed
  PROVE  Len(running) \in Nat /\ Len(running) <= MaxRunning
<1> DEFINE n == Len(running)
           f == [i \in 1 .. n |-> running[i].slot]
<1>1. running \in Seq(Items) /\ Once(running) /\ Apart(ToSet(running))
  BY DEF TypeOK, Placed, ListsUnique, Unique
<1>2. n \in Nat /\ \A i \in 1 .. n : running[i] \in Items /\ running[i] \in ToSet(running)
  BY <1>1, SeqSet
<1>3. \A i \in 1 .. n : running[i].slot \in Slots
  BY <1>2 DEF Items
<1>4. ASSUME NEW i \in 1 .. n, NEW j \in 1 .. n, f[i] = f[j]
      PROVE  i = j
  <2>1. running[i] = running[j]
    BY <1>1, <1>2, <1>4 DEF Apart
  <2>2. QED
    BY <1>1, <2>1 DEF Once
<1>5. f \in [1 .. n -> Slots]
  BY <1>3
<1> HIDE DEF f, n
<1>6. f \in Injection(1 .. n, Slots)
  BY <1>4, <1>5 DEF Injection, IsInjective
<1>7. IsFiniteSet(Slots) /\ Cardinality(Slots) = MaxRunning
  <2>1. MaxRunning \in Nat \ {0}
    BY SchedulerAssumption
  <2>2. MaxRunning - 1 \in Int /\ ~(0 > MaxRunning - 1) /\ MaxRunning - 1 - 0 + 1 = MaxRunning
    BY <2>1
  <2>3. QED
    BY <2>2, FS_Interval DEF Slots
<1>8. Cardinality(1 .. n) <= MaxRunning
  BY <1>6, <1>7, FS_Injection
<1>9. Cardinality(1 .. n) = n
  <2>1. Cardinality(1 .. n) = IF 1 > n THEN 0 ELSE n - 1 + 1
    BY <1>2, FS_Interval
  <2>2. QED
    BY <1>2, <2>1
<1>10. QED
  BY <1>2, <1>8, <1>9 DEF n

\* What clients offer has at least one prompt token.
NonEmptyPrompts == \A shape \in Shapes : shape[1] > 0

\* Every request has a prompt.
Prompted == \A r \in Reqs : r < nextId => nPrompt[r] > 0

\* Requests have prompts, and a prompt under way has tokens left.
Pending ==
  /\ Prompted
  /\ \A it \in ToSet(prefilling) : Remaining(it.req) > 0

\* Requests keep their prompts.
LEMMA PromptsHaveTokens ==
  ASSUME NonEmptyPrompts, IInv, Pending, [Next]_vars
  PROVE  Prompted'
<1>1. nextId \in Nat /\ nPrompt \in [Reqs -> Nat]
  BY DEF IInv, TypeOK
<1>2. ASSUME NEW shape \in Shapes, AddRequest(shape)
      PROVE  Prompted'
  <2>1. nextId' = nextId + 1 /\ nPrompt' = [nPrompt EXCEPT ![nextId] = shape[1]]
    BY <1>2 DEF AddRequest
  <2>2. shape[1] > 0
    BY DEF NonEmptyPrompts
  <2> DEFINE a == shape[1]
  <2> HIDE DEF a
  <2>3. a > 0 /\ nPrompt' = [nPrompt EXCEPT ![nextId] = a]
    BY <2>1, <2>2 DEF a
  <2>4. QED
    BY <1>1, <2>1, <2>3 DEF Pending, Prompted, Reqs
<1>3. ASSUME Reset
      PROVE  Prompted'
  <2>1. nextId' = 0
    BY <1>3 DEF Reset
  <2>2. QED
    BY <2>1 DEF Prompted, Reqs
<1>4. ASSUME UNCHANGED <<nextId, nPrompt>>
      PROVE  Prompted'
  BY <1>4 DEF Pending, Prompted
<1>5. Called \/ PlanIteration \/ EmptyStep \/ Preempt \/ UNCHANGED vars => UNCHANGED <<nextId, nPrompt>>
  BY DEF Called, PlanIteration, EmptyStep, Preempt, vars, requestVars, DecodeStep, PrefillStep,
         MixedStep, TooLongFails, ModelFails, SamplingFails, Outcome
<1>6. QED
  BY <1>2, <1>3, <1>4, <1>5 DEF Next, Client, Step, Failure, Called

\* Prompts under way keep having tokens left: the others have completed.
LEMMA StillPending ==
  ASSUME IInv, PromptsInPlace, Pending, Prompted', [Next]_vars
  PROVE  Pending'
<1>0. TypeOK /\ Placed
  BY DEF IInv
<1>1. Prompted'
  OBVIOUS
<1>2. CASE PlanIteration
  <2> DEFINE count == Count
  <2>1. Joining(count)
    BY <1>2, PlanJoins
  <2> HIDE DEF count
  <2>2. /\ ReqsIn(ToSet(JoinedBy(count))) \subseteq ToSet(waiting)
        /\ ToSet(prefilling') = ToSet(prefilling) \cup ToSet(JoinedBy(count))
        /\ computed' = computed /\ nPrompt' = nPrompt /\ folded' = folded
    BY <2>1 DEF Joining
  <2>3. ASSUME NEW it \in ToSet(prefilling')
        PROVE  Remaining(it.req) > 0
    <3>1. CASE it \in ToSet(prefilling)
      BY <3>1 DEF Pending
    <3>2. CASE it \in ToSet(JoinedBy(count))
      <4>1. it.req \in ToSet(waiting)
        BY <2>2, <3>2 DEF ReqsIn
      <4>2. it.req \in Reqs /\ it.req < nextId
        <5>1. waiting \in Seq(Reqs) /\ nextId \in Nat
          BY <1>0 DEF TypeOK
        <5>2. it.req \in 0 .. (nextId - 1)
          BY <1>0, <4>1 DEF Placed, Parts
        <5>3. it.req \in Reqs
          BY <4>1, <5>1, SeqSet
        <5>4. QED
          BY <5>1, <5>2, <5>3
      <4>3. computed[it.req] = 0 /\ nPrompt[it.req] > 0
        BY <4>1, <4>2 DEF IInv, RequestsFit, Pending, Prompted
      <4>4. nPrompt[it.req] \in Nat /\ folded[it.req] \in Seq(Token)
        BY <1>0, <4>2 DEF TypeOK
      <4>5. Len(folded[it.req]) \in Nat
        BY <4>4
      <4>6. QED
        BY <4>3, <4>4, <4>5 DEF Remaining, PromptLen
    <3>3. it \in ToSet(prefilling) \/ it \in ToSet(JoinedBy(count))
      <4>1. it \in ToSet(prefilling) \cup ToSet(JoinedBy(count))
        BY <2>2, <2>3
      <4>2. QED
        BY <4>1
    <3>4. QED
      BY <3>1, <3>2, <3>3
  <2>4. ASSUME NEW it \in ToSet(prefilling')
        PROVE  (nPrompt'[it.req] + Len(folded'[it.req])) - computed'[it.req] > 0
    <3>1. Remaining(it.req) > 0
      BY <2>3, <2>4
    <3>2. QED
      BY <2>2, <3>1 DEF Remaining, PromptLen
  <2>5. QED
    BY <1>1, <2>4 DEF Pending, Remaining, PromptLen
<1>3. CASE Fresh'
  <2>1. prefilling' = <<>>
    BY <1>3 DEF Fresh
  <2>2. ToSet(prefilling') = {}
    BY <2>1, NoItems
  <2>3. QED
    BY <1>1, <2>2 DEF Pending
<1>4. CASE PromptsOnward
  <2>1. ASSUME NEW it \in ToSet(prefilling')
        PROVE  (nPrompt'[it.req] + Len(folded'[it.req])) - computed'[it.req] > 0
    <3>1. PICK n \in Nat : /\ it \in ToSet(prefilling)
                           /\ nPrompt'[it.req] = nPrompt[it.req] /\ folded'[it.req] = folded[it.req]
                           /\ computed'[it.req] = computed[it.req] + n
                           /\ n = 0 \/ n < Remaining(it.req)
      BY <1>4 DEF PromptsOnward
    <3>2. Remaining(it.req) > 0
      BY <3>1 DEF Pending
    <3>3. computed[it.req] \in Nat /\ nPrompt[it.req] \in Nat /\ Len(folded[it.req]) \in Nat
      BY <1>0, <3>1, BusyTyped
    <3>4. Remaining(it.req) = (nPrompt[it.req] + Len(folded[it.req])) - computed[it.req]
      BY DEF Remaining, PromptLen
    <3>5. QED
      BY <3>1, <3>2, <3>3, <3>4
  <2>2. QED
    BY <1>1, <2>1 DEF Pending, Remaining, PromptLen
<1>5. QED
  BY <1>2, <1>3, <1>4, StepOnward

\* The plan under way stays within its budgets.
WithinBudgets ==
  /\ Len(plan.decode) + TokenCost(plan.prefill) <= MaxBatchedTokens
  /\ plan.decode # <<>> /\ MaxPairs > 0 => PairCost(plan.prefill) <= MaxPairs
  /\ \A i \in 1 .. Len(plan.prefill) : plan.prefill[i].req = prefilling[i].req

\* All that plan_iteration plans over has tokens left.
LEMMA AllPending ==
  ASSUME IInv, Pending, NEW count, NEW all, PlanningIs(count, all), Joining(count)
  PROVE  \A it \in ToSet(all) : computed[it.req] \in Nat /\ Remaining(it.req) \in Nat \ {0}
<1>0. TypeOK /\ Placed
  BY DEF IInv
<1>1. AllFit(all) /\ ToSet(all) = ToSet(prefilling) \cup ToSet(JoinedBy(count))
  BY AllIs
<1>2. ASSUME NEW it \in ToSet(all)
      PROVE  computed[it.req] \in Nat /\ Remaining(it.req) \in Nat \ {0}
  <2>1. computed[it.req] \in Nat /\ Remaining(it.req) \in Nat /\ it.req \in Reqs
    BY <1>1 DEF AllFit
  <2>2. Remaining(it.req) > 0
    <3>1. CASE it \in ToSet(prefilling)
      BY <3>1 DEF Pending
    <3>2. CASE it \in ToSet(JoinedBy(count))
      <4>1. it.req \in ToSet(waiting)
        BY <3>2 DEF Joining, ReqsIn
      <4>2. nextId \in Nat /\ it.req < nextId
        <5>1. nextId \in Nat
          BY <1>0 DEF TypeOK
        <5>2. it.req \in 0 .. (nextId - 1)
          BY <1>0, <4>1 DEF Placed, Parts
        <5>3. QED
          BY <5>1, <5>2
      <4>3. computed[it.req] = 0 /\ nPrompt[it.req] > 0
        BY <2>1, <4>1, <4>2 DEF IInv, RequestsFit, Pending, Prompted
      <4>4. nPrompt[it.req] \in Nat /\ folded[it.req] \in Seq(Token)
        BY <1>0, <2>1 DEF TypeOK
      <4>5. Len(folded[it.req]) \in Nat
        BY <4>4
      <4>6. QED
        BY <4>3, <4>4, <4>5 DEF Remaining, PromptLen
    <3>3. QED
      BY <1>1, <1>2, <3>1, <3>2
  <2>3. QED
    BY <2>1, <2>2
<1>3. QED
  BY <1>2

\* plan_iteration plans within its budgets ...
LEMMA PlannedWithin ==
  ASSUME IInv, Pending, PlanIteration
  PROVE  WithinBudgets'
<1>0. TypeOK /\ Placed
  BY DEF IInv
<1> DEFINE count == Count
           all   == prefilling \o JoinedBy(Count)
<1>1. PlanningIs(count, all)
  BY <1>0, PlanIterationIs
<1>2. Joining(count)
  BY PlanJoins
<1> HIDE DEF count, all
<1>3. /\ prefilling' = all /\ computed' = computed /\ running' = running
      /\ plan' = [decode |-> running, prefill |-> IF Tokens > 0 THEN PlanChunks(all, Tokens, Limited)
                                                               ELSE <<>>]
  BY <1>1 DEF PlanningIs
<1>4. AllFit(all) /\ ToSet(all) = ToSet(prefilling) \cup ToSet(JoinedBy(count))
  BY <1>1, AllIs
<1>5. \A it \in ToSet(all) : computed[it.req] \in Nat /\ Remaining(it.req) \in Nat \ {0}
  BY <1>1, <1>2, AllPending
<1>6. Len(running) \in Nat /\ Len(running) <= MaxBatchedTokens /\ Tokens = MaxBatchedTokens - Len(running)
  <2>1. Len(running) \in Nat /\ Len(running) <= MaxRunning
    BY <1>0, FewRun
  <2>2. MaxBatchedTokens \in Nat /\ MaxRunning \in Nat /\ MaxBatchedTokens >= MaxRunning
    BY SchedulerAssumption
  <2>3. QED
    BY <2>1, <2>2 DEF Tokens
<1> DEFINE chosen == plan'.prefill
<1>7. plan'.decode = running /\ chosen = IF Tokens > 0 THEN PlanChunks(all, Tokens, Limited) ELSE <<>>
  BY <1>3
<1>8. TokenCost(plan.prefill)' = TokenCost(chosen) /\ PairCost(plan.prefill)' = PairCost(chosen)
  BY <1>3 DEF TokenCost, PairCost, ChunksOf, PairsOf
<1> HIDE DEF chosen
<1>9. /\ TokenCost(chosen) \in Int /\ TokenCost(chosen) <= MaxBatchedTokens - Len(running)
      /\ running # <<>> /\ MaxPairs > 0 => PairCost(chosen) <= MaxPairs
      /\ \A i \in 1 .. Len(chosen) : chosen[i].req = all[i].req
  <2>1. CASE Tokens > 0
    <3>1. Tokens \in Nat /\ Limited \in BOOLEAN /\ all \in Seq(Items)
      <4>1. Tokens \in Nat
        BY <1>6, <2>1, SchedulerAssumption
      <4>2. Limited \in BOOLEAN
        BY DEF Limited
      <4>3. QED
        BY <1>4, <4>1, <4>2 DEF AllFit
    <3>2. \A it \in ToSet(all) : computed[it.req] \in Nat /\ Remaining(it.req) \in Nat \ {0}
      BY <1>5
    <3>3. /\ TokenCost(PlanChunks(all, Tokens, Limited)) <= Tokens
          /\ TokenCost(PlanChunks(all, Tokens, Limited)) \in Int
          /\ Limited => PairCost(PlanChunks(all, Tokens, Limited)) <= MaxPairs
          /\ \A i \in 1 .. Len(PlanChunks(all, Tokens, Limited)) :
               PlanChunks(all, Tokens, Limited)[i].req = all[i].req
      BY <1>0, <3>1, <3>2, PlanSpends
    <3>4. chosen = PlanChunks(all, Tokens, Limited)
      BY <1>7, <2>1
    <3>5. QED
      BY <1>6, <3>3, <3>4 DEF Limited
  <2>2. CASE ~(Tokens > 0)
    <3>1. chosen = <<>>
      BY <1>7, <2>2
    <3>2. TokenCost(chosen) = 0 /\ PairCost(chosen) = 0
      BY <1>0, <3>1, CostsOfNone
    <3>3. Len(chosen) = 0 /\ MaxPairs \in Nat /\ MaxBatchedTokens \in Nat
      BY <3>1, SchedulerAssumption
    <3>4. QED
      BY <1>6, <3>2, <3>3
  <2>3. QED
    BY <2>1, <2>2
<1>10. MaxBatchedTokens \in Nat
  BY SchedulerAssumption
<1>11. Len(plan'.decode) + TokenCost(plan.prefill)' <= MaxBatchedTokens
  BY <1>6, <1>7, <1>8, <1>9, <1>10
<1>12. \A i \in 1 .. Len(plan'.prefill) : plan'.prefill[i].req = prefilling'[i].req
  BY <1>3, <1>9 DEF chosen
<1>13. plan'.decode # <<>> /\ MaxPairs > 0 => PairCost(plan.prefill)' <= MaxPairs
  BY <1>7, <1>8, <1>9
<1>14. QED
  BY <1>11, <1>12, <1>13 DEF WithinBudgets

\* ... and is followed as it was made.
LEMMA PlanKept ==
  ASSUME NonEmptyPrompts, IInv, Pending, pc = "planned" => WithinBudgets, [Next]_vars
  PROVE  (pc = "planned" => WithinBudgets)'
<1>1. ASSUME PlanIteration
      PROVE  WithinBudgets'
  BY <1>1, PlannedWithin
<1>2. ASSUME NEW shape \in Shapes, AddRequest(shape)
      PROVE  pc' # "planned"
  BY <1>2 DEF AddRequest
<1>3. ASSUME Reset
      PROVE  pc' # "planned"
  BY <1>3 DEF Reset
<1>4. ASSUME Called \/ EmptyStep \/ Preempt
      PROVE  pc' # "planned"
  BY <1>4 DEF Called, EmptyStep, Preempt, DecodeStep, PrefillStep, MixedStep, TooLongFails,
              ModelFails, SamplingFails, Outcome, EndStep
<1>5. ASSUME UNCHANGED vars, pc = "planned"
      PROVE  WithinBudgets'
  BY <1>5 DEF vars, requestVars, tokenVars, queueVars, WithinBudgets, TokenCost, PairCost, ChunksOf,
              PairsOf
<1>6. UNCHANGED vars => pc' = pc
  BY DEF vars
<1>7. QED
  BY <1>1, <1>2, <1>3, <1>4, <1>5, <1>6 DEF Next, Client, Step, Failure, Called

\* That is what the property says.
LEMMA WithinIsWithin ==
  ASSUME pc = "planned" => WithinBudgets
  PROVE  PlanWithinBudgets
BY DEF PlanWithinBudgets, WithinBudgets, TokenCost, PairCost, ChunksOf, PairsOf

\* When prompts have tokens, every plan of plan_iteration keeps the token budget, the
\* attention budget next to decodes, and the order of the prompts.
THEOREM PlansStayWithinBudgets ==
  ASSUME NonEmptyPrompts
  PROVE  Spec => []PlanWithinBudgets
<1> DEFINE Kept == Pending /\ (pc = "planned" => WithinBudgets)
<1>1. Init => Kept
  <2> SUFFICES ASSUME Init
               PROVE  Kept
    OBVIOUS
  <2>1. prefilling = <<>> /\ nextId = 0 /\ pc = "idle"
    BY DEF Init
  <2>2. ToSet(prefilling) = {}
    BY <2>1, NoItems
  <2>3. QED
    BY <2>1, <2>2 DEF Pending, Prompted, Reqs
<1>2. IInv /\ PromptsInPlace /\ Kept /\ [Next]_vars => Kept'
  BY PromptsHaveTokens, StillPending, PlanKept
<1>3. Kept => PlanWithinBudgets
  BY WithinIsWithin
<1> HIDE DEF Kept
<1>4. QED
  BY <1>1, <1>2, <1>3, AlwaysIInv, AlwaysPromptsInPlace, PTL DEF Spec

\* The pages that the prompts of E fill, in the slots they have.
PagesOf(E) == {p \in Slots \X Nat : \E it \in E : p[1] = it.slot /\ p[2] \in 1 .. PromptBlocks(it.req)}

\* The pages for n tokens are just enough.
LEMMA PagesAre ==
  ASSUME NEW n \in Nat
  PROVE  /\ KV!Pages(n) \in Nat
         /\ n <= KV!Pages(n) * BlockSize
         /\ n > (KV!Pages(n) - 1) * BlockSize
<1>1. KV!Pages(n) = KVP!Pages(n)
  BY SameOperations
<1>2. KVP!Pages(n) \in Nat /\ n <= KVP!Pages(n) * BlockSize /\ n > (KVP!Pages(n) - 1) * BlockSize
  BY CacheConstants, KVP!PagesRoundsUp
<1>3. QED
  BY <1>1, <1>2

\* The pages of a prompt hold its tokens.
LEMMA BlocksAre ==
  ASSUME TypeOK, NEW r \in Reqs
  PROVE  PromptLen(r) \in Nat /\ PromptBlocks(r) \in Nat /\ PromptLen(r) <= PromptBlocks(r) * BlockSize
<1>1. nPrompt[r] \in Nat /\ folded[r] \in Seq(Token)
  BY DEF TypeOK
<1>2. Len(folded[r]) \in Nat
  BY <1>1
<1>3. PromptLen(r) \in Nat
  BY <1>1, <1>2 DEF PromptLen
<1>4. QED
  BY <1>3, PagesAre DEF PromptBlocks

\* They are counted prompt by prompt.
BlocksOf(items) == [i \in 1 .. Len(items) |-> PromptBlocks(items[i].req)]

\* A list of items with different slots.
LEMMA ItemsTyped ==
  ASSUME NEW items \in Seq(Items), Unique(items)
  PROVE  /\ Len(items) \in Nat
         /\ \A i \in 1 .. Len(items) : /\ items[i] \in ToSet(items)
                                       /\ items[i].slot \in Slots /\ items[i].req \in Reqs
         /\ SlotsOf(items) \in [1 .. Len(items) -> Slots]
         /\ \A i, j \in 1 .. Len(items) : SlotsOf(items)[i] = SlotsOf(items)[j] => i = j
<1> DEFINE n == Len(items)
<1>1. n \in Nat /\ \A i \in 1 .. n : items[i] \in Items /\ items[i] \in ToSet(items)
  BY SeqSet
<1>2. \A i \in 1 .. n : items[i].slot \in Slots /\ items[i].req \in Reqs
  BY <1>1 DEF Items
<1> HIDE DEF n
<1>3. SlotsOf(items) \in [1 .. n -> Slots] /\ \A i \in 1 .. n : SlotsOf(items)[i] = items[i].slot
  BY <1>2 DEF SlotsOf, n
<1>4. ASSUME NEW i \in 1 .. n, NEW j \in 1 .. n, items[i].slot = items[j].slot
      PROVE  i = j
  <2>1. items[i] = items[j]
    BY <1>1, <1>4 DEF Unique, Apart
  <2>2. QED
    BY <2>1 DEF Unique, Once, n
<1>5. QED
  BY <1>1, <1>2, <1>3, <1>4 DEF n

\* Towers of pages on these slots are counted one by one.
LEMMA StackIs ==
  ASSUME NEW items \in Seq(Items), Unique(items), NEW h \in [1 .. Len(items) -> Nat]
  PROVE  /\ IsFiniteSet(Stack(SlotsOf(items), h, Len(items)))
         /\ Cardinality(Stack(SlotsOf(items), h, Len(items))) = Sum(h, Len(items))
BY ItemsTyped, StackCount

\* So are the pages promised to the prompts of a list.
LEMMA PagesCount ==
  ASSUME TypeOK, NEW items \in Seq(Items), Unique(items)
  PROVE  /\ BlocksOf(items) \in [1 .. Len(items) -> Nat]
         /\ IsFiniteSet(PagesOf(ToSet(items)))
         /\ Cardinality(PagesOf(ToSet(items))) = Sum(BlocksOf(items), Len(items))
<1> DEFINE n == Len(items)
           h == BlocksOf(items)
           c == SlotsOf(items)
<1>1. n \in Nat /\ \A i \in 1 .. n : items[i].req \in Reqs /\ items[i] \in ToSet(items)
  BY ItemsTyped
<1>2. h \in [1 .. n -> Nat] /\ \A i \in 1 .. n : h[i] = PromptBlocks(items[i].req)
  BY <1>1, BlocksAre DEF BlocksOf
<1>3. \A i \in 1 .. n : c[i] = items[i].slot
  BY DEF SlotsOf
<1>4. ToSet(items) = {items[i] : i \in 1 .. n}
  BY SeqSet
<1> HIDE DEF n, h, c
<1>5. PagesOf(ToSet(items)) = Stack(c, h, n)
  BY <1>2, <1>3, <1>4 DEF PagesOf, Stack
<1>6. IsFiniteSet(Stack(c, h, n)) /\ Cardinality(Stack(c, h, n)) = Sum(h, n)
  BY <1>2, StackIs DEF n, c
<1>7. QED
  BY <1>2, <1>5, <1>6 DEF n, h

\* Reserved and the pages that the prompts under way have cover what they need.
LEMMA PromisedPages ==
  ASSUME IInv
  PROVE  /\ Reserved \in Int
         /\ Cardinality(PagesOf(ToSet(prefilling))) <= Reserved + (NumBlocks - Len(cache.free))
<1>0. TypeOK /\ Placed /\ Good(cache)
  BY DEF IInv
<1> DEFINE items == prefilling
           n     == Len(prefilling)
           need  == BlocksOf(prefilling)
           owned == [i \in 1 .. n |-> Len(cache.tables[prefilling[i].slot])]
           short == [i \in 1 .. n |-> LET lack == PromptBlocks(prefilling[i].req)
                                                    - Len(cache.tables[prefilling[i].slot])
                                      IN  IF lack > 0 THEN lack ELSE 0]
<1>1. items \in Seq(Items) /\ Unique(items)
  BY <1>0 DEF TypeOK, Placed, ListsUnique
<1>2. /\ n \in Nat
      /\ \A i \in 1 .. n : prefilling[i].slot \in Slots /\ prefilling[i].req \in Reqs
  BY <1>1, ItemsTyped
<1>3. \A i \in 1 .. n : PromptBlocks(prefilling[i].req) \in Nat
  BY <1>0, <1>2, BlocksAre
<1>4. \A i \in 1 .. n : Len(cache.tables[prefilling[i].slot]) \in Nat
  <2>1. \A s \in Slots : cache.tables[s] \in Seq(KV!Pool)
    BY <1>0, GoodTyped
  <2>2. \A s \in Slots : Len(cache.tables[s]) \in Nat
    BY <2>1
  <2>3. QED
    BY <1>2, <2>2
<1>5. need \in [1 .. n -> Int] /\ \A i \in 1 .. n : need[i] = PromptBlocks(prefilling[i].req)
  BY <1>3 DEF BlocksOf
<1>6. owned \in [1 .. n -> Nat] /\ owned \in [1 .. n -> Int]
  BY <1>4
<1>7. short \in [1 .. n -> Int]
  BY <1>3, <1>4
<1>8. \A i \in 1 .. n : need[i] <= short[i] + owned[i]
  BY <1>3, <1>4, <1>5
<1>9. Reserved = Sum(short, n)
  BY DEF Reserved
<1> HIDE DEF need, owned, short
<1>10. /\ Sum(need, n) \in Int /\ Sum(short, n) \in Int /\ Sum(owned, n) \in Int
       /\ Sum(need, n) <= Sum(short, n) + Sum(owned, n)
  BY <1>2, <1>5, <1>6, <1>7, <1>8, SumBound
<1>11. Cardinality(PagesOf(ToSet(items))) = Sum(need, n)
  BY <1>0, <1>1, PagesCount DEF need
<1> DEFINE S == Stack(SlotsOf(items), owned, n)
<1>12. Cardinality(S) = Sum(owned, n)
  BY <1>1, <1>6, StackIs
<1>13. S \subseteq OwnedIn(cache)
  <2>1. \A i \in 1 .. n : SlotsOf(items)[i] = prefilling[i].slot
    BY DEF SlotsOf
  <2>2. \A i \in 1 .. n : owned[i] = Len(cache.tables[prefilling[i].slot])
    BY DEF owned
  <2>3. QED
    BY <2>1, <2>2 DEF Stack, OwnedIn
<1>14. /\ IsFiniteSet(OwnedIn(cache)) /\ Cardinality(OwnedIn(cache)) \in Nat /\ Len(cache.free) \in Nat
       /\ Cardinality(OwnedIn(cache)) + Len(cache.free) = NumBlocks
  BY <1>0, PoolCount
<1> HIDE DEF S
<1>15. Cardinality(S) <= Cardinality(OwnedIn(cache))
  BY <1>13, <1>14, FS_Subset
<1>16. NumBlocks \in Nat
  BY SchedulerAssumption
<1>17. QED
  BY <1>9, <1>10, <1>11, <1>12, <1>14, <1>15, <1>16

-----------------------------------------------------------------------------
(* A prompt finds its pages *)

\* The prompts under way fit the pool together, with all their pages.
PromptsReserved == Cardinality(PagesOf(ToSet(prefilling))) <= NumBlocks

\* The prompts that Admissible lets join still fit with those under way.
LEMMA AdmittedFit ==
  ASSUME IInv, PromptsReserved, NEW count \in Nat, count <= Len(waiting), count <= Len(freeSlots),
         Admissible(count)
  PROVE  Cardinality(PagesOf(ToSet(prefilling) \cup ToSet(JoinedBy(count)))) <= NumBlocks
<1> DEFINE joined == JoinedBy(count)
           A      == PagesOf(ToSet(prefilling))
           B      == PagesOf(ToSet(JoinedBy(count)))
           need   == [i \in 1 .. count |-> PromptBlocks(waiting[i])]
<1>0. TypeOK /\ Placed
  BY DEF IInv
<1>1. joined \in Seq(Items) /\ Len(joined) = count /\ Unique(joined)
  BY <1>0, JoinedIs
<1>2. prefilling \in Seq(Items) /\ Unique(prefilling)
  BY <1>0 DEF TypeOK, Placed, ListsUnique
<1>3. PagesOf(ToSet(prefilling) \cup ToSet(JoinedBy(count))) = A \cup B
  BY DEF PagesOf
<1>4. IsFiniteSet(A) /\ IsFiniteSet(B) /\ Cardinality(B) = Sum(BlocksOf(joined), count)
      /\ BlocksOf(joined) \in [1 .. count -> Nat]
  BY <1>0, <1>1, <1>2, PagesCount
<1>5. BlocksOf(joined) = need
  <2>1. \A i \in 1 .. count : joined[i].req = waiting[i]
    BY DEF JoinedBy
  <2>2. BlocksOf(joined) = [i \in 1 .. count |-> PromptBlocks(joined[i].req)]
    BY <1>1 DEF BlocksOf
  <2> HIDE DEF joined
  <2>3. QED
    BY <2>1, <2>2
<1>6. CASE count = 0
  <2>1. ToSet(joined) = {}
    <3>1. ToSet(joined) = {joined[i] : i \in 1 .. Len(joined)}
      BY <1>1, SeqSet
    <3>2. 1 .. Len(joined) = {}
      BY <1>1, <1>6
    <3>3. QED
      BY <3>1, <3>2
  <2>2. B = {}
    BY <2>1 DEF PagesOf
  <2> HIDE DEF A, B
  <2>3. A \cup B = A
    BY <2>2
  <2>4. QED
    BY <1>3, <2>3 DEF PromptsReserved, A
<1>7. CASE count # 0
  <2>1. need \in [1 .. count -> Nat] /\ need \in [1 .. count -> Int] /\ need[count] \in Int
        /\ count \in Nat \ {0}
    <3>1. need \in [1 .. count -> Nat]
      BY <1>4, <1>5
    <3>2. need \in [1 .. count -> Int]
      BY <3>1
    <3>3. count \in Nat \ {0} /\ count \in 1 .. count
      BY <1>7
    <3> HIDE DEF need
    <3>4. QED
      BY <3>1, <3>2, <3>3
  <2>2. need[count] + Len(running) + Len(prefilling) + count - 1
          <= Len(cache.free) - Reserved - Sum(need, count - 1)
    <3>1. count \in 1 .. count
      BY <1>7
    <3>2. QED
      BY <3>1 DEF Admissible
  <2>3. Len(running) \in Nat /\ Len(prefilling) \in Nat
    BY <1>0 DEF TypeOK
  <2> HIDE DEF need
  <2>4. Sum(need, count - 1) \in Int /\ Sum(need, count) = Sum(need, count - 1) + need[count]
    BY <2>1, SumLast
  <2>5. Reserved \in Int /\ Cardinality(A) <= Reserved + (NumBlocks - Len(cache.free))
    BY PromisedPages
  <2>6. Len(cache.free) \in Nat /\ NumBlocks \in Nat
    BY PoolCount, SchedulerAssumption DEF IInv
  <2>7. Cardinality(B) = Sum(need, count - 1) + need[count]
    BY <1>4, <1>5, <2>4
  <2> HIDE DEF A, B
  <2>8. /\ Cardinality(A) \in Nat /\ Cardinality(B) \in Nat /\ Cardinality(A \cap B) \in Nat
        /\ Cardinality(A \cup B) = Cardinality(A) + Cardinality(B) - Cardinality(A \cap B)
    <3>1. Cardinality(A \cup B) = Cardinality(A) + Cardinality(B) - Cardinality(A \cap B)
      BY <1>4, FS_Union
    <3>2. IsFiniteSet(A \cap B)
      BY <1>4, FS_Intersection
    <3>3. QED
      BY <1>4, <3>1, <3>2, FS_CardinalityType
  <2>9. Cardinality(A \cup B) <= NumBlocks
    <3> DEFINE a == Cardinality(A)
               b == Cardinality(B)
               ab == Cardinality(A \cap B)
               last == need[count]
               before == Sum(need, count - 1)
               r == Reserved
               free == Len(cache.free)
    <3>1. /\ a \in Nat /\ b \in Nat /\ ab \in Nat /\ last \in Int /\ before \in Int /\ r \in Int
          /\ free \in Nat /\ NumBlocks \in Nat
      BY <2>1, <2>4, <2>5, <2>6, <2>8
    <3>2. a <= r + (NumBlocks - free) /\ b = before + last
      BY <2>5, <2>7
    <3>3. last + Len(running) + Len(prefilling) + count - 1 <= free - r - before
      BY <2>2
    <3> HIDE DEF a, b, ab, last, before, r, free
    <3>4. last <= free - r - before
      BY <2>1, <2>3, <3>1, <3>3
    <3>5. a + (b - ab) <= NumBlocks
      BY <3>1, <3>2, <3>4
    <3>6. QED
      BY <2>8, <3>5 DEF a, b, ab
  <2>10. QED
    BY <1>3, <2>9
<1>8. QED
  BY <1>6, <1>7

\* Every step keeps the promised pages within the pool.
LEMMA StillReserved ==
  ASSUME IInv, PromptsInPlace, PromptsReserved, [Next]_vars
  PROVE  PromptsReserved'
<1>0. TypeOK /\ Placed
  BY DEF IInv
<1>1. CASE PlanIteration
  <2> DEFINE count == Count
             A     == PagesOf(ToSet(prefilling) \cup ToSet(JoinedBy(Count)))
  <2>1. Joining(count)
    BY <1>1, PlanJoins
  <2>2. /\ count \in Nat /\ count <= Len(waiting) /\ count <= Len(freeSlots)
        /\ ToSet(prefilling') = ToSet(prefilling) \cup ToSet(JoinedBy(count))
        /\ nPrompt' = nPrompt /\ folded' = folded
    BY <2>1 DEF Joining
  <2>3. Cardinality(A) <= NumBlocks
    <3>1. CASE Tokens > 0
      <4>1. Admissible(PlannedPrefillCount) /\ Count = PlannedPrefillCount
        BY <1>0, <3>1, CountIs DEF Count
      <4>2. Admissible(Count)
        BY <4>1
      <4>3. QED
        BY <2>2, <4>2, AdmittedFit
    <3>2. CASE ~(Tokens > 0)
      <4>1. Count = 0
        BY <3>2 DEF Count
      <4>2. Admissible(0)
        BY DEF Admissible
      <4>3. QED
        BY <2>2, <4>1, <4>2, AdmittedFit
    <3>3. QED
      BY <3>1, <3>2
  <2> HIDE DEF count
  <2>4. PagesOf(ToSet(prefilling))' = A
    BY <2>2 DEF PagesOf, PromptBlocks, PromptLen, count
  <2>5. QED
    BY <2>3, <2>4 DEF PromptsReserved
<1>2. CASE Fresh'
  <2>1. prefilling' = <<>>
    BY <1>2 DEF Fresh
  <2>2. ToSet(prefilling') = {}
    BY <2>1, NoItems
  <2>3. PagesOf(ToSet(prefilling))' = {}
    BY <2>2 DEF PagesOf
  <2>4. QED
    BY <2>3, FS_EmptySet, SchedulerAssumption DEF PromptsReserved
<1>3. CASE PromptsOnward
  <2> DEFINE A == PagesOf(ToSet(prefilling))
             B == PagesOf(ToSet(prefilling))'
  <2>1. IsFiniteSet(A)
    <3>1. prefilling \in Seq(Items) /\ Unique(prefilling)
      BY <1>0 DEF TypeOK, Placed, ListsUnique
    <3>2. QED
      BY <1>0, <3>1, PagesCount
  <2>2. B \subseteq A
    <3>1. ASSUME NEW it \in ToSet(prefilling')
          PROVE  it \in ToSet(prefilling) /\ PromptBlocks(it.req)' = PromptBlocks(it.req)
      BY <1>3 DEF PromptsOnward, PromptBlocks, PromptLen
    <3>2. QED
      BY <3>1 DEF PagesOf
  <2> HIDE DEF A, B
  <2>3. Cardinality(B) <= Cardinality(A) /\ Cardinality(A) \in Nat /\ Cardinality(B) \in Nat
    <3>1. IsFiniteSet(B) /\ Cardinality(B) <= Cardinality(A)
      BY <2>1, <2>2, FS_Subset
    <3>2. QED
      BY <2>1, <3>1, FS_CardinalityType
  <2>4. Cardinality(A) <= NumBlocks /\ NumBlocks \in Nat
    BY SchedulerAssumption DEF PromptsReserved, A
  <2>5. Cardinality(B) <= NumBlocks
    BY <2>3, <2>4
  <2>6. QED
    BY <2>5 DEF PromptsReserved, B
<1>4. QED
  BY <1>1, <1>2, <1>3, StepOnward

\* Pages that hold n tokens are not fewer than those just enough.
LEMMA CoverOnce ==
  ASSUME NEW n \in Nat, NEW k \in Nat, NEW l \in Nat,
         n <= k * BlockSize, n > (l - 1) * BlockSize
  PROVE  l <= k
BY CacheConstants, KVP!CoverUnique

\* The pages a slot lacks for the call.
Lack(s) == KV!Missing(cache, News, s)

\* A free slot has and needs no pages, a prompt no more than fill its tokens.
NeedsWhat(s) ==
  /\ Len(cache.tables[s]) \in Nat /\ Lack(s) \in Nat
  /\ \/ Len(cache.tables[s]) = 0 /\ Lack(s) = 0
     \/ \E it \in ToSet(prefilling) :
          /\ it.slot = s /\ PromptBlocks(it.req) \in Nat
          /\ Len(cache.tables[s]) <= PromptBlocks(it.req)
          /\ Lack(s) <= PromptBlocks(it.req) - Len(cache.tables[s])

\* Nothing running, a call needs of each slot no more than what was promised.
LEMMA CallNeeds ==
  ASSUME IInv, PromptsInPlace, pc = "planned", running = <<>>, NEW s \in Slots
  PROVE  NeedsWhat(s)
<1> DEFINE lens  == cache.lens[s]
           owned == Len(cache.tables[s])
           news  == News[s]
           grown == KV!Pages(lens + news)
<1>0. TypeOK /\ Placed /\ Good(cache) /\ Planned /\ RequestsFit
  BY DEF IInv, Planned
<1>1. lens \in Nat /\ owned \in Nat /\ news \in Nat
  <2>1. lens \in Nat /\ cache.tables[s] \in Seq(KV!Pool)
    BY <1>0, GoodTyped
  <2>2. news \in Nat
    BY <1>0, NewsIs
  <2>3. QED
    BY <2>1, <2>2
<1>2. lens > (owned - 1) * BlockSize
  BY <1>0, SameSlots DEF Good, KV!CoveredIn
<1>3. grown \in Nat /\ lens + news > (grown - 1) * BlockSize /\ lens + news \in Nat
  <2>1. lens + news \in Nat
    BY <1>1
  <2> HIDE DEF lens, news
  <2>2. QED
    BY <2>1, PagesAre
<1>4. Lack(s) = IF grown - owned > 0 THEN grown - owned ELSE 0
  BY DEF Lack, KV!Missing
<1>5. s \in ToSet(freeSlots) \/ s \in SlotsIn(ToSet(prefilling))
  <2>1. ToSet(running) = {}
    BY NoItems
  <2>2. SlotsIn(ToSet(running)) = {}
    BY <2>1 DEF SlotsIn
  <2>3. QED
    BY <1>0, <2>2 DEF Placed, Parts
<1>6. CASE s \in ToSet(freeSlots)
  <2>1. lens = 0 /\ news = 0
    BY <1>0, <1>6, FreeNews DEF PromptsInPlace
  <2>2. 0 \in Nat /\ 0 <= 0 * BlockSize
    BY SchedulerAssumption
  <2>3. 0 > (owned - 1) * BlockSize /\ 0 > (grown - 1) * BlockSize
    <3>1. lens + news = 0
      BY <2>1
    <3>2. QED
      BY <1>2, <1>3, <2>1, <3>1
  <2> HIDE DEF lens, owned, news, grown
  <2>4. owned <= 0 /\ grown <= 0
    BY <1>1, <1>3, <2>2, <2>3, CoverOnce
  <2>5. owned = 0 /\ Lack(s) = 0
    BY <1>1, <1>3, <1>4, <2>4
  <2>6. QED
    BY <2>5 DEF NeedsWhat, owned
<1>7. CASE s \in SlotsIn(ToSet(prefilling))
  <2>1. PICK it \in ToSet(prefilling) : it.slot = s
    BY <1>7 DEF SlotsIn
  <2> DEFINE r      == it.req
             blocks == PromptBlocks(it.req)
             tokens == PromptLen(it.req)
             done   == computed[it.req]
  <2>2. r \in Reqs /\ done \in Nat /\ tokens \in Nat /\ blocks \in Nat /\ tokens <= blocks * BlockSize
        /\ done <= tokens /\ lens = done
    <3>1. r \in Reqs /\ done \in Nat
      BY <1>0, BusyTyped
    <3>2. tokens \in Nat /\ blocks \in Nat /\ tokens <= blocks * BlockSize
      BY <1>0, <3>1, BlocksAre
    <3>3. done <= tokens /\ lens = done
      BY <1>0, <2>1 DEF RequestsFit, PromptsInPlace
    <3>4. QED
      BY <3>1, <3>2, <3>3
  <2>3. news <= tokens - done
    <3>1. CASE \E x \in ToSet(plan.prefill) : x.slot = it.slot /\ x.req = it.req
      <4>1. PICK x \in ToSet(plan.prefill) : x.slot = it.slot /\ x.req = it.req
        BY <3>1
      <4>2. x.chunk <= Remaining(x.req)
        BY <1>0, <4>1 DEF Planned, PlanFollows, Follows
      <4>3. news = x.chunk
        BY <1>0, <2>1, <4>1, NewsIs
      <4>4. QED
        BY <4>1, <4>2, <4>3 DEF Remaining
    <3>2. CASE News[it.slot] = 0
      BY <2>1, <2>2, <3>2
    <3>3. QED
      BY <1>0, <3>1, <3>2, PromptNews
  <2>4. lens <= blocks * BlockSize /\ lens + news <= blocks * BlockSize
    <3> HIDE DEF lens, news, blocks, tokens, done
    <3> DEFINE most == blocks * BlockSize
    <3>1. most \in Nat
      BY <2>2, SchedulerAssumption
    <3>2. tokens <= most
      BY <2>2
    <3> HIDE DEF most
    <3>3. lens <= most /\ lens + news <= most
      BY <1>1, <2>2, <2>3, <3>1, <3>2
    <3>4. QED
      BY <3>3 DEF most
  <2> HIDE DEF lens, owned, news, grown, blocks, tokens, done
  <2>5. owned <= blocks
    BY <1>1, <1>2, <2>2, <2>4, CoverOnce
  <2>6. grown <= blocks
    <3> DEFINE sum == lens + news
    <3>1. sum \in Nat /\ sum <= blocks * BlockSize /\ sum > (grown - 1) * BlockSize
      BY <1>3, <2>4
    <3> HIDE DEF sum
    <3>2. QED
      BY <1>3, <2>2, <3>1, CoverOnce
  <2>7. Lack(s) \in Nat /\ Lack(s) <= blocks - owned
    BY <1>1, <1>3, <1>4, <2>2, <2>5, <2>6
  <2>8. QED
    BY <1>1, <2>1, <2>2, <2>5, <2>7 DEF NeedsWhat, owned, blocks
<1>8. QED
  BY <1>5, <1>6, <1>7

\* When nothing runs, what a call needs are pages reserved for its prompts.
LEMMA AloneFits ==
  ASSUME IInv, PromptsInPlace, PromptsReserved, pc = "planned", running = <<>>
  PROVE  KV!Fits(cache, News)
<1> DEFINE W == UNION {{a} \X (1 .. Lack(a)) : a \in 0 .. (MaxRunning - 1)}
           A == PagesOf(ToSet(prefilling))
           O == OwnedIn(cache)
           f == [p \in W |-> <<p[1], p[2] + Len(cache.tables[p[1]])>>]
<1>0. TypeOK /\ Placed /\ Good(cache)
  BY DEF IInv
<1>1. \A s \in Slots : NeedsWhat(s)
  BY CallNeeds
<1>2. KV!Demand(cache, News) = Cardinality(W)
  <2>1. \A S : KV!Cardinality(S) = Cardinality(S)
    BY DEF KV!Cardinality, Cardinality
  <2>2. QED
    BY <2>1 DEF KV!Demand, KV!DemandBefore, Lack
<1>3. \A p \in W : p[1] \in Slots /\ p[2] \in 1 .. Lack(p[1]) /\ p = <<p[1], p[2]>>
  BY DEF Slots
<1>4. IsFiniteSet(A)
  <2>1. prefilling \in Seq(Items) /\ Unique(prefilling)
    BY <1>0 DEF TypeOK, Placed, ListsUnique
  <2>2. QED
    BY <1>0, <2>1, PagesCount
<1>5. O \subseteq A
  <2>1. ASSUME NEW p \in O
        PROVE  p \in A
    <3>1. p \in Slots \X Nat /\ p[1] \in Slots /\ p[2] \in 1 .. Len(cache.tables[p[1]])
      BY DEF OwnedIn
    <3>2. NeedsWhat(p[1])
      BY <1>1, <3>1
    <3>3. PICK it \in ToSet(prefilling) :
            /\ it.slot = p[1] /\ PromptBlocks(it.req) \in Nat
            /\ Len(cache.tables[p[1]]) <= PromptBlocks(it.req)
      BY <3>1, <3>2 DEF NeedsWhat
    <3>4. p[2] \in 1 .. PromptBlocks(it.req)
      BY <3>1, <3>2, <3>3 DEF NeedsWhat
    <3>5. QED
      BY <3>1, <3>3, <3>4 DEF PagesOf
  <2>2. QED
    BY <2>1
<1>6. ASSUME NEW p \in W
      PROVE  <<p[1], p[2] + Len(cache.tables[p[1]])>> \in A \ O
  <2> DEFINE s == p[1]
             k == p[2]
             owned == Len(cache.tables[p[1]])
             q == <<p[1], p[2] + Len(cache.tables[p[1]])>>
  <2>1. s \in Slots /\ k \in 1 .. Lack(s) /\ NeedsWhat(s)
    BY <1>1, <1>3
  <2>2. owned \in Nat /\ Lack(s) \in Nat
    BY <2>1 DEF NeedsWhat
  <2>3. PICK it \in ToSet(prefilling) :
          /\ it.slot = s /\ PromptBlocks(it.req) \in Nat
          /\ Lack(s) <= PromptBlocks(it.req) - owned
    BY <2>1 DEF NeedsWhat
  <2>4. q[1] = s /\ q[2] = k + owned
    OBVIOUS
  <2>5. q \in Slots \X Nat
    BY <2>1, <2>2
  <2> HIDE DEF s, k, owned, q
  <2>6. k + owned \in 1 .. PromptBlocks(it.req) /\ k + owned \notin 1 .. owned
    BY <2>1, <2>2, <2>3
  <2>7. q \in A
    BY <2>3, <2>4, <2>5, <2>6 DEF PagesOf
  <2>8. q \notin O
    <3>1. owned = Len(cache.tables[s])
      BY DEF owned, s
    <3>2. QED
      BY <2>4, <2>6, <3>1 DEF OwnedIn
  <2>9. QED
    BY <2>7, <2>8 DEF q
<1>7. ASSUME NEW p \in W, NEW q \in W, f[p] = f[q]
      PROVE  p = q
  <2>1. p[1] = q[1] /\ p[2] + Len(cache.tables[p[1]]) = q[2] + Len(cache.tables[q[1]])
    BY <1>7
  <2>2. p[2] \in Int /\ q[2] \in Int /\ Len(cache.tables[p[1]]) \in Nat
    BY <1>1, <1>3 DEF NeedsWhat
  <2>3. p[2] = q[2]
    BY <2>1, <2>2
  <2>4. QED
    BY <1>3, <2>1, <2>3
<1>8. f \in [W -> A \ O]
  BY <1>6
<1> HIDE DEF W, A, O, f
<1>9. f \in Injection(W, A \ O)
  BY <1>7, <1>8 DEF Injection, IsInjective
<1>10. IsFiniteSet(A \ O) /\ Cardinality(A \ O) = Cardinality(A) - Cardinality(A \cap O)
  BY <1>4, FS_Difference
<1>11. IsFiniteSet(W) /\ Cardinality(W) <= Cardinality(A \ O)
  BY <1>9, <1>10, FS_Injection
<1>12. A \cap O = O
  BY <1>5
<1>13. Cardinality(O) \in Nat /\ Len(cache.free) \in Nat /\ Cardinality(O) + Len(cache.free) = NumBlocks
  BY <1>0, PoolCount DEF O
<1>14. Cardinality(A) \in Nat /\ Cardinality(W) \in Nat /\ Cardinality(A) <= NumBlocks
  BY <1>4, <1>11, FS_CardinalityType DEF PromptsReserved, A
<1>15. Cardinality(W) <= Len(cache.free)
  <2> DEFINE a == Cardinality(A)
             o == Cardinality(O)
             w == Cardinality(W)
             free == Len(cache.free)
  <2>1. w <= a - o /\ a \in Nat /\ o \in Nat /\ w \in Nat /\ free \in Nat
    BY <1>10, <1>11, <1>12, <1>13, <1>14
  <2>2. a <= NumBlocks /\ o + free = NumBlocks /\ NumBlocks \in Nat
    BY <1>13, <1>14, SchedulerAssumption
  <2> HIDE DEF a, o, w, free
  <2>3. w <= free
    BY <2>1, <2>2
  <2>4. QED
    BY <2>3 DEF w, free
<1>16. QED
  BY <1>2, <1>15 DEF KV!Fits

\* A prompt is only admitted when its pages are there or promised, so a step with nothing
\* to evict never exhausts the pool: the raise in the CacheFullError handler of step is not
\* reached.
THEOREM PromptsAloneFit == Spec => []PrefillAloneFits
<1>1. Init => PromptsReserved
  <2> SUFFICES ASSUME Init
               PROVE  PromptsReserved
    OBVIOUS
  <2>1. ToSet(prefilling) = {}
    BY NoItems DEF Init
  <2>2. PagesOf(ToSet(prefilling)) = {}
    BY <2>1 DEF PagesOf
  <2>3. QED
    BY <2>2, FS_EmptySet, SchedulerAssumption DEF PromptsReserved
<1>2. IInv /\ PromptsInPlace /\ PromptsReserved /\ [Next]_vars => PromptsReserved'
  BY StillReserved
<1>3. IInv /\ PromptsInPlace /\ PromptsReserved => PrefillAloneFits
  BY AloneFits DEF PrefillAloneFits, Exhausted
<1>4. QED
  BY <1>1, <1>2, <1>3, AlwaysIInv, AlwaysPromptsInPlace, PTL DEF Spec

-----------------------------------------------------------------------------
(* A plan is empty for want of pages only *)

\* Requests keep their prompts: an empty one was empty when it came.
LEMMA PromptsStay ==
  ASSUME IInv, [Next]_vars, Prompted'
  PROVE  Prompted \/ prefilling' = <<>>
<1>1. nextId \in Nat /\ nPrompt \in [Reqs -> Nat]
  BY DEF IInv, TypeOK
<1>2. ASSUME NEW shape \in Shapes, AddRequest(shape)
      PROVE  Prompted
  <2>1. nextId' = nextId + 1 /\ nPrompt' = [nPrompt EXCEPT ![nextId] = shape[1]]
    BY <1>2 DEF AddRequest
  <2>2. ASSUME NEW r \in Reqs, r < nextId
        PROVE  nPrompt[r] > 0
    <3>1. r # nextId /\ r < nextId + 1
      BY <1>1, <2>2 DEF Reqs
    <3>2. nPrompt'[r] = nPrompt[r]
      BY <1>1, <2>1, <3>1
    <3>3. nPrompt'[r] > 0
      BY <2>1, <3>1 DEF Prompted
    <3>4. QED
      BY <3>2, <3>3
  <2>3. QED
    BY <2>2 DEF Prompted
<1>3. ASSUME Reset
      PROVE  prefilling' = <<>>
  BY <1>3 DEF Reset
<1>4. ASSUME UNCHANGED <<nextId, nPrompt>>
      PROVE  Prompted
  BY <1>4 DEF Prompted
<1>5. Called \/ PlanIteration \/ EmptyStep \/ Preempt \/ UNCHANGED vars => UNCHANGED <<nextId, nPrompt>>
  BY DEF Called, PlanIteration, EmptyStep, Preempt, vars, requestVars, DecodeStep, PrefillStep,
         MixedStep, TooLongFails, ModelFails, SamplingFails, Outcome
<1>6. QED
  BY <1>2, <1>3, <1>4, <1>5 DEF Next, Client, Step, Failure, Called

\* So, if no prompt is empty, those under way keep having tokens left.
LEMMA PromptedPending ==
  ASSUME IInv, PromptsInPlace, Prompted => Pending, [Next]_vars
  PROVE  (Prompted => Pending)'
<1>1. SUFFICES ASSUME Prompted'
               PROVE  Pending'
  OBVIOUS
<1>2. CASE Prompted
  BY <1>1, <1>2, StillPending
<1>3. CASE prefilling' = <<>>
  <2>1. ToSet(prefilling') = {}
    BY <1>3, NoItems
  <2>2. QED
    BY <1>1, <2>1 DEF Pending
<1>4. QED
  BY <1>1, <1>2, <1>3, PromptsStay

\* Where no decode shares the step, the first prompt is given a chunk.
LEMMA FirstServed ==
  ASSUME TypeOK, NEW items \in Seq(Items), items # <<>>, NEW tokens \in Nat \ {0},
         \A it \in ToSet(items) : computed[it.req] \in Nat /\ Remaining(it.req) \in Nat \ {0}
  PROVE  PlanChunks(items, tokens, FALSE) # <<>>
<1>1. \A it \in ToSet(items) : computed[it.req] \in Nat /\ Remaining(it.req) \in Nat
  OBVIOUS
<1>2. PICK g : ChunkSteps(g, items, tokens, FALSE)
               /\ PlanChunks(items, tokens, FALSE) = g[Len(items)].chosen
  <2>1. tokens \in Nat /\ FALSE \in BOOLEAN
    OBVIOUS
  <2>2. QED
    BY <1>1, <2>1, PlanChunksSteps
<1> DEFINE n == Len(items)
<1>3. /\ n \in Nat \ {0}
      /\ g \in [0 .. n -> Budgets(FALSE)]
      /\ g[0] = [chosen |-> <<>>, tokens |-> tokens, pairs |-> MaxPairs, stopped |-> FALSE]
      /\ \A i \in 1 .. n : g[i] = Chunked(g[i - 1], items[i], FALSE)
  <2>1. n \in Nat \ {0}
    <3>1. Len(items) \in Nat /\ Len(items) # 0
      OBVIOUS
    <3>2. QED
      BY <3>1
  <2>2. QED
    BY <1>2, <2>1 DEF ChunkSteps
<1>4. \A i \in 1 .. n : /\ items[i] \in Items /\ computed[items[i].req] \in Nat
                        /\ Remaining(items[i].req) \in Nat \ {0}
  <2>1. \A i \in 1 .. n : items[i] \in Items /\ items[i] \in ToSet(items)
    BY SeqSet
  <2>2. QED
    BY <2>1
<1> DEFINE P == {k \in 0 .. n : k = 0 \/ g[k].chosen # <<>>}
<1> HIDE DEF n
<1>5. 0 \in P
  BY <1>3
<1>6. ASSUME NEW k \in 1 .. n, k - 1 \in P
      PROVE  k \in P
  <2> DEFINE item   == items[k]
             acc    == g[k - 1]
             next   == Chunked(acc, item, FALSE)
             length == Share(acc, item, FALSE)
             x      == [slot |-> item.slot, req |-> item.req, chunk |-> length]
  <2>1. /\ k - 1 \in 0 .. n /\ k \in 0 .. n
        /\ item \in Items /\ computed[item.req] \in Nat /\ Remaining(item.req) \in Nat \ {0}
        /\ acc \in Budgets(FALSE) /\ g[k] = next
    <3>1. k - 1 \in 0 .. n /\ k \in 0 .. n
      BY <1>3
    <3>2. g[k - 1] \in Budgets(FALSE) /\ g[k] = Chunked(g[k - 1], items[k], FALSE)
      BY <1>3, <3>1
    <3>3. QED
      BY <1>4, <3>1, <3>2
  <2> HIDE DEF item, acc
  <2>2. Remaining(item.req) \in Nat /\ Remaining(item.req) # 0 /\ FALSE \in BOOLEAN
    BY <2>1
  <2>3. length = 0 => acc.tokens = 0
    BY <2>1, <2>2, ShareIs
  <2>4. /\ acc.stopped \/ length = 0 => next.chosen = acc.chosen
        /\ ~(acc.stopped \/ length = 0) => next.chosen = Append(acc.chosen, x)
    BY <2>1, <2>2, ChunkedIs
  <2>5. acc.chosen \in Seq(Chunks)
    BY <2>1 DEF Budgets
  <2> HIDE DEF next, length, x
  <2>6. Append(acc.chosen, x) # <<>>
    BY <2>5
  <2>7. k = 1 => ~(acc.stopped \/ length = 0)
    <3>1. k = 1 => acc = g[0]
      BY DEF acc
    <3>2. QED
      BY <1>3, <2>3, <3>1
  <2>8. k # 1 => acc.chosen # <<>>
    BY <1>3, <1>6 DEF P, acc
  <2>9. next.chosen # <<>>
    BY <2>4, <2>6, <2>7, <2>8
  <2>10. QED
    BY <2>1, <2>9 DEF P
<1> HIDE DEF P
<1>7. 0 .. n \subseteq P
  BY <1>3, <1>5, <1>6, UpTo
<1>8. n \in P /\ n # 0
  BY <1>3, <1>7
<1>9. g[n].chosen # <<>>
  BY <1>8 DEF P
<1>10. QED
  BY <1>2, <1>9 DEF n

\* With nothing under way every slot is free, and every page.
LEMMA PoolIsFree ==
  ASSUME IInv, PromptsInPlace, running = <<>>, prefilling = <<>>
  PROVE  Len(freeSlots) \in Nat \ {0} /\ Len(cache.free) = NumBlocks
<1>1. TypeOK /\ Placed /\ Good(cache)
  BY DEF IInv
<1>2. ToSet(freeSlots) = Slots
  <2>1. ToSet(prefilling) = {} /\ ToSet(running) = {}
    BY NoItems
  <2>2. SlotsIn(ToSet(prefilling)) = {} /\ SlotsIn(ToSet(running)) = {}
    BY <2>1 DEF SlotsIn
  <2>3. QED
    BY <1>1, <2>2 DEF Placed, Parts
<1>3. 0 \in Slots
  BY SchedulerAssumption DEF Slots
<1>4. Len(freeSlots) \in Nat \ {0}
  <2>1. freeSlots \in Seq(Slots)
    BY <1>1 DEF TypeOK
  <2>2. Len(freeSlots) \in Nat /\ ToSet(freeSlots) = {freeSlots[i] : i \in 1 .. Len(freeSlots)}
    BY <2>1, SeqSet
  <2>3. Len(freeSlots) # 0
    <3>1. Len(freeSlots) = 0 => 1 .. Len(freeSlots) = {}
      OBVIOUS
    <3>2. QED
      BY <1>2, <1>3, <2>2, <3>1
  <2>4. QED
    BY <2>2, <2>3
<1>5. ASSUME NEW s \in Slots
      PROVE  Len(cache.tables[s]) = 0
  <2>1. cache.lens[s] = 0
    BY <1>2 DEF PromptsInPlace
  <2>2. cache.tables[s] \in Seq(KV!Pool)
    BY <1>1, GoodTyped
  <2> DEFINE owned == Len(cache.tables[s])
  <2>3. owned \in Nat
    BY <2>2
  <2>4. cache.lens[s] > (owned - 1) * BlockSize
    BY <1>1, SameSlots DEF Good, KV!CoveredIn
  <2>5. BlockSize \in Nat \ {0}
    BY SchedulerAssumption
  <2> HIDE DEF owned
  <2>6. owned >= 1 => (owned - 1) * BlockSize >= 0
    BY <2>3, <2>5
  <2>7. owned = 0
    BY <2>1, <2>3, <2>4, <2>5, <2>6
  <2>8. QED
    BY <2>7 DEF owned
<1>6. OwnedIn(cache) = {}
  <2>1. \A s \in Slots : 1 .. Len(cache.tables[s]) = {}
    BY <1>5
  <2>2. QED
    BY <2>1 DEF OwnedIn
<1>7. Len(cache.free) \in Nat /\ Cardinality(OwnedIn(cache)) + Len(cache.free) = NumBlocks
  BY <1>1, PoolCount
<1>8. Cardinality(OwnedIn(cache)) = 0
  BY <1>6, FS_EmptySet
<1>9. NumBlocks \in Nat
  BY SchedulerAssumption
<1>10. QED
  BY <1>4, <1>7, <1>8, <1>9

\* Then whatever fits the pool can join.
LEMMA FirstAdmissible ==
  ASSUME IInv, PromptsInPlace, running = <<>>, prefilling = <<>>, waiting # <<>>,
         ~(PromptBlocks(Head(waiting)) > NumBlocks)
  PROVE  Admissible(1)
<1>1. TypeOK /\ waiting \in Seq(Reqs)
  BY DEF IInv, TypeOK
<1> DEFINE need == [i \in 1 .. 1 |-> PromptBlocks(waiting[i])]
           none == [i \in 1 .. Len(prefilling) |->
                      LET short == PromptBlocks(prefilling[i].req)
                                     - Len(cache.tables[prefilling[i].slot])
                      IN  IF short > 0 THEN short ELSE 0]
<1>2. Len(running) = 0 /\ Len(prefilling) = 0
  OBVIOUS
<1>3. waiting[1] \in Reqs /\ Head(waiting) = waiting[1]
  BY <1>1
<1>4. PromptBlocks(waiting[1]) \in Nat
  BY <1>1, <1>3, BlocksAre
<1>5. need \in [1 .. 1 -> Int] /\ need[1] = PromptBlocks(waiting[1])
  <2>1. \A i \in 1 .. 1 : i = 1
    OBVIOUS
  <2>2. 1 \in 1 .. 1
    OBVIOUS
  <2>3. QED
    BY <1>4, <2>1, <2>2
<1>6. Reserved = 0
  <2>1. none \in [1 .. 0 -> Int]
    BY <1>2
  <2>2. Reserved = Sum(none, Len(prefilling))
    BY DEF Reserved
  <2> HIDE DEF none
  <2>3. Sum(none, 0) = 0
    BY <2>1, SumOfNone
  <2>4. QED
    BY <1>2, <2>2, <2>3
<1>7. Sum(need, 0) = 0
  <2> DEFINE nil == [i \in 1 .. 0 |-> 0]
  <2>1. nil \in [1 .. 0 -> Int] /\ need \in [1 .. 0 + 1 -> Int] /\ \A i \in 1 .. 0 : need[i] = nil[i]
    BY <1>5
  <2> HIDE DEF need, nil
  <2>2. Sum(nil, 0) = 0
    BY <2>1, SumOfNone
  <2>3. Sum(need, 0 + 1) = Sum(nil, 0) + need[0 + 1]
    BY <2>1, SumMore
  <2>4. Sum(need, 1 - 1) \in Int /\ Sum(need, 1) = Sum(need, 1 - 1) + need[1]
    <3>1. PICK one : one = 1
      OBVIOUS
    <3>2. one \in Nat \ {0} /\ need \in [1 .. one -> Int]
      BY <1>5, <3>1
    <3>3. Sum(need, one - 1) \in Int /\ Sum(need, one) = Sum(need, one - 1) + need[one]
      BY <3>2, SumLast
    <3>4. QED
      BY <3>1, <3>3
  <2>5. need[1] \in Int
    BY <1>5
  <2>6. QED
    BY <2>2, <2>3, <2>4, <2>5
<1>8. Len(cache.free) = NumBlocks /\ NumBlocks \in Nat
  BY PoolIsFree, SchedulerAssumption
<1> HIDE DEF need
<1>9. need[1] + Len(running) + Len(prefilling) + 1 - 1 <= Len(cache.free) - Reserved - Sum(need, 1 - 1)
  BY <1>2, <1>3, <1>4, <1>5, <1>6, <1>7, <1>8
<1>10. \A i \in 1 .. 1 : need[i] + Len(running) + Len(prefilling) + i - 1
                           <= Len(cache.free) - Reserved - Sum(need, i - 1)
  <2>1. \A i \in 1 .. 1 : i = 1
    OBVIOUS
  <2>2. QED
    BY <1>9, <2>1
<1>11. QED
  BY <1>10 DEF Admissible, need

\* What an empty plan means where no prompt is empty.
EmptyRefused ==
  PlanIsEmpty /\ Prompted =>
    /\ running = <<>> /\ prefilling = <<>>
    /\ waiting # <<>> /\ PromptBlocks(Head(waiting)) > NumBlocks

\* plan_iteration returns an empty plan for no other reason.
LEMMA PlannedRefused ==
  ASSUME IInv, PromptsInPlace, Prompted => Pending, PlanIteration
  PROVE  EmptyRefused'
<1>0. TypeOK /\ Placed
  BY DEF IInv
<1> DEFINE count == Count
           all   == prefilling \o JoinedBy(Count)
<1>1. PlanningIs(count, all)
  BY <1>0, PlanIterationIs
<1>2. Joining(count)
  BY PlanJoins
<1>3. count = IF Tokens > 0 THEN PlannedPrefillCount ELSE 0
  BY DEF Count
<1> HIDE DEF count, all
<1>4. /\ prefilling' = all /\ running' = running /\ nextId' = nextId /\ nPrompt' = nPrompt
      /\ folded' = folded /\ waiting' = SubSeq(waiting, count + 1, Len(waiting))
      /\ plan' = [decode |-> running, prefill |-> IF Tokens > 0 THEN PlanChunks(all, Tokens, Limited)
                                                               ELSE <<>>]
      /\ all = prefilling \o JoinedBy(count) /\ count \in Nat
  BY <1>1 DEF PlanningIs
<1>5. SUFFICES ASSUME PlanIsEmpty', Prompted'
               PROVE  /\ running' = <<>> /\ prefilling' = <<>>
                      /\ waiting' # <<>> /\ PromptBlocks(Head(waiting))' > NumBlocks
  BY DEF EmptyRefused
<1>6. Prompted /\ Pending
  BY <1>4, <1>5 DEF Prompted
<1>7. running = <<>> /\ (IF Tokens > 0 THEN PlanChunks(all, Tokens, Limited) ELSE <<>>) = <<>>
  BY <1>4, <1>5 DEF PlanIsEmpty
<1>8. Tokens \in Nat \ {0} /\ Limited = FALSE
  <2>1. Len(running) = 0
    BY <1>7
  <2>2. MaxBatchedTokens \in Nat /\ MaxRunning \in Nat \ {0} /\ MaxBatchedTokens >= MaxRunning
    BY SchedulerAssumption
  <2>3. QED
    BY <1>7, <2>1, <2>2 DEF Tokens, Limited
<1>9. PlanChunks(all, Tokens, FALSE) = <<>>
  <2>1. Tokens > 0
    BY <1>8
  <2>2. PlanChunks(all, Tokens, Limited) = <<>>
    BY <1>7, <2>1
  <2>3. QED
    BY <1>8, <2>2
<1>10. \A it \in ToSet(all) : computed[it.req] \in Nat /\ Remaining(it.req) \in Nat \ {0}
  BY <1>1, <1>2, <1>6, AllPending
<1>11. all \in Seq(Items)
  BY <1>1, AllIs DEF AllFit
<1>12. all = <<>>
  BY <1>0, <1>8, <1>9, <1>10, <1>11, FirstServed
<1>13. prefilling = <<>> /\ count = 0
  <2>1. prefilling \in Seq(Items) /\ JoinedBy(count) \in Seq(Items) /\ Len(JoinedBy(count)) = count
    BY <1>0, <1>2 DEF TypeOK, Joining
  <2> DEFINE joined == JoinedBy(count)
  <2> HIDE DEF joined
  <2>2. Len(all) = Len(prefilling) + Len(JoinedBy(count))
    <3>1. joined \in Seq(Items) /\ all = prefilling \o joined
      BY <1>4, <2>1 DEF joined
    <3>2. Len(all) = Len(prefilling) + Len(joined)
      BY <2>1, <3>1
    <3>3. QED
      BY <3>2 DEF joined
  <2>3. Len(all) = 0 /\ Len(prefilling) \in Nat
    BY <1>12, <2>1
  <2>4. Len(prefilling) = 0 /\ count = 0
    BY <1>4, <2>1, <2>2, <2>3
  <2>5. QED
    BY <2>1, <2>4
<1>14. waiting \in Seq(Reqs) /\ waiting # <<>>
  BY <1>0, <1>7, <1>13 DEF PlanIteration, TypeOK
<1>15. waiting' = waiting
  <2>1. SubSeq(waiting, 1, Len(waiting)) = waiting
    BY <1>14
  <2>2. QED
    BY <1>4, <1>13, <2>1
<1>16. PromptBlocks(Head(waiting)) > NumBlocks
  <2>1. SUFFICES ASSUME ~(PromptBlocks(Head(waiting)) > NumBlocks)
                 PROVE  FALSE
    OBVIOUS
  <2>2. Admissible(1)
    BY <1>7, <1>13, <1>14, <2>1, FirstAdmissible
  <2>3. 1 <= Len(freeSlots)
    BY <1>7, <1>13, PoolIsFree
  <2>4. 1 <= Len(waiting)
    BY <1>14
  <2>5. 1 <= Room
    <3>1. Len(prefilling) = 0 /\ MaxPrefillBatch \in Nat \ {0}
      BY <1>13, SchedulerAssumption
    <3>2. QED
      BY <3>1 DEF Room
  <2>6. 1 <= PlannedPrefillCount
    BY <1>0, <2>2, <2>3, <2>4, <2>5, CountIs
  <2>7. count = PlannedPrefillCount
    BY <1>3, <1>8
  <2>8. QED
    BY <1>13, <2>6, <2>7
<1>17. PromptBlocks(Head(waiting))' = PromptBlocks(Head(waiting))
  BY <1>4, <1>15 DEF PromptBlocks, PromptLen
<1>18. QED
  BY <1>4, <1>7, <1>12, <1>14, <1>15, <1>16, <1>17

\* Until the step ends nothing changes.
LEMMA RefusalKept ==
  ASSUME IInv, PromptsInPlace, Prompted => Pending, pc = "planned" => EmptyRefused, [Next]_vars
  PROVE  (pc = "planned" => EmptyRefused)'
<1>1. ASSUME PlanIteration
      PROVE  EmptyRefused'
  BY <1>1, PlannedRefused
<1>2. ASSUME NEW shape \in Shapes, AddRequest(shape)
      PROVE  pc' # "planned"
  BY <1>2 DEF AddRequest
<1>3. ASSUME Reset
      PROVE  pc' # "planned"
  BY <1>3 DEF Reset
<1>4. ASSUME Called \/ EmptyStep \/ Preempt
      PROVE  pc' # "planned"
  BY <1>4 DEF Called, EmptyStep, Preempt, DecodeStep, PrefillStep, MixedStep, TooLongFails,
              ModelFails, SamplingFails, Outcome, EndStep
<1>5. ASSUME UNCHANGED vars, pc = "planned"
      PROVE  EmptyRefused'
  BY <1>5 DEF vars, requestVars, tokenVars, queueVars, EmptyRefused, PlanIsEmpty, Prompted,
              PromptBlocks, PromptLen
<1>6. UNCHANGED vars => pc' = pc
  BY DEF vars
<1>7. QED
  BY <1>1, <1>2, <1>3, <1>4, <1>5, <1>6 DEF Next, Client, Step, Failure, Called

\* Unless a prompt is empty, plan_iteration returns nothing to do in one case only:
\* nothing is under way, and the first that waits has a prompt larger than the pool.
\* So the errors of step for an empty plan are never about the attention budget.
THEOREM EmptyPlansAreRefusals == Spec => []EmptyPlanOnlyForWantOfPool
<1> DEFINE Kept == (Prompted => Pending) /\ (pc = "planned" => EmptyRefused)
<1>1. Init => Kept
  <2> SUFFICES ASSUME Init
               PROVE  Kept
    OBVIOUS
  <2>1. prefilling = <<>> /\ pc = "idle"
    BY DEF Init
  <2>2. ToSet(prefilling) = {}
    BY <2>1, NoItems
  <2>3. QED
    BY <2>1, <2>2 DEF Pending
<1>2. IInv /\ PromptsInPlace /\ Kept /\ [Next]_vars => Kept'
  BY PromptedPending, RefusalKept
<1>3. IInv /\ Kept => EmptyPlanOnlyForWantOfPool
  <2>1. SUFFICES ASSUME IInv, Kept, pc = "planned", PlanIsEmpty,
                        \A r \in 0 .. (nextId - 1) : nPrompt[r] > 0
                 PROVE  /\ running = <<>> /\ prefilling = <<>>
                        /\ waiting # <<>> /\ PromptBlocks(Head(waiting)) > NumBlocks
    BY DEF EmptyPlanOnlyForWantOfPool
  <2>2. nextId \in Nat
    BY <2>1 DEF IInv, TypeOK
  <2>3. Prompted
    BY <2>1, <2>2 DEF Prompted, Reqs
  <2>4. QED
    BY <2>1, <2>3 DEF EmptyRefused
<1> HIDE DEF Kept
<1>4. QED
  BY <1>1, <1>2, <1>3, AlwaysIInv, AlwaysPromptsInPlace, PTL DEF Spec

=============================================================================
