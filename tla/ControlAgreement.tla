--------------------------- MODULE ControlAgreement ---------------------------
(***************************************************************************)
(* The C++ loop and its Python twin on the same requests and the same      *)
(* sampled tokens, which each gives to requests by a cursor of its own.    *)
(* The twin plans when the C++ step has planned, and finishes or fails     *)
(* with the model call that finishes or fails it.                          *)
(***************************************************************************)
EXTENDS IterationLoopProperties

VARIABLE control

Twin == INSTANCE PythonControl

\* The token sampled for each row of the C++ calls, as its request has it then.
\* That of an unfinished prompt is used by neither control.
RowTokens(outs) ==
  LET unused    == [req |-> -1, at |-> -1, eos |-> FALSE]
      newest(r) == IF outs[r] = <<>> THEN unused ELSE outs[r][Len(outs[r])]
  IN  [k \in 1 .. NumRows |-> newest(RowReq(k))]

\* submit_request throws.
Refused(shape) == ClientMayRun /\ ~ValidShape(shape) /\ UNCHANGED vars

AgreementInit == Init /\ Twin!Init

Planned == ReplayDecode \/ LaunchDecode \/ LaunchPrefill \/ LaunchMixed
Returned == DecodeReturns \/ PrefillReturns \/ MixedReturns

\* Replaying device metadata has no counterpart in Python: when it throws, the
\* twin has not begun its step.
AgreementNext ==
  \/ \E shape \in Shapes : (SubmitRequest(shape) \/ Refused(shape))
                        /\ Twin!SubmitRequest(shape)
  \/ PopCompleted /\ Twin!PopCompleted
  \/ (Planned \/ ReturnEmpty) /\ Twin!BeginStep
  \/ Returned /\ pc' = "retire" /\ Twin!FinishStep(RowTokens(outputs'))
  \/ Returned /\ pc' # "retire" /\ UNCHANGED control
  \/ CallbackFails /\ Twin!ForwardRaises
  \/ (Schedule \/ Compact \/ AdvanceThrows) /\ UNCHANGED control

AgreementSpec == AgreementInit /\ [][AgreementNext]_<<vars, control>>

-----------------------------------------------------------------------------

\* The twin's object of a request, and its lists of them.
Object(r) ==
  [id |-> r, prompt |-> promptLen[r], limit |-> maxOutput[r],
   computed |-> computed[r], output |-> outputs[r], blocks |-> blocks[r]]
Objects(requests) == [i \in 1 .. Len(requests) |-> Object(requests[i])]

SameQueues ==
  /\ control.waiting = Objects(pending)
  /\ control.running = Objects(running)
  /\ control.free = free
  /\ control.completed = completed

\* Between steps and during every model call the two controls hold the same
\* requests in the same order, page for page and down to the order of the free
\* list, and a call is made for the same rows, chunks and longest context:
\* python_control.py matches the C++ loop's scheduling, also after failed steps
\* and with requests submitted in the middle of one, and each control gives
\* the sampled tokens to the same requests.
ControlsAgree ==
  /\ ClientMayRun => SameQueues
  /\ pc \in {"decode", "prefill", "mixed"} =>
       /\ control.decode = decodePlan
       /\ control.prefill = prefillPlan
  /\ pc \in {"decode", "mixed"} => control.maxContext = maxContext

=============================================================================
