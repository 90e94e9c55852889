---------------------------- MODULE RequestService ----------------------------
(***************************************************************************)
(* What a client of the engine may rely on, with no batch, page or device  *)
(* in sight: an accepted request is answered with its own continuation,    *)
(* one token at a time, first come first started; a request that has       *)
(* started gets a token whenever any request does; an answer ends at the   *)
(* first EOS or at its limit; it is handed out once, when it has ended.    *)
(***************************************************************************)
EXTENDS Integers, Sequences

CONSTANTS MaxRequests, MaxContextLength, Shapes

VARIABLES
  accepted,   \* sequence of <<prompt length, output limit>>
  answer,     \* the tokens generated for each request
  delivered   \* the requests whose answers have been handed out

vars == <<accepted, answer, delivered>>

Reqs == 0 .. (MaxRequests - 1)

Prompt(r)  == accepted[r + 1][1]
Limit(r)   == accepted[r + 1][2]
Accepted   == 0 .. (Len(accepted) - 1)
Started    == {r \in Accepted : answer[r] # <<>>}
Ended      == {r \in Started : \/ answer[r][Len(answer[r])].eos
                               \/ Len(answer[r]) >= Limit(r)}
Open       == Accepted \ Ended

Init ==
  /\ accepted = <<>>
  /\ answer = [r \in Reqs |-> <<>>]
  /\ delivered = {}

Accept ==
  /\ Len(accepted) < MaxRequests
  /\ \E shape \in Shapes :
       /\ shape[1] > 0 /\ shape[2] > 0
       /\ shape[1] + shape[2] <= MaxContextLength
       /\ accepted' = Append(accepted, shape)
  /\ UNCHANGED <<answer, delivered>>

\* One more token for every request that has started, and for the next ones in
\* order of arrival.
Generate ==
  \E served \in SUBSET Open : \E eos \in [served -> BOOLEAN] :
    /\ served # {}
    /\ Started \cap Open \subseteq served
    /\ \A r \in Accepted : \A q \in served : r < q => r \in served \cup Started
    /\ answer' = [r \in Reqs |->
         IF r \in served
         THEN Append(answer[r], [req |-> r,
                                 at  |-> Prompt(r) + Len(answer[r]),
                                 eos |-> eos[r]])
         ELSE answer[r]]
    /\ UNCHANGED <<accepted, delivered>>

\* All the answers that have ended are handed out together.
Deliver ==
  /\ Ended # delivered
  /\ delivered' = Ended
  /\ UNCHANGED <<accepted, answer>>

Next == Accept \/ Generate \/ Deliver

Spec == Init /\ [][Next]_vars

FairSpec == Spec /\ WF_vars(Generate) /\ WF_vars(Deliver)

=============================================================================
