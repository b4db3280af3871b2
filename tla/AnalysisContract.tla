-------------------------- MODULE AnalysisContract --------------------------
(***************************************************************************)
(* What the analysis service promises its callers, whatever fails on the    *)
(* way: the findings and the score of a run appear together and stay, a     *)
(* failed run never has any, an operation sent again under its idempotency  *)
(* key does not produce them twice, and an answer is true then and ever     *)
(* after.                                                                   *)
(***************************************************************************)
CONSTANTS
  Calls,
  SameOperation(_, _), \* is one call a retry of the other?
  Once(_)              \* may the operation of a call produce results only once?

VARIABLES
  results, \* calls whose run has its findings and its score
  failed,  \* calls whose run is recorded as failed
  reply    \* call: the kind of answer and the run it names

Pending(c) == [kind |-> "pending", names |-> c]

Init ==
  /\ results = {}
  /\ failed = {}
  /\ reply = [c \in Calls |-> Pending(c)]

Open(c) == c \notin results \cup failed /\ reply[c] = Pending(c)

Publish(c) ==
  /\ Open(c)
  /\ Once(c) => \A d \in results : ~SameOperation(c, d)
  /\ results' = results \cup {c}
  /\ reply' \in {reply, [reply EXCEPT ![c] = [kind |-> "run", names |-> c]]}
  /\ UNCHANGED failed

Fail(c) ==
  /\ Open(c)
  /\ failed' = failed \cup {c}
  /\ reply' \in {[reply EXCEPT ![c] = [kind |-> k, names |-> c]] : k \in {"failed", "unknown"}}
  /\ UNCHANGED results

Answers(c) ==
  {[kind |-> "run", names |-> d] : d \in {e \in results : e = c \/ SameOperation(c, e)}}
  \cup {[kind |-> "refused", names |-> d] : d \in {c} \ (results \cup failed)}
  \cup {[kind |-> "unknown", names |-> c]}

Answer(c) ==
  /\ reply[c] = Pending(c)
  /\ \E a \in Answers(c) : reply' = [reply EXCEPT ![c] = a]
  /\ UNCHANGED <<results, failed>>

Next == \E c \in Calls : Publish(c) \/ Fail(c) \/ Answer(c)

Spec == Init /\ [][Next]_<<results, failed, reply>>
=============================================================================
