---------------------------- MODULE BhttpService ----------------------------
(***************************************************************************)
(* What bcurl and bserve promise together, with no connections and no      *)
(* frames: the targets are settled in order, each with one of the results  *)
(* allowed for it, and the exit status tells whether all went well.        *)
(***************************************************************************)
EXTENDS Integers, Sequences

CONSTANTS Scripts,    \* the lists of targets
          Allowed(_)  \* the results a target may have: [ok, status, body]

VARIABLES todo,     \* targets to be settled
          results,  \* results so far
          code      \* exit status, -1 before the end

vars == <<todo, results, code>>

Init == todo \in Scripts /\ results = <<>> /\ code = -1

Settle ==
  /\ todo # <<>>
  /\ \E r \in Allowed(Head(todo)) : results' = Append(results, r)
  /\ todo' = Tail(todo)
  /\ UNCHANGED code

Good(r) == r.ok /\ r.status < 400

Finish ==
  /\ todo = <<>> /\ code = -1
  /\ code' = IF \A i \in 1..Len(results) : Good(results[i]) THEN 0 ELSE 1
  /\ UNCHANGED <<todo, results>>

Next == Settle \/ Finish

\* What is promised of every step, and that every target is settled in the end.
SafeSpec == Init /\ [][Next]_vars
Spec == SafeSpec /\ WF_vars(Next)
=============================================================================
