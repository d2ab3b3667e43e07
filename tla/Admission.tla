----------------------------- MODULE Admission -----------------------------
(***************************************************************************)
(* What the queue promises for each execution, whatever the races between  *)
(* the API threads and the queue processor: it waits at most once, it is   *)
(* admitted once and for good, and its run task is sent at most once,      *)
(* after it was admitted.  Only a fault keeps an admitted execution from   *)
(* being dispatched, and then it is never dispatched by anyone.            *)
(***************************************************************************)
EXTENDS Naturals

CONSTANT Executions

VARIABLES
  stage,      (* "new", "waiting", "admitted", "dispatched" or "dropped"     *)
  deliveries  (* run tasks sent                                              *)

Move(e, from, to) == stage[e] = from /\ stage' = [stage EXCEPT ![e] = to]

Submit(e) ==
  /\ Move(e, "new", "waiting") \/ Move(e, "new", "admitted")
  /\ UNCHANGED deliveries

Admit(e) == Move(e, "waiting", "admitted") /\ UNCHANGED deliveries

Dispatch(e) ==
  /\ Move(e, "admitted", "dispatched")
  /\ deliveries' = [deliveries EXCEPT ![e] = @ + 1]

Drop(e) == Move(e, "admitted", "dropped") /\ UNCHANGED deliveries

Init ==
  /\ stage = [e \in Executions |-> "new"]
  /\ deliveries = [e \in Executions |-> 0]

Next == \E e \in Executions : Submit(e) \/ Admit(e) \/ Dispatch(e) \/ Drop(e)

Spec == Init /\ [][Next]_<<stage, deliveries>>
=============================================================================
