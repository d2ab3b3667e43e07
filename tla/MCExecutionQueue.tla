-------------------------- MODULE MCExecutionQueue --------------------------
(* Small instances of ExecutionQueue.                                        *)
EXTENDS ExecutionQueue, TLC

CONSTANTS u1, s1

OneOwner  == [e \in Executions |-> u1]
OneScript == [e \in Executions |-> s1]
LimitOne  == [u \in Users |-> 1]
LimitTwo  == [u \in Users |-> 2]

Alike == Permutations(Executions)

=============================================================================
