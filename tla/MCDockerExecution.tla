-------------------------- MODULE MCDockerExecution -------------------------
(* Small instances of DockerExecution.                                       *)
EXTENDS DockerExecution, TLC

LostOrOnce == {0, 1}
Once       == {1}

Alike == Permutations(Workers) \cup Permutations(Requests)
=============================================================================
