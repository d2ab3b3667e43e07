--------------------------- MODULE MCBatchExecution -------------------------
(* Small instances of BatchExecution.                                        *)
EXTENDS BatchExecution, TLC

LostOrUpToTwice == {0, 1, 2}
OnceOrTwice     == {1, 2}
Once            == {1}

Alike == Permutations(Workers) \cup Permutations(Requests)
=============================================================================
