------------------------------ MODULE MCOpenEO ------------------------------
(* A small instance of OpenEOExecution.                                      *)
EXTENDS OpenEOExecution

Once == {1}

=============================================================================
