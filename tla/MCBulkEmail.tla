----------------------------- MODULE MCBulkEmail ----------------------------
(* Small instances of BulkEmail.                                             *)
EXTENDS BulkEmail, TLC

Alike == Permutations(Requests) \cup Permutations(Editors) \cup Permutations(Workers)
=============================================================================
