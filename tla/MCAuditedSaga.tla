---------------------------- MODULE MCAuditedSaga ----------------------------
(* The processes of the runs on tasks and their journal.                   *)
EXTENDS AuditedSaga, TLC

CONSTANTS w1, w2

Processes == Permutations({w1, w2})
=============================================================================
