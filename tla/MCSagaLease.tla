----------------------------- MODULE MCSagaLease -----------------------------
(* The sagas, requests and processes of the lease runs.  r1 and r2 belong  *)
(* to one process: a guard can be overtaken by its own process as well as  *)
(* by another.                                                             *)
EXTENDS SagaLease, TLC

CONSTANTS s1, s2, r1, r2, r3, w1, w2

TwoProcesses == r1 :> w1 @@ r2 :> w1 @@ r3 :> w2

(* Bounds on the tokens: s1 is granted again, s2 is the rest of a batch.   *)
Fences == s1 :> 2 @@ s2 :> 1
=============================================================================
