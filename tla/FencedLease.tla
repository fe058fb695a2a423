----------------------------- MODULE FencedLease -----------------------------
(***************************************************************************)
(* What a saga lease promises, without tokens, owners or clocks.           *)
(*                                                                         *)
(* One saga.  A request is granted the saga, works, and leaves; the grant  *)
(* may lapse under it at any time, and it may learn of that only later.    *)
(* The journal accepts writes from the newest grantee alone.  SagaLease    *)
(* shows that the store's rows and tokens implement this module, and       *)
(* SagaCoordinator is built on it.                                         *)
(***************************************************************************)
CONSTANTS Request, NoRequest

ASSUME NoRequestAssumption == NoRequest \notin Request

VARIABLES
  live,      \* an unexpired lease row exists for the saga
  current,   \* the newest grantee, as long as it has not left
  guard      \* what each request believes: "out", "in", "lost"

leaseVars == <<live, current, guard>>

Believes == {"out", "in", "lost"}

FLTypeOK ==
  /\ live \in BOOLEAN
  /\ current \in Request \cup {NoRequest}
  /\ guard \in [Request -> Believes]

FLInit ==
  /\ live = FALSE
  /\ current = NoRequest
  /\ guard = [r \in Request |-> "out"]

(* A saga without an unexpired lease is granted; older grantees become     *)
(* stale without being told.                                               *)
Grant(r) ==
  /\ ~live
  /\ guard[r] = "out"
  /\ live' = TRUE
  /\ current' = r
  /\ guard' = [guard EXCEPT ![r] = "in"]

Lapse ==
  /\ live
  /\ live' = FALSE
  /\ UNCHANGED <<current, guard>>

(* The heartbeat of r failed to renew: r will not pass another check.      *)
Notice(r) ==
  /\ guard[r] = "in"
  /\ guard' = [guard EXCEPT ![r] = "lost"]
  /\ UNCHANGED <<live, current>>

(* Mutant: no fencing token is compared.                                   *)
AcceptedUnfenced(r) == guard[r] # "out"

(* The journal accepts a write of r.                                       *)
Accepted(r) == guard[r] # "out" /\ current = r

(* A grantee that never saw its grant lost gives the saga back; one that   *)
(* is stale, or that noticed, leaves the lease row alone.                  *)
Leave(r) ==
  /\ guard[r] # "out"
  /\ live' = (live /\ ~(guard[r] = "in" /\ current = r))
  /\ current' = IF current = r THEN NoRequest ELSE current
  /\ guard' = [guard EXCEPT ![r] = "out"]

(* The requests of a crashed process vanish; the lease stays until it      *)
(* lapses.                                                                 *)
Die(R) ==
  /\ current' = IF current \in R THEN NoRequest ELSE current
  /\ guard' = [r \in Request |-> IF r \in R THEN "out" ELSE guard[r]]
  /\ UNCHANGED live

FLNext ==
  \/ Lapse
  \/ \E r \in Request : Grant(r) \/ Notice(r) \/ Leave(r)
  \/ \E R \in SUBSET Request : Die(R)

FLSpec == FLInit /\ [][FLNext]_leaseVars

=============================================================================
