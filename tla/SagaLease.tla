------------------------------ MODULE SagaLease ------------------------------
(***************************************************************************)
(* The lease columns of the saga table (store.py) and the guards that the  *)
(* requests of several worker processes keep around them (_LeaseGuard in   *)
(* coordinator.py).                                                        *)
(*                                                                         *)
(* A row is what the SQL stores keep: owner, whether lease_until is still  *)
(* ahead, and fence_token.  Time is abstracted to Lapse, which may happen  *)
(* at any moment: a renewal that succeeds only postpones it.  Every store  *)
(* call is one transaction, hence one action.                              *)
(***************************************************************************)
EXTENDS Integers, FiniteSets

CONSTANTS
  Saga, Request, Worker,
  WorkerOf,            \* the process that runs a request
  NoWorker, NoRequest,
  MaxFence,            \* bound on each saga's fence_token
  ClaimLimit           \* "limit" of one recovery pass

ASSUME SagaLeaseAssumption ==
  /\ WorkerOf \in [Request -> Worker]
  /\ NoWorker \notin Worker
  /\ NoRequest \notin Request
  /\ MaxFence \in [Saga -> Nat]
  /\ ClaimLimit \in Nat

VARIABLES
  rows,      \* the lease columns of each saga
  grants,    \* per request and saga: phase of the guard and its token
  journal    \* token and author of the last accepted write (history)

vars == <<rows, grants, journal>>

Phases == {"out", "claimed", "in", "lost"}
RowType == [owner : Worker \cup {NoWorker}, live : BOOLEAN, fence : Nat]
GrantType == [phase : Phases, token : Nat]
NoGrant == [phase |-> "out", token |-> 0]

TypeOK ==
  /\ rows \in [Saga -> RowType]
  /\ grants \in [Request -> [Saga -> GrantType]]
  /\ journal \in [Saga -> [token : Nat, by : Request \cup {NoRequest}]]

Init ==
  /\ rows = [s \in Saga |-> [owner |-> NoWorker, live |-> FALSE, fence |-> 0]]
  /\ grants = [r \in Request |-> [s \in Saga |-> NoGrant]]
  /\ journal = [s \in Saga |-> [token |-> 0, by |-> NoRequest]]

-----------------------------------------------------------------------------
(* The store's transactions on one row.                                    *)

Acquirable(s) == ~rows[s].live /\ rows[s].fence < MaxFence[s]

(* Mutants: the positional parameters swapped; the counter not raised.     *)
AcquiredSwapped(row, w) == [owner |-> row.fence + 1, live |-> TRUE, fence |-> row.fence + 1]
AcquiredSameToken(row, w) == [owner |-> w, live |-> TRUE, fence |-> row.fence]

Acquired(row, w) == [owner |-> w, live |-> TRUE, fence |-> row.fence + 1]

(* Mutant: the heartbeat renews whatever its process holds.                *)
RenewableByOwner(row, w, token) == row.owner = w /\ row.live

Renewable(row, w, token) == row.owner = w /\ row.fence = token /\ row.live

(* Mutant: the token not compared.                                         *)
ReleasedByOwner(row, w, token) ==
  IF row.owner = w THEN [row EXCEPT !.owner = NoWorker, !.live = FALSE] ELSE row

Released(row, w, token) ==
  IF row.owner = w /\ row.fence = token
  THEN [row EXCEPT !.owner = NoWorker, !.live = FALSE]
  ELSE row

(* Mutant: an older token passes.                                          *)
FenceNotAhead(row, token) == token <= row.fence

FenceMatches(row, token) == row.fence = token

-----------------------------------------------------------------------------
Idle(r) == \A s \in Saga : grants[r][s].phase = "out"

Inside(r, s) == grants[r][s].phase \in {"in", "lost"}

Token(r, s) == grants[r][s].token

SetPhase(r, s, phase) ==
  grants' = [grants EXCEPT ![r][s] = [phase |-> phase, token |-> Token(r, s)]]

Drop(r, s) == grants' = [grants EXCEPT ![r][s] = NoGrant]

(* __enter__ without a token: acquire_saga_lease, or "busy" and no change. *)
Acquire(r, s) ==
  /\ Idle(r)
  /\ Acquirable(s)
  /\ rows' = [rows EXCEPT ![s] = Acquired(@, WorkerOf[r])]
  /\ grants' = [grants EXCEPT ![r][s] =
                  [phase |-> "in", token |-> rows[s].fence + 1]]
  /\ UNCHANGED journal

(* claim_pending_rollbacks: one transaction leases a batch of the pending  *)
(* sagas that nobody holds.  Which are pending is not this module's        *)
(* business, so the batch is any set of at most ClaimLimit of them.        *)
Claim(r, batch) ==
  /\ Idle(r)
  /\ batch # {}
  /\ Cardinality(batch) <= ClaimLimit
  /\ \A s \in batch : Acquirable(s)
  /\ rows' = [s \in Saga |-> IF s \in batch THEN Acquired(rows[s], WorkerOf[r])
                             ELSE rows[s]]
  /\ grants' = [grants EXCEPT ![r] = [s \in Saga |->
                  IF s \in batch
                  THEN [phase |-> "claimed", token |-> rows[s].fence + 1]
                  ELSE @[s]]]
  /\ UNCHANGED journal

(* __enter__ with a claimed token: taken over without asking the store.    *)
EnterClaim(r, s) ==
  /\ grants[r][s].phase = "claimed"
  /\ \A t \in Saga : ~Inside(r, t)
  /\ SetPhase(r, s, "in")
  /\ UNCHANGED <<rows, journal>>

(* The heartbeat asked for a renewal and was refused, ...                  *)
HeartbeatRefused(r, s) ==
  /\ grants[r][s].phase = "in"
  /\ ~Renewable(rows[s], WorkerOf[r], Token(r, s))
  /\ SetPhase(r, s, "lost")
  /\ UNCHANGED <<rows, journal>>

(* ... or the store raised: the guard then counts the lease as lost too.   *)
HeartbeatError(r, s) ==
  /\ grants[r][s].phase = "in"
  /\ SetPhase(r, s, "lost")
  /\ UNCHANGED <<rows, journal>>

(* update_saga, create_step, update_step with the guard's fence_token.     *)
Write(r, s) ==
  /\ grants[r][s].phase # "out"
  /\ FenceMatches(rows[s], Token(r, s))
  /\ journal' = [journal EXCEPT ![s] = [token |-> Token(r, s), by |-> r]]
  /\ UNCHANGED <<rows, grants>>

(* The same calls refused: LeaseLostError unwinds the guard, whose release *)
(* finds another token.                                                    *)
StaleWrite(r, s) ==
  /\ Inside(r, s)
  /\ ~FenceMatches(rows[s], Token(r, s))
  /\ rows' = IF grants[r][s].phase = "in"
             THEN [rows EXCEPT ![s] = Released(@, WorkerOf[r], Token(r, s))]
             ELSE rows
  /\ Drop(r, s)
  /\ UNCHANGED journal

(* For a claim written without a guard the error is not a SagaError: it    *)
(* leaves resume_pending_rollbacks and the claims not yet reached stay     *)
(* leased until they lapse.                                                *)
AbortClaims(r, s) ==
  /\ grants[r][s].phase = "claimed"
  /\ \A t \in Saga : ~Inside(r, t)
  /\ ~FenceMatches(rows[s], Token(r, s))
  /\ grants' = [grants EXCEPT ![r] = [t \in Saga |-> NoGrant]]
  /\ UNCHANGED <<rows, journal>>

(* __exit__, and release_saga_lease after an operator escalation.          *)
Exit(r, s) ==
  /\ grants[r][s].phase \in {"claimed", "in"}
  /\ rows' = [rows EXCEPT ![s] = Released(@, WorkerOf[r], Token(r, s))]
  /\ Drop(r, s)
  /\ UNCHANGED journal

(* __exit__ of a guard whose heartbeat failed leaves the row alone.        *)
ExitLost(r, s) ==
  /\ grants[r][s].phase = "lost"
  /\ Drop(r, s)
  /\ UNCHANGED <<rows, journal>>

(* lease_until passes.                                                     *)
Lapse(s) ==
  /\ rows[s].live
  /\ rows' = [rows EXCEPT ![s].live = FALSE]
  /\ UNCHANGED <<grants, journal>>

(* A process dies with all its requests; its rows stay leased.             *)
Crash(w) ==
  /\ \E r \in Request : WorkerOf[r] = w /\ ~Idle(r)
  /\ grants' = [r \in Request |->
                  IF WorkerOf[r] = w THEN [s \in Saga |-> NoGrant] ELSE grants[r]]
  /\ UNCHANGED <<rows, journal>>

RequestStep(r, s) ==
  \/ Acquire(r, s) \/ EnterClaim(r, s)
  \/ HeartbeatRefused(r, s) \/ HeartbeatError(r, s)
  \/ Write(r, s) \/ StaleWrite(r, s) \/ AbortClaims(r, s)
  \/ Exit(r, s) \/ ExitLost(r, s)

Next ==
  \/ \E r \in Request, s \in Saga : RequestStep(r, s)
  \/ \E r \in Request, batch \in SUBSET Saga : Claim(r, batch)
  \/ \E s \in Saga : Lapse(s)
  \/ \E w \in Worker : Crash(w)

Spec == Init /\ [][Next]_vars

(* The heartbeat thread of a guard runs every third of the lease; nothing  *)
(* else is assumed to happen.                                              *)
FairSpec == Spec /\ \A r \in Request, s \in Saga : WF_vars(HeartbeatRefused(r, s))

-----------------------------------------------------------------------------
(* No two requests at work on a saga hold the same token, and no token is  *)
(* newer than the row's: equality with fence_token identifies one request. *)
TokensUnique ==
  \A s \in Saga, r \in Request :
    grants[r][s].phase # "out" =>
      /\ Token(r, s) <= rows[s].fence
      /\ \A q \in Request :
           (q # r /\ grants[q][s].phase # "out") => Token(q, s) # Token(r, s)

(* Journal writes never go back to an older grant: once a newer grantee    *)
(* has written, nothing of an older one is accepted any more.              *)
JournalMonotone ==
  [][\A s \in Saga : journal'[s].token >= journal[s].token]_vars

(* A guard that the store has overtaken learns of it, or has left: it does *)
(* not pass lease.check() for ever.                                        *)
StaleNoticed ==
  \A r \in Request, s \in Saga :
    (grants[r][s].phase = "in" /\ Token(r, s) # rows[s].fence)
      ~> (grants[r][s].phase # "in" \/ Token(r, s) = rows[s].fence)

(* The request whose token is the row's, if it is still at work.           *)
Holds(grant, row) == grant.phase # "out" /\ grant.token = row.fence

NewestIn(of, row) ==
  IF \E r \in Request : Holds(of[r], row)
  THEN CHOOSE r \in Request : Holds(of[r], row)
  ELSE NoRequest

NewestGrantee(s) == NewestIn([r \in Request |-> grants[r][s]], rows[s])

Belief(r, s) == IF grants[r][s].phase = "claimed" THEN "in" ELSE grants[r][s].phase

Fenced(s) == INSTANCE FencedLease WITH
  live <- rows[s].live,
  current <- NewestGrantee(s),
  guard <- [r \in Request |-> Belief(r, s)]

(* Tokens, owners and batches implement the lease of FencedLease, for each *)
(* saga: a live lease ends only by lapsing or by the hand of its own       *)
(* grantee (\A s : Fenced(s)!FLSpec, with the quantifier in the box), ...  *)
ImplementsFencedLease ==
  /\ \A s \in Saga : Fenced(s)!FLInit
  /\ [][\A s \in Saga : [Fenced(s)!FLNext]_(Fenced(s)!leaseVars)]_vars

(* ... and the journal takes writes from the newest grantee alone.         *)
OnlyNewestWrites ==
  [][\A s \in Saga :
       journal'[s] # journal[s] => Fenced(s)!Accepted(journal'[s].by)]_vars
=============================================================================
