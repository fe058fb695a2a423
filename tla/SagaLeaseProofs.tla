--------------------------- MODULE SagaLeaseProofs ---------------------------
(***************************************************************************)
(* For any sets of sagas, requests and processes: the store's token check  *)
(* lets one request at a time write the journal of a saga, and rows and    *)
(* guards together implement FencedLease.                                  *)
(***************************************************************************)
EXTENDS SagaLease, TLAPS

(* No accepted write carries a token newer than the row's.                 *)
JournalBound == \A s \in Saga : journal[s].token <= rows[s].fence

(* The row names the process of the newest grantee until that one leaves.  *)
OwnerIsNewest ==
  \A s \in Saga, r \in Request :
    Holds(grants[r][s], rows[s]) => rows[s].owner = WorkerOf[r]

(* TokensUnique alone is inductive; the two others make the journal        *)
(* property and the refinement follow from one step.                       *)
IInv == TypeOK /\ TokensUnique /\ JournalBound /\ OwnerIsNewest

USE SagaLeaseAssumption

LEMMA InitIInv == Init => IInv
  BY DEF Init, IInv, TypeOK, RowType, GrantType, NoGrant, Phases,
         TokensUnique, Token, JournalBound, OwnerIsNewest, Holds

(* The type invariant is inductive by itself.                              *)
LEMMA TypeStep == TypeOK /\ [Next]_vars => TypeOK'
<1> SUFFICES ASSUME TypeOK, [Next]_vars PROVE TypeOK'
    OBVIOUS
<1> USE DEF TypeOK, RowType, GrantType, Phases, NoGrant
<1>1. ASSUME NEW r \in Request, NEW s \in Saga, RequestStep(r, s)
      PROVE  TypeOK'
  <2>1. CASE Acquire(r, s)
        BY <2>1 DEF Acquire, Acquired
  <2>2. CASE EnterClaim(r, s)
        BY <2>2 DEF EnterClaim, SetPhase, Token
  <2>3. CASE HeartbeatRefused(r, s)
        BY <2>3 DEF HeartbeatRefused, SetPhase, Token
  <2>4. CASE HeartbeatError(r, s)
        BY <2>4 DEF HeartbeatError, SetPhase, Token
  <2>5. CASE Write(r, s)
        BY <2>5 DEF Write, Token
  <2>6. CASE StaleWrite(r, s)
        BY <2>6 DEF StaleWrite, Released, Drop
  <2>7. CASE AbortClaims(r, s)
        BY <2>7 DEF AbortClaims
  <2>8. CASE Exit(r, s)
        BY <2>8 DEF Exit, Released, Drop
  <2>9. CASE ExitLost(r, s)
        BY <2>9 DEF ExitLost, Drop
  <2>10. QED
        BY <1>1, <2>1, <2>2, <2>3, <2>4, <2>5, <2>6, <2>7, <2>8, <2>9
        DEF RequestStep
<1>2. ASSUME NEW r \in Request, NEW batch \in SUBSET Saga, Claim(r, batch)
      PROVE  TypeOK'
      BY <1>2 DEF Claim, Acquired
<1>3. ASSUME NEW s \in Saga, Lapse(s) PROVE TypeOK'
      BY <1>3 DEF Lapse
<1>4. ASSUME NEW w \in Worker, Crash(w) PROVE TypeOK'
      BY <1>4 DEF Crash
<1>5. CASE UNCHANGED vars
      BY <1>5 DEF vars
<1>6. QED
      BY <1>1, <1>2, <1>3, <1>4, <1>5 DEF Next

(* The rows, guards and journal keep their types.                          *)
THEOREM TypeCorrect == Spec => []TypeOK
<1>1. Init => TypeOK
      BY InitIInv DEF IInv
<1>2. QED
      BY <1>1, TypeStep, PTL DEF Spec
-----------------------------------------------------------------------------
(* One step keeps the strengthened invariant.  Every action leaves a grant *)
(* alone, keeps its token, drops it, or issues the next token.             *)
LEMMA InvStep == IInv /\ [Next]_vars => IInv'
<1> SUFFICES ASSUME IInv, [Next]_vars
             PROVE  (TokensUnique /\ JournalBound /\ OwnerIsNewest)'
    BY TypeStep DEF IInv
<1> USE DEF IInv, TypeOK, RowType, GrantType, Phases, NoGrant,
            TokensUnique, Token, JournalBound, OwnerIsNewest, Holds
<1>1. ASSUME NEW r \in Request, NEW s \in Saga, RequestStep(r, s)
      PROVE  (TokensUnique /\ JournalBound /\ OwnerIsNewest)'
  <2>1. CASE Acquire(r, s)
        BY <2>1 DEF Acquire, Acquired, Idle
  <2>2. CASE EnterClaim(r, s)
        BY <2>2 DEF EnterClaim, SetPhase
  <2>3. CASE HeartbeatRefused(r, s)
        BY <2>3 DEF HeartbeatRefused, SetPhase
  <2>4. CASE HeartbeatError(r, s)
        BY <2>4 DEF HeartbeatError, SetPhase
  <2>5. CASE Write(r, s)
        BY <2>5 DEF Write
  <2>6. CASE StaleWrite(r, s)
        BY <2>6 DEF StaleWrite, Released, Drop, FenceMatches
  <2>7. CASE AbortClaims(r, s)
        BY <2>7 DEF AbortClaims
  <2>8. CASE Exit(r, s)
        BY <2>8 DEF Exit, Released, Drop
  <2>9. CASE ExitLost(r, s)
        BY <2>9 DEF ExitLost, Drop
  <2>10. QED
        BY <1>1, <2>1, <2>2, <2>3, <2>4, <2>5, <2>6, <2>7, <2>8, <2>9
        DEF RequestStep
<1>2. ASSUME NEW r \in Request, NEW batch \in SUBSET Saga, Claim(r, batch)
      PROVE  (TokensUnique /\ JournalBound /\ OwnerIsNewest)'
      BY <1>2 DEF Claim, Acquired, Idle
<1>3. ASSUME NEW s \in Saga, Lapse(s)
      PROVE  (TokensUnique /\ JournalBound /\ OwnerIsNewest)'
      BY <1>3 DEF Lapse
<1>4. ASSUME NEW w \in Worker, Crash(w)
      PROVE  (TokensUnique /\ JournalBound /\ OwnerIsNewest)'
      BY <1>4 DEF Crash
<1>5. CASE UNCHANGED vars
      BY <1>5 DEF vars
<1>6. QED
      BY <1>1, <1>2, <1>3, <1>4, <1>5 DEF Next

LEMMA Inductive == Spec => []IInv
BY InitIInv, InvStep, PTL DEF Spec

(* Two requests never hold the same token of a saga, so the store's test   *)
(* fence_token = token (store.py:63, 249, 536) singles out one request.    *)
THEOREM TokensAreUnique == Spec => []TokensUnique
<1>1. IInv => TokensUnique
      BY DEF IInv
<1>2. QED
      BY <1>1, Inductive, PTL

(* No write of an older grant is accepted after one of a newer grant.      *)
THEOREM JournalNeverGoesBack == Spec => JournalMonotone
<1>1. ASSUME IInv, [Next]_vars
      PROVE  [\A s \in Saga : journal'[s].token >= journal[s].token]_vars
  <2> SUFFICES ASSUME NEW s \in Saga
               PROVE  journal'[s].token >= journal[s].token
      OBVIOUS
  <2> USE DEF IInv, TypeOK, RowType, JournalBound
  <2>1. CASE \E r \in Request, t \in Saga : Write(r, t)
        BY <1>1, <2>1 DEF Write, FenceMatches, Token
  <2>2. CASE UNCHANGED journal
        BY <1>1, <2>2
  <2>3. QED
        BY <1>1, <2>1, <2>2 DEF Next, vars, RequestStep, Acquire, EnterClaim,
           HeartbeatRefused, HeartbeatError, StaleWrite, AbortClaims, Exit,
           ExitLost, Claim, Lapse, Crash
<1>2. QED
      BY <1>1, Inductive, PTL DEF Spec, JournalMonotone

-----------------------------------------------------------------------------
(* The refinement.  CHOOSE in NewestIn is determined: tokens are unique.   *)
LEMMA NewestIsUnique ==
  ASSUME NEW of, NEW row, NEW r \in Request, Holds(of[r], row),
         \A q \in Request : Holds(of[q], row) => q = r
  PROVE  NewestIn(of, row) = r
BY DEF NewestIn

LEMMA NewestIsNobody ==
  ASSUME NEW of, NEW row, \A q \in Request : ~Holds(of[q], row)
  PROVE  NewestIn(of, row) = NoRequest
BY DEF NewestIn

(* The grants of one saga, as NewestGrantee reads them.                    *)
Of(s) == [r \in Request |-> grants[r][s]]

(* Under the invariant NewestGrantee is the request that holds the saga.   *)
LEMMA NewestMeans ==
  ASSUME TypeOK, TokensUnique, NEW s \in Saga, NEW r \in Request
  PROVE  /\ Holds(grants[r][s], rows[s]) => NewestGrantee(s) = r
         /\ NewestGrantee(s) = r => Holds(grants[r][s], rows[s])
<1>1. ASSUME Holds(grants[r][s], rows[s]) PROVE NewestGrantee(s) = r
  <2>1. \A q \in Request : Holds(Of(s)[q], rows[s]) => q = r
        BY <1>1 DEF Of, Holds, TokensUnique, Token
  <2>2. Holds(Of(s)[r], rows[s])
        BY <1>1 DEF Of
  <2>3. NewestIn(Of(s), rows[s]) = r
        BY <2>1, <2>2, NewestIsUnique
  <2>4. QED
        BY <2>3 DEF NewestGrantee, Of
<1>2. ASSUME NewestGrantee(s) = r PROVE Holds(grants[r][s], rows[s])
      BY <1>2 DEF NewestGrantee, NewestIn
<1>3. QED
      BY <1>1, <1>2

LEMMA NewestNobody ==
  ASSUME NEW s \in Saga
  PROVE  (\A r \in Request : ~Holds(grants[r][s], rows[s]))
            => NewestGrantee(s) = NoRequest
BY DEF NewestGrantee, NewestIn

-----------------------------------------------------------------------------
(* The same, before and after a step.                                      *)
LEMMA NewestMeansNext ==
  ASSUME IInv, IInv', NEW s \in Saga, NEW r \in Request
  PROVE  /\ Holds(grants[r][s], rows[s]) <=> NewestGrantee(s) = r
         /\ Holds(grants'[r][s], rows'[s]) <=> NewestGrantee(s)' = r
<1>1. Holds(grants[r][s], rows[s]) <=> NewestGrantee(s) = r
      BY NewestMeans DEF IInv
<1>2. Holds(grants'[r][s], rows'[s]) <=> NewestGrantee(s)' = r
  <2>1. ASSUME Holds(grants'[r][s], rows'[s]) PROVE NewestGrantee(s)' = r
    <3>1. \A q \in Request : Holds(Of(s)'[q], rows'[s]) => q = r
          BY <2>1 DEF Of, Holds, IInv, TokensUnique, Token
    <3>2. Holds(Of(s)'[r], rows'[s])
          BY <2>1 DEF Of
    <3>3. NewestIn(Of(s)', rows'[s]) = r
          BY <3>1, <3>2, NewestIsUnique
    <3>4. QED
          BY <3>3 DEF NewestGrantee, Of
  <2>2. ASSUME NewestGrantee(s)' = r PROVE Holds(grants'[r][s], rows'[s])
        BY <2>2 DEF NewestGrantee, NewestIn
  <2>3. QED
        BY <2>1, <2>2
<1>3. QED
      BY <1>1, <1>2

LEMMA NewestType ==
  ASSUME NEW s \in Saga
  PROVE  NewestGrantee(s) \in Request \cup {NoRequest}
BY DEF NewestGrantee, NewestIn

(* When the requests of R leave and nobody is granted the saga, the newest *)
(* grantee stays, or there is none.                                        *)
LEMMA NewestAfterLeave ==
  ASSUME IInv, IInv', NEW s \in Saga, NEW R \in SUBSET Request,
         \A r \in Request : Holds(grants'[r][s], rows'[s])
                              <=> Holds(grants[r][s], rows[s]) /\ r \notin R
  PROVE  NewestGrantee(s)' =
           IF NewestGrantee(s) \in R THEN NoRequest ELSE NewestGrantee(s)
<1>1. CASE \E r \in Request : Holds(grants[r][s], rows[s])
  <2>1. PICK r \in Request : Holds(grants[r][s], rows[s])
        BY <1>1
  <2>2. NewestGrantee(s) = r
        BY <2>1, NewestMeansNext
  <2>3. CASE r \in R
    <3>1. \A q \in Request : ~Holds(grants'[q][s], rows'[s])
          BY <2>2, <2>3, NewestMeansNext
    <3>2. NewestGrantee(s)' = NoRequest
          BY <3>1, NewestType DEF NewestGrantee, NewestIn
    <3>3. QED
          BY <2>2, <2>3, <3>2
  <2>4. CASE r \notin R
        BY <2>1, <2>2, <2>4, NewestMeansNext
  <2>5. QED
        BY <2>3, <2>4
<1>2. CASE \A r \in Request : ~Holds(grants[r][s], rows[s])
  <2>1. NewestGrantee(s) = NoRequest
        BY <1>2, NewestNobody
  <2>2. \A q \in Request : ~Holds(grants'[q][s], rows'[s])
        BY <1>2
  <2>3. NewestGrantee(s)' = NoRequest
        BY <2>2 DEF NewestGrantee, NewestIn
  <2>4. QED
        BY <2>1, <2>3
<1>3. QED
      BY <1>1, <1>2

LEMMA NewestStays ==
  ASSUME IInv, IInv', NEW s \in Saga,
         \A r \in Request : Holds(grants'[r][s], rows'[s])
                              <=> Holds(grants[r][s], rows[s])
  PROVE  NewestGrantee(s)' = NewestGrantee(s)
<1> DEFINE R == {}
<1>1. R \in SUBSET Request
      OBVIOUS
<1>2. \A r \in Request : Holds(grants'[r][s], rows'[s])
                           <=> Holds(grants[r][s], rows[s]) /\ r \notin R
      OBVIOUS
<1> HIDE DEF R
<1>3. NewestGrantee(s)' = IF NewestGrantee(s) \in R THEN NoRequest
                          ELSE NewestGrantee(s)
      BY <1>1, <1>2, NewestAfterLeave
<1>4. QED
      BY <1>3 DEF R

(* A step that touches nothing of s stutters in the lease of s.            *)
LEMMA Untouched ==
  ASSUME NEW s \in Saga, rows'[s] = rows[s],
         \A q \in Request : grants'[q][s] = grants[q][s]
  PROVE  UNCHANGED Fenced(s)!leaseVars
BY DEF Fenced!leaseVars, NewestGrantee, Belief

(* A grant of saga t maps to Grant(r).                                     *)
LEMMA AcquireRefines ==
  ASSUME IInv, IInv', NEW r \in Request, NEW t \in Saga, Acquire(r, t),
         NEW s \in Saga
  PROVE  [Fenced(s)!FLNext]_(Fenced(s)!leaseVars)
<1> USE DEF IInv, TypeOK, RowType, GrantType, Phases, NoGrant
<1>1. CASE s = t
  <2>1. /\ rows' = [rows EXCEPT ![s] = Acquired(@, WorkerOf[r])]
        /\ grants' = [grants EXCEPT ![r][s] =
                         [phase |-> "in", token |-> rows[s].fence + 1]]
        /\ journal' = journal /\ ~rows[s].live /\ grants[r][s].phase = "out"
        BY <1>1 DEF Acquire, Acquirable, Idle
  <2>2. ~rows[s].live /\ rows'[s].live = TRUE
        BY <2>1 DEF Acquired
  <2>3. NewestGrantee(s)' = r
    <3>1. Holds(grants'[r][s], rows'[s])
          BY <2>1 DEF Holds, Acquired
    <3>2. QED
          BY <3>1, NewestMeansNext
  <2>4. Belief(r, s) = "out"
        BY <2>1 DEF Belief
  <2>5. [q \in Request |-> Belief(q, s)]' =
          [[q \in Request |-> Belief(q, s)] EXCEPT ![r] = "in"]
        BY <2>1 DEF Belief
  <2>6. Fenced(s)!Grant(r)
        BY <2>1, <2>2, <2>3, <2>4, <2>5 DEF Fenced!Grant
  <2>7. QED
        BY <2>6 DEF Fenced!FLNext
<1>2. CASE s # t
      BY <1>2, Untouched DEF Acquire
<1>3. QED
      BY <1>1, <1>2

(* So does the lease of each saga of a claimed batch.                      *)
LEMMA ClaimRefines ==
  ASSUME IInv, IInv', NEW r \in Request, NEW batch \in SUBSET Saga,
         Claim(r, batch), NEW s \in Saga
  PROVE  [Fenced(s)!FLNext]_(Fenced(s)!leaseVars)
<1> USE DEF IInv, TypeOK, RowType, GrantType, Phases, NoGrant
<1>1. CASE s \in batch
  <2>1. /\ rows'[s] = Acquired(rows[s], WorkerOf[r])
        /\ grants'[r][s] = [phase |-> "claimed", token |-> rows[s].fence + 1]
        /\ \A q \in Request : q # r => grants'[q][s] = grants[q][s]
        /\ journal' = journal /\ ~rows[s].live /\ grants[r][s].phase = "out"
        BY <1>1 DEF Claim, Acquirable, Idle
  <2>2. NewestGrantee(s)' = r
    <3>1. Holds(grants'[r][s], rows'[s])
          BY <2>1 DEF Holds, Acquired
    <3>2. QED
          BY <3>1, NewestMeansNext
  <2>3. [q \in Request |-> Belief(q, s)]' =
          [[q \in Request |-> Belief(q, s)] EXCEPT ![r] = "in"]
    <3>1. Belief(r, s)' = "in"
          BY <2>1 DEF Belief
    <3>2. \A q \in Request : q # r => Belief(q, s)' = Belief(q, s)
          BY <2>1 DEF Belief
    <3>3. QED
          BY <3>1, <3>2
  <2>4. Fenced(s)!Grant(r)
        BY <2>1, <2>2, <2>3 DEF Fenced!Grant, Belief, Acquired
  <2>5. QED
        BY <2>4 DEF Fenced!FLNext
<1>2. CASE s \notin batch
      BY <1>2, Untouched DEF Claim
<1>3. QED
      BY <1>1, <1>2

(* A heartbeat that fails is noticed; a claim taken over changes nothing.  *)
LEMMA PhaseRefines ==
  ASSUME IInv, IInv', NEW r \in Request, NEW t \in Saga,
         \/ EnterClaim(r, t)
         \/ HeartbeatRefused(r, t) \/ HeartbeatError(r, t),
         NEW s \in Saga
  PROVE  [Fenced(s)!FLNext]_(Fenced(s)!leaseVars)
<1> USE DEF IInv, TypeOK, RowType, GrantType, Phases, SetPhase, Token
<1>1. CASE s # t
  <2>1. rows' = rows /\ journal' = journal
        BY DEF EnterClaim, HeartbeatRefused, HeartbeatError
  <2>2. \A q \in Request : grants'[q][s] = grants[q][s]
    <3>1. PICK new : grants' = [grants EXCEPT ![r][t] = new]
          BY DEF EnterClaim, HeartbeatRefused, HeartbeatError
    <3>2. QED
          BY <1>1, <3>1
  <2>3. QED
        BY <2>1, <2>2, Untouched
<1>2. CASE s = t
  <2>1. rows' = rows /\ journal' = journal
        BY DEF EnterClaim, HeartbeatRefused, HeartbeatError
  <2>2. \A q \in Request : q # r => grants'[q][s] = grants[q][s]
        BY DEF EnterClaim, HeartbeatRefused, HeartbeatError
  <2>3. /\ grants[r][s].phase # "out" /\ grants'[r][s].phase # "out"
        /\ grants'[r][s].token = grants[r][s].token
        BY <1>2 DEF EnterClaim, HeartbeatRefused, HeartbeatError
  <2>4. NewestGrantee(s)' = NewestGrantee(s)
    <3>1. \A q \in Request : Holds(grants'[q][s], rows'[s])
                               <=> Holds(grants[q][s], rows[s])
          BY <2>1, <2>2, <2>3 DEF Holds
    <3>2. QED
          BY <3>1, NewestStays
  <2>5. CASE EnterClaim(r, t)
    <3>1. \A q \in Request : Belief(q, s)' = Belief(q, s)
          BY <1>2, <2>2, <2>5 DEF EnterClaim, Belief
    <3>2. QED
          BY <2>1, <2>4, <3>1 DEF Fenced!leaseVars
  <2>6. CASE HeartbeatRefused(r, t) \/ HeartbeatError(r, t)
    <3>1. Belief(r, s) = "in" /\ Belief(r, s)' = "lost"
          BY <1>2, <2>6 DEF HeartbeatRefused, HeartbeatError, Belief
    <3>2. \A q \in Request : q # r => Belief(q, s)' = Belief(q, s)
          BY <2>2 DEF Belief
    <3>3. [q \in Request |-> Belief(q, s)]' =
            [[q \in Request |-> Belief(q, s)] EXCEPT ![r] = "lost"]
          BY <3>1, <3>2
    <3>4. Fenced(s)!Notice(r)
          BY <2>1, <2>4, <3>1, <3>3 DEF Fenced!Notice
    <3>5. QED
          BY <3>4 DEF Fenced!FLNext
  <2>7. QED
        BY <2>5, <2>6
<1>3. QED
      BY <1>1, <1>2

(* An accepted write changes nothing of the lease.                         *)
LEMMA WriteRefines ==
  ASSUME NEW r \in Request, NEW t \in Saga, Write(r, t), NEW s \in Saga
  PROVE  [Fenced(s)!FLNext]_(Fenced(s)!leaseVars)
BY Untouched DEF Write

(* A request that leaves clears the row only if its token is the row's.    *)
LEMMA LeaveRefines ==
  ASSUME IInv, IInv', NEW r \in Request, NEW t \in Saga,
         StaleWrite(r, t) \/ Exit(r, t) \/ ExitLost(r, t),
         NEW s \in Saga
  PROVE  [Fenced(s)!FLNext]_(Fenced(s)!leaseVars)
<1> USE DEF IInv, TypeOK, RowType, GrantType, Phases, NoGrant, Drop, Token
<1>1. /\ journal' = journal
      /\ grants' = [grants EXCEPT ![r][t] = NoGrant]
      /\ grants[r][t].phase # "out"
      BY DEF StaleWrite, Exit, ExitLost, Inside
<1>2. rows' = [rows EXCEPT ![t] = IF Belief(r, t) = "in"
                                  THEN Released(@, WorkerOf[r], Token(r, t))
                                  ELSE @]
      BY DEF StaleWrite, Exit, ExitLost, Inside, Belief
<1>3. CASE s # t
  <2>1. \A q \in Request : grants'[q][s] = grants[q][s]
        BY <1>1, <1>3
  <2>2. rows'[s] = rows[s]
        BY <1>2, <1>3
  <2>3. QED
        BY <1>1, <2>1, <2>2, Untouched
<1>4. CASE s = t
  <2>1. /\ grants'[r][s].phase = "out"
        /\ \A q \in Request : q # r => grants'[q][s] = grants[q][s]
        BY <1>1, <1>4
  <2>2. rows'[s].fence = rows[s].fence
        BY <1>2, <1>4 DEF Released
  <2>3. NewestGrantee(s)' = IF NewestGrantee(s) = r THEN NoRequest
                            ELSE NewestGrantee(s)
    <3>1. \A q \in Request : Holds(grants'[q][s], rows'[s])
                               <=> Holds(grants[q][s], rows[s]) /\ q \notin {r}
          BY <2>1, <2>2 DEF Holds
    <3>2. {r} \in SUBSET Request
          OBVIOUS
    <3>3. QED
          BY <3>1, <3>2, NewestAfterLeave
  <2>4. rows'[s].live = (rows[s].live
                           /\ ~(Belief(r, s) = "in" /\ NewestGrantee(s) = r))
    <3>1. NewestGrantee(s) = r <=> rows[s].fence = Token(r, s)
          BY <1>1, <1>4, NewestMeansNext DEF Holds
    <3>2. rows[s].fence = Token(r, s) => rows[s].owner = WorkerOf[r]
          BY <1>1, <1>4 DEF OwnerIsNewest, Holds
    <3>3. rows'[s] = IF Belief(r, s) = "in"
                     THEN Released(rows[s], WorkerOf[r], Token(r, s)) ELSE rows[s]
          BY <1>2, <1>4
    <3>4. CASE Belief(r, s) # "in"
          BY <3>3, <3>4
    <3>5. CASE Belief(r, s) = "in" /\ rows[s].fence # Token(r, s)
      <4>1. rows'[s] = rows[s]
            BY <3>3, <3>5 DEF Released
      <4>2. QED
            BY <3>1, <3>5, <4>1
    <3>6. CASE Belief(r, s) = "in" /\ rows[s].fence = Token(r, s)
      <4>1. rows'[s] = [rows[s] EXCEPT !.owner = NoWorker, !.live = FALSE]
            BY <3>2, <3>3, <3>6 DEF Released
      <4>2. rows[s] \in RowType
            OBVIOUS
      <4>3. rows'[s].live = FALSE
            BY <4>1, <4>2
      <4>4. QED
            BY <3>1, <3>6, <4>3
    <3>7. QED
          BY <3>4, <3>5, <3>6
  <2>5. [q \in Request |-> Belief(q, s)]' =
          [[q \in Request |-> Belief(q, s)] EXCEPT ![r] = "out"]
    <3>1. Belief(r, s)' = "out"
          BY <2>1 DEF Belief
    <3>2. \A q \in Request : q # r => Belief(q, s)' = Belief(q, s)
          BY <2>1 DEF Belief
    <3>3. QED
          BY <3>1, <3>2
  <2>6. Belief(r, s) # "out"
        BY <1>1, <1>4 DEF Belief
  <2>7. Fenced(s)!Leave(r)
        BY <1>1, <2>3, <2>4, <2>5, <2>6 DEF Fenced!Leave
  <2>8. QED
        BY <2>7 DEF Fenced!FLNext
<1>5. QED
      BY <1>3, <1>4

(* A set of requests disappears and their rows stay as they are.           *)
LEMMA DieRefines ==
  ASSUME IInv, IInv', NEW R \in SUBSET Request, NEW s \in Saga,
         rows'[s].live = rows[s].live, rows'[s].fence = rows[s].fence,
         \A r \in R : grants'[r][s].phase = "out",
         \A r \in Request \ R : grants'[r][s] = grants[r][s]
  PROVE  Fenced(s)!Die(R)
<1>1. NewestGrantee(s)' = IF NewestGrantee(s) \in R THEN NoRequest
                          ELSE NewestGrantee(s)
  <2>1. \A r \in Request : Holds(grants'[r][s], rows'[s])
                             <=> Holds(grants[r][s], rows[s]) /\ r \notin R
        BY DEF Holds
  <2>2. QED
        BY <2>1, NewestAfterLeave
<1>2. [r \in Request |-> Belief(r, s)]' =
        [r \in Request |-> IF r \in R THEN "out" ELSE Belief(r, s)]
  <2>1. \A r \in Request : Belief(r, s)' = IF r \in R THEN "out" ELSE Belief(r, s)
        BY DEF Belief
  <2>2. QED
        BY <2>1
<1>3. QED
      BY <1>1, <1>2 DEF Fenced!Die

LEMMA AbortRefines ==
  ASSUME IInv, IInv', NEW r \in Request, NEW t \in Saga, AbortClaims(r, t),
         NEW s \in Saga
  PROVE  [Fenced(s)!FLNext]_(Fenced(s)!leaseVars)
<1> DEFINE R == {r}
<1>1. /\ R \in SUBSET Request
      /\ rows' = rows
      BY DEF AbortClaims
<1>2. /\ \A q \in R : grants'[q][s].phase = "out"
      /\ \A q \in Request \ R : grants'[q][s] = grants[q][s]
      BY DEF AbortClaims, IInv, TypeOK, NoGrant
<1> HIDE DEF R
<1>3. rows'[s].live = rows[s].live /\ rows'[s].fence = rows[s].fence
      BY <1>1
<1>4. Fenced(s)!Die(R)
      BY <1>1, <1>2, <1>3, DieRefines
<1>5. QED
      BY <1>1, <1>4 DEF Fenced!FLNext

LEMMA CrashRefines ==
  ASSUME IInv, IInv', NEW w \in Worker, Crash(w), NEW s \in Saga
  PROVE  [Fenced(s)!FLNext]_(Fenced(s)!leaseVars)
<1> USE DEF IInv, TypeOK, RowType, GrantType, Phases, NoGrant
<1> DEFINE R == {r \in Request : WorkerOf[r] = w}
<1>1. R \in SUBSET Request
      OBVIOUS
<1>2. Fenced(s)!Die(R)
      BY <1>1, DieRefines DEF Crash
<1>3. QED
      BY <1>1, <1>2 DEF Fenced!FLNext

LEMMA LapseRefines ==
  ASSUME IInv, IInv', NEW t \in Saga, Lapse(t), NEW s \in Saga
  PROVE  [Fenced(s)!FLNext]_(Fenced(s)!leaseVars)
<1> USE DEF IInv, TypeOK, RowType
<1>1. CASE s # t
      BY <1>1, Untouched DEF Lapse
<1>2. CASE s = t
  <2>1. NewestGrantee(s)' = NewestGrantee(s)
        BY <1>2, NewestStays DEF Lapse, Holds
  <2>2. Fenced(s)!Lapse
        BY <1>2, <2>1 DEF Lapse, Fenced!Lapse, Belief
  <2>3. QED
        BY <2>2 DEF Fenced!FLNext
<1>3. QED
      BY <1>1, <1>2

(* The rows, guards and tokens of the stores implement FencedLease: the    *)
(* journal of a saga takes writes from its newest grantee alone, and a     *)
(* live lease ends only by lapsing or by the hand of its own grantee.      *)
THEOREM FencingRefinement == Spec => ImplementsFencedLease
<1>1. Init => \A s \in Saga : Fenced(s)!FLInit
  <2>1. SUFFICES ASSUME Init, NEW s \in Saga PROVE Fenced(s)!FLInit
        OBVIOUS
  <2>2. \A r \in Request : grants[r][s] = NoGrant
        BY <2>1 DEF Init
  <2>3. NewestGrantee(s) = NoRequest
        BY <2>2, NewestNobody DEF Holds, NoGrant
  <2>4. QED
        BY <2>1, <2>2, <2>3 DEF Init, Fenced!FLInit, Belief, NoGrant
<1>2. ASSUME IInv, IInv', [Next]_vars
      PROVE  [\A s \in Saga : [Fenced(s)!FLNext]_(Fenced(s)!leaseVars)]_vars
  <2> SUFFICES ASSUME NEW s \in Saga
               PROVE  [Fenced(s)!FLNext]_(Fenced(s)!leaseVars)
      OBVIOUS
  <2>1. ASSUME NEW r \in Request, NEW t \in Saga, RequestStep(r, t)
        PROVE  [Fenced(s)!FLNext]_(Fenced(s)!leaseVars)
        BY <1>2, <2>1, AcquireRefines, PhaseRefines, WriteRefines,
           LeaveRefines, AbortRefines DEF RequestStep
  <2>2. ASSUME NEW r \in Request, NEW batch \in SUBSET Saga, Claim(r, batch)
        PROVE  [Fenced(s)!FLNext]_(Fenced(s)!leaseVars)
        BY <1>2, <2>2, ClaimRefines
  <2>3. ASSUME NEW t \in Saga, Lapse(t)
        PROVE  [Fenced(s)!FLNext]_(Fenced(s)!leaseVars)
        BY <1>2, <2>3, LapseRefines
  <2>4. ASSUME NEW w \in Worker, Crash(w)
        PROVE  [Fenced(s)!FLNext]_(Fenced(s)!leaseVars)
        BY <1>2, <2>4, CrashRefines
  <2>5. CASE UNCHANGED vars
        BY <2>5, Untouched DEF vars
  <2>6. QED
        BY <1>2, <2>1, <2>2, <2>3, <2>4, <2>5 DEF Next
<1>3. QED
      BY <1>1, <1>2, Inductive, PTL DEF Spec, ImplementsFencedLease

(* Whoever changes the journal is the newest grantee, still at work.       *)
THEOREM OnlyNewestGranteeWrites == Spec => OnlyNewestWrites
<1>1. ASSUME IInv, [Next]_vars
      PROVE  [\A s \in Saga : journal'[s] # journal[s]
                => Fenced(s)!Accepted(journal'[s].by)]_vars
  <2> SUFFICES ASSUME NEW s \in Saga, journal'[s] # journal[s]
               PROVE  Fenced(s)!Accepted(journal'[s].by)
      OBVIOUS
  <2>1. PICK r \in Request, t \in Saga : Write(r, t)
        BY <1>1 DEF Next, vars, RequestStep, Acquire, EnterClaim,
           HeartbeatRefused, HeartbeatError, StaleWrite, AbortClaims, Exit,
           ExitLost, Claim, Lapse, Crash
  <2>2. s = t /\ journal'[s].by = r /\ Holds(grants[r][s], rows[s])
        BY <1>1, <2>1 DEF Write, FenceMatches, Token, Holds, IInv, TypeOK
  <2>3. NewestGrantee(s) = r
        BY <1>1, <2>2, NewestMeans DEF IInv
  <2>4. Belief(r, s) # "out"
        BY <2>2 DEF Belief, Holds
  <2>5. QED
        BY <2>2, <2>3, <2>4 DEF Fenced!Accepted
<1>2. QED
      BY <1>1, Inductive, PTL DEF Spec, OnlyNewestWrites
=============================================================================
