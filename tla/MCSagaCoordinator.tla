-------------------------- MODULE MCSagaCoordinator --------------------------
(* The processes and sizes of the coordinator runs.                        *)
EXTENDS SagaCoordinator, TLC

CONSTANTS w1, w2

Processes == Permutations({w1, w2})

(* Two families of behaviours in one run: sagas of one node, and sagas of  *)
(* steps outside the workflow.                                             *)
OfWorkflow ==
  /\ Used \subseteq {1} /\ \A r \in Used : steps[r].node # 0
  /\ \A w \in Request : pc[w] # "execute"

OfOutside ==
  /\ Planned(nodes) = {} /\ \A r \in Used : steps[r].mode = "rollback"
  /\ \A w \in Request : pc[w] \notin {"plan", "run", "retry", "commit"}

OneFamily == OfWorkflow \/ OfOutside
=============================================================================
