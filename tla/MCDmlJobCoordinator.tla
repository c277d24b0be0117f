------------------------ MODULE MCDmlJobCoordinator ------------------------
(* Two jobs that differ in workers, model size and compute time. *)
EXTENDS DmlJobCoordinator

CONSTANTS j1, j2, w1, w2

MCWorkers == [j \in {j1, j2} |-> IF j = j1 THEN {w1, w2} ELSE {w1}]
MCModelSize == [j \in {j1, j2} |-> IF j = j1 THEN 2 ELSE 1]
MCComputeTime == [j \in {j1, j2} |-> IF j = j1 THEN 1 ELSE 2]
=============================================================================
