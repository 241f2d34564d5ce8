----------------------- MODULE MCOperationCoordinator -----------------------
(* Small instances of OperationCoordinator: one worker, as the coordinator *)
(* creates its scheduler, and foreground jobs only, as it submits them.    *)
EXTENDS OperationCoordinator

CONSTANTS j1, j2, j3, j4, w1

Foreground == [j \in Jobs |-> 2]

\* The user starts two operations, or one that is undone and perhaps undone
\* again.
Used == {j \in Jobs : task[j] # "new"}
TwoOrUndone == Used \subseteq {j1, j2} \/ Used \subseteq {j1, j3, j4}

TwoOrUndoneSpec == CoordinatorInit /\ [][CoordinatorNext /\ TwoOrUndone']_vars
=============================================================================
