--------------------------- MODULE MCOrchestrator ---------------------------
(* Instances of Orchestrator for TLC.                                      *)
EXTENDS Orchestrator, TLC

CONSTANTS t1, t2, t3, t4, w1, j1, j2, j3, manual

OneWorker == {w1}
OneKindOf == w1 :> manual
OneJobKind == [j \in {j1, j2, j3} |-> manual]
OneFirstThread == w1 :> t1

\* Only the first two jobs are submitted.
TwoJobKind == [j \in {j1, j2} |-> manual]

=============================================================================
