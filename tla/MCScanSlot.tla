----------------------------- MODULE MCScanSlot -----------------------------
(* Instances of ScanSlot for TLC.                                          *)
EXTENDS ScanSlot, TLC

CONSTANTS j1, j2, j3, c1, c2

\* One scan of each kind.
MixedMode == (j1 :> "file") @@ (j2 :> "tree") @@ (j3 :> "legacy")
\* Two full scans: the one mode the orchestrator runs by default.
FullMode == (j1 :> "tree") @@ (j2 :> "tree")

=============================================================================
