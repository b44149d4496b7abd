----------------------------- MODULE MCWatcher -----------------------------
(* The instance of Watcher for TLC.                                        *)
EXTENDS Watcher, TLC

CONSTANTS f1, f2

=============================================================================
