-------------------------- MODULE MCWebProtection --------------------------
(* The instance of WebProtection for TLC.                                  *)
EXTENDS WebProtection, TLC

CONSTANT g1

\* An accident is for good, and after one most properties ask for no more. What
\* LiveIsRecorded asks for is looked at after the accident that comes next to it,
\* a rule that the daemon does not know; the theorem has it after the others.
AtMostUnowned == mishaps \subseteq {"unowned"}

=============================================================================
