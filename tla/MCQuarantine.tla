---------------------------- MODULE MCQuarantine ----------------------------
(* Instances of Quarantine for TLC.                                        *)
EXTENDS Quarantine, TLC

CONSTANTS p1, p2, c1, c2, q1, q2, q3, r1, r2, d1

\* Neither paths nor contents are ever compared with anything but each other.
Interchangeable == Permutations({p1, p2}) \cup Permutations({c1, c2})

=============================================================================
