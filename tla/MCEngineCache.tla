---------------------------- MODULE MCEngineCache ----------------------------
(* Instances of EngineCache for TLC.                                       *)
EXTENDS EngineCache, TLC

CONSTANTS f1, walk, idle, r1, r2

\* The first two sets have one fingerprint.
Prints == <<1, 1, 2>>

\* Both invariants are about states without a mishap, and a mishap is for good.
NoMishap == mishaps = {}

\* An entry with the generation behind it is never used again (one that comes
\* back to an old generation is a mishap), and the set of a late one is not read.
Live(e, g) == IF e = None \/ e.gen < g THEN None
              ELSE IF e.late THEN [e EXCEPT !.set = None] ELSE e

LiveWrite(w) ==
    IF w.type = "record" THEN [w EXCEPT !.entry = Live(@, dbGen)] ELSE w

\* The state without what no later step, and no invariant, depends on.
LiveView ==
    <<sigs, engineVars, gen, meant, dbGen, dbFp, dbMeant, pc, held, file, mishaps,
      [f \in Files |-> Live(entries[f], gen)],
      [f \in Files |-> Live(rows[f], dbGen)],
      [i \in 1 .. Len(queue) |-> LiveWrite(queue[i])],
      [k \in Scanners |-> Live(out[k], dbGen)]>>

Interchangeable == Permutations({r1, r2})

=============================================================================
