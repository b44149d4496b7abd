-------------------------- MODULE MCSignatureUpdate --------------------------
(* The instance of SignatureUpdate for TLC.                                   *)
EXTENDS SignatureUpdate, TLC

CONSTANTS p1, p2, a, b, r1, r2, r3

\* Two releases of a provider with a manifest, the newer without file a, and
\* the local files of another provider.
MCProviderOf == (r1 :> p1) @@ (r2 :> p1) @@ (r3 :> p2)
MCEpoch == (r1 :> 1) @@ (r2 :> 2) @@ (r3 :> 1)
MCFilesOf == (r1 :> {a, b}) @@ (r2 :> {b}) @@ (r3 :> {a})

=============================================================================
