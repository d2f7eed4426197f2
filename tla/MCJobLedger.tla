---------------------------- MODULE MCJobLedger ----------------------------
(* TLC instance of JobLedger: two callers inside ReconcileCompletion and    *)
(* three configurations: two manifests of MaxChunks chunks that cut the file*)
(* at different bytes, and a shorter one.                                   *)
EXTENDS JobLedger, TLC

CONSTANTS w1, w2, wide, shifted, short

MCChunkCount == (wide :> MaxChunks) @@ (shifted :> MaxChunks) @@ (short :> 1)
MCRangeOf    == (wide :> "aligned") @@ (shifted :> "offset")
                @@ (short :> "aligned")
MCCounts     == { [published |-> 1, rejected |-> 0],
                  [published |-> 0, rejected |-> 1] }
MCSymmetry   == Permutations({w1, w2})
=============================================================================
