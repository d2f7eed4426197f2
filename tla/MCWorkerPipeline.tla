-------------------------- MODULE MCWorkerPipeline --------------------------
(* TLC instances of WorkerPipeline: a configuration that cuts the file into *)
(* MaxChunks chunks, one that plans nothing, and one whose single chunk a   *)
(* Worker refuses.                                                          *)
EXTENDS WorkerPipeline, TLC

CONSTANTS w1, w2, conf, empty, oversized

MCChunkCount == [k \in Configs |-> CASE k = conf      -> MaxChunks
                                     [] k = oversized -> 1
                                     [] OTHER         -> 0]
MCRangeOf    == [k \in Configs |-> IF k = oversized THEN "large" ELSE "ranges"]
MCInvalid    == [k \in Configs |-> IF k = oversized THEN {1} ELSE {}]
MCCounts     == { [published |-> 1, rejected |-> 0],
                  [published |-> 0, rejected |-> 1] }
(* Odd chunks publish their record, even chunks reject it. *)
MCRecordsOf  == [c \in Chunks |-> [published |-> c % 2,
                                   rejected |-> (c + 1) % 2]]
MCSymmetry   == Permutations({w1, w2})
=============================================================================
