-------------------------- MODULE MCOrganizerIntake --------------------------
(* TLC instances of OrganizerIntake: two configurations that cut the file   *)
(* into MaxChunks chunks at different bytes, a coarser one, and one the     *)
(* planner refuses.                                                         *)
EXTENDS OrganizerIntake, TLC

CONSTANTS o1, o2, m1, m2, w1, conf, shifted, coarse, faulty

MCChunkCount == [k \in Configs |-> IF k = coarse THEN 1 ELSE MaxChunks]
MCRangeOf    == [k \in Configs |-> k]
MCCounts     == { [published |-> 1, rejected |-> 0] }
MCSymmetry   == Permutations({o1, o2}) \cup Permutations({m1, m2})
                \cup Permutations({conf, shifted})
=============================================================================
