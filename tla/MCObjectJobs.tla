---------------------------- MODULE MCObjectJobs ----------------------------
(* Instances of ObjectJobs for TLC: one content is planned in one chunk and *)
(* the other in two, so that files of one request agree or collide.         *)
EXTENDS ObjectJobs

CONSTANTS k1, k2, o1, short, long

MCSizeOf == (short :> 1) @@ (long :> 2)

(* Two messages in flight, or one and a replay of what it became; each with *)
(* and without an interruption, with one or two objects in a message, and   *)
(* with and without notifications.                                          *)
Limit(p, m, f, r, c, n) ==
  [puts |-> p, messages |-> m, refs |-> f, replays |-> r, crashes |-> c, notifies |-> n]

MCLimits ==
  { Limit(2, 2, 1, 0, 0, TRUE), Limit(1, 2, 1, 0, 1, TRUE), Limit(2, 1, 2, 0, 1, TRUE),
    Limit(2, 1, 2, 1, 0, TRUE), Limit(2, 1, 1, 1, 1, TRUE), Limit(1, 1, 1, 2, 0, TRUE),
    Limit(2, 1, 2, 0, 1, FALSE), Limit(2, 1, 2, 1, 0, FALSE) }

MCSymmetry == Permutations(Keys)
=============================================================================
