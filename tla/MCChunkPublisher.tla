-------------------------- MODULE MCChunkPublisher --------------------------
(* TLC instances of ChunkPublisher.                                         *)
EXTENDS ChunkPublisher

CONSTANTS Modes, MaxEvents, BundleLimits, MaxEnvelopes

MCSettings == [ mode : Modes, maxEvent : MaxEvents, bundleLimit : BundleLimits,
                maxEnvelopes : MaxEnvelopes ]
=============================================================================
