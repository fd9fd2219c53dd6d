---------------------------- MODULE MCMemoryAudit ----------------------------
(* Two log() calls of one session, and one flush() beside the flush loop.  *)
EXTENDS MemoryAudit

CONSTANTS s1, other, c1, c2, loop, closer, flusher

MCIds == 1..5

=============================================================================
