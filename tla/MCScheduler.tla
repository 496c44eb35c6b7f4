---------------------------- MODULE MCScheduler ----------------------------
(* Two-token blocks.  The block <<2, 2>> starts one prompt and is the second  *)
(* block of the other, so equal tokens occur under different parents.        *)
EXTENDS Scheduler

MCPrompts == {<<1, 1, 2, 2, 1>>, <<2, 2, 1>>}
=============================================================================
