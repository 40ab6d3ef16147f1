---------------------------- MODULE MCGt911Input ----------------------------
(* Gt911Input with two fingers, two places and a queue of two samples: a   *)
(* frame that swaps fingers needs both slots, so the queue fills and       *)
(* overflows; the watchdog is due on every second pass.                    *)
EXTENDS Gt911Input

CONSTANTS t1, t2, f1, f2

MCThreads == {t1, t2}
MCIds == {f1, f2}
P(i, x) == [id |-> i, place |-> x]
(* Between the last two frames finger f1 moves, or replaces f2.            *)
MCFrames == {<<>>, <<P(f1, 1)>>, <<P(f2, 1), P(f1, 2)>>}
=============================================================================
