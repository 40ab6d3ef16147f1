------------------------------- MODULE MCDmic -------------------------------
(* Dmic with the two-period ring of the board and a semaphore that         *)
(* saturates at two pending posts.                                         *)
EXTENDS Dmic
=============================================================================
