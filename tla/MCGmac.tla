------------------------------- MODULE MCGmac -------------------------------
(* Gmac with rings of two descriptors (the TX ring's real size), one       *)
(* packet waiting in the stack and one restart of the interface.           *)
EXTENDS Gmac
=============================================================================
