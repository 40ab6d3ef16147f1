------------------------------- MODULE MCWifi -------------------------------
(* Wifi with short loops and a FIFO of two packets.                        *)
EXTENDS Wifi
=============================================================================
