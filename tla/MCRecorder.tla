----------------------------- MODULE MCRecorder -----------------------------
(* Recorder with a limit of two ticks, a clock of four and times that wrap *)
(* at eight: recordings reach the limit, pause, resume and are stopped.    *)
EXTENDS Recorder
=============================================================================
