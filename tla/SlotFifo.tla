------------------------------ MODULE SlotFifo ------------------------------
(***************************************************************************)
(* What a ring of descriptors promises the producer and the consumer on    *)
(* its two sides: slots are taken in the order they were handed over, and  *)
(* a slot is not handed over again before it was taken.  Only a start of   *)
(* the ring discards what is in it.                                        *)
(***************************************************************************)
EXTENDS SequencesExt

CONSTANT Slots

VARIABLES
  running,  (* the ring has been started                                   *)
  full      (* the slots handed over and not yet taken, oldest first       *)

Init == running = FALSE /\ full \in Seq(Slots)

Start == ~running /\ running' = TRUE /\ full' = <<>>

Stop == running /\ running' = FALSE /\ UNCHANGED full

Put ==   (* one slot, or several in one go                                 *)
  /\ IsStrictPrefix(full, full')
  /\ full' \in Seq(Slots) /\ IsInjective(full')
  /\ UNCHANGED running

Take == full # <<>> /\ full' = Tail(full) /\ UNCHANGED running

Next == Start \/ Stop \/ Put \/ Take

Spec == Init /\ [][Next]_<<running, full>>
=============================================================================
