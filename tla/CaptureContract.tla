--------------------------- MODULE CaptureContract ---------------------------
(***************************************************************************)
(* What a capture driver promises the owner of the buffers, whatever its   *)
(* threads do: buffers go in and come back in the same order, none is lost *)
(* or duplicated, none comes back outside a session, and the COMPLETE      *)
(* message of a session comes when the driver holds no buffer any more.    *)
(***************************************************************************)
EXTENDS Integers, Sequences

CONSTANT Buffers

VARIABLES
  mine,     (* the owner's buffers, in the order it got them               *)
  driver,   (* the driver's buffers, oldest first                          *)
  session,  (* the owner's view of the session                             *)
  reports,  (* COMPLETE messages the owner has not read                    *)
  exempt    (* the owner enqueues while COMPLETE is being reported         *)

vars == <<mine, driver, session, reports, exempt>>

Elements(q) == {q[i] : i \in DOMAIN q}

Init ==
  /\ mine = <<>> /\ driver = <<>> /\ session = "idle" /\ reports = 0
  /\ exempt \in BOOLEAN

Allocate ==
  /\ session = "idle"
  /\ \E b \in Buffers \ (Elements(mine) \cup Elements(driver)) :
       mine' = Append(mine, b)
  /\ UNCHANGED <<driver, session, reports, exempt>>

Free ==
  /\ session = "idle" /\ mine # <<>>
  /\ mine' = Tail(mine)
  /\ UNCHANGED <<driver, session, reports, exempt>>

Enqueue ==
  /\ mine # <<>>
  /\ driver' = Append(driver, Head(mine))
  /\ mine' = Tail(mine)
  /\ UNCHANGED <<session, reports, exempt>>

Dequeue ==
  /\ session # "idle" /\ driver # <<>>
  /\ mine' = Append(mine, Head(driver))
  /\ driver' = Tail(driver)
  /\ UNCHANGED <<session, reports, exempt>>

Start ==
  /\ session = "idle" /\ reports = 0 /\ driver # <<>>
  /\ session' = "run"
  /\ UNCHANGED <<mine, driver, reports, exempt>>

Stop ==
  /\ session = "run"
  /\ session' = "ending"
  /\ UNCHANGED <<mine, driver, reports, exempt>>

Complete ==
  /\ session # "idle" /\ reports = 0
  /\ exempt \/ driver = <<>>
  /\ reports' = 1
  /\ UNCHANGED <<mine, driver, session, exempt>>

End ==
  /\ reports = 1
  /\ reports' = 0 /\ session' = "idle"
  /\ UNCHANGED <<mine, driver, exempt>>

Next ==
  Allocate \/ Free \/ Enqueue \/ Dequeue \/ Start \/ Stop \/ Complete \/ End

Spec == Init /\ [][Next]_vars
=============================================================================
