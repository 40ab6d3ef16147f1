------------------------------ MODULE MCDrivers ------------------------------
(* The small drivers share nothing with each other: a behaviour is that of *)
(* one of them, chosen at the start, with the others at rest.              *)
EXTENDS Wakeup, KeyAdc, Rtc, I2c, Storage, Sdmc0

VARIABLE unit

Units == {"wakeup", "keyadc", "rtc", "i2c", "storage", "sdmc0"}

unitVars == <<wakeupVars, keyadcVars, rtcVars, i2cVars, storageVars, sdmc0Vars, unit>>

(* A driver at rest has the first of its initial states.                   *)
MCInit ==
  /\ unit \in Units
  /\ WakeupInit /\ KeyAdcInit /\ RtcInit /\ I2cInit /\ StorageInit /\ Sdmc0Init
  /\ unit # "keyadc" => level = 0
  /\ unit # "rtc" => counter = 0
  /\ unit # "storage" => fat = {} /\ table = {}

(* A step of driver u's, of which only its own variables take part.        *)
Rest(u) ==
  /\ unit = u /\ unit' = unit
  /\ u = "wakeup"  \/ UNCHANGED wakeupVars
  /\ u = "keyadc"  \/ UNCHANGED keyadcVars
  /\ u = "rtc"     \/ UNCHANGED rtcVars
  /\ u = "i2c"     \/ UNCHANGED i2cVars
  /\ u = "storage" \/ UNCHANGED storageVars
  /\ u = "sdmc0"   \/ UNCHANGED sdmc0Vars

MCWakeup  == Rest("wakeup") /\ WakeupNext
MCKeyAdc  == Rest("keyadc") /\ KeyAdcNext
MCRtc     == Rest("rtc") /\ RtcNext
MCI2c     == Rest("i2c") /\ I2cNext
MCStorage == Rest("storage") /\ StorageNext
MCSdmc0   == Rest("sdmc0") /\ Sdmc0Next

MCNext == MCWakeup \/ MCKeyAdc \/ MCRtc \/ MCI2c \/ MCStorage \/ MCSdmc0

(* The worker of the ADC keys runs, and not every sample it takes fails;   *)
(* an I2C client runs, and the controller unless the bus hangs.            *)
MCSpec ==
  /\ MCInit /\ [][MCNext]_unitVars
  /\ WF_unitVars(Rest("keyadc") /\ KeyAdcStep)
  /\ SF_unitVars(Rest("keyadc") /\ Sampled)
  /\ WF_unitVars(Rest("i2c") /\ TransferStep)
  /\ WF_unitVars(Rest("i2c") /\ WireStep)

DriversTypeOK ==
  /\ WakeupTypeOK /\ KeyAdcTypeOK /\ RtcTypeOK /\ I2cTypeOK /\ StorageTypeOK /\ Sdmc0TypeOK

(* Messages: read, length, continuing the one before, keeping the bus.     *)
Msg(read, length, nostart, nostop) ==
  [read |-> read, length |-> length, nostart |-> nostart, nostop |-> nostop]
MCTransfers ==
  {<<Msg(FALSE, 3, FALSE, FALSE)>>,
   <<Msg(FALSE, 1, FALSE, TRUE), Msg(TRUE, 2, FALSE, FALSE)>>,
   <<Msg(FALSE, 1, FALSE, FALSE), Msg(TRUE, 1, FALSE, FALSE)>>,
   <<Msg(FALSE, 1, FALSE, FALSE), Msg(FALSE, 1, FALSE, FALSE)>>,
   <<Msg(FALSE, 1, FALSE, FALSE), Msg(FALSE, 1, TRUE, FALSE), Msg(FALSE, 1, FALSE, FALSE)>>,
   <<Msg(FALSE, 1, FALSE, TRUE), Msg(FALSE, 1, FALSE, FALSE)>>,
   <<Msg(FALSE, 1, FALSE, TRUE)>>,
   <<Msg(FALSE, 1, FALSE, FALSE), Msg(TRUE, 1, TRUE, FALSE)>>}
=============================================================================
