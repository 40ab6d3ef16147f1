----------------------------- MODULE DriversProofs -----------------------------
(***************************************************************************)
(* Theorems about the small drivers.  The wake test wakes for presses only *)
(* and misses none, and leaves the key as it found it, however often it is *)
(* pressed; whoever is told that its alarm came, its own came, for every   *)
(* set of threads, width of the counter and delay; the direction keys      *)
(* change only to what was debounced; and every driver is type correct.    *)
(***************************************************************************)
EXTENDS MCDrivers, CardProofs, I2cProofs

Owning == {"enable", "off", "wait", "disarm"}
Asleep == {"wait", "disarm", "restore"}

(* Who owns the key, and with which edges, follows from the position of    *)
(* the test.                                                               *)
OwnerInv ==
  /\ g_wakeup_pm_armed <=> tpc \in Owning
  /\ g_wakeup_handler = "pm" <=> tpc \in Owning
  /\ mode = "falling" <=> tpc \in Owning
  /\ tpc \in {"off", "wait", "disarm"} => gpio_irq /\ line_irq
  /\ tpc = "enable" => ~gpio_irq /\ ~line_irq
  /\ g_wakeup_handler = "buttons" => gpio_irq /\ line_irq
  /\ tpc \notin Asleep => power

(* A press since pm_arm is latched, pending or posted, until pm_wait has   *)
(* taken it.                                                               *)
PressInv ==
  /\ tpc = "enable" => g_wakeup_pm_sem = 0 /\ (latched <=> fell)
  /\ tpc \in {"off", "wait"} => (g_wakeup_pm_sem > 0 \/ latched <=> fell)
  /\ tpc \in {"disarm", "restore"} => (outcome = "woken" <=> fell)

WakeupInv == WakeupTypeOK /\ OwnerInv /\ PressInv
-----------------------------------------------------------------------------
(* Initially nobody owns the key.                                          *)
LEMMA WakeupInvInit == WakeupInit => WakeupInv
<1> SUFFICES ASSUME WakeupInit PROVE WakeupInv
  OBVIOUS
<1>1. WakeupTypeOK
  <2>1. /\ key \in BOOLEAN /\ latched \in BOOLEAN /\ gpio_irq \in BOOLEAN
        /\ line_irq \in BOOLEAN /\ g_wakeup_pm_armed \in BOOLEAN
        /\ listening \in BOOLEAN /\ power \in BOOLEAN /\ fell \in BOOLEAN
    BY DEF WakeupInit
  <2>2. presses \in 0 .. MaxPresses /\ g_wakeup_pm_sem \in Nat
    BY WakeupAssumption DEF WakeupAssumption, WakeupInit
  <2> QED
    BY <2>1, <2>2 DEF WakeupInit, WakeupTypeOK
<1>2. OwnerInv /\ PressInv
  BY DEF WakeupInit, OwnerInv, PressInv, Owning, Asleep
<1> QED
  BY <1>1, <1>2 DEF WakeupInv

(* Every movement of the key, every open and close of /dev/buttons and     *)
(* every step of the test keeps the invariant.                             *)
LEMMA WakeupStep == WakeupInv /\ [WakeupNext]_wakeupVars => WakeupInv'
<1> SUFFICES ASSUME WakeupInv, [WakeupNext]_wakeupVars PROVE WakeupInv'
  OBVIOUS
<1> USE WakeupAssumption
    DEF WakeupAssumption, WakeupInv, WakeupTypeOK, OwnerInv, PressInv, Owning, Asleep, WakePending, Preempted,
        IrqOff, IrqOn, At, InCritical, keyVars, gpioVars, ownerVars, testVars,
        board_button_irq
<1>1. CASE UNCHANGED wakeupVars
  BY <1>1 DEF wakeupVars
<1>2. CASE Press
  BY <1>2 DEF Press
<1>3. CASE Release
  BY <1>3 DEF Release
<1>4. CASE WakeupInterrupt
  <2>1. WakeupTypeOK'
    <3>1. latched' \in BOOLEAN
      BY <1>4 DEF WakeupInterrupt
    <3>2. g_wakeup_pm_sem' \in Nat
      BY <1>4 DEF WakeupInterrupt
    <3> QED
      BY <1>4, <3>1, <3>2 DEF WakeupInterrupt
  <2>2. OwnerInv'
    BY <1>4 DEF WakeupInterrupt
  <2>3. PressInv'
    BY <1>4 DEF WakeupInterrupt
  <2> QED
    BY <2>1, <2>2, <2>3
<1>5. CASE OpenButtons
  BY <1>5 DEF OpenButtons
<1>6. CASE CloseButtons
  BY <1>6 DEF CloseButtons
<1>7. CASE PmBegin
  BY <1>7 DEF PmBegin
<1>8. CASE PmBusy
  BY <1>8 DEF PmBusy
<1>9. CASE PmArm
  BY <1>9 DEF PmArm
<1>10. CASE PmEnable
  BY <1>10 DEF PmEnable
<1>11. CASE PmEnableFails
  BY <1>11 DEF PmEnableFails
<1>12. CASE PmDisplayOff
  BY <1>12 DEF PmDisplayOff
<1>13. CASE PmWoken
  BY <1>13 DEF PmWoken
<1>14. CASE PmTimeout
  BY <1>14 DEF PmTimeout
<1>15. CASE PmDisarm
  BY <1>15 DEF PmDisarm
<1>16. CASE PmRestore
  BY <1>16 DEF PmRestore
<1> QED
  BY <1>1, <1>2, <1>3, <1>4, <1>5, <1>6, <1>7, <1>8, <1>9, <1>10, <1>11, <1>12, <1>13,
     <1>14, <1>15, <1>16
  DEF WakeupNext, PmStep

LEMMA WakeupAlways == WakeupSpec => []WakeupInv
  BY WakeupInvInit, WakeupStep, PTL DEF WakeupSpec

(* The test wakes exactly for a press since it armed the key, wherever it  *)
(* falls in pm_arm and pm_wait and whatever /dev/buttons does meanwhile.   *)
THEOREM WakesForPressOnly == WakeupSpec => []WakesForPress
<1>1. WakeupInv => WakesForPress
  BY DEF WakeupInv, OwnerInv, PressInv, WakesForPress, WakePending
<1> QED
  BY <1>1, WakeupAlways, PTL

(* On every exit the test has given back the key, its edges and the        *)
(* display, and who listens to the buttons gets both edges (pm_disarm,     *)
(* board_button_irq, pm_test_wake).                                        *)
THEOREM AlwaysRestores == WakeupSpec => []TestRestores
<1>1. WakeupInv => TestRestores
  BY DEF WakeupInv, WakeupTypeOK, OwnerInv, TestRestores, Owning, Asleep
<1> QED
  BY <1>1, WakeupAlways, PTL
-----------------------------------------------------------------------------

(* The mutex is held by the thread between its two ends.                   *)
LockInv == \A w \in Waiters : apc[w] # "idle" <=> alarm_lock = w

(* Off the middle of a call the alarm is off; a thread that has reset the  *)
(* semaphore finds it empty until its own alarm fires.                     *)
AlarmInv ==
  /\ alarm_on => \E w \in Waiters : apc[w] \in {"wait", "cancel"}
  /\ irq_status => alarm_on
  /\ \A w \in Waiters :
       /\ apc[w] \in {"reset", "set", "wait"} => result[w] = "none"
       /\ apc[w] \in {"reset", "set"} => w \notin rang
       /\ apc[w] = "set" => alarm_sem = 0
       /\ apc[w] \in {"wait", "cancel"} => alarm_on

OwnInv == RtcTypeOK /\ LockInv /\ AlarmInv /\ OwnAlarmOnly
-----------------------------------------------------------------------------
(* Initially the alarm is off and nobody waits.                            *)
LEMMA OwnInit == RtcInit => OwnInv
<1> SUFFICES ASSUME RtcInit PROVE OwnInv
  OBVIOUS
<1>1. RtcTypeOK
  <2>1. alarm_on \in BOOLEAN /\ irq_status \in BOOLEAN
    BY DEF RtcInit
  <2>2. counter \in Times /\ alarm \in Times /\ alarm_sem \in 0 .. AlarmSemMax
    BY RtcAssumption DEF RtcAssumption, RtcInit, Times
  <2> QED
    BY <2>1, <2>2 DEF RtcInit, RtcTypeOK, AlarmPositions
<1>2. LockInv /\ AlarmInv /\ OwnAlarmOnly
  BY RtcAssumption DEF RtcAssumption, RtcInit, LockInv, AlarmInv, OwnAlarmOnly, Ringing
<1> QED
  BY <1>1, <1>2 DEF OwnInv

(* The counter and the alarm stay within the counter's width.              *)
LEMMA TimesClosed ==
  /\ \A t \in Times : (t + 1) % (MaxTime + 1) \in Times
  /\ \A t \in Times : t <= MaxTime - Delay => t + Delay \in Times
<1>1. ASSUME NEW t \in Times PROVE (t + 1) % (MaxTime + 1) \in Times
  BY RtcAssumption DEF RtcAssumption, Times
<1>2. ASSUME NEW t \in Times, t <= MaxTime - Delay PROVE t + Delay \in Times
  BY <1>2, RtcAssumption DEF RtcAssumption, Times
<1> QED
  BY <1>1, <1>2

(* Every step of the clock, of the interrupt and of a thread keeps the     *)
(* invariant.                                                              *)
LEMMA OwnStep == OwnInv /\ [RtcNext]_rtcVars => OwnInv'
<1> SUFFICES ASSUME OwnInv, [RtcNext]_rtcVars PROVE OwnInv'
  OBVIOUS
<1> USE RtcAssumption, TimesClosed
    DEF RtcAssumption, OwnInv, RtcTypeOK, LockInv, AlarmInv, OwnAlarmOnly, AlarmPositions,
        Ringing, RtcAt, Goto, rtcHw, cancel_alarm
<1>1. CASE UNCHANGED rtcVars
  BY <1>1 DEF rtcVars
<1>2. CASE Tick
  BY <1>2 DEF Tick
<1>3. CASE AlarmInterrupt
  <2>1. alarm_sem' \in 0 .. AlarmSemMax /\ alarm_sem' > 0
    BY <1>3 DEF AlarmInterrupt
  <2>2. UNCHANGED <<counter, alarm, alarm_on, alarm_lock, apc, result, rang>>
    BY <1>3 DEF AlarmInterrupt
  <2>3. Ringing /\ ~irq_status'
    BY <1>3 DEF AlarmInterrupt
  <2>4. RtcTypeOK'
    <3>1. irq_status' \in BOOLEAN
      BY <1>3 DEF AlarmInterrupt
    <3> QED
      BY <2>1, <2>2, <3>1
  <2>5. LockInv'
    BY <2>2
  <2>6. AlarmInv'
    BY <2>2, <2>3
  <2>7. OwnAlarmOnly'
    BY <2>1, <2>2, <2>3
  <2> QED
    BY <2>4, <2>5, <2>6, <2>7
<1>4. CASE SetTime
  BY <1>4 DEF SetTime
<1>5. ASSUME NEW w \in Waiters, AlarmLock(w) PROVE OwnInv'
  BY <1>5 DEF AlarmLock
<1>6. ASSUME NEW w \in Waiters, AlarmReset(w) PROVE OwnInv'
  BY <1>6 DEF AlarmReset
<1>7. ASSUME NEW w \in Waiters, AlarmSet(w) PROVE OwnInv'
  <2>1. counter + Delay \in Times
    BY <1>7 DEF AlarmSet
  <2>2. RtcTypeOK'
    BY <1>7, <2>1 DEF AlarmSet
  <2>3. LockInv' /\ AlarmInv' /\ OwnAlarmOnly'
    BY <1>7 DEF AlarmSet
  <2> QED
    BY <2>2, <2>3
<1>8. ASSUME NEW w \in Waiters, AlarmRange(w) PROVE OwnInv'
  BY <1>8 DEF AlarmRange
<1>9. ASSUME NEW w \in Waiters, AlarmWoken(w) PROVE OwnInv'
  BY <1>9 DEF AlarmWoken
<1>10. ASSUME NEW w \in Waiters, AlarmTimeout(w) PROVE OwnInv'
  BY <1>10 DEF AlarmTimeout
<1>11. ASSUME NEW w \in Waiters, AlarmCancel(w) PROVE OwnInv'
  BY <1>11 DEF AlarmCancel
<1>12. ASSUME NEW w \in Waiters, AlarmUnlock(w) PROVE OwnInv'
  BY <1>12 DEF AlarmUnlock
<1> QED
  BY <1>1, <1>2, <1>3, <1>4, <1>5, <1>6, <1>7, <1>8, <1>9, <1>10, <1>11, <1>12
  DEF RtcNext, AlarmWait

(* A thread is told that the alarm came only if its own did, one that is   *)
(* still waiting has missed nothing, and a free lock means that the alarm  *)
(* is off (d13x_rtc_alarm_wait, hal_rtc_irq, up_rtc_settime).              *)
THEOREM OwnAlarm == RtcSpec => []OwnAlarmOnly
<1>1. OwnInv => OwnAlarmOnly
  BY DEF OwnInv
<1> QED
  BY <1>1, OwnInit, OwnStep, PTL DEF RtcSpec
-----------------------------------------------------------------------------

(* Enabling posts once; while the worker counts, it counts samples of its  *)
(* candidate that came in a row since it last slept.                       *)
CountInv ==
  /\ waitsem <= enables
  /\ stable > 0 => streak.key = candidate /\ stable <= streak.n

KeyInv == KeyAdcTypeOK /\ CountInv
-----------------------------------------------------------------------------
LEMMA KeyInit == KeyAdcInit => KeyInv
<1> SUFFICES ASSUME KeyAdcInit PROVE KeyInv
  OBVIOUS
<1> USE KeyAdcAssumption DEF KeyAdcAssumption
<1>1. dev_enabled \in BOOLEAN /\ call \in BOOLEAN /\ cut \in BOOLEAN
  BY DEF KeyAdcInit
<1>2. KeyAdcTypeOK
  BY <1>1 DEF KeyAdcInit, KeyAdcTypeOK
<1> QED
  BY <1>2 DEF KeyInv, CountInv, KeyAdcInit

LEMMA KeyStep ==
  KeyInv /\ [KeyAdcNext]_keyadcVars =>
    KeyInv' /\ (dev_buttons' # dev_buttons =>
                  streak' = [key |-> dev_buttons', n |-> StableSamples])
<1> SUFFICES ASSUME KeyInv, [KeyAdcNext]_keyadcVars
             PROVE  KeyInv' /\ (dev_buttons' # dev_buttons =>
                      streak' = [key |-> dev_buttons', n |-> StableSamples])
  OBVIOUS
<1> USE KeyAdcAssumption
    DEF KeyAdcAssumption, KeyInv, KeyAdcTypeOK, CountInv, debounce, keyWorker, keyUpper
<1>1. CASE UNCHANGED keyadcVars
  BY <1>1 DEF keyadcVars
<1>2. CASE KeyMoves
  BY <1>2 DEF KeyMoves
<1>3. CASE Enable
  <2>1. dev_enabled' \in BOOLEAN
    BY <1>3 DEF Enable
  <2> QED
    BY <1>3, <2>1 DEF Enable
<1>4. CASE Disable
  <2>1. dev_enabled' \in BOOLEAN
    BY <1>4 DEF Disable
  <2> QED
    BY <1>4, <2>1 DEF Disable
<1>5. CASE TopRead
  BY <1>5 DEF TopRead
<1>6. CASE KeyWake
  BY <1>6 DEF KeyWake
<1>7. CASE SampleFails
  BY <1>7 DEF SampleFails
<1>8. CASE Sampled
  <2>1. \A n \in 0 .. StableSamples : Capped(n) \in 1 .. StableSamples /\ n <= Capped(n)
    BY DEF Capped
  <2>2. Debounced \in 1 .. StableSamples
    BY <2>1 DEF Debounced
  <2>3. /\ streak' \in [key : Keys, n : 0 .. StableSamples] /\ streak'.key = level
        /\ streak'.n = IF streak.key = level THEN Capped(streak.n) ELSE 1
    <3>1. (IF streak.key = level THEN Capped(streak.n) ELSE 1) \in 0 .. StableSamples
      BY <2>1
    <3> QED
      BY <1>8, <3>1 DEF Sampled
  <2>4. Debounced <= streak'.n /\ streak'.n \in 1 .. StableSamples
    <3>1. CASE level = candidate /\ stable > 0
      <4>1. streak.key = level /\ stable <= streak.n /\ streak'.n = Capped(streak.n)
            /\ Debounced = Capped(stable)
        BY <2>3, <3>1 DEF Debounced
      <4> QED
        BY <4>1 DEF Capped
    <3>2. CASE ~(level = candidate /\ stable > 0)
      <4>1. Debounced = 1
        BY <3>2 DEF Debounced, Capped
      <4>2. streak'.n \in 1 .. StableSamples
        BY <2>1, <2>3
      <4> QED
        BY <4>1, <4>2
    <3>3. streak'.n \in 1 .. StableSamples
      BY <2>1, <2>3
    <3> QED
      BY <3>1, <3>2, <3>3
  <2>5. candidate' = level /\ stable' = Debounced
        /\ UNCHANGED <<level, waitsem, call, dev_enabled, enables, seen, cut>>
    BY <1>8 DEF Sampled
  <2>6. /\ dev_buttons' \in Keys /\ kpc' \in {"top", "fetch"}
        /\ dev_buttons' # dev_buttons => stable' = StableSamples /\ dev_buttons' = level
    BY <1>8 DEF Sampled
  <2>7. KeyInv'
    BY <2>2, <2>3, <2>4, <2>5, <2>6
  <2>8. dev_buttons' # dev_buttons => streak' = [key |-> dev_buttons', n |-> StableSamples]
    <3>1. dev_buttons' # dev_buttons => streak'.n = StableSamples /\ streak'.key = dev_buttons'
      BY <2>3, <2>4, <2>5, <2>6
    <3> QED
      BY <2>3, <3>1
  <2> QED
    BY <2>7, <2>8
<1>9. CASE Fetch
  <2>1. call' \in BOOLEAN /\ cut' \in BOOLEAN
    BY <1>9 DEF Fetch
  <2> QED
    BY <1>9, <2>1 DEF Fetch
<1>10. CASE Call
  <2>1. call' \in BOOLEAN
    BY <1>10 DEF Call
  <2> QED
    BY <1>10, <2>1 DEF Call
<1> QED
  BY <1>1, <1>2, <1>3, <1>4, <1>5, <1>6, <1>7, <1>8, <1>9, <1>10 DEF KeyAdcNext, KeyAdcStep

(* The buttons change only to a key sampled the required number of times   *)
(* in a row since the worker last slept, whoever enables and disables the  *)
(* lower half in the middle of a count (d13x_keyadc_worker).               *)
THEOREM ButtonsDebounced == KeyAdcSpec => ChangesDebounced
<1>1. KeyInv /\ [KeyAdcNext]_keyadcVars =>
        [dev_buttons' # dev_buttons =>
           streak' = [key |-> dev_buttons', n |-> StableSamples]]_keyadcVars
  BY KeyStep
<1>2. KeyInv /\ [KeyAdcNext]_keyadcVars => KeyInv'
  BY KeyStep
<1> QED
  BY <1>1, <1>2, KeyInit, PTL DEF KeyAdcSpec, ChangesDebounced
-----------------------------------------------------------------------------

(* The drivers have no state in common, so each keeps its own invariant    *)
(* while another one runs.                                                 *)
DriversInv == WakeupInv /\ KeyInv /\ OwnInv /\ FormInv /\ StorageTypeOK /\ CacheInv

LEMMA DriversInit == MCInit => DriversInv
  BY WakeupInvInit, KeyInit, OwnInit, FormInit, MountInit, CacheInit
  DEF MCInit, DriversInv, MountInv

LEMMA DriversStep == DriversInv /\ [MCNext]_unitVars => DriversInv'
<1> SUFFICES ASSUME DriversInv, [MCNext]_unitVars PROVE DriversInv'
  OBVIOUS
<1>1. /\ [WakeupNext]_wakeupVars /\ [KeyAdcNext]_keyadcVars /\ [RtcNext]_rtcVars
      /\ [I2cNext]_i2cVars /\ [StorageNext]_storageVars /\ [Sdmc0Next]_sdmc0Vars
  BY DEF MCNext, MCWakeup, MCKeyAdc, MCRtc, MCI2c, MCStorage, MCSdmc0, Rest, unitVars
<1> QED
  BY <1>1, WakeupStep, KeyStep, OwnStep, FormStep, StorageTypeStep, CacheStep DEF DriversInv

(* Whichever driver runs, its state has its type: no semaphore, counter,   *)
(* FIFO or position leaves its range.                                      *)
THEOREM DriversTypeCorrect == MCSpec => []DriversTypeOK
<1>1. DriversInv => DriversTypeOK
  BY DEF DriversInv, WakeupInv, KeyInv, OwnInv, FormInv, CacheInv, DriversTypeOK
<1> QED
  BY <1>1, DriversInit, DriversStep, PTL DEF MCSpec
=============================================================================
