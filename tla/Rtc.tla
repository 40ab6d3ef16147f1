--------------------------------- MODULE Rtc ---------------------------------
(***************************************************************************)
(* The real-time clock and its one alarm, chip/d13x/d13x_rtc.c: threads    *)
(* wait for an alarm with a timeout, one after the other under a mutex,    *)
(* and sleep on a semaphore the interrupt posts; meanwhile others set the  *)
(* time.  The interrupt is taken before any thread runs; it cannot fall    *)
(* into a critical section, which is one step here.                        *)
(***************************************************************************)
EXTENDS Integers, FiniteSets

CONSTANTS
  Waiters,    (* the threads that call alarm_wait                          *)
  MaxTime,    (* UINT32_MAX: the last second the counter can show          *)
  Delay,      (* delay_seconds                                             *)
  AlarmSemMax (* SEM_VALUE_MAX: nxsem_post fails there                     *)

ASSUME RtcAssumption ==
  /\ MaxTime \in Nat /\ Delay \in Nat \ {0} /\ AlarmSemMax \in Nat \ {0}
  /\ "none" \notin Waiters

Times == 0 .. MaxTime

VARIABLES
  counter,         (* RTC_TCNT                                             *)
  alarm,           (* the alarm register                                   *)
  alarm_on,        (* the alarm and its interrupt are enabled              *)
  irq_status,      (* RTC_IRQ_STA                                          *)
  alarm_sem, alarm_lock,
  apc, result,     (* of each waiter                                       *)
  rang             (* history: the waiters whose own alarm has fired       *)

rtcHw == <<counter, alarm, alarm_on, irq_status>>
rtcVars == <<rtcHw, alarm_sem, alarm_lock, apc, result, rang>>

RtcInit ==   (* up_rtc_initialize: no alarm is left over                   *)
  /\ counter \in Times
  /\ alarm = 0 /\ alarm_on = FALSE /\ irq_status = FALSE
  /\ alarm_sem = 0 /\ alarm_lock = "none"
  /\ apc = [w \in Waiters |-> "idle"]
  /\ result = [w \in Waiters |-> "none"]
  /\ rang = {}

Ringing == irq_status /\ alarm_on
-----------------------------------------------------------------------------
(* The hardware (external).  The alarm matches one value of the counter.   *)

Tick ==
  /\ counter' = (counter + 1) % (MaxTime + 1)
  /\ irq_status' = (irq_status \/ (alarm_on /\ counter' = alarm))
  /\ rang' = rang \cup IF alarm_on /\ counter' = alarm THEN {alarm_lock} ELSE {}
  /\ UNCHANGED <<alarm, alarm_on, alarm_sem, alarm_lock, apc, result>>

(* hal_rtc_irq acknowledges, and calls d13x_rtc_alarm_callback.            *)
AlarmInterrupt ==
  /\ Ringing
  /\ irq_status' = FALSE
  /\ alarm_sem' = IF alarm_sem < AlarmSemMax THEN alarm_sem + 1 ELSE alarm_sem
  /\ UNCHANGED <<counter, alarm, alarm_on, alarm_lock, apc, result, rang>>

(* up_rtc_settime: the counter jumps, perhaps past the alarm.              *)
SetTime ==
  /\ ~Ringing
  /\ counter' \in Times \ {counter}
  /\ irq_status' = (irq_status \/ (alarm_on /\ counter' = alarm))
  /\ rang' = rang \cup IF alarm_on /\ counter' = alarm THEN {alarm_lock} ELSE {}
  /\ UNCHANGED <<alarm, alarm_on, alarm_sem, alarm_lock, apc, result>>
-----------------------------------------------------------------------------
(* d13x_rtc_alarm_wait.                                                    *)

RtcAt(w, pos) == ~Ringing /\ apc[w] = pos
Goto(w, pos) == apc' = [apc EXCEPT ![w] = pos]

AlarmLock(w) ==
  /\ RtcAt(w, "idle") /\ alarm_lock = "none"
  /\ alarm_lock' = w
  /\ rang' = rang \ {w}
  /\ result' = [result EXCEPT ![w] = "none"]
  /\ Goto(w, "reset")
  /\ UNCHANGED <<rtcHw, alarm_sem>>

AlarmResetSkipped(w) ==
  /\ RtcAt(w, "reset")
  /\ Goto(w, "set")
  /\ UNCHANGED <<rtcHw, alarm_sem, alarm_lock, result, rang>>

AlarmReset(w) ==
  /\ RtcAt(w, "reset")
  /\ alarm_sem' = 0
  /\ Goto(w, "set")
  /\ UNCHANGED <<rtcHw, alarm_lock, result, rang>>

(* d13x_rtc_cancel_alarm                                                   *)
cancel_alarm == alarm_on' = FALSE /\ irq_status' = FALSE

(* The critical section that sets the alarm ...                            *)
AlarmSet(w) ==
  /\ RtcAt(w, "set") /\ counter <= MaxTime - Delay
  /\ alarm' = counter + Delay
  /\ alarm_on' = TRUE /\ irq_status' = FALSE
  /\ Goto(w, "wait")
  /\ UNCHANGED <<counter, alarm_sem, alarm_lock, result, rang>>

(* ... unless it would lie beyond the end of time: ERANGE.                 *)
AlarmRange(w) ==
  /\ RtcAt(w, "set") /\ counter > MaxTime - Delay
  /\ cancel_alarm
  /\ alarm_lock' = "none"
  /\ result' = [result EXCEPT ![w] = "range"]
  /\ Goto(w, "idle")
  /\ UNCHANGED <<counter, alarm, alarm_sem, rang>>

AlarmWoken(w) ==
  /\ RtcAt(w, "wait") /\ alarm_sem > 0
  /\ alarm_sem' = alarm_sem - 1
  /\ result' = [result EXCEPT ![w] = "ok"]
  /\ Goto(w, "cancel")
  /\ UNCHANGED <<rtcHw, alarm_lock, rang>>

AlarmTimeout(w) ==
  /\ RtcAt(w, "wait") /\ alarm_sem = 0
  /\ result' = [result EXCEPT ![w] = "timeout"]
  /\ Goto(w, "cancel")
  /\ UNCHANGED <<rtcHw, alarm_sem, alarm_lock, rang>>

AlarmCancel(w) ==
  /\ RtcAt(w, "cancel")
  /\ cancel_alarm
  /\ Goto(w, "unlock")
  /\ UNCHANGED <<counter, alarm, alarm_sem, alarm_lock, result, rang>>

AlarmUnlock(w) ==
  /\ RtcAt(w, "unlock")
  /\ alarm_lock' = "none"
  /\ Goto(w, "idle")
  /\ UNCHANGED <<rtcHw, alarm_sem, result, rang>>
-----------------------------------------------------------------------------
AlarmWait(w) ==
  \/ AlarmLock(w) \/ AlarmReset(w) \/ AlarmSet(w) \/ AlarmRange(w)
  \/ AlarmWoken(w) \/ AlarmTimeout(w) \/ AlarmCancel(w) \/ AlarmUnlock(w)

RtcNext ==
  \/ Tick \/ AlarmInterrupt \/ SetTime
  \/ \E w \in Waiters : AlarmWait(w)

RtcSpec == RtcInit /\ [][RtcNext]_rtcVars
-----------------------------------------------------------------------------
AlarmPositions == {"idle", "reset", "set", "wait", "cancel", "unlock"}

RtcTypeOK ==
  /\ counter \in Times /\ alarm \in Times
  /\ alarm_on \in BOOLEAN /\ irq_status \in BOOLEAN
  /\ alarm_sem \in 0 .. AlarmSemMax
  /\ alarm_lock \in Waiters \cup {"none"}
  /\ apc \in [Waiters -> AlarmPositions]
  /\ result \in [Waiters -> {"none", "ok", "timeout", "range"}]
  /\ rang \subseteq Waiters

(* Whoever is told that the alarm came, its own alarm came: not the one of *)
(* an earlier caller that fired between its timeout and its cancel, nor a  *)
(* time set meanwhile.  Who times out has not missed an alarm that fired   *)
(* before, and the alarm is off whenever the lock is free (alarm_wait).    *)
OwnAlarmOnly ==
  /\ \A w \in Waiters : result[w] = "ok" => w \in rang
  /\ \A w \in Waiters : apc[w] = "wait" =>
       (w \in rang <=> alarm_sem > 0 \/ Ringing)
  /\ alarm_lock = "none" => ~alarm_on /\ ~irq_status
=============================================================================
