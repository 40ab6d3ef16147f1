------------------------------- MODULE Wakeup -------------------------------
(***************************************************************************)
(* The WAKEUP key (board/d13x/demo88-nor/src/d13x_buttons.c) and its two   *)
(* users: /dev/buttons, whose upper half (external) calls board_button_irq *)
(* and ignores its result, and the wake test (app/pm_test), which borrows  *)
(* the interrupt, switches the display off and waits for a press.          *)
(*                                                                         *)
(* An unmasked interrupt is taken before any thread runs (Preempted).  The *)
(* critical section of pm_arm is two steps, between which the key may move.*)
(***************************************************************************)
EXTENDS Integers

CONSTANT MaxPresses     (* bound on the number of times the key is pressed *)

ASSUME WakeupAssumption == MaxPresses \in Nat

VARIABLES
  key,                (* the key is down                                   *)
  presses,
  latched,            (* the GPIO interrupt status bit                     *)
  mode,               (* the edges that set it                             *)
  gpio_irq, line_irq, (* enabled in the GPIO group, in the controller      *)
  g_wakeup_handler,   (* none, buttons or pm                               *)
  g_wakeup_pm_armed,
  g_wakeup_pm_sem,
  listening,          (* /dev/buttons is open                              *)
  power,              (* the display pipeline is on                        *)
  tpc,                (* position of pm_test                               *)
  fell,               (* history: the key was pressed since it was armed,  *)
                      (* or down when the interrupt was enabled            *)
  outcome             (* result of pm_wait                                 *)

keyVars   == <<key, presses>>
gpioVars  == <<latched, mode, gpio_irq, line_irq>>
ownerVars == <<g_wakeup_handler, g_wakeup_pm_armed>>
testVars  == <<power, tpc, outcome>>
wakeupVars ==
  <<keyVars, gpioVars, ownerVars, g_wakeup_pm_sem, listening, testVars, fell>>

(* board_button_initialize; the display is on, /dev/buttons is closed.     *)
WakeupInit ==
  /\ key = FALSE /\ presses = 0
  /\ latched = FALSE /\ mode = "both" /\ gpio_irq = FALSE /\ line_irq = FALSE
  /\ g_wakeup_handler = "none" /\ g_wakeup_pm_armed = FALSE /\ g_wakeup_pm_sem = 0
  /\ listening = FALSE /\ power = TRUE
  /\ tpc = "idle" /\ fell = FALSE /\ outcome = "none"

WakePending == latched /\ gpio_irq /\ line_irq
Preempted == WakePending /\ tpc # "enable"
IrqOff == gpio_irq' = FALSE /\ line_irq' = FALSE /\ latched' = FALSE
IrqOn  == gpio_irq' = TRUE /\ line_irq' = TRUE
-----------------------------------------------------------------------------
(* The key and its interrupt.                                              *)

Press ==
  /\ ~key /\ presses < MaxPresses
  /\ key' = TRUE /\ presses' = presses + 1
  /\ latched' = TRUE
  /\ fell' = (fell \/ tpc \in {"enable", "off", "wait"})
  /\ UNCHANGED <<mode, gpio_irq, line_irq, ownerVars, g_wakeup_pm_sem, listening, testVars>>

Release ==
  /\ key
  /\ key' = FALSE
  /\ latched' = (latched \/ mode = "both")
  /\ UNCHANGED <<presses, mode, gpio_irq, line_irq, ownerVars, g_wakeup_pm_sem,
                 listening, testVars, fell>>

(* d13x_wakeup_interrupt; the handler of pm_test posts its semaphore.      *)
WakeupInterrupt ==
  /\ Preempted
  /\ latched' = FALSE
  /\ g_wakeup_pm_sem' = g_wakeup_pm_sem + (IF g_wakeup_handler = "pm" THEN 1 ELSE 0)
  /\ UNCHANGED <<keyVars, mode, gpio_irq, line_irq, ownerVars, listening, testVars, fell>>
-----------------------------------------------------------------------------
(* board_button_irq.                                                       *)

(* While the wake test has the key the call fails with EBUSY.              *)
board_button_irq(handler) ==
  IF g_wakeup_pm_armed
    THEN UNCHANGED <<g_wakeup_handler, latched, gpio_irq, line_irq>>
    ELSE /\ g_wakeup_handler' = handler
         /\ latched' = FALSE
         /\ gpio_irq' = (handler # "none") /\ line_irq' = (handler # "none")

InCritical == tpc = "enable"

OpenButtons ==
  /\ ~Preempted /\ ~InCritical /\ ~listening
  /\ listening' = TRUE
  /\ board_button_irq("buttons")
  /\ UNCHANGED <<keyVars, mode, g_wakeup_pm_armed, g_wakeup_pm_sem, testVars, fell>>

CloseButtons ==
  /\ ~Preempted /\ ~InCritical /\ listening
  /\ listening' = FALSE
  /\ board_button_irq("none")
  /\ UNCHANGED <<keyVars, mode, g_wakeup_pm_armed, g_wakeup_pm_sem, testVars, fell>>
-----------------------------------------------------------------------------
(* pm_test_wake, with d13x_wakeup_pm_arm, _wait and _disarm.               *)

At(pos) == ~Preempted /\ tpc = pos

(* The display is on and the key has been seen released within 5 s.        *)
PmBegin ==
  /\ At("idle") /\ power /\ ~key
  /\ tpc' = "arm"
  /\ UNCHANGED <<keyVars, gpioVars, ownerVars, g_wakeup_pm_sem, listening, power, fell,
                 outcome>>

PmBusy ==   (* EBUSY: the button driver owns the key                       *)
  /\ At("arm") /\ (g_wakeup_handler # "none" \/ g_wakeup_pm_armed)
  /\ tpc' = "idle"
  /\ UNCHANGED <<keyVars, gpioVars, ownerVars, g_wakeup_pm_sem, listening, power, fell,
                 outcome>>

PmArmNoReset ==
  /\ At("arm") /\ g_wakeup_handler = "none" /\ ~g_wakeup_pm_armed
  /\ IrqOff
  /\ mode' = "falling"
  /\ g_wakeup_handler' = "pm" /\ g_wakeup_pm_armed' = TRUE
  /\ fell' = FALSE /\ outcome' = "none"
  /\ tpc' = "enable"
  /\ UNCHANGED <<keyVars, g_wakeup_pm_sem, listening, power>>

(* The critical section up to hal_gpio_enable_irq, ...                     *)
PmArm ==
  /\ At("arm") /\ g_wakeup_handler = "none" /\ ~g_wakeup_pm_armed
  /\ IrqOff
  /\ g_wakeup_pm_sem' = 0
  /\ mode' = "falling"
  /\ g_wakeup_handler' = "pm" /\ g_wakeup_pm_armed' = TRUE
  /\ fell' = FALSE /\ outcome' = "none"
  /\ tpc' = "enable"
  /\ UNCHANGED <<keyVars, listening, power>>

(* ... and from there on: a key that is down already posts at once.        *)
PmEnable ==
  /\ tpc = "enable"
  /\ IrqOn
  /\ g_wakeup_pm_sem' = g_wakeup_pm_sem + (IF key THEN 1 ELSE 0)
  /\ fell' = (fell \/ key)
  /\ tpc' = "off"
  /\ UNCHANGED <<keyVars, latched, mode, ownerVars, listening, power, outcome>>

PmEnableFails ==   (* a GPIO call failed: everything is taken back         *)
  /\ tpc = "enable"
  /\ IrqOff
  /\ g_wakeup_handler' = "none" /\ g_wakeup_pm_armed' = FALSE
  /\ mode' = "both"
  /\ tpc' = "idle"
  /\ UNCHANGED <<keyVars, g_wakeup_pm_sem, listening, power, fell, outcome>>

PmDisplayOff ==
  /\ At("off")
  /\ power' = FALSE
  /\ tpc' = "wait"
  /\ UNCHANGED <<keyVars, gpioVars, ownerVars, g_wakeup_pm_sem, listening, fell, outcome>>

PmWoken ==
  /\ At("wait") /\ g_wakeup_pm_sem > 0
  /\ g_wakeup_pm_sem' = g_wakeup_pm_sem - 1
  /\ outcome' = "woken"
  /\ tpc' = "disarm"
  /\ UNCHANGED <<keyVars, gpioVars, ownerVars, listening, power, fell>>

PmTimeout ==
  /\ At("wait") /\ g_wakeup_pm_sem = 0
  /\ outcome' = "timeout"
  /\ tpc' = "disarm"
  /\ UNCHANGED <<keyVars, gpioVars, ownerVars, g_wakeup_pm_sem, listening, power, fell>>

PmDisarmKeepsMode ==
  /\ At("disarm")
  /\ IrqOff
  /\ g_wakeup_handler' = IF g_wakeup_pm_armed THEN "none" ELSE g_wakeup_handler
  /\ g_wakeup_pm_armed' = FALSE
  /\ tpc' = "restore"
  /\ UNCHANGED <<keyVars, mode, g_wakeup_pm_sem, listening, power, fell, outcome>>

PmDisarm ==
  /\ At("disarm")
  /\ IrqOff
  /\ g_wakeup_handler' = IF g_wakeup_pm_armed THEN "none" ELSE g_wakeup_handler
  /\ g_wakeup_pm_armed' = FALSE
  /\ mode' = "both"
  /\ tpc' = "restore"
  /\ UNCHANGED <<keyVars, g_wakeup_pm_sem, listening, power, fell, outcome>>

PmRestore ==
  /\ At("restore")
  /\ power' = TRUE
  /\ tpc' = "idle"
  /\ UNCHANGED <<keyVars, gpioVars, ownerVars, g_wakeup_pm_sem, listening, fell, outcome>>
-----------------------------------------------------------------------------
PmStep ==
  \/ PmBusy \/ PmArm \/ PmEnable \/ PmEnableFails \/ PmDisplayOff
  \/ PmWoken \/ PmTimeout \/ PmDisarm \/ PmRestore

WakeupNext ==
  \/ Press \/ Release \/ WakeupInterrupt
  \/ OpenButtons \/ CloseButtons
  \/ PmBegin \/ PmStep

WakeupSpec == WakeupInit /\ [][WakeupNext]_wakeupVars
-----------------------------------------------------------------------------
WakeupTypeOK ==
  /\ key \in BOOLEAN /\ presses \in 0 .. MaxPresses
  /\ latched \in BOOLEAN /\ mode \in {"both", "falling"}
  /\ gpio_irq \in BOOLEAN /\ line_irq \in BOOLEAN
  /\ g_wakeup_handler \in {"none", "buttons", "pm"} /\ g_wakeup_pm_armed \in BOOLEAN
  /\ g_wakeup_pm_sem \in Nat
  /\ listening \in BOOLEAN /\ power \in BOOLEAN /\ fell \in BOOLEAN
  /\ tpc \in {"idle", "arm", "enable", "off", "wait", "disarm", "restore"}
  /\ outcome \in {"none", "woken", "timeout"}

(* The wake test wakes for a press since it armed the key, whenever it     *)
(* falls, and for nothing else: a post left over from an earlier test does *)
(* not wake it, and opening or closing /dev/buttons does not make it deaf  *)
(* (pm_arm, pm_wait, board_button_irq).                                    *)
WakesForPress ==
  /\ tpc = "wait" => (g_wakeup_pm_sem > 0 \/ WakePending <=> fell)
  /\ tpc \in {"disarm", "restore"} => (outcome = "woken" <=> fell)

(* Whoever has /dev/buttons open, and did not open it while the test had   *)
(* the key, gets both edges; and a test that finished or failed, pressed   *)
(* or not, leaves the key and the display as it found them (pm_arm,        *)
(* pm_disarm, board_button_irq, pm_test_wake).                             *)
TestRestores ==
  /\ g_wakeup_handler = "buttons" => mode = "both" /\ gpio_irq /\ line_irq
  /\ tpc = "idle" =>
       mode = "both" /\ ~g_wakeup_pm_armed /\ g_wakeup_handler # "pm" /\ power

(* "The command restores ... normal both-edge /dev/buttons behavior on     *)
(* every exit path": when no test runs, an open /dev/buttons is attached.  *)
ButtonsRestored == tpc = "idle" /\ listening => g_wakeup_handler = "buttons"
=============================================================================
