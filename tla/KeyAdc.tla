------------------------------- MODULE KeyAdc -------------------------------
(***************************************************************************)
(* The direction keys on one ADC channel,                                  *)
(* board/d13x/demo88-nor/src/d13x_keyadc.c.  The worker polls the channel, *)
(* debounces it and calls the handler of the button upper half (external), *)
(* which compares the buttons with the ones it has seen last and enables   *)
(* and disables the lower half as files open and close.                    *)
(***************************************************************************)
EXTENDS Integers

CONSTANTS
  Keys,          (* what the ladder can be classified as; 0 is no key      *)
  StableSamples, (* D13X_KEYADC_STABLE_SAMPLES                             *)
  MaxEnables     (* bound on the calls of enable with a handler            *)

ASSUME KeyAdcAssumption ==
  /\ 0 \in Keys
  /\ StableSamples \in Nat \ {0} /\ MaxEnables \in Nat

VARIABLES
  level,       (* the key that is down                                     *)
  dev_enabled, (* dev->enabled, and dev->handler # NULL                    *)
  dev_buttons, waitsem,
  candidate, stable,
  kpc,         (* the worker's position                                    *)
  call,        (* its local handler is not NULL                            *)
  enables,
  seen,        (* the upper half's last sample (bu_sample)                 *)
  streak,      (* history: the last sample and how often it came in a row  *)
               (* since the worker last slept                              *)
  cut          (* history: the buttons were updated while the handler was  *)
               (* away, by a worker that had found the device enabled      *)

debounce == <<candidate, stable>>
keyWorker == <<kpc, call, debounce, dev_buttons, streak>>
keyUpper  == <<dev_enabled, enables, seen, cut>>
keyadcVars == <<level, waitsem, keyWorker, keyUpper>>

(* d13x_keyadc_register: the first sample is taken as it is.               *)
KeyAdcInit ==
  /\ level \in Keys
  /\ dev_enabled = FALSE /\ dev_buttons = level /\ waitsem = 0
  /\ candidate = 0 /\ stable = 0
  /\ kpc = "top" /\ call = FALSE
  /\ enables = 0 /\ seen = level
  /\ streak = [key |-> level, n |-> 0] /\ cut = FALSE

KeyMoves ==
  /\ level' \in Keys \ {level}
  /\ UNCHANGED <<waitsem, keyWorker, keyUpper>>
-----------------------------------------------------------------------------
(* d13x_keyadc_enable; every call with a handler posts the semaphore.      *)

EnableNoPost ==
  /\ enables < MaxEnables
  /\ enables' = enables + 1
  /\ dev_enabled' = TRUE
  /\ UNCHANGED <<level, waitsem, keyWorker, seen, cut>>

Enable ==
  /\ enables < MaxEnables
  /\ enables' = enables + 1
  /\ dev_enabled' = TRUE
  /\ waitsem' = waitsem + 1
  /\ UNCHANGED <<level, keyWorker, seen, cut>>

Disable ==
  /\ dev_enabled
  /\ dev_enabled' = FALSE
  /\ UNCHANGED <<level, waitsem, keyWorker, enables, seen, cut>>
-----------------------------------------------------------------------------
(* The worker.                                                             *)

TopRead ==
  /\ kpc = "top"
  /\ kpc' = IF dev_enabled THEN "sample" ELSE "wait"
  /\ UNCHANGED <<level, waitsem, call, debounce, dev_buttons, streak, keyUpper>>

KeyWakeCounting ==
  /\ kpc = "wait" /\ waitsem > 0
  /\ waitsem' = waitsem - 1
  /\ streak' = [streak EXCEPT !.n = 0]
  /\ kpc' = "top"
  /\ UNCHANGED <<level, call, debounce, dev_buttons, keyUpper>>

(* The worker starts over from the buttons it has reported.                *)
KeyWake ==
  /\ kpc = "wait" /\ waitsem > 0
  /\ waitsem' = waitsem - 1
  /\ candidate' = dev_buttons /\ stable' = 0
  /\ streak' = [streak EXCEPT !.n = 0]
  /\ kpc' = "top"
  /\ UNCHANGED <<level, call, dev_buttons, keyUpper>>

SampleFails ==   (* a timeout, or a FIFO count out of range                *)
  /\ kpc = "sample"
  /\ kpc' = "top"
  /\ UNCHANGED <<level, waitsem, call, debounce, dev_buttons, streak, keyUpper>>

Capped(n) == IF n < StableSamples THEN n + 1 ELSE n

(* A sample equal to the candidate counts up to the limit, another one     *)
(* becomes the candidate.                                                  *)
Debounced == IF level = candidate THEN Capped(stable) ELSE 1

Sampled ==
  /\ kpc = "sample"
  /\ candidate' = level /\ stable' = Debounced
  /\ streak' = [key |-> level,
                n |-> IF streak.key = level THEN Capped(streak.n) ELSE 1]
  /\ IF stable' = StableSamples /\ level # dev_buttons
       THEN dev_buttons' = level /\ kpc' = "fetch"
       ELSE kpc' = "top" /\ UNCHANGED dev_buttons
  /\ UNCHANGED <<level, waitsem, call, keyUpper>>

(* The handler is read in a critical section ...                           *)
Fetch ==
  /\ kpc = "fetch"
  /\ call' = dev_enabled
  /\ cut' = (cut \/ ~dev_enabled)
  /\ kpc' = "call"
  /\ UNCHANGED <<level, waitsem, debounce, dev_buttons, streak, dev_enabled, enables, seen>>

(* ... and called after it: the upper half reads the buttons again.        *)
Call ==
  /\ kpc = "call"
  /\ seen' = IF call THEN dev_buttons ELSE seen
  /\ call' = FALSE
  /\ kpc' = "top"
  /\ UNCHANGED <<level, waitsem, debounce, dev_buttons, streak, dev_enabled, enables, cut>>
-----------------------------------------------------------------------------
KeyAdcStep ==
  TopRead \/ KeyWake \/ SampleFails \/ Sampled \/ Fetch \/ Call

KeyAdcNext == KeyMoves \/ Enable \/ Disable \/ KeyAdcStep

KeyAdcSpec == KeyAdcInit /\ [][KeyAdcNext]_keyadcVars
-----------------------------------------------------------------------------
KeyAdcTypeOK ==
  /\ level \in Keys /\ dev_buttons \in Keys /\ candidate \in Keys /\ seen \in Keys
  /\ dev_enabled \in BOOLEAN /\ call \in BOOLEAN /\ cut \in BOOLEAN
  /\ waitsem \in 0 .. MaxEnables /\ enables \in 0 .. MaxEnables
  /\ stable \in 0 .. StableSamples
  /\ streak \in [key : Keys, n : 0 .. StableSamples]
  /\ kpc \in {"top", "wait", "sample", "fetch", "call"}

(* The buttons change only to a key that was sampled the required number   *)
(* of times in a row since the worker last slept, however often the lower  *)
(* half was disabled and enabled in the middle of a count; failed samples  *)
(* do not count (worker).                                                  *)
ChangesDebounced ==
  [][dev_buttons' # dev_buttons =>
       streak' = [key |-> dev_buttons', n |-> StableSamples]]_keyadcVars

(* A key that stays down, or stays up, while the lower half is enabled is  *)
(* reported to the upper half, however often it was disabled and enabled   *)
(* before; the exception is a disable between the worker's look at enabled *)
(* and its look at the handler: the buttons change unreported, and the     *)
(* upper half goes on comparing with the ones it knows (worker, enable).   *)
KeysReported ==
  \A k \in Keys :
    level = k /\ dev_enabled ~> seen = k \/ level # k \/ ~dev_enabled \/ cut
=============================================================================
