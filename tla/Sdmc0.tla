-------------------------------- MODULE Sdmc0 --------------------------------
(***************************************************************************)
(* The SDIO side of the Wi-Fi module, chip/d13x/d13x_sdmc.c: what the      *)
(* driver remembers of the module's enumeration (ready, selected, funcs)   *)
(* and the module's own state.  Every access enumerates first if it has    *)
(* to; the power command only switches the supply and forgets.  Nothing    *)
(* here is locked: the shell and the receive thread may enumerate at once. *)
(***************************************************************************)
EXTENDS Integers

CONSTANTS
  Clients,        (* the shell's commands and the receive thread           *)
  MaxReady        (* D13X_SDMC0_WIFI_READY_RETRIES                         *)

ASSUME Sdmc0Assumption == MaxReady \in Nat \ {0}

VARIABLES
  wifi_ready, wifi_selected,   (* g_sdmc0_wifi_ready, _selected            *)
  wifi_funcs,                  (* g_sdmc0_wifi_funcs is not 0              *)
  module,                      (* off, or the card state it is in          *)
  spc, polls,                  (* of each client                           *)
  overlapped                   (* history: a client reset the module, or   *)
                               (* cut its power, while another enumerated  *)

cacheVars == <<wifi_ready, wifi_selected, wifi_funcs>>
sdmc0Vars == <<cacheVars, module, spc, polls, overlapped>>

Sdmc0Init ==
  /\ wifi_ready = FALSE /\ wifi_selected = FALSE /\ wifi_funcs = FALSE
  /\ module = "off"
  /\ spc = [c \in Clients |-> "idle"] /\ polls = [c \in Clients |-> 0]
  /\ overlapped = FALSE

Enumerating(c) == spc[c] \notin {"idle", "access"}
SdmcGoto(c, pos) == spc' = [spc EXCEPT ![c] = pos]
ForgetAll == wifi_ready' = FALSE /\ wifi_selected' = FALSE /\ wifi_funcs' = FALSE
-----------------------------------------------------------------------------
(* d13x_sdmc0_wifi_power.                                                  *)

PowerOn ==
  /\ module' = IF module = "off" THEN "idle" ELSE module
  /\ UNCHANGED <<cacheVars, spc, polls, overlapped>>

PowerOffRemembers ==
  /\ module' = "off"
  /\ overlapped' = \E c \in Clients : Enumerating(c)
  /\ UNCHANGED <<cacheVars, spc, polls>>

PowerOff ==
  /\ module' = "off"
  /\ ForgetAll
  /\ overlapped' = \E c \in Clients : Enumerating(c)
  /\ UNCHANGED <<spc, polls>>
-----------------------------------------------------------------------------
(* readb, writeb, read and write of one client; d13x_sdmc0_wifi_probe.     *)

(* ensure_ready: what is remembered to be selected is not probed again.    *)
EnsureReady(c) ==
  /\ spc[c] = "idle"
  /\ IF wifi_ready /\ wifi_selected
       THEN SdmcGoto(c, "access") /\ UNCHANGED module
       ELSE /\ SdmcGoto(c, "reset")
            /\ module' = IF module = "off" THEN "idle" ELSE module
  /\ UNCHANGED <<cacheVars, polls, overlapped>>

ProbeReset(c) ==
  /\ spc[c] = "reset"
  /\ ForgetAll
  /\ overlapped' = \E d \in Clients \ {c} : Enumerating(d)
  /\ polls' = [polls EXCEPT ![c] = 0]
  /\ SdmcGoto(c, "cmd0")
  /\ UNCHANGED module

(* CMD0 takes the module back to its idle state; it has no answer.         *)
GoIdle(c) ==
  /\ spc[c] = "cmd0"
  /\ module' = IF module = "off" THEN "off" ELSE "idle"
  /\ SdmcGoto(c, "cmd5")
  /\ UNCHANGED <<cacheVars, polls, overlapped>>

(* CMD5: each answer tells the functions, always the same number, and      *)
(* whether the module is ready; without functions, and when it never gets  *)
(* ready, probe returns OK and ensure_ready ENODEV.                        *)
Inquire(c) ==
  /\ spc[c] = "cmd5" /\ module \in {"idle", "ready"}
  /\ \E functions \in IF polls[c] = 0 THEN BOOLEAN ELSE {TRUE}, ready \in BOOLEAN :
       /\ wifi_funcs' = functions
       /\ wifi_ready' = (wifi_ready \/ (functions /\ ready))
       /\ module' = IF functions /\ ready THEN "ready" ELSE module
       /\ SdmcGoto(c, IF ~functions THEN "idle"
                      ELSE IF ready THEN "cmd3"
                      ELSE IF polls[c] < MaxReady THEN "cmd5" ELSE "idle")
       /\ polls' = [polls EXCEPT ![c] = IF polls[c] < MaxReady THEN @ + 1 ELSE 0]
  /\ UNCHANGED <<wifi_selected, overlapped>>

(* select, unless someone has done it; CMD3.                               *)
PublishAddress(c) ==
  /\ spc[c] = "cmd3"
  /\ IF wifi_selected
       THEN SdmcGoto(c, "access") /\ UNCHANGED module
       ELSE /\ module \in {"ready", "standby"}
            /\ module' = "standby"
            /\ SdmcGoto(c, "cmd7")
  /\ UNCHANGED <<cacheVars, polls, overlapped>>

Select(c) ==   (* CMD7 *)
  /\ spc[c] = "cmd7" /\ module = "standby"
  /\ module' = "selected"
  /\ SdmcGoto(c, "note")
  /\ UNCHANGED <<cacheVars, polls, overlapped>>

NoteSelected(c) ==
  /\ spc[c] = "note"
  /\ wifi_selected' = TRUE
  /\ SdmcGoto(c, "access")
  /\ UNCHANGED <<wifi_ready, wifi_funcs, module, polls, overlapped>>

(* A command that gets no answer, or a bad one, ends the call.             *)
CommandFails(c) ==
  /\ spc[c] \in {"cmd0", "cmd5", "cmd3", "cmd7"}
  /\ SdmcGoto(c, "idle")
  /\ UNCHANGED <<cacheVars, module, polls, overlapped>>

(* CMD52 or CMD53, which the module answers when it is selected.           *)
Access(c) ==
  /\ spc[c] = "access"
  /\ SdmcGoto(c, "idle")
  /\ UNCHANGED <<cacheVars, module, polls, overlapped>>
-----------------------------------------------------------------------------
Sdmc0Step(c) ==
  \/ EnsureReady(c) \/ ProbeReset(c) \/ GoIdle(c) \/ Inquire(c) \/ PublishAddress(c)
  \/ Select(c) \/ NoteSelected(c) \/ CommandFails(c) \/ Access(c)

Sdmc0Next == PowerOn \/ PowerOff \/ \E c \in Clients : Sdmc0Step(c)

Sdmc0Spec == Sdmc0Init /\ [][Sdmc0Next]_sdmc0Vars
-----------------------------------------------------------------------------
Sdmc0TypeOK ==
  /\ wifi_ready \in BOOLEAN /\ wifi_selected \in BOOLEAN /\ wifi_funcs \in BOOLEAN
  /\ module \in {"off", "idle", "ready", "standby", "selected"}
  /\ spc \in [Clients -> {"idle", "reset", "cmd0", "cmd5", "cmd3", "cmd7", "note", "access"}]
  /\ polls \in [Clients -> 0 .. MaxReady] /\ overlapped \in BOOLEAN

(* What the driver remembers is what the module is: it is not enumerated   *)
(* again exactly while it has power and is selected, whatever enumeration  *)
(* failed where and whenever its power was cut, unless a client reset it   *)
(* while another one was enumerating (probe, select, power).               *)
CacheAgrees ==
  (wifi_ready /\ wifi_selected /\ ~overlapped) => (module = "selected" /\ wifi_funcs)
=============================================================================
