------------------------------- MODULE Storage -------------------------------
(***************************************************************************)
(* Mounting the TF card: chip/d13x/d13x_sdmc.c and the three callers that  *)
(* run the same sequence over the same card, block devices and mount       *)
(* point /sdcard: the mount worker of the board's bring-up, the recorder   *)
(* (recorder_mount_sd) and tf_test, which also unmounts.  No lock orders   *)
(* them; mount, umount and the registration of a device are atomic         *)
(* (external).                                                             *)
(***************************************************************************)
EXTENDS Integers, FiniteSets

CONSTANTS
  Mounters,      (* the callers                                            *)
  Asks,          (* those that look first whether the card is mounted:     *)
                 (* d13x_sdmc1_mount and recorder_mount_sd                 *)
  Lenient,       (* those that return OK when there is nothing to try:     *)
                 (* recorder_mount_sd                                      *)
  Parts,         (* 1 .. MAX_PARTS: the partitions a card may have         *)
  MaxMounts      (* bound on the calls                                     *)

ASSUME StorageAssumption ==
  /\ Asks \subseteq Mounters /\ Lenient \subseteq Mounters
  /\ Parts \subseteq Nat \ {0} /\ MaxMounts \in Nat
  /\ IsFiniteSet(Parts)

Card == 0   (* /dev/mmcsd0; a partition's device is its number             *)
Nowhere == -1

VARIABLES
  fat, table,      (* the card: devices with a file system, its partitions *)
  g_sdmc1,         (* is not NULL                                          *)
  devices,         (* the block devices that are registered                *)
  sdcard,          (* the device mounted at /sdcard, or Nowhere            *)
  mpc, left,       (* each caller: position, partitions still to be tried  *)
  answer,          (* what its last call returned                          *)
  was,             (* history: the card was mounted during the call        *)
  excuse,          (* history: the call was told of an error of the card,  *)
                   (* overlapped the set-up of the slot, or an umount      *)
  mounts

cardVars == <<fat, table>>
callVars == <<mpc, left, answer, was, excuse, mounts>>
storageVars == <<cardVars, g_sdmc1, devices, sdcard, callVars>>

StorageInit ==
  /\ table \in SUBSET Parts /\ fat \in SUBSET (table \cup {Card})
  /\ g_sdmc1 = FALSE /\ devices = {} /\ sdcard = Nowhere
  /\ mpc = [c \in Mounters |-> "idle"]
  /\ left = [c \in Mounters |-> {}]
  /\ answer = [c \in Mounters |-> "none"]
  /\ was = [c \in Mounters |-> FALSE] /\ excuse = [c \in Mounters |-> FALSE]
  /\ mounts = 0

Mounted == sdcard # Nowhere
Calling == {c \in Mounters : mpc[c] # "idle"}
SettingUp == {c \in Mounters : mpc[c] \in {"host", "slot", "probe"}}

MountAt(c, pos) == mpc[c] = pos
MountGoto(c, pos) == mpc' = [mpc EXCEPT ![c] = pos]
Return(c, what) == MountGoto(c, "idle") /\ answer' = [answer EXCEPT ![c] = what]
Excuse(who) == excuse' = [c \in Mounters |-> excuse[c] \/ c \in who]
-----------------------------------------------------------------------------
MountBegin(c) ==
  /\ MountAt(c, "idle") /\ mounts < MaxMounts
  /\ mounts' = mounts + 1
  /\ answer' = [answer EXCEPT ![c] = "none"]
  /\ was' = [was EXCEPT ![c] = Mounted] /\ excuse' = [excuse EXCEPT ![c] = FALSE]
  /\ MountGoto(c, IF c \in Asks THEN "ask" ELSE "find")
  /\ UNCHANGED <<cardVars, g_sdmc1, devices, sdcard, left>>

AlreadyMounted(c) ==   (* is_mounted *)
  /\ MountAt(c, "ask")
  /\ IF Mounted THEN Return(c, "ok") ELSE MountGoto(c, "find") /\ UNCHANGED answer
  /\ UNCHANGED <<cardVars, g_sdmc1, devices, sdcard, left, was, excuse, mounts>>

(* d13x_sdmc1_reprobe looks for the device ...                             *)
FindDevice(c) ==
  /\ MountAt(c, "find")
  /\ MountGoto(c, IF Card \in devices THEN "mount" ELSE "init")
  /\ UNCHANGED <<cardVars, g_sdmc1, devices, sdcard, left, answer, was, excuse, mounts>>

(* ... d13x_sdmc1_initialize sets the slot up, unless g_sdmc1 is set: this *)
(* may be by a caller who is not done with it yet, ...                     *)
InitCheck(c) ==
  /\ MountAt(c, "init")
  /\ MountGoto(c, IF g_sdmc1 THEN "again" ELSE "host")
  /\ Excuse(IF g_sdmc1 /\ SettingUp # {} THEN {c} ELSE {})
  /\ UNCHANGED <<cardVars, g_sdmc1, devices, sdcard, left, answer, was, mounts>>

(* A failed set-up clears g_sdmc1, also under those that have set it.      *)
ClearHost(c) ==
  /\ g_sdmc1' = FALSE
  /\ Return(c, "error")
  /\ Excuse({c} \cup {d \in Mounters : MountAt(d, "slot")})

InitHost(c) ==   (* sdio_initialize *)
  /\ MountAt(c, "host")
  /\ \/ g_sdmc1' = TRUE /\ MountGoto(c, "slot") /\ UNCHANGED <<answer, excuse>>
     \/ ClearHost(c)
  /\ UNCHANGED <<cardVars, devices, sdcard, left, was, mounts>>

(* sdio_mediachange and mmcsd_slotinitialize are passed g_sdmc1, which is  *)
(* read again: it may be NULL by now, and the fault stops the system.      *)
SlotBegin(c) ==
  /\ MountAt(c, "slot")
  /\ MountGoto(c, IF g_sdmc1 THEN "probe" ELSE "fault")
  /\ UNCHANGED <<cardVars, g_sdmc1, devices, sdcard, left, answer, was, excuse, mounts>>

SlotReady(c) ==
  /\ MountAt(c, "probe") /\ Card \notin devices
  /\ devices' = devices \cup {Card}
  /\ MountGoto(c, "again")
  /\ UNCHANGED <<cardVars, g_sdmc1, sdcard, left, answer, was, excuse, mounts>>

SlotFailsKeepsHost(c) ==
  /\ MountAt(c, "probe")
  /\ Return(c, "error")
  /\ Excuse({c})
  /\ UNCHANGED <<cardVars, g_sdmc1, devices, sdcard, left, was, mounts>>

(* It fails: the card does not answer, or the device exists by now.        *)
SlotFails(c) ==
  /\ MountAt(c, "probe")
  /\ ClearHost(c)
  /\ UNCHANGED <<cardVars, devices, sdcard, left, was, mounts>>

(* ... and reprobe looks again.                                            *)
FindAgain(c) ==
  /\ MountAt(c, "again")
  /\ IF Card \in devices
       THEN MountGoto(c, "mount") /\ UNCHANGED answer
       ELSE Return(c, "error")
  /\ UNCHANGED <<cardVars, g_sdmc1, devices, sdcard, left, was, excuse, mounts>>
-----------------------------------------------------------------------------
(* mount_device, of the card and then of its partitions in turn.           *)

Trying(c, dev) ==
  \/ MountAt(c, "mount") /\ dev = Card
  \/ MountAt(c, "part") /\ dev \in left[c] /\ \A p \in left[c] : dev <= p

GiveUpOn(c, dev) ==
  IF dev = Card
    THEN MountGoto(c, "scan") /\ UNCHANGED <<left, answer>>
    ELSE /\ left' = [left EXCEPT ![c] = @ \ {dev}]
         /\ IF left[c] = {dev} THEN Return(c, "error")
            ELSE MountGoto(c, "part") /\ UNCHANGED answer

MountOk(c, dev) ==
  /\ Trying(c, dev) /\ ~Mounted /\ dev \in fat
  /\ sdcard' = dev
  /\ was' = [d \in Mounters |-> was[d] \/ d \in Calling]
  /\ Return(c, "ok") /\ left' = [left EXCEPT ![c] = {}]
  /\ UNCHANGED <<cardVars, g_sdmc1, devices, excuse, mounts>>

(* No file system, or an error of the card.                                *)
MountFails(c, dev) ==
  /\ Trying(c, dev) /\ ~Mounted
  /\ Excuse(IF dev \in fat THEN {c} ELSE {})
  /\ GiveUpOn(c, dev)
  /\ UNCHANGED <<cardVars, g_sdmc1, devices, sdcard, was, mounts>>

(* EBUSY: the call asks once more who is mounted.                          *)
MountBusy(c, dev) ==
  /\ Trying(c, dev) /\ Mounted
  /\ MountGoto(c, IF dev = Card THEN "busy" ELSE "busy part")
  /\ UNCHANGED <<cardVars, g_sdmc1, devices, sdcard, left, answer, was, excuse, mounts>>

BusyCheck(c, dev) ==
  /\ \/ MountAt(c, "busy") /\ dev = Card
     \/ MountAt(c, "busy part") /\ dev \in left[c] /\ \A p \in left[c] : dev <= p
  /\ IF Mounted
       THEN Return(c, "ok") /\ left' = [left EXCEPT ![c] = {}]
       ELSE GiveUpOn(c, dev)
  /\ UNCHANGED <<cardVars, g_sdmc1, devices, sdcard, was, excuse, mounts>>

(* The partition handler registers a device for each partition; one that   *)
(* exists already will do, one that cannot be registered is left out.      *)
(* With none to try the recorder returns the OK of the scan itself.        *)
List(c) ==
  /\ MountAt(c, "scan")
  /\ \E listed \in SUBSET table :
       /\ devices' = devices \cup listed
       /\ left' = [left EXCEPT ![c] = listed]
       /\ Excuse(IF listed = table THEN {} ELSE {c})
       /\ IF listed # {} THEN MountGoto(c, "part") /\ UNCHANGED answer
          ELSE Return(c, IF c \in Lenient THEN "ok untried" ELSE "error")
  /\ UNCHANGED <<cardVars, g_sdmc1, sdcard, was, mounts>>

ListFails(c) ==   (* the table cannot be read                              *)
  /\ MountAt(c, "scan")
  /\ Excuse({c})
  /\ Return(c, "error")
  /\ UNCHANGED <<cardVars, g_sdmc1, devices, sdcard, left, was, mounts>>
-----------------------------------------------------------------------------
(* tf_test umount; it fails while a file is open.                          *)
Umount ==
  /\ Mounted
  /\ sdcard' = Nowhere
  /\ Excuse(Calling)
  /\ UNCHANGED <<cardVars, g_sdmc1, devices, mpc, left, answer, was, mounts>>

MountStep(c) ==
  \/ MountBegin(c) \/ AlreadyMounted(c) \/ FindDevice(c) \/ InitCheck(c) \/ InitHost(c)
  \/ SlotBegin(c) \/ SlotReady(c) \/ SlotFails(c) \/ FindAgain(c)
  \/ List(c) \/ ListFails(c)
  \/ \E dev \in Parts \cup {Card} :
       MountOk(c, dev) \/ MountFails(c, dev) \/ MountBusy(c, dev) \/ BusyCheck(c, dev)

Faulted == \E c \in Mounters : MountAt(c, "fault")

StorageNext == ~Faulted /\ (Umount \/ \E c \in Mounters : MountStep(c))

StorageSpec == StorageInit /\ [][StorageNext]_storageVars
-----------------------------------------------------------------------------
MountPositions == {"idle", "ask", "find", "init", "host", "slot", "probe", "again", "mount",
                   "busy", "scan", "part", "busy part", "fault"}

StorageTypeOK ==
  /\ table \subseteq Parts /\ fat \subseteq table \cup {Card}
  /\ g_sdmc1 \in BOOLEAN /\ devices \subseteq Parts \cup {Card}
  /\ sdcard \in fat \cup {Nowhere}
  /\ mpc \in [Mounters -> MountPositions]
  /\ left \in [Mounters -> SUBSET Parts]
  /\ answer \in [Mounters -> {"none", "ok", "ok untried", "error"}]
  /\ was \in [Mounters -> BOOLEAN] /\ excuse \in [Mounters -> BOOLEAN]
  /\ mounts \in 0 .. MaxMounts

(* A call that says the card is mounted saw it mounted; one that fails on  *)
(* a card with a file system was told of an error or overlapped the set-up *)
(* of the slot or an umount; and one passes NULL on only if it met         *)
(* another's failed set-up or an umount. Neither an earlier failure nor an *)
(* earlier mount by anyone stands in the way of a later call: the slot is  *)
(* set up again, a partition's device is used again (sdmc1_initialize,     *)
(* partition_handler, mount_device).                                       *)
MountAnswers ==
  \A c \in Mounters :
    /\ answer[c] = "ok" => was[c]
    /\ answer[c] \in {"error", "ok untried"} => excuse[c] \/ fat = {}
    /\ mpc[c] = "fault" => excuse[c]

(* "Board bring-up mounts it at /sdcard; the app retries the mount if      *)
(* necessary": a caller that is returned OK, and goes on to its files, has *)
(* a card that was mounted during the call (recorder_mount_sd, record      *)
(* worker).                                                                *)
OkMeansMounted ==
  \A c \in Mounters : answer[c] \in {"ok", "ok untried"} => was[c]
=============================================================================
