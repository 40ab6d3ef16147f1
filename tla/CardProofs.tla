------------------------------ MODULE CardProofs ------------------------------
(***************************************************************************)
(* Theorems about the two card slots, Storage and Sdmc0, for every number  *)
(* of callers and of retries and every card: what a mount call answers is  *)
(* true, and what the driver remembers of the Wi-Fi module is what it is.  *)
(***************************************************************************)
EXTENDS Storage, Sdmc0, TLAPS

(* The slot's host stays noted only with a device, or one under way.       *)
HostInv ==
  g_sdmc1 => Card \in devices \/ \E c \in Mounters : mpc[c] \in {"slot", "probe"}

(* A caller that has set the host up finds it noted, unless another's      *)
(* set-up has failed since, or the card was unmounted.                     *)
NotedInv(c) ==
  /\ mpc[c] = "slot" => g_sdmc1 \/ excuse[c]
  /\ mpc[c] = "fault" => excuse[c]

(* A caller at "again" finds the device unless it met another's set-up.    *)
AgainInv(c) == mpc[c] = "again" => Card \in devices \/ excuse[c]

(* A mount during a call is noted; one that was busy and is gone was       *)
(* unmounted during the call.                                              *)
SeenInv(c) ==
  /\ Mounted /\ mpc[c] # "idle" => was[c]
  /\ mpc[c] \in {"busy", "busy part"} => Mounted \/ excuse[c]

(* What a caller has given up on holds no file system, or it was told of   *)
(* an error.                                                               *)
TriedInv(c) ==
  /\ mpc[c] \in {"scan", "part", "busy part"} => excuse[c] \/ Card \notin fat
  /\ mpc[c] \in {"part", "busy part"} =>
       /\ left[c] \subseteq table
       /\ excuse[c] \/ fat \subseteq left[c]

AnswerInv(c) ==
  /\ answer[c] = "ok" => was[c]
  /\ answer[c] \in {"error", "ok untried"} => excuse[c] \/ fat = {}

CallerInv(c) == NotedInv(c) /\ AgainInv(c) /\ SeenInv(c) /\ TriedInv(c) /\ AnswerInv(c)

MountInv == StorageTypeOK /\ HostInv /\ \A c \in Mounters : CallerInv(c)
-----------------------------------------------------------------------------
(* Initially nobody is calling and nothing is registered.                  *)
LEMMA MountInit == StorageInit => MountInv
<1> SUFFICES ASSUME StorageInit PROVE MountInv
  OBVIOUS
<1>1. StorageTypeOK
  <2>1. g_sdmc1 \in BOOLEAN
    BY DEF StorageInit
  <2>2. mounts \in 0 .. MaxMounts
    BY StorageAssumption DEF StorageAssumption, StorageInit
  <2>3. /\ mpc \in [Mounters -> {"idle"}] /\ answer \in [Mounters -> {"none"}]
        /\ left \in [Mounters -> SUBSET Parts]
    BY DEF StorageInit
  <2>4. was \in [Mounters -> BOOLEAN] /\ excuse \in [Mounters -> BOOLEAN]
    BY DEF StorageInit
  <2> QED
    BY <2>1, <2>2, <2>3, <2>4 DEF StorageInit, StorageTypeOK, MountPositions
<1>2. HostInv
  BY DEF StorageInit, HostInv
<1>3. ASSUME NEW c \in Mounters PROVE CallerInv(c)
  BY DEF StorageInit, CallerInv, NotedInv, AgainInv, SeenInv, TriedInv, AnswerInv
<1> QED
  BY <1>1, <1>2, <1>3 DEF MountInv

(* A call that may begin is counted within the bound.                      *)
LEMMA CountBounded ==
  ASSUME NEW n \in 0 .. MaxMounts, n < MaxMounts
  PROVE  n + 1 \in 0 .. MaxMounts
BY StorageAssumption DEF StorageAssumption

(* A step of one caller that leaves the host and the card alone leaves the *)
(* host and the other callers as they were.                                *)
OthersKept(c) ==
  /\ fat' = fat /\ table' = table /\ sdcard' = sdcard /\ was' = was
  /\ g_sdmc1' = g_sdmc1
  /\ devices \subseteq devices'
  /\ mpc[c] \notin {"idle", "slot", "probe"}
  /\ \A d \in Mounters \ {c} :
       /\ left'[d] = left[d] /\ mpc'[d] = mpc[d] /\ answer'[d] = answer[d]
       /\ excuse[d] => excuse'[d]

LEMMA OthersStay ==
  ASSUME MountInv, NEW c \in Mounters, OthersKept(c), CallerInv(c)'
  PROVE  HostInv' /\ \A d \in Mounters : CallerInv(d)'
<1>1. HostInv'
  BY DEF MountInv, OthersKept, HostInv
<1>2. ASSUME NEW d \in Mounters, d # c PROVE CallerInv(d)'
  <2>1. CallerInv(d)
    BY DEF MountInv
  <2> QED
    BY <1>2, <2>1
    DEF OthersKept, CallerInv, NotedInv, AgainInv, SeenInv, TriedInv, AnswerInv, Mounted
<1> QED
  BY <1>1, <1>2

(* Giving up on a device leaves the caller's variables in their types.     *)
LEMMA GiveUpTypes ==
  ASSUME StorageTypeOK, NEW c \in Mounters, NEW dev, GiveUpOn(c, dev)
  PROVE  /\ mpc' \in [Mounters -> MountPositions]
         /\ left' \in [Mounters -> SUBSET Parts]
         /\ answer' \in [Mounters -> {"none", "ok", "ok untried", "error"}]
<1>1. CASE dev = Card
  BY <1>1 DEF GiveUpOn, StorageTypeOK, MountPositions, MountGoto
<1>2. CASE dev # Card
  <2>1. left' = [left EXCEPT ![c] = @ \ {dev}]
    BY <1>2 DEF GiveUpOn
  <2>2. left' \in [Mounters -> SUBSET Parts]
    BY <2>1 DEF StorageTypeOK
  <2>3. CASE left[c] = {dev}
    BY <1>2, <2>2, <2>3 DEF GiveUpOn, StorageTypeOK, MountPositions, MountGoto, Return
  <2>4. CASE left[c] # {dev}
    BY <1>2, <2>2, <2>4 DEF GiveUpOn, StorageTypeOK, MountPositions, MountGoto
  <2> QED
    BY <2>3, <2>4
<1> QED
  BY <1>1, <1>2

(* Every step of a caller and every umount keeps the types.                *)
LEMMA StorageTypeStep == StorageTypeOK /\ [StorageNext]_storageVars => StorageTypeOK'
<1> SUFFICES ASSUME StorageTypeOK, [StorageNext]_storageVars PROVE StorageTypeOK'
  OBVIOUS
<1> USE StorageAssumption
    DEF StorageAssumption, StorageTypeOK, cardVars, Calling, SettingUp, ClearHost, MountPositions, MountAt, MountGoto,
        Return, Excuse, Mounted, Trying, GiveUpOn
<1>1. CASE UNCHANGED storageVars
  BY <1>1 DEF storageVars, callVars
<1>2. CASE Umount
  BY <1>2 DEF Umount
<1>3. ASSUME NEW c \in Mounters, MountBegin(c) PROVE StorageTypeOK'
  <2>1. was' \in [Mounters -> BOOLEAN] /\ excuse' \in [Mounters -> BOOLEAN]
    BY <1>3 DEF MountBegin
  <2>2. mounts' \in 0 .. MaxMounts
    BY <1>3, CountBounded DEF MountBegin
  <2>3. /\ mpc' \in [Mounters -> MountPositions]
        /\ answer' \in [Mounters -> {"none", "ok", "ok untried", "error"}]
    BY <1>3 DEF MountBegin
  <2> QED
    BY <1>3, <2>1, <2>2, <2>3 DEF MountBegin
<1>4. ASSUME NEW c \in Mounters, AlreadyMounted(c) PROVE StorageTypeOK'
  BY <1>4 DEF AlreadyMounted
<1>5. ASSUME NEW c \in Mounters, FindDevice(c) PROVE StorageTypeOK'
  BY <1>5 DEF FindDevice
<1>6. ASSUME NEW c \in Mounters, InitCheck(c) PROVE StorageTypeOK'
  BY <1>6 DEF InitCheck
<1>7. ASSUME NEW c \in Mounters, InitHost(c) PROVE StorageTypeOK'
  <2>1. CASE g_sdmc1' = TRUE /\ MountGoto(c, "slot") /\ UNCHANGED <<answer, excuse>>
    <3>1. g_sdmc1' \in BOOLEAN
      BY <2>1
    <3> QED
      BY <1>7, <2>1, <3>1 DEF InitHost
  <2>2. CASE ClearHost(c)
    <3>1. g_sdmc1' \in BOOLEAN
      BY <2>2
    <3> QED
      BY <1>7, <2>2, <3>1 DEF InitHost
  <2> QED
    BY <1>7, <2>1, <2>2 DEF InitHost
<1>8. ASSUME NEW c \in Mounters, SlotReady(c) PROVE StorageTypeOK'
  BY <1>8 DEF SlotReady
<1>8a. ASSUME NEW c \in Mounters, SlotBegin(c) PROVE StorageTypeOK'
  BY <1>8a DEF SlotBegin
<1>9. ASSUME NEW c \in Mounters, SlotFails(c) PROVE StorageTypeOK'
  BY <1>9 DEF SlotFails
<1>10. ASSUME NEW c \in Mounters, FindAgain(c) PROVE StorageTypeOK'
  BY <1>10 DEF FindAgain
<1>11. ASSUME NEW c \in Mounters, List(c) PROVE StorageTypeOK'
  <2> PICK listed \in SUBSET table :
        /\ devices' = devices \cup listed
        /\ left' = [left EXCEPT ![c] = listed]
        /\ Excuse(IF listed = table THEN {} ELSE {c})
        /\ IF listed # {} THEN MountGoto(c, "part") /\ UNCHANGED answer
           ELSE Return(c, IF c \in Lenient THEN "ok untried" ELSE "error")
    BY <1>11 DEF List
  <2>1. excuse' \in [Mounters -> BOOLEAN]
    OBVIOUS
  <2>2. left' \in [Mounters -> SUBSET Parts] /\ devices' \subseteq Parts \cup {Card}
    OBVIOUS
  <2>3. answer' \in [Mounters -> {"none", "ok", "ok untried", "error"}]
    OBVIOUS
  <2>4. mpc' \in [Mounters -> MountPositions]
    OBVIOUS
  <2>5. UNCHANGED <<fat, table, g_sdmc1, sdcard, was, mounts>>
    BY <1>11 DEF List
  <2> QED
    BY <2>1, <2>2, <2>3, <2>4, <2>5
<1>12. ASSUME NEW c \in Mounters, ListFails(c) PROVE StorageTypeOK'
  BY <1>12 DEF ListFails
<1>13. ASSUME NEW c \in Mounters, NEW dev \in Parts \cup {Card}, MountOk(c, dev)
       PROVE  StorageTypeOK'
  BY <1>13 DEF MountOk
<1>14. ASSUME NEW c \in Mounters, NEW dev \in Parts \cup {Card}, MountFails(c, dev)
       PROVE  StorageTypeOK'
  <2>1. GiveUpOn(c, dev)
    BY <1>14 DEF MountFails
  <2>2. /\ UNCHANGED <<fat, table, devices, sdcard, was, mounts>> /\ g_sdmc1' = g_sdmc1
        /\ excuse' \in [Mounters -> BOOLEAN]
    BY <1>14 DEF MountFails
  <2> QED
    <3> HIDE DEF GiveUpOn
    <3> QED
      BY <2>1, <2>2, GiveUpTypes
<1>15. ASSUME NEW c \in Mounters, NEW dev \in Parts \cup {Card}, MountBusy(c, dev)
       PROVE  StorageTypeOK'
  BY <1>15 DEF MountBusy
<1>16. ASSUME NEW c \in Mounters, NEW dev \in Parts \cup {Card}, BusyCheck(c, dev)
       PROVE  StorageTypeOK'
  <2>1. CASE Mounted
    BY <1>16, <2>1 DEF BusyCheck
  <2>2. CASE ~Mounted
    <3>1. GiveUpOn(c, dev)
      BY <1>16, <2>2 DEF BusyCheck
    <3>2. /\ UNCHANGED <<fat, table, devices, sdcard, was, excuse, mounts>>
          /\ g_sdmc1' = g_sdmc1
      BY <1>16 DEF BusyCheck
    <3> HIDE DEF GiveUpOn
    <3> QED
      BY <3>1, <3>2, GiveUpTypes
  <2> QED
    BY <2>1, <2>2
<1> QED
  BY <1>1, <1>2, <1>3, <1>4, <1>5, <1>6, <1>7, <1>8, <1>8a, <1>9, <1>10, <1>11, <1>12, <1>13,
     <1>14, <1>15, <1>16
  DEF StorageNext, MountStep

(* Every step keeps what is known of the host and of each caller.          *)
LEMMA MountStepInv == MountInv /\ [StorageNext]_storageVars => MountInv'
<1> SUFFICES ASSUME MountInv, [StorageNext]_storageVars PROVE MountInv'
  OBVIOUS
<1> DEFINE Kept == HostInv' /\ \A d \in Mounters : CallerInv(d)'
<1>0. StorageTypeOK'
  BY StorageTypeStep DEF MountInv
<1> SUFFICES Kept
  BY <1>0 DEF MountInv
<1> USE StorageAssumption
    DEF StorageAssumption, MountInv, StorageTypeOK, HostInv, CallerInv, NotedInv, AgainInv, SeenInv,
        TriedInv, AnswerInv, cardVars, Calling, SettingUp, ClearHost, MountPositions, MountAt, MountGoto, Return,
        Excuse, Mounted, Trying, GiveUpOn, OthersKept
<1>1. CASE UNCHANGED storageVars
  BY <1>1 DEF storageVars, callVars
<1>2. CASE Umount
  BY <1>2 DEF Umount
<1>3. ASSUME NEW c \in Mounters, MountBegin(c) PROVE Kept
  BY <1>3 DEF MountBegin
<1>4. ASSUME NEW c \in Mounters, AlreadyMounted(c) PROVE Kept
  <2>6. CallerInv(c)'
    <3>1. CASE Mounted
      <4>1. mpc'[c] = "idle" /\ answer'[c] = "ok" /\ mpc[c] = "ask"
        BY <1>4, <3>1 DEF AlreadyMounted
      <4> QED
        BY <1>4, <3>1, <4>1 DEF AlreadyMounted
    <3>2. CASE ~Mounted
      BY <1>4, <3>2 DEF AlreadyMounted
    <3> QED
      BY <3>1, <3>2
  <2>7. OthersKept(c)
    <3>1. CASE Mounted
      BY <1>4, <3>1 DEF AlreadyMounted
    <3>2. CASE ~Mounted
      BY <1>4, <3>2 DEF AlreadyMounted
    <3> QED
      BY <3>1, <3>2
  <2> QED
    <3> HIDE DEF MountInv, HostInv, CallerInv
    <3> QED
      BY <2>6, <2>7, OthersStay
<1>5. ASSUME NEW c \in Mounters, FindDevice(c) PROVE Kept
  BY <1>5 DEF FindDevice
<1>6. ASSUME NEW c \in Mounters, InitCheck(c) PROVE Kept
  BY <1>6 DEF InitCheck
<1>7. ASSUME NEW c \in Mounters, InitHost(c) PROVE Kept
  <2>1. HostInv'
    BY <1>7 DEF InitHost
  <2>0. \A d \in Mounters : NotedInv(d)'
    BY <1>7 DEF InitHost
  <2>2. \A d \in Mounters : AgainInv(d)'
    BY <1>7 DEF InitHost
  <2>3. \A d \in Mounters : SeenInv(d)'
    BY <1>7 DEF InitHost
  <2>4. \A d \in Mounters : TriedInv(d)'
    BY <1>7 DEF InitHost
  <2>5. \A d \in Mounters : AnswerInv(d)'
    BY <1>7 DEF InitHost
  <2> QED
    BY <2>0, <2>1, <2>2, <2>3, <2>4, <2>5
<1>8. ASSUME NEW c \in Mounters, SlotReady(c) PROVE Kept
  BY <1>8 DEF SlotReady
<1>8a. ASSUME NEW c \in Mounters, SlotBegin(c) PROVE Kept
  BY <1>8a DEF SlotBegin
<1>9. ASSUME NEW c \in Mounters, SlotFails(c) PROVE Kept
  BY <1>9 DEF SlotFails
<1>10. ASSUME NEW c \in Mounters, FindAgain(c) PROVE Kept
  <2>6. CallerInv(c)'
    <3>1. CASE Card \in devices
      BY <1>10, <3>1 DEF FindAgain
    <3>2. CASE Card \notin devices
      BY <1>10, <3>2 DEF FindAgain
    <3> QED
      BY <3>1, <3>2
  <2>7. OthersKept(c)
    BY <1>10 DEF FindAgain
  <2> QED
    <3> HIDE DEF MountInv, HostInv, CallerInv
    <3> QED
      BY <2>6, <2>7, OthersStay
<1>11. ASSUME NEW c \in Mounters, List(c) PROVE Kept
  <2>6. CallerInv(c)'
    <3> PICK listed \in SUBSET table :
          /\ devices' = devices \cup listed
          /\ left' = [left EXCEPT ![c] = listed]
          /\ Excuse(IF listed = table THEN {} ELSE {c})
          /\ IF listed # {} THEN MountGoto(c, "part") /\ UNCHANGED answer
             ELSE Return(c, IF c \in Lenient THEN "ok untried" ELSE "error")
      BY <1>11 DEF List
    <3>1. UNCHANGED <<fat, table, sdcard, was>> /\ mpc[c] = "scan"
      BY <1>11 DEF List
    <3>2. excuse'[c] <=> excuse[c] \/ listed # table
      OBVIOUS
    <3>3. left'[c] = listed
      OBVIOUS
    <3>4. CASE listed # {}
      <4>1. mpc'[c] = "part" /\ answer'[c] = answer[c]
        BY <3>4
      <4> QED
        BY <3>1, <3>2, <3>3, <4>1
    <3>5. CASE listed = {}
      <4>1. mpc'[c] = "idle" /\ answer'[c] \in {"ok untried", "error"}
        BY <3>5
      <4>2. excuse'[c] \/ fat = {}
        <5>1. CASE listed = table
          <6>1. fat \subseteq {Card} /\ (excuse[c] \/ Card \notin fat)
            BY <3>1, <3>5, <5>1
          <6> QED
            BY <3>2, <6>1
        <5>2. CASE listed # table
          BY <3>2, <5>2
        <5> QED
          BY <5>1, <5>2
      <4> QED
        BY <3>1, <4>1, <4>2
    <3> QED
      BY <3>4, <3>5
  <2>7. OthersKept(c)
    <3> PICK listed \in SUBSET table :
          /\ devices' = devices \cup listed
          /\ left' = [left EXCEPT ![c] = listed]
          /\ Excuse(IF listed = table THEN {} ELSE {c})
          /\ IF listed # {} THEN MountGoto(c, "part") /\ UNCHANGED answer
             ELSE Return(c, IF c \in Lenient THEN "ok untried" ELSE "error")
      BY <1>11 DEF List
    <3>1. \A d \in Mounters \ {c} :
            left'[d] = left[d] /\ mpc'[d] = mpc[d] /\ answer'[d] = answer[d]
      OBVIOUS
    <3>2. \A d \in Mounters \ {c} : excuse[d] => excuse'[d]
      OBVIOUS
    <3>3. /\ fat' = fat /\ table' = table /\ sdcard' = sdcard /\ was' = was
          /\ g_sdmc1' = g_sdmc1
          /\ devices \subseteq devices'
          /\ mpc[c] = "scan"
      BY <1>11 DEF List
    <3> QED
      BY <3>1, <3>2, <3>3
  <2> QED
    <3> HIDE DEF MountInv, HostInv, CallerInv
    <3> QED
      BY <2>6, <2>7, OthersStay
<1>12. ASSUME NEW c \in Mounters, ListFails(c) PROVE Kept
  <2>1. HostInv'
    BY <1>12 DEF ListFails
  <2>0. \A d \in Mounters : NotedInv(d)'
    BY <1>12 DEF ListFails
  <2>2. \A d \in Mounters : AgainInv(d)'
    BY <1>12 DEF ListFails
  <2>3. \A d \in Mounters : SeenInv(d)'
    BY <1>12 DEF ListFails
  <2>4. \A d \in Mounters : TriedInv(d)'
    BY <1>12 DEF ListFails
  <2>5. \A d \in Mounters : AnswerInv(d)'
    BY <1>12 DEF ListFails
  <2> QED
    BY <2>0, <2>1, <2>2, <2>3, <2>4, <2>5
<1>13. ASSUME NEW c \in Mounters, NEW dev \in Parts \cup {Card}, MountOk(c, dev)
       PROVE  Kept
  BY <1>13 DEF MountOk
<1>14. ASSUME NEW c \in Mounters, NEW dev \in Parts \cup {Card}, MountFails(c, dev)
       PROVE  Kept
  <2>1. UNCHANGED <<fat, table, sdcard, devices, was>>
    BY <1>14 DEF MountFails
  <2>2. excuse'[c] <=> excuse[c] \/ dev \in fat
    BY <1>14 DEF MountFails
  <2>6. CallerInv(c)'
    <3>1. CASE dev = Card
      <4>1. mpc'[c] = "scan" /\ answer'[c] = answer[c] /\ left'[c] = left[c]
        BY <1>14, <3>1 DEF MountFails
      <4> QED
        BY <1>14, <2>1, <2>2, <3>1, <4>1 DEF MountFails
    <3>2. CASE dev # Card
      <4>1. left'[c] = left[c] \ {dev} /\ mpc[c] = "part" /\ dev \in left[c]
        BY <1>14, <3>2 DEF MountFails
      <4>2. /\ excuse'[c] \/ fat \subseteq left'[c]
            /\ excuse'[c] \/ Card \notin fat
            /\ left'[c] \subseteq table'
        BY <2>1, <2>2, <4>1
      <4>3. CASE left[c] = {dev}
        <5>1. mpc'[c] = "idle" /\ answer'[c] = "error"
          BY <1>14, <3>2, <4>3 DEF MountFails
        <5>2. excuse'[c] \/ fat = {}
          BY <4>1, <4>2, <4>3
        <5> QED
          BY <2>1, <5>1, <5>2
      <4>4. CASE left[c] # {dev}
        <5>1. mpc'[c] = "part" /\ answer'[c] = answer[c]
          BY <1>14, <3>2, <4>4 DEF MountFails
        <5> QED
          BY <1>14, <2>1, <2>2, <4>1, <4>2, <5>1 DEF MountFails
      <4> QED
        BY <4>3, <4>4
    <3> QED
      BY <3>1, <3>2
  <2>7. OthersKept(c)
    BY <1>14 DEF MountFails
  <2> QED
    <3> HIDE DEF MountInv, HostInv, CallerInv
    <3> QED
      BY <2>6, <2>7, OthersStay
<1>15. ASSUME NEW c \in Mounters, NEW dev \in Parts \cup {Card}, MountBusy(c, dev)
       PROVE  Kept
  BY <1>15 DEF MountBusy
<1>16. ASSUME NEW c \in Mounters, NEW dev \in Parts \cup {Card}, BusyCheck(c, dev)
       PROVE  Kept
  <2>1. /\ UNCHANGED <<fat, table, sdcard, devices, was, excuse>>
        /\ mpc[c] \in {"busy", "busy part"}
    BY <1>16 DEF BusyCheck
  <2>6. CallerInv(c)'
    <3>1. CASE Mounted
      <4>1. mpc'[c] = "idle" /\ answer'[c] = "ok"
        BY <1>16, <3>1 DEF BusyCheck
      <4> QED
        BY <2>1, <3>1, <4>1
    <3>2. CASE ~Mounted
      <4>1. excuse[c]
        BY <2>1, <3>2
      <4>2. CASE dev = Card
        <5>1. mpc'[c] = "scan" /\ answer'[c] = answer[c] /\ left'[c] = left[c]
          BY <1>16, <3>2, <4>2 DEF BusyCheck
        <5> QED
          BY <2>1, <3>2, <4>1, <5>1
      <4>3. CASE dev # Card
        <5>1. /\ mpc[c] = "busy part" /\ left'[c] = left[c] \ {dev}
              /\ \/ mpc'[c] = "idle" /\ answer'[c] = "error"
                 \/ mpc'[c] = "part" /\ answer'[c] = answer[c]
          BY <1>16, <3>2, <4>3 DEF BusyCheck
        <5> QED
          BY <2>1, <3>2, <4>1, <5>1
      <4> QED
        BY <4>2, <4>3
    <3> QED
      BY <3>1, <3>2
  <2>7. OthersKept(c)
    BY <1>16 DEF BusyCheck
  <2> QED
    <3> HIDE DEF MountInv, HostInv, CallerInv
    <3> QED
      BY <2>6, <2>7, OthersStay
<1> QED
  BY <1>1, <1>2, <1>3, <1>4, <1>5, <1>6, <1>7, <1>8, <1>8a, <1>9, <1>10, <1>11, <1>12, <1>13,
     <1>14, <1>15, <1>16
  DEF StorageNext, MountStep

(* OK means that the card was mounted during the call; a failure on a card *)
(* with a file system, that the call was told of an error or met the       *)
(* set-up of the slot or an umount; and NULL is passed on as the host only *)
(* by a call that met another's failed set-up or an umount                 *)
(* (d13x_sdmc1_initialize, d13x_sdmc1_mount, recorder_mount_sd, tf_test's  *)
(* mount).                                                                 *)
THEOREM MountsAnswerTruly == StorageSpec => []MountAnswers
<1>1. MountInv => MountAnswers
  BY DEF MountInv, CallerInv, NotedInv, AnswerInv, MountAnswers
<1> QED
  BY <1>1, MountInit, MountStepInv, PTL DEF StorageSpec
-----------------------------------------------------------------------------

(* The positions of an enumeration after it has forgotten everything.      *)
Underway == {"cmd0", "cmd5", "cmd3", "cmd7", "note"}

(* Without an overlap one client at most is enumerating, and its position  *)
(* tells what is remembered and where the module is.                       *)
AloneInv ==
  \A c, d \in Clients : spc[c] \in Underway /\ spc[d] \in Underway => c = d

PositionInv ==
  \A c \in Clients :
    /\ spc[c] \in Underway => ~wifi_selected
    /\ spc[c] \in {"cmd0", "cmd5"} => ~wifi_ready
    /\ spc[c] \in {"cmd3", "cmd7", "note"} => wifi_funcs /\ wifi_ready
    /\ spc[c] = "cmd3" => module = "ready"
    /\ spc[c] = "cmd7" => module = "standby"
    /\ spc[c] = "note" => module = "selected"

CacheInv ==
  /\ Sdmc0TypeOK
  /\ ~overlapped => AloneInv /\ PositionInv
  /\ CacheAgrees
-----------------------------------------------------------------------------
(* Initially nothing is remembered and nobody enumerates.                  *)
LEMMA CacheInit == Sdmc0Init => CacheInv
<1> SUFFICES ASSUME Sdmc0Init PROVE CacheInv
  OBVIOUS
<1>1. Sdmc0TypeOK
  <2>1. /\ wifi_ready \in BOOLEAN /\ wifi_selected \in BOOLEAN
        /\ wifi_funcs \in BOOLEAN /\ overlapped \in BOOLEAN
    BY DEF Sdmc0Init
  <2>2. polls \in [Clients -> 0 .. MaxReady]
    BY Sdmc0Assumption DEF Sdmc0Assumption, Sdmc0Init
  <2> QED
    BY <2>1, <2>2 DEF Sdmc0Init, Sdmc0TypeOK
<1>2. AloneInv /\ PositionInv /\ CacheAgrees
  BY DEF Sdmc0Init, AloneInv, PositionInv, CacheAgrees, Underway
<1> QED
  BY <1>1, <1>2 DEF CacheInv

(* Every step of the driver and of the power command keeps the invariant.  *)
LEMMA CacheStep == CacheInv /\ [Sdmc0Next]_sdmc0Vars => CacheInv'
<1> SUFFICES ASSUME CacheInv, [Sdmc0Next]_sdmc0Vars PROVE CacheInv'
  OBVIOUS
<1> USE Sdmc0Assumption
    DEF Sdmc0Assumption, CacheInv, Sdmc0TypeOK, AloneInv, PositionInv, CacheAgrees, Underway,
        cacheVars, Enumerating, SdmcGoto, ForgetAll
<1>1. CASE UNCHANGED sdmc0Vars
  BY <1>1 DEF sdmc0Vars
<1>2. CASE PowerOn
  BY <1>2 DEF PowerOn
<1>3. CASE PowerOff
  BY <1>3 DEF PowerOff
<1>4. ASSUME NEW c \in Clients, EnsureReady(c) PROVE CacheInv'
  BY <1>4 DEF EnsureReady
<1>5. ASSUME NEW c \in Clients, ProbeReset(c) PROVE CacheInv'
  <2>0. ~wifi_ready' /\ ~wifi_selected' /\ ~wifi_funcs'
    BY <1>5 DEF ProbeReset
  <2>1. Sdmc0TypeOK' /\ CacheAgrees'
    <3>1. overlapped' \in BOOLEAN
      BY <1>5 DEF ProbeReset
    <3>2. /\ wifi_ready' \in BOOLEAN /\ wifi_selected' \in BOOLEAN
          /\ wifi_funcs' \in BOOLEAN
      BY <1>5 DEF ProbeReset
    <3>3. polls' \in [Clients -> 0 .. MaxReady] /\ module' = module
      BY <1>5 DEF ProbeReset
    <3>4. spc' \in [Clients -> {"idle", "reset", "cmd0", "cmd5", "cmd3", "cmd7", "note",
                                "access"}]
      BY <1>5 DEF ProbeReset
    <3> QED
      BY <2>0, <3>1, <3>2, <3>3, <3>4
  <2>2. ASSUME ~overlapped' PROVE AloneInv' /\ PositionInv'
    <3>1. \A d \in Clients \ {c} : spc[d] \in {"idle", "access"}
      BY <1>5, <2>2 DEF ProbeReset
    <3> QED
      BY <1>5, <2>0, <3>1 DEF ProbeReset
  <2> QED
    BY <2>1, <2>2
<1>6. ASSUME NEW c \in Clients, GoIdle(c) PROVE CacheInv'
  BY <1>6 DEF GoIdle
<1>7. ASSUME NEW c \in Clients, Inquire(c) PROVE CacheInv'
  <2>1. Sdmc0TypeOK'
    <3>1. PICK functions \in BOOLEAN, ready \in BOOLEAN :
            /\ wifi_funcs' = functions
            /\ wifi_ready' = (wifi_ready \/ (functions /\ ready))
            /\ module' = IF functions /\ ready THEN "ready" ELSE module
      BY <1>7 DEF Inquire
    <3>2. polls' \in [Clients -> 0 .. MaxReady]
      BY <1>7 DEF Inquire
    <3>3. spc' \in [Clients -> {"idle", "reset", "cmd0", "cmd5", "cmd3", "cmd7", "note",
                                "access"}]
      BY <1>7 DEF Inquire
    <3>4. wifi_ready' \in BOOLEAN /\ wifi_funcs' \in BOOLEAN
      BY <3>1
    <3>5. UNCHANGED <<wifi_selected, overlapped>>
      BY <1>7 DEF Inquire
    <3>6. module' \in {"off", "idle", "ready", "standby", "selected"}
      BY <3>1
    <3> QED
      BY <3>2, <3>3, <3>4, <3>5, <3>6
  <2>2. CacheAgrees'
    BY <1>7 DEF Inquire
  <2>3. ~overlapped' => AloneInv'
    BY <1>7 DEF Inquire
  <2>4. ~overlapped' => PositionInv'
    BY <1>7 DEF Inquire
  <2> QED
    BY <2>1, <2>2, <2>3, <2>4
<1>8. ASSUME NEW c \in Clients, PublishAddress(c) PROVE CacheInv'
  BY <1>8 DEF PublishAddress
<1>9. ASSUME NEW c \in Clients, Select(c) PROVE CacheInv'
  BY <1>9 DEF Select
<1>10. ASSUME NEW c \in Clients, NoteSelected(c) PROVE CacheInv'
  BY <1>10 DEF NoteSelected
<1>11. ASSUME NEW c \in Clients, CommandFails(c) PROVE CacheInv'
  BY <1>11 DEF CommandFails
<1>12. ASSUME NEW c \in Clients, Access(c) PROVE CacheInv'
  BY <1>12 DEF Access
<1> QED
  BY <1>1, <1>2, <1>3, <1>4, <1>5, <1>6, <1>7, <1>8, <1>9, <1>10, <1>11, <1>12
  DEF Sdmc0Next, Sdmc0Step

(* The driver takes the module for enumerated only while it has power and  *)
(* is selected, whichever enumeration failed where, unless a reset fell    *)
(* into another client's enumeration (ensure_ready, probe, power).         *)
THEOREM CacheIsTrue == Sdmc0Spec => []CacheAgrees
<1>1. CacheInv => CacheAgrees
  BY DEF CacheInv
<1> QED
  BY <1>1, CacheInit, CacheStep, PTL DEF Sdmc0Spec
=============================================================================
