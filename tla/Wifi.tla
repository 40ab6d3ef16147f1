-------------------------------- MODULE Wifi --------------------------------
(***************************************************************************)
(* The AIC8800D80 Wi-Fi driver, app/wifi_test/wifi_test_main.c.            *)
(*                                                                         *)
(*   - one shell, which gives commands and interface ioctls one after the  *)
(*     other: connect, scan, ifup and ifdown;                              *)
(*   - the network stack (external), which polls the device for packets;   *)
(*   - the receive threads wifi_test_rx_thread_start creates;              *)
(*   - the firmware (external), which answers requests in order, at any    *)
(*     time, and puts one or more messages into a packet.                  *)
(*                                                                         *)
(* sdio is g_wifi_test_sdio_lock, net the stack's net_lock. A read, a      *)
(* write or a poll under the SDIO lock that nobody else can interleave     *)
(* with is one step.                                                       *)
(***************************************************************************)
EXTENDS Integers, FiniteSets, SequencesExt

CONSTANTS
  MaxThreads,     (* bound on the receive threads at one time              *)
  MaxDrain,       (* packets wifi_test_msg_drain_late reads at most        *)
  MaxUnexpected,  (* packets wifi_test_send_msg skips at most              *)
  Cap,            (* messages the firmware's FIFO holds                    *)
  MaxTodo,        (* requests flow control lets the firmware queue         *)
  Frames          (* the data frames the access point sends                *)

ASSUME WifiAssumption ==
  /\ {MaxThreads, MaxDrain, Cap, MaxTodo} \subseteq Nat \ {0}
  /\ MaxUnexpected \in Nat

Threads == 1 .. MaxThreads
Requests == {"fw", "up", "addif", "conn", "scan"}
Ages == {"new", "late", "left"}
None == "none"
Out == "out"     (* a packet of the stack's in d_buf                       *)

ASSUME FramesAssumption == None \notin Frames /\ Out \notin Frames

(* A confirmation carries the age of its request as seen by the exchange   *)
(* in progress (a history variable): "new" is its own, a "late" one was    *)
(* still to be answered and a "left" one lay in the FIFO when it began.    *)
Confirmations == [type : {"cfm"}, req : Requests, age : Ages]
Indications == [type : {"ind"}, ok : BOOLEAN]
DataFrames == [type : {"data"}, frame : Frames]
Messages == Confirmations \cup Indications \cup DataFrames

VARIABLES
  fw_loaded, brought_up, vif_added,  (* cached progress of the bring-up    *)
  connected, carrier, ifup,
  rx_stop, rx_running,
  sdio, net,      (* the owners of the two locks                           *)
  cpc, creq, cnt, (* the shell: position, request, packets of this loop    *)
  result,         (* of the last connect                                   *)
  tpc,            (* the stack's poll                                      *)
  rpc, off,       (* each thread: position, message of rxbuf it is at      *)
  rxbuf,          (* g_wifi_test_rxthread_buf: the frame of each message,  *)
                  (* None if it is not data                                *)
  d_buf,          (* the packet in the device's buffer, None if d_len is 0 *)
  todo, fifo,     (* the firmware: requests to answer, packets to be read  *)
  joining, assoc, (* it will report a connection; it is associated         *)
  took, cut,      (* history: age of the confirmation accepted last; its   *)
                  (* drain ended at the limit or on an error               *)
  got, polled     (* history: the frame a thread is feeding; a poll used   *)
                  (* d_buf meanwhile                                       *)

flagVars == <<fw_loaded, brought_up, vif_added, connected, carrier, ifup>>
pumpVars == <<rx_stop, rx_running, rpc, off, rxbuf>>
lockVars == <<sdio, net>>
cmdVars  == <<cpc, creq, cnt, result, took, cut>>
bufVars  == <<d_buf, got, polled>>
chipVars == <<todo, fifo, joining, assoc>>
vars == <<flagVars, pumpVars, lockVars, cmdVars, tpc, bufVars, chipVars>>

Init ==
  /\ fw_loaded = FALSE /\ brought_up = FALSE /\ vif_added = FALSE
  /\ connected = FALSE /\ carrier = FALSE /\ ifup = FALSE
  /\ rx_stop = FALSE /\ rx_running = FALSE
  /\ rpc = [t \in Threads |-> None] /\ off = [t \in Threads |-> 1]
  /\ rxbuf = <<>>
  /\ sdio = None /\ net = None
  /\ cpc = "idle" /\ creq = None /\ cnt = 0 /\ result = "ok"
  /\ took = None /\ cut = FALSE
  /\ tpc = "idle"
  /\ d_buf = None /\ got = [t \in Threads |-> None] /\ polled = FALSE
  /\ todo = <<>> /\ fifo = <<>> /\ joining = FALSE /\ assoc = FALSE

Live == {t \in Threads : rpc[t] # None}
-----------------------------------------------------------------------------
(* One request and its confirmation, wifi_test_send_msg.                   *)

Aged(m, age) == IF m.type = "cfm" THEN [m EXCEPT !.age = age] ELSE m

Forget == took' = None /\ cut' = FALSE

(* The exchange begins at position pc with everything else out of date.    *)
BeginAt(pc, request) ==
  /\ cpc' = pc /\ creq' = request /\ cnt' = 0
  /\ Forget
  /\ todo' = [i \in DOMAIN todo |-> [todo[i] EXCEPT !.age = "late"]]
  /\ fifo' = [i \in DOMAIN fifo |->
                [j \in DOMAIN fifo[i] |-> Aged(fifo[i][j], "left")]]

(* It begins with wifi_test_msg_drain_late.                                *)
Begin(request) == BeginAt("drain", request)

(* The command ends; only a connect leaves a result behind.                *)
Finish(outcome) ==
  /\ cpc' = "idle" /\ creq' = None /\ cnt' = 0
  /\ result' = IF creq = "scan" THEN result ELSE outcome

(* msg_drain_late, called before a request and after a timeout.            *)
Draining == cpc \in {"drain", "flush"}

DrainOne ==
  /\ Draining /\ sdio = None /\ fifo # <<>> /\ cnt < MaxDrain
  /\ fifo' = Tail(fifo) /\ cnt' = cnt + 1
  /\ UNCHANGED <<flagVars, pumpVars, lockVars, cpc, creq, result, took, cut,
                 tpc, bufVars, todo, joining, assoc>>

(* It ends on an empty FIFO, at its limit or when a packet cannot be read. *)
DrainEnd ==
  /\ Draining /\ (sdio = None \/ cnt = MaxDrain)
  /\ IF cpc = "drain"
       THEN /\ cpc' = "send" /\ cnt' = 0
            /\ cut' = (fifo # <<>> \/ cnt = MaxDrain)
            /\ UNCHANGED <<creq, result>>
       ELSE Finish("failed") /\ UNCHANGED cut
  /\ UNCHANGED <<flagVars, pumpVars, lockVars, took, tpc, bufVars, chipVars>>

(* Flow control lets the request through and it is written. The lock is    *)
(* kept until the confirmation is there.                                   *)
Write(owner) ==
  /\ cpc = "send" /\ sdio = None /\ Len(todo) < MaxTodo
  /\ todo' = Append(todo, [type |-> "cfm", req |-> creq, age |-> "new"])
  /\ sdio' = owner
  /\ cpc' = "wait"
  /\ UNCHANGED <<flagVars, pumpVars, net, creq, cnt, result, took, cut,
                 tpc, bufVars, fifo, joining, assoc>>

SendUnlocked == Write(None)
Send == Write("cmd")

(* flow_ctrl_msg times out or the write fails.                             *)
SendFails ==
  /\ cpc = "send" /\ sdio = None
  /\ Finish("failed")
  /\ UNCHANGED <<flagVars, pumpVars, lockVars, took, cut, tpc, bufVars,
                 chipVars>>

IsCfm(m) == m.type = "cfm" /\ m.req = creq

(* wait_rx: the packet read holds the confirmation. Its status may say no; *)
(* what follows it in the packet is not looked at.                         *)
CfmArrives ==
  /\ cpc = "wait" /\ fifo # <<>>
  /\ LET p == Head(fifo)
         at == SelectInSeq(p, IsCfm)
     IN /\ at # 0
        /\ took' = p[at].age
  /\ fifo' = Tail(fifo)
  /\ sdio' = None
  /\ \/ cpc' = "next" /\ UNCHANGED <<creq, cnt, result>>
     \/ Finish("failed")
  /\ UNCHANGED <<flagVars, pumpVars, net, cut, tpc, bufVars, todo, joining,
                 assoc>>

Skip(more) ==
  /\ cpc = "wait" /\ fifo # <<>> /\ SelectInSeq(Head(fifo), IsCfm) = 0
  /\ fifo' = Tail(fifo)
  /\ IF more
       THEN cnt' = cnt + 1 /\ UNCHANGED <<cpc, creq, result, sdio>>
       ELSE Finish("failed") /\ sdio' = None
  /\ UNCHANGED <<flagVars, pumpVars, net, took, cut, tpc, bufVars,
                 todo, joining, assoc>>

UnexpectedEver == Skip(TRUE)

(* It does not: the packet is skipped, a few times.                        *)
Unexpected == Skip(cnt < MaxUnexpected)

(* No packet within the polls, or reading one fails: only the first drains *)
(* what comes late.                                                        *)
WaitEnds ==
  /\ cpc = "wait"
  /\ sdio' = None
  /\ \/ /\ fifo = <<>>
        /\ cpc' = "flush" /\ cnt' = 0 /\ UNCHANGED <<creq, result>>
     \/ fifo # <<>> /\ Finish("failed")
  /\ UNCHANGED <<flagVars, pumpVars, net, took, cut, tpc, bufVars,
                 chipVars>>
-----------------------------------------------------------------------------
(* connect_open and auto_init. One request stands for the upload of the    *)
(* firmware and one for the checkpoints of bringup; netreg cannot fail.    *)

(* The rest of connect_open once the firmware runs.                        *)
Join ==
  IF connected
    THEN /\ carrier' = TRUE /\ cpc' = "pump" /\ creq' = None /\ cnt' = 0
         /\ Forget
         /\ UNCHANGED <<todo, fifo>>
    ELSE /\ Begin(IF vif_added THEN "conn" ELSE "addif")
         /\ UNCHANGED carrier

(* The shell's user gives the next command when what the last one started  *)
(* or stopped has had time to run.                                         *)
Settled == \A t \in Live : rpc[t] # "new" /\ ~rx_stop

Connect ==
  /\ cpc = "idle" /\ Settled
  /\ IF ~fw_loaded THEN Begin("fw") /\ UNCHANGED carrier
     ELSE IF ~brought_up THEN Begin("up") /\ UNCHANGED carrier
     ELSE Join
  /\ UNCHANGED <<fw_loaded, brought_up, vif_added, connected, ifup, pumpVars,
                 lockVars, result, tpc, bufVars, joining, assoc>>

(* A confirmed request is followed by the next one.                        *)
Proceed ==
  /\ cpc = "next"
  /\ \/ /\ creq = "fw"
        /\ fw_loaded' = TRUE
        /\ IF brought_up THEN Join ELSE Begin("up") /\ UNCHANGED carrier
        /\ UNCHANGED <<brought_up, vif_added, result>>
     \/ /\ creq = "up"
        /\ brought_up' = TRUE /\ Join
        /\ UNCHANGED <<fw_loaded, vif_added, result>>
     \/ /\ creq = "addif"
        /\ vif_added' = TRUE /\ Begin("conn")
        /\ UNCHANGED <<fw_loaded, brought_up, carrier, result>>
     \/ /\ creq = "conn"
        /\ cpc' = "ind"
        /\ Forget
        /\ UNCHANGED <<fw_loaded, brought_up, vif_added, carrier, creq, cnt, result,
                       todo, fifo>>
     \/ /\ creq = "scan"
        /\ Finish("ok") /\ Forget
        /\ UNCHANGED <<fw_loaded, brought_up, vif_added, carrier, todo, fifo>>
  /\ UNCHANGED <<connected, ifup, pumpVars, lockVars, tpc, bufVars, joining, assoc>>

(* scan, which only asks that the firmware runs.                           *)
Scan ==
  /\ cpc = "idle" /\ brought_up
  /\ Begin("scan")
  /\ UNCHANGED <<flagVars, pumpVars, lockVars, result, tpc, bufVars, joining,
                 assoc>>

Decides(m) == m.type \in {"ind", "data"}

(* wait_connect_ind: the first indication or data frame of a packet        *)
(* decides; a data frame (one that can be converted) means yes.            *)
IndRead ==
  /\ cpc = "ind" /\ sdio = None /\ fifo # <<>>
  /\ LET p == Head(fifo)
         at == SelectInSeq(p, Decides)
     IN IF at = 0
          THEN UNCHANGED <<cpc, creq, cnt, result, connected>>
          ELSE IF p[at].type = "ind" /\ ~p[at].ok
            THEN Finish("failed") /\ UNCHANGED connected
            ELSE /\ connected' = TRUE /\ cpc' = "joined"
                 /\ UNCHANGED <<creq, cnt, result>>
  /\ fifo' = Tail(fifo)
  /\ UNCHANGED <<fw_loaded, brought_up, vif_added, carrier, ifup, pumpVars,
                 lockVars, took, cut, tpc, bufVars, todo, joining, assoc>>

(* It gives up after its polls or on a failed read.                        *)
IndGivesUp ==
  /\ cpc = "ind" /\ sdio = None
  /\ Finish("failed")
  /\ UNCHANGED <<flagVars, pumpVars, lockVars, took, cut, tpc, bufVars,
                 chipVars>>

Joined ==
  /\ cpc = "joined"
  /\ ifup' = TRUE /\ carrier' = TRUE /\ cpc' = "pump"
  /\ UNCHANGED <<fw_loaded, brought_up, vif_added, connected, pumpVars,
                 lockVars,
                 creq, cnt, result, took, cut, tpc, bufVars, chipVars>>
-----------------------------------------------------------------------------
(* The receive thread's start and stop, ifup and ifdown.                   *)

Slots == {t \in Threads : rpc[t] = None}

Create ==
  /\ Slots # {}
  /\ LET t == CHOOSE u \in Slots : \A v \in Slots : u <= v
     IN rpc' = [rpc EXCEPT ![t] = "new"]
  /\ Finish("ok")

(* rx_thread_start; kthread_create may fail.                               *)
StartIf(needed, stop) ==
  /\ cpc = "pump"
  /\ IF needed
       THEN /\ rx_stop' = stop
            /\ Create \/ (Finish("failed") /\ UNCHANGED rpc)
       ELSE Finish("ok") /\ UNCHANGED <<rx_stop, rpc>>
  /\ UNCHANGED <<flagVars, rx_running, off, rxbuf, lockVars, took, cut,
                 tpc, bufVars, chipVars>>

StartAlways == StartIf(TRUE, FALSE)
StartStopped == StartIf(~rx_running, rx_stop)
rx_thread_start == StartIf(~rx_running, FALSE)

Ifup ==
  /\ cpc = "idle" /\ net = None /\ brought_up
  /\ ifup' = TRUE
  /\ carrier' = (carrier \/ connected)
  /\ UNCHANGED <<fw_loaded, brought_up, vif_added, connected, pumpVars,
                 lockVars,
                 cmdVars, tpc, bufVars, chipVars>>

(* ifdown stops the thread, with the network locked by its caller.         *)
Ifdown ==
  /\ cpc = "idle" /\ net = None /\ ifup
  /\ net' = "cmd"
  /\ rx_stop' = TRUE
  /\ cpc' = IF rx_running THEN "stop" ELSE "down"
  /\ UNCHANGED <<flagVars, rx_running, rpc, off, rxbuf, sdio, creq, cnt,
                 result,
                 took, cut, tpc, bufVars, chipVars>>

StopIf(over) ==
  /\ cpc = "stop" /\ over
  /\ cpc' = "down"
  /\ UNCHANGED <<flagVars, pumpVars, lockVars, creq, cnt, result, took, cut,
                 tpc,
                 bufVars, chipVars>>

StopPatient == StopIf(~rx_running)

(* rx_thread_stop gives up after a second, longer than anything a thread   *)
(* waits for but the network lock.                                         *)
StopWait == StopIf(~rx_running \/ \E t \in Live : rpc[t] = "net")

Down ==
  /\ cpc = "down"
  /\ ifup' = FALSE /\ connected' = FALSE /\ carrier' = FALSE
  /\ net' = None /\ cpc' = "idle"
  /\ UNCHANGED <<fw_loaded, brought_up, vif_added, pumpVars, sdio, creq, cnt,
                 result, took, cut, tpc, bufVars, chipVars>>
-----------------------------------------------------------------------------
(* The receive thread. rx_running is one flag whoever runs.                *)

RxBegin(t) ==
  /\ rpc[t] = "new"
  /\ rx_running' = TRUE
  /\ rpc' = [rpc EXCEPT ![t] = "loop"]
  /\ UNCHANGED <<flagVars, rx_stop, off, rxbuf, lockVars, cmdVars, tpc,
                 bufVars, chipVars>>

(* The head of the loop: end, go to the SDIO lock, or sleep and look again *)
(* while there is no connection.                                           *)
RxLoop(t, stop) ==
  /\ rpc[t] = "loop"
  /\ \/ stop /\ rx_running' = FALSE /\ rpc' = [rpc EXCEPT ![t] = None]
     \/ /\ ~stop /\ connected
        /\ rpc' = [rpc EXCEPT ![t] = "lock"] /\ UNCHANGED rx_running
  /\ UNCHANGED <<flagVars, rx_stop, off, rxbuf, lockVars, cmdVars, tpc,
                 bufVars, chipVars>>

RxCheckAsleep(t) == RxLoop(t, rx_stop /\ connected)
RxCheck(t) == RxLoop(t, rx_stop)

FrameOf(m) == IF m.type = "data" THEN m.frame ELSE None

(* msg_recv_locked: no packet, or a read error, or a packet. The lock is   *)
(* given back before the packet is fed.                                    *)
RxRecv(t) ==
  /\ rpc[t] = "lock" /\ sdio = None
  /\ \/ /\ rpc' = [rpc EXCEPT ![t] = "loop"]
        /\ rxbuf' = <<>>
        /\ UNCHANGED fifo
     \/ /\ fifo # <<>>
        /\ rxbuf' = [i \in DOMAIN Head(fifo) |-> FrameOf(Head(fifo)[i])]
        /\ fifo' = Tail(fifo)
        /\ rpc' = [rpc EXCEPT ![t] = "feed"]
  /\ UNCHANGED <<off, flagVars, rx_stop, rx_running, lockVars, cmdVars, tpc,
                 bufVars, todo,
                 joining, assoc>>

(* feed_rx_packet, feed_rx_msg: a data frame is converted into d_buf       *)
(* before the network is locked.                                           *)
RxFeed(t) ==
  /\ rpc[t] = "feed"
  /\ IF off[t] > Len(rxbuf)
       THEN /\ rpc' = [rpc EXCEPT ![t] = "loop"] /\ off' = [off EXCEPT ![t] = 1]
            /\ UNCHANGED bufVars
     ELSE IF rxbuf[off[t]] = None \/ ~connected
       THEN off' = [off EXCEPT ![t] = @ + 1] /\ UNCHANGED <<rpc, bufVars>>
     ELSE /\ d_buf' = rxbuf[off[t]]
          /\ got' = [got EXCEPT ![t] = d_buf'] /\ polled' = FALSE
          /\ rpc' = [rpc EXCEPT ![t] = "net"]
          /\ UNCHANGED off
  /\ UNCHANGED <<flagVars, rx_stop, rx_running, rxbuf, lockVars, cmdVars, tpc,
                 chipVars>>

NextMsg(t) ==
  /\ rpc' = [rpc EXCEPT ![t] = "feed"]
  /\ off' = [off EXCEPT ![t] = @ + 1]
  /\ d_buf' = None
  /\ got' = [got EXCEPT ![t] = None] /\ polled' = FALSE

(* pkt_input, ipv4_input or arp_input, which may leave a reply in d_buf.   *)
RxInput(t) ==
  /\ rpc[t] = "net" /\ net = None
  /\ \/ NextMsg(t) /\ UNCHANGED net
     \/ /\ rpc' = [rpc EXCEPT ![t] = "reply"]
        /\ d_buf' = Out /\ got' = [got EXCEPT ![t] = None]
        /\ polled' = FALSE
        /\ net' = "rx"
        /\ UNCHANGED off
  /\ UNCHANGED <<flagVars, rx_stop, rx_running, rxbuf, sdio, cmdVars, tpc,
                 chipVars>>

(* net_reply with send_eth_frame, whether it gets through or not.          *)
RxReply(t) ==
  /\ rpc[t] = "reply" /\ sdio = None
  /\ NextMsg(t)
  /\ net' = None
  /\ UNCHANGED <<flagVars, rx_stop, rx_running, rxbuf, sdio, cmdVars, tpc,
                 chipVars>>
-----------------------------------------------------------------------------
(* The stack sends: txavail, devif_poll, txpoll.                           *)

Meanwhile == polled \/ \E t \in Live : rpc[t] = "net"

(* The stack builds a packet in d_buf; it is dropped when there is no      *)
(* connection and copied to wait for the SDIO lock otherwise.              *)
TxBegin ==
  /\ tpc = "idle" /\ net = None /\ ifup
  /\ d_buf' = IF connected THEN Out ELSE None
  /\ polled' = Meanwhile
  /\ IF connected
       THEN tpc' = "send" /\ net' = "tx"
       ELSE UNCHANGED <<tpc, net>>
  /\ UNCHANGED <<flagVars, pumpVars, sdio, cmdVars, got, chipVars>>

TxEnd ==
  /\ tpc = "send" /\ sdio = None
  /\ d_buf' = None
  /\ polled' = Meanwhile
  /\ tpc' = "idle" /\ net' = None
  /\ UNCHANGED <<flagVars, pumpVars, sdio, cmdVars, got, chipVars>>
-----------------------------------------------------------------------------
(* The firmware and the access point.                                      *)

(* The messages of packets, each by its place.                             *)
Held(packets) == UNION {{i} \X DOMAIN packets[i] : i \in DOMAIN packets}

(* A message starts a packet or joins the last one.                        *)
Put(m) ==
  /\ Cardinality(Held(fifo)) < Cap
  /\ \/ fifo' = Append(fifo, <<m>>)
     \/ fifo # <<>> /\ fifo' = [fifo EXCEPT ![Len(fifo)] = Append(@, m)]

(* It confirms a request; a connect may then lead to an indication.        *)
FwConfirm ==
  /\ todo # <<>>
  /\ Put(Head(todo))
  /\ todo' = Tail(todo)
  /\ IF Head(todo).req = "conn"
       THEN joining' \in BOOLEAN /\ assoc' = FALSE
       ELSE UNCHANGED <<joining, assoc>>
  /\ UNCHANGED <<flagVars, pumpVars, lockVars, cmdVars, tpc, bufVars>>

FwIndicate ==
  /\ joining
  /\ \E ok \in BOOLEAN : Put([type |-> "ind", ok |-> ok]) /\ assoc' = ok
  /\ joining' = FALSE
  /\ UNCHANGED <<flagVars, pumpVars, lockVars, cmdVars, tpc, bufVars, todo>>

FwData ==
  /\ assoc
  /\ \E k \in Frames : Put([type |-> "data", frame |-> k])
  /\ UNCHANGED <<flagVars, pumpVars, lockVars, cmdVars, tpc, bufVars, todo,
                 joining, assoc>>
-----------------------------------------------------------------------------
CmdStep ==
  \/ DrainOne \/ DrainEnd \/ Send \/ SendFails \/ CfmArrives \/ Unexpected
  \/ WaitEnds \/ Proceed \/ IndRead \/ IndGivesUp \/ Joined \/ rx_thread_start
  \/ StopWait \/ Down

RxStep(t) ==
  \/ RxBegin(t) \/ RxCheck(t) \/ RxRecv(t)
  \/ RxFeed(t) \/ RxInput(t) \/ RxReply(t)

Next ==
  \/ Connect \/ Scan \/ Ifup \/ Ifdown \/ CmdStep
  \/ \E t \in Threads : RxStep(t)
  \/ TxBegin \/ TxEnd
  \/ FwConfirm \/ FwIndicate \/ FwData

Spec == Init /\ [][Next]_vars

(* Threads that run go on, and a mutex, which passes to a waiter when it   *)
(* is released, is obtained in the end. The firmware, the access point,    *)
(* the user and the stack's traffic are not fair.                          *)
Fairness ==
  /\ SF_vars(CmdStep)
  /\ SF_vars(\E t \in Threads : RxStep(t))
  /\ SF_vars(TxEnd)

FairSpec == Spec /\ Fairness
-----------------------------------------------------------------------------
(* Type correctness.                                                       *)
TypeOK ==
  /\ {fw_loaded, brought_up, vif_added, connected, carrier, ifup} \subseteq BOOLEAN
  /\ {rx_stop, rx_running, cut, polled, joining, assoc} \subseteq BOOLEAN
  /\ sdio \in {None, "cmd"} /\ net \in {None, "cmd", "tx", "rx"}
  /\ cpc \in {"idle", "drain", "send", "wait", "flush", "next", "ind", "joined",
              "pump", "stop", "down"}
  /\ creq \in Requests \cup {None} /\ result \in {"ok", "failed"}
  /\ cnt \in 0 .. MaxDrain \cup 0 .. MaxUnexpected
  /\ tpc \in {"idle", "send"} /\ took \in Ages \cup {None}
  /\ rpc \in [Threads -> {None, "new", "loop", "lock", "feed", "net", "reply"}]
  /\ off \in [Threads -> 1 .. Cap + 1]
  /\ got \in [Threads -> Frames \cup {None}] /\ d_buf \in Frames \cup {None, Out}
  /\ rxbuf \in Seq(Frames \cup {None}) /\ Len(rxbuf) <= Cap
  /\ todo \in Seq(Confirmations) /\ Len(todo) <= MaxTodo
  /\ fifo \in Seq(Seq(Messages) \ {<<>>}) /\ Cardinality(Held(fifo)) <= Cap

(* Between commands the carrier tells whether there is a connection, and   *)
(* behind a connection the last connect reported as made there is a        *)
(* receive thread that has not been told to stop, over any sequence of     *)
(* connects, failures and ifdowns that gave up waiting (connect_open,      *)
(* net_ifdown, rx_thread_start, rx_thread_stop).                           *)
LinkAgrees ==
  cpc = "idle" =>
    /\ carrier = connected
    /\ connected /\ result = "ok" => Live # {} /\ ~rx_stop

(* The frame the thread hands to the stack is the one it converted, unless *)
(* a transmit poll used d_buf between the conversion and the lock: the     *)
(* threads never get into each other's way (feed_rx_msg, rx_thread_start). *)
FramesIntactUnlessPolled ==
  \A t \in Live : rpc[t] = "net" /\ ~polled => d_buf = got[t]

(* Answers reach who waits for them and nobody else.  While               *)
(* wifi_test_send_msg waits, its confirmation is still to come or in the   *)
(* FIFO: the receive thread does not take it away.  No receive thread is   *)
(* about to read the FIFO while connect waits for the indication: ifdown   *)
(* has stopped it.  A confirmation that lay in the FIFO when the request   *)
(* began is not taken for its own, unless reading it away was cut short    *)
(* (send_msg, wait_connect_ind, net_ifdown, msg_drain_late).               *)
AnswersArrive ==
  /\ cpc = "wait" =>
       \/ \E i \in DOMAIN todo : todo[i].age = "new"
       \/ \E i \in DOMAIN fifo : \E j \in DOMAIN fifo[i] :
            fifo[i][j].type = "cfm" /\ fifo[i][j].age = "new"
  /\ cpc = "ind" => \A t \in Live : rpc[t] # "lock"
  /\ took = "left" => cut

(* The confirmation accepted answers the request that was sent (send_msg). *)
CfmAnswersRequest == took \in {None, "new"}

(* Every command and ioctl returns: with the network locked, ifdown waits  *)
(* for a thread that waits for the network, but not for ever.              *)
CommandsReturn == cpc # "idle" ~> cpc = "idle"

(* A receive thread told to stop ends, unless a connect starts it again.   *)
StopTakesEffect == rx_stop ~> Live = {} \/ ~rx_stop
=============================================================================
