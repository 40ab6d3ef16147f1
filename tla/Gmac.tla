-------------------------------- MODULE Gmac --------------------------------
(***************************************************************************)
(* The GMAC0 Ethernet driver, chip/d13x/d13x_gmac.c.                       *)
(*                                                                         *)
(*   - the stack (external): ifup, ifdown and txavail, under net_lock;     *)
(*   - the interrupt handler, which masks the line and queues irqwork;     *)
(*   - the LPWORK thread, which runs irqwork, pollwork and linkwork one at *)
(*     a time in the order they were queued;                               *)
(*   - the link watchdog, which queues linkwork;                           *)
(*   - the DMA engine on the two descriptor rings, and the PHY.            *)
(*                                                                         *)
(* While its interrupt is pending and unmasked the handler runs and no     *)
(* thread does (Preempted): the CPU has a single core.                     *)
(***************************************************************************)
EXTENDS Integers, FiniteSets, Sequences

CONSTANTS
  RxCount,     (* D13X_GMAC_RX_COUNT                                       *)
  TxCount,     (* D13X_GMAC_TX_COUNT                                       *)
  MaxBacklog,  (* bound on the packets waiting in the stack                *)
  MaxDowns     (* bound on the number of ifdown calls                      *)

ASSUME GmacAssumption ==
  /\ RxCount \in Nat \ {0} /\ TxCount \in Nat \ {0}
  /\ MaxBacklog \in Nat \ {0} /\ MaxDowns \in Nat

RxSlots == 0 .. RxCount - 1
TxSlots == 0 .. TxCount - 1
Works == {"irq", "poll", "link"}

VARIABLES
  ifup, link,
  upc,         (* position of the d_ifup call in progress                  *)
  downs,       (* ifdown calls so far                                      *)
  backlog,     (* packets the stack would hand to devif_poll               *)
  lpq,         (* the works queued on LPWORK                               *)
  wpc,         (* position of the work being run                           *)
  sts,         (* the DMA status the running irqwork has read              *)
  processed,   (* descriptors its receive loop has handled                 *)
  timer,       (* linktimer is armed                                       *)
  irq_enabled, (* the line is enabled in the interrupt controller          *)
  status,      (* DMA0INTSTS                                               *)
  dma_on,      (* DMA0INTEN and the two start bits                         *)
  phy,         (* the link bit of BMSR                                     *)
  rxown, rxhead,          (* RX descriptors the DMA owns, the driver's     *)
  rxdma,                  (* next one, the DMA's next one                  *)
  txown, txhead, txtail,  (* the same for TX                               *)
  txpending, txdma

netVars  == <<ifup, link, upc, downs, backlog>>
workVars == <<lpq, wpc, sts, processed, timer>>
irqVars  == <<irq_enabled, status, dma_on>>
rxVars   == <<rxown, rxhead, rxdma>>
txVars   == <<txown, txhead, txtail, txpending, txdma>>
vars == <<netVars, workVars, irqVars, phy, rxVars, txVars>>

(* d13x_gmac_initialize                                                    *)
Init ==
  /\ ifup = FALSE /\ link = FALSE /\ upc = "idle" /\ downs = 0 /\ backlog = 0
  /\ lpq = <<>> /\ wpc = "idle" /\ sts = {} /\ processed = 0 /\ timer = FALSE
  /\ irq_enabled = FALSE /\ status = {} /\ dma_on = FALSE
  /\ phy \in BOOLEAN
  /\ rxown = {} /\ rxhead = 0 /\ rxdma = 0
  /\ txown = {} /\ txhead = 0 /\ txtail = 0 /\ txpending = 0 /\ txdma = 0

Queued(w) == \E i \in DOMAIN lpq : lpq[i] = w
Preempted == irq_enabled /\ dma_on /\ status # {}

InsideLock == {"receive", "txdone"}
NetLockFree == upc = "idle" /\ wpc \notin InsideLock
-----------------------------------------------------------------------------
(* TX.                                                                     *)

FreeTxUnchecked == TxCount + 1 - txpending

(* The packets transmit can take: it refuses when txpending has reached    *)
(* the ring size or the DMA still owns the next descriptor.                *)
FreeTx == IF txhead \in txown THEN 0 ELSE TxCount - txpending

(* transmit, n times (n <= FreeTx).                                        *)
Transmit(n) ==
  /\ txown' = txown \cup {(txhead + i) % TxCount : i \in 0 .. n - 1}
  /\ txhead' = (txhead + n) % TxCount
  /\ txpending' = txpending + n

(* devif_poll with d13x_gmac_txpoll: the stack builds a packet before each *)
(* call of txpoll, so the one txpoll refuses on a full ring is gone.       *)
devif_poll ==
  LET n == IF backlog <= FreeTx THEN backlog ELSE FreeTx IN
    /\ Transmit(n)
    /\ backlog' = IF backlog > n THEN backlog - n - 1 ELSE 0

(* update_link, when the PHY could be read.                                *)
update_link ==
  /\ link' = phy
  /\ IF phy /\ ~link
       THEN devif_poll
       ELSE UNCHANGED <<txown, txhead, txpending, backlog>>
-----------------------------------------------------------------------------
(* ifup, ifdown and txavail.                                               *)

(* desc_initialize, the ring addresses, DMA0INTEN, the DMA started.        *)
IfupHw ==
  /\ ~Preempted /\ NetLockFree /\ ~ifup
  /\ rxown' = RxSlots /\ rxhead' = 0 /\ rxdma' = 0
  /\ txown' = {} /\ txhead' = 0 /\ txtail' = 0 /\ txpending' = 0 /\ txdma' = 0
  /\ dma_on' = TRUE
  /\ upc' = "mark"
  /\ UNCHANGED <<ifup, link, downs, backlog, workVars, irq_enabled, status, phy>>

IfupMark ==
  /\ ~Preempted /\ upc = "mark"
  /\ ifup' = TRUE /\ link' = FALSE /\ irq_enabled' = TRUE
  /\ upc' = "wait"
  /\ UNCHANGED <<downs, backlog, workVars, status, dma_on, phy, rxVars, txVars>>

(* The bounded link wait; a pass that finds no link changes nothing.       *)
IfupLink ==
  /\ ~Preempted /\ upc = "wait" /\ ~link /\ phy
  /\ update_link
  /\ UNCHANGED <<ifup, upc, downs, workVars, irqVars, phy, rxVars, txtail, txdma>>

IfupReturn ==   (* the link is up, or the wait is over                     *)
  /\ ~Preempted /\ upc = "wait"
  /\ timer' = TRUE
  /\ upc' = "idle"
  /\ UNCHANGED <<ifup, link, downs, backlog, lpq, wpc, sts, processed, irqVars, phy,
                 rxVars, txVars>>

Ifdown ==
  /\ ~Preempted /\ NetLockFree /\ ifup /\ downs < MaxDowns
  /\ irq_enabled' = FALSE /\ dma_on' = FALSE /\ timer' = FALSE
  /\ ifup' = FALSE /\ link' = FALSE
  /\ downs' = downs + 1
  /\ UNCHANGED <<upc, backlog, lpq, wpc, sts, processed, status, phy, rxVars, txVars>>

(* A socket has a packet to send and calls txavail.                        *)
Txavail ==
  /\ ~Preempted /\ NetLockFree /\ backlog < MaxBacklog
  /\ backlog' = backlog + 1
  /\ lpq' = IF Queued("poll") THEN lpq ELSE Append(lpq, "poll")
  /\ UNCHANGED <<ifup, link, upc, downs, wpc, sts, processed, timer, irqVars, phy,
                 rxVars, txVars>>
-----------------------------------------------------------------------------
(* The interrupt handler and the link watchdog.                            *)

(* The line is masked until irqwork has run; if irqwork is queued already  *)
(* it is unmasked again at once.                                           *)
Interrupt ==
  /\ Preempted
  /\ IF Queued("irq")
       THEN UNCHANGED <<lpq, irq_enabled>>
       ELSE lpq' = Append(lpq, "irq") /\ irq_enabled' = FALSE
  /\ UNCHANGED <<status, dma_on, netVars, wpc, sts, processed, timer, phy, rxVars, txVars>>

LinkTimer ==
  /\ timer
  /\ timer' = FALSE
  /\ lpq' = IF Queued("link") THEN lpq ELSE Append(lpq, "link")
  /\ UNCHANGED <<netVars, wpc, sts, processed, irqVars, phy, rxVars, txVars>>
-----------------------------------------------------------------------------
(* LPWORK: a work leaves the queue before it is run.                       *)

WorkBegin(w) ==
  /\ ~Preempted /\ wpc = "idle" /\ lpq # <<>> /\ Head(lpq) = w
  /\ lpq' = Tail(lpq)

IrqWork ==
  /\ WorkBegin("irq")
  /\ wpc' = "lock"
  /\ UNCHANGED <<netVars, sts, processed, timer, irqVars, phy, rxVars, txVars>>

(* interrupt_work: net_lock, then the status is read and acknowledged.     *)
IrqAck ==
  /\ ~Preempted /\ wpc = "lock" /\ NetLockFree
  /\ sts' = status /\ status' = {}
  /\ processed' = 0
  /\ wpc' = IF "rx" \in status THEN "receive" ELSE "txdone"
  /\ UNCHANGED <<netVars, lpq, timer, irq_enabled, dma_on, phy, rxVars, txVars>>

ReceiveResyncs ==
  /\ ~Preempted /\ wpc = "receive" /\ processed < RxCount /\ rxhead \notin rxown
  /\ rxown' = RxSlots /\ rxhead' = rxdma
  /\ processed' = processed + 1
  /\ UNCHANGED <<netVars, lpq, wpc, sts, timer, irqVars, phy, rxdma, txVars>>

(* One turn of receive's loop: the frame goes to the stack (or is counted  *)
(* as an error), the stack's reply to transmit, which may refuse it; the   *)
(* descriptor goes back to the DMA.                                        *)
Receive ==
  /\ ~Preempted /\ wpc = "receive" /\ processed < RxCount /\ rxhead \notin rxown
  /\ \E reply \in BOOLEAN :
       IF reply /\ FreeTx > 0
         THEN Transmit(1)
         ELSE UNCHANGED <<txown, txhead, txpending>>
  /\ rxown' = rxown \cup {rxhead}
  /\ rxhead' = (rxhead + 1) % RxCount
  /\ processed' = processed + 1
  /\ UNCHANGED <<netVars, lpq, wpc, sts, timer, irqVars, phy, rxdma, txtail, txdma>>

ReceiveEnd ==
  /\ ~Preempted /\ wpc = "receive" /\ (processed = RxCount \/ rxhead \in rxown)
  /\ wpc' = "txdone"
  /\ UNCHANGED <<netVars, lpq, sts, processed, timer, irqVars, phy, rxVars, txVars>>

TxdoneUnowned ==
  /\ ~Preempted /\ wpc = "txdone" /\ "tx" \in sts
  /\ txpending > 0
  /\ txtail' = (txtail + 1) % TxCount
  /\ txpending' = txpending - 1
  /\ UNCHANGED <<netVars, workVars, irqVars, phy, rxVars, txown, txhead, txdma>>

(* One turn of txdone's loop.                                              *)
Txdone ==
  /\ ~Preempted /\ wpc = "txdone" /\ "tx" \in sts
  /\ txpending > 0 /\ txtail \notin txown
  /\ txtail' = (txtail + 1) % TxCount
  /\ txpending' = txpending - 1
  /\ UNCHANGED <<netVars, workVars, irqVars, phy, rxVars, txown, txhead, txdma>>

TxdoneEndSilent ==
  /\ ~Preempted /\ wpc = "txdone"
  /\ "tx" \in sts => txpending = 0 \/ txtail \in txown
  /\ sts' = {} /\ processed' = 0
  /\ wpc' = "unmask"
  /\ UNCHANGED <<netVars, lpq, timer, irqVars, phy, rxVars, txVars>>

(* The end of txdone's loop polls the stack; then net_unlock.              *)
TxdoneEnd ==
  /\ ~Preempted /\ wpc = "txdone"
  /\ "tx" \in sts => txpending = 0 \/ txtail \in txown
  /\ IF "tx" \in sts /\ txpending < TxCount
       THEN devif_poll
       ELSE UNCHANGED <<txown, txhead, txpending, backlog>>
  /\ sts' = {} /\ processed' = 0
  /\ wpc' = "unmask"
  /\ UNCHANGED <<ifup, link, upc, downs, lpq, timer, irqVars, phy, rxVars, txtail, txdma>>

IrqUnmaskClears ==
  /\ ~Preempted /\ wpc = "unmask"
  /\ irq_enabled' = TRUE /\ status' = {}
  /\ wpc' = "idle"
  /\ UNCHANGED <<netVars, lpq, sts, processed, timer, dma_on, phy, rxVars, txVars>>

(* up_enable_irq, outside net_lock and whatever the interface's state.     *)
IrqUnmask ==
  /\ ~Preempted /\ wpc = "unmask"
  /\ irq_enabled' = TRUE
  /\ wpc' = "idle"
  /\ UNCHANGED <<netVars, lpq, sts, processed, timer, status, dma_on, phy, rxVars, txVars>>

PollWork ==
  /\ WorkBegin("poll")
  /\ wpc' = "poll"
  /\ UNCHANGED <<netVars, sts, processed, timer, irqVars, phy, rxVars, txVars>>

(* txavail_work                                                            *)
PollRun ==
  /\ ~Preempted /\ wpc = "poll" /\ NetLockFree
  /\ IF ifup /\ link /\ txpending < TxCount
       THEN devif_poll
       ELSE UNCHANGED <<txown, txhead, txpending, backlog>>
  /\ wpc' = "idle"
  /\ UNCHANGED <<ifup, link, upc, downs, lpq, sts, processed, timer, irqVars, phy, rxVars,
                 txtail, txdma>>

LinkWorkAlways ==
  /\ WorkBegin("link")
  /\ wpc' = "link"
  /\ UNCHANGED <<netVars, sts, processed, timer, irqVars, phy, rxVars, txVars>>

(* link_work looks at ifup before it takes net_lock.                       *)
LinkWork ==
  /\ WorkBegin("link")
  /\ wpc' = IF ifup THEN "link" ELSE "idle"
  /\ UNCHANGED <<netVars, sts, processed, timer, irqVars, phy, rxVars, txVars>>

LinkUpdate ==
  /\ ~Preempted /\ wpc = "link" /\ NetLockFree
  /\ update_link
  /\ wpc' = "rearm"
  /\ UNCHANGED <<ifup, upc, downs, lpq, sts, processed, timer, irqVars, phy, rxVars,
                 txtail, txdma>>

LinkUnreadNoRearm ==
  /\ ~Preempted /\ wpc = "link" /\ NetLockFree
  /\ wpc' = "idle"
  /\ UNCHANGED <<netVars, lpq, sts, processed, timer, irqVars, phy, rxVars, txVars>>

LinkUnread ==   (* the MDIO read failed                                    *)
  /\ ~Preempted /\ wpc = "link" /\ NetLockFree
  /\ wpc' = "rearm"
  /\ UNCHANGED <<netVars, lpq, sts, processed, timer, irqVars, phy, rxVars, txVars>>

LinkRearm ==    (* wd_start, after net_unlock                              *)
  /\ ~Preempted /\ wpc = "rearm"
  /\ timer' = TRUE
  /\ wpc' = "idle"
  /\ UNCHANGED <<netVars, lpq, sts, processed, irqVars, phy, rxVars, txVars>>
-----------------------------------------------------------------------------
(* The hardware.                                                           *)

DmaReceive ==
  /\ dma_on /\ rxdma \in rxown
  /\ rxown' = rxown \ {rxdma}
  /\ rxdma' = (rxdma + 1) % RxCount
  /\ status' = status \cup {"rx"}
  /\ UNCHANGED <<netVars, workVars, irq_enabled, dma_on, phy, rxhead, txVars>>

DmaTransmit ==
  /\ dma_on /\ txdma \in txown
  /\ txown' = txown \ {txdma}
  /\ txdma' = (txdma + 1) % TxCount
  /\ status' = status \cup {"tx"}
  /\ UNCHANGED <<netVars, workVars, irq_enabled, dma_on, phy, rxVars, txhead, txtail,
                 txpending>>

PhyChange ==
  /\ phy' = ~phy
  /\ UNCHANGED <<netVars, workVars, irqVars, rxVars, txVars>>
-----------------------------------------------------------------------------
IfupCall == IfupMark \/ IfupLink \/ IfupReturn

LpWork ==
  \/ IrqWork \/ IrqAck \/ Receive \/ ReceiveEnd \/ Txdone \/ TxdoneEnd \/ IrqUnmask
  \/ PollWork \/ PollRun
  \/ LinkWork \/ LinkUpdate \/ LinkUnread \/ LinkRearm

Next ==
  \/ IfupHw \/ IfupCall \/ Ifdown \/ Txavail
  \/ Interrupt \/ LinkTimer
  \/ LpWork
  \/ DmaReceive \/ DmaTransmit \/ PhyChange

Spec == Init /\ [][Next]_vars

(* The wait in ifup is bounded, the work thread and the tick run whenever  *)
(* no interrupt does, the engine sends what it owns, and the MDIO bus does *)
(* not fail for ever.  Received frames and link changes are free.          *)
FairSpec ==
  /\ Spec
  /\ WF_vars(IfupMark) /\ WF_vars(IfupReturn)
  /\ WF_vars(Interrupt) /\ WF_vars(LinkTimer) /\ WF_vars(DmaTransmit)
  /\ SF_vars(LpWork) /\ SF_vars(LinkUpdate)
-----------------------------------------------------------------------------
WorkPositions == {"idle", "lock", "receive", "txdone", "unmask", "poll", "link", "rearm"}

TypeOK ==
  /\ ifup \in BOOLEAN /\ link \in BOOLEAN
  /\ upc \in {"idle", "mark", "wait"} /\ downs \in 0 .. MaxDowns
  /\ backlog \in 0 .. MaxBacklog
  /\ lpq \in Seq(Works) /\ \A i, j \in DOMAIN lpq : lpq[i] = lpq[j] => i = j
  /\ wpc \in WorkPositions /\ sts \subseteq {"rx", "tx"} /\ processed \in 0 .. RxCount
  /\ timer \in BOOLEAN /\ irq_enabled \in BOOLEAN
  /\ status \subseteq {"rx", "tx"} /\ dma_on \in BOOLEAN /\ phy \in BOOLEAN
  /\ rxown \subseteq RxSlots /\ rxhead \in RxSlots /\ rxdma \in RxSlots
  /\ txown \subseteq TxSlots /\ txhead \in TxSlots /\ txtail \in TxSlots
  /\ txpending \in 0 .. TxCount /\ txdma \in TxSlots

(* n slots of a ring from slot i on                                        *)
Segment(i, n, count) == {(i + k) % count : k \in 0 .. n - 1}

(* The TX ring read from txtail on is: sent but not reaped, then owned by  *)
(* the DMA, then free; txpending counts the first two (transmit, txdone).  *)
TxRingAgrees ==
  LET owned == Cardinality(txown) IN
    /\ owned <= txpending
    /\ txhead = (txtail + txpending) % TxCount
    /\ txdma = (txtail + txpending - owned) % TxCount
    /\ txown = Segment(txdma, owned, TxCount)

(* The RX ring read from rxhead on is: filled, then owned by the DMA; no   *)
(* descriptor is skipped or handed back twice (receive).                   *)
RxRingAgrees ==
  dma_on =>
    /\ rxdma = (rxhead + RxCount - Cardinality(rxown)) % RxCount
    /\ rxown = Segment(rxdma, Cardinality(rxown), RxCount)

(* The driver's and the engine's indices, counts and OWN bits of both      *)
(* rings describe the same ring, over any number of restarts (transmit,    *)
(* txdone, receive, desc_initialize).                                      *)
RingsAgree == TxRingAgrees /\ RxRingAgrees

(* The slots in S, which are consecutive, in ring order from slot i on     *)
RingOrder(S, i, count) == [k \in 1 .. Cardinality(S) |-> (i + k - 1) % count]

TxFifo == INSTANCE SlotFifo WITH
  Slots <- TxSlots, running <- dma_on, full <- RingOrder(txown, txdma, TxCount)

RxFifo == INSTANCE SlotFifo WITH
  Slots <- RxSlots, running <- dma_on,
  full <- RingOrder(RxSlots \ rxown, rxhead, RxCount)

(* Both rings are FIFOs of slots: frames are sent in the order transmit    *)
(* accepted them and received in the order the engine filled them, no slot *)
(* is overwritten before it was taken, and only a new ifup discards any    *)
(* (desc_initialize, transmit, receive).                                   *)
RingsAreFifos == TxFifo!Spec /\ RxFifo!Spec

(* A filled descriptor is never left behind: its interrupt is still to be  *)
(* taken, or irqwork is about to reach it, whenever it was filled while    *)
(* the loop ran.  Until the first ifdown the line is unmasked only when    *)
(* irqwork can be queued, so the handler never returns with its interrupt  *)
(* still pending (interrupt, interrupt_work, receive).                     *)
Working == wpc \in {"lock", "receive", "txdone", "unmask"}
InterruptsNotLost ==
  /\ ifup /\ downs = 0 /\ rxown # RxSlots =>
       /\ "rx" \in status \/ wpc = "receive"
       /\ irq_enabled \/ Queued("irq") \/ Working
  /\ downs = 0 /\ irq_enabled => ~Queued("irq") /\ ~Working

(* While the interface stays up and has carrier, the packets waiting in    *)
(* the stack go on leaving it, although the ring was full or the link      *)
(* still down when txavail was called (txavail, txdone, update_link).      *)
TxNotStuck ==
  \A n \in 1 .. MaxBacklog :
    backlog = n /\ ifup /\ link ~> backlog # n \/ ~link \/ downs > 0

(* The driver's link state follows the PHY as long as the interface is up, *)
(* although MDIO reads fail now and then (link_work, link_timer).          *)
LinkFollows ==
  ifup /\ phy # link ~> phy = link \/ downs > 0

(* The polling chain of an interface that stays down dies out, also when   *)
(* ifdown overtakes link_work (ifdown, link_work, link_timer).             *)
PollingStops ==
  ~ifup ~> ifup \/ (~timer /\ ~Queued("link") /\ wpc \notin {"link", "rearm"})

(* d_ifup returns: its wait for the link is bounded (ifup).                *)
IfupReturns == upc # "idle" ~> upc = "idle"
=============================================================================
