--------------------------------- MODULE I2c ---------------------------------
(***************************************************************************)
(* The polled I2C master, chip/d13x/d13x_i2c.c, on a DesignWare controller *)
(* (external): a command FIFO that is flushed, and held empty, by an abort *)
(* until TX_ABRT is cleared; a sticky STOP_DET; and a disable that waits   *)
(* for a bus in use.  A slave may refuse an address or a byte, and may     *)
(* hold the clock for longer than any of the driver's timeouts (stuck).    *)
(*                                                                         *)
(* The mutex makes the transfers of a bus sequential: one client is enough.*)
(***************************************************************************)
EXTENDS Integers, Sequences

CONSTANTS
  Transfers,   (* the message lists clients hand over                      *)
  FifoDepth,   (* commands the controller can queue                        *)
  MaxCalls, MaxHangs       (* bounds on the transfers and on the hangs     *)

I2cMsgs == [read : BOOLEAN, length : Nat \ {0}, nostart : BOOLEAN, nostop : BOOLEAN]

ASSUME I2cAssumption ==
  /\ Transfers \subseteq Seq(I2cMsgs) /\ <<>> \notin Transfers
  /\ FifoDepth \in Nat \ {0} /\ MaxCalls \in Nat /\ MaxHangs \in Nat

VARIABLES
  ipc, i2c_ret,
  msgs, mi, mj,          (* the transfer, its message and byte in turn     *)
  bytes,                 (* what it has stored in its read buffers         *)
  ic_enable, ic_active,  (* IC_ENABLE and IC_ENABLE_STATUS                 *)
  txfifo, rxfifo, tx_abrt, stop_det,
  bus,                   (* idle, or the direction of the open segment     *)
  stuck, hangs, calls,
  wire                   (* history: the bus since the controller was      *)
                         (* configured for this transfer                   *)

i2cCall  == <<ipc, i2c_ret, msgs, mi, mj, bytes, calls>>
i2cFifos == <<txfifo, rxfifo>>
i2cRaw   == <<tx_abrt, stop_det>>
i2cBus   == <<bus, wire>>
i2cHang  == <<stuck, hangs>>
i2cVars  == <<i2cCall, ic_enable, ic_active, i2cFifos, i2cRaw, i2cBus, i2cHang>>

I2cInit ==   (* hw_initialize                                              *)
  /\ ipc = "idle" /\ i2c_ret = "none" /\ msgs = <<>> /\ mi = 1 /\ mj = 1
  /\ bytes = <<>> /\ calls = 0
  /\ ic_enable = TRUE /\ ic_active = TRUE
  /\ txfifo = <<>> /\ rxfifo = <<>> /\ tx_abrt = FALSE /\ stop_det = FALSE
  /\ bus = "idle" /\ wire = <<>> /\ stuck = FALSE /\ hangs = 0
-----------------------------------------------------------------------------
(* The controller and the slave (external).                                *)

Direction(cmd) == IF cmd.read THEN "read" ELSE "write"
OpensSegment(cmd) == bus # Direction(cmd) \/ cmd.restart

(* The condition the controller puts on the bus before a command's byte.   *)
Opening(cmd) ==
  IF bus = "idle" THEN <<<<"start">>>> ELSE IF OpensSegment(cmd) THEN <<<<"restart">>>> ELSE <<>>

WireReady == ic_enable /\ ic_active /\ txfifo # <<>> /\ ~tx_abrt /\ ~stuck
HwQuiet == ~WireReady /\ (ic_enable \/ ~ic_active \/ stuck)

(* A byte is acknowledged, or read: each byte read is a new value.         *)
WireByte ==
  /\ WireReady
  /\ LET cmd == Head(txfifo)
         byte == IF cmd.read THEN <<"read", calls, Len(wire)>> ELSE cmd.byte
     IN /\ wire' = wire \o Opening(cmd) \o <<byte>> \o IF cmd.stop THEN <<<<"stop">>>> ELSE <<>>
        /\ rxfifo' = IF cmd.read THEN Append(rxfifo, byte) ELSE rxfifo
        /\ bus' = IF cmd.stop THEN "idle" ELSE Direction(cmd)
        /\ stop_det' = (stop_det \/ cmd.stop)
  /\ txfifo' = Tail(txfifo)
  /\ UNCHANGED <<i2cCall, ic_enable, ic_active, tx_abrt, i2cHang>>

WireNack ==   (* of an address, or of a byte written                       *)
  /\ WireReady
  /\ OpensSegment(Head(txfifo)) \/ ~Head(txfifo).read
  /\ wire' = wire \o Opening(Head(txfifo)) \o <<<<"nack">>, <<"stop">>>>
  /\ txfifo' = <<>> /\ tx_abrt' = TRUE /\ stop_det' = TRUE /\ bus' = "idle"
  /\ UNCHANGED <<i2cCall, ic_enable, ic_active, rxfifo, i2cHang>>

(* A pending disable takes effect: both FIFOs are emptied.                 *)
Disabled ==
  /\ ~ic_enable /\ ic_active /\ ~stuck
  /\ ic_active' = FALSE
  /\ txfifo' = <<>> /\ rxfifo' = <<>>
  /\ bus' = "idle"
  /\ wire' = IF bus = "idle" THEN wire ELSE Append(wire, <<"stop">>)
  /\ UNCHANGED <<i2cCall, ic_enable, i2cRaw, i2cHang>>

Hang ==
  /\ bus # "idle" /\ ~stuck /\ hangs < MaxHangs
  /\ stuck' = TRUE /\ hangs' = hangs + 1
  /\ UNCHANGED <<i2cCall, ic_enable, ic_active, i2cFifos, i2cRaw, i2cBus>>

Unhang ==
  /\ stuck
  /\ stuck' = FALSE
  /\ UNCHANGED <<i2cCall, ic_enable, ic_active, i2cFifos, i2cRaw, i2cBus, hangs>>
-----------------------------------------------------------------------------
(* validate_msgs, for messages with a buffer and to one 7-bit address.     *)
Valid(m) ==
  /\ ~m[1].nostart
  /\ \A k \in 2 .. Len(m) : m[k].nostart => m[k].read = m[k - 1].read
  /\ ~m[Len(m)].nostop

restart == mi > 1 /\ ~msgs[mi].nostart /\ msgs[mi - 1].nostop

stop_message ==
  /\ ~msgs[mi].nostop
  /\ mi = Len(msgs) \/ ~msgs[mi + 1].nostart

LastByte == mj = msgs[mi].length

Command == [read    |-> msgs[mi].read,
            byte    |-> <<"written", mi, mj>>,
            restart |-> restart /\ mj = 1,
            stop    |-> stop_message /\ LastByte]

I2cAt(pos) == ipc = pos

TransferBegin ==
  /\ I2cAt("idle") /\ calls < MaxCalls
  /\ calls' = calls + 1
  /\ \E m \in Transfers : Valid(m) /\ msgs' = m
  /\ mi' = 1 /\ mj' = 1 /\ bytes' = <<>> /\ i2c_ret' = "none"
  /\ ipc' = "activity"
  /\ UNCHANGED <<ic_enable, ic_active, i2cFifos, i2cRaw, i2cBus, i2cHang>>

(* wait_mask on ACTIVITY, then set_enable(false).                          *)
TransferIdle ==
  /\ I2cAt("activity") /\ bus = "idle"
  /\ ic_enable' = FALSE
  /\ ipc' = "disable"
  /\ UNCHANGED <<i2c_ret, msgs, mi, mj, bytes, calls, ic_active, i2cFifos, i2cRaw,
                 i2cBus, i2cHang>>

(* A timeout of either wait: the transfer ends where it stands.            *)
TransferGivesUp ==
  /\ \/ I2cAt("activity") /\ bus # "idle" /\ HwQuiet
     \/ I2cAt("disable") /\ ic_active /\ stuck
  /\ i2c_ret' = "error"
  /\ ipc' = "idle"
  /\ UNCHANGED <<msgs, mi, mj, bytes, calls, ic_enable, ic_active, i2cFifos, i2cRaw,
                 i2cBus, i2cHang>>

(* The address, the interrupt flags, set_enable(true).                     *)
TransferConfigure ==
  /\ I2cAt("disable") /\ ~ic_active
  /\ tx_abrt' = FALSE /\ stop_det' = FALSE
  /\ ic_enable' = TRUE /\ ic_active' = TRUE
  /\ wire' = <<>>
  /\ ipc' = "push"
  /\ UNCHANGED <<i2c_ret, msgs, mi, mj, bytes, calls, i2cFifos, bus, i2cHang>>

TransferBadFrequency ==
  /\ I2cAt("disable") /\ ~ic_active
  /\ i2c_ret' = "error"
  /\ ipc' = "reenable"
  /\ UNCHANGED <<msgs, mi, mj, bytes, calls, ic_enable, ic_active, i2cFifos, i2cRaw,
                 i2cBus, i2cHang>>

(* The next byte, the wait for the STOP, the next message.                 *)
Advance ==
  IF ~LastByte THEN ipc' = "push" /\ mj' = mj + 1 /\ UNCHANGED mi
  ELSE IF stop_message THEN ipc' = "stop" /\ UNCHANGED <<mi, mj>>
  ELSE ipc' = "push" /\ mi' = mi + 1 /\ mj' = 1

(* wait_tx_space and DATA_CMD; while TX_ABRT is set the FIFO stays empty.  *)
PushIf(room) ==
  /\ I2cAt("push") /\ room
  /\ txfifo' = IF tx_abrt THEN txfifo ELSE Append(txfifo, Command)
  /\ IF msgs[mi].read THEN ipc' = "receive" /\ UNCHANGED <<mi, mj>> ELSE Advance
  /\ UNCHANGED <<i2c_ret, msgs, bytes, calls, ic_enable, ic_active, rxfifo, i2cRaw,
                 i2cBus, i2cHang>>

PushUnchecked == PushIf(TRUE)
PushCommand == PushIf(Len(txfifo) < FifoDepth)

ReceiveByte ==
  /\ I2cAt("receive") /\ rxfifo # <<>>
  /\ bytes' = Append(bytes, Head(rxfifo))
  /\ rxfifo' = Tail(rxfifo)
  /\ Advance
  /\ UNCHANGED <<i2c_ret, msgs, calls, ic_enable, ic_active, txfifo, i2cRaw, i2cBus,
                 i2cHang>>

WaitForAbort ==
  /\ \/ I2cAt("push") /\ Len(txfifo) = FifoDepth
     \/ I2cAt("receive") /\ rxfifo = <<>>
  /\ tx_abrt
  /\ tx_abrt' = FALSE
  /\ ic_enable' = FALSE
  /\ ipc' = "abort"
  /\ UNCHANGED <<i2c_ret, msgs, mi, mj, bytes, calls, ic_active, i2cFifos, stop_det,
                 i2cBus, i2cHang>>

(* check_abort clears TX_ABRT; otherwise the wait has timed out.           *)
WaitFails ==
  /\ \/ I2cAt("push") /\ Len(txfifo) = FifoDepth
     \/ I2cAt("receive") /\ rxfifo = <<>>
  /\ tx_abrt \/ HwQuiet
  /\ tx_abrt' = FALSE
  /\ ic_enable' = FALSE
  /\ ipc' = "abort"
  /\ UNCHANGED <<i2c_ret, msgs, mi, mj, bytes, calls, ic_active, i2cFifos, stop_det,
                 i2cBus, i2cHang>>

StopSeenSticky ==
  /\ I2cAt("stop") /\ stop_det /\ ~tx_abrt
  /\ IF mi = Len(msgs)
       THEN i2c_ret' = "ok" /\ ipc' = "idle" /\ UNCHANGED <<mi, mj>>
       ELSE i2c_ret' = "none" /\ ipc' = "push" /\ mi' = mi + 1 /\ mj' = 1
  /\ UNCHANGED <<msgs, bytes, calls, ic_enable, ic_active, i2cFifos, i2cRaw, i2cBus,
                 i2cHang>>

(* The STOP of a message; after the last one the transfer has succeeded.   *)
StopSeen ==
  /\ I2cAt("stop") /\ stop_det /\ ~tx_abrt
  /\ stop_det' = FALSE
  /\ IF mi = Len(msgs)
       THEN i2c_ret' = "ok" /\ ipc' = "idle" /\ UNCHANGED <<mi, mj>>
       ELSE i2c_ret' = "none" /\ ipc' = "push" /\ mi' = mi + 1 /\ mj' = 1
  /\ UNCHANGED <<msgs, bytes, calls, ic_enable, ic_active, i2cFifos, tx_abrt, i2cBus,
                 i2cHang>>

StopFails ==   (* a timeout, or the STOP of an abort                       *)
  /\ I2cAt("stop")
  /\ \/ ~stop_det /\ HwQuiet /\ UNCHANGED i2cRaw
     \/ stop_det /\ tx_abrt /\ tx_abrt' = FALSE /\ stop_det' = FALSE
  /\ ic_enable' = FALSE
  /\ ipc' = "abort"
  /\ UNCHANGED <<i2c_ret, msgs, mi, mj, bytes, calls, ic_active, i2cFifos, i2cBus,
                 i2cHang>>

(* out_abort: the disable may time out; its result is not looked at.       *)
AbortDone ==
  /\ I2cAt("abort") /\ (~ic_active \/ stuck)
  /\ tx_abrt' = FALSE /\ stop_det' = FALSE
  /\ i2c_ret' = "error"
  /\ ipc' = "reenable"
  /\ UNCHANGED <<msgs, mi, mj, bytes, calls, ic_enable, ic_active, i2cFifos, i2cBus,
                 i2cHang>>

Reenable ==
  /\ I2cAt("reenable")
  /\ ic_enable' = TRUE /\ ic_active' = TRUE
  /\ ipc' = "idle"
  /\ UNCHANGED <<i2c_ret, msgs, mi, mj, bytes, calls, i2cFifos, i2cRaw, i2cBus, i2cHang>>
-----------------------------------------------------------------------------
TransferStep ==
  \/ TransferIdle \/ TransferGivesUp \/ TransferConfigure \/ TransferBadFrequency
  \/ PushCommand \/ ReceiveByte \/ WaitFails \/ StopSeen \/ StopFails
  \/ AbortDone \/ Reenable

WireStep == WireByte \/ WireNack \/ Disabled

I2cNext == TransferBegin \/ TransferStep \/ WireStep \/ Hang \/ Unhang

I2cSpec == I2cInit /\ [][I2cNext]_i2cVars
-----------------------------------------------------------------------------
I2cTypeOK ==
  /\ ipc \in {"idle", "activity", "disable", "push", "receive", "stop", "abort", "reenable"}
  /\ i2c_ret \in {"none", "ok", "error"}
  /\ msgs \in Transfers \cup {<<>>} /\ mi \in Nat /\ mj \in Nat
  /\ ic_enable \in BOOLEAN /\ ic_active \in BOOLEAN
  /\ tx_abrt \in BOOLEAN /\ stop_det \in BOOLEAN /\ stuck \in BOOLEAN
  /\ bus \in {"idle", "read", "write"}
  /\ Len(txfifo) <= FifoDepth /\ Len(rxfifo) <= 1
  /\ calls \in 0 .. MaxCalls /\ hangs \in 0 .. MaxHangs

(* What a message means: it starts with a START or, while the bus is still *)
(* held, a RESTART, and ends with a STOP; NOSTOP keeps the bus for the     *)
(* next one, NOSTART continues the one before.                             *)
Ends(m, k) == k = Len(m) \/ ~(m[k].nostop \/ m[k + 1].nostart)
Opens(m, k) ==
  IF m[k].nostart THEN <<>>
  ELSE IF k = 1 \/ Ends(m, k - 1) THEN <<<<"start">>>> ELSE <<<<"restart">>>>
Closes(m, k) == IF Ends(m, k) THEN <<<<"stop">>>> ELSE <<>>
Meaning(m, k) ==
  Opens(m, k)
  \o [b \in 1 .. m[k].length |-> IF m[k].read THEN <<"read">> ELSE <<"written", k, b>>]
  \o Closes(m, k)

IsRead(event) == event[1] = "read"
Shape(event) == IF IsRead(event) THEN <<"read">> ELSE event

(* The events w are those of the messages m, each at its place.            *)
Says(w, m) ==
  \E at \in [1 .. Len(m) + 1 -> 0 .. Len(w)] :
    /\ at[1] = 0 /\ at[Len(m) + 1] = Len(w)
    /\ \A k \in 1 .. Len(m) :
         /\ at[k + 1] = at[k] + Len(Meaning(m, k))
         /\ \A e \in 1 .. Len(Meaning(m, k)) : Shape(w[at[k] + e]) = Meaning(m, k)[e]

(* The bytes b are those read among the events w, in their order.          *)
ReadIn(w, b) ==
  \E at \in [1 .. Len(b) -> 1 .. Len(w)] :
    /\ \A n \in 1 .. Len(b) : b[n] = w[at[n]] /\ IsRead(b[n])
    /\ \A n \in 1 .. Len(b) - 1 : at[n] < at[n + 1]
    /\ \A k \in 1 .. Len(w) : IsRead(w[k]) => \E n \in 1 .. Len(b) : at[n] = k

(* A transfer that succeeds has put on the bus what its messages mean,     *)
(* every byte acknowledged, and returns the bytes read in it, none of an   *)
(* earlier transfer, whatever was refused or timed out before; the bus and *)
(* both FIFOs are then empty (transfer_locked).                            *)
SuccessMeansDone ==
  i2c_ret = "ok" =>
    /\ Says(wire, msgs) /\ ReadIn(wire, bytes)
    /\ bus = "idle" /\ txfifo = <<>> /\ rxfifo = <<>>

(* Every transfer returns, also when the bus hangs in the middle of it and *)
(* is never let go: no wait of the driver's is without a timeout           *)
(* (wait_mask, wait_tx_space, wait_rx_data, set_enable).                   *)
TransferReturns == ipc # "idle" ~> ipc = "idle"
=============================================================================
