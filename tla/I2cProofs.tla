------------------------------- MODULE I2cProofs -------------------------------
(***************************************************************************)
(* Theorem about I2c: a transfer that succeeds has put on the bus what its *)
(* messages mean and returns what was read, for every set of message       *)
(* lists, depth of the FIFOs and number of transfers and hangs.            *)
(***************************************************************************)
EXTENDS I2c, SequenceTheorems, TLAPS

Running == {"push", "receive", "stop"}

Commands == [read : BOOLEAN, byte : {"written"} \X Nat \X Nat,
             restart : BOOLEAN, stop : BOOLEAN]
ReadBytes == {"read"} \X Nat \X Nat
Marks == {<<"start">>, <<"restart">>, <<"stop">>, <<"nack">>}
BusEvents == Marks \cup ({"written"} \X Nat \X Nat) \cup ReadBytes

SeqsOK ==
  /\ txfifo \in Seq(Commands) /\ rxfifo \in Seq(ReadBytes)
  /\ bytes \in Seq(ReadBytes) /\ wire \in Seq(BusEvents)

(* Where the driver is in the message list, and the little it may leave in *)
(* the FIFOs: one byte to be read at most, commanded or received.          *)
FifosInv ==
  /\ msgs # <<>> => Valid(msgs)
  /\ ipc \in Running =>
       /\ ic_enable /\ ic_active /\ msgs # <<>>
       /\ mi \in 1 .. Len(msgs) /\ mj \in 1 .. msgs[mi].length
       /\ tx_abrt => txfifo = <<>>
  /\ ipc \in {"activity", "disable"} => msgs # <<>> /\ mi = 1 /\ mj = 1 /\ bytes = <<>>
  /\ ipc \in {"push", "stop"} =>
       rxfifo = <<>> /\ \A n \in 1 .. Len(txfifo) : ~txfifo[n].read
  /\ ipc = "receive" => msgs[mi].read
  /\ ipc = "stop" => mj = msgs[mi].length /\ Ends(msgs, mi)
  /\ ipc # "idle" => i2c_ret # "ok"
  /\ ~ic_active => txfifo = <<>> /\ rxfifo = <<>> /\ bus = "idle"
  /\ \A n \in 1 .. Len(txfifo) : txfifo[n].read => n = Len(txfifo) /\ rxfifo = <<>>

FormInv == I2cTypeOK /\ SeqsOK /\ FifosInv

(* The command for byte j of message i; commands carry their place.        *)
Cmd(m, i, j) ==
  [read    |-> m[i].read,
   byte    |-> <<"written", i, j>>,
   restart |-> i > 1 /\ ~m[i].nostart /\ m[i - 1].nostop /\ j = 1,
   stop    |-> Ends(m, i) /\ j = m[i].length]

Place(cmd) == <<cmd.byte[2], cmd.byte[3]>>
IsPlace(m, p) == p[1] \in 1 .. Len(m) /\ p[2] \in 1 .. m[p[1]].length
After(m, p) == IF p[2] < m[p[1]].length THEN <<p[1], p[2] + 1>> ELSE <<p[1] + 1, 1>>
-----------------------------------------------------------------------------
(* What a list of messages consists of.                                    *)
LEMMA MessageTypes ==
  ASSUME I2cTypeOK, msgs # <<>>
  PROVE  /\ Len(msgs) \in Nat \ {0}
         /\ \A k \in 1 .. Len(msgs) : msgs[k] \in I2cMsgs
<1>1. msgs \in Seq(I2cMsgs)
  BY I2cAssumption DEF I2cAssumption, I2cTypeOK
<1> QED
  BY <1>1, EmptySeq, LenProperties, ElementOfSeq

(* stop_message tells where the bus is to be let go.                       *)
LEMMA StopIsEnd ==
  ASSUME FormInv, ipc \in Running
  PROVE  /\ stop_message <=> Ends(msgs, mi)
         /\ ~Ends(msgs, mi) => mi + 1 \in 1 .. Len(msgs)
         /\ Command = Cmd(msgs, mi, mj) /\ Command \in Commands
         /\ Place(Command) = <<mi, mj>> /\ IsPlace(msgs, <<mi, mj>>)
         /\ msgs[mi] \in I2cMsgs /\ mi \in Nat /\ mj \in Nat
<1>1. /\ msgs # <<>> /\ mi \in 1 .. Len(msgs) /\ mj \in 1 .. msgs[mi].length /\ Valid(msgs)
      /\ I2cTypeOK
  BY DEF FormInv, FifosInv
<1>2. Len(msgs) \in Nat \ {0} /\ \A k \in 1 .. Len(msgs) : msgs[k] \in I2cMsgs
  BY <1>1, MessageTypes
<1>3. msgs[mi] \in I2cMsgs /\ mi \in Nat /\ mj \in Nat
  BY <1>1, <1>2 DEF I2cMsgs
<1>4. stop_message <=> Ends(msgs, mi)
  BY <1>1, <1>2 DEF stop_message, Ends, Valid
<1>5. ~Ends(msgs, mi) => mi + 1 \in 1 .. Len(msgs)
  BY <1>1, <1>2 DEF Ends
<1>6. Command = Cmd(msgs, mi, mj)
  <2>1. (stop_message /\ LastByte) = (Ends(msgs, mi) /\ mj = msgs[mi].length)
    BY <1>4 DEF LastByte, stop_message, Ends
  <2>2. (restart /\ mj = 1) = (mi > 1 /\ ~msgs[mi].nostart /\ msgs[mi - 1].nostop /\ mj = 1)
    BY DEF restart
  <2> QED
    BY <2>1, <2>2 DEF Command, Cmd
<1>7. Command \in Commands
  BY <1>3 DEF Command, Commands, I2cMsgs, restart, stop_message
<1>8. Place(Command) = <<mi, mj>>
  BY DEF Place, Command
<1> QED
  BY <1>1, <1>3, <1>4, <1>5, <1>6, <1>7, <1>8 DEF IsPlace

(* The driver goes on to the next byte or waits for the STOP.              *)
LEMMA AdvanceMoves ==
  ASSUME FormInv, ipc \in Running, Advance
  PROVE  \/ /\ ipc' = "push" /\ <<mi', mj'>> = After(msgs, <<mi, mj>>)
            /\ mi' \in 1 .. Len(msgs) /\ mj' \in 1 .. msgs[mi'].length
            /\ ~Command.stop
         \/ /\ ipc' = "stop" /\ mi' = mi /\ mj' = mj
            /\ mj = msgs[mi].length /\ Ends(msgs, mi) /\ Command.stop
<1>1. /\ stop_message <=> Ends(msgs, mi)
      /\ ~Ends(msgs, mi) => mi + 1 \in 1 .. Len(msgs)
      /\ mi \in 1 .. Len(msgs) /\ mj \in 1 .. msgs[mi].length
      /\ msgs[mi] \in I2cMsgs /\ mi \in Nat /\ mj \in Nat
  BY StopIsEnd DEF FormInv, FifosInv
<1>2. msgs[mi].length \in Nat \ {0} /\ (LastByte <=> mj = msgs[mi].length)
      /\ (Command.stop <=> stop_message /\ LastByte)
  BY <1>1 DEF LastByte, I2cMsgs, Command
<1>3. CASE ~LastByte
  BY <1>1, <1>2, <1>3 DEF Advance, After
<1>4. CASE LastByte /\ stop_message
  BY <1>1, <1>2, <1>4 DEF Advance
<1>5. CASE LastByte /\ ~stop_message
  <2>1. msgs[mi + 1] \in I2cMsgs
    BY <1>1, <1>5, MessageTypes DEF FormInv, FifosInv
  <2> QED
    BY <1>1, <1>2, <1>5, <2>1 DEF Advance, After, I2cMsgs
<1> QED
  BY <1>3, <1>4, <1>5
-----------------------------------------------------------------------------
(* Initially nothing has been transferred and the FIFOs are empty.         *)
LEMMA FormInit == I2cInit => FormInv
<1> SUFFICES ASSUME I2cInit PROVE FormInv
  OBVIOUS
<1>1. I2cTypeOK
  <2>1. txfifo = <<>> /\ rxfifo = <<>>
    BY DEF I2cInit
  <2>2. Len(txfifo) = 0 /\ Len(rxfifo) = 0
    BY ONLY <2>1, EmptySeq
  <2> QED
    <3>1. /\ ic_enable \in BOOLEAN /\ ic_active \in BOOLEAN /\ tx_abrt \in BOOLEAN
          /\ stop_det \in BOOLEAN /\ stuck \in BOOLEAN
      BY DEF I2cInit
    <3>2. /\ mi \in Nat /\ mj \in Nat /\ calls \in 0 .. MaxCalls /\ hangs \in 0 .. MaxHangs
          /\ Len(txfifo) <= FifoDepth /\ Len(rxfifo) <= 1
      BY <2>2, I2cAssumption DEF I2cInit, I2cAssumption
    <3> QED
      BY <3>1, <3>2 DEF I2cInit, I2cTypeOK
<1>2. SeqsOK
  BY DEF I2cInit, SeqsOK
<1>3. FifosInv
  <2>1. txfifo = <<>> /\ rxfifo = <<>>
    BY DEF I2cInit
  <2>2. Len(txfifo) = 0
    BY ONLY <2>1, EmptySeq
  <2> QED
    BY <2>2 DEF I2cInit, FifosInv, Running
<1> QED
  BY <1>1, <1>2, <1>3 DEF FormInv

(* What the controller reads, and what the driver takes out of a FIFO.     *)
LEMMA FifoTails ==
  ASSUME SeqsOK
  PROVE  /\ txfifo # <<>> =>
              /\ Head(txfifo) \in Commands /\ Head(txfifo) = txfifo[1]
              /\ Tail(txfifo) \in Seq(Commands) /\ Len(txfifo) \in Nat \ {0}
              /\ Len(Tail(txfifo)) = Len(txfifo) - 1
              /\ \A n \in 1 .. Len(txfifo) - 1 : Tail(txfifo)[n] = txfifo[n + 1]
         /\ rxfifo # <<>> =>
              /\ Head(rxfifo) \in ReadBytes
              /\ Tail(rxfifo) \in Seq(ReadBytes) /\ Len(rxfifo) \in Nat \ {0}
              /\ Len(Tail(rxfifo)) = Len(rxfifo) - 1
  BY HeadTailProperties, EmptySeq, LenProperties DEF SeqsOK

LEMMA MarkEvents ==
  /\ <<>> \in Seq(BusEvents) /\ \A e \in BusEvents : <<e>> \in Seq(BusEvents)
  /\ <<<<"stop">>>> \in Seq(BusEvents) /\ <<<<"nack">>, <<"stop">>>> \in Seq(BusEvents)
  /\ \A cmd : Opening(cmd) \in Seq(BusEvents)
<1>1. /\ <<"start">> \in BusEvents /\ <<"restart">> \in BusEvents
      /\ <<"stop">> \in BusEvents /\ <<"nack">> \in BusEvents
  BY DEF BusEvents, Marks
<1>2. <<>> \in Seq(BusEvents) /\ \A e \in BusEvents : <<e>> \in Seq(BusEvents)
  OBVIOUS
<1>3. \A e, f \in BusEvents : <<e, f>> \in Seq(BusEvents)
  OBVIOUS
<1>4. \A cmd : Opening(cmd) = <<>> \/ Opening(cmd) = <<<<"start">>>> \/ Opening(cmd) = <<<<"restart">>>>
  BY DEF Opening
<1>5. ASSUME NEW cmd PROVE Opening(cmd) \in Seq(BusEvents)
  BY <1>1, <1>2, <1>4
<1> QED
  BY <1>1, <1>2, <1>3, <1>5

LEMMA FormByte == FormInv /\ WireByte => FormInv'
<1> SUFFICES ASSUME FormInv, WireByte PROVE FormInv'
  OBVIOUS
<1> DEFINE cmd == Head(txfifo)
           byte == IF cmd.read THEN <<"read", calls, Len(wire)>> ELSE cmd.byte
           more == Opening(cmd) \o <<byte>> \o IF cmd.stop THEN <<<<"stop">>>> ELSE <<>>
<1>1. /\ ic_enable /\ ic_active /\ txfifo # <<>> /\ ~tx_abrt
      /\ wire' = wire \o Opening(cmd) \o <<byte>> \o IF cmd.stop THEN <<<<"stop">>>> ELSE <<>>
      /\ rxfifo' = IF cmd.read THEN Append(rxfifo, byte) ELSE rxfifo
      /\ bus' = IF cmd.stop THEN "idle" ELSE Direction(cmd)
      /\ stop_det' = (stop_det \/ cmd.stop)
      /\ txfifo' = Tail(txfifo)
      /\ UNCHANGED <<ipc, i2c_ret, msgs, mi, mj, bytes, calls, ic_enable, ic_active,
                     tx_abrt, stuck, hangs>>
  BY DEF WireByte, WireReady, i2cCall, i2cHang
<1>2. /\ cmd \in Commands /\ cmd = txfifo[1]
      /\ Tail(txfifo) \in Seq(Commands) /\ Len(txfifo) \in Nat \ {0}
      /\ Len(Tail(txfifo)) = Len(txfifo) - 1
      /\ \A n \in 1 .. Len(txfifo) - 1 : Tail(txfifo)[n] = txfifo[n + 1]
  BY <1>1, FifoTails DEF FormInv
<1> HIDE DEF cmd
<1>3. byte \in BusEvents /\ (cmd.read => byte \in ReadBytes)
  <2>1. calls \in Nat /\ Len(wire) \in Nat
    BY LenProperties, I2cAssumption DEF FormInv, I2cTypeOK, SeqsOK, I2cAssumption
  <2> QED
    BY <1>2, <2>1 DEF Commands, BusEvents, ReadBytes
<1> HIDE DEF byte
<1>4. wire' \in Seq(BusEvents)
  <2>1. Opening(cmd) \in Seq(BusEvents) /\ <<byte>> \in Seq(BusEvents)
        /\ (IF cmd.stop THEN <<<<"stop">>>> ELSE <<>>) \in Seq(BusEvents)
    BY <1>3, MarkEvents
  <2>2. wire \in Seq(BusEvents)
    BY DEF FormInv, SeqsOK
  <2> QED
    BY <1>1, <2>1, <2>2, ConcatProperties
<1>5. cmd.read => Len(txfifo) = 1 /\ rxfifo = <<>>
  <2>1. \A n \in 1 .. Len(txfifo) : txfifo[n].read => n = Len(txfifo) /\ rxfifo = <<>>
    BY DEF FormInv, FifosInv
  <2>2. 1 \in 1 .. Len(txfifo)
    BY <1>2
  <2>3. txfifo[1].read => 1 = Len(txfifo) /\ rxfifo = <<>>
    BY <2>1, <2>2, Zenon
  <2> QED
    BY <1>2, <2>3, Zenon
<1>6. rxfifo' \in Seq(ReadBytes) /\ Len(rxfifo') <= 1
  <2>1. CASE cmd.read
    <3>1. rxfifo' = Append(<<>>, byte) /\ byte \in ReadBytes
      BY <1>1, <1>3, <1>5, <2>1
    <3> QED
      BY ONLY <3>1
  <2>2. CASE ~cmd.read
    BY <1>1, <2>2 DEF FormInv, I2cTypeOK, SeqsOK
  <2> QED
    BY <2>1, <2>2
<1>7. I2cTypeOK'
  <2>1. Len(txfifo') <= FifoDepth
    BY <1>1, <1>2, I2cAssumption DEF FormInv, I2cTypeOK, I2cAssumption
  <2>2. bus' \in {"idle", "read", "write"} /\ stop_det' \in BOOLEAN
    BY <1>1, <1>2 DEF Direction, Commands, FormInv, I2cTypeOK
  <2> QED
    BY <1>1, <1>6, <2>1, <2>2 DEF FormInv, I2cTypeOK
<1>8. SeqsOK'
  BY <1>1, <1>2, <1>4, <1>6 DEF FormInv, SeqsOK
<1>9. FifosInv'
  <2>1. ASSUME NEW n \in 1 .. Len(txfifo')
        PROVE  txfifo'[n] = txfifo[n + 1] /\ n + 1 \in 1 .. Len(txfifo)
               /\ (n + 1 = Len(txfifo) => n = Len(txfifo'))
    <3>1. txfifo' = Tail(txfifo) /\ Len(txfifo') = Len(txfifo) - 1 /\ Len(txfifo) \in Nat
      BY <1>1, <1>2
    <3>2. n \in 1 .. Len(txfifo) - 1
      BY <3>1
    <3>3. txfifo'[n] = txfifo[n + 1]
      BY <1>2, <3>1, <3>2, Zenon
    <3> QED
      BY <3>1, <3>2, <3>3
  <2>2. \A n \in 1 .. Len(txfifo') : txfifo'[n].read => n = Len(txfifo') /\ rxfifo' = <<>>
    <3>1. (\E n \in 1 .. Len(txfifo') : TRUE) => ~cmd.read
      BY <1>1, <1>2, <1>5
    <3> QED
      BY <1>1, <2>1, <3>1 DEF FormInv, FifosInv
  <2>3. ipc' \in {"push", "stop"} => rxfifo' = <<>>
    <3>1. ipc \in {"push", "stop"} => ~cmd.read
      BY <1>2 DEF FormInv, FifosInv
    <3> QED
      BY <1>1, <3>1 DEF FormInv, FifosInv
  <2> QED
    BY <1>1, <2>1, <2>2, <2>3 DEF FormInv, FifosInv, Running
<1> QED
  BY <1>7, <1>8, <1>9 DEF FormInv

(* A refusal empties the FIFO of commands, as a disable does both FIFOs.   *)
LEMMA FormNack == FormInv /\ WireNack => FormInv'
<1> SUFFICES ASSUME FormInv, WireNack PROVE FormInv'
  OBVIOUS
<1>1. /\ ic_active /\ txfifo' = <<>> /\ tx_abrt' = TRUE /\ stop_det' = TRUE /\ bus' = "idle"
      /\ wire' = wire \o Opening(Head(txfifo)) \o <<<<"nack">>, <<"stop">>>>
      /\ UNCHANGED <<ipc, i2c_ret, msgs, mi, mj, bytes, calls, ic_enable, ic_active,
                     rxfifo, stuck, hangs>>
  BY DEF WireNack, WireReady, i2cCall, i2cHang
<1>2. txfifo' \in Seq(Commands) /\ Len(txfifo') = 0
  BY ONLY <1>1, EmptySeq
<1>3. wire' \in Seq(BusEvents)
  <2>3. <<<<"nack">>, <<"stop">>>> \in Seq(BusEvents) /\ Opening(Head(txfifo)) \in Seq(BusEvents)
    BY MarkEvents
  <2>4. wire \in Seq(BusEvents)
    BY DEF FormInv, SeqsOK
  <2> QED
    BY <1>1, <2>3, <2>4, ConcatProperties
<1>4. I2cTypeOK'
  <2>1. Len(txfifo') <= FifoDepth
    BY <1>2, I2cAssumption DEF I2cAssumption
  <2>2. tx_abrt' \in BOOLEAN /\ stop_det' \in BOOLEAN
    BY <1>1
  <2> QED
    BY <1>1, <2>1, <2>2 DEF FormInv, I2cTypeOK
<1>5. SeqsOK'
  BY <1>1, <1>2, <1>3 DEF FormInv, SeqsOK
<1>6. FifosInv'
  BY <1>1, <1>2 DEF FormInv, FifosInv, Running
<1> QED
  BY <1>4, <1>5, <1>6 DEF FormInv

LEMMA FormDisabled == FormInv /\ Disabled => FormInv'
<1> SUFFICES ASSUME FormInv, Disabled PROVE FormInv'
  OBVIOUS
<1>1. /\ ~ic_enable /\ ic_active' = FALSE /\ txfifo' = <<>> /\ rxfifo' = <<>> /\ bus' = "idle"
      /\ wire' = IF bus = "idle" THEN wire ELSE Append(wire, <<"stop">>)
      /\ UNCHANGED <<ipc, i2c_ret, msgs, mi, mj, bytes, calls, ic_enable, tx_abrt,
                     stop_det, stuck, hangs>>
  BY DEF Disabled, i2cCall, i2cHang, i2cRaw
<1>2. /\ txfifo' \in Seq(Commands) /\ Len(txfifo') = 0
      /\ rxfifo' \in Seq(ReadBytes) /\ Len(rxfifo') = 0
  BY ONLY <1>1, EmptySeq
<1>3. wire' \in Seq(BusEvents)
  <2>1. wire \in Seq(BusEvents) /\ <<"stop">> \in BusEvents
    BY DEF FormInv, SeqsOK, BusEvents, Marks
  <2> QED
    BY <1>1, <2>1, AppendProperties
<1>4. I2cTypeOK'
  <2>1. Len(txfifo') <= FifoDepth
    BY <1>2, I2cAssumption DEF I2cAssumption
  <2>2. ic_active' \in BOOLEAN
    BY <1>1
  <2> QED
    BY <1>1, <1>2, <2>1, <2>2 DEF FormInv, I2cTypeOK
<1>5. SeqsOK'
  BY <1>1, <1>2, <1>3 DEF FormInv, SeqsOK
<1>6. FifosInv'
  BY <1>1, <1>2 DEF FormInv, FifosInv, Running
<1> QED
  BY <1>4, <1>5, <1>6 DEF FormInv

LEMMA FormPush == FormInv /\ PushCommand => FormInv'
<1> SUFFICES ASSUME FormInv, PushCommand PROVE FormInv'
  OBVIOUS
<1>1. /\ ipc = "push" /\ Len(txfifo) < FifoDepth
      /\ txfifo' = IF tx_abrt THEN txfifo ELSE Append(txfifo, Command)
      /\ IF msgs[mi].read THEN ipc' = "receive" /\ UNCHANGED <<mi, mj>> ELSE Advance
      /\ UNCHANGED <<i2c_ret, msgs, bytes, calls, ic_enable, ic_active, rxfifo, tx_abrt,
                     stop_det, bus, wire, stuck, hangs>>
  BY DEF PushCommand, PushIf, I2cAt, i2cRaw, i2cBus, i2cHang
<1>2. ipc \in Running
  BY <1>1 DEF Running
<1>3. /\ Command \in Commands /\ (Command.read <=> msgs[mi].read)
      /\ mi \in 1 .. Len(msgs) /\ mj \in 1 .. msgs[mi].length /\ msgs # <<>>
      /\ ic_enable /\ ic_active /\ rxfifo = <<>> /\ (tx_abrt => txfifo = <<>>)
  BY <1>1, <1>2, StopIsEnd DEF FormInv, FifosInv, Command
<1>4. /\ txfifo \in Seq(Commands) /\ Len(txfifo) \in Nat
      /\ \A n \in 1 .. Len(txfifo) : ~txfifo[n].read
  BY <1>1, LenProperties DEF FormInv, SeqsOK, FifosInv
<1>5. \/ ipc' = "receive" /\ mi' = mi /\ mj' = mj /\ Command.read
      \/ /\ ipc' = "push" /\ ~Command.read
         /\ mi' \in 1 .. Len(msgs) /\ mj' \in 1 .. msgs[mi'].length
      \/ /\ ipc' = "stop" /\ mi' = mi /\ mj' = mj /\ ~Command.read
         /\ mj = msgs[mi].length /\ Ends(msgs, mi)
  BY <1>1, <1>2, <1>3, AdvanceMoves
<1>6. /\ txfifo' \in Seq(Commands) /\ Len(txfifo') <= FifoDepth
      /\ \A n \in 1 .. Len(txfifo') : txfifo'[n].read => n = Len(txfifo') /\ Command.read
  <2>1. CASE tx_abrt
    <3>1. txfifo' = txfifo /\ Len(txfifo) <= FifoDepth
      BY <1>1, <2>1 DEF FormInv, I2cTypeOK
    <3> QED
      BY <1>4, <3>1
  <2>2. CASE ~tx_abrt
    <3>1. txfifo' = Append(txfifo, Command)
      BY <1>1, <2>2
    <3>2. /\ txfifo' \in Seq(Commands) /\ Len(txfifo') = Len(txfifo) + 1
          /\ txfifo'[Len(txfifo) + 1] = Command
          /\ \A n \in 1 .. Len(txfifo) : txfifo'[n] = txfifo[n]
      BY ONLY <1>3, <1>4, <3>1, AppendProperties
    <3>3. Len(txfifo) + 1 <= FifoDepth
      BY <1>1, <1>4, I2cAssumption DEF I2cAssumption
    <3>4. ASSUME NEW n \in 1 .. Len(txfifo') PROVE n \in 1 .. Len(txfifo) \/ n = Len(txfifo) + 1
      BY <1>4, <3>2
    <3> QED
      BY <1>4, <3>2, <3>3, <3>4
  <2> QED
    BY <2>1, <2>2
<1>7. I2cTypeOK'
  <2>1. mi' \in Nat /\ mj' \in Nat
    <3>1. Len(msgs) \in Nat /\ \A k \in 1 .. Len(msgs) : msgs[k].length \in Nat
      BY <1>3, MessageTypes DEF FormInv, I2cMsgs
    <3> QED
      BY <1>3, <1>5, <3>1
  <2> QED
    BY <1>1, <1>5, <1>6, <2>1 DEF FormInv, I2cTypeOK
<1>8. SeqsOK'
  BY <1>1, <1>6 DEF FormInv, SeqsOK
<1>9. FifosInv'
  <2>1. tx_abrt' => txfifo' = <<>>
    BY <1>1, <1>3
  <2>2. ipc' \in Running /\ i2c_ret' # "ok" /\ msgs' = msgs
    BY <1>1, <1>5 DEF FormInv, FifosInv, Running
  <2> QED
    BY <1>1, <1>3, <1>5, <1>6, <2>1, <2>2 DEF FormInv, FifosInv
<1> QED
  BY <1>7, <1>8, <1>9 DEF FormInv

LEMMA FormReceive == FormInv /\ ReceiveByte => FormInv'
<1> SUFFICES ASSUME FormInv, ReceiveByte PROVE FormInv'
  OBVIOUS
<1>1. /\ ipc = "receive" /\ rxfifo # <<>> /\ Advance
      /\ bytes' = Append(bytes, Head(rxfifo)) /\ rxfifo' = Tail(rxfifo)
      /\ UNCHANGED <<i2c_ret, msgs, calls, ic_enable, ic_active, txfifo, tx_abrt,
                     stop_det, bus, wire, stuck, hangs>>
  BY DEF ReceiveByte, I2cAt, i2cRaw, i2cBus, i2cHang
<1>2. ipc \in Running
  BY <1>1 DEF Running
<1>3. Head(rxfifo) \in ReadBytes /\ rxfifo' = <<>>
  <2>1. /\ Head(rxfifo) \in ReadBytes /\ Tail(rxfifo) \in Seq(ReadBytes)
        /\ Len(Tail(rxfifo)) = Len(rxfifo) - 1 /\ Len(rxfifo) \in Nat \ {0}
    BY <1>1, FifoTails DEF FormInv
  <2>2. Len(Tail(rxfifo)) = 0
    BY <2>1 DEF FormInv, I2cTypeOK
  <2> QED
    BY <1>1, <2>1, <2>2, EmptySeq
<1>4. bytes' \in Seq(ReadBytes) /\ rxfifo' \in Seq(ReadBytes) /\ Len(rxfifo') = 0
  <2>1. bytes \in Seq(ReadBytes)
    BY DEF FormInv, SeqsOK
  <2> QED
    BY ONLY <1>1, <1>3, <2>1, AppendProperties, EmptySeq
<1>5. \/ /\ ipc' = "push"
         /\ mi' \in 1 .. Len(msgs) /\ mj' \in 1 .. msgs[mi'].length
      \/ /\ ipc' = "stop" /\ mi' = mi /\ mj' = mj
         /\ mj = msgs[mi].length /\ Ends(msgs, mi)
  BY <1>1, <1>2, AdvanceMoves
<1>6. \A n \in 1 .. Len(txfifo) : ~txfifo[n].read
  BY <1>1 DEF FormInv, FifosInv
<1>7. /\ msgs # <<>> /\ ic_enable /\ ic_active /\ (tx_abrt => txfifo = <<>>)
      /\ mi \in 1 .. Len(msgs) /\ mj \in 1 .. msgs[mi].length /\ i2c_ret # "ok"
  BY <1>1, <1>2 DEF FormInv, FifosInv
<1>8. I2cTypeOK'
  <2>1. mi' \in Nat /\ mj' \in Nat
    <3>1. Len(msgs) \in Nat /\ \A k \in 1 .. Len(msgs) : msgs[k].length \in Nat
      BY <1>7, MessageTypes DEF FormInv, I2cMsgs
    <3> QED
      BY <1>5, <1>7, <3>1
  <2> QED
    BY <1>1, <1>4, <1>5, <2>1 DEF FormInv, I2cTypeOK
<1>9. SeqsOK'
  BY <1>1, <1>4 DEF FormInv, SeqsOK
<1>10. FifosInv'
  BY <1>1, <1>3, <1>5, <1>6, <1>7 DEF FormInv, FifosInv
<1> QED
  BY <1>8, <1>9, <1>10 DEF FormInv

LEMMA FormStopSeen == FormInv /\ StopSeen => FormInv'
<1> SUFFICES ASSUME FormInv, StopSeen PROVE FormInv'
  OBVIOUS
<1>1. /\ ipc = "stop" /\ ~tx_abrt /\ stop_det' = FALSE
      /\ IF mi = Len(msgs)
           THEN i2c_ret' = "ok" /\ ipc' = "idle" /\ UNCHANGED <<mi, mj>>
           ELSE i2c_ret' = "none" /\ ipc' = "push" /\ mi' = mi + 1 /\ mj' = 1
      /\ UNCHANGED <<msgs, bytes, calls, ic_enable, ic_active, txfifo, rxfifo, tx_abrt,
                     bus, wire, stuck, hangs>>
  BY DEF StopSeen, I2cAt, i2cFifos, i2cBus, i2cHang
<1>2. ipc \in Running
  BY <1>1 DEF Running
<1>3. /\ msgs # <<>> /\ mi \in 1 .. Len(msgs) /\ mj \in Nat /\ ic_enable /\ ic_active
      /\ Len(msgs) \in Nat \ {0} /\ \A k \in 1 .. Len(msgs) : msgs[k].length \in Nat \ {0}
  BY <1>2, MessageTypes DEF FormInv, FifosInv, I2cMsgs, I2cTypeOK
<1>4. mi' \in 1 .. Len(msgs) /\ mj' \in Nat /\ (ipc' = "push" => mj' \in 1 .. msgs[mi'].length)
  BY <1>1, <1>3
<1>5. I2cTypeOK'
  <2>1. stop_det' \in BOOLEAN
    BY <1>1
  <2> QED
    BY <1>1, <1>3, <1>4, <2>1 DEF FormInv, I2cTypeOK
<1>6. SeqsOK'
  BY <1>1 DEF FormInv, SeqsOK
<1>7. FifosInv'
  BY <1>1, <1>3, <1>4 DEF FormInv, FifosInv, Running
<1> QED
  BY <1>5, <1>6, <1>7 DEF FormInv

LEMMA FormStep == FormInv /\ [I2cNext]_i2cVars => FormInv'
<1> SUFFICES ASSUME FormInv, [I2cNext]_i2cVars PROVE FormInv'
  OBVIOUS
<1> USE DEF I2cAt, i2cCall, i2cFifos, i2cRaw, i2cBus, i2cHang
<1>1. CASE UNCHANGED i2cVars
  BY <1>1 DEF FormInv, I2cTypeOK, SeqsOK, FifosInv, i2cVars
<1>2. CASE TransferBegin
  <2>1. msgs' \in Transfers /\ Valid(msgs')
    BY <1>2 DEF TransferBegin
  <2>2. bytes' \in Seq(ReadBytes) /\ calls' \in 0 .. MaxCalls /\ mi' \in Nat /\ mj' \in Nat
    BY <1>2, I2cAssumption DEF TransferBegin, FormInv, I2cTypeOK, I2cAssumption
  <2>3. ipc' = "activity" /\ i2c_ret' = "none"
        /\ UNCHANGED <<ic_enable, ic_active, txfifo, rxfifo, tx_abrt, stop_det, bus, wire,
                       stuck, hangs>>
    BY <1>2 DEF TransferBegin
  <2>4. I2cTypeOK'
    BY <2>1, <2>2, <2>3 DEF FormInv, I2cTypeOK
  <2>5. SeqsOK'
    BY <2>2, <2>3 DEF FormInv, SeqsOK
  <2>6. FifosInv'
    <3>1. mi' = 1 /\ mj' = 1 /\ bytes' = <<>> /\ msgs' # <<>>
      BY <1>2, <2>1, I2cAssumption DEF TransferBegin, I2cAssumption
    <3> QED
      BY <2>1, <2>3, <3>1 DEF FormInv, FifosInv, Running
  <2> QED
    BY <2>4, <2>5, <2>6 DEF FormInv
<1>3. CASE TransferConfigure
  <2>1. /\ ipc' = "push" /\ ipc = "disable" /\ ic_enable' = TRUE /\ ic_active' = TRUE /\ wire' = <<>>
        /\ tx_abrt' = FALSE /\ stop_det' = FALSE /\ ~ic_active
        /\ UNCHANGED <<i2c_ret, msgs, mi, mj, bytes, calls, txfifo, rxfifo, bus, stuck, hangs>>
    BY <1>3 DEF TransferConfigure
  <2>2. txfifo = <<>> /\ rxfifo = <<>> /\ Len(txfifo) = 0
    BY <2>1, EmptySeq DEF FormInv, FifosInv
  <2>3. /\ msgs # <<>> /\ mi = 1 /\ mj = 1
        /\ mi \in 1 .. Len(msgs) /\ mj \in 1 .. msgs[mi].length
    <3>1. msgs # <<>> /\ mi = 1 /\ mj = 1
      BY <2>1 DEF FormInv, FifosInv
    <3>2. Len(msgs) \in Nat \ {0} /\ msgs[1].length \in Nat \ {0}
      BY <3>1, MessageTypes DEF FormInv, I2cMsgs
    <3> QED
      BY <3>1, <3>2
  <2>4. I2cTypeOK'
    <3>1. ic_enable' \in BOOLEAN /\ ic_active' \in BOOLEAN /\ tx_abrt' \in BOOLEAN
          /\ stop_det' \in BOOLEAN
      BY <2>1
    <3> QED
      BY <2>1, <3>1 DEF FormInv, I2cTypeOK
  <2>5. SeqsOK'
    <3>1. wire' \in Seq(BusEvents)
      BY <2>1
    <3> QED
      BY <2>1, <3>1 DEF FormInv, SeqsOK
  <2>6. FifosInv'
    BY <2>1, <2>2, <2>3 DEF FormInv, FifosInv, Running
  <2> QED
    BY <2>4, <2>5, <2>6 DEF FormInv
<1>4. CASE TransferIdle \/ TransferGivesUp \/ TransferBadFrequency
  BY <1>4 DEF TransferIdle, TransferGivesUp, TransferBadFrequency, FormInv, I2cTypeOK,
     SeqsOK, FifosInv, Running
<1>5. CASE WaitFails \/ StopFails \/ AbortDone
  BY <1>5 DEF WaitFails, StopFails, AbortDone, FormInv, I2cTypeOK,
     SeqsOK, FifosInv, Running
<1>6. CASE Reenable
  BY <1>6 DEF Reenable, FormInv, I2cTypeOK, SeqsOK, FifosInv, Running
<1>7. CASE Hang \/ Unhang
  <2>1. stuck' \in BOOLEAN /\ hangs' \in 0 .. MaxHangs
    <3>1. stuck' \in BOOLEAN
      BY <1>7 DEF Hang, Unhang
    <3>2. hangs' \in 0 .. MaxHangs
      BY <1>7, I2cAssumption DEF Hang, Unhang, FormInv, I2cTypeOK, I2cAssumption
    <3> QED
      BY <3>1, <3>2
  <2>2. UNCHANGED <<ipc, i2c_ret, msgs, mi, mj, bytes, calls, ic_enable, ic_active,
                    txfifo, rxfifo, tx_abrt, stop_det, bus, wire>>
    BY <1>7 DEF Hang, Unhang
  <2> QED
    BY <2>1, <2>2 DEF FormInv, I2cTypeOK, SeqsOK, FifosInv
<1> QED
  BY <1>1, <1>2, <1>3, <1>4, <1>5, <1>6, <1>7, FormByte, FormNack, FormDisabled, FormPush,
     FormReceive, FormStopSeen
  DEF I2cNext, TransferStep, WireStep
-----------------------------------------------------------------------------
(* The events of a message: its opening, its bytes, its end.               *)
ByteEvent(m, k, b) == IF m[k].read THEN <<"read">> ELSE <<"written", k, b>>

LEMMA ShortSeq ==
  ASSUME NEW S, NEW e \in S
  PROVE  /\ <<>> \in Seq(S) /\ Len(<<>>) = 0
         /\ <<e>> \in Seq(S) /\ Len(<<e>>) = 1 /\ <<e>>[1] = e
OBVIOUS

(* Putting nothing, or one event, after a sequence.                        *)
LEMMA PutAfter ==
  ASSUME NEW S, NEW s \in Seq(S), NEW e \in S
  PROVE  /\ s \o <<>> = s
         /\ s \o <<e>> = Append(s, e) /\ Append(s, e) \in Seq(S)
         /\ Len(s) \in Nat /\ Len(Append(s, e)) = Len(s) + 1
         /\ \A n \in 1 .. Len(s) : Append(s, e)[n] = s[n]
         /\ Append(s, e)[Len(s) + 1] = e
<1>1. s \o <<>> = s
  BY ConcatEmptySeq
<1>2. s \o <<e>> = Append(s, e)
  BY AppendIsConcat
<1> QED
  BY <1>1, <1>2, AppendProperties, LenProperties

LEMMA MeaningIs ==
  ASSUME NEW m \in Seq(I2cMsgs), NEW k \in 1 .. Len(m)
  PROVE  /\ Opens(m, k) \in {<<>>, <<<<"start">>>>, <<<<"restart">>>>}
         /\ Closes(m, k) \in {<<>>, <<<<"stop">>>>}
         /\ Len(Opens(m, k)) \in 0 .. 1 /\ Len(Closes(m, k)) \in 0 .. 1
         /\ m[k].length \in Nat \ {0}
         /\ Len(Meaning(m, k)) = Len(Opens(m, k)) + m[k].length + Len(Closes(m, k))
         /\ \A e \in 1 .. Len(Opens(m, k)) : Meaning(m, k)[e] = Opens(m, k)[e]
         /\ \A b \in 1 .. m[k].length : Meaning(m, k)[Len(Opens(m, k)) + b] = ByteEvent(m, k, b)
         /\ \A e \in 1 .. Len(Closes(m, k)) :
              Meaning(m, k)[Len(Opens(m, k)) + m[k].length + e] = Closes(m, k)[e]
<1> DEFINE S == {<<"start">>, <<"restart">>, <<"stop">>, <<"read">>} \cup ({"written"} \X Nat \X Nat)
           o == Opens(m, k)
           c == Closes(m, k)
           l == m[k].length
           body == [b \in 1 .. l |-> ByteEvent(m, k, b)]
<1>1. m[k] \in I2cMsgs /\ k \in Nat /\ l \in Nat \ {0}
  <2>1. m[k] \in I2cMsgs /\ k \in Nat
    BY ElementOfSeq, LenProperties
  <2> QED
    BY <2>1 DEF I2cMsgs
<1>2. o \in {<<>>, <<<<"start">>>>, <<<<"restart">>>>} /\ c \in {<<>>, <<<<"stop">>>>}
  BY DEF Opens, Closes
<1>3. o \in Seq(S) /\ Len(o) \in 0 .. 1 /\ c \in Seq(S) /\ Len(c) \in 0 .. 1
  <2>1. /\ <<"start">> \in S /\ <<"restart">> \in S /\ <<"stop">> \in S
    OBVIOUS
  <2> HIDE DEF S, o, c
  <2>2. \A s \in {<<>>, <<<<"start">>>>, <<<<"restart">>>>, <<<<"stop">>>>} :
          s \in Seq(S) /\ Len(s) \in 0 .. 1
    <3>1. \A e \in S : /\ <<>> \in Seq(S) /\ Len(<<>>) = 0
                       /\ <<e>> \in Seq(S) /\ Len(<<e>>) = 1
      BY ShortSeq
    <3>2. /\ <<<<"start">>>> \in Seq(S) /\ Len(<<<<"start">>>>) = 1
          /\ <<<<"restart">>>> \in Seq(S) /\ Len(<<<<"restart">>>>) = 1
          /\ <<<<"stop">>>> \in Seq(S) /\ Len(<<<<"stop">>>>) = 1
          /\ <<>> \in Seq(S) /\ Len(<<>>) = 0
      BY <2>1, <3>1, Zenon
    <3>3. 0 \in 0 .. 1 /\ 1 \in 0 .. 1
      OBVIOUS
    <3> QED
      BY ONLY <3>2, <3>3, Zenon
  <2> QED
    BY <1>2, <2>2
<1>4. body \in Seq(S) /\ Len(body) = l /\ \A b \in 1 .. l : body[b] = ByteEvent(m, k, b)
  <2>1. \A b \in 1 .. l : ByteEvent(m, k, b) \in S
    BY <1>1 DEF ByteEvent
  <2>2. l \in Nat
    BY <1>1
  <2> HIDE DEF S, l
  <2> QED
    BY <2>1, <2>2
<1>5. Meaning(m, k) = o \o body \o c
  BY DEF Meaning, ByteEvent
<1> HIDE DEF S, o, c, body, l
<1>6. o \o body \in Seq(S) /\ Len(o \o body) = Len(o) + l
      /\ (\A e \in 1 .. Len(o) : (o \o body)[e] = o[e])
      /\ \A b \in 1 .. l : (o \o body)[Len(o) + b] = body[b]
  <2>1. /\ o \o body \in Seq(S) /\ Len(o \o body) = Len(o) + Len(body)
        /\ \A e \in 1 .. Len(o) + Len(body) :
             (o \o body)[e] = IF e <= Len(o) THEN o[e] ELSE body[e - Len(o)]
    BY <1>3, <1>4, ConcatProperties
  <2>2. ASSUME NEW b \in 1 .. l
        PROVE  Len(o) + b \in 1 .. Len(o) + Len(body) /\ ~(Len(o) + b <= Len(o))
               /\ Len(o) + b - Len(o) = b
    BY <1>1, <1>3, <1>4
  <2>3. \A e \in 1 .. Len(o) : e \in 1 .. Len(o) + Len(body) /\ e <= Len(o)
    BY <1>1, <1>3, <1>4
  <2> QED
    BY <1>4, <2>1, <2>2, <2>3
<1> DEFINE ob == o \o body
<1>7. /\ Len(Meaning(m, k)) = Len(o) + l + Len(c)
      /\ \A e \in 1 .. Len(o) + l : Meaning(m, k)[e] = (o \o body)[e]
      /\ \A e \in 1 .. Len(c) : Meaning(m, k)[Len(o) + l + e] = c[e]
  <2>1. /\ Len(Meaning(m, k)) = Len(ob) + Len(c)
        /\ \A e \in 1 .. Len(ob) + Len(c) :
             Meaning(m, k)[e] = IF e <= Len(ob) THEN ob[e] ELSE c[e - Len(ob)]
    <3>1. Meaning(m, k) = ob \o c /\ ob \in Seq(S)
      BY <1>5, <1>6
    <3> HIDE DEF ob
    <3> QED
      BY <1>3, <3>1, ConcatProperties
  <2>2. \A e \in 1 .. Len(c) :
          Len(o) + l + e \in 1 .. Len(o) + l + Len(c) /\ ~(Len(o) + l + e <= Len(o) + l)
          /\ Len(o) + l + e - (Len(o) + l) = e
    BY <1>1, <1>3
  <2>3. \A e \in 1 .. Len(o) + l : e \in 1 .. Len(o) + l + Len(c) /\ e <= Len(o) + l
    BY <1>1, <1>3
  <2> QED
    BY <1>6, <2>1, <2>2, <2>3
<1>8. \A e \in 1 .. Len(o) : e \in 1 .. Len(o) + l
  BY <1>1, <1>3
<1>9. \A b \in 1 .. l : Len(o) + b \in 1 .. Len(o) + l
  BY <1>1, <1>3
<1> QED
  BY <1>1, <1>2, <1>3, <1>4, <1>6, <1>7, <1>8, <1>9 DEF o, c, l

(* The events w are those of the messages before i, and the first d of i's. *)
Sent(w, m, i, d) ==
  \E at \in [1 .. Len(m) + 1 -> 0 .. Len(w)] :
    /\ at[1] = 0
    /\ \A k \in 1 .. Len(m) : k < i => at[k + 1] = at[k] + Len(Meaning(m, k))
    /\ \A k \in 1 .. Len(m) : k < i =>
         \A e \in 1 .. Len(Meaning(m, k)) : Shape(w[at[k] + e]) = Meaning(m, k)[e]
    /\ Len(w) = at[i] + d
    /\ \A e \in 1 .. d : Shape(w[at[i] + e]) = Meaning(m, i)[e]

LEMMA AddAssoc ==
  ASSUME NEW a \in Nat, NEW b \in Nat
  PROVE  (a + b) + 1 = a + (b + 1)
OBVIOUS

(* The next event of a message goes over the bus.                          *)
LEMMA SentOne ==
  ASSUME NEW m \in Seq(I2cMsgs), NEW i \in 1 .. Len(m), NEW d \in Nat,
         NEW w \in Seq(BusEvents), Sent(w, m, i, d),
         NEW event \in BusEvents, Shape(event) = Meaning(m, i)[d + 1]
  PROVE  Sent(Append(w, event), m, i, d + 1)
<1> DEFINE v == Append(w, event)
<1>1. /\ Len(v) = Len(w) + 1 /\ Len(w) \in Nat /\ v[Len(w) + 1] = event
      /\ \A n \in 1 .. Len(w) : v[n] = w[n]
  BY PutAfter
<1> HIDE DEF v
<1>2. PICK at \in [1 .. Len(m) + 1 -> 0 .. Len(w)] :
        /\ at[1] = 0
        /\ \A k \in 1 .. Len(m) : k < i => at[k + 1] = at[k] + Len(Meaning(m, k))
        /\ \A k \in 1 .. Len(m) : k < i =>
             \A e \in 1 .. Len(Meaning(m, k)) : Shape(w[at[k] + e]) = Meaning(m, k)[e]
        /\ Len(w) = at[i] + d
        /\ \A e \in 1 .. d : Shape(w[at[i] + e]) = Meaning(m, i)[e]
  BY DEF Sent
<1>3. Len(m) \in Nat /\ i \in Nat
  BY LenProperties
<1>4. \A k \in 1 .. Len(m) + 1 : at[k] \in 0 .. Len(w)
  OBVIOUS
<1>5. at \in [1 .. Len(m) + 1 -> 0 .. Len(v)]
  BY <1>1, <1>4
<1>6. ASSUME NEW k \in 1 .. Len(m), k < i, NEW e \in 1 .. Len(Meaning(m, k))
      PROVE  Shape(v[at[k] + e]) = Meaning(m, k)[e]
  <2>1. at[k + 1] = at[k] + Len(Meaning(m, k)) /\ at[k] \in 0 .. Len(w) /\ at[k + 1] \in 0 .. Len(w)
    BY <1>2, <1>3, <1>4, <1>6
  <2>2. at[k] + e \in 1 .. Len(w)
    BY <1>1, <2>1, MeaningIs
  <2> QED
    BY <1>1, <1>2, <1>6, <2>2
<1>7. at[i] \in Nat /\ Len(w) = at[i] + d
  BY <1>2, <1>3, <1>4
<1>8. ASSUME NEW e \in 1 .. d + 1 PROVE Shape(v[at[i] + e]) = Meaning(m, i)[e]
  <2>1. CASE e = d + 1
    <3>1. at[i] + e = Len(w) + 1
      BY <1>7, <2>1, AddAssoc
    <3> QED
      BY <1>1, <2>1, <3>1
  <2>2. CASE e \in 1 .. d
    <3>1. at[i] + e \in 1 .. Len(w)
      BY <1>7, <2>2
    <3> QED
      BY <1>1, <1>2, <2>2, <3>1
  <2> QED
    BY <2>1, <2>2
<1>9. Len(v) = at[i] + (d + 1)
  BY <1>1, <1>7, AddAssoc
<1>10. Sent(v, m, i, d + 1)
  BY <1>2, <1>5, <1>6, <1>8, <1>9 DEF Sent
<1> QED
  BY <1>10 DEF v

(* A message all of whose events are on the bus is done.                   *)
LEMMA SentAll ==
  ASSUME NEW m \in Seq(I2cMsgs), NEW i \in 1 .. Len(m),
         NEW w \in Seq(BusEvents), Sent(w, m, i, Len(Meaning(m, i)))
  PROVE  Sent(w, m, i + 1, 0)
<1> DEFINE d == Len(Meaning(m, i))
<1>1. PICK at \in [1 .. Len(m) + 1 -> 0 .. Len(w)] :
        /\ at[1] = 0
        /\ \A k \in 1 .. Len(m) : k < i => at[k + 1] = at[k] + Len(Meaning(m, k))
        /\ \A k \in 1 .. Len(m) : k < i =>
             \A e \in 1 .. Len(Meaning(m, k)) : Shape(w[at[k] + e]) = Meaning(m, k)[e]
        /\ Len(w) = at[i] + d
        /\ \A e \in 1 .. d : Shape(w[at[i] + e]) = Meaning(m, i)[e]
  BY DEF Sent
<1>2. Len(m) \in Nat /\ i \in Nat /\ Len(w) \in Nat
  BY LenProperties
<1> DEFINE to == [at EXCEPT ![i + 1] = Len(w)]
<1>3. /\ to \in [1 .. Len(m) + 1 -> 0 .. Len(w)] /\ to[i + 1] = Len(w)
      /\ \A k \in 1 .. i : to[k] = at[k]
  <2>1. i + 1 \in 1 .. Len(m) + 1 /\ Len(w) \in 0 .. Len(w)
    BY <1>2
  <2>2. \A k \in 1 .. i : k \in 1 .. Len(m) + 1 /\ k # i + 1
    BY <1>2
  <2> QED
    BY <2>1, <2>2
<1> HIDE DEF to, d
<1>4. ASSUME NEW k \in 1 .. Len(m), k < i + 1
      PROVE  /\ to[k + 1] = to[k] + Len(Meaning(m, k))
             /\ \A e \in 1 .. Len(Meaning(m, k)) : Shape(w[to[k] + e]) = Meaning(m, k)[e]
  <2>1. CASE k = i
    <3>1. to[k] = at[k] /\ to[k + 1] = Len(w)
      BY <1>2, <1>3, <2>1
    <3> QED
      BY <1>1, <2>1, <3>1 DEF d
  <2>2. CASE k < i
    <3>1. k \in 1 .. i /\ k + 1 \in 1 .. i
      BY <1>2, <2>2
    <3>2. to[k] = at[k] /\ to[k + 1] = at[k + 1]
      BY <1>3, <3>1
    <3> QED
      BY <1>1, <2>2, <3>2
  <2> QED
    BY <1>2, <1>4, <2>1, <2>2
<1>5. to[1] = 0 /\ Len(w) = to[i + 1] + 0
  <2>1. 1 \in 1 .. i
    BY <1>2
  <2> QED
    BY <1>1, <1>2, <1>3, <2>1
<1>6. \A e \in 1 .. 0 : Shape(w[to[i + 1] + e]) = Meaning(m, i + 1)[e]
  OBVIOUS
<1> HIDE DEF Shape, Meaning
<1> QED
  BY ONLY <1>3, <1>4, <1>5, <1>6 DEF Sent

(* How many events of message i come before those of its byte j.           *)
Done(m, i, j) == IF j = 1 THEN 0 ELSE Len(Opens(m, i)) + j - 1

(* Byte j of message i goes over the bus, with what is due before and      *)
(* after it.                                                               *)
LEMMA SentMore ==
  ASSUME NEW m \in Seq(I2cMsgs), NEW i \in 1 .. Len(m), NEW j \in 1 .. m[i].length,
         NEW w \in Seq(BusEvents), Sent(w, m, i, Done(m, i, j)),
         NEW byte \in BusEvents, Shape(byte) = ByteEvent(m, i, j),
         NEW x, x = (IF j = 1 THEN Opens(m, i) ELSE <<>>),
         NEW z, z = (IF j = m[i].length THEN Closes(m, i) ELSE <<>>),
         NEW p, p = After(m, <<i, j>>)
  PROVE  Sent(w \o x \o <<byte>> \o z, m, p[1], Done(m, p[1], p[2]))
<1> DEFINE o == Len(Opens(m, i))
           c == Len(Closes(m, i))
           l == m[i].length
           u == w \o x
           v == Append(u, byte)
<1>1. /\ o \in 0 .. 1 /\ c \in 0 .. 1 /\ l \in Nat \ {0}
      /\ Len(Meaning(m, i)) = o + l + c
      /\ \A e \in 1 .. o : Meaning(m, i)[e] = Opens(m, i)[e]
      /\ \A b \in 1 .. l : Meaning(m, i)[o + b] = ByteEvent(m, i, b)
      /\ \A e \in 1 .. c : Meaning(m, i)[o + l + e] = Closes(m, i)[e]
      /\ Opens(m, i) \in {<<>>, <<<<"start">>>>, <<<<"restart">>>>}
      /\ Closes(m, i) \in {<<>>, <<<<"stop">>>>}
  BY MeaningIs
<1>2. /\ i \in Nat /\ j \in Nat \ {0}
  BY <1>1, LenProperties
<1>3. /\ \A e \in {<<"start">>, <<"restart">>, <<"stop">>} : e \in BusEvents /\ Shape(e) = e
  BY DEF BusEvents, Marks, Shape, IsRead
<1>4. u \in Seq(BusEvents) /\ Sent(u, m, i, o + (j - 1))
  <2>1. CASE x = <<>> /\ Done(m, i, j) = o + (j - 1)
    <3>1. u = w
      BY <1>3, <2>1, PutAfter
    <3> QED
      BY <2>1, <3>1
  <2>2. CASE j = 1 /\ x # <<>>
    <3>1. PICK e \in {<<"start">>, <<"restart">>} : x = <<e>> /\ Opens(m, i) = <<e>>
      BY <1>1, <2>2
    <3>2. o = 1 /\ Meaning(m, i)[0 + 1] = e /\ Done(m, i, j) = 0
      <4>1. o = 1 /\ Opens(m, i)[1] = e /\ 1 \in 1 .. o
        BY <3>1
      <4> QED
        BY <1>1, <2>2, <4>1 DEF Done
    <3>3. Sent(Append(w, e), m, i, 0 + 1)
      BY <1>3, <3>1, <3>2, SentOne
    <3>4. u = Append(w, e) /\ Append(w, e) \in Seq(BusEvents)
      BY <1>3, <3>1, PutAfter
    <3>5. o + (j - 1) = 0 + 1
      BY <2>2, <3>2
    <3> QED
      BY <3>3, <3>4, <3>5
  <2>3. x = <<>> => Done(m, i, j) = o + (j - 1)
    <3>1. CASE j = 1
      BY <1>1, <3>1 DEF Done
    <3>2. CASE j # 1
      BY <1>1, <1>2, <3>2 DEF Done
    <3> QED
      BY <3>1, <3>2
  <2> QED
    BY <2>1, <2>2, <2>3
<1> HIDE DEF u
<1>5. /\ v \in Seq(BusEvents) /\ w \o x \o <<byte>> = v /\ Sent(v, m, i, o + j)
  <2>1. v \in Seq(BusEvents) /\ u \o <<byte>> = v
    BY <1>4, PutAfter
  <2>2. o + (j - 1) \in Nat /\ (o + (j - 1)) + 1 = o + j
    BY <1>1, <1>2
  <2>3. Shape(byte) = Meaning(m, i)[(o + (j - 1)) + 1]
    BY <1>1, <2>2
  <2>4. Sent(v, m, i, (o + (j - 1)) + 1)
    BY <1>4, <2>2, <2>3, SentOne
  <2> QED
    BY <2>1, <2>2, <2>4 DEF u
<1> HIDE DEF v
<1>6. CASE j < l
  <2>1. p[1] = i /\ p[2] = j + 1 /\ z = <<>>
    BY <1>6, <1>2, <1>1 DEF After
  <2>2. Done(m, i, j + 1) = o + j
    BY <1>1, <1>2 DEF Done
  <2>3. v \o z = v
    BY <1>3, <1>5, <2>1, PutAfter
  <2> QED
    BY <1>5, <2>1, <2>2, <2>3
<1>7. CASE j = l
  <2>1. p[1] = i + 1 /\ p[2] = 1 /\ z = Closes(m, i)
    BY <1>7, <1>1 DEF After
  <2>2. Done(m, i + 1, 1) = 0
    BY DEF Done
  <2>3. v \o z \in Seq(BusEvents) /\ Sent(v \o z, m, i, Len(Meaning(m, i)))
    <3>1. CASE z = <<>>
      <4>1. v \o z = v /\ Len(Meaning(m, i)) = o + j
        BY <1>1, <1>3, <1>5, <1>7, <2>1, <3>1, PutAfter
      <4> QED
        BY <1>5, <4>1
    <3>2. CASE z = <<<<"stop">>>>
      <4>1. v \o z = Append(v, <<"stop">>) /\ Append(v, <<"stop">>) \in Seq(BusEvents)
        <5>1. <<"stop">> \in BusEvents /\ v \in Seq(BusEvents)
          BY <1>3, <1>5
        <5>2. v \o <<<<"stop">>>> = Append(v, <<"stop">>) /\ Append(v, <<"stop">>) \in Seq(BusEvents)
          BY <5>1, PutAfter
        <5> QED
          BY ONLY <3>2, <5>2
      <4>2. c = 1 /\ Meaning(m, i)[(o + j) + 1] = <<"stop">> /\ Len(Meaning(m, i)) = (o + j) + 1
        <5>1. c = 1 /\ Closes(m, i)[1] = <<"stop">>
          BY <2>1, <3>2
        <5>2. 1 \in 1 .. c /\ o + l + 1 = (o + j) + 1
          BY <1>7, <5>1
        <5> QED
          BY <1>1, <5>1, <5>2
      <4>3. Sent(Append(v, <<"stop">>), m, i, (o + j) + 1)
        <5>1. o + j \in Nat
          BY <1>1, <1>2
        <5> QED
          BY <1>3, <1>5, <4>2, <5>1, SentOne
      <4> QED
        BY <4>1, <4>2, <4>3
    <3> QED
      BY <1>1, <2>1, <3>1, <3>2
  <2>4. Sent(v \o z, m, i + 1, 0)
    BY <2>3, SentAll
  <2> QED
    BY <1>5, <2>1, <2>2, <2>4
<1> QED
  BY <1>1, <1>2, <1>6, <1>7

(* An event that reads nothing, and one that reads a byte.                 *)
LEMMA ReadSame ==
  ASSUME NEW w \in Seq(BusEvents), NEW b \in Seq(ReadBytes), ReadIn(w, b),
         NEW event \in BusEvents, ~IsRead(event)
  PROVE  ReadIn(Append(w, event), b)
<1> DEFINE v == Append(w, event)
<1>1. /\ Len(v) = Len(w) + 1 /\ Len(w) \in Nat /\ v[Len(w) + 1] = event
      /\ \A n \in 1 .. Len(w) : v[n] = w[n]
  BY PutAfter
<1> HIDE DEF v
<1>2. PICK at \in [1 .. Len(b) -> 1 .. Len(w)] :
        /\ \A n \in 1 .. Len(b) : b[n] = w[at[n]] /\ IsRead(b[n])
        /\ \A n \in 1 .. Len(b) - 1 : at[n] < at[n + 1]
        /\ \A k \in 1 .. Len(w) : IsRead(w[k]) => \E n \in 1 .. Len(b) : at[n] = k
  BY DEF ReadIn
<1>3. at \in [1 .. Len(b) -> 1 .. Len(v)] /\ \A n \in 1 .. Len(b) : v[at[n]] = w[at[n]]
  BY <1>1
<1>4. ASSUME NEW k \in 1 .. Len(v), IsRead(v[k]) PROVE \E n \in 1 .. Len(b) : at[n] = k
  <2>1. k \in 1 .. Len(w)
    <3>1. k # Len(w) + 1
      BY <1>1, <1>4
    <3> QED
      BY <1>1, <3>1
  <2> QED
    BY <1>1, <1>2, <1>4, <2>1
<1>5. ReadIn(v, b)
  <2>1. \A n \in 1 .. Len(b) : b[n] = v[at[n]] /\ IsRead(b[n])
    BY <1>2, <1>3
  <2>2. \A k \in 1 .. Len(v) : IsRead(v[k]) => \E n \in 1 .. Len(b) : at[n] = k
    BY <1>4
  <2> HIDE DEF IsRead
  <2> QED
    BY ONLY <1>2, <1>3, <2>1, <2>2 DEF ReadIn
<1> QED
  BY <1>5 DEF v

LEMMA ReadMore ==
  ASSUME NEW w \in Seq(BusEvents), NEW b \in Seq(ReadBytes), ReadIn(w, b),
         NEW event \in ReadBytes
  PROVE  ReadIn(Append(w, event), Append(b, event))
<1> DEFINE v == Append(w, event)
           c == Append(b, event)
<1>1. /\ Len(v) = Len(w) + 1 /\ Len(w) \in Nat /\ v[Len(w) + 1] = event
      /\ \A n \in 1 .. Len(w) : v[n] = w[n]
  <2>1. event \in BusEvents
    BY DEF BusEvents
  <2> QED
    BY <2>1, PutAfter
<1>2. /\ Len(c) = Len(b) + 1 /\ Len(b) \in Nat /\ c[Len(b) + 1] = event
      /\ \A n \in 1 .. Len(b) : c[n] = b[n]
  BY PutAfter
<1>3. IsRead(event)
  BY DEF IsRead, ReadBytes
<1> HIDE DEF v, c
<1>4. PICK at \in [1 .. Len(b) -> 1 .. Len(w)] :
        /\ \A n \in 1 .. Len(b) : b[n] = w[at[n]] /\ IsRead(b[n])
        /\ \A n \in 1 .. Len(b) - 1 : at[n] < at[n + 1]
        /\ \A k \in 1 .. Len(w) : IsRead(w[k]) => \E n \in 1 .. Len(b) : at[n] = k
  BY DEF ReadIn
<1> DEFINE to == [n \in 1 .. Len(c) |-> IF n \in 1 .. Len(b) THEN at[n] ELSE Len(w) + 1]
<1>5. /\ to \in [1 .. Len(c) -> 1 .. Len(v)]
      /\ \A n \in 1 .. Len(b) : to[n] = at[n] /\ at[n] \in 1 .. Len(w) /\ n \in 1 .. Len(c)
      /\ to[Len(b) + 1] = Len(w) + 1 /\ Len(b) + 1 \in 1 .. Len(c)
  <2>1. \A n \in 1 .. Len(b) : at[n] \in 1 .. Len(w) /\ at[n] \in 1 .. Len(v)
    BY <1>1
  <2>2. \A n \in 1 .. Len(c) : (IF n \in 1 .. Len(b) THEN at[n] ELSE Len(w) + 1) \in 1 .. Len(v)
    BY <1>1, <1>2, <2>1
  <2>3. to \in [1 .. Len(c) -> 1 .. Len(v)]
    BY <2>2
  <2>4. Len(b) + 1 \in 1 .. Len(c) /\ Len(b) + 1 \notin 1 .. Len(b)
        /\ \A n \in 1 .. Len(b) : n \in 1 .. Len(c)
    BY <1>2
  <2>5. \A n \in 1 .. Len(c) : to[n] = IF n \in 1 .. Len(b) THEN at[n] ELSE Len(w) + 1
    OBVIOUS
  <2> HIDE DEF to
  <2> QED
    BY <2>1, <2>3, <2>4, <2>5
<1> HIDE DEF to
<1>6. ASSUME NEW n \in 1 .. Len(c) PROVE c[n] = v[to[n]] /\ IsRead(c[n])
  <2>1. CASE n \in 1 .. Len(b)
    BY <1>1, <1>2, <1>4, <1>5, <2>1
  <2>2. CASE n = Len(b) + 1
    BY <1>1, <1>2, <1>3, <1>5, <2>2
  <2> QED
    BY <1>2, <2>1, <2>2
<1>7. ASSUME NEW n \in 1 .. Len(c) - 1 PROVE to[n] < to[n + 1]
  <2>1. n \in 1 .. Len(b)
    BY <1>2
  <2>2. CASE n = Len(b)
    BY <1>1, <1>5, <2>1, <2>2
  <2>3. CASE n # Len(b)
    <3>1. n \in 1 .. Len(b) - 1 /\ n + 1 \in 1 .. Len(b)
      BY <1>2, <2>1, <2>3
    <3> QED
      BY <1>4, <1>5, <2>1, <3>1
  <2> QED
    BY <2>2, <2>3
<1>8. ASSUME NEW k \in 1 .. Len(v), IsRead(v[k]) PROVE \E n \in 1 .. Len(c) : to[n] = k
  <2>1. CASE k = Len(w) + 1
    BY <1>5, <2>1
  <2>2. CASE k \in 1 .. Len(w)
    <3>1. PICK n \in 1 .. Len(b) : at[n] = k
      BY <1>1, <1>4, <1>8, <2>2
    <3> QED
      BY <1>5, <3>1
  <2> QED
    BY <1>1, <2>1, <2>2
<1>9. ReadIn(v, c)
  BY <1>5, <1>6, <1>7, <1>8 DEF ReadIn
<1> QED
  BY <1>9 DEF v, c
-----------------------------------------------------------------------------
(* The place of the next byte to be pushed, and of the next on the bus.    *)
Here == IF ipc = "push" THEN <<mi, mj>> ELSE After(msgs, <<mi, mj>>)
Due == IF txfifo = <<>> THEN Here ELSE Place(txfifo[1])

(* What the bus is left in before the byte at p.                           *)
BusAt(m, p) ==
  IF p[2] > 1 THEN Direction(m[p[1]])
  ELSE IF p[1] = 1 \/ Ends(m, p[1] - 1) THEN "idle"
  ELSE Direction(m[p[1] - 1])

(* The events w on the bus are those of all the bytes of m before p, the   *)
(* bytes read among them b, and the bus is left in s.                      *)
UpTo(m, p, w, b, s) ==
  /\ s = BusAt(m, p)
  /\ Sent(w, m, p[1], Done(m, p[1], p[2])) /\ ReadIn(w, b)

(* The commands queued are those of consecutive bytes, up to the one the   *)
(* driver is at; a STOP is only in the last, and seen when it is out.      *)
Links(m, q) ==
  \A n \in 1 .. Len(q) :
    /\ IsPlace(m, Place(q[n]))
    /\ q[n] = Cmd(m, Place(q[n])[1], Place(q[n])[2])
    /\ n < Len(q) => Place(q[n + 1]) = After(m, Place(q[n])) /\ ~q[n].stop

Linked == Links(msgs, txfifo)

Latest ==
  txfifo # <<>> =>
    /\ Here = After(msgs, Place(txfifo[Len(txfifo)]))
    /\ ipc = "push" => ~txfifo[Len(txfifo)].stop
    /\ ipc # "push" => Place(txfifo[Len(txfifo)]) = <<mi, mj>>

StopDet ==
  /\ ipc = "push" => ~stop_det
  /\ ipc = "receive" => /\ txfifo = <<>> <=> rxfifo # <<>>
                        /\ stop_det <=> txfifo = <<>> /\ Cmd(msgs, mi, mj).stop
  /\ ipc = "stop" => (stop_det <=> txfifo = <<>>)

GoodInv ==
  /\ ipc \in Running /\ ~tx_abrt =>
       Linked /\ Latest /\ StopDet /\ UpTo(msgs, Due, wire, bytes \o rxfifo, bus)
  /\ i2c_ret = "ok" => SuccessMeansDone

(* The controller's choice of START, RESTART or nothing is the message's.  *)
LEMMA OpeningIs ==
  ASSUME NEW m \in Seq(I2cMsgs), Valid(m), NEW i \in 1 .. Len(m), NEW j \in 1 .. m[i].length,
         bus = BusAt(m, <<i, j>>)
  PROVE  Opening(Cmd(m, i, j)) = IF j = 1 THEN Opens(m, i) ELSE <<>>
<1> DEFINE cmd == Cmd(m, i, j)
<1>1. /\ cmd.read = m[i].read
      /\ cmd.restart <=> i > 1 /\ ~m[i].nostart /\ m[i - 1].nostop /\ j = 1
  BY DEF Cmd
<1>2. Len(m) \in Nat /\ i \in Nat /\ j \in Nat \ {0}
  <2>1. m[i].length \in Nat \ {0}
    BY MeaningIs
  <2> QED
    BY <2>1, LenProperties
<1>3. \A c : Direction(c) # "idle"
  BY DEF Direction
<1>4. \A k \in 1 .. Len(m) : Direction(m[k]) = Direction(cmd) <=> (m[k].read <=> m[i].read)
  BY <1>1 DEF Direction
<1> HIDE DEF cmd
<1>5. CASE j > 1
  <2>1. bus = Direction(m[i])
    BY <1>5 DEF BusAt
  <2>2. ~cmd.restart /\ j # 1
    BY <1>1, <1>2, <1>5
  <2>3. bus = Direction(cmd)
    BY <1>4, <2>1
  <2>4. Opening(cmd) = <<>>
    BY <1>3, <2>2, <2>3 DEF Opening, OpensSegment
  <2> QED
    BY <2>2, <2>4 DEF cmd
<1>6. CASE j = 1 /\ (i = 1 \/ Ends(m, i - 1))
  <2>1. Opening(cmd) = <<<<"start">>>>
    <3>1. bus = "idle"
      BY <1>6 DEF BusAt
    <3> QED
      BY <3>1 DEF Opening
  <2>2. ~m[i].nostart
    BY <1>2, <1>6 DEF Valid, Ends
  <2> QED
    BY <1>6, <2>1, <2>2 DEF cmd, Opens
<1>7. CASE j = 1 /\ i # 1 /\ ~Ends(m, i - 1)
  <2>1. i - 1 \in 1 .. Len(m) /\ i \in 2 .. Len(m) /\ i > 1
    BY <1>2, <1>7
  <2>2. bus = Direction(m[i - 1]) /\ bus # "idle"
    BY <1>3, <1>7 DEF BusAt
  <2>3. m[i - 1].nostop \/ m[i].nostart
    BY <1>2, <1>7 DEF Ends
  <2>4. CASE m[i].nostart
    <3>1. ~cmd.restart /\ bus = Direction(cmd)
      BY <1>1, <1>4, <2>1, <2>2, <2>4 DEF Valid
    <3>2. Opening(cmd) = <<>>
      BY <2>2, <3>1 DEF Opening, OpensSegment
    <3> QED
      BY <1>7, <2>4, <3>2 DEF Opens, cmd
  <2>5. CASE ~m[i].nostart
    <3>1. cmd.restart
      BY <1>1, <1>7, <2>1, <2>3, <2>5
    <3>2. Opening(cmd) = <<<<"restart">>>>
      BY <2>2, <3>1 DEF Opening, OpensSegment
    <3> QED
      BY <1>7, <2>5, <3>2 DEF Opens, cmd
  <2> QED
    BY <2>4, <2>5
<1> QED
  BY <1>2, <1>5, <1>6, <1>7
-----------------------------------------------------------------------------
LEMMA MsgsSeq ==
  ASSUME I2cTypeOK, msgs # <<>> PROVE msgs \in Seq(I2cMsgs)
BY I2cAssumption DEF I2cAssumption, I2cTypeOK

(* The next command's byte on the bus: the events of all bytes before the  *)
(* next place are then there, and the byte is among those read if it is.   *)
LEMMA NextByteOut ==
  ASSUME FormInv, GoodInv, ipc \in Running, ~tx_abrt, WireByte
  PROVE  /\ UpTo(msgs, Due, wire, bytes \o rxfifo, bus) /\ Due = Place(Head(txfifo))
         /\ IsPlace(msgs, Due) /\ Head(txfifo) = Cmd(msgs, Due[1], Due[2])
         /\ UpTo(msgs, After(msgs, Due), wire', bytes' \o rxfifo', bus')
<1> DEFINE cmd == Head(txfifo)
           i == Due[1]
           j == Due[2]
           byte == IF cmd.read THEN <<"read", calls, Len(wire)>> ELSE cmd.byte
           x == Opening(cmd)
           z == IF cmd.stop THEN <<<<"stop">>>> ELSE <<>>
           b == bytes \o rxfifo
<1>1. /\ Linked /\ UpTo(msgs, Due, wire, b, bus) /\ txfifo # <<>> /\ SeqsOK /\ I2cTypeOK
      /\ msgs # <<>> /\ Valid(msgs)
  BY DEF GoodInv, WireByte, WireReady, FormInv, FifosInv
<1>2. cmd = txfifo[1] /\ cmd \in Commands /\ 1 \in 1 .. Len(txfifo)
  <2>1. txfifo \in Seq(Commands) /\ Len(txfifo) \in Nat \ {0}
    BY <1>1, EmptySeq, LenProperties DEF SeqsOK
  <2> QED
    BY <1>1, <2>1, HeadTailProperties, ElementOfSeq
<1>3. Due = Place(cmd) /\ Due = <<i, j>> /\ cmd = Cmd(msgs, i, j) /\ IsPlace(msgs, Due)
  <2>1. Due = Place(cmd)
    BY <1>1, <1>2 DEF Due
  <2>2. Due = <<i, j>>
    BY <2>1 DEF Place
  <2>3. IsPlace(msgs, Place(txfifo[1])) /\ txfifo[1] = Cmd(msgs, Place(txfifo[1])[1], Place(txfifo[1])[2])
    BY <1>1, <1>2 DEF Linked, Links
  <2> HIDE DEF Due, Place, IsPlace, Cmd
  <2> QED
    BY <1>2, <2>1, <2>2, <2>3
<1>4. msgs \in Seq(I2cMsgs) /\ i \in 1 .. Len(msgs) /\ j \in 1 .. msgs[i].length
  BY <1>1, <1>3, MsgsSeq DEF IsPlace
<1>5. /\ bus = BusAt(msgs, <<i, j>>) /\ Sent(wire, msgs, i, Done(msgs, i, j)) /\ ReadIn(wire, b)
      /\ wire \in Seq(BusEvents) /\ bytes \in Seq(ReadBytes) /\ rxfifo \in Seq(ReadBytes)
  BY <1>1, <1>3 DEF UpTo, SeqsOK
<1>6. /\ cmd.read = msgs[i].read /\ cmd.byte = <<"written", i, j>>
      /\ cmd.stop <=> Ends(msgs, i) /\ j = msgs[i].length
  <2>1. /\ Cmd(msgs, i, j).read = msgs[i].read /\ Cmd(msgs, i, j).byte = <<"written", i, j>>
        /\ Cmd(msgs, i, j).stop = (Ends(msgs, i) /\ j = msgs[i].length)
    BY DEF Cmd
  <2> HIDE DEF cmd, i, j
  <2> QED
    BY <1>3, <2>1
<1>7. i \in Nat /\ j \in Nat /\ calls \in Nat /\ Len(wire) \in Nat
  <2>1. Len(msgs) \in Nat /\ msgs[i].length \in Nat
    BY <1>4, MeaningIs, LenProperties
  <2> QED
    BY <1>1, <1>4, <1>5, <2>1, LenProperties, I2cAssumption DEF I2cTypeOK, I2cAssumption
<1>8. /\ byte \in BusEvents /\ Shape(byte) = ByteEvent(msgs, i, j)
      /\ cmd.read => byte \in ReadBytes
      /\ ~cmd.read => ~IsRead(byte)
  <2>1. CASE cmd.read
    <3>1. byte = <<"read", calls, Len(wire)>>
      BY <2>1
    <3> QED
      BY <1>6, <1>7, <2>1, <3>1 DEF ReadBytes, BusEvents, Shape, IsRead, ByteEvent
  <2>2. CASE ~cmd.read
    <3>1. byte = <<"written", i, j>>
      BY <1>6, <2>2
    <3> QED
      BY <1>6, <1>7, <2>2, <3>1 DEF BusEvents, Shape, IsRead, ByteEvent
  <2> QED
    BY <2>1, <2>2
<1>9. /\ x = (IF j = 1 THEN Opens(msgs, i) ELSE <<>>)
      /\ z = (IF j = msgs[i].length THEN Closes(msgs, i) ELSE <<>>)
  <2>1. x = (IF j = 1 THEN Opens(msgs, i) ELSE <<>>)
    BY <1>1, <1>3, <1>4, <1>5, OpeningIs
  <2>2. z = (IF j = msgs[i].length THEN Closes(msgs, i) ELSE <<>>)
    BY <1>6 DEF Closes
  <2> QED
    BY <2>1, <2>2
<1>10. /\ wire' = wire \o x \o <<byte>> \o z
       /\ rxfifo' = (IF cmd.read THEN Append(rxfifo, byte) ELSE rxfifo)
       /\ bus' = (IF cmd.stop THEN "idle" ELSE Direction(cmd))
       /\ msgs' = msgs /\ bytes' = bytes
  BY DEF WireByte, i2cCall
<1> DEFINE p == After(msgs, Due)
<1>11. Sent(wire', msgs, p[1], Done(msgs, p[1], p[2]))
  <2> HIDE DEF i, j, x, z, byte, p, Due
  <2>1. p = After(msgs, <<i, j>>)
    BY <1>3 DEF p
  <2>2. Sent(wire \o x \o <<byte>> \o z, msgs, p[1], Done(msgs, p[1], p[2]))
    BY <1>4, <1>5, <1>8, <1>9, <2>1, SentMore
  <2> QED
    BY <1>10, <2>2
<1>12. ReadIn(wire', bytes \o rxfifo')
  <2> DEFINE u == wire \o x
             c == IF cmd.read THEN Append(b, byte) ELSE b
             v == Append(u, byte)
  <2>1. /\ x \in {<<>>, <<<<"start">>>>, <<<<"restart">>>>} /\ z \in {<<>>, <<<<"stop">>>>}
    <3>1. x \in {<<>>, <<<<"start">>>>, <<<<"restart">>>>}
      BY DEF Opening
    <3> QED
      BY <3>1
  <2>2. \A e \in {<<"start">>, <<"restart">>, <<"stop">>} : e \in BusEvents /\ ~IsRead(e)
    BY DEF BusEvents, Marks, IsRead
  <2>3. b \in Seq(ReadBytes) /\ bytes \o rxfifo' = c /\ c \in Seq(ReadBytes)
    <3>1. b \in Seq(ReadBytes)
      BY <1>5, ConcatProperties
    <3>2. CASE ~cmd.read
      BY <1>10, <3>1, <3>2
    <3>3. CASE cmd.read
      <4>1. byte \in ReadBytes /\ rxfifo' = Append(rxfifo, byte)
        BY <1>8, <1>10, <3>3
      <4> HIDE DEF byte
      <4>2. /\ Append(rxfifo, byte) = rxfifo \o <<byte>> /\ Append(b, byte) = b \o <<byte>>
            /\ <<byte>> \in Seq(ReadBytes) /\ Append(b, byte) \in Seq(ReadBytes)
        <5>1. Append(rxfifo, byte) = rxfifo \o <<byte>>
          BY <1>5, <4>1, PutAfter
        <5>2. Append(b, byte) = b \o <<byte>> /\ Append(b, byte) \in Seq(ReadBytes)
          <6> HIDE DEF b
          <6> QED
            BY <3>1, <4>1, PutAfter
        <5>3. <<byte>> \in Seq(ReadBytes)
          BY <4>1, ShortSeq
        <5> QED
          BY <5>1, <5>2, <5>3
      <4>3. bytes \o (rxfifo \o <<byte>>) = (bytes \o rxfifo) \o <<byte>>
        BY <1>5, <4>2, ConcatAssociative
      <4> QED
        BY <3>3, <4>1, <4>2, <4>3
    <3> QED
      BY <3>2, <3>3
  <2> HIDE DEF x, z, byte, b
  <2>4. u \in Seq(BusEvents) /\ ReadIn(u, b)
    <3>1. CASE x = <<>>
      <4>1. u = wire
        BY <1>5, <1>8, <3>1, PutAfter
      <4> QED
        BY <1>5, <4>1
    <3>2. ASSUME NEW e \in {<<"start">>, <<"restart">>}, x = <<e>>
          PROVE  u \in Seq(BusEvents) /\ ReadIn(u, b)
      <4>1. e \in BusEvents /\ ~IsRead(e)
        BY <2>2
      <4>2. u = Append(wire, e) /\ Append(wire, e) \in Seq(BusEvents)
        BY <1>5, <3>2, <4>1, PutAfter
      <4>3. ReadIn(Append(wire, e), b)
        BY <1>5, <2>3, <4>1, ReadSame
      <4> QED
        BY <4>2, <4>3
    <3> HIDE DEF u
    <3>3. x = <<<<"start">>>> => u \in Seq(BusEvents) /\ ReadIn(u, b)
      BY <3>2
    <3>4. x = <<<<"restart">>>> => u \in Seq(BusEvents) /\ ReadIn(u, b)
      BY <3>2
    <3> QED
      BY <2>1, <3>1, <3>3, <3>4
  <2> HIDE DEF u
  <2>5. v \in Seq(BusEvents) /\ wire \o x \o <<byte>> = v /\ ReadIn(v, c)
    <3>1. v \in Seq(BusEvents) /\ u \o <<byte>> = v
      BY <1>8, <2>4, PutAfter
    <3>2. ReadIn(v, c)
      <4>1. CASE cmd.read
        BY <1>8, <2>3, <2>4, <4>1, ReadMore
      <4>2. CASE ~cmd.read
        BY <1>8, <2>3, <2>4, <4>2, ReadSame
      <4> QED
        BY <4>1, <4>2
    <3> QED
      BY <3>1, <3>2 DEF u
  <2> HIDE DEF v, c
  <2>6. ReadIn(v \o z, c)
    <3>1. CASE z = <<>>
      <4>1. v \o z = v
        BY <1>8, <2>5, <3>1, PutAfter
      <4> QED
        BY <2>5, <4>1
    <3>2. CASE z = <<<<"stop">>>>
      <4>1. <<"stop">> \in BusEvents /\ ~IsRead(<<"stop">>)
        BY <2>2
      <4>2. v \o <<<<"stop">>>> = Append(v, <<"stop">>)
        BY <2>5, <4>1, PutAfter
      <4>3. ReadIn(Append(v, <<"stop">>), c)
        BY <2>3, <2>5, <4>1, ReadSame
      <4> QED
        BY ONLY <3>2, <4>2, <4>3
    <3> QED
      BY <2>1, <3>1, <3>2
  <2> QED
    BY <1>10, <2>3, <2>5, <2>6
<1>13. bus' = BusAt(msgs, p)
  <2>1. Direction(cmd) = Direction(msgs[i])
    BY <1>6 DEF Direction
  <2>2. CASE j < msgs[i].length
    <3>1. p[1] = i /\ p[2] = j + 1 /\ ~cmd.stop /\ p[2] > 1
      BY <1>3, <1>4, <1>6, <1>7, <2>2, MeaningIs DEF After
    <3> HIDE DEF p, i, j
    <3> QED
      BY <1>10, <2>1, <3>1 DEF BusAt
  <2>3. CASE j = msgs[i].length
    <3>1. p[1] = i + 1 /\ p[2] = 1 /\ (cmd.stop <=> Ends(msgs, i))
      BY <1>3, <1>6, <2>3, MeaningIs, <1>4 DEF After
    <3>2. p[1] # 1 /\ p[1] - 1 = i /\ ~(p[2] > 1)
      BY <1>4, <1>7, <3>1
    <3> HIDE DEF p, i, j
    <3> QED
      BY <1>10, <2>1, <3>1, <3>2 DEF BusAt
  <2> QED
    BY <1>4, <1>7, <2>2, <2>3, MeaningIs
<1> QED
  BY <1>1, <1>3, <1>10, <1>11, <1>12, <1>13 DEF UpTo

LEMMA GoodByte == FormInv /\ GoodInv /\ WireByte => GoodInv'
<1> SUFFICES ASSUME FormInv, GoodInv, WireByte PROVE GoodInv'
  OBVIOUS
<1>1. /\ txfifo # <<>> /\ ~tx_abrt /\ txfifo' = Tail(txfifo)
      /\ stop_det' = (stop_det \/ Head(txfifo).stop)
      /\ rxfifo' = (IF Head(txfifo).read
                    THEN Append(rxfifo, IF Head(txfifo).read THEN <<"read", calls, Len(wire)>>
                                        ELSE Head(txfifo).byte)
                    ELSE rxfifo)
      /\ UNCHANGED <<ipc, i2c_ret, msgs, mi, mj, bytes, tx_abrt>>
  BY DEF WireByte, WireReady, i2cCall
<1>2. i2c_ret # "ok"
  BY <1>1 DEF GoodInv, SuccessMeansDone
<1>3. SUFFICES ASSUME ipc \in Running PROVE (Linked /\ Latest /\ StopDet
                 /\ UpTo(msgs, Due, wire, bytes \o rxfifo, bus))'
  BY <1>1, <1>2 DEF GoodInv
<1> DEFINE cmd == Head(txfifo)
           N == Len(txfifo)
<1>4. /\ UpTo(msgs, After(msgs, Due), wire', bytes' \o rxfifo', bus') /\ Due = Place(cmd)
      /\ IsPlace(msgs, Due) /\ cmd = Cmd(msgs, Due[1], Due[2])
  BY <1>1, <1>3, NextByteOut
<1>5. /\ cmd = txfifo[1] /\ N \in Nat \ {0} /\ 1 \in 1 .. N
      /\ Tail(txfifo) \in Seq(Commands) /\ Len(Tail(txfifo)) = N - 1
      /\ \A n \in 1 .. N - 1 : Tail(txfifo)[n] = txfifo[n + 1]
  BY <1>1, FifoTails DEF FormInv
<1>6. Linked /\ Latest /\ StopDet /\ FifosInv
  BY <1>1, <1>3 DEF GoodInv, FormInv
<1>7. /\ \A n \in 1 .. Len(txfifo') : txfifo'[n] = txfifo[n + 1] /\ n + 1 \in 1 .. N
      /\ Len(txfifo') = N - 1 /\ Here' = Here
  BY <1>1, <1>5 DEF Here
<1> HIDE DEF cmd
<1>8. Linked'
  <2> SUFFICES ASSUME NEW n \in 1 .. Len(txfifo')
               PROVE  /\ IsPlace(msgs, Place(txfifo'[n]))
                      /\ txfifo'[n] = Cmd(msgs, Place(txfifo'[n])[1], Place(txfifo'[n])[2])
                      /\ n < Len(txfifo') =>
                           Place(txfifo'[n + 1]) = After(msgs, Place(txfifo'[n]))
                           /\ ~txfifo'[n].stop
    <3>1. Links(msgs, txfifo')
      BY DEF Links
    <3> QED
      BY <1>1, <3>1 DEF Linked
  <2>1. txfifo'[n] = txfifo[n + 1] /\ n + 1 \in 1 .. N
    BY <1>7
  <2>2. n < Len(txfifo') => txfifo'[n + 1] = txfifo[(n + 1) + 1] /\ n + 1 < N
    BY <1>5, <1>7
  <2> HIDE DEF N
  <2> QED
    BY <1>6, <2>1, <2>2 DEF Linked, Links, N
<1>9. CASE N = 1
  <2>1. txfifo' = <<>>
    BY <1>5, <1>7, <1>9, <1>1, EmptySeq
  <2>2. /\ Here = After(msgs, Due) /\ (ipc = "push" => ~cmd.stop)
        /\ ipc # "push" => Due = <<mi, mj>>
    BY <1>1, <1>4, <1>5, <1>6, <1>9 DEF Latest
  <2>3. Due' = After(msgs, Due)
    BY <1>7, <2>1, <2>2 DEF Due
  <2>4. Latest'
    BY <2>1 DEF Latest
  <2>5. ipc # "push" => cmd = Cmd(msgs, mi, mj)
    BY <1>4, <2>2
  <2>6. StopDet'
    <3>1. CASE ipc = "push"
      BY <1>1, <1>6, <2>2, <3>1 DEF StopDet, cmd
    <3>2. CASE ipc = "receive"
      <4>1. cmd.read
        <5>1. msgs[mi].read
          BY <1>6, <3>2 DEF FifosInv
        <5> QED
          BY <2>5, <3>2, <5>1 DEF Cmd
      <4>2. rxfifo' # <<>>
        <5>1. rxfifo' = Append(rxfifo, <<"read", calls, Len(wire)>>)
          BY <1>1, <4>1 DEF cmd
        <5>2. rxfifo \in Seq(ReadBytes) /\ <<"read", calls, Len(wire)>> \in ReadBytes
          BY LenProperties, I2cAssumption
          DEF FormInv, I2cTypeOK, SeqsOK, I2cAssumption, ReadBytes
        <5> QED
          BY <5>1, <5>2, AppendProperties, EmptySeq
      <4>3. ~stop_det
        BY <1>1, <1>6, <3>2 DEF StopDet
      <4>4. stop_det' <=> Cmd(msgs, mi, mj).stop
        BY <1>1, <2>5, <3>2, <4>3 DEF cmd
      <4> QED
        BY <1>1, <2>1, <3>2, <4>2, <4>4 DEF StopDet, Cmd, Ends
    <3>3. CASE ipc = "stop"
      <4>1. cmd.stop
        <5>1. Ends(msgs, mi) /\ mj = msgs[mi].length
          BY <1>6, <3>3 DEF FifosInv
        <5>2. Cmd(msgs, mi, mj).stop
          BY <5>1 DEF Cmd
        <5> QED
          BY <2>5, <3>3, <5>2
      <4> QED
        BY <1>1, <2>1, <3>3, <4>1 DEF StopDet, cmd
    <3> QED
      BY <1>3, <3>1, <3>2, <3>3 DEF Running
  <2> QED
    BY <1>1, <1>4, <1>8, <2>3, <2>4, <2>6
<1>10. CASE N > 1
  <2>1. txfifo' # <<>> /\ txfifo'[1] = txfifo[2] /\ txfifo'[Len(txfifo')] = txfifo[N]
        /\ 1 < N
    <3>1. Len(txfifo') \in Nat \ {0} /\ 1 \in 1 .. Len(txfifo')
          /\ Len(txfifo') \in 1 .. Len(txfifo') /\ Len(txfifo') + 1 = N /\ 1 + 1 = 2
      BY <1>5, <1>7, <1>10
    <3> QED
      BY <1>7, <1>10, <3>1, EmptySeq
  <2>2. Place(txfifo[2]) = After(msgs, Due) /\ ~cmd.stop
    <3>1. Place(txfifo[1 + 1]) = After(msgs, Place(txfifo[1])) /\ ~txfifo[1].stop
      BY <1>5, <1>6, <2>1 DEF Linked, Links
    <3> QED
      BY <1>4, <1>5, <3>1
  <2>3. Due' = After(msgs, Due)
    BY <2>1, <2>2 DEF Due
  <2>4. Latest'
    <3>1. /\ Here = After(msgs, Place(txfifo[N])) /\ (ipc = "push" => ~txfifo[N].stop)
          /\ ipc # "push" => Place(txfifo[N]) = <<mi, mj>>
      BY <1>1, <1>6 DEF Latest
    <3> HIDE DEF N
    <3> QED
      BY <1>1, <1>7, <2>1, <3>1 DEF Latest, After, Place
  <2>5. ~cmd.read
    <3>1. txfifo[1].read => 1 = N
      BY <1>5, <1>6 DEF FifosInv
    <3> HIDE DEF N
    <3> QED
      BY <1>5, <1>10, <3>1
  <2>6. StopDet'
    <3>1. rxfifo' = rxfifo /\ (stop_det' <=> stop_det)
      BY <1>1, <2>2, <2>5 DEF cmd
    <3> QED
      BY <1>1, <1>6, <2>1, <3>1 DEF StopDet
  <2> QED
    BY <1>1, <1>4, <1>8, <2>3, <2>4, <2>6
<1> QED
  BY <1>5, <1>9, <1>10

(* A command pushed is for the byte the driver is at.                      *)
LEMMA GoodPush == FormInv /\ GoodInv /\ PushCommand => GoodInv'
<1> SUFFICES ASSUME FormInv, GoodInv, PushCommand PROVE GoodInv'
  OBVIOUS
<1>1. /\ ipc = "push"
      /\ txfifo' = (IF tx_abrt THEN txfifo ELSE Append(txfifo, Command))
      /\ IF msgs[mi].read THEN ipc' = "receive" /\ UNCHANGED <<mi, mj>> ELSE Advance
      /\ UNCHANGED <<i2c_ret, msgs, bytes, rxfifo, tx_abrt, stop_det, bus, wire>>
  BY DEF PushCommand, PushIf, I2cAt, i2cRaw, i2cBus
<1>2. ipc \in Running /\ FifosInv
  BY <1>1 DEF Running, FormInv
<1>3. i2c_ret # "ok"
  BY <1>1, <1>2 DEF FifosInv
<1>4. SUFFICES ASSUME ~tx_abrt PROVE (Linked /\ Latest /\ StopDet
                 /\ UpTo(msgs, Due, wire, bytes \o rxfifo, bus))'
  BY <1>1, <1>3 DEF GoodInv
<1>5. Linked /\ Latest /\ StopDet /\ UpTo(msgs, Due, wire, bytes \o rxfifo, bus)
  BY <1>2, <1>4 DEF GoodInv
<1>6. /\ Command = Cmd(msgs, mi, mj) /\ Command \in Commands
      /\ Place(Command) = <<mi, mj>> /\ IsPlace(msgs, <<mi, mj>>)
  BY <1>2, StopIsEnd
<1> DEFINE N == Len(txfifo)
           here == After(msgs, <<mi, mj>>)
<1>7. /\ Here = <<mi, mj>> /\ Here' = here
      /\ ipc' = "push" => ~Command.stop
      /\ ipc' # "push" => mi' = mi /\ mj' = mj
      /\ ipc' \in Running
  <2>1. Here = <<mi, mj>>
    BY <1>1 DEF Here
  <2>2. CASE msgs[mi].read
    BY <1>1, <2>1, <2>2 DEF Here, After, Running
  <2>3. CASE ~msgs[mi].read
    <3>1. \/ /\ ipc' = "push" /\ <<mi', mj'>> = After(msgs, <<mi, mj>>) /\ ~Command.stop
          \/ ipc' = "stop" /\ mi' = mi /\ mj' = mj
      BY <1>1, <1>2, <2>3, AdvanceMoves
    <3> QED
      BY <1>1, <2>1, <3>1 DEF Here, After, Running
  <2> QED
    BY <2>2, <2>3
<1>8. /\ N \in Nat /\ txfifo' = Append(txfifo, Command) /\ Len(txfifo') = N + 1
      /\ \A n \in 1 .. N : txfifo'[n] = txfifo[n]
      /\ txfifo'[N + 1] = Command /\ txfifo' # <<>>
  <2>1. txfifo \in Seq(Commands) /\ txfifo' = Append(txfifo, Command)
    BY <1>1, <1>4 DEF FormInv, SeqsOK
  <2>2. Len(txfifo) \in Nat /\ Len(Append(txfifo, Command)) = Len(txfifo) + 1
    BY <1>6, <2>1, PutAfter
  <2>3. Append(txfifo, Command) # <<>>
    BY <2>2, EmptySeq
  <2> QED
    BY <1>6, <2>1, <2>2, <2>3, PutAfter
<1> HIDE DEF here
<1>9. Linked'
  <2> SUFFICES ASSUME NEW n \in 1 .. Len(txfifo')
               PROVE  /\ IsPlace(msgs, Place(txfifo'[n]))
                      /\ txfifo'[n] = Cmd(msgs, Place(txfifo'[n])[1], Place(txfifo'[n])[2])
                      /\ n < Len(txfifo') =>
                           Place(txfifo'[n + 1]) = After(msgs, Place(txfifo'[n]))
                           /\ ~txfifo'[n].stop
    <3>1. Links(msgs, txfifo')
      BY DEF Links
    <3> QED
      BY <1>1, <3>1 DEF Linked
  <2>1. CASE n = N + 1
    <3>1. txfifo'[n] = Command /\ ~(n < Len(txfifo'))
      BY <1>8, <2>1
    <3>2. Place(Command)[1] = mi /\ Place(Command)[2] = mj
      BY <1>6
    <3> QED
      BY <1>6, <3>1, <3>2
  <2>2. CASE n = N
    <3>1. txfifo'[n] = txfifo[N] /\ N \in 1 .. N /\ txfifo'[n + 1] = Command /\ txfifo # <<>>
      BY <1>8, <2>2, EmptySeq
    <3>2. /\ IsPlace(msgs, Place(txfifo[N]))
          /\ txfifo[N] = Cmd(msgs, Place(txfifo[N])[1], Place(txfifo[N])[2])
      BY <1>5, <3>1 DEF Linked, Links
    <3>3. <<mi, mj>> = After(msgs, Place(txfifo[N])) /\ ~txfifo[N].stop
      BY <1>1, <1>5, <1>7, <3>1 DEF Latest
    <3> HIDE DEF N
    <3> QED
      BY <1>6, <3>1, <3>2, <3>3
  <2>3. CASE n < N
    <3>1. n \in 1 .. N /\ n + 1 \in 1 .. N /\ txfifo'[n] = txfifo[n] /\ txfifo'[n + 1] = txfifo[n + 1]
      BY <1>8, <2>3
    <3> HIDE DEF N
    <3> QED
      BY <1>5, <2>3, <3>1 DEF Linked, Links, N
  <2> QED
    BY <1>8, <2>1, <2>2, <2>3
<1>10. Latest'
  <2>1. /\ Here' = After(msgs, Place(Command)) /\ txfifo'[Len(txfifo')] = Command
        /\ Place(Command) = <<mi, mj>> /\ (ipc' # "push" => <<mi', mj'>> = <<mi, mj>>)
    BY <1>6, <1>7, <1>8 DEF here
  <2> QED
    BY <1>1, <1>7, <2>1 DEF Latest, After, Place
<1>11. StopDet'
  BY <1>1, <1>2, <1>5, <1>7, <1>8 DEF StopDet, FifosInv, Running
<1>12. Due' = Due
  <2>1. CASE txfifo = <<>>
    <3>1. N = 0 /\ txfifo'[1] = Command
      BY <1>8, <2>1
    <3> QED
      BY <1>6, <1>7, <1>8, <2>1, <3>1 DEF Due, Place
  <2>2. CASE txfifo # <<>>
    <3>1. 1 \in 1 .. N
      BY <1>8, <2>2, EmptySeq DEF FormInv, SeqsOK
    <3>2. txfifo'[1] = txfifo[1]
      BY <1>8, <3>1
    <3> QED
      BY <1>8, <2>2, <3>2 DEF Due, Place
  <2> QED
    BY <2>1, <2>2
<1> QED
  BY <1>1, <1>5, <1>9, <1>10, <1>11, <1>12

(* A byte received waits in the FIFO, then in the buffer.                  *)
LEMMA GoodReceive == FormInv /\ GoodInv /\ ReceiveByte => GoodInv'
<1> SUFFICES ASSUME FormInv, GoodInv, ReceiveByte PROVE GoodInv'
  OBVIOUS
<1>1. /\ ipc = "receive" /\ rxfifo # <<>> /\ Advance
      /\ bytes' = Append(bytes, Head(rxfifo)) /\ rxfifo' = Tail(rxfifo)
      /\ UNCHANGED <<i2c_ret, msgs, txfifo, tx_abrt, stop_det, bus, wire>>
  BY DEF ReceiveByte, I2cAt, i2cRaw, i2cBus
<1>2. ipc \in Running /\ FifosInv
  BY <1>1 DEF Running, FormInv
<1>3. i2c_ret # "ok"
  BY <1>1, <1>2 DEF FifosInv
<1>4. SUFFICES ASSUME ~tx_abrt PROVE (Linked /\ Latest /\ StopDet
                 /\ UpTo(msgs, Due, wire, bytes \o rxfifo, bus))'
  BY <1>1, <1>3 DEF GoodInv
<1>5. Linked /\ Latest /\ StopDet /\ UpTo(msgs, Due, wire, bytes \o rxfifo, bus)
  BY <1>2, <1>4 DEF GoodInv
<1>6. rxfifo' = <<>> /\ bytes' \o rxfifo' = bytes \o rxfifo
  <2>1. rxfifo \in Seq(ReadBytes) /\ bytes \in Seq(ReadBytes) /\ Len(rxfifo) <= 1
    BY DEF FormInv, SeqsOK, I2cTypeOK
  <2>2. /\ Head(rxfifo) \in ReadBytes /\ Tail(rxfifo) \in Seq(ReadBytes) /\ Len(rxfifo) \in Nat \ {0}
        /\ Len(Tail(rxfifo)) = Len(rxfifo) - 1 /\ Head(rxfifo) = rxfifo[1]
    BY <1>1, FifoTails DEF FormInv
  <2>3. Tail(rxfifo) = <<>> /\ Len(rxfifo) = 1
    <3>1. Len(rxfifo) = 1 /\ Len(Tail(rxfifo)) = 0
      BY <2>1, <2>2
    <3> QED
      BY <2>2, <3>1, EmptySeq
  <2>4. rxfifo = <<Head(rxfifo)>>
    BY <2>1, <2>2, <2>3
  <2>5. bytes \o <<Head(rxfifo)>> = Append(bytes, Head(rxfifo))
        /\ Append(bytes, Head(rxfifo)) \in Seq(ReadBytes)
    BY <2>1, <2>2, PutAfter
  <2>6. Append(bytes, Head(rxfifo)) \o <<>> = Append(bytes, Head(rxfifo))
    BY <2>2, <2>5, PutAfter
  <2> QED
    BY ONLY <1>1, <2>3, <2>4, <2>5, <2>6
<1>7. txfifo = <<>> /\ (stop_det <=> Cmd(msgs, mi, mj).stop) /\ Command = Cmd(msgs, mi, mj)
  BY <1>1, <1>2, <1>5, StopIsEnd DEF StopDet
<1>8. \/ ipc' = "push" /\ <<mi', mj'>> = After(msgs, <<mi, mj>>) /\ ~Command.stop
      \/ ipc' = "stop" /\ mi' = mi /\ mj' = mj /\ Command.stop
  BY <1>1, <1>2, AdvanceMoves
<1>9. Due' = Due /\ Here' = Here
  <2>1. Here' = Here
    BY <1>1, <1>8 DEF Here, After
  <2> QED
    BY <1>1, <1>7, <2>1 DEF Due
<1>10. StopDet'
  BY <1>1, <1>7, <1>8 DEF StopDet
<1>11. Linked' /\ Latest'
  BY <1>1, <1>5, <1>7 DEF Linked, Latest
<1>12. UpTo(msgs', Due', wire', bytes' \o rxfifo', bus')
  BY <1>1, <1>5, <1>6, <1>9
<1> QED
  BY <1>10, <1>11, <1>12

(* The STOP seen is that of the message; when it is of the last message,   *)
(* everything due is on the bus.                                           *)
LEMMA GoodStopSeen == FormInv /\ GoodInv /\ StopSeen => GoodInv'
<1> SUFFICES ASSUME FormInv, GoodInv, StopSeen PROVE GoodInv'
  OBVIOUS
<1>1. /\ ipc = "stop" /\ stop_det /\ ~tx_abrt /\ stop_det' = FALSE
      /\ IF mi = Len(msgs)
           THEN i2c_ret' = "ok" /\ ipc' = "idle" /\ UNCHANGED <<mi, mj>>
           ELSE i2c_ret' = "none" /\ ipc' = "push" /\ mi' = mi + 1 /\ mj' = 1
      /\ UNCHANGED <<msgs, bytes, txfifo, rxfifo, tx_abrt, bus, wire>>
  BY DEF StopSeen, I2cAt, i2cFifos, i2cBus
<1>2. ipc \in Running /\ FifosInv
  BY <1>1 DEF Running, FormInv
<1>3. Linked /\ Latest /\ StopDet /\ UpTo(msgs, Due, wire, bytes \o rxfifo, bus)
  BY <1>1, <1>2 DEF GoodInv
<1>4. txfifo = <<>> /\ rxfifo = <<>> /\ mj = msgs[mi].length /\ msgs # <<>>
      /\ Ends(msgs, mi)
  BY <1>1, <1>2, <1>3 DEF StopDet, FifosInv
<1>5. msgs \in Seq(I2cMsgs) /\ mi \in 1 .. Len(msgs) /\ Len(msgs) \in Nat \ {0}
      /\ msgs[mi].length \in Nat
  <2>1. msgs \in Seq(I2cMsgs) /\ mi \in 1 .. Len(msgs) /\ Len(msgs) \in Nat \ {0}
    BY <1>2, <1>4, MsgsSeq, MessageTypes DEF FormInv, FifosInv
  <2> QED
    BY <2>1, MeaningIs
<1>6. Due = <<mi + 1, 1>>
  BY <1>1, <1>4, <1>5 DEF Due, Here, After
<1>7. bytes \o rxfifo = bytes
  BY <1>4, PutAfter, ConcatEmptySeq DEF FormInv, SeqsOK
<1>8. Sent(wire, msgs, mi + 1, 0) /\ ReadIn(wire, bytes) /\ bus = "idle"
  <2>1. Sent(wire, msgs, mi + 1, 0) /\ ReadIn(wire, bytes)
    <3>1. Due[1] = mi + 1 /\ Due[2] = 1 /\ Done(msgs, mi + 1, 1) = 0
      BY <1>6 DEF Done
    <3> QED
      BY <1>3, <1>7, <3>1 DEF UpTo
  <2>2. bus = "idle"
    <3>1. BusAt(msgs, Due) = "idle"
      BY <1>4, <1>5, <1>6 DEF BusAt
    <3> QED
      BY <1>3, <3>1 DEF UpTo
  <2> QED
    BY <2>1, <2>2
<1>9. CASE mi = Len(msgs)
  <2>1. Says(wire, msgs)
    <3>1. Sent(wire, msgs, Len(msgs) + 1, 0)
      BY <1>8, <1>9
    <3>2. PICK at \in [1 .. Len(msgs) + 1 -> 0 .. Len(wire)] :
            /\ at[1] = 0
            /\ \A k \in 1 .. Len(msgs) : k < Len(msgs) + 1 => at[k + 1] = at[k] + Len(Meaning(msgs, k))
            /\ \A k \in 1 .. Len(msgs) : k < Len(msgs) + 1 =>
                 \A e \in 1 .. Len(Meaning(msgs, k)) : Shape(wire[at[k] + e]) = Meaning(msgs, k)[e]
            /\ Len(wire) = at[Len(msgs) + 1] + 0
      BY <3>1 DEF Sent
    <3>3. at[Len(msgs) + 1] = Len(wire)
      <4>1. at[Len(msgs) + 1] \in 0 .. Len(wire)
        BY <1>5
      <4>2. Len(wire) \in Nat
        BY LenProperties DEF FormInv, SeqsOK
      <4> QED
        BY <3>2, <4>1, <4>2
    <3>4. \A k \in 1 .. Len(msgs) : k < Len(msgs) + 1
      BY <1>5
    <3> QED
      BY <3>2, <3>3, <3>4 DEF Says
  <2>2. ipc' = "idle"
    BY <1>1, <1>9
  <2>3. SuccessMeansDone'
    BY <1>1, <1>4, <1>8, <2>1 DEF SuccessMeansDone
  <2> QED
    BY <2>2, <2>3 DEF GoodInv, Running
<1>10. CASE mi # Len(msgs)
  <2>1. i2c_ret' = "none" /\ ipc' = "push" /\ mi' = mi + 1 /\ mj' = 1
    BY <1>1, <1>10
  <2>2. Due' = Due
    BY <1>1, <1>4, <1>6, <2>1 DEF Due, Here
  <2>3. StopDet' /\ Linked' /\ Latest'
    BY <1>1, <1>3, <1>4, <2>1 DEF StopDet, Linked, Latest
  <2>4. UpTo(msgs', Due', wire', bytes' \o rxfifo', bus')
    BY <1>1, <1>3, <2>2
  <2> QED
    BY <2>1, <2>3, <2>4 DEF GoodInv
<1> QED
  BY <1>9, <1>10

(* A transfer starts with the FIFOs empty, the bus idle and nothing sent.  *)
LEMMA GoodConfigure == FormInv /\ GoodInv /\ TransferConfigure => GoodInv'
<1> SUFFICES ASSUME FormInv, GoodInv, TransferConfigure PROVE GoodInv'
  OBVIOUS
<1>1. /\ ipc = "disable" /\ ~ic_active /\ stop_det' = FALSE /\ wire' = <<>> /\ ipc' = "push"
      /\ UNCHANGED <<i2c_ret, msgs, mi, mj, bytes, txfifo, rxfifo, bus>>
  BY DEF TransferConfigure, I2cAt, i2cFifos
<1>2. /\ i2c_ret # "ok" /\ msgs # <<>> /\ mi = 1 /\ mj = 1 /\ bytes = <<>>
      /\ txfifo = <<>> /\ rxfifo = <<>> /\ bus = "idle"
  BY <1>1 DEF FormInv, FifosInv
<1>3. Due' = <<1, 1>>
  BY <1>1, <1>2 DEF Due, Here
<1>4. Linked' /\ Latest' /\ StopDet'
  <2>1. Links(msgs, <<>>)
    BY DEF Links
  <2> QED
    BY <1>1, <1>2, <2>1 DEF Linked, Latest, StopDet
<1>5. <<>> \o <<>> = <<>> /\ Len(<<>>) = 0
  OBVIOUS
<1>6. UpTo(msgs, <<1, 1>>, <<>>, <<>>, "idle")
  <2>1. BusAt(msgs, <<1, 1>>) = "idle"
    BY DEF BusAt
  <2>2. Done(msgs, 1, 1) = 0
    BY DEF Done
  <2>3. Sent(<<>>, msgs, 1, 0)
    <3> DEFINE at == [k \in 1 .. Len(msgs) + 1 |-> 0]
    <3>1. Len(msgs) \in Nat \ {0}
      BY <1>2, MessageTypes DEF FormInv
    <3>2. at \in [1 .. Len(msgs) + 1 -> 0 .. Len(<<>>)] /\ at[1] = 0
      BY <1>5, <3>1
    <3>3. \A k \in 1 .. Len(msgs) : ~(k < 1)
      OBVIOUS
    <3>4. Len(<<>>) = at[1] + 0 /\ \A e \in 1 .. 0 : FALSE
      BY <1>5, <3>2
    <3> HIDE DEF at
    <3> QED
      BY <3>2, <3>3, <3>4 DEF Sent
  <2>4. ReadIn(<<>>, <<>>)
    <3> DEFINE at == [n \in 1 .. 0 |-> 0]
    <3>1. at \in [1 .. 0 -> 1 .. 0]
      OBVIOUS
    <3>2. (\A n \in 1 .. 0 : FALSE) /\ \A n \in 1 .. 0 - 1 : FALSE
      OBVIOUS
    <3> HIDE DEF at
    <3> QED
      BY <1>5, <3>1, <3>2 DEF ReadIn
  <2> QED
    BY <2>1, <2>2, <2>3, <2>4 DEF UpTo
<1>7. UpTo(msgs', Due', wire', bytes' \o rxfifo', bus')
  BY <1>1, <1>2, <1>3, <1>5, <1>6
<1> QED
  BY <1>1, <1>2, <1>4, <1>7 DEF GoodInv

LEMMA GoodStep == FormInv /\ GoodInv /\ [I2cNext]_i2cVars => GoodInv'
<1> SUFFICES ASSUME FormInv, GoodInv, [I2cNext]_i2cVars PROVE GoodInv'
  OBVIOUS
<1>1. CASE ipc' \notin Running /\ i2c_ret' # "ok"
  BY <1>1 DEF GoodInv
<1>2. ipc # "idle" => i2c_ret # "ok"
  BY DEF FormInv, FifosInv
<1>3. CASE TransferBegin \/ TransferIdle \/ TransferGivesUp \/ TransferBadFrequency
  <2>1. ipc' \notin Running
    BY <1>3 DEF TransferBegin, TransferIdle, TransferGivesUp, TransferBadFrequency, Running
  <2>2. i2c_ret' # "ok"
    BY <1>2, <1>3 DEF TransferBegin, TransferIdle, TransferGivesUp, TransferBadFrequency, I2cAt
  <2> QED
    BY <1>1, <2>1, <2>2
<1>4. CASE WaitFails \/ StopFails \/ AbortDone \/ Reenable
  <2>1. ipc' \notin Running
    BY <1>4 DEF WaitFails, StopFails, AbortDone, Reenable, Running
  <2>2. i2c_ret' # "ok"
    BY <1>2, <1>4 DEF WaitFails, StopFails, AbortDone, Reenable, I2cAt
  <2> QED
    BY <1>1, <2>1, <2>2
<1>5. CASE WireNack
  <2>1. txfifo # <<>> /\ tx_abrt' /\ i2c_ret' = i2c_ret
    BY <1>5 DEF WireNack, WireReady, i2cCall
  <2>2. i2c_ret # "ok"
    BY <2>1 DEF GoodInv, SuccessMeansDone
  <2> QED
    BY <2>1, <2>2 DEF GoodInv
<1>6. CASE Disabled
  <2>1. /\ ~ic_enable /\ txfifo' = <<>> /\ rxfifo' = <<>> /\ bus' = "idle"
        /\ wire' = (IF bus = "idle" THEN wire ELSE Append(wire, <<"stop">>))
        /\ ipc' = ipc /\ i2c_ret' = i2c_ret /\ msgs' = msgs /\ bytes' = bytes
    BY <1>6 DEF Disabled, i2cCall
  <2>2. ipc \notin Running
    BY <2>1 DEF FormInv, FifosInv
  <2>3. i2c_ret = "ok" => SuccessMeansDone'
    BY <2>1 DEF GoodInv, SuccessMeansDone
  <2> QED
    BY <2>1, <2>2, <2>3 DEF GoodInv
<1>7. CASE Hang \/ Unhang \/ UNCHANGED i2cVars
  <2>1. UNCHANGED <<ipc, i2c_ret, msgs, mi, mj, bytes, txfifo, rxfifo, tx_abrt, stop_det,
                    bus, wire>>
    BY <1>7 DEF Hang, Unhang, i2cVars, i2cCall, i2cFifos, i2cRaw, i2cBus
  <2>2. Here' = Here /\ (SuccessMeansDone => SuccessMeansDone')
    BY <2>1 DEF Here, SuccessMeansDone
  <2>3. Due' = Due
    BY <2>1, <2>2 DEF Due
  <2>4. (Linked => Linked') /\ (Latest => Latest') /\ (StopDet => StopDet')
    BY <2>1, <2>2 DEF Linked, Latest, StopDet
  <2> QED
    BY <2>1, <2>2, <2>3, <2>4 DEF GoodInv
<1> QED
  BY <1>3, <1>4, <1>5, <1>6, <1>7, GoodByte, GoodPush, GoodReceive, GoodStopSeen, GoodConfigure
  DEF I2cNext, TransferStep, WireStep

(* The bus in a transfer that succeeds carries exactly what its messages   *)
(* mean, whatever the slave refused, however the bus hung and whichever    *)
(* wait timed out in transfers before it, and what it returns is what was  *)
(* read in it (transfer_locked, hw_transfer).                              *)
THEOREM TransfersAreDone == I2cSpec => []SuccessMeansDone
<1>1. I2cInit => FormInv /\ GoodInv
  <2>1. I2cInit => GoodInv
    BY DEF I2cInit, GoodInv, Running
  <2> QED
    BY <2>1, FormInit
<1>2. FormInv /\ GoodInv /\ [I2cNext]_i2cVars => (FormInv /\ GoodInv)'
  BY FormStep, GoodStep
<1>3. GoodInv => SuccessMeansDone
  BY DEF GoodInv, SuccessMeansDone
<1> QED
  BY <1>1, <1>2, <1>3, PTL DEF I2cSpec
=============================================================================
