----------------------------- MODULE GmacProofs -----------------------------
(***************************************************************************)
(* Proofs about Gmac, for every size of the two rings, backlog and number  *)
(* of restarts: types, the agreement of driver and engine on both rings,   *)
(* their refinement of SlotFifo, and interrupts.                           *)
(***************************************************************************)
EXTENDS Gmac, FiniteSetTheorems, SequenceTheorems, TLAPS

-----------------------------------------------------------------------------
(* Arithmetic on a ring of count slots.  Every sum the driver and the      *)
(* engine reduce is below twice the ring's size.                           *)

LEMMA WrapOnce ==
  ASSUME NEW count \in Nat \ {0}, NEW i \in 0 .. count - 1, NEW k \in 0 .. count
  PROVE  /\ (i + k) % count = (IF i + k < count THEN i + k ELSE i + k - count)
         /\ (i + k) % count \in 0 .. count - 1
OBVIOUS

(* The slots of a segment are distinct.                                    *)
LEMMA SegmentSlots ==
  ASSUME NEW count \in Nat \ {0}, NEW i \in 0 .. count - 1, NEW n \in 0 .. count
  PROVE  /\ Segment(i, n, count) \subseteq 0 .. count - 1
         /\ \A k \in 0 .. n - 1 : (i + k) % count = (IF i + k < count THEN i + k ELSE i + k - count)
         /\ \A j, k \in 0 .. n - 1 : (i + j) % count = (i + k) % count => j = k
<1>1. ASSUME NEW k \in 0 .. n - 1
      PROVE  /\ (i + k) % count = (IF i + k < count THEN i + k ELSE i + k - count)
             /\ (i + k) % count \in 0 .. count - 1
  BY k \in 0 .. count, WrapOnce
<1>2. QED
  BY <1>1 DEF Segment

LEMMA SegmentCardinality ==
  ASSUME NEW count \in Nat \ {0}, NEW i \in 0 .. count - 1, NEW n \in 0 .. count
  PROVE  IsFiniteSet(Segment(i, n, count)) /\ Cardinality(Segment(i, n, count)) = n
<1> DEFINE f == [k \in 0 .. n - 1 |-> (i + k) % count]
<1>1. f \in Bijection(0 .. n - 1, Segment(i, n, count))
  <2>1. f \in [0 .. n - 1 -> Segment(i, n, count)]
    BY DEF Segment
  <2>2. \A j, k \in 0 .. n - 1 : f[j] = f[k] => j = k
    BY SegmentSlots
  <2>3. \A s \in Segment(i, n, count) : \E k \in 0 .. n - 1 : f[k] = s
    BY DEF Segment
  <2>4. QED
    BY <2>1, <2>2, <2>3 DEF Bijection, Injection, Surjection, IsInjective
<1>2. IsFiniteSet(0 .. n - 1) /\ Cardinality(0 .. n - 1) = n
  BY FS_Interval
<1>3. QED
  BY <1>1, <1>2, FS_Bijection DEF ExistsBijection

(* Where segments begin and end.                                           *)
LEMMA SegmentEnds ==
  ASSUME NEW count \in Nat \ {0}, NEW i \in 0 .. count - 1, NEW n \in 0 .. count
  PROVE  /\ n = 0 => Segment(i, n, count) = {}
         /\ n = count => Segment(i, n, count) = 0 .. count - 1
         /\ n > 0 => i \in Segment(i, n, count)
         /\ n < count => (i + n) % count \notin Segment(i, n, count)
<1>1. n = 0 => Segment(i, n, count) = {}
  BY DEF Segment
<1>2. ASSUME n = count, NEW s \in 0 .. count - 1 PROVE s \in Segment(i, n, count)
  <2>1. CASE s >= i
    <3>1. s - i \in 0 .. n - 1 /\ i + (s - i) = s
      BY <1>2, <2>1
    <3>2. (i + (s - i)) % count = s
      BY <3>1, SegmentSlots
    <3>3. QED
      BY <3>1, <3>2 DEF Segment
  <2>2. CASE s < i
    <3>1. s + count - i \in 0 .. n - 1 /\ i + (s + count - i) = s + count
      BY <1>2, <2>2
    <3>2. (i + (s + count - i)) % count = s
      BY <3>1, SegmentSlots
    <3>3. QED
      BY <3>1, <3>2 DEF Segment
  <2>3. QED
    BY <2>1, <2>2
<1>3. ASSUME n > 0 PROVE i \in Segment(i, n, count)
  <2>1. 0 \in 0 .. n - 1 /\ (i + 0) % count = i
    BY <1>3, SegmentSlots
  <2>2. QED
    BY <2>1 DEF Segment
<1>4. ASSUME n < count PROVE (i + n) % count \notin Segment(i, n, count)
  <2>1. n + 1 \in 0 .. count /\ n \in 0 .. (n + 1) - 1
    BY <1>4
  <2>2. \A j, k \in 0 .. (n + 1) - 1 : (i + j) % count = (i + k) % count => j = k
    BY <2>1, SegmentSlots
  <2>3. QED
    BY <2>1, <2>2 DEF Segment
<1>5. QED
  BY <1>1, <1>2, <1>3, <1>4, SegmentSlots

(* Two segments end to end are one, ...                                    *)
LEMMA SegmentJoin ==
  ASSUME NEW count \in Nat \ {0}, NEW i \in 0 .. count - 1,
         NEW m \in 0 .. count, NEW n \in 0 .. count, m + n <= count
  PROVE  Segment(i, m, count) \cup Segment((i + m) % count, n, count)
           = Segment(i, m + n, count)
<1>1. (i + m) % count \in 0 .. count - 1
      /\ (i + m) % count = (IF i + m < count THEN i + m ELSE i + m - count)
  BY WrapOnce
<1>2. ASSUME NEW k \in 0 .. n - 1
      PROVE  (((i + m) % count) + k) % count = (i + (m + k)) % count
  <2>1. /\ (((i + m) % count) + k) % count = (IF ((i + m) % count) + k < count
             THEN ((i + m) % count) + k ELSE ((i + m) % count) + k - count)
    BY <1>1, SegmentSlots
  <2>2. (i + (m + k)) % count = (IF i + (m + k) < count THEN i + (m + k) ELSE i + (m + k) - count)
    BY m + k \in 0 .. (m + n) - 1, m + n \in 0 .. count, SegmentSlots
  <2>3. QED
    BY <1>1, <2>1, <2>2
<1>3. Segment((i + m) % count, n, count) \subseteq Segment(i, m + n, count)
  <2>1. \A k \in 0 .. n - 1 : m + k \in 0 .. (m + n) - 1
    OBVIOUS
  <2>2. QED
    BY <1>2, <2>1 DEF Segment
<1>4. Segment(i, m, count) \subseteq Segment(i, m + n, count)
  <2>1. \A k \in 0 .. m - 1 : k \in 0 .. (m + n) - 1
    OBVIOUS
  <2>2. QED
    BY <2>1 DEF Segment
<1>5. ASSUME NEW k \in 0 .. (m + n) - 1, k \notin 0 .. m - 1
      PROVE  (i + k) % count \in Segment((i + m) % count, n, count)
  <2>1. k - m \in 0 .. n - 1 /\ m + (k - m) = k
    BY <1>5
  <2>2. (((i + m) % count) + (k - m)) % count = (i + k) % count
    BY <1>2, <2>1
  <2>3. QED
    BY <2>1, <2>2 DEF Segment
<1>6. Segment(i, m + n, count) \subseteq
        Segment(i, m, count) \cup Segment((i + m) % count, n, count)
  BY <1>5 DEF Segment
<1>7. QED
  BY <1>3, <1>4, <1>6

(* ... the two have no slot in common, ...                                 *)
LEMMA SegmentApart ==
  ASSUME NEW count \in Nat \ {0}, NEW i \in 0 .. count - 1,
         NEW m \in 0 .. count, NEW n \in 0 .. count, m + n <= count
  PROVE  Segment(i, m, count) \cap Segment((i + m) % count, n, count) = {}
<1> SUFFICES ASSUME NEW j \in 0 .. m - 1, NEW k \in 0 .. n - 1,
                    (i + j) % count = (((i + m) % count) + k) % count
             PROVE  FALSE
  BY DEF Segment
<1>1. (i + m) % count \in 0 .. count - 1
      /\ (i + m) % count = (IF i + m < count THEN i + m ELSE i + m - count)
  BY WrapOnce
<1>2. (((i + m) % count) + k) % count = (IF ((i + m) % count) + k < count
         THEN ((i + m) % count) + k ELSE ((i + m) % count) + k - count)
  BY <1>1, SegmentSlots
<1>3. (i + j) % count = (IF i + j < count THEN i + j ELSE i + j - count)
  BY SegmentSlots
<1>4. QED
  BY <1>1, <1>2, <1>3

(* ... and the first slot taken off leaves the rest.                       *)
LEMMA SegmentTail ==
  ASSUME NEW count \in Nat \ {0}, NEW i \in 0 .. count - 1, NEW n \in 1 .. count
  PROVE  Segment(i, n, count) \ {i} = Segment((i + 1) % count, n - 1, count)
<1>1. 1 \in 0 .. count /\ n - 1 \in 0 .. count /\ 1 + (n - 1) = n
  OBVIOUS
<1>2. Segment(i, 1, count) = {i}
  <2>1. 0 .. 1 - 1 = {0} /\ i + 0 = i /\ 0 \in 0 .. 1 - 1
    OBVIOUS
  <2>2. (i + 0) % count = i
    BY <1>1, <2>1, SegmentSlots
  <2>3. QED
    BY <2>1, <2>2 DEF Segment
<1>3. {i} \cup Segment((i + 1) % count, n - 1, count) = Segment(i, n, count)
  <2>1. \A k \in 0 .. count : 1 + k <= count =>
          Segment(i, 1, count) \cup Segment((i + 1) % count, k, count)
            = Segment(i, 1 + k, count)
    BY <1>1, SegmentJoin
  <2>2. QED
    BY <1>1, <1>2, <2>1
<1>4. {i} \cap Segment((i + 1) % count, n - 1, count) = {}
  <2>1. \A k \in 0 .. count : 1 + k <= count =>
          Segment(i, 1, count) \cap Segment((i + 1) % count, k, count) = {}
    BY <1>1, SegmentApart
  <2>2. QED
    BY <1>1, <1>2, <2>1
<1>5. QED
  BY <1>3, <1>4

(* Steps around the ring add up.                                           *)
LEMMA WrapTwice ==
  ASSUME NEW count \in Nat \ {0}, NEW i \in 0 .. count - 1,
         NEW m \in 0 .. count, NEW n \in 0 .. count, m + n <= count
  PROVE  (((i + m) % count) + n) % count = (i + (m + n)) % count
<1> DEFINE j == (i + m) % count
           k == m + n
<1>1. j \in 0 .. count - 1 /\ j = (IF i + m < count THEN i + m ELSE i + m - count)
  BY WrapOnce
<1>2. k \in 0 .. count /\ k = m + n
  OBVIOUS
<1> HIDE DEF j, k
<1>3. (j + n) % count = (IF j + n < count THEN j + n ELSE j + n - count)
  BY <1>1, WrapOnce
<1>4. (i + k) % count = (IF i + k < count THEN i + k ELSE i + k - count)
  BY <1>2, WrapOnce
<1>5. (j + n) % count = (i + k) % count
  <2> DEFINE a == (j + n) % count
             b == (i + k) % count
  <2> SUFFICES a = b
    OBVIOUS
  <2>1. /\ a = (IF j + n < count THEN j + n ELSE j + n - count)
        /\ b = (IF i + k < count THEN i + k ELSE i + k - count)
    BY <1>3, <1>4
  <2> HIDE DEF a, b
  <2>2. QED
    BY <1>1, <1>2, <2>1
<1>6. QED
  BY <1>5 DEF j, k

-----------------------------------------------------------------------------
(* The descriptors one side has handed to the other: m of them, from first *)
(* on, and last the next one.  Both rings are such a ring of OWN bits.     *)
OwnRing(own, first, last, m, count) ==
  /\ first \in 0 .. count - 1 /\ m \in 0 .. count
  /\ own = Segment(first, m, count)
  /\ last = (first + m) % count

LEMMA RingCount ==
  ASSUME NEW count \in Nat \ {0}, NEW own, NEW first, NEW last, NEW m,
         OwnRing(own, first, last, m, count)
  PROVE  /\ m \in 0 .. count /\ Cardinality(own) = m
         /\ own \subseteq 0 .. count - 1 /\ last \in 0 .. count - 1
         /\ last \in own => m = count /\ own = 0 .. count - 1
         /\ first \in own <=> m > 0
<1>1. /\ first \in 0 .. count - 1 /\ m \in 0 .. count
      /\ own = Segment(first, m, count) /\ last = (first + m) % count
  BY DEF OwnRing
<1>2. Cardinality(own) = m
  BY <1>1, SegmentCardinality
<1>3. own \subseteq 0 .. count - 1 /\ last \in 0 .. count - 1
  BY <1>1, SegmentSlots, WrapOnce
<1>4. last \in own => m = count /\ own = 0 .. count - 1
  BY <1>1, SegmentEnds
<1>5. first \in own <=> m > 0
  BY <1>1, SegmentEnds
<1>6. QED
  BY <1>1, <1>2, <1>3, <1>4, <1>5

(* Handing over n more, ...                                                *)
LEMMA RingGive ==
  ASSUME NEW count \in Nat \ {0}, NEW own, NEW first, NEW last, NEW m,
         OwnRing(own, first, last, m, count), NEW n \in 0 .. count, m + n <= count
  PROVE  OwnRing(own \cup Segment(last, n, count), first, (last + n) % count, m + n, count)
<1>1. /\ first \in 0 .. count - 1 /\ m \in 0 .. count
      /\ own = Segment(first, m, count) /\ last = (first + m) % count
  BY DEF OwnRing
<1>2. m + n \in 0 .. count
  BY <1>1
<1>3. own \cup Segment(last, n, count) = Segment(first, m + n, count)
  BY <1>1, SegmentJoin
<1>4. (last + n) % count = (first + (m + n)) % count
  BY <1>1, WrapTwice
<1>5. QED
  BY <1>1, <1>2, <1>3, <1>4 DEF OwnRing

(* ... and taking the first one.                                           *)
LEMMA RingTake ==
  ASSUME NEW count \in Nat \ {0}, NEW own, NEW first, NEW last, NEW m,
         OwnRing(own, first, last, m, count), first \in own
  PROVE  m > 0 /\ OwnRing(own \ {first}, (first + 1) % count, last, m - 1, count)
<1>1. m \in 1 .. count /\ first \in 0 .. count - 1
  BY RingCount DEF OwnRing
<1>2. own \ {first} = Segment((first + 1) % count, m - 1, count)
  BY <1>1, SegmentTail DEF OwnRing
<1>3. (first + 1) % count \in 0 .. count - 1
  BY <1>1, 1 \in 0 .. count, WrapOnce
<1>4. (((first + 1) % count) + (m - 1)) % count = (first + m) % count
  <2>1. 1 \in 0 .. count /\ m - 1 \in 0 .. count /\ 1 + (m - 1) = m
    BY <1>1
  <2>2. PICK k \in 0 .. count : k = m - 1 /\ 1 + k = m
    BY <2>1
  <2>3. (((first + 1) % count) + k) % count = (first + (1 + k)) % count
    <3>1. \A n \in 0 .. count : 1 + n <= count =>
            (((first + 1) % count) + n) % count = (first + (1 + n)) % count
      BY <1>1, <2>1, WrapTwice
    <3>2. 1 + k <= count
      BY <1>1, <2>2
    <3>3. QED
      BY <3>1, <3>2, Zenon
  <2>4. QED
    BY <2>2, <2>3
<1>5. QED
  BY <1>1, <1>2, <1>3, <1>4 DEF OwnRing

-----------------------------------------------------------------------------
(* Types.                                                                  *)

NetOK ==
  /\ ifup \in BOOLEAN /\ link \in BOOLEAN
  /\ upc \in {"idle", "mark", "wait"} /\ downs \in 0 .. MaxDowns
  /\ wpc \in WorkPositions /\ sts \subseteq {"rx", "tx"} /\ processed \in 0 .. RxCount
  /\ timer \in BOOLEAN /\ irq_enabled \in BOOLEAN
  /\ status \subseteq {"rx", "tx"} /\ dma_on \in BOOLEAN /\ phy \in BOOLEAN

QueueOK == lpq \in Seq(Works) /\ \A i, j \in DOMAIN lpq : lpq[i] = lpq[j] => i = j

BacklogOK == backlog \in 0 .. MaxBacklog

RxOK == rxown \subseteq RxSlots /\ rxhead \in RxSlots /\ rxdma \in RxSlots

TxOK ==
  /\ txown \subseteq TxSlots /\ txhead \in TxSlots /\ txtail \in TxSlots
  /\ txpending \in 0 .. TxCount /\ txdma \in TxSlots

LEMMA TypeParts == TypeOK <=> NetOK /\ QueueOK /\ BacklogOK /\ RxOK /\ TxOK
BY DEF TypeOK, NetOK, QueueOK, BacklogOK, RxOK, TxOK

LEMMA NetStep == NetOK /\ [Next]_vars => NetOK'
<1> SUFFICES ASSUME NetOK, [Next]_vars PROVE NetOK'
  OBVIOUS
<1> USE GmacAssumption DEF GmacAssumption, NetOK, WorkPositions, netVars, workVars, irqVars
<1>1. CASE IfupHw
  BY <1>1 DEF IfupHw
<1>2. CASE IfupMark
  BY <1>2 DEF IfupMark
<1>3. CASE IfupLink
  BY <1>3 DEF IfupLink, update_link, devif_poll
<1>4. CASE IfupReturn
  BY <1>4 DEF IfupReturn
<1>5. CASE Ifdown
  <2>1. downs' \in 0 .. MaxDowns
    BY <1>5 DEF Ifdown
  <2>2. QED
    BY <1>5, <2>1 DEF Ifdown
<1>6. CASE Txavail
  BY <1>6 DEF Txavail
<1>7. CASE Interrupt
  BY <1>7 DEF Interrupt
<1>8. CASE LinkTimer
  BY <1>8 DEF LinkTimer
<1>9. CASE IrqWork
  BY <1>9 DEF IrqWork, WorkBegin
<1>10. CASE IrqAck
  BY <1>10 DEF IrqAck
<1>11. CASE Receive
  BY <1>11 DEF Receive
<1>12. CASE ReceiveEnd
  BY <1>12 DEF ReceiveEnd
<1>13. CASE Txdone
  BY <1>13 DEF Txdone
<1>14. CASE TxdoneEnd
  BY <1>14 DEF TxdoneEnd
<1>15. CASE IrqUnmask
  BY <1>15 DEF IrqUnmask
<1>16. CASE PollWork
  BY <1>16 DEF PollWork, WorkBegin
<1>17. CASE PollRun
  BY <1>17 DEF PollRun
<1>18. CASE LinkWork
  BY <1>18 DEF LinkWork, WorkBegin
<1>19. CASE LinkUpdate
  BY <1>19 DEF LinkUpdate, update_link, devif_poll
<1>20. CASE LinkUnread
  BY <1>20 DEF LinkUnread
<1>21. CASE LinkRearm
  BY <1>21 DEF LinkRearm
<1>22. CASE DmaReceive
  BY <1>22 DEF DmaReceive
<1>23. CASE DmaTransmit
  BY <1>23 DEF DmaTransmit
<1>24. CASE PhyChange
  BY <1>24 DEF PhyChange
<1>25. CASE UNCHANGED vars
  BY <1>25 DEF vars
<1>26. QED
  BY <1>1, <1>2, <1>3, <1>4, <1>5, <1>6, <1>7, <1>8, <1>9, <1>10, <1>11,
     <1>12, <1>13, <1>14, <1>15, <1>16, <1>17, <1>18, <1>19, <1>20, <1>21,
     <1>22, <1>23, <1>24, <1>25 DEF Next, IfupCall, LpWork

(* The works on the queue.                                                 *)
LEMMA QueueLater ==
  ASSUME QueueOK
  PROVE  /\ \A w \in Works : ~Queued(w) =>
              LET q == Append(lpq, w) IN
                /\ q \in Seq(Works) /\ \A i, j \in DOMAIN q : q[i] = q[j] => i = j
                /\ \A v \in Works : (\E i \in DOMAIN q : q[i] = v) <=> Queued(v) \/ v = w
         /\ lpq # <<>> =>
              LET q == Tail(lpq) IN
                /\ q \in Seq(Works) /\ \A i, j \in DOMAIN q : q[i] = q[j] => i = j
                /\ \A v \in Works :
                     (\E i \in DOMAIN q : q[i] = v) <=> Queued(v) /\ v # Head(lpq)
<1>1. lpq \in Seq(Works) /\ \A i, j \in DOMAIN lpq : lpq[i] = lpq[j] => i = j
  BY DEF QueueOK
<1>2. Len(lpq) \in Nat /\ DOMAIN lpq = 1 .. Len(lpq)
  BY <1>1, LenProperties
<1>3. ASSUME NEW w \in Works, ~Queued(w), NEW q, q = Append(lpq, w)
      PROVE  /\ q \in Seq(Works) /\ \A i, j \in DOMAIN q : q[i] = q[j] => i = j
             /\ \A v \in Works : (\E i \in DOMAIN q : q[i] = v) <=> Queued(v) \/ v = w
  <2>1. /\ q \in Seq(Works) /\ DOMAIN q = (1 .. Len(lpq)) \cup {Len(lpq) + 1}
        /\ \A i \in 1 .. Len(lpq) : q[i] = lpq[i]
        /\ q[Len(lpq) + 1] = w
    BY <1>1, <1>2, <1>3, AppendProperties, LenProperties
  <2>2. QED
    BY <1>1, <1>2, <1>3, <2>1 DEF Queued
<1>4. ASSUME lpq # <<>>, NEW q, q = Tail(lpq)
      PROVE  /\ q \in Seq(Works) /\ \A i, j \in DOMAIN q : q[i] = q[j] => i = j
             /\ \A v \in Works :
                  (\E i \in DOMAIN q : q[i] = v) <=> Queued(v) /\ v # Head(lpq)
  <2>1. /\ q \in Seq(Works) /\ DOMAIN q = 1 .. Len(lpq) - 1 /\ Len(lpq) > 0
        /\ \A i \in 1 .. Len(lpq) - 1 : q[i] = lpq[i + 1]
        /\ Head(lpq) = lpq[1]
    BY <1>1, <1>2, <1>4, HeadTailProperties, LenProperties, EmptySeq
  <2>2. \A i, j \in DOMAIN q : q[i] = q[j] => i = j
    BY <1>1, <1>2, <2>1
  <2>3. ASSUME NEW i \in 1 .. Len(lpq), i # 1
        PROVE  i - 1 \in DOMAIN q /\ q[i - 1] = lpq[i]
    BY <1>2, <2>1, <2>3
  <2>4. ASSUME NEW i \in DOMAIN q
        PROVE  i + 1 \in DOMAIN lpq /\ q[i] = lpq[i + 1] /\ lpq[i + 1] # lpq[1]
    BY <1>1, <1>2, <2>1, <2>4
  <2>5. QED
    BY <1>1, <1>2, <2>1, <2>2, <2>3, <2>4 DEF Queued
<1>5. QED
  BY <1>3, <1>4

Appends(w) == ~Queued(w) /\ lpq' = Append(lpq, w)
Drops == lpq # <<>> /\ lpq' = Tail(lpq)

LEMMA QueueMoves == [Next]_vars => Drops \/ (\E w \in Works : Appends(w)) \/ UNCHANGED lpq
<1> SUFFICES ASSUME [Next]_vars PROVE Drops \/ (\E w \in Works : Appends(w)) \/ UNCHANGED lpq
  OBVIOUS
<1> USE DEF netVars, workVars, Works, Appends, Drops, WorkBegin
<1>1. CASE IfupHw \/ IfupCall \/ Ifdown \/ PhyChange \/ DmaReceive \/ DmaTransmit
  BY <1>1 DEF IfupHw, IfupCall, IfupMark, IfupLink, IfupReturn, Ifdown, PhyChange,
     DmaReceive, DmaTransmit
<1>2. CASE Txavail \/ Interrupt \/ LinkTimer
  BY <1>2 DEF Txavail, Interrupt, LinkTimer
<1>3. CASE IrqWork \/ PollWork \/ LinkWork
  BY <1>3 DEF IrqWork, PollWork, LinkWork
<1>4. CASE IrqAck \/ Receive \/ ReceiveEnd \/ Txdone \/ TxdoneEnd \/ IrqUnmask \/ PollRun
           \/ LinkUpdate \/ LinkUnread \/ LinkRearm
  BY <1>4 DEF IrqAck, Receive, ReceiveEnd, Txdone, TxdoneEnd, IrqUnmask, PollRun,
     LinkUpdate, LinkUnread, LinkRearm
<1>5. CASE UNCHANGED vars
  BY <1>5 DEF vars
<1>6. QED
  BY <1>1, <1>2, <1>3, <1>4, <1>5 DEF Next, LpWork

LEMMA QueueStep == QueueOK /\ [Next]_vars => QueueOK'
BY QueueMoves, QueueLater DEF QueueOK, Appends, Drops

-----------------------------------------------------------------------------
(* The TX ring.                                                            *)

Sends ==
  /\ UNCHANGED <<txtail, txdma>>
  /\ \E n \in 0 .. FreeTx : Transmit(n)

LEMMA FreeTxType ==
  ASSUME TxOK
  PROVE  FreeTx \in 0 .. TxCount - txpending
BY GmacAssumption DEF GmacAssumption, TxOK, FreeTx

LEMMA PollSends ==
  ASSUME TxOK, BacklogOK, devif_poll
  PROVE  BacklogOK' /\ \E n \in 0 .. FreeTx : Transmit(n)
BY FreeTxType, GmacAssumption DEF GmacAssumption, BacklogOK, TxOK, devif_poll

(* What a step may do to the TX ring and the backlog.                      *)
LEMMA TxMoves ==
  ASSUME TxOK, BacklogOK, [Next]_vars
  PROVE  /\ IfupHw \/ Sends \/ Txdone \/ DmaTransmit \/ UNCHANGED txVars
         /\ BacklogOK'
<1> USE DEF netVars, txVars
<1>1. CASE IfupHw \/ Txdone \/ DmaTransmit
  BY <1>1 DEF IfupHw, Txdone, DmaTransmit, BacklogOK
<1>2. CASE IfupLink \/ LinkUpdate
  <2>1. (devif_poll /\ UNCHANGED <<txtail, txdma>>) \/ UNCHANGED <<txVars, backlog>>
    BY <1>2 DEF IfupLink, LinkUpdate, update_link
  <2>2. QED
    BY <2>1, PollSends DEF Sends, BacklogOK
<1>3. CASE TxdoneEnd \/ PollRun
  <2>1. (devif_poll /\ UNCHANGED <<txtail, txdma>>) \/ UNCHANGED <<txVars, backlog>>
    BY <1>3 DEF TxdoneEnd, PollRun
  <2>2. QED
    BY <2>1, PollSends DEF Sends, BacklogOK
<1>4. CASE Receive
  <2>1. backlog' = backlog /\ UNCHANGED <<txtail, txdma>>
    BY <1>4 DEF Receive
  <2>2. (FreeTx > 0 /\ Transmit(1)) \/ UNCHANGED <<txown, txhead, txpending>>
    BY <1>4 DEF Receive
  <2>3. FreeTx > 0 => 1 \in 0 .. FreeTx
    BY FreeTxType DEF TxOK
  <2>4. QED
    BY <2>1, <2>2, <2>3 DEF Sends, BacklogOK
<1>5. CASE Txavail
  BY <1>5, GmacAssumption DEF GmacAssumption, Txavail, BacklogOK
<1>6. CASE IfupMark \/ IfupReturn \/ Ifdown \/ PhyChange \/ DmaReceive \/ Interrupt
           \/ LinkTimer
  BY <1>6 DEF IfupMark, IfupReturn, Ifdown, PhyChange, DmaReceive, Interrupt, LinkTimer,
     BacklogOK
<1>7. CASE IrqWork \/ PollWork \/ LinkWork \/ IrqAck \/ ReceiveEnd \/ IrqUnmask
           \/ LinkUnread \/ LinkRearm
  BY <1>7 DEF IrqWork, PollWork, LinkWork, IrqAck, ReceiveEnd, IrqUnmask, LinkUnread,
     LinkRearm, BacklogOK
<1>8. CASE UNCHANGED vars
  BY <1>8 DEF vars, BacklogOK
<1>9. QED
  BY <1>1, <1>2, <1>3, <1>4, <1>5, <1>6, <1>7, <1>8 DEF Next, IfupCall, LpWork

(* Read from txtail on, the ring is: sent but not reaped, then owned by    *)
(* the engine; m slots are owned.                                          *)
TxInv ==
  \E m \in 0 .. txpending :
    /\ OwnRing(txown, txdma, txhead, m, TxCount)
    /\ txdma = (txtail + (txpending - m)) % TxCount

LEMMA TxStep == TxOK /\ BacklogOK /\ TxInv /\ [Next]_vars => TxOK' /\ TxInv'
<1> SUFFICES ASSUME TxOK, BacklogOK, TxInv, [Next]_vars PROVE TxOK' /\ TxInv'
  OBVIOUS
<1>0. TxCount \in Nat \ {0}
  BY GmacAssumption DEF GmacAssumption
<1>p. PICK m \in 0 .. txpending :
        /\ OwnRing(txown, txdma, txhead, m, TxCount)
        /\ txdma = (txtail + (txpending - m)) % TxCount
  BY DEF TxInv
<1>t. /\ txown \subseteq 0 .. TxCount - 1 /\ txhead \in 0 .. TxCount - 1
      /\ txtail \in 0 .. TxCount - 1 /\ txdma \in 0 .. TxCount - 1
      /\ txpending \in 0 .. TxCount /\ m \in 0 .. TxCount
  BY <1>0 DEF TxOK, TxSlots
<1>1. CASE IfupHw
  <2>1. txown' = {} /\ txhead' = 0 /\ txtail' = 0 /\ txpending' = 0 /\ txdma' = 0
    BY <1>1 DEF IfupHw
  <2>2. Segment(0, 0, TxCount) = {} /\ (0 + 0) % TxCount = 0
    BY <1>0, SegmentEnds, WrapOnce
  <2>3. OwnRing(txown', txdma', txhead', 0, TxCount)
    BY <1>0, <2>1, <2>2 DEF OwnRing
  <2>4. 0 \in 0 .. txpending' /\ txdma' = (txtail' + (txpending' - 0)) % TxCount
    BY <2>1, <2>2
  <2>5. QED
    BY <1>0, <2>1, <2>3, <2>4 DEF TxInv, TxOK, TxSlots
<1>2. CASE Sends
  <2>1. PICK n \in 0 .. FreeTx : Transmit(n)
    BY <1>2 DEF Sends
  <2>2. n \in 0 .. TxCount /\ txpending + n <= TxCount /\ m + n <= TxCount
    BY <1>0, <1>t, <2>1, FreeTxType
  <2>3. /\ txown' = txown \cup Segment(txhead, n, TxCount)
        /\ txhead' = (txhead + n) % TxCount
        /\ txpending' = txpending + n /\ txtail' = txtail /\ txdma' = txdma
    BY <1>2, <2>1 DEF Sends, Transmit, Segment
  <2>4. OwnRing(txown', txdma', txhead', m + n, TxCount)
    BY <1>0, <1>p, <2>2, <2>3, RingGive
  <2>5. txpending' - (m + n) = txpending - m /\ m + n \in 0 .. txpending'
    BY <1>t, <2>2, <2>3
  <2>6. TxInv'
    BY <1>p, <2>3, <2>4, <2>5 DEF TxInv
  <2>7. txown' \subseteq 0 .. TxCount - 1 /\ txhead' \in 0 .. TxCount - 1
    BY <1>0, <2>4, RingCount
  <2>8. QED
    BY <1>t, <2>2, <2>3, <2>6, <2>7 DEF TxOK, TxSlots
<1>3. CASE Txdone
  <2>1. /\ txpending > 0 /\ txtail \notin txown
        /\ txtail' = (txtail + 1) % TxCount /\ txpending' = txpending - 1
        /\ txown' = txown /\ txhead' = txhead /\ txdma' = txdma
    BY <1>3 DEF Txdone
  <2>2. m < txpending
    <3>1. SUFFICES ASSUME m = txpending PROVE FALSE
      BY <1>t
    <3>2. txdma = txtail
      <4>1. txpending - m = 0 /\ txtail + 0 = txtail /\ 0 \in 0 .. TxCount
        BY <1>0, <1>t, <3>1
      <4>2. (txtail + 0) % TxCount = txtail
        BY <1>0, <1>t, <4>1, WrapOnce
      <4>3. QED
        BY <1>p, <4>1, <4>2
    <3>3. QED
      BY <1>0, <1>p, <2>1, <3>1, <3>2, RingCount
  <2>3. txtail' \in 0 .. TxCount - 1 /\ txpending' \in 0 .. TxCount /\ m \in 0 .. txpending'
    BY <1>0, <1>t, <2>1, <2>2, 1 \in 0 .. TxCount, WrapOnce
  <2>4. txdma' = (txtail' + (txpending' - m)) % TxCount
    <3>1. PICK k \in 0 .. TxCount : k = txpending' - m /\ 1 + k = txpending - m
      BY <1>0, <1>t, <2>1, <2>2
    <3>2. \A n \in 0 .. TxCount : 1 + n <= TxCount =>
            (((txtail + 1) % TxCount) + n) % TxCount = (txtail + (1 + n)) % TxCount
      BY <1>0, <1>t, 1 \in 0 .. TxCount, WrapTwice
    <3>3. 1 + k <= TxCount
      BY <1>0, <1>t, <3>1
    <3>4. (((txtail + 1) % TxCount) + k) % TxCount = (txtail + (1 + k)) % TxCount
      BY <3>2, <3>3, Zenon
    <3>5. QED
      BY <1>p, <2>1, <3>1, <3>4
  <2>5. TxInv'
    BY <1>p, <2>1, <2>3, <2>4 DEF TxInv
  <2>6. QED
    BY <1>t, <2>1, <2>3, <2>5 DEF TxOK, TxSlots
<1>4. CASE DmaTransmit
  <2>1. /\ txdma \in txown /\ txown' = txown \ {txdma} /\ txdma' = (txdma + 1) % TxCount
        /\ txhead' = txhead /\ txtail' = txtail /\ txpending' = txpending
    BY <1>4 DEF DmaTransmit
  <2>2. m > 0 /\ OwnRing(txown', txdma', txhead', m - 1, TxCount)
    BY <1>0, <1>p, <2>1, RingTake
  <2>3. m - 1 \in 0 .. txpending'
    BY <1>t, <2>1, <2>2
  <2>4. txdma' = (txtail' + (txpending' - (m - 1))) % TxCount
    <3>1. PICK k \in 0 .. TxCount : k = txpending - m /\ k + 1 = txpending - (m - 1)
                                    /\ k + 1 <= TxCount
      BY <1>0, <1>t, <2>2
    <3>2. (((txtail + k) % TxCount) + 1) % TxCount = (txtail + (k + 1)) % TxCount
      BY <1>0, <1>t, <3>1, 1 \in 0 .. TxCount, WrapTwice
    <3>3. QED
      BY <1>p, <2>1, <3>1, <3>2
  <2>5. TxInv'
    BY <2>2, <2>3, <2>4 DEF TxInv
  <2>6. txown' \subseteq 0 .. TxCount - 1 /\ txdma' \in 0 .. TxCount - 1
    BY <1>0, <1>t, <2>1, <2>2 DEF OwnRing
  <2>7. QED
    BY <1>t, <2>1, <2>5, <2>6 DEF TxOK, TxSlots
<1>5. CASE UNCHANGED txVars
  BY <1>5 DEF txVars, TxOK, TxInv
<1>6. QED
  BY <1>1, <1>2, <1>3, <1>4, <1>5, TxMoves

-----------------------------------------------------------------------------
(* The RX ring: the engine owns the slots from rxdma up to rxhead.         *)
RxInv == \E m \in 0 .. RxCount : OwnRing(rxown, rxdma, rxhead, m, RxCount)

LEMMA RxMoves == [Next]_vars => IfupHw \/ Receive \/ DmaReceive \/ UNCHANGED rxVars
<1> SUFFICES ASSUME [Next]_vars PROVE IfupHw \/ Receive \/ DmaReceive \/ UNCHANGED rxVars
  OBVIOUS
<1> USE DEF rxVars
<1>1. CASE IfupCall \/ Ifdown \/ Txavail \/ Interrupt \/ LinkTimer \/ DmaTransmit
           \/ PhyChange \/ UNCHANGED vars
  BY <1>1 DEF IfupCall, IfupMark, IfupLink, IfupReturn, Ifdown, Txavail, Interrupt,
     LinkTimer, DmaTransmit, PhyChange, vars
<1>2. CASE LpWork
  BY <1>2 DEF LpWork, IrqWork, IrqAck, ReceiveEnd, Txdone, TxdoneEnd, IrqUnmask, PollWork,
     PollRun, LinkWork, LinkUpdate, LinkUnread, LinkRearm
<1>3. QED
  BY <1>1, <1>2 DEF Next

LEMMA RxStep == RxInv /\ [Next]_vars => RxInv'
<1> SUFFICES ASSUME RxInv, [Next]_vars PROVE RxInv'
  OBVIOUS
<1>0. RxCount \in Nat \ {0}
  BY GmacAssumption DEF GmacAssumption
<1>p. PICK m \in 0 .. RxCount : OwnRing(rxown, rxdma, rxhead, m, RxCount)
  BY DEF RxInv
<1>1. CASE IfupHw
  <2>1. rxown' = 0 .. RxCount - 1 /\ rxhead' = 0 /\ rxdma' = 0
    BY <1>1 DEF IfupHw, RxSlots
  <2>2. Segment(0, RxCount, RxCount) = 0 .. RxCount - 1
    BY <1>0, SegmentEnds
  <2>3. (0 + RxCount) % RxCount = 0
    <3>1. 0 \in 0 .. RxCount - 1 /\ RxCount \in 0 .. RxCount
      BY <1>0
    <3>2. QED
      BY <1>0, <3>1, WrapOnce
  <2>4. QED
    BY <1>0, <2>1, <2>2, <2>3 DEF RxInv, OwnRing
<1>2. CASE Receive
  <2>1. /\ rxhead \notin rxown /\ rxown' = rxown \cup {rxhead}
        /\ rxhead' = (rxhead + 1) % RxCount /\ rxdma' = rxdma
    BY <1>2 DEF Receive
  <2>2. m < RxCount
    <3>1. SUFFICES ASSUME m = RxCount PROVE FALSE
      BY <1>0
    <3>2. rxown = 0 .. RxCount - 1 /\ rxhead \in 0 .. RxCount - 1
      BY <1>0, <1>p, <3>1, RingCount, SegmentEnds DEF OwnRing
    <3>3. QED
      BY <2>1, <3>2
  <2>3. Segment(rxhead, 1, RxCount) = {rxhead}
    <3>1. rxhead \in 0 .. RxCount - 1 /\ 1 \in 0 .. RxCount /\ 0 .. 1 - 1 = {0}
      BY <1>0, <1>p, RingCount
    <3>2. (rxhead + 0) % RxCount = rxhead
      BY <1>0, <3>1, 0 \in 0 .. RxCount, WrapOnce
    <3>3. QED
      BY <3>1, <3>2 DEF Segment
  <2>4. OwnRing(rxown', rxdma', rxhead', m + 1, RxCount)
    <3>1. 1 \in 0 .. RxCount /\ m + 1 <= RxCount
      BY <1>0, <2>2
    <3>2. QED
      BY <1>0, <1>p, <2>1, <2>3, <3>1, RingGive
  <2>5. QED
    BY <1>0, <2>2, <2>4 DEF RxInv
<1>3. CASE DmaReceive
  <2>1. /\ rxdma \in rxown /\ rxown' = rxown \ {rxdma} /\ rxdma' = (rxdma + 1) % RxCount
        /\ rxhead' = rxhead
    BY <1>3 DEF DmaReceive
  <2>2. m > 0 /\ OwnRing(rxown', rxdma', rxhead', m - 1, RxCount)
    BY <1>0, <1>p, <2>1, RingTake
  <2>3. QED
    BY <1>0, <2>2 DEF RxInv
<1>4. CASE UNCHANGED rxVars
  BY <1>4 DEF rxVars, RxInv
<1>5. QED
  BY <1>1, <1>2, <1>3, <1>4, RxMoves

LEMMA RxType == RxInv => RxOK
BY GmacAssumption, RingCount DEF GmacAssumption, RxInv, RxOK, RxSlots, OwnRing

-----------------------------------------------------------------------------
RingInv == NetOK /\ QueueOK /\ BacklogOK /\ TxOK /\ TxInv /\ RxInv

LEMMA RingInit == Init => RingInv
<1> SUFFICES ASSUME Init PROVE RingInv
  OBVIOUS
<1>0. /\ RxCount \in Nat \ {0} /\ TxCount \in Nat \ {0}
      /\ MaxBacklog \in Nat \ {0} /\ MaxDowns \in Nat
  BY GmacAssumption DEF GmacAssumption
<1>1. NetOK
  <2>1. 0 \in 0 .. MaxDowns /\ 0 \in 0 .. RxCount
    BY <1>0
  <2>2. QED
    BY <2>1 DEF Init, NetOK, WorkPositions
<1>2. QueueOK
  BY DEF Init, QueueOK
<1>3. BacklogOK /\ TxOK
  BY <1>0 DEF Init, BacklogOK, TxOK, TxSlots
<1>4. \A count \in Nat \ {0} : OwnRing({}, 0, 0, 0, count) /\ 0 = (0 + (0 - 0)) % count
  BY SegmentEnds, WrapOnce DEF OwnRing
<1>5. TxInv /\ RxInv
  BY <1>0, <1>4 DEF Init, TxInv, RxInv
<1>6. QED
  BY <1>1, <1>2, <1>3, <1>5 DEF RingInv

LEMMA RingStep == RingInv /\ [Next]_vars => RingInv'
BY NetStep, QueueStep, TxMoves, TxStep, RxStep DEF RingInv

LEMMA RingHolds == Spec => []RingInv
BY RingInit, RingStep, PTL DEF Spec

(* Type correctness: in particular at most one of each work is queued, and *)
(* txpending never exceeds the ring (transmit, devif_poll, work_queue).    *)
THEOREM TypeCorrect == Spec => []TypeOK
<1>1. RingInv => TypeOK
  BY RxType, TypeParts DEF RingInv
<1>2. QED
  BY <1>1, RingHolds, PTL

(* For every ring size and any number of restarts: the driver's and the    *)
(* engine's indices, counts and OWN bits describe the same rings           *)
(* (transmit, txdone, receive, desc_initialize).                           *)
THEOREM RingsStayTogether == Spec => []RingsAgree
<1>1. ASSUME RingInv PROVE TxRingAgrees
  <2>1. TxCount \in Nat \ {0} /\ txpending \in 0 .. TxCount /\ txtail \in 0 .. TxCount - 1
    BY <1>1, GmacAssumption DEF GmacAssumption, RingInv, TxOK, TxSlots
  <2>2. PICK m \in 0 .. txpending :
          /\ OwnRing(txown, txdma, txhead, m, TxCount)
          /\ txdma = (txtail + (txpending - m)) % TxCount
    BY <1>1 DEF RingInv, TxInv
  <2>3. Cardinality(txown) = m
    BY <2>1, <2>2, RingCount
  <2>4. txhead = (txtail + txpending) % TxCount
    <3>1. PICK k \in 0 .. TxCount : k = txpending - m /\ k + m = txpending /\ m \in 0 .. TxCount
      BY <2>1
    <3>2. (((txtail + k) % TxCount) + m) % TxCount = (txtail + (k + m)) % TxCount
      BY <2>1, <3>1, WrapTwice
    <3>3. QED
      BY <2>2, <3>1, <3>2 DEF OwnRing
  <2>5. txtail + txpending - m = txtail + (txpending - m)
    BY <2>1
  <2>6. QED
    BY <2>1, <2>2, <2>3, <2>4, <2>5 DEF TxRingAgrees, OwnRing
<1>2. ASSUME RingInv PROVE RxRingAgrees
  <2>1. RxCount \in Nat \ {0}
    BY GmacAssumption DEF GmacAssumption
  <2>2. PICK m \in 0 .. RxCount : OwnRing(rxown, rxdma, rxhead, m, RxCount)
    BY <1>2 DEF RingInv, RxInv
  <2>3. Cardinality(rxown) = m /\ rxdma \in 0 .. RxCount - 1 /\ rxhead \in 0 .. RxCount - 1
    BY <2>1, <2>2, RingCount DEF OwnRing
  <2>4. rxdma = (rxhead + RxCount - m) % RxCount
    <3>1. PICK k \in 0 .. RxCount : k = RxCount - m /\ m + k = RxCount
                                    /\ rxhead + RxCount - m = rxhead + k
      BY <2>1, <2>3
    <3>2. (((rxdma + m) % RxCount) + k) % RxCount = (rxdma + (m + k)) % RxCount
      <4>1. \A i \in 0 .. RxCount, j \in 0 .. RxCount : i + j <= RxCount =>
              (((rxdma + i) % RxCount) + j) % RxCount = (rxdma + (i + j)) % RxCount
        BY <2>1, <2>3, WrapTwice
      <4>2. m + k <= RxCount
        BY <2>1, <3>1
      <4>3. QED
        BY <4>1, <4>2, Zenon
    <3>3. (rxdma + RxCount) % RxCount = rxdma
      <4>1. RxCount \in 0 .. RxCount /\ ~(rxdma + RxCount < RxCount)
            /\ rxdma + RxCount - RxCount = rxdma
        BY <2>1, <2>3
      <4>2. \A p \in 0 .. RxCount : (rxdma + p) % RxCount
              = (IF rxdma + p < RxCount THEN rxdma + p ELSE rxdma + p - RxCount)
        BY <2>1, <2>3, WrapOnce
      <4>3. QED
        BY <4>1, <4>2
    <3>4. QED
      BY <2>2, <3>1, <3>2, <3>3 DEF OwnRing
  <2>5. QED
    BY <2>2, <2>3, <2>4 DEF RxRingAgrees, OwnRing
<1>3. QED
  BY <1>1, <1>2, RingHolds, PTL DEF RingsAgree

-----------------------------------------------------------------------------
(* The rings as FIFOs.                                                     *)

(* n slots in ring order from slot i on                                    *)
Order(i, n, count) == [k \in 1 .. n |-> (i + k - 1) % count]

LEMMA OrderSlots ==
  ASSUME NEW count \in Nat \ {0}, NEW i \in 0 .. count - 1, NEW n \in 0 .. count
  PROVE  /\ Order(i, n, count) \in Seq(0 .. count - 1) /\ Len(Order(i, n, count)) = n
         /\ \A j, k \in 1 .. n : Order(i, n, count)[j] = Order(i, n, count)[k] => j = k
         /\ \A k \in 1 .. n : Order(i, n, count)[k] = (i + k - 1) % count
<1>1. ASSUME NEW k \in 1 .. n
      PROVE  /\ k - 1 \in 0 .. n - 1 /\ i + k - 1 = i + (k - 1)
             /\ (i + (k - 1)) % count \in 0 .. count - 1
  <2>1. k - 1 \in 0 .. n - 1 /\ k - 1 \in 0 .. count /\ i + k - 1 = i + (k - 1)
    OBVIOUS
  <2>2. \A m \in 0 .. count : (i + m) % count \in 0 .. count - 1
    BY WrapOnce
  <2>3. QED
    BY <2>1, <2>2
<1>2. Order(i, n, count) \in [1 .. n -> 0 .. count - 1]
  BY <1>1 DEF Order
<1>3. Order(i, n, count) \in Seq(0 .. count - 1) /\ Len(Order(i, n, count)) = n
  BY <1>2
<1>4. \A k \in 1 .. n : Order(i, n, count)[k] = (i + k - 1) % count
  BY DEF Order
<1>5. ASSUME NEW j \in 1 .. n, NEW k \in 1 .. n,
             Order(i, n, count)[j] = Order(i, n, count)[k]
      PROVE  j = k
  <2>1. (i + (j - 1)) % count = (i + (k - 1)) % count
    BY <1>1, <1>4, <1>5
  <2>2. \A a, b \in 0 .. n - 1 : (i + a) % count = (i + b) % count => a = b
    BY SegmentSlots
  <2>3. j - 1 = k - 1
    BY <1>1, <2>1, <2>2
  <2>4. QED
    BY <2>3
<1>6. QED
  BY <1>3, <1>4, <1>5

(* Slots are added at the end ...                                          *)
LEMMA OrderGrows ==
  ASSUME NEW count \in Nat \ {0}, NEW i \in 0 .. count - 1,
         NEW m \in 0 .. count, NEW n \in 0 .. count, m < n
  PROVE  TxFifo!IsStrictPrefix(Order(i, m, count), Order(i, n, count))
<1>m. /\ Order(i, m, count) \in Seq(0 .. count - 1) /\ Len(Order(i, m, count)) = m
      /\ \A k \in 1 .. m : Order(i, m, count)[k] = (i + k - 1) % count
  BY OrderSlots
<1>n. /\ Order(i, n, count) \in Seq(0 .. count - 1) /\ Len(Order(i, n, count)) = n
      /\ \A k \in 1 .. n : Order(i, n, count)[k] = (i + k - 1) % count
  BY OrderSlots
<1>e. \A k \in 1 .. m : k \in 1 .. n
  OBVIOUS
<1>1. /\ Order(i, m, count) \in Seq(0 .. count - 1) /\ Len(Order(i, m, count)) = m
      /\ Order(i, n, count) \in Seq(0 .. count - 1) /\ Len(Order(i, n, count)) = n
      /\ \A k \in 1 .. m : Order(i, m, count)[k] = Order(i, n, count)[k]
  BY <1>m, <1>n, <1>e, Zenon
<1>2. SubSeq(Order(i, n, count), 1, m) = Order(i, m, count)
  <2>1. /\ SubSeq(Order(i, n, count), 1, m) \in Seq(0 .. count - 1)
        /\ Len(SubSeq(Order(i, n, count), 1, m)) = m
        /\ \A k \in 1 .. m : SubSeq(Order(i, n, count), 1, m)[k] = Order(i, n, count)[k]
    BY <1>1
  <2>2. QED
    BY <1>1, <2>1, SeqEqual
<1>3. SubSeq(Order(i, m, count), 1, m) = Order(i, m, count)
  BY <1>1, SubSeqFull
<1>4. QED
  BY <1>1, <1>2, <1>3 DEF TxFifo!IsStrictPrefix, TxFifo!IsPrefix

(* ... and taken from the front.                                           *)
LEMMA OrderTail ==
  ASSUME NEW count \in Nat \ {0}, NEW i \in 0 .. count - 1, NEW n \in 1 .. count
  PROVE  /\ Order(i, n, count) # <<>>
         /\ Tail(Order(i, n, count)) = Order((i + 1) % count, n - 1, count)
<1> DEFINE h == (i + 1) % count
<1>1. h \in 0 .. count - 1 /\ n - 1 \in 0 .. count /\ n \in 0 .. count
  BY 1 \in 0 .. count, WrapOnce
<1>2. ASSUME NEW k \in 1 .. n - 1 PROVE (h + k - 1) % count = (i + (k + 1) - 1) % count
  <2>1. PICK j \in 0 .. count : j = k - 1 /\ 1 + j <= count
    OBVIOUS
  <2>2. \A m \in 0 .. count : 1 + m <= count => (h + m) % count = (i + (1 + m)) % count
    BY 1 \in 0 .. count, WrapTwice
  <2>3. (h + j) % count = (i + (1 + j)) % count
    BY <2>1, <2>2, Zenon
  <2>4. h + j = h + k - 1 /\ i + (1 + j) = i + (k + 1) - 1
    BY <1>1, <2>1
  <2>5. QED
    BY <2>3, <2>4
<1> HIDE DEF h
<1>3. /\ Order(i, n, count) \in Seq(0 .. count - 1) /\ Len(Order(i, n, count)) = n
      /\ \A k \in 1 .. n : Order(i, n, count)[k] = (i + k - 1) % count
      /\ Order(h, n - 1, count) \in Seq(0 .. count - 1)
      /\ Len(Order(h, n - 1, count)) = n - 1
      /\ \A k \in 1 .. n - 1 : Order(h, n - 1, count)[k] = (h + k - 1) % count
  BY <1>1, OrderSlots
<1>4. Order(i, n, count) # <<>>
  BY <1>3
<1>5. /\ Tail(Order(i, n, count)) \in Seq(0 .. count - 1)
      /\ Len(Tail(Order(i, n, count))) = n - 1
      /\ \A k \in 1 .. n - 1 : Tail(Order(i, n, count))[k] = Order(i, n, count)[k + 1]
  BY <1>3, <1>4, HeadTailProperties
<1>6. ASSUME NEW k \in 1 .. n - 1
      PROVE  Tail(Order(i, n, count))[k] = Order(h, n - 1, count)[k]
  <2>1. k + 1 \in 1 .. n
    OBVIOUS
  <2>2. Order(i, n, count)[k + 1] = (i + (k + 1) - 1) % count
    BY <1>3, <2>1
  <2>3. QED
    BY <1>2, <1>3, <1>5, <2>2
<1>7. Tail(Order(i, n, count)) = Order(h, n - 1, count)
  BY <1>3, <1>5, <1>6, SeqEqual
<1>8. QED
  BY <1>4, <1>7 DEF h

(* The slots the other side has handed back follow those it owns.          *)
LEMMA RingRest ==
  ASSUME NEW count \in Nat \ {0}, NEW own, NEW first, NEW last, NEW m,
         OwnRing(own, first, last, m, count)
  PROVE  Cardinality((0 .. count - 1) \ own) = count - m
<1>1. /\ first \in 0 .. count - 1 /\ m \in 0 .. count
      /\ own = Segment(first, m, count) /\ last = (first + m) % count
  BY DEF OwnRing
<1>2. PICK k \in 0 .. count : k = count - m /\ m + k = count
  BY <1>1
<1>3. own \cup Segment(last, k, count) = 0 .. count - 1
  <2>1. own \cup Segment(last, k, count) = Segment(first, m + k, count)
    <3>1. \A j \in 0 .. count : m + j <= count =>
            Segment(first, m, count) \cup Segment((first + m) % count, j, count)
              = Segment(first, m + j, count)
      BY <1>1, SegmentJoin
    <3>2. m + k <= count
      BY <1>2
    <3>3. QED
      BY <1>1, <3>1, <3>2, Zenon
  <2>2. Segment(first, count, count) = 0 .. count - 1
    BY <1>1, SegmentEnds
  <2>3. QED
    BY <1>2, <2>1, <2>2
<1>4. own \cap Segment(last, k, count) = {}
  BY <1>1, <1>2, SegmentApart
<1>5. last \in 0 .. count - 1
  BY <1>1, WrapOnce
<1>6. (0 .. count - 1) \ own = Segment(last, k, count)
  BY <1>3, <1>4
<1>7. QED
  BY <1>2, <1>5, <1>6, SegmentCardinality

-----------------------------------------------------------------------------
(* The engine runs from the start in d_ifup to ifdown.                     *)
DmaInv ==
  /\ dma_on <=> ifup \/ upc # "idle"
  /\ upc = "mark" => ~ifup
  /\ upc = "wait" => ifup

LEMMA DmaMoves ==
  [Next]_vars => \/ IfupHw \/ Ifdown \/ IfupMark \/ IfupReturn
                 \/ UNCHANGED <<dma_on, ifup, upc>>
<1> SUFFICES ASSUME [Next]_vars
             PROVE  \/ IfupHw \/ Ifdown \/ IfupMark \/ IfupReturn
                    \/ UNCHANGED <<dma_on, ifup, upc>>
  OBVIOUS
<1> USE DEF netVars, irqVars
<1>1. CASE IfupLink \/ Txavail \/ Interrupt \/ LinkTimer \/ DmaReceive \/ DmaTransmit
           \/ PhyChange \/ UNCHANGED vars
  BY <1>1 DEF IfupLink, Txavail, Interrupt, LinkTimer, DmaReceive, DmaTransmit,
     PhyChange, vars
<1>2. CASE LpWork
  BY <1>2 DEF LpWork, IrqWork, IrqAck, Receive, ReceiveEnd, Txdone, TxdoneEnd, IrqUnmask,
     PollWork, PollRun, LinkWork, LinkUpdate, LinkUnread, LinkRearm
<1>3. QED
  BY <1>1, <1>2 DEF Next, IfupCall

LEMMA DmaStep == NetOK /\ DmaInv /\ [Next]_vars => DmaInv'
<1> SUFFICES ASSUME NetOK, DmaInv, [Next]_vars PROVE DmaInv'
  OBVIOUS
<1>1. CASE IfupHw
  BY <1>1 DEF IfupHw, NetLockFree, DmaInv
<1>2. CASE Ifdown
  BY <1>2 DEF Ifdown, NetLockFree, DmaInv
<1>3. CASE IfupMark
  BY <1>3 DEF IfupMark, DmaInv
<1>4. CASE IfupReturn
  BY <1>4 DEF IfupReturn, irqVars, DmaInv
<1>5. CASE UNCHANGED <<dma_on, ifup, upc>>
  BY <1>5 DEF DmaInv
<1>6. QED
  BY <1>1, <1>2, <1>3, <1>4, <1>5, DmaMoves

FifoInv == RingInv /\ DmaInv

TxFull == RingOrder(txown, txdma, TxCount)
RxFull == RingOrder(RxSlots \ rxown, rxhead, RxCount)

(* The two sequences of the refinement mapping, before a step ...          *)
LEMMA FullNow ==
  ASSUME RingInv
  PROVE  /\ \E m \in 0 .. TxCount : /\ OwnRing(txown, txdma, txhead, m, TxCount)
                                    /\ TxFull = Order(txdma, m, TxCount)
         /\ \E m \in 0 .. RxCount : /\ OwnRing(rxown, rxdma, rxhead, m, RxCount)
                                    /\ RxFull = Order(rxhead, RxCount - m, RxCount)
<1>0. /\ RxCount \in Nat \ {0} /\ TxCount \in Nat \ {0} /\ txpending \in 0 .. TxCount
      /\ TxInv /\ RxInv
  BY GmacAssumption DEF GmacAssumption, RingInv, TxOK
<1>1. PICK m \in 0 .. txpending : OwnRing(txown, txdma, txhead, m, TxCount)
  BY <1>0 DEF TxInv
<1>2. m \in 0 .. TxCount /\ TxFull = Order(txdma, m, TxCount)
  BY <1>0, <1>1, RingCount DEF TxFull, RingOrder, Order
<1>3. PICK k \in 0 .. RxCount : OwnRing(rxown, rxdma, rxhead, k, RxCount)
  BY <1>0 DEF RxInv
<1>4. RxFull = Order(rxhead, RxCount - k, RxCount)
  BY <1>0, <1>3, RingRest DEF RxFull, RxSlots, RingOrder, Order
<1>5. QED
  BY <1>1, <1>2, <1>3, <1>4

(* ... and after it.                                                       *)
LEMMA FullNext ==
  ASSUME RingInv'
  PROVE  /\ \E m \in 0 .. TxCount : /\ OwnRing(txown', txdma', txhead', m, TxCount)
                                    /\ TxFull' = Order(txdma', m, TxCount)
         /\ \E m \in 0 .. RxCount : /\ OwnRing(rxown', rxdma', rxhead', m, RxCount)
                                    /\ RxFull' = Order(rxhead', RxCount - m, RxCount)
<1>0. /\ RxCount \in Nat \ {0} /\ TxCount \in Nat \ {0} /\ txpending' \in 0 .. TxCount
      /\ TxInv' /\ RxInv'
  BY GmacAssumption DEF GmacAssumption, RingInv, TxOK
<1>1. PICK m \in 0 .. txpending' : OwnRing(txown', txdma', txhead', m, TxCount)
  BY <1>0 DEF TxInv
<1>2. m \in 0 .. TxCount /\ TxFull' = Order(txdma', m, TxCount)
  BY <1>0, <1>1, RingCount DEF TxFull, RingOrder, Order
<1>3. PICK k \in 0 .. RxCount : OwnRing(rxown', rxdma', rxhead', k, RxCount)
  BY <1>0 DEF RxInv
<1>4. RxFull' = Order(rxhead', RxCount - k, RxCount)
  BY <1>0, <1>3, RingRest DEF RxFull, RxSlots, RingOrder, Order
<1>5. QED
  BY <1>1, <1>2, <1>3, <1>4

(* A ring of OWN bits is given and taken from as a FIFO.                   *)
LEMMA FifoPut ==
  ASSUME NEW count \in Nat \ {0}, NEW i \in 0 .. count - 1,
         NEW m \in 0 .. count, NEW n \in 0 .. count, m < n
  PROVE  /\ TxFifo!IsStrictPrefix(Order(i, m, count), Order(i, n, count))
         /\ Order(i, n, count) \in Seq(0 .. count - 1)
         /\ TxFifo!IsInjective(Order(i, n, count))
<1>1. DOMAIN Order(i, n, count) = 1 .. n
  BY DEF Order
<1>2. QED
  BY <1>1, OrderGrows, OrderSlots DEF TxFifo!IsInjective

LEMMA FifoInit == Init => FifoInv /\ TxFifo!Init /\ RxFifo!Init
<1> SUFFICES ASSUME Init PROVE FifoInv /\ TxFifo!Init /\ RxFifo!Init
  OBVIOUS
<1>0. RxCount \in Nat \ {0} /\ TxCount \in Nat \ {0} /\ RingInv
  BY GmacAssumption, RingInit DEF GmacAssumption
<1>1. DmaInv /\ dma_on = FALSE
  BY DEF Init, DmaInv
<1>2. TxFull \in Seq(TxSlots)
  <2>1. PICK m \in 0 .. TxCount : /\ OwnRing(txown, txdma, txhead, m, TxCount)
                                  /\ TxFull = Order(txdma, m, TxCount)
    BY <1>0, FullNow
  <2>2. QED
    BY <1>0, <2>1, OrderSlots DEF TxSlots, OwnRing
<1>3. RxFull \in Seq(RxSlots)
  <2>1. PICK m \in 0 .. RxCount : /\ OwnRing(rxown, rxdma, rxhead, m, RxCount)
                                  /\ RxFull = Order(rxhead, RxCount - m, RxCount)
    BY <1>0, FullNow
  <2>2. rxhead \in 0 .. RxCount - 1
    BY <1>0, <2>1, RingCount
  <2>3. PICK k \in 0 .. RxCount : k = RxCount - m
    BY <1>0
  <2>4. QED
    BY <1>0, <2>1, <2>2, <2>3, OrderSlots DEF RxSlots
<1>4. QED
  BY <1>0, <1>1, <1>2, <1>3 DEF FifoInv, TxFifo!Init, RxFifo!Init, TxFull, RxFull

LEMMA FifoStep == FifoInv /\ [Next]_vars => FifoInv'
BY RingStep, DmaStep DEF FifoInv, RingInv

(* TX: transmit puts, the engine takes, a reaped slot was taken before.    *)
LEMMA TxFifoStep ==
  FifoInv /\ [Next]_vars => TxFifo!Next \/ UNCHANGED <<dma_on, TxFull>>
<1> SUFFICES ASSUME FifoInv, [Next]_vars
             PROVE  TxFifo!Next \/ UNCHANGED <<dma_on, TxFull>>
  OBVIOUS
<1>0. /\ TxCount \in Nat \ {0} /\ RingInv /\ RingInv' /\ DmaInv
      /\ TxOK /\ BacklogOK
  BY GmacAssumption, FifoStep DEF GmacAssumption, FifoInv, RingInv
<1>p. PICK m \in 0 .. TxCount : /\ OwnRing(txown, txdma, txhead, m, TxCount)
                                /\ TxFull = Order(txdma, m, TxCount)
  BY <1>0, FullNow
<1>q. PICK n \in 0 .. TxCount : /\ OwnRing(txown', txdma', txhead', n, TxCount)
                                /\ TxFull' = Order(txdma', n, TxCount)
  BY <1>0, FullNext
<1>c. Cardinality(txown) = m /\ Cardinality(txown') = n
  BY <1>0, <1>p, <1>q, RingCount
<1>1. CASE IfupHw
  <2>1. ~dma_on /\ dma_on' = TRUE /\ txown' = {}
    BY <1>0, <1>1 DEF IfupHw, NetLockFree, DmaInv
  <2>2. n = 0
    BY <1>c, <2>1, FS_EmptySet
  <2>3. TxFull' = <<>>
    BY <1>q, <2>2 DEF Order
  <2>4. QED
    BY <2>1, <2>3 DEF TxFifo!Next, TxFifo!Start, TxFull
<1>2. CASE Ifdown
  <2>1. dma_on /\ dma_on' = FALSE /\ UNCHANGED <<txown, txdma>>
    BY <1>0, <1>2 DEF Ifdown, DmaInv, txVars
  <2>2. UNCHANGED TxFull
    BY <2>1 DEF TxFull
  <2>3. QED
    BY <2>1, <2>2 DEF TxFifo!Next, TxFifo!Stop, TxFull
<1>3. CASE ~IfupHw /\ ~Ifdown
  <2>0. UNCHANGED dma_on
    BY <1>3, DmaMoves DEF IfupMark, IfupReturn, irqVars
  <2>1. CASE Sends
    <3>1. PICK k \in 0 .. FreeTx : Transmit(k)
      BY <2>1 DEF Sends
    <3>2. /\ txown' = txown \cup Segment(txhead, k, TxCount)
          /\ txdma' = txdma
      BY <2>1, <3>1 DEF Sends, Transmit, Segment
    <3>3. CASE m < n
      <4>1. txdma \in 0 .. TxCount - 1
        BY <1>p DEF OwnRing
      <4>2. /\ TxFifo!IsStrictPrefix(TxFull, TxFull')
            /\ TxFull' \in Seq(TxSlots) /\ TxFifo!IsInjective(TxFull')
        BY <1>0, <1>p, <1>q, <3>2, <3>3, <4>1, FifoPut DEF TxSlots
      <4>3. QED
        BY <2>0, <4>2 DEF TxFifo!Next, TxFifo!Put, TxFull
    <3>4. CASE ~(m < n)
      <4>1. txown \subseteq txown' /\ IsFiniteSet(txown')
        BY <1>0, <1>q, <3>2, SegmentCardinality DEF OwnRing
      <4>2. Cardinality(txown) <= Cardinality(txown')
        BY <4>1, FS_Subset
      <4>3. m = n
        BY <1>c, <3>4, <4>2
      <4>4. QED
        BY <1>p, <1>q, <2>0, <3>2, <4>3
    <3>5. QED
      BY <3>3, <3>4
  <2>2. CASE DmaTransmit
    <3>1. /\ txdma \in txown /\ txown' = txown \ {txdma} /\ txdma' = (txdma + 1) % TxCount
          /\ txhead' = txhead
      BY <2>2 DEF DmaTransmit
    <3>2. m > 0 /\ OwnRing(txown', txdma', txhead', m - 1, TxCount)
      BY <1>0, <1>p, <3>1, RingTake
    <3>3. n = m - 1 /\ m \in 1 .. TxCount /\ txdma \in 0 .. TxCount - 1
      BY <1>0, <1>c, <1>p, <3>2, RingCount DEF OwnRing
    <3>4. TxFull # <<>> /\ TxFull' = Tail(TxFull)
      BY <1>0, <1>p, <1>q, <3>1, <3>3, OrderTail
    <3>5. QED
      BY <2>0, <3>4 DEF TxFifo!Next, TxFifo!Take, TxFull
  <2>3. CASE Txdone \/ UNCHANGED txVars
    <3>1. UNCHANGED <<txown, txdma>>
      BY <2>3 DEF Txdone, txVars
    <3>2. QED
      BY <2>0, <3>1 DEF TxFull
  <2>4. QED
    BY <1>0, <1>3, <2>1, <2>2, <2>3, TxMoves
<1>4. QED
  BY <1>1, <1>2, <1>3

(* RX: the engine puts, receive takes.                                     *)
LEMMA RxFifoStep ==
  FifoInv /\ [Next]_vars => RxFifo!Next \/ UNCHANGED <<dma_on, RxFull>>
<1> SUFFICES ASSUME FifoInv, [Next]_vars
             PROVE  RxFifo!Next \/ UNCHANGED <<dma_on, RxFull>>
  OBVIOUS
<1>0. RxCount \in Nat \ {0} /\ RingInv /\ RingInv' /\ DmaInv
  BY GmacAssumption, FifoStep DEF GmacAssumption, FifoInv, RingInv
<1>p. PICK m \in 0 .. RxCount : /\ OwnRing(rxown, rxdma, rxhead, m, RxCount)
                                /\ RxFull = Order(rxhead, RxCount - m, RxCount)
  BY <1>0, FullNow
<1>q. PICK n \in 0 .. RxCount : /\ OwnRing(rxown', rxdma', rxhead', n, RxCount)
                                /\ RxFull' = Order(rxhead', RxCount - n, RxCount)
  BY <1>0, FullNext
<1>c. /\ Cardinality(rxown) = m /\ Cardinality(rxown') = n
      /\ rxhead \in 0 .. RxCount - 1
  BY <1>0, <1>p, <1>q, RingCount
<1>1. CASE IfupHw
  <2>1. ~dma_on /\ dma_on' = TRUE /\ rxown' = 0 .. RxCount - 1
    BY <1>0, <1>1 DEF IfupHw, NetLockFree, DmaInv, RxSlots
  <2>2. Cardinality(0 .. RxCount - 1) = RxCount
    BY <1>0, FS_Interval
  <2>3. RxCount - n = 0
    BY <1>0, <1>c, <2>1, <2>2
  <2>4. RxFull' = <<>>
    BY <1>q, <2>3 DEF Order
  <2>5. QED
    BY <2>1, <2>4 DEF RxFifo!Next, RxFifo!Start, RxFull
<1>2. CASE Ifdown
  <2>1. dma_on /\ dma_on' = FALSE /\ UNCHANGED <<rxown, rxhead>>
    BY <1>0, <1>2 DEF Ifdown, DmaInv, rxVars
  <2>2. UNCHANGED RxFull
    BY <2>1 DEF RxFull
  <2>3. QED
    BY <2>1, <2>2 DEF RxFifo!Next, RxFifo!Stop, RxFull
<1>3. CASE ~IfupHw /\ ~Ifdown
  <2>0. UNCHANGED dma_on
    BY <1>3, DmaMoves DEF IfupMark, IfupReturn, irqVars
  <2>1. CASE DmaReceive
    <3>1. /\ rxdma \in rxown /\ rxown' = rxown \ {rxdma} /\ rxdma' = (rxdma + 1) % RxCount
          /\ rxhead' = rxhead
      BY <2>1 DEF DmaReceive
    <3>2. m > 0 /\ OwnRing(rxown', rxdma', rxhead', m - 1, RxCount)
      BY <1>0, <1>p, <3>1, RingTake
    <3>3. n = m - 1
      BY <1>0, <1>c, <3>2, RingCount
    <3>4. PICK a \in 0 .. RxCount, b \in 0 .. RxCount :
            a = RxCount - m /\ b = RxCount - n /\ a < b
      BY <1>0, <3>3
    <3>5. /\ TxFifo!IsStrictPrefix(RxFull, RxFull')
          /\ RxFull' \in Seq(RxSlots) /\ TxFifo!IsInjective(RxFull')
      BY <1>0, <1>c, <1>p, <1>q, <3>1, <3>4, FifoPut DEF RxSlots
    <3>6. QED
      BY <2>0, <3>5 DEF RxFifo!Next, RxFifo!Put, RxFull, TxFifo!IsStrictPrefix,
         TxFifo!IsPrefix, TxFifo!IsInjective, RxFifo!IsStrictPrefix, RxFifo!IsPrefix,
         RxFifo!IsInjective
  <2>2. CASE Receive
    <3>1. /\ rxhead \notin rxown /\ rxown' = rxown \cup {rxhead}
          /\ rxhead' = (rxhead + 1) % RxCount
      BY <2>2 DEF Receive
    <3>2. n = m + 1
      BY <1>0, <1>c, <1>p, <3>1, FS_AddElement, SegmentCardinality DEF OwnRing
    <3>3. PICK a \in 1 .. RxCount : a = RxCount - m /\ a - 1 = RxCount - n
      BY <1>0, <3>2
    <3>4. RxFull # <<>> /\ RxFull' = Tail(RxFull)
      BY <1>0, <1>c, <1>p, <1>q, <3>1, <3>3, OrderTail
    <3>5. QED
      BY <2>0, <3>4 DEF RxFifo!Next, RxFifo!Take, RxFull
  <2>3. CASE UNCHANGED rxVars
    BY <2>0, <2>3 DEF RxFull, rxVars
  <2>4. QED
    BY <1>3, <2>1, <2>2, <2>3, RxMoves
<1>4. QED
  BY <1>1, <1>2, <1>3

(* Both rings implement a FIFO of slots, for every ring size: frames are   *)
(* sent in the order transmit accepted them and received in the order the  *)
(* engine filled them, and no slot is overwritten before it was taken      *)
(* (desc_initialize, transmit, receive).                                   *)
THEOREM RingsImplementFifos == Spec => RingsAreFifos
<1>1. FifoInv /\ [Next]_vars => [TxFifo!Next]_<<dma_on, RingOrder(txown, txdma, TxCount)>>
  BY TxFifoStep DEF TxFull
<1>2. FifoInv /\ [Next]_vars =>
        [RxFifo!Next]_<<dma_on, RingOrder(RxSlots \ rxown, rxhead, RxCount)>>
  BY RxFifoStep DEF RxFull
<1>3. QED
  BY <1>1, <1>2, FifoInit, FifoStep, PTL DEF Spec, RingsAreFifos, TxFifo!Spec, RxFifo!Spec

-----------------------------------------------------------------------------
(* Interrupts.  Until the first ifdown, irqwork is either queued or being  *)
(* run while the line is masked, and neither while it is not.              *)
LineInv ==
  downs = 0 =>
    /\ irq_enabled => ~Queued("irq") /\ ~Working /\ ifup
    /\ Queued("irq") => ~Working /\ ifup
    /\ Working => ifup
    /\ ifup => irq_enabled \/ Queued("irq") \/ Working

(* A filled descriptor has raised a status bit since irqwork last read     *)
(* them, or its receive loop is still running; the loop has given back     *)
(* every descriptor it has handled, unless the engine has filled one since. *)
FilledInv ==
  /\ downs = 0 /\ dma_on /\ rxown # RxSlots => "rx" \in status \/ wpc = "receive"
  /\ wpc = "receive" => "rx" \in status \/ Cardinality(rxown) >= processed

(* Which steps change what is queued for LPWORK.                           *)
LEMMA IrqQueue ==
  ASSUME QueueOK, [Next]_vars
  PROVE  /\ Interrupt => Queued("irq")'
         /\ IrqWork => Queued("irq") /\ ~Queued("irq")'
         /\ ~Interrupt /\ ~IrqWork => (Queued("irq")' <=> Queued("irq"))
<1>1. \A w \in Works : Appends(w) => (Queued("irq")' <=> Queued("irq") \/ w = "irq")
  BY QueueLater DEF Appends, Queued, Works
<1>2. Drops => (Queued("irq")' <=> Queued("irq") /\ Head(lpq) # "irq")
  BY QueueLater DEF Drops, Queued, Works
<1>3. UNCHANGED lpq => (Queued("irq")' <=> Queued("irq"))
  BY DEF Queued
<1>4. Interrupt => Queued("irq")'
  <2>1. Interrupt => Appends("irq") \/ (Queued("irq") /\ UNCHANGED lpq)
    BY DEF Interrupt, Appends
  <2>2. QED
    BY <1>1, <1>3, <2>1 DEF Works
<1>5. IrqWork => Queued("irq") /\ ~Queued("irq")'
  <2>1. IrqWork => Drops /\ Head(lpq) = "irq"
    BY DEF IrqWork, WorkBegin, Drops
  <2>2. IrqWork => lpq[1] = "irq" /\ 1 \in DOMAIN lpq
    BY <2>1, HeadTailProperties, LenProperties, EmptySeq DEF QueueOK, Drops
  <2>3. QED
    BY <1>2, <2>1, <2>2 DEF Queued
<1>6. ASSUME ~Interrupt, ~IrqWork PROVE Queued("irq")' <=> Queued("irq")
  <2>1. (Drops /\ Head(lpq) # "irq") \/ (\E w \in Works \ {"irq"} : Appends(w)) \/ UNCHANGED lpq
    <3> USE DEF netVars, workVars, Works, Appends, Drops, WorkBegin
    <3>1. CASE IfupHw \/ IfupCall \/ Ifdown \/ PhyChange \/ DmaReceive \/ DmaTransmit
      BY <3>1 DEF IfupHw, IfupCall, IfupMark, IfupLink, IfupReturn, Ifdown, PhyChange,
         DmaReceive, DmaTransmit
    <3>2. CASE Txavail \/ LinkTimer \/ PollWork \/ LinkWork
      BY <3>2 DEF Txavail, LinkTimer, PollWork, LinkWork
    <3>3. CASE IrqAck \/ Receive \/ ReceiveEnd \/ Txdone \/ TxdoneEnd \/ IrqUnmask
               \/ PollRun \/ LinkUpdate \/ LinkUnread \/ LinkRearm
      BY <3>3 DEF IrqAck, Receive, ReceiveEnd, Txdone, TxdoneEnd, IrqUnmask, PollRun,
         LinkUpdate, LinkUnread, LinkRearm
    <3>4. CASE UNCHANGED vars
      BY <3>4 DEF vars
    <3>5. QED
      BY <1>6, <3>1, <3>2, <3>3, <3>4 DEF Next, LpWork
  <2>2. QED
    BY <1>1, <1>2, <1>3, <2>1
<1>7. QED
  BY <1>4, <1>5, <1>6

(* Which steps move irqwork, mask or unmask the line, start or stop the    *)
(* interface.                                                              *)
LEMMA LineMoves ==
  [Next]_vars =>
    \/ Interrupt \/ IrqWork \/ IrqUnmask \/ IfupMark \/ Ifdown
    \/ UNCHANGED <<irq_enabled, ifup, downs>> /\ Working' = Working
<1> SUFFICES ASSUME [Next]_vars
             PROVE  \/ Interrupt \/ IrqWork \/ IrqUnmask \/ IfupMark \/ Ifdown
                    \/ UNCHANGED <<irq_enabled, ifup, downs>> /\ Working' = Working
  OBVIOUS
<1> USE DEF netVars, workVars, irqVars, Working
<1>1. CASE IfupHw \/ IfupLink \/ IfupReturn \/ Txavail \/ LinkTimer \/ DmaReceive
           \/ DmaTransmit \/ PhyChange \/ UNCHANGED vars
  BY <1>1 DEF IfupHw, IfupLink, IfupReturn, Txavail, LinkTimer, DmaReceive, DmaTransmit,
     PhyChange, vars
<1>2. CASE IrqAck \/ Receive \/ ReceiveEnd \/ Txdone \/ TxdoneEnd
  BY <1>2 DEF IrqAck, Receive, ReceiveEnd, Txdone, TxdoneEnd
<1>3. CASE PollWork \/ PollRun \/ LinkWork \/ LinkUpdate \/ LinkUnread \/ LinkRearm
  BY <1>3 DEF PollWork, PollRun, LinkWork, LinkUpdate, LinkUnread, LinkRearm, WorkBegin
<1>4. QED
  BY <1>1, <1>2, <1>3 DEF Next, IfupCall, LpWork

LEMMA LineStep ==
  NetOK /\ QueueOK /\ DmaInv /\ LineInv /\ [Next]_vars => LineInv'
<1> SUFFICES ASSUME NetOK, QueueOK, DmaInv, LineInv, [Next]_vars PROVE LineInv'
  OBVIOUS
<1>1. CASE Interrupt
  <2>1. /\ irq_enabled /\ UNCHANGED <<ifup, downs>> /\ Working' = Working
        /\ Queued("irq") \/ irq_enabled' = FALSE
    BY <1>1 DEF Interrupt, Preempted, netVars, Working
  <2>2. QED
    BY <1>1, <2>1, IrqQueue DEF LineInv
<1>2. CASE IrqWork
  <2>1. UNCHANGED <<ifup, downs, irq_enabled>> /\ Working'
    BY <1>2 DEF IrqWork, netVars, irqVars, Working
  <2>2. QED
    BY <1>2, <2>1, IrqQueue DEF LineInv
<1>3. CASE IrqUnmask
  <2>1. UNCHANGED <<ifup, downs>> /\ Working /\ ~Working' /\ irq_enabled' = TRUE
    BY <1>3 DEF IrqUnmask, netVars, Working
  <2>2. Queued("irq")' <=> Queued("irq")
    BY <1>3, IrqQueue DEF IrqUnmask, Interrupt, IrqWork, Preempted
  <2>3. QED
    BY <2>1, <2>2 DEF LineInv
<1>4. CASE IfupMark
  <2>1. ~ifup /\ ifup' = TRUE /\ irq_enabled' = TRUE /\ UNCHANGED <<downs, lpq, wpc>>
    BY <1>4 DEF IfupMark, DmaInv, workVars
  <2>2. (Queued("irq")' <=> Queued("irq")) /\ Working' = Working
    BY <2>1 DEF Queued, Working
  <2>3. QED
    BY <2>1, <2>2 DEF LineInv
<1>5. CASE Ifdown
  BY <1>5 DEF Ifdown, LineInv, NetOK
<1>6. CASE /\ ~Interrupt /\ ~IrqWork
           /\ UNCHANGED <<irq_enabled, ifup, downs>> /\ Working' = Working
  <2>1. Queued("irq")' <=> Queued("irq")
    BY <1>6, IrqQueue
  <2>2. QED
    BY <1>6, <2>1 DEF LineInv
<1>7. QED
  BY <1>1, <1>2, <1>3, <1>4, <1>5, <1>6, LineMoves

LEMMA FilledMoves ==
  [Next]_vars =>
    \/ IfupHw \/ Ifdown \/ IrqAck \/ Receive \/ ReceiveEnd \/ DmaReceive
    \/ /\ UNCHANGED <<downs, dma_on, rxown, processed>>
       /\ (wpc' = "receive") = (wpc = "receive")
       /\ "rx" \in status => "rx" \in status'
    \/ TxdoneEnd
<1> SUFFICES ASSUME [Next]_vars
             PROVE  \/ IfupHw \/ Ifdown \/ IrqAck \/ Receive \/ ReceiveEnd \/ DmaReceive
                    \/ /\ UNCHANGED <<downs, dma_on, rxown, processed>>
                       /\ (wpc' = "receive") = (wpc = "receive")
                       /\ "rx" \in status => "rx" \in status'
                    \/ TxdoneEnd
  OBVIOUS
<1> USE DEF netVars, workVars, irqVars, rxVars
<1>1. CASE IfupMark \/ IfupLink \/ IfupReturn \/ Txavail \/ LinkTimer \/ Interrupt
           \/ DmaTransmit \/ PhyChange \/ UNCHANGED vars
  BY <1>1 DEF IfupMark, IfupLink, IfupReturn, Txavail, LinkTimer, Interrupt, DmaTransmit,
     PhyChange, vars
<1>2. CASE IrqWork \/ Txdone \/ IrqUnmask \/ PollWork \/ PollRun
  BY <1>2 DEF IrqWork, Txdone, IrqUnmask, PollWork, PollRun, WorkBegin
<1>3. CASE LinkWork \/ LinkUpdate \/ LinkUnread \/ LinkRearm
  BY <1>3 DEF LinkWork, LinkUpdate, LinkUnread, LinkRearm, WorkBegin
<1>4. QED
  BY <1>1, <1>2, <1>3 DEF Next, IfupCall, LpWork

LEMMA FilledStep ==
  RingInv /\ RingInv' /\ FilledInv /\ [Next]_vars => FilledInv'
<1> SUFFICES ASSUME RingInv, RingInv', FilledInv, [Next]_vars PROVE FilledInv'
  OBVIOUS
<1>0. /\ RxCount \in Nat \ {0} /\ NetOK /\ processed \in 0 .. RxCount
  BY GmacAssumption DEF GmacAssumption, RingInv, NetOK
<1>p. PICK m \in 0 .. RxCount : OwnRing(rxown, rxdma, rxhead, m, RxCount)
  BY DEF RingInv, RxInv
<1>q. PICK n \in 0 .. RxCount : OwnRing(rxown', rxdma', rxhead', n, RxCount)
  BY DEF RingInv, RxInv
<1>c. Cardinality(rxown) = m /\ Cardinality(rxown') = n
  BY <1>0, <1>p, <1>q, RingCount
<1>f. m = RxCount => rxown = RxSlots
  BY <1>0, <1>p, SegmentEnds DEF OwnRing, RxSlots
<1>1. CASE IfupHw
  BY <1>1 DEF IfupHw, NetLockFree, InsideLock, workVars, FilledInv
<1>2. CASE Ifdown
  BY <1>2 DEF Ifdown, NetLockFree, InsideLock, FilledInv
<1>3. CASE IrqAck
  <2>1. /\ wpc # "receive" /\ processed' = 0 /\ UNCHANGED <<downs, dma_on, rxown>>
        /\ "rx" \in status => wpc' = "receive"
    BY <1>3 DEF IrqAck, netVars, rxVars
  <2>2. QED
    BY <1>c, <2>1 DEF FilledInv
<1>4. CASE Receive
  <2>1. /\ rxhead \notin rxown /\ rxown' = rxown \cup {rxhead} /\ processed' = processed + 1
        /\ wpc = "receive" /\ wpc' = "receive" /\ status' = status
    BY <1>4 DEF Receive, irqVars
  <2>2. n = m + 1
    BY <1>0, <1>c, <1>p, <2>1, FS_AddElement, SegmentCardinality DEF OwnRing
  <2>3. QED
    BY <1>0, <1>c, <2>1, <2>2 DEF FilledInv
<1>5. CASE ReceiveEnd
  <2>1. /\ wpc = "receive" /\ wpc' # "receive"
        /\ UNCHANGED <<downs, dma_on, rxown, status>>
        /\ processed = RxCount \/ rxhead \in rxown
    BY <1>5 DEF ReceiveEnd, netVars, irqVars, rxVars
  <2>2. rxhead \in rxown => rxown = RxSlots
    BY <1>0, <1>p, RingCount DEF RxSlots
  <2>3. processed = RxCount => "rx" \in status \/ rxown = RxSlots
    BY <1>0, <1>c, <1>f, <2>1 DEF FilledInv
  <2>4. QED
    BY <2>1, <2>2, <2>3 DEF FilledInv
<1>6. CASE DmaReceive
  BY <1>6 DEF DmaReceive, FilledInv
<1>7. CASE /\ UNCHANGED <<downs, dma_on, rxown, processed>>
           /\ (wpc' = "receive") = (wpc = "receive")
           /\ "rx" \in status => "rx" \in status'
  BY <1>7 DEF FilledInv
<1>8. CASE TxdoneEnd
  BY <1>8 DEF TxdoneEnd, irqVars, rxVars, FilledInv
<1>9. QED
  BY <1>1, <1>2, <1>3, <1>4, <1>5, <1>6, <1>7, <1>8, FilledMoves

(* For every ring size: no filled descriptor is left behind, and until the *)
(* first ifdown the handler never finds irqwork still queued or running,   *)
(* so it always masks the line (interrupt, interrupt_work, receive).       *)
THEOREM NoInterruptLost == Spec => []InterruptsNotLost
<1> DEFINE Inv == FifoInv /\ LineInv /\ FilledInv
<1>1. Init => Inv
  <2> SUFFICES ASSUME Init PROVE Inv
    OBVIOUS
  <2>1. FifoInv
    BY FifoInit
  <2>2. ~Queued("irq") /\ ~Working
    BY DEF Init, Queued, Working
  <2>3. LineInv /\ FilledInv
    BY <2>2 DEF Init, LineInv, FilledInv
  <2>4. QED
    BY <2>1, <2>3
<1>2. Inv /\ [Next]_vars => Inv'
  BY FifoStep, LineStep, FilledStep DEF FifoInv, RingInv
<1>3. Inv => InterruptsNotLost
  BY DEF InterruptsNotLost, FifoInv, DmaInv, LineInv, FilledInv
<1>4. QED
  BY <1>1, <1>2, <1>3, PTL DEF Spec
=============================================================================
