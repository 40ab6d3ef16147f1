------------------------------ MODULE WifiProofs ------------------------------
(***************************************************************************)
(* Theorems about Wifi, for every number of threads, packets and frames.   *)
(* They rest on one fact: there is never more than one receive thread, and *)
(* none at all while a connect is under way.                               *)
(***************************************************************************)
EXTENDS Wifi, WellFoundedInduction, FiniteSetTheorems, SequenceTheorems, TLAPS

(* The positions from a command's first request to its last answer; all    *)
(* but a scan's belong to a connect.                                       *)
Requesting == {"drain", "send", "wait", "flush", "next", "ind", "joined"}
Joining == cpc \in Requesting /\ creq # "scan"

(* One receive thread at most.  One that has begun is what rx_running      *)
(* tells of; without a connection it has been told to stop; and a connect  *)
(* that asks the firmware for anything has waited for its end.             *)
ThreadInv ==
  /\ \A t, u \in Live : t = u
  /\ rx_running <=> \E t \in Live : rpc[t] # "new"
  /\ cpc = "pump" => connected /\ \A t \in Live : rpc[t] # "new" /\ ~rx_stop
  /\ Live # {} /\ ~connected => rx_stop
  /\ Joining => Live = {} /\ (connected <=> cpc = "joined")
  /\ cpc \in {"stop", "down"} => rx_stop
  /\ cpc \in {"ind", "joined"} => creq = "conn"
  /\ cpc = "pump" => creq # "scan"
  /\ creq = "up" => fw_loaded
  /\ connected \/ creq \in {"addif", "conn"} => fw_loaded /\ brought_up
  /\ cpc \in {"idle", "stop", "down"} => creq = None
  /\ cpc \in Requesting => creq \in Requests

(* The carrier follows the connection, and the last connect reported as    *)
(* made has left a receive thread behind.                                  *)
LinkInv ==
  /\ carrier <=> connected /\ cpc # "joined"
  /\ cpc = "idle" \/ creq = "scan" =>
       (connected /\ result = "ok" => Live # {} /\ ~rx_stop)

FlagsOK ==
  /\ fw_loaded \in BOOLEAN /\ brought_up \in BOOLEAN
  /\ connected \in BOOLEAN /\ carrier \in BOOLEAN /\ ifup \in BOOLEAN
  /\ rx_stop \in BOOLEAN /\ rx_running \in BOOLEAN
  /\ rpc \in [Threads -> {None, "new", "loop", "lock", "feed", "net", "reply"}]
-----------------------------------------------------------------------------
LEMMA ThreadInit == Init => FlagsOK /\ ThreadInv /\ LinkInv
  BY DEF Init, FlagsOK, ThreadInv, LinkInv, Live, Joining, Requesting, None

LEMMA FlagsStep == FlagsOK /\ [Next]_vars => FlagsOK'
<1> SUFFICES ASSUME FlagsOK, [Next]_vars PROVE FlagsOK'
  OBVIOUS
<1> USE DEF FlagsOK, flagVars, pumpVars, None, Join, Create, NextMsg
<1>1. CASE UNCHANGED vars
  BY <1>1 DEF vars
<1>2. CASE Connect
  BY <1>2 DEF Connect
<1>3. CASE Scan
  BY <1>3 DEF Scan
<1>4. CASE Ifup
  BY <1>4 DEF Ifup
<1>5. CASE Ifdown
  BY <1>5 DEF Ifdown
<1>6. CASE DrainOne
  BY <1>6 DEF DrainOne
<1>7. CASE DrainEnd
  BY <1>7 DEF DrainEnd
<1>8. CASE Send
  BY <1>8 DEF Send, Write
<1>9. CASE SendFails
  BY <1>9 DEF SendFails
<1>10. CASE CfmArrives
  BY <1>10 DEF CfmArrives
<1>11. CASE Unexpected
  BY <1>11 DEF Unexpected, Skip
<1>12. CASE WaitEnds
  BY <1>12 DEF WaitEnds
<1>13. CASE Proceed
  BY <1>13 DEF Proceed
<1>14. CASE IndRead
  BY <1>14 DEF IndRead
<1>15. CASE IndGivesUp
  BY <1>15 DEF IndGivesUp
<1>16. CASE Joined
  BY <1>16 DEF Joined
<1>17. CASE rx_thread_start
  BY <1>17 DEF rx_thread_start, StartIf
<1>18. CASE StopWait
  BY <1>18 DEF StopWait, StopIf
<1>19. CASE Down
  BY <1>19 DEF Down
<1>20. ASSUME NEW t \in Threads, RxBegin(t) PROVE FlagsOK'
  BY <1>20 DEF RxBegin
<1>21. ASSUME NEW t \in Threads, RxCheck(t) PROVE FlagsOK'
  BY <1>21 DEF RxCheck, RxLoop
<1>22. ASSUME NEW t \in Threads, RxRecv(t) PROVE FlagsOK'
  BY <1>22 DEF RxRecv
<1>23. ASSUME NEW t \in Threads, RxFeed(t) PROVE FlagsOK'
  BY <1>23 DEF RxFeed
<1>24. ASSUME NEW t \in Threads, RxInput(t) PROVE FlagsOK'
  BY <1>24 DEF RxInput
<1>25. ASSUME NEW t \in Threads, RxReply(t) PROVE FlagsOK'
  BY <1>25 DEF RxReply
<1>26. CASE TxBegin
  BY <1>26 DEF TxBegin
<1>27. CASE TxEnd
  BY <1>27 DEF TxEnd
<1>28. CASE FwConfirm
  BY <1>28 DEF FwConfirm
<1>29. CASE FwIndicate
  BY <1>29 DEF FwIndicate
<1>30. CASE FwData
  BY <1>30 DEF FwData
<1> QED
  BY <1>1, <1>2, <1>3, <1>4, <1>5, <1>6, <1>7, <1>8, <1>9, <1>10, <1>11, <1>12,
     <1>13, <1>14, <1>15, <1>16, <1>17, <1>18, <1>19, <1>20, <1>21, <1>22,
     <1>23, <1>24, <1>25, <1>26, <1>27, <1>28, <1>29, <1>30
  DEF Next, CmdStep, RxStep

LEMMA ThreadStep == FlagsOK /\ ThreadInv /\ [Next]_vars => ThreadInv'
<1> SUFFICES ASSUME FlagsOK, ThreadInv, [Next]_vars PROVE ThreadInv'
  OBVIOUS
<1> USE DEF FlagsOK, ThreadInv, flagVars, pumpVars, cmdVars, None, Live, Joining,
        Requesting, Requests, Begin, BeginAt, Finish, Draining, Join, Settled, Slots, Create, NextMsg
<1>1. CASE UNCHANGED vars
  BY <1>1 DEF vars
<1>2. CASE Connect
  <2>1. /\ UNCHANGED <<fw_loaded, brought_up, connected, rx_stop, rx_running, rpc>>
        /\ cpc = "idle" /\ Settled
    BY <1>2 DEF Connect
  <2>2. CASE cpc' = "drain" /\ creq' = "fw" /\ ~fw_loaded
    BY <2>1, <2>2
  <2>3. CASE cpc' = "drain" /\ creq' = "up" /\ fw_loaded /\ ~brought_up
    BY <2>1, <2>3
  <2>4. CASE cpc' = "pump" /\ creq' = None /\ connected
    BY <2>1, <2>4
  <2>5. CASE /\ cpc' = "drain" /\ creq' \in {"addif", "conn"}
             /\ fw_loaded /\ brought_up /\ ~connected
    BY <2>1, <2>5
  <2> QED
    BY <1>2, <2>2, <2>3, <2>4, <2>5 DEF Connect
<1>3. CASE Scan
  BY <1>3 DEF Scan
<1>4. CASE Ifup
  BY <1>4 DEF Ifup
<1>5. CASE Ifdown
  BY <1>5 DEF Ifdown
<1>6. CASE DrainOne
  BY <1>6 DEF DrainOne
<1>7. CASE DrainEnd
  BY <1>7 DEF DrainEnd
<1>8. CASE Send
  BY <1>8 DEF Send, Write
<1>9. CASE SendFails
  BY <1>9 DEF SendFails
<1>10. CASE CfmArrives
  BY <1>10 DEF CfmArrives
<1>11. CASE Unexpected
  BY <1>11 DEF Unexpected, Skip
<1>12. CASE WaitEnds
  BY <1>12 DEF WaitEnds
<1>13. CASE Proceed
  BY <1>13 DEF Proceed
<1>14. CASE IndRead
  BY <1>14 DEF IndRead
<1>15. CASE IndGivesUp
  BY <1>15 DEF IndGivesUp
<1>16. CASE Joined
  BY <1>16 DEF Joined
<1>17. CASE rx_thread_start
  <2>1. /\ UNCHANGED <<fw_loaded, brought_up, connected, rx_running>>
        /\ cpc = "pump" /\ cpc' = "idle" /\ creq' = None
    BY <1>17 DEF rx_thread_start, StartIf
  <2>2. CASE UNCHANGED <<rx_stop, rpc>>
    BY <2>1, <2>2
  <2>3. CASE ~rx_running /\ rx_stop' = FALSE /\ Create
    <3>1. Live = {}
      BY <2>1, <2>3
    <3>2. PICK t \in Threads : rpc' = [rpc EXCEPT ![t] = "new"]
      <4>1. 1 \in Slots /\ \A v \in Slots : 1 <= v
        <5>1. Slots = 1 .. MaxThreads /\ MaxThreads \in Nat \ {0}
          BY <3>1, WifiAssumption DEF WifiAssumption, Threads
        <5> QED
          BY <5>1
      <4>2. (CHOOSE u \in Slots : \A v \in Slots : u <= v) \in Slots
        BY <4>1
      <4> QED
        BY <2>3, <4>2
    <3>3. Live' = {t}
      BY <3>1, <3>2
    <3> QED
      BY <2>1, <2>3, <3>2, <3>3
  <2>4. CASE ~rx_running /\ rx_stop' = FALSE /\ UNCHANGED rpc
    <3>1. Live = {} /\ Live' = {}
      BY <2>1, <2>4
    <3> QED
      BY <2>1, <2>4, <3>1
  <2> QED
    BY <1>17, <2>2, <2>3, <2>4 DEF rx_thread_start, StartIf
<1>18. CASE StopWait
  BY <1>18 DEF StopWait, StopIf
<1>19. CASE Down
  BY <1>19 DEF Down
<1>20. ASSUME NEW t \in Threads, RxBegin(t) PROVE ThreadInv'
  BY <1>20 DEF RxBegin
<1>21. ASSUME NEW t \in Threads, RxCheck(t) PROVE ThreadInv'
  BY <1>21 DEF RxCheck, RxLoop
<1>22. ASSUME NEW t \in Threads, RxRecv(t) PROVE ThreadInv'
  BY <1>22 DEF RxRecv
<1>23. ASSUME NEW t \in Threads, RxFeed(t) PROVE ThreadInv'
  BY <1>23 DEF RxFeed
<1>24. ASSUME NEW t \in Threads, RxInput(t) PROVE ThreadInv'
  BY <1>24 DEF RxInput
<1>25. ASSUME NEW t \in Threads, RxReply(t) PROVE ThreadInv'
  BY <1>25 DEF RxReply
<1>26. CASE TxBegin
  BY <1>26 DEF TxBegin
<1>27. CASE TxEnd
  BY <1>27 DEF TxEnd
<1>28. CASE FwConfirm
  BY <1>28 DEF FwConfirm
<1>29. CASE FwIndicate
  BY <1>29 DEF FwIndicate
<1>30. CASE FwData
  BY <1>30 DEF FwData
<1> QED
  BY <1>1, <1>2, <1>3, <1>4, <1>5, <1>6, <1>7, <1>8, <1>9, <1>10, <1>11, <1>12,
     <1>13, <1>14, <1>15, <1>16, <1>17, <1>18, <1>19, <1>20, <1>21, <1>22,
     <1>23, <1>24, <1>25, <1>26, <1>27, <1>28, <1>29, <1>30
  DEF Next, CmdStep, RxStep

LEMMA LinkStep == FlagsOK /\ ThreadInv /\ LinkInv /\ [Next]_vars => LinkInv'
<1> SUFFICES ASSUME FlagsOK, ThreadInv, LinkInv, [Next]_vars PROVE LinkInv'
  OBVIOUS
<1> USE DEF FlagsOK, ThreadInv, LinkInv, flagVars, pumpVars, cmdVars, None, Live,
        Joining, Requesting, Requests, Begin, BeginAt, Finish, Draining, Join, Settled, Slots, Create, NextMsg
<1>1. CASE UNCHANGED vars
  BY <1>1 DEF vars
<1>2. CASE Connect
  BY <1>2 DEF Connect
<1>3. CASE Scan
  BY <1>3 DEF Scan
<1>4. CASE Ifup
  BY <1>4 DEF Ifup
<1>5. CASE Ifdown
  BY <1>5 DEF Ifdown
<1>6. CASE DrainOne
  BY <1>6 DEF DrainOne
<1>7. CASE DrainEnd
  BY <1>7 DEF DrainEnd
<1>8. CASE Send
  BY <1>8 DEF Send, Write
<1>9. CASE SendFails
  BY <1>9 DEF SendFails
<1>10. CASE CfmArrives
  BY <1>10 DEF CfmArrives
<1>11. CASE Unexpected
  BY <1>11 DEF Unexpected, Skip
<1>12. CASE WaitEnds
  BY <1>12 DEF WaitEnds
<1>13. CASE Proceed
  BY <1>13 DEF Proceed
<1>14. CASE IndRead
  BY <1>14 DEF IndRead
<1>15. CASE IndGivesUp
  BY <1>15 DEF IndGivesUp
<1>16. CASE Joined
  BY <1>16 DEF Joined
<1>17. CASE rx_thread_start
  <2>1. UNCHANGED <<connected, carrier>> /\ cpc = "pump" /\ cpc' = "idle"
    BY <1>17 DEF rx_thread_start, StartIf
  <2>2. CASE rx_running
    <3>1. UNCHANGED <<rx_stop, rpc>>
      BY <1>17, <2>2 DEF rx_thread_start, StartIf
    <3> QED
      BY <2>1, <2>2, <3>1
  <2>3. CASE ~rx_running /\ Create
    <3>1. rx_stop' = FALSE
      BY <1>17, <2>3 DEF rx_thread_start, StartIf
    <3>2. Live' # {}
      BY <2>3
    <3> QED
      BY <2>1, <3>1, <3>2
  <2>4. CASE ~rx_running /\ Finish("failed")
    <3>1. result' = IF creq = "scan" THEN result ELSE "failed"
      BY <2>4
    <3> QED
      BY <2>1, <3>1
  <2> QED
    BY <1>17, <2>2, <2>3, <2>4 DEF rx_thread_start, StartIf
<1>18. CASE StopWait
  BY <1>18 DEF StopWait, StopIf
<1>19. CASE Down
  BY <1>19 DEF Down
<1>20. ASSUME NEW t \in Threads, RxBegin(t) PROVE LinkInv'
  BY <1>20 DEF RxBegin
<1>21. ASSUME NEW t \in Threads, RxCheck(t) PROVE LinkInv'
  BY <1>21 DEF RxCheck, RxLoop
<1>22. ASSUME NEW t \in Threads, RxRecv(t) PROVE LinkInv'
  BY <1>22 DEF RxRecv
<1>23. ASSUME NEW t \in Threads, RxFeed(t) PROVE LinkInv'
  BY <1>23 DEF RxFeed
<1>24. ASSUME NEW t \in Threads, RxInput(t) PROVE LinkInv'
  BY <1>24 DEF RxInput
<1>25. ASSUME NEW t \in Threads, RxReply(t) PROVE LinkInv'
  BY <1>25 DEF RxReply
<1>26. CASE TxBegin
  BY <1>26 DEF TxBegin
<1>27. CASE TxEnd
  BY <1>27 DEF TxEnd
<1>28. CASE FwConfirm
  BY <1>28 DEF FwConfirm
<1>29. CASE FwIndicate
  BY <1>29 DEF FwIndicate
<1>30. CASE FwData
  BY <1>30 DEF FwData
<1> QED
  BY <1>1, <1>2, <1>3, <1>4, <1>5, <1>6, <1>7, <1>8, <1>9, <1>10, <1>11, <1>12,
     <1>13, <1>14, <1>15, <1>16, <1>17, <1>18, <1>19, <1>20, <1>21, <1>22,
     <1>23, <1>24, <1>25, <1>26, <1>27, <1>28, <1>29, <1>30
  DEF Next, CmdStep, RxStep
-----------------------------------------------------------------------------
(* Packets and the messages they hold.                                     *)
LEMMA HeldPlaces ==
  ASSUME NEW S, NEW q \in Seq(Seq(S)), NEW x
  PROVE  x \in Held(q) <=> \E i \in 1 .. Len(q) : \E j \in 1 .. Len(q[i]) : x = <<i, j>>
<1>1. DOMAIN q = 1 .. Len(q) /\ \A i \in 1 .. Len(q) : DOMAIN q[i] = 1 .. Len(q[i])
  <2>1. DOMAIN q = 1 .. Len(q)
    BY LenProperties
  <2>2. \A i \in 1 .. Len(q) : q[i] \in Seq(S)
    BY ElementOfSeq
  <2>3. \A i \in 1 .. Len(q) : DOMAIN q[i] = 1 .. Len(q[i])
    BY <2>2, LenProperties
  <2> QED
    BY <2>1, <2>3
<1> QED
  BY <1>1 DEF Held

LEMMA HeldFinite ==
  ASSUME NEW S, NEW q \in Seq(Seq(S))
  PROVE  IsFiniteSet(Held(q)) /\ Cardinality(Held(q)) \in Nat
<1> DEFINE Row(i) == {i} \X DOMAIN q[i]
           Rows == {Row(i) : i \in DOMAIN q}
<1>1. DOMAIN q = 1 .. Len(q) /\ Len(q) \in Nat
  BY LenProperties
<1>2. IsFiniteSet(Rows)
  <2>1. IsFiniteSet(DOMAIN q)
    BY <1>1, FS_Interval
  <2> QED
    <3> DEFINE f == [i \in DOMAIN q |-> Row(i)]
    <3>1. f \in Surjection(DOMAIN q, Rows)
      BY DEF Surjection
    <3> QED
      BY <2>1, <3>1, FS_Surjection
<1>3. ASSUME NEW R \in Rows PROVE IsFiniteSet(R)
  <2>1. PICK i \in 1 .. Len(q) : R = Row(i)
    BY <1>1
  <2>2. q[i] \in Seq(S)
    BY ElementOfSeq
  <2>3. DOMAIN q[i] = 1 .. Len(q[i]) /\ Len(q[i]) \in Nat
    BY <2>2, LenProperties
  <2>4. IsFiniteSet(DOMAIN q[i]) /\ IsFiniteSet({i})
    <3>1. IsFiniteSet(DOMAIN q[i])
      BY <2>3, FS_Interval
    <3>2. IsFiniteSet({i})
      BY FS_Singleton, Zenon
    <3> QED
      BY <3>1, <3>2
  <2>5. IsFiniteSet({i} \X DOMAIN q[i])
    <3> DEFINE A == {i}
               B == DOMAIN q[i]
    <3> HIDE DEF A, B
    <3>1. IsFiniteSet(A) /\ IsFiniteSet(B)
      BY <2>4 DEF A, B
    <3>2. IsFiniteSet(A \X B)
      BY <3>1, FS_Product, Zenon
    <3> QED
      BY <3>2 DEF A, B
  <2> QED
    BY <2>1, <2>5
<1>4. IsFiniteSet(UNION Rows)
  BY <1>2, <1>3, FS_UNION
<1> QED
  BY <1>4, FS_CardinalityType DEF Held

(* Packets r are q and a message: those of q keep their places.            *)
Grown(q, r, m) ==
  /\ \A i \in 1 .. Len(q) : \A j \in 1 .. Len(q[i]) :
       i \in 1 .. Len(r) /\ j \in 1 .. Len(r[i]) /\ r[i][j] = q[i][j]
  /\ \A i \in 1 .. Len(r) : \A j \in 1 .. Len(r[i]) :
       \/ i \in 1 .. Len(q) /\ j \in 1 .. Len(q[i]) /\ r[i][j] = q[i][j]
       \/ r[i][j] = m
  /\ \E i \in 1 .. Len(r) : \E j \in 1 .. Len(r[i]) : r[i][j] = m

(* A message starts a packet or joins the last one, as the firmware's do.  *)
LEMMA HeldPut ==
  ASSUME NEW S, NEW q \in Seq(Seq(S) \ {<<>>}), NEW m \in S, NEW r,
         r = Append(q, <<m>>) \/ (q # <<>> /\ r = [q EXCEPT ![Len(q)] = Append(@, m)])
  PROVE  /\ r \in Seq(Seq(S) \ {<<>>})
         /\ Cardinality(Held(r)) = Cardinality(Held(q)) + 1
         /\ Grown(q, r, m)
<1>1. q \in Seq(Seq(S))
  BY SeqMonotonic
<1>2. Len(q) \in Nat /\ \A i \in 1 .. Len(q) : q[i] \in Seq(S) \ {<<>>} /\ Len(q[i]) \in Nat
  BY LenProperties, ElementOfSeq
<1> DEFINE Grows(place) ==
      /\ r \in Seq(Seq(S) \ {<<>>})
      /\ \A x : x \in Held(r) <=> x \in Held(q) \/ x = place
      /\ place \notin Held(q)
      /\ place[1] \in 1 .. Len(r) /\ place[2] \in 1 .. Len(r[place[1]])
      /\ r[place[1]][place[2]] = m
      /\ \A i \in 1 .. Len(q) : \A j \in 1 .. Len(q[i]) :
           i \in 1 .. Len(r) /\ j \in 1 .. Len(r[i]) /\ r[i][j] = q[i][j]
<1>3. ASSUME r = Append(q, <<m>>) PROVE \E place : Grows(place)
  <2>1. <<m>> \in Seq(S) \ {<<>>} /\ Len(<<m>>) = 1 /\ <<m>>[1] = m
    OBVIOUS
  <2>2. /\ r \in Seq(Seq(S) \ {<<>>}) /\ Len(r) = Len(q) + 1 /\ r[Len(q) + 1] = <<m>>
        /\ \A i \in 1 .. Len(q) : r[i] = q[i]
    BY <1>3, <2>1, AppendProperties
  <2>3. r \in Seq(Seq(S))
    BY <2>2, SeqMonotonic
  <2>4. ASSUME NEW x
        PROVE  x \in Held(r) <=> x \in Held(q) \/ x = <<Len(q) + 1, 1>>
    <3>1. x \in Held(r) <=> \E i \in 1 .. Len(r) : \E j \in 1 .. Len(r[i]) : x = <<i, j>>
      BY ONLY <2>3, HeldPlaces
    <3>2. x \in Held(q) <=> \E i \in 1 .. Len(q) : \E j \in 1 .. Len(q[i]) : x = <<i, j>>
      BY <1>1, HeldPlaces
    <3>3. /\ \A i : i \in 1 .. Len(r) <=> i \in 1 .. Len(q) \/ i = Len(q) + 1
          /\ \A i \in 1 .. Len(q) : 1 .. Len(r[i]) = 1 .. Len(q[i])
          /\ 1 .. Len(r[Len(q) + 1]) = {1}
      BY ONLY <1>2, <2>1, <2>2
    <3> QED
      BY ONLY <3>1, <3>2, <3>3, Zenon
  <2>5. <<Len(q) + 1, 1>> \notin Held(q)
    BY <1>1, <1>2, HeldPlaces
  <2>6. Grows(<<Len(q) + 1, 1>>)
    BY ONLY <1>2, <2>1, <2>2, <2>4, <2>5
  <2> QED
    BY <2>6
<1>4. ASSUME q # <<>>, r = [q EXCEPT ![Len(q)] = Append(@, m)]
      PROVE  \E place : Grows(place)
  <2>1. PICK n \in 1 .. Len(q) : n = Len(q)
    BY <1>4, <1>2, EmptySeq
  <2> DEFINE last == Append(q[n], m)
  <2>2. /\ last \in Seq(S) /\ last # <<>> /\ Len(last) = Len(q[n]) + 1
        /\ last[Len(q[n]) + 1] = m
        /\ \A j \in 1 .. Len(q[n]) : last[j] = q[n][j]
    BY <1>2, <2>1, AppendProperties
  <2>3. /\ r \in Seq(Seq(S) \ {<<>>}) /\ Len(r) = Len(q) /\ r[n] = last
        /\ \A i \in 1 .. Len(q) : i # n => r[i] = q[i]
    <3>1. r = [q EXCEPT ![n] = last]
      BY <1>4, <2>1
    <3> HIDE DEF last
    <3> QED
      BY <2>1, <2>2, <3>1, ExceptSeq
  <2> HIDE DEF last
  <2>4. r \in Seq(Seq(S))
    BY <2>3, SeqMonotonic
  <2>5. Grows(<<n, Len(q[n]) + 1>>)
    <3> DEFINE p == <<n, Len(q[n]) + 1>>
    <3>1. p \notin Held(q)
      BY <1>1, <1>2, HeldPlaces
    <3>2. ASSUME NEW x PROVE x \in Held(r) <=> x \in Held(q) \/ x = p
      <4>1. x \in Held(r) <=> \E i \in 1 .. Len(r) : \E j \in 1 .. Len(r[i]) : x = <<i, j>>
        BY ONLY <2>4, HeldPlaces
      <4>2. x \in Held(q) <=> \E i \in 1 .. Len(q) : \E j \in 1 .. Len(q[i]) : x = <<i, j>>
        BY <1>1, HeldPlaces
      <4>3. /\ 1 .. Len(r) = 1 .. Len(q)
            /\ \A i \in 1 .. Len(q) : i # n => 1 .. Len(r[i]) = 1 .. Len(q[i])
            /\ \A j : j \in 1 .. Len(r[n]) <=> j \in 1 .. Len(q[n]) \/ j = Len(q[n]) + 1
        BY ONLY <1>2, <2>1, <2>2, <2>3
      <4> QED
        BY ONLY <4>1, <4>2, <4>3, <2>1, Zenon
    <3>3. p[1] = n /\ p[2] = Len(q[n]) + 1
      OBVIOUS
    <3>4. p[1] \in 1 .. Len(r) /\ p[2] \in 1 .. Len(r[p[1]]) /\ r[p[1]][p[2]] = m
      <4> HIDE DEF p
      <4> QED
        BY ONLY <1>2, <2>1, <2>2, <2>3, <3>3
    <3>5. \A i \in 1 .. Len(q) : \A j \in 1 .. Len(q[i]) :
            i \in 1 .. Len(r) /\ j \in 1 .. Len(r[i]) /\ r[i][j] = q[i][j]
      BY ONLY <1>2, <2>1, <2>2, <2>3
    <3> QED
      BY ONLY <2>3, <3>1, <3>2, <3>4, <3>5, Zenon
  <2> QED
    BY <2>5
<1>5. PICK place : Grows(place)
  BY <1>3, <1>4
<1>6. Held(r) = Held(q) \cup {place}
  BY <1>5
<1>7. Cardinality(Held(r)) = Cardinality(Held(q)) + 1
  BY <1>1, <1>5, <1>6, HeldFinite, FS_AddElement
<1>8. ASSUME NEW i \in 1 .. Len(r), NEW j \in 1 .. Len(r[i])
      PROVE  \/ i \in 1 .. Len(q) /\ j \in 1 .. Len(q[i]) /\ r[i][j] = q[i][j]
             \/ r[i][j] = m
  <2>1. r \in Seq(Seq(S))
    BY <1>5, SeqMonotonic
  <2>2. <<i, j>> \in Held(r)
    BY <2>1, HeldPlaces
  <2>3. CASE <<i, j>> = place
    BY <1>5, <2>3
  <2>4. CASE <<i, j>> \in Held(q)
    <3>1. i \in 1 .. Len(q) /\ j \in 1 .. Len(q[i])
      BY <1>1, <2>4, HeldPlaces
    <3> QED
      BY <1>5, <3>1
  <2> QED
    BY <1>5, <2>2, <2>3, <2>4
<1> QED
  BY <1>5, <1>7, <1>8 DEF Grown

(* Reading a packet takes away its messages.                               *)
LEMMA HeldTail ==
  ASSUME NEW S, NEW q \in Seq(Seq(S) \ {<<>>}), q # <<>>
  PROVE  /\ Head(q) \in Seq(S) \ {<<>>} /\ Len(Head(q)) <= Cardinality(Held(q))
         /\ Tail(q) \in Seq(Seq(S) \ {<<>>})
         /\ Cardinality(Held(Tail(q))) <= Cardinality(Held(q))
         /\ Len(Tail(q)) = Len(q) - 1 /\ Len(q) \in Nat \ {0}
         /\ Head(q) = q[1] /\ \A i \in 1 .. Len(q) - 1 : Tail(q)[i] = q[i + 1]
<1> DEFINE r == Tail(q)
<1>1. /\ Head(q) \in Seq(S) \ {<<>>} /\ r \in Seq(Seq(S) \ {<<>>})
      /\ Len(r) = Len(q) - 1 /\ Len(q) \in Nat \ {0}
      /\ Head(q) = q[1] /\ \A i \in 1 .. Len(q) - 1 : r[i] = q[i + 1]
  BY HeadTailProperties, EmptySeq, LenProperties
<1>2. q \in Seq(Seq(S)) /\ r \in Seq(Seq(S)) /\ Len(q[1]) \in Nat
  BY <1>1, SeqMonotonic, LenProperties
<1> HIDE DEF r
<1>3. \A x : x \in Held(q) <=> \E i \in 1 .. Len(q) : \E j \in 1 .. Len(q[i]) : x = <<i, j>>
  BY <1>2, HeldPlaces
<1>4. \A x : x \in Held(r) <=> \E i \in 1 .. Len(r) : \E j \in 1 .. Len(r[i]) : x = <<i, j>>
  BY ONLY <1>2, HeldPlaces
<1>5. IsFiniteSet(Held(q))
  BY <1>2, HeldFinite
<1>6. Cardinality(Held(r)) <= Cardinality(Held(q))
  <2> DEFINE f == [x \in Held(r) |-> <<x[1] + 1, x[2]>>]
  <2>1. ASSUME NEW x \in Held(r)
        PROVE  f[x] \in Held(q) /\ x = <<x[1], x[2]>> /\ x[1] \in Nat
    <3>0. PICK i \in 1 .. Len(r) : \E j \in 1 .. Len(r[i]) : x = <<i, j>>
      BY <1>4
    <3>1. PICK j \in 1 .. Len(r[i]) : x = <<i, j>>
      BY <3>0
    <3>2. i + 1 \in 1 .. Len(q) /\ j \in 1 .. Len(q[i + 1])
      BY <1>1, <3>1
    <3>3. <<i + 1, j>> \in Held(q)
      BY <1>3, <3>2
    <3>4. x[1] = i /\ x[2] = j /\ f[x] = <<x[1] + 1, x[2]>>
      BY <3>1
    <3> HIDE DEF f
    <3> QED
      BY <3>1, <3>3, <3>4
  <2>2. f \in Injection(Held(r), Held(q))
    <3>1. f \in [Held(r) -> Held(q)]
      BY <2>1
    <3>2. ASSUME NEW x \in Held(r), NEW y \in Held(r), f[x] = f[y] PROVE x = y
      <4>1. x[1] + 1 = y[1] + 1 /\ x[2] = y[2]
        BY <3>2
      <4>2. x[1] = y[1]
        <5>1. x[1] \in Nat /\ y[1] \in Nat
          BY <2>1, Zenon
        <5> QED
          BY ONLY <4>1, <5>1
      <4> QED
        BY <2>1, <4>1, <4>2, Zenon
    <3> HIDE DEF f
    <3> QED
      BY <3>1, <3>2 DEF Injection, IsInjective
  <2> HIDE DEF f
  <2> QED
    BY <1>5, <2>2, FS_Injection
<1>7. Len(q[1]) <= Cardinality(Held(q))
  <2> DEFINE f == [j \in 1 .. Len(q[1]) |-> <<1, j>>]
  <2>1. f \in Injection(1 .. Len(q[1]), Held(q))
    <3>1. \A j \in 1 .. Len(q[1]) : <<1, j>> \in Held(q)
      BY <1>1, <1>3
    <3> QED
      BY <3>1 DEF Injection, IsInjective
  <2> HIDE DEF f
  <2>2. Cardinality(1 .. Len(q[1])) = Len(q[1])
    BY <1>2, FS_Interval
  <2> QED
    BY <1>5, <2>1, <2>2, FS_Injection
<1> QED
  BY <1>1, <1>6, <1>7 DEF r

(* The beginning of an exchange leaves the packets what they are.          *)
LEMMA HeldAged ==
  ASSUME NEW q \in Seq(Seq(Messages) \ {<<>>}), NEW age \in Ages, NEW r,
         r = [i \in DOMAIN q |-> [j \in DOMAIN q[i] |-> Aged(q[i][j], age)]]
  PROVE  r \in Seq(Seq(Messages) \ {<<>>}) /\ Held(r) = Held(q) 
<1>1. /\ Len(q) \in Nat /\ DOMAIN q = 1 .. Len(q)
      /\ \A i \in 1 .. Len(q) : /\ q[i] \in Seq(Messages) \ {<<>>}
                                /\ Len(q[i]) \in Nat \ {0} /\ DOMAIN q[i] = 1 .. Len(q[i])
  BY LenProperties, ElementOfSeq, EmptySeq
<1>2. \A msg \in Messages : Aged(msg, age) \in Messages
  BY DEF Aged, Messages, Confirmations, Indications, DataFrames
<1>3. ASSUME NEW i \in 1 .. Len(q)
      PROVE  /\ r[i] = [j \in 1 .. Len(q[i]) |-> Aged(q[i][j], age)]
             /\ r[i] \in Seq(Messages) \ {<<>>} /\ Len(r[i]) = Len(q[i])
  <2>1. r[i] = [j \in 1 .. Len(q[i]) |-> Aged(q[i][j], age)]
    BY <1>1
  <2>2. \A j \in 1 .. Len(q[i]) : Aged(q[i][j], age) \in Messages
    BY <1>1, <1>2, ElementOfSeq
  <2>3. r[i] \in Seq(Messages) /\ Len(r[i]) = Len(q[i])
    BY ONLY <1>1, <2>1, <2>2
  <2>4. r[i] # <<>>
    BY ONLY <1>1, <2>3, EmptySeq
  <2> QED
    BY <2>1, <2>3, <2>4
<1>4. DOMAIN r = 1 .. Len(q)
  BY <1>1
<1>5. r \in Seq(Seq(Messages) \ {<<>>}) /\ Len(r) = Len(q)
  <2>1. r = [i \in 1 .. Len(q) |-> r[i]]
    BY <1>1
  <2> QED
    BY ONLY <1>1, <1>3, <2>1
<1>6. \A i \in 1 .. Len(q) : DOMAIN r[i] = DOMAIN q[i]
  BY ONLY <1>1, <1>3
<1>7. Held(r) = Held(q)
  BY <1>4, <1>6, <1>1 DEF Held
<1> QED
  BY <1>5, <1>7
-----------------------------------------------------------------------------
(* What a step does to the firmware's queue and FIFO.                      *)
Begins ==
  /\ cpc' = "drain"
  /\ todo' = [i \in DOMAIN todo |-> [todo[i] EXCEPT !.age = "late"]]
  /\ fifo' = [i \in DOMAIN fifo |-> [j \in DOMAIN fifo[i] |-> Aged(fifo[i][j], "left")]]

Reads == fifo # <<>> /\ fifo' = Tail(fifo) /\ todo' = todo

Writes ==
  /\ Len(todo) < MaxTodo /\ cpc = "send"
  /\ todo' = Append(todo, [type |-> "cfm", req |-> creq, age |-> "new"]) /\ fifo' = fifo

Confirms == todo # <<>> /\ Put(Head(todo)) /\ todo' = Tail(todo)

Arrives == \E m \in Indications \cup DataFrames : Put(m) /\ todo' = todo

LEMMA ChipMoves ==
  [Next]_vars => Begins \/ Reads \/ Writes \/ Confirms \/ Arrives \/ UNCHANGED <<todo, fifo>>
<1> DEFINE Moves == Begins \/ Reads \/ Writes \/ Confirms \/ Arrives \/ UNCHANGED <<todo, fifo>>
<1> SUFFICES ASSUME [Next]_vars PROVE Moves
  OBVIOUS
<1> USE DEF Begins, Reads, Writes, Confirms, Arrives, Join, Begin, BeginAt, chipVars
<1>1. CASE UNCHANGED vars
  BY <1>1 DEF vars
<1>2. CASE Connect
  BY <1>2 DEF Connect
<1>3. CASE Scan
  BY <1>3 DEF Scan
<1>4. CASE Ifup
  BY <1>4 DEF Ifup
<1>5. CASE Ifdown
  BY <1>5 DEF Ifdown
<1>6. CASE DrainOne
  BY <1>6 DEF DrainOne
<1>7. CASE DrainEnd
  BY <1>7 DEF DrainEnd
<1>8. CASE Send
  BY <1>8 DEF Send, Write
<1>9. CASE SendFails
  BY <1>9 DEF SendFails
<1>10. CASE CfmArrives
  BY <1>10 DEF CfmArrives
<1>11. CASE Unexpected
  BY <1>11 DEF Unexpected, Skip
<1>12. CASE WaitEnds
  BY <1>12 DEF WaitEnds
<1>13. CASE Proceed
  BY <1>13 DEF Proceed
<1>14. CASE IndRead
  BY <1>14 DEF IndRead
<1>15. CASE IndGivesUp
  BY <1>15 DEF IndGivesUp
<1>16. CASE Joined
  BY <1>16 DEF Joined
<1>17. CASE rx_thread_start
  BY <1>17 DEF rx_thread_start, StartIf
<1>18. CASE StopWait
  BY <1>18 DEF StopWait, StopIf
<1>19. CASE Down
  BY <1>19 DEF Down
<1>20. ASSUME NEW t \in Threads, RxBegin(t) PROVE Moves
  BY <1>20 DEF RxBegin
<1>21. ASSUME NEW t \in Threads, RxCheck(t) PROVE Moves
  BY <1>21 DEF RxCheck, RxLoop
<1>22. ASSUME NEW t \in Threads, RxRecv(t) PROVE Moves
  BY <1>22 DEF RxRecv
<1>23. ASSUME NEW t \in Threads, RxFeed(t) PROVE Moves
  BY <1>23 DEF RxFeed
<1>24. ASSUME NEW t \in Threads, RxInput(t) PROVE Moves
  BY <1>24 DEF RxInput
<1>25. ASSUME NEW t \in Threads, RxReply(t) PROVE Moves
  BY <1>25 DEF RxReply
<1>26. CASE TxBegin
  BY <1>26 DEF TxBegin
<1>27. CASE TxEnd
  BY <1>27 DEF TxEnd
<1>28. CASE FwConfirm
  BY <1>28 DEF FwConfirm
<1>29. CASE FwIndicate
  BY <1>29 DEF FwIndicate, Indications
<1>30. CASE FwData
  BY <1>30 DEF FwData, DataFrames
<1> QED
  BY <1>1, <1>2, <1>3, <1>4, <1>5, <1>6, <1>7, <1>8, <1>9, <1>10, <1>11, <1>12,
     <1>13, <1>14, <1>15, <1>16, <1>17, <1>18, <1>19, <1>20, <1>21, <1>22,
     <1>23, <1>24, <1>25, <1>26, <1>27, <1>28, <1>29, <1>30
  DEF Next, CmdStep, RxStep

ChipOK ==
  /\ todo \in Seq(Confirmations) /\ Len(todo) <= MaxTodo
  /\ fifo \in Seq(Seq(Messages) \ {<<>>}) /\ Cardinality(Held(fifo)) <= Cap

LEMMA ChipStep == ChipOK /\ ThreadInv /\ [Next]_vars => ChipOK'
<1> SUFFICES ASSUME ChipOK, ThreadInv, [Next]_vars PROVE ChipOK'
  OBVIOUS
<1>1. CASE Begins
  <2>1. fifo' \in Seq(Seq(Messages) \ {<<>>}) /\ Held(fifo') = Held(fifo)
    BY <1>1, HeldAged DEF Begins, ChipOK, Ages
  <2>2. todo' \in Seq(Confirmations) /\ Len(todo') = Len(todo)
    <3>1. DOMAIN todo = 1 .. Len(todo) /\ Len(todo) \in Nat
      BY LenProperties DEF ChipOK
    <3>2. ASSUME NEW i \in 1 .. Len(todo)
          PROVE  [todo[i] EXCEPT !.age = "late"] \in Confirmations
      <4>1. todo[i] \in Confirmations
        BY ElementOfSeq DEF ChipOK
      <4> QED
        BY <4>1 DEF Confirmations, Ages
    <3> QED
      BY <1>1, <3>1, <3>2 DEF Begins
  <2> QED
    BY <2>1, <2>2 DEF ChipOK
<1>2. CASE Reads
  <2>1. /\ Tail(fifo) \in Seq(Seq(Messages) \ {<<>>})
        /\ Cardinality(Held(Tail(fifo))) <= Cardinality(Held(fifo))
    BY <1>2, HeldTail DEF Reads, ChipOK
  <2>2. fifo \in Seq(Seq(Messages)) /\ Tail(fifo) \in Seq(Seq(Messages)) /\ Cap \in Nat
    BY <2>1, SeqMonotonic, WifiAssumption DEF ChipOK, WifiAssumption
  <2>3. Cardinality(Held(fifo)) \in Nat /\ Cardinality(Held(Tail(fifo))) \in Nat
    BY <2>2, HeldFinite
  <2> QED
    BY <1>2, <2>1, <2>2, <2>3 DEF Reads, ChipOK
<1>3. CASE Writes
  <2>1. [type |-> "cfm", req |-> creq, age |-> "new"] \in Confirmations
    BY <1>3 DEF Writes, ThreadInv, Requesting, Confirmations, Ages
  <2> QED
    BY <1>3, <2>1, AppendProperties, LenProperties, WifiAssumption
    DEF Writes, ChipOK, WifiAssumption
<1>4. ASSUME NEW m \in Messages, Put(m)
      PROVE  fifo' \in Seq(Seq(Messages) \ {<<>>}) /\ Cardinality(Held(fifo')) <= Cap
  <2>1. fifo' \in Seq(Seq(Messages) \ {<<>>})
        /\ Cardinality(Held(fifo')) = Cardinality(Held(fifo)) + 1
    BY <1>4, HeldPut DEF Put, ChipOK
  <2>2. Cardinality(Held(fifo)) < Cap /\ Cardinality(Held(fifo)) \in Nat /\ Cap \in Nat
    <3>1. fifo \in Seq(Seq(Messages))
      BY SeqMonotonic DEF ChipOK
    <3> QED
      BY <1>4, <3>1, HeldFinite, WifiAssumption DEF Put, WifiAssumption
  <2> QED
    BY <2>1, <2>2
<1>5. CASE Confirms
  <2>1. Head(todo) \in Messages /\ todo' \in Seq(Confirmations) /\ Len(todo') <= MaxTodo
    BY <1>5, HeadTailProperties, LenProperties, WifiAssumption
    DEF Confirms, ChipOK, WifiAssumption, Messages
  <2> QED
    BY <1>4, <1>5, <2>1 DEF Confirms, ChipOK
<1>6. CASE Arrives
  BY <1>4, <1>6 DEF Arrives, ChipOK, Messages
<1>7. CASE UNCHANGED <<todo, fifo>>
  BY <1>7 DEF ChipOK
<1> QED
  BY <1>1, <1>2, <1>3, <1>5, <1>6, <1>7, ChipMoves
-----------------------------------------------------------------------------
(* The rest of the types.                                                  *)
NotesOK ==
  /\ vif_added \in BOOLEAN /\ cut \in BOOLEAN /\ polled \in BOOLEAN
  /\ joining \in BOOLEAN /\ assoc \in BOOLEAN

PlacesOK ==
  /\ sdio \in {None, "cmd"} /\ net \in {None, "cmd", "tx", "rx"}
  /\ cpc \in {"idle", "drain", "send", "wait", "flush", "next", "ind", "joined",
              "pump", "stop", "down"}
  /\ creq \in Requests \cup {None} /\ result \in {"ok", "failed"}
  /\ tpc \in {"idle", "send"} /\ took \in Ages \cup {None}

CountOK == cnt \in 0 .. MaxDrain \cup 0 .. MaxUnexpected

ThreadsOK ==
  /\ off \in [Threads -> 1 .. Cap + 1]
  /\ got \in [Threads -> Frames \cup {None}] /\ d_buf \in Frames \cup {None, Out}
  /\ rxbuf \in Seq(Frames \cup {None}) /\ Len(rxbuf) <= Cap

(* The place of the frame a thread is handing to the stack, and the frame. *)
FeedInv ==
  \A t \in Threads :
    /\ rpc[t] \in {"net", "reply"} => off[t] <= Len(rxbuf)
    /\ rpc[t] = "net" /\ ~polled => d_buf = got[t]

(* The smallest of a set of naturals is in the set.                        *)
LEMMA MinNat ==
  ASSUME NEW T \in SUBSET Nat, T # {}
  PROVE  Min(T) \in T
<1>1. PICK x \in T : \A y \in T : ~ (<<y, x>> \in OpToRel(<, Nat))
  BY NatLessThanWellFounded, WFMin, Zenon
<1>2. \A y \in T : ~ (y < x)
  BY <1>1 DEF OpToRel
<1>3. \A y \in T : x <= y
  BY <1>2
<1> QED
  BY <1>3 DEF Min

(* What wait_rx finds in a packet: the confirmation, if it is in there.    *)
LEMMA CfmFound ==
  ASSUME NEW p \in Seq(Messages)
  PROVE  /\ SelectInSeq(p, IsCfm) # 0 =>
              /\ SelectInSeq(p, IsCfm) \in 1 .. Len(p)
              /\ IsCfm(p[SelectInSeq(p, IsCfm)])
         /\ SelectInSeq(p, IsCfm) = 0 => \A j \in 1 .. Len(p) : ~ IsCfm(p[j])
<1> DEFINE I == {i \in 1 .. Len(p) : IsCfm(p[i])}
<1>1. SelectInSeq(p, IsCfm) = IF I # {} THEN Min(I) ELSE 0
  BY DEF SelectInSeq
<1>2. I \in SUBSET Nat /\ \A i \in I : i # 0
  BY LenProperties
<1>3. I # {} => Min(I) \in I
  BY <1>2, MinNat
<1> QED
  BY <1>1, <1>2, <1>3

LEMMA TypeParts ==
  TypeOK <=> FlagsOK /\ NotesOK /\ PlacesOK /\ CountOK /\ ThreadsOK /\ ChipOK
<1>1. {fw_loaded, brought_up, vif_added, connected, carrier, ifup} \subseteq BOOLEAN
        <=> /\ fw_loaded \in BOOLEAN /\ brought_up \in BOOLEAN /\ vif_added \in BOOLEAN
            /\ connected \in BOOLEAN /\ carrier \in BOOLEAN /\ ifup \in BOOLEAN
  OBVIOUS
<1>2. {rx_stop, rx_running, cut, polled, joining, assoc} \subseteq BOOLEAN
        <=> /\ rx_stop \in BOOLEAN /\ rx_running \in BOOLEAN /\ cut \in BOOLEAN
            /\ polled \in BOOLEAN /\ joining \in BOOLEAN /\ assoc \in BOOLEAN
  OBVIOUS
<1> QED
  BY <1>1, <1>2, Zenon
  DEF TypeOK, FlagsOK, NotesOK, PlacesOK, CountOK, ThreadsOK, ChipOK

LEMMA NotesStep == NotesOK /\ [Next]_vars => NotesOK'
<1> SUFFICES ASSUME NotesOK, [Next]_vars PROVE NotesOK'
  OBVIOUS
<1> USE DEF NotesOK, Meanwhile, flagVars, pumpVars, lockVars, cmdVars,
        bufVars, chipVars, None, Join, Begin, BeginAt, Forget, Finish,
        Draining, Create, NextMsg
<1>1. CASE UNCHANGED vars
  BY <1>1 DEF vars
<1>2. CASE Connect
  BY <1>2 DEF Connect
<1>3. CASE Scan \/ Ifup \/ Ifdown \/ StopWait \/ Down
  BY <1>3 DEF Scan, Ifup, Ifdown, StopWait, StopIf, Down
<1>4. CASE DrainOne \/ DrainEnd
  BY <1>4 DEF DrainOne, DrainEnd
<1>5. CASE Send \/ SendFails \/ CfmArrives \/ Unexpected \/ WaitEnds
  BY <1>5 DEF Send, Write, SendFails, CfmArrives, Unexpected, Skip, WaitEnds
<1>6. CASE Proceed
  BY <1>6 DEF Proceed
<1>7. CASE IndRead \/ IndGivesUp \/ Joined \/ rx_thread_start
  BY <1>7 DEF IndRead, IndGivesUp, Joined, rx_thread_start, StartIf
<1>8. CASE \E t \in Threads : RxStep(t)
  BY <1>8 DEF RxStep, RxBegin, RxCheck, RxLoop, RxRecv, RxFeed, RxInput,
     RxReply
<1>9. CASE TxBegin \/ TxEnd
  BY <1>9 DEF TxBegin, TxEnd
<1>10. CASE FwConfirm \/ FwIndicate \/ FwData
  BY <1>10 DEF FwConfirm, FwIndicate, FwData
<1> QED
  BY <1>1, <1>2, <1>3, <1>4, <1>5, <1>6, <1>7, <1>8, <1>9, <1>10 DEF Next, CmdStep

LEMMA PlacesStep == PlacesOK /\ ChipOK /\ [Next]_vars => PlacesOK'
<1> SUFFICES ASSUME PlacesOK, ChipOK, [Next]_vars PROVE PlacesOK'
  OBVIOUS
<1> USE DEF PlacesOK, Requests, Ages, flagVars, pumpVars, lockVars, cmdVars,
        bufVars, chipVars, None, Join, Begin, BeginAt, Forget, Finish,
        Draining, Create, NextMsg
<1>1. CASE UNCHANGED vars
  BY <1>1 DEF vars
<1>2. CASE Connect
  BY <1>2 DEF Connect
<1>3. CASE Scan \/ Ifup \/ Ifdown \/ StopWait \/ Down
  BY <1>3 DEF Scan, Ifup, Ifdown, StopWait, StopIf, Down
<1>4. CASE DrainOne \/ DrainEnd
  BY <1>4 DEF DrainOne, DrainEnd
<1>5. CASE Send \/ SendFails \/ Unexpected \/ WaitEnds
  BY <1>5 DEF Send, Write, SendFails, Unexpected, Skip, WaitEnds
<1>0. CASE CfmArrives
  <2>1. Head(fifo) \in Seq(Messages)
    BY <1>0, HeldTail DEF CfmArrives, ChipOK
  <2>2. \A m \in Messages : IsCfm(m) => m.age \in Ages
    BY DEF IsCfm, Messages, Confirmations, Indications, DataFrames
  <2>3. took' \in Ages
    <3> DEFINE at == SelectInSeq(Head(fifo), IsCfm)
    <3>1. at # 0 /\ took' = Head(fifo)[at].age
      BY <1>0 DEF CfmArrives
    <3>2. at \in 1 .. Len(Head(fifo)) /\ IsCfm(Head(fifo)[at])
      BY <2>1, <3>1, CfmFound, Zenon
    <3> HIDE DEF at
    <3> QED
      BY <2>1, <2>2, <3>1, <3>2, ElementOfSeq
  <2> QED
    BY <1>0, <2>3 DEF CfmArrives
<1>6. CASE Proceed
  BY <1>6 DEF Proceed
<1>7. CASE IndRead \/ IndGivesUp \/ Joined \/ rx_thread_start
  BY <1>7 DEF IndRead, IndGivesUp, Joined, rx_thread_start, StartIf
<1>8. CASE \E t \in Threads : RxStep(t)
  BY <1>8 DEF RxStep, RxBegin, RxCheck, RxLoop, RxRecv, RxFeed, RxInput,
     RxReply
<1>9. CASE TxBegin \/ TxEnd
  BY <1>9 DEF TxBegin, TxEnd
<1>10. CASE FwConfirm \/ FwIndicate \/ FwData
  BY <1>10 DEF FwConfirm, FwIndicate, FwData
<1> QED
  BY <1>0, <1>1, <1>2, <1>3, <1>4, <1>5, <1>6, <1>7, <1>8, <1>9, <1>10 DEF Next, CmdStep

LEMMA CountStep == CountOK /\ [Next]_vars => CountOK'
<1> SUFFICES ASSUME CountOK, [Next]_vars PROVE CountOK'
  OBVIOUS
<1> USE WifiAssumption DEF WifiAssumption, CountOK, flagVars, pumpVars,
        lockVars, cmdVars, bufVars, chipVars, None, Join, Begin, BeginAt,
        Forget, Finish, Draining, Create, NextMsg
<1>1. CASE UNCHANGED vars
  BY <1>1 DEF vars
<1>2. CASE Connect
  BY <1>2 DEF Connect
<1>3. CASE Scan \/ Ifup \/ Ifdown \/ StopWait \/ Down
  BY <1>3 DEF Scan, Ifup, Ifdown, StopWait, StopIf, Down
<1>4. CASE DrainOne \/ DrainEnd
  BY <1>4 DEF DrainOne, DrainEnd
<1>5. CASE Send \/ SendFails \/ CfmArrives \/ Unexpected \/ WaitEnds
  BY <1>5 DEF Send, Write, SendFails, CfmArrives, Unexpected, Skip, WaitEnds
<1>6. CASE Proceed
  BY <1>6 DEF Proceed
<1>7. CASE IndRead \/ IndGivesUp \/ Joined \/ rx_thread_start
  BY <1>7 DEF IndRead, IndGivesUp, Joined, rx_thread_start, StartIf
<1>8. CASE \E t \in Threads : RxStep(t)
  BY <1>8 DEF RxStep, RxBegin, RxCheck, RxLoop, RxRecv, RxFeed, RxInput,
     RxReply
<1>9. CASE TxBegin \/ TxEnd
  BY <1>9 DEF TxBegin, TxEnd
<1>10. CASE FwConfirm \/ FwIndicate \/ FwData
  BY <1>10 DEF FwConfirm, FwIndicate, FwData
<1> QED
  BY <1>1, <1>2, <1>3, <1>4, <1>5, <1>6, <1>7, <1>8, <1>9, <1>10 DEF Next, CmdStep

LEMMA ThreadsStep ==
  FlagsOK /\ ThreadsOK /\ ChipOK /\ ThreadInv /\ FeedInv /\ [Next]_vars => ThreadsOK'
<1> SUFFICES ASSUME FlagsOK, ThreadsOK, ChipOK, ThreadInv, FeedInv, [Next]_vars
             PROVE  ThreadsOK'
  OBVIOUS
<1> USE DEF FlagsOK, ThreadsOK, FeedInv, pumpVars, bufVars, Create, NextMsg
<1>1. CASE UNCHANGED vars
  BY <1>1 DEF vars
<1>2. CASE Connect
  BY <1>2 DEF Connect
<1>3. CASE Scan \/ Ifup \/ Ifdown \/ StopWait \/ Down
  BY <1>3 DEF Scan, Ifup, Ifdown, StopWait, StopIf, Down
<1>4. CASE DrainOne \/ DrainEnd
  BY <1>4 DEF DrainOne, DrainEnd
<1>5. CASE Send \/ SendFails \/ CfmArrives \/ Unexpected \/ WaitEnds
  BY <1>5 DEF Send, Write, SendFails, CfmArrives, Unexpected, Skip, WaitEnds
<1>6. CASE Proceed
  BY <1>6 DEF Proceed
<1>7. CASE IndRead \/ IndGivesUp \/ Joined \/ rx_thread_start
  BY <1>7 DEF IndRead, IndGivesUp, Joined, rx_thread_start, StartIf
<1>8. ASSUME NEW t \in Threads, RxBegin(t) \/ RxCheck(t) PROVE ThreadsOK'
  BY <1>8 DEF RxBegin, RxCheck, RxLoop
<1>11. ASSUME NEW t \in Threads, RxRecv(t) PROVE ThreadsOK'
  <2>1. CASE fifo # <<>> /\ rxbuf' = [i \in DOMAIN Head(fifo) |-> FrameOf(Head(fifo)[i])]
    <3>1. Head(fifo) \in Seq(Messages) /\ Len(Head(fifo)) <= Cardinality(Held(fifo))
      BY <2>1, HeldTail DEF ChipOK
    <3>2. DOMAIN Head(fifo) = 1 .. Len(Head(fifo)) /\ Len(Head(fifo)) \in Nat
      BY <3>1, LenProperties
    <3>3. \A i \in 1 .. Len(Head(fifo)) : FrameOf(Head(fifo)[i]) \in Frames \cup {None}
      <4>1. \A m \in Messages : FrameOf(m) \in Frames \cup {None}
        BY DEF FrameOf, Messages, Confirmations, Indications, DataFrames
      <4> QED
        BY <3>1, <4>1, ElementOfSeq
    <3>4. Cap \in Nat /\ Cardinality(Held(fifo)) \in Nat
      <4>1. fifo \in Seq(Seq(Messages))
        BY SeqMonotonic DEF ChipOK
      <4> QED
        BY <4>1, HeldFinite, WifiAssumption DEF WifiAssumption
    <3>5. rxbuf' \in Seq(Frames \cup {None}) /\ Len(rxbuf') = Len(Head(fifo))
      <4>1. rxbuf' = [i \in 1 .. Len(Head(fifo)) |-> FrameOf(Head(fifo)[i])]
        BY <2>1, <3>2
      <4> QED
        BY ONLY <3>2, <3>3, <4>1
    <3>6. Len(rxbuf') <= Cap
      BY <3>1, <3>2, <3>4, <3>5 DEF ChipOK
    <3>7. UNCHANGED <<off, got, d_buf>>
      BY <1>11 DEF RxRecv
    <3> QED
      BY <3>5, <3>6, <3>7
  <2>2. CASE rxbuf' = <<>>
    <3>1. <<>> \in Seq(Frames \cup {None}) /\ Len(<<>>) = 0 /\ Cap \in Nat
      BY WifiAssumption DEF WifiAssumption
    <3>2. UNCHANGED <<off, got, d_buf>>
      BY <1>11 DEF RxRecv
    <3> QED
      BY <2>2, <3>1, <3>2
  <2> QED
    BY <1>11, <2>1, <2>2 DEF RxRecv
<1>12. ASSUME NEW t \in Threads, RxFeed(t) PROVE ThreadsOK'
  <2>1. Len(rxbuf) \in Nat /\ Cap \in Nat
    BY LenProperties, WifiAssumption DEF WifiAssumption
  <2>2. ASSUME ~(off[t] > Len(rxbuf))
        PROVE  off[t] + 1 \in 1 .. Cap + 1 /\ rxbuf[off[t]] \in Frames \cup {None}
    BY <2>1, <2>2, ElementOfSeq
  <2> QED
    BY <1>12, <2>1, <2>2 DEF RxFeed
<1>13. ASSUME NEW t \in Threads, RxInput(t) \/ RxReply(t) PROVE ThreadsOK'
  <2>1. Len(rxbuf) \in Nat /\ Cap \in Nat
    BY LenProperties, WifiAssumption DEF WifiAssumption
  <2>2. off[t] + 1 \in 1 .. Cap + 1
    BY <1>13, <2>1 DEF RxInput, RxReply
  <2> QED
    BY <1>13, <2>2 DEF RxInput, RxReply
<1>9. CASE TxBegin \/ TxEnd
  BY <1>9 DEF TxBegin, TxEnd
<1>10. CASE FwConfirm \/ FwIndicate \/ FwData
  BY <1>10 DEF FwConfirm, FwIndicate, FwData
<1> QED
  BY <1>1, <1>2, <1>3, <1>4, <1>5, <1>6, <1>7, <1>8, <1>9, <1>10,
     <1>11, <1>12, <1>13 DEF Next, CmdStep, RxStep

LEMMA FeedStep == FlagsOK /\ ThreadsOK /\ ThreadInv /\ FeedInv /\ [Next]_vars => FeedInv'
<1> SUFFICES ASSUME FlagsOK, ThreadsOK, ThreadInv, FeedInv, [Next]_vars PROVE FeedInv'
  OBVIOUS
<1> USE DEF FlagsOK, ThreadInv, ThreadsOK, FeedInv, pumpVars, bufVars, Live,
        None, Create, NextMsg, Meanwhile
<1>1. CASE UNCHANGED vars
  BY <1>1 DEF vars
<1>2. CASE Connect
  BY <1>2 DEF Connect
<1>3. CASE Scan \/ Ifup \/ Ifdown \/ StopWait \/ Down
  BY <1>3 DEF Scan, Ifup, Ifdown, StopWait, StopIf, Down
<1>4. CASE DrainOne \/ DrainEnd
  BY <1>4 DEF DrainOne, DrainEnd
<1>5. CASE Send \/ SendFails \/ CfmArrives \/ Unexpected \/ WaitEnds
  BY <1>5 DEF Send, Write, SendFails, CfmArrives, Unexpected, Skip, WaitEnds
<1>6. CASE Proceed
  BY <1>6 DEF Proceed
<1>7. CASE IndRead \/ IndGivesUp \/ Joined
  BY <1>7 DEF IndRead, IndGivesUp, Joined
<1>11. CASE rx_thread_start
  <2>1. UNCHANGED <<off, rxbuf, polled, d_buf, got>>
    BY <1>11 DEF rx_thread_start, StartIf
  <2>2. \A t \in Threads : rpc'[t] \in {rpc[t], "new"}
    BY <1>11 DEF rx_thread_start, StartIf
  <2> QED
    BY <2>1, <2>2
<1>8. CASE \E t \in Threads : RxStep(t)
  BY <1>8 DEF RxStep, RxBegin, RxCheck, RxLoop, RxRecv, RxFeed, RxInput,
     RxReply
<1>9. CASE TxBegin \/ TxEnd
  BY <1>9 DEF TxBegin, TxEnd
<1>10. CASE FwConfirm \/ FwIndicate \/ FwData
  BY <1>10 DEF FwConfirm, FwIndicate, FwData
<1> QED
  BY <1>1, <1>2, <1>3, <1>4, <1>5, <1>6, <1>7, <1>8, <1>9, <1>10,
     <1>11 DEF Next, CmdStep


(* Everything about types, threads and frames holds together.              *)
WifiInv ==
  /\ FlagsOK /\ NotesOK /\ PlacesOK /\ CountOK /\ ThreadsOK /\ ChipOK
  /\ ThreadInv /\ LinkInv /\ FeedInv

LEMMA WifiInit == Init => WifiInv
<1> SUFFICES ASSUME Init PROVE WifiInv
  OBVIOUS
<1>1. FlagsOK /\ ThreadInv /\ LinkInv
  BY ThreadInit
<1>2. NotesOK /\ PlacesOK
  BY DEF Init, NotesOK, PlacesOK, None
<1>3. CountOK
  BY WifiAssumption DEF WifiAssumption, Init, CountOK
<1>4. ThreadsOK
  <2>1. <<>> \in Seq(Frames \cup {None}) /\ Len(<<>>) = 0
    OBVIOUS
  <2>2. Cap \in Nat \ {0}
    BY WifiAssumption DEF WifiAssumption
  <2> QED
    <3>1. off \in [Threads -> 1 .. Cap + 1] /\ got \in [Threads -> Frames \cup {None}]
      BY <2>2 DEF Init
    <3>2. d_buf = None /\ rxbuf = <<>>
      BY DEF Init
    <3>3. rxbuf \in Seq(Frames \cup {None}) /\ Len(rxbuf) <= Cap
      BY ONLY <2>1, <2>2, <3>2
    <3>4. d_buf \in Frames \cup {None, Out}
      BY <3>2
    <3> QED
      BY <3>1, <3>3, <3>4 DEF ThreadsOK
<1>5. ChipOK
  <2>1. Held(fifo) = {}
    BY DEF Init, Held
  <2>2. Cardinality({}) = 0
    BY FS_EmptySet
  <2> QED
    <3>1. todo = <<>> /\ fifo = <<>>
      BY DEF Init
    <3>2. todo \in Seq(Confirmations) /\ Len(todo) = 0 /\ fifo \in Seq(Seq(Messages) \ {<<>>})
      BY ONLY <3>1
    <3>3. 0 <= MaxTodo /\ 0 <= Cap
      BY WifiAssumption DEF WifiAssumption
    <3> QED
      BY <2>1, <2>2, <3>2, <3>3 DEF ChipOK
<1>6. FeedInv
  BY DEF Init, FeedInv, None
<1> QED
  BY <1>1, <1>2, <1>3, <1>4, <1>5, <1>6 DEF WifiInv

LEMMA WifiStep == WifiInv /\ [Next]_vars => WifiInv'
  BY FlagsStep, NotesStep, PlacesStep, CountStep, ThreadsStep, ChipStep, ThreadStep,
     LinkStep, FeedStep
  DEF WifiInv

LEMMA WifiAlways == Spec => []WifiInv
  BY WifiInit, WifiStep, PTL DEF Spec

(* Type correctness; in particular no thread goes past the end of the      *)
(* packet it feeds, and no loop past its limit (feed_rx_packet,            *)
(* msg_drain_late, send_msg).                                              *)
THEOREM TypeCorrect == Spec => []TypeOK
<1>1. WifiInv => TypeOK
  BY TypeParts DEF WifiInv
<1> QED
  BY <1>1, WifiAlways, PTL

(* Between commands the carrier tells whether there is a connection, and a *)
(* connection reported as made has a receive thread that has not been told *)
(* to stop (connect_open, net_ifdown, rx_thread_start, rx_thread_stop).    *)
THEOREM LinkHasThread == Spec => []LinkAgrees
<1>1. WifiInv => LinkAgrees
  BY DEF WifiInv, LinkInv, FlagsOK, LinkAgrees
<1> QED
  BY <1>1, WifiAlways, PTL

(* However many receive threads could run, they never get into each        *)
(* other's way (feed_rx_msg, rx_thread_start).                             *)
THEOREM FramesIntact == Spec => []FramesIntactUnlessPolled
<1>1. WifiInv => FramesIntactUnlessPolled
  BY DEF WifiInv, FeedInv, FramesIntactUnlessPolled, Live
<1> QED
  BY <1>1, WifiAlways, PTL
-----------------------------------------------------------------------------
(* The SDIO lock is the shell's while it waits for a confirmation, and     *)
(* nobody else's at a step's end.                                          *)
SdioInv == sdio = "cmd" <=> cpc = "wait"

IsLeft(m) == m.type = "cfm" /\ m.age = "left"
IsAwaited(m) == m.type = "cfm" /\ m.age = "new" /\ m.req = creq

(* The confirmation awaited is still to be made or in the FIFO.            *)
Awaited ==
  \/ \E i \in 1 .. Len(todo) : IsAwaited(todo[i])
  \/ \E i \in 1 .. Len(fifo) : \E j \in 1 .. Len(fifo[i]) : IsAwaited(fifo[i][j])

NoneLeft == \A i \in 1 .. Len(fifo) : \A j \in 1 .. Len(fifo[i]) : ~ IsLeft(fifo[i][j])

(* What lay in the FIFO when the request began is gone when it is written, *)
(* unless the drain was cut short; what is awaited stays till it is read.  *)
AnswerInv ==
  /\ SdioInv
  /\ cpc = "wait" => Awaited
  /\ \A i \in 1 .. Len(todo) : ~ IsLeft(todo[i])
  /\ cpc \in {"send", "wait"} /\ ~cut => NoneLeft
  /\ cpc \in {"drain", "send", "wait"} => took = None
  /\ took = "left" => cut

LEMMA SdioStep == SdioInv /\ [Next]_vars => SdioInv'
<1> SUFFICES ASSUME SdioInv, [Next]_vars PROVE SdioInv'
  OBVIOUS
<1> USE DEF SdioInv, flagVars, pumpVars, lockVars, cmdVars, bufVars,
        chipVars, None, Join, Begin, BeginAt, Forget, Finish, Draining,
        Create, NextMsg
<1>1. CASE UNCHANGED vars
  BY <1>1 DEF vars
<1>2. CASE Connect
  BY <1>2 DEF Connect
<1>3. CASE Scan \/ Ifup \/ Ifdown \/ StopWait \/ Down
  BY <1>3 DEF Scan, Ifup, Ifdown, StopWait, StopIf, Down
<1>4. CASE DrainOne \/ DrainEnd
  BY <1>4 DEF DrainOne, DrainEnd
<1>5. CASE Send \/ SendFails \/ CfmArrives \/ Unexpected \/ WaitEnds
  BY <1>5 DEF Send, Write, SendFails, CfmArrives, Unexpected, Skip, WaitEnds
<1>6. CASE Proceed
  BY <1>6 DEF Proceed
<1>7. CASE IndRead \/ IndGivesUp \/ Joined \/ rx_thread_start
  BY <1>7 DEF IndRead, IndGivesUp, Joined, rx_thread_start, StartIf
<1>8. CASE \E t \in Threads : RxStep(t)
  BY <1>8 DEF RxStep, RxBegin, RxCheck, RxLoop, RxRecv, RxFeed, RxInput,
     RxReply
<1>9. CASE TxBegin \/ TxEnd
  BY <1>9 DEF TxBegin, TxEnd
<1>10. CASE FwConfirm \/ FwIndicate \/ FwData
  BY <1>10 DEF FwConfirm, FwIndicate, FwData
<1> QED
  BY <1>1, <1>2, <1>3, <1>4, <1>5, <1>6, <1>7, <1>8, <1>9, <1>10 DEF Next, CmdStep


(* The commands that read a packet, and what a wait goes on with.          *)
WaitMoves ==
  \/ Writes /\ creq' = creq
  \/ /\ cpc = "wait" /\ creq' = creq
     /\ \/ Confirms \/ Arrives \/ UNCHANGED <<todo, fifo>>
        \/ Reads /\ SelectInSeq(Head(fifo), IsCfm) = 0

LEMMA WaitStep == SdioInv /\ [Next]_vars /\ cpc' = "wait" => WaitMoves
<1> SUFFICES ASSUME SdioInv, [Next]_vars, cpc' = "wait" PROVE WaitMoves
  OBVIOUS
<1> USE DEF SdioInv, WaitMoves, Writes, Reads, Confirms, Arrives,
        Indications, DataFrames, flagVars, pumpVars, lockVars, cmdVars,
        bufVars, chipVars, None, Join, Begin, BeginAt, Forget, Finish,
        Draining, Create, NextMsg
<1>1. CASE UNCHANGED vars
  BY <1>1 DEF vars
<1>2. CASE Connect
  BY <1>2 DEF Connect
<1>3. CASE Scan \/ Ifup \/ Ifdown \/ StopWait \/ Down
  BY <1>3 DEF Scan, Ifup, Ifdown, StopWait, StopIf, Down
<1>4. CASE DrainOne \/ DrainEnd
  BY <1>4 DEF DrainOne, DrainEnd
<1>5. CASE Send \/ SendFails \/ CfmArrives \/ Unexpected \/ WaitEnds
  BY <1>5 DEF Send, Write, SendFails, CfmArrives, Unexpected, Skip, WaitEnds
<1>6. CASE Proceed
  BY <1>6 DEF Proceed
<1>7. CASE IndRead \/ IndGivesUp \/ Joined \/ rx_thread_start
  BY <1>7 DEF IndRead, IndGivesUp, Joined, rx_thread_start, StartIf
<1>8. CASE \E t \in Threads : RxStep(t)
  BY <1>8 DEF RxStep, RxBegin, RxCheck, RxLoop, RxRecv, RxFeed, RxInput,
     RxReply
<1>9. CASE TxBegin \/ TxEnd
  BY <1>9 DEF TxBegin, TxEnd
<1>10. CASE FwConfirm \/ FwIndicate \/ FwData
  BY <1>10 DEF FwConfirm, FwIndicate, FwData
<1> QED
  BY <1>1, <1>2, <1>3, <1>4, <1>5, <1>6, <1>7, <1>8, <1>9, <1>10 DEF Next, CmdStep

(* What becomes of cut and of took.                                        *)
NotesMove ==
  \/ cpc' = "drain" /\ took' = None /\ ~cut'
  \/ cpc = "drain" /\ cpc' = "send" /\ took' = took /\ (cut' \/ fifo' = <<>>)
  \/ cut' = cut /\ took' = took /\ cpc' \notin {"drain", "send", "wait"}
  \/ cut' = cut /\ took' = took /\ cpc' = cpc
  \/ cut' = cut /\ took' = took /\ cpc = "send" /\ cpc' = "wait"
  \/ took' = None /\ ~cut' /\ cpc' \notin {"send", "wait"}
  \/ CfmArrives /\ cpc' \notin {"drain", "send", "wait"}

LEMMA NotesMoves == [Next]_vars => NotesMove
<1> SUFFICES ASSUME [Next]_vars PROVE NotesMove
  OBVIOUS
<1> USE DEF NotesMove, flagVars, pumpVars, lockVars, cmdVars, bufVars,
        chipVars, None, Join, Begin, BeginAt, Forget, Finish, Draining,
        Create, NextMsg
<1>1. CASE UNCHANGED vars
  BY <1>1 DEF vars
<1>2. CASE Connect
  BY <1>2 DEF Connect
<1>3. CASE Scan \/ Ifup \/ Ifdown \/ StopWait \/ Down
  BY <1>3 DEF Scan, Ifup, Ifdown, StopWait, StopIf, Down
<1>4. CASE DrainOne \/ DrainEnd
  BY <1>4 DEF DrainOne, DrainEnd
<1>5. CASE Send \/ SendFails \/ CfmArrives \/ Unexpected \/ WaitEnds
  <2>1. CASE CfmArrives
    BY <2>1 DEF CfmArrives
  <2>2. CASE ~ CfmArrives
    BY <1>5, <2>2 DEF Send, Write, SendFails, Unexpected, Skip, WaitEnds
  <2> QED
    BY <2>1, <2>2
<1>6. CASE Proceed
  BY <1>6 DEF Proceed
<1>7. CASE IndRead \/ IndGivesUp \/ Joined \/ rx_thread_start
  BY <1>7 DEF IndRead, IndGivesUp, Joined, rx_thread_start, StartIf
<1>8. CASE \E t \in Threads : RxStep(t)
  BY <1>8 DEF RxStep, RxBegin, RxCheck, RxLoop, RxRecv, RxFeed, RxInput,
     RxReply
<1>9. CASE TxBegin \/ TxEnd
  BY <1>9 DEF TxBegin, TxEnd
<1>10. CASE FwConfirm \/ FwIndicate \/ FwData
  BY <1>10 DEF FwConfirm, FwIndicate, FwData
<1> QED
  BY <1>1, <1>2, <1>3, <1>4, <1>5, <1>6, <1>7, <1>8, <1>9, <1>10 DEF Next, CmdStep

(* A message put into the FIFO leaves the others where they are.           *)
LEMMA PutKeeps ==
  ASSUME ChipOK, NEW m \in Messages, Put(m)
  PROVE  Grown(fifo, fifo', m)
  BY HeldPut DEF Put, ChipOK

(* The first request leaves the queue; the others move up.                 *)
LEMMA QueueTail ==
  ASSUME ChipOK, todo # <<>>
  PROVE  /\ Head(todo) \in Confirmations /\ Head(todo) = todo[1]
         /\ Len(todo) \in Nat \ {0} /\ Len(Tail(todo)) = Len(todo) - 1
         /\ \A i \in 1 .. Len(todo) - 1 : Tail(todo)[i] = todo[i + 1]
  BY HeadTailProperties, LenProperties, EmptySeq DEF ChipOK

(* Whatever happens while send_msg waits, its confirmation is not lost.    *)
LEMMA AwaitedStep ==
  ChipOK /\ AnswerInv /\ [Next]_vars /\ cpc' = "wait" => Awaited'
<1> SUFFICES ASSUME ChipOK, AnswerInv, [Next]_vars, cpc' = "wait" PROVE Awaited'
  OBVIOUS
<1>1. WaitMoves
  BY WaitStep DEF AnswerInv
<1>2. CASE Writes /\ creq' = creq
  <2>1. Len(todo) \in Nat
    BY LenProperties DEF ChipOK
  <2>2. Len(todo') = Len(todo) + 1
        /\ todo'[Len(todo) + 1] = [type |-> "cfm", req |-> creq, age |-> "new"]
    <3> DEFINE c == [type |-> "cfm", req |-> creq, age |-> "new"]
    <3>1. todo' = Append(todo, c) /\ todo \in Seq(Confirmations)
      BY <1>2 DEF Writes, ChipOK
    <3>2. todo \in Seq(Confirmations \cup {c}) /\ c \in Confirmations \cup {c}
      BY <3>1, SeqMonotonic
    <3> QED
      BY ONLY <3>1, <3>2, AppendProperties
  <2> QED
    BY <1>2, <2>1, <2>2 DEF Awaited, IsAwaited
<1>3. ASSUME cpc = "wait", creq' = creq,
             Confirms \/ Arrives \/ UNCHANGED <<todo, fifo>>
             \/ (Reads /\ SelectInSeq(Head(fifo), IsCfm) = 0)
      PROVE  Awaited'
  <2>1. Awaited
    BY <1>3 DEF AnswerInv
  <2>2. \A c : IsAwaited(c) => IsAwaited(c)'
    BY <1>3 DEF IsAwaited
  <2>put. ASSUME NEW m \in Messages, Put(m),
               \E i \in 1 .. Len(fifo) : \E j \in 1 .. Len(fifo[i]) : IsAwaited(fifo[i][j])
        PROVE  Awaited'
    <3>1. PICK i \in 1 .. Len(fifo) : \E j \in 1 .. Len(fifo[i]) : IsAwaited(fifo[i][j])
      BY <2>put
    <3>2. PICK j \in 1 .. Len(fifo[i]) : IsAwaited(fifo[i][j])
      BY <3>1
    <3>3. i \in 1 .. Len(fifo') /\ j \in 1 .. Len(fifo'[i]) /\ fifo'[i][j] = fifo[i][j]
      BY <2>put, PutKeeps DEF Grown
    <3> QED
      BY <3>2, <3>3, <1>3 DEF Awaited, IsAwaited
  <2>3. CASE UNCHANGED <<todo, fifo>>
    BY <2>1, <2>3, <1>3 DEF Awaited, IsAwaited
  <2>4. CASE Arrives
    <3>1. PICK m \in Messages : Put(m) /\ todo' = todo
      BY <2>4 DEF Arrives, Messages
    <3> QED
      <4>1. CASE \E i \in 1 .. Len(todo) : IsAwaited(todo[i])
        BY <3>1, <4>1, <1>3 DEF Awaited, IsAwaited
      <4> QED
        BY <2>1, <2>put, <3>1, <4>1 DEF Awaited
  <2>5. CASE Confirms
    <3>1. Head(todo) \in Messages /\ Put(Head(todo)) /\ todo' = Tail(todo) /\ todo # <<>>
      BY <2>5, QueueTail DEF Confirms, Messages
    <3>2. CASE \E i \in 1 .. Len(fifo) : \E j \in 1 .. Len(fifo[i]) : IsAwaited(fifo[i][j])
      BY <2>put, <3>1, <3>2
    <3>3. CASE \E i \in 1 .. Len(todo) : IsAwaited(todo[i])
      <4>1. PICK i \in 1 .. Len(todo) : IsAwaited(todo[i])
        BY <3>3
      <4>2. CASE i = 1
        <5>1. IsAwaited(Head(todo))
          BY <3>1, <4>1, <4>2, QueueTail
        <5> QED
          BY <3>1, <5>1, <1>3, PutKeeps DEF Grown, Awaited, IsAwaited
      <4>3. CASE i # 1
        <5>1. /\ i - 1 \in 1 .. Len(todo) - 1 /\ Tail(todo)[i - 1] = todo[i]
              /\ Len(Tail(todo)) = Len(todo) - 1
          BY <3>1, <4>3, QueueTail
        <5>2. i - 1 \in 1 .. Len(todo') /\ IsAwaited(todo'[i - 1])
          BY <3>1, <4>1, <5>1
        <5> QED
          BY <5>2, <1>3 DEF Awaited, IsAwaited
      <4> QED
        BY <4>2, <4>3
    <3> QED
      BY <2>1, <3>2, <3>3 DEF Awaited
  <2>6. CASE Reads /\ SelectInSeq(Head(fifo), IsCfm) = 0
    <3>1. fifo # <<>> /\ fifo' = Tail(fifo) /\ todo' = todo
      BY <2>6 DEF Reads
    <3>2. CASE \E i \in 1 .. Len(todo) : IsAwaited(todo[i])
      BY <3>1, <3>2, <1>3 DEF Awaited, IsAwaited
    <3>3. CASE \E i \in 1 .. Len(fifo) : \E j \in 1 .. Len(fifo[i]) : IsAwaited(fifo[i][j])
      <4>1. PICK i \in 1 .. Len(fifo) : \E j \in 1 .. Len(fifo[i]) : IsAwaited(fifo[i][j])
        BY <3>3
      <4>2. /\ Head(fifo) \in Seq(Messages) /\ Head(fifo) = fifo[1]
            /\ Len(Tail(fifo)) = Len(fifo) - 1 /\ Len(fifo) \in Nat \ {0}
            /\ \A k \in 1 .. Len(fifo) - 1 : Tail(fifo)[k] = fifo[k + 1]
        BY <3>1, HeldTail DEF ChipOK
      <4>3. i # 1
        <5>1. \A j \in 1 .. Len(Head(fifo)) : ~ IsCfm(Head(fifo)[j])
          BY <2>6, <4>2, CfmFound
        <5> QED
          BY <4>1, <4>2, <5>1 DEF IsCfm, IsAwaited
      <4>4. i - 1 \in 1 .. Len(fifo') /\ fifo'[i - 1] = fifo[i]
        BY <3>1, <4>2, <4>3
      <4> QED
        BY <4>1, <4>4, <1>3 DEF Awaited, IsAwaited
    <3> QED
      BY <2>1, <3>2, <3>3 DEF Awaited
  <2> QED
    BY <1>3, <2>3, <2>4, <2>5, <2>6
<1> QED
  BY <1>1, <1>2, <1>3 DEF WaitMoves

(* A request whose confirmation is to come was there before this exchange *)
(* or is its own.                                                          *)
LEMMA TodoStep ==
  ChipOK /\ AnswerInv /\ [Next]_vars => \A i \in 1 .. Len(todo') : ~ IsLeft(todo'[i])
<1> SUFFICES ASSUME ChipOK, AnswerInv, [Next]_vars, NEW i \in 1 .. Len(todo')
             PROVE  ~ IsLeft(todo'[i])
  OBVIOUS
<1>1. \A k \in 1 .. Len(todo) : ~ IsLeft(todo[k])
  BY DEF AnswerInv
<1>2. Len(todo) \in Nat /\ DOMAIN todo = 1 .. Len(todo)
  BY LenProperties DEF ChipOK
<1>3. CASE Begins
  <2>1. todo' = [k \in 1 .. Len(todo) |-> [todo[k] EXCEPT !.age = "late"]]
    BY <1>2, <1>3 DEF Begins
  <2>2. DOMAIN todo' = 1 .. Len(todo) /\ Len(todo') = Len(todo)
    BY ONLY <1>2, <2>1
  <2>3. todo[i] \in Confirmations
    BY <2>2, ElementOfSeq DEF ChipOK
  <2>4. todo'[i] = [todo[i] EXCEPT !.age = "late"]
    BY <2>1, <2>2
  <2>5. todo'[i].age = "late"
    BY <2>3, <2>4 DEF Confirmations
  <2> QED
    BY <2>5 DEF IsLeft
<1>4. CASE Writes
  <2> DEFINE c == [type |-> "cfm", req |-> creq, age |-> "new"]
  <2>1. todo' = Append(todo, c) /\ todo \in Seq(Confirmations)
    BY <1>4 DEF Writes, ChipOK
  <2>2. todo \in Seq(Confirmations \cup {c}) /\ c \in Confirmations \cup {c}
    BY <2>1, SeqMonotonic
  <2>3. Len(todo') = Len(todo) + 1 /\ todo'[Len(todo) + 1] = c
        /\ \A k \in 1 .. Len(todo) : todo'[k] = todo[k]
    BY ONLY <2>1, <2>2, AppendProperties
  <2>4. ~ IsLeft(c)
    BY DEF IsLeft
  <2> QED
    BY <1>1, <1>2, <2>3, <2>4
<1>5. CASE Confirms
  BY <1>1, <1>5, QueueTail DEF Confirms
<1>6. CASE todo' = todo
  BY <1>1, <1>6
<1> QED
  BY <1>3, <1>4, <1>5, <1>6, ChipMoves DEF Reads, Arrives

(* Nothing left over comes into a FIFO that has been read empty.           *)
LEMMA NoneLeftStep ==
  ChipOK /\ AnswerInv /\ NoneLeft /\ [Next]_vars /\ cpc' # "drain" => NoneLeft'
<1> SUFFICES ASSUME ChipOK, AnswerInv, NoneLeft, [Next]_vars, cpc' # "drain"
             PROVE  NoneLeft'
  OBVIOUS
<1>1. ASSUME NEW m \in Messages, Put(m), ~ IsLeft(m) PROVE NoneLeft'
  BY <1>1, PutKeeps DEF Grown, NoneLeft, IsLeft
<1>2. CASE Confirms
  <2>1. Head(todo) \in Messages /\ Put(Head(todo)) /\ ~ IsLeft(Head(todo))
    BY <1>2, QueueTail DEF Confirms, Messages, AnswerInv
  <2> QED
    BY <1>1, <2>1
<1>3. CASE Arrives
  BY <1>1, <1>3 DEF Arrives, Messages, Indications, DataFrames, IsLeft
<1>4. CASE Reads
  <2>1. /\ Len(Tail(fifo)) = Len(fifo) - 1 /\ Len(fifo) \in Nat \ {0}
        /\ \A k \in 1 .. Len(fifo) - 1 : Tail(fifo)[k] = fifo[k + 1]
    BY <1>4, HeldTail DEF ChipOK, Reads
  <2>2. \A k \in 1 .. Len(fifo') : k + 1 \in 1 .. Len(fifo) /\ fifo'[k] = fifo[k + 1]
    BY <1>4, <2>1 DEF Reads
  <2> QED
    BY <2>2 DEF NoneLeft, IsLeft
<1>5. CASE fifo' = fifo
  BY <1>5 DEF NoneLeft, IsLeft
<1> QED
  BY <1>2, <1>3, <1>4, <1>5, ChipMoves DEF Begins, Writes

(* The confirmation found is not a left-over one if there is none.         *)
LEMMA NoneLeftTaken ==
  ChipOK /\ AnswerInv /\ CfmArrives => cut' = cut /\ (took' = "left" => cut)
<1> SUFFICES ASSUME ChipOK, AnswerInv, CfmArrives
             PROVE  cut' = cut /\ (took' = "left" => cut)
  OBVIOUS
<1> DEFINE p == Head(fifo)
           at == SelectInSeq(p, IsCfm)
<1>1. cpc = "wait" /\ fifo # <<>> /\ at # 0 /\ took' = p[at].age /\ cut' = cut
  BY DEF CfmArrives
<1>2. p \in Seq(Messages) /\ p = fifo[1] /\ Len(fifo) \in Nat \ {0}
  BY <1>1, HeldTail DEF ChipOK
<1>3. at \in 1 .. Len(p) /\ IsCfm(p[at])
  BY <1>1, <1>2, CfmFound
<1>4. ~cut => ~ IsLeft(fifo[1][at])
  BY <1>1, <1>2, <1>3 DEF AnswerInv, NoneLeft
<1> QED
  BY <1>1, <1>2, <1>3, <1>4 DEF IsLeft, IsCfm

LEMMA AnswerStep == WifiInv /\ AnswerInv /\ [Next]_vars => AnswerInv'
<1> SUFFICES ASSUME WifiInv, AnswerInv, [Next]_vars PROVE AnswerInv'
  OBVIOUS
<1>1. ChipOK /\ SdioInv
  BY DEF WifiInv, AnswerInv
<1>2. SdioInv'
  BY <1>1, SdioStep
<1>3. (cpc = "wait" => Awaited)'
  BY <1>1, AwaitedStep
<1>4. (\A i \in 1 .. Len(todo) : ~ IsLeft(todo[i]))'
  BY <1>1, TodoStep DEF IsLeft
<1>5. NotesMove
  BY NotesMoves
<1>6. (cpc \in {"send", "wait"} /\ ~cut => NoneLeft)'
  <2> SUFFICES ASSUME cpc' \in {"send", "wait"}, ~cut' PROVE NoneLeft'
    OBVIOUS
  <2>1. CASE fifo' = <<>>
    BY <2>1 DEF NoneLeft
  <2>2. CASE cpc \in {"send", "wait"} /\ ~cut
    BY <1>1, <2>2, NoneLeftStep DEF AnswerInv
  <2> QED
    BY <1>5, <2>1, <2>2 DEF NotesMove
<1>7. (cpc \in {"drain", "send", "wait"} => took = None)'
  BY <1>5 DEF NotesMove, AnswerInv
<1>8. (took = "left" => cut)'
  BY <1>1, <1>5, NoneLeftTaken DEF NotesMove, AnswerInv, None
<1> QED
  BY <1>2, <1>3, <1>4, <1>6, <1>7, <1>8 DEF AnswerInv

(* Whoever waits for the firmware's answer gets it: send_msg's             *)
(* confirmation is not taken by the receive thread, which is not about to  *)
(* read while wait_connect_ind does, and an answer drained away is not     *)
(* taken for that of the next request (msg_drain_late, net_ifdown).        *)
THEOREM AnswersReachWaiter == Spec => []AnswersArrive
<1>1. Init => AnswerInv
  BY DEF Init, AnswerInv, SdioInv, None
<1>2. Spec => [](WifiInv /\ AnswerInv)
  <2>1. Init => WifiInv /\ AnswerInv
    BY <1>1, WifiInit
  <2>2. WifiInv /\ AnswerInv /\ [Next]_vars => (WifiInv /\ AnswerInv)'
    BY WifiStep, AnswerStep
  <2> QED
    BY <2>1, <2>2, PTL DEF Spec
<1>3. WifiInv /\ AnswerInv => AnswersArrive
  <2> SUFFICES ASSUME WifiInv, AnswerInv PROVE AnswersArrive
    OBVIOUS
  <2>1. DOMAIN todo = 1 .. Len(todo) /\ DOMAIN fifo = 1 .. Len(fifo)
    BY LenProperties DEF WifiInv, ChipOK
  <2>2. \A i \in 1 .. Len(fifo) : DOMAIN fifo[i] = 1 .. Len(fifo[i])
    <3>1. \A i \in 1 .. Len(fifo) : fifo[i] \in Seq(Messages)
      BY ElementOfSeq DEF WifiInv, ChipOK
    <3> QED
      BY <3>1, LenProperties
  <2>3. cpc = "ind" => Live = {}
    BY DEF WifiInv, ThreadInv, Joining, Requesting
  <2>4. cpc = "wait" => Awaited
    BY DEF AnswerInv
  <2>5. took = "left" => cut
    BY DEF AnswerInv
  <2> QED
    BY <2>1, <2>2, <2>3, <2>4, <2>5 DEF AnswersArrive, Awaited, IsAwaited
<1> QED
  BY <1>2, <1>3, PTL
=============================================================================
