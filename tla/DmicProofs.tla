----------------------------- MODULE DmicProofs -----------------------------
(***************************************************************************)
(* Proofs about Dmic, for every number of buffers, semaphore limit and     *)
(* kind of client: types, wakeups, the pause register, the place of every  *)
(* buffer, the capture contract, and the client that keeps up.             *)
(***************************************************************************)
EXTENDS Dmic, FiniteSetTheorems, SequenceTheorems, TLAPS

StartPositions == {"start_dma", "start_take", "start_ring", "start_run"}
Sleepy == {"wait", "xrun"}   (* going to sleep without another look        *)

(* How far the client's session and the worker's round can be apart.       *)
SessionInv ==
  /\ session = "idle" => /\ ~started /\ ~stopping /\ completes = 0
                         /\ wpc \in {"wait", "top"}
  /\ started => session = "run" /\ ~stopping
  /\ cpc \in StartPositions => session = "idle"
  /\ cpc \in {"kick", "post", "stop_hw", "pause_hw", "resume_hw"} => session # "idle"
  /\ completes \in {0, 1}
  /\ completes = 1 => /\ ~started /\ ~stopping /\ ~audio_ready /\ ~dma_ready
                      /\ wpc \in {"wait", "top"}
  /\ wpc = "report" => /\ ~started /\ ~stopping /\ ~audio_ready /\ ~dma_ready
                       /\ completes = 0
  /\ wpc \in {"deinit", "return"} => ~started /\ stopping
  /\ wpc \in {"poll", "claim", "deliver", "abort", "abort_mark", "xrun"}
       => started \/ stopping

(* A set wakeup flag is backed by a post, made or about to be made, unless *)
(* the worker is about to clear it.                                        *)
FlagInv ==
  worker_wakeup /\ worker_sem = 0 /\ wpc # "top" => cpc = "post"

SleepInv ==
  wpc \in Sleepy /\ worker_sem = 0 =>
    /\ stopping => cpc \in {"stop_hw", "kick", "post"}
    /\ started /\ (active # None \/ pendq # <<>>) => cpc \in {"kick", "post"}

WakeInv == SessionInv /\ FlagInv /\ SleepInv


LEMMA HeadTailType ==
  ASSUME NEW S, NEW q \in Seq(S), q # <<>>
  PROVE  Head(q) \in S /\ Tail(q) \in Seq(S)
BY HeadTailProperties

LEMMA AppendType ==
  ASSUME NEW S, NEW q \in Seq(S), NEW e \in S
  PROVE  Append(q, e) \in Seq(S)
BY AppendProperties

(* The worker holds a buffer from the head of its round to the claim and   *)
(* the delivery.                                                           *)
ApbInv ==
  wpc \in {"poll", "claim", "deliver", "abort", "abort_mark"} => apb # None

(* Each step keeps the flags Boolean.                                      *)
LEMMA FlagsStep == FlagsOK /\ [Next]_vars => FlagsOK'
<1> SUFFICES ASSUME FlagsOK, [Next]_vars PROVE FlagsOK'
  OBVIOUS
<1>1. CASE KickMark
   BY <1>1 DEF KickMark, FlagsOK, clientVars, flags, wake, workerVars,
       dmaVars, queueVars
<1>2. CASE KickPost
   BY <1>2 DEF KickPost, FlagsOK, clientVars, flags, wake, workerVars,
       dmaVars, queueVars
<1>3. CASE StartDmaInit
   BY <1>3 DEF StartDmaInit, FlagsOK, clientVars, flags, wake, workerVars,
       dmaVars, queueVars
<1>4. CASE StartInitFails
   BY <1>4 DEF StartInitFails, FlagsOK, clientVars, flags, wake, workerVars,
       dmaVars, queueVars
<1>5. CASE StartTake
   BY <1>5 DEF StartTake, FlagsOK, HeadOrNone, TailOrEmpty, clientVars, flags,
       wake, workerVars, dmaVars, queueVars
<1>6. CASE StartRing
   BY <1>6 DEF StartRing, FlagsOK, clientVars, flags, wake, workerVars,
       dmaVars, queueVars
<1>7. CASE StartUndo
   BY <1>7 DEF StartUndo, FlagsOK, clientVars, flags, wake, workerVars,
       dmaVars, queueVars
<1>8. CASE StartRun
   BY <1>8 DEF StartRun, FlagsOK, clientVars, flags, wake, workerVars,
       dmaVars, queueVars
<1>9. CASE StopHw
   BY <1>9 DEF StopHw, FlagsOK, clientVars, flags, wake, workerVars, dmaVars,
       queueVars
<1>10. CASE PauseHw
   BY <1>10 DEF PauseHw, FlagsOK, clientVars, flags, wake, workerVars,
       dmaVars, queueVars
<1>11. CASE AllocBuffer
   BY <1>11 DEF AllocBuffer, FlagsOK, clientVars, flags, wake, workerVars,
       dmaVars, queueVars
<1>12. CASE FreeBuffer
   BY <1>12 DEF FreeBuffer, FlagsOK, clientVars, flags, wake, workerVars,
       dmaVars, queueVars
<1>13. CASE EnqueueBuffer
   BY <1>13 DEF EnqueueBuffer, FlagsOK, MayEnqueue, clientVars, flags, wake,
       workerVars, dmaVars, queueVars
<1>14. CASE StartAudio
   BY <1>14 DEF StartAudio, FlagsOK, clientVars, flags, wake, workerVars,
       dmaVars, queueVars
<1>15. CASE Stop
   BY <1>15 DEF Stop, FlagsOK, StopNothing, clientVars, flags, wake,
       workerVars, dmaVars, queueVars
<1>16. CASE Pause
   BY <1>16 DEF Pause, FlagsOK, clientVars, flags, wake, workerVars, dmaVars,
       queueVars
<1>17. CASE Resume
   BY <1>17 DEF Resume, FlagsOK, clientVars, flags, wake, workerVars, dmaVars,
       queueVars
<1>18. CASE TakeComplete
   BY <1>18 DEF TakeComplete, FlagsOK, clientVars, flags, wake, workerVars,
       dmaVars, queueVars
<1>19. CASE WorkerWake
   BY <1>19 DEF WorkerWake, FlagsOK, clientVars, flags, wake, workerVars,
       dmaVars, queueVars
<1>20. CASE TopIdle
   BY <1>20 DEF TopIdle, FlagsOK, clientVars, flags, wake, workerVars,
       dmaVars, queueVars
<1>21. CASE TopStopping
   BY <1>21 DEF TopStopping, FlagsOK, HeadOrNone, TailOrEmpty, clientVars,
       flags, wake, workerVars, dmaVars, queueVars
<1>22. CASE TopNext
   BY <1>22 DEF TopNext, FlagsOK, clientVars, flags, wake, workerVars,
       dmaVars, queueVars
<1>23. CASE TopStarved
   BY <1>23 DEF TopStarved, FlagsOK, clientVars, flags, wake, workerVars,
       dmaVars, queueVars
<1>24. CASE NoteXrun
   BY <1>24 DEF NoteXrun, FlagsOK, clientVars, flags, wake, workerVars,
       dmaVars, queueVars
<1>25. CASE PollDone
   BY <1>25 DEF PollDone, FlagsOK, clientVars, flags, wake, workerVars,
       dmaVars, queueVars
<1>26. CASE PollError
   BY <1>26 DEF PollError, FlagsOK, clientVars, flags, wake, workerVars,
       dmaVars, queueVars
<1>27. CASE PollStopped
   BY <1>27 DEF PollStopped, FlagsOK, clientVars, flags, wake, workerVars,
       dmaVars, queueVars
<1>28. CASE Claim
   BY <1>28 DEF Claim, FlagsOK, clientVars, flags, wake, workerVars, dmaVars,
       queueVars
<1>29. CASE Deliver
   BY <1>29 DEF Deliver, FlagsOK, clientVars, flags, wake, workerVars,
       dmaVars, queueVars
<1>30. CASE AbortHw
   BY <1>30 DEF AbortHw, FlagsOK, clientVars, flags, wake, workerVars,
       dmaVars, queueVars
<1>31. CASE AbortMark
   BY <1>31 DEF AbortMark, FlagsOK, clientVars, flags, wake, workerVars,
       dmaVars, queueVars
<1>32. CASE FinishDeinit
   BY <1>32 DEF FinishDeinit, FlagsOK, clientVars, flags, wake, workerVars,
       dmaVars, queueVars
<1>33. CASE FinishReturn
   BY <1>33 DEF FinishReturn, FlagsOK, HeadOrNone, TailOrEmpty, clientVars,
       flags, wake, workerVars, dmaVars, queueVars
<1>34. CASE FinishClear
   BY <1>34 DEF FinishClear, FlagsOK, clientVars, flags, wake, workerVars,
       dmaVars, queueVars
<1>35. CASE FinishReport
   BY <1>35 DEF FinishReport, FlagsOK, clientVars, flags, wake, workerVars,
       dmaVars, queueVars
<1>36. CASE DmaPeriod
   BY <1>36 DEF DmaPeriod, FlagsOK, NextSlot, clientVars, flags, wake,
       workerVars, dmaVars, queueVars
<1>37. CASE DmaFails
   BY <1>37 DEF DmaFails, FlagsOK, clientVars, flags, wake, workerVars,
       dmaVars, queueVars
<1>38. CASE UNCHANGED vars
   BY <1>38 DEF vars, FlagsOK, clientVars, flags, wake, workerVars, dmaVars,
       queueVars
<1> QED
   BY <1>1, <1>2, <1>3, <1>4, <1>5, <1>6, <1>7, <1>8, <1>9, <1>10, <1>11,
       <1>12, <1>13, <1>14, <1>15, <1>16, <1>17, <1>18, <1>19, <1>20, <1>21,
       <1>22, <1>23, <1>24, <1>25, <1>26, <1>27, <1>28, <1>29, <1>30, <1>31,
       <1>32, <1>33, <1>34, <1>35, <1>36, <1>37, <1>38 DEF Next, ClientStep,
       ClientCall, Worker, Dma

(* Each step keeps the other variables in their sets.                      *)
LEMMA DataStep == DataOK /\ ApbInv /\ [Next]_vars => DataOK' /\ ApbInv'
<1> USE DmicAssumption DEF DmicAssumption, Slots, CallPositions, WorkerPositions
<1> SUFFICES ASSUME DataOK, ApbInv, [Next]_vars PROVE DataOK' /\ ApbInv'
  OBVIOUS
<1>1. CASE KickMark
   BY <1>1 DEF KickMark, DataOK, ApbInv, clientVars, flags, wake, workerVars,
       dmaVars, queueVars
<1>2. CASE KickPost
   BY <1>2 DEF KickPost, DataOK, ApbInv, clientVars, flags, wake, workerVars,
       dmaVars, queueVars
<1>3. CASE StartDmaInit
   BY <1>3 DEF StartDmaInit, DataOK, ApbInv, clientVars, flags, wake,
       workerVars, dmaVars, queueVars
<1>4. CASE StartInitFails
   BY <1>4 DEF StartInitFails, DataOK, ApbInv, clientVars, flags, wake,
       workerVars, dmaVars, queueVars
<1>5. CASE StartTake
  <2>1. pendq # <<>> => Head(pendq) \in Buffers /\ Tail(pendq) \in Seq(Buffers)
    BY HeadTailType DEF DataOK
  <2> QED
    BY <1>5, <2>1 DEF StartTake, DataOK, ApbInv, HeadOrNone,
       TailOrEmpty, clientVars, flags, wake, workerVars, dmaVars, queueVars
<1>6. CASE StartRing
   BY <1>6 DEF StartRing, Buffers, DataOK, ApbInv, clientVars, flags, wake, workerVars,
       dmaVars, queueVars
<1>7. CASE StartUndo
  <2>1. active # None => <<active>> \o pendq \in Seq(Buffers)
    BY ConcatProperties DEF DataOK
  <2> QED
    BY <1>7, <2>1 DEF StartUndo, DataOK, ApbInv, clientVars, flags,
       wake, workerVars, dmaVars, queueVars
<1>8. CASE StartRun
   BY <1>8 DEF StartRun, DataOK, ApbInv, clientVars, flags, wake, workerVars,
       dmaVars, queueVars
<1>9. CASE StopHw
   BY <1>9 DEF StopHw, DataOK, ApbInv, clientVars, flags, wake, workerVars,
       dmaVars, queueVars
<1>10. CASE PauseHw
   BY <1>10 DEF PauseHw, DataOK, ApbInv, clientVars, flags, wake, workerVars,
       dmaVars, queueVars
<1>11. CASE AllocBuffer
   BY <1>11, AppendType DEF AllocBuffer, Buffers, DataOK, ApbInv, clientVars, flags,
       wake, workerVars, dmaVars, queueVars
<1>12. CASE FreeBuffer
  <2>1. Head(held) \in Buffers /\ Tail(held) \in Seq(Buffers)
    BY <1>12, HeadTailType DEF FreeBuffer, DataOK
  <2> QED
    BY <1>12, <2>1 DEF FreeBuffer, DataOK, ApbInv, clientVars, flags,
       wake, workerVars, dmaVars, queueVars
<1>13. CASE EnqueueBuffer
   BY <1>13, HeadTailType, AppendType DEF EnqueueBuffer, DataOK, ApbInv,
       MayEnqueue, clientVars, flags, wake, workerVars, dmaVars, queueVars
<1>14. CASE StartAudio
   BY <1>14 DEF StartAudio, DataOK, ApbInv, clientVars, flags, wake,
       workerVars, dmaVars, queueVars
<1>15. CASE Stop
   BY <1>15 DEF Stop, DataOK, ApbInv, StopNothing, clientVars, flags, wake,
       workerVars, dmaVars, queueVars
<1>16. CASE Pause
   BY <1>16 DEF Pause, DataOK, ApbInv, clientVars, flags, wake, workerVars,
       dmaVars, queueVars
<1>17. CASE Resume
   BY <1>17 DEF Resume, DataOK, ApbInv, clientVars, flags, wake, workerVars,
       dmaVars, queueVars
<1>18. CASE TakeComplete
   BY <1>18 DEF TakeComplete, DataOK, ApbInv, clientVars, flags, wake,
       workerVars, dmaVars, queueVars
<1>19. CASE WorkerWake
   BY <1>19 DEF WorkerWake, DataOK, ApbInv, clientVars, flags, wake,
       workerVars, dmaVars, queueVars
<1>20. CASE TopIdle
   BY <1>20 DEF TopIdle, DataOK, ApbInv, clientVars, flags, wake, workerVars,
       dmaVars, queueVars
<1>21. CASE TopStopping
  <2>1. pendq # <<>> => Head(pendq) \in Buffers /\ Tail(pendq) \in Seq(Buffers)
    BY HeadTailType DEF DataOK
  <2> QED
    BY <1>21, <2>1 DEF TopStopping, DataOK, ApbInv, HeadOrNone,
       TailOrEmpty, clientVars, flags, wake, workerVars, dmaVars, queueVars
<1>22. CASE TopNext
  <2>1. pendq # <<>> => Head(pendq) \in Buffers /\ Tail(pendq) \in Seq(Buffers)
    BY HeadTailType DEF DataOK
  <2> QED
    BY <1>22, <2>1 DEF TopNext, Buffers, DataOK, ApbInv, clientVars, flags,
       wake, workerVars, dmaVars, queueVars
<1>23. CASE TopStarved
   BY <1>23 DEF TopStarved, DataOK, ApbInv, clientVars, flags, wake,
       workerVars, dmaVars, queueVars
<1>24. CASE NoteXrun
   BY <1>24 DEF NoteXrun, DataOK, ApbInv, clientVars, flags, wake, workerVars,
       dmaVars, queueVars
<1>25. CASE PollDone
   BY <1>25 DEF PollDone, DataOK, ApbInv, clientVars, flags, wake, workerVars,
       dmaVars, queueVars
<1>26. CASE PollError
   BY <1>26 DEF PollError, DataOK, ApbInv, clientVars, flags, wake,
       workerVars, dmaVars, queueVars
<1>27. CASE PollStopped
   BY <1>27 DEF PollStopped, DataOK, ApbInv, clientVars, flags, wake,
       workerVars, dmaVars, queueVars
<1>28. CASE Claim
   BY <1>28 DEF Claim, DataOK, ApbInv, clientVars, flags, wake, workerVars,
       dmaVars, queueVars
<1>29. CASE Deliver
   BY <1>29, AppendType DEF Deliver, DataOK, ApbInv, clientVars, flags, wake,
       workerVars, dmaVars, queueVars
<1>30. CASE AbortHw
   BY <1>30 DEF AbortHw, DataOK, ApbInv, clientVars, flags, wake, workerVars,
       dmaVars, queueVars
<1>31. CASE AbortMark
   BY <1>31 DEF AbortMark, DataOK, ApbInv, clientVars, flags, wake,
       workerVars, dmaVars, queueVars
<1>32. CASE FinishDeinit
   BY <1>32 DEF FinishDeinit, DataOK, ApbInv, clientVars, flags, wake,
       workerVars, dmaVars, queueVars
<1>33. CASE FinishReturn
  <2>1. pendq # <<>> => Head(pendq) \in Buffers /\ Tail(pendq) \in Seq(Buffers)
    BY HeadTailType DEF DataOK
  <2> QED
    BY <1>33, <2>1, AppendType DEF FinishReturn, DataOK, ApbInv,
       HeadOrNone, TailOrEmpty, clientVars, flags, wake, workerVars, dmaVars,
       queueVars
<1>34. CASE FinishClear
   BY <1>34 DEF FinishClear, DataOK, ApbInv, clientVars, flags, wake,
       workerVars, dmaVars, queueVars
<1>35. CASE FinishReport
   BY <1>35 DEF FinishReport, DataOK, ApbInv, clientVars, flags, wake,
       workerVars, dmaVars, queueVars
<1>36. CASE DmaPeriod
   BY <1>36 DEF DmaPeriod, Buffers, DataOK, ApbInv, NextSlot, clientVars, flags, wake,
       workerVars, dmaVars, queueVars
<1>37. CASE DmaFails
   BY <1>37 DEF DmaFails, DataOK, ApbInv, clientVars, flags, wake, workerVars,
       dmaVars, queueVars
<1>38. CASE UNCHANGED vars
   BY <1>38 DEF vars, DataOK, ApbInv, clientVars, flags, wake, workerVars,
       dmaVars, queueVars
<1> QED
   BY <1>1, <1>2, <1>3, <1>4, <1>5, <1>6, <1>7, <1>8, <1>9, <1>10, <1>11,
       <1>12, <1>13, <1>14, <1>15, <1>16, <1>17, <1>18, <1>19, <1>20, <1>21,
       <1>22, <1>23, <1>24, <1>25, <1>26, <1>27, <1>28, <1>29, <1>30, <1>31,
       <1>32, <1>33, <1>34, <1>35, <1>36, <1>37, <1>38 DEF Next, ClientStep,
       ClientCall, Worker, Dma

(* Type correctness: in particular alloc_index stays within the ring and   *)
(* the semaphore within its limit, whatever the client calls.              *)
THEOREM TypeCorrect == Spec => []TypeOK
<1>1. Init => FlagsOK
  BY DEF Init, FlagsOK
<1>2. Init => DataOK /\ ApbInv
  BY DmicAssumption DEF DmicAssumption, Init, DataOK, ApbInv, Buffers, Slots,
     CallPositions, WorkerPositions
<1>3. QED
  BY <1>1, <1>2, FlagsStep, DataStep, PTL DEF Spec, TypeOK

(* The session, the wakeup flag and the worker's position move together.   *)
LEMMA WakeStep == TypeOK /\ WakeInv /\ [Next]_vars => WakeInv'
<1> USE DmicAssumption DEF DmicAssumption
<1> SUFFICES ASSUME TypeOK, WakeInv, [Next]_vars PROVE WakeInv'
  OBVIOUS
<1>1. CASE KickMark
   BY <1>1 DEF KickMark, TypeOK, FlagsOK, DataOK, WakeInv, SessionInv,
       FlagInv, SleepInv, Sleepy, StartPositions, CallPositions,
       WorkerPositions, clientVars, flags, wake, workerVars, dmaVars,
       queueVars
<1>2. CASE KickPost
   BY <1>2 DEF KickPost, TypeOK, FlagsOK, DataOK, WakeInv, SessionInv,
       FlagInv, SleepInv, Sleepy, StartPositions, CallPositions,
       WorkerPositions, clientVars, flags, wake, workerVars, dmaVars,
       queueVars
<1>3. CASE StartDmaInit
   BY <1>3 DEF StartDmaInit, TypeOK, FlagsOK, DataOK, WakeInv, SessionInv,
       FlagInv, SleepInv, Sleepy, StartPositions, CallPositions,
       WorkerPositions, clientVars, flags, wake, workerVars, dmaVars,
       queueVars
<1>4. CASE StartInitFails
   BY <1>4 DEF StartInitFails, TypeOK, FlagsOK, DataOK, WakeInv, SessionInv,
       FlagInv, SleepInv, Sleepy, StartPositions, CallPositions,
       WorkerPositions, clientVars, flags, wake, workerVars, dmaVars,
       queueVars
<1>5. CASE StartTake
   BY <1>5 DEF StartTake, TypeOK, FlagsOK, DataOK, WakeInv, SessionInv,
       FlagInv, SleepInv, Sleepy, StartPositions, CallPositions,
       WorkerPositions, HeadOrNone, TailOrEmpty, clientVars, flags, wake,
       workerVars, dmaVars, queueVars
<1>6. CASE StartRing
   BY <1>6 DEF StartRing, TypeOK, FlagsOK, DataOK, WakeInv, SessionInv,
       FlagInv, SleepInv, Sleepy, StartPositions, CallPositions,
       WorkerPositions, clientVars, flags, wake, workerVars, dmaVars,
       queueVars
<1>7. CASE StartUndo
   BY <1>7 DEF StartUndo, TypeOK, FlagsOK, DataOK, WakeInv, SessionInv,
       FlagInv, SleepInv, Sleepy, StartPositions, CallPositions,
       WorkerPositions, clientVars, flags, wake, workerVars, dmaVars,
       queueVars
<1>8. CASE StartRun
   BY <1>8 DEF StartRun, TypeOK, FlagsOK, DataOK, WakeInv, SessionInv,
       FlagInv, SleepInv, Sleepy, StartPositions, CallPositions,
       WorkerPositions, clientVars, flags, wake, workerVars, dmaVars,
       queueVars
<1>9. CASE StopHw
   BY <1>9 DEF StopHw, TypeOK, FlagsOK, DataOK, WakeInv, SessionInv, FlagInv,
       SleepInv, Sleepy, StartPositions, CallPositions, WorkerPositions,
       clientVars, flags, wake, workerVars, dmaVars, queueVars
<1>10. CASE PauseHw
   BY <1>10 DEF PauseHw, TypeOK, FlagsOK, DataOK, WakeInv, SessionInv,
       FlagInv, SleepInv, Sleepy, StartPositions, CallPositions,
       WorkerPositions, clientVars, flags, wake, workerVars, dmaVars,
       queueVars
<1>11. CASE AllocBuffer
   BY <1>11 DEF AllocBuffer, TypeOK, FlagsOK, DataOK, WakeInv, SessionInv,
       FlagInv, SleepInv, Sleepy, StartPositions, CallPositions,
       WorkerPositions, clientVars, flags, wake, workerVars, dmaVars,
       queueVars
<1>12. CASE FreeBuffer
   BY <1>12 DEF FreeBuffer, TypeOK, FlagsOK, DataOK, WakeInv, SessionInv,
       FlagInv, SleepInv, Sleepy, StartPositions, CallPositions,
       WorkerPositions, clientVars, flags, wake, workerVars, dmaVars,
       queueVars
<1>13. CASE EnqueueBuffer
   BY <1>13 DEF EnqueueBuffer, TypeOK, FlagsOK, DataOK, WakeInv, SessionInv,
       FlagInv, SleepInv, Sleepy, StartPositions, CallPositions,
       WorkerPositions, MayEnqueue, clientVars, flags, wake, workerVars,
       dmaVars, queueVars
<1>14. CASE StartAudio
   BY <1>14 DEF StartAudio, TypeOK, FlagsOK, DataOK, WakeInv, SessionInv,
       FlagInv, SleepInv, Sleepy, StartPositions, CallPositions,
       WorkerPositions, clientVars, flags, wake, workerVars, dmaVars,
       queueVars
<1>15. CASE Stop
   BY <1>15 DEF Stop, TypeOK, FlagsOK, DataOK, WakeInv, SessionInv, FlagInv,
       SleepInv, Sleepy, StartPositions, CallPositions, WorkerPositions,
       StopNothing, clientVars, flags, wake, workerVars, dmaVars, queueVars
<1>16. CASE Pause
   BY <1>16 DEF Pause, TypeOK, FlagsOK, DataOK, WakeInv, SessionInv, FlagInv,
       SleepInv, Sleepy, StartPositions, CallPositions, WorkerPositions,
       clientVars, flags, wake, workerVars, dmaVars, queueVars
<1>17. CASE Resume
   BY <1>17 DEF Resume, TypeOK, FlagsOK, DataOK, WakeInv, SessionInv, FlagInv,
       SleepInv, Sleepy, StartPositions, CallPositions, WorkerPositions,
       clientVars, flags, wake, workerVars, dmaVars, queueVars
<1>18. CASE TakeComplete
   BY <1>18 DEF TakeComplete, TypeOK, FlagsOK, DataOK, WakeInv, SessionInv,
       FlagInv, SleepInv, Sleepy, StartPositions, CallPositions,
       WorkerPositions, clientVars, flags, wake, workerVars, dmaVars,
       queueVars
<1>19. CASE WorkerWake
   BY <1>19 DEF WorkerWake, TypeOK, FlagsOK, DataOK, WakeInv, SessionInv,
       FlagInv, SleepInv, Sleepy, StartPositions, CallPositions,
       WorkerPositions, clientVars, flags, wake, workerVars, dmaVars,
       queueVars
<1>20. CASE TopIdle
   BY <1>20 DEF TopIdle, TypeOK, FlagsOK, DataOK, WakeInv, SessionInv,
       FlagInv, SleepInv, Sleepy, StartPositions, CallPositions,
       WorkerPositions, clientVars, flags, wake, workerVars, dmaVars,
       queueVars
<1>21. CASE TopStopping
   BY <1>21 DEF TopStopping, TypeOK, FlagsOK, DataOK, WakeInv, SessionInv,
       FlagInv, SleepInv, Sleepy, StartPositions, CallPositions,
       WorkerPositions, HeadOrNone, TailOrEmpty, clientVars, flags, wake,
       workerVars, dmaVars, queueVars
<1>22. CASE TopNext
   BY <1>22 DEF TopNext, TypeOK, FlagsOK, DataOK, WakeInv, SessionInv,
       FlagInv, SleepInv, Sleepy, StartPositions, CallPositions,
       WorkerPositions, clientVars, flags, wake, workerVars, dmaVars,
       queueVars
<1>23. CASE TopStarved
   BY <1>23 DEF TopStarved, TypeOK, FlagsOK, DataOK, WakeInv, SessionInv,
       FlagInv, SleepInv, Sleepy, StartPositions, CallPositions,
       WorkerPositions, clientVars, flags, wake, workerVars, dmaVars,
       queueVars
<1>24. CASE NoteXrun
   BY <1>24 DEF NoteXrun, TypeOK, FlagsOK, DataOK, WakeInv, SessionInv,
       FlagInv, SleepInv, Sleepy, StartPositions, CallPositions,
       WorkerPositions, clientVars, flags, wake, workerVars, dmaVars,
       queueVars
<1>25. CASE PollDone
   BY <1>25 DEF PollDone, TypeOK, FlagsOK, DataOK, WakeInv, SessionInv,
       FlagInv, SleepInv, Sleepy, StartPositions, CallPositions,
       WorkerPositions, clientVars, flags, wake, workerVars, dmaVars,
       queueVars
<1>26. CASE PollError
   BY <1>26 DEF PollError, TypeOK, FlagsOK, DataOK, WakeInv, SessionInv,
       FlagInv, SleepInv, Sleepy, StartPositions, CallPositions,
       WorkerPositions, clientVars, flags, wake, workerVars, dmaVars,
       queueVars
<1>27. CASE PollStopped
   BY <1>27 DEF PollStopped, TypeOK, FlagsOK, DataOK, WakeInv, SessionInv,
       FlagInv, SleepInv, Sleepy, StartPositions, CallPositions,
       WorkerPositions, clientVars, flags, wake, workerVars, dmaVars,
       queueVars
<1>28. CASE Claim
   BY <1>28 DEF Claim, TypeOK, FlagsOK, DataOK, WakeInv, SessionInv, FlagInv,
       SleepInv, Sleepy, StartPositions, CallPositions, WorkerPositions,
       clientVars, flags, wake, workerVars, dmaVars, queueVars
<1>29. CASE Deliver
   BY <1>29 DEF Deliver, TypeOK, FlagsOK, DataOK, WakeInv, SessionInv,
       FlagInv, SleepInv, Sleepy, StartPositions, CallPositions,
       WorkerPositions, clientVars, flags, wake, workerVars, dmaVars,
       queueVars
<1>30. CASE AbortHw
   BY <1>30 DEF AbortHw, TypeOK, FlagsOK, DataOK, WakeInv, SessionInv,
       FlagInv, SleepInv, Sleepy, StartPositions, CallPositions,
       WorkerPositions, clientVars, flags, wake, workerVars, dmaVars,
       queueVars
<1>31. CASE AbortMark
   BY <1>31 DEF AbortMark, TypeOK, FlagsOK, DataOK, WakeInv, SessionInv,
       FlagInv, SleepInv, Sleepy, StartPositions, CallPositions,
       WorkerPositions, clientVars, flags, wake, workerVars, dmaVars,
       queueVars
<1>32. CASE FinishDeinit
   BY <1>32 DEF FinishDeinit, TypeOK, FlagsOK, DataOK, WakeInv, SessionInv,
       FlagInv, SleepInv, Sleepy, StartPositions, CallPositions,
       WorkerPositions, clientVars, flags, wake, workerVars, dmaVars,
       queueVars
<1>33. CASE FinishReturn
   BY <1>33 DEF FinishReturn, TypeOK, FlagsOK, DataOK, WakeInv, SessionInv,
       FlagInv, SleepInv, Sleepy, StartPositions, CallPositions,
       WorkerPositions, HeadOrNone, TailOrEmpty, clientVars, flags, wake,
       workerVars, dmaVars, queueVars
<1>34. CASE FinishClear
   BY <1>34 DEF FinishClear, TypeOK, FlagsOK, DataOK, WakeInv, SessionInv,
       FlagInv, SleepInv, Sleepy, StartPositions, CallPositions,
       WorkerPositions, clientVars, flags, wake, workerVars, dmaVars,
       queueVars
<1>35. CASE FinishReport
   BY <1>35 DEF FinishReport, TypeOK, FlagsOK, DataOK, WakeInv, SessionInv,
       FlagInv, SleepInv, Sleepy, StartPositions, CallPositions,
       WorkerPositions, clientVars, flags, wake, workerVars, dmaVars,
       queueVars
<1>36. CASE DmaPeriod
   BY <1>36 DEF DmaPeriod, TypeOK, FlagsOK, DataOK, WakeInv, SessionInv,
       FlagInv, SleepInv, Sleepy, StartPositions, CallPositions,
       WorkerPositions, NextSlot, clientVars, flags, wake, workerVars,
       dmaVars, queueVars
<1>37. CASE DmaFails
   BY <1>37 DEF DmaFails, TypeOK, FlagsOK, DataOK, WakeInv, SessionInv,
       FlagInv, SleepInv, Sleepy, StartPositions, CallPositions,
       WorkerPositions, clientVars, flags, wake, workerVars, dmaVars,
       queueVars
<1>38. CASE UNCHANGED vars
   BY <1>38 DEF vars, TypeOK, FlagsOK, DataOK, WakeInv, SessionInv, FlagInv,
       SleepInv, Sleepy, StartPositions, CallPositions, WorkerPositions,
       clientVars, flags, wake, workerVars, dmaVars, queueVars
<1> QED
   BY <1>1, <1>2, <1>3, <1>4, <1>5, <1>6, <1>7, <1>8, <1>9, <1>10, <1>11,
       <1>12, <1>13, <1>14, <1>15, <1>16, <1>17, <1>18, <1>19, <1>20, <1>21,
       <1>22, <1>23, <1>24, <1>25, <1>26, <1>27, <1>28, <1>29, <1>30, <1>31,
       <1>32, <1>33, <1>34, <1>35, <1>36, <1>37, <1>38 DEF Next, ClientStep,
       ClientCall, Worker, Dma

(* For every number of buffers, semaphore limit and client: the worker is  *)
(* never left asleep with a stop to finish or a buffer to fill.            *)
THEOREM NeverLosesWakeup == Spec => []NoLostWakeup
<1>1. Init => WakeInv
  BY DEF Init, WakeInv, SessionInv, FlagInv, SleepInv, Sleepy, StartPositions
<1>2. WakeInv => NoLostWakeup
  BY DEF WakeInv, SleepInv, NoLostWakeup, Sleepy
<1>3. QED
  BY <1>1, <1>2, TypeCorrect, WakeStep, PTL DEF Spec

-----------------------------------------------------------------------------
(* Where the buffers are.                                                  *)

(* Each place at which the worker, or a start, holds a buffer excludes the *)
(* others.                                                                 *)
PlaceInv ==
  /\ wpc \in {"wait", "top", "xrun", "report"} => apb = None
  /\ wpc \in {"poll", "claim"} => active = apb
  /\ wpc \in {"deliver", "abort", "abort_mark", "deinit", "return", "report"}
       => active = None
  /\ session = "idle" /\ cpc \notin {"start_ring", "start_run"} => active = None
  /\ completes = 1 => active = None
  /\ cpc = "start_run" => active # None

(* The pause register follows the flag but for the call in progress.       *)
PausedInv ==
  /\ started /\ cpc \notin {"pause_hw", "resume_hw"} => paused = hw_paused
  /\ cpc = "pause_hw" => paused
  /\ cpc = "resume_hw" => ~paused
  /\ cpc = "start_run" => ~hw_paused

LEMMA PlaceStep == TypeOK /\ ApbInv /\ WakeInv /\ PlaceInv /\ [Next]_vars => PlaceInv'
<1> USE DmicAssumption DEF DmicAssumption
<1> SUFFICES ASSUME TypeOK, ApbInv, WakeInv, PlaceInv, [Next]_vars PROVE PlaceInv'
  OBVIOUS
<1>1. CASE KickMark
   BY <1>1 DEF KickMark, TypeOK, DataOK, FlagsOK, ApbInv, WakeInv, SessionInv,
       StartPositions, PlaceInv, clientVars, flags, wake, workerVars, dmaVars,
       queueVars
<1>2. CASE KickPost
   BY <1>2 DEF KickPost, TypeOK, DataOK, FlagsOK, ApbInv, WakeInv, SessionInv,
       StartPositions, PlaceInv, clientVars, flags, wake, workerVars, dmaVars,
       queueVars
<1>3. CASE StartDmaInit
   BY <1>3 DEF StartDmaInit, TypeOK, DataOK, FlagsOK, ApbInv, WakeInv,
       SessionInv, StartPositions, PlaceInv, clientVars, flags, wake,
       workerVars, dmaVars, queueVars
<1>4. CASE StartInitFails
   BY <1>4 DEF StartInitFails, TypeOK, DataOK, FlagsOK, ApbInv, WakeInv,
       SessionInv, StartPositions, PlaceInv, clientVars, flags, wake,
       workerVars, dmaVars, queueVars
<1>5. CASE StartTake
   BY <1>5 DEF StartTake, HeadOrNone, TailOrEmpty, TypeOK, DataOK, FlagsOK,
       ApbInv, WakeInv, SessionInv, StartPositions, PlaceInv, clientVars,
       flags, wake, workerVars, dmaVars, queueVars
<1>6. CASE StartRing
   BY <1>6 DEF StartRing, TypeOK, DataOK, FlagsOK, ApbInv, WakeInv,
       SessionInv, StartPositions, PlaceInv, clientVars, flags, wake,
       workerVars, dmaVars, queueVars
<1>7. CASE StartUndo
   BY <1>7 DEF StartUndo, TypeOK, DataOK, FlagsOK, ApbInv, WakeInv,
       SessionInv, StartPositions, PlaceInv, clientVars, flags, wake,
       workerVars, dmaVars, queueVars
<1>8. CASE StartRun
   BY <1>8 DEF StartRun, TypeOK, DataOK, FlagsOK, ApbInv, WakeInv, SessionInv,
       StartPositions, PlaceInv, clientVars, flags, wake, workerVars, dmaVars,
       queueVars
<1>9. CASE StopHw
   BY <1>9 DEF StopHw, TypeOK, DataOK, FlagsOK, ApbInv, WakeInv, SessionInv,
       StartPositions, PlaceInv, clientVars, flags, wake, workerVars, dmaVars,
       queueVars
<1>10. CASE PauseHw
   BY <1>10 DEF PauseHw, TypeOK, DataOK, FlagsOK, ApbInv, WakeInv, SessionInv,
       StartPositions, PlaceInv, clientVars, flags, wake, workerVars, dmaVars,
       queueVars
<1>11. CASE AllocBuffer
   BY <1>11 DEF AllocBuffer, TypeOK, DataOK, FlagsOK, ApbInv, WakeInv,
       SessionInv, StartPositions, PlaceInv, clientVars, flags, wake,
       workerVars, dmaVars, queueVars
<1>12. CASE FreeBuffer
   BY <1>12 DEF FreeBuffer, TypeOK, DataOK, FlagsOK, ApbInv, WakeInv,
       SessionInv, StartPositions, PlaceInv, clientVars, flags, wake,
       workerVars, dmaVars, queueVars
<1>13. CASE EnqueueBuffer
   BY <1>13 DEF EnqueueBuffer, MayEnqueue, TypeOK, DataOK, FlagsOK, ApbInv,
       WakeInv, SessionInv, StartPositions, PlaceInv, clientVars, flags, wake,
       workerVars, dmaVars, queueVars
<1>14. CASE StartAudio
   BY <1>14 DEF StartAudio, TypeOK, DataOK, FlagsOK, ApbInv, WakeInv,
       SessionInv, StartPositions, PlaceInv, clientVars, flags, wake,
       workerVars, dmaVars, queueVars
<1>15. CASE Stop
   BY <1>15 DEF Stop, StopNothing, TypeOK, DataOK, FlagsOK, ApbInv, WakeInv,
       SessionInv, StartPositions, PlaceInv, clientVars, flags, wake,
       workerVars, dmaVars, queueVars
<1>16. CASE Pause
   BY <1>16 DEF Pause, TypeOK, DataOK, FlagsOK, ApbInv, WakeInv, SessionInv,
       StartPositions, PlaceInv, clientVars, flags, wake, workerVars, dmaVars,
       queueVars
<1>17. CASE Resume
   BY <1>17 DEF Resume, TypeOK, DataOK, FlagsOK, ApbInv, WakeInv, SessionInv,
       StartPositions, PlaceInv, clientVars, flags, wake, workerVars, dmaVars,
       queueVars
<1>18. CASE TakeComplete
   BY <1>18 DEF TakeComplete, TypeOK, DataOK, FlagsOK, ApbInv, WakeInv,
       SessionInv, StartPositions, PlaceInv, clientVars, flags, wake,
       workerVars, dmaVars, queueVars
<1>19. CASE WorkerWake
   BY <1>19 DEF WorkerWake, TypeOK, DataOK, FlagsOK, ApbInv, WakeInv,
       SessionInv, StartPositions, PlaceInv, clientVars, flags, wake,
       workerVars, dmaVars, queueVars
<1>20. CASE TopIdle
   BY <1>20 DEF TopIdle, TypeOK, DataOK, FlagsOK, ApbInv, WakeInv, SessionInv,
       StartPositions, PlaceInv, clientVars, flags, wake, workerVars, dmaVars,
       queueVars
<1>21. CASE TopStopping
   BY <1>21 DEF TopStopping, HeadOrNone, TailOrEmpty, TypeOK, DataOK, FlagsOK,
       ApbInv, WakeInv, SessionInv, StartPositions, PlaceInv, clientVars,
       flags, wake, workerVars, dmaVars, queueVars
<1>22. CASE TopNext
   BY <1>22 DEF TopNext, TypeOK, DataOK, FlagsOK, ApbInv, WakeInv, SessionInv,
       StartPositions, PlaceInv, clientVars, flags, wake, workerVars, dmaVars,
       queueVars
<1>23. CASE TopStarved
   BY <1>23 DEF TopStarved, TypeOK, DataOK, FlagsOK, ApbInv, WakeInv,
       SessionInv, StartPositions, PlaceInv, clientVars, flags, wake,
       workerVars, dmaVars, queueVars
<1>24. CASE NoteXrun
   BY <1>24 DEF NoteXrun, TypeOK, DataOK, FlagsOK, ApbInv, WakeInv,
       SessionInv, StartPositions, PlaceInv, clientVars, flags, wake,
       workerVars, dmaVars, queueVars
<1>25. CASE PollDone
   BY <1>25 DEF PollDone, TypeOK, DataOK, FlagsOK, ApbInv, WakeInv,
       SessionInv, StartPositions, PlaceInv, clientVars, flags, wake,
       workerVars, dmaVars, queueVars
<1>26. CASE PollError
   BY <1>26 DEF PollError, TypeOK, DataOK, FlagsOK, ApbInv, WakeInv,
       SessionInv, StartPositions, PlaceInv, clientVars, flags, wake,
       workerVars, dmaVars, queueVars
<1>27. CASE PollStopped
   BY <1>27 DEF PollStopped, TypeOK, DataOK, FlagsOK, ApbInv, WakeInv,
       SessionInv, StartPositions, PlaceInv, clientVars, flags, wake,
       workerVars, dmaVars, queueVars
<1>28. CASE Claim
   BY <1>28 DEF Claim, TypeOK, DataOK, FlagsOK, ApbInv, WakeInv, SessionInv,
       StartPositions, PlaceInv, clientVars, flags, wake, workerVars, dmaVars,
       queueVars
<1>29. CASE Deliver
   BY <1>29 DEF Deliver, TypeOK, DataOK, FlagsOK, ApbInv, WakeInv, SessionInv,
       StartPositions, PlaceInv, clientVars, flags, wake, workerVars, dmaVars,
       queueVars
<1>30. CASE AbortHw
   BY <1>30 DEF AbortHw, TypeOK, DataOK, FlagsOK, ApbInv, WakeInv, SessionInv,
       StartPositions, PlaceInv, clientVars, flags, wake, workerVars, dmaVars,
       queueVars
<1>31. CASE AbortMark
   BY <1>31 DEF AbortMark, TypeOK, DataOK, FlagsOK, ApbInv, WakeInv,
       SessionInv, StartPositions, PlaceInv, clientVars, flags, wake,
       workerVars, dmaVars, queueVars
<1>32. CASE FinishDeinit
   BY <1>32 DEF FinishDeinit, TypeOK, DataOK, FlagsOK, ApbInv, WakeInv,
       SessionInv, StartPositions, PlaceInv, clientVars, flags, wake,
       workerVars, dmaVars, queueVars
<1>33. CASE FinishReturn
   BY <1>33 DEF FinishReturn, HeadOrNone, TailOrEmpty, TypeOK, DataOK,
       FlagsOK, ApbInv, WakeInv, SessionInv, StartPositions, PlaceInv,
       clientVars, flags, wake, workerVars, dmaVars, queueVars
<1>34. CASE FinishClear
   BY <1>34 DEF FinishClear, TypeOK, DataOK, FlagsOK, ApbInv, WakeInv,
       SessionInv, StartPositions, PlaceInv, clientVars, flags, wake,
       workerVars, dmaVars, queueVars
<1>35. CASE FinishReport
   BY <1>35 DEF FinishReport, TypeOK, DataOK, FlagsOK, ApbInv, WakeInv,
       SessionInv, StartPositions, PlaceInv, clientVars, flags, wake,
       workerVars, dmaVars, queueVars
<1>36. CASE DmaPeriod
   BY <1>36 DEF DmaPeriod, TypeOK, DataOK, FlagsOK, ApbInv, WakeInv,
       SessionInv, StartPositions, PlaceInv, clientVars, flags, wake,
       workerVars, dmaVars, queueVars
<1>37. CASE DmaFails
   BY <1>37 DEF DmaFails, TypeOK, DataOK, FlagsOK, ApbInv, WakeInv,
       SessionInv, StartPositions, PlaceInv, clientVars, flags, wake,
       workerVars, dmaVars, queueVars
<1>38. CASE UNCHANGED vars
   BY <1>38 DEF vars, TypeOK, DataOK, FlagsOK, ApbInv, WakeInv, SessionInv,
       StartPositions, PlaceInv, clientVars, flags, wake, workerVars, dmaVars,
       queueVars
<1> QED
   BY <1>1, <1>2, <1>3, <1>4, <1>5, <1>6, <1>7, <1>8, <1>9, <1>10, <1>11,
       <1>12, <1>13, <1>14, <1>15, <1>16, <1>17, <1>18, <1>19, <1>20, <1>21,
       <1>22, <1>23, <1>24, <1>25, <1>26, <1>27, <1>28, <1>29, <1>30, <1>31,
       <1>32, <1>33, <1>34, <1>35, <1>36, <1>37, <1>38 DEF Next, ClientStep,
       ClientCall, Worker, Dma

LEMMA PausedStep == TypeOK /\ WakeInv /\ PausedInv /\ [Next]_vars => PausedInv'
<1> SUFFICES ASSUME TypeOK, WakeInv, PausedInv, [Next]_vars PROVE PausedInv'
  OBVIOUS
<1>1. CASE KickMark
   BY <1>1 DEF KickMark, TypeOK, FlagsOK, WakeInv, SessionInv, StartPositions,
       PausedInv, clientVars, flags, wake, workerVars, dmaVars, queueVars
<1>2. CASE KickPost
   BY <1>2 DEF KickPost, TypeOK, FlagsOK, WakeInv, SessionInv, StartPositions,
       PausedInv, clientVars, flags, wake, workerVars, dmaVars, queueVars
<1>3. CASE StartDmaInit
   BY <1>3 DEF StartDmaInit, TypeOK, FlagsOK, WakeInv, SessionInv,
       StartPositions, PausedInv, clientVars, flags, wake, workerVars,
       dmaVars, queueVars
<1>4. CASE StartInitFails
   BY <1>4 DEF StartInitFails, TypeOK, FlagsOK, WakeInv, SessionInv,
       StartPositions, PausedInv, clientVars, flags, wake, workerVars,
       dmaVars, queueVars
<1>5. CASE StartTake
   BY <1>5 DEF StartTake, HeadOrNone, TailOrEmpty, TypeOK, FlagsOK, WakeInv,
       SessionInv, StartPositions, PausedInv, clientVars, flags, wake,
       workerVars, dmaVars, queueVars
<1>6. CASE StartRing
   BY <1>6 DEF StartRing, TypeOK, FlagsOK, WakeInv, SessionInv,
       StartPositions, PausedInv, clientVars, flags, wake, workerVars,
       dmaVars, queueVars
<1>7. CASE StartUndo
   BY <1>7 DEF StartUndo, TypeOK, FlagsOK, WakeInv, SessionInv,
       StartPositions, PausedInv, clientVars, flags, wake, workerVars,
       dmaVars, queueVars
<1>8. CASE StartRun
   BY <1>8 DEF StartRun, TypeOK, FlagsOK, WakeInv, SessionInv, StartPositions,
       PausedInv, clientVars, flags, wake, workerVars, dmaVars, queueVars
<1>9. CASE StopHw
   BY <1>9 DEF StopHw, TypeOK, FlagsOK, WakeInv, SessionInv, StartPositions,
       PausedInv, clientVars, flags, wake, workerVars, dmaVars, queueVars
<1>10. CASE PauseHw
   BY <1>10 DEF PauseHw, TypeOK, FlagsOK, WakeInv, SessionInv, StartPositions,
       PausedInv, clientVars, flags, wake, workerVars, dmaVars, queueVars
<1>11. CASE AllocBuffer
   BY <1>11 DEF AllocBuffer, TypeOK, FlagsOK, WakeInv, SessionInv,
       StartPositions, PausedInv, clientVars, flags, wake, workerVars,
       dmaVars, queueVars
<1>12. CASE FreeBuffer
   BY <1>12 DEF FreeBuffer, TypeOK, FlagsOK, WakeInv, SessionInv,
       StartPositions, PausedInv, clientVars, flags, wake, workerVars,
       dmaVars, queueVars
<1>13. CASE EnqueueBuffer
   BY <1>13 DEF EnqueueBuffer, MayEnqueue, TypeOK, FlagsOK, WakeInv,
       SessionInv, StartPositions, PausedInv, clientVars, flags, wake,
       workerVars, dmaVars, queueVars
<1>14. CASE StartAudio
   BY <1>14 DEF StartAudio, TypeOK, FlagsOK, WakeInv, SessionInv,
       StartPositions, PausedInv, clientVars, flags, wake, workerVars,
       dmaVars, queueVars
<1>15. CASE Stop
   BY <1>15 DEF Stop, StopNothing, TypeOK, FlagsOK, WakeInv, SessionInv,
       StartPositions, PausedInv, clientVars, flags, wake, workerVars,
       dmaVars, queueVars
<1>16. CASE Pause
   BY <1>16 DEF Pause, TypeOK, FlagsOK, WakeInv, SessionInv, StartPositions,
       PausedInv, clientVars, flags, wake, workerVars, dmaVars, queueVars
<1>17. CASE Resume
   BY <1>17 DEF Resume, TypeOK, FlagsOK, WakeInv, SessionInv, StartPositions,
       PausedInv, clientVars, flags, wake, workerVars, dmaVars, queueVars
<1>18. CASE TakeComplete
   BY <1>18 DEF TakeComplete, TypeOK, FlagsOK, WakeInv, SessionInv,
       StartPositions, PausedInv, clientVars, flags, wake, workerVars,
       dmaVars, queueVars
<1>19. CASE WorkerWake
   BY <1>19 DEF WorkerWake, TypeOK, FlagsOK, WakeInv, SessionInv,
       StartPositions, PausedInv, clientVars, flags, wake, workerVars,
       dmaVars, queueVars
<1>20. CASE TopIdle
   BY <1>20 DEF TopIdle, TypeOK, FlagsOK, WakeInv, SessionInv, StartPositions,
       PausedInv, clientVars, flags, wake, workerVars, dmaVars, queueVars
<1>21. CASE TopStopping
   BY <1>21 DEF TopStopping, HeadOrNone, TailOrEmpty, TypeOK, FlagsOK,
       WakeInv, SessionInv, StartPositions, PausedInv, clientVars, flags,
       wake, workerVars, dmaVars, queueVars
<1>22. CASE TopNext
   BY <1>22 DEF TopNext, TypeOK, FlagsOK, WakeInv, SessionInv, StartPositions,
       PausedInv, clientVars, flags, wake, workerVars, dmaVars, queueVars
<1>23. CASE TopStarved
   BY <1>23 DEF TopStarved, TypeOK, FlagsOK, WakeInv, SessionInv,
       StartPositions, PausedInv, clientVars, flags, wake, workerVars,
       dmaVars, queueVars
<1>24. CASE NoteXrun
   BY <1>24 DEF NoteXrun, TypeOK, FlagsOK, WakeInv, SessionInv,
       StartPositions, PausedInv, clientVars, flags, wake, workerVars,
       dmaVars, queueVars
<1>25. CASE PollDone
   BY <1>25 DEF PollDone, TypeOK, FlagsOK, WakeInv, SessionInv,
       StartPositions, PausedInv, clientVars, flags, wake, workerVars,
       dmaVars, queueVars
<1>26. CASE PollError
   BY <1>26 DEF PollError, TypeOK, FlagsOK, WakeInv, SessionInv,
       StartPositions, PausedInv, clientVars, flags, wake, workerVars,
       dmaVars, queueVars
<1>27. CASE PollStopped
   BY <1>27 DEF PollStopped, TypeOK, FlagsOK, WakeInv, SessionInv,
       StartPositions, PausedInv, clientVars, flags, wake, workerVars,
       dmaVars, queueVars
<1>28. CASE Claim
   BY <1>28 DEF Claim, TypeOK, FlagsOK, WakeInv, SessionInv, StartPositions,
       PausedInv, clientVars, flags, wake, workerVars, dmaVars, queueVars
<1>29. CASE Deliver
   BY <1>29 DEF Deliver, TypeOK, FlagsOK, WakeInv, SessionInv, StartPositions,
       PausedInv, clientVars, flags, wake, workerVars, dmaVars, queueVars
<1>30. CASE AbortHw
   BY <1>30 DEF AbortHw, TypeOK, FlagsOK, WakeInv, SessionInv, StartPositions,
       PausedInv, clientVars, flags, wake, workerVars, dmaVars, queueVars
<1>31. CASE AbortMark
   BY <1>31 DEF AbortMark, TypeOK, FlagsOK, WakeInv, SessionInv,
       StartPositions, PausedInv, clientVars, flags, wake, workerVars,
       dmaVars, queueVars
<1>32. CASE FinishDeinit
   BY <1>32 DEF FinishDeinit, TypeOK, FlagsOK, WakeInv, SessionInv,
       StartPositions, PausedInv, clientVars, flags, wake, workerVars,
       dmaVars, queueVars
<1>33. CASE FinishReturn
   BY <1>33 DEF FinishReturn, HeadOrNone, TailOrEmpty, TypeOK, FlagsOK,
       WakeInv, SessionInv, StartPositions, PausedInv, clientVars, flags,
       wake, workerVars, dmaVars, queueVars
<1>34. CASE FinishClear
   BY <1>34 DEF FinishClear, TypeOK, FlagsOK, WakeInv, SessionInv,
       StartPositions, PausedInv, clientVars, flags, wake, workerVars,
       dmaVars, queueVars
<1>35. CASE FinishReport
   BY <1>35 DEF FinishReport, TypeOK, FlagsOK, WakeInv, SessionInv,
       StartPositions, PausedInv, clientVars, flags, wake, workerVars,
       dmaVars, queueVars
<1>36. CASE DmaPeriod
   BY <1>36 DEF DmaPeriod, TypeOK, FlagsOK, WakeInv, SessionInv,
       StartPositions, PausedInv, clientVars, flags, wake, workerVars,
       dmaVars, queueVars
<1>37. CASE DmaFails
   BY <1>37 DEF DmaFails, TypeOK, FlagsOK, WakeInv, SessionInv,
       StartPositions, PausedInv, clientVars, flags, wake, workerVars,
       dmaVars, queueVars
<1>38. CASE UNCHANGED vars
   BY <1>38 DEF vars, TypeOK, FlagsOK, WakeInv, SessionInv, StartPositions,
       PausedInv, clientVars, flags, wake, workerVars, dmaVars, queueVars
<1> QED
   BY <1>1, <1>2, <1>3, <1>4, <1>5, <1>6, <1>7, <1>8, <1>9, <1>10, <1>11,
       <1>12, <1>13, <1>14, <1>15, <1>16, <1>17, <1>18, <1>19, <1>20, <1>21,
       <1>22, <1>23, <1>24, <1>25, <1>26, <1>27, <1>28, <1>29, <1>30, <1>31,
       <1>32, <1>33, <1>34, <1>35, <1>36, <1>37, <1>38 DEF Next, ClientStep,
       ClientCall, Worker, Dma

(* A capturing stream is paused in hardware exactly when the driver says   *)
(* so, whatever stops, errors and restarts came before (pause, resume,     *)
(* start_dma).                                                             *)
THEOREM PauseIsReal == Spec => []PauseAgrees
<1>1. Init => WakeInv /\ PausedInv
  BY DEF Init, WakeInv, SessionInv, FlagInv, SleepInv, Sleepy, StartPositions, PausedInv
<1>2. PausedInv => PauseAgrees
  BY DEF PausedInv, PauseAgrees
<1>3. QED
  BY <1>1, <1>2, TypeCorrect, WakeStep, PausedStep, PTL DEF Spec
-----------------------------------------------------------------------------
(* Queues in which no buffer occurs twice.                                 *)

InjectiveQ(q) == \A i, j \in DOMAIN q : q[i] = q[j] => i = j

LEMMA ElemsEmpty == Elems(<<>>) = {} /\ InjectiveQ(<<>>)
BY DEF Elems, InjectiveQ

LEMMA ElemsAppend ==
  ASSUME NEW S, NEW q \in Seq(S), NEW e \in S
  PROVE  /\ Elems(Append(q, e)) = Elems(q) \cup {e}
         /\ InjectiveQ(q) /\ e \notin Elems(q) => InjectiveQ(Append(q, e))
<1>1. /\ DOMAIN Append(q, e) = 1 .. Len(q) + 1
      /\ \A i \in 1 .. Len(q) : Append(q, e)[i] = q[i]
      /\ Append(q, e)[Len(q) + 1] = e
      /\ DOMAIN q = 1 .. Len(q) /\ Len(q) \in Nat
  BY AppendProperties, LenProperties
<1>2. 1 .. Len(q) + 1 = (1 .. Len(q)) \cup {Len(q) + 1}
  BY <1>1
<1>3. QED
  BY <1>1, <1>2 DEF Elems, InjectiveQ

(* Taking the first element off, and putting it back.                      *)
LEMMA ElemsHeadTail ==
  ASSUME NEW S, NEW q \in Seq(S), q # <<>>
  PROVE  /\ Elems(q) = {Head(q)} \cup Elems(Tail(q))
         /\ InjectiveQ(q) => InjectiveQ(Tail(q)) /\ Head(q) \notin Elems(Tail(q))
<1>1. /\ DOMAIN q = 1 .. Len(q) /\ Len(q) \in Nat /\ Len(q) > 0
      /\ DOMAIN Tail(q) = 1 .. Len(q) - 1
      /\ \A i \in 1 .. Len(q) - 1 : Tail(q)[i] = q[i + 1]
      /\ Head(q) = q[1]
  BY LenProperties, HeadTailProperties, EmptySeq
<1>2. Elems(q) \subseteq {Head(q)} \cup Elems(Tail(q))
  <2> SUFFICES ASSUME NEW i \in 1 .. Len(q), i # 1
               PROVE  q[i] \in Elems(Tail(q))
    BY <1>1 DEF Elems
  <2>1. i - 1 \in 1 .. Len(q) - 1 /\ Tail(q)[i - 1] = q[i]
    BY <1>1
  <2>2. QED
    BY <1>1, <2>1 DEF Elems
<1>3. {Head(q)} \cup Elems(Tail(q)) \subseteq Elems(q)
  BY <1>1 DEF Elems
<1>4. QED
  BY <1>1, <1>2, <1>3 DEF Elems, InjectiveQ

LEMMA ElemsCons ==
  ASSUME NEW S, NEW q \in Seq(S), NEW e \in S
  PROVE  /\ Elems(<<e>> \o q) = {e} \cup Elems(q)
         /\ InjectiveQ(q) /\ e \notin Elems(q) => InjectiveQ(<<e>> \o q)
         /\ <<e>> \o q \in Seq(S) /\ <<e>> \o q # <<>>
         /\ Head(<<e>> \o q) = e /\ Tail(<<e>> \o q) = q
         /\ \A d \in S : Append(<<e>> \o q, d) = <<e>> \o Append(q, d)
<1>1. /\ <<e>> \o q \in Seq(S)
      /\ DOMAIN (<<e>> \o q) = 1 .. Len(q) + 1 /\ Len(<<e>> \o q) = Len(q) + 1
      /\ (<<e>> \o q)[1] = e
      /\ \A i \in 2 .. Len(q) + 1 : (<<e>> \o q)[i] = q[i - 1]
      /\ DOMAIN q = 1 .. Len(q) /\ Len(q) \in Nat
  BY ConcatProperties, LenProperties
<1>2. <<e>> \o q # <<>> /\ Head(<<e>> \o q) = e
  BY <1>1
<1>3. Tail(<<e>> \o q) = q
  <2>1. /\ Tail(<<e>> \o q) \in Seq(S) /\ Len(Tail(<<e>> \o q)) = Len(q)
        /\ \A i \in 1 .. Len(q) : Tail(<<e>> \o q)[i] = q[i]
    BY <1>1, <1>2, HeadTailProperties
  <2>2. QED
    BY <2>1, SeqEqual
<1>4. Elems(<<e>> \o q) = {e} \cup Elems(q)
  BY <1>1, <1>2, <1>3, ElemsHeadTail
<1>5. InjectiveQ(q) /\ e \notin Elems(q) => InjectiveQ(<<e>> \o q)
  <2> SUFFICES ASSUME InjectiveQ(q), e \notin Elems(q),
                      NEW i \in 1 .. Len(q) + 1, NEW j \in 1 .. Len(q) + 1,
                      (<<e>> \o q)[i] = (<<e>> \o q)[j]
               PROVE  i = j
    BY <1>1 DEF InjectiveQ
  <2>1. CASE i # 1 /\ j # 1
    <3>1. i - 1 \in DOMAIN q /\ j - 1 \in DOMAIN q /\ q[i - 1] = q[j - 1]
      BY <1>1, <2>1
    <3>2. i - 1 = j - 1
      BY <3>1 DEF InjectiveQ
    <3>3. QED
      BY <3>2
  <2>2. CASE i # 1 /\ j = 1
    <3>1. i - 1 \in DOMAIN q /\ q[i - 1] = e
      BY <1>1, <2>2
    <3>2. QED
      BY <3>1 DEF Elems
  <2>3. CASE i = 1 /\ j # 1
    <3>1. j - 1 \in DOMAIN q /\ q[j - 1] = e
      BY <1>1, <2>3
    <3>2. QED
      BY <3>1 DEF Elems
  <2>4. QED
    BY <2>1, <2>2, <2>3
<1>6. ASSUME NEW d \in S PROVE Append(<<e>> \o q, d) = <<e>> \o Append(q, d)
  <2>1. /\ Append(<<e>> \o q, d) \in Seq(S)
        /\ Len(Append(<<e>> \o q, d)) = Len(q) + 2
        /\ \A i \in 1 .. Len(q) + 1 : Append(<<e>> \o q, d)[i] = (<<e>> \o q)[i]
        /\ Append(<<e>> \o q, d)[Len(q) + 2] = d
    BY <1>1, AppendProperties
  <2>2. /\ Append(q, d) \in Seq(S) /\ Len(Append(q, d)) = Len(q) + 1
        /\ \A i \in 1 .. Len(q) : Append(q, d)[i] = q[i]
        /\ Append(q, d)[Len(q) + 1] = d
    BY AppendProperties
  <2>3. /\ <<e>> \o Append(q, d) \in Seq(S)
        /\ Len(<<e>> \o Append(q, d)) = Len(q) + 2
        /\ (<<e>> \o Append(q, d))[1] = e
        /\ \A i \in 2 .. Len(q) + 2 : (<<e>> \o Append(q, d))[i] = Append(q, d)[i - 1]
    BY <1>1, <2>2, ConcatProperties
  <2>4. ASSUME NEW i \in 1 .. Len(q) + 2
        PROVE  Append(<<e>> \o q, d)[i] = (<<e>> \o Append(q, d))[i]
    BY <1>1, <2>1, <2>2, <2>3
  <2>5. QED
    BY <2>1, <2>3, <2>4, SeqEqual
<1>7. QED
  BY <1>1, <1>2, <1>3, <1>4, <1>5, <1>6

-----------------------------------------------------------------------------
(* Every buffer in one place.                                              *)

InHand == {active, apb} \ {None}   (* where the driver holds one by name   *)

OnceInv ==
  /\ InjectiveQ(held) /\ InjectiveQ(pendq)
  /\ Elems(held) \cap Elems(pendq) = {}
  /\ InHand \cap (Elems(held) \cup Elems(pendq)) = {}
  /\ live = Elems(held) \cup Elems(pendq) \cup InHand

(* Only a client outside the contract finds the queue filled again after   *)
(* finish has emptied it.                                                  *)
EmptiedInv ==
  /\ wpc \in {"deinit", "return"} /\ apb = None => pendq = <<>>
  /\ wpc = "report" /\ client # "late" => pendq = <<>>

(* The actions that pass a buffer on; the others leave it where it is.     *)
Moves ==
  \/ AllocBuffer \/ FreeBuffer \/ EnqueueBuffer \/ StartTake \/ StartUndo
  \/ TopStopping \/ TopNext \/ TopStarved \/ Claim \/ Deliver \/ FinishReturn
  \/ FinishReport

Still == UNCHANGED <<held, pendq, active, apb, live, alloc_index>>

LEMMA MovesOrStill == [Next]_vars => Moves \/ Still
<1> SUFFICES ASSUME [Next]_vars, ~Moves PROVE Still
  OBVIOUS
<1> USE DEF Still, clientVars, flags, wake, workerVars, dmaVars, queueVars
<1>1. CASE UNCHANGED vars
  BY <1>1 DEF vars
<1>2. CASE ClientStep
  BY <1>2 DEF Moves, ClientStep, KickMark, KickPost, StartDmaInit, StartInitFails,
     StartRing, StartRun, StopHw, PauseHw
<1>3. CASE ClientCall \/ TakeComplete
  BY <1>3 DEF Moves, ClientCall, TakeComplete, StartAudio, Stop, Pause, Resume
<1>4. CASE Worker
  BY <1>4 DEF Moves, Worker, WorkerWake, TopIdle, NoteXrun, PollDone, PollError,
     PollStopped, AbortHw, AbortMark, FinishDeinit, FinishClear
<1>5. CASE Dma
  BY <1>5 DEF Dma, DmaPeriod, DmaFails
<1>6. QED
  BY <1>1, <1>2, <1>3, <1>4, <1>5 DEF Next

PlacesInv == TypeOK /\ ApbInv /\ WakeInv /\ PlaceInv

(* What the sequence lemmas say of the two queues.                         *)
QueueFacts ==
  /\ held \in Seq(Buffers) /\ pendq \in Seq(Buffers)
  /\ None \notin Buffers
  /\ \A e \in Buffers :
       /\ Elems(Append(held, e)) = Elems(held) \cup {e}
       /\ Elems(Append(pendq, e)) = Elems(pendq) \cup {e}
       /\ Elems(<<e>> \o pendq) = {e} \cup Elems(pendq)
       /\ e \notin Elems(held) => InjectiveQ(Append(held, e))
       /\ e \notin Elems(pendq) => /\ InjectiveQ(Append(pendq, e))
                                   /\ InjectiveQ(<<e>> \o pendq)
  /\ held # <<>> => /\ Head(held) \in Buffers
                    /\ Elems(held) = {Head(held)} \cup Elems(Tail(held))
                    /\ Head(held) \notin Elems(Tail(held))
                    /\ InjectiveQ(Tail(held))
  /\ pendq # <<>> => /\ Head(pendq) \in Buffers
                     /\ Elems(pendq) = {Head(pendq)} \cup Elems(Tail(pendq))
                     /\ Head(pendq) \notin Elems(Tail(pendq))
                     /\ InjectiveQ(Tail(pendq))

LEMMA QueuesBehave ==
  ASSUME DataOK, OnceInv
  PROVE  QueueFacts
<1>1. held \in Seq(Buffers) /\ pendq \in Seq(Buffers) /\ None \notin Buffers
  BY DmicAssumption DEF DmicAssumption, DataOK, Buffers
<1>2. InjectiveQ(held) /\ InjectiveQ(pendq)
  BY DEF OnceInv
<1>3. QED
  BY <1>1, <1>2, ElemsAppend, ElemsHeadTail, ElemsCons, HeadTailType DEF QueueFacts

LEMMA OnceStep == PlacesInv /\ OnceInv /\ [Next]_vars => OnceInv'
<1> USE DEF workerVars, clientVars, queueVars
<1> SUFFICES ASSUME PlacesInv, OnceInv, [Next]_vars PROVE OnceInv'
  OBVIOUS
<1>a. DataOK /\ ApbInv /\ PlaceInv /\ SessionInv
  BY DEF PlacesInv, TypeOK, WakeInv
<1>q. QueueFacts
  BY <1>a, QueuesBehave
<1>1. CASE AllocBuffer
  <2>1. alloc_index \in Buffers /\ alloc_index \notin live
    BY <1>1, <1>a, DmicAssumption DEF DmicAssumption, AllocBuffer, DataOK, Buffers
  <2>2. /\ held' = Append(held, alloc_index) /\ live' = live \cup {alloc_index}
        /\ pendq' = pendq /\ InHand' = InHand
    BY <1>1 DEF AllocBuffer, InHand
  <2>3. Elems(held') = Elems(held) \cup {alloc_index} /\ InjectiveQ(held')
    BY <1>q, <2>1, <2>2 DEF QueueFacts, OnceInv
  <2>4. QED
    BY <2>1, <2>2, <2>3 DEF OnceInv
<1>2. CASE FreeBuffer
  BY <1>2, <1>q DEF QueueFacts, FreeBuffer, OnceInv, InHand
<1>3. CASE EnqueueBuffer
  <2>1. /\ held # <<>> /\ held' = Tail(held) /\ pendq' = Append(pendq, Head(held))
        /\ live' = live /\ InHand' = InHand
    BY <1>3 DEF EnqueueBuffer, MayEnqueue, InHand
  <2>2. /\ Elems(held) = {Head(held)} \cup Elems(held')
        /\ Head(held) \notin Elems(held') /\ InjectiveQ(held')
    BY <1>q, <2>1 DEF QueueFacts
  <2>3. Elems(pendq') = Elems(pendq) \cup {Head(held)} /\ InjectiveQ(pendq')
    BY <1>q, <2>1, <2>2 DEF QueueFacts, OnceInv
  <2>4. QED
    BY <2>1, <2>2, <2>3 DEF OnceInv
<1>4. CASE StartTake
  BY <1>4, <1>a, <1>q DEF QueueFacts, StartTake, HeadOrNone, TailOrEmpty, OnceInv,
     InHand, SessionInv, PlaceInv, StartPositions
<1>5. CASE StartUndo
  <2>1. active # None => active \in Buffers
    BY <1>a DEF DataOK, Slots
  <2>2. apb = None
    BY <1>5, <1>a DEF StartUndo, SessionInv, StartPositions, PlaceInv
  <2>3. QED
    <3>1. CASE active = None
      BY <1>5, <3>1 DEF StartUndo, OnceInv, InHand
    <3>2. CASE active # None
      <4>1. /\ pendq' = <<active>> \o pendq /\ InHand = {active} /\ InHand' = {}
            /\ held' = held /\ live' = live
        BY <1>5, <2>2, <3>2 DEF StartUndo, InHand
      <4>2. Elems(pendq') = {active} \cup Elems(pendq) /\ InjectiveQ(pendq')
        BY <1>q, <2>1, <3>2, <4>1 DEF QueueFacts, OnceInv
      <4>3. QED
        BY <4>1, <4>2 DEF OnceInv
    <3>3. QED
      BY <3>1, <3>2
<1>6. CASE TopStopping
  <2>1. apb = None /\ active' = None /\ held' = held /\ live' = live
    BY <1>6, <1>a DEF TopStopping, PlaceInv
  <2>2. CASE active # None
    BY <1>6, <2>1, <2>2 DEF TopStopping, OnceInv, InHand
  <2>3. CASE active = None /\ pendq = <<>>
    BY <1>6, <2>1, <2>3 DEF TopStopping, HeadOrNone, TailOrEmpty, OnceInv, InHand
  <2>4. CASE active = None /\ pendq # <<>>
    <3>1. pendq' = Tail(pendq) /\ InHand = {} /\ InHand' = {Head(pendq)}
      BY <1>6, <1>q, <2>1, <2>4
      DEF QueueFacts, TopStopping, HeadOrNone, TailOrEmpty, InHand
    <3>2. QED
      BY <1>q, <2>1, <2>4, <3>1 DEF QueueFacts, OnceInv
  <2>5. QED
    BY <2>2, <2>3, <2>4
<1>7. CASE TopNext
  BY <1>7, <1>a, <1>q DEF QueueFacts, TopNext, OnceInv, InHand, PlaceInv
<1>8. CASE TopStarved
  BY <1>8, <1>a DEF TopStarved, wake, clientVars, queueVars, OnceInv, InHand, PlaceInv
<1>9. CASE Claim
  BY <1>9, <1>a DEF Claim, clientVars, OnceInv, InHand, PlaceInv
<1>10. CASE Deliver
  <2>1. apb \in Buffers /\ active = None
    BY <1>10, <1>a DEF Deliver, ApbInv, DataOK, Slots, PlaceInv
  <2>2. QED
    BY <1>10, <1>q, <2>1 DEF QueueFacts, Deliver, queueVars, OnceInv, InHand
<1>11. CASE FinishReturn
  <2>1. apb \in Buffers /\ active = None
    BY <1>11, <1>a DEF FinishReturn, DataOK, Slots, PlaceInv
  <2>2. QED
    <3>1. /\ held' = Append(held, apb) /\ live' = live /\ InHand = {apb}
          /\ apb \notin Elems(held)
      BY <1>11, <1>q, <2>1 DEF QueueFacts, FinishReturn, OnceInv, InHand
    <3>2. Elems(held') = Elems(held) \cup {apb} /\ InjectiveQ(held')
      BY <1>q, <2>1, <3>1 DEF QueueFacts, OnceInv
    <3>3. CASE pendq = <<>>
      BY <1>11, <2>1, <3>1, <3>2, <3>3
      DEF FinishReturn, HeadOrNone, TailOrEmpty, OnceInv, InHand
    <3>4. CASE pendq # <<>>
      <4>1. pendq' = Tail(pendq) /\ InHand' = {Head(pendq)}
        BY <1>11, <1>q, <2>1, <3>4
        DEF QueueFacts, FinishReturn, HeadOrNone, TailOrEmpty, InHand
      <4>2. /\ Elems(pendq) = {Head(pendq)} \cup Elems(pendq')
            /\ Head(pendq) \notin Elems(pendq') /\ InjectiveQ(pendq')
        BY <1>q, <3>4, <4>1 DEF QueueFacts
      <4>3. QED
        BY <3>1, <3>2, <4>1, <4>2 DEF OnceInv
    <3>5. QED
      BY <3>3, <3>4
<1>12. CASE FinishReport
  BY <1>12, <1>a DEF FinishReport, queueVars, OnceInv, InHand, PlaceInv
<1>13. CASE Still
  BY <1>13 DEF Still, OnceInv, InHand
<1>14. QED
  BY <1>1, <1>2, <1>3, <1>4, <1>5, <1>6, <1>7, <1>8, <1>9, <1>10, <1>11, <1>12,
     <1>13, MovesOrStill DEF Moves

LEMMA PlacesInit == Init => PlacesInv /\ OnceInv /\ EmptiedInv
<1> SUFFICES ASSUME Init PROVE PlacesInv /\ OnceInv /\ EmptiedInv
  OBVIOUS
<1>1. FlagsOK
  BY DEF Init, FlagsOK
<1>2. DataOK /\ ApbInv
  BY DmicAssumption DEF DmicAssumption, Init, DataOK, ApbInv, Buffers, Slots,
     CallPositions, WorkerPositions
<1>3. WakeInv
  BY DEF Init, WakeInv, SessionInv, FlagInv, SleepInv, Sleepy, StartPositions
<1>4. PlaceInv /\ EmptiedInv
  BY DEF Init, PlaceInv, EmptiedInv
<1>5. OnceInv
  BY ElemsEmpty DEF Init, OnceInv, InHand
<1>6. QED
  BY <1>1, <1>2, <1>3, <1>4, <1>5 DEF PlacesInv, TypeOK

LEMMA PlacesStep == PlacesInv /\ [Next]_vars => PlacesInv'
BY FlagsStep, DataStep, WakeStep, PlaceStep DEF PlacesInv, TypeOK

LEMMA PlacesHold == Spec => [](PlacesInv /\ OnceInv)
BY PlacesInit, PlacesStep, OnceStep, PTL DEF Spec

(* Whatever stops, errors and failed starts: an allocated buffer is with   *)
(* the client, in the queue or with the worker, and in one place of one of *)
(* them only (enqueuebuffer, worker, complete, finish).                    *)
THEOREM LosesNoBuffer == Spec => []NoLostBuffer
<1>1. ASSUME PlacesInv, OnceInv PROVE NoLostBuffer
  <2>1. wpc \in {"poll", "claim"} => active = apb
    BY <1>1 DEF PlacesInv, PlaceInv
  <2>2. InWorker = InHand
    BY <1>1, <2>1 DEF InWorker, InHand
  <2>3. ASSUME NEW b \in live,
               NEW x \in {<<"held", i>> : i \in Copies(b, held)} \cup
                         {<<"pend", i>> : i \in Copies(b, pendq)} \cup
                         (IF b \in InWorker THEN {<<"work", 0>>} ELSE {}),
               NEW y \in {<<"held", i>> : i \in Copies(b, held)} \cup
                         {<<"pend", i>> : i \in Copies(b, pendq)} \cup
                         (IF b \in InWorker THEN {<<"work", 0>>} ELSE {})
        PROVE  x = y
    <3>1. /\ \A i, j \in Copies(b, held) : i = j
          /\ \A i, j \in Copies(b, pendq) : i = j
      BY <1>1 DEF OnceInv, InjectiveQ, Copies
    <3>2. /\ \A i \in Copies(b, held) : b \in Elems(held)
          /\ \A i \in Copies(b, pendq) : b \in Elems(pendq)
      BY DEF Elems, Copies
    <3>3. /\ b \in Elems(held) => b \notin Elems(pendq) /\ b \notin InWorker
          /\ b \in Elems(pendq) => b \notin InWorker
      BY <1>1, <2>2 DEF OnceInv
    <3>4. QED
      BY <2>3, <3>1, <3>2, <3>3
  <2>4. live = Elems(held) \cup Elems(pendq) \cup InWorker
    BY <1>1, <2>2 DEF OnceInv
  <2>5. QED
    BY <2>1, <2>3, <2>4 DEF NoLostBuffer
<1>2. QED
  BY <1>1, PlacesHold, PTL

-----------------------------------------------------------------------------
(* The capture contract.                                                   *)

LEMMA EmptiedStep == PlacesInv /\ EmptiedInv /\ [Next]_vars => EmptiedInv'
<1> SUFFICES ASSUME PlacesInv, EmptiedInv, [Next]_vars PROVE EmptiedInv'
  OBVIOUS
<1>a. DataOK /\ ApbInv /\ PlaceInv /\ SessionInv
  BY DEF PlacesInv, TypeOK, WakeInv
<1>b. None \notin Buffers /\ (pendq # <<>> => Head(pendq) \in Buffers)
  BY <1>a, HeadTailType, DmicAssumption DEF DmicAssumption, DataOK, Buffers
<1> USE <1>a DEF clientVars, flags, wake, workerVars, dmaVars, queueVars, SessionInv,
    StartPositions
<1>1. CASE EnqueueBuffer
  BY <1>1 DEF EnqueueBuffer, MayEnqueue, EmptiedInv
<1>2. CASE StartTake \/ StartUndo
  BY <1>2 DEF StartTake, StartUndo, EmptiedInv
<1>3. CASE TopStopping
  BY <1>3, <1>b DEF TopStopping, HeadOrNone, TailOrEmpty, EmptiedInv
<1>4. CASE TopNext \/ TopStarved
  BY <1>4 DEF TopNext, TopStarved, EmptiedInv
<1>5. CASE Claim
  BY <1>5 DEF Claim, ApbInv, EmptiedInv
<1>6. CASE Deliver
  BY <1>6 DEF Deliver, EmptiedInv
<1>7. CASE FinishReturn
  BY <1>7, <1>b DEF FinishReturn, HeadOrNone, TailOrEmpty, EmptiedInv
<1>8. CASE FinishReport
  BY <1>8 DEF FinishReport, EmptiedInv
<1>9. CASE AbortMark
  BY <1>9 DEF AbortMark, ApbInv, EmptiedInv
<1>10. CASE FinishDeinit
  BY <1>10 DEF FinishDeinit, EmptiedInv
<1>11. CASE FinishClear
  BY <1>11 DEF FinishClear, EmptiedInv
<1>12. CASE WorkerWake \/ TopIdle \/ NoteXrun \/ PollDone \/ PollError \/ PollStopped
            \/ AbortHw
  BY <1>12 DEF WorkerWake, TopIdle, NoteXrun, PollDone, PollError, PollStopped, AbortHw,
     EmptiedInv
<1>13. CASE AllocBuffer \/ FreeBuffer \/ StartAudio \/ Stop \/ Pause \/ Resume
  BY <1>13 DEF AllocBuffer, FreeBuffer, StartAudio, Stop, Pause, Resume, EmptiedInv
<1>14. CASE TakeComplete \/ Dma \/ UNCHANGED vars
  BY <1>14 DEF TakeComplete, Dma, DmaPeriod, DmaFails, vars, EmptiedInv
<1>15. CASE KickMark \/ KickPost \/ StartDmaInit \/ StartInitFails \/ StartRing
            \/ StartRun \/ StopHw \/ PauseHw
  BY <1>15 DEF KickMark, KickPost, StartDmaInit, StartInitFails, StartRing, StartRun,
     StopHw, PauseHw, EmptiedInv
<1>16. QED
  BY <1>1, <1>2, <1>3, <1>4, <1>5, <1>6, <1>7, <1>8, <1>9, <1>10, <1>11, <1>12,
     <1>13, <1>14, <1>15 DEF Next, ClientStep, ClientCall, Worker, Dma

(* The buffers the contract counts as the driver's, before and after each  *)
(* action that passes one on.                                              *)
LEMMA OwnedNow ==
  ASSUME DataOK
  PROVE  /\ active = None /\ apb = None => Owned = pendq
         /\ active # None => Owned = <<active>> \o pendq
         /\ active = None /\ apb # None => Owned = <<apb>> \o pendq
BY ConcatEmptySeq DEF Owned, DataOK

LEMMA OwnedNext ==
  ASSUME DataOK'
  PROVE  /\ active' = None /\ apb' = None => Owned' = pendq'
         /\ active' # None => Owned' = <<active'>> \o pendq'
         /\ active' = None /\ apb' # None => Owned' = <<apb'>> \o pendq'
BY ConcatEmptySeq DEF Owned, DataOK

(* Taking the head of the queue in hand leaves the contract's queue alone. *)
LEMMA TakeInHand ==
  ASSUME NEW q \in Seq(Buffers), q # <<>>
  PROVE  /\ <<Head(q)>> \o Tail(q) = q
         /\ Head(q) \in Buffers /\ Head(q) # None /\ Tail(q) \in Seq(Buffers)
<1>1. Head(q) \in Buffers /\ Tail(q) \in Seq(Buffers)
  BY HeadTailType
<1>2. None \notin Buffers
  BY DmicAssumption DEF DmicAssumption, Buffers
<1>3. /\ Len(Tail(q)) = Len(q) - 1 /\ Len(q) \in Nat /\ Len(q) > 0
      /\ \A i \in 1 .. Len(q) - 1 : Tail(q)[i] = q[i + 1]
      /\ Head(q) = q[1]
  BY LenProperties, HeadTailProperties, EmptySeq
<1>4. /\ <<Head(q)>> \o Tail(q) \in Seq(Buffers)
      /\ Len(<<Head(q)>> \o Tail(q)) = Len(q)
      /\ (<<Head(q)>> \o Tail(q))[1] = Head(q)
      /\ \A i \in 2 .. Len(q) : (<<Head(q)>> \o Tail(q))[i] = Tail(q)[i - 1]
  BY <1>1, <1>3, ConcatProperties
<1>5. ASSUME NEW i \in 1 .. Len(q) PROVE (<<Head(q)>> \o Tail(q))[i] = q[i]
  BY <1>3, <1>4
<1>6. <<Head(q)>> \o Tail(q) = q
  BY <1>3, <1>4, <1>5, SeqEqual
<1>7. QED
  BY <1>1, <1>2, <1>6

ContractInv == PlacesInv /\ OnceInv /\ EmptiedInv

(* What each action does to the contract's two queues.                     *)
OwnedMoves ==
  \/ AllocBuffer /\ Owned' = Owned
  \/ FreeBuffer /\ Owned' = Owned
  \/ EnqueueBuffer /\ Owned' = Append(Owned, Head(held))
  \/ /\ Deliver \/ FinishReturn
     /\ Owned # <<>> /\ held' = Append(held, Head(Owned)) /\ Owned' = Tail(Owned)
  \/ ~Deliver /\ ~FinishReturn /\ held' = held /\ live' = live /\ Owned' = Owned

LEMMA OwnedStep ==
  ASSUME ContractInv, ContractInv', [Next]_vars
  PROVE  OwnedMoves
<1>a. /\ DataOK /\ DataOK' /\ ApbInv /\ PlaceInv /\ PlaceInv' /\ SessionInv /\ OnceInv
      /\ None \notin Buffers
  BY DmicAssumption DEF DmicAssumption, Buffers, ContractInv, PlacesInv, TypeOK, WakeInv
<1>h. Deliver \/ FinishReturn => held' # held
  <2>1. ASSUME NEW e PROVE Append(held, e) # held
    <3>1. held \in Seq(Buffers) /\ Len(held) \in Nat
      BY <1>a DEF DataOK
    <3>2. Len(Append(held, e)) = Len(held) + 1
      BY <3>1
    <3>3. QED
      BY <3>1, <3>2
  <2>2. QED
    BY <2>1 DEF Deliver, FinishReturn
<1>s. ASSUME held' = held, Owned' = Owned, live' = live
      PROVE  OwnedMoves
  BY <1>h, <1>s DEF OwnedMoves
<1>1. CASE AllocBuffer \/ FreeBuffer
  BY <1>1 DEF OwnedMoves, AllocBuffer, FreeBuffer, Owned, workerVars
<1>3. CASE EnqueueBuffer
  <2>1. /\ held # <<>> /\ pendq' = Append(pendq, Head(held))
        /\ active' = active /\ apb' = apb
    BY <1>3 DEF EnqueueBuffer, MayEnqueue, workerVars
  <2>2. Head(held) \in Buffers /\ pendq \in Seq(Buffers)
    BY <1>a, <2>1, HeadTailType DEF DataOK
  <2>3. Owned' = Append(Owned, Head(held))
    <3>1. CASE active = None /\ apb = None
      BY <1>a, <2>1, <3>1, OwnedNow, OwnedNext
    <3>2. CASE active # None
      <4>1. active \in Buffers
        BY <1>a, <3>2 DEF DataOK, Slots
      <4>2. Append(<<active>> \o pendq, Head(held)) = <<active>> \o Append(pendq, Head(held))
        BY <2>2, <4>1, ElemsCons
      <4>3. QED
        BY <1>a, <2>1, <3>2, <4>2, OwnedNow, OwnedNext
    <3>3. CASE active = None /\ apb # None
      <4>1. apb \in Buffers
        BY <1>a, <3>3 DEF DataOK, Slots
      <4>2. Append(<<apb>> \o pendq, Head(held)) = <<apb>> \o Append(pendq, Head(held))
        BY <2>2, <4>1, ElemsCons
      <4>3. QED
        BY <1>a, <2>1, <3>3, <4>2, OwnedNow, OwnedNext
    <3>4. QED
      BY <3>1, <3>2, <3>3
  <2>4. QED
    BY <1>3, <2>3 DEF OwnedMoves
<1>4. CASE StartTake
  <2>1. /\ active = None /\ apb = None /\ apb' = None
        /\ active' = HeadOrNone(pendq) /\ pendq' = TailOrEmpty(pendq)
        /\ held' = held /\ live' = live
    BY <1>4, <1>a DEF StartTake, SessionInv, StartPositions, PlaceInv, workerVars
  <2>2. Owned' = Owned
    BY <1>a, <2>1, OwnedNow, OwnedNext, TakeInHand DEF DataOK, HeadOrNone, TailOrEmpty
  <2>3. QED
    BY <1>s, <2>1, <2>2
<1>5. CASE StartUndo
  <2>1. /\ apb = None /\ apb' = None /\ active' = None
        /\ pendq' = (IF active = None THEN pendq ELSE <<active>> \o pendq)
        /\ held' = held /\ live' = live
    BY <1>5, <1>a DEF StartUndo, SessionInv, StartPositions, PlaceInv, workerVars
  <2>2. Owned' = Owned
    BY <1>a, <2>1, OwnedNow, OwnedNext
  <2>3. QED
    BY <1>s, <2>1, <2>2
<1>6. CASE TopStopping
  <2>1. /\ apb = None /\ active' = None
        /\ IF active # None
             THEN apb' = active /\ pendq' = pendq
             ELSE apb' = HeadOrNone(pendq) /\ pendq' = TailOrEmpty(pendq)
        /\ held' = held /\ live' = live
    BY <1>6, <1>a DEF TopStopping, PlaceInv, clientVars
  <2>2. Owned' = Owned
    BY <1>a, <2>1, OwnedNow, OwnedNext, TakeInHand DEF DataOK, HeadOrNone, TailOrEmpty
  <2>3. QED
    BY <1>s, <2>1, <2>2
<1>7. CASE TopNext
  <2>1. /\ apb = None /\ active' # None
        /\ active' = (IF active # None THEN active ELSE Head(pendq))
        /\ pendq' = (IF active # None THEN pendq ELSE Tail(pendq))
        /\ active # None \/ pendq # <<>>
        /\ held' = held /\ live' = live
    BY <1>7, <1>a, TakeInHand DEF TopNext, PlaceInv, clientVars, DataOK
  <2>2. Owned' = Owned
    BY <1>a, <2>1, OwnedNow, OwnedNext, TakeInHand DEF DataOK
  <2>3. QED
    BY <1>s, <2>1, <2>2
<1>8. CASE TopStarved \/ FinishReport
  <2>1. apb = None /\ apb' = None /\ UNCHANGED <<active, pendq, held, live>>
    BY <1>8, <1>a DEF TopStarved, FinishReport, PlaceInv, clientVars, queueVars
  <2>2. Owned' = Owned
    BY <2>1 DEF Owned
  <2>3. QED
    BY <1>s, <2>1, <2>2
<1>9. CASE Claim
  <2>1. /\ apb # None /\ active = apb /\ active' = None
        /\ UNCHANGED <<apb, pendq, held, live>>
    BY <1>9, <1>a DEF Claim, PlaceInv, ApbInv, clientVars
  <2>2. Owned' = Owned
    BY <1>a, <2>1, OwnedNow, OwnedNext
  <2>3. QED
    BY <1>s, <2>1, <2>2
<1>10. CASE Deliver \/ FinishReturn
  <2>1. /\ apb # None /\ active = None /\ active' = None /\ held' = Append(held, apb)
        /\ \/ apb' = None /\ pendq' = pendq
           \/ apb' = HeadOrNone(pendq) /\ pendq' = TailOrEmpty(pendq)
    BY <1>10, <1>a DEF Deliver, FinishReturn, PlaceInv, ApbInv, queueVars
  <2>2. Owned = <<apb>> \o pendq
    BY <1>a, <2>1, OwnedNow
  <2>3. Owned' = pendq
    BY <1>a, <2>1, OwnedNext, TakeInHand DEF DataOK, HeadOrNone, TailOrEmpty
  <2>4. Owned # <<>> /\ Head(Owned) = apb /\ Tail(Owned) = pendq
    <3>1. apb \in Buffers /\ pendq \in Seq(Buffers)
      BY <1>a, <2>1 DEF DataOK, Slots
    <3>2. QED
      BY <2>2, <3>1, ElemsCons
  <2>5. QED
    BY <1>10, <2>1, <2>3, <2>4 DEF OwnedMoves
<1>11. CASE Still
  BY <1>11, <1>s DEF Still, Owned
<1>12. QED
  BY <1>1, <1>3, <1>4, <1>5, <1>6, <1>7, <1>8, <1>9, <1>10, <1>11, MovesOrStill DEF Moves

(* Every step of the driver is a step of the contract or leaves its        *)
(* variables unchanged.                                                    *)
LEMMA ContractStep ==
  ASSUME ContractInv, ContractInv', [Next]_vars
  PROVE  [Contract!Next]_(Contract!vars)
<1>a. DataOK /\ ApbInv /\ PlaceInv /\ SessionInv /\ OnceInv /\ EmptiedInv
  BY DEF ContractInv, PlacesInv, TypeOK, WakeInv
<1>1. CASE AllocBuffer /\ Owned' = Owned
  <2>1. alloc_index \in Buffers /\ alloc_index \notin live
    BY <1>1, <1>a, DmicAssumption DEF DmicAssumption, AllocBuffer, DataOK, Buffers
  <2>2. active = None /\ apb = None /\ Owned = pendq
    BY <1>1, <1>a, OwnedNow DEF AllocBuffer, SessionInv, PlaceInv
  <2>3. alloc_index \notin Elems(held) \cup Elems(pendq)
    BY <1>a, <2>1 DEF OnceInv
  <2>4. Contract!Elements(held) = Elems(held) /\ Contract!Elements(Owned) = Elems(pendq)
    BY <2>2 DEF Contract!Elements, Elems
  <2>5. Contract!Allocate
    BY <1>1, <2>1, <2>3, <2>4 DEF Contract!Allocate, AllocBuffer
  <2>6. QED
    BY <2>5 DEF Contract!Next
<1>2. CASE FreeBuffer /\ Owned' = Owned
  BY <1>2 DEF Contract!Next, Contract!Free, FreeBuffer
<1>3. CASE EnqueueBuffer /\ Owned' = Append(Owned, Head(held))
  BY <1>3 DEF Contract!Next, Contract!Enqueue, EnqueueBuffer, MayEnqueue
<1>4. CASE /\ Deliver \/ FinishReturn
           /\ Owned # <<>> /\ held' = Append(held, Head(Owned)) /\ Owned' = Tail(Owned)
  BY <1>4, <1>a DEF Contract!Next, Contract!Dequeue, Deliver, FinishReturn, SessionInv
<1>5. CASE ~Deliver /\ ~FinishReturn /\ held' = held /\ live' = live /\ Owned' = Owned
  <2>1. CASE FinishReport
    <3>1. /\ active = None /\ apb = None /\ completes = 0 /\ completes' = 1
          /\ session # "idle"
          /\ client = "late" \/ pendq = <<>>
          /\ UNCHANGED <<session, client>>
      BY <2>1, <1>a DEF FinishReport, PlaceInv, SessionInv, EmptiedInv
    <3>2. Owned = pendq
      BY <1>a, <3>1, OwnedNow
    <3>3. Contract!Complete
      BY <1>5, <3>1, <3>2 DEF Contract!Complete
    <3>4. QED
      BY <3>3 DEF Contract!Next
  <2>2. CASE StartRun
    <3>1. /\ session = "idle" /\ completes = 0 /\ session' = "run" /\ active # None
          /\ UNCHANGED <<completes, client>>
      BY <2>2, <1>a DEF StartRun, SessionInv, StartPositions, PlaceInv
    <3>2. Owned # <<>>
      BY <1>a, <3>1, OwnedNow, ElemsCons DEF DataOK, Slots
    <3>3. Contract!Start
      BY <1>5, <3>1, <3>2 DEF Contract!Start
    <3>4. QED
      BY <3>3 DEF Contract!Next
  <2>3. CASE Stop
    BY <1>5, <2>3 DEF Contract!Next, Contract!Stop, Stop
  <2>4. CASE TakeComplete
    <3>1. completes = 1 /\ completes' = 0 /\ session' = "idle" /\ client' = client
      BY <2>4, <1>a DEF TakeComplete, SessionInv
    <3>2. QED
      BY <1>5, <3>1 DEF Contract!Next, Contract!End
  <2>5. ASSUME ~FinishReport, ~StartRun, ~Stop, ~TakeComplete
        PROVE  UNCHANGED <<session, completes, client>>
    <3> USE DEF clientVars, flags, wake, workerVars, dmaVars, queueVars
    <3>1. CASE ClientStep
      BY <2>5, <3>1 DEF ClientStep, KickMark, KickPost, StartDmaInit,
         StartInitFails, StartTake, StartRing, StartUndo, StopHw, PauseHw
    <3>2. CASE ClientCall
      BY <2>5, <3>2 DEF ClientCall, AllocBuffer, FreeBuffer, EnqueueBuffer,
         StartAudio, Pause, Resume
    <3>3. CASE Worker
      BY <1>5, <2>5, <3>3 DEF Worker, WorkerWake, TopIdle, TopStopping, TopNext,
         TopStarved, NoteXrun, PollDone, PollError, PollStopped, Claim, AbortHw,
         AbortMark, FinishDeinit, FinishClear
    <3>4. CASE Dma \/ UNCHANGED vars
      BY <3>4 DEF Dma, DmaPeriod, DmaFails, vars
    <3>5. QED
      BY <2>5, <3>1, <3>2, <3>3, <3>4 DEF Next
  <2>6. QED
    BY <1>5, <2>1, <2>2, <2>3, <2>4, <2>5 DEF Contract!vars
<1>6. QED
  BY <1>1, <1>2, <1>3, <1>4, <1>5, OwnedStep DEF OwnedMoves

(* The driver implements the capture contract, for every number of         *)
(* buffers: they come back in the order they were given, only during a     *)
(* session, and all of them before COMPLETE, unless the client enqueues in *)
(* that very window (enqueuebuffer, start, worker, finish).                *)
THEOREM ImplementsContract == Spec => KeepsContract
<1>1. Init => Contract!Init
  <2>1. Init => Owned = <<>>
    BY ConcatEmptySeq, EmptySeq DEF Init, Owned
  <2>2. QED
    BY <2>1 DEF Init, Contract!Init
<1>2. ContractInv /\ ContractInv' /\ [Next]_vars => [Contract!Next]_(Contract!vars)
  BY ContractStep
<1>3. Spec => []ContractInv
  BY PlacesInit, PlacesStep, OnceStep, EmptiedStep, PTL DEF Spec, ContractInv
<1>4. QED
  BY <1>1, <1>2, <1>3, PTL DEF Spec, KeepsContract, Contract!Spec
-----------------------------------------------------------------------------
(* The queue and the ring in step.                                         *)

(* What is on between start and the end of a session, and where the worker *)
(* cannot be while the channel runs.                                       *)
ChannelInv ==
  /\ running => /\ session # "idle" \/ cpc = "start_run"
                /\ completes = 0 /\ dma_ready
                /\ wpc \notin {"abort_mark", "return", "report"}
  /\ started => dma_ready /\ (running \/ wpc = "abort_mark")
  /\ cpc \in {"start_take", "start_ring", "start_run"} => dma_ready
  /\ cpc = "start_run" => running
  /\ cpc = "stop_hw" => ~started

LEMMA ChannelStep == WakeInv /\ ChannelInv /\ [Next]_vars => ChannelInv'
<1> SUFFICES ASSUME WakeInv, ChannelInv, [Next]_vars PROVE ChannelInv'
  OBVIOUS
<1> USE DEF WakeInv, SessionInv, ChannelInv, StartPositions, clientVars, flags, wake,
    workerVars, dmaVars, queueVars
<1>1. CASE KickMark \/ KickPost
  BY <1>1 DEF KickMark, KickPost
<1>2. CASE StartDmaInit \/ StartInitFails \/ StartTake
  BY <1>2 DEF StartDmaInit, StartInitFails, StartTake
<1>3. CASE StartRing
  BY <1>3 DEF StartRing
<1>4. CASE StartUndo
  BY <1>4 DEF StartUndo
<1>5. CASE StartRun
  BY <1>5 DEF StartRun
<1>6. CASE StopHw \/ PauseHw
  BY <1>6 DEF StopHw, PauseHw
<1>7. CASE AllocBuffer \/ FreeBuffer \/ EnqueueBuffer
  BY <1>7 DEF AllocBuffer, FreeBuffer, EnqueueBuffer, MayEnqueue
<1>8. CASE StartAudio \/ Stop \/ Pause \/ Resume
  BY <1>8 DEF StartAudio, Stop, Pause, Resume
<1>9. CASE TakeComplete
  BY <1>9 DEF TakeComplete
<1>10. CASE WorkerWake \/ TopIdle \/ TopStopping \/ TopNext \/ TopStarved \/ NoteXrun
  BY <1>10 DEF WorkerWake, TopIdle, TopStopping, TopNext, TopStarved, NoteXrun
<1>11. CASE PollDone \/ PollError \/ PollStopped \/ Claim \/ Deliver
  BY <1>11 DEF PollDone, PollError, PollStopped, Claim, Deliver
<1>12. CASE AbortHw \/ AbortMark
  BY <1>12 DEF AbortHw, AbortMark
<1>13. CASE FinishDeinit \/ FinishReturn \/ FinishClear \/ FinishReport
  <2>1. CASE FinishDeinit
    BY <2>1 DEF FinishDeinit
  <2>2. CASE FinishReturn \/ FinishClear
    BY <2>2 DEF FinishReturn, FinishClear
  <2>3. CASE FinishReport
    BY <2>3 DEF FinishReport
  <2>4. QED
    BY <1>13, <2>1, <2>2, <2>3
<1>14. CASE Dma \/ UNCHANGED vars
  BY <1>14 DEF Dma, DmaPeriod, DmaFails, vars
<1>15. QED
  BY <1>1, <1>2, <1>3, <1>4, <1>5, <1>6, <1>7, <1>8, <1>9, <1>10, <1>11, <1>12,
     <1>13, <1>14 DEF Next, ClientStep, ClientCall, Worker

(* alloc_index counts the allocated buffers: at its limit all are.         *)
CountInv == IsFiniteSet(live) /\ Cardinality(live) = alloc_index

LEMMA CountStep == PlacesInv /\ OnceInv /\ CountInv /\ [Next]_vars => CountInv'
<1> SUFFICES ASSUME PlacesInv, OnceInv, CountInv, [Next]_vars PROVE CountInv'
  OBVIOUS
<1>a. DataOK /\ QueueFacts
  BY QueuesBehave DEF PlacesInv, TypeOK
<1>1. CASE AllocBuffer
  <2>1. alloc_index \notin live /\ live' = live \cup {alloc_index}
        /\ alloc_index' = alloc_index + 1
    BY <1>1, <1>a DEF AllocBuffer, DataOK
  <2>2. QED
    BY <2>1, FS_AddElement DEF CountInv
<1>2. CASE FreeBuffer
  <2>1. Head(held) \in live /\ live' = live \ {Head(held)}
    BY <1>2, <1>a DEF FreeBuffer, QueueFacts, OnceInv
  <2>2. Cardinality(live') = Cardinality(live) - 1 /\ IsFiniteSet(live')
    BY <2>1, FS_RemoveElement DEF CountInv
  <2>3. alloc_index \in Nat /\ Cardinality(live') \in Nat
    BY <1>a, <2>2, FS_CardinalityType DEF DataOK
  <2>4. alloc_index' = alloc_index - 1
    BY <1>2, <2>2, <2>3 DEF FreeBuffer, CountInv
  <2>5. QED
    BY <2>2, <2>4 DEF CountInv
<1>3. CASE ~AllocBuffer /\ ~FreeBuffer
  <2>1. live' = live /\ alloc_index' = alloc_index
    <3>1. CASE Still
      BY <3>1 DEF Still
    <3>2. CASE EnqueueBuffer \/ StartTake \/ StartUndo \/ TopStopping \/ TopNext
               \/ TopStarved \/ Claim \/ Deliver \/ FinishReturn \/ FinishReport
      BY <3>2 DEF EnqueueBuffer, StartTake, StartUndo, TopStopping, TopNext, TopStarved,
         Claim, Deliver, FinishReturn, FinishReport, clientVars, queueVars
    <3>3. QED
      BY <1>3, <3>1, <3>2, MovesOrStill DEF Moves
  <2>2. QED
    BY <2>1 DEF CountInv
<1>4. QED
  BY <1>1, <1>2, <1>3

LEMMA AllAllocated ==
  ASSUME DataOK, CountInv, alloc_index = BufferCount
  PROVE  live = Buffers
<1>1. IsFiniteSet(Buffers) /\ Cardinality(Buffers) = BufferCount
  <2>1. BufferCount \in Nat /\ BufferCount > 0
    BY DmicAssumption DEF DmicAssumption
  <2>2. QED
    BY <2>1, FS_Interval DEF Buffers
<1>2. live \subseteq Buffers
  BY DEF DataOK
<1>3. QED
  BY <1>1, <1>2, FS_Subset DEF CountInv

(* The slots in ring order: each buffer of q but the last is followed by   *)
(* its successor; in a full round also the last, by the first.             *)
Chained(q) == \A i \in 1 .. Len(q) - 1 : q[i + 1] = NextSlot(q[i])
Round(q) == \A i \in 1 .. Len(q) : NextSlot(q[i]) = q[IF i = Len(q) THEN 1 ELSE i + 1]

LEMMA NextSlotOnce ==
  /\ \A a \in Buffers : NextSlot(a) \in Buffers
                        /\ NextSlot(a) = (IF a = BufferCount - 1 THEN 0 ELSE a + 1)
  /\ \A a, b \in Buffers : NextSlot(a) = NextSlot(b) => a = b
<1>1. ASSUME NEW a \in Buffers
      PROVE  NextSlot(a) = (IF a = BufferCount - 1 THEN 0 ELSE a + 1)
  <2>1. BufferCount \in Nat \ {0} /\ a \in 0 .. BufferCount - 1
    BY DmicAssumption DEF DmicAssumption, Buffers
  <2>2. (a + 1) % BufferCount = (IF a + 1 < BufferCount THEN a + 1 ELSE a + 1 - BufferCount)
    BY <2>1
  <2>3. QED
    BY <2>1, <2>2 DEF NextSlot
<1>2. BufferCount \in Nat \ {0}
  BY DmicAssumption DEF DmicAssumption
<1>3. QED
  BY <1>1, <1>2 DEF Buffers

(* The elements of two queues one behind the other, ...                    *)
LEMMA JoinedSlots ==
  ASSUME NEW p \in Seq(Buffers), NEW q \in Seq(Buffers)
  PROVE  /\ p \o q \in Seq(Buffers) /\ Len(p \o q) = Len(p) + Len(q)
         /\ Len(p) \in Nat /\ Len(q) \in Nat
         /\ \A i \in 1 .. Len(p) : (p \o q)[i] = p[i] /\ p[i] \in Buffers
         /\ \A i \in 1 .. Len(q) : (p \o q)[Len(p) + i] = q[i] /\ q[i] \in Buffers
<1>1. /\ p \o q \in Seq(Buffers) /\ Len(p \o q) = Len(p) + Len(q)
      /\ Len(p) \in Nat /\ Len(q) \in Nat
  BY ConcatProperties, LenProperties
<1>2. \A i \in 1 .. Len(p) + Len(q) : (p \o q)[i] = IF i <= Len(p) THEN p[i] ELSE q[i - Len(p)]
  BY ConcatProperties
<1>3. ASSUME NEW i \in 1 .. Len(q) PROVE (p \o q)[Len(p) + i] = q[i]
  BY <1>1, <1>2
<1>4. (\A i \in 1 .. Len(p) : p[i] \in Buffers) /\ (\A i \in 1 .. Len(q) : q[i] \in Buffers)
  BY ElementOfSeq
<1>5. QED
  BY <1>1, <1>2, <1>3, <1>4

(* ... which a buffer handed over at the join leaves alone ...             *)
LEMMA JoinMoves ==
  ASSUME NEW p \in Seq(Buffers), NEW q \in Seq(Buffers), q # <<>>
  PROVE  Append(p, Head(q)) \o Tail(q) = p \o q
<1>1. /\ Head(q) = q[1] /\ Head(q) \in Buffers /\ Tail(q) \in Seq(Buffers)
      /\ Len(q) \in Nat /\ Len(q) > 0 /\ Len(Tail(q)) = Len(q) - 1
      /\ \A i \in 1 .. Len(q) - 1 : Tail(q)[i] = q[i + 1]
  BY LenProperties, HeadTailProperties, EmptySeq
<1>2. /\ Append(p, Head(q)) \in Seq(Buffers) /\ Len(Append(p, Head(q))) = Len(p) + 1
      /\ \A i \in 1 .. Len(p) : Append(p, Head(q))[i] = p[i]
      /\ Append(p, Head(q))[Len(p) + 1] = Head(q)
  BY <1>1, AppendProperties
<1>3. /\ p \o q \in Seq(Buffers) /\ Len(p \o q) = Len(p) + Len(q) /\ Len(p) \in Nat
      /\ \A i \in 1 .. Len(p) + Len(q) : (p \o q)[i] = IF i <= Len(p) THEN p[i] ELSE q[i - Len(p)]
  BY ConcatProperties, LenProperties
<1>4. /\ Append(p, Head(q)) \o Tail(q) \in Seq(Buffers)
      /\ Len(Append(p, Head(q)) \o Tail(q)) = Len(p) + Len(q)
      /\ \A i \in 1 .. Len(p) + Len(q) : (Append(p, Head(q)) \o Tail(q))[i]
           = IF i <= Len(p) + 1 THEN Append(p, Head(q))[i] ELSE Tail(q)[i - (Len(p) + 1)]
  BY <1>1, <1>2, <1>3, ConcatProperties
<1>5. ASSUME NEW i \in 1 .. Len(p) + Len(q)
      PROVE  (Append(p, Head(q)) \o Tail(q))[i] = (p \o q)[i]
  <2>1. CASE i <= Len(p)
    BY <1>2, <1>3, <1>4, <2>1
  <2>2. CASE i = Len(p) + 1
    BY <1>1, <1>2, <1>3, <1>4, <2>2
  <2>3. CASE i > Len(p) + 1
    <3>1. /\ i - (Len(p) + 1) \in 1 .. Len(q) - 1
          /\ (i - (Len(p) + 1)) + 1 = i - Len(p)
      BY <1>1, <1>3, <2>3
    <3>2. Tail(q)[i - (Len(p) + 1)] = q[i - Len(p)]
      BY <1>1, <3>1
    <3>3. QED
      BY <1>3, <1>4, <2>3, <3>2
  <2>4. QED
    BY <1>3, <2>1, <2>2, <2>3
<1>6. QED
  BY <1>3, <1>4, <1>5, SeqEqual

(* ... and one handed back turns by one place.                             *)
LEMMA RoundTurns ==
  ASSUME NEW p \in Seq(Buffers), NEW q \in Seq(Buffers), p # <<>>, Round(p \o q)
  PROVE  Round(Tail(p) \o Append(q, Head(p)))
<1> DEFINE old == p \o q
           new == Tail(p) \o Append(q, Head(p))
           n == Len(p) + Len(q)
<1>1. /\ Head(p) = p[1] /\ Head(p) \in Buffers /\ Tail(p) \in Seq(Buffers)
      /\ Len(p) \in Nat /\ Len(p) > 0 /\ Len(Tail(p)) = Len(p) - 1
      /\ \A i \in 1 .. Len(p) - 1 : Tail(p)[i] = p[i + 1]
  BY LenProperties, HeadTailProperties, EmptySeq
<1>2. /\ Append(q, Head(p)) \in Seq(Buffers) /\ Len(Append(q, Head(p))) = Len(q) + 1
      /\ \A i \in 1 .. Len(q) : Append(q, Head(p))[i] = q[i]
      /\ Append(q, Head(p))[Len(q) + 1] = Head(p) /\ Len(q) \in Nat
  BY <1>1, AppendProperties, LenProperties
<1>3. /\ Len(old) = n /\ n \in Nat /\ n > 0
      /\ \A i \in 1 .. n : old[i] = IF i <= Len(p) THEN p[i] ELSE q[i - Len(p)]
  BY <1>1, <1>2, ConcatProperties
<1>4. /\ Len(new) = n
      /\ \A i \in 1 .. n : new[i] = IF i <= Len(p) - 1 THEN Tail(p)[i]
                                    ELSE Append(q, Head(p))[i - (Len(p) - 1)]
  <2> DEFINE b == Append(q, Head(p))
  <2>1. /\ Len(new) = Len(Tail(p)) + Len(b)
        /\ \A i \in 1 .. Len(Tail(p)) + Len(b) : new[i]
             = IF i <= Len(Tail(p)) THEN Tail(p)[i] ELSE b[i - Len(Tail(p))]
    BY <1>1, <1>2, ConcatProperties
  <2>2. Len(Tail(p)) + Len(b) = n /\ Len(Tail(p)) = Len(p) - 1
    BY <1>1, <1>2
  <2>3. QED
    BY <2>1, <2>2
<1>5. ASSUME NEW i \in 1 .. n PROVE new[i] = old[IF i = n THEN 1 ELSE i + 1]
  <2>1. CASE i <= Len(p) - 1
    BY <1>1, <1>2, <1>3, <1>4, <2>1
  <2>2. CASE i > Len(p) - 1 /\ i < n
    <3>1. i - (Len(p) - 1) \in 1 .. Len(q) /\ i - (Len(p) - 1) = (i + 1) - Len(p)
      BY <1>1, <1>2, <2>2
    <3>2. new[i] = q[(i + 1) - Len(p)]
      BY <1>1, <1>2, <1>4, <2>2, <3>1
    <3>3. old[i + 1] = q[(i + 1) - Len(p)]
      BY <1>1, <1>2, <1>3, <2>2
    <3>4. QED
      BY <1>3, <2>2, <3>2, <3>3
  <2>3. CASE i = n
    <3>1. i - (Len(p) - 1) = Len(q) + 1 /\ ~(i <= Len(p) - 1)
      BY <1>1, <1>2, <2>3
    <3>2. QED
      BY <1>1, <1>2, <1>3, <1>4, <2>3, <3>1
  <2>4. QED
    BY <1>1, <1>2, <2>1, <2>2, <2>3
<1>6. ASSUME NEW i \in 1 .. n
      PROVE  NextSlot(new[i]) = new[IF i = n THEN 1 ELSE i + 1]
  <2> DEFINE j == IF i = n THEN 1 ELSE i + 1
  <2>1. j \in 1 .. n /\ new[i] = old[j]
    BY <1>3, <1>5
  <2>2. NextSlot(old[j]) = old[IF j = n THEN 1 ELSE j + 1]
    BY <1>3, <2>1 DEF Round
  <2>3. new[j] = old[IF j = n THEN 1 ELSE j + 1]
    BY <1>5, <2>1
  <2>4. QED
    BY <2>1, <2>2, <2>3
<1>7. QED
  BY <1>4, <1>6 DEF Round

Placed(q) == \A i \in 1 .. Len(q) : q[i] = i - 1   (* in slot order from 0  *)

(* Queued from slot 0 with the rest in order behind: a full round.         *)
LEMMA PlacedRound ==
  ASSUME NEW p \in Seq(Buffers), NEW q \in Seq(Buffers), p # <<>>, Placed(p),
         Chained(q), Elems(p) \cap Elems(q) = {}, Elems(p) \cup Elems(q) = Buffers
  PROVE  Round(p \o q)
<1> DEFINE k == Len(p)
           m == Len(q)
<1>1. /\ k \in Nat /\ k > 0 /\ m \in Nat /\ BufferCount \in Nat \ {0}
      /\ Len(p \o q) = k + m
      /\ \A i \in 1 .. k : (p \o q)[i] = i - 1 /\ p[i] = i - 1 /\ i - 1 \in Buffers
                           /\ i - 1 \notin Elems(q)
      /\ \A i \in 1 .. m : (p \o q)[k + i] = q[i] /\ q[i] \in Buffers
      /\ \A b \in Elems(p) : \E i \in 1 .. k : b = p[i]
      /\ \A b \in Elems(q) : \E i \in 1 .. m : b = q[i]
      /\ \A i \in 1 .. m : q[i] \in Elems(q)
  <2>1. /\ k \in Nat /\ k > 0 /\ m \in Nat /\ BufferCount \in Nat \ {0}
        /\ DOMAIN q = 1 .. m /\ DOMAIN p = 1 .. k
    BY LenProperties, EmptySeq, DmicAssumption DEF DmicAssumption
  <2>2. /\ \A i \in 1 .. k : (p \o q)[i] = p[i] /\ p[i] \in Buffers
        /\ \A i \in 1 .. m : (p \o q)[k + i] = q[i] /\ q[i] \in Buffers
        /\ Len(p \o q) = k + m
    BY JoinedSlots
  <2>3. /\ \A i \in 1 .. k : p[i] \in Elems(p)
        /\ \A i \in 1 .. m : q[i] \in Elems(q)
        /\ \A b \in Elems(p) : \E i \in 1 .. k : b = p[i]
        /\ \A b \in Elems(q) : \E i \in 1 .. m : b = q[i]
    BY <2>1 DEF Elems
  <2>4. QED
    BY <2>1, <2>2, <2>3 DEF Placed
<1>2. k - 1 \in Buffers /\ k <= BufferCount /\ 0 \in Buffers /\ BufferCount - 1 \in Buffers
  <2>1. k \in 1 .. k
    BY <1>1
  <2>2. QED
    BY <1>1, <2>1 DEF Buffers
<1>n. k \in Nat /\ k > 0 /\ m \in Nat /\ BufferCount \in Nat \ {0}
  BY <1>1
<1>3. ASSUME NEW b \in Buffers, b >= k PROVE b \in Elems(q)
  <2>1. ASSUME b \in Elems(p) PROVE FALSE
    <3>1. PICK i \in 1 .. k : b = p[i] /\ p[i] = i - 1
      BY <1>1, <2>1
    <3>2. QED
      BY <1>3, <1>n, <3>1
  <2>2. QED
    BY <2>1
<1>4. m > 0 => k < BufferCount /\ q[1] = k /\ q[m] = BufferCount - 1
  <2> SUFFICES ASSUME m > 0 PROVE k < BufferCount /\ q[1] = k /\ q[m] = BufferCount - 1
    OBVIOUS
  <2>1. k < BufferCount
    <3>1. q[1] \in Elems(q) /\ q[1] \in Buffers
      BY <1>1
    <3>2. q[1] + 1 \notin 1 .. k
      BY <1>1, <3>1 DEF Buffers
    <3>3. QED
      BY <1>1, <1>2, <3>1, <3>2 DEF Buffers
  <2>2. k \in Buffers /\ NextSlot(k - 1) = k
    <3>1. k \in Buffers /\ k - 1 # BufferCount - 1 /\ (k - 1) + 1 = k
      BY <1>n, <2>1 DEF Buffers
    <3>2. QED
      BY <1>2, <3>1, NextSlotOnce
  <2>3. q[1] = k
    <3>1. PICK j \in 1 .. m : q[j] = k
      <4>1. k \in Elems(q)
        BY <1>3, <1>n, <2>2
      <4>2. QED
        BY <1>1, <4>1
    <3>2. ASSUME j # 1 PROVE FALSE
      <4>1. j - 1 \in 1 .. m - 1 /\ j - 1 \in 1 .. m /\ (j - 1) + 1 = j
        BY <1>1, <3>2
      <4>2. q[j] = NextSlot(q[j - 1]) /\ q[j - 1] \in Buffers /\ q[j - 1] \in Elems(q)
        BY <1>1, <4>1 DEF Chained
      <4>3. q[j - 1] = k - 1
        BY <1>2, <2>2, <3>1, <4>2, NextSlotOnce
      <4>4. QED
        BY <1>1, <4>2, <4>3, k \in 1 .. k
    <3>3. QED
      BY <3>1, <3>2
  <2>4. q[m] = BufferCount - 1
    <3>1. PICK j \in 1 .. m : q[j] = BufferCount - 1
      BY <1>1, <1>2, <1>3, <2>1
    <3>2. ASSUME j # m PROVE FALSE
      <4>0. j \in 1 .. m - 1 /\ j + 1 \in 1 .. m
        BY <1>1, <3>2
      <4>1. q[j + 1] = NextSlot(q[j]) /\ q[j + 1] \in Elems(q)
        BY <1>1, <4>0 DEF Chained
      <4>2. q[j + 1] = 0
        BY <1>2, <3>1, <4>1, NextSlotOnce
      <4>3. 1 \in 1 .. k /\ 1 - 1 = 0
        BY <1>1
      <4>4. QED
        BY <1>1, <4>1, <4>2, <4>3
    <3>3. QED
      BY <3>1, <3>2
  <2>5. QED
    BY <2>1, <2>3, <2>4
<1>5. m = 0 => k = BufferCount
  <2>1. ASSUME m = 0, k # BufferCount PROVE FALSE
    <3>1. BufferCount - 1 >= k
      BY <1>n, <1>2, <2>1
    <3>2. BufferCount - 1 \in Elems(q)
      BY <1>2, <1>3, <3>1
    <3>3. PICK i \in 1 .. m : TRUE
      BY <1>1, <3>2
    <3>4. QED
      BY <1>n, <2>1, <3>3
  <2>2. QED
    BY <2>1
<1>6. ASSUME NEW i \in 1 .. k + m
      PROVE  NextSlot((p \o q)[i]) = (p \o q)[IF i = k + m THEN 1 ELSE i + 1]
  <2>1. (p \o q)[1] = 0
    BY <1>1
  <2>2. CASE i < k
    <3>1. /\ i \in 1 .. k /\ i + 1 \in 1 .. k /\ i # k + m /\ (i - 1) + 1 = i
          /\ (i + 1) - 1 = i /\ i - 1 # BufferCount - 1
      BY <1>n, <1>2, <2>2
    <3>2. /\ (p \o q)[i] = i - 1 /\ (p \o q)[i + 1] = i /\ i - 1 \in Buffers
      BY <1>1, <3>1
    <3>3. QED
      BY <3>1, <3>2, NextSlotOnce
  <2>3. CASE i = k /\ m = 0
    BY <1>1, <1>2, <1>5, <2>1, <2>3, NextSlotOnce
  <2>4. CASE i = k /\ m > 0
    <3>1. (p \o q)[k] = k - 1 /\ (p \o q)[k + 1] = k
      BY <1>1, <1>4, <2>4
    <3>2. NextSlot(k - 1) = k
      BY <1>1, <1>2, <1>4, <2>4, NextSlotOnce
    <3>3. QED
      BY <1>1, <2>4, <3>1, <3>2, i # k + m
  <2>5. CASE i > k /\ i < k + m
    <3>1. PICK j \in 1 .. m - 1 : i = k + j /\ i + 1 = k + (j + 1) /\ j + 1 \in 1 .. m
      <4>1. /\ i - k \in 1 .. m - 1 /\ i = k + (i - k) /\ i + 1 = k + ((i - k) + 1)
            /\ (i - k) + 1 \in 1 .. m
        BY <1>1, <2>5
      <4>2. QED
        BY <4>1
    <3>2. (p \o q)[i] = q[j] /\ (p \o q)[i + 1] = q[j + 1]
      BY <1>1, <3>1
    <3>3. QED
      BY <1>1, <2>5, <3>1, <3>2 DEF Chained
  <2>6. CASE i > k /\ i = k + m
    <3>1. (p \o q)[i] = BufferCount - 1
      BY <1>1, <1>4, <2>6
    <3>2. QED
      BY <1>2, <2>1, <2>6, <3>1, NextSlotOnce
  <2>7. \/ i < k \/ (i = k /\ m = 0) \/ (i = k /\ m > 0)
        \/ (i > k /\ i < k + m) \/ (i > k /\ i = k + m)
    BY <1>n
  <2>8. QED
    BY <2>2, <2>3, <2>4, <2>5, <2>6, <2>7
<1>7. QED
  BY <1>1, <1>6 DEF Round

(* A buffer allocated after all lower slots continues the client's chain.  *)
LEMMA AllocChains ==
  ASSUME NEW p \in Seq(Buffers), NEW q \in Seq(Buffers), NEW a \in Buffers, Placed(p),
         Chained(q), Elems(p) \cap Elems(q) = {}, Elems(p) \cup Elems(q) = 0 .. a - 1
  PROVE  Chained(Append(q, a))
<1> DEFINE m == Len(q)
<1>1. /\ m \in Nat /\ DOMAIN q = 1 .. m /\ Len(p) \in Nat /\ DOMAIN p = 1 .. Len(p)
      /\ Len(Append(q, a)) = m + 1 /\ Append(q, a)[m + 1] = a
      /\ \A i \in 1 .. m : Append(q, a)[i] = q[i] /\ q[i] \in Elems(q) /\ q[i] \in 0 .. a - 1
      /\ a \in 0 .. BufferCount - 1 /\ BufferCount \in Nat
  BY AppendProperties, LenProperties, DmicAssumption DEF DmicAssumption, Elems, Buffers
<1>2. m > 0 => a = NextSlot(q[m])
  <2> SUFFICES ASSUME m > 0 PROVE a = NextSlot(q[m])
    OBVIOUS
  <2>1. q[m] \in 0 .. a - 1 /\ q[m] \in Elems(q) /\ a > 0 /\ a - 1 \in 0 .. a - 1
    BY <1>1
  <2>2. a - 1 \in Buffers /\ NextSlot(a - 1) = a
    BY <1>1, <2>1, NextSlotOnce DEF Buffers
  <2>3. ASSUME NEW i \in 1 .. Len(p), p[i] = a - 1 PROVE FALSE
    <3>1. i = a /\ q[m] + 1 \in 1 .. Len(p)
      BY <1>1, <2>1, <2>3 DEF Placed
    <3>2. p[q[m] + 1] = q[m]
      BY <1>1, <2>1, <3>1 DEF Placed
    <3>3. QED
      BY <1>1, <2>1, <3>1, <3>2 DEF Elems
  <2>4. PICK j \in 1 .. m : q[j] = a - 1
    BY <1>1, <2>1, <2>3 DEF Elems
  <2>5. ASSUME j # m PROVE FALSE
    <3>1. j \in 1 .. m - 1 /\ j + 1 \in 1 .. m
      <4>1. m \in Nat
        BY <1>1
      <4>2. QED
        BY <2>5, <4>1
    <3>2. q[j + 1] = a
      BY <2>2, <2>4, <3>1 DEF Chained
    <3>3. QED
      BY <1>1, <3>1, <3>2
  <2>6. QED
    BY <2>2, <2>4, <2>5
<1>3. ASSUME NEW i \in 1 .. Len(Append(q, a)) - 1
      PROVE  Append(q, a)[i + 1] = NextSlot(Append(q, a)[i])
  <2>1. i \in 1 .. m
    BY <1>1
  <2>2. CASE i = m
    BY <1>1, <1>2, <2>1, <2>2
  <2>3. CASE i # m
    <3>1. i \in 1 .. m - 1 /\ i + 1 \in 1 .. m
      <4>1. m \in Nat
        BY <1>1
      <4>2. QED
        BY <2>1, <2>3, <4>1
    <3>2. QED
      BY <1>1, <3>1 DEF Chained
  <2>4. QED
    BY <2>2, <2>3
<1>4. QED
  BY <1>3 DEF Chained

(* The buffers the driver has are distinct and not the client's.           *)
LEMMA OwnedOnce ==
  ASSUME DataOK, PlaceInv, OnceInv
  PROVE  /\ Owned \in Seq(Buffers) /\ held \in Seq(Buffers)
         /\ InjectiveQ(Owned) /\ Elems(Owned) = Elems(pendq) \cup InHand
         /\ Elems(Owned) \cap Elems(held) = {}
         /\ live = Elems(Owned) \cup Elems(held)
<1>1. pendq \in Seq(Buffers) /\ held \in Seq(Buffers)
  BY DEF DataOK
<1>2. CASE active = None /\ apb = None
  BY <1>1, <1>2, OwnedNow DEF OnceInv, InHand
<1>3. ASSUME NEW b \in Buffers, InHand = {b}, Owned = <<b>> \o pendq
      PROVE  /\ Owned \in Seq(Buffers) /\ InjectiveQ(Owned)
             /\ Elems(Owned) = Elems(pendq) \cup InHand
  <2>1. b \notin Elems(pendq) /\ InjectiveQ(pendq)
    BY <1>3 DEF OnceInv
  <2>2. QED
    BY <1>1, <1>3, <2>1, ElemsCons
<1>4. CASE active # None
  <2>1. active \in Buffers /\ InHand = {active}
    BY <1>4 DEF DataOK, Slots, PlaceInv, InHand, WorkerPositions
  <2>2. Owned = <<active>> \o pendq
    BY <1>4, OwnedNow
  <2>3. QED
    BY <1>1, <1>3, <2>1, <2>2 DEF OnceInv
<1>5. CASE active = None /\ apb # None
  <2>1. apb \in Buffers /\ InHand = {apb}
    BY <1>5 DEF DataOK, Slots, InHand
  <2>2. Owned = <<apb>> \o pendq
    BY <1>5, OwnedNow
  <2>3. QED
    BY <1>1, <1>3, <2>1, <2>2 DEF OnceInv
<1>6. QED
  BY <1>2, <1>4, <1>5

LEMMA ChainParts ==
  ASSUME NEW p \in Seq(Buffers), NEW q \in Seq(Buffers)
  PROVE  /\ Round(p \o q) => Chained(p) /\ Chained(q)
         /\ Chained(q) /\ q # <<>> => Chained(Tail(q))
<1>1. /\ \A i \in 1 .. Len(p) : (p \o q)[i] = p[i]
      /\ \A i \in 1 .. Len(q) : (p \o q)[Len(p) + i] = q[i]
      /\ Len(p \o q) = Len(p) + Len(q) /\ Len(p) \in Nat /\ Len(q) \in Nat
  BY JoinedSlots
<1>2. ASSUME Round(p \o q), NEW i \in 1 .. Len(p) - 1 PROVE p[i + 1] = NextSlot(p[i])
  <2>1. /\ i \in 1 .. Len(p) /\ i + 1 \in 1 .. Len(p) /\ i \in 1 .. Len(p) + Len(q)
        /\ i # Len(p) + Len(q)
    BY <1>1
  <2>2. QED
    BY <1>1, <1>2, <2>1 DEF Round
<1>3. ASSUME Round(p \o q), NEW i \in 1 .. Len(q) - 1 PROVE q[i + 1] = NextSlot(q[i])
  <2> DEFINE k == Len(p) + i
  <2>1. /\ i \in 1 .. Len(q) /\ i + 1 \in 1 .. Len(q) /\ k \in 1 .. Len(p) + Len(q)
        /\ k # Len(p) + Len(q) /\ k + 1 = Len(p) + (i + 1)
    BY <1>1
  <2>2. NextSlot((p \o q)[k]) = (p \o q)[k + 1]
    BY <1>1, <1>3, <2>1 DEF Round
  <2>3. (p \o q)[k] = q[i] /\ (p \o q)[k + 1] = q[i + 1]
    BY <1>1, <2>1
  <2>4. QED
    BY <2>2, <2>3
<1>4. ASSUME Chained(q), q # <<>> PROVE Chained(Tail(q))
  <2>1. /\ Len(Tail(q)) = Len(q) - 1
        /\ \A i \in 1 .. Len(q) - 1 : Tail(q)[i] = q[i + 1]
    BY <1>4, HeadTailProperties
  <2>2. ASSUME NEW i \in 1 .. Len(Tail(q)) - 1 PROVE Tail(q)[i + 1] = NextSlot(Tail(q)[i])
    <3>1. i \in 1 .. Len(q) - 1 /\ i + 1 \in 1 .. Len(q) - 1
      BY <1>1, <2>1
    <3>2. QED
      BY <1>4, <2>1, <3>1 DEF Chained
  <2>3. QED
    BY <2>2 DEF Chained
<1>5. QED
  BY <1>2, <1>3, <1>4 DEF Chained

(* A client that keeps up: before a session the queue is filled from slot  *)
(* 0; from the start of the channel on, the queue and then the client's    *)
(* buffers are all slots, in ring order.                                   *)
InTurn == session # "idle" \/ cpc = "start_run"
OrderInv ==
  client = "prompt" =>
    /\ session = "idle" => Chained(held) /\ Placed(Owned)
    /\ completes = 1 => Owned = <<>>
    /\ InTurn => live = Buffers /\ Round(Owned \o held)

LEMMA TurnStep ==
  ASSUME [Next]_vars
  PROVE  /\ client' = client
         /\ \/ StartRing \/ TakeComplete \/ FinishReport
            \/ /\ InTurn' => InTurn
               /\ session' = "idle" => session = "idle"
               /\ completes' = completes
<1> USE DEF InTurn, clientVars, flags, wake, workerVars, dmaVars, queueVars
<1>1. CASE ClientStep
  BY <1>1 DEF ClientStep, KickMark, KickPost, StartDmaInit, StartInitFails, StartTake,
     StartRing, StartUndo, StartRun, StopHw, PauseHw
<1>2. CASE ClientCall
  BY <1>2 DEF ClientCall, AllocBuffer, FreeBuffer, EnqueueBuffer, MayEnqueue, StartAudio,
     Stop, Pause, Resume
<1>3. CASE TakeComplete
  BY <1>3 DEF TakeComplete
<1>4. CASE Worker
  BY <1>4 DEF Worker, WorkerWake, TopIdle, TopStopping, TopNext, TopStarved, NoteXrun,
     PollDone, PollError, PollStopped, Claim, Deliver, AbortHw, AbortMark, FinishDeinit,
     FinishReturn, FinishClear, FinishReport
<1>5. CASE Dma \/ UNCHANGED vars
  BY <1>5 DEF Dma, DmaPeriod, DmaFails, vars
<1>6. QED
  BY <1>1, <1>2, <1>3, <1>4, <1>5 DEF Next

LEMMA OrderStep ==
  ContractInv /\ ContractInv' /\ CountInv /\ OrderInv /\ [Next]_vars => OrderInv'
<1> SUFFICES ASSUME ContractInv, ContractInv', CountInv, OrderInv, [Next]_vars,
                    client' = "prompt"
             PROVE  OrderInv'
  BY DEF OrderInv
<1>a. /\ DataOK /\ DataOK' /\ ApbInv /\ PlaceInv /\ PlaceInv' /\ SessionInv /\ SessionInv'
      /\ OnceInv /\ EmptiedInv /\ client = "prompt"
  BY TurnStep DEF ContractInv, PlacesInv, TypeOK, WakeInv
<1>b. /\ Owned \in Seq(Buffers) /\ held \in Seq(Buffers)
      /\ Elems(Owned) \cap Elems(held) = {}
      /\ live = Elems(Owned) \cup Elems(held)
  BY <1>a, OwnedOnce
<1>c. /\ session = "idle" => Chained(held) /\ Placed(Owned)
      /\ completes = 1 => Owned = <<>>
      /\ InTurn => live = Buffers /\ Round(Owned \o held)
  BY <1>a DEF OrderInv
<1>1. CASE AllocBuffer /\ Owned' = Owned
  <2>1. /\ alloc_index \in Buffers /\ live = 0 .. alloc_index - 1
        /\ held' = Append(held, alloc_index) /\ session = "idle" /\ cpc = "idle"
        /\ session' = session /\ completes' = completes /\ cpc' = cpc
    BY <1>1, <1>a, DmicAssumption DEF DmicAssumption, AllocBuffer, DataOK, Buffers
  <2>2. Chained(held')
    BY <1>b, <1>c, <2>1, AllocChains
  <2>3. QED
    BY <1>1, <1>c, <2>1, <2>2 DEF OrderInv, InTurn
<1>2. CASE FreeBuffer /\ Owned' = Owned
  BY <1>2, <1>b, <1>c, ChainParts DEF FreeBuffer, OrderInv, InTurn
<1>3. CASE EnqueueBuffer /\ Owned' = Append(Owned, Head(held))
  <2>1. /\ held # <<>> /\ held' = Tail(held) /\ live' = live /\ completes' = completes
        /\ session' = session /\ cpc = "idle" /\ cpc' \in {"kick", "idle"}
        /\ completes # 1
    BY <1>3, <1>a DEF EnqueueBuffer, MayEnqueue
  <2>2. CASE session = "idle"
    <3>1. Owned = pendq /\ Head(held) = Len(pendq)
      BY <1>3, <1>a, <2>2, OwnedNow DEF EnqueueBuffer, MayEnqueue, SessionInv, PlaceInv
    <3>2. Placed(Owned')
      <4>1. /\ Len(Owned) \in Nat /\ Len(Owned') = Len(Owned) + 1
            /\ \A i \in 1 .. Len(Owned) : Owned'[i] = Owned[i]
            /\ Owned'[Len(Owned) + 1] = Len(Owned)
        <5>1. Head(held) \in Buffers
          BY <1>b, <2>1, HeadTailType
        <5>2. QED
          BY <1>3, <1>b, <3>1, <5>1, AppendProperties, LenProperties
      <4>2. QED
        BY <1>c, <2>2, <4>1 DEF Placed
    <3>3. Chained(held')
      BY <1>b, <1>c, <2>1, <2>2, ChainParts
    <3>4. QED
      BY <2>1, <2>2, <3>2, <3>3 DEF OrderInv, InTurn
  <2>3. CASE session # "idle"
    <3>1. Owned' \o held' = Owned \o held
      BY <1>3, <1>b, <2>1, JoinMoves
    <3>2. QED
      BY <1>c, <2>1, <2>3, <3>1 DEF OrderInv, InTurn
  <2>4. QED
    BY <2>2, <2>3
<1>4. CASE /\ Deliver \/ FinishReturn
           /\ Owned # <<>> /\ held' = Append(held, Head(Owned)) /\ Owned' = Tail(Owned)
  <2>1. /\ session # "idle" /\ session' = session /\ live' = live
        /\ completes' = completes
    BY <1>4, <1>a DEF Deliver, FinishReturn, SessionInv
  <2>2. Round(Owned' \o held')
    BY <1>4, <1>b, <1>c, <2>1, RoundTurns DEF InTurn
  <2>3. completes # 1
    BY <1>4, <1>a DEF Deliver, FinishReturn, SessionInv
  <2>4. QED
    BY <1>c, <2>1, <2>2, <2>3 DEF OrderInv, InTurn
<1>5. CASE held' = held /\ live' = live /\ Owned' = Owned
  <2>1. CASE StartRing
    <3>1. /\ active # None /\ alloc_index = BufferCount /\ session = "idle"
          /\ session' = session /\ completes' = completes
      BY <2>1, <1>a DEF StartRing, SessionInv, StartPositions
    <3>2. live = Buffers
      BY <1>a, <3>1, AllAllocated
    <3>3. Owned # <<>>
      BY <1>a, <3>1, OwnedNow, ElemsCons DEF DataOK, Slots
    <3>4. Round(Owned \o held)
      BY <1>b, <1>c, <3>1, <3>2, <3>3, PlacedRound
    <3>5. QED
      BY <1>5, <1>c, <3>1, <3>2, <3>4 DEF OrderInv
  <2>2. CASE TakeComplete
    <3>1. /\ completes = 1 /\ completes' = 0 /\ session' = "idle" /\ cpc' = "idle"
          /\ session # "idle"
      BY <2>2, <1>a DEF TakeComplete, SessionInv
    <3>2. Owned = <<>> /\ Chained(held)
      BY <1>b, <1>c, <3>1, ChainParts DEF InTurn
    <3>3. Placed(Owned')
      BY <1>5, <3>2 DEF Placed
    <3>4. QED
      BY <1>5, <3>1, <3>2, <3>3 DEF OrderInv, InTurn
  <2>3. CASE FinishReport
    <3>1. session # "idle" /\ session' = session /\ Owned = <<>>
      <4>1. /\ session # "idle" /\ session' = session
            /\ active = None /\ apb = None /\ pendq = <<>>
        BY <2>3, <1>a DEF FinishReport, SessionInv, EmptiedInv, PlaceInv
      <4>2. QED
        BY <1>a, <4>1, OwnedNow
    <3>2. QED
      BY <1>5, <1>c, <3>1 DEF OrderInv, InTurn
  <2>4. CASE /\ InTurn' => InTurn
             /\ session' = "idle" => session = "idle"
             /\ completes' = completes
    BY <1>5, <1>c, <2>4 DEF OrderInv
  <2>5. QED
    BY <2>1, <2>2, <2>3, <2>4, TurnStep
<1>6. QED
  BY <1>1, <1>2, <1>3, <1>4, <1>5, OwnedStep DEF OwnedMoves

(* How many of its buffers the channel has filled: one between its claim   *)
(* and its delivery, one whose period is not acknowledged.                 *)
Claimed == wpc = "deliver" \/ (wpc = "claim" /\ status = "ok")
Ahead == (IF Claimed THEN 1 ELSE 0) + (IF period_done THEN 1 ELSE 0)

(* The channel fills the driver's oldest buffer it has not filled yet; what *)
(* finish will hand back need not be in step any more.  With one buffer    *)
(* only, nothing is ever queued behind it.                                 *)
FillInv ==
  client = "prompt" /\ running =>
    /\ fill \in Elems(Owned)
    /\ wpc # "deinit" => /\ Ahead < Len(Owned) /\ fill = Owned[Ahead + 1]
                         /\ period_done => last_filled = Owned[Ahead]
    /\ BufferCount = 1 => pendq = <<>>

(* A slot of the driver's that is followed by a queued one is not the last *)
(* the driver has.                                                         *)
LEMMA NextFilled ==
  ASSUME DataOK, PlaceInv, OnceInv, Chained(Owned), NEW n \in 1 .. Len(Owned),
         NextSlot(Owned[n]) \in Elems(pendq),
         InHand # {} \/ (n = 1 /\ (BufferCount = 1 => pendq = <<>>))
  PROVE  n < Len(Owned) /\ Owned[n + 1] = NextSlot(Owned[n])
<1>1. /\ Owned \in Seq(Buffers) /\ InjectiveQ(Owned)
      /\ Elems(Owned) = Elems(pendq) \cup InHand /\ InHand \cap Elems(pendq) = {}
  BY OwnedOnce DEF OnceInv
<1>2. /\ Len(Owned) \in Nat /\ DOMAIN Owned = 1 .. Len(Owned)
      /\ \A i \in 1 .. Len(Owned) : Owned[i] \in Buffers
  BY <1>1, LenProperties, ElementOfSeq
<1>3. ASSUME n = Len(Owned) PROVE FALSE
  <2>1. PICK j \in 1 .. Len(Owned) : Owned[j] = NextSlot(Owned[n])
    BY <1>1, <1>2 DEF Elems
  <2>2. CASE j # 1
    <3>1. /\ j - 1 \in 1 .. Len(Owned) - 1 /\ j - 1 \in 1 .. Len(Owned)
          /\ (j - 1) + 1 = j /\ j - 1 # n
      BY <1>2, <1>3, <2>2
    <3>2. NextSlot(Owned[j - 1]) = NextSlot(Owned[n])
      BY <2>1, <3>1 DEF Chained
    <3>3. Owned[j - 1] = Owned[n]
      BY <1>2, <3>1, <3>2, NextSlotOnce
    <3>4. QED
      BY <1>1, <1>2, <3>1, <3>3 DEF InjectiveQ
  <2>3. CASE j = 1 /\ InHand # {}
    <3>1. Owned[1] \in InHand
      <4>1. CASE active # None
        <5>1. active \in Buffers /\ Owned = <<active>> \o pendq
          BY <4>1, OwnedNow DEF DataOK, Slots
        <5>2. QED
          BY <4>1, <5>1, ElemsCons DEF DataOK, InHand
      <4>2. CASE active = None
        <5>1. apb \in Buffers /\ Owned = <<apb>> \o pendq /\ apb # None
          BY <2>3, <4>2, OwnedNow DEF DataOK, Slots, InHand
        <5>2. QED
          BY <5>1, ElemsCons DEF DataOK, InHand
      <4>3. QED
        BY <4>1, <4>2
    <3>2. QED
      BY <1>1, <2>1, <2>3, <3>1
  <2>4. CASE j = 1 /\ InHand = {}
    <3>1. n = 1 /\ NextSlot(Owned[1]) = Owned[1] /\ Owned[1] \in Buffers
      BY <1>2, <2>1, <2>4
    <3>2. BufferCount = 1
      <4>1. BufferCount \in Nat \ {0} /\ Owned[1] \in 0 .. BufferCount - 1
        BY <3>1, DmicAssumption DEF DmicAssumption, Buffers
      <4>2. Owned[1] = BufferCount - 1 /\ Owned[1] = 0
        BY <3>1, <4>1, NextSlotOnce
      <4>3. QED
        BY <4>1, <4>2
    <3>3. pendq = <<>>
      BY <2>4, <3>2
    <3>4. QED
      BY <3>3, ElemsEmpty
  <2>5. QED
    BY <2>2, <2>3, <2>4
<1>4. n \in 1 .. Len(Owned) - 1
  <2>1. n # Len(Owned) /\ Len(Owned) \in Nat
    BY <1>2, <1>3
  <2>2. QED
    BY <2>1
<1>5. QED
  BY <1>2, <1>4 DEF Chained

LEMMA FillStep ==
  ContractInv /\ ContractInv' /\ ChannelInv /\ OrderInv /\ FillInv /\ [Next]_vars => FillInv'
<1> SUFFICES ASSUME ContractInv, ContractInv', ChannelInv, OrderInv, FillInv, [Next]_vars,
                    client' = "prompt", running'
             PROVE  FillInv'
  BY DEF FillInv
<1>a. /\ DataOK /\ DataOK' /\ FlagsOK /\ FlagsOK' /\ ApbInv /\ PlaceInv /\ PlaceInv'
      /\ SessionInv /\ OnceInv /\ client = "prompt"
  BY TurnStep DEF ContractInv, PlacesInv, TypeOK, WakeInv
<1>b. /\ Owned \in Seq(Buffers) /\ held \in Seq(Buffers)
      /\ Elems(Owned) \cap Elems(held) = {}
      /\ live = Elems(Owned) \cup Elems(held)
      /\ Len(Owned) \in Nat /\ DOMAIN Owned = 1 .. Len(Owned)
  BY <1>a, OwnedOnce, LenProperties
<1>c. running =>
        /\ fill \in Elems(Owned)
        /\ wpc # "deinit" => /\ Ahead < Len(Owned) /\ fill = Owned[Ahead + 1]
                             /\ period_done => last_filled = Owned[Ahead]
        /\ BufferCount = 1 => pendq = <<>>
  BY <1>a DEF FillInv
<1>d. running => InTurn
  BY DEF ChannelInv, InTurn
<1>e. /\ ~Claimed /\ ~period_done => Ahead = 0
      /\ Claimed /\ ~period_done => Ahead = 1
      /\ ~Claimed /\ period_done => Ahead = 1
      /\ Claimed /\ period_done => Ahead = 2
  BY DEF Ahead
<1>f. /\ ~Claimed' /\ ~period_done' => Ahead' = 0
      /\ Claimed' /\ ~period_done' => Ahead' = 1
      /\ ~Claimed' /\ period_done' => Ahead' = 1
      /\ Claimed' /\ period_done' => Ahead' = 2
  BY DEF Ahead
<1>g. Claimed' = Claimed /\ period_done' = period_done => Ahead' = Ahead
  BY DEF Ahead
<1> USE DEF clientVars, flags, wake, workerVars, dmaVars, queueVars
<1>1. CASE StartRing
  <2>1. /\ active # None /\ fill' = 0 /\ period_done' = FALSE /\ Owned' = Owned
        /\ session = "idle" /\ wpc' = wpc /\ wpc \in {"wait", "top"} /\ pendq' = pendq
    BY <1>1, <1>a DEF StartRing, SessionInv, StartPositions, Owned
  <2>2. Owned = <<active>> \o pendq /\ active \in Buffers
    BY <1>a, <2>1, OwnedNow DEF DataOK, Slots
  <2>3. Len(Owned) > 0 /\ Owned[1] = 0
    <3>1. Placed(Owned) /\ Owned # <<>>
      BY <1>a, <2>1, <2>2, ElemsCons DEF OrderInv, DataOK
    <3>2. Len(Owned) > 0
      BY <1>b, <3>1, EmptySeq
    <3>3. QED
      BY <1>b, <3>1, <3>2 DEF Placed
  <2>4. Ahead' = 0
    BY <1>f, <2>1 DEF Claimed
  <2>5. fill' \in Elems(Owned')
    BY <1>b, <2>1, <2>3 DEF Elems
  <2>6. ASSUME BufferCount = 1 PROVE pendq = <<>>
    <3>1. Buffers = {0}
      BY <2>6 DEF Buffers
    <3>2. active \notin Elems(pendq)
      BY <2>1 , <1>a DEF OnceInv, InHand
    <3>3. ASSUME pendq # <<>> PROVE FALSE
      <4>1. Head(pendq) \in Buffers /\ Head(pendq) \in Elems(pendq)
        BY <1>a, <3>3, HeadTailType, ElemsHeadTail DEF DataOK
      <4>2. QED
        BY <2>2, <3>1, <3>2, <4>1
    <3>4. QED
      BY <3>3
  <2>7. QED
    BY <1>b, <2>1, <2>3, <2>4, <2>5, <2>6 DEF FillInv
<1>2. CASE DmaPeriod
  <2>1. /\ running /\ ~period_done /\ period_done' /\ last_filled' = fill
        /\ NextSlot(fill) \in Elems(pendq) /\ fill' = NextSlot(fill)
        /\ Owned' = Owned /\ pendq' = pendq /\ wpc' = wpc /\ status' = status
    BY <1>2, <1>a DEF DmaPeriod, Owned
  <2>2. fill' \in Elems(Owned')
    BY <1>a, <2>1, OwnedOnce
  <2>3. CASE wpc = "deinit"
    BY <1>c, <2>1, <2>2, <2>3 DEF FillInv
  <2>4. CASE wpc # "deinit"
    <3> DEFINE n == Ahead + 1
    <3>1. /\ Ahead' = Ahead + 1 /\ Ahead \in 0 .. 1
          /\ Ahead = 1 => wpc \in {"claim", "deliver"}
      BY <1>e, <1>f, <2>1 DEF Claimed
    <3>2. n \in 1 .. Len(Owned) /\ fill = Owned[n]
      BY <1>b, <1>c, <2>1, <2>4, <3>1
    <3>3. InHand # {} \/ (n = 1 /\ (BufferCount = 1 => pendq = <<>>))
      <4>1. Ahead = 1 => InHand # {}
        BY <1>a, <3>1 DEF ApbInv, InHand
      <4>2. QED
        BY <1>c, <2>1, <3>1, <4>1
    <3>4. Chained(Owned)
      BY <1>a, <1>b, <1>d, <2>1, ChainParts DEF OrderInv
    <3>5. n < Len(Owned) /\ Owned[n + 1] = NextSlot(Owned[n])
      BY <1>a, <2>1, <3>2, <3>3, <3>4, NextFilled
    <3>6. QED
      BY <1>c, <2>1, <2>2, <3>1, <3>2, <3>5 DEF FillInv
  <2>5. QED
    BY <2>3, <2>4
<1>3. CASE PollDone \/ PollError \/ PollStopped
  <2>1. /\ running' = running /\ fill' = fill /\ Owned' = Owned /\ pendq' = pendq
        /\ wpc = "poll" /\ wpc' = "claim"
        /\ last_filled' = last_filled
    <3>1. /\ running' = running /\ fill' = fill /\ pendq' = pendq
          /\ active' = active /\ apb' = apb
          /\ wpc = "poll" /\ wpc' = "claim" /\ last_filled' = last_filled
      BY <1>3 DEF PollDone, PollError, PollStopped
    <3>2. Owned' = Owned
      BY <3>1 DEF Owned
    <3>3. QED
      BY <3>1, <3>2
  <2>2. /\ status' = "ok" => period_done /\ ~period_done'
        /\ status' # "ok" => period_done' = period_done
    BY <1>3 DEF PollDone, PollError, PollStopped
  <2>b. period_done' => period_done
    BY <2>2
  <2>3. Ahead' = Ahead
    BY <1>e, <1>f, <2>1, <2>2 DEF Claimed
  <2>4. QED
    BY <1>c, <2>1, <2>b, <2>3 DEF FillInv
<1>4. CASE Claim
  <2>1. Owned' = Owned
    BY <1>a, <1>4, OwnedNow, OwnedNext DEF Claim, PlaceInv, ApbInv
  <2>2. /\ running' = running /\ fill' = fill /\ pendq' = pendq
        /\ wpc = "claim" /\ period_done' = period_done /\ last_filled' = last_filled
        /\ wpc' # "deinit" => Claimed' = Claimed
    BY <1>4, <1>a DEF Claim, Claimed, DataOK
  <2>3. QED
    BY <1>c, <1>g, <2>1, <2>2 DEF FillInv
<1>5. CASE Deliver
  <2>1. /\ running' = running /\ fill' = fill /\ pendq' = pendq
        /\ wpc = "deliver" /\ wpc' = "top"
        /\ period_done' = period_done /\ last_filled' = last_filled
    BY <1>5 DEF Deliver
  <2>a. \/ period_done /\ Ahead = 2 /\ Ahead' = 1
        \/ ~period_done /\ Ahead = 1 /\ Ahead' = 0
    <3>1. Claimed /\ ~Claimed'
      BY <2>1 DEF Claimed
    <3>2. CASE period_done
      BY <1>e, <1>f, <2>1, <3>1, <3>2
    <3>3. CASE ~period_done
      BY <1>e, <1>f, <2>1, <3>1, <3>3
    <3>4. QED
      BY <3>2, <3>3
  <2>b. Ahead = Ahead' + 1 /\ (Ahead' = 0 \/ Ahead' = 1) /\ (period_done => Ahead' = 1)
    BY <2>a
  <2>2. Owned # <<>> /\ Owned' = Tail(Owned)
    <3>1. /\ apb \in Buffers /\ pendq \in Seq(Buffers) /\ apb' = None /\ active' = None
          /\ active = None /\ apb # None
      BY <1>5, <1>a DEF Deliver, ApbInv, PlaceInv, DataOK, Slots
    <3>2. Owned = <<apb>> \o pendq /\ Owned' = pendq
      BY <1>a, <2>1, <3>1, OwnedNow, OwnedNext
    <3>3. QED
      BY <3>1, <3>2, ElemsCons
  <2>3. /\ Len(Owned') = Len(Owned) - 1
        /\ \A i \in 1 .. Len(Owned) - 1 : Owned'[i] = Owned[i + 1]
        /\ DOMAIN Owned' = 1 .. Len(Owned')
    BY <1>b, <2>2, HeadTailProperties, LenProperties
  <2>4. /\ Ahead' < Len(Owned') /\ Ahead' + 1 \in 1 .. Len(Owned) - 1
        /\ fill = Owned[(Ahead' + 1) + 1]
    <3>1. Ahead < Len(Owned) /\ fill = Owned[Ahead + 1]
      BY <1>c, <2>1
    <3>2. Len(Owned) \in Nat
      BY <1>b
    <3>3. CASE Ahead' = 0
      <4>1. Ahead = 1
        BY <2>b, <3>3
      <4>2. QED
        BY <2>3, <3>1, <3>2, <3>3, <4>1
    <3>4. CASE Ahead' = 1
      <4>1. Ahead = 2
        BY <2>b, <3>4
      <4>2. QED
        BY <2>3, <3>1, <3>2, <3>4, <4>1
    <3>5. QED
      BY <2>b, <3>3, <3>4
  <2>5. fill = Owned'[Ahead' + 1] /\ fill \in Elems(Owned')
    BY <1>b, <2>3, <2>4 DEF Elems
  <2>6. period_done => last_filled = Owned'[Ahead']
    <3> SUFFICES ASSUME period_done PROVE last_filled = Owned'[Ahead']
      OBVIOUS
    <3>1. last_filled = Owned[Ahead] /\ Ahead' = 1 /\ Ahead = 1 + 1
      BY <1>c, <2>1, <2>b
    <3>2. 1 \in 1 .. Len(Owned) - 1
      BY <2>4, <3>1
    <3>3. QED
      BY <2>3, <3>1, <3>2
  <2>7. QED
    BY <1>c, <2>1, <2>4, <2>5, <2>6 DEF FillInv
<1>6. CASE EnqueueBuffer
  <2>1. /\ running' = running /\ fill' = fill /\ wpc' = wpc /\ status' = status
        /\ period_done' = period_done /\ last_filled' = last_filled
        /\ held # <<>> /\ Ahead' = Ahead
    BY <1>6, <1>g DEF EnqueueBuffer, MayEnqueue, Claimed
  <2>2. Owned' = Append(Owned, Head(held)) /\ Head(held) \in Buffers
        /\ Head(held) \in Elems(held)
    <3>1. ~AllocBuffer /\ ~FreeBuffer
      <4>1. cpc = "idle"
        BY <1>6 DEF EnqueueBuffer, MayEnqueue
      <4>2. session # "idle"
        BY <1>d, <2>1, <4>1 DEF InTurn
      <4>3. QED
        BY <4>2 DEF AllocBuffer, FreeBuffer
    <3>2. ~Deliver /\ ~FinishReturn
      <4>1. Len(held') = Len(held) - 1 /\ Len(held) \in Nat
        BY <1>6, <1>b, <2>1, HeadTailProperties, LenProperties DEF EnqueueBuffer
      <4>2. ASSUME NEW e PROVE held' # Append(held, e)
        <5>1. Len(Append(held, e)) = Len(held) + 1
          BY <1>b
        <5>2. QED
          BY <4>1, <5>1
      <4>3. QED
        BY <4>2 DEF Deliver, FinishReturn
    <3>3. held' # held
      <4>1. Len(held') = Len(held) - 1 /\ Len(held) \in Nat
        BY <1>6, <1>b, <2>1, HeadTailProperties, LenProperties DEF EnqueueBuffer
      <4>2. QED
        BY <4>1
    <3>4. Owned' = Append(Owned, Head(held))
      BY <3>1, <3>2, <3>3, OwnedStep DEF OwnedMoves
    <3>5. Head(held) \in Buffers /\ Head(held) \in Elems(held)
      BY <1>b, <2>1, HeadTailType, ElemsHeadTail
    <3>6. QED
      BY <3>4, <3>5
  <2>3. /\ Len(Owned') = Len(Owned) + 1 /\ DOMAIN Owned' = 1 .. Len(Owned) + 1
        /\ \A i \in 1 .. Len(Owned) : Owned'[i] = Owned[i]
    BY <1>b, <2>2, AppendProperties, LenProperties
  <2>4. fill \in Elems(Owned')
    BY <1>b, <1>c, <2>1, <2>3 DEF Elems
  <2>5. wpc # "deinit" => /\ Ahead < Len(Owned') /\ fill = Owned'[Ahead + 1]
                          /\ period_done => last_filled = Owned'[Ahead]
    <3> SUFFICES ASSUME wpc # "deinit"
                 PROVE  /\ Ahead < Len(Owned') /\ fill = Owned'[Ahead + 1]
                        /\ period_done => last_filled = Owned'[Ahead]
      OBVIOUS
    <3>1. Ahead \in 0 .. 2 /\ (period_done => Ahead # 0)
      BY <1>e
    <3>2. Ahead + 1 \in 1 .. Len(Owned) /\ (period_done => Ahead \in 1 .. Len(Owned))
      BY <1>b, <1>c, <2>1, <3>1
    <3>3. QED
      BY <1>b, <1>c, <2>1, <2>3, <3>1, <3>2
  <2>6. BufferCount # 1
    <3>1. Elems(Owned) \subseteq Buffers
      BY <1>b, ElementOfSeq DEF Elems
    <3>2. ASSUME BufferCount = 1 PROVE FALSE
      <4>1. Buffers = {0}
        BY <3>2 DEF Buffers
      <4>2. QED
        BY <1>b, <1>c, <2>1, <2>2, <3>1, <4>1
    <3>3. QED
      BY <3>2
  <2>7. QED
    BY <2>1, <2>4, <2>5, <2>6 DEF FillInv
<1>7. CASE TopStopping \/ TopNext
  <2>1. /\ running' = running /\ fill' = fill /\ wpc = "top" /\ wpc' \in {"deinit", "poll"}
        /\ period_done' = period_done /\ last_filled' = last_filled
        /\ held' = held /\ live' = live
        /\ pendq' = pendq \/ (pendq' = Tail(pendq) /\ pendq # <<>>)
    BY <1>7 DEF TopStopping, TopNext, TailOrEmpty
  <2>a. Ahead' = Ahead
    BY <1>g, <2>1 DEF Claimed
  <2>2. Owned' = Owned
    <3>1. ~AllocBuffer /\ ~FreeBuffer /\ ~EnqueueBuffer /\ ~Deliver /\ ~FinishReturn
      BY <1>7, <1>a
      DEF TopStopping, TopNext, AllocBuffer, FreeBuffer, EnqueueBuffer, Deliver, FinishReturn
    <3>2. QED
      BY <3>1, OwnedStep DEF OwnedMoves
  <2>3. QED
    BY <1>c, <2>1, <2>2, <2>a DEF FillInv
<1>8. CASE StartTake \/ StartUndo \/ AllocBuffer \/ FreeBuffer \/ AbortHw \/ AbortMark
           \/ FinishDeinit \/ FinishReturn \/ FinishClear \/ FinishReport \/ StopHw
  BY <1>8, <1>a
  DEF StartTake, StartUndo, AllocBuffer, FreeBuffer, AbortHw, AbortMark, FinishDeinit,
      FinishReturn, FinishClear, FinishReport, StopHw, ChannelInv, SessionInv, StartPositions
<1>9. ASSUME UNCHANGED <<running, fill, period_done, last_filled, pendq, active, apb>>,
             Claimed' = Claimed, wpc # "deinit" \/ wpc' = "deinit"
      PROVE  FillInv'
  <2>1. Owned' = Owned
    BY <1>9 DEF Owned
  <2>2. QED
    BY <1>9, <1>c, <1>g, <2>1 DEF FillInv
<1>10. CASE KickMark \/ KickPost \/ StartDmaInit \/ StartInitFails \/ StartRun \/ PauseHw
            \/ StartAudio \/ Stop \/ Pause \/ Resume \/ TakeComplete
            \/ DmaFails \/ UNCHANGED vars
  BY <1>10, <1>9
  DEF KickMark, KickPost, StartDmaInit, StartInitFails, StartRun, PauseHw, StartAudio,
      Stop, Pause, Resume, TakeComplete, DmaFails, vars, Claimed
<1>11. CASE WorkerWake \/ TopIdle \/ TopStarved \/ NoteXrun
  <2>1. UNCHANGED <<running, fill, period_done, last_filled, pendq, active, apb>>
    BY <1>11, <1>a DEF WorkerWake, TopIdle, TopStarved, NoteXrun, PlaceInv
  <2>2. Claimed' = Claimed /\ wpc # "deinit"
    BY <1>11 DEF WorkerWake, TopIdle, TopStarved, NoteXrun, Claimed
  <2>3. QED
    BY <1>9, <2>1, <2>2
<1>12. QED
  BY <1>1, <1>2, <1>3, <1>4, <1>5, <1>6, <1>7, <1>8, <1>10, <1>11
  DEF Next, ClientStep, ClientCall, Worker, Dma

PromptInv == ContractInv /\ ChannelInv /\ CountInv /\ OrderInv /\ FillInv

(* A client that returns each buffer within a period shares no memory with *)
(* the running channel, and gets every period in the buffer it was         *)
(* recorded into, over pauses, stops, errors and restarts, for every       *)
(* number of buffers (start_dma, poll_buffer, enqueuebuffer, finish).      *)
THEOREM PromptClientKeepsUp == Spec => []PromptKeepsUp
<1>1. Init => PromptInv
  <2> SUFFICES ASSUME Init PROVE PromptInv
    OBVIOUS
  <2>1. ContractInv
    BY PlacesInit DEF ContractInv
  <2>2. ChannelInv
    BY DEF Init, ChannelInv
  <2>3. CountInv
    BY FS_EmptySet DEF Init, CountInv
  <2>4. OrderInv /\ FillInv
    <3>1. Owned = <<>> /\ held = <<>>
      BY ConcatEmptySeq, EmptySeq DEF Init, Owned
    <3>2. Chained(<<>>) /\ Placed(<<>>)
      BY EmptySeq DEF Chained, Placed
    <3>3. QED
      BY <3>1, <3>2 DEF Init, OrderInv, InTurn, FillInv
  <2>5. QED
    BY <2>1, <2>2, <2>3, <2>4 DEF PromptInv
<1>2. PromptInv /\ [Next]_vars => PromptInv'
  <2> SUFFICES ASSUME PromptInv, [Next]_vars PROVE PromptInv'
    OBVIOUS
  <2>1. ContractInv'
    BY PlacesStep, OnceStep, EmptiedStep DEF PromptInv, ContractInv
  <2>2. ChannelInv' /\ CountInv'
    BY ChannelStep, CountStep DEF PromptInv, ContractInv, PlacesInv
  <2>3. OrderInv' /\ FillInv'
    BY <2>1, OrderStep, FillStep DEF PromptInv
  <2>4. QED
    BY <2>1, <2>2, <2>3 DEF PromptInv
<1>3. PromptInv => PromptKeepsUp
  <2> SUFFICES ASSUME PromptInv, client = "prompt" PROVE DmaNeverFillsHeld /\ QueueMatchesRing
    BY DEF PromptKeepsUp
  <2>a. DataOK /\ PlaceInv /\ OnceInv /\ SessionInv /\ ChannelInv /\ FillInv
    BY DEF PromptInv, ContractInv, PlacesInv, TypeOK, WakeInv
  <2>1. DmaNeverFillsHeld
    BY <2>a, OwnedOnce DEF DmaNeverFillsHeld, FillInv
  <2>2. QueueMatchesRing
    <3> SUFFICES ASSUME wpc = "poll", started, period_done PROVE apb = last_filled
      BY DEF QueueMatchesRing
    <3>1. running /\ Ahead = 1
      BY <2>a DEF ChannelInv, Ahead, Claimed
    <3>2. last_filled = Owned[1]
      BY <2>a, <3>1 DEF FillInv
    <3>3. active = apb /\ active # None /\ active \in Buffers
      BY <2>a DEF PromptInv, ContractInv, PlacesInv, PlaceInv, ApbInv, DataOK, Slots
    <3>4. Owned = <<active>> \o pendq
      BY <2>a, <3>3, OwnedNow
    <3>5. QED
      BY <2>a, <3>2, <3>3, <3>4, ElemsCons DEF DataOK
  <2>3. QED
    BY <2>1, <2>2
<1>4. QED
  BY <1>1, <1>2, <1>3, PTL DEF Spec
====
