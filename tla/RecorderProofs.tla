---------------------------- MODULE RecorderProofs ----------------------------
(***************************************************************************)
(* Theorems about Recorder: one worker and the state that goes with it,    *)
(* whose recorder the pause handler uses, and the clock it reads, for      *)
(* every length of a recording, width of the times and range of the clock. *)
(***************************************************************************)
EXTENDS Recorder, TLAPS

(* The flags a worker leaves behind are Boolean.                           *)
FlagsOK == worker_active \in BOOLEAN /\ recorder \in BOOLEAN

(* Where there is a worker, and which, follows from its position; until a  *)
(* recording has started its state is BUSY.                                *)
WorkerInv ==
  /\ FlagsOK
  /\ state \in States /\ wpc \in {"none"} \cup RecordPositions \cup PlayPositions
  /\ upc \in {"run", "pause", "done"} /\ workers \in Nat
  /\ wpc \in {"record", "starting"} => state = "BUSY"
  /\ StateMatchesWorker
  /\ RecorderIsOwn

(* Times are times of the clock and in its past.                           *)
TimeInv ==
  /\ now \in 0 .. MaxTime /\ start \in 0 .. now /\ unow \in 0 .. now

(* While the pause button can be clicked, or its handler runs, no          *)
(* recording is about to start.                                            *)
ClickInv ==
  /\ pause_off \in BOOLEAN /\ shown \in Views /\ view \in Views
  /\ upc = "pause" => shown = "RECORD" /\ ~pause_off
  /\ shown = "RECORD" /\ ~pause_off => wpc \notin {"record", "starting"}
  /\ PauseNeverWraps
-----------------------------------------------------------------------------
(* Initially there is no worker.                                           *)
LEMMA WorkerInit == Init => WorkerInv
<1> SUFFICES ASSUME Init PROVE WorkerInv
  OBVIOUS
<1>1. FlagsOK
  BY DEF Init, FlagsOK
<1>2. StateMatchesWorker /\ RecorderIsOwn
  BY DEF Init, StateMatchesWorker, RecorderIsOwn, RecordPositions, PlayPositions
<1> QED
  BY <1>1, <1>2 DEF Init, WorkerInv, States, RecordPositions, PlayPositions

(* Every handler and every exit of the workers keeps state and worker      *)
(* together.                                                               *)
LEMMA WorkerStep == WorkerInv /\ [Next]_vars => WorkerInv'
<1> SUFFICES ASSUME WorkerInv, [Next]_vars PROVE WorkerInv'
  OBVIOUS
<1> USE DEF WorkerInv, FlagsOK, States, RecordPositions, PlayPositions, StateMatchesWorker,
            RecorderIsOwn, app, thread, ui, Idle
<1>1. CASE UNCHANGED vars
  BY <1>1 DEF vars
<1>2. CASE Tick
  BY <1>2 DEF Tick
<1>3. CASE NewRecording
  <2>1. wpc = "none" /\ workers = 0 /\ ~worker_active /\ ~recorder /\ recorder' = recorder
    BY <1>3 DEF NewRecording
  <2>2. upc' = upc /\ upc = "run"
    BY <1>3 DEF NewRecording, Button
  <2>3. CASE state' = "BUSY" /\ worker_active' = TRUE /\ wpc' = "record" /\ workers' = workers + 1
    <3>1. worker_active' \in BOOLEAN /\ worker_active'
      BY <2>3
    <3>2. workers' = 1
      BY <2>1, <2>3
    <3> QED
      BY <2>1, <2>2, <2>3, <3>1, <3>2
  <2>4. CASE UNCHANGED <<state, worker_active, workers, wpc>>
    <3>1. worker_active' \in BOOLEAN /\ ~worker_active'
      BY <2>1, <2>4
    <3>2. state' = state /\ workers' = workers /\ wpc' = wpc
      BY <2>4
    <3> QED
      BY <2>1, <2>2, <3>1, <3>2
  <2> QED
    BY <1>3, <2>3, <2>4 DEF NewRecording, Launch
<1>4. CASE SelectFile
  BY <1>4 DEF SelectFile
<1>5. CASE Play
  <2>1. wpc = "none" /\ workers = 0 /\ ~worker_active /\ ~recorder /\ recorder' = recorder
    BY <1>5 DEF Play
  <2>2. upc' = upc /\ upc = "run"
    BY <1>5 DEF Play, Button
  <2>3. CASE state' = "BUSY" /\ worker_active' = TRUE /\ wpc' = "play" /\ workers' = workers + 1
    <3>1. worker_active' \in BOOLEAN /\ worker_active'
      BY <2>3
    <3>2. workers' = 1
      BY <2>1, <2>3
    <3> QED
      BY <2>1, <2>2, <2>3, <3>1, <3>2
  <2>4. CASE UNCHANGED <<state, worker_active, workers, wpc>>
    <3>1. worker_active' \in BOOLEAN /\ ~worker_active'
      BY <2>1, <2>4
    <3>2. state' = state /\ workers' = workers /\ wpc' = wpc
      BY <2>4
    <3> QED
      BY <2>1, <2>2, <3>1, <3>2
  <2> QED
    BY <1>5, <2>3, <2>4 DEF Play, Launch
<1>6. CASE Back
  BY <1>6 DEF Back
<1>7. CASE Stop
  BY <1>7 DEF Stop
<1>8. CASE Exit
  BY <1>8 DEF Exit
<1>9. CASE PauseClick
  BY <1>9 DEF PauseClick
<1>10. CASE PauseLocked
  BY <1>10 DEF PauseLocked
<1>11. CASE UpdateUi
  BY <1>11 DEF UpdateUi
<1>12. CASE Done
  BY <1>12 DEF Done
<1>13. CASE RecordFails
  <2>1. worker_active' \in BOOLEAN /\ ~worker_active'
    BY <1>13 DEF RecordFails
  <2>2. recorder' \in BOOLEAN /\ ~recorder'
    BY <1>13 DEF RecordFails
  <2>3. workers' = 0 /\ wpc' = "none" /\ state' = "IDLE" /\ upc' = upc
    BY <1>13 DEF RecordFails
  <2> QED
    BY <2>1, <2>2, <2>3
<1>14. CASE RecordOpens
  BY <1>14 DEF RecordOpens
<1>15. CASE RecordStarts
  BY <1>15 DEF RecordStarts
<1>16. CASE RecordQuits
  BY <1>16 DEF RecordQuits
<1>17. CASE RecordStartFails
  BY <1>17 DEF RecordStartFails
<1>18. CASE RecordClock
  BY <1>18 DEF RecordClock
<1>19. CASE RecordCheck
  BY <1>19 DEF RecordCheck
<1>20. CASE RecordAccount
  BY <1>20 DEF RecordAccount
<1>21. CASE RecordClear
  <2>1. worker_active' \in BOOLEAN /\ ~worker_active'
    BY <1>21 DEF RecordClear
  <2>2. recorder' \in BOOLEAN /\ ~recorder'
    BY <1>21 DEF RecordClear
  <2>3. workers' = 0 /\ wpc' = "none" /\ state' = "IDLE" /\ upc' = upc
    BY <1>21 DEF RecordClear
  <2> QED
    BY <2>1, <2>2, <2>3
<1>22. CASE PlayFails
  <2>1. worker_active' \in BOOLEAN /\ ~worker_active'
    BY <1>22 DEF PlayFails
  <2>2. recorder' \in BOOLEAN /\ ~recorder'
    BY <1>22 DEF PlayFails
  <2>3. workers' = 0 /\ wpc' = "none" /\ state' = "IDLE" /\ upc' = upc
    BY <1>22 DEF PlayFails
  <2> QED
    BY <2>1, <2>2, <2>3
<1>23. CASE PlayFileFails
  BY <1>23 DEF PlayFileFails
<1>24. CASE PlayOpens
  BY <1>24 DEF PlayOpens
<1>25. CASE PlayStops
  BY <1>25 DEF PlayStops
<1>26. CASE PlayClear
  <2>1. worker_active' \in BOOLEAN /\ ~worker_active'
    BY <1>26 DEF PlayClear
  <2>2. recorder' \in BOOLEAN /\ ~recorder'
    BY <1>26 DEF PlayClear
  <2>3. workers' = 0 /\ wpc' = "none" /\ state' = "IDLE" /\ upc' = upc
    BY <1>26 DEF PlayClear
  <2> QED
    BY <2>1, <2>2, <2>3
<1> QED
  BY <1>1, <1>2, <1>3, <1>4, <1>5, <1>6, <1>7, <1>8, <1>9, <1>10, <1>11,
     <1>12, <1>13, <1>14, <1>15, <1>16, <1>17, <1>18, <1>19, <1>20, <1>21,
     <1>22, <1>23, <1>24, <1>25, <1>26
  DEF Next, UiThread, Worker

(* There is one worker at most, the state tells which, and nothing is torn *)
(* down under it (start_record, start_play, the workers' ends, run).       *)
THEOREM OneWorker == Spec => []StateMatchesWorker
<1>1. WorkerInv => StateMatchesWorker
  BY DEF WorkerInv
<1> QED
  BY <1>1, WorkerInit, WorkerStep, PTL DEF Spec

(* The pointer the pause handler uses belongs to the worker that runs      *)
(* (record_worker, record_pause_event).                                    *)
THEOREM OwnRecorder == Spec => []RecorderIsOwn
<1>1. WorkerInv => RecorderIsOwn
  BY DEF WorkerInv
<1> QED
  BY <1>1, WorkerInit, WorkerStep, PTL DEF Spec
-----------------------------------------------------------------------------
(* Initially the clock is at 0 and nothing is recorded.                    *)
LEMMA ClickInit == Init => TimeInv /\ ClickInv
<1> SUFFICES ASSUME Init PROVE TimeInv /\ ClickInv
  OBVIOUS
<1>1. TimeInv
  BY RecorderAssumption DEF RecorderAssumption, Init, TimeInv
<1>2. ClickInv
  BY DEF Init, ClickInv, Views, PauseNeverWraps
<1> QED
  BY <1>1, <1>2

(* Every step takes its times from the clock or from an earlier reading.   *)
LEMMA TimeStep == TimeInv /\ [Next]_vars => TimeInv'
<1> SUFFICES ASSUME TimeInv, [Next]_vars PROVE TimeInv'
  OBVIOUS
<1> USE RecorderAssumption DEF RecorderAssumption, TimeInv, app, thread, ui, Idle
<1>1. CASE UNCHANGED vars
  BY <1>1 DEF vars
<1>2. CASE Tick
  BY <1>2 DEF Tick
<1>3. CASE NewRecording
  BY <1>3 DEF NewRecording, Launch
<1>4. CASE SelectFile
  BY <1>4 DEF SelectFile
<1>5. CASE Play
  BY <1>5 DEF Play, Launch
<1>6. CASE Back
  BY <1>6 DEF Back
<1>7. CASE Stop
  BY <1>7 DEF Stop
<1>8. CASE Exit
  BY <1>8 DEF Exit
<1>9. CASE PauseClick
  BY <1>9 DEF PauseClick
<1>10. CASE PauseLocked
  BY <1>10 DEF PauseLocked
<1>11. CASE UpdateUi
  BY <1>11 DEF UpdateUi
<1>12. CASE Done
  BY <1>12 DEF Done
<1>13. CASE RecordFails
  BY <1>13 DEF RecordFails
<1>14. CASE RecordOpens
  BY <1>14 DEF RecordOpens
<1>15. CASE RecordStarts
  BY <1>15 DEF RecordStarts
<1>16. CASE RecordQuits
  BY <1>16 DEF RecordQuits
<1>17. CASE RecordStartFails
  BY <1>17 DEF RecordStartFails
<1>18. CASE RecordClock
  BY <1>18 DEF RecordClock
<1>19. CASE RecordCheck
  BY <1>19 DEF RecordCheck
<1>20. CASE RecordAccount
  BY <1>20 DEF RecordAccount
<1>21. CASE RecordClear
  BY <1>21 DEF RecordClear
<1>22. CASE PlayFails
  BY <1>22 DEF PlayFails
<1>23. CASE PlayFileFails
  BY <1>23 DEF PlayFileFails
<1>24. CASE PlayOpens
  BY <1>24 DEF PlayOpens
<1>25. CASE PlayStops
  BY <1>25 DEF PlayStops
<1>26. CASE PlayClear
  BY <1>26 DEF PlayClear
<1> QED
  BY <1>1, <1>2, <1>3, <1>4, <1>5, <1>6, <1>7, <1>8, <1>9, <1>10, <1>11,
     <1>12, <1>13, <1>14, <1>15, <1>16, <1>17, <1>18, <1>19, <1>20, <1>21,
     <1>22, <1>23, <1>24, <1>25, <1>26
  DEF Next, UiThread, Worker

(* Every step keeps the pause handler away from a recording's start.       *)
LEMMA ClickStep == WorkerInv /\ TimeInv /\ ClickInv /\ [Next]_vars => ClickInv'
<1> SUFFICES ASSUME WorkerInv, TimeInv, ClickInv, [Next]_vars PROVE ClickInv'
  OBVIOUS
<1> USE DEF WorkerInv, FlagsOK, States, RecordPositions, PlayPositions, StateMatchesWorker,
            TimeInv, ClickInv, Views, PauseNeverWraps, app, thread, ui, Idle, Button
<1>1. CASE UNCHANGED vars
  BY <1>1 DEF vars
<1>2. CASE Tick
  BY <1>2 DEF Tick
<1>3. CASE NewRecording
  BY <1>3 DEF NewRecording, Launch
<1>4. CASE SelectFile
  BY <1>4 DEF SelectFile
<1>5. CASE Play
  BY <1>5 DEF Play, Launch
<1>6. CASE Back
  BY <1>6 DEF Back
<1>7. CASE Stop
  BY <1>7 DEF Stop
<1>8. CASE Exit
  BY <1>8 DEF Exit
<1>9. CASE PauseClick
  BY <1>9 DEF PauseClick
<1>10. CASE PauseLocked
  BY <1>10 DEF PauseLocked
<1>11. CASE UpdateUi
  BY <1>11 DEF UpdateUi
<1>12. CASE Done
  BY <1>12 DEF Done
<1>13. CASE RecordFails
  BY <1>13 DEF RecordFails
<1>14. CASE RecordOpens
  BY <1>14 DEF RecordOpens
<1>15. CASE RecordStarts
  BY <1>15 DEF RecordStarts
<1>16. CASE RecordQuits
  BY <1>16 DEF RecordQuits
<1>17. CASE RecordStartFails
  BY <1>17 DEF RecordStartFails
<1>18. CASE RecordClock
  BY <1>18 DEF RecordClock
<1>19. CASE RecordCheck
  BY <1>19 DEF RecordCheck
<1>20. CASE RecordAccount
  BY <1>20 DEF RecordAccount
<1>21. CASE RecordClear
  BY <1>21 DEF RecordClear
<1>22. CASE PlayFails
  BY <1>22 DEF PlayFails
<1>23. CASE PlayFileFails
  BY <1>23 DEF PlayFileFails
<1>24. CASE PlayOpens
  BY <1>24 DEF PlayOpens
<1>25. CASE PlayStops
  BY <1>25 DEF PlayStops
<1>26. CASE PlayClear
  BY <1>26 DEF PlayClear
<1> QED
  BY <1>1, <1>2, <1>3, <1>4, <1>5, <1>6, <1>7, <1>8, <1>9, <1>10, <1>11,
     <1>12, <1>13, <1>14, <1>15, <1>16, <1>17, <1>18, <1>19, <1>20, <1>21,
     <1>22, <1>23, <1>24, <1>25, <1>26
  DEF Next, UiThread, Worker

(* The pause handler's clock is never behind the start it subtracts: its   *)
(* button stays disabled until the recording has begun (update_ui,         *)
(* record_pause_event).                                                    *)
THEOREM PauseInOrder == Spec => []PauseNeverWraps
<1>1. ClickInv => PauseNeverWraps
  BY DEF ClickInv
<1> QED
  BY <1>1, WorkerInit, WorkerStep, ClickInit, TimeStep, ClickStep, PTL DEF Spec
-----------------------------------------------------------------------------
(* The rest of the types: times recorded stay within their 32 bits.        *)
RestOK ==
  /\ wnow \in 0 .. MaxTime /\ duration \in 0 .. Wrap - 1
  /\ quit \in BOOLEAN /\ stop_requested \in BOOLEAN /\ return_to_library \in BOOLEAN
  /\ path \in BOOLEAN /\ play_off \in BOOLEAN

(* A difference of times is reduced to the width of duration_ms.           *)
LEMMA RecordedRange ==
  ASSUME RestOK, start \in Int, NEW t \in Int
  PROVE  Recorded(t) \in 0 .. Wrap - 1
<1>1. Wrap \in Nat \ {0} /\ duration + t - start \in Int
  BY RecorderAssumption DEF RecorderAssumption, RestOK
<1> DEFINE d == duration + t - start
<1>2. d % Wrap \in 0 .. Wrap - 1
  <2> HIDE DEF d
  <2>1. d \in Int
    BY <1>1 DEF d
  <2>2. QED
    BY <1>1, <2>1
<1>3. QED
  BY <1>2 DEF Recorded

LEMMA RestStep == TimeInv /\ RestOK /\ [Next]_vars => RestOK'
<1> SUFFICES ASSUME TimeInv, RestOK, [Next]_vars PROVE RestOK'
  OBVIOUS
<1>0. now \in 0 .. MaxTime /\ 0 \in 0 .. Wrap - 1
  BY RecorderAssumption DEF RecorderAssumption, TimeInv
<1>d. Recorded(now) \in 0 .. Wrap - 1 /\ Recorded(unow) \in 0 .. Wrap - 1
  BY RecordedRange DEF TimeInv
<1> USE DEF RestOK, app, thread, ui, Idle
<1>1. CASE UNCHANGED vars
  BY <1>1 DEF vars
<1>2. CASE Tick
  BY <1>0, <1>d, <1>2 DEF Tick
<1>3. CASE NewRecording
  BY <1>0, <1>d, <1>3 DEF NewRecording, Launch
<1>4. CASE SelectFile
  BY <1>0, <1>d, <1>4 DEF SelectFile
<1>5. CASE Play
  BY <1>0, <1>d, <1>5 DEF Play, Launch
<1>6. CASE Back
  BY <1>0, <1>d, <1>6 DEF Back
<1>7. CASE Stop
  BY <1>0, <1>d, <1>7 DEF Stop
<1>8. CASE Exit
  BY <1>0, <1>d, <1>8 DEF Exit
<1>9. CASE PauseClick
  BY <1>0, <1>d, <1>9 DEF PauseClick
<1>10. CASE PauseLocked
  BY <1>0, <1>d, <1>10 DEF PauseLocked
<1>11. CASE UpdateUi
  <2>1. play_off' = IF view = "PLAYER" THEN state \in {"PLAYING", "BUSY"} ELSE play_off
    BY <1>11, Zenon DEF UpdateUi
  <2>2. play_off' \in BOOLEAN
    <3>1. CASE view = "PLAYER" /\ state \in {"PLAYING", "BUSY"}
      BY <2>1, <3>1, SMT
    <3>2. CASE view = "PLAYER" /\ state \notin {"PLAYING", "BUSY"}
      BY <2>1, <3>2, SMT
    <3>3. CASE view # "PLAYER"
      BY <2>1, <3>3, SMT
    <3>4. QED
      BY <3>1, <3>2, <3>3, Zenon
  <2>3. UNCHANGED <<wnow, duration, quit, stop_requested, return_to_library, path>>
    BY <1>11 DEF UpdateUi
  <2>4. QED
    BY <2>2, <2>3, Zenon
<1>12. CASE Done
  BY <1>0, <1>d, <1>12 DEF Done
<1>13. CASE RecordFails
  BY <1>0, <1>d, <1>13 DEF RecordFails
<1>14. CASE RecordOpens
  BY <1>0, <1>d, <1>14 DEF RecordOpens
<1>15. CASE RecordStarts
  BY <1>0, <1>d, <1>15 DEF RecordStarts
<1>16. CASE RecordQuits
  BY <1>0, <1>d, <1>16 DEF RecordQuits
<1>17. CASE RecordStartFails
  BY <1>0, <1>d, <1>17 DEF RecordStartFails
<1>18. CASE RecordClock
  BY <1>0, <1>d, <1>18 DEF RecordClock
<1>19. CASE RecordCheck
  BY <1>0, <1>d, <1>19 DEF RecordCheck
<1>20. CASE RecordAccount
  BY <1>0, <1>d, <1>20 DEF RecordAccount
<1>21. CASE RecordClear
  BY <1>0, <1>d, <1>21 DEF RecordClear
<1>22. CASE PlayFails
  BY <1>0, <1>d, <1>22 DEF PlayFails
<1>23. CASE PlayFileFails
  BY <1>0, <1>d, <1>23 DEF PlayFileFails
<1>24. CASE PlayOpens
  BY <1>0, <1>d, <1>24 DEF PlayOpens
<1>25. CASE PlayStops
  BY <1>0, <1>d, <1>25 DEF PlayStops
<1>26. CASE PlayClear
  BY <1>0, <1>d, <1>26 DEF PlayClear
<1> QED
  BY <1>1, <1>2, <1>3, <1>4, <1>5, <1>6, <1>7, <1>8, <1>9, <1>10, <1>11,
     <1>12, <1>13, <1>14, <1>15, <1>16, <1>17, <1>18, <1>19, <1>20, <1>21,
     <1>22, <1>23, <1>24, <1>25, <1>26
  DEF Next, UiThread, Worker

(* Type correctness: in particular a recorded time stays within 32 bits    *)
(* whatever the clock reads when it is taken (record_worker).              *)
THEOREM TypeCorrect == Spec => []TypeOK
<1> DEFINE Inv == WorkerInv /\ TimeInv /\ ClickInv /\ RestOK
<1>1. Init => Inv
  <2>1. Init => RestOK
    <3>1. 0 \in 0 .. MaxTime /\ 0 \in 0 .. Wrap - 1
      BY RecorderAssumption DEF RecorderAssumption
    <3>2. QED
      BY <3>1, Zenon DEF Init, RestOK
  <2>2. QED
    BY <2>1, WorkerInit, ClickInit
<1>2. Inv /\ [Next]_vars => Inv'
  BY WorkerStep, TimeStep, ClickStep, RestStep
<1>3. Inv => TypeOK
  BY RecorderAssumption DEF RecorderAssumption, WorkerInv, FlagsOK, TimeInv, ClickInv,
     RestOK, TypeOK
<1>4. QED
  BY <1>1, <1>2, <1>3, PTL DEF Spec
=============================================================================
