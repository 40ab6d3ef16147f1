------------------------------ MODULE Recorder ------------------------------
(***************************************************************************)
(* The recorder application, app/recorder_app/recorder_app_main.c.         *)
(*                                                                         *)
(* The LVGL thread runs the button handlers one at a time and refreshes    *)
(* the pages every 100 ms; a recording or a playback is the business of    *)
(* one detached worker.  They share struct recorder_app_s under app->lock, *)
(* and every step here is one critical section of that lock (or a part     *)
(* that touches nothing shared).  Time is a counter of clock ticks; the    *)
(* code subtracts 32-bit times, so differences wrap modulo Wrap.           *)
(***************************************************************************)
EXTENDS Integers

CONSTANTS
  MaxSeconds,   (* RECORDER_MAX_SECONDS, in ticks                          *)
  Wrap,         (* 2^32                                                    *)
  MaxTime       (* bound on the clock                                      *)

ASSUME RecorderAssumption ==
  /\ MaxSeconds \in Nat \ {0} /\ MaxTime \in Nat
  /\ Wrap \in Nat /\ MaxSeconds < Wrap /\ MaxTime < Wrap

VARIABLES
  now,
  state, view, quit, stop_requested, return_to_library, worker_active,
  recorder,        (* app->recorder # NULL                                 *)
  path,            (* app->path # ""                                       *)
  duration, start, (* duration_ms, state_start_ms                          *)
  workers,         (* threads created and not ended                        *)
  wpc, wnow,       (* the latest one: position, its now_ms                 *)
  upc, unow,       (* the UI thread: position, now_ms of the pause handler *)
  shown,           (* ui->shown_view                                       *)
  pause_off, play_off   (* LV_STATE_DISABLED of the two buttons            *)

app    == <<state, view, quit, stop_requested, return_to_library, worker_active, recorder,
            path, duration, start>>
thread == <<workers, wpc, wnow>>
ui     == <<upc, unow, shown, pause_off, play_off>>
vars   == <<now, app, thread, ui>>

Init ==
  /\ now = 0
  /\ state = "IDLE" /\ view = "LIBRARY" /\ quit = FALSE /\ stop_requested = FALSE
  /\ return_to_library = FALSE /\ worker_active = FALSE /\ recorder = FALSE
  /\ path = FALSE /\ duration = 0 /\ start = 0
  /\ workers = 0 /\ wpc = "none" /\ wnow = 0
  /\ upc = "run" /\ unow = 0 /\ shown = "LIBRARY" /\ pause_off = FALSE /\ play_off = FALSE

(* The time recorded by t, in the 32 bits of duration_ms.                  *)
Recorded(t) == (duration + t - start) % Wrap

Tick ==
  /\ now < MaxTime
  /\ now' = now + 1
  /\ UNCHANGED <<app, thread, ui>>
-----------------------------------------------------------------------------
(* The buttons.  A hidden or disabled one is not clicked.                  *)

Button(page) == upc = "run" /\ shown = page

Launch(worker, page) ==
  \/ /\ state' = "BUSY" /\ worker_active' = TRUE
     /\ view' = page
     /\ wpc' = worker /\ workers' = workers + 1
  \/ /\ UNCHANGED <<state, worker_active, workers, wpc>>   (* pthread_create failed *)
     /\ view' = IF page = "RECORD" THEN "LIBRARY" ELSE page

NewRecordingUnchecked ==
  /\ Button("LIBRARY")
  /\ stop_requested' = FALSE /\ duration' = 0 /\ path' = FALSE
  /\ Launch("record", "RECORD")
  /\ UNCHANGED <<now, quit, return_to_library, recorder, start, wnow, ui>>

(* new_event, start_record                                                 *)
NewRecording ==
  /\ Button("LIBRARY") /\ state = "IDLE"
  /\ stop_requested' = FALSE /\ duration' = 0 /\ path' = FALSE
  /\ Launch("record", "RECORD")
  /\ UNCHANGED <<now, quit, return_to_library, recorder, start, wnow, ui>>

(* file_event, with a file that parses                                     *)
SelectFile ==
  /\ Button("LIBRARY") /\ state = "IDLE"
  /\ path' = TRUE /\ duration' = 0 /\ view' = "PLAYER"
  /\ UNCHANGED <<now, state, quit, stop_requested, return_to_library, worker_active,
                 recorder, start, thread, ui>>

(* player_play_event, start_play                                           *)
Play ==
  /\ Button("PLAYER") /\ ~play_off /\ state = "IDLE" /\ path
  /\ stop_requested' = FALSE /\ duration' = 0
  /\ Launch("play", view)
  /\ UNCHANGED <<now, quit, return_to_library, recorder, path, start, wnow, ui>>

(* player_back_event: a playback goes on, the page changes at its end.     *)
Back ==
  /\ Button("PLAYER")
  /\ IF state \in {"PLAYING", "STOPPING", "BUSY"}
       THEN return_to_library' = TRUE /\ UNCHANGED view
       ELSE view' = "LIBRARY" /\ UNCHANGED return_to_library
  /\ UNCHANGED <<now, state, quit, stop_requested, worker_active, recorder, path, duration,
                 start, thread, ui>>

(* record_stop_event                                                       *)
Stop ==
  /\ Button("RECORD") /\ state \in {"RECORDING", "RECORD_PAUSED", "BUSY"}
  /\ stop_requested' = TRUE /\ view' = "LIBRARY"
  /\ UNCHANGED <<now, state, quit, return_to_library, worker_active, recorder, path,
                 duration, start, thread, ui>>

(* exit_event                                                              *)
Exit ==
  /\ Button("LIBRARY")
  /\ quit' = TRUE /\ stop_requested' = TRUE
  /\ UNCHANGED <<now, state, view, return_to_library, worker_active, recorder, path,
                 duration, start, thread, ui>>

(* record_pause_event reads the clock before it takes the lock.            *)
PauseClick ==
  /\ Button("RECORD") /\ ~pause_off
  /\ upc' = "pause" /\ unow' = now
  /\ UNCHANGED <<now, app, thread, shown, pause_off, play_off>>

PauseLocked ==
  /\ upc = "pause"
  /\ \/ /\ state = "RECORDING" /\ recorder
        /\ duration' = Recorded(unow)
        /\ state' = "RECORD_PAUSED"
        /\ UNCHANGED start
     \/ /\ state = "RECORD_PAUSED" /\ recorder
        /\ start' = unow
        /\ state' = "RECORDING"
        /\ UNCHANGED duration
     \/ UNCHANGED <<state, start, duration>>   (* nothing to do, or an error *)
  /\ upc' = "run"
  /\ UNCHANGED <<now, view, quit, stop_requested, return_to_library, worker_active, recorder,
                 path, thread, unow, shown, pause_off, play_off>>

UpdateUiPauseOn ==
  /\ upc = "run"
  /\ shown' = view
  /\ pause_off' = FALSE
  /\ play_off' = IF view = "PLAYER" THEN state \in {"PLAYING", "BUSY"} ELSE play_off
  /\ UNCHANGED <<now, app, thread, upc, unow>>

(* update_ui                                                               *)
UpdateUi ==
  /\ upc = "run"
  /\ shown' = view
  /\ pause_off' = IF view = "RECORD" THEN state = "BUSY" ELSE pause_off
  /\ play_off' = IF view = "PLAYER" THEN state \in {"PLAYING", "BUSY"} ELSE play_off
  /\ UNCHANGED <<now, app, thread, upc, unow>>

(* run's loop ends and the application is torn down.                       *)
Done ==
  /\ upc = "run" /\ quit /\ ~worker_active /\ state = "IDLE"
  /\ upc' = "done"
  /\ UNCHANGED <<now, app, thread, unow, shown, pause_off, play_off>>
-----------------------------------------------------------------------------
(* The record worker.                                                      *)

Idle ==
  /\ state' = "IDLE" /\ worker_active' = FALSE
  /\ wpc' = "none" /\ workers' = workers - 1

RecordFails ==   (* no card, no file name, no recorder or no device        *)
  /\ wpc = "record"
  /\ Idle /\ view' = "LIBRARY"
  /\ UNCHANGED <<now, quit, stop_requested, return_to_library, recorder, path, duration,
                 start, wnow, ui>>

RecordOpens ==
  /\ wpc = "record"
  /\ recorder' = TRUE /\ path' = TRUE /\ duration' = 0
  /\ wpc' = "starting"
  /\ UNCHANGED <<now, state, view, quit, stop_requested, return_to_library, worker_active,
                 start, workers, wnow, ui>>

RecordStartsAfresh ==
  /\ wpc = "starting"
  /\ ~quit
  /\ state' = "RECORDING" /\ start' = now
  /\ stop_requested' = FALSE
  /\ wpc' = "recording"
  /\ UNCHANGED <<now, view, quit, return_to_library, worker_active, recorder, path,
                 duration, workers, wnow, ui>>

(* The first data has been written: recording, whether or not a stop has   *)
(* been requested meanwhile.                                               *)
RecordStarts ==
  /\ wpc = "starting"
  /\ ~quit
  /\ state' = "RECORDING" /\ start' = now
  /\ wpc' = "recording"
  /\ UNCHANGED <<now, view, quit, stop_requested, return_to_library, worker_active,
                 recorder, path, duration, workers, wnow, ui>>

RecordQuits ==   (* quit leaves the start loop                             *)
  /\ wpc = "starting" /\ quit
  /\ wpc' = "recording"
  /\ UNCHANGED <<now, app, workers, wnow, ui>>

(* A start error or the 3 s timeout: the recorder is stopped and released  *)
(* first, the shared state is cleared after.                               *)
RecordStartFails ==
  /\ wpc = "starting" /\ ~quit
  /\ wpc' = "clear"
  /\ UNCHANGED <<now, app, workers, wnow, ui>>

RecordClock ==
  /\ wpc = "recording"
  /\ wnow' = now
  /\ wpc' = "check"
  /\ UNCHANGED <<now, app, workers, ui>>

Elapsed ==
  IF state = "RECORDING" THEN Recorded(wnow) ELSE duration

StopDue == stop_requested \/ quit \/ Elapsed >= MaxSeconds

RecordCheck ==
  /\ wpc = "check"
  /\ wpc' = IF StopDue THEN "account" ELSE "recording"
  /\ UNCHANGED <<now, app, workers, wnow, ui>>

RecordAccount ==
  /\ wpc = "account"
  /\ duration' = IF state = "RECORDING" THEN Recorded(now) ELSE duration
  /\ wpc' = "clear"
  /\ UNCHANGED <<now, state, view, quit, stop_requested, return_to_library, worker_active,
                 recorder, path, start, workers, wnow, ui>>

RecordClearKeepsPointer ==
  /\ wpc = "clear"
  /\ stop_requested' = FALSE
  /\ Idle /\ view' = "LIBRARY"
  /\ duration' = 0
  /\ UNCHANGED <<now, quit, return_to_library, recorder, path, start, wnow, ui>>

(* After nxrecorder_stop and release (and, for a recording, the WAV        *)
(* header) the worker clears the shared state and ends.                    *)
RecordClear ==
  /\ wpc = "clear"
  /\ recorder' = FALSE /\ stop_requested' = FALSE
  /\ Idle /\ view' = "LIBRARY"
  /\ duration' = 0   (* or the length in the WAV header, for display       *)
  /\ UNCHANGED <<now, quit, return_to_library, path, start, wnow, ui>>
-----------------------------------------------------------------------------
(* The play worker.                                                        *)

PlayFailsActive ==
  /\ wpc = "play"
  /\ state' = "IDLE"
  /\ wpc' = "none" /\ workers' = workers - 1
  /\ UNCHANGED <<now, view, quit, stop_requested, return_to_library, worker_active, recorder,
                 path, duration, start, wnow, ui>>

PlayFails ==   (* no player, or no device: the other flags stay            *)
  /\ wpc = "play"
  /\ Idle
  /\ UNCHANGED <<now, view, quit, stop_requested, return_to_library, recorder, path,
                 duration, start, wnow, ui>>

PlayFileFails ==
  /\ wpc = "play"
  /\ wpc' = "played"
  /\ UNCHANGED <<now, app, workers, wnow, ui>>

PlayOpens ==
  /\ wpc = "play"
  /\ IF stop_requested \/ quit
       THEN state' = "STOPPING" /\ wpc' = "played" /\ UNCHANGED start
       ELSE state' = "PLAYING" /\ wpc' = "playing" /\ start' = now
  /\ UNCHANGED <<now, view, quit, stop_requested, return_to_library, worker_active, recorder,
                 path, duration, workers, wnow, ui>>

PlayStops ==   (* the file has ended, or a stop was requested              *)
  /\ wpc = "playing"
  /\ wpc' = "played"
  /\ UNCHANGED <<now, app, workers, wnow, ui>>

PlayClear ==
  /\ wpc = "played"
  /\ stop_requested' = FALSE
  /\ Idle
  /\ view' = IF return_to_library THEN "LIBRARY" ELSE view
  /\ return_to_library' = FALSE
  /\ duration' \in {0, duration}   (* the time played, for display         *)
  /\ UNCHANGED <<now, quit, recorder, path, start, wnow, ui>>
-----------------------------------------------------------------------------
UiThread ==
  \/ NewRecording \/ SelectFile \/ Play \/ Back \/ Stop \/ Exit
  \/ PauseClick \/ PauseLocked \/ UpdateUi \/ Done

Worker ==
  \/ RecordFails \/ RecordOpens \/ RecordStarts \/ RecordQuits \/ RecordStartFails
  \/ RecordClock \/ RecordCheck \/ RecordAccount \/ RecordClear
  \/ PlayFails \/ PlayFileFails \/ PlayOpens \/ PlayStops \/ PlayClear

Next == Tick \/ UiThread \/ Worker

Spec == Init /\ [][Next]_vars

(* The worker runs, a handler returns, and the UI loop looks at quit after *)
(* every pass, most of them without a click.                               *)
FairSpec == Spec /\ WF_vars(Worker) /\ WF_vars(PauseLocked) /\ SF_vars(Done)
-----------------------------------------------------------------------------
States == {"IDLE", "BUSY", "RECORDING", "RECORD_PAUSED", "PLAYING", "STOPPING"}
Views == {"LIBRARY", "RECORD", "PLAYER"}
RecordPositions == {"record", "starting", "recording", "check", "account", "clear"}
PlayPositions == {"play", "playing", "played"}

TypeOK ==
  /\ now \in 0 .. MaxTime /\ wnow \in 0 .. MaxTime /\ unow \in 0 .. MaxTime
  /\ start \in 0 .. MaxTime /\ duration \in 0 .. Wrap - 1
  /\ state \in States /\ view \in Views /\ shown \in Views
  /\ quit \in BOOLEAN /\ stop_requested \in BOOLEAN /\ return_to_library \in BOOLEAN
  /\ worker_active \in BOOLEAN /\ recorder \in BOOLEAN /\ path \in BOOLEAN
  /\ pause_off \in BOOLEAN /\ play_off \in BOOLEAN
  /\ workers \in Nat
  /\ wpc \in {"none"} \cup RecordPositions \cup PlayPositions
  /\ upc \in {"run", "pause", "done"}

(* The state, the flag and the worker agree: there is one worker at most,  *)
(* the state tells which, and nothing is torn down under it                *)
(* (start_record, start_play, the workers' ends, run).                     *)
StateMatchesWorker ==
  /\ workers = IF worker_active THEN 1 ELSE 0
  /\ worker_active <=> wpc # "none"
  /\ state = "IDLE" <=> wpc = "none"
  /\ state \in {"RECORDING", "RECORD_PAUSED"} => wpc \in RecordPositions
  /\ state \in {"PLAYING", "STOPPING"} => wpc \in PlayPositions
  /\ upc = "done" => wpc = "none"

(* The pause handler never finds the recorder of an earlier recording:     *)
(* the pointer is set only while its worker is there (record_worker).      *)
RecorderIsOwn == recorder => wpc \in RecordPositions \ {"record"}

(* The pause handler's clock is never behind the start it subtracts: a     *)
(* click is possible only after the page has been refreshed without BUSY,  *)
(* so the recording started before it (record_pause_event, update_ui).     *)
PauseNeverWraps == upc = "pause" /\ state = "RECORDING" => start <= unow

(* The worker ends a recording only on request, at exit, or when the time  *)
(* recorded so far has reached the limit: pausing and resuming does not    *)
(* end it (record_worker, record_pause_event).  It does when Resume's      *)
(* clock is ahead of the worker's by more than duration: otherwise the sum *)
(* of two wrapped terms wraps back.                                        *)
ResumeKeepsRecording ==
  wpc = "check" /\ StopDue =>
    \/ stop_requested \/ quit
    \/ duration + (IF state = "RECORDING" THEN now - start ELSE 0) >= MaxSeconds

(* A requested stop ends the recording or the playback, also when it was   *)
(* requested before the microphone had started (record_worker).            *)
StopEnds == stop_requested /\ worker_active ~> ~worker_active

(* The application ends after exit whatever was going on (exit_event, run, *)
(* the workers' early returns).                                            *)
QuitEnds == quit ~> upc = "done"
=============================================================================
