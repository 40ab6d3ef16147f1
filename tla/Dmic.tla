-------------------------------- MODULE Dmic --------------------------------
(***************************************************************************)
(* The D13x PDM microphone lower half, chip/d13x/d13x_dmic.c.              *)
(*                                                                         *)
(* Three actors share one priv structure:                                  *)
(*   - the client: the NuttX audio upper half (external), which serialises *)
(*     the ioctls of one capture thread; each call is split where the code *)
(*     leaves its critical section (cpc is the call's position);           *)
(*   - the worker: the kernel thread d13x_dmic_worker (wpc), woken by the  *)
(*     worker_sem / worker_wakeup pair;                                    *)
(*   - the DMA channel: a cyclic two-descriptor ring that fills the        *)
(*     buffers in address order whatever the software queue holds.         *)
(*                                                                         *)
(* A buffer is named by its slot in the capture area, 0 .. BufferCount-1.  *)
(***************************************************************************)
EXTENDS Integers, Sequences

CONSTANTS
  BufferCount,  (* D13X_DMIC_BUFFER_COUNT                                  *)
  SemMax,       (* SEM_VALUE_MAX: nxsem_post fails with EOVERFLOW there    *)
  None,         (* the NULL buffer pointer                                 *)
  Clients       (* the kinds of capture thread considered (see client)     *)

ASSUME DmicAssumption ==
  /\ BufferCount \in Nat \ {0}
  /\ SemMax \in Nat \ {0}
  /\ None \notin 0 .. BufferCount - 1
  /\ Clients \subseteq {"prompt", "slow", "late"}

Buffers == 0 .. BufferCount - 1

VARIABLES
  client,     (* fixed: "prompt" returns a buffer within one DMA period,   *)
              (* "slow" may not, "late" may also enqueue between finish's  *)
              (* reset of the flags and its COMPLETE callback              *)
  pendq, active, alloc_index, started, stopping, paused, xrun,
  audio_ready, dma_ready, worker_wakeup, worker_sem,
  cpc,        (* position of the client's call in progress                 *)
  session,    (* the client's view: idle, run (START succeeded), ending    *)
  held,       (* buffers in the client's hands, in the order it got them   *)
  live,       (* buffers that are allocated                                *)
  completes,  (* COMPLETE callbacks the client has not consumed yet        *)
  wpc,        (* position of the worker                                    *)
  apb,        (* the worker's local buffer                                 *)
  status,     (* result of the poll, then the status finish is called with *)
  running, fill, period_done, dma_error, hw_paused, last_filled

clientVars == <<client, cpc, session, held, live, completes>>
flags      == <<started, stopping, paused, xrun, audio_ready, dma_ready>>
wake       == <<worker_wakeup, worker_sem>>
workerVars == <<wpc, apb, status>>
dmaVars    == <<running, fill, period_done, dma_error, hw_paused, last_filled>>
queueVars  == <<pendq, active, alloc_index>>
vars == <<clientVars, flags, wake, workerVars, dmaVars, queueVars>>

(* aic_dmic_initialize: everything zeroed, the worker on its semaphore.    *)
Init ==
  /\ client \in Clients
  /\ pendq = <<>> /\ active = None /\ alloc_index = 0
  /\ started = FALSE /\ stopping = FALSE /\ paused = FALSE /\ xrun = FALSE
  /\ audio_ready = FALSE /\ dma_ready = FALSE
  /\ worker_wakeup = FALSE /\ worker_sem = 0
  /\ cpc = "idle" /\ session = "idle" /\ held = <<>> /\ live = {} /\ completes = 0
  /\ wpc = "wait" /\ apb = None /\ status = "ok"
  /\ running = FALSE /\ fill = 0 /\ period_done = FALSE /\ dma_error = FALSE
  /\ hw_paused = FALSE /\ last_filled = None

Elems(q) == {q[i] : i \in DOMAIN q}
HeadOrNone(q) == IF q = <<>> THEN None ELSE Head(q)
TailOrEmpty(q) == IF q = <<>> THEN q ELSE Tail(q)
NextSlot(b) == (b + 1) % BufferCount

-----------------------------------------------------------------------------
(* kick_worker: the flag is set in a critical section, the semaphore is    *)
(* posted after it.  Every caller kicks last, so both steps end the call.  *)

KickMark ==
  /\ cpc = "kick"
  /\ worker_wakeup' = TRUE
  /\ cpc' = IF worker_wakeup THEN "idle" ELSE "post"
  /\ UNCHANGED <<worker_sem, client, session, held, live, completes, flags, workerVars,
                 dmaVars, queueVars>>

KickPost ==
  /\ cpc = "post"
  /\ worker_sem' = IF worker_sem < SemMax THEN worker_sem + 1 ELSE worker_sem
  /\ cpc' = "idle"
  /\ UNCHANGED <<worker_wakeup, client, session, held, live, completes, flags, workerVars,
                 dmaVars, queueVars>>
-----------------------------------------------------------------------------
(* Buffers.  The client (nxrecorder) allocates all buffers before it       *)
(* queues any and frees them all before it allocates again.                *)

AllocUnbounded ==
  /\ cpc = "idle" /\ session = "idle" /\ completes = 0
  /\ live = 0 .. alloc_index - 1
  /\ live' = live \cup {alloc_index}
  /\ held' = Append(held, alloc_index)
  /\ alloc_index' = alloc_index + 1
  /\ UNCHANGED <<client, pendq, active, cpc, session, completes, flags, wake,
                 workerVars, dmaVars>>

AllocBuffer ==
  /\ cpc = "idle" /\ session = "idle" /\ completes = 0
  /\ alloc_index < BufferCount
  /\ live = 0 .. alloc_index - 1
  /\ live' = live \cup {alloc_index}
  /\ held' = Append(held, alloc_index)
  /\ alloc_index' = alloc_index + 1
  /\ UNCHANGED <<pendq, active, cpc, client, session, completes, flags, wake, workerVars,
                 dmaVars>>

FreeBuffer ==
  /\ cpc = "idle" /\ session = "idle" /\ completes = 0
  /\ held # <<>>
  /\ live' = live \ {Head(held)}
  /\ held' = Tail(held)
  /\ alloc_index' = IF alloc_index > 0 THEN alloc_index - 1 ELSE alloc_index
  /\ UNCHANGED <<pendq, active, cpc, client, session, completes, flags, wake, workerVars,
                 dmaVars>>

(* The client may enqueue before a session, in slot order from a fresh     *)
(* allocation, and whenever a buffer comes back during one.                *)
MayEnqueue ==
  /\ cpc = "idle" /\ held # <<>>
  /\ session = "idle" => /\ completes = 0 /\ Head(held) = Len(pendq)
                         /\ live = Buffers
  /\ session # "idle" => client = "late" \/ stopping
                         \/ (session = "run" /\ wpc # "report" /\ completes = 0)

(* With stopping set the reference is dropped and ESHUTDOWN returned: no   *)
(* state changes, so only the accepting path is an action.                 *)
EnqueueBuffer ==
  /\ MayEnqueue
  /\ ~stopping
  /\ pendq' = Append(pendq, Head(held))
  /\ held' = Tail(held)
  /\ xrun' = FALSE
  /\ cpc' = IF started THEN "kick" ELSE "idle"
  /\ UNCHANGED <<active, alloc_index, started, stopping, paused, audio_ready,
                 dma_ready, client, session, live, completes, wake, workerVars, dmaVars>>
-----------------------------------------------------------------------------
(* start.                                                                  *)

StartAudio ==
  /\ cpc = "idle" /\ session = "idle" /\ completes = 0
  /\ client = "slow" => held = <<>>   (* it primes the queue first *)
  /\ ~started
  /\ audio_ready' = TRUE
  /\ cpc' = "start_dma"
  /\ UNCHANGED <<started, stopping, paused, xrun, dma_ready, client, session, held, live,
                 completes, wake, workerVars, dmaVars, queueVars>>

StartDmaInit ==
  /\ cpc = "start_dma"
  /\ dma_ready' = TRUE
  /\ cpc' = "start_take"
  /\ UNCHANGED <<started, stopping, paused, xrun, audio_ready, client, session, held, live,
                 completes, wake, workerVars, dmaVars, queueVars>>

(* hw_configure or hal_dma_init fails: the audio block is given back.      *)
StartInitFails ==
  /\ cpc = "start_dma"
  /\ audio_ready' = FALSE
  /\ cpc' = "idle"
  /\ UNCHANGED <<started, stopping, paused, xrun, dma_ready, client, session, held, live,
                 completes, wake, workerVars, dmaVars, queueVars>>

StartTake ==
  /\ cpc = "start_take"
  /\ active' = HeadOrNone(pendq)
  /\ pendq' = TailOrEmpty(pendq)
  /\ cpc' = "start_ring"
  /\ UNCHANGED <<alloc_index, client, session, held, live, completes, flags, wake,
                 workerVars, dmaVars>>

StartRingNoUnpause ==
  /\ cpc = "start_ring" /\ active # None /\ alloc_index = BufferCount
  /\ running' = TRUE /\ fill' = 0 /\ period_done' = FALSE
  /\ dma_error' = FALSE /\ last_filled' = None
  /\ cpc' = "start_run"
  /\ UNCHANGED <<hw_paused, client, session, held, live, completes, flags, wake,
                 workerVars, queueVars>>

(* start_dma: both descriptors are linked from slot 0, the pause register  *)
(* and the channel's interrupt status are cleared, the channel enabled.    *)
StartRing ==
  /\ cpc = "start_ring" /\ active # None /\ alloc_index = BufferCount
  /\ running' = TRUE /\ fill' = 0 /\ period_done' = FALSE
  /\ dma_error' = FALSE /\ hw_paused' = FALSE /\ last_filled' = None
  /\ cpc' = "start_run"
  /\ UNCHANGED <<client, session, held, live, completes, flags, wake, workerVars, queueVars>>

StartUndoDrops ==
  /\ cpc = "start_ring" /\ (active = None \/ alloc_index # BufferCount)
  /\ active' = None
  /\ dma_ready' = FALSE /\ audio_ready' = FALSE
  /\ cpc' = "idle"
  /\ UNCHANGED <<pendq, alloc_index, started, stopping, paused, xrun, client, session,
                 held, live, completes, wake, workerVars, dmaVars>>

StartUndoAppends ==
  /\ cpc = "start_ring" /\ (active = None \/ alloc_index # BufferCount)
  /\ active' = None
  /\ pendq' = IF active = None THEN pendq ELSE Append(pendq, active)
  /\ dma_ready' = FALSE /\ audio_ready' = FALSE
  /\ cpc' = "idle"
  /\ UNCHANGED <<alloc_index, started, stopping, paused, xrun, client, session, held, live,
                 completes, wake, workerVars, dmaVars>>

(* Out of memory for the ring or nothing queued: the buffer goes back to   *)
(* the head of the queue and both blocks are given back.                   *)
StartUndo ==
  /\ cpc = "start_ring" /\ (active = None \/ alloc_index # BufferCount)
  /\ active' = None
  /\ pendq' = IF active = None THEN pendq ELSE <<active>> \o pendq
  /\ dma_ready' = FALSE /\ audio_ready' = FALSE
  /\ cpc' = "idle"
  /\ UNCHANGED <<alloc_index, started, stopping, paused, xrun, client, session, held, live,
                 completes, wake, workerVars, dmaVars>>

StartRun ==
  /\ cpc = "start_run"
  /\ started' = TRUE /\ paused' = FALSE /\ xrun' = FALSE
  /\ session' = "run"
  /\ cpc' = "kick"
  /\ UNCHANGED <<stopping, audio_ready, dma_ready, client, held, live, completes, wake,
                 workerVars, dmaVars, queueVars>>
-----------------------------------------------------------------------------
(* stop (also shutdown), pause and resume.                                 *)

StopNothing == stopping \/ (~started /\ ~audio_ready /\ ~dma_ready)

Stop ==
  /\ cpc = "idle" /\ session = "run"
  /\ session' = "ending"
  /\ IF StopNothing
       THEN UNCHANGED <<started, stopping, cpc>>
       ELSE started' = FALSE /\ stopping' = TRUE /\ cpc' = "stop_hw"
  /\ UNCHANGED <<paused, xrun, audio_ready, dma_ready, client, held, live, completes, wake,
                 workerVars, dmaVars, queueVars>>

(* hw_stop and hal_dma_abort, outside the critical section.                *)
StopHw ==
  /\ cpc = "stop_hw"
  /\ running' = FALSE
  /\ cpc' = "kick"
  /\ UNCHANGED <<fill, period_done, dma_error, hw_paused, last_filled, client, session,
                 held, live, completes, flags, wake, workerVars, queueVars>>

Pause ==
  /\ cpc = "idle" /\ session = "run"
  /\ started /\ dma_ready /\ ~paused
  /\ paused' = TRUE
  /\ cpc' = "pause_hw"
  /\ UNCHANGED <<started, stopping, xrun, audio_ready, dma_ready, client, session, held,
                 live, completes, wake, workerVars, dmaVars, queueVars>>

Resume ==
  /\ cpc = "idle" /\ session = "run"
  /\ started /\ dma_ready /\ paused
  /\ paused' = FALSE
  /\ cpc' = "resume_hw"
  /\ UNCHANGED <<started, stopping, xrun, audio_ready, dma_ready, client, session, held,
                 live, completes, wake, workerVars, dmaVars, queueVars>>

PauseHw ==
  /\ cpc \in {"pause_hw", "resume_hw"}
  /\ hw_paused' = (cpc = "pause_hw")
  /\ cpc' = "idle"
  /\ UNCHANGED <<running, fill, period_done, dma_error, last_filled, client, session, held,
                 live, completes, flags, wake, workerVars, queueVars>>

(* The capture thread reads the COMPLETE message: its session is over.     *)
TakeComplete ==
  /\ cpc = "idle" /\ completes > 0
  /\ completes' = completes - 1
  /\ session' = "idle"
  /\ UNCHANGED <<client, cpc, held, live, flags, wake, workerVars, dmaVars, queueVars>>
-----------------------------------------------------------------------------
(* The DMA channel.  It walks the descriptor ring; the interrupt status    *)
(* bit is sticky, so two periods may collapse into one completion.         *)

DmaPeriod ==
  /\ running /\ ~hw_paused /\ ~dma_error
  /\ client = "prompt" => NextSlot(fill) \in Elems(pendq) /\ ~period_done
  /\ period_done' = TRUE
  /\ last_filled' = fill
  /\ fill' = NextSlot(fill)
  /\ UNCHANGED <<running, dma_error, hw_paused, clientVars, flags, wake, workerVars,
                 queueVars>>

DmaFails ==
  /\ running /\ ~dma_error
  /\ dma_error' = TRUE
  /\ UNCHANGED <<running, fill, period_done, hw_paused, last_filled, clientVars,
                 flags, wake, workerVars, queueVars>>
-----------------------------------------------------------------------------
(* The worker.                                                             *)

WorkerWake ==
  /\ wpc = "wait" /\ worker_sem > 0
  /\ worker_sem' = worker_sem - 1
  /\ wpc' = "top"
  /\ UNCHANGED <<worker_wakeup, apb, status, clientVars, flags, dmaVars, queueVars>>

(* The critical section at the head of the inner loop: one action per      *)
(* branch.                                                                 *)
TopIdle ==
  /\ wpc = "top" /\ ~started /\ ~stopping
  /\ worker_wakeup' = FALSE
  /\ wpc' = "wait"
  /\ UNCHANGED <<worker_sem, apb, status, clientVars, flags, dmaVars, queueVars>>

TopStopping ==
  /\ wpc = "top" /\ ~started /\ stopping
  /\ worker_wakeup' = FALSE
  /\ IF active # None
       THEN apb' = active /\ pendq' = pendq
       ELSE apb' = HeadOrNone(pendq) /\ pendq' = TailOrEmpty(pendq)
  /\ active' = None
  /\ status' = "ok"
  /\ wpc' = "deinit"
  /\ UNCHANGED <<alloc_index, worker_sem, clientVars, flags, dmaVars>>

TopNext ==
  /\ wpc = "top" /\ started /\ (active # None \/ pendq # <<>>)
  /\ worker_wakeup' = FALSE
  /\ apb' = IF active # None THEN active ELSE Head(pendq)
  /\ active' = apb'
  /\ pendq' = IF active # None THEN pendq ELSE Tail(pendq)
  /\ wpc' = "poll"
  /\ UNCHANGED <<alloc_index, worker_sem, status, clientVars, flags, dmaVars>>

TopStarvedKeepsFlag ==
  /\ wpc = "top" /\ started /\ active = None /\ pendq = <<>>
  /\ apb' = None
  /\ wpc' = "xrun"
  /\ UNCHANGED <<wake, status, clientVars, flags, dmaVars, queueVars>>

TopStarved ==
  /\ wpc = "top" /\ started /\ active = None /\ pendq = <<>>
  /\ worker_wakeup' = FALSE
  /\ apb' = None
  /\ wpc' = "xrun"
  /\ UNCHANGED <<worker_sem, status, clientVars, flags, dmaVars, queueVars>>

NoteXrun ==
  /\ wpc = "xrun"
  /\ xrun' = TRUE
  /\ wpc' = "wait"
  /\ UNCHANGED <<apb, status, started, stopping, paused, audio_ready, dma_ready,
                 clientVars, wake, dmaVars, queueVars>>

PollDoneNoAck ==
  /\ wpc = "poll" /\ running /\ period_done /\ ~dma_error
  /\ status' = "ok"
  /\ wpc' = "claim"
  /\ UNCHANGED <<apb, dmaVars, clientVars, flags, wake, queueVars>>

(* poll_buffer found the period complete and acknowledged it.              *)
PollDone ==
  /\ wpc = "poll" /\ running /\ period_done /\ ~dma_error
  /\ period_done' = FALSE
  /\ status' = "ok"
  /\ wpc' = "claim"
  /\ UNCHANGED <<apb, running, fill, dma_error, hw_paused, last_filled, clientVars,
                 flags, wake, queueVars>>

(* The channel reported an error, or is no longer busy.                    *)
PollError ==
  /\ wpc = "poll" /\ (dma_error \/ ~running)
  /\ status' = "error"
  /\ wpc' = "claim"
  /\ UNCHANGED <<apb, clientVars, flags, wake, dmaVars, queueVars>>

(* A timeout with started cleared leaves the poll loop; a timeout while    *)
(* started sleeps 1 ms and polls again (no state changes).                 *)
PollStopped ==
  /\ wpc = "poll" /\ ~started /\ ~period_done
  /\ status' = "timeout"
  /\ wpc' = "claim"
  /\ UNCHANGED <<apb, clientVars, flags, wake, dmaVars, queueVars>>

(* The critical section after the poll loop, and the branch on what it     *)
(* read.                                                                   *)
Claim ==
  /\ wpc = "claim"
  /\ active' = None
  /\ wpc' = CASE started /\ status = "ok" -> "deliver"
              [] started /\ status # "ok" -> "abort"
              [] OTHER -> "deinit"
  /\ status' = IF started THEN status ELSE "ok"
  /\ UNCHANGED <<pendq, alloc_index, apb, clientVars, flags, wake, dmaVars>>

(* prepare_buffer and complete(OK), then the inner loop again.             *)
Deliver ==
  /\ wpc = "deliver"
  /\ held' = Append(held, apb)
  /\ apb' = None
  /\ wpc' = "top"
  /\ UNCHANGED <<status, cpc, client, session, live, completes, flags, wake, dmaVars,
                 queueVars>>

(* The error path: hw_stop, then the flags in a critical section, then     *)
(* hal_dma_abort.                                                          *)
AbortHw ==
  /\ wpc = "abort"
  /\ running' = FALSE
  /\ wpc' = "abort_mark"
  /\ UNCHANGED <<apb, status, fill, period_done, dma_error, hw_paused, last_filled,
                 clientVars, flags, wake, queueVars>>

AbortMark ==
  /\ wpc = "abort_mark"
  /\ started' = FALSE /\ stopping' = TRUE
  /\ status' = "error"
  /\ wpc' = "deinit"
  /\ UNCHANGED <<apb, paused, xrun, audio_ready, dma_ready, clientVars, wake,
                 dmaVars, queueVars>>

(* finish: the channel and the audio block first, ...                      *)
FinishDeinit ==
  /\ wpc = "deinit"
  /\ running' = IF dma_ready THEN FALSE ELSE running
  /\ wpc' = "return"
  /\ UNCHANGED <<apb, status, fill, period_done, dma_error, hw_paused, last_filled,
                 clientVars, flags, wake, queueVars>>

(* ... then every buffer still in the driver, ...                          *)
FinishReturn ==
  /\ wpc = "return" /\ apb # None
  /\ held' = Append(held, apb)
  /\ apb' = HeadOrNone(pendq)
  /\ pendq' = TailOrEmpty(pendq)
  /\ UNCHANGED <<active, alloc_index, status, wpc, cpc, client, session, live, completes,
                 flags, wake, dmaVars>>

(* ... then the flags in a critical section, ...                           *)
FinishClear ==
  /\ wpc = "return" /\ apb = None
  /\ stopping' = FALSE /\ audio_ready' = FALSE /\ dma_ready' = FALSE
  /\ wpc' = "report"
  /\ UNCHANGED <<apb, status, started, paused, xrun, clientVars, wake, dmaVars,
                 queueVars>>

FinishReportUnlessError ==
  /\ wpc = "report"
  /\ completes' = IF status = "ok" THEN completes + 1 ELSE completes
  /\ apb' = None
  /\ wpc' = "wait"
  /\ UNCHANGED <<status, cpc, client, session, held, live, flags, wake, dmaVars, queueVars>>

(* ... and last the COMPLETE callback (IOERR before it on an error).       *)
FinishReport ==
  /\ wpc = "report"
  /\ completes' = completes + 1
  /\ apb' = None
  /\ wpc' = "wait"
  /\ UNCHANGED <<status, cpc, client, session, held, live, flags, wake, dmaVars, queueVars>>
-----------------------------------------------------------------------------
ClientStep ==   (* a call in progress always runs to its end               *)
  \/ KickMark \/ KickPost
  \/ StartDmaInit \/ StartInitFails \/ StartTake \/ StartRing \/ StartUndo
  \/ StartRun \/ StopHw \/ PauseHw

ClientCall ==
  \/ AllocBuffer \/ FreeBuffer \/ EnqueueBuffer
  \/ StartAudio \/ Stop \/ Pause \/ Resume

Worker ==
  \/ WorkerWake \/ TopIdle \/ TopStopping \/ TopNext \/ TopStarved \/ NoteXrun
  \/ PollDone \/ PollError \/ PollStopped \/ Claim \/ Deliver
  \/ AbortHw \/ AbortMark
  \/ FinishDeinit \/ FinishReturn \/ FinishClear \/ FinishReport

Dma == DmaPeriod \/ DmaFails

Next == ClientStep \/ ClientCall \/ TakeComplete \/ Worker \/ Dma

Spec == Init /\ [][Next]_vars

(* The worker is a kernel thread above the application's priority, a call  *)
(* in progress is not abandoned, and the capture thread reads its message  *)
(* queue.  Nothing is assumed of the calls themselves or of the hardware.  *)
FairSpec == Spec /\ WF_vars(Worker) /\ WF_vars(ClientStep) /\ WF_vars(TakeComplete)

-----------------------------------------------------------------------------
CallPositions == {"idle", "kick", "post", "start_dma", "start_take", "start_ring",
                  "start_run", "stop_hw", "pause_hw", "resume_hw"}
WorkerPositions == {"wait", "top", "xrun", "poll", "claim", "deliver", "abort",
                    "abort_mark", "deinit", "return", "report"}
Finishing == {"deinit", "return", "report"}
Slots == Buffers \cup {None}

FlagsOK ==
  /\ started \in BOOLEAN /\ stopping \in BOOLEAN /\ paused \in BOOLEAN
  /\ xrun \in BOOLEAN /\ audio_ready \in BOOLEAN /\ dma_ready \in BOOLEAN
  /\ worker_wakeup \in BOOLEAN /\ running \in BOOLEAN
  /\ period_done \in BOOLEAN /\ dma_error \in BOOLEAN /\ hw_paused \in BOOLEAN

DataOK ==
  /\ client \in Clients
  /\ pendq \in Seq(Buffers) /\ active \in Slots /\ alloc_index \in 0 .. BufferCount
  /\ worker_sem \in 0 .. SemMax
  /\ cpc \in CallPositions /\ session \in {"idle", "run", "ending"}
  /\ held \in Seq(Buffers) /\ live \in SUBSET Buffers /\ completes \in Nat
  /\ wpc \in WorkerPositions /\ apb \in Slots
  /\ status \in {"ok", "timeout", "error"}
  /\ fill \in Buffers /\ last_filled \in Slots

(* The values of the driver's, the client's and the channel's variables;   *)
(* alloc_index stays within the ring and the semaphore within its limit.   *)
TypeOK == FlagsOK /\ DataOK

(* The wakeup flag and the semaphore never lose a wakeup: while the worker *)
(* sleeps with nothing posted, a stop it has to finish, or a buffer it has *)
(* to fill, is still followed by a kick of the call in progress            *)
(* (kick_worker, worker).                                                  *)
NoLostWakeup ==
  wpc = "wait" /\ worker_sem = 0 =>
    /\ stopping => cpc \in {"stop_hw", "kick", "post"}
    /\ started /\ (active # None \/ pendq # <<>>) => cpc \in {"kick", "post"}

(* Every allocated buffer is in exactly one place: with the client, in the *)
(* pending queue, or being filled or handed back by the worker.  The       *)
(* worker's local pointer and active name the same buffer until it is      *)
(* claimed (enqueuebuffer, worker, complete, finish).                      *)
Copies(b, q) == {i \in DOMAIN q : q[i] = b}
InWorker == IF wpc \in {"poll", "claim"} \/ apb = None
              THEN IF active = None THEN {} ELSE {active}
              ELSE {apb} \cup (IF active = None THEN {} ELSE {active})
NoLostBuffer ==
  /\ wpc \in {"poll", "claim"} => active = apb
  /\ live = Elems(held) \cup Elems(pendq) \cup InWorker
  /\ \A b \in live :
       LET where == {<<"held", i>> : i \in Copies(b, held)} \cup
                    {<<"pend", i>> : i \in Copies(b, pendq)} \cup
                    (IF b \in InWorker THEN {<<"work", 0>>} ELSE {})
       IN \A x, y \in where : x = y

(* While the channel runs, the slot it is filling is allocated and is not  *)
(* in the client's hands: "first stop the device and take the buffers      *)
(* back, then report" (start_dma, finish, freebuffer).                     *)
DmaNeverFillsHeld ==
  running => fill \in live /\ fill \notin Elems(held)

(* The buffer the worker is about to deliver is the one the DMA filled     *)
(* last: the software queue stays in step with the descriptor ring over    *)
(* deliveries, pauses and restarts (start_dma, worker).                    *)
QueueMatchesRing ==
  wpc = "poll" /\ started /\ period_done => apb = last_filled

(* A client that returns each buffer within a period never shares memory   *)
(* with the running channel, and gets every period in the buffer it was    *)
(* recorded into (start_dma, poll_buffer, enqueuebuffer, finish).          *)
PromptKeepsUp == client = "prompt" => DmaNeverFillsHeld /\ QueueMatchesRing

(* Between calls a capturing stream is paused in hardware exactly when the *)
(* driver says so; a restart after a stop in pause is not left frozen      *)
(* (pause, resume, start_dma).                                             *)
PauseAgrees ==
  cpc = "idle" /\ started => paused = hw_paused

(* When COMPLETE is reported, no buffer is left in the driver (finish,     *)
(* enqueuebuffer).                                                         *)
ReturnedBeforeComplete ==
  [][completes' > completes => pendq = <<>> /\ active = None]_vars

(* The driver's buffers, oldest first: the one it fills, or hands back,    *)
(* and the pending queue.                                                  *)
Owned ==
  (IF active # None THEN <<active>> ELSE IF apb # None THEN <<apb>> ELSE <<>>) \o pendq

Contract == INSTANCE CaptureContract WITH
  mine <- held, driver <- Owned, reports <- completes, exempt <- client = "late"

(* The driver implements the capture contract: over stops, errors, failed  *)
(* starts and restarts the buffers come back in the order they were given, *)
(* only during a session, and all of them before COMPLETE, unless the      *)
(* client enqueues in that very window (enqueuebuffer, start, worker,      *)
(* finish).                                                                *)
KeepsContract == Contract!Spec

(* A stop the client has issued ends: COMPLETE is reported and consumed.   *)
StopCompletes == session = "ending" ~> session = "idle"
=============================================================================
