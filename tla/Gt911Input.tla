----------------------------- MODULE Gt911Input -----------------------------
(***************************************************************************)
(* The GT911 touchscreen driver, board/d13x/demo88-nor/src/gt911_input.c.  *)
(*                                                                         *)
(* The controller (external) latches one frame of points and pulses INT    *)
(* until the host clears the status register; the ISR only sets            *)
(* irq_pending; the worker polls over I2C and queues DOWN, MOVE and UP     *)
(* samples of one pointer; client threads read and poll the open device.   *)
(* dev->lock covers a whole pass of the worker and the body of every file  *)
(* operation: the worker holds it while wpc # "wait".                      *)
(***************************************************************************)
EXTENDS Integers, FiniteSets, SequencesExt

CONSTANTS
  Depth,       (* GT911_INPUT_QUEUE_DEPTH                                  *)
  Ticks,       (* GT911_INPUT_WATCHDOG_TICKS                               *)
  Threads,     (* the threads that share the one open file                 *)
  Ids, Places, (* touch ids and (x, y, size) triples                       *)
  Frames,      (* the point lists the controller can report                *)
  Malformed,   (* a frame with more than GT911_INPUT_MAX_POINTS points     *)
  None,
  Vfs          (* how the VFS treats close while a call uses the file      *)

Points == [id : Ids, place : Places]

ASSUME Gt911Assumption ==
  /\ Depth \in Nat \ {0} /\ Ticks \in Nat \ {0}
  /\ IsFiniteSet(Threads) /\ Ids # {} /\ Places # {}
  /\ Frames \subseteq Seq(Points)
  /\ None \notin Ids /\ None \notin Threads /\ None \notin Frames
  /\ Malformed \notin Frames /\ Malformed # None
  /\ Vfs \subseteq {"counted", "plain"}

VARIABLES
  vfs,         (* fixed: "counted" defers close until no call uses the     *)
               (* file, "plain" closes under a blocked read or poll        *)
  opened, pressed, track, irq_pending, queue, waitsem, fds,
  irq_enabled, (* the GPIO and the interrupt controller let INT through    *)
  wpc, ticks,  (* the worker's position, its watchdog_ticks                *)
  got,         (* the point list the worker has read                       *)
  frame,       (* the frame the controller holds                           *)
  tpc,         (* position of each thread's call                           *)
  notified,    (* threads whose poll has been notified                     *)
  view,        (* history: the id the samples read so far leave pressed    *)
  dropped      (* history: the queue was full for a sample of this session *)

hw      == <<frame, irq_enabled>>
worker  == <<wpc, ticks, got>>
stream  == <<queue, pressed, track, dropped>>
clients == <<tpc, fds, notified, view>>
vars == <<vfs, opened, irq_pending, waitsem, hw, worker, stream, clients>>

(* d13x_gt911_input_register                                               *)
Init ==
  /\ vfs \in Vfs
  /\ opened = FALSE /\ pressed = FALSE /\ irq_pending = FALSE
  /\ track = CHOOSE p \in Points : TRUE   (* zeroed, not read before a DOWN *)
  /\ queue = <<>> /\ waitsem = 0 /\ fds = None
  /\ irq_enabled = FALSE /\ frame = None
  /\ wpc = "wait" /\ ticks = 0 /\ got = None
  /\ tpc = [t \in Threads |-> "idle"] /\ notified = {}
  /\ view = None /\ dropped = FALSE

At(pos) == {t \in Threads : tpc[t] = pos}
Unlocked == wpc = "wait"
Sample(flag, p) == [flag |-> flag, id |-> p.id]

-----------------------------------------------------------------------------
(* The controller and the ISR.  An edge the ISR never sees is missed.      *)

Publish ==
  /\ frame = None
  /\ frame' \in Frames \cup {Malformed}
  /\ UNCHANGED <<vfs, opened, irq_pending, waitsem, irq_enabled, worker, stream, clients>>

Interrupt ==
  /\ irq_enabled /\ frame # None /\ ~irq_pending
  /\ irq_pending' = TRUE
  /\ UNCHANGED <<vfs, opened, waitsem, hw, worker, stream, clients>>

-----------------------------------------------------------------------------
(* nxsem_post, n times: each post releases a waiting reader or, if there   *)
(* is none, is counted.                                                    *)
Post(n) ==
  \E woken \in SUBSET At("blocked") :
    /\ Cardinality(woken) <= n
    /\ Cardinality(woken) < n => woken = At("blocked")
    /\ tpc' = [t \in Threads |-> IF t \in woken THEN "granted" ELSE tpc[t]]
    /\ waitsem' = waitsem + (n - Cardinality(woken))

FittingPastEnd(samples) ==
  SubSeq(samples, 1, Min({Len(samples), Depth + 1 - Len(queue)}))

(* What is left of the samples once the queue is full.                     *)
Fitting(samples) ==
  SubSeq(samples, 1, Min({Len(samples), Depth - Len(queue)}))

Store(samples) ==
  LET fit == Fitting(samples) IN
    /\ queue' = queue \o fit
    /\ dropped' = (dropped \/ fit # samples)
    /\ notified' = IF fit = <<>> THEN notified ELSE notified \cup ({fds} \ {None})

EnqueuePostsOnce(samples) ==
  Store(samples) /\ Post(IF queue = <<>> THEN Min({1, Len(samples)}) ELSE 0)

(* enqueue, for the samples of one frame: what does not fit is dropped,    *)
(* each of the others posts the semaphore and notifies the poller.         *)
Enqueue(samples) == Store(samples) /\ Post(Len(Fitting(samples)))

Tracked(points) == {i \in DOMAIN points : pressed /\ points[i].id = track.id}

(* The point process_points follows: the first one with the tracked id,    *)
(* or else the first of the frame.                                         *)
Selected(points) ==
  points[IF Tracked(points) = {} THEN 1 ELSE Min(Tracked(points))]

SamplesNoLift(points) ==
  IF points = <<>> THEN IF pressed THEN <<Sample("up", track)>> ELSE <<>>
  ELSE IF Tracked(points) = {} THEN <<Sample("down", Selected(points))>>
  ELSE IF Selected(points) # track THEN <<Sample("move", Selected(points))>> ELSE <<>>

(* The samples of a frame: a tracked finger that is gone is lifted before  *)
(* another one goes down, a finger that stays reports only a change.       *)
Samples(points) ==
  LET release == IF pressed /\ Tracked(points) = {} THEN <<Sample("up", track)>> ELSE <<>>
      p == Selected(points)
  IN IF points = <<>> THEN release
     ELSE IF Tracked(points) = {} THEN Append(release, Sample("down", p))
     ELSE IF p # track THEN <<Sample("move", p)>> ELSE <<>>

process_points(points) ==
  /\ Enqueue(Samples(points))
  /\ pressed' = (points # <<>>)
  /\ track' = IF points = <<>> THEN track ELSE Selected(points)
-----------------------------------------------------------------------------
(* The worker.                                                             *)

WorkerIdle ==
  /\ Unlocked /\ ~opened
  /\ ticks' = 0
  /\ UNCHANGED <<vfs, opened, irq_pending, waitsem, hw, wpc, got, stream, clients>>

WorkerTick ==
  /\ Unlocked /\ opened /\ ~irq_pending /\ ticks < Ticks - 1
  /\ ticks' = ticks + 1
  /\ UNCHANGED <<vfs, opened, irq_pending, waitsem, hw, wpc, got, stream, clients>>

WorkerTakeNoWatchdog ==
  /\ Unlocked /\ opened /\ irq_pending
  /\ irq_pending' = FALSE
  /\ ticks' = 0
  /\ wpc' = "status"
  /\ UNCHANGED <<vfs, opened, waitsem, hw, got, stream, clients>>

(* take_interrupt, or the watchdog's turn: the lock is kept.               *)
WorkerTake ==
  /\ Unlocked /\ opened /\ (irq_pending \/ ticks >= Ticks - 1)
  /\ irq_pending' = FALSE
  /\ ticks' = 0
  /\ wpc' = "status"
  /\ UNCHANGED <<vfs, opened, waitsem, hw, got, stream, clients>>

StatusNotReady ==   (* nothing latched, or the transfer failed             *)
  /\ wpc = "status"
  /\ wpc' = "wait"
  /\ UNCHANGED <<vfs, opened, irq_pending, waitsem, hw, ticks, got, stream, clients>>

StatusReady ==
  /\ wpc = "status" /\ frame # None
  /\ got' = IF frame = Malformed THEN None ELSE frame
  /\ wpc' = IF frame \in {Malformed, <<>>} THEN "clear" ELSE "points"
  /\ UNCHANGED <<vfs, opened, irq_pending, waitsem, hw, ticks, stream, clients>>

(* The frame is cleared whether or not its points could be read.           *)
ReadPoints ==
  /\ wpc = "points"
  /\ got' \in {got, None}
  /\ wpc' = "clear"
  /\ UNCHANGED <<vfs, opened, irq_pending, waitsem, hw, ticks, stream, clients>>

ClearFails ==   (* the write may have reached the controller all the same  *)
  /\ wpc = "clear"
  /\ frame' \in {frame, None}
  /\ got' = None
  /\ wpc' = "wait"
  /\ UNCHANGED <<vfs, opened, irq_pending, waitsem, irq_enabled, ticks, stream, clients>>

ClearStatus ==
  /\ wpc = "clear"
  /\ frame' = None
  /\ IF got = None
       THEN UNCHANGED <<stream, waitsem, tpc, notified>>
       ELSE process_points(got)
  /\ got' = None
  /\ wpc' = "wait"
  /\ UNCHANGED <<vfs, opened, irq_pending, irq_enabled, ticks, fds, view>>
-----------------------------------------------------------------------------
(* The file operations.                                                    *)

(* reset_queue: nxsem_reset(0) leaves the blocked readers blocked.         *)
reset_queue == queue' = <<>> /\ waitsem' = 0

Open ==
  /\ Unlocked /\ ~opened
  /\ reset_queue
  /\ opened' = TRUE /\ pressed' = FALSE /\ irq_pending' = FALSE
  /\ frame' = None /\ irq_enabled' = TRUE
  /\ UNCHANGED <<vfs, track, dropped, worker, clients>>

OpenFails ==   (* clear_status or hal_gpio_enable_irq                      *)
  /\ Unlocked /\ ~opened
  /\ reset_queue
  /\ pressed' = FALSE
  /\ frame' \in {frame, None}
  /\ UNCHANGED <<vfs, opened, irq_pending, irq_enabled, track, dropped, worker, clients>>

Close ==
  /\ Unlocked /\ opened
  /\ IF vfs = "counted" THEN At("idle") = Threads ELSE At("idle") # {}
  /\ reset_queue
  /\ opened' = FALSE /\ pressed' = FALSE /\ irq_pending' = FALSE
  /\ irq_enabled' = FALSE
  /\ fds' = None /\ view' = None /\ dropped' = FALSE
  /\ UNCHANGED <<vfs, frame, track, worker, tpc, notified>>

(* read: the semaphore first, without the lock, ...                        *)
ReadBegin(t) ==
  /\ opened /\ tpc[t] = "idle"
  /\ IF waitsem > 0
       THEN waitsem' = waitsem - 1 /\ tpc' = [tpc EXCEPT ![t] = "granted"]
       ELSE tpc' = [tpc EXCEPT ![t] = "blocked"] /\ UNCHANGED waitsem
  /\ UNCHANGED <<vfs, opened, irq_pending, hw, worker, stream, fds, notified, view>>

(* ... then the sample, under it.                                          *)
ReadSample(t) ==
  /\ Unlocked /\ tpc[t] = "granted" /\ opened /\ queue # <<>>
  /\ queue' = Tail(queue)
  /\ view' = IF Head(queue).flag = "up" THEN None ELSE Head(queue).id
  /\ tpc' = [tpc EXCEPT ![t] = "idle"]
  /\ UNCHANGED <<vfs, opened, irq_pending, waitsem, hw, worker, pressed, track, dropped,
                 fds, notified>>

ReadFails(t) ==   (* ENODEV or EAGAIN                                      *)
  /\ Unlocked /\ tpc[t] = "granted" /\ (~opened \/ queue = <<>>)
  /\ tpc' = [tpc EXCEPT ![t] = "idle"]
  /\ UNCHANGED <<vfs, opened, irq_pending, waitsem, hw, worker, stream, fds, notified, view>>

PollSetupUnchecked(t) ==
  /\ Unlocked /\ opened /\ tpc[t] = "idle" /\ fds = None
  /\ fds' = t
  /\ tpc' = [tpc EXCEPT ![t] = "polling"]
  /\ notified' = notified \ {t}
  /\ UNCHANGED <<vfs, opened, irq_pending, waitsem, hw, worker, stream, view>>

(* A second poller gets EBUSY, so only the accepted setup is an action.    *)
PollSetup(t) ==
  /\ Unlocked /\ opened /\ tpc[t] = "idle" /\ fds = None
  /\ fds' = t
  /\ tpc' = [tpc EXCEPT ![t] = "polling"]
  /\ notified' = IF queue # <<>> THEN notified \cup {t} ELSE notified \ {t}
  /\ UNCHANGED <<vfs, opened, irq_pending, waitsem, hw, worker, stream, view>>

(* Woken, or timed out: whichever poller is registered is removed.         *)
PollTeardown(t) ==
  /\ Unlocked /\ tpc[t] = "polling"
  /\ fds' = None
  /\ tpc' = [tpc EXCEPT ![t] = "idle"]
  /\ notified' = notified \ {t}
  /\ UNCHANGED <<vfs, opened, irq_pending, waitsem, hw, worker, stream, view>>
-----------------------------------------------------------------------------
Worker ==
  \/ WorkerIdle \/ WorkerTick \/ WorkerTake
  \/ StatusNotReady \/ StatusReady \/ ReadPoints \/ ClearFails \/ ClearStatus

FileOperation ==
  \/ Open \/ OpenFails \/ Close
  \/ \E t \in Threads : \/ ReadBegin(t) \/ ReadSample(t) \/ ReadFails(t)
                        \/ PollSetup(t) \/ PollTeardown(t)

Next == Publish \/ Interrupt \/ Worker \/ FileOperation

Spec == Init /\ [][Next]_vars

(* The worker is a kernel thread that sleeps at most 50 ms, and the I2C    *)
(* bus does not fail for ever.  Neither edges nor clients are fair.        *)
FairSpec ==
  /\ Spec
  /\ WF_vars(Worker) /\ SF_vars(StatusReady) /\ SF_vars(ClearStatus)
-----------------------------------------------------------------------------
Queued == [flag : {"down", "move", "up"}, id : Ids]

TypeOK ==
  /\ vfs \in Vfs
  /\ opened \in BOOLEAN /\ pressed \in BOOLEAN /\ irq_pending \in BOOLEAN
  /\ track \in Points
  /\ queue \in Seq(Queued) /\ Len(queue) <= Depth
  /\ waitsem \in Nat
  /\ fds \in Threads \cup {None} /\ notified \subseteq Threads
  /\ irq_enabled \in BOOLEAN
  /\ wpc \in {"wait", "status", "points", "clear"} /\ ticks \in 0 .. Ticks - 1
  /\ got \in Frames \cup {None} /\ frame \in Frames \cup {Malformed, None}
  /\ tpc \in [Threads -> {"idle", "blocked", "granted", "polling"}]
  /\ view \in Ids \cup {None} /\ dropped \in BOOLEAN

(* No queued sample is without a wakeup, and no reader sleeps beside one:  *)
(* the semaphore and the readers already released cover the queue, over    *)
(* resets and closes under a blocked read.  With a VFS that holds the file *)
(* during a call there is no post without a sample either: a blocking read *)
(* never returns EAGAIN or ENODEV (enqueue, read, reset_queue).            *)
PostsMatchSamples ==
  LET posts == waitsem + Cardinality(At("granted")) IN
    /\ Len(queue) <= posts
    /\ At("blocked") # {} => waitsem = 0
    /\ vfs = "counted" => posts = Len(queue) /\ (At("granted") # {} => opened)

(* A poller of the open device is registered, and notified once a sample   *)
(* is there, whether it came before or after the setup (poll, enqueue).    *)
PollSeesSamples ==
  vfs = "counted" =>
    \A t \in At("polling") : fds = t /\ (queue # <<>> => t \in notified)

(* A sample that finds state (a finger's id or None) pressed leaves next.  *)
Follows(state, sample, next) ==
  \/ sample.flag = "down" /\ state = None /\ next = sample.id
  \/ sample.flag = "move" /\ state = sample.id /\ next = sample.id
  \/ sample.flag = "up" /\ state = sample.id /\ next = None

Finger == IF pressed THEN track.id ELSE None

(* What the samples read and queued so far amount to: DOWN, MOVEs, UP of   *)
(* one finger after the other, ending where the driver believes it is.     *)
StreamAgrees ==
  opened =>
    \E run \in [0 .. Len(queue) -> Ids \cup {None}] :
      /\ run[0] = view /\ run[Len(queue)] = Finger
      /\ \A i \in 1 .. Len(queue) : Follows(run[i - 1], queue[i], run[i])

(* As long as no sample was dropped, what the client reads is a sequence   *)
(* of whole gestures that ends in the driver's own state, whatever fingers *)
(* come and go and whichever frames are lost (process_points, enqueue).    *)
StreamAgreesUnlessFull == dropped \/ StreamAgrees

(* A frame the controller has latched is fetched and acknowledged although *)
(* its edge was missed or a transfer failed (worker: "A 100 ms status poll *)
(* covers missed edges").                                                  *)
FramesHandled == opened /\ frame # None ~> frame = None \/ ~opened
=============================================================================
