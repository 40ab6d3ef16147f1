# Formal models of the D13x demo88-nor board support

The repository is an openvela/NuttX board support package for the ArtInChip
D13x (single-core RISC-V) on the demo88-nor board: chip drivers under
`src/chip/d13x`, board drivers under `src/board/d13x/demo88-nor/src` and the
applications under `src/app`. This directory holds TLA+ modules of the parts
whose correctness depends on concurrency, on ordering or on long histories,
the TLC configurations that check them, and TLAPS proofs. `PROJECT.json` maps
every definition to the lines it models.

## Inventory

| Component | State it keeps | Operations and actors | What is hard |
|---|---|---|---|
| DMIC audio lower half, `chip/d13x/d13x_dmic.c` | `pendq`, `active`, `alloc_index`, the flags `started stopping paused audio_ready dma_ready xrun`, the pair `worker_wakeup`/`worker_sem`, a cyclic two-descriptor DMA ring | ioctls of the audio upper half (start, stop, pause, resume, allocate, free, enqueue), a worker thread, the DMA channel | wakeups between flag and semaphore, three places a buffer can be in, stop against DMA errors, a ring that does not wait for its client |
| GT911 touch input, `gt911_input.c` | queue of samples, `waitsem`, one registered poller, `pressed`/`track`, `irq_pending`, watchdog | ISR, worker (I2C), open, close, read, poll | semaphore against queue over resets, missed edges, failed transfers, gestures cut by a full queue |
| GMAC0 Ethernet, `d13x_gmac.c` | TX and RX rings with owner bits, `ifup`, `link`, three works, link timer, interrupt line | `d_ifup`, `d_ifdown`, `d_txavail`, interrupt handler, LPWORK thread, watchdog, DMA engine, PHY | masking against queued work, frames that arrive during the receive loop, stuck TX, ifdown overtaking works |
| Recorder, `recorder_app_main.c` | `struct recorder_app_s` under one mutex: state, view, flags, path, times | LVGL event handlers and refresh in the UI thread, a detached record or play worker | workers torn down late, requests before the device runs, 32-bit time differences, exit at any time |
| AIC8800 Wi-Fi, `wifi_test_main.c` | netdev flags, the RX thread's flags, the SDIO mutex, shared receive buffers, cached bring-up flags | commands and ioctls, `d_ifup`/`d_ifdown`, RX thread, firmware messages | double start of the RX thread, stop that gives up, late confirmations, cached flags after a power cycle |
| WAKEUP key and PM test, `d13x_buttons.c`, `pm_test_main.c` | handler, `g_wakeup_pm_armed`, a semaphore, GPIO trigger mode, display power | button upper half, ISR, arm / wait / disarm of the wake test | who owns the interrupt; a press at every edge of the wait |
| ADC direction keys, `d13x_keyadc.c` | `buttons`, debounce counters, `enabled`, handler, calibration | polling worker, enable/disable by the button upper half | handler read under the lock and called outside; debounce over failed samples |
| SDMC1, the TF card, `d13x_sdmc.c`, `recorder_mount_sd`, `tf_test_main.c` | `g_sdmc1`, block devices, the mount point | mount worker, recorder and `tf_test`, all running one sequence | no lock between three callers; errors that are overwritten |
| SDMC0, the Wi-Fi module's bus, `d13x_sdmc.c` | `ready`, `selected`, `funcs` | power command, enumeration, accesses by the shell and the receive thread | a cache of the state of a device that loses power |
| I2C master, `d13x_i2c.c` | the controller's FIFOs and sticky status | transfers under a mutex | refused bytes, a clock held low, aborts that time out |
| RTC, `d13x_rtc.c` | counter, alarm register, semaphore, mutex | alarm wait with timeout, ISR, settime | an alarm racing the timeout |
| Serial console, `d13x_serial.c` | UART enable bits, buffers of the upper half | upper half, ISR | little of its own |
| PWM, watchdog, buzzer | register state | single calls | period arithmetic |
| Display pipeline | register state | power on/off, drawing | none concurrent |
| Boot, interrupts, bring-up | none after start | straight-line initialisation | none |
| Test commands, skills, packaging | none shared | diagnostics, documents | none |

How they interact: the recorder drives the DMIC lower half through nxrecorder
and the audio upper half (external), reads touches from the GT911 node through
LVGL (external), and writes to the card of SDMC1, which the mount worker and
`tf_test` mount as well. The Wi-Fi driver reaches its module through SDMC0.
`pm_test` and the button driver share the WAKEUP interrupt. GMAC0 and Wi-Fi are
two network devices of the same stack. All code runs on one core: an interrupt handler is
atomic, a critical section excludes everything, and a mutex excludes threads.

What makes each of the modelled components correct:

- **DMIC**: a buffer is in one place; the worker is never asleep with work to
  do; the DMA does not write what the client holds; a stop ends and returns
  everything before COMPLETE.
- **GT911**: wakeups and samples match; a poller hears of every sample; the
  samples form whole gestures; a latched frame is always fetched.
- **GMAC0**: driver and engine agree on both rings; no received frame and no
  packet to send is left behind; the line is open only when the handler can
  act; link state follows the PHY and polling ends with ifdown.
- **Recorder**: at most one worker and the state tells which; the pointer the
  pause handler uses belongs to the running recording; a stop and an exit take
  effect whatever was going on; recorded time is counted once.
- **Wi-Fi**: carrier, connection and receive thread agree between commands; the
  frame a thread hands to the stack is the one it converted; each of the three
  readers of the firmware's FIFO gets the messages it waits for; a confirmation
  belongs to its request; every modelled command returns.
- **WAKEUP key**: the wake test wakes for a press since it armed the key and for
  nothing else, and every exit gives back interrupt, edges and display.
- **ADC keys**: what the upper half is told was sampled three times in a row,
  and a key held long enough is told.
- **RTC**: a thread is told of its own alarm only, and misses none.
- **I2C**: OK means that every byte of every message went over the bus in order;
  every transfer returns.
- **TF card**: OK means mounted, and an error on a good card has a cause outside
  the call.
- **SDMC0**: the driver takes the module for enumerated only while it is.

## Modules

| Module | Models | Notes |
|---|---|---|
| `Dmic` | the DMIC driver with its client, worker and DMA ring | every critical section is one action; `cpc`/`wpc` are the positions of the ioctl and of the worker |
| `CaptureContract` | what a capture driver promises its client | abstract; `Dmic` implements it (`KeepsContract`) |
| `Gt911Input` | the touch driver, its clients and the controller | `dev->lock` is `wpc # "wait"`; `Vfs` says whether close waits for calls in progress |
| `Gmac` | the Ethernet driver, the work queue, the line and the engine | `Preempted` stops every thread while an unmasked interrupt is pending |
| `SlotFifo` | what a ring of descriptors promises its two sides | abstract; both rings of `Gmac` implement it (`RingsAreFifos`) |
| `Recorder` | the application's UI thread and workers | time is a bounded counter, differences wrap at `Wrap` |
| `Wifi` | the AIC8800 driver: one shell's connect, scan, ifup and ifdown, the receive threads, the stack's transmit poll, the firmware's FIFO | `cpc`, `rpc[t]` and `tpc` are the positions of the command, of each thread and of the poll; `sdio` and `net` are the owners of `g_wifi_test_sdio_lock` and of the stack's lock |
| `Wakeup` | the WAKEUP key, `board_button_irq`, the whole wake test | `tpc` is the test's position; the critical section of `pm_arm` is two steps, because the key may move in between |
| `KeyAdc` | the key ADC's worker and its enable and disable | a sample is the key it is classified as, or fails |
| `Rtc` | the alarm, its interrupt and mutex, the setting of the time | the counter wraps at `MaxTime` |
| `I2c` | the polled master on a DesignWare controller and a slave | `wire` is what has been on the bus, compared with the messages |
| `Storage` | slot set-up, reprobe, mount by any number of callers, umount | `Asks` and `Lenient` tell the callers' variants of the sequence apart |
| `Sdmc0` | power, enumeration and accesses of the Wi-Fi module's bus | `module` is the module's own state, the rest what the driver remembers |
| `DmicProofs`, `GmacProofs`, `Gt911Proofs`, `RecorderProofs`, `WifiProofs` | theorems about the module of that name | see Proofs |
| `I2cProofs`, `CardProofs`, `DriversProofs` | theorems about `I2c`; about `Storage` and `Sdmc0`; about `Wakeup`, `Rtc`, `KeyAdc` and the instance `MCDrivers` | see Proofs |
| `MCDmic`, `MCGt911Input`, `MCGmac`, `MCRecorder`, `MCWifi` | instances for TLC | constants only |
| `MCDrivers` | the six small drivers in one instance | they share no state: a behaviour is that of one of them, with the others at rest |

Names of actions follow the functions (`EnqueueBuffer`, `process_points`,
`devif_poll`, `IrqAck`, ...). Where a function leaves its critical section it
is split, and the part is named for what it does (`StartTake`, `StartRing`,
`StartRun`). Next to some actions stands a faulty variant
(`TopStarvedKeepsFlag`, `FreeTxUnchecked`, ...); no specification uses them:
they show for each property a slip in the code that would break it.

## Runs

| Run | Question | Result |
|---|---|---|
| `dmic` | over every interleaving of ioctls, worker and DMA: does the driver keep the capture contract, is no wakeup and no buffer lost, does a client that keeps up ever share a buffer with the DMA, does a stop complete? | holds (738,000 states) |
| `dmic_late` | is COMPLETE the last thing, with nothing left in the driver? | violated: `stopping` is cleared before the callback |
| `gt911` | do semaphore, queue, poller and gestures agree with two threads, and is every latched frame fetched although edges and transfers fail? | holds (944,000 states) |
| `gmac` | rings as FIFOs, masking, transmission and link polling over ifup, ifdown and a restart | holds (515,000 states) |
| `gmac_restart` | does `d_ifup` always return? | violated: `irqwork` that ifdown leaves queued starts an interrupt storm |
| `recorder` | one worker, own pointer, real times, stop and exit take effect | holds (273,000 states) |
| `recorder_resume` | does Resume keep the recording? | violated: the worker reads the clock before the lock, and if Resume's reading is later by more than what was recorded before the pause, the worker's sum is negative and passes the limit; after a longer recording the sum wraps back and nothing ends |
| `wifi` | do link, threads and FIFO agree over every order of commands, failures and messages, and does every command return? | holds (523,000 states) |
| `wifi_late` | is the confirmation a request takes its own? | violated: only the message id is compared, and the late answer to a request of the same kind that timed out is taken |
| `drivers` | the properties of the six small drivers listed above | holds (398,000 states) |
| `pm_buttons` | does the wake test restore `/dev/buttons` on every exit? | violated: a program that opens it during the test is refused the interrupt, and nobody asks again |
| `recorder_mount` | does OK of `recorder_mount_sd` mean mounted? | violated: the result of the partition scan overwrites the mount's error |

Two of the properties are refinements. `KeepsContract` maps the client's
buffers, those in the driver's three places and the COMPLETE messages of `Dmic`
to the variables of `CaptureContract`; `RingsAreFifos` maps the descriptors
each side has handed over and the other has not taken to a `SlotFifo`, once for
the transmit and once for the receive ring.

Deadlock is checked except in `MCRecorder`, where the application ends, and in
`MCDrivers`, where calls, presses and transfers are bounded and all may be used.

### Bounds, and why they are enough

- `dmic`: three buffers, one more than the driver's
  `D13X_DMIC_BUFFER_COUNT`, so that the order of buffers can go wrong
  (`dmic_late` has the driver's two); a semaphore that saturates at 2, so that
  both overflow and the normal range occur. Three kinds of client: `prompt`
  returns a buffer within a period, `slow` does not, `late` also enqueues
  between the reset of the flags and COMPLETE.
- `gt911`: a queue of two (a frame yields at most two samples, so empty, partly
  filled and overflowing queues all occur), two threads, two touch ids, two
  places, a watchdog of two ticks (the code's `GT911_INPUT_WATCHDOG_TICKS`
  only scales it). No symmetry set, since liveness is checked too. A close that
  waits for calls in progress and one that does not are both in the run.
- `gmac`: two descriptors per ring (full, empty and wrapped rings occur; the
  code has `D13X_GMAC_RX_COUNT` and `D13X_GMAC_TX_COUNT`), one packet waiting
  in the stack, one `ifdown` and so one restart. `InterruptsNotLost` is about
  the time up to the first `ifdown`: afterwards it is false, and
  `gmac_restart` shows what follows.
- `recorder`: recordings of two ticks, a clock of four, times that wrap at
  eight: a recording reaches its limit, is paused and resumed before and after
  it, and a negative difference is far above the limit, as with 2^32 ms.
- `wifi`: loops of two packets where the code drains up to four, and one
  packet skipped: every loop can end by success, by an empty FIFO and by its
  limit. A FIFO of two messages that may share a packet, so that a packet with
  several messages, of which the first decides, occurs. Two thread slots, so
  that a second thread could appear where only one may. Flow control lets one
  request queue in the firmware in `wifi` and two in `wifi_late`, which needs a
  request that is still to be answered when the next one is written.
- `drivers`: three presses of the WAKEUP key (one before, one during and one
  after the wait); two keys and none, three equal samples as in the code, three
  openings of the node; two threads that wait for an alarm of two ticks on a
  counter that wraps after four, a semaphore that overflows at two; an I2C FIFO
  of two commands with messages of up to three bytes, so that it runs full,
  three transfers, so that one follows one that followed a failure, two hangs;
  three callers that mount, two partitions, three mount calls; two clients of
  SDMC0 with two retries.

### Fairness

- `Dmic!FairSpec`: the worker (a kernel thread of higher priority than the
  application), the call in progress and the client's message loop proceed.
  No ioctl and no hardware event is assumed to happen.
- `Gt911Input!FairSpec`: the worker runs at least every 50 ms; status read and
  clear succeed again and again if tried again and again (the bus is not dead
  for ever). Interrupt edges and clients are not fair.
- `Gmac!FairSpec`: interrupt, timer, engine and bounded waits proceed; the work
  thread is strongly fair because interrupts disable it again and again but do
  not use all of the CPU; an MDIO read succeeds if tried again and again.
  Received frames and PHY changes are not fair.
- `Recorder!FairSpec`: worker threads and a running handler proceed; the UI
  loop looks at `quit` once per pass, and most passes come without a click
  (strong fairness of `Done`). The clock is not fair.
- `Wifi!FairSpec`: the command in progress, the receive thread and a transmit
  poll that has begun are strongly fair: a mutex passes to a waiter when it is
  released, however often others take it, and the status read repeated under
  the SDIO lock succeeds in the end. Firmware, access point, the user and the
  stack's traffic are not fair: the code's own limits must end its waits.
- `MCDrivers!MCSpec`: the key ADC's worker and the I2C client run, and the
  controller moves unless the slave holds the clock; not every sample of the
  ADC fails (strong fairness of `Sampled`). Keys, the button upper half and the
  slave are not fair: a transfer returns even if the clock is held for ever.

## Proofs

Every theorem holds for every value of the constants that its module's
`ASSUME` allows; TLC evaluates each of these assumptions in a passing run.
Each proof names the strengthened invariant, shows that the initial states
satisfy it, that every action preserves it (one step per action), and that it
implies the property. Every invariant and action property that a run checks is
proved, and so are both refinements.

**DMIC** (`DmicProofs`)

- `TypeCorrect` (`TypeOK`). It is not inductive alone: `Deliver` and
  `FinishReturn` append the worker's local buffer to the client's sequence, so
  it must not be `None` there. `ApbInv` adds that at the worker's positions
  between taking a buffer and handing it on, `apb` is a buffer.
- `NeverLosesWakeup` (`NoLostWakeup`). A set `worker_wakeup` means that a post
  is still to come or in the semaphore, or that the worker is awake
  (`FlagInv`); a sleeping worker with an empty semaphore therefore left with the
  flag clear, and work that appeared since came from a call that will kick
  (`SleepInv`). That only the positions of the two places matter needs the
  client's order of calls (`SessionInv`). `WakeInv` is their conjunction.
- `PauseIsReal` (`PauseAgrees`): the pause register follows `paused` except
  inside the call that is about to write it, and nothing but a start clears it
  (`PausedInv`).
- `LosesNoBuffer` (`NoLostBuffer`): `PlaceInv` says how `active` and the
  worker's own `apb` go together at each position; `OnceInv`, that neither
  queue holds a buffer twice, that the client's, the pending and the one in
  hand are disjoint, and that together they are what was allocated. The lemmas
  on `Elems` say what appending and taking do to a queue without repetitions.
- `ImplementsContract` (`KeepsContract`): the buffer in hand followed by the
  pending queue is the contract's queue. `OwnedStep` says what each step does to
  it and to the client's sequence, `ContractStep` maps each step to one of the
  contract or to a stutter. That COMPLETE finds the driver empty is
  `EmptiedInv`.
- `PromptClientKeepsUp` (`PromptKeepsUp`): the DMA ring goes round in slot
  order and knows nothing of the queue, so the two must be in step. `CountInv`
  counts the allocated buffers with `alloc_index`, so that a channel that
  starts has a ring of all slots; `OrderInv` says that before a session the queue holds
  the first slots in order, and that during one the driver's queue followed by
  the client's is one full round of the ring, from wherever it stands;
  `FillInv`, that the channel fills the first of the driver's buffers that is
  not filled yet, where a buffer is filled while its period is unacknowledged
  or the worker holds it between claim and delivery; `ChannelInv`, at which
  positions the channel may run.

**GMAC0** (`GmacProofs`)

- `TypeCorrect` (`TypeOK`) and `RingsStayTogether` (`RingsAgree`). The engine
  owns a segment of each ring, counted modulo its length, that ends at the
  driver's head (`RxInv`, `TxInv`); on the transmit ring the segment from
  `txtail` to the engine's index is what was sent and not yet reaped, and both
  lengths add up to `txpending`. The lemmas on `Segment` do the arithmetic
  modulo a variable once; `RingGive` and `RingTake` are the two moves of any
  such ring.
- `RingsImplementFifos` (`RingsAreFifos`): from the same invariant, read as a
  sequence of slots (`Order`), every step of either side is a step of a
  `SlotFifo` or a stutter. A start empties both.
- `NoInterruptLost` (`InterruptsNotLost`): until the first ifdown `irqwork` is
  queued or runs exactly while the line is masked (`LineInv`), and a filled
  descriptor has left a status bit that the work has yet to read, or is in
  reach of a receive loop still running (`FilledInv`; the second needs that
  the loop never has handled more frames than it has given descriptors back).

**GT911** (`Gt911Proofs`)

- `TypeCorrect` (`TypeOK`): a queue never exceeds its depth, because a frame's
  samples are cut to the room left (`SamplesRun`, `FittingFits`).
- `NoWakeupLost` (`PostsMatchSamples`): inductive with `LockInv`, which says
  that the worker holds the lock only of an open device and that a closed one
  keeps no samples. `PostGives` counts what a loop of posts does to the
  semaphore and to the threads blocked on it.
- `PollersAreNotified` (`PollSeesSamples`).
- `GesturesAreWhole` (`StreamAgreesUnlessFull`): "a sequence of whole gestures"
  is stated as the existence of a run of the driver's states, one per sample,
  and the lemmas on `Run` join, cut and extend runs.

**Recorder** (`RecorderProofs`)

- `OneWorker` (`StateMatchesWorker`) and `OwnRecorder` (`RecorderIsOwn`):
  `WorkerInv` adds that a recording that has not started is `BUSY`, so that
  nothing but its own worker changes its state. `PauseInOrder`
  (`PauseNeverWraps`) needs besides that all times are in the clock's past
  (`TimeInv`) and that the pause button is enabled only while no recording is
  about to start (`ClickInv`): the handler's early look at the clock is
  harmless because of the button, not because of the lock. `TypeCorrect` is the
  type invariant they start from; no run checks it separately.

**Wi-Fi** (`WifiProofs`)

- `LinkHasThread` (`LinkAgrees`): `ThreadInv` says that there is at most one
  receive thread, that `rx_running` tells of it once it has begun, and that a
  command which exchanges messages for a connect has seen its end; `LinkInv`
  ties carrier, connection and thread together between commands.
- `FramesIntact` (`FramesIntactUnlessPolled`): with one thread, the frame it
  converted into `d_buf` is there until it hands it over (`FeedInv`).
- `AnswersReachWaiter` (`AnswersArrive`): the confirmation awaited is still to
  be made or in the FIFO, and an older one only if the drain before the request
  was cut short (`AnswerInv`).
- `TypeCorrect` (`TypeOK`): the bound of the module's FIFO is over packets
  with any number of messages; the messages are counted by their places
  (`Held`), and the lemmas say how a put, a read and ageing move places.

**Small drivers** (`DriversProofs`, `I2cProofs`, `CardProofs`)

- `WakesForPressOnly` (`WakesForPress`) and `AlwaysRestores` (`TestRestores`):
  owner, edges and the two interrupt enables follow from the test's position
  (`OwnerInv`), and a press since the key was armed is latched, posted or
  already taken (`PressInv`).
- `OwnAlarm` (`OwnAlarmOnly`): the mutex is held from the first to the last
  step of a call (`LockInv`), the alarm is on only inside one, and the
  semaphore was emptied after the previous one (`AlarmInv`).
- `ButtonsDebounced` (`ChangesDebounced`, an action property): the worker's
  counter of equal samples never exceeds the streak there really was, and the
  semaphore never the number of enables (`CountInv`).
- `DriversTypeCorrect` (`DriversTypeOK`): the drivers share no state, so the
  conjunction of their invariants (`DriversInv`) is inductive for the whole.
- `TransfersAreDone` (`SuccessMeansDone`): `FormInv` has the positions and that
  at most one byte to be read is outstanding. `GoodInv` says of a transfer not
  aborted that the commands in the FIFO are those of consecutive bytes of the
  messages, that only the last carries the STOP, and that the events of all
  bytes before the next one due are on the bus. What the bus should carry is
  stated by the place of each event in it rather than by concatenation, so that
  no recursive definition is involved.
- `MountsAnswerTruly` (`MountAnswers`): `g_sdmc1` is set only with a device or a
  set-up under way (`HostInv`), a caller that set it finds it set unless
  another's set-up has failed or the card was unmounted since (`NotedInv`), and of
  each caller what it has seen (`SeenInv`, `AgainInv`), what it has given up on (`TriedInv`) and what it
  answered (`AnswerInv`).
- `CacheIsTrue` (`CacheAgrees`): as long as no reset fell into another client's
  enumeration there is one enumeration (`AloneInv`), whose position tells what
  is remembered and where the module is (`PositionInv`).

Only model-checked is liveness, since `ENABLED` is outside the prover's reach:
`StopCompletes`, `FramesHandled`, `TxNotStuck`, `LinkFollows`, `PollingStops`,
`StopEnds`, `QuitEnds`, `CommandsReturn`, `StopTakesEffect`, `KeysReported` and
`TransferReturns`.

## Abstractions

- Samples, peaks, file contents, frames' bytes, labels and logs are left out;
  a touch is an id and a place, a packet is a unit, a file parses or does not.
- Hardware initialisation (clocks, resets, pin functions, PHY search, MDIO bit
  timing) is one step that succeeds or fails; cache maintenance is assumed to
  do what it says.
- External code is modelled from its use: the audio upper half and nxrecorder,
  the VFS, the network stack and the work queue, LVGL's delivery of clicks, the
  DMA engines, the touch controller and the PHY.

- `Wifi`: one request stands for the upload of the firmware and one for the
  checkpoints of the bring-up; registering the device cannot fail; every data
  frame can be converted. The ages `new`, `late` and `left` of a confirmation
  and the variables `took`, `cut`, `got` and `polled` are history: no action of
  the driver reads them.
- `Wifi` assumes of its surroundings that the stack calls ifup, ifdown and
  txavail with its lock held; that `rx_thread_stop` gives up after its second
  only on a thread that waits for that lock (everything else a thread waits for
  is shorter); and `Settled`: a connect is given when the threads the commands
  before it started or stopped have had time to run. Without the last,
  `LinkAgrees`, `FramesIntactUnlessPolled` and `AnswersArrive` are false: a
  connect right behind an ifdown that gave up finds `rx_running` still set and
  starts nothing, and one right behind another finds it not yet set and starts
  a second thread. The shell's commands take seconds and the windows are
  milliseconds, but nothing in the code closes them.
- `FramesIntactUnlessPolled` excludes the one way a frame is overwritten with a
  single thread: `feed_rx_msg` converts into `d_buf` before it takes the
  stack's lock, and a transmit poll in between builds its packet there.
- `Wakeup`: the polling of the released key before and after the test is a
  guard; the display is one bit. An unmasked interrupt is taken before any
  thread's next step.
- `KeyAdc`: the ladder's voltage, its calibration and its classification are a
  choice of key; a sample between two keys is a failed one.
- `I2c`: the controller's behaviour is that of the DesignWare databook as far
  as the driver relies on it: an abort empties the FIFO and holds it empty
  until it is cleared, STOP_DET is sticky, a disable waits for a bus in use.
- `Storage`: mounting, unmounting and registering a block device are atomic;
  the card's contents (`fat`, `table`) are arbitrary but fixed. A caller reads
  `g_sdmc1` again to pass it on (`SlotBegin`), and a set-up of another caller
  that failed in between has cleared it. In a flat build the use of NULL stops
  the system: the call stays at `fault` and no caller takes another step.
  `MountAnswers` cannot say that this does not happen, because it does; it says
  that a call ends there only if it met another's failed set-up or an umount,
  and that every call that returns has answered truly.
- `MountAnswers` excuses an error when the call was itself told of an I/O
  error, or met the slot half set up by another caller or an umount: the code
  gives up in these cases by design. `CacheAgrees` excuses what happens after a
  reset or a power cut in the middle of another client's enumeration, which
  nothing in the code excludes.

## Not modelled

- `fmacfw_8800d80_u02.h` is the firmware of the Wi-Fi module as an array of
  words: data, and four fifths of all lines of the repository.
- `Wifi`: the power command, which leaves the cached progress of the bring-up
  set, `rxpoll` and `rxfeed` of the shell, two commands at a time, and the
  wireless ioctls. Most of these only store or report settings;
  `SIOCSIWESSID` and `SIOCSIWAP` also call `connect_open`. What such a call
  does is what `Connect` does when it comes alone and the stack makes it without
  its lock held; one that runs beside a command of the shell would be a second
  command.
- `Recorder`: WAV parsing, the scan of the library, waveforms and page layout.
- The calibration of the key ADC, the RTC's calendar, PWM, watchdog and buzzer:
  arithmetic on single registers.
- The serial console, whose concurrency is the upper half's; the display
  pipeline, boot and bring-up: register programming in one thread.
- The diagnostic commands (`gt911_test`, `lvgl_test` and others), interactive
  and sequential; of `tf_test` only mount and umount are in `Storage`.
- `skills`, `logs` and the packaging data: documents. The rules that the
  violated runs quote come from them and from the applications' READMEs.

Where a property covers only part of a hazard of `PROJECT.json`, because it is
stated for the case without the rest, the hazard's note says which part is left.
Known hazards beyond that list: a packet the stack has built
is discarded when the transmit ring is full (`d13x_gmac.c:723`); a failing
status read is repeated for ever under the SDIO lock
(`wifi_test_main.c:1559`); early failures of a playback leave
`return_to_library` set (`recorder_app_main.c:1009`).

## Plan

1. Proofs: what the runs check and the prover can reach is proved; the
   components added below get their inductive invariants as they come. Worth
   stating besides: the safety half of the liveness properties (a variant that
   each step of a stop, an exit or a transfer decreases), which needs no
   `ENABLED`.
2. The rest of `Wifi`: the power command together with `Sdmc0`, whose cache is
   the hardware half of the same story, and two commands at a time.
3. Pure operators, checked against reference definitions: the WAV parser, the
   key ADC's calibration, the RTC's calendar.
