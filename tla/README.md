# A TLA+ verification of the video driver

This directory models and checks the Qualcomm video driver (`driver/vidc` of
this repository): the kernel module that runs V4L2 decode and encode sessions on
the Venus/Iris hardware through a firmware, and the tables of capabilities it is given for
each chip (`driver/platform`, half of the repository's lines). The paths below are relative to that directory
(`driver.c` is `msm_vidc_driver.c`, `state.c` is `msm_vidc_state.c`, `response.c` is
`venus_hfi_response.c`, `queue.c` is `venus_hfi_queue.c`).

## 1. Inventory

How the parts meet. A client's ioctl enters through `msm_vidc_v4l2.c`, takes
`client_lock` and `inst->lock`, and ends in `msm_vdec.c` or `msm_venc.c`. These change the
session's state (`driver.c`, `state.c`) and send HFI packets (`venus_hfi.c`), each
under `core->lock`, through the command queue (`queue.c`), a ring in memory the
firmware shares. The firmware answers on the message queue and raises an interrupt;
the interrupt thread (`venus_hfi_isr_handler`) takes references to the sessions,
reads packets **without** `core->lock` and handles each (`response.c`) under `inst->lock`.
Some ioctls wait for an answer, having let `inst->lock` go. Works run next to
all this: the power collapse work, the firmware unload work, the page fault
handler, system sleep.

| Component | State | Operations | What is hard | What makes it correct |
|---|---|---|---|---|
| HFI queues (`queue.c`) | ring words, read and write index, rx/tx request | write, read, discard, reset | two processors, no lock; wrap; full and empty | a FIFO channel: each packet once, intact, in order |
| Session (`state.c`, `driver.c`, `msm_vdec.c`, `msm_venc.c`) | state, sub states, vb2 queues, completions | streamon and streamoff of two ports, drain, resume, close, all responses | settings changes, drains, stops and timeouts in any order; locks let go while waiting | flags agree with the firmware's ports; no client waits for ever; ERROR only with a cause |
| Core (`driver.c`, `msm_vidc.c`, `venus_hfi.c`) | core state, firmware loaded or not, two lists of sessions, reference counts | open, boot, wait for boot, deinit from every caller, close, unload | deinit at any point of every other thread; references; reboot | lists, references, core state and firmware in step; opens and closes end; nothing leaks or is freed while held |
| Interrupts and responses (`venus_hfi.c`, `response.c`) | status word, cached sessions, packet in hand | hard handler, thread, packet loop | packets of a boot that is over; last reference dropped here | a packet reaches the right session, or nobody |
| Power collapse (`venus_hfi.c`, `variant/*`) | power, `skip_pc_count`, depth of the interrupt line | suspend, resume, pm work | races with commands and interrupts | no register access unpowered; work is not lost; the line is enabled again |
| Buffers (`driver.c`, `response.c`) | lists of client and internal buffers, attributes, read-only references | queue, defer, done, release, flush | a buffer released while the firmware still reads it; order | every buffer is owned by one side; each goes back once |
| Time stamps (`driver.c`) | bounded sorted lists | insert, update, look up | limits, duplicates | order and bounds; the right stamp goes out |
| Session limits (`driver.c`) | loads over the list of sessions | checks at open and streamon | checked and used at different times | no more than the hardware can do |
| Fences (`msm_vidc_fence.c`, `msm_vidc_synx.c`) | list of fences, timeline | create, signal, destroy | stop with fences pending | each fence is signalled once |
| Memory and pools (`msm_vidc_memory*.c`) | pools, mappings, counts | get, put, map, unmap | | counts balance |
| Load and resources (`firmware.c`, `resources.c`) | handles | init, on, off | one step of several failing | undone in reverse order |
| Controls (`msm_vidc_control.c`) | capabilities with children, sorted list, lists of a control under way | sort, adjust, set, static and dynamic control, codec change | lists that change while they are walked; errors half-way | parents before children; what changes is told to the firmware; every call ends |
| Platform tables (`platform/*`, `driver.c`) | rows of capabilities and dependencies per domain and codec | merge at probe | thousands of rows that must fit each other | which sessions the tables allow |
| Voting (`msm_vidc_power.c`) | | clock and bus values | arithmetic on chip constants | |
| V4L2/vb2 glue, debug, minidump | | | | |

The first eight components, controls and the tables of capabilities are modelled in part, the
rest not (sections 2 and 6). `PROJECT.json` lists each with its status, and the hazards, each at the
line where it bites, with the properties that watch it.

## 2. Plan

Done, in this order:

1. `HfiChannel` (abstract) and `HfiQueue`, with `HfiQueueProofs`: what all else rests on.
2. `Session`, with `SessionProofs`: the state machine all ioctls and responses go through.
3. `Core`, with `CoreProofs`: what happens to all of that when something fails.
4. `Power`, with `PowerProofs`: collapse, resume, and who owes which enable of the interrupt line.
5. `Buffers`, with `BuffersProofs`: who owns an output buffer, and what keeps it mapped.
6. `Timestamps`: which picture gets which time.
7. `Admission`: which sessions may stream together.
8. `Capabilities` over `PlatformTables`: controls, the order they are applied in, and whether the
   tables of the chips fit each other.
9. Theorems for every safety property of `Core`, `Buffers`, `Capabilities`, `Admission` and
   `Timestamps`, with `CapabilitiesProofs`, `AdmissionProofs` and `TimestampsProofs`.

Next, most important first:

10. In `HfiQueue`: a header reset in the middle of a read, and the second reader of the
   debug queue (the hazard of the queue that no property covers yet).
11. `Fences` beside `Buffers`; input, metadata and internal buffers; `Pools`.
12. That a session of `Session` sees only what `Core` lets it see (its `packet` and `alive`).

## 3. Modules

| Module | What it is |
|---|---|
| `HfiChannel` | what a queue promises: FIFO, at most once, intact; an oversized packet is discarded with what is behind it, the driver may lose one it reads while the firmware stands refused, and is told that one it finds no room for was written |
| `HfiQueue` | `__write_queue` and `__read_queue`, cut where the other side may run, and the calls and interrupts around them; implements `HfiChannel` |
| `HfiQueueProofs` | proofs about `HfiQueue` |
| `Session` | one session, its client, the response handler, the firmware and the packets in flight |
| `SessionProofs` | proofs about `Session` |
| `Core` | the core, its sessions, and all threads that touch them |
| `CoreProofs` | proofs about `Core` |
| `Power` | the power of the hardware, the interrupt line, and everything that switches either |
| `PowerProofs` | proofs about `Power` |
| `Buffers` | the output buffers of a decoder between client, vb2, driver and firmware |
| `BuffersProofs` | proofs about `Buffers` |
| `Timestamps` | the two lists of time stamps of a decoder |
| `TimestampsProofs` | proofs about `Timestamps` |
| `Admission` | the checks of the limits of the platform by several sessions |
| `AdmissionProofs` | proofs about `Admission`, and a theory of sums over finite sets |
| `Capabilities` | the controls of a session, the sort of its capabilities, and which set functions are called |
| `CapabilitiesProofs` | proofs about `Capabilities` |
| `CapRows`, `TablesSun`, `TablesCanoe`, `TablesTuna`, `TablesNordau`, `TablesHamoa` | the rows of the capability tables of each chip; families of chips share a module |
| `PlatformTables` | what the probe makes of these rows: the capabilities of each session |
| `MCHfiQueue`, `MCSession`, `MCCore`, `MCPower`, `MCBuffers`, `MCTimestamps`, `MCAdmission`, `MCCapabilities` | the constants of the runs |

The definitions that several modules have a "mutant" of (`PutTwice`, `NoRoomFull`, ...) are
plausible mistakes: each shows that the property listed with it in `PROJECT.json` is able to
notice one. They are used nowhere else.

### HfiQueue

The state is the memory the two sides share (`mem`, the two indices, the two request words)
and the local variables of the two programs. A word is modelled by the packet it belongs
to and its position in it, so a packet that is torn, overwritten or read twice shows. Each
program has three steps: load the indices and decide, copy, store the index. `sent` and `nread`
are history. The two programs are the driver and the firmware for the command queue, the
firmware and the driver for the others (`queue`, chosen in `Init`, says which of the three it is); the firmware is
assumed to follow the same protocol.
Memory is sequentially consistent between the `mb()` calls, which stand where the actions are cut.

The calls around the two programs are part of the module. The driver writes commands and reads
messages only in a valid core (`valid`; any thread may end that at any time). A command that
finds no room is reported as written (queue.c:277, 305): `told` counts what was reported, and is the
`acked` of `HfiChannel`. A message
that was read while the firmware stands refused (`tx_req`) is reported as `-EINVAL`
(queue.c:358-364, 393-397) and is lost: `ReadFails`. The reader of messages runs only in the interrupt
thread: `irq` is an interrupt raised and not taken, `round` the loop of `__response_handler`, which
a read that fails ends, whatever it failed of; a round in which the other queue gave a packet is
followed by one more. The firmware raises an interrupt after a write and when it is refused; other
interrupts (the other queue, the watchdog) may come at any time.

### Session

`state` and `sub` are `inst->state` and `inst->sub_state`; `Allowed` and `Refused` are the tables of
`state.c`. One action per ioctl, per response, and per end of a wait. An action is a whole
ioctl, because `inst->lock` is held: the actions are cut only where
`session_streamoff` and `session_close` let it go. The two packet streams are sequences
(justified by `HfiQueue`). A timeout is taken to be long: it ends a wait only when no answer
can come any more. `blame` is history: what has happened that may put a session in ERROR.

The firmware is external and is described as the comments of the source rely on it
(driver.c:1798-1811 and the sub state functions): it answers in order, sends the last
flags it owes before it answers a stop, pauses the input when it reports a settings
change or has drained, pauses the output of a decoder with a last buffer, never pauses an
encoder's output, ignores a pause or resume of a stopped port, and sends an encoder's
drain-last flag after the stop of the input. The start of the output port while a
settings change is reported and not resumed makes it owe the last flag.

### Core

A section under `core->lock` is one action, labelled by what the thread does next; `pc` is the
client of a session, `irq` the interrupt thread, `reap` who runs `close_helper` for a
session. `Deinit` is `msm_vidc_core_deinit_locked`, used by all its callers but remove and shutdown of the device. Where
threads do without `core->lock`, actions are cut: the interrupt thread between reading a packet and
handling it, the ioctl between testing the state and changing it. `inst->lock` is
modelled where another thread takes it: a response waits while its client is between
the two halves of an ioctl. `early` is history: this boot was deinitialised while in INIT_WAIT
(the table disallows INIT_WAIT to DEINIT). A client that sleeps in the wait for the boot
while the core is taken down and booted again has the label `rewait`: its count of polls
goes on. Instead of packet ids there is one flag, `stale`, for a reply the interrupt
thread has in hand across a reboot: the driver compares the id for equality only. The
session id, a hash of an address, is taken to be unique. A `put` of a session that has
been freed (the case `OnlyFailedOpenFreesHeld` singles out) is undefined; it is
modelled as one that changes nothing the driver looks at. `PmFreeze` happens with clients
outside the driver, as user space is frozen before devices are.

In `Core` a close by force after a failed open (`OpenForcesDeinit`, msm_vidc.c:910) and a wait for
the boot that returns at once with a signal pending (driver.c:4602) are events like the rest, so
its invariants hold with them; what they break is said in the invariants themselves (`early`).

### Power

A record each for the core (`state`, the sub states that matter here, `wd` for the watchdog bit
of `intr_status`, `skip` for `skip_pc_count`), the line (`depth`, what `disable_irq_nosync` and
`enable_irq` count), the hardware, the delayed work. What runs under `core->lock` is one action;
the operators (`PowerOn`, `PowerOff`, `Resume`, `Collapse`, `CoreDeinit`) take the record the
section works on and return it, as a section calls several of them. The interrupt is level
triggered: the hard handler runs whenever a bit is asserted and the line is not masked. The thread
tests `intr_status` and reads the queue outside the lock, and is cut there.
`ForgetsAtOff` tells iris2, whose `power_off` clears `intr_status`, from the others.

Faults: a step of power on or resume fails, the firmware reports an error, hangs or
barks, the secure world is busy or refuses the suspend, a client that gives up takes the core down.
One event is left out of the run: `ready_unread`, a firmware
that says it is idle with messages of its own unread. `crossed` is history: `core->lock` is free between the
deinit by the thread of a watchdog and its second look at the watchdog bit (venus_hfi.c:1031); when a client
boots the core there, `power_on` clears `intr_status` (iris33.c:1144), and with it the bit. The core is up then
and the thread goes on as if there had been no watchdog: it enables the line the boot has enabled already.
This boot is in the run, and `IrqBalance` names it as its exception: more is never masked than is owed, but until
the core next rests powered a disable may be missing.
A `power_on` or `power_off` of a variant is one step;
hardware virtualization and the triggers of SSR are left out; `SW_PC` and
`NON_FATAL_FAULTS` are taken to be set, as every platform of this repository sets them.
A deinit by force while the core is in INIT_WAIT is left to `Core`.

### Buffers

`drv` holds the three lists the driver keeps: the buffer of each vb2 index, the entries of
`buffers.read_only`, and the counts of `dmabuf_tracker`. A reference (`ref`) and a mapping (`map`)
are told apart, as the code takes and gives them at different places. `vb2` says who has a
buffer by vb2's account, `fw` what the firmware has queued and which frames it still reads,
`cmds` and `msgs` are the two streams. Each ioctl, response and batch work is one action, but a
streamoff, which lets `inst->lock` go. The operators on `drv` (`Map`, `Unmap`, `Return`,
`AddReadOnly`, ...) stand for the functions of that name.

The port comes up in one of the three modes the driver has for read-only buffers: no list
(the buffer is returned a second time), or a list that is part of the input's or of the output's properties. The
firmware is external: it answers in order, fills a buffer it does not read, sends lists
that are true when sent. Left out: input and metadata buffers, super buffers,
buffers of other sizes after a settings change, one dmabuf at two indices. Three races are events: `late_batch` (the finding of
`Buffers_late`), `partial_requeue` (driver.c:4176: a flushed buffer keeps DEFERRED, and a
restart queues it although the client has it) and `crossing` (response.c:1449: the second return of a buffer is
taken for the return of the same buffer queued anew); `Buffers_all` has none of the three.

Seen while reading, and not part of a property: driver.c:5336 speaks of a check the function no
longer has; the list of what the firmware holds is compared as 32 bit words with 64 bit addresses;
REQBUFS(0) leaves the driver's list of buffers as it is.

### Timestamps

`ts_reorder` is the sorted list of the stamps whose pictures are to come, `timestamps` the window
the frame rate is measured on, with `rank` to tell which is the oldest. The client stamps
its buffers either with presentation times or in decoding order; a buffer may be a part of a
picture, or be dropped. The ghosts (`recent`, `shown`, `passed`) say what the firmware sent and the client got. The
firmware outputs in the order of presentation and a stop discards what it has. Past a rank of
`INT_MAX` the window stops sliding and every update returns `-EINVAL`:
`WindowIsRecent` holds up to there and says so. The rate itself is not modelled; an encoder hands
microseconds to a function that divides as of nanoseconds, so that its rate is 0.

### Admission

One action per scan, as `msm_vidc_check_session_supported` takes `core->lock` for each sum and lets it go in between;
`plan` carries what a scan found to the next. `s[i]` is what the scans of other sessions read of
session `i`. One core or two, chosen in `Init`. The ghost `sure` names those that stream with what they
were checked with: a session that changes its size, rate or priority afterwards leaves it. Left
out: thumbnail, image, lookahead and secure sessions; one size class stands for
the counts of 1080p, 4k and 8k.

Known exceptions, written into the properties: on two cores two real-time checks may choose the same core
on sums the other is about to change, so only macroblocks per frame are claimed there; a
session that is not real-time is checked once, against loads others may still add to; on two cores
the comment at driver.c:5958-5960 announces a lower priority for a decoder that does not fit, and
the code returns `-ENOMEM`; a session that is refused keeps the core it was given.

### Capabilities and the platform tables

A session's `inst` is its copy of a table (`msm_vidc_get_inst_capability`): which capabilities it has, their
children, which of them have an adjust and a set function, and which others an adjust function
changes beside its own (`beside`, from `PlatformTables`: level and tier, the bit rate and those of its layers, the QPs of
HEIC). What those functions compute is
abstract: an adjust function changes the values or leaves them, both may fail, and a set function that
is called may find that there is nothing to send. `unset` and `aside` are history: the capabilities whose
set function has not been called since their value changed, by a control or their own adjust function
(`unset`), or by that of another (`aside`). All of it is under `inst->lock`; an
action is one turn of a loop, because the loops walk lists they change. `opt`
and `leaf` are the two lists of `msm_vidc_prepare_dependency_list`, `walk` is what a loop
has before it; `behind` is what `list_add` puts at the head of `children_list` behind the cursor. `stale` and `failed`
are history: the codec has changed since the list was made, which the driver makes once per
session, and a control has failed, after which values are changed that were not set.

The modules `Tables*` have one definition per stretch of a table, in the order of the source: a row
is the domains and codecs it is for, its capabilities (neighbouring rows that differ in nothing else are one),
whether it may be set while streaming, or its children and functions. Ranges, defaults and ids are
left out. A build is the pair of tables a `msm_platform_data` names, with the codecs of its core table, and
the rows of its SKU; `X` is that of `x.c`, `MsmX` that of `msm_vidc_x.c`. `PlatformTables` merges
them as the probe does. `msm_vidc_glymur.c` and `msm_vidc_lemans.c` name capabilities that
`msm_vidc_internal.h` does not declare, so they cannot be part of a build.

What the tables are known for, and `TablesAsKnown` says exactly: the probe refuses `Chora`, `MsmMalabar`, `MsmKeraV1` and
`MsmTunaV1`, which have a dependency row for a capability without a row; H264 and HEVC encoders of
ten of the `x.c` tables (SLICE_MODE has the child DELIVERY_MODE, which they lack), HEIC of `MsmAlor` and MPEG2 of
`Nordau` are refused by the sort, so they get no buffers. In the decoder tables of `msm_vidc_*.c`
LOWLATENCY_MODE may be set while streaming and has the child STAGE, which has no adjust function: the
control fails (`KidFails`).

## 4. Runs

| Run | States | What it asks |
|---|---|---|
| `HfiQueue_all` | 348 k | The command queue or the message queue, chosen in `Init`. `CopyStaysInFreeSpace`: no overwriting. `IsChannel`: refinement of `HfiChannel`, so no tearing, doubling or reordering, and no loss but those `HfiChannel` names. `SleepMissesNothing`: while the interrupt thread sleeps over a message, an interrupt is up or to be raised. `EverySentIsConsumed`: no message stays in the ring, although the thread sleeps whenever a read failed. Only a core that is no longer valid and a firmware that is left refused for ever are excepted, and both properties say so. |
| `Session_all` | 206 k | Decoder or encoder, chosen in `Init`, with all faults (system error, hang, failed streamon, buffers left). `SequencesNest`. `PauseIsSound` and `PortsAgree`: with nothing in flight the driver's flags say what the firmware does, and a paused input is paused for something a client can complete. `NoSpuriousError`: ERROR has one of the causes listed. `OnlyHangsTimeOut`. Under fairness `WaitedForComes`: drains complete and waits end. |
| `Core_all` | 737 k | Two sessions, every event, idle unload on. `ListsAreSound`, `SomeoneWaits`, `FirmwareAgrees` (the state of the core, the sessions and the firmware), `HoldersAgree` (reference counts are the holders, and nothing leaks), `OnlyFailedOpenFreesHeld`. |
| `Core_live` | 123 k | `CallsReturn`: every open and close, with errors, hangs, watchdogs and failing loads. |
| `Power_all` | 48 k | Every failure of a power step. `IrqBalance`: each disable of the line is owed by exactly one, but for `crossed`. `PoweredIsLoaded`: no deinit forgets the power. `NothingStranded`: no collapse leaves a command in the queue. `MessagesRead`: messages are read by the interrupt alone. `Collapses`: the power comes down. |
| `Buffers_all` | 752 k | Three dmabufs at two indices, all modes, with and without batches. `FwUseIsKnown`: what the firmware may touch is mapped and referenced, and it is told of a buffer it still reads. `OneOwner`. `RefsBalance`: the counts are the holders. `NeverFails`. `DeferredHasTimer`. |
| `Timestamps_all` | 383 k | `PicturesKeepTime`: each picture gets the time of its own input. `WindowIsRecent`: the rate is measured on the last stamps. |
| `Admission_all` | 946 k | `AdmittedFit`: what streams as it was checked fits, however checks overlap. `OverloadIsRelieved`: or a decoder has been asked to give way. |
| `Capabilities_all` | 81 k | Every table of three capabilities with every choice of children, with all failures, the 242 tables of the 35 builds, and one of sun cut to five capabilities. `ParentsFirst`: the sorted list is what the header says of it. `RefusedIsReal`: a table is given up only if it cannot be sorted. `ChangesAreSet`: while streaming, a value changed by a control or by its own adjust function has been handed to its set function, and no error leaves lists behind. `CallsEnd`: also for tables with a loop. `TablesAsKnown`: which platforms and codecs are refused. `AsideAsKnown`: what adjust functions change beside their own capability and nobody sets is the tier of HEVC and bit rates, nothing else. |
| `Session_silent`, `Buffers_late`, `Capabilities_children` | | Expected violations: a comment of the source says one thing, the code does another. |

What the last three show (in full under `findings`):

1. `Session_silent`: a failed streamon of the output times out on a firmware that has
   answered, and takes the core down.
2. `Buffers_late`: a batch work that had begun before a streamoff cancels it queues buffers behind
   the stop, and the streamoff takes them for a failure of the firmware.
3. `Capabilities_children`: with the tables of the driver, setting GOP_SIZE so that ALL_INTRA
   changes fails, because the children of ALL_INTRA are put where the loop does not come by.

Other disagreements between source and comments are exceptions named in the properties,
and everything else holds: a settings change and a drain both pending (driver.c:1697; `drain_left`), a
settings change handled in the wait of a streamoff (driver.c:1891; `late_ipsc`), a drain-last flag refused when only
the input streams (driver.c:1807; `drain_unheard`), a core taken down by force for a session no
longer listed (driver.c:4742), a wait that does not wait with a signal pending
(driver.c:4602), and those of sections `Power`, `Buffers` and `Admission` above. So are three silent failures:
a read that finds the firmware refused counts as failed, and the interrupt thread goes back to sleep with
packets in the queue (queue.c:358-364; `SleepMissesNothing`, `EverySentIsConsumed`); a command that finds the queue full is
reported as written (queue.c:305; `Ask` of `HfiChannel`); and a new bit rate of an HEVC encoder has the
level adjusted, which changes the tier, and nobody hands the tier to the firmware (platform.c:1073; `AsideAsKnown`). A suspend that fails for another reason
than a busy secure world is not tried again by the work (`fw_suspend`, default branch):
`Collapses` lets the power stay on then (`LeftReady`). On iris2 `power_off` clears `intr_status`, so that after a
watchdog the thread enables the line of a core that is off; with `ForgetsAtOff` TRUE TLC finds
`IrqBalance` violated, and the runs and theorems take it to be FALSE.

### Bounds

- `HfiQueue`: a ring of 5 words, packets of 0 to 6 words, a reader that takes at most 3, four
  writes reported done (`MaxSent`). Every wrap position is met by every length but the longest; one packet fills the
  ring but the free word; lengths 0 and 6 are refused. The queue becomes full, wraps and has packets
  discarded, as the command queue and as the message queue. `Queues` leaves out the debug queue, whose programs are
  those of the message queue. The theorems say the same for all sizes and all three queues.
- `Session`: no counters. The queues are bounded by the protocol: one unread input
  buffer at a time (`QueueInput`; a second adds no new order), an ioctl at a time.
- `Core`: two sessions, so that every thread meets one session of its own and one of
  another; an open that fails, a session that lived through a reboot and a new one need no
  third. One command `use` per session is queued at a time. Symmetric in the sessions; the run
  for liveness uses no symmetry. The limit on the number of sessions is not reached.
- `Power`: `MaxSkip` 2, so that a collapse is tried, retried and given up; two commands and two
  messages, so that one arrives while another is handled. The theorems hold for all of these.
- `Buffers`: two indices, so that a dmabuf can return at another index; three dmabufs, so that an
  index is taken over while another holds a reference; a batch of two, so that one
  buffer waits for another. `MaxDpb` and `MinCount` are 0: batches begin at
  once. Symmetric in the dmabufs. The three theorems hold for every number of each.
- `Timestamps`: times 1 to 4, a window of 2 (one slides out), `IntMax` 1 (both sides of it are
  reached), four buffers in flight, five numbers per stream.
- `Capabilities`: the small tables have three capabilities, so that there are loops of two and three, chains, a shared
  child, a child that is not there, and entries that wait for two rounds; their sessions (`Busy`) do all a client can. The
  sessions of the driver's tables stream, set one control after the other, each with a new value, until one fails,
  and close: failing functions do nothing there that they do not do to the small ones. One of them, the HEVC encoder
  of sun with five capabilities, does all a client can, so that children change or stay as they are.
- `Admission`: two sessions of two sizes and two rates: overlaps are pairwise, and any two at their
  largest are over each limit, any one is not. Symmetric. `MaxSessions` is not reached but through
  `Seats`, the real-time sessions a core may have.

### Fairness

- `HfiQueue`: a write that has begun goes on to its interrupt; the interrupt thread runs when
  there is an interrupt, and until it sleeps again. Nobody need write, and nothing but an interrupt makes
  the thread read: `HfiQueue_all` shows that none is missed.
- `Session`: responses are handled, the firmware answers, waits that are over return
  (all weak: these stay enabled). `FwDrainDone` is strong: settings changes pause the input
  again and again, input is finite. `StartCmd` is weak: the client resumes after a last buffer;
  driver.c:1588-1590 states that it will. Nobody must stream, drain or close.
- `Core`: threads inside the driver go on, the interrupt thread runs when the line is raised, a
  firmware that runs answers. Nobody must open or close. Timeouts are part of the threads.
- `Power`: the hard handler and the thread run; for `Collapses` also the delayed work, and a boot
  that waits times out. Firmware and clients need do nothing.
- `Capabilities`: a handler that has begun goes on. The client need not call again.
- `Buffers`, `Timestamps` and `Admission` state safety only.

## 5. Proofs

TLAPS checks these for every value of the constants. The runs check the same, but for the types of `Buffers` and
`Capabilities` and two steps of the argument of `HfiQueue`, which are only proved:

| Theorem | Statement |
|---|---|
| `HfiQueueProofs!TypeCorrect`, `HeaderIsTruthful`, `FifoIntact`, `NoOverwrite` | `[]TypeOK`, `[]IndicesAgree`, `[]ReadsOldestIntact`, `[]CopyStaysInFreeSpace` |
| `HfiQueueProofs!SleepNeverMisses`, `ImplementsChannel` | `[]SleepMissesNothing`, `IsChannel` |
| `SessionProofs!SequencesAlwaysNest`, `TypesAlwaysHold` | `[]SequencesNest`, `[]TypeOK` |
| `SessionProofs!PortsAlwaysAgree`, `OnlyHangsEverTimeOut` | `[]PortsAgree`, `[]OnlyHangsTimeOut` |
| `SessionProofs!ErrorsHaveAReason`, `PausesAreSound` | `[]NoSpuriousError`, `[]PauseIsSound` |
| `PowerProofs!TypeCorrect`, `LineIsBalanced`, `PowerIsOwned` | `[]TypeOK`, `[]IrqBalance`, `[]PoweredIsLoaded` |
| `PowerProofs!NothingIsStranded` | `NothingStranded` |
| `BuffersProofs!TypesHold`, `CountsBalance`, `DeferredIsTimed` | `[]TypeOK`, `[]RefsBalance`, `[]DeferredHasTimer` |
| `BuffersProofs!EachHasOneOwner`, `SessionNeverFails`, `UseIsAlwaysKnown` | `[]OneOwner`, `[]NeverFails`, `[]FwUseIsKnown` |
| `CoreProofs!ListsStaySound`, `SomeoneAlwaysWaits` | `[]ListsAreSound`, `[]SomeoneWaits` |
| `CoreProofs!TypesHold`, `HoldersAlwaysAgree`, `HeldIsKept` | `[]TypeOK`, `[]HoldersAgree`, `OnlyFailedOpenFreesHeld` |
| `CoreProofs!FirmwareAlwaysAgrees` | `[]FirmwareAgrees` |
| `CapabilitiesProofs!TypesHold`, `ParentsAlwaysFirst`, `RefusalIsAlwaysReal`, `ChangesAreAlwaysSet` | `[]TypeOK`, `[]ParentsFirst`, `[]RefusedIsReal`, `[]ChangesAreSet` |
| `TimestampsProofs!WindowIsAlwaysRecent`, `PicturesAlwaysKeepTime` | `[]WindowIsRecent`, `PicturesKeepTime` |
| `AdmissionProofs!AdmittedAlwaysFit`, `OverloadIsAlwaysRelieved` | `[]AdmittedFit`, `[]OverloadIsRelieved` |

`HfiQueue`. Assumptions: `QueueAssumption` (a ring of at least one word, lengths naturals, one of the three queues).
None of the properties is inductive. The invariant `IInv` numbers all words ever
published: packets lie one behind the other in that numbering (`StreamInv`), the two
indices are the numbers of words read and published, folded into the ring (`SpaceInv`), the slots
between them hold the unread packets word for word (`ContentInv`), and each program in the
middle of its work holds a claim the other cannot break (`WriterInv`: the room only grows;
`ReaderInv`: the words it copies are not touched). The refinement follows step by step: a
publish is a send, a read that returns a receive, one that fails with a packet in hand a loss, a discard
a discard, a check of the room an `Ask`, which acknowledges a refused command, all else a stutter. Between the store of the read index and the verdict
(`rpc = "verdict"`) the packet counts as queued still, as its fate is open.
`SleepMissesNothing` needs in addition to `IInv` what is true of a thread that is awake (`Awake`): what it has
found empty was empty after it had cleared the interrupt, so a later message comes with a new one.

`Session`. `Nest` is `SequencesNest` and that a closed session has no first port
reconfiguration open; no fact about the firmware is needed, so it holds for a firmware
that sends any packet at any time. The other theorems follow the packets. `PortsAgree` speaks of moments at
which nothing is in flight; `Ports` says at every moment what each port will be when the firmware has seen
the commands before it: a start with no stop behind it (`Started`), or running now and
no stop to come (`Kept`). While a port is being stopped only that port differs. `Answered` says where
the answer is that an ioctl waits for: still a command, a message, or signalled. It needs
`Ports`, because the handler signals a stop only where the pause flag may be set, so only if the port streams. Neither needs
more of the order of the two queues, nor a bound on them.

`ErrorsHaveAReason` does need that order, since whether an answer is one the handler expects depends on
all that was handled before it. `NoFault` holds as long as nothing is to blame. `InOrder` lists which
command may not follow which in flight, and which answer which (`CmdBars`, `MsgBars`): nothing
follows a stop, no pause follows a drain, no last buffer follows the answer to the stop of
its port. `Calls` ties each wait to the stop in flight and to the port of the firmware; `Heard` says that what
the firmware says of a port is read while the driver streams it. `Sequences` is the firmware's side:
one sequence at a time. `DrainComes` and `DrcComes` say that the driver waits for a last buffer exactly while one
is to come, and `Pauses` that it takes the input for paused when the firmware does, or what makes it
so is in flight. No part is inductive alone. Each of the 22 kinds of step has a lemma that keeps
`Good`, all seven parts, and shows that no handler fails; `Closing` covers the close, when the ports are stopped.
TLC finds `NoFault` true with the constants of `Session_all`.

`PausesAreSound` may not assume that nothing went wrong, since `PauseIsSound` holds whatever did. The three
orders of events that `NoSpuriousError` names do break parts of `Good`: a settings change handled too late leaves
the driver waiting for a last buffer that was sent already, and the next one fails. `PausesKnown` is what is left
while the session has not failed and no failure is under way (`Fine`): `Steady`, which has the parts of `Good`, each
as weak as those three orders require (`SteadyCmdBars` and `SteadyMsgBars` allow a resume behind a start of the
output and a second last buffer, and say when), and two more. `SteadyOutput` relates the pause of a decoder's output
to the firmware's and to the resumes and last buffers in flight, and says that it is paused only while the input is.
`PauseEnds` says that a paused input of a session that streams both ports has seen its last buffer, or one comes.
`FineBefore`: no step makes a failed session fine, so `Steady` has to be kept only by steps between fine states, once more a
lemma for each. With nothing in flight, `SteadyInput`, `SteadyOutput` and `PauseEnds` are the property. TLC
finds `PausesKnown` true with the constants of `Session_all`, too.

`Core`. `IInv` is `ListsAreSound`, `SomeoneWaits`, and `PrivateUntilAdded`: a session that waits
for the core is known to its client alone. Without the last, the add of a session could
find it in the other list already. The crucial step of `SomeoneWaits` is
that of a timeout: the client that stops waiting takes the core to DEINIT through ERROR.

`AInv` is about references, and is proved with the types, since a count is a natural number only because
nobody puts what it does not hold. `Accounted(i)` says of one session that its count is the
number of its holders, that it is torn down only at 0 or by an open that failed, and that a
session which such an open freed under the interrupt thread keeps a count that the late `put`
does not bring to 0. `HoldersAgree` and the action property `OnlyFailedOpenFreesHeld` follow from it.

`FInv` is about the firmware. `Boot`: while it is loaded its SYS_INIT is in one place at
most, first among the commands, then among the messages, then in the hand of the interrupt
thread. `Knows`: a session a command is about is one the firmware will know when it has
answered the commands before it (`Known(i, n)`), so that the property does not depend on how
far the firmware is. The theorems hold for every set of sessions and of `Events`, with idle unload and without.

`Capabilities`. Assumption: `CapAssumption`, that the tables are tables. `Order` keeps the three lists
of the sort apart, together the whole table, and sorts what is in `leaf`. `Rounds` is the counter
that detects loops: with as many entries left as when the round began, those behind the counter
have all been looked at and wait; when it is used up, all that is left waits for something left
or missing, so the table cannot be sorted. `Told` follows what has yet to be
set (`unset`) through the lists of a control: it is on the list still to be set, or the control has
failed. Nothing is proved of `aside`: it depends on the tables which of these are set, and `AsideAsKnown` says of the driver's which are not. No bound and no shape of the graph of children is assumed.

`Power`. Assumptions: `PowerAssumption`, and a `power_off` that leaves the watchdog bit alone
(`~ForgetsAtOff`), else the balance is known to break. The boot between the two sections of a watchdog's thread is not
assumed away: `IInv` has `crossed` as a parameter, and its conjuncts about the line and the watchdog bit say what is left of
them then. Otherwise `IInv` adds to the
three properties that the thread of a watchdog is the last the line lets run (`ThreadAgrees`), that
hardware without power asserts nothing, and that a watchdog bit left on unpowered hardware
means a core in DEINIT (`Settled`). `NothingStranded` follows from one more part of it: hardware that has told
the driver it is ready for a collapse has no command left, so that only a collapse turns off a core that stays up, and it strands nothing. Each operator on the record has a lemma that it keeps `SInv`, which
holds at every point of a section, between the calls; the actions combine them.

`Buffers`. Assumptions: `EventsAssumption`, `SizesAssumption`, and for the first three theorems no
`partial_requeue`, which sends buffers without a dmabuf. `IInv` is `Good(drv) /\ Owners /\ Rest`. `Good` is of the lists alone: their
shape, one index per dmabuf (`Apart`), the counts without a cardinality (`Balanced`), and only what
is busy or listed is referenced (`Sound`). The counts may be negative in `Shape`; that they are
not follows from the balance. `Owners` says when the driver holds a reference, `Rest` what the
packets and the timer of the batch need. That `RefsBalance` counts with `Cardinality` is settled last, by `Apart`.

The last three theorems of `Buffers` need `Events = {}`: each event breaks one of them, as section 3 says.
Their invariant `JInv` is about the order of packets, so packets are told by their position in `cmds` and
`msgs`. `Places`: a queued buffer is in exactly one command, in the firmware, or in exactly one frame.
`Stops`: a stop has every queued buffer before it, and its answer every frame. `Releasing`: a release is pending
from the command to the answer, and no frame or queued buffer of the same dmabuf is before it.
`Modes` and `Seconds`: a list and second returns exclude each other, and a buffer that returns a second
time is the client's. `Reads` and `Told`: what the firmware reads is flagged, or a frame that says so is on its
way. `Lists` has what the attributes, mappings and entries say to each other. None of these
is inductive alone: that a stop leaves nothing queued needs `Places`; that a frame without the
flag may clear it needs `Releasing`; that a release is answered for an entry that still waits for it needs
both. `J` has the variables as parameters, so an action that changes the lists in three
steps (get, queue, release) is proved in three lemmas. TLC finds `JInv` true in `Buffers_all`.

`Timestamps`. Assumptions: `TimeAssumption` and `WindowAssumption`. `Ranked` is the invariant behind
`WindowIsRecent`: the ranks of the entries are the last ones given out, each once, and each entry has
the time the firmware sent under its rank. Sorting by time keeps it whatever the times are, as does the removal of the smallest rank, which is
the oldest. Like the property it says nothing once the ranks have passed `IntMax`.

`PicturesKeepTime` rests on counting. `JInv` says, for a client that stamps with presentation times,
that a stamp is listed as often as a buffer with it is on its way, in any of the three places it can
be (`StampsCounted`: to be decoded, decoded, in a message). Only a stop breaks that, because the
firmware discards buffers whose stamps stay listed: those are ahead of every picture output so far
(`passed < v`), so none of them is the least when a picture comes. That the least is the
picture's own needs two more facts: frames not yet output are ahead of `passed` and no two whole ones share a time
(`FramesApart`), and the messages after a picture are about later times (`MessagesOrdered`). For a client that
numbers its buffers, numbers are listed once, above the last one shown, and at least as many as buffers are
on their way (`StampsDistinct`). TLC finds `JInv` true with the constants of `Timestamps_all`. A streamon
inserts the kept buffers with a fold; its value is read off a table over the sets of places
(`IsTable`, `AllInserted`), which exists by induction with sets of numbers (`Induct`), so that no
theorem about all operators is needed.

`Admission`. Assumption: `LimitAssumption`, that sizes, rates and limits are numbers. Nothing else bounds
the sessions, and nothing serialises their checks. The invariant `Fits` counts a session
earlier than the property does: from the scan that found room for it, not from the end of its check. Each
sum a scan compares covers all listed sessions, so it covers whom the invariant counts; between
scans the counted only become fewer. `Sized` and `Placed` count sizes, `Hard` the load of the encoders, `Free` that of
the sessions nobody has asked to give way: a check that asks all decoders leaves only encoders in `Free`, and those
are in `Hard`. Sums over finite sets (`SumFunctionOnSet`) are proved to exist, not to depend on the order, and to be monotone
(`SumStep`, `SumRemove`, `SumMonotone`) by induction with sets of numbers in place of predicates (`Induct`), which
the provers can instantiate.

`HeaderIsTruthful` and `FifoIntact` are about the ring at a finer grain than `IsChannel` and have no
run of their own.

Only model-checked: all liveness (out of the prover's reach), and `TablesAsKnown`, which evaluates 242 given
tables. Every other property of the passing runs is stated by a theorem, for the instances named above.

## 6. Not modelled

The rest of the inventory, for the reasons in `PROJECT.json`: what is planned is in section
2; formats, what adjust and set functions compute, and clock and bus arithmetic are data with little
control; of the platform tables only those of capabilities are modelled; V4L2, vb2, DMA, clocks, regulators and remoteproc are services of the kernel. Inside the
parts that are modelled: the second reader of the debug queue, statistics, super buffers and
metadata, input and internal buffers, probe, remove and shutdown, hardware virtualization, the single steps of loading the firmware, and colliding
session ids.

Of the hazards in `PROJECT.json` three have no property: the reset of the headers in
the middle of a read (queue.c:462), with the debug queue read by the interrupt thread and by a thread that
holds `core->lock` at once (venus_hfi.c:292); a client that streams on again without its deferred buffers
(driver.c:4176); and a capability list kept across a change of codec (vb2.c:841). The last two are exceptions of the
properties they would break. `HfiQueue` covers the rest of what is between a ring
and its callers; above it, `Session` and `Core` take a queue
with room, and `Power` drops the command of a full queue, as the code does.

What the map does not cover is packet layouts, register sequences, buffer sizes and arithmetic, where there is no state
to check, the other tables of the chips, and the components listed above.

## 7. Running it

    tlc -config HfiQueue_all.cfg   MCHfiQueue
    tlc -config Session_all.cfg    MCSession      (Session_*.cfg)
    tlc -config Core_all.cfg       MCCore         (Core_*.cfg)
    tlc -config Power_all.cfg      MCPower        (Power_*.cfg)
    tlc -config Buffers_all.cfg    MCBuffers      (Buffers_*.cfg)
    tlc -config Timestamps_all.cfg MCTimestamps
    tlc -config Admission_all.cfg  MCAdmission
    tlc -config Capabilities_all.cfg MCCapabilities (Capabilities_*.cfg)
    tlapm HfiQueueProofs.tla       (SessionProofs, CoreProofs, PowerProofs, BuffersProofs,
                                    CapabilitiesProofs, TimestampsProofs, AdmissionProofs)

Each run takes about a minute or less (`Capabilities_all` two), each proof a minute or two. Deadlock is
checked in every run but those of `Buffers`, where a client may stop after a close or a
failure, and of `Capabilities`, where a platform whose probe fails has no device; in `Session` a session that is gone stutters (`Gone`), the others never stop.
