# Verification of goodix53x5-libfprint

TLA+ models of the Goodix 53x5 fingerprint driver
(`src/drivers/goodix53x5`), their TLC runs, and machine-checked proofs about
them. The driver is an event-driven C program on the GLib main loop: it is
single-threaded except for one worker thread that processes images, but almost
every operation is split over callbacks whose order the USB host, the sensor,
libfprint and the user decide. That is what the models are about.

## The system

| Component (source) | State | Operations | What is hard | What makes it correct |
|---|---|---|---|---|
| Session (`device/session.c`, `goodix53x5.c`) | hardware owner, pending action, suspend and close requests, `needs_reinit`, cancellables | open, close, start and cancel of an action, suspend, resume, removal, `goodix_session_settle` after every owner | requests of libfprint in any phase of an owner's hand-over | one owner; every request answered exactly once; nothing in flight when stopped |
| Transport (`device/transport.c`) | one operation, one continuous reader, response slots, pending notification, GTLS restart request | command, event wait, MCU wait, cancel, quiesce; OUT, IN, timer and cancellation callbacks | packets, write completions, clocks and failures in any order and any packing | ends, is never freed under its own write, neither loses nor mistakes an answer |
| Scan (`device/scan.c`) | coordinator state, stop request, dispatching and waiting flags, outstanding worker result, idle service | start, stop, detach, disposition of a result, capture | four sources can finish it: stop, event, worker, timer | each scan ends once, and only when nobody owns its next step |
| GTLS (`device/session.c` 636-823, `device/crypto.c`) | handshake state, attempt, retry delay, restart flags | attempt, retry, restart, completion | restart while the session stops; a key that another system replaced | bounded attempts; a ready session has a key that is the sensor's |
| Open and probe (`device/session.c` 336-625, 825-1311) | SSM state | probe, chip id, PSK, OTP, configuration, base | partial failure in a long sequence | reports once; leaves a usable or a marked device |
| Base (`device/base.c`) | hardware reference, ids, `profile9_fdt.owner`, generation | ensure, forced refresh, publish, invalidate, recovery | publication over several fallible steps | tuple published as a whole or not at all |
| Commands (`device/commands.c`) | arm and repair SSMs | arm, ESD repair, registers, reset | loops over failing commands | bounded, marks the hardware when in doubt |
| Health (`device/health.c`) | estimate shared by all devices, observations | note, pair capture, evaluate | shared across devices | thresholds on a bounded history |
| Enroll, Auth (`device/enroll.c`, `device/auth.c`) | epoch, stage count, task, verdict | start, capture, worker result, report | results of a superseded action | one report, only from the current action |
| Persistence (`device/persistence.c`) | record on disk | write, restore | crash between the steps of a write | old or new record, never a mix |
| Protocol (`device/proto.c`) | reassembly buffer | build, feed, parse | lengths from the wire | bounded, in order |
| Calibration (`device/calibration.c`) | FDT bases, DAC | adjust, derive | integer ranges | search ends in range |
| Runtime worker (`milan/runtime.c`) | job, cancellation checkpoints | run | cancellation between stages | what was published before a cancellation is known, nothing is learned after it |
| Learning (`milan/core.c`, `milan/preprocess/classification.c`, `milan/match/info.c`) | calibration samples, history, component ages, ring of classification planes | what each rendered and classified frame changes | counters and ages across frames, refreshes and reopenings | what is learnt can always be saved, and is not lost within the process |
| Study (`milan/study`, `milan/match/study.c`, `milan/match/lifecycle.c`) | the gallery, a queue of samples that wait, with ranks | match, append, replace, enqueue, follow up, publish | long sequences of samples; direction of transforms | the template stays readable and true, the queue agrees with it |
| Enrollment of templates (`milan/enrollment`, `milan/relations.c`) | views of a finger, relations between them, counters of the policy | insert, bridge, propagate, close, roll back, publish | composition of transforms; a view rolled back after it was related | relations hold of where the views lie; what is published can be read |
| Matching (`milan/match/match.c`, `policy.c`, `admission.c`, `selection.c`, `rescue.c`, `fallback.c`) | evidence gathered over the features of one template | admit, veto, block, contribute, rescue, fall back | many places that revise the result, in the order of the features | score, feature, relation and study control agree |
| Features, geometry, anti-fake (`milan/feature`, `milan/match/geometry.c`, `milan/antifake`) | none between calls | pure functions of frames | fixed-point arithmetic | parity with the native algorithm |

They interact by calls and callbacks. libfprint calls the vfuncs in
`goodix53x5.c`; these ask the *session* for the hardware. The session's owner
(open, an action's scan, the idle service, a resume) runs sub-machines that send
*commands* through the *transport*, which answers each by one callback. A scan
hands frames to the *worker*, whose result comes back as a main-loop callback and
becomes the scan's *disposition*. Stop requests travel the other way: the session
cancels the owner's cancellable and, for background work, the finger wait.

## The modules

| Module | Stands for | Kind |
|---|---|---|
| `Session` | `session.c` from settle to resume, the virtual methods in `goodix53x5.c`, and the parts of `scan.c` and `transport.c` through which an owner starts, stops and hands over | component |
| `HardwareOwner` | who owns the sensor, and what changes that | abstract specification of `Session` |
| `SessionProofs` | the theorems about `Session` | proofs |
| `Transport` | `transport.c`: commands, waits, reader, packets | component |
| `Channel` | one operation at a time over one reader, as `Session` uses it | abstract specification of `Transport` |
| `TransportProofs` | the theorems about `Transport` | proofs |
| `Scan` | `scan.c`: coordinator, service, health-wait child, deactivation tail, capture, and the loops of `commands.c` it calls | component |
| `FrameCycle` | what `scan.h` promises to an action about its frames and its outcome | abstract specification of `Scan` |
| `ScanProofs` | the theorems about `Scan` | proofs |
| `Open`, which EXTENDS `Repair`, which EXTENDS `Base` | the machines of `session.c` (open, probe, identification, key, GTLS, reconstruction, resume), of `commands.c` (arming, ESD repair) and of `base.c` (acquisition and publication of a reference) | component |
| `Runtime` | `milan/runtime.c` from checkpoint to checkpoint, and the setup publication of `persistence.c` | component |
| `Action` | `enroll.c`, `auth.c`, the generation of `base.c`, the attempt policy of `milan/enrollment/template.c`; EXTENDS `Runtime`, and sees the coordinator through `FrameCycle` | composition |
| `ActionProofs` | the theorems about `Action` | proofs |
| `StateFile` | one write of `persistence.c`, system call by system call, over a file system that can lose power | component |
| `Preprocess` | what a frame changes in the learning state (`milan/core.c`, `milan/preprocess/classification.c`, `milan/match/info.c`) | operators |
| `Store` | the life of that state over frames, generations, saves, restores and deaths; EXTENDS `Preprocess` and `StateFile` | composition |
| `GenerationProofs` | the theorems about a generation, from the machines that bring it up (`Open`, `Repair`, `Base`) to the file it is kept in (`StateFile`, `Store`) | proofs |
| `Template` | the relation matrix and the transforms (`milan/relations.c`, `milan/transform.c`, `milan/template/lifecycle.c`) | operators |
| `Enrollment` | the enrollment transaction (`milan/enrollment`); EXTENDS `Template` | component |
| `StudyQueue` | `milan/study/queue.c` | operators |
| `Study` | matching lifecycle, learning and followups (`milan/study/study.c`, `milan/match/study.c`, `milan/match/lifecycle.c`); EXTENDS `Template` and `StudyQueue` | composition |
| `StudyProofs` | the theorems about `Study` | proofs |
| `EnrollmentProofs` | the theorems about `Enrollment`, and how they found those about `Study` | proofs |
| `Policy` | the flags of one feature (`milan/match/policy.c`, `admission.c`) | operators |
| `Match` | one probe against one template (`milan/match/match.c`, `selection.c`, `rescue.c`, `fallback.c`); EXTENDS `Policy` | component |
| `MatchProofs` | the theorems about `Match` | proofs |
| `MC*` | constants of the model-checking runs | instances |

### How state and actions correspond to the code

In the device components the state is one record `s`, because the code keeps it
in one struct and every function changes several of its fields. A C function is
an operator from record to record, composed in the order of the calls; an action
is one callback from the main loop *with the whole chain of calls it makes*.
That granularity is the code's own: the main loop runs a callback to its end,
so two callbacks never interleave. The worker thread only touches its own job
and comes back as a callback. A mutant definition (`X_Something`, next to `X`)
is a plausible wrong version of `X`; it is not part of any specification and is
there to show which property notices the mistake.

**Session.** The application's request (`action`, `power`), the pieces of
libfprint's core that decide when the driver is called (idle delivery of
results and cancellations, suspend deferred while open or close runs, close
refused while another request is current), the flags of
`struct _FpiDeviceGoodix53x5`, the running coordinator (`owner`) and state
machine (`task`), and the transport reduced to *an operation in flight*, the
reader and who joins it. Each state machine (open, power down, warm and cold
resume) is a task that issues operations and ends by success or failure; its
steps are in `Open`. `OpenSsmDone`, for one, is the
callback that ends the open SSM together with completion, recovery retry,
reader join and what settling starts afterwards. libfprint delivers results
from an idle source; a comment in `session.c` (line 208) reckons with a callback
that starts the next action before it returns. The constant `Reentrant` allows
both, and the run takes the wider one.

**Transport.** A packet is its kind, that is, what the parser publishes when it
arrives (ACK valid or not, an answer of a slot, image accepted or rejected,
notification, MCU data, malformed, the first cell of a longer packet). One IN
buffer holds any number of them: `RxBegin`, `RxCell` once per packet and `RxEnd`
are one run of `goodix_rx_cb`, and no other action is enabled between them.
Deadlines are booleans (running or not), and an expiry may happen whenever one
runs. What the client calls from inside a completion callback is an action of
its own that may follow at once. Not actions: the refusal of a command while
another is active, which changes no state, and the MCU reset, which only
discards bytes.

**Scan.** `kind` says whose coordinator it is: an action's, the service, the
maintenance child of a deactivation (`wait`), or a detached one that only has its
sleep command left (`tail`). A command, a child state machine or a delay is one
outstanding operation (`work = "op"`), and the state says which; the `_DONE`
states run through within the callback. The flags that only make sense together
are one field: `cpu` is `cpu_outstanding`, `cpu_done` and the disposition, `cycle`
is `cycle_active` and `release_settled`, `stop` is `stop_requested` and
`stop_error`. The drift of the touch vectors (normalisation, majority, anchor)
is not computed: a release event comes with or without drift, so both outcomes
are explored at every release. The `cycle_settled` callback is a state of its own
(`work = "callback"`) because the session may be stopped from inside it. A
cancelled outcome of an operation needs a cancelled token. A worker whose token
is cancelled answers so and in no other way; it may answer so earlier, because
libfprint marks the action cancelled before its idle callback cancels the token.

**Open.** One machine at a time waits for one command of the transport, so the
record has one field per level: the state of the open (`open`), the child machine
(`sub`), the command that child waits for (`at`), its count of attempts (`n`),
and the fields of the device struct. A step is the completion of a command with
any of its outcomes, the end of a delay, or something from outside: cancellation,
removal, closing, suspend and resume, the requests a coordinator makes (refresh,
restart, arm, repair), and the sensor's other user, a second operating system
that may pair it with its own key whenever this driver does not hold it. A
written key takes effect in the sensor or not (`SensorTakesKey`, without
fairness). Samples and frames are tokens of the acquisition that took them, so
that parts of two acquisitions can be told apart; `Named` renames tokens and
identities after what holds them, since the code compares them for equality only.
The handshake's authentication is the equality of the two keys.

**Runtime and Action.** `job` is the worker's input and output: a snapshot made at
submission, so that `Runtime` shares with the main loop only the token and the
state file. One action of `Runtime` is the work from one checkpoint to the next,
and `Cut` is what a checkpoint does when the token is cancelled. The numerical
work is a choice among its outcomes (admitted or not, retry, match or not,
learned or not) and may change the preprocessing state. `Action` adds the main
loop's side. `act` is what the action has pending, `gen` the live generation with
the hardware reference behind it, `heard` what the application was told. The
coordinator is not composed in detail: `frame`, `lifted` and `told` are the
variables of `FrameCycle`, which `scan_safety` shows `Scan` to implement, and
`ReplacementSerialized` is why the acquisition of a reference needs no worker
out. `TaskDone` is the worker's
callback as a whole: ownership, adoption of the state, attempt or result, and
disposition. Enrollment and authentication share the parts that are the same line
by line in `enroll.c` and `auth.c`. The identities of generations and the epochs
come from 64-bit counters; since the code only compares them for equality,
`Fresh` picks one that is not held any more. A state file that cannot be read or is
invalid gives the defaults, which the next setup-save writes over it (`Packets`).

**StateFile, Preprocess, Store.** `disk.file` is what the name shows now and
`disk.left` what it may show after a loss of power: until its directory was synced a
name may still hold anything it held before, and contents that were not synced
may come back torn. `owed` is what the writes allow a reader to find: the last one
that reported success, or a later one that failed after its rename. `Preprocess`
has no pixels: a plane of ages is one pixel of it, a plane of the ring its presence,
and what the image decides (admission, coverage, gradient, activity) is an argument.
The packed record keeps the reference plane at half resolution and the thresholds
not at all (`Restored` gives the defaults for them), so writing and reading a
record is no identity. `Store` has the owner of the state (`gen`: a generation, or
the process part retained between two), the frame in work (`phase`), and the two
snapshots, the setup's and the action's. `blind` is a ghost: the samples in
memory come from a read that failed.

**Template, Enrollment, Study.** A transform is a permutation of three
coordinates, the smallest group in which the order of a composition and the
direction of an inverse matter. `Place` is where each sample really lies, so
`Measured(a, b)` is what an exact registration returns, and a relation is true or
not (`PlacedTrue`). Fixed-point rounding is left out. The matrix has the code's
shape: a triangle of slots in rows, of which packing keeps only those of the reference
view. In `Enrollment` a step is one attempt: insertion with all registrations
chosen, bridging, closing, and the roll-back decided from the metrics. In `Study`
one step is one of the calls (match, study, followup, finish); what the pixels say
(residuals, overlaps, quality) is chosen within what `match.c` can return. The
runtime of the driver opens a new queue for every authentication, so in the driver
nothing is followed up; the calls themselves allow a queue to be used for many
probes, and both happen in the run.

**Policy, Match.** Every rule of `admission.c` and `policy.c` is a table of
thresholds over the metrics of the feature. What a table says is chosen; what a
rule may do to the three flags (match, candidate, late recognition mode), and when
it is asked, is kept. `Match` goes over the features in the template's order and
examines each with one action per way it can end (skipped, unlike, sparse, vetoed,
refused, admitted), then finishes in the one way the evidence allows. That a match
is a candidate is not assumed; it follows from `Policy`. The late mode that a veto
turns off stays off for the features after it, so their order matters.

## The runs

| Run | Checks | Shows | States |
|---|---|---|---|
| `session` | `TypeOK`, `Exclusive`, `RequestsHeld`, `QuietWhenStopped`, `ReinitBeforeUse`, `ImplementsHardwareOwner`, `Served` | any interleaving of requests, cancellations, suspend, resume, removal, reader failures and ends keeps one owner, one continuation per request and a quiet stopped device; everybody is served | 3,631 (all) |
| `transport_safety` | `TypeOK`, `CallbackOwed`, `ResultHonest`, `ImplementsChannel` | any packing and order of packets, completions, clocks and failures | 700,716 |
| `transport_liveness` | `WaitsEnd` | commands and bounded waits end, stopped waits end, joins call back | 349,724 |
| `scan_safety` | `TypeOK`, `CycleOrdered`, `ImplementsFrameCycle` | a coordinator always has something that wakes it, serialises reference and worker, and keeps the contract of `scan.h` | 861,200 |
| `scan_liveness` | `EndsAndTells` | stopped owners let go; a failure is not forgotten | 96,770 |
| `scan_settle` | `SettlementNotStranded` (violated) | see Findings | |
| `action_safety` | `TypeOK`, `JobGrounded`, `OutcomeComplete`, `InterruptionClean` | a worker works on what is current; what completes has everything completion asks for; cancellation keeps the setup and nothing else | 2,210,928 |
| `open` | `TypeOK`, `PublishedTogether`, `BringUpOrdered`, `ReadyEstablished`, `MachinesEnd` | whatever commands answer, a ready session is claimed, keyed and referenced, the reference is of one piece, and every machine ends | 176,570 |
| `enrollment` | `EnrollmentTypeOK`, `PublishedSound`, `StepsAgreeWithWhole` | whichever views register and whichever are rolled back, the template can be read, a view rolled back leaves no relation, and the views are placed truly, but for those in doubt (propagated by two steps or more, see Observations) | 18,877 |
| `study` | `LearntSound`, `QueueBounded`, `QueueAgrees` | over any sequence of learnt, enqueued and followed samples template and queue stay sound, and the ring of followups has room | 502,541 |
| `match` | `TypeOK`, `StudyContract`, `RelationOfMatched`, `BlockedLeavesNoTrace` | whatever the features show, the parts of the result agree; `Study` assumes of a match what `StudyContract` states | 84,948 |
| `store` | `StoreTypeOK`, `Saveable`, `OldOrNew`, `RecordKept`, `HistorySurvives` | learning stays saveable and is not rolled back, over faults, deaths and losses of power | 4,494,795 |

Some properties are conjunctions of named parts with one subject: `Exclusive`
(one owner; no assertion fails), `CallbackOwed` (who owns the write, who still
gets a packet, what has already arrived), `LearntSound` (types, placements, readability),
`CycleOrdered`, `OutcomeComplete` and so
on. The parts stand before them in the module, each with what it says.

### Bounds, and why they are enough

* `Session` has no bound at all: its state is finite, and the run enumerates it.
* `Transport`: attempts are bounded by the code (two). The commands are one per
  policy that the code distinguishes: the arm (no answer, retried), the version
  (answer, retried, interruptible) and the image (its own failure rule, never
  retried). Liveness takes the one command that has every phase. Packets per
  buffer are unbounded.
* `Scan`: all notifications and both actions for safety. Liveness runs the
  enrollment alone, with a down and a drifting release: these reach every wait
  that can hold an owner (worker, deferred refresh, rearm, health pair).
  Enrollment's count of images is the code's (two); nothing else counts.
* `Action`: two preprocessing states (one could not tell a lost change), three
  identities and two epochs (as many as can be held, and a new one). `Samples` is 4
  of the code's 12: a rollback needs three accepted samples, and a fourth, the
  last, may follow any number of rollbacks; the limits of the rollbacks (three in
  a row, five in all) are the code's. The galleries have an unreadable print before
  a sound one, or alone, so that position and index differ and a task is refused.
* `Open`: `ProbeFailures` 2 of 5, `ChipFailures` 2 of 6, `GtlsGroup` 1 of 3,
  `EsdResets` 2 of 10. The counts only say how often the same step is taken again;
  each bound lets the step fail, be repeated, and be given up (a group of one still
  has a second group behind it). `Reason` has two of the five purposes of a refresh:
  one that must come to a valid base and one that tolerates its absence.
* `Enrollment`: seven features of the code's 40 (the closing of a full template happens at
  the seventh), and seven touches (`Touches`), each of a sample of its own: a rollback, a
  bridge between two parts, and a chain that propagation follows over two hops (it needs six
  views, and the run has them: see Observations) all occur before and with the closing. The
  order of the touches is one of many; the theorems are for all of them. `Meeting` says which
  samples lie near enough on the finger to register at all, twelve of the twenty-one pairs
  here; which of them do register is free. The theorems assume nothing of `Meeting`, so
  that they are for all pairs. One strength of a registration is enough, because the
  roll-back policy turns on how much of the new view was already covered, and that is free.
* `Study`: three features, a queue of two, three touches of three further samples, two of
  which may be learnt when they are presented. The templates have two or three views,
  related or not: append, replacement at capacity, a full queue and its followups occur.
* `Match`: at most three features in any order, one or two agreeing records, the counts of
  refusals and of blocked candidates at 0, 1 and 1 of 5, 10 and 5: the raised class, giving
  up and the override are each reached before the last feature. The templates are a full
  one, one with an unrelated feature of a worn class, and two that still queue.
* `Store`: three of 400 calibration samples with rendering trusted at the third, history
  of two, one update, a ring of one, one fault, three frames: each limit is reached
  and met again, once before and once after a fault. More samples than the cap needs a
  fourth frame; the cap is there (`Capped`), and is not what `Saveable` turns on.

### Fairness, and why the code justifies it

* The USB host ends every transfer and the main loop runs every source that is
  due: weak fairness of completions, timers, queued cancellations and idle
  deliveries; strong where another source can make the step unready for a moment
  (a timer that an arriving packet restarts). No fairness on the sensor, the
  application or on a failure.
* Every command has a deadline (`Transport!OperationEnds` is where that is
  shown), so `Scan`, `Session` and `Open` may assume that operations end. In `Open` that
  is weak fairness of `Machine`, the completion of whatever the running machine waits
  for, with any outcome.
* The state machines of `Session` that end by themselves, or have been asked to
  stop, issue finitely many operations: strong fairness of their ends. `MachinesEnd`
  is where that is shown, for every pattern of failures.
* The worker answers, once per frame: `g_task_run_in_thread` always calls back.
* `ActionEnds` assumes a sensor that is quiet in the end (`Quiet`): every
  notification is served first, and an endless stream of them keeps an action's
  coordinator busy. `HandoffEnds` needs no such assumption: idle owners leave
  newer notifications to the next one (`WaitEvent`), and the run shows it.

## What is proved

`SessionProofs` proves, for both values of `Reentrant` (the only assumption is
`ReentrantAssumption == Reentrant \in BOOLEAN`):

| Theorem | Statement |
|---|---|
| `Invariance` | `Spec => []IInv` |
| `TypeCorrect` | `Spec => []TypeOK` |
| `OneOwner` | `Spec => []AtMostOneOwner` |
| `RequestsAreHeld` | `Spec => []RequestsHeld` |
| `AssertsHold` | `Spec => []NoAssertFails` |
| `Exclusivity` | `Spec => []Exclusive` |
| `StoppedIsQuiet` | `Spec => []QuietWhenStopped` |
| `ReinitComesFirst` | `Spec => ReinitBeforeUse` |
| `HardwareOwnerImplemented` | `Spec => ImplementsHardwareOwner`, the refinement of `HardwareOwner` |

None of the properties is inductive alone. That a waiting action is answered for
(`RequestsHeld`) needs that a background owner runs while it waits; that the
reader join excludes commands (`QuietWhenStopped`) needs the phase the session
is in; that an assertion holds needs both. `Inv` is therefore the conjunction of
`SessionState` (types), `Ownership`, `Phases` (which task, join and request go
together), `Actions` and `Boundaries` (each request and its continuation) and
`Quiet` (the transport, and the assertions so far). `Free` describes the state in
which settling may choose the next owner. The argument follows the code: the
calls that actions share (settle, quiesce, admission, completion of open, suspend
and resume) have one lemma each, stated for any session state, saying what they
turn a `Free` or an `Inv` state into; then there is one lemma per action;
`NextStep` puts them together, and the theorems follow by temporal logic.

The same lemmas carry the refinement. What `HardwareOwner` sees of a session state is
`Holder`, `Request` and `AtBoundary`; each shared call also concludes what it has made of
them (`Started`, `Released`, `Reached` after settle, `Asked` after quiesce, `Waits` after an
admission), and one lemma for each of these says which step of `HardwareOwner` that is
from which owner (`SettledStep`, `AskStep`, `AdmitStep`, ...). `Handover` is the
conclusion of every action: a step of `HardwareOwner` or none, which leaves no new owner on
hardware that needs a reset.

`TransportProofs` proves, for every set of commands, assignment of slots and choice of
retry and sleep policies (`TransportAssumption`):

| Theorem | Statement |
|---|---|
| `TypeCorrect` | `Spec => []TypeOK` |
| `CallbackAlwaysOwed` | `Spec => []CallbackOwed` |
| `ResultsHonest` | `Spec => ResultHonest` |
| `ChannelImplemented` | `Spec => ImplementsChannel`, the refinement of `Channel` |

The difficulty is the buffer. One USB buffer holds packets that are dispatched one
after the other, and an operation that a packet completes ends only when the buffer
does; `CallbackOwed` says nothing of the middle of a buffer, and there the bugs would
be. `Inv` says what is needed of it: `Shape` (operation, reader and the sources
attached to them go together), `Awake` (who waits has not been answered, unless its
completion is noted) and `Fresh` (what is stored for a command came after it was last
sent, which is what makes clearing the slot in `Send` matter). What ends and what begins
an operation has a lemma each (`FreeInv`, `SendInv`, `SettledInv`, `DeferInv`,
`ReceiveInv`, `AckInv`), then each kind of packet, then each action: it is `Sound`, that
is, it keeps `Inv`, it is honest to the owner, and it is a step of `Channel` or none.

`ScanProofs` proves, for every set of notices the sensor may send and of kinds of action:

| Theorem | Statement |
|---|---|
| `TypeCorrect` | `Spec => []TypeOK` |
| `CycleIsOrdered` | `Spec => []CycleOrdered` |
| `FrameCycleImplemented` | `Spec => ImplementsFrameCycle`, the refinement of `FrameCycle` |

The inductive invariant has three parts. `Cycle` says which of frame, capture and verdict
belong to which phase of an action, and that nothing of them outlives it; `Stops` that an
action which stops without an error has a match, and one which does not stop has its
frame with the worker or a verdict that waits for the lift; `Owned` that between two
callbacks the owner has exactly one thing that will wake it. The handlers call each
other in chains and the last call of a chain may end the coordinator, so in the middle
of a callback `Owned` does not hold: `Ready` is what a handler may rely on then, and each
handler has a lemma that says what it makes of any `Ready` state. The lemmas also say
what an action can see of a handler (`Stays`, `Lifts`, `Tells`), in the order in which a
chain composes them; `ContractStep` turns that into a step of `FrameCycle`.

Of `Open`, `Repair` and `Base`, `GenerationProofs` proves, for every bound on the attempts and every set of reasons of a refresh
(`OpenAssumption`, `RepairAssumption`, `BaseAssumption`):

| Theorem | Statement |
|---|---|
| `TypeCorrect` | `Spec => []TypeOK` |
| `BringUpIsOrdered` | `Spec => []BringUpOrdered` |
| `PublishedAsOne` | `Spec => []PublishedTogether` |
| `ReadyIsEstablished` | `Spec => ReadyEstablished` |

A session becomes ready at the end of a chain: a child ends, the open machine goes
on or fails, the failure cleans up and perhaps starts over, all in one callback. What makes
it fit to be ready was established many callbacks earlier, by another machine. The
invariant says for each state of each machine what is established there. `Children` and
`Machines` say who runs and how often it may still try. `Ordered` carries the claim, the
confirmed key and the handshake from where they are established to `FINAL_SLEEP`, and
through the child that has ended but is not yet joined. `Published` says that the
reference is of one piece (`Whole`), that there is none before the acquisition (`Early`), and
that a session which will be ready without another command is `Fit`; for that an acquisition
needs a sample from where it may no longer fail without one, and an error whenever it cleans
up. The properties alone are not inductive, since they say nothing of a machine on its way.
Each C function has a lemma that says what it makes of a state of `Inv` (`Sequel`), also in the
middle of a callback; `SettleGood` composes them along the chain, `NamedGood` shows that
the renaming of tokens is faithful to all of it, and there is one lemma per action.

`ActionProofs` proves, for every set of kinds, every set of galleries over unreadable,
broken and sound prints, and every number of samples and of snapshots
(`ActionAssumption`, `RuntimeAssumption`):

| Theorem | Statement |
|---|---|
| `JobsGrounded` | `Spec => []JobGrounded` |
| `OutcomesComplete` | `Spec => []OutcomeComplete` |
| `InterruptionsClean` | `Spec => InterruptionClean` |
| `TypeCorrect` | `Spec => []TypeOK` |

The properties speak of ends; the invariant says what is true on the way. `JobOut` ties
the job to the action and generation it was made of, `JobStage` says what the worker
has decided by each checkpoint (a match has a sound winner and a state to save),
`Persisted` that what is pending to be saved is what is live, and that no further frame
can make it stale; `Enrolling` and `Authenticating` tie each verdict to what it owes the
application. The steps of the worker change nothing but the job (`SameJob`), so one
lemma serves them all. The types need the invariant too: a rollback is counted only while
its limits (`MayRollback`) have room, a sample only while one is missing, and the print that
a match names is one of the gallery because the worker's gallery holds indexes of the
readable prints (`RankExists`: there is a p-th one for each p it is asked for) and an index
survives to the result (`Entries`, `Indexed`, `Within`).

Of `StateFile` and `Store`, `GenerationProofs` proves, for every limit of the preprocessing (`PreprocessAssumption`) and
every number of frames and faults (`StoreAssumption`):

| Theorem | Statement |
|---|---|
| `FileOldOrNew` | `FileSpec => []OldOrNew`, for every set of records (`StateFileAssumption`) |
| `StateFileUsed` | `StoreSpec => FileSpec`, the refinement of `StateFile` by its users |
| `RestoreOldOrNew` | `StoreSpec => []OldOrNew`, which follows from the two |
| `StoreTypesCorrect` | `StoreSpec => []StoreTypeOK` |
| `SnapshotsSaveable` | `StoreSpec => []Saveable` |
| `RecordIsKept` | `StoreSpec => RecordKept` |
| `HistoryIsKept` | `StoreSpec => HistorySurvives` |

The invariant of the file (`FileInv`) adds to `OldOrNew` what a write that has not renamed
yet falls back to (`FallsBack`), and the order of its steps: only a synced record is
renamed, and the name then shows it (`InOrder`). For the learning, each step of a frame
has a lemma that it stays within its limits, ages no component past its updates
(`Young`) and takes nothing back (`Keeps`); `FrameLearns` composes them. `Saveable` then
needs that *every* place a restore may read from is young, the contents that only a
loss of power brings back included (`Ages`). `RecordKept` speaks of one rename; its
invariant (`Samples`) relates generation, write and file: a generation whose samples were
read has no fewer than the file, and than any write on its way to it. `HistorySurvives` needs
that a generation which knows a classifier is one that the next setup will not
overwrite: retained, initialized, or taken over (`Stages`).

`MatchProofs` proves, for every gallery, every probe, every count and threshold
(`MatchAssumption`, `GalleryAssumption`):

| Theorem | Statement |
|---|---|
| `TypeCorrect` | `Spec => []TypeOK` |
| `StudyContractHolds` | `Spec => []StudyContract` |
| `RelationAgrees` | `Spec => []RelationOfMatched` |
| `BlockedIsApart` | `Spec => []BlockedLeavesNoTrace` |

`GalleryAssumption` is what `print.c` (69-80) checks of a template before it is matched, that
its order table is a permutation, and what `policy.c` (1191) decodes. The properties speak
of the result, which one step writes; the invariant is about the evidence while it is
gathered (`Evidence`): it is of features the loop has passed, and since the order table
is injective the next one is not among them, so no feature is counted or retained twice
(`Gathered`, `RetainedOnce`); a match has direct evidence (`Scored`), which rests on a
lemma about `Policy` (`VerdictSound`: whatever the rules answer, a match is a candidate);
and the matched feature and the relation, chosen by different operators from different
sets, choose the same feature whenever both may (`Related`). Each way a feature can end
has a lemma, and so has each way to finish. A rescue takes the best of the agreeing
features: that there is one (`BestIsOneOf`) is shown from the well-foundedness of strict
inclusion on finite sets.

`StudyProofs` proves, for every capacity of the queue, every number of features, every
placement of the samples, every list of probes and whatever the matcher says
(`TemplateAssumption`, `QueueAssumption`, `StudyAssumption`, `StoredAssumption`):

| Theorem | Statement |
|---|---|
| `QueueStaysBounded` | `Spec => []QueueBounded` |
| `TemplatesAreSound` | `Spec => []LearntSound` |
| `CallsAreAccepted` | `Spec => []QueueAgrees` |

`StudyAssumption` says that the probes are samples, each presented once.
`StoredAssumption` says of a stored print what `EnrollmentCanBeStored` (below) shows of
a published one, and that none of its views is a probe.

The continuation ring has room for whatever is learnt next: the code checks that room
and drops the whole study when there is none, and `QueueStaysBounded` says that this
never happens. `QueueBounded` alone is not inductive: the invariant (`Room`) bounds the
ring and the waiting samples *together*, because learning moves one from the queue to
the ring, and allows one more between a learnt feature's entry in the ring and its turn.
Each operation of the queue has a lemma (`FillRanked`, `ReplaceRanked`, `ConsumeRanked`).

`LearntSound` compares the relations of a template with `Place`, pair by pair. What the
code keeps is a star around one reference, so the invariant is stated of the star:
`Good(t)` has a matrix with no slots but those of the reference (`GoodMatrix`) and *one*
transform `w` with which every sure view lies where its sample lies (`Framed`). That the
pairs agree then follows because the transforms are a group, which is proved first:
composition is associative, and the inverse the code computes is one on both sides. With a
single `w` the direction of each composition is forced, and a re-anchoring
(a new reference) or a refresh of one view has a lemma that says which frame the new
star has (`Reframed`). The refresh of the retained views is a recursive function over
the order table. Its values are not computed: there is a first step at which the
invariant would fail, by the well-foundedness of the naturals, and the lemma about one
view (`RefreshFeature`) excludes it. `Sorted` chooses each place by how many come before
it; that this is a permutation rests on `Older` being a strict total order on the views of a
template (`AgesRanked`).

`QueueAgrees` speaks of the moment between two calls, and a call that fails half-way must
leave it true as well. `LearnInvariant` therefore has a part for each moment: `Galleries`
(the stored, held, retained and passed templates are all good), `Between` (what a call
may expect) and `During` (one current template, whose samples, those that wait and
the probes still to come are disjoint, while the ring is worked off). That the
probes to come are in it is what keeps the samples distinct when one of them is learnt.

`EnrollmentProofs` proves, for every number of features, every placement of the samples,
every order of the touches, and whichever views register and are rolled back
(`TemplateAssumption`, `EnrollmentAssumption`):

| Theorem | Statement |
|---|---|
| `EnrollmentTypesCorrect` | `EnrollmentSpec => []EnrollmentTypeOK` |
| `EnrollmentPublishesSound` | `EnrollmentSpec => []PublishedSound`: views in doubt excepted |
| `EnrollmentStepsAgree` | `EnrollmentSpec => []StepsAgreeWithWhole` |
| `EnrollmentCanBeStored` | when no sample is touched twice, `EnrollmentSpec => [](transaction.m.n > 0 => CanBeStored(AsPrint(TemplateOf(transaction))))` |

An insertion is a chain of loops: over the views that registered, over the candidates of
each bridge, over a worklist that grows while it is read, over all pairs of a full matrix.
Each loop is a recursive function over its counter. What it computes is never unfolded to
the end: a lemma says what one turn does (`RouteTurns`, `LowerTurns`, `BridgeTurns`, ...),
and there is a first turn after which a claim about the loop would fail, by the
well-foundedness of the naturals, which the lemma about one turn excludes.

`PublishedSound` speaks of what is published; the invariant (`Publishable`) speaks of the
matrix that is kept. `WellMade` has the types, the triangle of slots (`Filled`), and that
every set slot which is not in doubt is true (`Truthful`), not only those of the reference:
a later composition may read any of them, also one stored by way of a view rolled back since.
`Placeable` says that an active view has a relation with the reference, without which the
live fields of a deletion could not be read. Propagation, connecting through a placed view
and closing compose relations in directions of their own; for each there is a lemma that
the product is the relation it is stored as (`Laid`, `Leads`, `Extended`).

What `PublishedSound` does not claim is kept slot by slot, in a set the code does not have
(`transaction.doubt`). Propagation puts a view in doubt when it composes a route of two
steps or more, which the code does in the wrong order (see Observations); a bridge, a
placement through another view and closing pass the doubt on to what they compute from it
(`DoubtfulThrough`), a relation measured or stored anew from sure ones is sure again, and a
deletion takes the slots of its view out. Every other view of the same template is claimed
to be placed truly, and all of it to be readable. One step from a sure view is never in doubt.

`StepsAgreeWithWhole` compares two computations over different matrices. One has the rows of
the views taken so far; the other has all rows from the start, and the number of
rows is read by nearly every operator. `Twins(u, v, c)` says that two
transactions agree in what concerns the first `c` views, and each operator has a lemma
that it takes twins to twins: a simulation in lock-step, from loop to loop
(`Abreast`, `Landed`, `Leading`). The history variable `taken` then has a witness
(`HistoryKept`): a sequence of transactions, one for each view, of which each follows
from the one before it. Only the last insertion closes the matrix, in both computations, which
is why the property is one of a transaction without rollbacks and still reaches the closed
one.

`EnrollmentCanBeStored` joins this to `StudyProofs`. `CanBeStored` is `StoredAssumption`
without its clause about the probes to come, and `AsPrint` is the published template as an
authentication receives it (no match has met a view, the queue is not disabled). The
theorems about `Study` assume it; the theorem discharges it for whatever an enrollment
of different samples publishes.

Only model-checked is liveness (`Served`, `WaitsEnd`, `MachinesEnd`, `EndsAndTells`): the
prover has no rule for liveness under fairness, nor for ENABLED. Every safety property of
a passing run is a theorem.

## Findings

One disagreement between the code and a comment of the repository, shown by a run
that is expected to fail.

* `scan_settle` / `SettlementNotStranded`. An event received during the down rearm
  is served before the cycle is settled (`scan.c:755`). If serving it does not end
  in another rearm (a down whose manual read fails, an ESD repair), the
  coordinator waits for an event although finger and worker are done; the
  cycle is settled after the next event that rearms.

### Observations

What the models made visible and no run of its own checks. None contradicts a
property above.

* Transport: a wait for a finger is started without a deadline, and the comment at
  `transport.c:940` promises that packets it does not consume leave clocks intact; the
  first cell of a packet of several cells starts the five second data clock,
  which stays on the wait when the packet turns out to be somebody else's.
* Scan: `scan.h:54` says that `capture_ready` runs only after the up arm and the
  submission of the event receive. It runs before the arm is sent (`scan.c:680`).
* Scan: when the cleanup after a hardware failure has to join the worker, it cancels
  the action's token, that cancellation becomes the stop error, and the action is told
  CANCELLED instead of the failure (`scan.c:833`, `scan.c:884`). The failure is not
  lost: `FailureMarksSession`.
* Open: `open_ref_powered` is cleared by the completion of an open and by the configuration
  step only, so a later open that fails before it configures sends sleep and EC
  commands in its cleanup, possibly on an interface it has not claimed.
* Open: when an event's GTLS restart has used up its attempts in the ordinary way, the
  session stays ready without an established key; the next restart request or
  reconstruction establishes one. `ReadyEstablished` is about becoming ready.
* Open: the coordinator's own acquisition of a missing reference (`scan.c:435`) is never
  needed, because a session only becomes ready with one or with its recovery pending.
* Store: a read of the state file that fails for a passing reason gives the defaults, and
  the setup publishes them over the good record. `RecordKept` excepts exactly that (`blind`).
* Store: a refresh reads the sample count back from disk, so learning that was not yet
  saved is rolled back with it, while the history stays; a history that starts again with
  fewer than two samples keeps the ages of the old reference.
* StateFile: a directory that a dying writer made and never synced is found existing by the
  next one, which does not sync its parent: a write reported successful may then be lost
  with the directory. `OldOrNew` therefore allows no file at all until the directory is durable.
* Enrollment: propagation may misplace a view. `transform.c:105` says of the composition
  that its output is `after * before`. Propagation to an earlier view walks the route from
  the view (`path`) towards the pivot and composes `route_slot * path` at every hop
  (`propagation.c:57`). The slots are relations of the later view to the earlier,
  so the next hop belongs on the other side: from the second step on, the product that is
  inverted as `candidate_to_pivot` is not the route, unless the two happen to commute, and the
  view is stored with a placement it does not have. A route of one step is right. It takes six
  views: `PropagatedTrue` (`MCEnrollment`) put among the INVARIANTS of
  `enrollment_safety.cfg` fails within seconds. The closing of a full template (40 views)
  computes placements anew, but not all of them, and the driver publishes after 12
  (`GOODIX_ENROLL_SAMPLES`), which closes nothing. The repository follows a native library it
  does not include, and the order may be inherited from it. `PublishedSound` excepts the
  views concerned and those placed through them, and no other view.
* Enrollment: a view that is rolled back leaves what bridging stored between other
  views by way of it; these relations are true (`PublishedSound` covers them), and none of its
  own stays (`EnrollmentTypeOK`). A rejected order slot stays in the order table.
* Study: after an inactive reference is re-anchored inside one transaction, the
  evidence still to be processed is in the old frame; nothing reads it before it is
  replaced (ghost `sure`). At capacity without a reference a study is refused and the
  gallery cleared; a study that fails loses the entries it had consumed.
* Match: the fallback publishes with a positive score whatever was blocked; the override
  of blocked candidates cannot coincide with a rescue; the rescue may choose a row that was
  vetoed by its context (`match.c:1088`); and after a rescue the relation need not
  be the matched feature's (`RelationOfMatched` excepts rescued results).

## What is not modelled, and why

* Numerical work: features, geometry, anti-fake, the arithmetic of rendering and
  calibration (most of `milan/core.c`), thresholds of the match policy. Fixed-point
  arithmetic on whole frames has no state between calls beyond what `Preprocess`
  keeps; the repository compares it with the native algorithm by tests.
* `proto.c`, `calibration.c`, `image.c`: pure functions of their arguments.
  `health.c` beyond the captured pair: the base estimate that all devices of a process
  share is arithmetic on a bounded history.
* In `Preprocess` and `Store`: the ages of the reference plane (`profile9_reference_age`, 50 at
  most) and the values of the class planes (2 at most), two more limits a save checks
  (`persistence.c:755`, `:762`). `Saveable` is about the counters and the component ages.
* In `Open`: the drift anchor, the requested operating mode, the contents of OTP and
  firmware strings. In `Study` and `Match`: the branches for other sensors,
  diagnostics, and parallel evaluation (none in this driver).
* Failing allocations, inputs of the wrong profile or subtype, insecure owners and
  permissions of the state file, the choice of the retry message, debug dumps, logging,
  finger status reports. Removal is read once, at the completion of an
  authentication, and is a choice there.
* Key derivation, AES and HMAC; the byte layout of templates.
* libfprint itself, its patches, fprintd, packaging, scripts, tools and tests. What the
  driver relies on of libfprint is in `Session`, marked external.

## Plan

1. Done: `Session`, `HardwareOwner`, `SessionProofs`; `Transport`, `Channel`,
   `TransportProofs`; `Scan`, `FrameCycle`, `ScanProofs`; `Runtime`, `Action`, `ActionProofs`; `Open`,
   `Repair`, `Base`, `StateFile`, `Preprocess`, `Store`, `GenerationProofs`; `Template`, `Enrollment`,
   `EnrollmentProofs`, `StudyQueue`, `Study`, `StudyProofs`; `Policy`, `Match`, `MatchProofs`.
2. Composition of `Open` with `Session`: the open and resume tasks refined step by step.
3. `Health` (the shared estimate) and the reassembly of `proto.c`, should their
   arithmetic change.

No module that theorems use declares a RECURSIVE operator.
