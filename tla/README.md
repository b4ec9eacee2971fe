# ODrive ROS 2 packages: TLA+ models and proofs

This directory models the programs of this repository that talk to ODrive motor
controllers over CAN: the standalone node (`odrive_node`), the ros2_control plugin
(`odrive_ros2_control`) and the library under both (`odrive_base`). TLC checks the
models on small instances; TLAPS proves their invariants, action properties and
refinements for every value of the constants. Paths are relative to the repository, which `PROJECT.json` calls `src/`.

## The system

| component | state | operations | interacts by |
|---|---|---|---|
| `EpollEventLoop`, `EpollEvent` (`odrive_base/src/epoll_event_loop.cpp`) | `n_events_`, the batch `triggered_events_`, heap contexts, eventfds | register, deregister, `run_until_empty`, `drop_event`, `set`, `on_trigger` | callbacks on the loop thread; `set` and `deinit` from any thread |
| `SocketCanIntf` (`odrive_base/src/socket_can.cpp`) | socket, `broken_`, its event | init, deinit, send, `on_socket_event`, `read_nonblocking` | frame callback; event loop (node) or polling (plugin) |
| `ODriveCanNode`, clients' side (`odrive_node/src/odrive_can_node.cpp`) | `ctrl_msg_`, `axis_state_`, limits, four events | one subscriber, three services, four loop callbacks, deinit | main thread (rclcpp::spin) and loop thread share it under mutexes; a condition variable |
| `ODriveCanNode::recv_callback` | `ctrl_stat_`, `odrv_stat_`, two flag masks | one case per cyclic message, MIT feedback | publishes two topics |
| packing in the node (`byte_swap.hpp`, MIT packing) | none | six command frames and MIT commands laid out, seven status frames and MIT feedback taken apart | bytes of a frame |
| `ODriveHardwareInterface` (`odrive_ros2_control/src/odrive_hardware_interface.cpp`) | `active_`, per axis three `*_input_enabled_` flags, setpoints, estimates | lifecycle callbacks, mode switch, read, write | called by the controller manager; frames to the drives |
| signal encoding (`can_helpers.hpp`, `can_simple_messages.hpp`) | none | set and get a bit field, encode and decode 26 messages | bytes of a frame |
| BotWheel Explorer, enumerations, packaging | | declarative | not modelled |

What is hard here: two unsynchronised threads around the event loop and its teardown;
three separately locked reads of one message; wakeups that coalesce; a service that
blocks the executor on heartbeats; frames that fail silently, one by one, in the
middle of a three-frame command; lifecycle calls in any order around flags that
outlive them; hand-written bit packing over uninitialised memory. `PROJECT.json`
lists these as hazards, each at its line.

## The modules

| module | models | correspondence |
|---|---|---|
| `EventLoop` | event loop, one loop thread, any client | `ctx` is the life of each `EventContext`; `ready` the descriptors that epoll would report; `triggered`, `nulled` the batch and the pointers `drop_event` cleared; `handler` and `loop` the program counter of `run_until_empty`. A freed context that is called may crash or still work; then an eventfd's handler returns, because its read of the closed descriptor fails, while a socket's runs |
| `SocketCan` | `SocketCanIntf` over a whole life, in either program | instantiates `EventLoop` with one event per successful init; `table` is the process' descriptor table, whose numbers others take and give back; `socket_id_`, `socket_evt_id_`, `broken_` are the fields, never reset as in the code; `pc` is where each of the two threads is inside `deinit` and `on_socket_event` |
| `StatusTopics` | `recv_callback` | one action per frame; a field's value is the time its frame came, so that staleness is visible; flag masks are sets |
| `ODriveCanNode` | node, main thread and loop thread | instantiates `EventLoop` with its five descriptors, which any thread may deregister; `ros` and `body` are the two program counters, one step per critical section; `sent` is the last frame of each kind on the bus; the socket's `deinit` takes three steps (deregister, close, `broken_`) on either thread |
| `Requests` | what the node promises its clients | abstract: requests are numbered per topic; `Ask`, `Do` (the last request or an earlier one, never back), `Answer`, `Shutdown`, `Fail`. No threads, events or locks |
| `Wakeups` | what the event loop promises those who register callbacks | abstract: `Register`, `Signal`, `Call`, `CallLate`, `Drain`, `Return`, `Deregister`, `GiveUp`, `Crash`. No batch, pointers or descriptors |
| `HardwareInterface` | plugin, controller manager, drives | one step per lifecycle callback; `wire` is the queue of frames to each drive; a setpoint is the set of inputs its fields come from; `commanded` and `activated` are history: was the last command queued whole, has anything assigned `active_`? |
| `Orders` | what the plugin promises of its drives | abstract: what is `wanted` of each axis, the orders that are out, the drive; `Want`, `Obey`, `Fault`. No flags, lifecycle, setpoints or queues |
| `CanSignal`, `CanSimple` | bit fields; layouts of all messages | a word is the set of its one bits; `CanSimple` lists the named signals of each `encode_buf` in order |
| `NodeFrames` | every frame the node lays out or takes apart by hand with `write_le` and `read_le`, except MIT | compared, field by field, with the layouts of `CanSimple`, which are the drive's; a local `can_frame` holds any of `Junk`; two frames are laid out in the same memory, cut at `can_dlc` |
| `FrameNumbers` | what packing does to numbers: MIT command and feedback, feedforward terms of node and plugin | the node's numbers are integer thousandths and NaN, without the rounding of its floats; the terms the plugin scales are exact floats (sign, 24-bit mantissa, scale) and their division by `0.001f` is rounded as the hardware does, digit by digit; the drive's side of the frame is external |
| `MCEventLoop`, `MCFrames` | values of the constants for TLC | `MCFrames` joins `CanSignal`, `NodeFrames` and `FrameNumbers`: they share no variable, and each is explored while the others rest |
| `*_proofs` | the theorems | |

Composition: `ODriveCanNode` and `SocketCan` are built from the actions of
`EventLoop`, so that their races are those of the loop and not a second model of them.
Of `SocketCan` it is checked and proved that it implements `EventLoop`
(`ImplementsLoop`). `ODriveCanNode` starts when its events are registered, so it does not
implement the whole of it; all its five events have the discipline "thread".
`StatusTopics`, `NodeFrames` and `FrameNumbers` are the rest of the node's class; they
share no variable with `ODriveCanNode` other than the heartbeat, which it keeps (result
and freshness). `SocketCan` follows one socket through everything that can become of its
descriptor; `ODriveCanNode` keeps of it what a crash or a lost frame depends on.

Refinement, of three abstract specifications. Each step of the detailed module is an
abstract step or a stutter.

- `ODriveCanNode` implements `Requests` under the mapping `Promise`: `asked` is
  the number of the last message, request, limits or clear call stored, `done` the
  number in the last frame of each kind on the bus, `answered` the last response,
  `closing` that main has left spin. Of its steps,
  storing is `Ask`, a frame that is written is `Do`, the return of
  `service_callback` is `Answer`. If one second suffices and nothing fails (`InTime`),
  the abstract service is `Fresh`: an answer is given only when the request is done and
  nothing asked before the shutdown is done after it.
- `EventLoop` implements `Wakeups`: `life` is `ctx`, `signalled` the registered
  descriptors that epoll would report, `running` the event dispatched while its callback
  runs, `over` that the loop thread has ended or crashed. Gathering a batch, clearing
  its pointers and passing over a cleared one are unseen. What it says beyond the
  invariants: all signals of an eventfd before a call are answered by that call, one
  during it by a later call, and no callback begins once its event is deregistered, but
  for one: a socket's, that another thread deregisters while it is in the batch or
  fetched, may still be called once, late (`late`, `CallLate`). That is the node's own
  case: `main` deinitialises the socket while the loop thread runs.
- `HardwareInterface` implements `Orders`: `wanted` is the mode that the flags select
  while `active_`, else `"idle"`; `orders` are the frames of a command still in the
  queue of the drive; `certain` is `commanded`. Lifecycle, setpoints and estimates are
  unseen. The content is in `Obey`: a drive obeys only orders that were given, and once
  the last is out of the queue and none was lost, it does what is wanted or an error
  holds it.

Data is abstracted to what the properties tell apart: a message or request is its
number and the part the code branches on, a frame its kind, a status field its time
of arrival. Logging, QoS and parameters are left out. Where the C++ is undefined the
model chooses: a racing `drop_event` may miss the entry, freed memory may still work or
crash, `active_` starts with any value in `Memory`, uninitialised bytes are any of `Junk`.

## The runs

Runs that pass:

| run | shows | bounds |
|---|---|---|
| `loop_clients` | `SafeDispatch`, `ReadNeverBlocks`, `NoLostWakeup`, `ImplementsWakeups` | a socket that any thread may deregister and three eventfds, one per way of deregistering it: by its own callback, by any callback, by any thread |
| `socket_life` | `ForeignOnlyAfterDeinit`, `OneSocket`, `ContextFollowsSocket`, `VanishedIsDeregistered`, `ImplementsLoop` | both programs; 3 sessions, the first in which `broken_` is still set is the second and the third starts from a context left behind; descriptors 0 (stdin), 1 and 2: ours, a foreign one, and the number they trade |
| `status_topics` | `PublishedOnTime`, `FieldsFresh` | 9 frames: two aggregated messages of 4 (or 3) kinds and one frame too many, which is where a stale flag would show; two configurations of the ODrive, one with MIT feedback |
| `node_faults` | `ControlSettled`, `ServicesSettled`, `CrashOnlyInTeardown` | 2 messages of 3 modes, one request and one clear_errors call, failing writes, a vanishing interface, signals, spurious wakeups, deinit against the running loop |
| `node_prompt` | `IdleLast`, `FreshResponse`, `ControlDelivered`, `ServiceAnswers`, `RequestsCarriedOut`, `ImplementsRequests` | 2 messages, 2 requests, limits, shutdown to IDLE, under `Prompt` and fair scheduling (below); no clear_errors call, which follows the path of the other services and is in `node_faults` |
| `hw_lossy` | `FollowsInterfaces`, `SetpointFitsMode`, `OnlyClaimedInputs`, `DeactivatedIsIdle`, `DeactivationTakesEffect`, `ImplementsOrders` | one axis, either value in the uninitialised `active_`, two interfaces (position with effort as its feedforward, or effort alone), queue of 3 frames (a whole command, or its tail with a setpoint behind), any send may fail |
| `frames` | `DecodesWhatWasEncoded`, `CommandFieldsArrive`, `StatusFieldsArrive`, `MITCommandArrives`, `FeedbackArrives`, `ScaledFeedforwardArrives` | all message layouts and all hand-made frames, two complementary bit patterns, garbage all zero or all one; numbers at, next to and beyond both limits of every field, in all combinations; eleven floats of both signs for the plugin's terms, those whose quotient rounds down (1.0, 0.005, 32.767) among them |

`TypeOK` of each module is checked by one of its runs. Two messages are enough for
the races of `ctrl_msg_callback`: the second may be stored before, between or after
its reads, and the proof of `ControlSettled` covers any number. The axes of the plugin
do not interact (each callback is one loop over them), so one axis suffices for TLC;
the proofs cover any set, all three inputs and a queue of any length. Each property
has a mutant of the code, listed in `PROJECT.json`, that breaks it in the run.

What `socket_life` says of the stale descriptor: `socket_id_` keeps its number after
close, so the node's `deinit` on the main thread can close a descriptor of somebody
else, but only after the loop thread has closed the socket of a vanished interface; the
plugin never touches a foreign descriptor. From the second configuration on, `deinit`
leaves its epoll context behind, because `broken_` is never reset; and an interface
that vanishes is deregistered by the node unless a read or write of its own took the
error from the kernel first.

Runs that find a violation, each of a sentence the repository writes:

| run | what the code does | what it says |
|---|---|---|
| `node_mit_mode` | decides on one read of the mode and sends another (`odrive_can_node.cpp:401`) | "skip kSetControllerMode for MIT" (`:396`) |
| `node_idle_clears` | tests for UNDEFINED (0) instead of IDLE (1) (`:345`) | "Clear errors if requested state is not IDLE" (`:346`) |
| `hw_uninit` | `active_` is read before it is assigned (`odrive_hardware_interface.cpp:41`) | "Interface inactive. Setting axis to idle." (`:300`) |
| `hw_enable` | `on_activate` commands closed loop control if an interface is already claimed (`:149`) | "Therefore we enable the ODrives only in perform_command_mode_switch()" (`:145`) |
| `codec_feedforward` | feedforward cut to one signed byte (`odrive_can_node.cpp:436`) | fields "directly related to their corresponding CAN message" (`odrive_node/README.md:65`) |

Smaller disagreements seen while modelling, without a run: MIT feedback publishes
`controller_status` before each kind has arrived (`odrive_can_node.cpp:255`, against
`odrive_node/README.md:46`); a request of CLOSED_LOOP_CONTROL is answered while BUSY
(`:310`, against `README.md:52`); with `Spurious` or without `Prompt`, `FreshResponse`
fails: the wait predicate does not ask for a new heartbeat (`:306`, against the comment
at `:301`).

### Fairness and assumptions

- `EventLoop`, `ODriveCanNode`: weak fairness of the loop thread and of main once it is
  in a callback: both are ordinary threads, and callbacks contain no loops except the
  drain of the socket. Clients, signals and faults are never fair. Main's callbacks
  that wait need the environment: `node_prompt` assumes that time passes and that the
  drive keeps sending heartbeats (strong fairness, since receiving is enabled only
  while the loop thread is in the socket callback), and `ServiceAnswers` is about
  drives that stop reporting BUSY. The drain of the socket ends: frames arrive at the
  rate of the bus, slower than they are read.
- `SocketCan`: weak fairness of the loop thread's steps, and of the step that ends the
  drain, for the same reason. The kernel reports an error of a socket once, to
  whichever of epoll, read and write asks first. A component whose `on_configure`
  returned ERROR is finalized, since `on_error` is not overridden.
- `Prompt` (in `node_prompt`): within the second that `service_callback` waits each
  thread runs at least once, so the request it set has been sent. It is a timing
  assumption, named because `IdleLast` and `FreshResponse` are false without it.
- `HardwareInterface`: weak fairness of delivery only. The manager serialises the
  callbacks of a component, so a callback is one step; delivery, faults and losses
  interleave with them. A frame that was queued is not lost on the bus (CAN
  retransmits); a send may fail, silently.
- Batches are not truncated: both programs register fewer events than the 16 that fit.
- Hosts are little-endian. `byte_swap.hpp` has a branch for others, but its
  `static_assert` refuses `float`, so the node does not compile there.

## What is proved

For every value of the constants that satisfies the named assumptions:

| module | theorems | inductive invariant and why it is needed |
|---|---|---|
| `EventLoop_proofs` | `LoopTypeOK`, `LoopReadNeverBlocks`, `LoopSafeDispatch`, `LoopImplements` (`Wakeups`) | `BatchReadable`: what is in the batch is still readable, since only dispatch reads, and what was never registered is not ready; `BatchLive`: an entry that is not cleared is live (unless other threads deregister); `EventsCounted`: `n_events_` is the number of contexts ever made, which bounds it (by a cardinality lemma). A step is hidden, a crash or one of `Wakeups`, each with its lemma: a call is of a live event that wants one by `BatchReadable`, or is late |
| `StatusTopics_proofs` | `StatusTypeOK`, `StatusOnTime`, `StatusFresh` | `FlagsExact`: a flag is up exactly if its kind came since the last aggregated message, and the fields are at least that new. Both properties are about publications, which leave no trace in the flags, so neither is inductive without it |
| `ODriveCanNode_proofs` | `NodeTypeOK`, `NodeControlSettled`, `NodeServicesSettled`, `NodeCrashOnlyInTeardown` | `InCallback` ties the program counter of the callback to the event dispatched; `Registered` says which contexts live at each point of `deinit()`; `ControlInv`, `ServicesInv` say that a callback whose event is not set again works on the newest data: storing and setting in that order, and resetting the event before the callback, are what they rest on. |
| `NodePromise_proofs` | `NodeImplements` (the node implements `Requests`), `NodeIdleLast`, `NodeFreshResponse` (the last two under `InTime`) | `OrderInv`: the bus is never ahead of the loop thread's copy, nor the copy of what was asked, so every frame is a `Do`; `InTimeInv`: outside a service call, and once its second has passed, no request is pending, so an answer and the shutdown find nothing outstanding. Each action is then one of three kinds, each with its lemma: it asks (`AskStep`), does (`DoStep`), or is unseen (`QuietStep`); the answer and the shutdown are their own |
| `HardwareInterface_proofs` | `InterfaceTypeOK`, `InterfaceFollows`, `InterfaceDeactivatedIdle`, `InterfaceSetpointFits`, `InterfaceOnlyClaimed`, `InterfaceImplementsOrders` | for each axis: settled (the drive is as the flags say and only setpoints are queued) or pending (the frames of the last command, or a suffix with the earlier ones obeyed, are in the queue with only setpoints behind). Losses of later setpoints, faults and arbitrary older frames in front are covered. `FitInv` adds that before each setpoint of a command queued whole the queue holds the frames that select its mode and arm it, or the drive has obeyed them, whatever switches were queued behind. The refinement rests on settled or pending, and on lemmas about the orders of a queue: of a queue lengthened, shortened, or sent with losses (`OrdersConcat`, `OrdersTailOrder`, `OrdersKept`). `InterfaceDeactivatedIdle` assumes nothing of the uninitialised `active_`: the first activation assigns it, and from then on it agrees with the lifecycle state |
| `SocketCan_proofs` | `SocketTypeOK`, `SocketForeign`, `SocketOne`, `SocketContext`, `SocketImplementsLoop` | `SessionsInv`: contexts are made one after the other, and the first was freed when `broken_` was set, for good; `ThreadsInv`: where each thread may be inside `deinit`, also after a late call; `SocketInv`: the first thread in `deinit` finds the socket open, so only a second `close` can hit a foreign descriptor; `ForeignInv`: `init` starts with a clean history. For the refinement: a context is registered only before the loop thread starts, and `deinit` names one of the sessions made, whose context is live or freed before; `BatchInv`: the batch holds at most the one context of the node, and no call is due after one that called `deinit` |
| `FrameNumbers_proofs` | `NumbersMIT`, `NumbersFeedback`, `NumbersScaled` | the properties are about the frame in hand; what is proved is arithmetic for every number: codes fit their widths (`float_to_uint` is within a step and saturates), nibbles packed are nibbles unpacked; the long division by `0.001f` is exact digit by digit (`DivideOn`), its rounding off by at most half a unit (`RoundedQuotient`), so the cast loses a step and a 64th at most |
| `NodeFrames_proofs` | `CodecTypeOK`, `CodecDecodes`, `FramesCommands`, `FramesStatus` | of `CanSignal` the property itself with the types: a store keeps every signal below it (`SetKeepsLower`), which holds because layouts ascend. Of `NodeFrames`: the frame on the bus reads back as the fields it was made from, whatever `Junk` and bit patterns, since each `write_le` replaces its bytes and keeps the others, so the last writer of each bit is its field |

The arguments all have the same shape: the invariant holds initially, each action
keeps each conjunct it can disturb (one step per action), and the invariant implies
the property; for a refinement, each action maps to an abstract one under the invariant.
The invariants of the node and of the socket are their own, although both are built from
`EventLoop`: the prover does not carry `EventLoop_proofs` over an `INSTANCE`, because it
takes the `Cardinality` of an instance for another operator.

Only model-checked: the liveness properties (`NoLostWakeup`, `ControlDelivered`,
`ServiceAnswers`, `RequestsCarriedOut`, `DeactivationTakesEffect`,
`VanishedIsDeregistered`; fairness and `ENABLED` are out of reach of the prover). Every
invariant, action property and refinement that a passing run checks is proved.

## Plan and what is left

Done, in this order: `EventLoop`; `StatusTopics`; `ODriveCanNode` over `EventLoop`;
`HardwareInterface`; `CanSignal` with `CanSimple`; the numbers of the frames; the proofs
of these; `SocketCan` over `EventLoop`; `Requests` and the refinement; the inputs behind
the plugin's setpoints; `NodeFrames`; the proofs of `IdleLast`, `FreshResponse`,
`SetpointFitsMode`, `OnlyClaimedInputs`, of the refinement, of the packing and of
`SocketCan`; `Wakeups` and `Orders` with their refinements, and those that hold the node
and the socket to `EventLoop`, all proved.

To do:

1. The system: node, bus and drive together, and two hosts on one bus.
2. Setpoint and estimate values in `HardwareInterface` with their units (turns to
   radians), beyond the inputs they come from.

Not modelled, and not planned: the launch files, robot description and controller
configuration of BotWheel Explorer (declarative); `odrive_enums.h` (constants); build
files and containers; `byte_swap.hpp` on big-endian hosts (does not compile); rounding
of floats in the node; QoS queues of rclcpp; overloads of `can_helpers.hpp` without a caller.

## Running

`tlc -workers 2 -config hw_lossy.cfg HardwareInterface` (each run's module and
configuration are in `PROJECT.json`); `tlapm HardwareInterface_proofs.tla`.
Deadlock is checked in every run; states where the program may stop are the named
stuttering actions `Stopped` and `Done`.
