--------------------------- MODULE ODriveCanNode ----------------------------
(***************************************************************************)
(* ODriveCanNode of odrive_node: what a ROS client asks for, and what the  *)
(* node puts on the CAN bus.  Two threads share the node:                  *)
(*   - main (variable ros) runs rclcpp::spin: the subscriber and service   *)
(*     callbacks store a request and set an event; then deinit();          *)
(*   - the loop thread (module EventLoop, and variable body inside a       *)
(*     callback) reads what was stored and sends the frames.               *)
(* The event descriptors are "can" (the socket), "sub", "srv", "clr" and   *)
(* "lim" (the four EpollEvents).                                           *)
(*                                                                         *)
(* A message, a request or a pair of limits is an identity, given in the   *)
(* order main stores them (0: nothing stored), and what the code branches  *)
(* on.  The bus is the variable sent: the last frame written of each kind. *)
(***************************************************************************)
EXTENDS Naturals, FiniteSets

CONSTANTS
  Modes,          \* control modes clients use, a subset of ControlMode
  AxisStates,     \* axis states clients request, a subset of AxisState
  MaxMsgs, MaxRequests, MaxLimits, MaxClears,    \* bounds on what clients ask
  axis_idle_on_shutdown_,   \* the ROS parameter
  Faults,         \* may a write fail, the interface vanish, a signal arrive?
  Spurious,       \* may wait() return without a notification?
  Prompt          \* do both threads run at least once in the one second that
                  \*   service_callback waits?

Supported == {"torque", "velocity", "position", "mit"}
ControlMode == Supported \cup {"voltage", "unsupported"}
AxisState == {"undefined", "idle", "calibration", "closed_loop"}

ASSUME NodeAssumption ==
  /\ Modes \subseteq ControlMode
  /\ AxisStates \subseteq AxisState
  /\ MaxMsgs \in Nat /\ MaxRequests \in Nat /\ MaxLimits \in Nat /\ MaxClears \in Nat
  /\ axis_idle_on_shutdown_ \in BOOLEAN
  /\ Faults \in BOOLEAN /\ Spurious \in BOOLEAN /\ Prompt \in BOOLEAN

NodeEvent == {"can", "sub", "srv", "clr", "lim"}

VARIABLES
  ctx, ready, triggered, nulled, handler, loop, n_events_,   \* of EventLoop
  ctrl_msg_,      \* last control message stored: its id and mode
  axis_state_,    \* last axis state requested: its id and the state
  limits_,        \* id of the last limits stored
  clears,         \* number of clear_errors calls
  ctrl_stat_,     \* last heartbeat: its result, and the id of the last
                  \*   Set_Axis_State frame on the bus when it was received
  ros,            \* where main is
  body,           \* where the loop thread is inside a callback
  control_mode,   \* the local of ctrl_msg_callback
  axis_state,     \* the local of request_state_callback
  elapsed,        \* has the running service call lasted one second?
  response,       \* last answer of request_axis_state: request id, result, seen
  broken_, open,  \* of SocketCanIntf: the flag, and whether the socket is open
  sent, failed    \* last frame of each kind, kinds whose last write failed

Loop == INSTANCE EventLoop WITH
  Event <- NodeEvent, EventFd <- NodeEvent \ {"can"}, NoEvent <- "none",
  kMaxEventsPerIteration <- 16, Discipline <- [e \in NodeEvent |-> "thread"]

evars == <<ctx, ready, triggered, nulled, handler, loop, n_events_>>
stored == <<ctrl_msg_, axis_state_, limits_, clears>>
locals == <<control_mode, axis_state>>
service == <<elapsed, response>>
socket == <<broken_, open>>
bus == <<sent, failed>>
vars == <<evars, stored, ctrl_stat_, ros, body, locals, service, socket, bus>>

Messages == [id : 0..MaxMsgs, mode : ControlMode]
Requests == [id : 0..MaxRequests, state : AxisState]
\* An input frame is of a supported kind ("none": none sent yet).
Frames == [mode : Messages,
           input : [id : 0..MaxMsgs, mode : Supported \cup {"none"}],
           axis : Requests, errors : Requests, clear : 0..MaxClears,
           limits : 0..MaxLimits]
Results == {"busy", "done"}
Teardown == {"deinit_sub", "deinit_srv", "deinit_can", "can_close", "can_break", "exit",
             "terminated"}

TypeOK ==
  /\ Loop!Types
  /\ ctrl_msg_ \in Messages
  /\ axis_state_ \in Requests
  /\ limits_ \in 0..MaxLimits
  /\ clears \in 0..MaxClears
  /\ ctrl_stat_ \in [result : Results, seen : 0..MaxRequests]
  /\ ros \in {"spin", "svc_set", "svc_check", "svc_wait", "lim_set"} \cup Teardown
  /\ body \in {"none", "ctl_read", "ctl_mode", "ctl_input", "st_read", "st_clear",
               "st_send", "clr", "lim", "can", "can_done", "can_close", "can_break"}
  /\ control_mode \in ControlMode
  /\ axis_state \in Requests
  /\ elapsed \in BOOLEAN
  /\ response \in [id : 0..MaxRequests, result : Results, seen : 0..MaxRequests]
  /\ broken_ \in BOOLEAN /\ open \in BOOLEAN
  /\ sent \in Frames
  /\ failed \subseteq DOMAIN sent

NoMessage == [id |-> 0, mode |-> "voltage"]
NoRequest == [id |-> 0, state |-> "undefined"]

\* init() has registered the five events and main has started the thread.
Init ==
  /\ ctx = [e \in NodeEvent |-> "live"]
  /\ ready = {} /\ triggered = {} /\ nulled = {}
  /\ handler = "none"
  /\ loop = "idle"
  /\ n_events_ = Cardinality(NodeEvent)
  /\ ctrl_msg_ = NoMessage /\ axis_state_ = NoRequest /\ limits_ = 0 /\ clears = 0
  /\ ctrl_stat_ = [result |-> "done", seen |-> 0]
  /\ ros = "spin" /\ body = "none"
  /\ control_mode = "voltage" /\ axis_state = NoRequest
  /\ elapsed = FALSE
  /\ response = [id |-> 0, result |-> "done", seen |-> 0]
  /\ broken_ = FALSE /\ open = TRUE
  /\ sent = [mode |-> NoMessage, input |-> [id |-> 0, mode |-> "none"], axis |-> NoRequest,
             errors |-> NoRequest, clear |-> 0, limits |-> 0]
  /\ failed = {}

\* The process runs: no thread has crashed it, main has not returned.
Alive == loop # "crashed" /\ ros # "terminated"

\* write() to the socket.  Every caller ignores the result.
send_can_frame(kind, frame) ==
  \/ /\ open
     /\ sent' = [sent EXCEPT ![kind] = frame]
     /\ failed' = failed \ {kind}
  \/ /\ Faults \/ ~open
     /\ failed' = failed \cup {kind}
     /\ UNCHANGED sent

-----------------------------------------------------------------------------
(* Main: the callbacks that rclcpp::spin runs one at a time.               *)

\* ctrl_msg_ is stored and the event set under ctrl_msg_mutex_.
subscriber_callback ==
  /\ Alive /\ ros = "spin"
  /\ ctrl_msg_.id < MaxMsgs
  /\ \E m \in Modes : ctrl_msg_' = [id |-> ctrl_msg_.id + 1, mode |-> m]
  /\ Loop!set("sub")
  /\ UNCHANGED <<axis_state_, limits_, clears, ctrl_stat_, ros, body, locals, service,
                 socket, bus>>

service_store ==
  /\ Alive /\ ros = "spin"
  /\ axis_state_.id < MaxRequests
  /\ \E s \in AxisStates : axis_state_' = [id |-> axis_state_.id + 1, state |-> s]
  /\ ros' = "svc_set"
  /\ UNCHANGED <<evars, ctrl_msg_, limits_, clears, ctrl_stat_, body, locals, service,
                 socket, bus>>

\* The event is set after axis_state_mutex_ is released; then call_time is taken.
service_set ==
  /\ Alive /\ ros = "svc_set"
  /\ Loop!set("srv")
  /\ elapsed' = FALSE
  /\ ros' = "svc_check"
  /\ UNCHANGED <<stored, ctrl_stat_, body, locals, response, socket, bus>>

Served(e) == e \notin ready \cup triggered /\ handler # e

one_second_passes ==
  /\ Alive /\ ros \in {"svc_check", "svc_wait"} /\ ~elapsed
  /\ Prompt => ros = "svc_wait" /\ Served("srv")
  /\ elapsed' = TRUE
  /\ UNCHANGED <<evars, stored, ctrl_stat_, ros, body, locals, response, socket, bus>>

\* Mutant: there is no minimum call time.
complete_at_once ==
  axis_state_.state = "closed_loop" \/ ctrl_stat_.result # "busy"

\* The predicate of fresh_heartbeat_.wait.
complete ==
  /\ axis_state_.state = "closed_loop" \/ ctrl_stat_.result # "busy"
  /\ elapsed

\* One evaluation of it, under ctrl_stat_mutex_: answer, or (go on) waiting.
service_check ==
  /\ Alive /\ ros = "svc_check"
  /\ IF complete
     THEN /\ response' = [id |-> axis_state_.id, result |-> ctrl_stat_.result,
                          seen |-> ctrl_stat_.seen]
          /\ ros' = "spin"
     ELSE /\ ros' = "svc_wait"
          /\ UNCHANGED response
  /\ UNCHANGED <<evars, stored, ctrl_stat_, body, locals, elapsed, socket, bus>>

spurious_wakeup ==
  /\ Alive /\ Spurious /\ ros = "svc_wait"
  /\ ros' = "svc_check"
  /\ UNCHANGED <<evars, stored, ctrl_stat_, body, locals, service, socket, bus>>

\* Mutant: the event of the axis state requests is set instead.
clear_errors_wrong_event ==
  /\ Alive /\ ros = "spin"
  /\ clears < MaxClears
  /\ clears' = clears + 1
  /\ Loop!set("srv")
  /\ UNCHANGED <<ctrl_msg_, axis_state_, limits_, ctrl_stat_, ros, body, locals, service,
                 socket, bus>>

service_clear_errors_callback ==
  /\ Alive /\ ros = "spin"
  /\ clears < MaxClears
  /\ clears' = clears + 1
  /\ Loop!set("clr")
  /\ UNCHANGED <<ctrl_msg_, axis_state_, limits_, ctrl_stat_, ros, body, locals, service,
                 socket, bus>>

set_limits_store ==
  /\ Alive /\ ros = "spin"
  /\ limits_ < MaxLimits
  /\ limits_' = limits_ + 1
  /\ ros' = "lim_set"
  /\ UNCHANGED <<evars, ctrl_msg_, axis_state_, clears, ctrl_stat_, body, locals, service,
                 socket, bus>>

\* Mutant: the event of the axis state requests is set instead.
set_limits_wrong_event ==
  /\ Alive /\ ros = "lim_set"
  /\ Loop!set("srv")
  /\ ros' = "spin"
  /\ UNCHANGED <<stored, ctrl_stat_, body, locals, service, socket, bus>>

set_limits_set ==
  /\ Alive /\ ros = "lim_set"
  /\ Loop!set("lim")
  /\ ros' = "spin"
  /\ UNCHANGED <<stored, ctrl_stat_, body, locals, service, socket, bus>>

-----------------------------------------------------------------------------
(* Main after spin: deinit(), while the loop thread still runs, and return. *)
(* The events "clr" and "lim" are never deinitialised.  The std::thread is *)
(* never joined, so leaving main ends the process in std::terminate.       *)

Idle == [id |-> 0, state |-> "idle"]

spin_returns ==
  /\ Alive /\ ros = "spin"
  /\ IF axis_idle_on_shutdown_
     THEN send_can_frame("axis", Idle)
     ELSE UNCHANGED bus
  /\ ros' = "deinit_sub"
  /\ UNCHANGED <<evars, stored, ctrl_stat_, body, locals, service, socket>>

deinit_event(e, from, to) ==
  /\ Alive /\ ros = from
  /\ Loop!deregister_event_racing(e)
  /\ ros' = to
  /\ UNCHANGED <<stored, ctrl_stat_, body, locals, service, socket, bus>>

\* SocketCanIntf::deinit, by either thread: deregister, close, set broken_.  broken_
\* is not synchronised: if the other thread has freed the context but not set it
\* yet, the context is freed twice.
socket_deregister ==
  \/ broken_ /\ UNCHANGED evars
  \/ ~broken_ /\ Loop!deregister_event_racing("can")
  \/ ~broken_ /\ Loop!deregister_event_again("can")

deinit_can ==
  /\ Alive /\ ros = "deinit_can"
  /\ socket_deregister
  /\ ros' = "can_close"
  /\ UNCHANGED <<stored, ctrl_stat_, body, locals, service, socket, bus>>

deinit_can_close ==
  /\ Alive /\ ros = "can_close"
  /\ open' = FALSE
  /\ ros' = "can_break"
  /\ UNCHANGED <<evars, stored, ctrl_stat_, body, locals, service, broken_, bus>>

deinit_can_break ==
  /\ Alive /\ ros = "can_break"
  /\ broken_' = TRUE
  /\ ros' = "exit"
  /\ UNCHANGED <<evars, stored, ctrl_stat_, body, locals, service, open, bus>>

main_returns ==
  /\ Alive /\ ros = "exit"
  /\ ros' = "terminated"
  /\ UNCHANGED <<evars, stored, ctrl_stat_, body, locals, service, socket, bus>>

-----------------------------------------------------------------------------
(* The loop thread.                                                        *)

\* Outside callbacks nothing of the node changes.
loop_step ==
  /\ Alive
  /\ Loop!epoll_wait \/ \E e \in NodeEvent : Loop!fetch(e)
  /\ UNCHANGED <<stored, ctrl_stat_, ros, body, locals, service, socket, bus>>

\* A signal interrupts epoll_wait: SIGINT, or a fault.
loop_interrupted ==
  /\ Alive
  /\ Faults \/ ros \in Teardown
  /\ Loop!loop_returns
  /\ UNCHANGED <<stored, ctrl_stat_, ros, body, locals, service, socket, bus>>

Entry == [can |-> "can", sub |-> "ctl_read", srv |-> "st_read", clr |-> "clr", lim |-> "lim"]

dispatch ==
  /\ Alive
  /\ Loop!invoke
  /\ body' = IF loop' = "callback" THEN Entry[handler] ELSE "none"
  /\ UNCHANGED <<stored, ctrl_stat_, ros, locals, service, socket, bus>>

\* Mutant: on_trigger reads the eventfd after the callback instead of before it.
return_reset ==
  /\ body' = "none"
  /\ ready' = ready \ {handler}
  /\ loop' = "idle" /\ handler' = "none"
  /\ UNCHANGED <<ctx, triggered, nulled, n_events_>>

return ==
  /\ body' = "none"
  /\ Loop!callback_returns

at(pc) == Alive /\ body = pc

goto(pc) == body' = pc /\ UNCHANGED evars

\* ctrl_msg_callback reads the mode, then each frame's data, under separate
\* holds of ctrl_msg_mutex_.  MIT skips the mode frame; voltage and unsupported
\* modes send it and give up.
ctl_read ==
  /\ at("ctl_read")
  /\ control_mode' = ctrl_msg_.mode
  /\ goto(IF control_mode' = "mit" THEN "ctl_input" ELSE "ctl_mode")
  /\ UNCHANGED <<stored, ctrl_stat_, ros, axis_state, service, socket, bus>>

\* Mutant: the cases of the unsupported modes break instead of returning.
ctl_mode_breaks ==
  /\ at("ctl_mode")
  /\ send_can_frame("mode", ctrl_msg_)
  /\ goto("ctl_input")
  /\ UNCHANGED <<stored, ctrl_stat_, ros, locals, service, socket>>

\* The frame carries the mode of the message stored now, not the mode read.
ctl_mode ==
  /\ at("ctl_mode")
  /\ send_can_frame("mode", ctrl_msg_)
  /\ IF control_mode \in Supported THEN goto("ctl_input") ELSE return
  /\ UNCHANGED <<stored, ctrl_stat_, ros, locals, service, socket>>

\* The kind of input frame is the mode read; its data is of the message stored now.
ctl_input ==
  /\ at("ctl_input")
  /\ send_can_frame("input", [id |-> ctrl_msg_.id, mode |-> control_mode])
  /\ return
  /\ UNCHANGED <<stored, ctrl_stat_, ros, locals, service, socket>>

\* request_state_callback.
st_read ==
  /\ at("st_read")
  /\ axis_state' = axis_state_
  /\ goto(IF axis_state'.state # "undefined" THEN "st_clear" ELSE "st_send")
  /\ UNCHANGED <<stored, ctrl_stat_, ros, control_mode, service, socket, bus>>

st_clear ==
  /\ at("st_clear")
  /\ send_can_frame("errors", axis_state)
  /\ goto("st_send")
  /\ UNCHANGED <<stored, ctrl_stat_, ros, locals, service, socket>>

st_send ==
  /\ at("st_send")
  /\ send_can_frame("axis", axis_state)
  /\ return
  /\ UNCHANGED <<stored, ctrl_stat_, ros, locals, service, socket>>

request_clear_errors_callback ==
  /\ at("clr")
  /\ send_can_frame("clear", clears)
  /\ return
  /\ UNCHANGED <<stored, ctrl_stat_, ros, locals, service, socket>>

request_set_limits_callback ==
  /\ at("lim")
  /\ send_can_frame("limits", limits_)
  /\ return
  /\ UNCHANGED <<stored, ctrl_stat_, ros, locals, service, socket>>

-----------------------------------------------------------------------------
(* The socket callback: frames until recvmsg reports EAGAIN.  Status frames *)
(* other than the heartbeat touch nothing here (module StatusTopics).  It  *)
(* may run when main has freed its context, and closed the socket.         *)

\* The bus delivers a frame: the socket becomes readable.
frame_arrives ==
  /\ Alive /\ open /\ "can" \notin ready
  /\ Loop!set("can")
  /\ UNCHANGED <<stored, ctrl_stat_, ros, body, locals, service, socket, bus>>

\* Mutant: the waiting service call is not notified.
recv_heartbeat_silent(result) ==
  /\ at("can") /\ open
  /\ ctrl_stat_' = [result |-> result, seen |-> sent.axis.id]
  /\ UNCHANGED <<evars, stored, ros, body, locals, service, socket, bus>>

\* recv_callback: a heartbeat is stored and fresh_heartbeat_ notified.
recv_heartbeat(result) ==
  /\ at("can") /\ open
  /\ ctrl_stat_' = [result |-> result, seen |-> sent.axis.id]
  /\ ros' = IF ros = "svc_wait" THEN "svc_check" ELSE ros
  /\ UNCHANGED <<evars, stored, body, locals, service, socket, bus>>

\* Mutant: the socket blocks, recvmsg waits for the next frame.
socket_blocks ==
  /\ at("can")
  /\ UNCHANGED vars

\* EAGAIN, or an error (ENETDOWN, EBADF), which read_nonblocking swallows.
socket_drained ==
  /\ at("can")
  /\ Loop!DrainSocket
  /\ body' = "can_done"
  /\ UNCHANGED <<stored, ctrl_stat_, ros, locals, service, socket, bus>>

\* A frame that comes after that is for the next callback.
socket_return ==
  /\ at("can_done")
  /\ return
  /\ UNCHANGED <<stored, ctrl_stat_, ros, locals, service, socket, bus>>

\* EPOLLERR: the interface disappeared and the callback deinitialises the socket.
socket_error ==
  /\ at("can") /\ Faults
  /\ socket_deregister
  /\ body' = "can_close"
  /\ UNCHANGED <<stored, ctrl_stat_, ros, locals, service, socket, bus>>

socket_close ==
  /\ at("can_close")
  /\ open' = FALSE
  /\ goto("can_break")
  /\ UNCHANGED <<stored, ctrl_stat_, ros, locals, service, broken_, bus>>

socket_closed ==
  /\ at("can_break")
  /\ broken_' = TRUE
  /\ return
  /\ UNCHANGED <<stored, ctrl_stat_, ros, locals, service, open, bus>>

-----------------------------------------------------------------------------
\* The process has ended, or main hangs in service_callback because no
\* heartbeat can arrive any more.
Stopped ==
  /\ ~Alive \/ (ros = "svc_wait" /\ (loop = "returned" \/ ~open))
  /\ UNCHANGED vars

Client ==
  \/ subscriber_callback \/ service_store
  \/ service_clear_errors_callback \/ set_limits_store
  \/ spin_returns

\* Steps main takes by itself once a callback, or deinit(), has begun.
Main ==
  \/ service_set \/ service_check
  \/ set_limits_set
  \/ deinit_event("sub", "deinit_sub", "deinit_srv")
  \/ deinit_event("srv", "deinit_srv", "deinit_can")
  \/ deinit_can \/ deinit_can_close \/ deinit_can_break \/ main_returns

LoopThread ==
  \/ loop_step \/ dispatch
  \/ ctl_read \/ ctl_mode \/ ctl_input
  \/ st_read \/ st_clear \/ st_send
  \/ request_clear_errors_callback \/ request_set_limits_callback
  \/ socket_drained \/ socket_return \/ socket_close \/ socket_closed

Environment ==
  \/ one_second_passes
  \/ frame_arrives
  \/ \E r \in Results : recv_heartbeat(r)
  \/ socket_error
  \/ spurious_wakeup \/ loop_interrupted

Next == Client \/ Main \/ LoopThread \/ Environment \/ Stopped

Spec == Init /\ [][Next]_vars

\* Both threads are scheduled and time passes; the socket buffer is not refilled for ever while
\* it is drained; the ODrive keeps sending heartbeats and procedures end.
Fairness ==
  /\ WF_vars(Main) /\ WF_vars(LoopThread)
  /\ SF_vars(one_second_passes) /\ WF_vars(frame_arrives)
  /\ SF_vars(recv_heartbeat("done"))

FairSpec == Spec /\ Fairness

-----------------------------------------------------------------------------
(* What the node promises its clients (module Requests): the bus as they   *)
(* see it, without threads, events and locks.                              *)

\* One second suffices for the loop thread to serve a request, and nothing fails.
InTime == Prompt /\ ~Spurious /\ ~Faults

\* Requests need not be carried out any more.
Down == ~Alive \/ loop = "returned" \/ ~open \/ ros \in Teardown

Serves == [mode |-> "control", input |-> "control", errors |-> "axis", axis |-> "axis",
           clear |-> "clear", limits |-> "limits"]

Promise == INSTANCE Requests WITH
  Topic <- {"control", "axis", "clear", "limits"},
  Kind <- DOMAIN Serves, serves <- Serves, Answered <- "axis",
  Fresh <- InTime,
  asked <- [control |-> ctrl_msg_.id, axis |-> axis_state_.id, clear |-> clears,
            limits |-> limits_],
  done <- [mode |-> sent.mode.id, input |-> sent.input.id, errors |-> sent.errors.id,
           axis |-> sent.axis.id, clear |-> sent.clear, limits |-> sent.limits],
  answered <- response.id, closing <- ros \in Teardown, over <- Down

-----------------------------------------------------------------------------
(* Properties                                                              *)

\* Once the loop thread has served the subscriber's event the last mode and
\* input frames are those of the last message stored: no interleaving of the
\* three separately locked reads of ctrl_msg_callback with subscriber_callback,
\* and no coalescing of events, leaves the motor on an older command, or on a
\* frame mixed from two messages.  (A write that failed is not repeated.)
ControlSettled ==
  Served("sub") /\ ctrl_msg_.id # 0 =>
    /\ ctrl_msg_.mode # "mit" /\ "mode" \notin failed => sent.mode = ctrl_msg_
    /\ ctrl_msg_.mode \in Supported /\ "input" \notin failed => sent.input = ctrl_msg_

\* The same for the services: the axis state last requested is commanded (unless
\* the shutdown frame came after it), and no clear_errors call or limits are lost.
ServicesSettled ==
  /\ Served("srv") /\ ros # "svc_set" /\ axis_state_.id # 0 /\ "axis" \notin failed =>
       sent.axis \in {axis_state_} \cup (IF ros \in Teardown THEN {Idle} ELSE {})
  /\ Served("clr") /\ "clear" \notin failed => sent.clear = clears
  /\ Served("lim") /\ ros # "lim_set" /\ "limits" \notin failed => sent.limits = limits_

\* The two threads only crash the process while deinit() runs, or after it.
CrashOnlyInTeardown == loop = "crashed" => ros \in Teardown

\* With axis_idle_on_shutdown the last axis state commanded is IDLE, from the moment
\* spin has returned and wherever deinit() or a crash ends the process: no request
\* that the loop thread still holds follows it.  It rests on the one second that
\* service_callback waits, hence on Prompt, and on a bus that takes the frame.
IdleLast == ros \in Teardown /\ axis_idle_on_shutdown_ => sent.axis = Idle

\* request_axis_state answers from a heartbeat received after its request was on
\* the bus ("wait for a new heartbeat to arrive").
FreshResponse == "axis" \notin failed => response.seen = response.id

\* "skip kSetControllerMode for MIT": no Set_Controller_Mode frame says MIT.
MITSkipsModeFrame == sent.mode.mode # "mit"

\* "Clear errors if requested state is not IDLE": never on behalf of IDLE.
IdleKeepsErrors == sent.errors.state # "idle"

\* Every control message is acted on: its own input frame, or a later one's, is
\* written, unless a later message has an unsupported mode.
ControlDelivered ==
  \A n \in 1..MaxMsgs :
    (ctrl_msg_.id = n /\ ctrl_msg_.mode \in Supported)
      ~> (sent.input.id >= n \/ ctrl_msg_.mode \notin Supported \/ "input" \in failed \/ Down)

\* A service call returns if, from some point on, the heartbeats (which keep
\* arriving) no longer report BUSY, and the loop runs.
ServiceAnswers ==
  <>[](ctrl_stat_.result = "done") => (ros = "svc_wait" ~> (ros = "spin" \/ Down))

\* No interleaving, merging of events or failed write makes the bus carry a request
\* that was not asked, or go back to one before the last it carried; and, when the
\* one second suffices and nothing fails, a service call answers only what is on
\* the bus, and no axis state follows the shutdown.
ImplementsRequests == Promise!SafeSpec

\* Every axis state requested and all limits set reach the bus, or later ones of the
\* same kind do (clients ask finitely often).
RequestsCarriedOut == Promise!CarriedOut({"axis", "limits"})

-----------------------------------------------------------------------------
(* Strengthening used by the proofs in ODriveCanNode_proofs.               *)

EventOf == [ctl_read |-> "sub", ctl_mode |-> "sub", ctl_input |-> "sub",
            st_read |-> "srv", st_clear |-> "srv", st_send |-> "srv",
            clr |-> "clr", lim |-> "lim", can |-> "can", can_done |-> "can",
            can_close |-> "can", can_break |-> "can"]

\* The loop thread is inside the callback of the event it has dispatched; what
\* the batch holds, and what has been fetched, is still readable.
InCallback ==
  /\ body # "none" => loop \in {"callback", "crashed"} /\ handler = EventOf[body]
  /\ loop = "callback" => body # "none"
  /\ handler # "none" => loop \in {"fetched", "callback", "crashed"}
  /\ triggered \subseteq ready
  /\ handler \notin triggered
  /\ loop = "fetched" => handler \in ready

\* Which of the contexts are registered while main is where it is.
Registered ==
  /\ ctx["clr"] = "live" /\ ctx["lim"] = "live"
  /\ ros \notin Teardown \ {"deinit_sub"} => ctx["sub"] = "live"
  /\ ros \notin Teardown \ {"deinit_sub", "deinit_srv"} => ctx["srv"] = "live"
  /\ ros \notin Teardown =>
       /\ triggered \cap nulled = {}
       /\ loop # "crashed"
       /\ "can" \in triggered => ctx["can"] = "live"
       /\ loop = "fetched" => ctx[handler] = "live"
       /\ body = "can" => ctx["can"] = "live"

\* While no newer message is pending, ctrl_msg_callback works on the last one.
ControlInv ==
  /\ ControlSettled
  /\ "sub" \notin ready =>
       /\ body \in {"ctl_mode", "ctl_input"} => control_mode = ctrl_msg_.mode
       /\ body = "ctl_mode" => control_mode # "mit"
       /\ body = "ctl_input" /\ control_mode # "mit" /\ "mode" \notin failed => sent.mode = ctrl_msg_
  /\ body = "ctl_input" => control_mode \in Supported

\* While no newer request is pending, request_state_callback works on the last one.
ServicesInv ==
  /\ ServicesSettled
  /\ "srv" \notin ready /\ ros # "svc_set" /\ body \in {"st_clear", "st_send"} =>
       axis_state = axis_state_

IInv == TypeOK /\ InCallback /\ Registered /\ ControlInv /\ ServicesInv

\* The bus, and the copy the loop thread works on, are never ahead of what was
\* asked, and the bus is never ahead of that copy.
OrderInv ==
  /\ sent.mode.id <= ctrl_msg_.id /\ sent.input.id <= ctrl_msg_.id
  /\ sent.errors.id <= axis_state.id /\ sent.axis.id <= axis_state.id
  /\ axis_state.id <= axis_state_.id
  /\ sent.clear <= clears /\ sent.limits <= limits_

\* When one second suffices and nothing fails, no request is pending
\* outside a service call, nor within one once the second has passed, and the loop
\* thread never deinitialises the socket.
InTimeInv ==
  InTime =>
    /\ Served("srv") \/ ros = "svc_set" \/ (ros \in {"svc_check", "svc_wait"} /\ ~elapsed)
    /\ body \notin {"can_close", "can_break"}
    /\ ros \notin Teardown => open /\ failed = {}
    /\ ros \in {"svc_set", "svc_check", "svc_wait"} => axis_state_.id # 0
    /\ ros = "svc_check" /\ elapsed => ctrl_stat_.seen = axis_state_.id
    /\ response.seen = response.id
    /\ ros \in Teardown /\ axis_idle_on_shutdown_ => sent.axis = Idle

PInv == IInv /\ OrderInv /\ InTimeInv
=============================================================================
