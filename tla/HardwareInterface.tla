------------------------- MODULE HardwareInterface -------------------------
(***************************************************************************)
(* The ros2_control plugin of odrive_hardware_interface.cpp between its    *)
(* two neighbours: the controller manager, which calls the lifecycle       *)
(* callbacks, claims and releases command interfaces and calls read and    *)
(* write, and the ODrives, which obey the frames the plugin sends.         *)
(*                                                                         *)
(* A callback is one step: the manager serialises its calls to a hardware  *)
(* component.  What interleaves is the delivery of the frames it queued,   *)
(* the faults of the drives and the next callbacks.  send_can_frame's      *)
(* result is dropped by Axis::send, so any frame of a callback may be lost *)
(* without a trace.                                                        *)
(***************************************************************************)
EXTENDS Naturals, Sequences, FiniteSets

CONSTANTS
  Axis,          \* the axes, one per joint of the description
  QueueLength,   \* bound: frames on their way to one drive
  Lossy,         \* may a send fail?
  Memory,        \* the values active_ may hold before anything assigns it
  Claimable,     \* the inputs the controllers in use claim
  Feedback       \* the groups of estimates the drives broadcast

ASSUME AxisAssumption == Axis # {} /\ IsFiniteSet(Axis)
ASSUME QueueAssumption == QueueLength \in Nat
ASSUME FlagAssumption == Lossy \in BOOLEAN /\ Memory \subseteq BOOLEAN

\* The three command interfaces of a joint, which name the control modes too.
Input == {"position", "velocity", "effort"}

ASSUME ClaimableAssumption == Claimable \subseteq Input

\* The frames the plugin sends.
ModeFrame(input) == [type |-> "Set_Controller_Mode", arg |-> input]
ClearErrors == [type |-> "Clear_Errors", arg |-> "none"]
AxisState(requested) == [type |-> "Set_Axis_State", arg |-> requested]

\* The input that decides the control mode and the kind of setpoint; the others
\* are feedforward terms.
primary(inputs) ==
  CHOOSE i \in inputs : \/ i = "position"
                        \/ i = "velocity" /\ "position" \notin inputs
                        \/ inputs = {"effort"}

feedforward == [position |-> {"velocity", "effort"}, velocity |-> {"effort"}, effort |-> {}]

\* A plausible slip: the feedforward fields are filled without asking the flags.
carried_always(inputs) == {primary(inputs)} \cup feedforward[primary(inputs)]

\* The inputs whose values a setpoint carries; the others' fields are zero.
carried(inputs) == {primary(inputs)} \cup (feedforward[primary(inputs)] \cap inputs)

\* The setpoint write sends; whole: was the last command queued whole? (history)
Setpoint(inputs, whole) ==
  [type |-> "Set_Input", arg |-> primary(inputs), terms |-> carried(inputs), whole |-> whole]

Setpoints == {Setpoint(s, w) : s \in (SUBSET Input) \ {{}}, w \in BOOLEAN}

Frame == {ModeFrame(i) : i \in Input} \cup Setpoints
         \cup {ClearErrors, AxisState("idle"), AxisState("closed_loop")}

\* The two messages the plugin decodes, see Axis::on_can_msg.
Decoded == {"Get_Encoder_Estimates", "Get_Torques"}

VARIABLES
  state,      \* the lifecycle state the manager keeps of the component
  active_,    \* the plugin's own idea of it
  activated,  \* has on_activate ever assigned active_? (history)
  enabled,    \* per axis, the inputs whose *_input_enabled_ flag is set
  estimates,  \* per axis, the groups of estimates that are no longer NAN
  wire,       \* per axis, the frames queued and not yet received
  commanded,  \* per axis, was the last command queued whole? (history)
  mode,       \* per drive, its control mode
  armed,      \* per drive, is it in closed loop control?
  errors      \* per drive, does it hold an active error?

plugin == <<active_, activated, enabled>>
drive == <<mode, armed, errors>>
vars == <<state, active_, activated, enabled, estimates, wire, commanded, mode, armed, errors>>

-----------------------------------------------------------------------------
(* What set_axis_command_mode sends.                                       *)

\* A plausible slip: the errors are cleared after closed loop was asked for.
set_axis_command_mode_clears_last(on, inputs) ==
  IF on /\ inputs # {}
    THEN <<ModeFrame(primary(inputs)), AxisState("closed_loop"), ClearErrors>>
    ELSE <<AxisState("idle")>>

\* A plausible slip: no branch for an axis without inputs, whose Control_Mode
\* then goes out as it happens to be.
set_axis_command_mode_no_idle(on, inputs) ==
  IF on
    THEN <<ModeFrame(IF inputs = {} THEN "garbage" ELSE primary(inputs)), ClearErrors,
           AxisState("closed_loop")>>
    ELSE <<AxisState("idle")>>

set_axis_command_mode(on, inputs) ==
  IF on /\ inputs # {}
    THEN <<ModeFrame(primary(inputs)), ClearErrors, AxisState("closed_loop")>>
    ELSE <<AxisState("idle")>>

\* The frames of a callback, at most three, that reach the queue.
Kept(frames, sent) ==
  LET Part(i) == IF i \in sent THEN <<frames[i]>> ELSE <<>>
  IN  Part(1) \o Part(2) \o Part(3)

\* Axis::send for every frame of out, of which those at the places in sent
\* are queued.
send(out, sent) ==
  /\ \A a \in Axis : sent[a] \in IF Lossy THEN SUBSET DOMAIN out[a] ELSE {DOMAIN out[a]}
  /\ wire' = [a \in Axis |-> wire[a] \o Kept(out[a], sent[a])]
  /\ \A a \in Axis : Len(wire'[a]) <= QueueLength

\* set_axis_command_mode for the axes in axes.
Command(axes, on, inputs) ==
  LET out == [a \in Axis |-> IF a \in axes THEN set_axis_command_mode(on, inputs[a]) ELSE <<>>]
  IN  \E sent \in [Axis -> SUBSET (1 .. 3)] :
        /\ send(out, sent)
        /\ commanded' = [a \in Axis |-> IF a \in axes THEN sent[a] = DOMAIN out[a]
                                                      ELSE commanded[a]]

-----------------------------------------------------------------------------
(* The plugin.                                                             *)

\* An instance is made by the class loader: the flags have initialisers, the
\* estimates are NAN, active_ has no initialiser.  The drives are as the last
\* user of the bus left them.
Init ==
  /\ state = "unconfigured"
  /\ active_ \in Memory
  /\ activated = FALSE
  /\ enabled = [a \in Axis |-> {}]
  /\ estimates = [a \in Axis |-> {}]
  /\ wire = [a \in Axis |-> <<>>]
  /\ commanded = [a \in Axis |-> FALSE]
  /\ mode \in [Axis -> Input]
  /\ armed \in [Axis -> BOOLEAN]
  /\ errors \in [Axis -> BOOLEAN]
  /\ \A a \in Axis : armed[a] => ~errors[a]

\* can_intf_.init: on failure ERROR is returned, and the manager finalizes the
\* component because on_error is not overridden.
on_configure ==
  /\ state = "unconfigured"
  /\ state' \in {"inactive", "finalized"}
  /\ UNCHANGED <<plugin, estimates, wire, commanded, drive>>

\* can_intf_.deinit closes the socket; flags and estimates stay.
on_cleanup ==
  /\ state = "inactive"
  /\ state' = "unconfigured"
  /\ UNCHANGED <<plugin, estimates, wire, commanded, drive>>

on_activate ==
  /\ state = "inactive"
  /\ state' = "active"
  /\ active_' = TRUE
  /\ activated' = TRUE
  /\ Command(Axis, TRUE, enabled)
  /\ UNCHANGED <<enabled, estimates, drive>>

\* A plausible slip: the commands go out before active_ is cleared.
on_deactivate_late ==
  /\ state = "active"
  /\ state' = "inactive"
  /\ active_' = FALSE
  /\ Command(Axis, active_, enabled)
  /\ UNCHANGED <<activated, enabled, estimates, drive>>

on_deactivate ==
  /\ state = "active"
  /\ state' = "inactive"
  /\ active_' = FALSE
  /\ Command(Axis, FALSE, enabled)
  /\ UNCHANGED <<activated, enabled, estimates, drive>>

\* on_shutdown is not overridden: nothing is sent.
on_shutdown ==
  /\ state # "finalized"
  /\ state' = "finalized"
  /\ UNCHANGED <<plugin, estimates, wire, commanded, drive>>

\* A plausible slip: mode_switch is only raised by the start interfaces.
perform_command_mode_switch_start_only ==
  /\ state \in {"inactive", "active"}
  /\ \E stop \in [Axis -> SUBSET Input], start \in [Axis -> SUBSET Claimable] :
       /\ \A a \in Axis : stop[a] \subseteq enabled[a]
       /\ \A a \in Axis : start[a] \cap (enabled[a] \ stop[a]) = {}
       /\ LET inputs == [a \in Axis |-> (enabled[a] \ stop[a]) \cup start[a]]
          IN  /\ enabled' = inputs
              /\ Command({a \in Axis : start[a] # {}}, active_, inputs)
  /\ UNCHANGED <<state, active_, activated, estimates, drive>>

\* The manager only releases what is claimed and only claims what is free or
\* released in the same call.  Axes no key names send nothing.
perform_command_mode_switch ==
  /\ state \in {"inactive", "active"}
  /\ \E stop \in [Axis -> SUBSET Input], start \in [Axis -> SUBSET Claimable] :
       /\ \A a \in Axis : stop[a] \subseteq enabled[a]
       /\ \A a \in Axis : start[a] \cap (enabled[a] \ stop[a]) = {}
       /\ LET inputs == [a \in Axis |-> (enabled[a] \ stop[a]) \cup start[a]]
          IN  /\ enabled' = inputs
              /\ Command({a \in Axis : start[a] \cup stop[a] # {}}, active_, inputs)
  /\ UNCHANGED <<state, active_, activated, estimates, drive>>

\* One frame of the drain loop of read, through on_can_msg: only a frame of
\* the axis' own node that is long enough is decoded.
on_can_msg ==
  /\ state \in {"inactive", "active"}
  /\ \E node \in Axis, cmd \in Feedback \cap Decoded :
       estimates' = [estimates EXCEPT ![node] = @ \cup {cmd}]
  /\ UNCHANGED <<state, plugin, wire, commanded, drive>>

\* write does not ask whether the component is active.
write ==
  /\ state \in {"inactive", "active"}
  /\ LET out == [a \in Axis |-> IF enabled[a] = {} THEN <<>>
                                ELSE <<Setpoint(enabled[a], commanded[a])>>]
     IN  \E sent \in [Axis -> SUBSET (1 .. 1)] : send(out, sent)
  /\ UNCHANGED <<state, plugin, estimates, commanded, drive>>

-----------------------------------------------------------------------------
(* The drives (external): what the frames ask for, and faults.             *)

receive(a) ==
  /\ wire[a] # <<>>
  /\ wire' = [wire EXCEPT ![a] = Tail(@)]
  /\ LET frame == Head(wire[a])
     IN  /\ mode' = IF frame.type = "Set_Controller_Mode"
                      THEN [mode EXCEPT ![a] = frame.arg] ELSE mode
         /\ errors' = IF frame.type = "Clear_Errors"
                        THEN [errors EXCEPT ![a] = FALSE] ELSE errors
         /\ armed' = IF frame.type = "Set_Axis_State"
                       THEN [armed EXCEPT ![a] = frame.arg = "closed_loop" /\ ~errors[a]]
                       ELSE armed
  /\ UNCHANGED <<state, plugin, estimates, commanded>>

\* An error disarms the axis.
fault(a) ==
  /\ errors' = [errors EXCEPT ![a] = TRUE]
  /\ armed' = [armed EXCEPT ![a] = FALSE]
  /\ UNCHANGED <<state, plugin, estimates, wire, commanded, mode>>

-----------------------------------------------------------------------------
Lifecycle == on_configure \/ on_cleanup \/ on_activate \/ on_deactivate \/ on_shutdown
Cycle == perform_command_mode_switch \/ on_can_msg \/ write
Drive == \E a \in Axis : receive(a) \/ fault(a)

Next == Lifecycle \/ Cycle \/ Drive

Spec == Init /\ [][Next]_vars

\* The CAN controller goes on sending what is queued; nothing obliges the
\* manager to call anything.
FairSpec == Spec /\ \A a \in Axis : WF_vars(receive(a))

-----------------------------------------------------------------------------
(* What the plugin promises of its drives (module Orders).                 *)

Wanted(a) == IF active_ /\ enabled[a] # {} THEN primary(enabled[a]) ELSE "idle"

Order(frame) == IF frame = ClearErrors THEN "clear" ELSE frame.arg

\* The commands among the frames of a queue.
OrdersIn(frames) ==
  {Order(frames[n]) : n \in {k \in 1 .. Len(frames) : frames[k].type # "Set_Input"}}

Promise == INSTANCE Orders WITH
  Mode <- Input, Reliable <- ~Lossy,
  wanted <- [a \in Axis |-> Wanted(a)], certain <- commanded,
  orders <- [a \in Axis |-> OrdersIn(wire[a])], running <- armed, faulted <- errors

-----------------------------------------------------------------------------
(* Properties.                                                             *)

TypeOK ==
  /\ state \in {"unconfigured", "inactive", "active", "finalized"}
  /\ active_ \in BOOLEAN /\ activated \in BOOLEAN
  /\ enabled \in [Axis -> SUBSET Input]
  /\ estimates \in [Axis -> SUBSET Decoded]
  /\ wire \in [Axis -> Seq(Frame)]
  /\ \A a \in Axis : Len(wire[a]) <= QueueLength
  /\ commanded \in [Axis -> BOOLEAN]
  /\ mode \in [Axis -> Input]
  /\ armed \in [Axis -> BOOLEAN]
  /\ errors \in [Axis -> BOOLEAN]

\* Does axis a have no command on the way?
Obeyed(a) == \A n \in 1 .. Len(wire[a]) : wire[a][n].type = "Set_Input"

\* Once a command that was queued whole has arrived, the drive does what the
\* flags say, over any history of lost commands, faults, switches and
\* lifecycle calls: it runs exactly when the plugin is active and an input is
\* enabled, unless an error holds it, and then in the mode of the primary
\* input (set_axis_command_mode is called on every change of the two).
FollowsInterfaces ==
  \A a \in Axis :
    commanded[a] /\ Obeyed(a) =>
      LET wanted == active_ /\ enabled[a] # {}
      IN  /\ armed[a] => wanted /\ mode[a] = primary(enabled[a])
          /\ wanted /\ ~armed[a] => errors[a]

\* A running drive is never handed a setpoint of another kind than its control
\* mode, although write follows the flags and the mode follows the frames of the
\* last switch: the queue keeps mode before setpoint.  (Where that switch was
\* queued whole; a lost mode frame breaks it and nothing in the plugin notices.)
SetpointFitsMode ==
  \A a \in Axis :
    LET next == Head(wire[a])
    IN  wire[a] # <<>> /\ next.type = "Set_Input" /\ next.whole /\ armed[a] =>
          next.arg = mode[a]

\* The values of a released interface are not used: once a command has arrived,
\* the setpoints on the way carry only inputs that are claimed now, in their
\* feedforward terms as well, whatever was claimed when the queue was filled.
OnlyClaimedInputs ==
  \A a \in Axis :
    commanded[a] /\ Obeyed(a) => \A n \in 1 .. Len(wire[a]) : wire[a][n].terms \subseteq enabled[a]

\* Between the flags and the drives are queues, losses, faults and setpoints, and
\* still: a drive obeys only commands that are out, each for what was wanted when
\* it was given, no callback changes what is wanted of an axis without commanding
\* it, and a command queued whole has its effect when its last frame has arrived.
ImplementsOrders == Promise!Spec

\* "This can be called several seconds before the controller finishes starting.
\* Therefore we enable the ODrives only in perform_command_mode_switch()"
\* (on_activate): no other callback asks for closed loop control.
EnabledOnlyBySwitch ==
  [][\A a \in Axis :
       LET asked == {n \in 1 .. Len(wire[a]) : wire[a][n] = AxisState("closed_loop")}
       IN  Cardinality(asked') > Cardinality(asked) => perform_command_mode_switch]_vars

\* "Interface inactive. Setting axis to idle." (set_axis_command_mode): while
\* the manager holds the component inactive, an axis whose last command has
\* arrived is not armed.
InactiveIsIdle ==
  \A a \in Axis :
    state \in {"inactive", "unconfigured"} /\ commanded[a] /\ Obeyed(a) => ~armed[a]

\* The same from the first activation on, which assigns active_ for good: over any
\* further deactivations, cleanups, switches, losses and faults no axis whose last
\* command has arrived stays armed outside the active state.  (on_deactivate clears
\* active_ before it commands; a switch or an activation commands after it has
\* changed what is wanted.)
DeactivatedIsIdle == activated => InactiveIsIdle

\* A deactivated component whose idle command was queued gets its axes idle,
\* whatever was in the queue before, unless it is activated again.
DeactivationTakesEffect ==
  \A a \in Axis :
    (state = "inactive" /\ ~active_ /\ commanded[a]) ~> (~armed[a] \/ state = "active")
=============================================================================
