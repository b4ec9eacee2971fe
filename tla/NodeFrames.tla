----------------------------- MODULE NodeFrames -----------------------------
(***************************************************************************)
(* The frames odrive_can_node.cpp lays out by hand with write_le and reads *)
(* with read_le (byte_swap.hpp), against the layouts of the same messages  *)
(* in can_simple_messages.hpp, which are the drive's.  A frame is a local  *)
(* can_frame, so its data bytes hold whatever memory did.                  *)
(*                                                                         *)
(* Words are sets of bits as in CanSignal.  On the little-endian hosts     *)
(* that byte_swap.hpp compiles for, read_le and write_le copy bytes.  MIT  *)
(* frames and the arithmetic of the feedforward terms are in FrameNumbers: *)
(* here a term is the byte that its cast leaves.                           *)
(***************************************************************************)
EXTENDS CanSignal, CanSimple

VARIABLES
  fields,   \* what a frame is made from: the bits of each field, by signal
  bus,      \* the frames sent, in order: command and bits within can_dlc
  status    \* what recv_callback made of a frame, by signal

fvars == <<fields, bus, status>>

NoFields == [x \in {} |-> {}]

-----------------------------------------------------------------------------
read_le(word, byte, size) == {i \in 0 .. size - 1 : i + 8 * byte \in word}

write_le(word, bits, byte, size) ==
  {i \in word : i < 8 * byte \/ i >= 8 * byte + size} \cup {i + 8 * byte : i \in bits}

\* can_id, can_dlc and what the socket sends of the data.
can_frame(cmd, can_dlc, data) == [cmd |-> cmd, data |-> {i \in data : i < 8 * can_dlc}]

\* A plausible slip: the frame is used again without zeroing it.
can_frame_zero_skipped(memory) == memory

\* frame = can_frame{}, in ctrl_msg_callback after the mode frame.
can_frame_zero(memory) == {}

clear_errors(memory) == write_le(memory, {}, 0, 8)

set_axis_state(memory, f) == write_le(memory, f.Axis_Requested_State, 0, 32)

set_limits(memory, f) ==
  write_le(write_le(memory, f.Velocity_Limit, 0, 32), f.Current_Limit, 4, 32)

set_controller_mode(memory, f) ==
  write_le(write_le(memory, f.Control_Mode, 0, 32), f.Input_Mode, 4, 32)

\* The input frame of the supported modes.  Of a feedforward term in position
\* mode only the low byte is written.
input_frame(memory, mode, f) ==
  CASE mode = "torque" ->
         can_frame("Set_Input_Torque", 4, write_le(memory, f.Input_Torque, 0, 32))
    [] mode = "velocity" ->
         can_frame("Set_Input_Vel", 8,
           write_le(write_le(memory, f.Input_Vel, 0, 32), f.Input_Torque_FF, 4, 32))
    [] mode = "position" ->
         can_frame("Set_Input_Pos", 8,
           write_le(write_le(write_le(memory, f.Input_Pos, 0, 32), f.Vel_FF, 4, 8),
                    f.Torque_FF, 6, 8))

\* The status messages as recv_callback takes them apart.  trajectory_done_flag
\* is read as a bool, from the whole byte.
pairs ==
  [Get_Error |-> <<"Active_Errors", "Disarm_Reason">>,
   Get_Encoder_Estimates |-> <<"Pos_Estimate", "Vel_Estimate">>,
   Get_Iq |-> <<"Iq_Setpoint", "Iq_Measured">>,
   Get_Temperature |-> <<"FET_Temperature", "Motor_Temperature">>,
   Get_Bus_Voltage_Current |-> <<"Bus_Voltage", "Bus_Current">>,
   Get_Torques |-> <<"Torque_Target", "Torque_Estimate">>]

\* A plausible slip: the last two fields are read one byte late.
heartbeat_late(data) ==
  [Axis_Error |-> read_le(data, 0, 32), Axis_State |-> read_le(data, 4, 8),
   Procedure_Result |-> read_le(data, 6, 8), Trajectory_Done_Flag |-> read_le(data, 7, 8)]

heartbeat(data) ==
  [Axis_Error |-> read_le(data, 0, 32), Axis_State |-> read_le(data, 4, 8),
   Procedure_Result |-> read_le(data, 5, 8), Trajectory_Done_Flag |-> read_le(data, 6, 8)]

pair(cmd, data) ==
  [s \in {pairs[cmd][1], pairs[cmd][2]} |->
     IF s = pairs[cmd][1] THEN read_le(data, 0, 32) ELSE read_le(data, 4, 32)]

\* The drive (external) cuts the values it reports to their signals, ...
signal_bits(layout, value) ==
  [k \in DOMAIN value |-> {i \in value[k] : i < layout[k].length}]

\* ... and lays them into a frame whose reserved bits are zero.
drive_encode(layout, bits) ==
  UNION {{i + layout[k].start : i \in bits[k]} : k \in DOMAIN bits}

by_name(layout, bits) ==
  [s \in {layout[k].name : k \in DOMAIN bits} |->
     bits[CHOOSE k \in DOMAIN bits : layout[k].name = s]]

-----------------------------------------------------------------------------
FieldsInit == fields = NoFields /\ bus = <<>> /\ status = NoFields

idle == bus = <<>> /\ fields = NoFields

Bits(width) == {Narrow(pattern, width) : pattern \in Values}

request_clear_errors_callback ==
  /\ idle
  /\ fields' = [Identify |-> {}]
  /\ \E memory \in Junk : bus' = <<can_frame("Clear_Errors", 1, clear_errors(memory))>>
  /\ UNCHANGED status

\* Both frames are laid out in the same memory.  UNDEFINED (0) clears nothing.
request_state_callback ==
  /\ idle
  /\ \E memory \in Junk, state \in Bits(32) \cup {{}} :
       /\ fields' = [Identify |-> {}, Axis_Requested_State |-> state]
       /\ LET cleared == clear_errors(memory)
              request(word) == can_frame("Set_Axis_State", 4, set_axis_state(word, fields'))
          IN  bus' = IF state # {}
                       THEN <<can_frame("Clear_Errors", 1, cleared), request(cleared)>>
                       ELSE <<request(memory)>>
  /\ UNCHANGED status

request_set_limits_callback ==
  /\ idle
  /\ \E memory \in Junk, low, high \in Bits(32) :
       /\ fields' = [Velocity_Limit |-> low, Current_Limit |-> high]
       /\ bus' = <<can_frame("Set_Limits", 8, set_limits(memory, fields'))>>
  /\ UNCHANGED status

\* The modes with a Set_Input frame of their own (MIT: see FrameNumbers).
ctrl_msg_callback ==
  /\ idle
  /\ \E memory \in Junk, mode \in {"torque", "velocity", "position"},
        x, y \in Bits(32), ff1, ff2 \in Bits(8), input_mode \in Bits(32) :
       /\ fields' = [Control_Mode |-> CASE mode = "torque" -> {0} [] mode = "velocity" -> {1}
                                        [] mode = "position" -> {0, 1},
                     Input_Mode |-> input_mode, Input_Torque |-> x, Input_Vel |-> x,
                     Input_Torque_FF |-> y, Input_Pos |-> x, Vel_FF |-> ff1, Torque_FF |-> ff2]
       /\ LET first == set_controller_mode(memory, fields')
          IN  bus' = <<can_frame("Set_Controller_Mode", 8, first),
                       input_frame(can_frame_zero(first), mode, fields')>>
  /\ UNCHANGED status

recv_callback ==
  /\ idle
  /\ \E cmd \in DOMAIN pairs \cup {"Heartbeat"} :
       \E value \in [1 .. Len(Layout(cmd)) -> Values] :
         LET bits == signal_bits(Layout(cmd), value)
             data == drive_encode(Layout(cmd), bits)
         IN  /\ fields' = by_name(Layout(cmd), bits)
             /\ status' = IF cmd = "Heartbeat" THEN heartbeat(data) ELSE pair(cmd, data)
  /\ UNCHANGED bus

callback_returns ==
  /\ ~idle
  /\ fields' = NoFields /\ bus' = <<>> /\ status' = NoFields

FieldsNext ==
  \/ request_clear_errors_callback \/ request_state_callback \/ request_set_limits_callback
  \/ ctrl_msg_callback \/ recv_callback \/ callback_returns

FieldsSpec == FieldsInit /\ [][FieldsNext]_fvars

-----------------------------------------------------------------------------
\* The drive takes from each frame, by the layout of can_simple_messages.hpp,
\* exactly the fields the callback was given, whatever memory held, although the
\* callbacks use one frame twice, cut it at can_dlc and write a feedforward term
\* of 16 bits as one byte: nothing of a previous frame or of the stack is sent.
CommandFieldsArrive ==
  \A n \in 1 .. Len(bus) :
    LET signals == Layout(bus[n].cmd)
    IN  \A k \in 1 .. Len(signals) :
          can_get_signal_raw(bus[n].data, signals[k]) = fields[signals[k].name]

\* The status topics carry the signals the drive encoded, each in its own field.
StatusFieldsArrive == status # NoFields => status = fields
=============================================================================
