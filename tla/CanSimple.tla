----------------------------- MODULE CanSimple -----------------------------
(***************************************************************************)
(* The message layouts of can_simple_messages.hpp: for each message the    *)
(* signals of its encode_buf, in that order, with name, first bit, length  *)
(* and width of the C++ type.  decode_buf lists the same signals.  The     *)
(* messages follow the header, by command number; floats and integers of   *)
(* the same width are alike here.                                          *)
(***************************************************************************)
EXTENDS Naturals, Sequences

S(signal, first, bits, type) ==
  [name |-> signal, start |-> first, length |-> bits, width |-> type]

Byte(signal) == <<S(signal, 0, 8, 8)>>
Word(signal) == <<S(signal, 0, 32, 32)>>
Pair(low, high) == <<S(low, 0, 32, 32), S(high, 32, 32, 32)>>

StateMessages ==
  [Get_Version |->
     <<S("Protocol_Version", 0, 8, 8), S("Hw_Version_Major", 8, 8, 8),
       S("Hw_Version_Minor", 16, 8, 8), S("Hw_Version_Variant", 24, 8, 8),
       S("Fw_Version_Major", 32, 8, 8), S("Fw_Version_Minor", 40, 8, 8),
       S("Fw_Version_Revision", 48, 8, 8), S("Fw_Version_Unreleased", 56, 8, 8)>>,
   Heartbeat |->
     <<S("Axis_Error", 0, 32, 32), S("Axis_State", 32, 8, 8),
       S("Procedure_Result", 40, 8, 8), S("Trajectory_Done_Flag", 48, 1, 8)>>,
   Estop |-> <<>>,
   Get_Error |-> Pair("Active_Errors", "Disarm_Reason"),
   Address |-> <<S("Node_ID", 0, 8, 8), S("Serial_Number", 8, 48, 64)>>,
   Set_Axis_State |-> Word("Axis_Requested_State")]

ControlMessages ==
  [Get_Encoder_Estimates |-> Pair("Pos_Estimate", "Vel_Estimate"),
   Set_Controller_Mode |-> Pair("Control_Mode", "Input_Mode"),
   Set_Input_Pos |->
     <<S("Input_Pos", 0, 32, 32), S("Vel_FF", 32, 16, 16), S("Torque_FF", 48, 16, 16)>>,
   Set_Input_Vel |-> Pair("Input_Vel", "Input_Torque_FF"),
   Set_Input_Torque |-> Word("Input_Torque"),
   Set_Limits |-> Pair("Velocity_Limit", "Current_Limit")]

TrajectoryMessages ==
  [Set_Traj_Vel_Limit |-> Word("Traj_Vel_Limit"),
   Set_Traj_Accel_Limits |-> Pair("Traj_Accel_Limit", "Traj_Decel_Limit"),
   Set_Traj_Inertia |-> Word("Traj_Inertia")]

MonitorMessages ==
  [Get_Iq |-> Pair("Iq_Setpoint", "Iq_Measured"),
   Get_Temperature |-> Pair("FET_Temperature", "Motor_Temperature"),
   Reboot |-> Byte("Action"),
   Get_Bus_Voltage_Current |-> Pair("Bus_Voltage", "Bus_Current"),
   Clear_Errors |-> Byte("Identify")]

TuningMessages ==
  [Set_Absolute_Position |-> Word("Position"),
   Set_Pos_Gain |-> Word("Pos_Gain"),
   Set_Vel_Gains |-> Pair("Vel_Gain", "Vel_Integrator_Gain"),
   Get_Torques |-> Pair("Torque_Target", "Torque_Estimate"),
   Get_Powers |-> Pair("Electrical_Power", "Mechanical_Power"),
   Enter_DFU_Mode |-> <<>>]

Layout(cmd) ==
  CASE cmd \in DOMAIN StateMessages -> StateMessages[cmd]
    [] cmd \in DOMAIN ControlMessages -> ControlMessages[cmd]
    [] cmd \in DOMAIN TrajectoryMessages -> TrajectoryMessages[cmd]
    [] cmd \in DOMAIN MonitorMessages -> MonitorMessages[cmd]
    [] cmd \in DOMAIN TuningMessages -> TuningMessages[cmd]

AllMessages ==
  {Layout(cmd) : cmd \in UNION {DOMAIN StateMessages, DOMAIN ControlMessages,
     DOMAIN TrajectoryMessages, DOMAIN MonitorMessages, DOMAIN TuningMessages}}
=============================================================================
