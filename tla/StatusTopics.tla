---------------------------- MODULE StatusTopics ----------------------------
(***************************************************************************)
(* The receive path of ODriveCanNode: recv_callback collects the fields of *)
(* the CAN frames of one axis and publishes ControllerStatus once each of  *)
(* four kinds has arrived, ODriveStatus once each of three has.  The flags *)
(* ctrl_pub_flag_ and odrv_pub_flag_, bit masks in the code, are the sets  *)
(* of kinds that have arrived since the last such publication.  An MIT     *)
(* feedback frame overwrites two fields and publishes at once.             *)
(*                                                                         *)
(* The value of a field is the time its frame was received, so that its    *)
(* age can be told; 0 stands for no data of this axis.                     *)
(***************************************************************************)
EXTENDS Naturals

CONSTANTS
  node_id_,    \* the ROS parameter
  Node,        \* identifiers of the devices on the bus
  Configurations,   \* what an ODrive may be configured to send: cyclic messages,
                    \*   and "mit" if it answers with MIT feedback
  MaxFrames    \* bound on the number of frames received

CtrlKind == {"heartbeat", "encoder", "iq", "torques"}
OdrvKind == {"error", "temp", "bus_vc"}
Kind == CtrlKind \cup OdrvKind

ASSUME StatusAssumption ==
  /\ Node \subseteq Nat
  /\ node_id_ \in 0..63
  /\ Configurations \subseteq SUBSET (Kind \cup {"mit"})
  /\ MaxFrames \in Nat

\* A Get_Torques frame carries two fields, which MIT feedback separates.
CtrlField == {"heartbeat", "encoder", "iq", "torque_target", "torque_estimate"}
Fields(k) == IF k = "torques" THEN {"torque_target", "torque_estimate"} ELSE {k}
KindOf == [f \in CtrlField |-> IF f \in {"torque_target", "torque_estimate"} THEN "torques" ELSE f]
MITField == {"encoder", "torque_estimate"}

VARIABLES
  cyclic,               \* the configuration of this ODrive
  now,                  \* number of frames received
  ctrl_stat_, odrv_stat_,
  ctrl_pub_flag_, odrv_pub_flag_,
  controller_status,    \* last message on the topic
  odrive_status,        \* last message on the topic
  arrived,              \* history: when the last valid frame of each kind came
  ctrl_at, odrv_at      \* history: when a flag was last found complete

vars == <<cyclic, now, ctrl_stat_, odrv_stat_, ctrl_pub_flag_, odrv_pub_flag_,
          controller_status, odrive_status, arrived, ctrl_at, odrv_at>>

TypeOK ==
  /\ cyclic \in Configurations
  /\ now \in 0..MaxFrames
  /\ ctrl_stat_ \in [CtrlField -> 0..now]
  /\ odrv_stat_ \in [OdrvKind -> 0..now]
  /\ ctrl_pub_flag_ \in (SUBSET CtrlKind) \ {CtrlKind}
  /\ odrv_pub_flag_ \in (SUBSET OdrvKind) \ {OdrvKind}
  /\ controller_status \in [CtrlField -> 0..now]
  /\ odrive_status \in [OdrvKind -> 0..now]
  /\ arrived \in [Kind -> 0..now]
  /\ ctrl_at \in 0..now
  /\ odrv_at \in 0..now

Init ==
  /\ cyclic \in Configurations
  /\ now = 0
  /\ ctrl_stat_ = [f \in CtrlField |-> 0]
  /\ odrv_stat_ = [k \in OdrvKind |-> 0]
  /\ ctrl_pub_flag_ = {} /\ odrv_pub_flag_ = {}
  /\ controller_status = [f \in CtrlField |-> 0]
  /\ odrive_status = [k \in OdrvKind |-> 0]
  /\ arrived = [k \in Kind |-> 0]
  /\ ctrl_at = 0 /\ odrv_at = 0

-----------------------------------------------------------------------------

\* Mutant: frames of any length are accepted.
verify_length_any(expected, length) == expected = expected /\ length = length

verify_length(expected, length) == expected = length

\* The filter looks at six bits of the identifier.
ours(frame) == frame.node % 64 = node_id_

accepted(frame) ==
  /\ ours(frame)
  /\ verify_length(IF frame.kind = "mit" THEN 6 ELSE 8, frame.dlc)

\* What one accepted frame does to the fields and the flags, before the flags
\* are looked at.
StoreCtrl(frame) ==
  IF accepted(frame)
  THEN [f \in CtrlField |->
          IF f \in (IF frame.kind = "mit" THEN MITField ELSE Fields(frame.kind))
          THEN frame.data ELSE ctrl_stat_[f]]
  ELSE ctrl_stat_

StoreOdrv(frame) ==
  IF accepted(frame) /\ frame.kind \in OdrvKind
  THEN [odrv_stat_ EXCEPT ![frame.kind] = frame.data]
  ELSE odrv_stat_

Raise(flag, kinds, frame) ==
  IF accepted(frame) /\ frame.kind \in kinds THEN flag \cup {frame.kind} ELSE flag

\* Mutant: the flag is not reset.
publish_ctrl_again(frame) ==
  LET flag == Raise(ctrl_pub_flag_, CtrlKind, frame) IN
    /\ ctrl_pub_flag_' = flag
    /\ ctrl_at' = IF flag = CtrlKind THEN now' ELSE ctrl_at
    /\ controller_status' =
         IF flag = CtrlKind \/ (accepted(frame) /\ frame.kind = "mit")
         THEN ctrl_stat_' ELSE controller_status

\* Mutant: publishing MIT feedback resets the flag too.
publish_ctrl_reset(frame) ==
  LET flag == Raise(ctrl_pub_flag_, CtrlKind, frame)
      mit == accepted(frame) /\ frame.kind = "mit" IN
    /\ ctrl_pub_flag_' = IF flag = CtrlKind \/ mit THEN {} ELSE flag
    /\ ctrl_at' = IF flag = CtrlKind THEN now' ELSE ctrl_at
    /\ controller_status' = IF flag = CtrlKind \/ mit THEN ctrl_stat_' ELSE controller_status

\* MIT feedback publishes whatever the other fields hold; the flag is then
\* examined as after any other frame.
publish_ctrl(frame) ==
  LET flag == Raise(ctrl_pub_flag_, CtrlKind, frame) IN
    /\ ctrl_pub_flag_' = IF flag = CtrlKind THEN {} ELSE flag
    /\ ctrl_at' = IF flag = CtrlKind THEN now' ELSE ctrl_at
    /\ controller_status' =
         IF flag = CtrlKind \/ (accepted(frame) /\ frame.kind = "mit")
         THEN ctrl_stat_' ELSE controller_status

publish_odrv(frame) ==
  LET flag == Raise(odrv_pub_flag_, OdrvKind, frame) IN
    /\ odrv_pub_flag_' = IF flag = OdrvKind THEN {} ELSE flag
    /\ odrv_at' = IF flag = OdrvKind THEN now' ELSE odrv_at
    /\ odrive_status' = IF flag = OdrvKind THEN odrv_stat_' ELSE odrive_status

recv_callback(frame) ==
  /\ now' = now + 1
  /\ ctrl_stat_' = StoreCtrl(frame)
  /\ odrv_stat_' = StoreOdrv(frame)
  /\ publish_ctrl(frame)
  /\ publish_odrv(frame)

-----------------------------------------------------------------------------
(* The bus.  A status frame of this axis has the documented length and     *)
(* carries fresh data.  Other frames that the socket hands over: of another*)
(* node, of a wrong length, or commands sent by another host.              *)

Length(k) == IF k = "mit" THEN 6 ELSE 8

Status(k) == [node |-> node_id_, kind |-> k, dlc |-> Length(k), data |-> now + 1]

Other == [node : Node, kind : Kind \cup {"mit"}, dlc : {0, 6, 8}, data : {0}]

Genuine(frame) == frame.node % 64 = node_id_ /\ frame.dlc = Length(frame.kind)

frame_of_axis(k) ==
  /\ now < MaxFrames
  /\ recv_callback(Status(k))
  /\ arrived' = IF k \in Kind THEN [arrived EXCEPT ![k] = now + 1] ELSE arrived
  /\ UNCHANGED cyclic

other_frame ==
  /\ now < MaxFrames
  /\ \E frame \in Other : ~Genuine(frame) /\ recv_callback(frame)
  /\ UNCHANGED <<arrived, cyclic>>

Done == now = MaxFrames /\ UNCHANGED vars

Next ==
  \/ \E k \in cyclic : frame_of_axis(k)
  \/ other_frame
  \/ Done

Spec == Init /\ [][Next]_vars

-----------------------------------------------------------------------------
(* Properties                                                              *)

\* Every field of an aggregated message was received after the previous
\* aggregated one: nothing is published twice from the same frame, nothing
\* comes from another axis or a malformed frame, and MIT feedback in between
\* does no harm.
FieldsFresh ==
  [][ /\ ctrl_at' # ctrl_at => \A f \in CtrlField : controller_status'[f] > ctrl_at
      /\ odrv_at' # odrv_at => \A k \in OdrvKind : odrive_status'[k] > odrv_at ]_vars

\* Nothing is held back: "the largest period will dictate the period of the
\* ROS2 message".  Once each kind has arrived since the last aggregated message,
\* the next one has been published.
PublishedOnTime ==
  /\ \E k \in CtrlKind : arrived[k] <= ctrl_at
  /\ \E k \in OdrvKind : arrived[k] <= odrv_at

-----------------------------------------------------------------------------
(* Strengthening used by the proofs in StatusTopics_proofs.                *)

\* A kind is flagged exactly if it arrived since the last aggregated message,
\* and the fields are at least as new as the last frame that carries them.
FlagsExact ==
  /\ \A k \in CtrlKind : k \in ctrl_pub_flag_ <=> arrived[k] > ctrl_at
  /\ \A k \in OdrvKind : k \in odrv_pub_flag_ <=> arrived[k] > odrv_at
  /\ \A f \in CtrlField : ctrl_stat_[f] >= arrived[KindOf[f]]
  /\ \A k \in OdrvKind : odrv_stat_[k] >= arrived[k]

IInv == TypeOK /\ FlagsExact
=============================================================================
