------------------------ MODULE StatusTopics_proofs -------------------------
(***************************************************************************)
(* Proofs about StatusTopics, for any axis, any other nodes on the bus and *)
(* any set of cyclic messages, with and without MIT feedback.              *)
(***************************************************************************)
EXTENDS StatusTopics, TLAPS

\* The frames of the two topics are distinct kinds.
LEMMA KindsDisjoint ==
  /\ CtrlKind \cap OdrvKind = {}
  /\ "mit" \notin Kind
  /\ \A f \in CtrlField : KindOf[f] \in CtrlKind
BY DEF CtrlKind, OdrvKind, Kind, CtrlField, KindOf

\* The fields a frame writes are those its kind carries.
LEMMA FieldsOfKind ==
  /\ \A k \in CtrlKind, f \in CtrlField : f \in Fields(k) <=> KindOf[f] = k
  /\ \A k \in OdrvKind, f \in CtrlField : f \notin Fields(k)
BY DEF CtrlKind, OdrvKind, CtrlField, KindOf, Fields

\* The invariant holds before the first frame.
LEMMA InitInv == Init => IInv
BY StatusAssumption DEF Init, IInv, TypeOK, FlagsExact, CtrlKind, OdrvKind, Kind, CtrlField, KindOf

\* A genuine frame of this axis passes the filter and the length check.
LEMMA StatusAccepted ==
  ASSUME NEW k \in Kind \cup {"mit"}
  PROVE  accepted(Status(k)) /\ Status(k).kind = k /\ Status(k).data = now + 1
<1>1. node_id_ % 64 = node_id_
  BY StatusAssumption
<1> QED BY <1>1 DEF accepted, ours, verify_length, Status, Length

\* Any other frame the socket hands over is dropped.
LEMMA OtherDropped ==
  ASSUME NEW frame \in Other, ~Genuine(frame)
  PROVE  ~accepted(frame)
BY DEF accepted, ours, verify_length, Genuine, Length

\* A frame that is not accepted changes nothing.
LEMMA DroppedStep ==
  ASSUME IInv, NEW frame, ~accepted(frame), recv_callback(frame)
  PROVE  /\ UNCHANGED <<ctrl_stat_, odrv_stat_, ctrl_pub_flag_, odrv_pub_flag_,
                        controller_status, odrive_status, ctrl_at, odrv_at>>
         /\ now' = now + 1
<1>1. ctrl_pub_flag_ # CtrlKind /\ odrv_pub_flag_ # OdrvKind
  BY DEF IInv, TypeOK
<1> QED BY <1>1 DEF recv_callback, StoreCtrl, StoreOdrv, publish_ctrl, publish_odrv, Raise

\* What the step of a genuine frame does to the ControllerStatus side.
LEMMA CtrlStep ==
  ASSUME IInv, NEW k \in Kind \cup {"mit"}, frame_of_axis(k)
  PROVE  /\ now' = now + 1 /\ now' \in 0..MaxFrames
         /\ \A f \in CtrlField : KindOf[f] = k => ctrl_stat_'[f] = now + 1
         /\ \A f \in CtrlField : ctrl_stat_'[f] \in {ctrl_stat_[f], now + 1}
         /\ ctrl_stat_' \in [CtrlField -> 0..now']
         /\ LET flag == IF k \in CtrlKind THEN ctrl_pub_flag_ \cup {k} ELSE ctrl_pub_flag_ IN
              \/ /\ flag = CtrlKind
                 /\ ctrl_pub_flag_' = {} /\ ctrl_at' = now + 1
                 /\ controller_status' = ctrl_stat_'
              \/ /\ flag # CtrlKind
                 /\ ctrl_pub_flag_' = flag /\ ctrl_at' = ctrl_at
                 /\ controller_status' \in {ctrl_stat_', controller_status}
<1> DEFINE frame == Status(k)
<1>1. accepted(frame) /\ frame.kind = k /\ frame.data = now + 1
  BY StatusAccepted
<1>2. now \in 0..MaxFrames /\ now < MaxFrames /\ MaxFrames \in Nat
  BY StatusAssumption DEF IInv, TypeOK, frame_of_axis
<1>3. recv_callback(frame)
  BY DEF frame_of_axis
<1> HIDE DEF frame
<1>4. now' = now + 1 /\ now' \in 0..MaxFrames
  BY <1>2, <1>3 DEF recv_callback
<1>5. ctrl_stat_' = [f \in CtrlField |->
          IF f \in (IF k = "mit" THEN MITField ELSE Fields(k)) THEN now + 1 ELSE ctrl_stat_[f]]
  BY <1>1, <1>3 DEF recv_callback, StoreCtrl
<1>6. \A f \in CtrlField : KindOf[f] = k => ctrl_stat_'[f] = now + 1
  BY <1>5, KindsDisjoint, FieldsOfKind DEF Kind
<1>7. \A f \in CtrlField : ctrl_stat_'[f] \in {ctrl_stat_[f], now + 1}
  BY <1>5
<1>8. ctrl_stat_' \in [CtrlField -> 0..now']
  <2>1. ctrl_stat_ \in [CtrlField -> 0..now]
    BY DEF IInv, TypeOK
  <2> QED BY <2>1, <1>2, <1>4, <1>5
<1>9. Raise(ctrl_pub_flag_, CtrlKind, frame)
        = IF k \in CtrlKind THEN ctrl_pub_flag_ \cup {k} ELSE ctrl_pub_flag_
  BY <1>1 DEF Raise
<1> QED BY <1>3, <1>4, <1>6, <1>7, <1>8, <1>9 DEF recv_callback, publish_ctrl

\* The same for ODriveStatus.
LEMMA OdrvStep ==
  ASSUME IInv, NEW k \in Kind \cup {"mit"}, frame_of_axis(k)
  PROVE  /\ odrv_stat_' \in [OdrvKind -> 0..now']
         /\ k \in OdrvKind => odrv_stat_' = [odrv_stat_ EXCEPT ![k] = now + 1]
         /\ k \notin OdrvKind => odrv_stat_' = odrv_stat_
         /\ LET flag == IF k \in OdrvKind THEN odrv_pub_flag_ \cup {k} ELSE odrv_pub_flag_ IN
              \/ /\ flag = OdrvKind
                 /\ odrv_pub_flag_' = {} /\ odrv_at' = now + 1
                 /\ odrive_status' = odrv_stat_'
              \/ /\ flag # OdrvKind
                 /\ odrv_pub_flag_' = flag
                 /\ UNCHANGED <<odrv_at, odrive_status>>
<1> DEFINE frame == Status(k)
<1>1. accepted(frame) /\ frame.kind = k /\ frame.data = now + 1
  BY StatusAccepted
<1>2. recv_callback(frame)
  BY DEF frame_of_axis
<1>3. now \in Nat /\ now' = now + 1
  BY <1>2, StatusAssumption DEF recv_callback, IInv, TypeOK
<1> HIDE DEF frame
<1>4. /\ k \in OdrvKind => odrv_stat_' = [odrv_stat_ EXCEPT ![k] = now + 1]
      /\ k \notin OdrvKind => odrv_stat_' = odrv_stat_
  BY <1>1, <1>2 DEF recv_callback, StoreOdrv
<1>5. odrv_stat_' \in [OdrvKind -> 0..now']
  <2>1. odrv_stat_ \in [OdrvKind -> 0..now]
    BY DEF IInv, TypeOK
  <2> QED BY <2>1, <1>3, <1>4
<1>6. Raise(odrv_pub_flag_, OdrvKind, frame)
        = IF k \in OdrvKind THEN odrv_pub_flag_ \cup {k} ELSE odrv_pub_flag_
  BY <1>1 DEF Raise
<1> QED BY <1>2, <1>3, <1>4, <1>5, <1>6 DEF recv_callback, publish_odrv

\* One call of recv_callback with an accepted frame keeps the invariant.
LEMMA FrameInv ==
  ASSUME IInv, NEW k \in Kind \cup {"mit"}, frame_of_axis(k)
  PROVE  IInv'
<1> USE DEF IInv
<1>1. arrived' = IF k \in Kind THEN [arrived EXCEPT ![k] = now + 1] ELSE arrived
  BY DEF frame_of_axis
<1>2. now \in Nat /\ now' = now + 1 /\ now' \in 0..MaxFrames
  BY CtrlStep, StatusAssumption DEF TypeOK
<1>3. arrived \in [Kind -> 0..now] /\ ctrl_at \in 0..now /\ odrv_at \in 0..now
  BY DEF TypeOK
<1>4. arrived' \in [Kind -> 0..now']
  BY <1>1, <1>2, <1>3
<1>5. TypeOK'
  <2>1. /\ ctrl_pub_flag_' \in (SUBSET CtrlKind) \ {CtrlKind}
        /\ ctrl_at' \in 0..now'
        /\ controller_status' \in [CtrlField -> 0..now']
    <3>1. {} # CtrlKind
      BY DEF CtrlKind
    <3>2. controller_status \in [CtrlField -> 0..now']
      BY <1>2 DEF TypeOK
    <3> QED BY CtrlStep, <1>2, <1>3, <3>1, <3>2 DEF TypeOK
  <2>2. /\ odrv_pub_flag_' \in (SUBSET OdrvKind) \ {OdrvKind}
        /\ odrv_at' \in 0..now'
        /\ odrive_status' \in [OdrvKind -> 0..now']
    <3>1. {} # OdrvKind
      BY DEF OdrvKind
    <3>2. odrive_status \in [OdrvKind -> 0..now']
      BY <1>2 DEF TypeOK
    <3> QED BY OdrvStep, <1>2, <1>3, <3>1, <3>2 DEF TypeOK
  <2>3. cyclic' \in Configurations
    BY DEF frame_of_axis, TypeOK
  <2> QED BY <1>2, <1>4, <2>1, <2>2, <2>3, CtrlStep, OdrvStep DEF TypeOK
<1>6. \A x \in CtrlKind : x \in ctrl_pub_flag_' <=> arrived'[x] > ctrl_at'
  <2> TAKE x \in CtrlKind
  <2>1. x \in Kind /\ arrived[x] \in 0..now
    BY <1>3 DEF Kind
  <2>2. arrived'[x] = IF x = k THEN now + 1 ELSE arrived[x]
    BY <1>1, <1>3, <2>1
  <2>3. x \in ctrl_pub_flag_ <=> arrived[x] > ctrl_at
    BY DEF FlagsExact
  <2> QED BY <1>2, <1>3, <2>1, <2>2, <2>3, CtrlStep
<1>7. \A x \in OdrvKind : x \in odrv_pub_flag_' <=> arrived'[x] > odrv_at'
  <2> TAKE x \in OdrvKind
  <2>1. x \in Kind /\ arrived[x] \in 0..now
    BY <1>3 DEF Kind
  <2>2. arrived'[x] = IF x = k THEN now + 1 ELSE arrived[x]
    BY <1>1, <1>3, <2>1
  <2>3. x \in odrv_pub_flag_ <=> arrived[x] > odrv_at
    BY DEF FlagsExact
  <2> QED BY <1>2, <1>3, <2>1, <2>2, <2>3, OdrvStep
<1>8. \A f \in CtrlField : ctrl_stat_'[f] >= arrived'[KindOf[f]]
  <2> TAKE f \in CtrlField
  <2>1. KindOf[f] \in Kind /\ arrived[KindOf[f]] \in 0..now
    BY <1>3, KindsDisjoint DEF Kind
  <2>2. arrived'[KindOf[f]] = IF KindOf[f] = k THEN now + 1 ELSE arrived[KindOf[f]]
    BY <1>1, <1>3, <2>1
  <2>3. ctrl_stat_[f] >= arrived[KindOf[f]] /\ ctrl_stat_[f] \in 0..now
    BY DEF FlagsExact, TypeOK
  <2>4. ctrl_stat_'[f] \in {ctrl_stat_[f], now + 1} /\ (KindOf[f] = k => ctrl_stat_'[f] = now + 1)
    BY CtrlStep
  <2> QED BY <1>2, <2>1, <2>2, <2>3, <2>4
<1>9. \A x \in OdrvKind : odrv_stat_'[x] >= arrived'[x]
  <2> TAKE x \in OdrvKind
  <2>1. x \in Kind /\ arrived[x] \in 0..now
    BY <1>3 DEF Kind
  <2>2. arrived'[x] = IF x = k THEN now + 1 ELSE arrived[x]
    BY <1>1, <1>3, <2>1
  <2>3. odrv_stat_[x] >= arrived[x] /\ odrv_stat_ \in [OdrvKind -> 0..now]
    BY DEF FlagsExact, TypeOK
  <2>4. odrv_stat_'[x] = IF x = k THEN now + 1 ELSE odrv_stat_[x]
    BY OdrvStep, <2>3
  <2> QED BY <1>2, <2>1, <2>2, <2>3, <2>4
<1> QED BY <1>5, <1>6, <1>7, <1>8, <1>9 DEF FlagsExact

\* A frame that is filtered out, too short or of another kind keeps it.
LEMMA OtherInv == ASSUME IInv, other_frame PROVE IInv'
<1>1. PICK frame \in Other : ~Genuine(frame) /\ recv_callback(frame)
  BY DEF other_frame
<1>2. /\ UNCHANGED <<ctrl_stat_, odrv_stat_, ctrl_pub_flag_, odrv_pub_flag_,
                     controller_status, odrive_status, ctrl_at, odrv_at>>
      /\ now' = now + 1
  BY <1>1, OtherDropped, DroppedStep
<1>3. arrived' = arrived /\ cyclic' = cyclic /\ now < MaxFrames
  BY DEF other_frame
<1>4. now \in Nat /\ now' \in 0..MaxFrames
  BY <1>2, <1>3, StatusAssumption DEF IInv, TypeOK
<1>5. TypeOK'
  BY <1>2, <1>3, <1>4 DEF IInv, TypeOK
<1>6. FlagsExact'
  BY <1>2, <1>3 DEF IInv, FlagsExact
<1> QED BY <1>5, <1>6 DEF IInv

\* A stuttering step keeps it.
LEMMA StutterInv == ASSUME IInv, UNCHANGED vars PROVE IInv'
BY DEF IInv, TypeOK, FlagsExact, vars

\* Every step keeps the invariant.
LEMMA StepInv == IInv /\ [Next]_vars => IInv'
<1> SUFFICES ASSUME IInv, [Next]_vars PROVE IInv'
  OBVIOUS
<1>1. ASSUME NEW k \in cyclic, frame_of_axis(k) PROVE IInv'
  <2>1. k \in Kind \cup {"mit"}
    BY StatusAssumption DEF IInv, TypeOK
  <2> QED BY <1>1, <2>1, FrameInv
<1>3. CASE other_frame
  BY <1>3, OtherInv
<1>4. CASE UNCHANGED vars
  BY <1>4, StutterInv
<1> QED BY <1>1, <1>3, <1>4 DEF Next, Done

\* The flags say exactly which kinds arrived since the last aggregated message.
THEOREM StatusInvariant == Spec => []IInv
<1> QED BY InitInv, StepInv, PTL DEF Spec

\* Type correctness; in particular no flag is ever left complete.
THEOREM StatusTypeOK == Spec => []TypeOK
<1>1. IInv => TypeOK
  BY DEF IInv
<1> QED BY <1>1, StatusInvariant, PTL

\* No aggregated message is held back once each of its kinds has arrived.
THEOREM StatusOnTime == Spec => []PublishedOnTime
<1>1. ASSUME IInv PROVE PublishedOnTime
  <2>1. PICK k \in CtrlKind : k \notin ctrl_pub_flag_
    BY <1>1 DEF IInv, TypeOK
  <2>2. PICK j \in OdrvKind : j \notin odrv_pub_flag_
    BY <1>1 DEF IInv, TypeOK
  <2>3. arrived[k] \in Nat /\ arrived[j] \in Nat /\ ctrl_at \in Nat /\ odrv_at \in Nat
    BY <1>1 DEF IInv, TypeOK, Kind
  <2>4. ~(arrived[k] > ctrl_at) /\ ~(arrived[j] > odrv_at)
    BY <1>1, <2>1, <2>2 DEF IInv, FlagsExact
  <2> QED BY <2>3, <2>4 DEF PublishedOnTime
<1> QED BY <1>1, StatusInvariant, PTL

\* Every field of an aggregated message is newer than the one before it.
THEOREM StatusFresh == Spec => FieldsFresh
<1> DEFINE Fresh ==
      /\ ctrl_at' # ctrl_at => \A f \in CtrlField : controller_status'[f] > ctrl_at
      /\ odrv_at' # odrv_at => \A k \in OdrvKind : odrive_status'[k] > odrv_at
<1>1. ASSUME IInv, NEW k \in Kind \cup {"mit"}, frame_of_axis(k) PROVE Fresh
  <2>1. now \in Nat /\ ctrl_at \in 0..now /\ odrv_at \in 0..now
    BY <1>1, StatusAssumption DEF IInv, TypeOK
  <2>2. ASSUME ctrl_at' # ctrl_at, NEW f \in CtrlField PROVE controller_status'[f] > ctrl_at
    <3>1. controller_status' = ctrl_stat_' /\ KindOf[f] \in ctrl_pub_flag_ \cup {k}
      BY <1>1, <2>2, CtrlStep, KindsDisjoint
    <3>2. CASE KindOf[f] = k
      BY <3>1, <3>2, <1>1, <2>1, CtrlStep
    <3>3. CASE KindOf[f] \in ctrl_pub_flag_
      <4>1. arrived[KindOf[f]] > ctrl_at /\ ctrl_stat_[f] >= arrived[KindOf[f]]
        BY <1>1, <3>3, KindsDisjoint DEF IInv, FlagsExact
      <4>2. arrived[KindOf[f]] \in 0..now /\ ctrl_stat_[f] \in 0..now
        BY <1>1, KindsDisjoint DEF IInv, TypeOK, Kind
      <4>3. ctrl_stat_'[f] \in {ctrl_stat_[f], now + 1}
        BY <1>1, CtrlStep
      <4> QED BY <2>1, <3>1, <4>1, <4>2, <4>3
    <3> QED BY <3>1, <3>2, <3>3
  <2>3. ASSUME odrv_at' # odrv_at, NEW x \in OdrvKind PROVE odrive_status'[x] > odrv_at
    <3>1. odrive_status' = odrv_stat_' /\ x \in odrv_pub_flag_ \cup {k}
      BY <1>1, <2>3, OdrvStep
    <3>2. odrv_stat_ \in [OdrvKind -> 0..now]
      BY <1>1 DEF IInv, TypeOK
    <3>3. CASE x = k
      BY <3>1, <3>2, <3>3, <1>1, <2>1, OdrvStep
    <3>4. CASE x # k
      <4>1. arrived[x] > odrv_at /\ odrv_stat_[x] >= arrived[x]
        BY <1>1, <3>1, <3>4 DEF IInv, FlagsExact
      <4>2. arrived[x] \in 0..now
        BY <1>1 DEF IInv, TypeOK, Kind
      <4>3. odrv_stat_'[x] = odrv_stat_[x]
        BY <1>1, <3>2, <3>4, OdrvStep
      <4> QED BY <2>1, <3>1, <3>2, <4>1, <4>2, <4>3
    <3> QED BY <3>3, <3>4
  <2> QED BY <2>2, <2>3
<1>2. ASSUME IInv, other_frame PROVE Fresh
  <2>1. UNCHANGED <<ctrl_at, odrv_at>>
    BY <1>2, OtherDropped, DroppedStep DEF other_frame
  <2> QED BY <2>1
<1>3. ASSUME IInv, UNCHANGED vars PROVE Fresh
  BY <1>3 DEF vars
<1>4. IInv /\ [Next]_vars => [Fresh]_vars
  <2> SUFFICES ASSUME IInv, [Next]_vars PROVE Fresh
    OBVIOUS
  <2>1. cyclic \subseteq Kind \cup {"mit"}
    BY StatusAssumption DEF IInv, TypeOK
  <2> HIDE DEF Fresh
  <2> QED BY <1>1, <1>2, <1>3, <2>1 DEF Next, Done
<1> QED BY <1>4, StatusInvariant, PTL DEF Spec, FieldsFresh
=============================================================================
