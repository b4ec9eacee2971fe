---------------------- MODULE HardwareInterface_proofs ----------------------
(***************************************************************************)
(* Proofs about HardwareInterface: its types, and that a drive whose last  *)
(* command was queued whole ends up as the flags say, for any number of    *)
(* axes, any length of the queue and any pattern of lost frames.           *)
(***************************************************************************)
EXTENDS HardwareInterface, SequenceTheorems, TLAPS

wanted(a) == active_ /\ enabled[a] # {}

\* A setpoint that carries only inputs which are claimed now.
Claimed(a, frame) == frame.type = "Set_Input" /\ frame.terms \subseteq enabled[a]

\* The frame at place n is the last command frame of axis a on the wire, the
\* end of a command for what the flags say now.
Pending(a, n) ==
  /\ n \in 1 .. Len(wire[a])
  /\ wire[a][n] = AxisState(IF wanted(a) THEN "closed_loop" ELSE "idle")
  /\ \A k \in 1 .. Len(wire[a]) : k > n => Claimed(a, wire[a][k])
  /\ wanted(a) => /\ n >= 2 => wire[a][n - 1] = ClearErrors
                  /\ n >= 3 => wire[a][n - 2] = ModeFrame(primary(enabled[a]))
                  /\ n <= 2 => mode[a] = primary(enabled[a])

Settled(a) ==
  /\ \A k \in 1 .. Len(wire[a]) : Claimed(a, wire[a][k])
  /\ armed[a] => wanted(a) /\ mode[a] = primary(enabled[a])
  /\ wanted(a) /\ ~armed[a] => errors[a]

Follows(a) == commanded[a] => Settled(a) \/ \E n \in Nat : Pending(a, n)

IInv == TypeOK /\ \A a \in Axis : Follows(a)

\* What the queue of axis a depends on beside its content.
Same(a) ==
  /\ active_' = active_ /\ enabled'[a] = enabled[a] /\ commanded'[a] = commanded[a]
  /\ mode'[a] = mode[a] /\ armed'[a] = armed[a] /\ errors'[a] = errors[a]

-----------------------------------------------------------------------------
(* What is sent.                                                           *)

\* The primary input is one of the enabled ones.
LEMMA PrimaryEnabled ==
  ASSUME NEW inputs \in SUBSET Input, inputs # {}
  PROVE  primary(inputs) \in inputs /\ primary(inputs) \in Input
<1>1. \E i \in inputs : \/ i = "position"
                        \/ i = "velocity" /\ "position" \notin inputs
                        \/ inputs = {"effort"}
  <2>1. CASE "position" \in inputs
    BY <2>1
  <2>2. CASE "position" \notin inputs /\ "velocity" \in inputs
    BY <2>2
  <2>3. CASE "position" \notin inputs /\ "velocity" \notin inputs
    BY <2>3 DEF Input
  <2> QED  BY <2>1, <2>2, <2>3
<1> QED  BY <1>1 DEF primary

\* A setpoint carries the primary input and others that are enabled.
LEMMA SetpointFields ==
  ASSUME NEW inputs \in (SUBSET Input) \ {{}}, NEW whole
  PROVE  LET frame == Setpoint(inputs, whole)
         IN  /\ frame.type = "Set_Input" /\ frame.whole = whole
             /\ frame.arg = primary(inputs) /\ frame.terms \subseteq inputs
<1>1. primary(inputs) \in inputs
  BY PrimaryEnabled
<1>2. carried(inputs) \subseteq inputs
  BY <1>1 DEF carried
<1> QED  BY <1>2 DEF Setpoint

\* A command is an idle request alone or the three frames in this order.
LEMMA CommandFrames ==
  ASSUME NEW on \in BOOLEAN, NEW inputs \in SUBSET Input
  PROVE  LET out == set_axis_command_mode(on, inputs)
         IN  /\ out \in Seq(Frame) /\ Len(out) \in 1 .. 3
             /\ on /\ inputs # {} =>
                  out = <<ModeFrame(primary(inputs)), ClearErrors, AxisState("closed_loop")>>
             /\ ~(on /\ inputs # {}) => out = <<AxisState("idle")>>
<1>1. CASE on /\ inputs # {}
  <2>1. primary(inputs) \in Input
    BY <1>1, PrimaryEnabled
  <2>2. /\ ModeFrame(primary(inputs)) \in Frame /\ ClearErrors \in Frame
        /\ AxisState("closed_loop") \in Frame
    BY <2>1 DEF Frame
  <2> QED  BY <1>1, <2>2 DEF set_axis_command_mode
<1>2. CASE ~(on /\ inputs # {})
  <2>1. AxisState("idle") \in Frame
    BY DEF Frame
  <2> QED  BY <1>2, <2>1 DEF set_axis_command_mode
<1> QED  BY <1>1, <1>2

\* Whatever is lost, what is left are frames.
LEMMA KeptFrames ==
  ASSUME NEW S, NEW frames \in Seq(S), NEW sent \in SUBSET DOMAIN frames
  PROVE  Kept(frames, sent) \in Seq(S)
<1> DEFINE Part(i) == IF i \in sent THEN <<frames[i]>> ELSE <<>>
<1>1. \A i \in 1 .. 3 : Part(i) \in Seq(S)
  <2> TAKE i \in 1 .. 3
  <2>1. CASE i \in sent
    <3>1. frames[i] \in S
      BY <2>1
    <3> QED  BY <2>1, <3>1
  <2>2. CASE i \notin sent
    BY <2>2
  <2> QED  BY <2>1, <2>2
<1>2. Part(1) \in Seq(S) /\ Part(2) \in Seq(S) /\ Part(3) \in Seq(S)
  BY <1>1
<1> HIDE DEF Part
<1>3. Part(1) \o Part(2) \o Part(3) \in Seq(S)
  BY <1>2
<1> QED  BY <1>3 DEF Kept, Part

\* Of a callback that sends nothing, nothing is queued.
LEMMA KeptNone == Kept(<<>>, {}) = <<>>
BY DEF Kept

\* A single frame that is not lost is queued.
LEMMA KeptOne ==
  ASSUME NEW S, NEW x \in S
  PROVE  Kept(<<x>>, DOMAIN <<x>>) = <<x>>
<1>1. DOMAIN <<x>> = {1}
  OBVIOUS
<1>2. <<x>>[1] = x
  OBVIOUS
<1>3. Kept(<<x>>, {1}) = <<x>> \o <<>> \o <<>>
  BY <1>2 DEF Kept
<1>4. <<x>> \o <<>> \o <<>> = <<x>>
  OBVIOUS
<1> QED  BY <1>1, <1>3, <1>4

\* Three frames none of which is lost are queued in their order.
LEMMA KeptThree ==
  ASSUME NEW S, NEW x \in S, NEW y \in S, NEW z \in S
  PROVE  Kept(<<x, y, z>>, DOMAIN <<x, y, z>>) = <<x, y, z>>
<1>1. DOMAIN <<x, y, z>> = {1, 2, 3}
  OBVIOUS
<1>2. <<x, y, z>>[1] = x /\ <<x, y, z>>[2] = y /\ <<x, y, z>>[3] = z
  OBVIOUS
<1>3. Kept(<<x, y, z>>, {1, 2, 3}) = <<x>> \o <<y>> \o <<z>>
  BY <1>2 DEF Kept
<1> DEFINE last == <<z>>
           two == <<x>> \o <<y>>
           three == two \o last
<1>4. /\ <<x>> \in Seq(S) /\ <<y>> \in Seq(S) /\ last \in Seq(S)
      /\ Len(last) = 1 /\ last[1] = z
  OBVIOUS
<1>5. two \in Seq(S) /\ Len(two) = 2 /\ two[1] = x /\ two[2] = y
  BY <1>4
<1>6. three \in Seq(S) /\ Len(three) = 3 /\ three[1] = x /\ three[2] = y /\ three[3] = z
  <2> HIDE DEF two, last
  <2>1. /\ three \in Seq(S) /\ Len(three) = Len(two) + Len(last)
        /\ \A i \in 1 .. Len(two) + Len(last) :
             three[i] = IF i <= Len(two) THEN two[i] ELSE last[i - Len(two)]
    BY <1>4, <1>5, ConcatProperties
  <2> HIDE DEF three
  <2> QED  BY <1>4, <1>5, <2>1
<1>7. \A s \in Seq(S) : Len(s) = 3 /\ s[1] = x /\ s[2] = y /\ s[3] = z => s = <<x, y, z>>
  OBVIOUS
<1>8. three = <<x, y, z>>
  <2> HIDE DEF three
  <2> QED  BY <1>6, <1>7
<1> QED  BY <1>1, <1>3, <1>8

-----------------------------------------------------------------------------
(* Types.                                                                  *)

\* The queues stay queues of frames when some of out is appended.
LEMMA SendTypes ==
  ASSUME TypeOK, NEW out \in [Axis -> Seq(Frame)], NEW sent, send(out, sent)
  PROVE  wire' \in [Axis -> Seq(Frame)] /\ \A a \in Axis : Len(wire'[a]) <= QueueLength
<1>1. ASSUME NEW a \in Axis
      PROVE  wire[a] \o Kept(out[a], sent[a]) \in Seq(Frame)
  <2>1. sent[a] \in SUBSET DOMAIN out[a]
    BY FlagAssumption DEF send
  <2>2. out[a] \in Seq(Frame)
    OBVIOUS
  <2>3. Kept(out[a], sent[a]) \in Seq(Frame)
    BY <2>1, <2>2, KeptFrames
  <2>4. wire[a] \in Seq(Frame)
    BY DEF TypeOK
  <2> QED  BY <2>3, <2>4
<1> QED  BY <1>1 DEF send

\* The same for a command to some of the axes.
LEMMA CommandTypes ==
  ASSUME TypeOK, NEW axes, NEW on \in BOOLEAN, NEW inputs \in [Axis -> SUBSET Input],
         Command(axes, on, inputs)
  PROVE  /\ wire' \in [Axis -> Seq(Frame)] /\ \A a \in Axis : Len(wire'[a]) <= QueueLength
         /\ commanded' \in [Axis -> BOOLEAN]
<1> DEFINE out == [a \in Axis |-> IF a \in axes THEN set_axis_command_mode(on, inputs[a])
                                                ELSE <<>>]
<1>1. PICK sent \in [Axis -> SUBSET (1 .. 3)] :
        /\ send(out, sent)
        /\ commanded' = [a \in Axis |-> IF a \in axes THEN sent[a] = DOMAIN out[a]
                                                      ELSE commanded[a]]
  BY DEF Command
<1>2. out \in [Axis -> Seq(Frame)]
  <2>1. \A a \in Axis : set_axis_command_mode(on, inputs[a]) \in Seq(Frame)
    BY CommandFrames
  <2> QED  BY <2>1
<1>3. commanded \in [Axis -> BOOLEAN]
  BY DEF TypeOK
<1>4. \A a \in Axis : (IF a \in axes THEN sent[a] = DOMAIN out[a] ELSE commanded[a]) \in BOOLEAN
  BY <1>3
<1>5. wire' \in [Axis -> Seq(Frame)] /\ \A a \in Axis : Len(wire'[a]) <= QueueLength
  BY <1>1, <1>2, SendTypes
<1>6. commanded' \in [Axis -> BOOLEAN]
  BY <1>1, <1>4
<1> QED  BY <1>5, <1>6

\* The first frame is one of the six kinds with an argument that fits it.
LEMMA FrameArg ==
  ASSUME NEW frame \in Frame
  PROVE  frame.type = "Set_Controller_Mode" => frame.arg \in Input
<1>1. CASE frame \in {ModeFrame(i) : i \in Input}
  BY <1>1 DEF ModeFrame
<1>2. CASE frame \in Setpoints
  BY <1>2 DEF Setpoints, Setpoint
<1>3. CASE frame \in {ClearErrors, AxisState("idle"), AxisState("closed_loop")}
  BY <1>3 DEF ClearErrors, AxisState
<1> QED  BY <1>1, <1>2, <1>3 DEF Frame

\* The initial state has the types.
LEMMA InitTypes == Init => TypeOK
<1> SUFFICES ASSUME Init PROVE TypeOK
  OBVIOUS
<1>1. active_ \in BOOLEAN /\ activated \in BOOLEAN
  BY FlagAssumption DEF Init
<1>2. \A a \in Axis : Len(wire[a]) <= QueueLength
  BY QueueAssumption DEF Init
<1> QED  BY <1>1, <1>2 DEF Init, TypeOK

\* Every step keeps the types.
LEMMA StepTypes == ASSUME TypeOK, [Next]_vars PROVE TypeOK'
<1> USE DEF TypeOK, plugin, drive
<1>1. CASE on_configure
  BY <1>1 DEF on_configure
<1>2. CASE on_cleanup
  BY <1>2 DEF on_cleanup
<1>3. CASE on_activate
  <2>1. Command(Axis, TRUE, enabled)
    BY <1>3 DEF on_activate
  <2>2. /\ wire' \in [Axis -> Seq(Frame)] /\ \A a \in Axis : Len(wire'[a]) <= QueueLength
        /\ commanded' \in [Axis -> BOOLEAN]
    BY <2>1, CommandTypes
  <2> QED  BY <1>3, <2>2 DEF on_activate
<1>4. CASE on_deactivate
  <2>1. Command(Axis, FALSE, enabled)
    BY <1>4 DEF on_deactivate
  <2>2. /\ wire' \in [Axis -> Seq(Frame)] /\ \A a \in Axis : Len(wire'[a]) <= QueueLength
        /\ commanded' \in [Axis -> BOOLEAN]
    BY <2>1, CommandTypes
  <2> QED  BY <1>4, <2>2 DEF on_deactivate
<1>5. CASE on_shutdown
  BY <1>5 DEF on_shutdown
<1>6. CASE perform_command_mode_switch
  <2>1. PICK stop \in [Axis -> SUBSET Input], start \in [Axis -> SUBSET Claimable] :
          LET inputs == [a \in Axis |-> (enabled[a] \ stop[a]) \cup start[a]]
          IN  /\ enabled' = inputs
              /\ Command({a \in Axis : start[a] \cup stop[a] # {}}, active_, inputs)
    BY <1>6 DEF perform_command_mode_switch
  <2> DEFINE inputs == [a \in Axis |-> (enabled[a] \ stop[a]) \cup start[a]]
  <2>2. inputs \in [Axis -> SUBSET Input]
    BY ClaimableAssumption
  <2>3. Command({a \in Axis : start[a] \cup stop[a] # {}}, active_, inputs) /\ enabled' = inputs
    BY <2>1
  <2> HIDE DEF inputs
  <2>4. /\ wire' \in [Axis -> Seq(Frame)] /\ \A a \in Axis : Len(wire'[a]) <= QueueLength
        /\ commanded' \in [Axis -> BOOLEAN]
    BY <2>2, <2>3, CommandTypes
  <2> QED  BY <1>6, <2>2, <2>3, <2>4 DEF perform_command_mode_switch
<1>7. CASE on_can_msg
  BY <1>7 DEF on_can_msg
<1>8. CASE write
  <2> DEFINE out == [a \in Axis |-> IF enabled[a] = {} THEN <<>>
                                    ELSE <<Setpoint(enabled[a], commanded[a])>>]
  <2>1. PICK sent \in [Axis -> SUBSET (1 .. 1)] : send(out, sent)
    BY <1>8 DEF write
  <2>2. ASSUME NEW a \in Axis PROVE out[a] \in Seq(Frame)
    <3>1. CASE enabled[a] = {}
      BY <3>1
    <3>2. CASE enabled[a] # {}
      <4>1. enabled[a] \in (SUBSET Input) \ {{}} /\ commanded[a] \in BOOLEAN
        BY <3>2
      <4>2. Setpoint(enabled[a], commanded[a]) \in Frame
        BY ONLY <4>1 DEF Frame, Setpoints
      <4> QED  BY <3>2, <4>2
    <3> QED  BY <3>1, <3>2
  <2>3. out \in [Axis -> Seq(Frame)]
    BY <2>2
  <2> HIDE DEF out
  <2>4. wire' \in [Axis -> Seq(Frame)] /\ \A a \in Axis : Len(wire'[a]) <= QueueLength
    BY <2>1, <2>3, SendTypes
  <2> QED  BY <1>8, <2>4 DEF write
<1>9. ASSUME NEW a \in Axis, receive(a) PROVE TypeOK'
  <2>1. wire[a] \in Seq(Frame) /\ wire[a] # <<>>
    BY <1>9 DEF receive
  <2>2. /\ Tail(wire[a]) \in Seq(Frame) /\ Len(Tail(wire[a])) = Len(wire[a]) - 1
        /\ Head(wire[a]) \in Frame /\ Len(wire[a]) \in Nat
    BY <2>1
  <2>3. wire' \in [Axis -> Seq(Frame)] /\ \A b \in Axis : Len(wire'[b]) <= QueueLength
    BY <1>9, <2>2, QueueAssumption DEF receive
  <2>4. mode' \in [Axis -> Input]
    BY <1>9, <2>2, FrameArg DEF receive
  <2>5. errors' \in [Axis -> BOOLEAN] /\ armed' \in [Axis -> BOOLEAN]
    BY <1>9 DEF receive
  <2> QED  BY <1>9, <2>3, <2>4, <2>5 DEF receive
<1>10. ASSUME NEW a \in Axis, fault(a) PROVE TypeOK'
  BY <1>10 DEF fault
<1>11. CASE UNCHANGED vars
  BY <1>11 DEF vars
<1> QED  BY <1>1, <1>2, <1>3, <1>4, <1>5, <1>6, <1>7, <1>8, <1>9, <1>10, <1>11
         DEF Next, Lifecycle, Cycle, Drive

-----------------------------------------------------------------------------
(* A drive follows its last whole command.                                 *)

\* A command that was queued whole is pending for what it was made for.
LEMMA CommandPending ==
  ASSUME TypeOK, NEW axes, NEW on \in BOOLEAN, NEW inputs \in [Axis -> SUBSET Input],
         Command(axes, on, inputs), active_' = on, enabled' = inputs,
         NEW a \in Axis, a \in axes, commanded'[a]
  PROVE  \E n \in Nat : Pending(a, n)'
<1> DEFINE out == [b \in Axis |-> IF b \in axes THEN set_axis_command_mode(on, inputs[b])
                                                ELSE <<>>]
           frames == set_axis_command_mode(on, inputs[a])
<1>1. PICK sent \in [Axis -> SUBSET (1 .. 3)] :
        /\ send(out, sent)
        /\ commanded' = [b \in Axis |-> IF b \in axes THEN sent[b] = DOMAIN out[b]
                                                      ELSE commanded[b]]
  BY DEF Command
<1>2. sent[a] = DOMAIN frames
  BY <1>1
<1>3. wire'[a] = wire[a] \o Kept(frames, DOMAIN frames)
  BY <1>1, <1>2 DEF send
<1>4. wire[a] \in Seq(Frame)
  BY DEF TypeOK
<1>5. PICK L \in Nat : L = Len(wire[a])
  BY <1>4
<1>6. CASE on /\ inputs[a] # {}
  <2> DEFINE m == ModeFrame(primary(inputs[a]))
             s == AxisState("closed_loop")
  <2>1. m \in Frame /\ ClearErrors \in Frame /\ s \in Frame
    BY <1>6, PrimaryEnabled DEF Frame
  <2>2. frames = <<m, ClearErrors, s>>
    BY <1>6, CommandFrames
  <2> HIDE DEF m, s, frames
  <2>3. wire'[a] = wire[a] \o <<m, ClearErrors, s>>
    <3>1. Kept(<<m, ClearErrors, s>>, DOMAIN <<m, ClearErrors, s>>) = <<m, ClearErrors, s>>
      BY <2>1, KeptThree
    <3> QED  BY <1>3, <2>2, <3>1
  <2>4. <<m, ClearErrors, s>> \in Seq(Frame) /\ Len(<<m, ClearErrors, s>>) = 3
    BY <2>1
  <2>5. /\ Len(wire'[a]) = L + 3
        /\ wire'[a][L + 1] = m /\ wire'[a][L + 2] = ClearErrors /\ wire'[a][L + 3] = s
    BY <1>5, <1>4, <2>3, <2>4
  <2>6. Pending(a, L + 3)'
    <3>1. L + 3 \in 1 .. Len(wire'[a]) /\ (L + 3) - 1 = L + 2 /\ (L + 3) - 2 = L + 1
      BY <1>5, <2>5
    <3>2. ~(L + 3 <= 2) /\ \A k \in 1 .. Len(wire'[a]) : ~(k > L + 3)
      BY <1>5, <2>5
    <3> QED  BY <1>6, <2>5, <3>1, <3>2 DEF Pending, wanted, m, s
  <2> QED  BY <1>5, <2>6
<1>7. CASE ~(on /\ inputs[a] # {})
  <2> DEFINE s == AxisState("idle")
  <2>1. s \in Frame
    BY DEF Frame
  <2>2. frames = <<s>>
    BY <1>7, CommandFrames
  <2> HIDE DEF s, frames
  <2>3. wire'[a] = wire[a] \o <<s>>
    BY <1>3, <2>1, <2>2, KeptOne
  <2>4. Len(wire'[a]) = L + 1 /\ wire'[a][L + 1] = s
    BY <1>5, <1>4, <2>1, <2>3
  <2>5. Pending(a, L + 1)'
    <3>1. L + 1 \in 1 .. Len(wire'[a]) /\ \A k \in 1 .. Len(wire'[a]) : ~(k > L + 1)
      BY <1>5, <2>4
    <3> QED  BY <1>7, <2>4, <3>1 DEF Pending, wanted, s
  <2> QED  BY <1>5, <2>5
<1> QED  BY <1>6, <1>7

\* An axis that no command is for keeps its queue.
LEMMA CommandOthers ==
  ASSUME TypeOK, NEW axes, NEW on, NEW inputs, Command(axes, on, inputs),
         NEW a \in Axis, a \notin axes
  PROVE  wire'[a] = wire[a] /\ commanded'[a] = commanded[a]
<1> DEFINE out == [b \in Axis |-> IF b \in axes THEN set_axis_command_mode(on, inputs[b])
                                                ELSE <<>>]
<1>1. PICK sent \in [Axis -> SUBSET (1 .. 3)] :
        /\ send(out, sent)
        /\ commanded' = [b \in Axis |-> IF b \in axes THEN sent[b] = DOMAIN out[b]
                                                      ELSE commanded[b]]
  BY DEF Command
<1>2. out[a] = <<>> /\ DOMAIN out[a] = {}
  OBVIOUS
<1>3. sent[a] = {}
  BY <1>1, <1>2, FlagAssumption DEF send
<1>4. wire'[a] = wire[a] \o <<>>
  BY <1>1, <1>2, <1>3, KeptNone DEF send
<1>5. wire[a] \in Seq(Frame)
  BY DEF TypeOK
<1> QED  BY <1>1, <1>4, <1>5

\* Setpoints behind a command, or behind none, change nothing of this.
LEMMA AppendFollows ==
  ASSUME TypeOK, NEW a \in Axis, Follows(a), Same(a),
         NEW tail \in Seq(Frame), wire'[a] = wire[a] \o tail,
         \A k \in 1 .. Len(tail) : Claimed(a, tail[k])
  PROVE  Follows(a)'
<1> SUFFICES ASSUME commanded'[a] PROVE Settled(a)' \/ \E n \in Nat : Pending(a, n)'
  BY DEF Follows
<1>1. commanded[a]
  BY DEF Same
<1>2. /\ wire[a] \in Seq(Frame) /\ Len(wire[a]) \in Nat /\ Len(tail) \in Nat
      /\ Len(wire'[a]) = Len(wire[a]) + Len(tail)
  BY DEF TypeOK
<1>3. \A k \in 1 .. Len(wire[a]) : wire'[a][k] = wire[a][k]
  BY <1>2
<1>4. ASSUME NEW k \in 1 .. Len(wire'[a]), k > Len(wire[a])
      PROVE  Claimed(a, wire'[a][k])
  <2>1. k - Len(wire[a]) \in 1 .. Len(tail)
    BY <1>2, <1>4
  <2>2. wire'[a][k] = tail[k - Len(wire[a])]
    BY <1>2, <1>4
  <2> QED  BY <2>1, <2>2
<1>5. CASE Settled(a)
  <2>1. ASSUME NEW k \in 1 .. Len(wire'[a]) PROVE Claimed(a, wire'[a][k])
    <3>1. k \in 1 .. Len(wire[a]) \/ k > Len(wire[a])
      BY <1>2
    <3> QED  BY <1>3, <1>4, <1>5, <3>1 DEF Settled
  <2> QED  BY <1>5, <2>1 DEF Settled, wanted, Same, Claimed
<1>6. ASSUME NEW n \in Nat, Pending(a, n) PROVE Pending(a, n)'
  <2>1. n \in 1 .. Len(wire[a])
    BY <1>6 DEF Pending
  <2>2. n \in 1 .. Len(wire'[a]) /\ wire'[a][n] = wire[a][n]
    BY <1>2, <1>3, <2>1
  <2>3. ASSUME NEW k \in 1 .. Len(wire'[a]), k > n PROVE Claimed(a, wire'[a][k])
    <3>1. k \in 1 .. Len(wire[a]) \/ k > Len(wire[a])
      BY <1>2
    <3> QED  BY <1>3, <1>4, <1>6, <2>3, <3>1 DEF Pending
  <2>4. n >= 2 => wire'[a][n - 1] = wire[a][n - 1]
    <3>1. n >= 2 => n - 1 \in 1 .. Len(wire[a])
      BY <1>2, <2>1
    <3> QED  BY <1>3, <3>1
  <2>5. n >= 3 => wire'[a][n - 2] = wire[a][n - 2]
    <3>1. n >= 3 => n - 2 \in 1 .. Len(wire[a])
      BY <1>2, <2>1
    <3> QED  BY <1>3, <3>1
  <2> QED  BY <1>6, <2>2, <2>3, <2>4, <2>5 DEF Pending, wanted, Same, Claimed
<1> QED  BY <1>1, <1>5, <1>6 DEF Follows

\* A step that leaves the queue and the drive alone.
LEMMA SameFollows ==
  ASSUME TypeOK, NEW a \in Axis, Follows(a), Same(a), wire'[a] = wire[a]
  PROVE  Follows(a)'
<1>1. wire[a] \in Seq(Frame)
  BY DEF TypeOK
<1>2. <<>> \in Seq(Frame) /\ wire[a] \o <<>> = wire[a] /\ Len(<<>>) = 0
  BY <1>1
<1>3. \A k \in 1 .. Len(<<>>) : Claimed(a, <<>>[k])
  BY <1>2
<1> QED  BY <1>2, <1>3, AppendFollows

\* A frame arrives: the command moves to the head of the queue frame by
\* frame, its last frame settles the drive, a setpoint changes nothing.
LEMMA ReceiveFollows ==
  ASSUME TypeOK, NEW a \in Axis, Follows(a), receive(a)
  PROVE  Follows(a)'
<1> DEFINE frame == Head(wire[a])
<1>1. /\ wire[a] \in Seq(Frame) /\ wire[a] # <<>> /\ Len(wire[a]) \in Nat \ {0}
      /\ wire'[a] = Tail(wire[a]) /\ frame = wire[a][1]
  BY DEF receive, TypeOK
<1>2. /\ Len(wire'[a]) = Len(wire[a]) - 1
      /\ \A k \in 1 .. Len(wire'[a]) : wire'[a][k] = wire[a][k + 1]
      /\ \A k \in 1 .. Len(wire'[a]) : k + 1 \in 1 .. Len(wire[a])
  BY <1>1
<1>3. /\ active_' = active_ /\ enabled' = enabled /\ commanded' = commanded
      /\ frame.type # "Set_Controller_Mode" => mode'[a] = mode[a]
      /\ frame.type = "Set_Controller_Mode" => mode'[a] = frame.arg
      /\ frame.type # "Clear_Errors" => errors'[a] = errors[a]
      /\ frame.type # "Set_Axis_State" => armed'[a] = armed[a]
      /\ frame.type = "Set_Axis_State" =>
           armed'[a] = (frame.arg = "closed_loop" /\ ~errors[a])
  BY DEF receive, plugin, TypeOK
<1> SUFFICES ASSUME commanded[a] PROVE Settled(a)' \/ \E n \in Nat : Pending(a, n)'
  BY <1>3 DEF Follows
<1>4. CASE Settled(a)
  <2>1. frame.type = "Set_Input"
    BY <1>1, <1>4 DEF Settled, Claimed
  <2>2. mode'[a] = mode[a] /\ errors'[a] = errors[a] /\ armed'[a] = armed[a]
    BY <1>3, <2>1
  <2>3. (\A k \in 1 .. Len(wire[a]) : Claimed(a, wire[a][k]))'
    BY <1>2, <1>3, <1>4 DEF Settled, Claimed
  <2> QED  BY <1>3, <1>4, <2>2, <2>3 DEF Settled, wanted
<1>5. ASSUME NEW n \in Nat, Pending(a, n), n > 1
      PROVE  Pending(a, n - 1)'
  <2>1. n - 1 \in 1 .. Len(wire'[a]) /\ wire'[a][n - 1] = wire[a][n] /\ n - 1 \in Nat
    <3>1. n \in 1 .. Len(wire[a])
      BY <1>5 DEF Pending
    <3>2. n - 1 \in 1 .. Len(wire'[a]) /\ (n - 1) + 1 = n /\ n - 1 \in Nat
      BY <1>1, <1>2, <1>5, <3>1
    <3> QED  BY <1>2, <3>2
  <2>2. ASSUME NEW k \in 1 .. Len(wire'[a]), k > n - 1
        PROVE  Claimed(a, wire[a][k])'
    <3>1. k + 1 \in 1 .. Len(wire[a]) /\ k + 1 > n
      BY <1>2, <2>2
    <3> QED  BY <1>2, <1>3, <1>5, <3>1 DEF Pending, Claimed
  <2>3. ASSUME wanted(a), n - 1 >= 2 PROVE wire'[a][(n - 1) - 1] = ClearErrors
    <3>1. Len(wire'[a]) \in Nat /\ n - 1 \in 1 .. Len(wire'[a])
      BY <1>1, <1>2, <2>1
    <3>2. (n - 1) - 1 \in 1 .. Len(wire'[a]) /\ ((n - 1) - 1) + 1 = n - 1 /\ n >= 2
      BY <2>3, <3>1
    <3> QED  BY <1>2, <1>5, <2>3, <3>2 DEF Pending
  <2>4. ASSUME wanted(a), n - 1 >= 3
        PROVE  wire'[a][(n - 1) - 2] = ModeFrame(primary(enabled[a]))
    <3>1. Len(wire'[a]) \in Nat /\ n - 1 \in 1 .. Len(wire'[a])
      BY <1>1, <1>2, <2>1
    <3>2. (n - 1) - 2 \in 1 .. Len(wire'[a]) /\ ((n - 1) - 2) + 1 = n - 2 /\ n >= 3
      BY <2>4, <3>1
    <3> QED  BY <1>2, <1>5, <2>4, <3>2 DEF Pending
  <2>5. ASSUME wanted(a), n - 1 <= 2 PROVE mode'[a] = primary(enabled[a])
    <3>1. n = 2 \/ n = 3
      BY <1>5, <2>5
    <3>2. CASE n = 2
      <4>1. frame = ClearErrors
        BY <1>1, <1>5, <2>5, <3>2 DEF Pending
      <4>2. mode'[a] = mode[a]
        BY <1>3, <4>1 DEF ClearErrors
      <4> QED  BY <1>5, <2>5, <3>2, <4>2 DEF Pending
    <3>3. CASE n = 3
      <4>1. frame = ModeFrame(primary(enabled[a]))
        BY <1>1, <1>5, <2>5, <3>3 DEF Pending
      <4> QED  BY <1>3, <4>1 DEF ModeFrame
    <3> QED  BY <3>1, <3>2, <3>3
  <2>6. wire'[a][n - 1] = AxisState(IF wanted(a) THEN "closed_loop" ELSE "idle")
    BY <1>5, <2>1 DEF Pending
  <2>7. wanted(a)' <=> wanted(a)
    BY <1>3 DEF wanted
  <2> QED  BY <1>3, <2>1, <2>2, <2>3, <2>4, <2>5, <2>6, <2>7 DEF Pending
<1>6. ASSUME Pending(a, 1) PROVE Settled(a)'
  <2>1. frame = AxisState(IF wanted(a) THEN "closed_loop" ELSE "idle")
    BY <1>1, <1>6 DEF Pending
  <2>2. /\ mode'[a] = mode[a] /\ errors'[a] = errors[a]
        /\ armed'[a] = (frame.arg = "closed_loop" /\ ~errors[a])
    BY <1>3, <2>1 DEF AxisState
  <2>3. frame.arg = "closed_loop" <=> wanted(a)
    BY <2>1 DEF AxisState
  <2>4. ASSUME NEW k \in 1 .. Len(wire'[a]) PROVE Claimed(a, wire[a][k])'
    <3>1. k + 1 \in 1 .. Len(wire[a]) /\ k + 1 > 1
      BY <1>2
    <3> QED  BY <1>2, <1>3, <1>6, <3>1 DEF Pending, Claimed
  <2>5. wanted(a) => mode[a] = primary(enabled[a])
    BY <1>6 DEF Pending
  <2>6. wanted(a)' <=> wanted(a)
    BY <1>3 DEF wanted
  <2> QED  BY <1>3, <2>2, <2>3, <2>4, <2>5, <2>6 DEF Settled
<1>7. ASSUME NEW n \in Nat, Pending(a, n) PROVE Settled(a)' \/ \E m \in Nat : Pending(a, m)'
  <2>1. n \in 1 .. Len(wire[a])
    BY <1>7 DEF Pending
  <2>2. CASE n = 1
    BY <1>6, <1>7, <2>2
  <2>3. CASE n > 1
    <3>1. n - 1 \in Nat
      BY <2>3
    <3> QED  BY <1>5, <1>7, <2>3, <3>1
  <2> QED  BY <1>1, <2>1, <2>2, <2>3
<1> QED  BY <1>4, <1>7 DEF Follows

\* A fault disarms the drive and leaves its error behind.
LEMMA FaultFollows ==
  ASSUME TypeOK, NEW a \in Axis, Follows(a), fault(a)
  PROVE  Follows(a)'
<1>1. /\ active_' = active_ /\ enabled' = enabled /\ commanded' = commanded
      /\ wire' = wire /\ mode' = mode /\ armed'[a] = FALSE /\ errors'[a] = TRUE
  BY DEF fault, plugin, TypeOK
<1>2. Settled(a) => Settled(a)'
  BY <1>1 DEF Settled, Claimed, wanted
<1>3. ASSUME NEW n \in Nat, Pending(a, n) PROVE Pending(a, n)'
  BY <1>1, <1>3 DEF Pending, Claimed, wanted
<1> QED  BY <1>1, <1>2, <1>3 DEF Follows

-----------------------------------------------------------------------------
(* Setpoints fit the mode of the drive that receives them.                 *)

\* The frame at place p commands the axis, idle or closed loop in the mode of
\* input i, and only setpoints are between it and place n.
Arms(a, n, p, i) ==
  /\ p \in 1 .. Len(wire[a]) /\ p < n
  /\ \A k \in 1 .. Len(wire[a]) : p < k /\ k < n => wire[a][k].type = "Set_Input"
  /\ \/ wire[a][p] = AxisState("idle")
     \/ /\ wire[a][p] = AxisState("closed_loop")
        /\ p >= 2 => wire[a][p - 1] = ClearErrors
        /\ p >= 3 => wire[a][p - 2] = ModeFrame(i)
        /\ p <= 2 => mode[a] = i

\* A setpoint of input i at place n will meet a drive in that mode, or not armed.
Fit(a, n, i) ==
  \/ /\ \A k \in 1 .. Len(wire[a]) : k < n => wire[a][k].type = "Set_Input"
     /\ armed[a] => mode[a] = i
  \/ \E p \in Nat : Arms(a, n, p, i)

Whole(frame) == frame.type = "Set_Input" /\ frame.whole

Fits(a) == \A n \in 1 .. Len(wire[a]) : Whole(wire[a][n]) => Fit(a, n, wire[a][n].arg)

FitInv == IInv /\ \A a \in Axis : Fits(a)

\* While the last command was queued whole, a setpoint of the primary input fits
\* at the end of the queue.
LEMMA FollowsFit ==
  ASSUME TypeOK, NEW a \in Axis, Follows(a), commanded[a], enabled[a] # {},
         NEW n \in Nat, n > Len(wire[a])
  PROVE  Fit(a, n, primary(enabled[a]))
<1>1. CASE Settled(a)
  BY <1>1 DEF Settled, Claimed, Fit
<1>2. ASSUME NEW p \in Nat, Pending(a, p) PROVE Arms(a, n, p, primary(enabled[a]))
  <2>1. Len(wire[a]) \in Nat /\ p \in 1 .. Len(wire[a]) /\ p < n
    BY <1>2 DEF Pending, TypeOK
  <2>2. \A k \in 1 .. Len(wire[a]) : p < k => wire[a][k].type = "Set_Input"
    BY <1>2, <2>1 DEF Pending, Claimed
  <2> QED  BY <1>2, <2>1, <2>2 DEF Pending, Arms
<1> QED  BY <1>1, <1>2 DEF Follows, Fit

\* What is appended does not touch what is before it.
LEMMA AppendFit ==
  ASSUME TypeOK, NEW a \in Axis, NEW tail \in Seq(Frame), wire'[a] = wire[a] \o tail,
         mode'[a] = mode[a], armed'[a] = armed[a],
         NEW n \in Nat, NEW i, Fit(a, n, i),
         \A k \in 1 .. Len(wire'[a]) :
           Len(wire[a]) < k /\ k < n => wire'[a][k].type = "Set_Input"
  PROVE  Fit(a, n, i)'
<1>1. /\ wire[a] \in Seq(Frame) /\ Len(wire[a]) \in Nat /\ Len(tail) \in Nat
      /\ Len(wire'[a]) = Len(wire[a]) + Len(tail)
      /\ \A k \in 1 .. Len(wire[a]) : wire'[a][k] = wire[a][k]
  BY DEF TypeOK
<1>2. \A k \in 1 .. Len(wire'[a]) : k \in 1 .. Len(wire[a]) \/ Len(wire[a]) < k
  BY <1>1
<1>3. CASE /\ \A k \in 1 .. Len(wire[a]) : k < n => wire[a][k].type = "Set_Input"
           /\ armed[a] => mode[a] = i
  BY <1>1, <1>2, <1>3 DEF Fit
<1>4. ASSUME NEW p \in Nat, Arms(a, n, p, i) PROVE Arms(a, n, p, i)'
  <2>1. p \in 1 .. Len(wire[a]) /\ p \in 1 .. Len(wire'[a]) /\ p < n
    BY <1>1, <1>4 DEF Arms
  <2>2. /\ wire'[a][p] = wire[a][p]
        /\ p >= 2 => wire'[a][p - 1] = wire[a][p - 1]
        /\ p >= 3 => wire'[a][p - 2] = wire[a][p - 2]
    <3>1. /\ p >= 2 => p - 1 \in 1 .. Len(wire[a])
          /\ p >= 3 => p - 2 \in 1 .. Len(wire[a])
      BY <1>1, <2>1
    <3> QED  BY <1>1, <2>1, <3>1
  <2>3. \A k \in 1 .. Len(wire'[a]) : p < k /\ k < n => wire'[a][k].type = "Set_Input"
    BY <1>1, <1>2, <1>4 DEF Arms
  <2> QED  BY <1>4, <2>1, <2>2, <2>3 DEF Arms
<1> QED  BY <1>3, <1>4 DEF Fit

\* A setpoint made from the flags as they are.
Current(a, f) ==
  /\ f.type = "Set_Input"
  /\ f.whole => commanded[a] /\ enabled[a] # {} /\ f.arg = primary(enabled[a])

\* Commands and setpoints keep the axis fitting.
LEMMA AppendFits ==
  ASSUME TypeOK, NEW a \in Axis, Follows(a), Fits(a),
         NEW tail \in Seq(Frame), wire'[a] = wire[a] \o tail,
         mode'[a] = mode[a], armed'[a] = armed[a],
         \/ \A k \in 1 .. Len(tail) : tail[k].type # "Set_Input"
         \/ \A k \in 1 .. Len(tail) : Current(a, tail[k])
  PROVE  Fits(a)'
<1>1. /\ wire[a] \in Seq(Frame) /\ Len(wire[a]) \in Nat /\ Len(tail) \in Nat
      /\ Len(wire'[a]) = Len(wire[a]) + Len(tail)
      /\ \A k \in 1 .. Len(wire[a]) : wire'[a][k] = wire[a][k]
  BY DEF TypeOK
<1>2. \A k \in 1 .. Len(wire'[a]) :
        Len(wire[a]) < k => /\ k - Len(wire[a]) \in 1 .. Len(tail)
                            /\ wire'[a][k] = tail[k - Len(wire[a])]
  BY <1>1
<1> SUFFICES ASSUME NEW n \in 1 .. Len(wire'[a]), Whole(wire'[a][n])
             PROVE  Fit(a, n, wire[a][n].arg)'
  BY DEF Fits
<1>3. n \in Nat /\ (n \in 1 .. Len(wire[a]) \/ Len(wire[a]) < n)
  BY <1>1
<1>4. CASE n \in 1 .. Len(wire[a])
  <2>1. wire'[a][n] = wire[a][n] /\ Fit(a, n, wire[a][n].arg)
    BY <1>1, <1>4 DEF Fits
  <2>2. \A k \in 1 .. Len(wire'[a]) : ~(Len(wire[a]) < k /\ k < n)
    BY <1>1, <1>4
  <2>3. PICK j : j = wire[a][n].arg
    OBVIOUS
  <2>4. Fit(a, n, j)
    BY <2>1, <2>3
  <2>5. Fit(a, n, j)'
    BY <1>3, <2>2, <2>4, AppendFit
  <2>6. j = wire'[a][n].arg
    BY <2>1, <2>3
  <2> QED  BY <2>5, <2>6
<1>5. CASE Len(wire[a]) < n
  <2>1. /\ n - Len(wire[a]) \in 1 .. Len(tail)
        /\ wire'[a][n] = tail[n - Len(wire[a])]
    BY <1>2, <1>5
  <2>2. /\ \A k \in 1 .. Len(tail) : tail[k].type = "Set_Input"
        /\ commanded[a] /\ enabled[a] # {} /\ wire'[a][n].arg = primary(enabled[a])
    BY <2>1 DEF Whole, Current
  <2>3. PICK j : j = primary(enabled[a])
    OBVIOUS
  <2>4. Fit(a, n, j)
    BY <1>3, <1>5, <2>2, <2>3, FollowsFit
  <2>5. \A k \in 1 .. Len(wire'[a]) :
          Len(wire[a]) < k /\ k < n => wire'[a][k].type = "Set_Input"
    BY <1>2, <2>2
  <2>6. Fit(a, n, j)'
    BY <1>3, <2>4, <2>5, AppendFit
  <2>7. j = wire'[a][n].arg
    BY <2>2, <2>3
  <2> QED  BY <2>6, <2>7
<1> QED  BY <1>3, <1>4, <1>5

\* A frame arrives: the command before a setpoint gets to the head of the queue
\* frame by frame, and its last frame leaves the drive in the mode, or idle.
LEMMA ReceiveFits ==
  ASSUME TypeOK, NEW a \in Axis, Fits(a), receive(a)
  PROVE  Fits(a)'
<1> DEFINE frame == Head(wire[a])
<1>1. /\ wire[a] \in Seq(Frame) /\ wire[a] # <<>> /\ Len(wire[a]) \in Nat \ {0}
      /\ wire'[a] = Tail(wire[a]) /\ frame = wire[a][1]
  BY DEF receive, TypeOK
<1>2. /\ Len(wire'[a]) = Len(wire[a]) - 1
      /\ \A k \in 1 .. Len(wire'[a]) : wire'[a][k] = wire[a][k + 1]
      /\ \A k \in 1 .. Len(wire'[a]) : k + 1 \in 1 .. Len(wire[a])
  BY <1>1
<1>3. /\ frame.type # "Set_Controller_Mode" => mode'[a] = mode[a]
      /\ frame.type = "Set_Controller_Mode" => mode'[a] = frame.arg
      /\ frame.type # "Set_Axis_State" => armed'[a] = armed[a]
      /\ frame.type = "Set_Axis_State" =>
           armed'[a] = (frame.arg = "closed_loop" /\ ~errors[a])
  BY DEF receive, TypeOK
<1> SUFFICES ASSUME NEW m \in 1 .. Len(wire'[a]), Whole(wire'[a][m])
             PROVE  Fit(a, m, wire[a][m].arg)'
  BY DEF Fits
<1>4. PICK n \in Nat : n = m + 1
  BY <1>1, <1>2
<1>5. PICK i : i = wire[a][n].arg
  OBVIOUS
<1>6. /\ n \in 1 .. Len(wire[a]) /\ wire'[a][m] = wire[a][n] /\ n - 1 = m
      /\ m \in Nat /\ 1 < n /\ Fit(a, n, i)
  BY <1>1, <1>2, <1>4, <1>5 DEF Fits
<1>7. ASSUME \A k \in 1 .. Len(wire[a]) : k < n => wire[a][k].type = "Set_Input",
             armed[a] => mode[a] = i
      PROVE  Fit(a, m, i)'
  <2>1. frame.type = "Set_Input"
    BY <1>1, <1>6, <1>7
  <2>2. mode'[a] = mode[a] /\ armed'[a] = armed[a]
    BY <1>3, <2>1
  <2>3. ASSUME NEW k \in 1 .. Len(wire'[a]), k < m PROVE wire'[a][k].type = "Set_Input"
    <3>1. k + 1 \in 1 .. Len(wire[a]) /\ k + 1 < n
      BY <1>1, <1>2, <1>4, <2>3
    <3> QED  BY <1>2, <1>7, <3>1
  <2> QED  BY <1>7, <2>2, <2>3 DEF Fit
<1>8. ASSUME NEW p \in Nat, Arms(a, n, p, i) PROVE Fit(a, m, i)'
  <2>1. p \in 1 .. Len(wire[a]) /\ p < n /\ Len(wire'[a]) \in Nat
    BY <1>1, <1>2, <1>8 DEF Arms
  <2>2. ASSUME NEW k \in 1 .. Len(wire'[a]), p < k + 1, k < m
        PROVE  wire'[a][k].type = "Set_Input"
    <3>1. k + 1 \in 1 .. Len(wire[a]) /\ k + 1 < n
      BY <1>1, <1>2, <1>4, <2>2
    <3> QED  BY <1>2, <1>8, <2>2, <3>1 DEF Arms
  <2>3. CASE p = 1
    <3>1. \A k \in 1 .. Len(wire'[a]) : k < m => wire'[a][k].type = "Set_Input"
      BY <2>1, <2>2, <2>3
    <3>2. CASE wire[a][1] = AxisState("idle")
      <4>1. frame.type = "Set_Axis_State" /\ frame.arg # "closed_loop"
        BY <1>1, <3>2 DEF AxisState
      <4>2. armed'[a] = FALSE
        BY <1>3, <4>1
      <4> QED  BY <3>1, <4>2 DEF Fit
    <3>3. CASE wire[a][1] = AxisState("closed_loop") /\ mode[a] = i
      <4>1. mode'[a] = i
        BY <1>1, <1>3, <3>3 DEF AxisState
      <4> QED  BY <3>1, <4>1 DEF Fit
    <3> QED  BY <1>8, <2>3, <3>2, <3>3 DEF Arms
  <2>4. CASE p > 1
    <3>1. PICK q \in Nat : q = p - 1
      BY <2>4
    <3>2. /\ q \in 1 .. Len(wire'[a]) /\ q < m /\ wire'[a][q] = wire[a][p]
          /\ \A k \in 1 .. Len(wire'[a]) : q < k /\ k < m => wire'[a][k].type = "Set_Input"
      <4>1. q \in 1 .. Len(wire'[a]) /\ q < m /\ q + 1 = p
        BY <1>1, <1>2, <1>4, <2>1, <2>4, <3>1
      <4>2. \A k \in 1 .. Len(wire'[a]) : q < k => p < k + 1
        BY <2>1, <4>1
      <4> QED  BY <1>2, <2>2, <4>1, <4>2
    <3>3. CASE wire[a][p] = AxisState("idle")
      <4>1. Arms(a, m, q, i)'
        BY <3>2, <3>3 DEF Arms
      <4> QED  BY <4>1 DEF Fit
    <3>4. CASE wire[a][p] # AxisState("idle")
      <4>1. /\ wire[a][p] = AxisState("closed_loop")
            /\ wire[a][p - 1] = ClearErrors
            /\ p >= 3 => wire[a][p - 2] = ModeFrame(i)
            /\ p <= 2 => mode[a] = i
        BY <1>8, <2>1, <2>4, <3>4 DEF Arms
      <4>2. q >= 2 => wire'[a][q - 1] = ClearErrors
        <5>1. q >= 2 => q - 1 \in 1 .. Len(wire'[a]) /\ (q - 1) + 1 = p - 1
          BY <2>1, <3>1, <3>2
        <5> QED  BY <1>2, <4>1, <5>1
      <4>3. q >= 3 => wire'[a][q - 2] = ModeFrame(i)
        <5>1. q >= 3 => q - 2 \in 1 .. Len(wire'[a]) /\ (q - 2) + 1 = p - 2 /\ p >= 3
          BY <2>1, <3>1, <3>2
        <5> QED  BY <1>2, <4>1, <5>1
      <4>4. ASSUME q <= 2 PROVE mode'[a] = i
        <5>1. CASE p = 2
          BY <1>1, <1>3, <4>1, <5>1 DEF ClearErrors
        <5>2. CASE p = 3
          BY <1>1, <1>3, <4>1, <5>2 DEF ModeFrame
        <5> QED  BY <2>4, <3>1, <4>4, <5>1, <5>2
      <4>5. Arms(a, m, q, i)'
        BY <3>2, <4>1, <4>2, <4>3, <4>4 DEF Arms
      <4> QED  BY <4>5 DEF Fit
    <3> QED  BY <3>3, <3>4
  <2> QED  BY <2>1, <2>3, <2>4
<1>9. i = wire'[a][m].arg
  BY <1>5, <1>6
<1>10. Fit(a, m, i)'
  BY <1>6, <1>7, <1>8 DEF Fit
<1> QED  BY <1>9, <1>10

\* A fault disarms the drive, which then fits every setpoint.
LEMMA FaultFits ==
  ASSUME TypeOK, NEW a \in Axis, Fits(a), fault(a)
  PROVE  Fits(a)'
<1>1. wire' = wire /\ mode' = mode /\ ~armed'[a]
  BY DEF fault, TypeOK
<1> SUFFICES ASSUME NEW n \in 1 .. Len(wire[a]), Whole(wire[a][n])
             PROVE  Fit(a, n, wire[a][n].arg)'
  BY <1>1 DEF Fits
<1>2. PICK i : i = wire[a][n].arg
  OBVIOUS
<1>3. Fit(a, n, i)
  BY <1>2 DEF Fits
<1>4. ASSUME NEW p \in Nat, Arms(a, n, p, i) PROVE Arms(a, n, p, i)'
  BY <1>1, <1>4 DEF Arms
<1>5. Fit(a, n, i)'
  BY <1>1, <1>3, <1>4 DEF Fit
<1> QED  BY <1>1, <1>2, <1>5

\* Command frames are no setpoints.
LEMMA CommandTail ==
  ASSUME TypeOK, NEW axes, NEW on \in BOOLEAN, NEW inputs \in [Axis -> SUBSET Input],
         Command(axes, on, inputs), NEW a \in Axis
  PROVE  \E tail \in Seq(Frame) : /\ wire'[a] = wire[a] \o tail
                                  /\ \A k \in 1 .. Len(tail) : tail[k].type # "Set_Input"
<1> DEFINE out == [b \in Axis |-> IF b \in axes THEN set_axis_command_mode(on, inputs[b])
                                                ELSE <<>>]
           Orders == {f \in Frame : f.type # "Set_Input"}
<1>1. PICK sent \in [Axis -> SUBSET (1 .. 3)] : send(out, sent)
  BY DEF Command
<1>2. wire'[a] = wire[a] \o Kept(out[a], sent[a]) /\ sent[a] \in SUBSET DOMAIN out[a]
  BY <1>1, FlagAssumption DEF send
<1>3. out[a] \in Seq(Orders)
  <2>1. CASE a \in axes /\ on /\ inputs[a] # {}
    <3>1. out[a] = <<ModeFrame(primary(inputs[a])), ClearErrors, AxisState("closed_loop")>>
      BY <2>1, CommandFrames
    <3>2. /\ ModeFrame(primary(inputs[a])) \in Orders /\ ClearErrors \in Orders
          /\ AxisState("closed_loop") \in Orders
      BY <2>1, PrimaryEnabled DEF Frame, ModeFrame, ClearErrors, AxisState
    <3> HIDE DEF Orders, out
    <3> QED  BY <3>1, <3>2
  <2>2. CASE a \in axes /\ ~(on /\ inputs[a] # {})
    <3>1. out[a] = <<AxisState("idle")>>
      BY <2>2, CommandFrames
    <3>2. AxisState("idle") \in Orders
      BY DEF Frame, AxisState
    <3> HIDE DEF Orders, out
    <3> QED  BY <3>1, <3>2
  <2>3. CASE a \notin axes
    <3>1. out[a] = <<>>
      BY <2>3
    <3> HIDE DEF out
    <3> QED  BY <3>1
  <2> QED  BY <2>1, <2>2, <2>3
<1> DEFINE tail == Kept(out[a], sent[a])
<1>4. tail \in Seq(Orders)
  <2> HIDE DEF out, Orders
  <2> QED  BY <1>2, <1>3, KeptFrames
<1>5. Orders \subseteq Frame /\ \A f \in Orders : f.type # "Set_Input"
  OBVIOUS
<1> HIDE DEF out, tail, Orders
<1>6. tail \in Seq(Frame) /\ \A k \in 1 .. Len(tail) : tail[k].type # "Set_Input"
  BY <1>4, <1>5
<1>7. wire'[a] = wire[a] \o tail
  BY <1>2 DEF tail
<1> QED  BY <1>6, <1>7

\* A command keeps every axis fitting, for which axes it ever is.
LEMMA CommandFits ==
  ASSUME TypeOK, NEW axes, NEW on \in BOOLEAN, NEW inputs \in [Axis -> SUBSET Input],
         Command(axes, on, inputs), NEW a \in Axis, Follows(a), Fits(a), UNCHANGED drive
  PROVE  Fits(a)'
<1>1. PICK tail \in Seq(Frame) : /\ wire'[a] = wire[a] \o tail
                                 /\ \A k \in 1 .. Len(tail) : tail[k].type # "Set_Input"
  BY CommandTail
<1>2. mode'[a] = mode[a] /\ armed'[a] = armed[a]
  BY DEF drive
<1> QED  BY <1>1, <1>2, AppendFits

\* write appends a setpoint of the primary input, or none.
LEMMA WriteFits ==
  ASSUME TypeOK, NEW a \in Axis, Follows(a), Fits(a), write
  PROVE  Fits(a)'
<1> DEFINE out == [b \in Axis |-> IF enabled[b] = {} THEN <<>>
                                  ELSE <<Setpoint(enabled[b], commanded[b])>>]
           Points == {f \in Frame : Current(a, f)}
<1>1. PICK sent \in [Axis -> SUBSET (1 .. 1)] : send(out, sent)
  BY DEF write
<1>2. wire'[a] = wire[a] \o Kept(out[a], sent[a]) /\ sent[a] \in SUBSET DOMAIN out[a]
  BY <1>1, FlagAssumption DEF send
<1>3. out[a] \in Seq(Points)
  <2>1. CASE enabled[a] = {}
    <3>1. out[a] = <<>>
      BY <2>1
    <3> HIDE DEF out
    <3> QED  BY <3>1
  <2>2. CASE enabled[a] # {}
    <3> DEFINE f == Setpoint(enabled[a], commanded[a])
    <3>1. enabled[a] \in (SUBSET Input) \ {{}} /\ commanded[a] \in BOOLEAN
      BY <2>2 DEF TypeOK
    <3>2. f \in Frame
      BY ONLY <3>1 DEF Frame, Setpoints
    <3>3. f.type = "Set_Input" /\ f.whole = commanded[a] /\ f.arg = primary(enabled[a])
      BY <3>1, SetpointFields
    <3>4. out[a] = <<f>>
      BY <2>2
    <3> HIDE DEF out, f
    <3>5. f \in Points
      BY <2>2, <3>2, <3>3 DEF Current
    <3> HIDE DEF Points
    <3> QED  BY <3>4, <3>5
  <2> QED  BY <2>1, <2>2
<1> DEFINE tail == Kept(out[a], sent[a])
<1>4. tail \in Seq(Points)
  <2> HIDE DEF out, Points
  <2> QED  BY <1>2, <1>3, KeptFrames
<1>5. Points \subseteq Frame /\ \A f \in Points : Current(a, f)
  OBVIOUS
<1> HIDE DEF out, tail, Points
<1>6. /\ tail \in Seq(Frame)
      /\ \A k \in 1 .. Len(tail) : tail[k] \in Points
  BY <1>4, <1>5
<1>7. wire'[a] = wire[a] \o tail
  BY <1>2 DEF tail
<1>8. mode'[a] = mode[a] /\ armed'[a] = armed[a]
  BY DEF write, drive
<1>9. \A k \in 1 .. Len(tail) : Current(a, tail[k])
  BY <1>5, <1>6
<1>10. tail \in Seq(Frame) /\ TypeOK /\ Follows(a) /\ Fits(a)
  BY <1>6
<1> HIDE DEF Points, out, tail
<1> QED  BY <1>7, <1>8, <1>9, <1>10, AppendFits

-----------------------------------------------------------------------------
\* No axis has been commanded at first.
LEMMA InitInv == Init => IInv
BY InitTypes DEF Init, IInv, Follows

\* Every step keeps every axis following.
LEMMA StepFollows ==
  ASSUME IInv, [Next]_vars, NEW a \in Axis
  PROVE  Follows(a)'
<1> USE DEF IInv
<1>1. ASSUME UNCHANGED <<plugin, wire, commanded, drive>> PROVE Follows(a)'
  BY <1>1, SameFollows DEF Same, plugin, drive
<1>2. CASE on_activate \/ on_deactivate
  <2>1. PICK on \in BOOLEAN : /\ Command(Axis, on, enabled) /\ active_' = on
                              /\ enabled' = enabled
    BY <1>2 DEF on_activate, on_deactivate
  <2>2. enabled \in [Axis -> SUBSET Input]
    BY DEF TypeOK
  <2> QED  BY <2>1, <2>2, CommandPending DEF Follows
<1>3. CASE perform_command_mode_switch
  <2>1. PICK stop \in [Axis -> SUBSET Input], start \in [Axis -> SUBSET Claimable] :
          LET inputs == [b \in Axis |-> (enabled[b] \ stop[b]) \cup start[b]]
          IN  /\ enabled' = inputs
              /\ Command({b \in Axis : start[b] \cup stop[b] # {}}, active_, inputs)
    BY <1>3 DEF perform_command_mode_switch
  <2> DEFINE inputs == [b \in Axis |-> (enabled[b] \ stop[b]) \cup start[b]]
             axes == {b \in Axis : start[b] \cup stop[b] # {}}
  <2>2. inputs \in [Axis -> SUBSET Input]
    BY ClaimableAssumption DEF TypeOK
  <2>3. Command(axes, active_, inputs) /\ enabled' = inputs
    BY <2>1
  <2>4. a \notin axes => inputs[a] = enabled[a]
    BY DEF TypeOK
  <2>5. /\ active_' = active_ /\ active_ \in BOOLEAN
        /\ mode' = mode /\ armed' = armed /\ errors' = errors
    BY <1>3 DEF perform_command_mode_switch, drive, TypeOK
  <2> HIDE DEF inputs, axes
  <2>6. CASE a \in axes
    BY <2>2, <2>3, <2>5, <2>6, CommandPending DEF Follows
  <2>7. CASE a \notin axes
    <3>1. wire'[a] = wire[a] /\ commanded'[a] = commanded[a]
      BY <2>3, <2>7, CommandOthers
    <3> QED  BY <2>3, <2>4, <2>5, <2>7, <3>1, SameFollows DEF Same
  <2> QED  BY <2>6, <2>7
<1>4. CASE write
  <2> DEFINE out == [b \in Axis |-> IF enabled[b] = {} THEN <<>>
                                    ELSE <<Setpoint(enabled[b], commanded[b])>>]
  <2>1. PICK sent \in [Axis -> SUBSET (1 .. 1)] : send(out, sent)
    BY <1>4 DEF write
  <2>2. wire'[a] = wire[a] \o Kept(out[a], sent[a]) /\ sent[a] \in SUBSET DOMAIN out[a]
    BY <2>1, FlagAssumption DEF send
  <2> DEFINE Points == {f \in Setpoints : f.terms \subseteq enabled[a]}
  <2>3. out[a] \in Seq(Points)
    <3>1. CASE enabled[a] = {}
      <4>1. out[a] = <<>>
        BY <3>1
      <4> QED  BY <4>1
    <3>2. CASE enabled[a] # {}
      <4>1. enabled[a] \in (SUBSET Input) \ {{}} /\ commanded[a] \in BOOLEAN
        BY <3>2 DEF TypeOK
      <4>2. Setpoint(enabled[a], commanded[a]) \in Points
        BY <4>1, SetpointFields DEF Setpoints
      <4>3. out[a] = <<Setpoint(enabled[a], commanded[a])>>
        BY <3>2
      <4> HIDE DEF Points, out
      <4> QED  BY <4>2, <4>3
    <3> QED  BY <3>1, <3>2
  <2> DEFINE tail == Kept(out[a], sent[a])
  <2>4. tail \in Seq(Points)
    <3> HIDE DEF out, Points
    <3> QED  BY <2>2, <2>3, KeptFrames
  <2> HIDE DEF out, tail
  <2>5. Points \subseteq Frame /\ \A f \in Points : Claimed(a, f)
    BY DEF Frame, Setpoints, Setpoint, Claimed
  <2>6. tail \in Seq(Frame) /\ \A k \in 1 .. Len(tail) : Claimed(a, tail[k])
    <3> HIDE DEF Points
    <3> QED  BY <2>4, <2>5
  <2>7. Same(a)
    BY <1>4 DEF write, Same, plugin, drive
  <2> QED  BY <2>2, <2>6, <2>7, AppendFollows DEF tail
<1>5. ASSUME NEW b \in Axis, receive(b) PROVE Follows(a)'
  <2>1. CASE a = b
    BY <1>5, <2>1, ReceiveFollows
  <2>2. CASE a # b
    <3>1. wire'[a] = wire[a] /\ Same(a)
      BY <1>5, <2>2 DEF receive, Same, plugin, TypeOK
    <3> QED  BY <3>1, SameFollows
  <2> QED  BY <2>1, <2>2
<1>6. ASSUME NEW b \in Axis, fault(b) PROVE Follows(a)'
  <2>1. CASE a = b
    BY <1>6, <2>1, FaultFollows
  <2>2. CASE a # b
    <3>1. wire'[a] = wire[a] /\ Same(a)
      BY <1>6, <2>2 DEF fault, Same, plugin, TypeOK
    <3> QED  BY <3>1, SameFollows
  <2> QED  BY <2>1, <2>2
<1>7. CASE on_configure
  BY <1>1, <1>7 DEF on_configure
<1>8. CASE on_cleanup
  BY <1>1, <1>8 DEF on_cleanup
<1>9. CASE on_shutdown
  BY <1>1, <1>9 DEF on_shutdown
<1>10. CASE on_can_msg
  BY <1>1, <1>10 DEF on_can_msg
<1>11. CASE UNCHANGED vars
  BY <1>1, <1>11 DEF vars, plugin, drive
<1> QED  BY <1>2, <1>3, <1>4, <1>5, <1>6, <1>7, <1>8, <1>9, <1>10, <1>11
         DEF Next, Lifecycle, Cycle, Drive

\* Every step keeps the strengthened invariant.
LEMMA InvStep == IInv /\ [Next]_vars => IInv'
<1> SUFFICES ASSUME IInv, [Next]_vars PROVE IInv'
  OBVIOUS
<1>1. TypeOK'
  BY StepTypes DEF IInv
<1>2. \A a \in Axis : Follows(a)'
  BY StepFollows
<1> QED  BY <1>1, <1>2 DEF IInv

\* It holds in every reachable state.
LEMMA InterfaceInvariant == Spec => []IInv
BY InvStep, InitInv, PTL DEF Spec

\* Only frames of the protocol are sent, in control modes that exist, and a
\* drive is only ever put in such a mode.
THEOREM InterfaceTypeOK == Spec => []TypeOK
BY InterfaceInvariant, PTL DEF IInv

\* However commands, losses, faults and lifecycle calls follow each other, a
\* drive whose last command was queued whole ends up as the flags say.
THEOREM InterfaceFollows == Spec => []FollowsInterfaces
<1>1. IInv => FollowsInterfaces
  <2> SUFFICES ASSUME IInv, NEW a \in Axis, commanded[a], Obeyed(a)
               PROVE  /\ armed[a] => wanted(a) /\ mode[a] = primary(enabled[a])
                      /\ wanted(a) /\ ~armed[a] => errors[a]
    BY DEF FollowsInterfaces, wanted
  <2>1. ASSUME NEW n \in Nat, Pending(a, n) PROVE FALSE
    <3>1. n \in 1 .. Len(wire[a]) /\ wire[a][n].type = "Set_Axis_State"
      BY <2>1 DEF Pending, AxisState
    <3> QED  BY <3>1 DEF Obeyed
  <2>2. Settled(a)
    BY <2>1 DEF IInv, Follows
  <2> QED  BY <2>2 DEF Settled
<1> QED  BY <1>1, InterfaceInvariant, PTL

\* Every step keeps every axis fitting.
LEMMA StepFits ==
  ASSUME FitInv, [Next]_vars, NEW a \in Axis
  PROVE  Fits(a)'
<1>1. TypeOK /\ Follows(a) /\ Fits(a)
  BY DEF FitInv, IInv
<1>2. ASSUME wire'[a] = wire[a], mode'[a] = mode[a], armed'[a] = armed[a]
      PROVE  Fits(a)'
  <2>1. wire[a] \in Seq(Frame)
    BY <1>1 DEF TypeOK
  <2>2. <<>> \in Seq(Frame) /\ wire[a] \o <<>> = wire[a] /\ Len(<<>>) = 0
    BY <2>1
  <2>3. \A k \in 1 .. Len(<<>>) : <<>>[k].type # "Set_Input"
    BY <2>2
  <2> QED  BY <1>1, <1>2, <2>2, <2>3, AppendFits
<1>3. ASSUME UNCHANGED <<wire, drive>> PROVE Fits(a)'
  BY <1>2, <1>3 DEF drive
<1>4. CASE on_activate \/ on_deactivate
  <2>1. PICK on \in BOOLEAN : Command(Axis, on, enabled) /\ UNCHANGED drive
    BY <1>4 DEF on_activate, on_deactivate
  <2>2. enabled \in [Axis -> SUBSET Input]
    BY <1>1 DEF TypeOK
  <2> QED  BY <1>1, <2>1, <2>2, CommandFits
<1>5. CASE perform_command_mode_switch
  <2>1. PICK stop \in [Axis -> SUBSET Input], start \in [Axis -> SUBSET Claimable] :
          LET inputs == [b \in Axis |-> (enabled[b] \ stop[b]) \cup start[b]]
          IN  Command({b \in Axis : start[b] \cup stop[b] # {}}, active_, inputs)
    BY <1>5 DEF perform_command_mode_switch
  <2> DEFINE inputs == [b \in Axis |-> (enabled[b] \ stop[b]) \cup start[b]]
             axes == {b \in Axis : start[b] \cup stop[b] # {}}
  <2>2. inputs \in [Axis -> SUBSET Input] /\ active_ \in BOOLEAN
    BY <1>1, ClaimableAssumption DEF TypeOK
  <2>3. Command(axes, active_, inputs)
    BY <2>1
  <2>4. UNCHANGED drive
    BY <1>5 DEF perform_command_mode_switch
  <2> HIDE DEF inputs, axes
  <2> QED  BY <1>1, <2>2, <2>3, <2>4, CommandFits
<1>6. CASE write
  BY <1>1, <1>6, WriteFits
<1>7. ASSUME NEW b \in Axis, receive(b) PROVE Fits(a)'
  <2>1. CASE a = b
    BY <1>1, <1>7, <2>1, ReceiveFits
  <2>2. CASE a # b
    <3>1. wire'[a] = wire[a] /\ mode'[a] = mode[a] /\ armed'[a] = armed[a]
      BY <1>1, <1>7, <2>2 DEF receive, TypeOK
    <3> QED  BY <1>2, <3>1
  <2> QED  BY <2>1, <2>2
<1>8. ASSUME NEW b \in Axis, fault(b) PROVE Fits(a)'
  <2>1. CASE a = b
    BY <1>1, <1>8, <2>1, FaultFits
  <2>2. CASE a # b
    <3>1. wire'[a] = wire[a] /\ mode'[a] = mode[a] /\ armed'[a] = armed[a]
      BY <1>1, <1>8, <2>2 DEF fault, TypeOK
    <3> QED  BY <1>2, <3>1
  <2> QED  BY <2>1, <2>2
<1>9. CASE on_configure \/ on_cleanup \/ on_shutdown \/ on_can_msg
  BY <1>3, <1>9 DEF on_configure, on_cleanup, on_shutdown, on_can_msg
<1>10. CASE UNCHANGED vars
  BY <1>3, <1>10 DEF vars, drive
<1> QED  BY <1>4, <1>5, <1>6, <1>7, <1>8, <1>9, <1>10
         DEF Next, Lifecycle, Cycle, Drive

\* However commands are lost, a drive in closed loop control never takes a
\* setpoint of another kind than its mode, if the switch before it was whole.
THEOREM InterfaceSetpointFits == Spec => []SetpointFitsMode
<1>1. Init => FitInv
  <2> SUFFICES ASSUME Init PROVE FitInv
    OBVIOUS
  <2>1. \A a \in Axis : Len(wire[a]) = 0
    BY DEF Init
  <2>2. \A a \in Axis : Fits(a)
    BY <2>1 DEF Fits
  <2> QED  BY <2>2, InitInv DEF FitInv
<1>2. FitInv /\ [Next]_vars => FitInv'
  <2> SUFFICES ASSUME FitInv, [Next]_vars PROVE FitInv'
    OBVIOUS
  <2>1. IInv'
    BY InvStep DEF FitInv
  <2>2. \A a \in Axis : Fits(a)'
    BY StepFits
  <2> QED  BY <2>1, <2>2 DEF FitInv
<1>3. FitInv => SetpointFitsMode
  <2> SUFFICES ASSUME FitInv, NEW a \in Axis, wire[a] # <<>>, Whole(Head(wire[a])), armed[a]
               PROVE  Head(wire[a]).arg = mode[a]
    BY DEF SetpointFitsMode, Whole
  <2>1. /\ wire[a] \in Seq(Frame) /\ Len(wire[a]) \in Nat
        /\ 1 \in 1 .. Len(wire[a]) /\ Head(wire[a]) = wire[a][1]
    BY DEF FitInv, IInv, TypeOK
  <2>2. Fit(a, 1, wire[a][1].arg)
    BY <2>1 DEF FitInv, Fits
  <2>3. ASSUME NEW p \in Nat, Arms(a, 1, p, wire[a][1].arg) PROVE FALSE
    BY <2>1, <2>3 DEF Arms
  <2> QED  BY <2>1, <2>2, <2>3 DEF Fit
<1> QED  BY <1>1, <1>2, <1>3, PTL DEF Spec

\* No feedforward term outlives the claim of its interface, once the command that
\* released it has arrived.
THEOREM InterfaceOnlyClaimed == Spec => []OnlyClaimedInputs
<1>1. IInv => OnlyClaimedInputs
  <2> SUFFICES ASSUME IInv, NEW a \in Axis, commanded[a], Obeyed(a),
                      NEW n \in 1 .. Len(wire[a])
               PROVE  wire[a][n].terms \subseteq enabled[a]
    BY DEF OnlyClaimedInputs
  <2>1. ASSUME NEW p \in Nat, Pending(a, p) PROVE FALSE
    <3>1. p \in 1 .. Len(wire[a]) /\ wire[a][p].type = "Set_Axis_State"
      BY <2>1 DEF Pending, AxisState
    <3> QED  BY <3>1 DEF Obeyed
  <2> QED  BY <2>1 DEF IInv, Follows, Settled, Claimed
<1> QED  BY <1>1, InterfaceInvariant, PTL

\* Whatever memory held in active_: once the component has been activated the flag
\* is never ahead of the lifecycle state, and what holds of the flags holds of the
\* component: a deactivated axis whose last command was queued whole ends up idle.
THEOREM InterfaceDeactivatedIdle == Spec => []DeactivatedIsIdle
<1> DEFINE Agree == activated /\ state \in {"unconfigured", "inactive"} => ~active_
<1>1. Init => Agree
  BY DEF Init
<1>2. Agree /\ [Next]_vars => Agree'
  <2> SUFFICES ASSUME Agree, [Next]_vars PROVE Agree'
    OBVIOUS
  <2>1. CASE on_configure \/ on_cleanup \/ on_shutdown
    BY <2>1 DEF on_configure, on_cleanup, on_shutdown, plugin
  <2>2. CASE on_activate \/ on_deactivate
    BY <2>2 DEF on_activate, on_deactivate
  <2>3. CASE perform_command_mode_switch
    BY <2>3 DEF perform_command_mode_switch
  <2>4. CASE on_can_msg \/ write
    BY <2>4 DEF on_can_msg, write, plugin
  <2>5. ASSUME NEW a \in Axis, receive(a) \/ fault(a) PROVE Agree'
    BY <2>5 DEF receive, fault, plugin
  <2>6. CASE UNCHANGED vars
    BY <2>6 DEF vars
  <2> QED  BY <2>1, <2>2, <2>3, <2>4, <2>5, <2>6 DEF Next, Lifecycle, Cycle, Drive
<1>3. Agree /\ FollowsInterfaces => DeactivatedIsIdle
  BY DEF FollowsInterfaces, DeactivatedIsIdle, InactiveIsIdle
<1> QED  BY <1>1, <1>2, <1>3, InterfaceFollows, PTL DEF Spec

-----------------------------------------------------------------------------
(* The refinement: what the plugin's queues mean as orders.                *)

\* What the manager wants of the drives, and the orders that are out, as the
\* abstract specification names them.
Wants == [a \in Axis |-> Wanted(a)]
Out == [a \in Axis |-> OrdersIn(wire[a])]

\* A frame that is no setpoint is an order, told from others by its type.
LEMMA FrameOrder ==
  ASSUME NEW frame \in Frame, frame.type # "Set_Input"
  PROVE  \/ /\ frame.type = "Set_Controller_Mode"
            /\ Order(frame) = frame.arg /\ frame.arg \in Input
         \/ frame.type = "Clear_Errors" /\ Order(frame) = "clear"
         \/ /\ frame.type = "Set_Axis_State"
            /\ Order(frame) = frame.arg /\ frame.arg \in {"idle", "closed_loop"}
<1>1. CASE frame \in {ModeFrame(i) : i \in Input}
  BY <1>1 DEF ModeFrame, Order, ClearErrors
<1>2. CASE frame \in Setpoints
  BY <1>2 DEF Setpoints, Setpoint
<1>3. CASE frame \in {ClearErrors, AxisState("idle"), AxisState("closed_loop")}
  BY <1>3 DEF ClearErrors, AxisState, Order
<1> QED  BY <1>1, <1>2, <1>3 DEF Frame

\* The orders in a queue are orders.
LEMMA OrdersType ==
  ASSUME NEW s \in Seq(Frame)
  PROVE  OrdersIn(s) \subseteq Input \cup {"idle", "clear", "closed_loop"}
<1> SUFFICES ASSUME NEW n \in 1 .. Len(s), s[n].type # "Set_Input"
             PROVE  Order(s[n]) \in Input \cup {"idle", "clear", "closed_loop"}
  BY DEF OrdersIn
<1>1. s[n] \in Frame
  OBVIOUS
<1> QED  BY <1>1, FrameOrder

\* Appending to a queue adds the orders that are appended.
LEMMA OrdersConcat ==
  ASSUME NEW s \in Seq(Frame), NEW t \in Seq(Frame)
  PROVE  OrdersIn(s \o t) = OrdersIn(s) \cup OrdersIn(t)
<1> DEFINE u == s \o t
<1>1. /\ u \in Seq(Frame) /\ Len(s) \in Nat /\ Len(t) \in Nat
      /\ Len(u) = Len(s) + Len(t)
      /\ \A k \in 1 .. Len(s) + Len(t) : u[k] = IF k <= Len(s) THEN s[k] ELSE t[k - Len(s)]
  BY ConcatProperties
<1> HIDE DEF u
<1>2. ASSUME NEW k \in 1 .. Len(u), u[k].type # "Set_Input"
      PROVE  Order(u[k]) \in OrdersIn(s) \cup OrdersIn(t)
  <2>1. CASE k <= Len(s)
    BY <1>1, <1>2, <2>1 DEF OrdersIn
  <2>2. CASE ~(k <= Len(s))
    <3>1. u[k] = t[k - Len(s)] /\ k - Len(s) \in 1 .. Len(t)
      BY <1>1, <2>2
    <3> QED  BY <1>2, <3>1 DEF OrdersIn
  <2> QED  BY <2>1, <2>2
<1>3. ASSUME NEW k \in 1 .. Len(s), s[k].type # "Set_Input"
      PROVE  Order(s[k]) \in OrdersIn(u)
  <2>1. k \in 1 .. Len(u) /\ u[k] = s[k]
    BY <1>1
  <2> QED  BY <1>3, <2>1 DEF OrdersIn
<1>4. ASSUME NEW k \in 1 .. Len(t), t[k].type # "Set_Input"
      PROVE  Order(t[k]) \in OrdersIn(u)
  <2>1. /\ Len(s) + k \in 1 .. Len(u) /\ ~(Len(s) + k <= Len(s))
        /\ (Len(s) + k) - Len(s) = k
    BY <1>1
  <2>2. u[Len(s) + k] = t[k]
    BY <1>1, <2>1
  <2> QED  BY <1>4, <2>1, <2>2 DEF OrdersIn
<1>5. OrdersIn(u) \subseteq OrdersIn(s) \cup OrdersIn(t)
  BY <1>2 DEF OrdersIn
<1>6. OrdersIn(s) \subseteq OrdersIn(u) /\ OrdersIn(t) \subseteq OrdersIn(u)
  BY <1>3, <1>4 DEF OrdersIn
<1> QED  BY <1>5, <1>6 DEF u

\* Receiving a setpoint takes no order from the queue.
LEMMA OrdersTailSetpoint ==
  ASSUME NEW s \in Seq(Frame), s # <<>>, Head(s).type = "Set_Input"
  PROVE  OrdersIn(Tail(s)) = OrdersIn(s)
<1>1. /\ Len(s) \in Nat \ {0} /\ s[1] = Head(s) /\ Len(Tail(s)) = Len(s) - 1
      /\ \A k \in 1 .. Len(Tail(s)) : Tail(s)[k] = s[k + 1] /\ k + 1 \in 1 .. Len(s)
  OBVIOUS
<1>2. ASSUME NEW k \in 1 .. Len(s), s[k].type # "Set_Input"
      PROVE  Order(s[k]) \in OrdersIn(Tail(s))
  <2>1. k # 1
    BY <1>1, <1>2
  <2>2. k - 1 \in 1 .. Len(Tail(s)) /\ (k - 1) + 1 = k
    BY <1>1, <2>1
  <2>3. Tail(s)[k - 1] = s[k]
    BY <1>1, <2>2
  <2> QED  BY <1>2, <2>2, <2>3 DEF OrdersIn
<1>3. OrdersIn(s) \subseteq OrdersIn(Tail(s))
  BY <1>2 DEF OrdersIn
<1>4. OrdersIn(Tail(s)) \subseteq OrdersIn(s)
  BY <1>1 DEF OrdersIn
<1> QED  BY <1>3, <1>4

\* Receiving an order takes it, unless it is in the queue a second time.
LEMMA OrdersTailOrder ==
  ASSUME NEW s \in Seq(Frame), s # <<>>, Head(s).type # "Set_Input"
  PROVE  /\ Order(Head(s)) \in OrdersIn(s)
         /\ OrdersIn(Tail(s)) \in {OrdersIn(s), OrdersIn(s) \ {Order(Head(s))}}
<1>1. /\ Len(s) \in Nat \ {0} /\ s[1] = Head(s) /\ Len(Tail(s)) = Len(s) - 1
      /\ 1 \in 1 .. Len(s)
      /\ \A k \in 1 .. Len(Tail(s)) : Tail(s)[k] = s[k + 1] /\ k + 1 \in 1 .. Len(s)
  OBVIOUS
<1>2. ASSUME NEW k \in 1 .. Len(s), s[k].type # "Set_Input"
      PROVE  Order(s[k]) \in OrdersIn(Tail(s)) \cup {Order(Head(s))}
  <2>1. CASE k = 1
    BY <1>1, <2>1
  <2>2. CASE k # 1
    <3>1. k - 1 \in 1 .. Len(Tail(s)) /\ (k - 1) + 1 = k
      BY <1>1, <2>2
    <3>2. Tail(s)[k - 1] = s[k]
      BY <1>1, <3>1
    <3> QED  BY <1>2, <3>1, <3>2 DEF OrdersIn
  <2> QED  BY <2>1, <2>2
<1>3. OrdersIn(s) \subseteq OrdersIn(Tail(s)) \cup {Order(Head(s))}
  BY <1>2 DEF OrdersIn
<1>4. OrdersIn(Tail(s)) \subseteq OrdersIn(s)
  BY <1>1 DEF OrdersIn
<1>5. Order(Head(s)) \in OrdersIn(s)
  BY <1>1 DEF OrdersIn
<1> QED  BY <1>3, <1>4, <1>5

\* What is left of the frames of a callback are orders among them.
LEMMA OrdersKept ==
  ASSUME NEW frames \in Seq(Frame), NEW sent \in SUBSET DOMAIN frames
  PROVE  /\ Kept(frames, sent) \in Seq(Frame)
         /\ OrdersIn(Kept(frames, sent)) \subseteq OrdersIn(frames)
<1> DEFINE Sent == {frames[i] : i \in 1 .. Len(frames)}
           kept == Kept(frames, sent)
<1>1. frames \in Seq(Sent)
  OBVIOUS
<1>2. kept \in Seq(Sent)
  <2> HIDE DEF Sent
  <2> QED  BY <1>1, KeptFrames
<1>3. kept \in Seq(Frame)
  BY KeptFrames
<1> HIDE DEF kept
<1>4. \A k \in 1 .. Len(kept) : kept[k] \in Sent
  <2> HIDE DEF Sent
  <2> QED  BY <1>2
<1>5. OrdersIn(kept) \subseteq OrdersIn(frames)
  BY <1>4 DEF OrdersIn
<1> QED  BY <1>3, <1>5 DEF kept

\* A command is the orders for what is wanted.
LEMMA CommandOrders ==
  ASSUME NEW on \in BOOLEAN, NEW inputs \in SUBSET Input
  PROVE  LET frames == set_axis_command_mode(on, inputs)
         IN  /\ OrdersIn(frames) =
                  Promise!OrdersFor(IF on /\ inputs # {} THEN primary(inputs) ELSE "idle")
             /\ Kept(frames, DOMAIN frames) = frames
<1> DEFINE frames == set_axis_command_mode(on, inputs)
<1>1. CASE on /\ inputs # {}
  <2> DEFINE m == ModeFrame(primary(inputs))
             s == AxisState("closed_loop")
  <2>1. primary(inputs) \in Input
    BY <1>1, PrimaryEnabled
  <2>2. m \in Frame /\ ClearErrors \in Frame /\ s \in Frame
    BY <2>1 DEF Frame
  <2>3. /\ m.type # "Set_Input" /\ Order(m) = primary(inputs)
        /\ ClearErrors.type # "Set_Input" /\ Order(ClearErrors) = "clear"
        /\ s.type # "Set_Input" /\ Order(s) = "closed_loop"
    BY DEF ModeFrame, ClearErrors, AxisState, Order
  <2>4. primary(inputs) # "idle"
    BY <2>1 DEF Input
  <2>5. frames = <<m, ClearErrors, s>>
    BY <1>1, CommandFrames
  <2> HIDE DEF m, s, frames
  <2>6. /\ Len(frames) = 3
        /\ frames[1] = m /\ frames[2] = ClearErrors /\ frames[3] = s
    BY <2>2, <2>5
  <2>7. OrdersIn(frames) = {primary(inputs), "clear", "closed_loop"}
    <3>1. {k \in 1 .. Len(frames) : frames[k].type # "Set_Input"} = {1, 2, 3}
      BY <2>3, <2>6
    <3>2. OrdersIn(frames) = {Order(frames[1]), Order(frames[2]), Order(frames[3])}
      BY <3>1 DEF OrdersIn
    <3> QED  BY <2>3, <2>6, <3>2
  <2>8. Kept(frames, DOMAIN frames) = frames
    BY <2>2, <2>5, KeptThree
  <2> QED  BY <1>1, <2>4, <2>7, <2>8 DEF Promise!OrdersFor, frames
<1>2. CASE ~(on /\ inputs # {})
  <2> DEFINE s == AxisState("idle")
  <2>1. s \in Frame /\ s.type # "Set_Input" /\ Order(s) = "idle"
    BY DEF Frame, AxisState, ClearErrors, Order
  <2>2. frames = <<s>>
    BY <1>2, CommandFrames
  <2> HIDE DEF s, frames
  <2>3. Len(frames) = 1 /\ frames[1] = s
    BY <2>1, <2>2
  <2>4. OrdersIn(frames) = {"idle"}
    <3>1. {k \in 1 .. Len(frames) : frames[k].type # "Set_Input"} = {1}
      BY <2>1, <2>3
    <3> QED  BY <2>1, <2>3, <3>1 DEF OrdersIn
  <2>5. Kept(frames, DOMAIN frames) = frames
    BY <2>1, <2>2, KeptOne
  <2> QED  BY <1>2, <2>4, <2>5 DEF Promise!OrdersFor, frames
<1> QED  BY <1>1, <1>2

\* A command to axis a adds orders for what is now wanted, all of them if it was
\* queued whole.
LEMMA CommandOut ==
  ASSUME TypeOK, NEW axes, NEW on \in BOOLEAN, NEW inputs \in [Axis -> SUBSET Input],
         Command(axes, on, inputs), active_' = on, enabled' = inputs,
         NEW a \in Axis, a \in axes
  PROVE  LET new == Promise!OrdersFor(Wanted(a)')
         IN  /\ OrdersIn(wire[a]) \subseteq OrdersIn(wire'[a])
             /\ OrdersIn(wire'[a]) \subseteq OrdersIn(wire[a]) \cup new
             /\ commanded'[a] => new \subseteq OrdersIn(wire'[a])
             /\ ~Lossy => commanded'[a]
<1> DEFINE out == [b \in Axis |-> IF b \in axes THEN set_axis_command_mode(on, inputs[b])
                                                ELSE <<>>]
           frames == set_axis_command_mode(on, inputs[a])
           new == Promise!OrdersFor(Wanted(a)')
<1>1. PICK sent \in [Axis -> SUBSET (1 .. 3)] :
        /\ send(out, sent)
        /\ commanded' = [b \in Axis |-> IF b \in axes THEN sent[b] = DOMAIN out[b]
                                                      ELSE commanded[b]]
  BY DEF Command
<1>2. out[a] = frames
  OBVIOUS
<1>3. /\ commanded'[a] = (sent[a] = DOMAIN frames)
      /\ sent[a] \in SUBSET DOMAIN frames /\ (~Lossy => sent[a] = DOMAIN frames)
      /\ wire'[a] = wire[a] \o Kept(frames, sent[a])
  BY <1>1, <1>2, FlagAssumption DEF send
<1>4. /\ frames \in Seq(Frame) /\ OrdersIn(frames) = new
      /\ Kept(frames, DOMAIN frames) = frames
  <2>1. inputs[a] \in SUBSET Input
    OBVIOUS
  <2>2. Wanted(a)' = IF on /\ inputs[a] # {} THEN primary(inputs[a]) ELSE "idle"
    BY DEF Wanted
  <2> QED  BY <2>1, <2>2, CommandFrames, CommandOrders
<1> HIDE DEF frames, out, new
<1>5. wire[a] \in Seq(Frame)
  BY DEF TypeOK
<1>6. /\ Kept(frames, sent[a]) \in Seq(Frame)
      /\ OrdersIn(Kept(frames, sent[a])) \subseteq new
  BY <1>3, <1>4, OrdersKept
<1>7. OrdersIn(wire'[a]) = OrdersIn(wire[a]) \cup OrdersIn(Kept(frames, sent[a]))
  BY <1>3, <1>5, <1>6, OrdersConcat
<1>8. commanded'[a] => OrdersIn(Kept(frames, sent[a])) = new
  BY <1>3, <1>4
<1>9. ~Lossy => commanded'[a]
  BY <1>3
<1> QED  BY <1>6, <1>7, <1>8, <1>9 DEF new

\* Before the first callback nothing is wanted and no order is out.
LEMMA OrdersInit == Init => Promise!Init
<1> SUFFICES ASSUME Init PROVE Promise!Init
  OBVIOUS
<1>1. \A a \in Axis : Wanted(a) = "idle"
  BY DEF Init, Wanted
<1>2. \A a \in Axis : OrdersIn(wire[a]) = {}
  BY DEF Init, OrdersIn
<1> QED  BY <1>1, <1>2 DEF Init, Promise!Init

\* A step that changes neither what is wanted nor an order nor a drive.
LEMMA StillStep ==
  ASSUME UNCHANGED <<Wants, commanded, Out, drive>>
  PROVE  [Promise!Next]_Promise!ovars
BY DEF Promise!ovars, Wants, Out, drive

\* A command asks for what is wanted, of the drives it goes to.
LEMMA CommandStep ==
  ASSUME TypeOK, TypeOK', NEW axes \in SUBSET Axis, NEW on \in BOOLEAN,
         NEW inputs \in [Axis -> SUBSET Input],
         Command(axes, on, inputs), active_' = on, enabled' = inputs, UNCHANGED drive,
         \A a \in Axis \ axes : on = active_ /\ inputs[a] = enabled[a]
  PROVE  [Promise!Next]_Promise!ovars
<1>1. Wants' \in [Axis -> Input \cup {"idle"}]
  <2>1. \A a \in Axis : Wanted(a)' \in Input \cup {"idle"}
    <3> TAKE a \in Axis
    <3>1. enabled'[a] \in SUBSET Input
      BY DEF TypeOK
    <3> QED  BY <3>1, PrimaryEnabled DEF Wanted
  <2> QED  BY <2>1 DEF Wants
<1>2. Out' \in [Axis -> SUBSET (Input \cup {"idle", "clear", "closed_loop"})]
  <2>1. \A a \in Axis : wire'[a] \in Seq(Frame)
    BY DEF TypeOK
  <2>2. \A a \in Axis : OrdersIn(wire'[a]) \subseteq Input \cup {"idle", "clear", "closed_loop"}
    BY <2>1, OrdersType
  <2> QED  BY <2>2 DEF Out
<1>3. commanded' \in [Axis -> BOOLEAN]
  BY DEF TypeOK
<1>4. ASSUME NEW a \in axes
      PROVE  LET new == Promise!OrdersFor(Wants'[a])
             IN  /\ Out[a] \subseteq Out'[a] /\ Out'[a] \subseteq Out[a] \cup new
                 /\ commanded'[a] => new \subseteq Out'[a]
                 /\ ~Lossy => commanded'[a]
  <2>1. a \in Axis
    OBVIOUS
  <2>2. Wants'[a] = Wanted(a)' /\ Out[a] = OrdersIn(wire[a]) /\ Out'[a] = OrdersIn(wire'[a])
    BY <2>1 DEF Wants, Out
  <2> QED  BY <2>1, <2>2, CommandOut
<1>5. ASSUME NEW a \in Axis \ axes
      PROVE  Wants'[a] = Wants[a] /\ commanded'[a] = commanded[a] /\ Out'[a] = Out[a]
  <2>1. wire'[a] = wire[a] /\ commanded'[a] = commanded[a]
    BY CommandOthers
  <2> QED  BY <2>1 DEF Wants, Out, Wanted
<1>6. Promise!Want(axes)
  BY <1>1, <1>2, <1>3, <1>4, <1>5 DEF Promise!Want, Wants, Out, drive
<1> QED  BY <1>6 DEF Promise!Next

\* write gives no order.
LEMMA WriteStep ==
  ASSUME TypeOK, write
  PROVE  [Promise!Next]_Promise!ovars
<1> DEFINE out == [a \in Axis |-> IF enabled[a] = {} THEN <<>>
                                  ELSE <<Setpoint(enabled[a], commanded[a])>>]
<1>1. PICK sent \in [Axis -> SUBSET (1 .. 1)] : send(out, sent)
  BY DEF write
<1>2. ASSUME NEW a \in Axis PROVE OrdersIn(wire'[a]) = OrdersIn(wire[a])
  <2>1. out[a] \in Seq(Frame) /\ OrdersIn(out[a]) = {}
    <3>1. CASE enabled[a] = {}
      <4>1. out[a] = <<>>
        BY <3>1
      <4> HIDE DEF out
      <4>2. out[a] \in Seq(Frame) /\ Len(out[a]) = 0
        BY <4>1
      <4> QED  BY <4>2 DEF OrdersIn
    <3>2. CASE enabled[a] # {}
      <4> DEFINE f == Setpoint(enabled[a], commanded[a])
      <4>1. enabled[a] \in (SUBSET Input) \ {{}} /\ commanded[a] \in BOOLEAN
        BY <3>2 DEF TypeOK
      <4>2. f \in Frame
        BY ONLY <4>1 DEF Frame, Setpoints
      <4>3. f.type = "Set_Input"
        BY DEF Setpoint
      <4>4. out[a] = <<f>>
        BY <3>2
      <4> HIDE DEF out, f
      <4>5. out[a] \in Seq(Frame) /\ Len(out[a]) = 1 /\ out[a][1] = f
        BY <4>2, <4>4
      <4> QED  BY <4>3, <4>5 DEF OrdersIn
    <3> QED  BY <3>1, <3>2
  <2>2. wire'[a] = wire[a] \o Kept(out[a], sent[a]) /\ sent[a] \in SUBSET DOMAIN out[a]
    BY <1>1, FlagAssumption DEF send
  <2>3. wire[a] \in Seq(Frame)
    BY DEF TypeOK
  <2> DEFINE kept == Kept(out[a], sent[a])
  <2> HIDE DEF out
  <2>4. kept \in Seq(Frame) /\ OrdersIn(kept) = {}
    BY <2>1, <2>2, OrdersKept
  <2>5. wire'[a] = wire[a] \o kept
    BY <2>2
  <2> HIDE DEF kept
  <2>6. OrdersIn(wire[a] \o kept) = OrdersIn(wire[a]) \cup OrdersIn(kept)
    BY <2>3, <2>4, OrdersConcat
  <2> QED  BY <2>4, <2>5, <2>6
<1>3. Out' = Out
  BY <1>2 DEF Out
<1>4. Wants' = Wants
  BY DEF write, plugin, Wants, Wanted
<1> QED  BY <1>3, <1>4, StillStep DEF write

\* When a whole command is out no more, the drive does what is wanted.
Settles ==
  \A a \in Axis : commanded[a] /\ OrdersIn(wire[a]) = {} => Promise!Agrees(a)

LEMMA SettledAgrees == IInv => Settles
<1> SUFFICES ASSUME IInv, NEW a \in Axis, commanded[a], OrdersIn(wire[a]) = {}
             PROVE  Promise!Agrees(a)
  BY DEF Settles
<1>1. ASSUME NEW n \in Nat, Pending(a, n) PROVE FALSE
  <2>1. n \in 1 .. Len(wire[a]) /\ wire[a][n].type # "Set_Input"
    BY <1>1 DEF Pending, AxisState
  <2> QED  BY <2>1 DEF OrdersIn
<1>2. Settled(a)
  BY <1>1 DEF IInv, Follows
<1>3. enabled[a] \in SUBSET Input
  BY DEF IInv, TypeOK
<1>4. wanted(a) => Wanted(a) = primary(enabled[a]) /\ Wanted(a) # "idle"
  BY <1>3, PrimaryEnabled DEF wanted, Wanted, Input
<1>5. ~wanted(a) => Wanted(a) = "idle"
  BY DEF wanted, Wanted
<1>6. armed[a] => Wanted(a) # "idle" /\ mode[a] = Wanted(a)
  BY <1>2, <1>4 DEF Settled
<1>7. Wanted(a) # "idle" /\ ~armed[a] => errors[a]
  BY <1>2, <1>5 DEF Settled
<1> QED  BY <1>6, <1>7 DEF Promise!Agrees

\* A drive that receives a frame obeys it; a setpoint changes nothing of this.
LEMMA ReceiveStep ==
  ASSUME IInv, IInv', NEW a \in Axis, receive(a)
  PROVE  [Promise!Next]_Promise!ovars
<1> DEFINE frame == Head(wire[a])
<1>1. /\ wire[a] \in Seq(Frame) /\ wire[a] # <<>> /\ frame \in Frame
      /\ wire' = [wire EXCEPT ![a] = Tail(wire[a])]
      /\ wire \in [Axis -> Seq(Frame)]
  BY DEF receive, IInv, TypeOK
<1>2. Wants' = Wants /\ UNCHANGED commanded
  BY DEF receive, plugin, Wants, Wanted
<1>3. Out' = [Out EXCEPT ![a] = OrdersIn(Tail(wire[a]))]
  BY <1>1 DEF Out
<1>4. CASE frame.type = "Set_Input"
  <2>1. Out' = Out
    <3>1. OrdersIn(Tail(wire[a])) = Out[a]
      BY <1>1, <1>4, OrdersTailSetpoint DEF Out
    <3> QED  BY <1>3, <3>1 DEF Out
  <2>2. UNCHANGED drive
    BY <1>4 DEF receive, drive
  <2> QED  BY <1>2, <2>1, <2>2, StillStep
<1>5. CASE frame.type # "Set_Input"
  <2> DEFINE order == Order(frame)
  <2>1. order \in Out[a] /\ Out' \in {Out, [Out EXCEPT ![a] = @ \ {order}]}
    <3>1. /\ order \in Out[a]
          /\ OrdersIn(Tail(wire[a])) \in {Out[a], Out[a] \ {order}}
      BY <1>1, <1>5, OrdersTailOrder DEF Out
    <3>2. Out = [Out EXCEPT ![a] = Out[a]]
      BY DEF Out
    <3> QED  BY <1>3, <3>1, <3>2
  <2>2. /\ mode' = IF order \in Input THEN [mode EXCEPT ![a] = order] ELSE mode
        /\ errors' = IF order = "clear" THEN [errors EXCEPT ![a] = FALSE] ELSE errors
        /\ armed' = IF order \in {"idle", "closed_loop"}
                    THEN [armed EXCEPT ![a] = order = "closed_loop" /\ ~errors[a]]
                    ELSE armed
    <3>1. \/ frame.type = "Set_Controller_Mode" /\ order = frame.arg /\ frame.arg \in Input
          \/ frame.type = "Clear_Errors" /\ order = "clear"
          \/ /\ frame.type = "Set_Axis_State"
             /\ order = frame.arg /\ frame.arg \in {"idle", "closed_loop"}
      BY <1>1, <1>5, FrameOrder
    <3>2. /\ mode' = IF frame.type = "Set_Controller_Mode"
                     THEN [mode EXCEPT ![a] = frame.arg] ELSE mode
          /\ errors' = IF frame.type = "Clear_Errors"
                       THEN [errors EXCEPT ![a] = FALSE] ELSE errors
          /\ armed' = IF frame.type = "Set_Axis_State"
                      THEN [armed EXCEPT ![a] = frame.arg = "closed_loop" /\ ~errors[a]]
                      ELSE armed
      BY DEF receive
    <3> HIDE DEF frame, order
    <3> QED  BY <3>1, <3>2 DEF Input
  <2>3. commanded[a] /\ Out'[a] = {} => Promise!Agrees(a)'
    <3>1. Settles'
      BY SettledAgrees, PTL
    <3>2. commanded'[a] /\ OrdersIn(wire'[a]) = {} => Promise!Agrees(a)'
      BY <3>1 DEF Settles
    <3> QED  BY <1>2, <3>2 DEF Out
  <2> HIDE DEF order
  <2>4. Promise!Obey(a)
    BY <1>2, <2>1, <2>2, <2>3 DEF Promise!Obey, Wants, Out
  <2> QED  BY <2>4 DEF Promise!Next
<1> QED  BY <1>4, <1>5

\* Every step of the manager, the plugin or a drive is one of the abstract
\* specification, or unseen in it.
LEMMA OrdersStep == IInv /\ IInv' /\ [Next]_vars => [Promise!Next]_Promise!ovars
<1> SUFFICES ASSUME IInv, IInv', [Next]_vars PROVE [Promise!Next]_Promise!ovars
  OBVIOUS
<1>1. TypeOK /\ TypeOK'
  BY DEF IInv
<1>2. CASE on_activate \/ on_deactivate
  <2>1. PICK on \in BOOLEAN : /\ Command(Axis, on, enabled) /\ active_' = on
                              /\ enabled' = enabled /\ UNCHANGED drive
    BY <1>2 DEF on_activate, on_deactivate
  <2>2. enabled \in [Axis -> SUBSET Input]
    BY <1>1 DEF TypeOK
  <2> QED  BY <1>1, <2>1, <2>2, CommandStep
<1>3. CASE perform_command_mode_switch
  <2>1. PICK stop \in [Axis -> SUBSET Input], start \in [Axis -> SUBSET Claimable] :
          LET inputs == [b \in Axis |-> (enabled[b] \ stop[b]) \cup start[b]]
          IN  /\ enabled' = inputs
              /\ Command({b \in Axis : start[b] \cup stop[b] # {}}, active_, inputs)
    BY <1>3 DEF perform_command_mode_switch
  <2> DEFINE inputs == [b \in Axis |-> (enabled[b] \ stop[b]) \cup start[b]]
             axes == {b \in Axis : start[b] \cup stop[b] # {}}
  <2>2. inputs \in [Axis -> SUBSET Input] /\ axes \in SUBSET Axis
    BY <1>1, ClaimableAssumption DEF TypeOK
  <2>3. Command(axes, active_, inputs) /\ enabled' = inputs
    BY <2>1
  <2>4. \A b \in Axis \ axes : inputs[b] = enabled[b]
    BY <1>1 DEF TypeOK
  <2>5. active_' = active_ /\ active_ \in BOOLEAN /\ UNCHANGED drive
    BY <1>1, <1>3 DEF perform_command_mode_switch, TypeOK
  <2> HIDE DEF inputs, axes
  <2> QED  BY <1>1, <2>2, <2>3, <2>4, <2>5, CommandStep
<1>4. CASE write
  BY <1>1, <1>4, WriteStep
<1>5. ASSUME NEW a \in Axis, receive(a) PROVE [Promise!Next]_Promise!ovars
  BY <1>5, ReceiveStep
<1>6. ASSUME NEW a \in Axis, fault(a) PROVE [Promise!Next]_Promise!ovars
  <2>1. Wants' = Wants /\ Out' = Out /\ UNCHANGED commanded
    BY <1>6 DEF fault, plugin, Wants, Wanted, Out
  <2>2. Promise!Fault(a)
    BY <1>6, <2>1 DEF fault, Promise!Fault, Wants, Out
  <2> QED  BY <2>2 DEF Promise!Next
<1>7. CASE on_configure \/ on_cleanup \/ on_shutdown \/ on_can_msg \/ UNCHANGED vars
  <2>1. UNCHANGED <<plugin, wire, commanded, drive>>
    BY <1>7 DEF on_configure, on_cleanup, on_shutdown, on_can_msg, vars, plugin, drive
  <2> QED  BY <2>1, StillStep DEF plugin, Wants, Wanted, Out
<1> QED  BY <1>2, <1>3, <1>4, <1>5, <1>6, <1>7 DEF Next, Lifecycle, Cycle, Drive

\* The plugin implements what the abstract specification promises, for any number
\* of axes, length of the queues and pattern of losses and faults: drives obey
\* only orders given for what was wanted, no change of what is wanted goes without
\* its orders, and orders that were all given are all carried out.
THEOREM InterfaceImplementsOrders == Spec => ImplementsOrders
<1>1. IInv /\ IInv' /\ [Next]_vars => [Promise!Next]_Promise!ovars
  BY OrdersStep
<1> QED  BY OrdersInit, <1>1, InterfaceInvariant, PTL DEF Spec, ImplementsOrders, Promise!Spec
=============================================================================
