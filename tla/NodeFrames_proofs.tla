-------------------------- MODULE NodeFrames_proofs --------------------------
(***************************************************************************)
(* Proofs about the bits of a frame.                                       *)
(*                                                                         *)
(* First CanSignal: a store followed by a load, a store and the signals    *)
(* below it, and from the two that encoding and decoding agree for every   *)
(* layout that satisfies LayoutAssumption, every value and every content   *)
(* of the uninitialised memory.                                            *)
(*                                                                         *)
(* Then NodeFrames: for any contents of memory and any values, every frame *)
(* the node lays out by hand is one the layouts of can_simple_messages.hpp *)
(* decode to what was asked, and the status frames are read as they were   *)
(* encoded.  Both follow from what one callback does, frame by frame.      *)
(***************************************************************************)
EXTENDS NodeFrames, TLAPS

-----------------------------------------------------------------------------
(* CanSignal.                                                              *)

\* A signal that was just set reads back as the bits that were put in, cut
\* to its length.
LEMMA SetThenGet ==
  ASSUME NEW word, NEW bits, NEW signal \in Signal,
         signal.start + signal.length <= WordBits
  PROVE  can_get_signal_raw(can_set_signal_raw(word, bits, signal), signal)
           = {i \in 0 .. signal.length - 1 : i \in bits}
<1>1. WordBits \in Nat /\ signal.start \in Nat /\ signal.length \in Nat
  BY WordAssumption DEF Signal
<1>2. ASSUME NEW i \in 0 .. signal.length - 1
      PROVE  i + signal.start \in can_set_signal_raw(word, bits, signal) <=> i \in bits
  <2>1. i + signal.start \in Bit /\ i + signal.start \in Places(signal)
    BY <1>1 DEF Bit, Places
  <2>2. i + signal.start >= signal.start /\ (i + signal.start) - signal.start = i
    BY <1>1
  <2> QED  BY <2>1, <2>2 DEF can_set_signal_raw
<1> QED  BY <1>2 DEF can_get_signal_raw

\* A store leaves every signal that ends at or below its first bit alone.
LEMMA SetKeepsLower ==
  ASSUME NEW word \in SUBSET Bit, NEW bits, NEW signal \in Signal, NEW lower \in Signal,
         lower.start + lower.length <= signal.start,
         signal.start + signal.length <= WordBits
  PROVE  can_get_signal_raw(can_set_signal_raw(word, bits, signal), lower)
           = can_get_signal_raw(word, lower)
<1>1. /\ WordBits \in Nat /\ signal.start \in Nat /\ signal.length \in Nat
      /\ lower.start \in Nat /\ lower.length \in Nat
  BY WordAssumption DEF Signal
<1>2. ASSUME NEW i \in 0 .. lower.length - 1
      PROVE  i + lower.start \in can_set_signal_raw(word, bits, signal)
               <=> i + lower.start \in word
  <2>1. i + lower.start \in Bit /\ i + lower.start \notin Places(signal)
    BY <1>1 DEF Bit, Places
  <2>2. ~(i + lower.start >= signal.start)
    BY <1>1
  <2> QED  BY <2>1, <2>2 DEF can_set_signal_raw
<1> QED  BY <1>2 DEF can_get_signal_raw

-----------------------------------------------------------------------------
IInv == TypeOK /\ DecodesWhatWasEncoded

\* A layout is a sequence of signals, none of them past the frame or below
\* its predecessor; the empty message is a layout too.
LEMMA AscendingLayout ==
  ASSUME NEW m \in Messages \cup {<<>>}
  PROVE  /\ Len(m) \in Nat
         /\ \A k \in 1 .. Len(m) : /\ m[k] \in Signal
                                   /\ m[k].length <= m[k].width
                                   /\ m[k].start + m[k].length <= WordBits
         /\ \A j, k \in 1 .. Len(m) : j < k => m[j].start + m[j].length <= m[k].start
<1>1. CASE m \in Messages
  BY <1>1, LayoutAssumption
<1>2. CASE m = <<>>
  BY <1>2
<1> QED  BY <1>1, <1>2

\* The empty message has nothing to decode.
LEMMA InitInv == Init => IInv
<1> SUFFICES ASSUME Init PROVE IInv
  OBVIOUS
<1>1. TypeOK
  BY DEF Init, TypeOK, Bit
<1>2. DecodesWhatWasEncoded
  BY DEF Init, DecodesWhatWasEncoded
<1> QED  BY <1>1, <1>2 DEF IInv

\* A new frame: the members fit their types and nothing is encoded yet.
LEMMA BeginInv == ASSUME IInv, begin PROVE IInv'
<1>1. PICK m \in Messages : Fresh(m)
  BY DEF begin
<1>2. PICK pattern \in [1 .. Len(m) -> Values] :
        values' = [k \in 1 .. Len(m) |-> Narrow(pattern[k], m[k].width)]
  BY <1>1 DEF Fresh
<1>3. message' = m /\ next' = 1 /\ buf' \subseteq Bit
  BY <1>1 DEF Fresh
<1>4. Len(m) \in Nat /\ \A k \in 1 .. Len(m) : m[k] \in Signal
  BY AscendingLayout
<1>5. ASSUME NEW k \in 1 .. Len(m)
      PROVE  Narrow(pattern[k], m[k].width) \subseteq 0 .. m[k].width - 1
  <2>1. pattern[k] \subseteq Nat /\ m[k].width \in Nat
    BY <1>4, PatternAssumption DEF Signal
  <2> QED  BY <2>1 DEF Narrow
<1>6. TypeOK'
  BY <1>2, <1>3, <1>4, <1>5 DEF TypeOK
<1>7. DecodesWhatWasEncoded'
  BY <1>3 DEF DecodesWhatWasEncoded
<1> QED  BY <1>6, <1>7 DEF IInv

\* One store: the signals below it keep their bits, its own field takes
\* the value, and what is spilled lies above.
LEMMA EncodeInv == ASSUME IInv, encode_signal PROVE IInv'
<1> DEFINE s == message[next]
<1>1. PICK junk \in Junk :
        buf' = can_set_signal_raw(buf, values[next] \cup (junk \ (0 .. s.width - 1)), s)
  BY DEF encode_signal
<1> DEFINE bits == values[next] \cup (junk \ (0 .. s.width - 1))
<1>2. /\ next <= Len(message) /\ next' = next + 1
      /\ message' = message /\ values' = values
  BY DEF encode_signal
<1>3. message \in Messages \cup {<<>>} /\ buf \subseteq Bit /\ next \in 1 .. Len(message) + 1
  BY DEF IInv, TypeOK
<1>4. /\ Len(message) \in Nat
      /\ \A k \in 1 .. Len(message) : /\ message[k] \in Signal
                                      /\ message[k].length <= message[k].width
                                      /\ message[k].start + message[k].length <= WordBits
      /\ \A j, k \in 1 .. Len(message) :
           j < k => message[j].start + message[j].length <= message[k].start
  BY <1>3, AscendingLayout
<1>5. next \in 1 .. Len(message)
  BY <1>2, <1>3, <1>4
<1>6. TypeOK'
  <2>1. buf' \subseteq Bit
    BY <1>1 DEF can_set_signal_raw
  <2>2. next' \in 1 .. Len(message') + 1
    BY <1>2, <1>4, <1>5
  <2> QED  BY <1>2, <2>1, <2>2 DEF TypeOK, IInv
<1>7. ASSUME NEW k \in 1 .. next
      PROVE  can_get_signal_raw(buf', message[k]) = {i \in values[k] : i < message[k].length}
  <2>1. CASE k = next
    <3>1. s \in Signal /\ s.start + s.length <= WordBits /\ s.length <= s.width
      BY <1>4, <1>5
    <3>2. can_get_signal_raw(buf', s) = {i \in 0 .. s.length - 1 : i \in bits}
      BY <1>1, <3>1, SetThenGet
    <3>3. values[next] \subseteq 0 .. s.width - 1
      BY <1>5 DEF IInv, TypeOK
    <3>4. {i \in 0 .. s.length - 1 : i \in bits} = {i \in values[next] : i < s.length}
      <4>1. s.length \in Nat /\ s.width \in Nat
        BY <3>1 DEF Signal
      <4>2. ASSUME NEW i \in 0 .. s.length - 1 PROVE i \in 0 .. s.width - 1 /\ i < s.length
        BY <3>1, <4>1
      <4>3. ASSUME NEW i \in values[next], i < s.length PROVE i \in 0 .. s.length - 1
        BY <3>3, <4>1, <4>3
      <4> QED  BY <4>2, <4>3
    <3> QED  BY <2>1, <3>2, <3>4
  <2>2. CASE k # next
    <3>1. k \in 1 .. next - 1 /\ k \in 1 .. Len(message) /\ k < next
      BY <1>4, <1>5, <2>2
    <3>2. /\ message[k] \in Signal /\ s \in Signal
          /\ message[k].start + message[k].length <= s.start
          /\ s.start + s.length <= WordBits
      BY <1>4, <1>5, <3>1
    <3>3. can_get_signal_raw(buf', message[k]) = can_get_signal_raw(buf, message[k])
      BY <1>1, <1>3, <3>2, SetKeepsLower
    <3>4. can_get_signal_raw(buf, message[k]) = {i \in values[k] : i < message[k].length}
      BY <3>1 DEF IInv, DecodesWhatWasEncoded
    <3> QED  BY <3>3, <3>4
  <2> QED  BY <2>1, <2>2
<1>8. DecodesWhatWasEncoded'
  <2>1. next' - 1 = next
    BY <1>2, <1>3, <1>4
  <2> QED  BY <1>2, <1>7, <2>1 DEF DecodesWhatWasEncoded
<1> QED  BY <1>6, <1>8 DEF IInv

\* The invariant is inductive.
LEMMA CodecInvariant == Spec => []IInv
<1>1. ASSUME IInv, [Next]_vars PROVE IInv'
  <2>1. CASE begin
    BY <2>1, <1>1, BeginInv
  <2>2. CASE encode_signal
    BY <2>2, <1>1, EncodeInv
  <2>3. CASE UNCHANGED vars
    BY <2>3, <1>1 DEF vars, IInv, TypeOK, DecodesWhatWasEncoded
  <2> QED  BY <1>1, <2>1, <2>2, <2>3 DEF Next
<1> QED  BY <1>1, InitInv, PTL DEF Spec

\* The data field is never written past its last bit.
THEOREM CodecTypeOK == Spec => []TypeOK
BY CodecInvariant, PTL DEF IInv

\* What decode_buf reads of a signal that encode_buf has set is the value
\* of the member, for every layout in ascending order.
THEOREM CodecDecodes == Spec => []DecodesWhatWasEncoded
BY CodecInvariant, PTL DEF IInv

-----------------------------------------------------------------------------
(* NodeFrames.                                                             *)

\* Does the drive get the fields f from a frame?
Decodes(frame, f) ==
  \A k \in 1 .. Len(Layout(frame.cmd)) :
    can_get_signal_raw(frame.data, Layout(frame.cmd)[k]) = f[Layout(frame.cmd)[k].name]

\* What was written at a place is read there, ...
LEMMA WrittenIsRead ==
  ASSUME NEW word, NEW byte \in Nat, NEW size \in Nat, NEW bits \in SUBSET (0 .. size - 1),
         NEW signal, signal.start = 8 * byte, signal.length \in Nat, size <= signal.length,
         \A i \in 0 .. signal.length - 1 : size <= i => i + 8 * byte \notin word
  PROVE  can_get_signal_raw(write_le(word, bits, byte, size), signal) = bits
<1>1. ASSUME NEW i \in 0 .. signal.length - 1
      PROVE  i + 8 * byte \in write_le(word, bits, byte, size) <=> i \in bits
  <2>1. i \in bits => i + 8 * byte \in write_le(word, bits, byte, size)
    BY DEF write_le
  <2>2. ASSUME i + 8 * byte \in write_le(word, bits, byte, size) PROVE i \in bits
    <3>1. CASE \E j \in bits : i + 8 * byte = j + 8 * byte
      BY <3>1
    <3>2. CASE /\ i + 8 * byte \in word
               /\ i + 8 * byte < 8 * byte \/ i + 8 * byte >= 8 * byte + size
      BY <3>2
    <3> QED  BY <2>2, <3>1, <3>2 DEF write_le
  <2> QED  BY <2>1, <2>2
<1>2. bits \subseteq 0 .. signal.length - 1
  OBVIOUS
<1> QED  BY <1>1, <1>2 DEF can_get_signal_raw

\* ... a write leaves the places beside it alone, ...
LEMMA WriteKeepsOthers ==
  ASSUME NEW word, NEW byte \in Nat, NEW size \in Nat, NEW bits \in SUBSET (0 .. size - 1),
         NEW signal, signal.start \in Nat, signal.length \in Nat,
         \/ signal.start + signal.length <= 8 * byte
         \/ 8 * byte + size <= signal.start
  PROVE  can_get_signal_raw(write_le(word, bits, byte, size), signal)
           = can_get_signal_raw(word, signal)
BY DEF can_get_signal_raw, write_le

\* ... and so does the end of the frame.
LEMMA CutKeeps ==
  ASSUME NEW word, NEW cmd, NEW can_dlc \in Nat, NEW signal, signal.start \in Nat,
         signal.length \in Nat, signal.start + signal.length <= 8 * can_dlc
  PROVE  /\ can_frame(cmd, can_dlc, word).cmd = cmd
         /\ can_get_signal_raw(can_frame(cmd, can_dlc, word).data, signal)
              = can_get_signal_raw(word, signal)
BY DEF can_get_signal_raw, can_frame

\* The layouts of the frames the node sends.
LEMMA CommandLayouts ==
  /\ Layout("Clear_Errors") = Byte("Identify")
  /\ Layout("Set_Axis_State") = Word("Axis_Requested_State")
  /\ Layout("Set_Limits") = Pair("Velocity_Limit", "Current_Limit")
  /\ Layout("Set_Controller_Mode") = Pair("Control_Mode", "Input_Mode")
  /\ Layout("Set_Input_Torque") = Word("Input_Torque")
  /\ Layout("Set_Input_Vel") = Pair("Input_Vel", "Input_Torque_FF")
  /\ Layout("Set_Input_Pos")
       = <<S("Input_Pos", 0, 32, 32), S("Vel_FF", 32, 16, 16), S("Torque_FF", 48, 16, 16)>>
BY DEF Layout, StateMessages, ControlMessages, TrajectoryMessages, MonitorMessages,
       TuningMessages

\* A frame of one field, ...
LEMMA OneField ==
  ASSUME NEW cmd, NEW name, NEW can_dlc \in Nat, NEW word, NEW f, NEW bits,
         LET size == 8 * can_dlc
         IN  /\ Layout(cmd) = <<S(name, 0, size, size)>>
             /\ f[name] = bits /\ bits \in SUBSET (0 .. size - 1)
  PROVE  Decodes(can_frame(cmd, can_dlc, write_le(word, bits, 0, 8 * can_dlc)), f)
<1> DEFINE size == 8 * can_dlc
           signal == S(name, 0, size, size)
           data == write_le(word, bits, 0, size)
<1>1. signal.start = 8 * 0 /\ signal.length = size /\ signal.name = name
  BY DEF S
<1>2. size \in Nat /\ bits \in SUBSET (0 .. size - 1)
  OBVIOUS
<1>3. Len(Layout(cmd)) = 1 /\ Layout(cmd)[1] = signal
  OBVIOUS
<1> HIDE DEF signal
<1>4. can_get_signal_raw(data, signal) = bits
  <2> HIDE DEF size
  <2>1. \A i \in 0 .. signal.length - 1 : size <= i => i + 8 * 0 \notin word
    BY <1>1, <1>2
  <2> QED  BY <1>1, <1>2, <2>1, WrittenIsRead
<1> HIDE DEF data
<1>5. /\ can_frame(cmd, can_dlc, data).cmd = cmd
      /\ can_get_signal_raw(can_frame(cmd, can_dlc, data).data, signal) = bits
  BY <1>1, <1>2, <1>4, CutKeeps
<1> QED  BY <1>1, <1>3, <1>5 DEF Decodes, data

\* ... and one of two words.
LEMMA TwoFields ==
  ASSUME NEW cmd, NEW low, NEW high, Layout(cmd) = Pair(low, high), NEW word, NEW f,
         f[low] \in SUBSET (0 .. 31), f[high] \in SUBSET (0 .. 31)
  PROVE  Decodes(can_frame(cmd, 8, write_le(write_le(word, f[low], 0, 32), f[high], 4, 32)), f)
<1> DEFINE first == S(low, 0, 32, 32)
           second == S(high, 32, 32, 32)
           half == write_le(word, f[low], 0, 32)
           data == write_le(half, f[high], 4, 32)
<1>1. /\ first.start = 0 /\ first.length = 32 /\ first.name = low
      /\ second.start = 32 /\ second.length = 32 /\ second.name = high
  BY DEF S
<1>2. Len(Layout(cmd)) = 2 /\ Layout(cmd)[1] = first /\ Layout(cmd)[2] = second
  BY DEF Pair
<1> HIDE DEF first, second
<1>3. can_get_signal_raw(half, first) = f[low]
  BY <1>1, WrittenIsRead
<1> HIDE DEF half
<1>4. can_get_signal_raw(data, first) = f[low] /\ can_get_signal_raw(data, second) = f[high]
  BY <1>1, <1>3, WrittenIsRead, WriteKeepsOthers
<1> HIDE DEF data
<1>5. /\ can_frame(cmd, 8, data).cmd = cmd
      /\ can_get_signal_raw(can_frame(cmd, 8, data).data, first) = f[low]
      /\ can_get_signal_raw(can_frame(cmd, 8, data).data, second) = f[high]
  BY <1>1, <1>4, CutKeeps
<1> QED  BY <1>1, <1>2, <1>5 DEF Decodes, data, half

\* The input frame of a position command: the upper bytes of the two feedforward
\* fields are those of the zeroed frame.
LEMMA PositionFrame ==
  ASSUME NEW word, NEW f, f["Input_Pos"] \in SUBSET (0 .. 31),
         f["Vel_FF"] \in SUBSET (0 .. 7), f["Torque_FF"] \in SUBSET (0 .. 7)
  PROVE  Decodes(can_frame("Set_Input_Pos", 8,
                   write_le(write_le(write_le({}, f["Input_Pos"], 0, 32), f["Vel_FF"], 4, 8),
                            f["Torque_FF"], 6, 8)), f)
<1> DEFINE pos == S("Input_Pos", 0, 32, 32)
           vel == S("Vel_FF", 32, 16, 16)
           torque == S("Torque_FF", 48, 16, 16)
           one == write_le({}, f["Input_Pos"], 0, 32)
           two == write_le(one, f["Vel_FF"], 4, 8)
           data == write_le(two, f["Torque_FF"], 6, 8)
<1>1. /\ pos.start = 0 /\ pos.length = 32 /\ pos.name = "Input_Pos"
      /\ vel.start = 32 /\ vel.length = 16 /\ vel.name = "Vel_FF"
      /\ torque.start = 48 /\ torque.length = 16 /\ torque.name = "Torque_FF"
  BY DEF S
<1>2. /\ Len(Layout("Set_Input_Pos")) = 3 /\ Layout("Set_Input_Pos")[1] = pos
      /\ Layout("Set_Input_Pos")[2] = vel /\ Layout("Set_Input_Pos")[3] = torque
  BY CommandLayouts
<1> HIDE DEF pos, vel, torque
<1>3. can_get_signal_raw(one, pos) = f["Input_Pos"] /\ \A i \in Nat : i >= 32 => i \notin one
  <2>1. can_get_signal_raw(one, pos) = f["Input_Pos"]
    BY <1>1, WrittenIsRead
  <2> QED  BY <2>1 DEF write_le
<1> HIDE DEF one
<1>4. /\ can_get_signal_raw(two, pos) = f["Input_Pos"]
      /\ can_get_signal_raw(two, vel) = f["Vel_FF"]
      /\ \A i \in Nat : i >= 48 => i \notin two
  <2>1. can_get_signal_raw(two, pos) = f["Input_Pos"]
    BY <1>1, <1>3, WriteKeepsOthers
  <2>2. \A i \in 0 .. 15 : 8 <= i => i + 8 * 4 \notin one
    BY <1>3
  <2>3. can_get_signal_raw(two, vel) = f["Vel_FF"]
    BY <1>1, <2>2, WrittenIsRead
  <2>4. \A i \in Nat : i >= 48 => i \notin two
    BY <1>3 DEF write_le
  <2> QED  BY <2>1, <2>3, <2>4
<1> HIDE DEF two
<1>5. /\ can_get_signal_raw(data, pos) = f["Input_Pos"]
      /\ can_get_signal_raw(data, vel) = f["Vel_FF"]
      /\ can_get_signal_raw(data, torque) = f["Torque_FF"]
  <2>1. \A i \in 0 .. 15 : 8 <= i => i + 8 * 6 \notin two
    BY <1>4
  <2>2. can_get_signal_raw(data, torque) = f["Torque_FF"]
    BY <1>1, <2>1, WrittenIsRead
  <2>3. /\ can_get_signal_raw(data, pos) = can_get_signal_raw(two, pos)
        /\ can_get_signal_raw(data, vel) = can_get_signal_raw(two, vel)
    BY <1>1, WriteKeepsOthers
  <2> QED  BY <1>4, <2>2, <2>3
<1> HIDE DEF data
<1> DEFINE frame == can_frame("Set_Input_Pos", 8, data)
<1>6. /\ frame.cmd = "Set_Input_Pos"
      /\ can_get_signal_raw(frame.data, pos) = f["Input_Pos"]
      /\ can_get_signal_raw(frame.data, vel) = f["Vel_FF"]
      /\ can_get_signal_raw(frame.data, torque) = f["Torque_FF"]
  BY <1>1, <1>5, CutKeeps
<1> HIDE DEF frame
<1>7. Decodes(frame, f)
  BY <1>1, <1>2, <1>6 DEF Decodes
<1> QED  BY <1>7 DEF frame, data, two, one

-----------------------------------------------------------------------------
\* What the callbacks pack.
LEMMA PatternBits ==
  ASSUME NEW width \in Nat, NEW bits \in Bits(width)
  PROVE  bits \in SUBSET (0 .. width - 1)
<1>1. PICK pattern \in Values : bits = {i \in pattern : i < width}
  BY DEF Bits, Narrow
<1>2. pattern \subseteq Nat
  BY PatternAssumption
<1>3. ASSUME NEW i \in bits PROVE i \in 0 .. width - 1
  <2>1. i \in Nat /\ i < width
    BY <1>1, <1>2
  <2> QED  BY <2>1
<1> QED  BY <1>3

LEMMA ClearErrorsFrame ==
  ASSUME NEW word, NEW f, f["Identify"] = {}
  PROVE  Decodes(can_frame("Clear_Errors", 1, clear_errors(word)), f)
<1>1. Layout("Clear_Errors") = <<S("Identify", 0, 8 * 1, 8 * 1)>>
  BY CommandLayouts DEF Byte
<1>2. Decodes(can_frame("Clear_Errors", 1, write_le(word, {}, 0, 8 * 1)), f)
  BY <1>1, OneField
<1>3. 8 * 1 = 8
  OBVIOUS
<1> QED  BY <1>2, <1>3 DEF clear_errors

LEMMA AxisStateFrame ==
  ASSUME NEW word, NEW f, f["Axis_Requested_State"] \in SUBSET (0 .. 31)
  PROVE  Decodes(can_frame("Set_Axis_State", 4, set_axis_state(word, f)), f)
<1> DEFINE bits == f["Axis_Requested_State"]
<1>1. Layout("Set_Axis_State") = <<S("Axis_Requested_State", 0, 8 * 4, 8 * 4)>>
  BY CommandLayouts DEF Word
<1>2. bits \in SUBSET (0 .. 8 * 4 - 1)
  OBVIOUS
<1>3. Decodes(can_frame("Set_Axis_State", 4, write_le(word, bits, 0, 8 * 4)), f)
  BY <1>1, <1>2, OneField
<1>4. 8 * 4 = 32
  OBVIOUS
<1> QED  BY <1>3, <1>4 DEF set_axis_state

\* Every frame sent decodes to what its callback was given.
BusDecodes == \A n \in 1 .. Len(bus) : Decodes(bus[n], fields)

LEMMA SameProperty == BusDecodes <=> CommandFieldsArrive
BY DEF BusDecodes, CommandFieldsArrive, Decodes

LEMMA ClearErrorsCallback == ASSUME request_clear_errors_callback PROVE BusDecodes'
<1>1. PICK memory \in Junk : bus' = <<can_frame("Clear_Errors", 1, clear_errors(memory))>>
  BY DEF request_clear_errors_callback
<1>2. fields'["Identify"] = {}
  BY DEF request_clear_errors_callback
<1>3. Decodes(can_frame("Clear_Errors", 1, clear_errors(memory)), fields')
  BY <1>2, ClearErrorsFrame
<1>4. Len(bus') = 1 /\ Decodes(bus'[1], fields')
  BY <1>1, <1>3
<1> QED  BY <1>4 DEF BusDecodes, Decodes
LEMMA StateCallback == ASSUME request_state_callback PROVE BusDecodes'
<1>1. PICK memory \in Junk, state \in Bits(32) \cup {{}} :
        /\ fields' = [Identify |-> {}, Axis_Requested_State |-> state]
        /\ LET cleared == clear_errors(memory)
               request(word) == can_frame("Set_Axis_State", 4, set_axis_state(word, fields'))
           IN  bus' = IF state # {}
                        THEN <<can_frame("Clear_Errors", 1, cleared), request(cleared)>>
                        ELSE <<request(memory)>>
  BY DEF request_state_callback
<1> DEFINE clear == can_frame("Clear_Errors", 1, clear_errors(memory))
           request(word) == can_frame("Set_Axis_State", 4, set_axis_state(word, fields'))
<1>2. /\ fields'["Identify"] = {}
      /\ fields'["Axis_Requested_State"] \in SUBSET (0 .. 31)
  <2>1. state \in SUBSET (0 .. 31)
    BY PatternBits
  <2> QED  BY <1>1, <2>1
<1>3. Decodes(clear, fields')
  BY <1>2, ClearErrorsFrame
<1>4. ASSUME NEW word PROVE Decodes(request(word), fields')
  BY <1>2, AxisStateFrame
<1>5. \/ Len(bus') = 2 /\ bus'[1] = clear /\ bus'[2] = request(clear_errors(memory))
      \/ Len(bus') = 1 /\ bus'[1] = request(memory)
  BY <1>1
<1> HIDE DEF clear, request
<1>6. Decodes(request(memory), fields') /\ Decodes(request(clear_errors(memory)), fields')
  BY <1>4
<1>7. \A n \in 1 .. Len(bus') : Decodes(bus'[n], fields')
  BY <1>3, <1>5, <1>6
<1> QED  BY <1>7 DEF BusDecodes, Decodes

LEMMA LimitsCallback == ASSUME request_set_limits_callback PROVE BusDecodes'
<1>1. PICK memory \in Junk, low \in Bits(32), high \in Bits(32) :
        /\ fields' = [Velocity_Limit |-> low, Current_Limit |-> high]
        /\ bus' = <<can_frame("Set_Limits", 8, set_limits(memory, fields'))>>
  BY DEF request_set_limits_callback
<1>2. /\ fields'["Velocity_Limit"] \in SUBSET (0 .. 31)
      /\ fields'["Current_Limit"] \in SUBSET (0 .. 31)
  <2>1. low \in SUBSET (0 .. 31) /\ high \in SUBSET (0 .. 31)
    BY PatternBits
  <2> QED  BY <1>1, <2>1
<1>3. Layout("Set_Limits") = Pair("Velocity_Limit", "Current_Limit")
  BY CommandLayouts
<1>4. Decodes(can_frame("Set_Limits", 8, set_limits(memory, fields')), fields')
  BY <1>2, <1>3, TwoFields DEF set_limits
<1>5. Len(bus') = 1 /\ Decodes(bus'[1], fields')
  BY <1>1, <1>4
<1> QED  BY <1>5 DEF BusDecodes, Decodes

\* The mode frame, and the input frame in the frame zeroed after it.
LEMMA ControlCallback == ASSUME ctrl_msg_callback PROVE BusDecodes'
<1>1. PICK memory \in Junk, mode \in {"torque", "velocity", "position"},
           x \in Bits(32), y \in Bits(32), ff1 \in Bits(8), ff2 \in Bits(8),
           input_mode \in Bits(32) :
        /\ fields' = [Control_Mode |-> CASE mode = "torque" -> {0} [] mode = "velocity" -> {1}
                                         [] mode = "position" -> {0, 1},
                      Input_Mode |-> input_mode, Input_Torque |-> x, Input_Vel |-> x,
                      Input_Torque_FF |-> y, Input_Pos |-> x, Vel_FF |-> ff1,
                      Torque_FF |-> ff2]
        /\ LET first == set_controller_mode(memory, fields')
           IN  bus' = <<can_frame("Set_Controller_Mode", 8, first),
                        input_frame(can_frame_zero(first), mode, fields')>>
  BY DEF ctrl_msg_callback
<1>2. /\ fields'["Control_Mode"] \in SUBSET (0 .. 31)
      /\ fields'["Input_Mode"] \in SUBSET (0 .. 31)
      /\ fields'["Input_Torque"] \in SUBSET (0 .. 31)
      /\ fields'["Input_Vel"] \in SUBSET (0 .. 31)
      /\ fields'["Input_Torque_FF"] \in SUBSET (0 .. 31)
      /\ fields'["Input_Pos"] \in SUBSET (0 .. 31)
      /\ fields'["Vel_FF"] \in SUBSET (0 .. 7)
      /\ fields'["Torque_FF"] \in SUBSET (0 .. 7)
  <2>1. x \in SUBSET (0 .. 31) /\ y \in SUBSET (0 .. 31) /\ input_mode \in SUBSET (0 .. 31)
    BY PatternBits
  <2>2. ff1 \in SUBSET (0 .. 7) /\ ff2 \in SUBSET (0 .. 7)
    BY PatternBits
  <2>3. fields'["Control_Mode"] \in {{0}, {1}, {0, 1}}
    BY <1>1
  <2> QED  BY <1>1, <2>1, <2>2, <2>3
<1> DEFINE first == can_frame("Set_Controller_Mode", 8, set_controller_mode(memory, fields'))
           second == input_frame({}, mode, fields')
<1>3. Decodes(first, fields')
  BY <1>2, CommandLayouts, TwoFields DEF set_controller_mode
<1>4. Decodes(second, fields')
  <2>1. CASE mode = "torque"
    <3> DEFINE bits == fields'["Input_Torque"]
    <3>1. Layout("Set_Input_Torque") = <<S("Input_Torque", 0, 8 * 4, 8 * 4)>>
      BY CommandLayouts DEF Word
    <3>2. bits \in SUBSET (0 .. 8 * 4 - 1)
      BY <1>2
    <3>3. Decodes(can_frame("Set_Input_Torque", 4, write_le({}, bits, 0, 8 * 4)), fields')
      BY <3>1, <3>2, OneField
    <3>4. 8 * 4 = 32
      OBVIOUS
    <3> QED  BY <2>1, <3>3, <3>4 DEF input_frame
  <2>2. CASE mode = "velocity"
    <3>1. Decodes(can_frame("Set_Input_Vel", 8,
                    write_le(write_le({}, fields'["Input_Vel"], 0, 32),
                             fields'["Input_Torque_FF"], 4, 32)), fields')
      BY <1>2, CommandLayouts, TwoFields
    <3> QED  BY <2>2, <3>1 DEF input_frame
  <2>3. CASE mode = "position"
    <3>1. Decodes(can_frame("Set_Input_Pos", 8,
                    write_le(write_le(write_le({}, fields'["Input_Pos"], 0, 32),
                                      fields'["Vel_FF"], 4, 8),
                             fields'["Torque_FF"], 6, 8)), fields')
      BY <1>2, PositionFrame
    <3> QED  BY <2>3, <3>1 DEF input_frame
  <2> QED  BY <2>1, <2>2, <2>3
<1>5. Len(bus') = 2 /\ bus'[1] = first /\ bus'[2] = second
  BY <1>1 DEF can_frame_zero
<1> HIDE DEF first, second
<1>6. \A n \in 1 .. Len(bus') : Decodes(bus'[n], fields')
  BY <1>3, <1>4, <1>5
<1> QED  BY <1>6 DEF BusDecodes, Decodes

\* Whatever memory holds and whatever is asked, what the drive decodes from the
\* frames of a callback is what the callback was given.
THEOREM FramesCommands == FieldsSpec => []CommandFieldsArrive
<1>1. FieldsInit => BusDecodes
  BY DEF FieldsInit, BusDecodes
<1>2. BusDecodes /\ [FieldsNext]_fvars => BusDecodes'
  <2> SUFFICES ASSUME BusDecodes, [FieldsNext]_fvars PROVE BusDecodes'
    OBVIOUS
  <2>1. CASE request_clear_errors_callback
    BY <2>1, ClearErrorsCallback
  <2>2. CASE request_state_callback
    BY <2>2, StateCallback
  <2>3. CASE request_set_limits_callback
    BY <2>3, LimitsCallback
  <2>4. CASE ctrl_msg_callback
    BY <2>4, ControlCallback
  <2>5. CASE recv_callback
    <3>1. bus' = <<>>
      BY <2>5 DEF recv_callback, idle
    <3> QED  BY <3>1 DEF BusDecodes
  <2>6. CASE callback_returns
    BY <2>6 DEF callback_returns, BusDecodes
  <2>7. CASE UNCHANGED fvars
    BY <2>7 DEF fvars, BusDecodes, Decodes
  <2> QED  BY <2>1, <2>2, <2>3, <2>4, <2>5, <2>6, <2>7 DEF FieldsNext
<1> QED  BY <1>1, <1>2, SameProperty, PTL DEF FieldsSpec
-----------------------------------------------------------------------------
\* The bits of n signals fit their layout, ...
Placed(layout, bits, n) ==
  /\ DOMAIN bits = 1 .. n
  /\ \A k \in 1 .. n : /\ layout[k].start \in Nat /\ layout[k].length \in Nat
                       /\ bits[k] \in SUBSET (0 .. layout[k].length - 1)

\* ... signal k is alone in its bytes, ...
Alone(layout, n, k, byte, size) ==
  /\ layout[k].start = 8 * byte /\ layout[k].length <= size
  /\ \A j \in 1 .. n : \/ j = k
                       \/ layout[j].start + layout[j].length <= layout[k].start
                       \/ layout[k].start + size <= layout[j].start

\* ... and has a name of its own.
Named(layout, n) == \A j, k \in 1 .. n : layout[j].name = layout[k].name => j = k

\* Reading a status frame: the bits of one signal are found at its place, whatever
\* the other signals hold.
LEMMA SignalIsRead ==
  ASSUME NEW layout, NEW n \in Nat, NEW bits, Placed(layout, bits, n),
         NEW k \in 1 .. n, NEW byte \in Nat, NEW size \in Nat,
         Alone(layout, n, k, byte, size)
  PROVE  read_le(drive_encode(layout, bits), byte, size) = bits[k]
<1> USE DEF Placed, Alone
<1> DEFINE data == drive_encode(layout, bits)
<1>1. ASSUME NEW x PROVE x \in data <=> \E j \in 1 .. n : \E i \in bits[j] : x = i + layout[j].start
  BY DEF drive_encode
<1> HIDE DEF data
<1>2. ASSUME NEW i \in bits[k] PROVE i \in 0 .. size - 1 /\ i + 8 * byte \in data
  BY <1>1
<1>3. ASSUME NEW i \in 0 .. size - 1, i + 8 * byte \in data PROVE i \in bits[k]
  <2>1. PICK j \in 1 .. n : \E b \in bits[j] : i + 8 * byte = b + layout[j].start
    BY <1>1, <1>3
  <2>2. PICK b \in bits[j] : i + 8 * byte = b + layout[j].start
    BY <2>1
  <2>3. b \in 0 .. layout[j].length - 1 /\ layout[j].start \in Nat /\ layout[j].length \in Nat
    OBVIOUS
  <2>4. layout[k].start = 8 * byte /\ i \in Nat /\ i < size
    OBVIOUS
  <2> DEFINE here == layout[k].start
             there == layout[j].start
             width == layout[j].length
  <2>5. /\ here \in Nat /\ there \in Nat /\ width \in Nat /\ b \in Nat /\ b < width
        /\ i + here = b + there
    BY <2>2, <2>3, <2>4
  <2>6. j = k \/ there + width <= here \/ here + size <= there
    OBVIOUS
  <2> HIDE DEF here, there, width
  <2>7. ~(there + width <= here) /\ ~(here + size <= there)
    BY <2>4, <2>5
  <2>8. j = k
    BY <2>6, <2>7
  <2>9. here = there
    BY <2>8 DEF here, there
  <2>10. i = b
    BY <2>4, <2>5, <2>9
  <2> QED  BY <2>8, <2>10
<1> QED  BY <1>2, <1>3 DEF read_le, data
\* The layouts of the status messages.
LEMMA StatusLayouts ==
  /\ Layout("Heartbeat") = <<S("Axis_Error", 0, 32, 32), S("Axis_State", 32, 8, 8),
                             S("Procedure_Result", 40, 8, 8),
                             S("Trajectory_Done_Flag", 48, 1, 8)>>
  /\ DOMAIN pairs = {"Get_Error", "Get_Encoder_Estimates", "Get_Iq", "Get_Temperature",
                     "Get_Bus_Voltage_Current", "Get_Torques"}
  /\ \A cmd \in DOMAIN pairs : /\ Layout(cmd) = Pair(pairs[cmd][1], pairs[cmd][2])
                               /\ pairs[cmd][1] # pairs[cmd][2]
<1>1. Layout("Heartbeat") = <<S("Axis_Error", 0, 32, 32), S("Axis_State", 32, 8, 8),
                              S("Procedure_Result", 40, 8, 8),
                              S("Trajectory_Done_Flag", 48, 1, 8)>>
  <2>1. "Heartbeat" \in DOMAIN StateMessages
    BY DEF StateMessages
  <2>2. \A cmd \in DOMAIN StateMessages :
          /\ cmd \notin DOMAIN ControlMessages /\ cmd \notin DOMAIN TrajectoryMessages
          /\ cmd \notin DOMAIN MonitorMessages /\ cmd \notin DOMAIN TuningMessages
    BY DEF StateMessages, ControlMessages, TrajectoryMessages, MonitorMessages,
           TuningMessages
  <2>3. Layout("Heartbeat") = StateMessages["Heartbeat"]
    BY <2>1, <2>2 DEF Layout
  <2> QED  BY <2>3 DEF StateMessages
<1>2. DOMAIN pairs = {"Get_Error", "Get_Encoder_Estimates", "Get_Iq", "Get_Temperature",
                      "Get_Bus_Voltage_Current", "Get_Torques"}
  BY DEF pairs
<1>3. /\ Layout("Get_Error") = Pair("Active_Errors", "Disarm_Reason")
      /\ Layout("Get_Encoder_Estimates") = Pair("Pos_Estimate", "Vel_Estimate")
      /\ Layout("Get_Iq") = Pair("Iq_Setpoint", "Iq_Measured")
      /\ Layout("Get_Temperature") = Pair("FET_Temperature", "Motor_Temperature")
      /\ Layout("Get_Bus_Voltage_Current") = Pair("Bus_Voltage", "Bus_Current")
      /\ Layout("Get_Torques") = Pair("Torque_Target", "Torque_Estimate")
  BY DEF Layout, StateMessages, ControlMessages, TrajectoryMessages, MonitorMessages,
         TuningMessages
<1>4. \A cmd \in DOMAIN pairs : /\ Layout(cmd) = Pair(pairs[cmd][1], pairs[cmd][2])
                                /\ pairs[cmd][1] # pairs[cmd][2]
  BY <1>2, <1>3 DEF pairs
<1> QED  BY <1>1, <1>2, <1>4

\* What the drive puts into a frame fits the signals of its layout.
LEMMA BitsFit ==
  ASSUME NEW n \in Nat, NEW layout, NEW value \in [1 .. n -> Values],
         \A k \in 1 .. n : layout[k].length \in Nat
  PROVE  LET bits == signal_bits(layout, value)
         IN  /\ DOMAIN bits = 1 .. n
             /\ \A k \in 1 .. n : bits[k] \in SUBSET (0 .. layout[k].length - 1)
<1> DEFINE bits == signal_bits(layout, value)
<1>1. DOMAIN bits = 1 .. n
  BY DEF signal_bits
<1>2. ASSUME NEW k \in 1 .. n PROVE bits[k] \in SUBSET (0 .. layout[k].length - 1)
  <2>1. value[k] \subseteq Nat
    BY PatternAssumption
  <2>2. bits[k] = {i \in value[k] : i < layout[k].length}
    BY DEF signal_bits
  <2> HIDE DEF bits
  <2>3. ASSUME NEW i \in bits[k] PROVE i \in 0 .. layout[k].length - 1
    <3>1. i \in Nat /\ i < layout[k].length
      BY <2>1, <2>2
    <3> QED  BY <3>1
  <2> QED  BY <2>3
<1> QED  BY <1>1, <1>2

\* Where names differ, a field is found by its name.
LEMMA NamedBits ==
  ASSUME NEW n \in Nat, NEW layout, NEW bits, Placed(layout, bits, n), Named(layout, n)
  PROVE  \A k \in 1 .. n : by_name(layout, bits)[layout[k].name] = bits[k]
<1> TAKE k \in 1 .. n
<1>1. (CHOOSE j \in DOMAIN bits : layout[j].name = layout[k].name) = k
  BY DEF Named, Placed
<1>2. layout[k].name \in {layout[j].name : j \in DOMAIN bits}
  BY DEF Placed
<1> QED  BY <1>1, <1>2 DEF by_name

LEMMA PairRead ==
  ASSUME NEW cmd \in DOMAIN pairs, NEW value \in [1 .. Len(Layout(cmd)) -> Values]
  PROVE  LET bits == signal_bits(Layout(cmd), value)
         IN  pair(cmd, drive_encode(Layout(cmd), bits)) = by_name(Layout(cmd), bits)
<1> DEFINE low == pairs[cmd][1]
           high == pairs[cmd][2]
           layout == Layout(cmd)
           bits == signal_bits(layout, value)
           data == drive_encode(layout, bits)
           named == by_name(layout, bits)
<1>1. /\ Len(layout) = 2 /\ layout[1] = S(low, 0, 32, 32) /\ layout[2] = S(high, 32, 32, 32)
      /\ low # high
  BY StatusLayouts DEF Pair
<1> HIDE DEF low, high, layout
<1>2. /\ layout[1].start = 0 /\ layout[1].length = 32 /\ layout[1].name = low
      /\ layout[2].start = 32 /\ layout[2].length = 32 /\ layout[2].name = high
  BY <1>1 DEF S
<1>3. value \in [1 .. 2 -> Values]
  BY <1>1 DEF layout
<1>4. DOMAIN bits = 1 .. 2 /\ \A k \in 1 .. 2 : bits[k] \in SUBSET (0 .. layout[k].length - 1)
  <2>1. 2 \in Nat /\ \A k \in 1 .. 2 : layout[k].length \in Nat
    BY <1>2
  <2> QED  BY <1>3, <2>1, BitsFit
<1> HIDE DEF bits
<1>5. read_le(data, 0, 32) = bits[1] /\ read_le(data, 4, 32) = bits[2]
  <2>1. 2 \in Nat /\ Placed(layout, bits, 2)
    BY <1>2, <1>4 DEF Placed
  <2>2. Alone(layout, 2, 1, 0, 32)
    BY <1>2 DEF Alone
  <2>3. Alone(layout, 2, 2, 4, 32)
    BY <1>2 DEF Alone
  <2>4. read_le(data, 0, 32) = bits[1]
    BY <2>1, <2>2, SignalIsRead
  <2>5. read_le(data, 4, 32) = bits[2]
    BY <2>1, <2>3, SignalIsRead
  <2> QED  BY <2>4, <2>5
<1>6. /\ named = [s \in {layout[k].name : k \in 1 .. 2} |-> named[s]]
      /\ \A k \in 1 .. 2 : named[layout[k].name] = bits[k]
  <2>1. named = [s \in {layout[k].name : k \in 1 .. 2} |-> named[s]]
    BY <1>4 DEF by_name
  <2>2. 2 \in Nat /\ Named(layout, 2)
    BY <1>1, <1>2 DEF Named
  <2>3. Placed(layout, bits, 2)
    BY <1>2, <1>4 DEF Placed
  <2>4. \A k \in 1 .. 2 : by_name(layout, bits)[layout[k].name] = bits[k]
    BY <2>2, <2>3, NamedBits
  <2> QED  BY <2>1, <2>4
<1> HIDE DEF named, data
<1>7. {layout[k].name : k \in 1 .. 2} = {low, high} /\ named[low] = bits[1] /\ named[high] = bits[2]
  BY <1>2, <1>6
<1>8. pair(cmd, data) = [s \in {low, high} |-> IF s = low THEN bits[1] ELSE bits[2]]
  BY <1>5 DEF pair, low, high
<1>9. pair(cmd, data) = named
  BY <1>1, <1>6, <1>7, <1>8
<1> QED  BY <1>9 DEF named, data, bits, layout

LEMMA HeartbeatRead ==
  ASSUME NEW value \in [1 .. Len(Layout("Heartbeat")) -> Values]
  PROVE  LET bits == signal_bits(Layout("Heartbeat"), value)
         IN  heartbeat(drive_encode(Layout("Heartbeat"), bits))
               = by_name(Layout("Heartbeat"), bits)
<1> DEFINE layout == Layout("Heartbeat")
           bits == signal_bits(layout, value)
           data == drive_encode(layout, bits)
           named == by_name(layout, bits)
<1>1. /\ Len(layout) = 4 /\ layout[1] = S("Axis_Error", 0, 32, 32)
      /\ layout[2] = S("Axis_State", 32, 8, 8) /\ layout[3] = S("Procedure_Result", 40, 8, 8)
      /\ layout[4] = S("Trajectory_Done_Flag", 48, 1, 8)
  BY StatusLayouts
<1> HIDE DEF layout
<1>2. /\ layout[1].start = 0 /\ layout[1].length = 32 /\ layout[1].name = "Axis_Error"
      /\ layout[2].start = 32 /\ layout[2].length = 8 /\ layout[2].name = "Axis_State"
      /\ layout[3].start = 40 /\ layout[3].length = 8 /\ layout[3].name = "Procedure_Result"
      /\ layout[4].start = 48 /\ layout[4].length = 1
      /\ layout[4].name = "Trajectory_Done_Flag"
  BY <1>1 DEF S
<1>3. value \in [1 .. 4 -> Values]
  BY <1>1 DEF layout
<1>4. DOMAIN bits = 1 .. 4 /\ \A k \in 1 .. 4 : bits[k] \in SUBSET (0 .. layout[k].length - 1)
  <2>1. 4 \in Nat /\ \A k \in 1 .. 4 : layout[k].length \in Nat
    BY <1>2
  <2> QED  BY <1>3, <2>1, BitsFit
<1> HIDE DEF bits
<1>5. 4 \in Nat /\ Placed(layout, bits, 4)
  BY <1>2, <1>4 DEF Placed
<1>6. /\ read_le(data, 0, 32) = bits[1] /\ read_le(data, 4, 8) = bits[2]
      /\ read_le(data, 5, 8) = bits[3] /\ read_le(data, 6, 8) = bits[4]
  <2>1. read_le(data, 0, 32) = bits[1]
    <3>1. Alone(layout, 4, 1, 0, 32)
      BY <1>2 DEF Alone
    <3> QED  BY <1>5, <3>1, SignalIsRead
  <2>2. read_le(data, 4, 8) = bits[2]
    <3>1. Alone(layout, 4, 2, 4, 8)
      BY <1>2 DEF Alone
    <3> QED  BY <1>5, <3>1, SignalIsRead
  <2>3. read_le(data, 5, 8) = bits[3]
    <3>1. Alone(layout, 4, 3, 5, 8)
      BY <1>2 DEF Alone
    <3> QED  BY <1>5, <3>1, SignalIsRead
  <2>4. read_le(data, 6, 8) = bits[4]
    <3>1. Alone(layout, 4, 4, 6, 8)
      BY <1>2 DEF Alone
    <3> QED  BY <1>5, <3>1, SignalIsRead
  <2> QED  BY <2>1, <2>2, <2>3, <2>4
<1>7. /\ named = [s \in {layout[k].name : k \in 1 .. 4} |-> named[s]]
      /\ \A k \in 1 .. 4 : named[layout[k].name] = bits[k]
  <2>1. named = [s \in {layout[k].name : k \in 1 .. 4} |-> named[s]]
    BY <1>4 DEF by_name
  <2>2. 4 \in Nat /\ Named(layout, 4)
    BY <1>2 DEF Named
  <2>3. Placed(layout, bits, 4)
    BY <1>2, <1>4 DEF Placed
  <2>4. \A k \in 1 .. 4 : by_name(layout, bits)[layout[k].name] = bits[k]
    BY <2>2, <2>3, NamedBits
  <2> QED  BY <2>1, <2>4
<1> HIDE DEF named, data
<1>8. {layout[k].name : k \in 1 .. 4}
        = {"Axis_Error", "Axis_State", "Procedure_Result", "Trajectory_Done_Flag"}
  BY <1>2
<1>9. heartbeat(data) = [Axis_Error |-> bits[1], Axis_State |-> bits[2],
                         Procedure_Result |-> bits[3], Trajectory_Done_Flag |-> bits[4]]
  BY <1>6 DEF heartbeat
<1>10. /\ named["Axis_Error"] = bits[1] /\ named["Axis_State"] = bits[2]
       /\ named["Procedure_Result"] = bits[3] /\ named["Trajectory_Done_Flag"] = bits[4]
  BY <1>2, <1>7
<1>11. heartbeat(data) = named
  BY <1>7, <1>8, <1>9, <1>10
<1> QED  BY <1>11 DEF named, data, bits, layout

\* Every field of the status topics is the signal of its name, for any values the
\* drive reports.
THEOREM FramesStatus == FieldsSpec => []StatusFieldsArrive
<1>1. FieldsInit => StatusFieldsArrive
  BY DEF FieldsInit, StatusFieldsArrive
<1>2. StatusFieldsArrive /\ [FieldsNext]_fvars => StatusFieldsArrive'
  <2> SUFFICES ASSUME StatusFieldsArrive, [FieldsNext]_fvars PROVE StatusFieldsArrive'
    OBVIOUS
  <2>1. idle => status = NoFields
    BY DEF idle, StatusFieldsArrive
  <2>2. CASE \/ request_clear_errors_callback \/ request_state_callback
             \/ request_set_limits_callback \/ ctrl_msg_callback
    <3>1. idle /\ status' = status
      BY <2>2 DEF request_clear_errors_callback, request_state_callback,
                  request_set_limits_callback, ctrl_msg_callback
    <3> QED  BY <2>1, <3>1 DEF StatusFieldsArrive, NoFields
  <2>3. CASE recv_callback
    <3>1. PICK cmd \in DOMAIN pairs \cup {"Heartbeat"} :
            \E value \in [1 .. Len(Layout(cmd)) -> Values] :
              LET bits == signal_bits(Layout(cmd), value)
                  data == drive_encode(Layout(cmd), bits)
              IN  /\ fields' = by_name(Layout(cmd), bits)
                  /\ status' = IF cmd = "Heartbeat" THEN heartbeat(data) ELSE pair(cmd, data)
      BY <2>3 DEF recv_callback
    <3>2. PICK value \in [1 .. Len(Layout(cmd)) -> Values] :
            LET bits == signal_bits(Layout(cmd), value)
                data == drive_encode(Layout(cmd), bits)
            IN  /\ fields' = by_name(Layout(cmd), bits)
                /\ status' = IF cmd = "Heartbeat" THEN heartbeat(data) ELSE pair(cmd, data)
      BY <3>1
    <3>3. CASE cmd = "Heartbeat"
      BY <3>2, <3>3, HeartbeatRead DEF StatusFieldsArrive
    <3>4. CASE cmd # "Heartbeat"
      <4>1. cmd \in DOMAIN pairs
        BY <3>4
      <4> QED  BY <3>2, <3>4, <4>1, PairRead DEF StatusFieldsArrive
    <3> QED  BY <3>3, <3>4
  <2>4. CASE callback_returns
    BY <2>4 DEF callback_returns, StatusFieldsArrive, NoFields
  <2>5. CASE UNCHANGED fvars
    BY <2>5 DEF fvars, StatusFieldsArrive, NoFields
  <2> QED  BY <2>2, <2>3, <2>4, <2>5 DEF FieldsNext
<1> QED  BY <1>1, <1>2, PTL DEF FieldsSpec
=============================================================================
