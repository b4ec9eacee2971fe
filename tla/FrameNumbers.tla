---------------------------- MODULE FrameNumbers ----------------------------
(***************************************************************************)
(* What packing does to numbers.  The node packs by hand: the input frames *)
(* of ctrl_msg_callback in position and MIT mode, and the MIT feedback of  *)
(* recv_callback (odrive_can_node.cpp).  The plugin scales the feedforward *)
(* terms of Set_Input_Pos in encode_buf (can_helpers.hpp).                 *)
(*                                                                         *)
(* A number the node packs is an integer of thousandths (NaN apart): the   *)
(* rounding of its floats is left out.  A term the plugin scales is a      *)
(* float, exactly: with the nearest float to a thousandth for a divisor,   *)
(* rounding decides where its cast cuts.  A 16-bit number is taken modulo  *)
(* 2^16.                                                                   *)
(* The other end of the wire is the drive: it unpacks MIT commands as the  *)
(* comment in ctrl_msg_callback lays them out, and Set_Input_Pos as        *)
(* can_simple_messages.hpp declares it.                                    *)
(***************************************************************************)
EXTENDS Integers, Sequences

CONSTANTS
  Position, Velocity, Gain, Damping, Torque,  \* bounds: thousandths tried
  Feedforward,                                \* bound: floats tried
  Raw,                                        \* bound: feedback codes tried
  NaN                                         \* what a float may also be

Number == Int \cup {NaN}

\* A float below 2^15: a sign, and the magnitude m / (512 * s).  It is zero, or
\* normalized: m has 24 bits.  (In the code s is a power of two; no property needs it.)
Float ==
  [negative : BOOLEAN, m : {m \in Nat : m = 0 \/ (8388608 <= m /\ m < 16777216)},
   s : Nat \ {0}]

ASSUME NaNAssumption == NaN \notin Int
ASSUME NumberAssumption ==
  /\ Position \subseteq Number /\ Velocity \subseteq Number /\ Gain \subseteq Number
  /\ Damping \subseteq Number /\ Torque \subseteq Number /\ Feedforward \subseteq Float
  /\ \A raw \in Raw : raw \in Nat /\ raw < 65536

VARIABLES
  command,    \* the message in hand: a ControlMessage, or codes of the drive
  frame,      \* the data bytes of its frame (of a position frame, the last four)
  estimates   \* pos, vel and torque of recv_callback

nvars == <<command, frame, estimates>>

None == [mode |-> "none"]

-----------------------------------------------------------------------------
(* Scaling.                                                                *)

MIT_P == [min |-> -12500, max |-> 12500, top |-> 65535]
MIT_V == [min |-> -45000, max |-> 45000, top |-> 4095]
MIT_KP == [min |-> 0, max |-> 500000, top |-> 4095]
MIT_KD == [min |-> 0, max |-> 5000, top |-> 4095]
MIT_T == [min |-> -18000, max |-> 18000, top |-> 4095]

\* std::max(min_val, std::min(max_val, val)); every comparison with a NaN is
\* false, which leaves max_val.
clamp(val, range) ==
  IF val = NaN \/ val > range.max THEN range.max
  ELSE IF val < range.min THEN range.min ELSE val

\* The cast truncates.
float_to_uint(x, range) ==
  (((clamp(x, range) - range.min) * range.top) \div (range.max - range.min)) % 65536

\* 0.001f is Thousandth / 2^33, slightly more than a thousandth.
Thousandth == 8589935

\* One digit of a long division by Thousandth, of <<quotient, remainder>>.
divide_on(digits, base) ==
  << digits[1] * base + (digits[2] * base) \div Thousandth,
     (digits[2] * base) % Thousandth >>

\* m * 64^3 * base / Thousandth, rounded to the nearest integer (Thousandth is odd:
\* there are no ties).
rounded_quotient(m, base) ==
  LET digits == divide_on(divide_on(divide_on(divide_on(
                  <<m \div Thousandth, m % Thousandth>>, 64), 64), 64), base)
  IN  IF 2 * digits[2] > Thousandth THEN digits[1] + 1 ELSE digits[1]

\* The float quotient m / (512 * s) / 0.001f is this over s: 24 bits remain of it.
thousandths(m) ==
  IF m < Thousandth THEN rounded_quotient(m, 64) ELSE 2 * rounded_quotient(m, 32)

\* Mutant: rounds down.
to_int16_floor(x) ==
  (IF x.negative THEN (-thousandths(x.m)) \div x.s ELSE thousandths(x.m) \div x.s) % 65536

\* static_cast<int16_t>(val / 0.001f), as bits: truncated toward zero.  Beyond
\* the range of int16_t it is undefined; both x86 and ARM keep the low bits.
to_int16(x) ==
  (IF x.negative THEN -(thousandths(x.m) \div x.s) ELSE thousandths(x.m) \div x.s) % 65536

-----------------------------------------------------------------------------
(* Packing.                                                                *)

Low(code) == code % 256

\* Mutant: the nibbles of byte 3 trade places.
mit_frame_swapped(p, v, kp, kd, t) ==
  << Low(p \div 256), Low(p),
     Low(v \div 16), ((kp \div 256) % 16) * 16 + (v % 16),
     Low(kp),
     Low(kd \div 16), (kd % 16) * 16 + ((t \div 256) % 16),
     Low(t) >>

mit_frame(p, v, kp, kd, t) ==
  << Low(p \div 256), Low(p),
     Low(v \div 16), (v % 16) * 16 + ((kp \div 256) % 16),
     Low(kp),
     Low(kd \div 16), (kd % 16) * 16 + ((t \div 256) % 16),
     Low(t) >>

\* write_le<int8_t> of (int8_t)(x * 1000); the frame was zeroed before, so
\* the second byte of the 16-bit field stays 0.
feedforward(x) == <<Low(x), 0>>

\* can_set_signal_raw<int16_t>: two bytes, the low one first.
signal16(code) == <<Low(code), Low(code \div 256)>>

\* What the drive reads (external): five codes, ...
drive_mit(data) ==
  << data[1] * 256 + data[2],
     data[3] * 16 + (data[4] \div 16),
     (data[4] % 16) * 256 + data[5],
     data[6] * 16 + (data[7] \div 16),
     (data[7] % 16) * 256 + data[8] >>

\* ... and signed 16-bit numbers of thousandths.
drive_int16(low, high) ==
  LET word == low + 256 * high
  IN  IF word >= 32768 THEN word - 65536 ELSE word

\* The bytes of a MIT feedback frame (external): the node number, 16 bits of
\* position, 12 of velocity, 12 of torque.
drive_report(p, v, t) ==
  <<0, Low(p \div 256), Low(p), Low(v \div 16), (v % 16) * 16 + ((t \div 256) % 16), Low(t)>>

\* Mutant: the upper nibble of byte 4 is not shifted down.
mit_codes_unshifted(data) ==
  << data[2] * 256 + data[3],
     data[4] * 16 + (data[5] % 16),
     (data[5] % 16) * 256 + data[6] >>

\* p_int, v_int and t_int of recv_callback.
mit_codes(data) ==
  << data[2] * 256 + data[3],
     data[4] * 16 + (data[5] \div 16),
     (data[5] % 16) * 256 + data[6] >>

-----------------------------------------------------------------------------
NumbersInit ==
  /\ command = None
  /\ frame = <<>>
  /\ estimates = <<>>

\* ctrl_msg_callback, the MIT case.
send_mit ==
  /\ command = None
  /\ \E p \in Position, v \in Velocity, kp \in Gain, kd \in Damping, t \in Torque :
       /\ command' = [mode |-> "mit", pos |-> p, vel |-> v, kp |-> kp, kd |-> kd, torque |-> t]
       /\ frame' = mit_frame(float_to_uint(p, MIT_P), float_to_uint(v, MIT_V),
                             float_to_uint(kp, MIT_KP), float_to_uint(kd, MIT_KD),
                             float_to_uint(t, MIT_T))
  /\ UNCHANGED estimates

\* ctrl_msg_callback, the position case: the position is copied, the other
\* two are feedforward terms.
send_position ==
  /\ command = None
  /\ \E v \in Velocity \ {NaN}, t \in Torque \ {NaN} :
       /\ command' = [mode |-> "position", vel |-> v, torque |-> t]
       /\ frame' = feedforward(v) \o feedforward(t)
  /\ UNCHANGED estimates

\* encode_buf of Set_Input_Pos, from write of the plugin.
encode_position ==
  /\ command = None
  /\ \E v \in Feedforward, t \in Feedforward :
       /\ command' = [mode |-> "plugin", vel |-> v, torque |-> t]
       /\ frame' = signal16(to_int16(v)) \o signal16(to_int16(t))
  /\ UNCHANGED estimates

\* recv_callback, the MIT case: raw * scale + offset, in millionths of a
\* radian and hundred-thousandths of rad/s and Nm.
recv_mit ==
  /\ command = None
  /\ \E p \in Raw, v \in {raw \in Raw : raw < 4096}, t \in {raw \in Raw : raw < 4096} :
       /\ command' = [mode |-> "feedback", pos |-> p, vel |-> v, torque |-> t]
       /\ frame' = drive_report(p, v, t)
  /\ LET code == mit_codes(frame')
     IN  estimates' = << code[1] * 381 - 12500000,
                         code[2] * 3175 - 6500000,
                         code[3] * 2442 - 5000000 >>

\* The function returns; message, frame and numbers were its own.
return ==
  /\ command # None
  /\ command' = None
  /\ frame' = <<>>
  /\ estimates' = <<>>

NumbersNext == send_mit \/ send_position \/ encode_position \/ recv_mit \/ return

NumbersSpec == NumbersInit /\ [][NumbersNext]_nvars

-----------------------------------------------------------------------------
\* Is the code the last one not above x, or the end of the range beyond it?
\* (The value of a code is code * (max - min) / top + min.)
Nearest(code, x, range) ==
  LET value == code * (range.max - range.min) + range.min * range.top
  IN  /\ code \in 0 .. range.top
      /\ x > range.max => code = range.top
      /\ x < range.min => code = 0
      /\ x \in range.min .. range.max =>
           value <= x * range.top /\ x * range.top - value < range.max - range.min

\* The five fields share bytes 3 and 6 and neither overlap nor lose a bit:
\* what the drive unpacks is, for each field, within one step of what was
\* commanded, saturated at the limits of the field, for any combination of
\* the five (a number out of one field's range never shows up in another).
MITCommandArrives ==
  command.mode = "mit" =>
    LET code == drive_mit(frame)
    IN  /\ command.pos # NaN => Nearest(code[1], command.pos, MIT_P)
        /\ command.vel # NaN => Nearest(code[2], command.vel, MIT_V)
        /\ command.kp # NaN => Nearest(code[3], command.kp, MIT_KP)
        /\ command.kd # NaN => Nearest(code[4], command.kd, MIT_KD)
        /\ command.torque # NaN => Nearest(code[5], command.torque, MIT_T)

\* The estimates are the codes the drive reported, each with the scale and
\* offset of its own field and whatever the neighbouring nibble holds.
FeedbackArrives ==
  command.mode = "feedback" =>
    estimates = << command.pos * 381 - 12500000,
                   command.vel * 3175 - 6500000,
                   command.torque * 2442 - 5000000 >>

\* Is the number read x in thousandths, truncated, as far as a float tells: beyond
\* x by at most a 64th of a step, short of it by less than a step and a 64th, and
\* of its sign?  (x, in thousandths, is 125 * m / (64 * s).)
Truncated(read, x) ==
  LET steps == IF x.negative THEN -read ELSE read
  IN  (125 * x.m) \div (64 * x.s) <= 32766 =>
        /\ steps >= 0
        /\ 64 * (x.s * steps) - 125 * x.m <= x.s
        /\ 125 * x.m - 64 * (x.s * steps) < 65 * x.s

\* A feedforward term the plugin sends loses at most one step of a thousandth and
\* what its floats round (1.0 arrives as 0.999), never grows beyond that rounding nor
\* changes its sign; and a term beyond the 16-bit field (32.767 rev/s or Nm) does not
\* disturb the other one.  (Beyond it the term itself arrives as anything.)
ScaledFeedforwardArrives ==
  command.mode = "plugin" =>
    /\ Truncated(drive_int16(frame[1], frame[2]), command.vel)
    /\ Truncated(drive_int16(frame[3], frame[4]), command.torque)

\* "All of the Message/Service fields are directly related to their
\* corresponding CAN message" (odrive_node/README.md): the feedforward terms
\* of a position command are those of Set_Input_Pos, 16-bit thousandths
\* (can_simple_messages.hpp), as long as they fit.
PositionFeedforwardArrives ==
  command.mode = "position" =>
    /\ command.vel \in -32768 .. 32767 => drive_int16(frame[1], frame[2]) = command.vel
    /\ command.torque \in -32768 .. 32767 => drive_int16(frame[3], frame[4]) = command.torque
=============================================================================
