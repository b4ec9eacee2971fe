----------------------------- MODULE CanSignal -----------------------------
(***************************************************************************)
(* How the plugin lays the signals of a message into the eight data bytes  *)
(* of a frame and takes them out again (can_helpers.hpp, called by the     *)
(* encode_buf and decode_buf of can_simple_messages.hpp).                  *)
(*                                                                         *)
(* A word is the set of the places of its one bits, bit 0 the least        *)
(* significant of byte 0.  A value of a type narrower than 64 bits is put  *)
(* into the union of can_set_signal_raw through its narrow member, so the  *)
(* wide member that is shifted in holds anything above it; the frame       *)
(* itself is an uninitialised local of Axis::send.                         *)
(***************************************************************************)
EXTENDS Naturals, Sequences

CONSTANTS
  Messages,   \* the layout of each message: the signals in encoding order
  Values,     \* bound: the bit patterns tried as values of a signal
  Junk,       \* bound: the bit patterns tried as uninitialised memory
  WordBits    \* the bits of the data field

\* A signal: its name, first bit and length, and the width of its C++ type.
Signal == [name : STRING, start : Nat, length : Nat, width : Nat]

ASSUME WordAssumption == WordBits \in Nat
ASSUME PatternAssumption == Values \subseteq SUBSET Nat /\ Junk \subseteq SUBSET Nat
ASSUME LayoutAssumption ==
  \A m \in Messages :
    /\ m \in Seq(Signal)
    /\ \A k \in 1 .. Len(m) : /\ m[k].length <= m[k].width
                              /\ m[k].start + m[k].length <= WordBits
    /\ \A j, k \in 1 .. Len(m) : j < k => m[j].start + m[j].length <= m[k].start

VARIABLES
  message,  \* the message being encoded
  values,   \* the values of its members, as bits of their type
  next,     \* the signal encode_buf sets next
  buf       \* the data bytes

vars == <<message, values, next, buf>>

Bit == 0 .. WordBits - 1
Places(signal) == signal.start .. signal.start + signal.length - 1

\* tempVal >> shift & mask.  (The memcpy before it takes 64 bytes from a data field of
\* eight.  Only the first eight are looked at; reading the others is left out.)
can_get_signal_raw(word, signal) ==
  {i \in 0 .. signal.length - 1 : i + signal.start \in word}

\* A plausible slip: the bits are or-ed in without clearing the field.
can_set_signal_raw_no_mask(word, bits, signal) ==
  {i \in Bit : \/ i \in word
               \/ i >= signal.start /\ i - signal.start \in bits}

\* A plausible slip: a wider word than the frame.
can_set_signal_raw_wide(word, bits, signal) ==
  (word \ Places(signal)) \cup {i + signal.start : i \in bits}

\* data &= ~(mask << shift); data |= valAsBits << shift.
can_set_signal_raw(word, bits, signal) ==
  {i \in Bit : \/ i \in word /\ i \notin Places(signal)
               \/ i >= signal.start /\ i - signal.start \in bits}

\* What a member of a type of that many bits holds of a pattern.
Narrow(pattern, width) == {i \in pattern : i < width}

-----------------------------------------------------------------------------
\* A frame on the stack and a message whose members have been assigned.
Fresh(m) ==
  /\ m \in Messages
  /\ \E pattern \in [1 .. Len(m) -> Values] :
       values' = [k \in 1 .. Len(m) |-> Narrow(pattern[k], m[k].width)]
  /\ message' = m
  /\ next' = 1
  /\ \E junk \in Junk : buf' = junk \cap Bit

Init ==
  /\ message = <<>>
  /\ values = <<>>
  /\ next = 1
  /\ buf \in {junk \cap Bit : junk \in Junk}

\* Axis::send begins a new frame.
begin == next > Len(message) /\ \E m \in Messages : Fresh(m)

\* One statement of encode_buf.  The wide union member holds junk above the
\* type.
encode_signal ==
  /\ next <= Len(message)
  /\ \E junk \in Junk :
       buf' = can_set_signal_raw(buf, values[next] \cup (junk \ (0 .. message[next].width - 1)),
                                 message[next])
  /\ next' = next + 1
  /\ UNCHANGED <<message, values>>

Next == begin \/ encode_signal

Spec == Init /\ [][Next]_vars

-----------------------------------------------------------------------------
TypeOK ==
  /\ message \in Messages \cup {<<>>}
  /\ DOMAIN values = 1 .. Len(message)
  /\ \A k \in 1 .. Len(message) : values[k] \subseteq 0 .. message[k].width - 1
  /\ next \in 1 .. Len(message) + 1
  /\ buf \subseteq Bit

\* decode_buf reads back every signal encode_buf has set so far, cut to the
\* signal's length, although each store also writes whatever lay above the
\* value over the bits behind it: the layouts list the signals from the
\* lowest bit up, so the next store clears what the one before spilled.
DecodesWhatWasEncoded ==
  \A k \in 1 .. next - 1 :
    can_get_signal_raw(buf, message[k]) = {i \in values[k] : i < message[k].length}
=============================================================================
