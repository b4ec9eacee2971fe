------------------------------ MODULE MCFrames ------------------------------
(***************************************************************************)
(* The data fields of both programs: the messages of can_simple_messages   *)
(* encoded signal by signal, with two complementary bit patterns as values *)
(* and empty or full memory as junk; and numbers at and around the limits  *)
(* of each field, far outside it and in the middle, codes at the nibble    *)
(* and byte boundaries.  The three models share no variable: each is       *)
(* explored while the others rest.                                         *)
(***************************************************************************)
EXTENDS NodeFrames, FrameNumbers

Even == {i \in 0 .. 63 : i % 2 = 0}
Odd == {i \in 0 .. 63 : i % 2 = 1}

TwoPatterns == {Even, Odd}
NoneOrAll == {{}, 0 .. 63}

Positions == {-12501, -12500, -12499, 0, 1, 12499, 12500, 12501, 20000, NaN}
Velocities == {-45001, -44999, -129, 0, 128, 44999, 45000, 60000}
Gains == {-1, 0, 1, 31257, 499999, 500000, 520000}
Dampings == {-2, 0, 313, 4999, 5000, 5001}
Torques == {-18001, -18000, -1, 0, 4, 17999, 18000, 30000}

\* 0, 0.00098 (below 0.001f), 0.001f, 0.0015, 0.005, 1, 2.56, 32.767, 32.768, 40, 64.
Magnitudes ==
  {[m |-> 0, s |-> 1], [m |-> 8388608, s |-> 16777216], [m |-> 8589935, s |-> 16777216],
   [m |-> 12884902, s |-> 16777216], [m |-> 10737418, s |-> 4194304],
   [m |-> 8388608, s |-> 16384], [m |-> 10737418, s |-> 8192], [m |-> 8589672, s |-> 512],
   [m |-> 8589935, s |-> 512], [m |-> 10485760, s |-> 512], [m |-> 8388608, s |-> 256]}

Feedforwards ==
  {[negative |-> n, m |-> x.m, s |-> x.s] : n \in BOOLEAN, x \in Magnitudes}
Codes == {0, 1, 15, 16, 255, 256, 2730, 4095, 4096, 43690, 65535}

FramesInit == Init /\ NumbersInit /\ FieldsInit

FramesNext ==
  \/ command = None /\ idle /\ Next /\ UNCHANGED <<nvars, fvars>>
  \/ message = <<>> /\ idle /\ NumbersNext /\ UNCHANGED <<vars, fvars>>
  \/ message = <<>> /\ command = None /\ FieldsNext /\ UNCHANGED <<vars, nvars>>

FramesSpec == FramesInit /\ [][FramesNext]_<<vars, nvars, fvars>>
=============================================================================
