------------------------------ MODULE MCChannel ------------------------------
(* A ring of four cache lines with two ids and payloads that fill exactly  *)
(* one line, spill by one byte into a second, need three lines, or exactly   *)
(* the whole ring.                                                           *)
EXTENDS ChannelInvariant

MCSize == 4 * LineSize
MCWord == 10 * LineSize
MCIds == {1, 2}
MCSizes == {56, 57, 184, 248}
MCThresholds == {64, 120}

(* A ring larger than split_threshold, so that available_write() takes each  *)
(* of its branches; 376 bytes fit a tail of four lines and a head of two     *)
(* only if the second header is counted.  For 504 bytes can_write() computes *)
(* with 576, the largest number below MCWord on a line, for 505 with 0.      *)
MCLargeSize == 8 * LineSize
MCOneId == {1}
MCLargeSizes == {56, 57, 248, 376, 504, 505}
MCOneThreshold == {64}

(* Enough for the drained ring that looks full. *)
MCTwoSizes == {56, 184}
=============================================================================
