------------------------------ MODULE MCRouter ------------------------------
(* A ring of four lines, which two announcements and two texts fill; five    *)
(* texts go around it.                                                       *)
EXTENDS RouterInvariant

MCSize == 4 * LineSize
MCWord == 10 * LineSize
MCIds == 1 .. 3
MCSizes == {AnnouncementSize, TextSize}
MCThresholds == {64}
=============================================================================
