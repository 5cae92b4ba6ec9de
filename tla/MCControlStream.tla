--------------------------- MODULE MCControlStream ---------------------------
(* Bytes below 5 and messages of up to 6: a shutdown message has three bytes *)
(* (two for "SHUTDOWN:"), the length of the longest report needs both bytes, *)
(* and one report is longer than a message may be.                           *)
EXTENDS ControlStream

MCPrefix == <<2, 3>>
MCGraceful == <<4>>
MCForceful == <<2>>
MCBothPlatforms == {"linux", "bsd"}
MCReportSizes == {2, 6, 7}
=============================================================================
