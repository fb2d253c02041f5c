-------------------------- MODULE MCRtpReassembly --------------------------
(* Small instances of RtpReassembly for TLC: the packets that begin frames *)
(* of one, two and three packets.                                          *)
EXTENDS RtpReassembly

MCHeads == {2, 4, 5, 8, 9, 12, 14, 15, 18, 19, 21}

(* The instance satisfies what the theorems of RtpProofs take for granted: *)
(* the age limit spans less than five packets.                             *)
ASSUME MCWideEnough == WideEnough(5)
=============================================================================
