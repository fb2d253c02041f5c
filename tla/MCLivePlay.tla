----------------------------- MODULE MCLivePlay -----------------------------
(* Small instances of LivePlay for TLC.  The processes are interchangeable,*)
(* and so are the viewers.                                                 *)
EXTENDS LivePlay, TLC

MCPorts == {2, 4}
MCOnePort == {2}
MCSymmetry == Permutations(Procs) \cup Permutations(Workers)
=============================================================================
