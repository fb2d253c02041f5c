----------------------------- MODULE MCSipCalls -----------------------------
(* Small instances of SipCalls for TLC.  Ports are even numbers, as        *)
(* BeginPort + 2i is; the processes are interchangeable.                   *)
EXTENDS SipCalls, TLC

MCPorts == {2, 4}
MCSymmetry == Permutations(Procs)
=============================================================================
