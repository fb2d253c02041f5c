---------------------------- MODULE RtpPortPool ----------------------------
(***************************************************************************)
(* What sip_server promises about its RTP ports, without lists, tables or  *)
(* messages: a port is free or lent to one live_server process; a process  *)
(* gets only free ports, gives back its own, and loses them all at once    *)
(* when it disconnects.                                                    *)
(***************************************************************************)
CONSTANTS Procs, Ports, Nobody

VARIABLE holder

PoolTypeOK == holder \in [Ports -> Procs \cup {Nobody}]

PoolInit == holder = [p \in Ports |-> Nobody]

(* PlayInit hands a free port to the process that asked.                   *)
Lend(c, p) == holder[p] = Nobody /\ holder' = [holder EXCEPT ![p] = c]

(* StopPlay takes one port back.                                           *)
TakeBack(c, p) == holder[p] = c /\ holder' = [holder EXCEPT ![p] = Nobody]

(* StopPlayAll takes all ports of a process back.                          *)
TakeBackAll(c) == holder' = [p \in Ports |-> IF holder[p] = c THEN Nobody ELSE holder[p]]

PoolNext ==
    \E c \in Procs : TakeBackAll(c) \/ \E p \in Ports : Lend(c, p) \/ TakeBack(c, p)

PoolSpec == PoolInit /\ [][PoolNext]_holder
=============================================================================
