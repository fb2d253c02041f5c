------------------------------ MODULE SipCalls ------------------------------
(***************************************************************************)
(* sip_server with live_server processes that keep to the protocol: a      *)
(* process plays and stops only ports it was given, each once.  They may   *)
(* crash at any moment and be restarted.                                   *)
(*                                                                         *)
(* Two constants widen the clients to what the real live_server also does: *)
(*   EarlyStop    stop a port between live_play and its answer (a viewer   *)
(*                leaves while the camera is being called);                *)
(*   EarlyRestart connect again before sip_server has handled the messages *)
(*                of the crashed process.                                  *)
(***************************************************************************)
EXTENDS SipServer

CONSTANTS MaxCrashes, EarlyStop, EarlyRestart

ASSUME ClientAssumption ==
    MaxCrashes \in Nat /\ EarlyStop \in BOOLEAN /\ EarlyRestart \in BOOLEAN

VARIABLES
    hold,    \* per process and port: the port's RtpData, as the process sees it
    nextReq, \* per process: _ID of ipcex.cpp
    sent,    \* bound: live_init messages sent by all processes
    crashes  \* bound: crashes so far

clientVars == <<hold, nextReq, sent, crashes>>
vars == <<baseVars, clientVars>>

HoldStates == {"none", "granted", "asked", "playing"}

Init ==
    /\ SipInit
    /\ hold = [c \in Procs |-> [p \in Ports |-> "none"]]
    /\ nextReq = [c \in Procs |-> 0]
    /\ sent = 0
    /\ crashes = 0

SendToSip(c, m) == toSip' = [toSip EXCEPT ![c] = Append(@, m)]

(* CreateReal: an id is taken, and live_init is sent under an id that has  *)
(* been taken.                                                             *)
ClientTakesId(c) ==
    /\ c \in connected
    /\ nextReq[c] < MaxReqs
    /\ nextReq' = [nextReq EXCEPT ![c] = @ + 1]
    /\ UNCHANGED <<baseVars, hold, sent, crashes>>

ClientInit(c) ==
    /\ c \in connected
    /\ sent < MaxCalls
    /\ \E id \in ReqIds : id < nextReq[c] /\ SendToSip(c, LiveInit(id))
    /\ sent' = sent + 1
    /\ UNCHANGED <<sipVars, connected, toLive, hold, nextReq, crashes>>

(* on_ipc_recv of live_server: an init answer to an id this process has    *)
(* issued grants the port it names, a play answer ends RealPlay's wait.    *)
ClientReceives(c) ==
    /\ c \in connected
    /\ toLive[c] # << >>
    /\ toLive' = [toLive EXCEPT ![c] = Tail(@)]
    /\ LET m == Head(toLive[c])
           p == m.port
       IN hold' = CASE m.type = "live_init_answer" /\ p \in Ports /\ m.id < nextReq[c] -> [hold EXCEPT ![c][p] = "granted"]
                    [] m.type = "live_play_answer" /\ p \in Ports /\ hold[c][p] = "asked"
                          -> [hold EXCEPT ![c][p] = "playing"]
                    [] OTHER -> hold
    /\ UNCHANGED <<sipVars, connected, toSip, nextReq, sent, crashes>>

(* RealPlay.                                                               *)
ClientPlays(c, p) ==
    /\ c \in connected
    /\ hold[c][p] = "granted"
    /\ hold' = [hold EXCEPT ![c][p] = "asked"]
    /\ SendToSip(c, LivePlay(0, p))
    /\ UNCHANGED <<sipVars, connected, toLive, nextReq, sent, crashes>>

(* stop() of main.cpp, when the viewer is gone.                            *)
StillGranted == "granted"
AfterStop    == "none"
ClientStops(c, p) ==
    /\ c \in connected
    /\ hold[c][p] \in IF EarlyStop THEN {"granted", "asked", "playing"} ELSE {"granted", "playing"}
    /\ hold' = [hold EXCEPT ![c][p] = AfterStop]
    /\ SendToSip(c, StopPlayMsg(p))
    /\ UNCHANGED <<sipVars, connected, toLive, nextReq, sent, crashes>>

ClientCrashes(c) ==
    /\ crashes < MaxCrashes
    /\ Disconnect(c)
    /\ crashes' = crashes + 1
    /\ hold' = [hold EXCEPT ![c] = [p \in Ports |-> "none"]]
    /\ UNCHANGED <<sipVars, nextReq, sent>>

ClientRestarts(c) ==
    /\ c \notin connected
    /\ EarlyRestart \/ toSip[c] = << >>
    /\ connected' = connected \cup {c}
    /\ nextReq' = [nextReq EXCEPT ![c] = 0]
    /\ UNCHANGED <<sipVars, toSip, toLive, hold, sent, crashes>>

Client(c) ==
    \/ ClientTakesId(c) \/ ClientInit(c) \/ ClientReceives(c)
    \/ ClientCrashes(c) \/ ClientRestarts(c)
    \/ \E p \in Ports : ClientPlays(c, p) \/ ClientStops(c, p)

SipServerStep ==
    \/ \E c \in Procs : IpcThread(c)
    \/ IndexCall
    \/ SipThread

Device == \E d \in Cids : DeviceAnswers(d) \/ DeviceHangsUp(d)

Next ==
    \/ SipServerStep /\ UNCHANGED clientVars
    \/ Device /\ UNCHANGED clientVars
    \/ \E c \in Procs : Client(c)

Spec == Init /\ [][Next]_vars

(* The two threads of sip_server run whenever they have something to do:   *)
(* the IPC loop serves each sender's pipe, SeverThread polls every 200 ms. *)
(* Clients, viewers and cameras owe nothing.                               *)
FairSpec ==
    /\ Spec
    /\ \A c \in Procs : WF_vars(IpcThread(c) /\ UNCHANGED clientVars)
    /\ WF_vars(IndexCall /\ UNCHANGED clientVars)
    /\ WF_vars(SipThread /\ UNCHANGED clientVars)

-----------------------------------------------------------------------------
(* Every variable of the model stays in its type.                          *)
TypeOK ==
    /\ SipTypeOK
    /\ hold \in [Procs -> [Ports -> HoldStates]]
    /\ nextReq \in [Procs -> 0..MaxReqs]
    /\ sent \in 0..MaxCalls
    /\ crashes \in 0..MaxCrashes

InPool(p) == \E i \in DOMAIN ports : ports[i] = p

(* SipServer.cpp:46, "taken out when used, put back when the use ends":    *)
(* every configured port is in the pool exactly once or belongs to one     *)
(* call of m_mapDeviceCall, never both, and nothing else is ever pooled.   *)
PortsConserved ==
    /\ \A i, j \in DOMAIN ports : ports[i] = ports[j] => i = j
    /\ \A i \in DOMAIN ports : ports[i] \in Ports
    /\ \A p \in Ports : InPool(p) <=> deviceCall[p] = NoCall

(* No entry of either table outlives its SipCall object, and each entry is *)
(* filed under the port, or the call id, its object carries.               *)
TablesPointToLiveCalls ==
    /\ \A p \in PortKeys : deviceCall[p] # NoCall =>
          call[deviceCall[p]].st = "live" /\ call[deviceCall[p]].port = p
    /\ \A d \in CidKeys : globalCall[d] # NoCall =>
          call[globalCall[d]].st = "live" /\ call[globalCall[d]].cid = d

(* Every call that has not been deleted can still be reached by its port:  *)
(* no SipCall object leaks, across stops, crashes and restarts.            *)
NoCallLeaks ==
    \A k \in Calls : call[k].st = "live" => deviceCall[call[k].port] = k

(* A message of a kind about a port in a list, and there being one at most.*)
HasMsg(s, type, p) == \E i \in DOMAIN s : s[i].type = type /\ s[i].port = p
OneMsg(s, type, p) ==
    \A i, j \in DOMAIN s :
        (s[i].type = type /\ s[i].port = p /\ s[j].type = type /\ s[j].port = p) => i = j

Lent(c, p) == deviceCall[p] # NoCall /\ call[deviceCall[p]].proc = c

(* Who may stop a port: the right to it is in exactly one place, the init  *)
(* answer on its way, the process that holds it, or its stop_play on the   *)
(* way back, and as long as it exists the port is lent to that process.    *)
RightToStop ==
    \A c \in Procs, p \in PortKeys :
        /\ HasMsg(toSip[c], "stop_play", p) =>
              p \in Ports /\ Lent(c, p) /\ hold[c][p] = "none"
                         /\ ~HasMsg(toLive[c], "live_init_answer", p)
        /\ OneMsg(toSip[c], "stop_play", p)
        /\ p \in Ports =>
              /\ HasMsg(toLive[c], "live_init_answer", p) => Lent(c, p) /\ hold[c][p] = "none"
              /\ OneMsg(toLive[c], "live_init_answer", p)
              /\ hold[c][p] # "none" => Lent(c, p)

(* A process that is gone has nothing, and "close" is its last message.    *)
HasClose(s)  == \E i \in DOMAIN s : s[i].type = "close"
CloseLast(s) == \A i \in DOMAIN s : s[i].type = "close" => i = Len(s)
CloseIsLast ==
    \A c \in Procs :
        /\ CloseLast(toSip[c])
        /\ HasClose(toSip[c]) => c \notin connected
        /\ c \notin connected => toLive[c] = << >> /\ \A p \in Ports : hold[c][p] = "none"

(* The device table's half of TablesPointToLiveCalls.                      *)
DeviceTable ==
    \A p \in PortKeys : deviceCall[p] # NoCall =>
        /\ p \in Ports
        /\ call[deviceCall[p]].st = "live" /\ call[deviceCall[p]].port = p

(* The inductive strengthening of PortsConserved.                          *)
IInv == TypeOK /\ DeviceTable /\ PortsConserved /\ RightToStop /\ CloseIsLast

Pool == INSTANCE RtpPortPool WITH holder <- Holder, Nobody <- NoProc

(* The port pool and the call tables together implement the abstract pool: *)
(* no step gives a lent port to another process or takes one back from a   *)
(* process other than its holder.                                          *)
PoolRefined == Pool!PoolSpec

(* SipServer.h:81, StopPlay "closes a live play": a camera that has taken  *)
(* the call when it has already ended is answered all the same, so that    *)
(* it can be told to stop, unless sip_server has ended.                    *)
EndedCallsHangUp ==
    \A d \in Cids :
        (dialog[d].st = "answered" /\ call[dialog[d].obj].st = "freed")
            ~> (dialog[d].st # "answered" \/ ipc.at = "dead")
=============================================================================
