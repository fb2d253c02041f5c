----------------------------- MODULE SipServer -----------------------------
(***************************************************************************)
(* The call handling of sip_server: the pool of RTP ports (SipServer.cpp), *)
(* the two call tables (SipInvite.cpp), the IPC thread that serves the     *)
(* live_server processes (ipc.cpp) and the eXosip event thread.            *)
(*                                                                         *)
(* Two threads of sip_server touch this state.  The IPC thread runs the    *)
(* handlers of on_ipc_recv one after the other; the SIP thread runs        *)
(* OnInviteOK / OnInviteFailed.  Both tables are guarded by m_csGlobalCall,*)
(* but FindByCallID and FindByPort hand out a raw SipCall pointer that is  *)
(* used after the lock is gone, so a handler is split where the lock is.   *)
(*                                                                         *)
(* This module has the state and the steps of sip_server, of the relay     *)
(* (ipc_server) and of the cameras.  Who sends the requests is left to the *)
(* modules that extend it: SipCalls (an abstract, disciplined client) and  *)
(* LivePlay (the live_server program).                                     *)
(***************************************************************************)
EXTENDS Integers, Sequences, FiniteSets, Functions

CONSTANTS
    Procs,    \* IPC names of the live_server processes
    Ports,    \* the configured RTP ports: BeginPort + 2i, i < PortNum
    MaxCalls, \* bound: SipCall objects ever allocated
    MaxCids,  \* bound: INVITEs ever sent
    MaxReqs   \* bound: request ids of one live_server process

ASSUME PortsAssumption  == Ports \subseteq Nat \ {0} /\ IsFiniteSet(Ports)
ASSUME ProcsAssumption  == "none" \notin Procs
ASSUME BoundsAssumption == MaxCalls \in Nat /\ MaxCids \in Nat /\ MaxReqs \in Nat \ {0}

NoCall   == 0   \* a null SipCall*, or no entry in a table
NoPort   == -1  \* what GetRtpPort returns when the pool is empty
NullPort == 0   \* the port of a failure answer, and of a zeroed PlayRequest
NoCid    == -1  \* m_nCallID before the INVITE, and eXosip's error code

Calls  == 1..MaxCalls
Cids   == 1..MaxCids
ReqIds == 0..(MaxReqs - 1)
PortKeys == Ports \cup {NullPort, NoPort}
CidKeys  == Cids \cup {NoCid}

VARIABLES
    ports,      \* _rtpPorts, a list used first in, first out
    deviceCall, \* m_mapDeviceCall: port -> SipCall*, NoCall where absent
    globalCall, \* m_mapGlobalCall: eXosip call id -> SipCall*
    call,       \* the heap of SipCall objects
    ipc,        \* what the IPC thread is doing between two critical sections
    sip,        \* what the SIP thread is doing between two critical sections
    events,     \* eXosip events not yet taken by SeverThread
    dialog,     \* the signalling of each INVITE, as eXosip and the camera see it
    connected,  \* the live_server processes connected to ipc_server
    toSip,      \* per process: messages on their way to sip_server
    toLive      \* per process: messages on their way to live_server

sipVars == <<ports, deviceCall, globalCall, call, ipc, sip, events, dialog>>
ipcVars == <<connected, toSip, toLive>>
baseVars == <<ports, deviceCall, globalCall, call, ipc, sip, events, dialog,
              connected, toSip, toLive>>

Msg == [type : {"live_init", "live_play", "stop_play", "close",
                "live_init_answer", "live_play_answer"},
        id   : ReqIds, port : PortKeys, ret : {0, -1}]

LiveInit(id)      == [type |-> "live_init", id |-> id, port |-> NullPort, ret |-> 0]
LivePlay(id, p)   == [type |-> "live_play", id |-> id, port |-> p, ret |-> 0]
StopPlayMsg(p)    == [type |-> "stop_play", id |-> 0, port |-> p, ret |-> 0]
CloseMsg          == [type |-> "close", id |-> 0, port |-> NullPort, ret |-> 0]
InitAnswer(id, p, r) == [type |-> "live_init_answer", id |-> id, port |-> p, ret |-> r]
PlayAnswer(id, p, r) == [type |-> "live_play_answer", id |-> id, port |-> p, ret |-> r]

(***************************************************************************)
(* SipCall objects.  "new" is memory not allocated yet, "freed" an object  *)
(* after delete: pointers to it may still exist, and its old fields are    *)
(* what a reader of the freed memory may see.                              *)
(***************************************************************************)
NoProc == "none"
SipCall == [st : {"new", "live", "freed"}, proc : Procs \cup {NoProc}, id : ReqIds,
            port : PortKeys, cid : CidKeys, did : {-1, 1}]

IdleIpc == [at |-> "idle", obj |-> NoCall, cid |-> NoCid]
IdleSip == [at |-> "idle", obj |-> NoCall, cid |-> NoCid]

DialogStates == {"none", "calling", "answered", "rejected", "active", "failed", "closed"}

(* The elements of a set of ports as a list, smallest first.               *)
Ascending(S) ==
    { s \in Bijection(1..Cardinality(S), S) : \A i, j \in DOMAIN s : i < j => s[i] < s[j] }

SipInit ==
    /\ ports \in Ascending(Ports)
    /\ deviceCall = [p \in PortKeys |-> NoCall]
    /\ globalCall = [c \in CidKeys |-> NoCall]
    /\ call = [k \in Calls |-> [st |-> "new", proc |-> NoProc, id |-> 0, port |-> NullPort,
                                cid |-> NoCid, did |-> -1]]
    /\ ipc = IdleIpc
    /\ sip = IdleSip
    /\ events = << >>
    /\ dialog = [c \in Cids |-> [st |-> "none", obj |-> NoCall]]
    /\ connected = Procs
    /\ toSip = [c \in Procs |-> << >>]
    /\ toLive = [c \in Procs |-> << >>]

-----------------------------------------------------------------------------
(* ipc_server relays a message to the named client, if it is connected.    *)
Relay(c, msgs) ==
    toLive' = IF c \in connected THEN [toLive EXCEPT ![c] = @ \o msgs] ELSE toLive

(* The IPC thread takes the next message of some client: FIFO per sender,  *)
(* any order between senders.                                              *)
Receive(c, type) ==
    /\ ipc.at = "idle"
    /\ toSip[c] # << >>
    /\ Head(toSip[c]).type = type
    /\ toSip' = [toSip EXCEPT ![c] = Tail(@)]

FreshCall(k) == call[k].st = "new" /\ \A j \in Calls : j < k => call[j].st # "new"
FreshCid(d)  == dialog[d].st = "none" /\ \A e \in Cids : e < d => dialog[e].st # "none"

(* live_init with a port left: GetRtpPort, InviteInit (insert keeps an old *)
(* entry), live_init_answer.                                               *)
PlayInit(c) ==
    /\ Receive(c, "live_init")
    /\ ports # << >>
    /\ LET p  == Head(ports)
           id == Head(toSip[c]).id
       IN /\ ports' = Tail(ports)
          /\ \E k \in Calls :
                /\ FreshCall(k)
                /\ call' = [call EXCEPT ![k] = [st |-> "live", proc |-> c, id |-> id, port |-> p,
                                                cid |-> NoCid, did |-> -1]]
                /\ deviceCall' = [deviceCall EXCEPT ![p] = IF @ = NoCall THEN k ELSE @]
          /\ Relay(c, << InitAnswer(id, p, 0) >>)
    /\ UNCHANGED <<globalCall, ipc, sip, events, dialog, connected>>

(* live_init with an empty pool: PlayInit answers port -1 itself, and the  *)
(* IPC handler answers once more, with port 0.                             *)
PlayInitNoPort(c) ==
    /\ Receive(c, "live_init")
    /\ ports = << >>
    /\ LET id == Head(toSip[c]).id
       IN Relay(c, << InitAnswer(id, NoPort, 0), InitAnswer(id, NullPort, -1) >>)
    /\ UNCHANGED <<sipVars, connected>>

(* live_play for a port without a call, or an INVITE that eXosip cannot    *)
(* build: SendInvite returns -1, which RealPlay takes for a call id, so    *)
(* there is no INVITE and no answer either.                                *)
RealPlayUnsent(c) ==
    /\ Receive(c, "live_play")
    /\ UNCHANGED <<sipVars, connected, toLive>>

(* live_play: FindByPort, then the INVITE leaves under the eXosip lock.    *)
(* The call id is known to this thread only.                               *)
SendInvite(c) ==
    /\ Receive(c, "live_play")
    /\ LET k == deviceCall[Head(toSip[c]).port]
       IN /\ k # NoCall
          /\ \/ \E d \in Cids :
                  /\ FreshCid(d)
                  /\ dialog' = [dialog EXCEPT ![d] = [st |-> "calling", obj |-> k]]
                  /\ ipc' = [at |-> "invited", obj |-> k, cid |-> d]
             \/ /\ ipc' = [at |-> "invited", obj |-> k, cid |-> NoCid]
                /\ UNCHANGED dialog
    /\ UNCHANGED <<ports, deviceCall, globalCall, call, sip, events, connected, toLive>>

(* ... and only then is the call indexed by its call id.                   *)
IndexCall ==
    /\ ipc.at = "invited"
    /\ call' = [call EXCEPT ![ipc.obj].cid = ipc.cid]
    /\ globalCall' = [globalCall EXCEPT ![ipc.cid] = IF @ = NoCall THEN ipc.obj ELSE @]
    /\ ipc' = IdleIpc
    /\ UNCHANGED <<ports, deviceCall, sip, events, dialog, connected, toSip, toLive>>

(* StopSipCall: delete the object, drop it from the call-id index, BYE if  *)
(* a dialog is known; StopPlay: return the port.  Faulty forms first.      *)
DeletedIfIndexed(k) ==
    IF globalCall[call[k].cid] = NoCall THEN call ELSE [call EXCEPT ![k].st = "freed"]
Deleted(k) == [call EXCEPT ![k].st = "freed"]

StillIndexed(k) == globalCall
Unindexed(k) == [globalCall EXCEPT ![call[k].cid] = NoCall]

ReturnedIfIndexed(p, k) == IF globalCall[call[k].cid] = NoCall THEN ports ELSE Append(ports, p)
Returned(p, k) == Append(ports, p)

(* stop_play of a port with a call.                                        *)
StopPlay(c) ==
    /\ Receive(c, "stop_play")
    /\ LET p == Head(toSip[c]).port
           k == deviceCall[p]
           d == call[k].cid
       IN /\ p # NoPort
          /\ k # NoCall
          /\ deviceCall' = [deviceCall EXCEPT ![p] = NoCall]
          /\ call' = Deleted(k)
          /\ globalCall' = Unindexed(k)
          /\ dialog' = IF globalCall[d] # NoCall /\ d > 0 /\ call[k].did >= 0
                       THEN [dialog EXCEPT ![d].st = "closed"] ELSE dialog
          /\ ports' = Returned(p, k)
    /\ UNCHANGED <<ipc, sip, events, connected, toLive>>

(* stop_play of a port without a call: the port is given back all the same.*)
StopPlayUnknown(c) ==
    /\ Receive(c, "stop_play")
    /\ LET p == Head(toSip[c]).port
       IN /\ p # NoPort
          /\ deviceCall[p] = NoCall
          /\ ports' = Append(ports, p)
    /\ UNCHANGED <<deviceCall, globalCall, call, ipc, sip, events, dialog, connected, toLive>>

(* stop_play "4294967295" (port -1 as uint32): stoi throws out of the IPC  *)
(* callback and the process ends.                                          *)
StopPlayThrows(c) ==
    /\ Receive(c, "stop_play")
    /\ Head(toSip[c]).port = NoPort
    /\ ipc' = [IdleIpc EXCEPT !.at = "dead"]
    /\ sip' = [IdleSip EXCEPT !.at = "dead"]
    /\ UNCHANGED <<ports, deviceCall, globalCall, call, events, dialog, connected, toLive>>

(* "close" of a process: every call of it ends, its ports are given back   *)
(* in the order of the map, that is ascending.                             *)
PortsOfAnybody(c) == { p \in PortKeys : deviceCall[p] # NoCall }
PortsAnswered(c) ==
    { p \in PortKeys : deviceCall[p] # NoCall /\ call[deviceCall[p]].proc = c /\ call[deviceCall[p]].did >= 0 }
PortsOf(c) == { p \in PortKeys : deviceCall[p] # NoCall /\ call[deviceCall[p]].proc = c }

StopPlayAll(c) ==
    /\ Receive(c, "close")
    /\ LET gone  == PortsOf(c)
           ended == { deviceCall[p] : p \in gone }
       IN /\ deviceCall' = [p \in PortKeys |-> IF p \in gone THEN NoCall ELSE deviceCall[p]]
          /\ call' = [k \in Calls |-> IF k \in ended THEN [call[k] EXCEPT !.st = "freed"] ELSE call[k]]
          /\ globalCall' = [d \in CidKeys |->
                              IF \E k \in ended : call[k].cid = d THEN NoCall ELSE globalCall[d]]
          /\ dialog' = [d \in Cids |->
                          IF \E k \in ended : call[k].cid = d /\ call[k].did >= 0
                          THEN [dialog[d] EXCEPT !.st = "closed"] ELSE dialog[d]]
          /\ \E order \in Ascending(gone) :
                ports' = ports \o [i \in DOMAIN order |-> call[deviceCall[order[i]]].port]
    /\ UNCHANGED <<ipc, sip, events, connected, toLive>>

IpcThread(c) ==
    \/ PlayInit(c) \/ PlayInitNoPort(c) \/ RealPlayUnsent(c) \/ SendInvite(c)
    \/ StopPlay(c) \/ StopPlayUnknown(c) \/ StopPlayThrows(c) \/ StopPlayAll(c)

-----------------------------------------------------------------------------
(* SeverThread takes an event.  Events of a call that is not indexed are   *)
(* dropped by OnInviteOK / OnInviteFailed (CHECK_POINT_VOID).              *)
SipEvent(kind) == sip.at = "idle" /\ events # << >> /\ Head(events).kind = kind

DropEvent ==
    /\ sip.at = "idle" /\ events # << >>
    /\ globalCall[Head(events).cid] = NoCall
    /\ events' = Tail(events)
    /\ UNCHANGED <<ports, deviceCall, globalCall, call, ipc, sip, dialog, ipcVars>>

(* FindByCallID returns a raw pointer; the lock is released on return.     *)
FindByCallID(kind) ==
    /\ SipEvent(kind)
    /\ LET d == Head(events).cid
       IN /\ globalCall[d] # NoCall
          /\ sip' = [at |-> kind, obj |-> globalCall[d], cid |-> d]
    /\ events' = Tail(events)
    /\ UNCHANGED <<ports, deviceCall, globalCall, call, ipc, dialog, ipcVars>>

(* The objects an access through pointer k may touch.  The memory of a     *)
(* freed object may be unused or hold a SipCall allocated since.           *)
Touched(k) ==
    IF call[k].st = "live" THEN {k} ELSE {k} \cup { j \in Calls : j > k /\ call[j].st = "live" }

SetDialog(k, did) == \E j \in Touched(k) : call' = [call EXCEPT ![j].did = did]

(* OnInviteOK: the dialog id and the SDP go into the object, and the ACK   *)
(* leaves, unless it cannot be built: then nobody is told of the answer.   *)
DialogIdUnset     == -1
DialogIdOfAnswer  == 1
OnInviteOK ==
    /\ sip.at = "ok"
    /\ SetDialog(sip.obj, DialogIdOfAnswer)
    /\ \/ /\ dialog' = [dialog EXCEPT ![sip.cid].st = IF @ = "answered" THEN "active" ELSE @]
          /\ sip' = [sip EXCEPT !.at = "acked"]
       \/ /\ sip' = IdleSip
          /\ UNCHANGED dialog
    /\ UNCHANGED <<ports, deviceCall, globalCall, ipc, events, ipcVars>>

(* A 200 OK without a body: the body is read through a null pointer, and   *)
(* the process ends.                                                       *)
OnInviteOKThrows ==
    /\ sip.at = "ok"
    /\ ipc' = [IdleIpc EXCEPT !.at = "dead"]
    /\ sip' = [IdleSip EXCEPT !.at = "dead"]
    /\ UNCHANGED <<ports, deviceCall, globalCall, call, events, dialog, ipcVars>>

(* on_play_cb reads the requester out of the object.  Of a freed object it *)
(* reads the old fields, a newer call's, or nothing that names a client.   *)
OnPlayCb ==
    /\ sip.at = "acked"
    /\ \/ \E j \in Touched(sip.obj) :
             Relay(call[j].proc, << PlayAnswer(call[j].id, call[j].port, 0) >>)
       \/ call[sip.obj].st = "freed" /\ UNCHANGED toLive
    /\ sip' = IdleSip
    /\ UNCHANGED <<ports, deviceCall, globalCall, call, ipc, events, dialog, connected, toSip>>

(* OnInviteFailed: ACK, and nothing is told to the live_server.            *)
OnInviteFailed ==
    /\ sip.at = "fail"
    /\ SetDialog(sip.obj, -1)
    /\ dialog' = [dialog EXCEPT ![sip.cid].st = "failed"]
    /\ sip' = IdleSip
    /\ UNCHANGED <<ports, deviceCall, globalCall, ipc, events, ipcVars>>

SipThread ==
    \/ DropEvent \/ FindByCallID("ok") \/ FindByCallID("fail")
    \/ OnInviteOK \/ OnInviteOKThrows \/ OnPlayCb \/ OnInviteFailed

-----------------------------------------------------------------------------
(* The camera side: 200 OK, a failure answer (or eXosip's own NOANSWER), or*)
(* a hang-up, whose event SeverThread only logs.                           *)
DeviceAnswers(d) ==
    /\ dialog[d].st = "calling"
    /\ \/ /\ dialog' = [dialog EXCEPT ![d].st = "answered"]
          /\ events' = Append(events, [kind |-> "ok", cid |-> d])
       \/ /\ dialog' = [dialog EXCEPT ![d].st = "rejected"]
          /\ events' = Append(events, [kind |-> "fail", cid |-> d])
    /\ UNCHANGED <<ports, deviceCall, globalCall, call, ipc, sip, ipcVars>>

DeviceHangsUp(d) ==
    /\ dialog[d].st = "active"
    /\ dialog' = [dialog EXCEPT ![d].st = "closed"]
    /\ UNCHANGED <<ports, deviceCall, globalCall, call, ipc, sip, events, ipcVars>>

-----------------------------------------------------------------------------
(* ipc_server notices that a process is gone: what was under way to it is  *)
(* lost, and sip_server is told with "close" after all its own messages.   *)
Disconnect(c) ==
    /\ c \in connected
    /\ connected' = connected \ {c}
    /\ toLive' = [toLive EXCEPT ![c] = << >>]
    /\ toSip' = [toSip EXCEPT ![c] = Append(@, CloseMsg)]

SipTypeOK ==
    /\ ports \in Seq(PortKeys)
    /\ deviceCall \in [PortKeys -> Calls \cup {NoCall}]
    /\ globalCall \in [CidKeys -> Calls \cup {NoCall}]
    /\ call \in [Calls -> SipCall]
    /\ ipc \in [at : {"idle", "invited", "dead"}, obj : Calls \cup {NoCall}, cid : CidKeys]
    /\ sip \in [at : {"idle", "ok", "fail", "acked", "dead"}, obj : Calls \cup {NoCall}, cid : CidKeys]
    /\ sip.at \in {"ok", "fail", "acked"} => sip.obj \in Calls
    /\ events \in Seq([kind : {"ok", "fail"}, cid : Cids])
    /\ dialog \in [Cids -> [st : DialogStates, obj : Calls \cup {NoCall}]]
    /\ connected \in SUBSET Procs
    /\ toSip \in [Procs -> Seq(Msg)]
    /\ toLive \in [Procs -> Seq(Msg)]

(* Once a call has ended, its INVITE is over on the camera's side too      *)
(* (SipInvite.h:34, StopSipCall "ends the session"): no dialog is left     *)
(* calling, answered or streaming without a call that could still end it.  *)
NoOrphanDialog ==
    \A d \in Cids :
        dialog[d].obj # NoCall /\ call[dialog[d].obj].st = "freed"
            => dialog[d].st \in {"closed", "failed"}

(* The lent ports, as RtpPortPool sees them.                               *)
Holder == [p \in Ports |-> IF deviceCall[p] = NoCall THEN NoProc ELSE call[deviceCall[p]].proc]

(* A port lent to a process that has gone comes back to the pool, whatever *)
(* stage its call was in and whatever the process sent before: StopPlayAll *)
(* (ipc.cpp:53) reaches it, unless sip_server has ended: an earlier        *)
(* stop_play or an answer without a body does that.                        *)
PortsOfTheDeadReturn ==
    \A c \in Procs, p \in Ports :
        (c \notin connected /\ Holder[p] = c) ~> (Holder[p] # c \/ ipc.at = "dead")
=============================================================================
