------------------------------ MODULE LivePlay ------------------------------
(***************************************************************************)
(* live_server playing GB28181 cameras through sip_server: one thread per  *)
(* viewer runs play() of main.cpp, the uv loop runs stop() when the viewer *)
(* is gone, and the IPC thread runs on_ipc_recv of ipcex.cpp.  They share  *)
(* the map _PlayRequests (locked), the PlayRequest (not locked) and the    *)
(* RtpData hung on the worker (not locked).                                *)
(*                                                                         *)
(* Three constants narrow the environment to see what the program does     *)
(* when nothing is hurried or late:                                        *)
(*   Patient   viewers leave only after play() has returned;               *)
(*   Timely    sip_server and the camera answer within 30 s;               *)
(*   Apart     no two viewers of a process are between the load and the    *)
(*             store of _ID++ at the same time.                            *)
(***************************************************************************)
EXTENDS SipServer

CONSTANTS
    Workers,      \* CLiveWorker slots of one live_server process
    MaxCrashes,   \* bound: live_server processes that die
    EarlyRestart, \* a process may be back before its "close" is handled
    Patient, Timely, Apart

ASSUME LiveAssumption ==
    MaxCrashes \in Nat /\ {EarlyRestart, Patient, Timely, Apart} \subseteq BOOLEAN

VARIABLES
    worker,  \* per process and slot: a viewer's thread and its PlayRequest
    nextReq, \* per process: _ID
    sent,    \* bound: live_init messages sent by all processes
    crashes  \* bound: deaths so far

liveVars == <<worker, nextReq, sent, crashes>>
vars == <<baseVars, liveVars>>

(* One viewer.  "at" is where the thread is: not there, started (m_pPlay   *)
(* is NULL), with _ID loaded, with _ID stored, waiting in CreateReal,      *)
(* RtpData filled in, waiting in RealPlay, playing.  "left": stop() has    *)
(* run already.  id, port, ret, finish are the PlayRequest, "listed" its   *)
(* being in _PlayRequests, "rtp" the port in RtpData.                      *)
Worker == [at : {"none", "started", "loaded", "numbered", "init", "filled", "wait", "playing", "failed"},
           left : BOOLEAN, listed : BOOLEAN, id : ReqIds, port : PortKeys, ret : {0, -1},
           finish : BOOLEAN, rtp : PortKeys]

NoWorker == [at |-> "none", left |-> FALSE, listed |-> FALSE, id |-> 0, port |-> NullPort, ret |-> 0,
             finish |-> FALSE, rtp |-> NullPort]

Init ==
    /\ SipInit
    /\ worker = [c \in Procs |-> [w \in Workers |-> NoWorker]]
    /\ nextReq = [c \in Procs |-> 0]
    /\ sent = 0
    /\ crashes = 0

SendToSip(c, m) == toSip' = [toSip EXCEPT ![c] = Append(@, m)]

(* The process dies, all its threads with it.                              *)
Dies(c) ==
    /\ crashes < MaxCrashes
    /\ crashes' = crashes + 1
    /\ Disconnect(c)
    /\ worker' = [worker EXCEPT ![c] = [w \in Workers |-> NoWorker]]
    /\ UNCHANGED <<sipVars, nextReq, sent>>

Restarts(c) ==
    /\ c \notin connected
    /\ EarlyRestart \/ toSip[c] = << >>
    /\ connected' = connected \cup {c}
    /\ nextReq' = [nextReq EXCEPT ![c] = 0]
    /\ UNCHANGED <<sipVars, toSip, toLive, worker, sent, crashes>>

-----------------------------------------------------------------------------
(* The thread of a viewer: play().                                         *)

(* CreatLiveWorker starts the thread.                                      *)
Connects(c, w) ==
    /\ c \in connected
    /\ worker[c][w].at = "none"
    /\ worker' = [worker EXCEPT ![c][w] = [NoWorker EXCEPT !.at = "started"]]
    /\ UNCHANGED <<baseVars, nextReq, sent, crashes>>

(* play() up to the wait of CreateReal.  RtpData is allocated, not         *)
(* initialised.  _ID++ takes no lock: it is a load and a store, and other  *)
(* viewers' threads may come in between.                                   *)
LoadId(c, w) ==
    /\ worker[c][w].at = "started"
    /\ nextReq[c] < MaxReqs
    /\ Apart => \A v \in Workers : worker[c][v].at # "loaded"
    /\ worker' = [worker EXCEPT ![c][w] = [@ EXCEPT !.at = "loaded", !.id = nextReq[c]]]
    /\ UNCHANGED <<baseVars, nextReq, sent, crashes>>

SameId(n) == n
NextId(n) == n + 1

StoreId(c, w) ==
    /\ worker[c][w].at = "loaded"
    /\ worker' = [worker EXCEPT ![c][w].at = "numbered"]
    /\ nextReq' = [nextReq EXCEPT ![c] = NextId(worker[c][w].id)]
    /\ UNCHANGED <<baseVars, sent, crashes>>

(* The request is listed, unless one with its id already is (map::insert), *)
(* and live_init is sent.                                                  *)
IdFree(c, id) == \A v \in Workers : ~(worker[c][v].listed /\ worker[c][v].id = id)

CreateReal(c, w) ==
    /\ worker[c][w].at = "numbered"
    /\ sent < MaxCalls
    /\ worker' = [worker EXCEPT ![c][w] = [@ EXCEPT !.at = "init", !.listed = IdFree(c, worker[c][w].id)]]
    /\ sent' = sent + 1
    /\ SendToSip(c, LiveInit(worker[c][w].id))
    /\ UNCHANGED <<sipVars, connected, toLive, nextReq, crashes>>

(* The two waits give up after 30 s, and call that a success: ret = 0.     *)
TimesOutInInit(at) == at = "init"
CanTimeOut(at) == at \in {"init", "wait"}

TimesOut(c, w) ==
    /\ ~Timely
    /\ CanTimeOut(worker[c][w].at) /\ ~worker[c][w].finish
    /\ worker' = [worker EXCEPT ![c][w] = [@ EXCEPT !.finish = TRUE, !.ret = 0]]
    /\ UNCHANGED <<baseVars, nextReq, sent, crashes>>

(* CreateReal has returned: the port goes into RtpData, a CRtpStream is    *)
(* made to listen on it.                                                   *)
RtpPortUnset(r) == r.rtp
RtpPort(r) == r.port

FillRtpData(c, w) ==
    /\ worker[c][w].at = "init" /\ worker[c][w].finish
    /\ worker' = [worker EXCEPT ![c][w] = [@ EXCEPT !.at = "filled", !.rtp = RtpPort(worker[c][w])]]
    /\ UNCHANGED <<baseVars, nextReq, sent, crashes>>

(* RealPlay: the request is armed again, then live_play is sent (its id is *)
(* not read by sip_server).                                                *)
RealPlay(c, w) ==
    /\ worker[c][w].at = "filled"
    /\ worker' = [worker EXCEPT ![c][w] = [@ EXCEPT !.at = "wait", !.ret = 0, !.finish = FALSE]]
    /\ SendToSip(c, LivePlay(0, worker[c][w].port))
    /\ UNCHANGED <<sipVars, connected, toLive, nextReq, sent, crashes>>

(* RealPlay has returned: DestoryRequest drops the id from the list, and   *)
(* the stream is opened with what came.  When the viewer is gone, RtpData  *)
(* and the stream are freed memory: the process may die of it, or the      *)
(* thread ends.                                                            *)
NothingErased(r, id) == r.listed
Unlisted(r, id) == r.listed /\ r.id # id

Played(c, w) ==
    /\ worker[c][w].at = "wait" /\ worker[c][w].finish
    /\ \/ LET r == worker[c][w]
              then == IF r.left THEN "none" ELSE IF r.ret # 0 THEN "failed" ELSE "playing"
          IN /\ worker' = [worker EXCEPT ![c] =
                     [v \in Workers |-> [worker[c][v] EXCEPT !.at = IF v = w THEN then ELSE @,
                                                             !.listed = Unlisted(worker[c][v], r.id)]]]
             /\ UNCHANGED <<baseVars, nextReq, sent, crashes>>
       \/ worker[c][w].left /\ Dies(c)

-----------------------------------------------------------------------------
(* The uv loop: the viewer is gone, CLiveWorker::close runs stop().        *)

(* Before play() has hung RtpData on the worker: a null pointer is read.   *)
LeavesAtOnce(c, w) ==
    /\ ~Patient
    /\ worker[c][w].at = "started"
    /\ Dies(c)

(* While RtpData is uninitialised: any port is stopped, and a wild pointer *)
(* is used as the stream, of which the process dies or not.                *)
LeavesInInit(c, w) ==
    /\ ~Patient
    /\ worker[c][w].at \in {"loaded", "numbered", "init"} /\ ~worker[c][w].left
    /\ \/ \E garbage \in PortKeys :
             /\ SendToSip(c, StopPlayMsg(garbage))
             /\ worker' = [worker EXCEPT ![c][w].left = TRUE]
             /\ UNCHANGED <<sipVars, connected, toLive, nextReq, sent, crashes>>
       \/ Dies(c)

(* Before play() has returned: the port is stopped, play() goes on.        *)
LeavesInPlay(c, w) ==
    /\ ~Patient
    /\ worker[c][w].at \in {"filled", "wait"} /\ ~worker[c][w].left
    /\ SendToSip(c, StopPlayMsg(worker[c][w].rtp))
    /\ worker' = [worker EXCEPT ![c][w].left = TRUE]
    /\ UNCHANGED <<sipVars, connected, toLive, nextReq, sent, crashes>>

Leaves(c, w) ==
    /\ worker[c][w].at \in {"playing", "failed"}
    /\ SendToSip(c, StopPlayMsg(worker[c][w].rtp))
    /\ worker' = [worker EXCEPT ![c][w] = NoWorker]
    /\ UNCHANGED <<sipVars, connected, toLive, nextReq, sent, crashes>>

-----------------------------------------------------------------------------
(* The IPC thread: on_ipc_recv writes into the listed request with the id. *)
OnIpcRecv(c) ==
    /\ c \in connected
    /\ toLive[c] # << >>
    /\ toLive' = [toLive EXCEPT ![c] = Tail(@)]
    /\ LET m == Head(toLive[c])
           Got(r) ==
               IF ~r.listed \/ r.id # m.id THEN r
               ELSE IF m.type = "live_init_answer"
                    THEN [r EXCEPT !.port = m.port, !.finish = TRUE]
                    ELSE [r EXCEPT !.port = m.port, !.ret = m.ret, !.finish = TRUE]
       IN worker' = [worker EXCEPT ![c] = [w \in Workers |-> Got(worker[c][w])]]
    /\ UNCHANGED <<sipVars, connected, toSip, nextReq, sent, crashes>>

-----------------------------------------------------------------------------
PlayThread(c, w) ==
    \/ LoadId(c, w) \/ StoreId(c, w) \/ CreateReal(c, w)
    \/ TimesOut(c, w) \/ FillRtpData(c, w) \/ RealPlay(c, w) \/ Played(c, w)

Viewer(c, w) ==
    \/ Connects(c, w)
    \/ LeavesAtOnce(c, w) \/ LeavesInInit(c, w) \/ LeavesInPlay(c, w) \/ Leaves(c, w)

SipServerStep ==
    \/ \E c \in Procs : IpcThread(c)
    \/ IndexCall
    \/ SipThread

Device == \E d \in Cids : DeviceAnswers(d) \/ DeviceHangsUp(d)

Next ==
    \/ (SipServerStep \/ Device) /\ UNCHANGED liveVars
    \/ \E c \in Procs :
          \/ OnIpcRecv(c) \/ Dies(c) \/ Restarts(c)
          \/ \E w \in Workers : PlayThread(c, w) \/ Viewer(c, w)

Spec == Init /\ [][Next]_vars

(* Every thread of live_server and sip_server runs when it can; the waits  *)
(* poll the clock.  Viewers and cameras owe nothing.                       *)
FairSpec ==
    /\ Spec
    /\ \A c \in Procs :
          /\ WF_vars(OnIpcRecv(c))
          /\ WF_vars(IpcThread(c) /\ UNCHANGED liveVars)
          /\ \A w \in Workers : WF_vars(PlayThread(c, w))
    /\ WF_vars(IndexCall /\ UNCHANGED liveVars)
    /\ WF_vars(SipThread /\ UNCHANGED liveVars)

-----------------------------------------------------------------------------
(* Every variable stays in its type.                                       *)
LiveTypeOK ==
    /\ SipTypeOK
    /\ worker \in [Procs -> [Workers -> Worker]]
    /\ nextReq \in [Procs -> 0..MaxReqs]

(* ipcex.cpp:42-57 writes through the pointers in _PlayRequests: whatever  *)
(* answers, timeouts, viewers and even equal ids do, no pointer is left in *)
(* it to a request that DestoryRequest has deleted, nor two under one id.  *)
Using(r) == r.at \in {"init", "filled", "wait"}

NoStaleRequest ==
    \A c \in Procs, w \in Workers :
        worker[c][w].listed =>
            /\ Using(worker[c][w])
            /\ \A v \in Workers : v # w /\ worker[c][v].listed => worker[c][v].id # worker[c][w].id

(* As long as the viewers do not race for _ID (ipcex.cpp:77), the answer   *)
(* to a request finds it: a request is listed exactly as long as play()    *)
(* uses it, however the viewers of a process interleave otherwise.         *)
RequestsListedWhileUsed ==
    Apart => \A c \in Procs, w \in Workers : worker[c][w].listed <=> Using(worker[c][w])

(* play() never waits for ever, even if sip_server has died, the camera    *)
(* has refused (OnInviteFailed answers nobody) or the answer was lost.     *)
PlayReturns ==
    \A c \in Procs, w \in Workers :
        Using(worker[c][w]) ~> ~Using(worker[c][w])

(* A camera that streams for a call has a listener: exactly one viewer of  *)
(* the process the call belongs to listens on the call's port, or the stop *)
(* of that port is already on its way (main.cpp play, SipInvite.cpp SDP).  *)
Listens(c, w, p) == worker[c][w].at \in {"filled", "wait", "playing", "failed"} /\ worker[c][w].rtp = p
StopUnderWay(c, p) == \E i \in DOMAIN toSip[c] : toSip[c][i] = StopPlayMsg(p)

ListensWhereCameraSends ==
    \A d \in Cids :
        LET k == dialog[d].obj
        IN dialog[d].st = "active" /\ call[k].st = "live" =>
              LET c == call[k].proc
                  listeners == { w \in Workers : Listens(c, w, call[k].port) }
              IN Cardinality(listeners) = IF StopUnderWay(c, call[k].port) THEN 0 ELSE 1

-----------------------------------------------------------------------------
(* With patient viewers and timely answers live_server is the disciplined  *)
(* client of SipCalls.                                                     *)
Granted(r, p) == (r.at = "init" /\ r.finish /\ r.port = p) \/ (r.at = "filled" /\ r.rtp = p)
Asked(r, p)   == r.at = "wait" /\ ~r.finish /\ r.rtp = p
Playing(r, p) == ((r.at = "wait" /\ r.finish) \/ r.at = "playing") /\ r.rtp = p

HoldOf(viewers, p) ==
    IF \E w \in Workers : Granted(viewers[w], p) THEN "granted"
    ELSE IF \E w \in Workers : Asked(viewers[w], p) THEN "asked"
    ELSE IF \E w \in Workers : Playing(viewers[w], p) THEN "playing" ELSE "none"

Hold == [c \in Procs |-> [p \in Ports |-> HoldOf(worker[c], p)]]

Client == INSTANCE SipCalls WITH hold <- Hold, EarlyStop <- FALSE

(* live_server keeps to the protocol that SipCalls states and proves the   *)
(* conservation of ports for.                                              *)
KeepsTheProtocol == Client!Spec
=============================================================================
