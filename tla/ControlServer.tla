----------------------------- MODULE ControlServer -----------------------------
(***************************************************************************)
(* control_server (server.cpp, ipc.cpp) and what it knows of the others:   *)
(*   - the viewers of every live server, which each server tells it when   *)
(*     they change (worker.cpp, worker/ipc.cpp);                           *)
(*   - the device table of sip_server, which it asks for when a page wants *)
(*     it, and busily waits for on its only uv loop.                       *)
(* Its loop thread and its IPC thread share the request.  The device table *)
(* is a version number.  ipc_server is external: messages under one name   *)
(* stay in order, and a lost client causes one "close" behind what it had  *)
(* sent; its successor may have connected, and sent, before that.          *)
(***************************************************************************)
EXTENDS Integers, Sequences

CONSTANTS
    Lives,       \* live servers, by name
    Viewers,
    MaxVersion,  \* changes of the device table
    MaxEvents,   \* viewers coming and going, live servers dying
    MaxRequests, \* device lists asked for
    MaxRestarts, \* of control_server
    LateClose    \* a live server's successor may be heard before its "close"

ASSUME ControlAssumption ==
    /\ MaxVersion \in Nat /\ MaxEvents \in Nat /\ MaxRequests \in Nat /\ MaxRestarts \in Nat
    /\ LateClose \in BOOLEAN

VARIABLES
    \* control_server
    at,          \* its loop thread
    req,         \* the DevRequest: [id, finish, info], and asked: the version at that time
    ret,         \* the copy of its info
    _ID, _mapDevs,
    recv,        \* its IPC thread: [at, id, info] while it has _csDevs for an answer
    _mapClients, \* live server -> the viewers it told of
    dead,        \* died of a torn string
    \* the others
    _listWorkers,      \* of every live server
    closing,           \* its processes that ended, their "close" not sent yet
    version,           \* of sip_server's table
    \* messages
    toCtrl,            \* from each live server, in order
    toSip, fromSip,
    \* history
    missed,            \* live servers whose viewers control_server has lost
    timedOut, started, \* of the request; version when control_server started
    events, requests, restarts

ctrlVars == <<at, req, ret, _ID, _mapDevs>>
liveVars == <<_listWorkers, closing, missed, events>>
hist     == <<timedOut, started, requests, restarts>>
vars == <<ctrlVars, recv, _mapClients, dead, liveVars, version, toCtrl, toSip, fromSip, hist>>

(* What info may be besides a version: empty, "time out", torn.            *)
None    == -1
TimeOut == -2
Torn    == -3
NoReq   == [id |-> -1, finish |-> FALSE, info |-> None, asked |-> 0]
Nobody  == [l \in {} |-> {}]
Free    == [at |-> "idle", id |-> -1, info |-> None]
Close        == [msg |-> "close", list |-> {}]
Clients(w)   == [msg |-> "clients", list |-> w]

Init ==
    /\ at = "idle" /\ req = NoReq /\ ret = None /\ _ID = 0 /\ _mapDevs = {}
    /\ recv = Free /\ _mapClients = Nobody /\ dead = FALSE
    /\ _listWorkers = [l \in Lives |-> {}]
    /\ closing = [l \in Lives |-> 0] /\ missed = {} /\ events = 0
    /\ version = 0 /\ toCtrl = [l \in Lives |-> << >>] /\ toSip = << >> /\ fromSip = << >>
    /\ timedOut = FALSE /\ started = 0 /\ requests = 0 /\ restarts = 0

-----------------------------------------------------------------------------
(* The live servers.  The list changes and is sent under _csWorkers.       *)
Changes(l, list) ==
    /\ events < MaxEvents
    /\ LateClose \/ closing[l] = 0
    /\ events' = events + 1
    /\ _listWorkers' = [_listWorkers EXCEPT ![l] = list]
    /\ toCtrl' = [toCtrl EXCEPT ![l] = Append(@, Clients(list))]
    /\ missed' = missed \ {l}
    /\ UNCHANGED <<closing, ctrlVars, recv, _mapClients, dead, version, toSip, fromSip, hist>>

CreatLiveWorker(l) == \E w \in Viewers \ _listWorkers[l] : Changes(l, _listWorkers[l] \union {w})
CloseWorker(l)     == \E w \in _listWorkers[l] : Changes(l, _listWorkers[l] \ {w})

(* The process ends; its successor starts with an empty list, and sends    *)
(* nothing before that changes.                                            *)
Dies(l) ==
    /\ events < MaxEvents
    /\ events' = events + 1
    /\ _listWorkers' = [_listWorkers EXCEPT ![l] = {}]
    /\ closing' = [closing EXCEPT ![l] = @ + 1]
    /\ missed' = missed \ {l}
    /\ UNCHANGED <<ctrlVars, recv, _mapClients, dead, version, toCtrl, toSip, fromSip, hist>>

(* ipc_server has noticed it.  The notice bears the name of the successor, *)
(* whose viewers it takes away if they have been sent already.             *)
CloseNoticed(l) ==
    /\ closing[l] > 0
    /\ closing' = [closing EXCEPT ![l] = @ - 1]
    /\ toCtrl' = [toCtrl EXCEPT ![l] = Append(@, Close)]
    /\ missed' = IF _listWorkers[l] = {} THEN missed ELSE missed \union {l}
    /\ UNCHANGED <<ctrlVars, recv, _mapClients, dead, _listWorkers, events, version, toSip, fromSip, hist>>

(* sip_server.                                                             *)
TableChanges ==
    /\ version < MaxVersion
    /\ version' = version + 1
    /\ UNCHANGED <<ctrlVars, recv, _mapClients, dead, liveVars, toCtrl, toSip, fromSip, hist>>

AnswersDevGet ==
    /\ toSip # << >>
    /\ toSip' = Tail(toSip)
    /\ fromSip' = Append(fromSip, [id |-> Head(toSip), json |-> version])
    /\ UNCHANGED <<ctrlVars, recv, _mapClients, dead, liveVars, version, toCtrl, hist>>

(* sip_server is not there.                                                *)
DevGetLost ==
    /\ toSip # << >>
    /\ toSip' = Tail(toSip)
    /\ UNCHANGED <<ctrlVars, recv, _mapClients, dead, liveVars, version, toCtrl, fromSip, hist>>

-----------------------------------------------------------------------------
(* control_server's IPC thread, on_ipc_recv.                               *)
StillListed(l) == _mapClients
Unlisted(l) == [k \in DOMAIN _mapClients \ {l} |-> _mapClients[k]]

OnClose(l) ==
    /\ Head(toCtrl[l]).msg = "close"
    /\ _mapClients' = Unlisted(l)

OnClients(l) ==
    /\ Head(toCtrl[l]).msg = "clients"
    /\ _mapClients' = [k \in DOMAIN _mapClients \union {l} |->
                          IF k = l THEN Head(toCtrl[l]).list ELSE _mapClients[k]]

OnLiveServer(l) ==
    /\ ~dead /\ recv.at = "idle" /\ toCtrl[l] # << >>
    /\ OnClose(l) \/ OnClients(l)
    /\ toCtrl' = [toCtrl EXCEPT ![l] = Tail(@)]
    /\ UNCHANGED <<ctrlVars, recv, dead, liveVars, version, toSip, fromSip, hist>>

(* dev_get_answer: find the request under _csDevs, assign, finish.         *)
FindDevRequest ==
    /\ ~dead /\ recv.at = "idle" /\ fromSip # << >>
    /\ fromSip' = Tail(fromSip)
    /\ recv' = IF Head(fromSip).id \in _mapDevs
               THEN [at |-> "assign", id |-> Head(fromSip).id, info |-> Head(fromSip).json] ELSE Free
    /\ UNCHANGED <<ctrlVars, _mapClients, dead, liveVars, version, toCtrl, toSip, hist>>

AssignInfo ==
    /\ ~dead /\ recv.at = "assign"
    /\ req' = [req EXCEPT !.info = IF @ = Torn THEN Torn ELSE recv.info]
    /\ recv' = [recv EXCEPT !.at = "finish"]
    /\ UNCHANGED <<at, ret, _ID, _mapDevs, _mapClients, dead, liveVars, version, toCtrl, toSip, fromSip, hist>>

SetFinish ==
    /\ ~dead /\ recv.at = "finish"
    /\ req' = [req EXCEPT !.finish = TRUE]
    /\ recv' = Free
    /\ UNCHANGED <<at, ret, _ID, _mapDevs, _mapClients, dead, liveVars, version, toCtrl, toSip, fromSip, hist>>

IpcThread == (\E l \in Lives : OnLiveServer(l)) \/ FindDevRequest \/ AssignInfo \/ SetFinish

-----------------------------------------------------------------------------
(* control_server's loop thread, GetDevsJson.                              *)
SameId == _ID
NextId == _ID + 1

ListDevRequest ==
    /\ ~dead /\ at = "idle" /\ requests < MaxRequests
    /\ requests' = requests + 1
    /\ req' = [id |-> _ID, finish |-> FALSE, info |-> None, asked |-> version]
    /\ _ID' = NextId
    /\ _mapDevs' = _mapDevs \union {_ID}
    /\ at' = "send"
    /\ UNCHANGED <<ret, recv, _mapClients, dead, liveVars, version, toCtrl, toSip, fromSip,
                   timedOut, started, restarts>>

SendDevGet ==
    /\ ~dead /\ at = "send"
    /\ toSip' = Append(toSip, req.id)
    /\ at' = "wait"
    /\ UNCHANGED <<req, ret, _ID, _mapDevs, recv, _mapClients, dead, liveVars, version, toCtrl, fromSip, hist>>

WaitEnds ==
    /\ ~dead /\ at = "wait" /\ req.finish
    /\ at' = "copy"
    /\ UNCHANGED <<req, ret, _ID, _mapDevs, recv, _mapClients, dead, liveVars, version, toCtrl, toSip, fromSip, hist>>

(* Thirty seconds are over: finish and info are set without the lock.      *)
OnlyAnswerEnds == FALSE
MayTimeOut     == ~req.finish

TimesOut ==
    /\ ~dead /\ at = "wait" /\ MayTimeOut
    /\ req' = [req EXCEPT !.finish = TRUE]
    /\ timedOut' = TRUE
    /\ at' = "late"
    /\ UNCHANGED <<ret, _ID, _mapDevs, recv, _mapClients, dead, liveVars, version, toCtrl, toSip, fromSip,
                   started, requests, restarts>>

(* A std::string two threads are at is torn, or the process dies of it.    *)
Raced    == recv.at = "assign" /\ recv.id = req.id
Outcomes == { died \in BOOLEAN : died => Raced }

SetTimeOut ==
    /\ ~dead /\ at = "late"
    /\ dead' \in Outcomes
    /\ req' = [req EXCEPT !.info = IF Raced THEN Torn ELSE TimeOut]
    /\ at' = "copy"
    /\ UNCHANGED <<ret, _ID, _mapDevs, recv, _mapClients, liveVars, version, toCtrl, toSip, fromSip, hist>>

CopyInfo ==
    /\ ~dead /\ at = "copy"
    /\ dead' \in Outcomes
    /\ ret' = IF Raced THEN Torn ELSE req.info
    /\ at' = "erase"
    /\ UNCHANGED <<req, _ID, _mapDevs, recv, _mapClients, liveVars, version, toCtrl, toSip, fromSip, hist>>

(* Erased under _csDevs, deleted, and the page is written.                 *)
Anytime  == TRUE
LockFree == recv.at = "idle"

EraseAndAnswer ==
    /\ ~dead /\ at = "erase" /\ LockFree
    /\ _mapDevs' = _mapDevs \ {req.id}
    /\ req' = NoReq
    /\ ret' = None /\ timedOut' = FALSE
    /\ at' = "idle"
    /\ UNCHANGED <<_ID, recv, _mapClients, dead, liveVars, version, toCtrl, toSip, fromSip,
                   started, requests, restarts>>

LoopThread == SendDevGet \/ WaitEnds \/ TimesOut \/ SetTimeOut \/ CopyInfo \/ EraseAndAnswer

(* control_server is stopped and started: what was sent to it is lost,     *)
(* what it sent is not, and its ids begin again.                           *)
CtrlRestarts ==
    /\ restarts < MaxRestarts
    /\ restarts' = restarts + 1
    /\ at' = "idle" /\ req' = NoReq /\ ret' = None /\ _ID' = 0 /\ _mapDevs' = {}
    /\ recv' = Free /\ _mapClients' = Nobody /\ dead' = FALSE
    /\ toCtrl' = [l \in Lives |-> << >>] /\ fromSip' = << >>
    /\ missed' = { l \in Lives : _listWorkers[l] # {} } /\ started' = version /\ timedOut' = FALSE
    /\ UNCHANGED <<_listWorkers, closing, events, version, toSip, requests>>

-----------------------------------------------------------------------------
LiveServers == \E l \in Lives : CreatLiveWorker(l) \/ CloseWorker(l) \/ Dies(l) \/ CloseNoticed(l)
SipServer   == TableChanges \/ AnswersDevGet \/ DevGetLost

Next == LiveServers \/ SipServer \/ IpcThread \/ ListDevRequest \/ LoopThread \/ CtrlRestarts

Spec     == Init /\ [][Next]_vars
FairSpec == Spec /\ WF_vars(LoopThread) /\ WF_vars(IpcThread)
-----------------------------------------------------------------------------
(* Every variable stays in its type.                                       *)
Infos == {None, TimeOut, Torn} \union (0..MaxVersion)
TypeOK ==
    /\ at \in {"idle", "send", "wait", "late", "copy", "erase"}
    /\ req \in [id : -1..MaxRequests, finish : BOOLEAN, info : Infos, asked : 0..MaxVersion]
    /\ ret \in Infos /\ _ID \in 0..MaxRequests /\ _mapDevs \subseteq 0..MaxRequests
    /\ recv \in [at : {"idle", "assign", "finish"}, id : -1..MaxRequests, info : Infos]
    /\ DOMAIN _mapClients \subseteq Lives /\ \A l \in DOMAIN _mapClients : _mapClients[l] \subseteq Viewers
    /\ dead \in BOOLEAN /\ _listWorkers \in [Lives -> SUBSET Viewers]
    /\ version \in 0..MaxVersion /\ missed \subseteq Lives /\ closing \in [Lives -> Nat]
    /\ toCtrl \in [Lives -> Seq([msg : {"close", "clients"}, list : SUBSET Viewers])]
    /\ toSip \in Seq(0..MaxRequests) /\ fromSip \in Seq([id : 0..MaxRequests, json : 0..MaxVersion])

(* ipc.cpp:26-58, worker.cpp:693-731: once what a live server and its      *)
(* predecessors sent has been handled, the page shows it with the viewers  *)
(* it has, no one who left or whose server died among them.  It shows none *)
(* of them only if its list has not changed since control_server was       *)
(* restarted, or since its predecessor's close came behind it.             *)
ListsLivingWorkers ==
    \A l \in Lives : toCtrl[l] = << >> /\ closing[l] = 0 =>
        IF l \in DOMAIN _mapClients THEN _mapClients[l] = _listWorkers[l]
                                    ELSE _listWorkers[l] = {} \/ l \in missed

(* ipc.cpp:51-57, 120-126: a request is listed exactly as long as it       *)
(* exists, and the IPC thread never holds a request that has been deleted. *)
ListedWhileAwaited ==
    /\ _mapDevs = IF at = "idle" THEN {} ELSE {req.id}
    /\ recv.at # "idle" => recv.id = req.id

(* ipc.cpp:98-129: a device page shows sip_server's table as it was after  *)
(* the page was asked for, however late the answers to earlier pages come. *)
(* It may be torn text only after its time-out, or when control_server has *)
(* been restarted and an answer to its predecessor meets the same id; then *)
(* the table may also be older than the page, but not than the restart.    *)
AnswerIsFresh ==
    at = "erase" =>
        CASE ret = TimeOut -> timedOut
          [] ret = Torn    -> timedOut \/ restarts > 0
          [] OTHER -> ret \in (IF restarts = 0 THEN req.asked ELSE started)..version

(* ipc.cpp:110-118: every device page is answered, also when sip_server is *)
(* not there, so that the only loop thread goes on.                        *)
EveryPageAnswered == (at # "idle") ~> (at = "idle" \/ dead)
=============================================================================
